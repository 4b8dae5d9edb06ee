\* Two clients, three log entries in a store of two, two rules of one name.
CONSTANTS
  visitor = visitor
  writer = writer
  Clients <- MCClients
  Requests <- MCRequests
  LogIds = {"l1", "l2", "l3"}
  RuleIds = {"r1", "r2"}
  AlertIds = {"a1"}
  Capacity = 2
  WebDir = TRUE
SPECIFICATION FairSpec
INVARIANTS
  TypeOK
  AsWrittenNeverServes
  AnswerTellsEffect
PROPERTIES
  RulesStayAsCreated
  EveryRequestIsAnswered
CHECK_DEADLOCK FALSE
