\* The three programs, with the two tasks that are always launched.
CONSTANTS
  main = main
  probe = probe
  Callers <- MCCallers
  Programs <- AllPrograms
  EnableAutoCleanup = FALSE
  EnableAutoResolve = FALSE
  MaxStarts = 2
SPECIFICATION FairSpec
INVARIANTS
  TypeOK
  WaitGroupCounts
  NoDoubleClose
  StoppedMeansQuiet
PROPERTIES
  CallsReturn
  CancelEndsAll
CHECK_DEADLOCK FALSE
