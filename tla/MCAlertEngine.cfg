\* Two rules and two entries; windows of a minute, evaluations that take up to
\* a minute, entries that get visible up to a minute late.
CONSTANTS
  Rules <- MCRules
  LogIds = {l1, l2}
  Sources <- MCSources
  Levels <- MCLevels
  LogKinds <- MCKinds
  Drafts <- MCDrafts
  Edits <- MCEdits
  MaxWindow = 1
  MaxElapsed = 1
  MaxDelay = 1
SPECIFICATION FairSpec
INVARIANTS
  TypeOK
  EventSaysWhatWasCounted
PROPERTIES
  CountsWhatWasThere
  KeepsFiring
  ImplementsAlertScan
