\* Stop is called while Start launches the tasks.
CONSTANTS
  main = main
  probe = probe
  Callers <- MCCallers
  Programs <- OnlyRacing
  EnableAutoCleanup = FALSE
  EnableAutoResolve = FALSE
  MaxStarts = 2
SPECIFICATION Spec
PROPERTY StopLeavesNothing
CHECK_DEADLOCK FALSE
