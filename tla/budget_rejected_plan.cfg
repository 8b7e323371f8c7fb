SPECIFICATION Spec
CONSTANTS
  Procs <- MCOne
  Estimates <- MCEstimates
  RunCap = 3
  TotalCap = 4
  Unreadable = Unreadable
  Faults = {"invalid"}
  CrashAt = {}
  MaxCommands = 3
  p1 = p1
  p2 = p2
INVARIANT TotalSpendCapped
CHECK_DEADLOCK FALSE
