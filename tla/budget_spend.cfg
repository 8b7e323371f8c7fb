SPECIFICATION Spec
CONSTANTS
  Procs <- MCTwo
  Estimates <- MCEstimates
  RunCap = 2
  TotalCap = 3
  Unreadable = Unreadable
  Faults = {"timeout", "retryable", "refused", "garbled", "invalid", "unmetered"}
  CrashAt = {"check", "post", "record", "save", "writing"}
  MaxCommands = 3
  p1 = p1
  p2 = p2
INVARIANTS LedgerWithinCap OrderlySpendCapped RunSpendCapped LedgerTruthful
SYMMETRY MCSymmetry
CHECK_DEADLOCK FALSE
