SPECIFICATION Spec
CONSTANTS
  MsTicks = 1
  MaxTime = 5
  Skew = 1
  JournalLags = FALSE
  Delayed = FALSE
  MaxFaults = 2
  Reboots = TRUE
  WriteErrors = TRUE
INVARIANTS Agree Captured Forward
CHECK_DEADLOCK FALSE
