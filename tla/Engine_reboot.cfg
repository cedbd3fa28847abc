SPECIFICATION Spec
CONSTANTS
  MsTicks = 1
  MaxTime = 4
  Skew = 0
  JournalLags = FALSE
  Delayed = FALSE
  MaxFaults = 1
  Reboots = TRUE
  WriteErrors = FALSE
INVARIANT OldRebootSilent
CHECK_DEADLOCK FALSE
