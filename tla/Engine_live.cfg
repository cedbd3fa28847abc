SPECIFICATION FairSpec
CONSTANTS
  MsTicks = 1
  MaxTime = 5
  Skew = 0
  JournalLags = FALSE
  Delayed = TRUE
  MaxFaults = 1
  Reboots = FALSE
  WriteErrors = TRUE
INVARIANT TypeOK
PROPERTY Ready
CHECK_DEADLOCK FALSE
