SPECIFICATION FairSpec
CONSTANTS
  MaxFlips = 3
  MaxLosses = 2
  SetupErrors = TRUE
  BootErrors = TRUE
  SnapshotFails = TRUE
  JournalFails = TRUE
  WriteErrors = TRUE
INVARIANT TypeOK
PROPERTIES CaughtUp Reconnects
CHECK_DEADLOCK FALSE
