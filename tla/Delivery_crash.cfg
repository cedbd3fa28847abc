SPECIFICATION FairSpec
CONSTANTS
  Threads = {"monitor"}
  MaxEvents = 3
  MaxCrashes = 1
  BatchSize = 1
  QueueCap = 3
  Gaps = FALSE
  FillErrors = FALSE
  DiskFills = TRUE
  FullStarts = FALSE
  LossyStops = FALSE
  Rejects = TRUE
INVARIANTS CheckpointCovers Owed DroppedBehindRefusal
PROPERTY Delivers
