SPECIFICATION Spec
CONSTANTS
  Threads = {"monitor"}
  MaxEvents = 3
  MaxCrashes = 1
  BatchSize = 2
  QueueCap = 4
  Gaps = TRUE
  FillErrors = FALSE
  DiskFills = FALSE
  FullStarts = FALSE
  LossyStops = FALSE
  Rejects = FALSE
INVARIANT CheckpointCovers
