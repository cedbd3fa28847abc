SPECIFICATION Spec
CONSTANTS
  Threads = {"monitor", "prober"}
  MaxEvents = 2
  MaxCrashes = 1
  BatchSize = 2
  QueueCap = 1
  Gaps = TRUE
  FillErrors = TRUE
  DiskFills = TRUE
  FullStarts = TRUE
  LossyStops = TRUE
  Rejects = TRUE
INVARIANT TypeOK
INVARIANT CheckpointEarned
