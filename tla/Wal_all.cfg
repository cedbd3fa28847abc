SPECIFICATION FairSpec
CONSTANTS
  Callers = {"monitor", "probe"}
  Fsync = TRUE
  MaxSeq = 2
  HostCrashes = TRUE
  TruncateMayFail = FALSE
INVARIANTS TypeOK InOrder AckedKept DurableUnlessBlocked NoMergedLine
PROPERTIES StateFollowsLog LogSpec Drains
