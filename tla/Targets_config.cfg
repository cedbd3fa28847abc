SPECIFICATION FairSpec
CONSTANTS
  URLs = {"a", "b"}
  Existing = "a"
  Windows = {7, 15}
  MaxSeq = 2
  MaxEdits = 2
  MaxCrashes = 3
  TornCreate = FALSE
  TornMarker = FALSE
  EditURL = FALSE
  HastyReorder = FALSE
INVARIANTS TypeOK NothingSkipped
PROPERTIES MarkedWhenCopied Starts
