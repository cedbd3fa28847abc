SPECIFICATION Spec
CONSTANTS
  Interval = 2
  MaxTime = 7
  Unrecorded = FALSE
  SubSecond = FALSE
  StaleEngine = FALSE
INVARIANTS TypeOK FillTruthful FillContinuous
CHECK_DEADLOCK FALSE
