SPECIFICATION FairSpec
CONSTANTS
  Key = {"k", "m"}
  SubId = {1, 2}
  SnapChunks = 2
  SUB_DELTA_RETAIN = 1
  LaneCap = 2
  Window = 1
  MaxChange = 2
  Big = {FALSE, TRUE}
  Budget = 1
  Bounds <- Faults
CHECK_DEADLOCK FALSE
INVARIANTS
  SubsSound
PROPERTIES
  CatchesUp
