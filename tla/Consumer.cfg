SPECIFICATION FairSpec
CONSTANTS
  MaxRow = 2
  MaxRegs = 2
  BATCH = 1
  Covers = {{1}}
  Hazards = {{}, {"rewind", "age"}}
CHECK_DEADLOCK FALSE
INVARIANTS CursorSound
PROPERTIES CaughtUpTruthful ArchiveWaits EventuallyDelivered WaiterSettles
