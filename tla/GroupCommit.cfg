SPECIFICATION FairSpec
CONSTANTS
  MaxItems = 4
  MaxTime = 1
  HLC_C_LIMIT = 2
  HLC_EPSILON = 1
  Faults <- AllFaults
  Remote <- RemoteStamps
CHECK_DEADLOCK FALSE
INVARIANTS StreamSound AckedDurable CausalIsLast
PROPERTIES EverySettles
