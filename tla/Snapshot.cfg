SPECIFICATION FairSpec
CONSTANTS
  Peer = {"p", "q"}
  Chunks = 2
  LaneCap = 2
  MaxGen = 2
  Reach <- Both
  MaxRow = 1
  MaxTask = 2
  Bounds <- Faults
  Budget = 1
CHECK_DEADLOCK FALSE
INVARIANTS
  TransferSound

  
