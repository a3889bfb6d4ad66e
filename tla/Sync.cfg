SPECIFICATION FairSpec
CONSTANTS
  Node = {"a", "b"}
  Link <- AB
  Stream = {"s1", "s2"}
  Author <- AuthorAB
  Starts <- Faulty
  Refused <- Refuse
  MaxSeq = 3
  Budget = 1
  MAX_WANT_CONCURRENT = 1
  ENTRIES_BATCH_MAX = 1
  PENDING_CAP = 1
  LaneCap = 3
CHECK_DEADLOCK FALSE
INVARIANTS
  WantsSound
  ExchangeSound
PROPERTIES
  
  Converges
