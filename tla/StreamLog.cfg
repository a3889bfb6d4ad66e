SPECIFICATION Spec
CONSTANTS
  a = a
  b = b
  Own = TRUE
  Outliers = TRUE
  Body = {a, b}
  MaxSeq = 3
  MaxHlc = 2
  PendingCap = 2
  Entries <- AllEntries
  Certs <- LateCerts
  Directives <- TwoDirectives
  SnapshotCuts <- SnapshotAt2
  PeerFloors <- FloorAt2
INVARIANTS
  TypeOK
  ChainIntegrity
  RecoveryBacked
PROPERTIES
  NoRowLost
  ForkResolvedByDirective
  RewindSeals
  RgenOnlyFallsFromFork
