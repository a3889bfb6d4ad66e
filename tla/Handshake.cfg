SPECIFICATION FairSpec
CONSTANTS
  Modes = {"full", "none"}
  MaxUpdates = 1
  Updaters = {"a"}
  SameSchema = TRUE
  Closes = TRUE
CHECK_DEADLOCK FALSE
INVARIANTS TypeOK SettledMeansKnown MutualAgree
PROPERTIES GrantsNeverRevert HelloSettles
