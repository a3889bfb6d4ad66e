SPECIFICATION Spec
CONSTANTS
  Self = 1
  m = m
  Member = {m}
  Script <- Scripts
  Cut = 2
  FOLD_BATCH = 2
  ANCESTOR_WALK_CAP = 4
  Budget = 1
INVARIANTS Sound StateIsFold Judgement
CHECK_DEADLOCK FALSE
