SPECIFICATION Spec
CONSTANTS
  MaxOrder = 4
  Key = {"k", "m"}
  Effect <- Puts4
  Cut = 0
  Cover = {}
  Delta = {FALSE, TRUE}
  FOLD_BATCH = 2
  CHECKPOINT_EVERY = 2
  Bounds <- Restarting
  Budget = 2
INVARIANTS
  ViewComplete
CHECK_DEADLOCK FALSE
