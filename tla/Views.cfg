SPECIFICATION Spec
CONSTANTS
  MaxOrder = 4
  Key = {"k", "m"}
  Effect <- Puts4
  Cut = 2
  Cover = {2}
  Delta = {FALSE, TRUE}
  FOLD_BATCH = 2
  CHECKPOINT_EVERY = 2
  Bounds <- Faults
  Budget = 2
CHECK_DEADLOCK FALSE
INVARIANTS
  
  ViewIsFold
  TablesAgree
