CONSTANTS
  t1 = t1
  t2 = t2
  lib = lib
  jit = jit
  Threads <- TwoThreads
  Mappings <- Changing
  Fixed <- Nothing
  Pcs <- AllPcs
  MaxFrames = 2
  MaxParses = 1
SPECIFICATION Spec
CHECK_DEADLOCK FALSE
INVARIANT InUseNotDeleted
