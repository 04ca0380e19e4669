CONSTANTS
  t1 = t1
  t2 = t2
  lib = lib
  jit = jit
  Threads <- TwoThreads
  Mappings <- WithTop
  Fixed <- TopOnly
  Pcs <- MCPcs
  MaxFrames = 1
  MaxParses = 2
SPECIFICATION Spec
SYMMETRY Sym
INVARIANTS InUseNotDeleted MapsAreSnapshot FindsMapping
PROPERTY SameMappingSameObject
