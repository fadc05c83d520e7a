\* A build with NDEBUG: the degenerate sizes 0 and 1 reach the data path.
SPECIFICATION Spec
CONSTANTS
  Sizes = {0, 1, 2}
  UIntMod = 4
  SizeTMod = 8
  UIntPtrMod = 4
  PointerBytes = 2
  AssertsOn = FALSE
  Blocks = {b1, b2}
  Pointers = {p, q}
  NULL = NULL
  Garbage = Garbage
  Observers = {}
INVARIANTS
  AccessesInBounds
PROPERTIES
  Implements
