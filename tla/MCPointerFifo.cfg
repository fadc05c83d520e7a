\* Assertions compiled: sizes 2 and 3 pass them, 1 is too small and 4 does not
\* fit a size_t in bytes.  Two blocks, so that a leak or a stale address shows.
SPECIFICATION Spec
CONSTANTS
  Sizes = {1, 2, 3, 4}
  UIntMod = 8
  SizeTMod = 8
  UIntPtrMod = 8
  PointerBytes = 2
  AssertsOn = TRUE
  Blocks = {b1, b2}
  Pointers = {p, q}
  NULL = NULL
  Garbage = Garbage
  Observers = {o}
INVARIANTS
  TypeOK
  OwnsOneBlock
  AccessesInBounds
  StoresIntoFreeSlot
  TakenPointerIntact
  RingInv
PROPERTIES
  Implements
  WriteReturns
  ReadReturns
