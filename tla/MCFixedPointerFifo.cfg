\* A ring of three slots, so that the indices wrap, at the edge of the integer
\* widths: Size is the largest unsigned int.
SPECIFICATION Spec
CONSTANTS
  Size = 3
  UIntMod = 4
  UIntPtrMod = 8
  Pointers = {a, b}
  NULL = NULL
  Garbage = Garbage
  Observers = {o}
INVARIANTS
  TypeOK
  ChecksStayTrue
  IndicesMatchCount
  StoresIntoFreeSlot
  TakenPointerIntact
  RingInv
PROPERTIES
  Implements
  WriteReturns
  ReadReturns
