\* The smallest fifo the assertions admit and more numbers than fit into it.
SPECIFICATION Spec
CONSTANTS
  UIntMod = 4
  SizeTMod = 8
  UIntPtrMod = 4
  PointerBytes = 2
  AssertsOn = TRUE
  Blocks = {b}
  NULL = NULL
  Garbage = Garbage
  Size = 2
  Last = 3
INVARIANTS
  DoneAfterStop
