\* More numbers than twice the size, so that the fifo is found full and empty and
\* the indices wrap twice.
SPECIFICATION FairSpec
CONSTANTS
  UIntMod = 4
  SizeTMod = 8
  UIntPtrMod = 4
  PointerBytes = 2
  AssertsOn = TRUE
  Blocks = {b}
  NULL = NULL
  Garbage = Garbage
  Size = 2
  Last = 5
INVARIANTS
  QuietAfterDone
  FreesAfterUse
  PrintsInOrder
PROPERTIES
  PrintsAll
