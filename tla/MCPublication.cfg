\* More items than twice the size: the fifo is found full and empty, the indices
\* wrap around twice.
SPECIFICATION FairSpec
CONSTANTS
  UIntMod = 4
  SizeTMod = 8
  UIntPtrMod = 4
  PointerBytes = 2
  AssertsOn = TRUE
  Blocks = {b}
  NULL = NULL
  Garbage = Garbage
  Size = 2
  N_ITEMS = 5
INVARIANTS
  NoRaces
  NothingCorrupt
  NothingLeftBehind
PROPERTIES
  Terminates
