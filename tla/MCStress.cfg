\* More items than twice the size: the indices wrap twice, the fifo is found
\* full and empty.
SPECIFICATION FairSpec
CONSTANTS
  Size = 3
  UIntMod = 4
  UIntPtrMod = 8
  NULL = NULL
  Garbage = Garbage
  NItems = 7
INVARIANTS
  PayloadVisible
  NothingCorrupt
  NoneLost
PROPERTIES
  Terminates
