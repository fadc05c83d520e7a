\* Three slots, so that a batch of several pointers is begun while others are
\* still in the fifo; five numbers tell a pointer from those around it.
SPECIFICATION FairSpec
CONSTANTS
  Size = 3
  UIntMod = 4
  UIntPtrMod = 8
  NULL = NULL
  Garbage = Garbage
  Laps = 5
INVARIANTS
  BatchFits
  BatchComes
PROPERTIES
  KeepsFlowing
