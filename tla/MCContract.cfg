\* The size of the test; ten rounds instead of a hundred let the indices wrap
\* around twice more.
SPECIFICATION Spec
CONSTANTS
  UIntMod = 5
  SizeTMod = 16
  UIntPtrMod = 8
  PointerBytes = 2
  AssertsOn = TRUE
  Blocks = {b}
  NULL = NULL
  Garbage = Garbage
  Size = 4
  Rounds = 10
INVARIANTS
  Passes
