\* The statement of README.md about publication, refuted by the first read that
\* returns an item.
SPECIFICATION FairSpec
CONSTANTS
  Size = 2
  UIntMod = 4
  UIntPtrMod = 4
  NULL = NULL
  Garbage = Garbage
  NItems = 1
PROPERTIES
  NoPublication
