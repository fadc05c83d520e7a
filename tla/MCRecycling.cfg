\* Four buffers for two slots: every buffer is filled again while the consumer may
\* still be at the data before, and two laps tell old data from new.
SPECIFICATION Spec
CONSTANTS
  Size = 2
  UIntMod = 4
  UIntPtrMod = 4
  NULL = NULL
  Garbage = Garbage
  Laps = 2
INVARIANTS
  RefillsAfterUse
  DataIntact
