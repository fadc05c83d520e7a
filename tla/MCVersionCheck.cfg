\* The largest minor and patch are 4095 and 255: a carry into the next part would
\* show there.
SPECIFICATION CheckSpec
CONSTANTS
  Versions <- MCVersions
  Overrides <- MCOverrides
  Undefined = Undefined
INVARIANTS
  VerdictIsRight
  GettersDecode
