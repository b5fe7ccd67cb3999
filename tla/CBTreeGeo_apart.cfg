SPECIFICATION Spec
CONSTANTS
  L1_CACHE_BYTES = 64
  LongBytes = 8
  KeyLen = 2
  Touched <- Ends
PROPERTIES
  WritesApart
INVARIANTS
  PairsInside
