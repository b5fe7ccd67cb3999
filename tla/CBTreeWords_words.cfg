SPECIFICATION Spec
CONSTANTS
  n1 = n1 n2 = n2
  L1_CACHE_BYTES = 64
  LongBytes = 8
  KeyLen = 2
  Base = 3
  Addr <- Nodes
  ClientKeys <- Keys128
  ValueOf <- Values
  Behind <- Elsewhere
  Queue = 99
INVARIANTS
  RowInOrder
  PairsKept
PROPERTIES
  ImplementsPairs
SYMMETRY Either
