SPECIFICATION Spec
CONSTANTS
  n1 = n1 n2 = n2 n3 = n3 n4 = n4 n5 = n5 n6 = n6
  n7 = n7 n8 = n8 n9 = n9 n10 = n10 n11 = n11 n12 = n12
  n13 = n13 n14 = n14 n15 = n15 n16 = n16
  NULL = NULL
  NoPairs = 4
  MaxLong = 99
  Node <- Nodes16
  CacheLen = 3
  PastEnd <- FreshMemory
  Val <- AllVal
  Calls <- CacheCalls
  Fill <- EvenFill
  KmallocFails = FALSE
INVARIANTS
  EntriesCounted
  NullMeansAbsent
