SPECIFICATION Spec
CONSTANTS
  c1 = c1 c2 = c2 n1 = n1
  NULL = NULL
  TREE_SIZE = 2
  Rounds = 1
  Cpu <- Cpus
  Node <- Nodes
  CacheLen = 2
  PastEnd <- AnyMemory
  MaxClock = 2
  MaxMoves = 1
  MaxFailures = 1
INVARIANTS
  TreesAlike
  CallsCounted
  TimesApart
  SearchesAgree
  SharesOfLongest
  DiesOfMemoryOrMark
PROPERTIES
  TaskEnds
CHECK_DEADLOCK FALSE
