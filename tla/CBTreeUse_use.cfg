SPECIFICATION Spec
CONSTANTS
  n1 = n1 n2 = n2 n3 = n3 n4 = n4 n5 = n5 n6 = n6
  n7 = n7 n8 = n8 n9 = n9 n10 = n10 n11 = n11 n12 = n12
  NULL = NULL
  NoPairs = 4
  MaxLong = 99
  Node <- Nodes
  CacheLen = 2
  PastEnd <- FreshMemory
  Val <- AllVal
  KmallocFails = FALSE
  TargetKeys <- EvenKeys
  VictimKeys <- OddKeys
  MaxPrograms = 2
INVARIANTS
  MergeKeepsKeys
  MergeMoves
  HeadsApart
  NothingLost
  LoopsVisitAll
  LoopRemovesChosen
  GrimLeavesTree
PROPERTIES
  ProgramsEnd
CHECK_DEADLOCK FALSE
