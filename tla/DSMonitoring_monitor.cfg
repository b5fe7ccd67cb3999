SPECIFICATION Spec
CONSTANTS
  t1 = t1 t2 = t2
  e1 = e1 e2 = e2 e3 = e3 e4 = e4 e5 = e5
  NULL = NULL
  Task <- Tasks
  Index <- Indices
  Elem <- Elems
  MaxFinds = 5
  MaxFailures = 1
INVARIANTS
  TypeOK
  SearchesCounted
  TotalCounted
  LeakBounded
  LagBounded
PROPERTIES
  TasksReturn
CHECK_DEADLOCK FALSE
