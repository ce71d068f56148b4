SPECIFICATION Spec
CONSTANTS
  Clients = {c1, c2}
  c1 = c1
  c2 = c2
  Owner = c1
  LWorkers = {1, 2}
  MinThreads = 1
  MaxLTasks = 3
  Handles = {1, 2, 3}
  MaxSubmits = 3
  TaskIds = {1, 2, 3}
  MaxEdges = 3
  Warp = 4
  Dims = {4, 8}
  MaxGrid = 2
  Lengths = {1, 7, 18}
  Rows = {1, 2}
  MaxSpread = 18
  Shapes <- ShapesUsed
  Values <- ValuesUsed
  GemmSizes = {1, 2}
INVARIANTS LegacyKept OrderKept GraphKept KernelsKept OperatorsKept
CHECK_DEADLOCK FALSE
