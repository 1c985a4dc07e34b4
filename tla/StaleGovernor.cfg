CONSTANTS
  Infinity = Infinity
  TREE_ROOT = 63
  TREE_ROOT_WORD = "root"
  Queries <- MutateTwice
  MAX_BRANCHOUT = 100
  SEARCH_CYCLE_MEMORY = 3
  SEARCH_FULL_MEMORY = FALSE
  MaxDependents = 8
  MaxFringe = 10000000
  TickLimit = 33554432
SPECIFICATION Spec
INVARIANT FactHashExact
CHECK_DEADLOCK FALSE
