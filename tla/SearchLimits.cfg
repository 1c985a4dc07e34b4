CONSTANTS
  Infinity = Infinity
  TREE_ROOT = 63
  TREE_ROOT_WORD = "root"
  Queries <- LimitQueries
  MAX_BRANCHOUT = 2
  SEARCH_CYCLE_MEMORY = 3
  SEARCH_FULL_MEMORY = TRUE
  MaxDependents = 1
  MaxFringe = 4
  TickLimit = 40
SPECIFICATION FairSpec
INVARIANT FringeBounded
PROPERTY Terminates
CHECK_DEADLOCK FALSE
