CONSTANTS
  Infinity = Infinity
  TREE_ROOT = 63
  TREE_ROOT_WORD = "root"
  Pairs <- TestedPairs
  BE <- MCBe
  WOF <- MCOf
  INVALID_WORD = 33554430
  VOCABULARY_ENTROPY = 24
  SamePrefix <- MCSamePrefix
  NewWords <- MCNewWords
  NewMarks <- MCNewMarks
SPECIFICATION AlignSpec
INVARIANTS UnalignedCounted
CHECK_DEADLOCK FALSE
