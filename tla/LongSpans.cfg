CONSTANTS
  BufferSize = 4
  Newline = Newline
  Garbage = Garbage
  Pad = Pad
  Files = {}
  Characters <- MCCharacters
  Lines <- MCLines
  InitialCapacity = 4
  SENSE_ENTROPY = 5
  Infinity = Infinity
  TREE_ROOT = 63
  TREE_ROOT_WORD = "root"
  Responses <- LongResponses
  Unwritten = Unwritten
  MAX_QUERY_LENGTH = 39
  MAX_QUANTIFIER_COUNT = 6
  SPAN_BITS = 5
  Corpora = {}
  CHUNK_SIZE = 2
  MAX_FACT_LENGTH = 5
  AllOnes = AllOnes
  Pairs = {}
  BE <- MCBe
  WOF <- MCOf
  INVALID_WORD = 33554430
  VOCABULARY_ENTROPY = 24
  SamePrefix <- MCSamePrefix
  NewWords <- MCNewWords
  NewMarks <- MCNewMarks
SPECIFICATION MCSpec
INVARIANT ScopesRightAtAnyLength
CHECK_DEADLOCK FALSE
