CONSTANTS
  BufferSize = 4
  Newline = Newline
  Garbage = Garbage
  Pad = Pad
  Files <- MCFiles
  Characters <- MCCharacters
  Lines <- MCLines
  InitialCapacity = 4
  SENSE_ENTROPY = 5
  Infinity = Infinity
  TREE_ROOT = 63
  TREE_ROOT_WORD = "root"
  Responses <- MCResponses
  Unwritten = Unwritten
  MAX_QUERY_LENGTH = 5
  MAX_QUANTIFIER_COUNT = 2
  SPAN_BITS = 3
  Corpora <- MCCorpora
  CHUNK_SIZE = 2
  MAX_FACT_LENGTH = 5
  AllOnes = AllOnes
  Pairs <- MCPairs
  BE <- MCBe
  WOF <- MCOf
  INVALID_WORD = 33554430
  VOCABULARY_ENTROPY = 24
  SamePrefix <- MCSamePrefix
  NewWords <- MCNewWords
  NewMarks <- MCNewMarks
SPECIFICATION MCSpec
INVARIANTS NothingLost ListsRight TreeRight ScopesRight
  NothingForgotten AlignsAsTested AlignmentRight ScoreTracksTree
CHECK_DEADLOCK FALSE
