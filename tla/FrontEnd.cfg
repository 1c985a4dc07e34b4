SPECIFICATION Spec
CONSTANTS
  a = a
  b = b
  c = c
  big = big
  none = none
  Empty = none
  Sentences <- MCSentences
  MAX_FACT_LENGTH = 4
  MaxFacts = 3
  WeakFrom = 2
  LostFrom = 4
  OverflowFrom = 6
  Sessions <- MCSessions
  Results <- MCResults
INVARIANTS TypeOK ExamplesAnswered NoCarryOver VerdictSound CheapestWins PassMeansAgree
