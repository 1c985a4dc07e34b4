CONSTANTS
  Callers = {c1}
  MAX_FACT_LENGTH = 4
  None = None
  NL = NL
  Programs <- FailsAtOnce
SPECIFICATION FairSpec
PROPERTY EveryCallReturns
CHECK_DEADLOCK FALSE
