CONSTANTS
  Callers = {c1, c2}
  MAX_FACT_LENGTH = 4
  None = None
  NL = NL
  Programs <- MCPrograms
SPECIFICATION FairSpec
INVARIANTS Quiescent NoMixing
PROPERTIES Annotates HealthyCallsReturn
CHECK_DEADLOCK FALSE
