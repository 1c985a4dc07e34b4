CONSTANTS
  Infinity = Infinity
  Universe = {u1, u2}
  MAX_QUANTIFIER_COUNT = 6
SPECIFICATION Spec
INVARIANTS ProjectionSound ProjectionTight TransitionSound
CHECK_DEADLOCK FALSE
