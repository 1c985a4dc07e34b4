CONSTANTS
  Infimum <- MCInfimum
  Supremum = 1000
  Shapes <- MCShapes
  Keys <- MCKeys
  MaxTurns = 3
  TurnStep = 3
  NodeValues = {3, 4}
  NoKey = NoKey
  Few = 5
  SetStep = 6
  SetTurns = 2
SPECIFICATION ContainersSpec
INVARIANTS OrderRight SizesRight Verified ReadsRight
PROPERTIES Implements ImplementsSet
CHECK_DEADLOCK FALSE
