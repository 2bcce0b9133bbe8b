SPECIFICATION Spec
CONSTANTS
  MaxLen = 6
  Target = 2
  MaxRepsBack = 1
  Null = Null
  Elem <- MCElem
  Candidates <- MCCandidates
  Groupings <- MCGroupings
INVARIANTS
  BothWays
PROPERTIES
  ImplementsGroupTesting
CHECK_DEADLOCK FALSE
