SPECIFICATION Spec
CONSTANTS
  MaxLen = 5
  Long = 13
  Target = 2
  Null = Null
  Elem <- MCElem
  Candidates <- MCCandidates
  Groupings <- MCGroupings
INVARIANTS
  LastLineMissed
PROPERTIES
  IsReduction
CHECK_DEADLOCK FALSE
