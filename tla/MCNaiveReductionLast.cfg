SPECIFICATION Spec
CONSTANTS
  MaxLen = 4
  Target = 2
  MaxRepsBack = 1
  Null = Null
  Elem <- MCElem
  Candidates <- MCCandidates
  Groupings <- MCGroupings
INVARIANTS
  EssentialPutBack
CHECK_DEADLOCK FALSE
