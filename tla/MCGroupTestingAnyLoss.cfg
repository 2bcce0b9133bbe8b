SPECIFICATION SpecAny
CONSTANTS
  MaxLen = 4
  Target = 2
  MaxRepsBack = 1
  Elem <- MCElem
  Candidates <- MCCandidates
  Groupings <- MCGroupings
INVARIANTS
  NothingDiscarded
CHECK_DEADLOCK FALSE
