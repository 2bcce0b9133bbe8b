SPECIFICATION Spec
CONSTANTS
  MaxLen = 4
  Target = 2
  MaxRepsBack = 1
  Elem <- MCElem
  Candidates <- MCCandidates
  Groupings <- MCGroupings
PROPERTIES
  SmallerIsTaken
CHECK_DEADLOCK FALSE
