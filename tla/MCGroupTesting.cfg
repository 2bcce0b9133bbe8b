SPECIFICATION Spec
CONSTANTS
  MaxLen = 6
  Target = 2
  MaxRepsBack = 1
  Elem <- MCElem
  Candidates <- MCCandidates
  Groupings <- MCGroupings
INVARIANTS
  TypeOK NothingLost Accounting HeightBound KeepsEvicting SomeChunkGoes FoundIsMinimal
PROPERTIES
  Termination IsReduction
CHECK_DEADLOCK FALSE
