SPECIFICATION Spec
CONSTANTS
  MaxLen = 6
  Target = 2
  MaxRepsBack = 1
  Null = Null
  Elem <- MCElem
  Candidates <- MCCandidates
  Groupings <- MCGroupings
INVARIANTS
  TypeOK OneLineShort OptimisticKeeps NoNullWrite JustTheNecessary
PROPERTIES
  IsReduction Termination
CHECK_DEADLOCK FALSE
