SPECIFICATION Spec
CONSTANTS
  MaxLen = 6
  Target = 2
  MaxStuck = 2
  Null = Null
  Elem <- MCElem
  Candidates <- MCCandidates
  Groupings <- MCGroupings
INVARIANTS
  MemoryFollowsRefs
PROPERTIES
  IsReduction
CHECK_DEADLOCK FALSE
