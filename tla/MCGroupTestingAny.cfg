SPECIFICATION SpecAny
CONSTANTS
  MaxLen = 6
  Target = 2
  MaxRepsBack = 1
  Elem <- MCElem
  Candidates <- MCCandidates
  Groupings <- MCGroupings
INVARIANTS
  FoundKeepsAll LosesOneChunk
CHECK_DEADLOCK FALSE
