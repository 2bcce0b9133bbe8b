SPECIFICATION MCSpec
CONSTANTS
  Elem = {1, 2, 3, 4, 5, 6}
  Page = 0
  Color = {1, 2}
  Way = 1
  Unasked = {0, 1, 2}
  Retry = 2
  None = None
INVARIANTS
  ConflictSetKept SavedEvict FoundAgain
PROPERTIES
  Termination
CHECK_DEADLOCK FALSE
