SPECIFICATION Spec
CONSTANTS
  Elem = {e1, e2, e3, e4}
  Probe = {p1, p2}
  Color = {c1, c2}
  Null = Null
  Way = 1
  MaxReps = 1
INVARIANTS
  TypeOK InsideTheArray OneListPerLine NoLineLost OneSetPerColor CongruentRemoved EverySetCounted
PROPERTIES
  Termination
CHECK_DEADLOCK FALSE
