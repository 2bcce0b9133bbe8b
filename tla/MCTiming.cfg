SPECIFICATION Spec
CONSTANTS
  Outlier = 6
  SlotsPerRound = 2
  CalRounds = 3
  MaxRounds = 3
  Lines = {l1, l2}
  Ways = 1
  Null = Null
  Times <- MCTimes
  Ratios <- MCRatios
INVARIANTS
  HistogramCounts ExactWhenSteady PositiveIsEarned
PROPERTIES
  Termination
CHECK_DEADLOCK FALSE
