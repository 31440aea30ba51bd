CONSTANTS
  Appts = {a1, a2}
  Starts = {7, 8}
  Lead = 1
  Kinds <- OneKind
  Horizon <- OneHorizon
  Window = 4
  Interval = 3
  MaxDelay = 1
  Workers = {w1, w2}
  MaxCrashes = 1
  MaxTime = 7
SYMMETRY SweepSymmetry
SPECIFICATION Spec
INVARIANT TypeOK
INVARIANT RepeatedOnlyForADeadSweep
INVARIANT NobodyIsForgotten
CHECK_DEADLOCK FALSE
