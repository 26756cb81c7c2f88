CONSTANTS
  Ops = {o1, o2}
  Minute = 2
  Hour = 4
  RawRetention = 3
  MinuteRetention = 4
  RawKeep = 3
  MinuteKeep = 3
  MaxRun = 1
  Horizon = 5
  MaxTraces = 2
  MaxFailures = 1
SPECIFICATION Spec
INVARIANTS NeverOvercounted SettledIsExact NoMinuteSkipped
PROPERTY TotalsNeverShrink
SYMMETRY OpsSymmetry
