CONSTANTS
  Ops = {o1}
  Minute = 2
  Hour = 4
  RawRetention = 8
  MinuteRetention = 8
  RawKeep = 8
  MinuteKeep = 8
  MaxRun = 1
  Horizon = 7
  MaxTraces = 1
  MaxFailures = 0
SPECIFICATION Spec
INVARIANT HourIsSumOfMinutes
