SPECIFICATION Spec
CHECK_DEADLOCK FALSE
CONSTANTS
  MaxSize = 4
  Main = main
  Timers = {m1, m2}
  NoTimer = noTimer
  ShrinkStep = 2
  LowerLimit = 2
  PeriodOfCheck = 30
  MaxStrict = 5
  ManualSizes = {}
  Overlap = TRUE
INVARIANT
  NoCheckInBackground
