SPECIFICATION Spec
CONSTANTS
  MaxSize = 6
  Main = main
  Timers = {m1, m2}
  NoTimer = noTimer
  ShrinkStep = 2
  LowerLimit = 2
  PeriodOfCheck = 30
  MaxStrict = 5
  ManualSizes = {}
  Overlap = FALSE
INVARIANT
  BookNotAhead
