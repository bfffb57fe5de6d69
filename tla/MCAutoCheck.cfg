SPECIFICATION FairSpec
CONSTANTS
  MaxSize = 6
  Main = main
  Timers = {m1, m2}
  NoTimer = noTimer
  ShrinkStep = 2
  LowerLimit = 2
  PeriodOfCheck = 30
  MaxStrict = 5
  ManualSizes <- MCManualSizes
  Overlap = FALSE
INVARIANTS
  OneTimer
  QuietWhenOff
  WatchedWhenOn
  AsksAboveFloor
  StrictMatchesPeriod
  ThrowsOnlyInOverlap
PROPERTY
  KeepsShrinking
