SPECIFICATION Spec
CHECK_DEADLOCK FALSE
CONSTANTS
  Callers = {t1}
  Nobody = nobody
  Requests <- MCRequests
  RegionsPerMB = 1
  Word = 16
  MaxRegions = 4
  GuardModes = {TRUE, FALSE}
  LegacyModes = {TRUE, FALSE}
  FaultPoints <- ResizePoints
  ResetModes = {FALSE}
INVARIANTS
  TypeOK
  FaultContained
PROPERTIES
  LockLeftOnlyByJump
  RefinesShrinkableSpace
