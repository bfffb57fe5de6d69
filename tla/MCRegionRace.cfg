SPECIFICATION FairSpec
CONSTANTS
  Callers = {t1, t2}
  Nobody = nobody
  Requests <- FewRequests
  RegionsPerMB = 1
  Word = 16
  MaxRegions = 3
  GuardModes = {FALSE}
  LegacyModes = {TRUE, FALSE}
  FaultPoints = {}
  ResetModes = {FALSE}
INVARIANTS
  UsedWithinCapacity
  SizesAgree
PROPERTIES
  CallReturns
  ResizeIsDone
