SPECIFICATION FairSpec
CONSTANTS
  Callers = {t1, t2}
  Nobody = nobody
  Requests <- FewRequests
  RegionsPerMB = 1
  Word = 16
  MaxRegions = 3
  GuardModes = {FALSE}
  LegacyModes = {TRUE}
  FaultPoints = {}
  ResetModes = {FALSE}
PROPERTY
  NeverGrows
