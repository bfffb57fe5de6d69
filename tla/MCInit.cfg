SPECIFICATION FairSpec
CHECK_DEADLOCK FALSE
CONSTANTS
  Callers = {t1, t2}
  Stranger = stranger
  Nobody = nobody
  NativeCodes <- MCNativeCodes
  JavaCodes <- MCJavaCodes
  DebugModes = {TRUE, FALSE}
  FaultPoints <- ProtectedPoints
  ResetModes = {TRUE, FALSE}
  MayFail = TRUE
  Overlap = FALSE
  MaxInits = 3
INVARIANTS
  ReadyBeforeUse
  GuardNotLeftArmed
  FaultHasWayOut
PROPERTIES
  InitFaultContained
  FaultReportedAfterOneInit
