SPECIFICATION FairSpec
CHECK_DEADLOCK FALSE
CONSTANTS
  Callers = {t1}
  Stranger = stranger
  Nobody = nobody
  NativeCodes <- MCNativeCodes
  JavaCodes <- MCJavaCodes
  DebugModes = {TRUE, FALSE}
  FaultPoints <- ProtectedPoints
  ResetModes = {FALSE}
  MayFail = FALSE
  Overlap = FALSE
  MaxInits = 2
PROPERTY
  FaultReported
