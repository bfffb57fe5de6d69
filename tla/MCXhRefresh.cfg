SPECIFICATION FairSpec
CHECK_DEADLOCK FALSE
CONSTANTS
  Callers = {t1, t2}
  Worker = worker
  Nobody = nobody
  ResetModes = {TRUE, FALSE}
  MaxCalls = 4
INVARIANTS
  TypeOK
  ScansAlone
  ScanIsProtected
  HandlerOnce
  RequestKept
PROPERTIES
  RequestServed
  CallReturns
