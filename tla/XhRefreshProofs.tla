--------------------------- MODULE XhRefreshProofs ---------------------------
(****************************************************************************)
(* Proofs about XhRefresh, for every set of callers and every bound on the  *)
(* calls: scans exclude each other, they run under xhook's handler, the     *)
(* handler of the process is saved once and put back, an accepted request   *)
(* is kept, and the worker sleeps only when it may.                         *)
(*                                                                          *)
(* None of these is inductive.  What carries them is that a clear is alone  *)
(* (ClearAlone), that a thread past the initialisation, the worker          *)
(* included, can rely on it (Ready), that there is one worker at most       *)
(* (OneWorker), that it is gone when the handler is removed (Stopped), and  *)
(* that it is told to run until a clear waits for its end (WorkerRuns).     *)
(****************************************************************************)
EXTENDS XhRefresh, TLAPS

ClearPoints == {"clear", "stop", "join", "uninit", "freeLock", "free"}
ReadyPoints == {"asyncTest", "asyncOnce", "create", "asyncDone", "request",
                "lockScan", "scan"}
CallerPoints == {"idle", "register", "insert", "initTest", "initOnce", "addHandler",
                 "initDone"} \cup ReadyPoints \cup ClearPoints
WorkerPoints == {"none", "top", "take", "waiting", "exited", "lockScan", "scan"}

Types ==
    /\ pc \in [Threads -> Points]
    /\ \A t \in Callers : pc[t] \in CallerPoints
    /\ pc[Worker] \in WorkerPoints
    /\ call \in [Callers -> {"none", "register", "sync", "async", "clear"}]
    /\ inited \in BOOLEAN /\ initOk \in BOOLEAN /\ asyncInitOk \in BOOLEAN
    /\ enabled \in BOOLEAN /\ asyncInited \in BOOLEAN

\* The call of a thread is a clear exactly at the points of xh_core_clear
CallKnown ==
    \A t \in Callers : pc[t] # "idle" => (call[t] = "clear" <=> pc[t] \in ClearPoints)

ClearAlone ==
    \A t, u \in Callers : pc[t] \in ClearPoints /\ t # u => pc[u] = "idle"

Ready ==
    /\ initOk => inited
    /\ \A t \in Callers : pc[t] \in ReadyPoints => initOk
    /\ \A t \in Callers : pc[t] = "addHandler" => inited /\ ~initOk
    /\ pc[Worker] # "none" => initOk

Stopped ==
    \A t \in Callers : pc[t] \in {"uninit", "freeLock", "free"} => pc[Worker] = "none"

\* The worker is made once: only a first asynchronous refresh makes it
OneWorker ==
    /\ pc[Worker] # "none" => asyncInited
    /\ \A t \in Callers : pc[t] = "create" => asyncInited /\ pc[Worker] = "none"

Handlers ==
    /\ resetHand \in BOOLEAN
    /\ switched \in BOOLEAN
    /\ ~switched =>
        /\ initOk /\ enabled => handler = "xhook" \/ resetHand
        /\ ~(initOk /\ enabled) => handler = "app"
        /\ oldHandler \in {"unset", "app"}
        /\ initOk /\ enabled => oldHandler = "app"

\* While the worker exists it is told to run, except by a clear that waits for it;
\* a thread that requests a scan found the worker made
WorkerRuns ==
    /\ running \in BOOLEAN /\ do \in BOOLEAN /\ pending \in BOOLEAN
    /\ asyncInitOk => (running <=> \A t \in Callers : pc[t] # "join")
    /\ pc[Worker] = "exited" => ~running
    /\ \A t \in Callers : pc[t] \in {"request", "stop", "join"} => asyncInitOk
    /\ \A t \in Callers : pc[t] = "create" => running

Inv == TypeOK /\ Types /\ CallKnown /\ ClearAlone /\ Ready /\ Stopped /\ OneWorker
       /\ Handlers

-----------------------------------------------------------------------------

USE ThreadAssumption, ResetAssumption DEF Threads, At, Goto, GotoAndSignal, flags, locks, signals, thread,
        ClearPoints, ReadyPoints, CallerPoints, WorkerPoints, Points, EntryOf

LEMMA InvInit == Init => Inv
BY DEF Init, Inv, TypeOK, Types, CallKnown, ClearAlone, Ready, Stopped, OneWorker, Handlers

LEMMA InvNext == Inv /\ [Next]_vars => Inv'
<1> SUFFICES ASSUME Inv, [Next]_vars PROVE Inv'
  OBVIOUS
<1> USE DEF Inv, TypeOK, Types, CallKnown, ClearAlone, Ready, Stopped, OneWorker, Handlers
<1>1. ASSUME NEW t \in Callers, Call(t) PROVE Inv'
  BY <1>1 DEF Call, Quiet, Clearing
<1>2. ASSUME NEW t \in Callers, Register(t) PROVE Inv'
  BY <1>2 DEF Register
<1>3. ASSUME NEW t \in Callers, Insert(t) PROVE Inv'
  BY <1>3 DEF Insert
<1>4. ASSUME NEW t \in Callers, InitTest(t) PROVE Inv'
  BY <1>4 DEF InitTest
<1>5. ASSUME NEW t \in Callers, InitOnce(t) PROVE Inv'
  <2>1. TypeOK'
    BY <1>5 DEF InitOnce
  <2>2. Types'
    <3>1. CASE inited
      BY <1>5, <3>1 DEF InitOnce
    <3>2. CASE ~inited
      BY <1>5, <3>2 DEF InitOnce
    <3> QED
      BY <3>1, <3>2
  <2>3. CallKnown'
    BY <1>5 DEF InitOnce
  <2>4. ClearAlone'
    BY <1>5 DEF InitOnce
  <2>5. Ready'
    BY <1>5 DEF InitOnce
  <2>6. Stopped'
    BY <1>5 DEF InitOnce
  <2>7. Handlers'
    BY <1>5 DEF InitOnce
  <2>8. OneWorker'
    BY <1>5 DEF InitOnce
  <2> QED
    BY <2>1, <2>2, <2>3, <2>4, <2>5, <2>6, <2>7, <2>8
<1>6. ASSUME NEW t \in Callers, AddHandler(t) PROVE Inv'
  <2>1. TypeOK'
    BY <1>6 DEF AddHandler
  <2>2. Types'
    BY <1>6 DEF AddHandler
  <2>3. CallKnown'
    BY <1>6 DEF AddHandler
  <2>4. ClearAlone'
    BY <1>6 DEF AddHandler
  <2>5. Ready'
    BY <1>6 DEF AddHandler
  <2>6. Stopped'
    BY <1>6 DEF AddHandler
  <2>7. Handlers'
    BY <1>6 DEF AddHandler
  <2>8. OneWorker'
    BY <1>6 DEF AddHandler
  <2> QED
    BY <2>1, <2>2, <2>3, <2>4, <2>5, <2>6, <2>7, <2>8
<1>7. ASSUME NEW t \in Callers, InitDone(t) PROVE Inv'
  <2>1. TypeOK'
    BY <1>7 DEF InitDone
  <2>2. Types'
    BY <1>7 DEF InitDone
  <2>3. CallKnown'
    BY <1>7 DEF InitDone
  <2>4. ClearAlone'
    BY <1>7 DEF InitDone
  <2>5. Ready'
    BY <1>7 DEF InitDone
  <2>6. Stopped'
    BY <1>7 DEF InitDone
  <2>7. Handlers'
    BY <1>7 DEF InitDone
  <2>8. OneWorker'
    BY <1>7 DEF InitDone
  <2> QED
    BY <2>1, <2>2, <2>3, <2>4, <2>5, <2>6, <2>7, <2>8
<1>8. ASSUME NEW t \in Callers, AsyncTest(t) PROVE Inv'
  BY <1>8 DEF AsyncTest
<1>9. ASSUME NEW t \in Callers, InitAsyncOnce(t) PROVE Inv'
  <2>1. CASE asyncInited
    BY <1>9, <2>1 DEF InitAsyncOnce
  <2>2. CASE ~asyncInited
    BY <1>9, <2>2 DEF InitAsyncOnce
  <2> QED
    BY <2>1, <2>2
<1>10. ASSUME NEW t \in Callers, CreateThread(t) PROVE Inv'
  <2>1. /\ t # Worker /\ pc[t] = "create" /\ pc[Worker] = "none"
        /\ mutex = t /\ mutex' = Nobody /\ refreshMutex' = refreshMutex
        /\ pc'[t] = "asyncDone"
        /\ \A u \in Threads : u # t /\ u # Worker => pc'[u] = pc[u]
        /\ pc' \in [Threads -> Points] /\ call' = call
        /\ inited' = inited /\ initOk' = initOk /\ enabled' = enabled
        /\ asyncInited' = asyncInited
    BY <1>10 DEF CreateThread
  <2>2. \/ pc'[Worker] = "top" /\ asyncInitOk'
        \/ pc'[Worker] = pc[Worker] /\ asyncInitOk' = asyncInitOk
    BY <1>10, <2>1 DEF CreateThread
  <2>3. TypeOK'
    <3>1. asyncInitOk' <=> pc'[Worker] # "none"
      BY <2>1, <2>2
    <3>2. \A u \in Threads :
            /\ mutex' = u <=> pc'[u] \in {"addHandler", "create", "free"}
            /\ refreshMutex' = u <=> pc'[u] \in {"scan", "free"}
      <4> TAKE u \in Threads
      <4>1. CASE u = t
        BY <2>1, <4>1
      <4>2. CASE u = Worker
        BY <2>1, <2>2, <4>2
      <4>3. CASE u # t /\ u # Worker
        BY <2>1, <4>3
      <4> QED
        BY <4>1, <4>2, <4>3
    <3> QED
      BY <2>1, <3>1, <3>2
  <2>4. Types'
    BY <2>1, <2>2
  <2>5. CallKnown'
    BY <1>10 DEF CreateThread
  <2>6. ClearAlone'
    BY <1>10 DEF CreateThread
  <2>7. Ready'
    BY <1>10 DEF CreateThread
  <2>8. Stopped'
    BY <1>10 DEF CreateThread
  <2>9. Handlers'
    BY <1>10 DEF CreateThread
  <2>10. OneWorker'
    BY <1>10 DEF CreateThread
  <2> QED
    BY <2>3, <2>4, <2>5, <2>6, <2>7, <2>8, <2>9, <2>10
<1>11. ASSUME NEW t \in Callers, AsyncDone(t) PROVE Inv'
  BY <1>11 DEF AsyncDone
<1>12. ASSUME NEW t \in Callers, Request(t) PROVE Inv'
  BY <1>12 DEF Request
<1>13. ASSUME NEW t \in Callers, BeginScan(t) PROVE Inv'
  BY <1>13 DEF BeginScan
<1>14. ASSUME NEW t \in Callers, EndScan(t) PROVE Inv'
  BY <1>14 DEF EndScan
<1>15. ASSUME NEW t \in Callers, Clear(t) PROVE Inv'
  BY <1>15 DEF Clear
<1>16. ASSUME NEW t \in Callers, Stop(t) PROVE Inv'
  BY <1>16 DEF Stop
<1>17. ASSUME NEW t \in Callers, Join(t) PROVE Inv'
  BY ZenonT(40), <1>17 DEF Join
<1>18. ASSUME NEW t \in Callers, Uninit(t) PROVE Inv'
  BY ZenonT(40), <1>18 DEF Uninit
<1>19. ASSUME NEW t \in Callers, FreeLock(t) PROVE Inv'
  BY <1>19 DEF FreeLock
<1>20. ASSUME NEW t \in Callers, Free(t) PROVE Inv'
  BY <1>20 DEF Free
<1>21. CASE Top
  BY <1>21 DEF Top
<1>22. CASE Take
  BY <1>22 DEF Take
<1>23. CASE BeginScan(Worker)
  BY <1>23 DEF BeginScan
<1>24. CASE EndScan(Worker)
  BY <1>24 DEF EndScan
<1>25. CASE WakeUp
  BY <1>25 DEF WakeUp
<1>26. CASE EnableSigsegvProtection
  BY <1>26 DEF EnableSigsegvProtection, Quiet
<1>27. ASSUME NEW t \in Threads, FaultInScan(t) PROVE Inv'
  BY <1>27 DEF FaultInScan
<1>28. CASE UNCHANGED vars
  BY <1>28 DEF vars
<1> QED
  BY <1>1, <1>2, <1>3, <1>4, <1>5, <1>6, <1>7, <1>8, <1>9, <1>10, <1>11, <1>12, <1>13, <1>14, <1>15, <1>16, <1>17, <1>18, <1>19, <1>20, <1>21, <1>22, <1>23, <1>24, <1>25, <1>26, <1>27, <1>28 DEF Next, CallerStep, WorkerStep

LEMMA InvariantHolds == Spec => []Inv
<1>1. Inv /\ [Next]_vars => Inv'
  BY InvNext
<1> QED
  BY InvInit, <1>1, PTL DEF Spec

-----------------------------------------------------------------------------

\* The mutexes are held exactly between lock and unlock, and the worker exists
\* exactly while a clear would join it.
THEOREM TypeCorrect == Spec => []TypeOK
<1>1. Inv => TypeOK
  BY DEF Inv
<1> QED
  BY InvariantHolds, <1>1, PTL

\* Two scans, or a scan and a clear, never work on the tree and the queues at once.
THEOREM ScansExclude == Spec => []ScansAlone
<1>1. Inv => ScansAlone
  <2> SUFFICES ASSUME Inv,
                      NEW t \in Threads, NEW u \in Threads,
                      pc[t] \in {"scan", "free"}, pc[u] \in {"scan", "free"}
               PROVE  t = u
    BY DEF ScansAlone
  <2>1. refreshMutex = t /\ refreshMutex = u
    BY DEF Inv, TypeOK
  <2> QED
    BY <2>1
<1> QED
  BY InvariantHolds, <1>1, PTL

\* A fault in a scan of any thread finds xhook's handler: the scan of a caller
\* because no clear runs meanwhile, that of the worker because a clear joins the
\* worker before it puts the old handler back. It is so as long as nobody switches
\* the protection once a refresh has initialised xhook.
THEOREM ScansProtected == Spec => []ScanIsProtected
<1>1. Inv => ScanIsProtected
  <2> SUFFICES ASSUME Inv, enabled, ~switched, ~resetHand, NEW t \in Threads, pc[t] = "scan"
               PROVE  handler = "xhook"
    BY DEF ScanIsProtected
  <2>1. initOk
    <3>1. CASE t = Worker
      BY <3>1 DEF Inv, Ready
    <3>2. CASE t \in Callers
      BY <3>2 DEF Inv, Ready
    <3> QED
      BY <3>1, <3>2
  <2> QED
    BY <2>1 DEF Inv, Handlers
<1> QED
  BY InvariantHolds, <1>1, PTL

\* However many threads make the first refresh, the handler of the process is what
\* is saved, and what is in place again after a clear, as long as nobody switches
\* the protection once a refresh has initialised xhook.
THEOREM HandlerSavedOnce == Spec => []HandlerOnce
<1>1. Inv => HandlerOnce
  BY DEF Inv, Ready, Handlers, HandlerOnce
<1> QED
  BY InvariantHolds, <1>1, PTL

-----------------------------------------------------------------------------
(* The request and the worker.  RequestKept, with SleepsOnlyIdle, is kept    *)
(* together with WorkerRuns, on top of Inv.                                  *)

Runs == WorkerRuns /\ RequestKept

LEMMA RunsStep ==
  ASSUME Inv, Runs, [Next]_vars
  PROVE  Runs'
<1> USE DEF Runs, WorkerRuns, RequestKept, SleepsOnlyIdle
<1>0. /\ TypeOK /\ Types /\ ClearAlone
      /\ \A t \in Callers : pc[t] = "create" => pc[Worker] = "none"
      /\ \A t \in Callers : pc[t] \in ClearPoints \ {"clear", "stop", "join"}
                              => pc[Worker] = "none"
  BY DEF Inv, Stopped, OneWorker
<1> USE <1>0 DEF TypeOK, Types
<1>1. ASSUME NEW t \in Callers, Call(t) PROVE Runs'
  BY <1>1 DEF Call
<1>2. ASSUME NEW t \in Callers,
             \/ Register(t) \/ Insert(t) \/ InitTest(t) \/ InitDone(t)
             \/ AsyncTest(t)
      PROVE  Runs'
  BY <1>2 DEF Register, Insert, InitTest, InitDone, AsyncTest
<1>3. ASSUME NEW t \in Callers, InitOnce(t) PROVE Runs'
  BY <1>3 DEF InitOnce
<1>4. ASSUME NEW t \in Callers, AddHandler(t) PROVE Runs'
  BY <1>4 DEF AddHandler
<1>5. ASSUME NEW t \in Callers, InitAsyncOnce(t) PROVE Runs'
  <2>1. CASE asyncInited
    BY <1>5, <2>1 DEF InitAsyncOnce
  <2>2. CASE ~asyncInited
    <3>1. pc[Worker] = "none" /\ pc'[Worker] = "none"
      BY <1>5, <2>2 DEF InitAsyncOnce, Inv, OneWorker
    <3>2. \A u \in Callers : pc'[u] \notin {"request", "stop", "join"}
      BY <1>5, <2>2, <3>1 DEF InitAsyncOnce
    <3> QED
      BY <1>5, <2>2, <3>1, <3>2 DEF InitAsyncOnce
  <2> QED
    BY <2>1, <2>2
<1>6. ASSUME NEW t \in Callers, CreateThread(t) PROVE Runs'
  <2>1. /\ t # Worker /\ pc[t] = "create" /\ pc[Worker] = "none" /\ ~asyncInitOk
        /\ do' = do /\ pending' = pending /\ ~pending
    BY <1>6 DEF CreateThread
  <2>2. \A u \in Callers : pc'[u] \notin {"request", "stop", "join"}
    BY <1>6, <2>1 DEF CreateThread
  <2>3. \A u \in Callers : pc'[u] # "create"
    BY <1>6, <2>1 DEF CreateThread
  <2>4. \/ pc'[Worker] = "top" /\ running' = running
        \/ pc'[Worker] = "none" /\ asyncInitOk' = asyncInitOk /\ running' = FALSE
    BY <1>6, <2>1 DEF CreateThread
  <2>5. running
    BY <2>1
  <2>6. WorkerRuns'
    <3>1. \A u \in Callers : pc'[u] # "join"
      BY <2>2
    <3>2. asyncInitOk' => running'
      BY <2>1, <2>4, <2>5
    <3>3. running' \in BOOLEAN /\ do' \in BOOLEAN /\ pending' \in BOOLEAN
      BY <2>1, <2>4
    <3>4. pc'[Worker] # "exited"
      BY <2>4
    <3> QED
      BY <2>2, <2>3, <3>1, <3>2, <3>3, <3>4
  <2>7. RequestKept'
    BY <2>1, <2>4
  <2> QED
    BY <2>6, <2>7
<1>7. ASSUME NEW t \in Callers, AsyncDone(t) PROVE Runs'
  BY <1>7 DEF AsyncDone
<1>8. ASSUME NEW t \in Callers, Request(t) PROVE Runs'
  BY <1>8 DEF Request, ClearAlone
<1>9. ASSUME NEW t \in Threads, BeginScan(t) PROVE Runs'
  BY <1>9 DEF BeginScan
<1>10. ASSUME NEW t \in Threads, EndScan(t) PROVE Runs'
  BY <1>10 DEF EndScan
<1>11. ASSUME NEW t \in Callers, Clear(t) PROVE Runs'
  BY <1>11 DEF Clear
<1>12. ASSUME NEW t \in Callers, Stop(t) PROVE Runs'
  BY <1>12 DEF Stop
<1>13. ASSUME NEW t \in Callers, Join(t) PROVE Runs'
  BY <1>13 DEF Join, ClearAlone
<1>14. ASSUME NEW t \in Callers, Uninit(t) \/ FreeLock(t) \/ Free(t) PROVE Runs'
  BY <1>14 DEF Uninit, FreeLock, Free
<1>15. CASE Top
  BY <1>15 DEF Top
<1>16. CASE Take
  BY <1>16 DEF Take
<1>17. CASE WakeUp
  BY <1>17 DEF WakeUp
<1>18. CASE EnableSigsegvProtection \/ \E t \in Threads : FaultInScan(t)
  BY <1>18 DEF EnableSigsegvProtection, FaultInScan
<1>19. CASE UNCHANGED vars
  BY <1>19 DEF vars
<1> HIDE DEF Runs
<1> QED
  BY <1>1, <1>2, <1>3, <1>4, <1>5, <1>6, <1>7, <1>8, <1>9, <1>10, <1>11, <1>12,
     <1>13, <1>14, <1>15, <1>16, <1>17, <1>18, <1>19 DEF Next, CallerStep, WorkerStep

LEMMA RunsHolds == Spec => []Runs
<1>1. Init => Runs
  BY DEF Init, Runs, WorkerRuns, RequestKept, SleepsOnlyIdle
<1>2. Inv /\ Runs /\ [Next]_vars => Runs'
  BY RunsStep
<1> QED
  BY InvariantHolds, <1>1, <1>2, PTL DEF Spec

\* No accepted request is lost between the caller that writes it down and the
\* worker that clears it: not by a request that arrives during a scan, a failed
\* thread creation, a spurious return of the wait or the restart of the worker.
THEOREM RequestIsKept == Spec => []RequestKept
<1>1. Runs => RequestKept
  BY DEF Runs
<1> QED
  BY RunsHolds, <1>1, PTL

\* The worker never sleeps through a request or through a clear.
THEOREM NoWakeUpIsLost == Spec => []SleepsOnlyIdle
<1>1. Runs => SleepsOnlyIdle
  BY DEF Runs, RequestKept
<1> QED
  BY RunsHolds, <1>1, PTL
=============================================================================
