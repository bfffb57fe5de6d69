------------------------------- MODULE XhRefresh -------------------------------
(****************************************************************************)
(* The life cycle of xhook (xh_core.c, xhook.c): registration, the two      *)
(* one-time initialisations, refreshes in the calling thread and in the     *)
(* worker thread, and xhook_clear.                                          *)
(*                                                                          *)
(* xh_core_mutex guards the queues, the initialisations and the condition   *)
(* the worker waits on; xh_core_refresh_mutex guards a scan (the module     *)
(* XhMaps is one scan).  The flags are also read without either mutex.      *)
(*                                                                          *)
(* Registrations and refreshes of all callers may overlap, and the switch   *)
(* of the protection may be thrown at any time.  xhook_clear takes no lock  *)
(* for the flags it writes: it is called by one thread while no other is in *)
(* a call.  The worker runs all the time.                                   *)
(****************************************************************************)
EXTENDS Naturals, FiniteSets

CONSTANTS
    Callers,    \* the threads that call xhook
    Worker,     \* the thread of the asynchronous refresh
    Nobody,     \* the owner of a free mutex
    ResetModes, \* whether the uninitialised sa_flags may hold SA_RESETHAND
    MaxCalls    \* bound on the calls of xhook

ASSUME ThreadAssumption == Worker \notin Callers /\ Nobody \notin Callers \cup {Worker}
ASSUME ResetAssumption == ResetModes \subseteq BOOLEAN

Threads == Callers \cup {Worker}

VARIABLES
    pc,                         \* where each thread is
    call,                       \* the call each caller is in
    mutex, refreshMutex,        \* the owners of the mutexes
    inited, initOk,             \* xh_core_inited, xh_core_init_ok
    asyncInited, asyncInitOk,   \* xh_core_async_inited, xh_core_async_init_ok
    running, do,                \* xh_core_refresh_thread_running, ..._do
    enabled,                    \* xh_core_sigsegv_enable
    handler, oldHandler,        \* the handler of SIGSEGV, xh_core_sigsegv_act_old
    resetHand,                  \* xhook's handler is removed by the first signal
    switched,                   \* the protection was switched after an initialisation
    hooks,                      \* the length of the queues
    pending,                    \* an accepted request no scan has started for
    calls

flags == <<inited, initOk, asyncInited, asyncInitOk>>
locks == <<mutex, refreshMutex>>
signals == <<enabled, handler, oldHandler, resetHand, switched>>
thread == <<running, do, pending>>
vars == <<pc, call, locks, flags, thread, signals, hooks, calls>>

Init ==
    /\ pc = [t \in Threads |-> IF t = Worker THEN "none" ELSE "idle"]
    /\ call = [t \in Callers |-> "none"]
    /\ mutex = Nobody /\ refreshMutex = Nobody
    /\ inited = FALSE /\ initOk = FALSE
    /\ asyncInited = FALSE /\ asyncInitOk = FALSE
    /\ running = FALSE /\ do = FALSE /\ pending = FALSE
    /\ enabled = TRUE /\ handler = "app" /\ oldHandler = "unset"
    /\ resetHand = FALSE
    /\ switched = FALSE
    /\ hooks = 0
    /\ calls = 0

Goto(t, point) == pc' = [pc EXCEPT ![t] = point]

At(t, point) == pc[t] = point /\ UNCHANGED <<call, calls>>

\* The wake-up of a thread that waits on the condition; others move as usual
GotoAndSignal(t, point) ==
    pc' = [u \in Threads |-> IF u = t THEN point
                             ELSE IF pc[u] = "waiting" THEN "take" ELSE pc[u]]

-----------------------------------------------------------------------------
(* Calls *)

Quiet == \A t \in Callers : pc[t] = "idle"
Clearing == \E t \in Callers : pc[t] # "idle" /\ call[t] = "clear"

EntryOf == [register |-> "register", sync |-> "initTest", async |-> "initTest",
            clear |-> "clear"]

Call(t) ==
    /\ pc[t] = "idle" /\ calls < MaxCalls
    /\ \E c \in DOMAIN EntryOf :
        /\ IF c = "clear" THEN Quiet ELSE ~Clearing
        /\ call' = [call EXCEPT ![t] = c]
        /\ Goto(t, EntryOf[c])
    /\ calls' = calls + 1
    /\ UNCHANGED <<locks, flags, thread, signals, hooks>>

\* The flag is stored at any time; the handler is left as it is
EnableSigsegvProtection ==
    /\ enabled' = ~enabled
    /\ switched' = (switched \/ inited)
    /\ UNCHANGED <<pc, call, locks, flags, thread, handler, oldHandler, resetHand, hooks,
                   calls>>

-----------------------------------------------------------------------------
(* xh_core_register and xh_core_ignore: the test is made without the mutex *)

Register(t) ==
    /\ At(t, "register")
    /\ Goto(t, IF inited THEN "idle" ELSE "insert")
    /\ UNCHANGED <<locks, flags, thread, signals, hooks>>

Insert(t) ==
    /\ At(t, "insert") /\ mutex = Nobody
    /\ hooks' = hooks + 1
    /\ Goto(t, "idle")
    /\ UNCHANGED <<locks, flags, thread, signals>>

-----------------------------------------------------------------------------
(* xh_core_init_once *)

InitTest(t) ==
    /\ At(t, "initTest")
    /\ Goto(t, IF inited THEN "initDone" ELSE "initOnce")
    /\ UNCHANGED <<locks, flags, thread, signals, hooks>>

\* Mutant: the flag is not tested again under the mutex.
InitTwice(t) ==
    /\ At(t, "initOnce") /\ mutex = Nobody
    /\ inited' = TRUE /\ mutex' = t /\ Goto(t, "addHandler")
    /\ UNCHANGED <<refreshMutex, initOk, asyncInited, asyncInitOk, thread, signals, hooks>>

InitOnce(t) ==
    /\ At(t, "initOnce") /\ mutex = Nobody
    /\ IF inited
       THEN Goto(t, "initDone") /\ UNCHANGED <<mutex, inited>>
       ELSE inited' = TRUE /\ mutex' = t /\ Goto(t, "addHandler")
    /\ UNCHANGED <<refreshMutex, initOk, asyncInited, asyncInitOk, thread, signals, hooks>>

\* sigaction may fail; with the protection off nothing is installed.  sa_flags is
\* whatever the stack held
AddHandler(t) ==
    /\ At(t, "addHandler")
    /\ \/ /\ enabled
          /\ handler' = "xhook" /\ oldHandler' = handler
          /\ resetHand' \in ResetModes
          /\ initOk' = TRUE
       \/ ~enabled /\ initOk' = TRUE /\ UNCHANGED <<handler, oldHandler, resetHand>>
       \/ enabled /\ UNCHANGED <<initOk, handler, oldHandler, resetHand>>
    /\ mutex' = Nobody
    /\ Goto(t, "initDone")
    /\ UNCHANGED <<refreshMutex, inited, asyncInited, asyncInitOk, thread, enabled, switched,
                   hooks>>

-----------------------------------------------------------------------------
(* xh_core_refresh *)

InitDone(t) ==
    /\ At(t, "initDone")
    /\ Goto(t, CASE ~initOk -> "idle"
                 [] initOk /\ call[t] = "sync" -> "lockScan"
                 [] OTHER -> "asyncTest")
    /\ UNCHANGED <<locks, flags, thread, signals, hooks>>

AsyncTest(t) ==
    /\ At(t, "asyncTest")
    /\ Goto(t, IF asyncInited THEN "asyncDone" ELSE "asyncOnce")
    /\ UNCHANGED <<locks, flags, thread, signals, hooks>>

InitAsyncOnce(t) ==
    /\ At(t, "asyncOnce") /\ mutex = Nobody
    /\ IF asyncInited
       THEN Goto(t, "asyncDone") /\ UNCHANGED <<mutex, asyncInited, running>>
       ELSE /\ asyncInited' = TRUE /\ running' = TRUE
            /\ mutex' = t /\ Goto(t, "create")
    /\ UNCHANGED <<refreshMutex, inited, initOk, asyncInitOk, do, pending, signals, hooks>>

\* Mutant: the mutex stays locked when the thread cannot be made.
CreateThreadLocked(t) ==
    /\ At(t, "create")
    /\ \/ /\ pc' = [pc EXCEPT ![t] = "asyncDone", ![Worker] = "top"]
          /\ asyncInitOk' = TRUE /\ mutex' = Nobody
          /\ UNCHANGED running
       \/ /\ Goto(t, "asyncDone")
          /\ running' = FALSE
          /\ UNCHANGED <<asyncInitOk, mutex>>
    /\ UNCHANGED <<refreshMutex, inited, initOk, asyncInited, do, pending, signals, hooks>>

CreateThread(t) ==
    /\ At(t, "create")
    /\ \/ /\ pc' = [pc EXCEPT ![t] = "asyncDone", ![Worker] = "top"]
          /\ asyncInitOk' = TRUE
          /\ UNCHANGED running
       \/ /\ Goto(t, "asyncDone")
          /\ running' = FALSE
          /\ UNCHANGED asyncInitOk
    /\ mutex' = Nobody
    /\ UNCHANGED <<refreshMutex, inited, initOk, asyncInited, do, pending, signals, hooks>>

AsyncDone(t) ==
    /\ At(t, "asyncDone")
    /\ Goto(t, IF asyncInitOk THEN "request" ELSE "idle")
    /\ UNCHANGED <<locks, flags, thread, signals, hooks>>

Request(t) ==
    /\ At(t, "request") /\ mutex = Nobody
    /\ do' = TRUE /\ pending' = TRUE
    /\ GotoAndSignal(t, "idle")
    /\ UNCHANGED <<locks, flags, running, signals, hooks>>

\* Mutant: a refresh in the calling thread takes no mutex.
BeginScanUnlocked(t) ==
    /\ At(t, "lockScan")
    /\ t = Worker => refreshMutex = Nobody
    /\ refreshMutex' = IF t = Worker THEN t ELSE refreshMutex
    /\ pending' = (pending /\ t # Worker)
    /\ Goto(t, "scan")
    /\ UNCHANGED <<mutex, flags, running, do, signals, hooks>>

BeginScan(t) ==
    /\ At(t, "lockScan") /\ refreshMutex = Nobody
    /\ refreshMutex' = t
    /\ pending' = (pending /\ t # Worker)
    /\ Goto(t, "scan")
    /\ UNCHANGED <<mutex, flags, running, do, signals, hooks>>

\* Mutant: the worker clears the request when its scan is over.
EndScanCleared(t) ==
    /\ At(t, "scan")
    /\ refreshMutex' = Nobody
    /\ do' = (do /\ t # Worker)
    /\ Goto(t, IF t = Worker THEN "top" ELSE "idle")
    /\ UNCHANGED <<mutex, flags, running, pending, signals, hooks>>

EndScan(t) ==
    /\ At(t, "scan")
    /\ refreshMutex' = Nobody
    /\ Goto(t, IF t = Worker THEN "top" ELSE "idle")
    /\ UNCHANGED <<mutex, flags, thread, signals, hooks>>

\* A fault while a library is checked or hooked under the protection: the handler
\* jumps back into the scan.  With SA_RESETHAND the kernel has put the default
\* action in its place
FaultInScan(t) ==
    /\ At(t, "scan") /\ handler = "xhook"
    /\ handler' = IF resetHand THEN "default" ELSE handler
    /\ UNCHANGED <<pc, locks, flags, thread, enabled, oldHandler, resetHand, switched, hooks>>

-----------------------------------------------------------------------------
(* xh_core_refresh_thread_func *)

Top ==
    /\ At(Worker, "top")
    /\ Goto(Worker, IF running THEN "take" ELSE "exited")
    /\ UNCHANGED <<locks, flags, thread, signals, hooks>>

\* The worker holds the mutex from the tests to the wait or the answer
Take ==
    /\ At(Worker, "take") /\ mutex = Nobody
    /\ Goto(Worker, CASE ~running -> "exited"
                      [] running /\ do -> "lockScan"
                      [] running /\ ~do -> "waiting")
    /\ do' = (do /\ ~running)
    /\ UNCHANGED <<locks, flags, running, pending, signals, hooks>>

\* External: pthread_cond_wait may return without a signal
WakeUp ==
    /\ At(Worker, "waiting")
    /\ Goto(Worker, "take")
    /\ UNCHANGED <<locks, flags, thread, signals, hooks>>

-----------------------------------------------------------------------------
(* xh_core_clear *)

Clear(t) ==
    /\ At(t, "clear")
    /\ Goto(t, IF asyncInitOk THEN "stop" ELSE "uninit")
    /\ UNCHANGED <<locks, flags, thread, signals, hooks>>

\* Mutant: the worker is not woken up.
StopSilently(t) ==
    /\ At(t, "stop") /\ mutex = Nobody
    /\ running' = FALSE /\ pending' = FALSE
    /\ Goto(t, "join")
    /\ UNCHANGED <<locks, flags, do, signals, hooks>>

Stop(t) ==
    /\ At(t, "stop") /\ mutex = Nobody
    /\ running' = FALSE /\ pending' = FALSE
    /\ GotoAndSignal(t, "join")
    /\ UNCHANGED <<locks, flags, do, signals, hooks>>

\* Mutant: the worker is not waited for.
JoinNobody(t) ==
    /\ At(t, "join")
    /\ Goto(t, "uninit")
    /\ asyncInitOk' = FALSE
    /\ UNCHANGED <<locks, inited, initOk, asyncInited, thread, signals, hooks>>

Join(t) ==
    /\ At(t, "join") /\ pc[Worker] = "exited"
    /\ pc' = [pc EXCEPT ![t] = "uninit", ![Worker] = "none"]
    /\ asyncInitOk' = FALSE
    /\ UNCHANGED <<locks, inited, initOk, asyncInited, thread, signals, hooks>>

Uninit(t) ==
    /\ At(t, "uninit")
    /\ asyncInited' = FALSE /\ inited' = FALSE /\ initOk' = FALSE
    /\ handler' = IF initOk /\ enabled THEN oldHandler ELSE handler
    /\ Goto(t, "freeLock")
    /\ UNCHANGED <<locks, asyncInitOk, thread, enabled, oldHandler, resetHand, switched, hooks>>

FreeLock(t) ==
    /\ At(t, "freeLock") /\ mutex = Nobody /\ refreshMutex = Nobody
    /\ mutex' = t /\ refreshMutex' = t
    /\ Goto(t, "free")
    /\ UNCHANGED <<flags, thread, signals, hooks>>

\* The map of files and both queues
Free(t) ==
    /\ At(t, "free")
    /\ hooks' = 0
    /\ mutex' = Nobody /\ refreshMutex' = Nobody
    /\ Goto(t, "idle")
    /\ UNCHANGED <<flags, thread, signals>>

-----------------------------------------------------------------------------

CallerStep(t) ==
    \/ Register(t) \/ Insert(t)
    \/ InitTest(t) \/ InitOnce(t) \/ AddHandler(t) \/ InitDone(t)
    \/ AsyncTest(t) \/ InitAsyncOnce(t) \/ CreateThread(t) \/ AsyncDone(t)
    \/ Request(t) \/ BeginScan(t) \/ EndScan(t)
    \/ Clear(t) \/ Stop(t) \/ Join(t) \/ Uninit(t) \/ FreeLock(t) \/ Free(t)

WorkerStep == Top \/ Take \/ BeginScan(Worker) \/ EndScan(Worker)

Next ==
    \/ \E t \in Callers : Call(t) \/ CallerStep(t)
    \/ WorkerStep \/ WakeUp
    \/ EnableSigsegvProtection
    \/ \E t \in Threads : FaultInScan(t)

Spec == Init /\ [][Next]_vars

\* A thread inside xhook is scheduled; nobody has to call, or to wake up by itself
Fairness == WF_vars(WorkerStep) /\ \A t \in Callers : WF_vars(CallerStep(t))

FairSpec == Spec /\ Fairness

-----------------------------------------------------------------------------
(* Properties *)

Points == {"none", "idle", "register", "insert", "initTest", "initOnce", "addHandler",
           "initDone", "asyncTest", "asyncOnce", "create", "asyncDone", "request",
           "lockScan", "scan", "top", "take", "waiting", "exited", "clear", "stop",
           "join", "uninit", "freeLock", "free"}

\* The state has its shape, a mutex belongs to the thread that is between its
\* lock and its unlock, and the worker exists exactly while it may be joined.
TypeOK ==
    /\ pc \in [Threads -> Points]
    /\ \A t \in Threads :
        /\ mutex = t <=> pc[t] \in {"addHandler", "create", "free"}
        /\ refreshMutex = t <=> pc[t] \in {"scan", "free"}
    /\ mutex \in Threads \cup {Nobody} /\ refreshMutex \in Threads \cup {Nobody}
    /\ asyncInitOk <=> pc[Worker] # "none"

\* At most one thread scans or frees the tree and the queues, whoever asked for it:
\* a scan reads and replaces the tree without any other precaution.
ScansAlone ==
    \A t, u \in Threads :
        pc[t] \in {"scan", "free"} /\ pc[u] \in {"scan", "free"} => t = u

\* As long as any thread scans, faults are caught: xhook's handler is in place from
\* before the first scan until the last one, also one of the worker, is over. Not
\* so when the protection has been switched after an initialisation, which installs
\* nothing, or when the stack happened to hold SA_RESETHAND.
ScanIsProtected ==
    enabled /\ ~switched /\ ~resetHand /\ (\E t \in Threads : pc[t] = "scan")
        => handler = "xhook"

\* The saved handler is the one the process had: two first refreshes at once do not
\* make xhook's handler its own predecessor, and after a clear it is gone. Not so
\* when the protection has been switched after an initialisation: switched off
\* before a clear, it leaves the handler where it is.
HandlerOnce ==
    ~switched =>
        /\ oldHandler # "xhook"
        /\ ~inited => handler = "app"

\* The worker sleeps only while there is nothing to do and no clear wants it to
\* end: no wake-up falls between its tests and its wait.
SleepsOnlyIdle == pc[Worker] = "waiting" => running /\ ~do

\* An accepted request is never forgotten nor slept through: until a scan starts
\* for it, the worker lives and is told to run, and either the request is still
\* written down or the worker is on its way into the scan.
RequestKept ==
    /\ pending =>
        /\ running /\ pc[Worker] \in {"top", "take", "waiting", "lockScan", "scan"}
        /\ do \/ pc[Worker] = "lockScan"
    /\ SleepsOnlyIdle

\* An accepted request for an asynchronous refresh is followed by a scan that
\* starts after it, even when it arrives while the worker scans for an earlier
\* one, unless a clear comes first.
RequestServed == pending ~> ~pending

\* Every call returns: a refresh gets its mutex in the end, and a clear is not
\* left waiting for a worker that sleeps.
CallReturns == \A t \in Callers : pc[t] # "idle" ~> pc[t] = "idle"
=============================================================================
