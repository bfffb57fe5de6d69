---------------------------- MODULE PatronsInit ----------------------------
(***************************************************************************)
(* Patrons.init from the app's call to its return code: the unlocked test  *)
(* of hasInit, the monitor of _Patrons, the JNI __init with FindSymbol,    *)
(* HandleSignal and NativeInit, and the start of the automatic check.      *)
(*                                                                         *)
(* Two handlers of SIGSEGV are installed on the way, xhook's and Patrons',  *)
(* each of which remembers the one before it. A fault is delivered to the  *)
(* current handler until somebody jumps out of it or the handler the       *)
(* process came with ends the process and reports it.                      *)
(*                                                                         *)
(* sigaction is handed an sa_flags that nobody has set: with SA_RESETHAND  *)
(* in it a handler serves one fault and leaves the default action behind.  *)
(***************************************************************************)
EXTENDS Integers

CONSTANTS
  Callers,       \* threads that call Patrons.init
  Stranger,      \* a thread that has nothing to do with Patrons
  Nobody,        \* no thread
  NativeCodes,   \* error codes NativeInit may end with, by offsets and symbols
  JavaCodes,     \* error codes of the tests made after it
  DebugModes,    \* values of config.debuggable
  FaultPoints,   \* where a caller may raise SIGSEGV
  ResetModes,    \* may sa_flags contain SA_RESETHAND
  MayFail,       \* sigaction may return an error
  Overlap,       \* an unrelated fault may be on its way while init runs
  MaxInits       \* bound: runs of _Patrons.init

ProtectedPoints == {"visit", "native"}

ASSUME InitAssumption ==
  /\ Nobody \notin Callers \cup {Stranger}
  /\ Stranger \notin Callers
  /\ "SUCCESS" \notin NativeCodes \cup JavaCodes
  /\ DebugModes \subseteq BOOLEAN
  /\ FaultPoints \subseteq ProtectedPoints
  /\ ResetModes \subseteq BOOLEAN /\ ResetModes # {}
  /\ MayFail \in BOOLEAN
  /\ Overlap \in BOOLEAN
  /\ MaxInits \in Nat

VARIABLES
  hasInit,      \* Patrons.hasInit
  monitor,      \* owner of the class monitor of _Patrons
  watching,     \* toForeground has started the automatic check
  inited,       \* init_
  hasHandler,   \* has_exception_handle_
  debuggable,   \* config.debuggable and its copy in patrons_core.c
  wantSignal,   \* i_want_handle_signal_flag
  timeMachine,  \* whose frame time_machine holds
  searched,     \* xhook has put libdl.so into its tree
  found,        \* it has found __loader_dlopen and __loader_dlsym there
  xhInited,     \* xh_core_inited
  xhOk,         \* xh_core_init_ok
  xhFlag,       \* xh_core_sigsegv_flag
  handler,      \* the current handler of SIGSEGV
  xhOld,        \* xh_core_sigsegv_act_old
  patronsOld,   \* sig_act_old[SIGSEGV]
  raised,       \* the threads in which a fault is pending
  frail,        \* a sigaction has failed or got SA_RESETHAND (for properties)
  ending,       \* "running", or how the process ended
  inits,        \* how often _Patrons.init has run
  pc,           \* where each caller stands
  previous,     \* the local variable handler of HandleSignal
  code          \* the result code so far

gateVars  == <<hasInit, monitor, watching>>
guardVars == <<hasHandler, wantSignal, timeMachine>>
findVars  == <<searched, found>>
xhookVars == <<xhInited, xhOk, xhFlag, xhOld>>
vars == <<gateVars, inited, debuggable, guardVars, findVars, xhookVars, handler,
          patronsOld, raised, frail, ending, inits, pc, previous, code>>

Threads == Callers \cup {Stranger}
ControlPoints == {"idle", "enter", "find", "refresh", "visit", "handle", "save",
                  "arm", "native", "disarm", "java", "exit", "store"}

\* A handler that has been registered with SA_RESETHAND is one of OneShot.
Xhooks    == {"xhook", "xhookOnce"}
Patronses == {"patrons", "patronsOnce"}
OneShot   == {"xhookOnce", "patronsOnce"}
Handlers  == {"default", "process"} \cup Xhooks \cup Patronses

\* sigaction: what the kernel keeps of a handler.
Registered(kind) == {h \in kind : (h \in OneShot) \in ResetModes}

\* The codes of patrons_core.h that stand for a cause of their own here.
LOADER_FUNCTION_NOT_FOUND == "LOADER_FUNCTION_NOT_FOUND"
NATIVE_INIT_SEGMENT_FAULT == "NATIVE_INIT_SEGMENT_FAULT"

Codes == {"SUCCESS", LOADER_FUNCTION_NOT_FOUND, NATIVE_INIT_SEGMENT_FAULT}
           \cup NativeCodes \cup JavaCodes

----------------------------------------------------------------------------

Init ==
  /\ hasInit = FALSE
  /\ monitor = Nobody
  /\ watching = FALSE
  /\ inited = FALSE
  /\ hasHandler = FALSE
  /\ debuggable \in DebugModes
  /\ wantSignal = FALSE
  /\ timeMachine = Nobody
  /\ searched = FALSE
  /\ found = FALSE
  /\ xhInited = FALSE
  /\ xhOk = FALSE
  /\ xhFlag = FALSE
  /\ handler = "process"
  /\ xhOld = "default"
  /\ patronsOld = "default"
  /\ raised = {}
  /\ frail = FALSE
  /\ ending = "running"
  /\ inits = 0
  /\ pc = [t \in Callers |-> "idle"]
  /\ previous = [t \in Callers |-> "default"]
  /\ code = [t \in Callers |-> "SUCCESS"]

At(t, point) == ending = "running" /\ pc[t] = point /\ t \notin raised

Goto(t, point) == pc' = [pc EXCEPT ![t] = point]

Result(t, c) == code' = [code EXCEPT ![t] = c]

----------------------------------------------------------------------------
(***************************************************************************)
(* The Java side.                                                          *)
(***************************************************************************)

\* With hasInit set, init returns 0 at once.
Enter(t) ==
  /\ At(t, "idle")
  /\ ~hasInit
  /\ Goto(t, "enter")
  /\ UNCHANGED <<gateVars, inited, debuggable, guardVars, findVars, xhookVars,
                 handler, patronsOld, raised, frail, ending, inits, previous, code>>

Acquire(t) ==
  /\ At(t, "enter")
  /\ monitor = Nobody
  /\ inits < MaxInits
  /\ Overlap \/ Stranger \notin raised
  /\ monitor' = t
  /\ inits' = inits + 1
  /\ Goto(t, "find")
  /\ UNCHANGED <<hasInit, watching, inited, debuggable, guardVars, findVars,
                 xhookVars, handler, patronsOld, raised, frail, ending, previous, code>>

\* The tests of the heap and of vss; auto starts the check after the last one.
Java(t) ==
  /\ At(t, "java")
  /\ \/ /\ code[t] # "SUCCESS"
        /\ UNCHANGED <<watching, code>>
     \/ /\ code[t] = "SUCCESS"
        /\ \E c \in JavaCodes : Result(t, c)
        /\ UNCHANGED watching
     \/ /\ code[t] = "SUCCESS"
        /\ watching' = TRUE
        /\ UNCHANGED code
  /\ Goto(t, "exit")
  /\ UNCHANGED <<hasInit, monitor, inited, debuggable, guardVars, findVars,
                 xhookVars, handler, patronsOld, raised, frail, ending, inits, previous>>

Exit(t) ==
  /\ At(t, "exit")
  /\ monitor' = Nobody
  /\ Goto(t, "store")
  /\ UNCHANGED <<hasInit, watching, inited, debuggable, guardVars, findVars,
                 xhookVars, handler, patronsOld, raised, frail, ending, inits, previous,
                 code>>

\* Mutant: any answer counts as initialised.
StoreAlways(t) ==
  /\ At(t, "store")
  /\ hasInit' = TRUE
  /\ Goto(t, "idle")
  /\ UNCHANGED <<monitor, watching, inited, debuggable, guardVars, findVars,
                 xhookVars, handler, patronsOld, raised, frail, ending, inits, previous,
                 code>>

Store(t) ==
  /\ At(t, "store")
  /\ hasInit' = (code[t] = "SUCCESS")
  /\ Goto(t, "idle")
  /\ UNCHANGED <<monitor, watching, inited, debuggable, guardVars, findVars,
                 xhookVars, handler, patronsOld, raised, frail, ending, inits, previous,
                 code>>

----------------------------------------------------------------------------
(***************************************************************************)
(* JNI __init.                                                             *)
(***************************************************************************)

\* xhook_refresh: the first call installs xhook's handler for good. If that
\* fails, nothing is ever searched.
Find(t) ==
  /\ At(t, "find")
  /\ xhInited' = TRUE
  /\ \/ /\ xhInited
        /\ Goto(t, IF xhOk THEN "refresh" ELSE "handle")
        /\ UNCHANGED <<xhOk, xhOld, handler, frail>>
     \/ /\ ~xhInited
        /\ handler' \in Registered(Xhooks)
        /\ xhOld' = handler
        /\ xhOk' = TRUE
        /\ frail' = (frail \/ handler' \in OneShot)
        /\ Goto(t, "refresh")
     \/ /\ ~xhInited
        /\ MayFail
        /\ frail' = TRUE
        /\ Goto(t, "handle")
        /\ UNCHANGED <<xhOk, xhOld, handler>>
  /\ UNCHANGED <<gateVars, inited, debuggable, guardVars, findVars, xhFlag,
                 patronsOld, raised, ending, inits, previous, code>>

\* The header of a mapped library is read, or a new one searched, with the flag
\* raised.
Visit(t) ==
  /\ At(t, "refresh")
  /\ xhFlag' = TRUE
  /\ Goto(t, "visit")
  /\ UNCHANGED <<gateVars, inited, debuggable, guardVars, findVars, xhInited,
                 xhOk, xhOld, handler, patronsOld, raised, frail, ending, inits,
                 previous, code>>

\* What a visit leaves behind, in full or cut short by a fault. A library in the
\* tree is not searched again.
Visited ==
  \/ UNCHANGED findVars
  \/ ~searched /\ searched' = TRUE /\ found' \in BOOLEAN

Leave(t) ==
  /\ At(t, "visit")
  /\ xhFlag' = FALSE
  /\ Visited
  /\ Goto(t, "refresh")
  /\ UNCHANGED <<gateVars, inited, debuggable, guardVars, xhInited, xhOk, xhOld,
                 handler, patronsOld, raised, frail, ending, inits, previous, code>>

\* No more lines, or no maps file.
Refresh(t) ==
  /\ At(t, "refresh")
  /\ Goto(t, "handle")
  /\ UNCHANGED <<gateVars, inited, debuggable, guardVars, findVars, xhookVars,
                 handler, patronsOld, raised, frail, ending, inits, previous, code>>

\* After an error the guard is used all the same if an earlier init has set
\* has_exception_handle_.
HandleSignal(t) ==
  /\ At(t, "handle")
  /\ \/ /\ handler' \in Registered(Patronses)
        /\ previous' = [previous EXCEPT ![t] = handler]
        /\ frail' = (frail \/ handler' \in OneShot)
        /\ Goto(t, "save")
     \/ /\ MayFail
        /\ frail' = TRUE
        /\ Goto(t, "arm")
        /\ UNCHANGED <<handler, previous>>
  /\ UNCHANGED <<gateVars, inited, debuggable, guardVars, findVars, xhookVars,
                 patronsOld, raised, ending, inits, code>>

\* Mutant: the predecessor is not remembered.
SaveNothing(t) ==
  /\ At(t, "save")
  /\ hasHandler' = TRUE
  /\ Goto(t, "arm")
  /\ UNCHANGED <<gateVars, inited, debuggable, wantSignal, timeMachine, findVars,
                 xhookVars, handler, patronsOld, raised, frail, ending, inits, previous,
                 code>>

SaveOld(t) ==
  /\ At(t, "save")
  /\ patronsOld' = previous[t]
  /\ hasHandler' = TRUE
  /\ Goto(t, "arm")
  /\ UNCHANGED <<gateVars, inited, debuggable, wantSignal, timeMachine, findVars,
                 xhookVars, handler, raised, frail, ending, inits, previous, code>>

\* Mutant: the test of debuggable is the wrong way round.
ArmInDebug(t) ==
  /\ At(t, "arm")
  /\ IF hasHandler /\ debuggable
       THEN wantSignal' = TRUE /\ timeMachine' = t
       ELSE UNCHANGED <<wantSignal, timeMachine>>
  /\ Goto(t, "native")
  /\ UNCHANGED <<gateVars, inited, debuggable, hasHandler, findVars, xhookVars,
                 handler, patronsOld, raised, frail, ending, inits, previous, code>>

Arm(t) ==
  /\ At(t, "arm")
  /\ IF hasHandler /\ ~debuggable
       THEN wantSignal' = TRUE /\ timeMachine' = t
       ELSE UNCHANGED <<wantSignal, timeMachine>>
  /\ Goto(t, "native")
  /\ UNCHANGED <<gateVars, inited, debuggable, hasHandler, findVars, xhookVars,
                 handler, patronsOld, raised, frail, ending, inits, previous, code>>

\* init_ is set behind the last test, and never reset.
NativeInit(t) ==
  /\ At(t, "native")
  /\ \/ inited /\ Result(t, "SUCCESS") /\ UNCHANGED inited
     \/ /\ ~inited
        /\ ~found
        /\ Result(t, LOADER_FUNCTION_NOT_FOUND)
        /\ UNCHANGED inited
     \/ /\ ~inited
        /\ found
        /\ \/ (\E c \in NativeCodes : Result(t, c)) /\ UNCHANGED inited
           \/ Result(t, "SUCCESS") /\ inited' = TRUE
  /\ Goto(t, "disarm")
  /\ UNCHANGED <<gateVars, debuggable, guardVars, findVars, xhookVars, handler,
                 patronsOld, raised, frail, ending, inits, previous>>

\* Mutant: the flag is lowered by the handler only.
DisarmNothing(t) ==
  /\ At(t, "disarm")
  /\ Goto(t, "java")
  /\ UNCHANGED <<gateVars, inited, debuggable, guardVars, findVars, xhookVars,
                 handler, patronsOld, raised, frail, ending, inits, previous, code>>

Disarm(t) ==
  /\ At(t, "disarm")
  /\ wantSignal' = IF hasHandler /\ ~debuggable THEN FALSE ELSE wantSignal
  /\ Goto(t, "java")
  /\ UNCHANGED <<gateVars, inited, debuggable, hasHandler, timeMachine, findVars,
                 xhookVars, handler, patronsOld, raised, frail, ending, inits, previous,
                 code>>

----------------------------------------------------------------------------
(***************************************************************************)
(* Signals.                                                                *)
(***************************************************************************)

SignalUnchanged ==
  UNCHANGED <<gateVars, inited, debuggable, hasHandler, timeMachine, xhInited,
              xhOk, xhOld, patronsOld, frail, inits, previous>>

\* An access in the libraries or in the runtime that is not mapped.
Fault(t) ==
  /\ ending = "running"
  /\ pc[t] \in FaultPoints
  /\ t \notin raised
  /\ raised' = raised \cup {t}
  /\ UNCHANGED <<wantSignal, findVars, xhFlag, handler, ending, pc, code>>
  /\ SignalUnchanged

\* An unrelated crash of the app.
StrangerFault ==
  /\ ending = "running"
  /\ Stranger \notin raised
  /\ Overlap \/ monitor = Nobody
  /\ raised' = raised \cup {Stranger}
  /\ UNCHANGED <<wantSignal, findVars, xhFlag, handler, ending, pc, code>>
  /\ SignalUnchanged

\* A jump into the frame of another thread ends the process.
JumpFrom(t, owner) ==
  IF t = owner
    THEN raised' = raised \ {t} /\ UNCHANGED ending
    ELSE ending' = "hijacked" /\ UNCHANGED raised

\* What stands after the delivery to a handler that does not put one back.
Spent == IF handler \in OneShot THEN "default" ELSE handler

\* The handler returns to the faulting instruction, under another handler.
PassOn(h) ==
  /\ handler' = h
  /\ UNCHANGED <<wantSignal, findVars, xhFlag, raised, frail, ending, pc, code>>

CustomSignalHandler(t) ==
  /\ handler \in Patronses
  /\ IF wantSignal
       THEN /\ wantSignal' = FALSE
            /\ handler' = Spent
            /\ JumpFrom(t, timeMachine)
            /\ Result(timeMachine, NATIVE_INIT_SEGMENT_FAULT)
            /\ Goto(timeMachine, "disarm")
            /\ UNCHANGED <<findVars, xhFlag>>
       ELSE PassOn(patronsOld)

\* Mutant: xhook gives the signal away even while it searches.
XhookHandlerShy(t) ==
  /\ handler \in Xhooks
  /\ PassOn(xhOld)

\* sigsetjmp returns again around the visit, and the scan goes on.
XhookHandler(t) ==
  /\ handler \in Xhooks
  /\ IF xhFlag
       THEN /\ xhFlag' = FALSE
            /\ handler' = Spent
            /\ JumpFrom(t, monitor)
            /\ Visited
            /\ Goto(monitor, "refresh")
            /\ UNCHANGED <<wantSignal, code>>
       ELSE PassOn(xhOld)

ProcessHandler ==
  /\ handler \in {"process", "default"}
  /\ ending' = handler
  /\ UNCHANGED <<wantSignal, findVars, xhFlag, handler, raised, pc, code>>

Deliver(t) ==
  /\ ending = "running"
  /\ t \in raised
  /\ CustomSignalHandler(t) \/ XhookHandler(t) \/ ProcessHandler
  /\ SignalUnchanged

----------------------------------------------------------------------------

Step(t) ==
  \/ Acquire(t) \/ Find(t) \/ Visit(t) \/ Leave(t) \/ Refresh(t)
  \/ HandleSignal(t) \/ SaveOld(t) \/ Arm(t) \/ NativeInit(t) \/ Disarm(t)
  \/ Java(t) \/ Exit(t) \/ Store(t)

Next ==
  \/ \E t \in Callers : Enter(t) \/ Step(t) \/ Fault(t)
  \/ StrangerFault
  \/ \E t \in Threads : Deliver(t)

Spec == Init /\ [][Next]_vars

\* The kernel delivers a pending fault; a caller that is running runs on.
Fairness ==
  /\ \A t \in Threads : WF_vars(Deliver(t))
  /\ \A t \in Callers : WF_vars(Step(t))

FairSpec == Spec /\ Fairness

----------------------------------------------------------------------------

TypeOK ==
  /\ hasInit \in BOOLEAN
  /\ monitor \in Callers \cup {Nobody}
  /\ watching \in BOOLEAN
  /\ inited \in BOOLEAN
  /\ hasHandler \in BOOLEAN
  /\ debuggable \in BOOLEAN
  /\ wantSignal \in BOOLEAN
  /\ timeMachine \in Callers \cup {Nobody}
  /\ searched \in BOOLEAN
  /\ found \in BOOLEAN
  /\ xhInited \in BOOLEAN
  /\ xhOk \in BOOLEAN
  /\ xhFlag \in BOOLEAN
  /\ handler \in Handlers
  /\ xhOld \in {"default", "process"}
  /\ patronsOld \in Handlers
  /\ raised \subseteq Threads
  /\ frail \in BOOLEAN
  /\ ending \in {"running", "process", "default", "hijacked"}
  /\ inits \in 0 .. MaxInits
  /\ pc \in [Callers -> ControlPoints]
  /\ previous \in [Callers -> Handlers]
  /\ code \in [Callers -> Codes]

(***************************************************************************)
(* Safety.                                                                 *)
(***************************************************************************)

\* However the calls overlap, the facade lets nobody through to the native code
\* before NativeInit has passed its final check.
ReadyBeforeUse == hasInit => inited

\* The guard is armed only inside a call of init: afterwards a fault of the app
\* is not taken for one of ours.
GuardNotLeftArmed == (wantSignal \/ xhFlag) => monitor # Nobody

\* The first two inits of an app in release mode, with handlers that got in
\* place and stay there.
Guarded == ~debuggable /\ ~frail /\ inits <= 2 /\ Stranger \notin raised

\* A fault while the libraries are searched or the runtime is read finds a jump
\* into the frame of its own thread within two handlers.
FaultHasWayOut ==
  Guarded => \A t \in Callers \cap raised :
    \/ /\ wantSignal
       /\ timeMachine = t
       /\ handler \in Patronses
    \/ /\ ~wantSignal
       /\ xhFlag
       /\ monitor = t
       /\ handler \in Xhooks \/ (handler \in Patronses /\ patronsOld \in Xhooks)

(***************************************************************************)
(* Liveness.                                                               *)
(***************************************************************************)

\* Such a fault costs the init, not the process: the thread goes on.
InitFaultContained ==
  \A t \in Callers : t \in raised /\ Guarded ~> t \notin raised

\* "xhook turns on segment protection" (patrons_core.c:42): a fault in the search
\* is got over, in every init of the process. It is not in a third one.
SearchIsProtected ==
  \A t \in Callers : t \in raised /\ pc[t] = "visit" ~> t \notin raised

\* An unrelated fault finds its way past both handlers to the one the process
\* came with, as long as init has not run twice and the handlers stay in place.
FaultReportedAfterOneInit ==
  Stranger \in raised ~> ending = "process" \/ inits > 1 \/ frail

\* "not my business": an unrelated fault is left to the handler that was there
\* before.
FaultReported == Stranger \in raised ~> ending = "process"

=============================================================================
