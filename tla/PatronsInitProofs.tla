-------------------------- MODULE PatronsInitProofs --------------------------
(***************************************************************************)
(* Proofs about PatronsInit, for any set of callers, any error codes, any  *)
(* flags and failures of sigaction, any number of inits and unrelated      *)
(* faults at any time.                                                     *)
(*                                                                         *)
(* InitInv says who owns the monitor, which guard is armed at which point  *)
(* of its owner, and what the chain of the two handlers looks like in the  *)
(* first two inits, as long as nothing has gone wrong with it (Guarded).   *)
(***************************************************************************)
EXTENDS PatronsInit, TLAPS

\* Between the entry and the exit of the synchronised method.
InsidePoints == ControlPoints \ {"idle", "enter", "store"}

\* Before HandleSignal has put Patrons' handler in front.
EarlyPoints == {"find", "refresh", "visit", "handle"}

OwnsMonitor == \A t \in Callers : pc[t] \in InsidePoints <=> monitor = t

\* A thread stands still where it has faulted until somebody jumps.
FaultsInside ==
  ending = "running" => \A t \in Callers \cap raised : pc[t] \in ProtectedPoints

\* Which guard is up, by the point the owner of the monitor has reached.
Armed ==
  /\ \A t \in Callers :
       /\ pc[t] \in {"arm", "native", "disarm"} => hasHandler \/ frail
       /\ pc[t] = "native" /\ ~debuggable /\ hasHandler => wantSignal
       /\ pc[t] = "visit" => xhFlag
  /\ wantSignal => /\ ~debuggable
                   /\ hasHandler
                   /\ monitor \in Callers
                   /\ timeMachine = monitor
                   /\ pc[monitor] \in {"native", "disarm"}
  /\ xhFlag => monitor \in Callers /\ pc[monitor] = "visit"

\* A code that would be stored as success has passed NativeInit.
Earned ==
  /\ \A t \in Callers :
       pc[t] \in {"disarm", "java", "exit", "store"} /\ code[t] = "SUCCESS" => inited
  /\ hasInit => inited

\* What is remembered of the beginning.
Started ==
  /\ \A t \in Callers : pc[t] \in InsidePoints \ {"find"} => xhInited
  /\ ~xhInited => handler = "process" /\ xhOld = "default"
  /\ xhInited \/ monitor # Nobody => inits >= 1

\* In the first init Patrons' handler comes behind xhook's, and until the second
\* one has put it in front of itself it remembers that.
Chain ==
  /\ ending = "running"
  /\ handler \notin OneShot
  /\ xhInited => handler \in Xhooks \cup Patronses
  /\ \A t \in Callers :
       /\ pc[t] \in {"save", "arm", "native"} => handler \in Patronses
       /\ pc[t] \in EarlyPoints /\ inits = 1 => handler \notin Patronses
       /\ pc[t] \in EarlyPoints /\ handler \in Patronses => patronsOld = "xhook"
       /\ pc[t] = "save" /\ inits = 1 => previous[t] = "xhook"
  /\ inits = 1 /\ handler \in Patronses =>
       patronsOld = "xhook" \/ \E t \in Callers : pc[t] = "save"

InitInv ==
  /\ TypeOK
  /\ OwnsMonitor
  /\ FaultsInside
  /\ Armed
  /\ Earned
  /\ Started
  /\ Guarded => Chain

----------------------------------------------------------------------------

USE InitAssumption
    DEF At, Goto, Result, Threads, Handlers, Xhooks, Patronses, OneShot, Registered,
        ControlPoints, InsidePoints, EarlyPoints, ProtectedPoints, gateVars,
        guardVars, findVars, xhookVars, Codes, LOADER_FUNCTION_NOT_FOUND,
        NATIVE_INIT_SEGMENT_FAULT

LEMMA InitInvInit == Init => InitInv
<1> SUFFICES ASSUME Init PROVE InitInv
  OBVIOUS
<1> USE DEF Init
<1>1. TypeOK
  <2>1. debuggable \in BOOLEAN
    BY Zenon
  <2>2. /\ pc \in [Callers -> ControlPoints]
        /\ previous \in [Callers -> Handlers]
        /\ code \in [Callers -> Codes]
        /\ inits \in 0 .. MaxInits
    OBVIOUS
  <2>3. /\ hasInit \in BOOLEAN /\ watching \in BOOLEAN /\ inited \in BOOLEAN
        /\ hasHandler \in BOOLEAN /\ wantSignal \in BOOLEAN
        /\ searched \in BOOLEAN /\ found \in BOOLEAN /\ frail \in BOOLEAN
        /\ xhInited \in BOOLEAN /\ xhOk \in BOOLEAN /\ xhFlag \in BOOLEAN
    BY Zenon
  <2>4. /\ monitor = Nobody /\ timeMachine = Nobody /\ handler = "process"
        /\ xhOld = "default" /\ patronsOld = "default" /\ raised = {}
        /\ ending = "running"
    BY Zenon
  <2> HIDE DEF Init
  <2> QED
    BY <2>1, <2>2, <2>3, <2>4 DEF TypeOK
<1>2. OwnsMonitor /\ FaultsInside /\ Armed /\ Earned
  BY DEF OwnsMonitor, FaultsInside, Armed, Earned
<1>3. Started /\ Chain
  BY DEF Started, Chain
<1> QED
  BY <1>1, <1>2, <1>3 DEF InitInv

\* Neither a step nor a fault puts right what has gone wrong.
LEMMA GuardedBefore ==
  ASSUME InitInv, [Next]_vars, Guarded'
  PROVE  Guarded
<1> USE DEF InitInv, TypeOK, Guarded
<1>1. ASSUME NEW t \in Callers, Enter(t) \/ Step(t) PROVE Guarded
  <2>1. CASE Enter(t)
    BY <2>1 DEF Enter
  <2>2. CASE Acquire(t)
    BY <2>2 DEF Acquire
  <2>3. CASE Find(t)
    BY <2>3 DEF Find
  <2>4. CASE Visit(t)
    BY <2>4 DEF Visit
  <2>5. CASE Leave(t)
    BY <2>5 DEF Leave
  <2>6. CASE Refresh(t)
    BY <2>6 DEF Refresh
  <2>7. CASE HandleSignal(t)
    BY <2>7 DEF HandleSignal
  <2>8. CASE SaveOld(t)
    BY <2>8 DEF SaveOld
  <2>9. CASE Arm(t)
    BY <2>9 DEF Arm
  <2>10. CASE NativeInit(t)
    BY <2>10 DEF NativeInit
  <2>11. CASE Disarm(t)
    BY <2>11 DEF Disarm
  <2>12. CASE Java(t)
    BY <2>12 DEF Java
  <2>13. CASE Exit(t)
    BY <2>13 DEF Exit
  <2>14. CASE Store(t)
    BY <2>14 DEF Store
  <2> QED
    BY <1>1, <2>1, <2>2, <2>3, <2>4, <2>5, <2>6, <2>7, <2>8, <2>9, <2>10, <2>11, <2>12,
       <2>13, <2>14 DEF Step
<1>2. ASSUME NEW t \in Callers, Fault(t) PROVE Guarded
  BY <1>2 DEF Fault, SignalUnchanged
<1>3. ASSUME NEW t \in Threads, Deliver(t) PROVE Guarded
  BY <1>3 DEF Deliver, SignalUnchanged, CustomSignalHandler, XhookHandler,
       ProcessHandler, PassOn, JumpFrom, Armed
<1> QED
  BY <1>1, <1>2, <1>3 DEF Next, StrangerFault, SignalUnchanged, vars

\* The Booleans apart from the rest of the types.
Flags ==
  /\ hasInit \in BOOLEAN
  /\ watching \in BOOLEAN
  /\ inited \in BOOLEAN
  /\ hasHandler \in BOOLEAN
  /\ debuggable \in BOOLEAN
  /\ wantSignal \in BOOLEAN
  /\ searched \in BOOLEAN
  /\ found \in BOOLEAN
  /\ xhInited \in BOOLEAN
  /\ xhOk \in BOOLEAN
  /\ xhFlag \in BOOLEAN
  /\ frail \in BOOLEAN

Rest ==
  /\ monitor \in Callers \cup {Nobody}
  /\ timeMachine \in Callers \cup {Nobody}
  /\ handler \in Handlers
  /\ xhOld \in {"default", "process"}
  /\ patronsOld \in Handlers
  /\ raised \subseteq Threads
  /\ ending \in {"running", "process", "default", "hijacked"}
  /\ inits \in 0 .. MaxInits
  /\ pc \in [Callers -> ControlPoints]
  /\ previous \in [Callers -> Handlers]
  /\ code \in [Callers -> Codes]

LEMMA TypeStep ==
  ASSUME InitInv, [Next]_vars
  PROVE  TypeOK'
<1>1. Flags /\ Rest
  BY Zenon DEF InitInv, TypeOK, Flags, Rest
<1>2. Flags'
  <2> USE <1>1 DEF Flags
  <2>1. ASSUME NEW t \in Callers, Enter(t) PROVE Flags'
    BY <2>1, Zenon DEF Enter
  <2>2. ASSUME NEW t \in Callers, Acquire(t) PROVE Flags'
    BY <2>2, Zenon DEF Acquire
  <2>3. ASSUME NEW t \in Callers, Find(t) PROVE Flags'
    BY <2>3, Zenon DEF Find
  <2>4. ASSUME NEW t \in Callers, Visit(t) PROVE Flags'
    BY <2>4, Zenon DEF Visit
  <2>5. ASSUME NEW t \in Callers, Leave(t) PROVE Flags'
    BY <2>5, Zenon DEF Leave, Visited
  <2>6. ASSUME NEW t \in Callers, Refresh(t) PROVE Flags'
    BY <2>6, Zenon DEF Refresh
  <2>7. ASSUME NEW t \in Callers, HandleSignal(t) PROVE Flags'
    BY <2>7, Zenon DEF HandleSignal
  <2>8. ASSUME NEW t \in Callers, SaveOld(t) PROVE Flags'
    BY <2>8, Zenon DEF SaveOld
  <2>9. ASSUME NEW t \in Callers, Arm(t) PROVE Flags'
    BY <2>9, Zenon DEF Arm
  <2>10. ASSUME NEW t \in Callers, NativeInit(t) PROVE Flags'
    BY <2>10, Zenon DEF NativeInit
  <2>11. ASSUME NEW t \in Callers, Disarm(t) PROVE Flags'
    BY <2>11, Zenon DEF Disarm
  <2>12. ASSUME NEW t \in Callers, Java(t) PROVE Flags'
    BY <2>12, Zenon DEF Java
  <2>13. ASSUME NEW t \in Callers, Exit(t) PROVE Flags'
    BY <2>13, Zenon DEF Exit
  <2>14. ASSUME NEW t \in Callers, Store(t) PROVE Flags'
    BY <2>14, Zenon DEF Store
  <2>15. ASSUME NEW t \in Callers, Fault(t) PROVE Flags'
    BY <2>15, Zenon DEF Fault, SignalUnchanged
  <2>16. CASE StrangerFault
    BY <2>16, Zenon DEF StrangerFault, SignalUnchanged
  <2>17. ASSUME NEW t \in Threads, Deliver(t) PROVE Flags'
    <3>1. CASE CustomSignalHandler(t) /\ SignalUnchanged
      BY <3>1, Zenon DEF CustomSignalHandler, PassOn, SignalUnchanged
    <3>2. CASE XhookHandler(t) /\ SignalUnchanged
      BY <3>2, Zenon DEF XhookHandler, PassOn, Visited, SignalUnchanged
    <3>3. CASE ProcessHandler /\ SignalUnchanged
      BY <3>3, Zenon DEF ProcessHandler, SignalUnchanged
    <3> QED
      BY <2>17, <3>1, <3>2, <3>3, Zenon DEF Deliver
  <2>18. CASE UNCHANGED vars
    BY <2>18, Zenon DEF vars
  <2> QED
    BY <2>1, <2>2, <2>3, <2>4, <2>5, <2>6, <2>7, <2>8, <2>9, <2>10, <2>11, <2>12,
       <2>13, <2>14, <2>15, <2>16, <2>17, <2>18, Zenon DEF Next, Step
<1>3. Rest'
  <2> USE <1>1 DEF Rest
  <2>1. ASSUME NEW t \in Callers, Enter(t) PROVE Rest'
    BY <2>1 DEF Enter
  <2>2. ASSUME NEW t \in Callers, Acquire(t) PROVE Rest'
    BY <2>2 DEF Acquire
  <2>3. ASSUME NEW t \in Callers, Find(t) PROVE Rest'
    BY <2>3 DEF Find, InitInv, Started
  <2>4. ASSUME NEW t \in Callers, Visit(t) PROVE Rest'
    BY <2>4 DEF Visit
  <2>5. ASSUME NEW t \in Callers, Leave(t) PROVE Rest'
    BY <2>5 DEF Leave
  <2>6. ASSUME NEW t \in Callers, Refresh(t) PROVE Rest'
    BY <2>6 DEF Refresh
  <2>7. ASSUME NEW t \in Callers, HandleSignal(t) PROVE Rest'
    BY <2>7 DEF HandleSignal
  <2>8. ASSUME NEW t \in Callers, SaveOld(t) PROVE Rest'
    BY <2>8 DEF SaveOld
  <2>9. ASSUME NEW t \in Callers, Arm(t) PROVE Rest'
    BY <2>9 DEF Arm
  <2>10. ASSUME NEW t \in Callers, NativeInit(t) PROVE Rest'
    BY <2>10 DEF NativeInit
  <2>11. ASSUME NEW t \in Callers, Disarm(t) PROVE Rest'
    BY <2>11 DEF Disarm
  <2>12. ASSUME NEW t \in Callers, Java(t) PROVE Rest'
    BY <2>12 DEF Java
  <2>13. ASSUME NEW t \in Callers, Exit(t) PROVE Rest'
    BY <2>13 DEF Exit
  <2>14. ASSUME NEW t \in Callers, Store(t) PROVE Rest'
    BY <2>14 DEF Store
  <2>15. ASSUME NEW t \in Callers, Fault(t) PROVE Rest'
    BY <2>15 DEF Fault, SignalUnchanged
  <2>16. CASE StrangerFault
    BY <2>16 DEF StrangerFault, SignalUnchanged
  <2>17. ASSUME NEW t \in Threads, Deliver(t) PROVE Rest'
    <3>1. CASE CustomSignalHandler(t) /\ SignalUnchanged
      BY <3>1 DEF CustomSignalHandler, PassOn, JumpFrom,
           Spent, SignalUnchanged
    <3>2. CASE XhookHandler(t) /\ SignalUnchanged
      BY <3>2 DEF XhookHandler, PassOn, JumpFrom,
           Spent, SignalUnchanged
    <3>3. CASE ProcessHandler /\ SignalUnchanged
      BY <3>3 DEF ProcessHandler, SignalUnchanged
    <3> QED
      BY <2>17, <3>1, <3>2, <3>3 DEF Deliver
  <2>18. CASE UNCHANGED vars
    BY <2>18 DEF vars
  <2> QED
    BY <2>1, <2>2, <2>3, <2>4, <2>5, <2>6, <2>7, <2>8, <2>9, <2>10, <2>11, <2>12,
       <2>13, <2>14, <2>15, <2>16, <2>17, <2>18 DEF Next, Step
<1> QED
  BY <1>2, <1>3, Zenon DEF TypeOK, Flags, Rest

LEMMA InitInvStep ==
  ASSUME InitInv, [Next]_vars
  PROVE  InitInv'
<1>1. TypeOK'
  BY TypeStep
<1>2. Guarded' => Guarded
  BY GuardedBefore
<1>3. OwnsMonitor'
  <2> USE DEF InitInv, TypeOK, Armed, OwnsMonitor
  <2>1. ASSUME NEW t \in Callers, Enter(t) PROVE OwnsMonitor'
    BY <2>1 DEF Enter
  <2>2. ASSUME NEW t \in Callers, Acquire(t) PROVE OwnsMonitor'
    BY <2>2 DEF Acquire
  <2>3. ASSUME NEW t \in Callers, Find(t) PROVE OwnsMonitor'
    BY <2>3 DEF Find
  <2>4. ASSUME NEW t \in Callers, Visit(t) PROVE OwnsMonitor'
    BY <2>4 DEF Visit
  <2>5. ASSUME NEW t \in Callers, Leave(t) PROVE OwnsMonitor'
    BY <2>5 DEF Leave
  <2>6. ASSUME NEW t \in Callers, Refresh(t) PROVE OwnsMonitor'
    BY <2>6 DEF Refresh
  <2>7. ASSUME NEW t \in Callers, HandleSignal(t) PROVE OwnsMonitor'
    BY <2>7 DEF HandleSignal
  <2>8. ASSUME NEW t \in Callers, SaveOld(t) PROVE OwnsMonitor'
    BY <2>8 DEF SaveOld
  <2>9. ASSUME NEW t \in Callers, Arm(t) PROVE OwnsMonitor'
    BY <2>9 DEF Arm
  <2>10. ASSUME NEW t \in Callers, NativeInit(t) PROVE OwnsMonitor'
    BY <2>10 DEF NativeInit
  <2>11. ASSUME NEW t \in Callers, Disarm(t) PROVE OwnsMonitor'
    BY <2>11 DEF Disarm
  <2>12. ASSUME NEW t \in Callers, Java(t) PROVE OwnsMonitor'
    BY <2>12 DEF Java
  <2>13. ASSUME NEW t \in Callers, Exit(t) PROVE OwnsMonitor'
    BY <2>13 DEF Exit
  <2>14. ASSUME NEW t \in Callers, Store(t) PROVE OwnsMonitor'
    BY <2>14 DEF Store
  <2>15. ASSUME NEW t \in Callers, Fault(t) PROVE OwnsMonitor'
    BY <2>15 DEF Fault, SignalUnchanged
  <2>16. ASSUME StrangerFault PROVE OwnsMonitor'
    BY <2>16 DEF StrangerFault, SignalUnchanged
  <2>17. ASSUME NEW t \in Threads, Deliver(t) PROVE OwnsMonitor'
    <3>1. CASE CustomSignalHandler(t) /\ SignalUnchanged
      BY <2>17, <3>1 DEF Deliver, CustomSignalHandler, PassOn, JumpFrom,
           Spent, SignalUnchanged
    <3>2. CASE XhookHandler(t) /\ SignalUnchanged
      BY <2>17, <3>2 DEF Deliver, XhookHandler, PassOn, JumpFrom,
           Spent, SignalUnchanged
    <3>3. CASE ProcessHandler /\ SignalUnchanged
      BY <2>17, <3>3 DEF Deliver, ProcessHandler, SignalUnchanged
    <3> QED
      BY <2>17, <3>1, <3>2, <3>3 DEF Deliver
  <2>18. ASSUME UNCHANGED vars PROVE OwnsMonitor'
    BY <2>18 DEF vars
  <2> QED
    BY <2>1, <2>2, <2>3, <2>4, <2>5, <2>6, <2>7, <2>8, <2>9, <2>10, <2>11, <2>12,
       <2>13, <2>14, <2>15, <2>16, <2>17, <2>18 DEF Next, Step
<1>4. FaultsInside'
  <2> USE DEF InitInv, TypeOK, Armed, FaultsInside, OwnsMonitor
  <2>1. ASSUME NEW t \in Callers, Enter(t) PROVE FaultsInside'
    BY <2>1 DEF Enter
  <2>2. ASSUME NEW t \in Callers, Acquire(t) PROVE FaultsInside'
    BY <2>2 DEF Acquire
  <2>3. ASSUME NEW t \in Callers, Find(t) PROVE FaultsInside'
    BY <2>3 DEF Find
  <2>4. ASSUME NEW t \in Callers, Visit(t) PROVE FaultsInside'
    BY <2>4 DEF Visit
  <2>5. ASSUME NEW t \in Callers, Leave(t) PROVE FaultsInside'
    BY <2>5 DEF Leave
  <2>6. ASSUME NEW t \in Callers, Refresh(t) PROVE FaultsInside'
    BY <2>6 DEF Refresh
  <2>7. ASSUME NEW t \in Callers, HandleSignal(t) PROVE FaultsInside'
    BY <2>7 DEF HandleSignal
  <2>8. ASSUME NEW t \in Callers, SaveOld(t) PROVE FaultsInside'
    BY <2>8 DEF SaveOld
  <2>9. ASSUME NEW t \in Callers, Arm(t) PROVE FaultsInside'
    BY <2>9 DEF Arm
  <2>10. ASSUME NEW t \in Callers, NativeInit(t) PROVE FaultsInside'
    BY <2>10 DEF NativeInit
  <2>11. ASSUME NEW t \in Callers, Disarm(t) PROVE FaultsInside'
    BY <2>11 DEF Disarm
  <2>12. ASSUME NEW t \in Callers, Java(t) PROVE FaultsInside'
    BY <2>12 DEF Java
  <2>13. ASSUME NEW t \in Callers, Exit(t) PROVE FaultsInside'
    BY <2>13 DEF Exit
  <2>14. ASSUME NEW t \in Callers, Store(t) PROVE FaultsInside'
    BY <2>14 DEF Store
  <2>15. ASSUME NEW t \in Callers, Fault(t) PROVE FaultsInside'
    BY <2>15 DEF Fault, SignalUnchanged
  <2>16. ASSUME StrangerFault PROVE FaultsInside'
    BY <2>16 DEF StrangerFault, SignalUnchanged
  <2>17. ASSUME NEW t \in Threads, Deliver(t) PROVE FaultsInside'
    <3>1. CASE CustomSignalHandler(t) /\ SignalUnchanged
      BY <2>17, <3>1 DEF Deliver, CustomSignalHandler, PassOn, JumpFrom,
           Spent, SignalUnchanged
    <3>2. CASE XhookHandler(t) /\ SignalUnchanged
      BY <2>17, <3>2 DEF Deliver, XhookHandler, PassOn, JumpFrom,
           Spent, SignalUnchanged
    <3>3. CASE ProcessHandler /\ SignalUnchanged
      BY <2>17, <3>3 DEF Deliver, ProcessHandler, SignalUnchanged
    <3> QED
      BY <2>17, <3>1, <3>2, <3>3 DEF Deliver
  <2>18. ASSUME UNCHANGED vars PROVE FaultsInside'
    BY <2>18 DEF vars
  <2> QED
    BY <2>1, <2>2, <2>3, <2>4, <2>5, <2>6, <2>7, <2>8, <2>9, <2>10, <2>11, <2>12,
       <2>13, <2>14, <2>15, <2>16, <2>17, <2>18 DEF Next, Step
<1>5. Armed'
  <2> USE DEF InitInv, TypeOK, Armed, FaultsInside, OwnsMonitor
  <2>1. ASSUME NEW t \in Callers, Enter(t) PROVE Armed'
    BY <2>1 DEF Enter
  <2>2. ASSUME NEW t \in Callers, Acquire(t) PROVE Armed'
    BY <2>2 DEF Acquire
  <2>3. ASSUME NEW t \in Callers, Find(t) PROVE Armed'
    BY <2>3 DEF Find
  <2>4. ASSUME NEW t \in Callers, Visit(t) PROVE Armed'
    BY <2>4 DEF Visit
  <2>5. ASSUME NEW t \in Callers, Leave(t) PROVE Armed'
    BY <2>5 DEF Leave
  <2>6. ASSUME NEW t \in Callers, Refresh(t) PROVE Armed'
    BY <2>6 DEF Refresh
  <2>7. ASSUME NEW t \in Callers, HandleSignal(t) PROVE Armed'
    BY <2>7 DEF HandleSignal
  <2>8. ASSUME NEW t \in Callers, SaveOld(t) PROVE Armed'
    BY <2>8 DEF SaveOld
  <2>9. ASSUME NEW t \in Callers, Arm(t) PROVE Armed'
    BY <2>9 DEF Arm
  <2>10. ASSUME NEW t \in Callers, NativeInit(t) PROVE Armed'
    BY <2>10 DEF NativeInit
  <2>11. ASSUME NEW t \in Callers, Disarm(t) PROVE Armed'
    BY <2>11 DEF Disarm
  <2>12. ASSUME NEW t \in Callers, Java(t) PROVE Armed'
    BY <2>12 DEF Java
  <2>13. ASSUME NEW t \in Callers, Exit(t) PROVE Armed'
    BY <2>13 DEF Exit
  <2>14. ASSUME NEW t \in Callers, Store(t) PROVE Armed'
    BY <2>14 DEF Store
  <2>15. ASSUME NEW t \in Callers, Fault(t) PROVE Armed'
    BY <2>15 DEF Fault, SignalUnchanged
  <2>16. ASSUME StrangerFault PROVE Armed'
    BY <2>16 DEF StrangerFault, SignalUnchanged
  <2>17. ASSUME NEW t \in Threads, Deliver(t) PROVE Armed'
    <3>1. CASE CustomSignalHandler(t) /\ SignalUnchanged
      BY <2>17, <3>1 DEF Deliver, CustomSignalHandler, PassOn, JumpFrom,
           Spent, SignalUnchanged
    <3>2. CASE XhookHandler(t) /\ SignalUnchanged
      BY <2>17, <3>2 DEF Deliver, XhookHandler, PassOn, JumpFrom,
           Spent, SignalUnchanged
    <3>3. CASE ProcessHandler /\ SignalUnchanged
      BY <2>17, <3>3 DEF Deliver, ProcessHandler, SignalUnchanged
    <3> QED
      BY <2>17, <3>1, <3>2, <3>3 DEF Deliver
  <2>18. ASSUME UNCHANGED vars PROVE Armed'
    BY <2>18 DEF vars
  <2> QED
    BY <2>1, <2>2, <2>3, <2>4, <2>5, <2>6, <2>7, <2>8, <2>9, <2>10, <2>11, <2>12,
       <2>13, <2>14, <2>15, <2>16, <2>17, <2>18 DEF Next, Step
<1>6. Earned'
  <2> USE DEF InitInv, TypeOK, Armed, Earned, OwnsMonitor
  <2>1. ASSUME NEW t \in Callers, Enter(t) PROVE Earned'
    BY <2>1 DEF Enter
  <2>2. ASSUME NEW t \in Callers, Acquire(t) PROVE Earned'
    BY <2>2 DEF Acquire
  <2>3. ASSUME NEW t \in Callers, Find(t) PROVE Earned'
    BY <2>3 DEF Find
  <2>4. ASSUME NEW t \in Callers, Visit(t) PROVE Earned'
    BY <2>4 DEF Visit
  <2>5. ASSUME NEW t \in Callers, Leave(t) PROVE Earned'
    BY <2>5 DEF Leave
  <2>6. ASSUME NEW t \in Callers, Refresh(t) PROVE Earned'
    BY <2>6 DEF Refresh
  <2>7. ASSUME NEW t \in Callers, HandleSignal(t) PROVE Earned'
    BY <2>7 DEF HandleSignal
  <2>8. ASSUME NEW t \in Callers, SaveOld(t) PROVE Earned'
    BY <2>8 DEF SaveOld
  <2>9. ASSUME NEW t \in Callers, Arm(t) PROVE Earned'
    BY <2>9 DEF Arm
  <2>10. ASSUME NEW t \in Callers, NativeInit(t) PROVE Earned'
    BY <2>10 DEF NativeInit
  <2>11. ASSUME NEW t \in Callers, Disarm(t) PROVE Earned'
    BY <2>11 DEF Disarm
  <2>12. ASSUME NEW t \in Callers, Java(t) PROVE Earned'
    BY <2>12 DEF Java
  <2>13. ASSUME NEW t \in Callers, Exit(t) PROVE Earned'
    BY <2>13 DEF Exit
  <2>14. ASSUME NEW t \in Callers, Store(t) PROVE Earned'
    BY <2>14 DEF Store
  <2>15. ASSUME NEW t \in Callers, Fault(t) PROVE Earned'
    BY <2>15 DEF Fault, SignalUnchanged
  <2>16. ASSUME StrangerFault PROVE Earned'
    BY <2>16 DEF StrangerFault, SignalUnchanged
  <2>17. ASSUME NEW t \in Threads, Deliver(t) PROVE Earned'
    <3>1. CASE CustomSignalHandler(t) /\ SignalUnchanged
      BY <2>17, <3>1 DEF Deliver, CustomSignalHandler, PassOn, JumpFrom,
           Spent, SignalUnchanged
    <3>2. CASE XhookHandler(t) /\ SignalUnchanged
      BY <2>17, <3>2 DEF Deliver, XhookHandler, PassOn, JumpFrom,
           Spent, SignalUnchanged
    <3>3. CASE ProcessHandler /\ SignalUnchanged
      BY <2>17, <3>3 DEF Deliver, ProcessHandler, SignalUnchanged
    <3> QED
      BY <2>17, <3>1, <3>2, <3>3 DEF Deliver
  <2>18. ASSUME UNCHANGED vars PROVE Earned'
    BY <2>18 DEF vars
  <2> QED
    BY <2>1, <2>2, <2>3, <2>4, <2>5, <2>6, <2>7, <2>8, <2>9, <2>10, <2>11, <2>12,
       <2>13, <2>14, <2>15, <2>16, <2>17, <2>18 DEF Next, Step
<1>7. Started'
  <2> USE DEF InitInv, TypeOK, Armed, OwnsMonitor, Started
  <2>1. ASSUME NEW t \in Callers, Enter(t) PROVE Started'
    BY <2>1 DEF Enter
  <2>2. ASSUME NEW t \in Callers, Acquire(t) PROVE Started'
    BY <2>2 DEF Acquire
  <2>3. ASSUME NEW t \in Callers, Find(t) PROVE Started'
    BY <2>3 DEF Find
  <2>4. ASSUME NEW t \in Callers, Visit(t) PROVE Started'
    BY <2>4 DEF Visit
  <2>5. ASSUME NEW t \in Callers, Leave(t) PROVE Started'
    BY <2>5 DEF Leave
  <2>6. ASSUME NEW t \in Callers, Refresh(t) PROVE Started'
    BY <2>6 DEF Refresh
  <2>7. ASSUME NEW t \in Callers, HandleSignal(t) PROVE Started'
    BY <2>7 DEF HandleSignal
  <2>8. ASSUME NEW t \in Callers, SaveOld(t) PROVE Started'
    BY <2>8 DEF SaveOld
  <2>9. ASSUME NEW t \in Callers, Arm(t) PROVE Started'
    BY <2>9 DEF Arm
  <2>10. ASSUME NEW t \in Callers, NativeInit(t) PROVE Started'
    BY <2>10 DEF NativeInit
  <2>11. ASSUME NEW t \in Callers, Disarm(t) PROVE Started'
    BY <2>11 DEF Disarm
  <2>12. ASSUME NEW t \in Callers, Java(t) PROVE Started'
    BY <2>12 DEF Java
  <2>13. ASSUME NEW t \in Callers, Exit(t) PROVE Started'
    BY <2>13 DEF Exit
  <2>14. ASSUME NEW t \in Callers, Store(t) PROVE Started'
    BY <2>14 DEF Store
  <2>15. ASSUME NEW t \in Callers, Fault(t) PROVE Started'
    BY <2>15 DEF Fault, SignalUnchanged
  <2>16. ASSUME StrangerFault PROVE Started'
    BY <2>16 DEF StrangerFault, SignalUnchanged
  <2>17. ASSUME NEW t \in Threads, Deliver(t) PROVE Started'
    <3>1. CASE CustomSignalHandler(t) /\ SignalUnchanged
      BY <2>17, <3>1 DEF Deliver, CustomSignalHandler, PassOn, JumpFrom,
           Spent, SignalUnchanged
    <3>2. CASE XhookHandler(t) /\ SignalUnchanged
      BY <2>17, <3>2 DEF Deliver, XhookHandler, PassOn, JumpFrom,
           Spent, SignalUnchanged
    <3>3. CASE ProcessHandler /\ SignalUnchanged
      BY <2>17, <3>3 DEF Deliver, ProcessHandler, SignalUnchanged
    <3> QED
      BY <2>17, <3>1, <3>2, <3>3 DEF Deliver
  <2>18. ASSUME UNCHANGED vars PROVE Started'
    BY <2>18 DEF vars
  <2> QED
    BY <2>1, <2>2, <2>3, <2>4, <2>5, <2>6, <2>7, <2>8, <2>9, <2>10, <2>11, <2>12,
       <2>13, <2>14, <2>15, <2>16, <2>17, <2>18 DEF Next, Step
<1>8. Guarded' => Chain'
  <2> SUFFICES ASSUME Guarded' PROVE Chain'
    OBVIOUS
  <2>0. Guarded
    BY <1>2
  <2> USE <2>0 DEF InitInv, TypeOK, Armed, Chain, FaultsInside,
             OwnsMonitor, Started, Guarded
  <2>1. ASSUME NEW t \in Callers, Enter(t) PROVE Chain'
    BY <2>1 DEF Enter
  <2>2. ASSUME NEW t \in Callers, Acquire(t) PROVE Chain'
    BY <2>2 DEF Acquire
  <2>3. ASSUME NEW t \in Callers, Find(t) PROVE Chain'
    BY <2>3 DEF Find
  <2>4. ASSUME NEW t \in Callers, Visit(t) PROVE Chain'
    BY <2>4 DEF Visit
  <2>5. ASSUME NEW t \in Callers, Leave(t) PROVE Chain'
    BY <2>5 DEF Leave
  <2>6. ASSUME NEW t \in Callers, Refresh(t) PROVE Chain'
    BY <2>6 DEF Refresh
  <2>7. ASSUME NEW t \in Callers, HandleSignal(t) PROVE Chain'
    BY <2>7 DEF HandleSignal
  <2>8. ASSUME NEW t \in Callers, SaveOld(t) PROVE Chain'
    BY <2>8 DEF SaveOld
  <2>9. ASSUME NEW t \in Callers, Arm(t) PROVE Chain'
    BY <2>9 DEF Arm
  <2>10. ASSUME NEW t \in Callers, NativeInit(t) PROVE Chain'
    BY <2>10 DEF NativeInit
  <2>11. ASSUME NEW t \in Callers, Disarm(t) PROVE Chain'
    BY <2>11 DEF Disarm
  <2>12. ASSUME NEW t \in Callers, Java(t) PROVE Chain'
    BY <2>12 DEF Java
  <2>13. ASSUME NEW t \in Callers, Exit(t) PROVE Chain'
    BY <2>13 DEF Exit
  <2>14. ASSUME NEW t \in Callers, Store(t) PROVE Chain'
    BY <2>14 DEF Store
  <2>15. ASSUME NEW t \in Callers, Fault(t) PROVE Chain'
    BY <2>15 DEF Fault, SignalUnchanged
  <2>16. ASSUME StrangerFault PROVE Chain'
    BY <2>16 DEF StrangerFault, SignalUnchanged
  <2>17. ASSUME NEW t \in Threads, Deliver(t) PROVE Chain'
    <3>1. CASE CustomSignalHandler(t) /\ SignalUnchanged
      <4>1. /\ t \in Callers
            /\ pc[t] \in ProtectedPoints
            /\ monitor = t
            /\ UNCHANGED <<patronsOld, previous, inits, xhInited>>
        BY <2>17, <3>1 DEF Deliver, SignalUnchanged
      <4>2. CASE wantSignal
        <5>1. timeMachine = t /\ pc[t] = "native"
          BY <4>1, <4>2
        <5>2. /\ handler' = handler
              /\ pc' = [pc EXCEPT ![t] = "disarm"]
              /\ UNCHANGED ending
          BY <3>1, <4>2, <5>1 DEF CustomSignalHandler, JumpFrom, Spent
        <5> QED
          BY <4>1, <5>1, <5>2
      <4>3. CASE ~wantSignal
        <5>1. handler \in Patronses /\ handler' = patronsOld /\ UNCHANGED <<pc, ending>>
          BY <3>1, <4>3 DEF CustomSignalHandler, PassOn
        <5>2. pc[t] = "visit" /\ patronsOld = "xhook"
          BY <4>1, <4>3, <5>1
        <5> QED
          BY <4>1, <5>1, <5>2
      <4> QED
        BY <4>2, <4>3
    <3>2. CASE XhookHandler(t) /\ SignalUnchanged
      BY <2>17, <3>2 DEF Deliver, XhookHandler, PassOn, JumpFrom,
           Spent, SignalUnchanged
    <3>3. CASE ProcessHandler /\ SignalUnchanged
      BY <2>17, <3>3 DEF Deliver, ProcessHandler, SignalUnchanged
    <3> QED
      BY <2>17, <3>1, <3>2, <3>3 DEF Deliver
  <2>18. ASSUME UNCHANGED vars PROVE Chain'
    BY <2>18 DEF vars
  <2> QED
    BY <2>1, <2>2, <2>3, <2>4, <2>5, <2>6, <2>7, <2>8, <2>9, <2>10, <2>11, <2>12,
       <2>13, <2>14, <2>15, <2>16, <2>17, <2>18 DEF Next, Step
<1> QED
  BY <1>1, <1>3, <1>4, <1>5, <1>6, <1>7, <1>8 DEF InitInv

----------------------------------------------------------------------------

\* The one induction behind the theorems.
LEMMA Invariant == Spec => []InitInv
<1>1. InitInv /\ [Next]_vars => InitInv'
  BY InitInvStep
<1> QED
  BY InitInvInit, <1>1, PTL DEF Spec

\* Type correctness: whatever the handlers remember, xhook's is put over the one
\* the process came with.
THEOREM TypeCorrect == Spec => []TypeOK
<1>1. InitInv => TypeOK
  BY DEF InitInv
<1> QED
  BY Invariant, <1>1, PTL

\* However calls of init overlap, fail and fault, the facade lets nobody through
\* before a run of NativeInit has passed its final check.
THEOREM ReadyIsEarned == Spec => []ReadyBeforeUse
<1>1. InitInv => ReadyBeforeUse
  BY DEF InitInv, Earned, ReadyBeforeUse
<1> QED
  BY Invariant, <1>1, PTL

\* On every way out of init, the jumps of both handlers included, neither guard
\* is left up.
THEOREM GuardsComeDown == Spec => []GuardNotLeftArmed
<1>1. InitInv => GuardNotLeftArmed
  BY DEF InitInv, TypeOK, Armed, GuardNotLeftArmed
<1> QED
  BY Invariant, <1>1, PTL

\* In the first two inits, in release mode and as long as sigaction does what it
\* is asked and no unrelated fault has been raised, a fault of a caller stands
\* before a handler that jumps for it, or before one whose predecessor does.
THEOREM InitFaultsFindAWayOut == Spec => []FaultHasWayOut
<1>1. InitInv => FaultHasWayOut
  <2> SUFFICES ASSUME InitInv, Guarded, NEW t \in Callers \cap raised
               PROVE  \/ wantSignal /\ timeMachine = t /\ handler \in Patronses
                      \/ /\ ~wantSignal
                         /\ xhFlag
                         /\ monitor = t
                         /\ \/ handler \in Xhooks
                            \/ handler \in Patronses /\ patronsOld \in Xhooks
    BY DEF FaultHasWayOut
  <2> USE DEF InitInv, TypeOK, OwnsMonitor, FaultsInside, Armed, Started, Chain
  <2>1. pc[t] \in ProtectedPoints /\ monitor = t
    OBVIOUS
  <2>2. CASE pc[t] = "native"
    BY <2>1, <2>2 DEF Guarded
  <2>3. CASE pc[t] = "visit"
    BY <2>1, <2>3
  <2> QED
    BY <2>1, <2>2, <2>3
<1> QED
  BY Invariant, <1>1, PTL

=============================================================================
