----------------------------- MODULE AutoCheck -----------------------------
(***************************************************************************)
(* The Java controller: a java.util.Timer runs AutoCheckerTask, which reads *)
(* the size of the address space and, when it is over the threshold, takes *)
(* shrinkStep from the region space and checks twice as often for a while. *)
(* The app's lifecycle callbacks inBackground and toForeground cancel and  *)
(* recreate the timer from the main thread, the task does so from its own, *)
(* and nothing is synchronised: every access to the shared static fields   *)
(* is a step.                                                              *)
(*                                                                         *)
(* Behaviours start when Patrons.init has returned 0 with config.auto set. *)
(* The native space is the abstract one. A call of shrinkRegionSpace reads *)
(* the use and the limit without the lock and clamps under it, where only  *)
(* the use is compared again; the answer is that of the first comparison.  *)
(* Sizes are in a unit that divides both MB and shrinkStep.                *)
(***************************************************************************)
EXTENDS ShrinkableSpace

CONSTANTS
  Main,          \* the thread of the lifecycle callbacks
  Timers,        \* timer objects, each with its thread; ids are reused
  NoTimer,       \* null
  ShrinkStep,    \* config.shrinkStep
  LowerLimit,    \* config.lowerLimit
  PeriodOfCheck, \* config.periodOfCheck; with 0 the schedule of init throws
  MaxStrict,     \* MAX_CHECK_OF_STRICT_MODE
  ManualSizes,   \* what the app itself may pass to Patrons.shrinkRegionSpace
  Overlap        \* a bound: FALSE keeps callbacks and checks apart

ASSUME ControllerAssumption ==
  /\ Main \notin Timers
  /\ NoTimer \notin Timers
  /\ ShrinkStep \in Nat \ {0}
  /\ LowerLimit \in 1 .. MaxSize
  /\ PeriodOfCheck \in Nat \ {0}
  /\ MaxStrict \in Nat \ {0}
  /\ ManualSizes \subseteq Nat
  /\ Overlap \in BOOLEAN

Threads == Timers \cup {Main}

VARIABLES
  auto,       \* config.auto
  timer,      \* autoCheckVssTimer
  state,      \* of each timer: "new", "live" once scheduled, "cancelled"
  delay,      \* the period it was scheduled with
  strict,     \* strictCount
  current,    \* currentRegionSpaces
  guarded,    \* the native guard is on: shrinkRegionSpace always says true
  visible,    \* the last callback was toForeground
  pressure,   \* vss is over periodOfShrink
  manual,     \* the size a shrink of the app's own is about to set, or 0
  overlapped, \* a callback or check has begun inside another (for properties)
  crashed,    \* an exception has reached the top of a thread
  pc,         \* where each thread stands
  ret,        \* where it goes on after inBackground or _start
  period,     \* the argument of _start
  over,       \* currentPeriod > config.periodOfShrink, as it was read
  next,       \* the argument of shrinkRegionSpace
  room        \* it is above the use, as that was read

appVars   == <<visible, pressure, manual, overlapped>>
timerVars == <<timer, state, delay>>
bookVars  == <<strict, current>>
localVars == <<ret, period, over, next, room>>
vars == <<spaceVars, auto, timerVars, bookVars, guarded, appVars, crashed,
          pc, localVars>>

CallbackPoints == {"bgAuto", "bgTimer", "bgCancel", "bgNull", "fgReset"}
StartPoints == {"stAuto", "stTimer", "stCancel", "stNull", "stNew", "stSchedule"}
CheckPoints == {"ckGet", "ckAdd", "ckReset", "ckVss", "ckLower", "ckNext",
                "ckCurrent", "ckUsed", "ckLimit", "ckClamp", "ckStrict",
                "ckNative", "stopAuto"}
ControlPoints == {"idle"} \cup CallbackPoints \cup StartPoints \cup CheckPoints

HalfPeriod == PeriodOfCheck \div 2

----------------------------------------------------------------------------

\* The end of a successful init: _start has scheduled the first timer.
Init ==
  /\ SpaceInit
  /\ capacity >= LowerLimit
  /\ auto = TRUE
  /\ timer \in Timers
  /\ state = [m \in Timers |-> IF m = timer THEN "live" ELSE "cancelled"]
  /\ delay = [m \in Timers |-> PeriodOfCheck]
  /\ strict = 0
  /\ current = capacity
  /\ guarded \in BOOLEAN
  /\ visible = TRUE
  /\ pressure \in BOOLEAN
  /\ manual = 0
  /\ overlapped = FALSE
  /\ crashed = FALSE
  /\ pc = [t \in Threads |-> "idle"]
  /\ ret = [t \in Threads |-> "idle"]
  /\ period = [t \in Threads |-> PeriodOfCheck]
  /\ over = [t \in Threads |-> FALSE]
  /\ next = [t \in Threads |-> 0]
  /\ room = [t \in Threads |-> FALSE]

Quiet == \A t \in Threads : pc[t] = "idle"

\* A callback or a check begins, whatever the other threads are doing.
Enter(t) ==
  /\ pc[t] = "idle" /\ ~crashed
  /\ Overlap \/ Quiet
  /\ overlapped' = (overlapped \/ ~Quiet)

At(t, point) == pc[t] = point /\ ~crashed

Goto(t, point) == pc' = [pc EXCEPT ![t] = point]

\* Calls, which leave everything but the control of thread t alone.
CallStart(t, p, after) ==
  /\ period' = [period EXCEPT ![t] = p]
  /\ ret' = [ret EXCEPT ![t] = after]
  /\ Goto(t, "stAuto")
  /\ UNCHANGED <<over, next, room>>

CallInBackground(t, after) ==
  /\ ret' = [ret EXCEPT ![t] = after]
  /\ Goto(t, "bgAuto")
  /\ UNCHANGED <<period, over, next, room>>

CallStop(t) == CallInBackground(t, "stopAuto")

\* NullPointerException, IllegalStateException, IllegalArgumentException: none
\* of them is caught.
Throw == crashed' = TRUE /\ UNCHANGED <<timerVars, pc>>

CancelTimer(t, after) ==
  IF timer = NoTimer
    THEN Throw
    ELSE /\ state' = [state EXCEPT ![timer] = "cancelled"]
         /\ Goto(t, after)
         /\ UNCHANGED <<timer, delay, crashed>>

ClearTimer(t, after) ==
  /\ timer' = NoTimer
  /\ Goto(t, after)
  /\ UNCHANGED <<state, delay, crashed>>

\* What the methods that only handle the timer leave alone.
TimerOnly == UNCHANGED <<spaceVars, auto, bookVars, guarded, appVars, localVars>>

\* What a step that only looks leaves alone, besides localVars.
ReadOnly ==
  UNCHANGED <<spaceVars, auto, timerVars, bookVars, guarded, appVars, crashed>>

----------------------------------------------------------------------------
(***************************************************************************)
(* inBackground, toForeground and _start.                                  *)
(***************************************************************************)

InBackground ==
  /\ Enter(Main)
  /\ visible' = FALSE
  /\ CallInBackground(Main, "idle")
  /\ UNCHANGED <<spaceVars, auto, timerVars, bookVars, guarded, pressure,
                 manual, crashed>>

ToForeground ==
  /\ Enter(Main)
  /\ visible' = TRUE
  /\ Goto(Main, "fgReset")
  /\ UNCHANGED <<spaceVars, auto, timerVars, bookVars, guarded, pressure,
                 manual, crashed, localVars>>

BgAuto(t) ==
  /\ At(t, "bgAuto")
  /\ Goto(t, IF auto THEN "bgTimer" ELSE ret[t])
  /\ ReadOnly /\ UNCHANGED localVars

\* Mutant: the timer is forgotten, not cancelled.
BgTimerForgets(t) ==
  /\ At(t, "bgTimer")
  /\ Goto(t, IF timer # NoTimer THEN "bgNull" ELSE ret[t])
  /\ ReadOnly /\ UNCHANGED localVars

BgTimer(t) ==
  /\ At(t, "bgTimer")
  /\ Goto(t, IF timer # NoTimer THEN "bgCancel" ELSE ret[t])
  /\ ReadOnly /\ UNCHANGED localVars

BgCancel(t) == At(t, "bgCancel") /\ CancelTimer(t, "bgNull") /\ TimerOnly

BgNull(t) == At(t, "bgNull") /\ ClearTimer(t, ret[t]) /\ TimerOnly

\* Mutant: coming back does not end the frequent checks.
FgKeepsStrict(t) ==
  /\ At(t, "fgReset")
  /\ CallStart(t, PeriodOfCheck, "idle")
  /\ ReadOnly

FgReset(t) ==
  /\ At(t, "fgReset")
  /\ strict' = 0
  /\ CallStart(t, PeriodOfCheck, "idle")
  /\ UNCHANGED <<spaceVars, auto, timerVars, current, guarded, appVars, crashed>>

StAuto(t) ==
  /\ At(t, "stAuto")
  /\ Goto(t, IF auto THEN "stTimer" ELSE ret[t])
  /\ ReadOnly /\ UNCHANGED localVars

\* Mutant: the old timer is left running.
StTimerLeaves(t) ==
  /\ At(t, "stTimer")
  /\ Goto(t, "stNew")
  /\ ReadOnly /\ UNCHANGED localVars

StTimer(t) ==
  /\ At(t, "stTimer")
  /\ Goto(t, IF timer # NoTimer THEN "stCancel" ELSE "stNew")
  /\ ReadOnly /\ UNCHANGED localVars

StCancel(t) == At(t, "stCancel") /\ CancelTimer(t, "stNull") /\ TimerOnly

\* Mutant: nothing new is created after the old one is gone.
StNullOnly(t) == At(t, "stNull") /\ ClearTimer(t, "stSchedule") /\ TimerOnly

StNull(t) == At(t, "stNull") /\ ClearTimer(t, "stNew") /\ TimerOnly

\* Bound: no more timers than Timers are alive or referenced at once.
Free(m) == state[m] # "live" /\ timer # m /\ pc[m] = "idle"

StNew(t) ==
  /\ At(t, "stNew")
  /\ \E m \in Timers :
       /\ Free(m)
       /\ timer' = m
       /\ state' = [state EXCEPT ![m] = "new"]
  /\ Goto(t, "stSchedule")
  /\ UNCHANGED <<delay, crashed>>
  /\ TimerOnly

\* Mutant: the new timer is never scheduled.
StScheduleNothing(t) ==
  /\ At(t, "stSchedule")
  /\ Goto(t, ret[t])
  /\ UNCHANGED <<timerVars, crashed>>
  /\ TimerOnly

\* The field is read again: it need not hold the timer just created.
StSchedule(t) ==
  /\ At(t, "stSchedule")
  /\ IF timer = NoTimer \/ period[t] = 0
       THEN Throw
       ELSE IF state[timer] = "cancelled"
         THEN Throw
         ELSE /\ state' = [state EXCEPT ![timer] = "live"]
              /\ delay' = [delay EXCEPT ![timer] = period[t]]
              /\ Goto(t, ret[t])
              /\ UNCHANGED <<timer, crashed>>
  /\ TimerOnly

----------------------------------------------------------------------------
(***************************************************************************)
(* AutoCheckerTask.run.                                                    *)
(***************************************************************************)

Fire(m) ==
  /\ state[m] = "live"
  /\ Enter(m)
  /\ Goto(m, "ckGet")
  /\ UNCHANGED <<spaceVars, auto, timerVars, bookVars, guarded, visible,
                 pressure, manual, crashed, localVars>>

CkGet(t) ==
  /\ At(t, "ckGet")
  /\ Goto(t, IF strict # 0 THEN "ckAdd" ELSE "ckVss")
  /\ ReadOnly /\ UNCHANGED localVars

CkAdd(t) ==
  /\ At(t, "ckAdd")
  /\ strict' = strict + 1
  /\ Goto(t, IF strict' > MaxStrict THEN "ckReset" ELSE "ckVss")
  /\ UNCHANGED <<spaceVars, auto, timerVars, current, guarded, appVars,
                 crashed, localVars>>

CkReset(t) ==
  /\ At(t, "ckReset")
  /\ strict' = 0
  /\ CallStart(t, PeriodOfCheck, "ckVss")
  /\ UNCHANGED <<spaceVars, auto, timerVars, current, guarded, appVars, crashed>>

CkVss(t) ==
  /\ At(t, "ckVss")
  /\ over' = [over EXCEPT ![t] = pressure]
  /\ Goto(t, "ckLower")
  /\ ReadOnly /\ UNCHANGED <<ret, period, next, room>>

\* Mutant: the limit is compared with the size before the step.
CkLowerLate(t) ==
  /\ At(t, "ckLower")
  /\ IF current < LowerLimit
       THEN CallStop(t)
       ELSE Goto(t, IF over[t] THEN "ckNext" ELSE "ckNative")
            /\ UNCHANGED localVars
  /\ ReadOnly

\* Mutant: the last step above the floor is not taken.
CkLowerEarly(t) ==
  /\ At(t, "ckLower")
  /\ IF current - ShrinkStep <= LowerLimit
       THEN CallStop(t)
       ELSE Goto(t, IF over[t] THEN "ckNext" ELSE "ckNative")
            /\ UNCHANGED localVars
  /\ ReadOnly

CkLower(t) ==
  /\ At(t, "ckLower")
  /\ IF current - ShrinkStep < LowerLimit
       THEN CallStop(t)
       ELSE Goto(t, IF over[t] THEN "ckNext" ELSE "ckNative")
            /\ UNCHANGED localVars
  /\ ReadOnly

CkNext(t) ==
  /\ At(t, "ckNext")
  /\ next' = [next EXCEPT ![t] = current - ShrinkStep]
  /\ Goto(t, "ckCurrent")
  /\ ReadOnly /\ UNCHANGED <<ret, period, over, room>>

\* The book is written before the space is asked, and not corrected after.
CkCurrent(t) ==
  /\ At(t, "ckCurrent")
  /\ current' = next[t]
  /\ Goto(t, "ckUsed")
  /\ UNCHANGED <<spaceVars, auto, timerVars, strict, guarded, appVars, crashed,
                 localVars>>

CkUsed(t) ==
  /\ At(t, "ckUsed")
  /\ room' = [room EXCEPT ![t] = used < next[t]]
  /\ Goto(t, "ckLimit")
  /\ ReadOnly /\ UNCHANGED <<ret, period, over, next>>

\* A refusal is answered with false, or with true by the guarded branch.
CkLimit(t) ==
  /\ At(t, "ckLimit")
  /\ IF room[t] /\ next[t] <= capacity
       THEN Goto(t, "ckClamp") /\ UNCHANGED localVars
       ELSE IF guarded
         THEN Goto(t, "ckStrict") /\ UNCHANGED localVars
         ELSE CallStop(t)
  /\ ReadOnly

\* Under the region lock: if the use has come up meanwhile nothing is done, and
\* if the limit has gone down the space grows. The answer is true either way.
Clamp(n) ==
  /\ capacity' = IF used < n THEN n ELSE capacity
  /\ UNCHANGED used

CkClamp(t) ==
  /\ At(t, "ckClamp")
  /\ Clamp(next[t])
  /\ Goto(t, "ckStrict")
  /\ UNCHANGED <<auto, timerVars, bookVars, guarded, appVars, crashed, localVars>>

CkStrict(t) ==
  /\ At(t, "ckStrict")
  /\ strict' = 1
  /\ CallStart(t, HalfPeriod, "idle")
  /\ UNCHANGED <<spaceVars, auto, timerVars, current, guarded, appVars, crashed>>

CkNative(t) ==
  /\ At(t, "ckNative")
  /\ IF capacity < LowerLimit
       THEN CallStop(t)
       ELSE Goto(t, "idle") /\ UNCHANGED localVars
  /\ ReadOnly

StopAuto(t) ==
  /\ At(t, "stopAuto")
  /\ auto' = FALSE
  /\ Goto(t, "idle")
  /\ UNCHANGED <<spaceVars, timerVars, bookVars, guarded, appVars, crashed,
                 localVars>>

----------------------------------------------------------------------------
(***************************************************************************)
(* The rest of the process.                                                *)
(***************************************************************************)

ControllerUnchanged ==
  UNCHANGED <<auto, timerVars, bookVars, guarded, visible, overlapped, crashed,
              pc, localVars>>

\* Patrons.shrinkRegionSpace, called by the app, which does not tell the book.
\* The comparison with the use counts under the lock only. Bound: one at a time.
ManualTest(n) ==
  /\ ~crashed
  /\ manual = 0
  /\ n \in 1 .. capacity
  /\ manual' = n
  /\ ControllerUnchanged /\ UNCHANGED <<spaceVars, pressure>>

ManualClamp ==
  /\ ~crashed
  /\ manual # 0
  /\ Clamp(manual)
  /\ manual' = 0
  /\ ControllerUnchanged /\ UNCHANGED pressure

\* Objects and address space come and go.
Mutator ==
  /\ ~crashed
  /\ \/ (Allocate \/ Collect) /\ UNCHANGED pressure
     \/ pressure' = ~pressure /\ UNCHANGED spaceVars
  /\ ControllerUnchanged /\ UNCHANGED manual

----------------------------------------------------------------------------

Step(t) ==
  \/ BgAuto(t) \/ BgTimer(t) \/ BgCancel(t) \/ BgNull(t) \/ FgReset(t)
  \/ StAuto(t) \/ StTimer(t) \/ StCancel(t) \/ StNull(t) \/ StNew(t)
  \/ StSchedule(t)
  \/ CkGet(t) \/ CkAdd(t) \/ CkReset(t) \/ CkVss(t) \/ CkLower(t) \/ CkNext(t)
  \/ CkCurrent(t) \/ CkUsed(t) \/ CkLimit(t) \/ CkClamp(t) \/ CkStrict(t)
  \/ CkNative(t) \/ StopAuto(t)

Next ==
  \/ \E t \in Threads : Step(t)
  \/ \E m \in Timers : Fire(m)
  \/ InBackground
  \/ ToForeground
  \/ \E n \in ManualSizes : ManualTest(n)
  \/ ManualClamp
  \/ Mutator

Spec == Init /\ [][Next]_vars

\* Running threads run on, and a live timer fires in the end. Nobody has to
\* move the app between foreground and background.
Fairness ==
  /\ \A t \in Threads : WF_vars(Step(t))
  /\ WF_vars(\E m \in Timers : Fire(m))

FairSpec == Spec /\ Fairness

----------------------------------------------------------------------------

TypeOK ==
  /\ capacity \in 1 .. MaxSize
  /\ used \in 0 .. MaxSize
  /\ auto \in BOOLEAN
  /\ timer \in Timers \cup {NoTimer}
  /\ state \in [Timers -> {"new", "live", "cancelled"}]
  /\ delay \in [Timers -> {PeriodOfCheck, HalfPeriod}]
  /\ strict \in Nat
  /\ current \in Int
  /\ guarded \in BOOLEAN
  /\ visible \in BOOLEAN
  /\ pressure \in BOOLEAN
  /\ manual \in 0 .. MaxSize
  /\ overlapped \in BOOLEAN
  /\ crashed \in BOOLEAN
  /\ pc \in [Threads -> ControlPoints]
  /\ ret \in [Threads -> {"idle", "ckVss", "stopAuto"}]
  /\ period \in [Threads -> {PeriodOfCheck, HalfPeriod}]
  /\ over \in [Threads -> BOOLEAN]
  /\ next \in [Threads -> Int]
  /\ room \in [Threads -> BOOLEAN]

(***************************************************************************)
(* Safety. What is promised with ~overlapped is lost for good once two     *)
(* threads have been inside the controller at the same time, which nothing *)
(* in the code prevents.                                                   *)
(***************************************************************************)

LiveTimers == {m \in Timers : state[m] = "live"}

\* As long as nothing has overlapped, restarting the check from the task, from
\* toForeground and from inBackground leaves no timer running that the field
\* has lost.
OneTimer == Quiet /\ ~overlapped => LiveTimers \subseteq {timer}

\* As long as nothing has overlapped, nothing fires in the background, and once
\* the watch has been given up.
QuietWhenOff ==
  Quiet /\ ~overlapped /\ (~visible \/ ~auto) => LiveTimers = {}

\* "App goes to the background, stop checking" (_Patrons.java:154).
NoCheckInBackground == Quiet /\ ~visible => LiveTimers = {}

\* In the foreground the watch goes on until it is given up, whatever overlaps.
WatchedWhenOn == Quiet /\ visible /\ auto => LiveTimers # {}

\* As long as nothing has overlapped, the check never asks for a size below
\* lowerLimit.
AsksAboveFloor ==
  \A t \in Threads :
    pc[t] \in {"ckUsed", "ckLimit", "ckClamp"} /\ ~overlapped =>
      next[t] >= LowerLimit

\* As long as nothing has overlapped, frequent checks run at half the period and
\* ordinary ones at the full one: counter and timer restart together.
StrictMatchesPeriod ==
  Quiet /\ ~overlapped /\ LiveTimers # {} =>
    (strict > 0 <=> delay[timer] = HalfPeriod)

\* "The current size of the region space" (_Patrons.java:51): while the watch
\* goes on, no resize that was not made has been written down as one.
BookNotAhead == Quiet /\ auto => current >= capacity

\* "There are several layers of protection in the key logic, no new crashes will
\* be caused" (README.md:43): no exception reaches the top of a thread. It does
\* when a callback and a check meet.
NoCrash == ~crashed

\* The two threads that touch the timer throw only if they meet.
ThrowsOnlyInOverlap == crashed => overlapped

(***************************************************************************)
(* Liveness.                                                               *)
(***************************************************************************)

\* Where the objects fit below the floor and the app itself does not shrink,
\* the space itself, not only the book, is brought to the last step above the
\* floor by pressure that lasts in the foreground: no check gives up earlier.
KeepsShrinking ==
  /\ [](used < LowerLimit /\ manual = 0)
  /\ <>[](pressure /\ visible /\ pc[Main] = "idle")
  => <>[](capacity < LowerLimit + ShrinkStep)

=============================================================================
