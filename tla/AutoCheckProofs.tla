--------------------------- MODULE AutoCheckProofs ---------------------------
(***************************************************************************)
(* Proofs about AutoCheck, for any number of timers, any sizes, steps,     *)
(* limits and periods, and callbacks and checks that overlap or do not.    *)
(*                                                                         *)
(* Typed and Loose hold always. Inv holds until callbacks or checks have   *)
(* overlapped for the first time: one thread is inside a method at a time  *)
(* (Alone), the field and the live timers agree except between a cancel    *)
(* and the assignment behind it (FieldAndTimers), and the counter of the   *)
(* frequent checks agrees with the period of the timer or, on the way to a *)
(* restart, with the argument of _start (CounterAndPeriod).                *)
(***************************************************************************)
EXTENDS AutoCheck, TLAPS

\* A size about to be set has passed both comparisons.
Typed ==
  /\ TypeOK
  /\ \A t \in Threads : pc[t] = "ckClamp" => next[t] \in 1 .. MaxSize
  /\ \A t \in Threads : pc[t] = "ckLimit" /\ room[t] => next[t] >= 1

InsideCallback == CallbackPoints \ {"fgReset"}
CancelPoints == {"bgCancel", "bgNull", "stCancel", "stNull"}
NeedsTimer == CancelPoints \cup {"stSchedule"} \cup (CheckPoints \ {"stopAuto"})

\* Callbacks run on the main thread, checks on that of a timer, one at a time.
Alone ==
  \A t, u \in Threads : pc[t] # "idle" /\ pc[u] # "idle" => t = u

\* Where a thread is tells who called: a check gives up through inBackground
\* and restarts through _start, and does both in the foreground only.
Callers ==
  /\ pc[Main] \notin CheckPoints
  /\ pc[Main] # "idle" => (visible <=> pc[Main] \notin InsideCallback)
  /\ pc[Main] \in InsideCallback \cup StartPoints => ret[Main] = "idle"
  /\ \A m \in Timers :
       /\ pc[m] # "fgReset"
       /\ pc[m] # "idle" => visible /\ auto
       /\ pc[m] \in InsideCallback => ret[m] = "stopAuto"
       /\ pc[m] \in StartPoints => ret[m] \in {"idle", "ckVss"}

\* The field and the timers.
FieldAndTimers ==
  /\ ~auto => timer = NoTimer
  /\ Quiet /\ auto /\ visible => timer # NoTimer
  /\ Quiet /\ ~visible => timer = NoTimer
  /\ \A t \in Threads :
       /\ pc[t] \in (InsideCallback \cup StartPoints) \ {"bgAuto", "stAuto"} => auto
       /\ pc[t] \in NeedsTimer => timer # NoTimer
       /\ pc[t] \in {"stNew", "stopAuto"} => timer = NoTimer
  /\ (\A t \in Threads : pc[t] \notin {"bgNull", "stNull", "stSchedule"}) =>
       \A m \in Timers : state[m] = IF m = timer THEN "live" ELSE "cancelled"
  /\ \A t \in Threads :
       /\ pc[t] \in {"bgNull", "stNull"} =>
            \A m \in Timers : state[m] = "cancelled"
       /\ pc[t] = "stSchedule" =>
            \A m \in Timers : state[m] = IF m = timer THEN "new" ELSE "cancelled"

\* The counter and the period.
CounterAndPeriod ==
  /\ (\A t \in Threads : pc[t] \notin InsideCallback \cup StartPoints \cup {"stopAuto"}) =>
       (timer # NoTimer => (strict > 0 <=> delay[timer] = HalfPeriod))
  /\ \A t \in Threads :
       /\ pc[t] = "ckAdd" => strict > 0
       /\ pc[t] \in StartPoints => (strict > 0 <=> period[t] = HalfPeriod)

\* The book: what is written down and asked for stays above the floor.
Book ==
  /\ current >= LowerLimit
  /\ \A t \in Threads :
       /\ pc[t] = "ckNext" => current - ShrinkStep >= LowerLimit
       /\ pc[t] \in {"ckCurrent", "ckUsed", "ckLimit", "ckClamp"} =>
            next[t] >= LowerLimit

\* A timer that was created is scheduled, so nothing throws: for that the halved
\* period must not be 0.
Safe == PeriodOfCheck >= 2 => ~crashed

Inv == Alone /\ Callers /\ FieldAndTimers /\ CounterAndPeriod /\ Book /\ Safe

----------------------------------------------------------------------------

USE ControllerAssumption, MaxSizeAssumption
    DEF At, Goto, Quiet, Threads, spaceVars, appVars, timerVars, bookVars,
        localVars, ReadOnly, ControlPoints, CallbackPoints, StartPoints,
        CheckPoints, InsideCallback, CancelPoints, NeedsTimer

\* Half a period is shorter than the period, and 0 only if the period is 1.
LEMMA Halved ==
  /\ HalfPeriod \in Nat
  /\ HalfPeriod # PeriodOfCheck
  /\ PeriodOfCheck >= 2 => HalfPeriod > 0
BY DEF HalfPeriod

LEMMA TypedInit == Init => Typed
<1> SUFFICES ASSUME Init PROVE Typed
  OBVIOUS
<1> USE Halved DEF Init, SpaceInit
<1>1. capacity \in 1 .. MaxSize /\ used \in 0 .. MaxSize /\ current \in Int
  OBVIOUS
<1>2. guarded \in BOOLEAN /\ pressure \in BOOLEAN
  BY Zenon
<1>3. /\ state \in [Timers -> {"new", "live", "cancelled"}]
      /\ delay \in [Timers -> {PeriodOfCheck, HalfPeriod}]
      /\ period \in [Threads -> {PeriodOfCheck, HalfPeriod}]
  OBVIOUS
<1>4. /\ pc \in [Threads -> ControlPoints]
      /\ ret \in [Threads -> {"idle", "ckVss", "stopAuto"}]
      /\ over \in [Threads -> BOOLEAN]
      /\ next \in [Threads -> Int]
      /\ room \in [Threads -> BOOLEAN]
  OBVIOUS
<1>5. auto \in BOOLEAN /\ visible \in BOOLEAN /\ overlapped \in BOOLEAN
      /\ crashed \in BOOLEAN
  BY Zenon
<1>6. timer \in Timers \cup {NoTimer} /\ strict \in Nat /\ manual \in 0 .. MaxSize
  OBVIOUS
<1>7. TypeOK
  BY <1>1, <1>2, <1>3, <1>4, <1>5, <1>6, Zenon DEF TypeOK
<1>8. \A t \in Threads : pc[t] = "idle"
  OBVIOUS
<1> QED
  BY <1>7, <1>8 DEF Typed

LEMMA TypedStep == Typed /\ [Next]_vars => Typed'
<1> SUFFICES ASSUME Typed, [Next]_vars PROVE Typed'
  OBVIOUS
<1> USE Halved DEF Typed, TypeOK
<1>1. ASSUME NEW t \in Threads, BgAuto(t) PROVE Typed'
  BY <1>1 DEF BgAuto
<1>2. ASSUME NEW t \in Threads, BgTimer(t) PROVE Typed'
  BY <1>2 DEF BgTimer
<1>3. ASSUME NEW t \in Threads, BgCancel(t) PROVE Typed'
  BY <1>3 DEF BgCancel, CancelTimer, TimerOnly, Throw
<1>4. ASSUME NEW t \in Threads, BgNull(t) PROVE Typed'
  BY <1>4 DEF BgNull, ClearTimer, TimerOnly
<1>5. ASSUME NEW t \in Threads, FgReset(t) PROVE Typed'
  BY <1>5 DEF FgReset, CallStart
<1>6. ASSUME NEW t \in Threads, StAuto(t) PROVE Typed'
  BY <1>6 DEF StAuto
<1>7. ASSUME NEW t \in Threads, StTimer(t) PROVE Typed'
  BY <1>7 DEF StTimer
<1>8. ASSUME NEW t \in Threads, StCancel(t) PROVE Typed'
  BY <1>8 DEF StCancel, CancelTimer, TimerOnly, Throw
<1>9. ASSUME NEW t \in Threads, StNull(t) PROVE Typed'
  BY <1>9 DEF StNull, ClearTimer, TimerOnly
<1>10. ASSUME NEW t \in Threads, StNew(t) PROVE Typed'
  BY <1>10 DEF StNew, Free, TimerOnly
<1>11. ASSUME NEW t \in Threads, StSchedule(t) PROVE Typed'
  <2>1. pc[t] = "stSchedule"
    BY <1>11 DEF StSchedule
  <2>2. UNCHANGED <<spaceVars, auto, bookVars, guarded, appVars, localVars>>
    BY <1>11 DEF StSchedule, TimerOnly
  <2>3. CASE Throw
    BY <2>1, <2>2, <2>3 DEF Throw
  <2>4. CASE /\ timer # NoTimer
             /\ state' = [state EXCEPT ![timer] = "live"]
             /\ delay' = [delay EXCEPT ![timer] = period[t]]
             /\ pc' = [pc EXCEPT ![t] = ret[t]]
             /\ UNCHANGED <<timer, crashed>>
    BY <2>1, <2>2, <2>4
  <2> QED
    BY <1>11, <2>3, <2>4 DEF StSchedule
<1>12. ASSUME NEW t \in Threads, CkGet(t) PROVE Typed'
  BY <1>12 DEF CkGet
<1>13. ASSUME NEW t \in Threads, CkAdd(t) PROVE Typed'
  BY <1>13 DEF CkAdd
<1>14. ASSUME NEW t \in Threads, CkReset(t) PROVE Typed'
  BY <1>14 DEF CkReset, CallStart
<1>15. ASSUME NEW t \in Threads, CkVss(t) PROVE Typed'
  BY <1>15 DEF CkVss
<1>16. ASSUME NEW t \in Threads, CkLower(t) PROVE Typed'
  BY <1>16 DEF CkLower, CallStop, CallInBackground
<1>17. ASSUME NEW t \in Threads, CkNext(t) PROVE Typed'
  BY <1>17 DEF CkNext
<1>18. ASSUME NEW t \in Threads, CkCurrent(t) PROVE Typed'
  BY <1>18 DEF CkCurrent
<1>19. ASSUME NEW t \in Threads, CkUsed(t) PROVE Typed'
  BY <1>19 DEF CkUsed
<1>20. ASSUME NEW t \in Threads, CkLimit(t) PROVE Typed'
  BY <1>20 DEF CkLimit, CallStop, CallInBackground
<1>21. ASSUME NEW t \in Threads, CkClamp(t) PROVE Typed'
  BY <1>21 DEF CkClamp, Clamp
<1>22. ASSUME NEW t \in Threads, CkStrict(t) PROVE Typed'
  BY <1>22 DEF CkStrict, CallStart
<1>23. ASSUME NEW t \in Threads, CkNative(t) PROVE Typed'
  BY <1>23 DEF CkNative, CallStop, CallInBackground
<1>24. ASSUME NEW t \in Threads, StopAuto(t) PROVE Typed'
  BY <1>24 DEF StopAuto
<1>25. ASSUME NEW m \in Timers, Fire(m) PROVE Typed'
  <2>1. overlapped' \in BOOLEAN
    BY <1>25 DEF Fire, Enter
  <2> QED
    BY <1>25, <2>1 DEF Fire, Enter
<1>26. ASSUME InBackground PROVE Typed'
  BY <1>26 DEF InBackground, Enter, CallInBackground
<1>27. ASSUME ToForeground PROVE Typed'
  BY <1>27 DEF ToForeground, Enter
<1>28. ASSUME NEW n \in ManualSizes, ManualTest(n) PROVE Typed'
  BY <1>28 DEF ManualTest, ControllerUnchanged
<1>29. ASSUME ManualClamp PROVE Typed'
  BY <1>29 DEF ManualClamp, ControllerUnchanged, Clamp
<1>30. ASSUME Mutator PROVE Typed'
  <2>1. pressure' \in BOOLEAN
    <3>1. CASE pressure' = ~pressure
      BY <3>1
    <3>2. CASE UNCHANGED pressure
      BY <3>2
    <3> QED
      BY <1>30, <3>1, <3>2 DEF Mutator
  <2>2. capacity' \in 1 .. MaxSize /\ used' \in 0 .. MaxSize
    BY <1>30 DEF Mutator, Allocate, Collect
  <2> QED
    BY <1>30, <2>1, <2>2 DEF Mutator, ControllerUnchanged
<1>31. ASSUME UNCHANGED vars PROVE Typed'
  BY <1>31 DEF vars
<1> QED
  BY <1>1, <1>2, <1>3, <1>4, <1>5, <1>6, <1>7, <1>8, <1>9, <1>10, <1>11,
    <1>12, <1>13, <1>14, <1>15, <1>16, <1>17, <1>18, <1>19, <1>20, <1>21,
    <1>22, <1>23, <1>24, <1>25, <1>26, <1>27, <1>28, <1>29, <1>30, <1>31
  DEF Next, Step

LEMMA TypedInvariant == Spec => []Typed
BY TypedInit, TypedStep, PTL DEF Spec

\* Type correctness, whatever overlaps: the size of the space stays within what
\* the process was started with, and every thread at a point of its own methods.
THEOREM TypeCorrect == Spec => []TypeOK
<1>1. Typed => TypeOK
  BY DEF Typed
<1> QED
  BY TypedInvariant, <1>1, PTL

----------------------------------------------------------------------------
(***************************************************************************)
(* As long as no callback or check has begun inside another.               *)
(***************************************************************************)

LEMMA InvInit == Init => Inv
<1> SUFFICES ASSUME Init PROVE Inv
  OBVIOUS
<1> USE Halved DEF Init, SpaceInit
<1>1. Alone /\ Callers
  BY DEF Alone, Callers
<1>2. FieldAndTimers
  BY DEF FieldAndTimers
<1>3. CounterAndPeriod /\ Book /\ Safe
  BY DEF CounterAndPeriod, Book, Safe
<1> QED
  BY <1>1, <1>2, <1>3 DEF Inv

LEMMA InvStep ==
  ASSUME ~overlapped', Typed, Inv, [Next]_vars
  PROVE  Inv'
<1> USE Halved DEF Typed, TypeOK, Inv, Alone, Callers, FieldAndTimers,
     CounterAndPeriod, Book, Safe
<1>1. ASSUME NEW t \in Threads, BgAuto(t) PROVE Inv'
  BY <1>1 DEF BgAuto
<1>2. ASSUME NEW t \in Threads, BgTimer(t) PROVE Inv'
  BY <1>2 DEF BgTimer
<1>3. ASSUME NEW t \in Threads, BgCancel(t) PROVE Inv'
  BY <1>3 DEF BgCancel, CancelTimer, TimerOnly, Throw
<1>4. ASSUME NEW t \in Threads, BgNull(t) PROVE Inv'
  BY <1>4 DEF BgNull, ClearTimer, TimerOnly
<1>5. ASSUME NEW t \in Threads, FgReset(t) PROVE Inv'
  BY <1>5 DEF FgReset, CallStart
<1>6. ASSUME NEW t \in Threads, StAuto(t) PROVE Inv'
  BY <1>6 DEF StAuto
<1>7. ASSUME NEW t \in Threads, StTimer(t) PROVE Inv'
  BY <1>7 DEF StTimer
<1>8. ASSUME NEW t \in Threads, StCancel(t) PROVE Inv'
  BY <1>8 DEF StCancel, CancelTimer, TimerOnly, Throw
<1>9. ASSUME NEW t \in Threads, StNull(t) PROVE Inv'
  BY <1>9 DEF StNull, ClearTimer, TimerOnly
<1>10. ASSUME NEW t \in Threads, StNew(t) PROVE Inv'
  BY <1>10 DEF StNew, Free, TimerOnly
<1>11. ASSUME NEW t \in Threads, StSchedule(t) PROVE Inv'
  <2>1. timer # NoTimer /\ state[timer] = "new"
    BY <1>11 DEF StSchedule
  <2>2. CASE period[t] = 0
    <3>1. crashed' = TRUE /\ UNCHANGED <<timerVars, pc>>
      BY <1>11, <2>2 DEF StSchedule, Throw
    <3>2. UNCHANGED <<spaceVars, auto, bookVars, guarded, appVars, localVars>>
      BY <1>11 DEF StSchedule, TimerOnly
    <3> QED
      BY <1>11, <2>2, <3>1, <3>2 DEF StSchedule
  <2>3. CASE period[t] # 0
    <3>1. /\ state' = [state EXCEPT ![timer] = "live"]
          /\ delay' = [delay EXCEPT ![timer] = period[t]]
          /\ pc' = [pc EXCEPT ![t] = ret[t]]
          /\ UNCHANGED <<timer, crashed>>
      BY <1>11, <2>1, <2>3 DEF StSchedule
    <3>2. UNCHANGED <<spaceVars, auto, bookVars, guarded, appVars, localVars>>
      BY <1>11 DEF StSchedule, TimerOnly
    <3>3. pc[t] = "stSchedule"
      BY <1>11 DEF StSchedule
    <3>5. Alone'
      BY <2>1, <2>3, <3>1, <3>2, <3>3
    <3>6. Callers'
      BY <2>1, <2>3, <3>1, <3>2, <3>3
    <3>7. FieldAndTimers'
      BY <2>1, <2>3, <3>1, <3>2, <3>3
    <3>8. CounterAndPeriod'
      BY <2>1, <2>3, <3>1, <3>2, <3>3
    <3>9. Book'
      BY <2>1, <2>3, <3>1, <3>2, <3>3
    <3>10. Safe'
      BY <2>1, <2>3, <3>1, <3>2, <3>3
    <3> QED
      BY <3>5, <3>6, <3>7, <3>8, <3>9, <3>10
  <2> QED
    BY <2>2, <2>3
<1>12. ASSUME NEW t \in Threads, CkGet(t) PROVE Inv'
  BY <1>12 DEF CkGet
<1>13. ASSUME NEW t \in Threads, CkAdd(t) PROVE Inv'
  BY <1>13 DEF CkAdd
<1>14. ASSUME NEW t \in Threads, CkReset(t) PROVE Inv'
  BY <1>14 DEF CkReset, CallStart
<1>15. ASSUME NEW t \in Threads, CkVss(t) PROVE Inv'
  BY <1>15 DEF CkVss
<1>16. ASSUME NEW t \in Threads, CkLower(t) PROVE Inv'
  BY <1>16 DEF CkLower, CallStop, CallInBackground
<1>17. ASSUME NEW t \in Threads, CkNext(t) PROVE Inv'
  BY <1>17 DEF CkNext
<1>18. ASSUME NEW t \in Threads, CkCurrent(t) PROVE Inv'
  BY <1>18 DEF CkCurrent
<1>19. ASSUME NEW t \in Threads, CkUsed(t) PROVE Inv'
  BY <1>19 DEF CkUsed
<1>20. ASSUME NEW t \in Threads, CkLimit(t) PROVE Inv'
  BY <1>20 DEF CkLimit, CallStop, CallInBackground
<1>21. ASSUME NEW t \in Threads, CkClamp(t) PROVE Inv'
  BY <1>21 DEF CkClamp, Clamp
<1>22. ASSUME NEW t \in Threads, CkStrict(t) PROVE Inv'
  BY <1>22 DEF CkStrict, CallStart
<1>23. ASSUME NEW t \in Threads, CkNative(t) PROVE Inv'
  BY <1>23 DEF CkNative, CallStop, CallInBackground
<1>24. ASSUME NEW t \in Threads, StopAuto(t) PROVE Inv'
  <2>1. Alone'
    BY <1>24 DEF StopAuto
  <2>2. Callers'
    BY <1>24 DEF StopAuto
  <2>3. FieldAndTimers'
    BY <1>24 DEF StopAuto
  <2>4. CounterAndPeriod'
    BY <1>24 DEF StopAuto
  <2>5. Book'
    BY <1>24 DEF StopAuto
  <2>6. Safe'
    BY <1>24 DEF StopAuto
  <2> QED
    BY <2>1, <2>2, <2>3, <2>4, <2>5, <2>6
<1>25. ASSUME NEW m \in Timers, Fire(m) PROVE Inv'
  BY <1>25 DEF Fire, Enter
<1>26. ASSUME InBackground PROVE Inv'
  <2>1. Alone'
    BY <1>26 DEF InBackground, Enter, CallInBackground
  <2>2. Callers'
    BY <1>26 DEF InBackground, Enter, CallInBackground
  <2>3. FieldAndTimers'
    BY <1>26 DEF InBackground, Enter, CallInBackground
  <2>4. CounterAndPeriod'
    BY <1>26 DEF InBackground, Enter, CallInBackground
  <2>5. Book'
    BY <1>26 DEF InBackground, Enter, CallInBackground
  <2>6. Safe'
    BY <1>26 DEF InBackground, Enter, CallInBackground
  <2> QED
    BY <2>1, <2>2, <2>3, <2>4, <2>5, <2>6
<1>27. ASSUME ToForeground PROVE Inv'
  BY <1>27 DEF ToForeground, Enter
<1>28. ASSUME NEW n \in ManualSizes, ManualTest(n) PROVE Inv'
  BY <1>28 DEF ManualTest, ControllerUnchanged
<1>29. ASSUME ManualClamp PROVE Inv'
  BY <1>29 DEF ManualClamp, ControllerUnchanged, Clamp
<1>30. ASSUME Mutator PROVE Inv'
  <2>1. Alone'
    BY <1>30 DEF Mutator, ControllerUnchanged, Allocate, Collect
  <2>2. Callers'
    BY <1>30 DEF Mutator, ControllerUnchanged, Allocate, Collect
  <2>3. FieldAndTimers'
    BY <1>30 DEF Mutator, ControllerUnchanged, Allocate, Collect
  <2>4. CounterAndPeriod'
    BY <1>30 DEF Mutator, ControllerUnchanged, Allocate, Collect
  <2>5. Book'
    BY <1>30 DEF Mutator, ControllerUnchanged, Allocate, Collect
  <2>6. Safe'
    BY <1>30 DEF Mutator, ControllerUnchanged, Allocate, Collect
  <2> QED
    BY <2>1, <2>2, <2>3, <2>4, <2>5, <2>6
<1>31. ASSUME UNCHANGED vars PROVE Inv'
  BY <1>31 DEF vars
<1> QED
  BY <1>1, <1>2, <1>3, <1>4, <1>5, <1>6, <1>7, <1>8, <1>9, <1>10, <1>11,
    <1>12, <1>13, <1>14, <1>15, <1>16, <1>17, <1>18, <1>19, <1>20, <1>21,
    <1>22, <1>23, <1>24, <1>25, <1>26, <1>27, <1>28, <1>29, <1>30, <1>31
  DEF Next, Step

\* What has overlapped once counts as overlapped for good.
LEMMA OverlapStays == ~overlapped' /\ [Next]_vars => ~overlapped
<1> SUFFICES ASSUME ~overlapped', [Next]_vars PROVE ~overlapped
  OBVIOUS
<1>1. ASSUME NEW t \in Threads, BgAuto(t) PROVE ~overlapped
  BY <1>1 DEF BgAuto
<1>2. ASSUME NEW t \in Threads, BgTimer(t) PROVE ~overlapped
  BY <1>2 DEF BgTimer
<1>3. ASSUME NEW t \in Threads, BgCancel(t) PROVE ~overlapped
  BY <1>3 DEF BgCancel, CancelTimer, TimerOnly, Throw
<1>4. ASSUME NEW t \in Threads, BgNull(t) PROVE ~overlapped
  BY <1>4 DEF BgNull, ClearTimer, TimerOnly
<1>5. ASSUME NEW t \in Threads, FgReset(t) PROVE ~overlapped
  BY <1>5 DEF FgReset, CallStart
<1>6. ASSUME NEW t \in Threads, StAuto(t) PROVE ~overlapped
  BY <1>6 DEF StAuto
<1>7. ASSUME NEW t \in Threads, StTimer(t) PROVE ~overlapped
  BY <1>7 DEF StTimer
<1>8. ASSUME NEW t \in Threads, StCancel(t) PROVE ~overlapped
  BY <1>8 DEF StCancel, CancelTimer, TimerOnly, Throw
<1>9. ASSUME NEW t \in Threads, StNull(t) PROVE ~overlapped
  BY <1>9 DEF StNull, ClearTimer, TimerOnly
<1>10. ASSUME NEW t \in Threads, StNew(t) PROVE ~overlapped
  BY <1>10 DEF StNew, Free, TimerOnly
<1>11. ASSUME NEW t \in Threads, StSchedule(t) PROVE ~overlapped
  BY <1>11 DEF StSchedule, TimerOnly, Throw
<1>12. ASSUME NEW t \in Threads, CkGet(t) PROVE ~overlapped
  BY <1>12 DEF CkGet
<1>13. ASSUME NEW t \in Threads, CkAdd(t) PROVE ~overlapped
  BY <1>13 DEF CkAdd
<1>14. ASSUME NEW t \in Threads, CkReset(t) PROVE ~overlapped
  BY <1>14 DEF CkReset, CallStart
<1>15. ASSUME NEW t \in Threads, CkVss(t) PROVE ~overlapped
  BY <1>15 DEF CkVss
<1>16. ASSUME NEW t \in Threads, CkLower(t) PROVE ~overlapped
  BY <1>16 DEF CkLower, CallStop, CallInBackground
<1>17. ASSUME NEW t \in Threads, CkNext(t) PROVE ~overlapped
  BY <1>17 DEF CkNext
<1>18. ASSUME NEW t \in Threads, CkCurrent(t) PROVE ~overlapped
  BY <1>18 DEF CkCurrent
<1>19. ASSUME NEW t \in Threads, CkUsed(t) PROVE ~overlapped
  BY <1>19 DEF CkUsed
<1>20. ASSUME NEW t \in Threads, CkLimit(t) PROVE ~overlapped
  BY <1>20 DEF CkLimit, CallStop, CallInBackground
<1>21. ASSUME NEW t \in Threads, CkClamp(t) PROVE ~overlapped
  BY <1>21 DEF CkClamp, Clamp
<1>22. ASSUME NEW t \in Threads, CkStrict(t) PROVE ~overlapped
  BY <1>22 DEF CkStrict, CallStart
<1>23. ASSUME NEW t \in Threads, CkNative(t) PROVE ~overlapped
  BY <1>23 DEF CkNative, CallStop, CallInBackground
<1>24. ASSUME NEW t \in Threads, StopAuto(t) PROVE ~overlapped
  BY <1>24 DEF StopAuto
<1>25. ASSUME NEW m \in Timers, Fire(m) PROVE ~overlapped
  BY <1>25 DEF Fire, Enter
<1>26. ASSUME InBackground PROVE ~overlapped
  BY <1>26 DEF InBackground, Enter, CallInBackground
<1>27. ASSUME ToForeground PROVE ~overlapped
  BY <1>27 DEF ToForeground, Enter
<1>28. ASSUME NEW n \in ManualSizes, ManualTest(n) PROVE ~overlapped
  BY <1>28 DEF ManualTest, ControllerUnchanged
<1>29. ASSUME ManualClamp PROVE ~overlapped
  BY <1>29 DEF ManualClamp, ControllerUnchanged, Clamp
<1>30. ASSUME Mutator PROVE ~overlapped
  BY <1>30 DEF Mutator, ControllerUnchanged, Allocate, Collect
<1>31. ASSUME UNCHANGED vars PROVE ~overlapped
  BY <1>31 DEF vars
<1> QED
  BY <1>1, <1>2, <1>3, <1>4, <1>5, <1>6, <1>7, <1>8, <1>9, <1>10, <1>11,
    <1>12, <1>13, <1>14, <1>15, <1>16, <1>17, <1>18, <1>19, <1>20, <1>21,
    <1>22, <1>23, <1>24, <1>25, <1>26, <1>27, <1>28, <1>29, <1>30, <1>31
  DEF Next, Step

\* The one induction behind the theorems of this section.
LEMMA Invariant == Spec => [](~overlapped => Inv)
<1>1. Init => (~overlapped => Inv)
  BY InvInit
<1>2. Typed /\ (~overlapped => Inv) /\ [Next]_vars => (~overlapped' => Inv')
  BY InvStep, OverlapStays
<1> QED
  BY TypedInvariant, <1>1, <1>2, PTL DEF Spec

\* However often callbacks and restarts follow each other, no timer outlives the
\* field that could cancel it, as long as they follow and do not overlap.
THEOREM OneTimerLives == Spec => []OneTimer
<1>1. (~overlapped => Inv) => OneTimer
  BY DEF Inv, FieldAndTimers, OneTimer, LiveTimers
<1> QED
  BY Invariant, <1>1, PTL

\* As long as nothing has overlapped, no timer is alive in the background or once
\* the controller has given up.
THEOREM NothingFiresWhenOff == Spec => []QuietWhenOff
<1>1. (~overlapped => Inv) => QuietWhenOff
  BY DEF Inv, FieldAndTimers, QuietWhenOff, LiveTimers
<1> QED
  BY Invariant, <1>1, PTL

\* As long as nothing has overlapped, no check asks for a space below the floor,
\* for any floor and any step.
THEOREM FloorIsKept == Spec => []AsksAboveFloor
<1>1. (~overlapped => Inv) => AsksAboveFloor
  BY DEF Inv, Book, AsksAboveFloor
<1> QED
  BY Invariant, <1>1, PTL

\* As long as nothing has overlapped, the counter of the frequent checks and the
\* period of the live timer change together.
THEOREM FrequencyMatchesCounter == Spec => []StrictMatchesPeriod
<1>1. TypeOK /\ (~overlapped => Inv) => StrictMatchesPeriod
  BY DEF TypeOK, Inv, FieldAndTimers, CounterAndPeriod, StrictMatchesPeriod, LiveTimers
<1> QED
  BY TypeCorrect, Invariant, <1>1, PTL

\* With a period that can be halved, only callbacks and checks that meet can
\* throw: by themselves they never schedule a cancelled timer or cancel null.
THEOREM MeetingThreadsThrow ==
  ASSUME PeriodOfCheck >= 2
  PROVE  Spec => []ThrowsOnlyInOverlap
<1>1. (~overlapped => Inv) => ThrowsOnlyInOverlap
  BY DEF Inv, Safe, ThrowsOnlyInOverlap
<1> QED
  BY Invariant, <1>1, PTL

----------------------------------------------------------------------------
(***************************************************************************)
(* Callbacks and checks that overlap, as nothing in the code prevents. The *)
(* timers and the numbers then come apart, but the watch is not lost: a    *)
(* thread that has cancelled the last timer either has one to create, or   *)
(* is giving up.                                                           *)
(***************************************************************************)

\* Callers without the part that takes one thread at a time.
Called ==
  /\ pc[Main] \notin CheckPoints
  /\ pc[Main] # "idle" => (visible <=> pc[Main] \notin InsideCallback)
  /\ pc[Main] \in InsideCallback \cup StartPoints => ret[Main] = "idle"
  /\ \A m \in Timers :
       /\ pc[m] # "fgReset"
       /\ pc[m] \in InsideCallback => ret[m] = "stopAuto"
       /\ pc[m] \in StartPoints => ret[m] \in {"idle", "ckVss"}

Restarting(t) == pc[t] \in {"fgReset"} \cup StartPoints
GivingUp(m) == pc[m] \in {"stopAuto"} \cup InsideCallback

StillWatched ==
  auto /\ visible =>
    \/ LiveTimers # {}
    \/ \E t \in Threads : Restarting(t)
    \/ \E m \in Timers : GivingUp(m)

Loose == Called /\ StillWatched

LEMMA LooseInit == Init => Loose
<1> SUFFICES ASSUME Init PROVE Loose
  OBVIOUS
<1> QED
  BY DEF Init, Loose, Called, StillWatched, LiveTimers

LEMMA LooseStep == Typed /\ Loose /\ [Next]_vars => Loose'
<1> SUFFICES ASSUME Typed, Loose, [Next]_vars PROVE Loose'
  OBVIOUS
<1> USE DEF Typed, TypeOK, Loose, Called, StillWatched, LiveTimers, Restarting, GivingUp
<1>1. ASSUME NEW t \in Threads, BgAuto(t) PROVE Loose'
  BY <1>1 DEF BgAuto
<1>2. ASSUME NEW t \in Threads, BgTimer(t) PROVE Loose'
  BY <1>2 DEF BgTimer
<1>3. ASSUME NEW t \in Threads, BgCancel(t) PROVE Loose'
  BY <1>3 DEF BgCancel, CancelTimer, TimerOnly, Throw
<1>4. ASSUME NEW t \in Threads, BgNull(t) PROVE Loose'
  BY <1>4 DEF BgNull, ClearTimer, TimerOnly
<1>5. ASSUME NEW t \in Threads, FgReset(t) PROVE Loose'
  BY <1>5 DEF FgReset, CallStart
<1>6. ASSUME NEW t \in Threads, StAuto(t) PROVE Loose'
  BY <1>6 DEF StAuto
<1>7. ASSUME NEW t \in Threads, StTimer(t) PROVE Loose'
  BY <1>7 DEF StTimer
<1>8. ASSUME NEW t \in Threads, StCancel(t) PROVE Loose'
  BY <1>8 DEF StCancel, CancelTimer, TimerOnly, Throw
<1>9. ASSUME NEW t \in Threads, StNull(t) PROVE Loose'
  BY <1>9 DEF StNull, ClearTimer, TimerOnly
<1>10. ASSUME NEW t \in Threads, StNew(t) PROVE Loose'
  BY <1>10 DEF StNew, Free, TimerOnly
<1>11. ASSUME NEW t \in Threads, StSchedule(t) PROVE Loose'
  BY <1>11 DEF StSchedule, TimerOnly, Throw
<1>12. ASSUME NEW t \in Threads, CkGet(t) PROVE Loose'
  BY <1>12 DEF CkGet
<1>13. ASSUME NEW t \in Threads, CkAdd(t) PROVE Loose'
  BY <1>13 DEF CkAdd
<1>14. ASSUME NEW t \in Threads, CkReset(t) PROVE Loose'
  BY <1>14 DEF CkReset, CallStart
<1>15. ASSUME NEW t \in Threads, CkVss(t) PROVE Loose'
  BY <1>15 DEF CkVss
<1>16. ASSUME NEW t \in Threads, CkLower(t) PROVE Loose'
  BY <1>16 DEF CkLower, CallStop, CallInBackground
<1>17. ASSUME NEW t \in Threads, CkNext(t) PROVE Loose'
  BY <1>17 DEF CkNext
<1>18. ASSUME NEW t \in Threads, CkCurrent(t) PROVE Loose'
  BY <1>18 DEF CkCurrent
<1>19. ASSUME NEW t \in Threads, CkUsed(t) PROVE Loose'
  BY <1>19 DEF CkUsed
<1>20. ASSUME NEW t \in Threads, CkLimit(t) PROVE Loose'
  BY <1>20 DEF CkLimit, CallStop, CallInBackground
<1>21. ASSUME NEW t \in Threads, CkClamp(t) PROVE Loose'
  BY <1>21 DEF CkClamp, Clamp
<1>22. ASSUME NEW t \in Threads, CkStrict(t) PROVE Loose'
  BY <1>22 DEF CkStrict, CallStart
<1>23. ASSUME NEW t \in Threads, CkNative(t) PROVE Loose'
  BY <1>23 DEF CkNative, CallStop, CallInBackground
<1>24. ASSUME NEW t \in Threads, StopAuto(t) PROVE Loose'
  BY <1>24 DEF StopAuto
<1>25. ASSUME NEW m \in Timers, Fire(m) PROVE Loose'
  BY <1>25 DEF Fire, Enter
<1>26. ASSUME InBackground PROVE Loose'
  BY <1>26 DEF InBackground, Enter, CallInBackground
<1>27. ASSUME ToForeground PROVE Loose'
  BY <1>27 DEF ToForeground, Enter
<1>28. ASSUME NEW n \in ManualSizes, ManualTest(n) PROVE Loose'
  BY <1>28 DEF ManualTest, ControllerUnchanged
<1>29. ASSUME ManualClamp PROVE Loose'
  BY <1>29 DEF ManualClamp, ControllerUnchanged, Clamp
<1>30. ASSUME Mutator PROVE Loose'
  BY <1>30 DEF Mutator, ControllerUnchanged, Allocate, Collect
<1>31. ASSUME UNCHANGED vars PROVE Loose'
  BY <1>31 DEF vars
<1> QED
  BY <1>1, <1>2, <1>3, <1>4, <1>5, <1>6, <1>7, <1>8, <1>9, <1>10, <1>11,
    <1>12, <1>13, <1>14, <1>15, <1>16, <1>17, <1>18, <1>19, <1>20, <1>21,
    <1>22, <1>23, <1>24, <1>25, <1>26, <1>27, <1>28, <1>29, <1>30, <1>31
  DEF Next, Step

\* In the foreground the controller is watched by a timer until it gives up, also
\* when callbacks and checks overlap.
THEOREM ForegroundIsWatched == Spec => []WatchedWhenOn
<1>1. Loose => WatchedWhenOn
  BY DEF Loose, StillWatched, WatchedWhenOn, Restarting, GivingUp
<1> QED
  BY TypedInvariant, LooseInit, LooseStep, <1>1, PTL DEF Spec

=============================================================================
