------------------------- MODULE RegionSpaceProofs -------------------------
(***************************************************************************)
(* Proofs about RegionSpace, for any number of callers, any sizes and any  *)
(* requests.                                                               *)
(*                                                                         *)
(* TypeInv is inductive on its own: it carries what CompareLimit has       *)
(* established about the target past the point where it is written into   *)
(* the space. SpaceInv adds who holds the region lock and, for each point  *)
(* inside it, which of the five records of the size have been updated.     *)
(***************************************************************************)
EXTENDS RegionSpace, TLAPS

\* From CompareLimit on, the target is a size the space can have.
TargetsInRange ==
  \A t \in Callers :
    /\ pc[t] = "compare" => target[t] > 0
    /\ pc[t] \in {"clamp"} \cup LockedPoints => target[t] \in 1 .. MaxRegions

TypeInv == TypeOK /\ TargetsInRange

\* A thread inside the locked section is the owner of the region lock.
OwnsLock == \A t \in Callers : pc[t] \in LockedPoints => lock = t

\* The second check still holds while the sizes are being written.
RoomForUsed ==
  \A t \in Callers : pc[t] \in {"num", "bounds"} => target[t] > used

\* What the owner of the lock has updated so far.
Agree == numRegions = limit /\ bitmapSize = limit /\ mapSize = limit

WriteOrder ==
  \A t \in Callers :
    /\ pc[t] \in LockedPoints => end <= limit
    /\ pc[t] \in {"check", "num", "unlock"} => Agree
    /\ pc[t] = "bounds" =>
         numRegions = target[t] /\ bitmapSize = limit /\ mapSize = limit
    /\ pc[t] \in {"bitmap", "map"} => numRegions = limit /\ limit = target[t]
    /\ pc[t] = "map" => bitmapSize = limit

SpaceInv ==
  /\ TypeInv
  /\ OwnsLock
  /\ RoomForUsed
  /\ WriteOrder
  /\ UsedWithinCapacity
  /\ SizesAgree

----------------------------------------------------------------------------

USE DEF At, Goto, spaceVars, guardVars, modeVars, localVars

\* What new_size * MB leaves in a jint is an integer.
LEMMA TargetIsInt == ASSUME NEW mb \in Requests PROVE Target(mb) \in Int
<1>1. mb \in Int /\ RegionsPerMB \in Int /\ Word \in Nat /\ Word > 0
  BY ConstantsAssumption
<1>2. (mb * RegionsPerMB) % Word \in Int
  BY <1>1
<1> QED
  BY <1>1, <1>2 DEF Target

LEMMA TypeInvInit == Init => TypeInv
<1> SUFFICES ASSUME Init PROVE TypeInv
  OBVIOUS
<1> USE ConstantsAssumption DEF Init
<1>1. /\ guarded \in BOOLEAN
      /\ installed \in BOOLEAN
      /\ legacy \in BOOLEAN
      /\ resetHand \in BOOLEAN
      /\ alive \in BOOLEAN
      /\ wantSignal \in BOOLEAN
  <2>1. guarded \in BOOLEAN /\ legacy \in BOOLEAN /\ resetHand \in BOOLEAN
    BY Zenon
  <2> QED
    BY <2>1
<1>2. pc \in [Callers -> ControlPoints] /\ TargetsInRange
  BY DEF ControlPoints, ResizePoints, LockedPoints, TargetsInRange
<1>3. /\ numRegions \in 1 .. MaxRegions
      /\ limit \in 1 .. MaxRegions
      /\ used \in 0 .. MaxRegions
      /\ lock = Nobody
      /\ timeMachine = Nobody
  OBVIOUS
<1>4. /\ target \in [Callers -> Int]
      /\ seenUsed \in [Callers -> 0 .. MaxRegions]
      /\ resized \in [Callers -> BOOLEAN]
      /\ answer \in [Callers -> BOOLEAN]
  OBVIOUS
<1> QED
  BY <1>1, <1>2, <1>3, <1>4 DEF TypeInv, TypeOK

LEMMA TypeInvStep == TypeInv /\ [Next]_vars => TypeInv'
<1> SUFFICES ASSUME TypeInv, [Next]_vars PROVE TypeInv'
  OBVIOUS
<1> USE ConstantsAssumption DEF TypeInv, TypeOK, TargetsInRange,
     ControlPoints, ResizePoints, LockedPoints
<1>1. ASSUME NEW t \in Callers, NEW mb \in Requests, Call(t, mb) PROVE TypeInv'
  BY <1>1, TargetIsInt DEF Call
<1>2. ASSUME NEW t \in Callers, Arm(t) PROVE TypeInv'
  BY <1>2 DEF Arm
<1>3. ASSUME NEW t \in Callers, SetJmp(t) PROVE TypeInv'
  BY <1>3 DEF SetJmp
<1>4. ASSUME NEW t \in Callers, Leave(t) PROVE TypeInv'
  <2>1. wantSignal' \in BOOLEAN
    BY <1>4 DEF Leave
  <2>2. (guarded \/ resized[t]) \in BOOLEAN
    BY Zenon
  <2>3. answer' \in [Callers -> BOOLEAN]
    BY <1>4, <2>2, Zenon DEF Leave, Return
  <2>4. /\ target' = [target EXCEPT ![t] = 0]
        /\ seenUsed' = [seenUsed EXCEPT ![t] = 0]
        /\ pc' = [pc EXCEPT ![t] = "idle"]
        /\ UNCHANGED <<spaceVars, lock, timeMachine, installed, alive,
                       modeVars, resized>>
    BY <1>4, Zenon DEF Leave, Return
  <2> QED
    BY <2>1, <2>3, <2>4
<1>5. ASSUME NEW t \in Callers, Recover(t) PROVE TypeInv'
  BY <1>5 DEF Recover, Return
<1>6. ASSUME NEW t \in Callers, Fault(t) PROVE TypeInv'
  <2>1. wantSignal' \in BOOLEAN /\ installed' \in BOOLEAN
    BY <1>6, Zenon DEF Fault
  <2>2. alive' \in BOOLEAN
    BY <1>6, Zenon DEF Fault
  <2>3. pc' = pc \/ pc' = [pc EXCEPT ![t] = "recover"]
    BY <1>6, Zenon DEF Fault
  <2>4. pc' \in [Callers -> ControlPoints] /\ TargetsInRange'
    BY <1>6, <2>3 DEF Fault
  <2> QED
    BY <1>6, <2>1, <2>2, <2>4 DEF Fault
<1>7. ASSUME NEW t \in Callers, ReadUsed(t) PROVE TypeInv'
  <2>1. resized' \in [Callers -> BOOLEAN]
    BY <1>7, Zenon DEF ReadUsed, Refuse
  <2>2. CASE target[t] <= 0 /\ Refuse(t) /\ UNCHANGED seenUsed
    BY <1>7, <2>1, <2>2 DEF ReadUsed, Refuse
  <2>3. CASE /\ target[t] > 0
             /\ seenUsed' = [seenUsed EXCEPT ![t] = used]
             /\ Goto(t, "compare")
             /\ UNCHANGED resized
    BY <1>7, <2>1, <2>3 DEF ReadUsed
  <2> QED
    BY <1>7, <2>2, <2>3, Zenon DEF ReadUsed
<1>8. ASSUME NEW t \in Callers, CompareLimit(t) PROVE TypeInv'
  <2>1. resized' \in [Callers -> BOOLEAN]
    BY <1>8, Zenon DEF CompareLimit, Refuse
  <2>2. CASE target[t] <= limit /\ target[t] > seenUsed[t]
    BY <1>8, <2>1, <2>2 DEF CompareLimit, NonGrowthLimitCapacity
  <2>3. CASE ~(target[t] <= limit /\ target[t] > seenUsed[t])
    BY <1>8, <2>1, <2>3 DEF CompareLimit, Refuse, NonGrowthLimitCapacity
  <2> QED
    BY <2>2, <2>3
<1>9. ASSUME NEW t \in Callers, ArtClamp(t) PROVE TypeInv'
  BY <1>9 DEF ArtClamp, Resized
<1>10. ASSUME NEW t \in Callers, ExclusiveLock(t) PROVE TypeInv'
  BY <1>10 DEF ExclusiveLock
<1>11. ASSUME NEW t \in Callers, CheckUsed(t) PROVE TypeInv'
  BY <1>11 DEF CheckUsed
<1>12. ASSUME NEW t \in Callers, SetNumRegions(t) PROVE TypeInv'
  BY <1>12 DEF SetNumRegions
<1>13. ASSUME NEW t \in Callers, SetBounds(t) PROVE TypeInv'
  BY <1>13 DEF SetBounds
<1>14. ASSUME NEW t \in Callers, SetHeapSize(t) PROVE TypeInv'
  BY <1>14 DEF SetHeapSize
<1>15. ASSUME NEW t \in Callers, SetSize(t) PROVE TypeInv'
  BY <1>15 DEF SetSize
<1>16. ASSUME NEW t \in Callers, ExclusiveUnlock(t) PROVE TypeInv'
  BY <1>16 DEF ExclusiveUnlock, Resized
<1>17. CASE Allocate
  BY <1>17 DEF Allocate
<1>18. CASE Collect
  BY <1>18 DEF Collect
<1>19. CASE UNCHANGED vars
  BY <1>19 DEF vars
<1> QED
  BY <1>1, <1>2, <1>3, <1>4, <1>5, <1>6, <1>7, <1>8, <1>9, <1>10, <1>11,
     <1>12, <1>13, <1>14, <1>15, <1>16, <1>17, <1>18, <1>19
     DEF Next, Step, ResizeStep

\* Type correctness of the native shrink, faults anywhere included.
THEOREM TypeCorrect == Spec => []TypeOK
<1>1. TypeInv => TypeOK
  BY DEF TypeInv
<1> QED
  BY TypeInvInit, TypeInvStep, <1>1, PTL DEF Spec

----------------------------------------------------------------------------

LEMMA SpaceInvInit == Init => SpaceInv
<1> SUFFICES ASSUME Init PROVE SpaceInv
  OBVIOUS
<1>1. TypeInv
  BY TypeInvInit
<1>2. OwnsLock /\ RoomForUsed /\ WriteOrder
  BY DEF Init, OwnsLock, RoomForUsed, WriteOrder, LockedPoints
<1>3. UsedWithinCapacity /\ SizesAgree
  BY <1>1, ConstantsAssumption
     DEF Init, UsedWithinCapacity, SizesAgree, TypeInv, TypeOK
<1> QED
  BY <1>1, <1>2, <1>3 DEF SpaceInv

\* A fault under the lock leaves the lock taken, so nobody sees the sizes it
\* has left in disagreement.
LEMMA SpaceInvStep ==
  ASSUME SpaceInv, [Next]_vars
  PROVE  SpaceInv'
<1> USE ConstantsAssumption DEF LockedPoints, ResizePoints
<1> DEFINE Rest == OwnsLock /\ RoomForUsed /\ WriteOrder
                   /\ UsedWithinCapacity /\ SizesAgree
<1>0. TypeInv' /\ TypeInv /\ TypeOK /\ TargetsInRange /\ Rest
  BY TypeInvStep DEF SpaceInv, TypeInv
<1> SUFFICES Rest'
  BY <1>0 DEF SpaceInv
<1>00. /\ pc \in [Callers -> ControlPoints]
       /\ Nobody \notin Callers
       /\ target \in [Callers -> Int]
       /\ numRegions \in Int /\ limit \in Int /\ end \in Int /\ used \in Int
  BY <1>0 DEF TypeOK
<1> USE <1>00 DEF OwnsLock, RoomForUsed, WriteOrder, Agree,
     UsedWithinCapacity, SizesAgree
<1>1. ASSUME NEW t \in Callers, NEW mb \in Requests, Call(t, mb) PROVE Rest'
  BY <1>0, <1>1 DEF Call
<1>2. ASSUME NEW t \in Callers, Arm(t) PROVE Rest'
  BY <1>0, <1>2 DEF Arm
<1>3. ASSUME NEW t \in Callers, SetJmp(t) PROVE Rest'
  BY <1>0, <1>3 DEF SetJmp
<1>4. ASSUME NEW t \in Callers, Leave(t) PROVE Rest'
  BY <1>0, <1>4 DEF Leave, Return
<1>5. ASSUME NEW t \in Callers, Recover(t) PROVE Rest'
  BY <1>0, <1>5 DEF Recover, Return
<1>6. ASSUME NEW t \in Callers, Fault(t) PROVE Rest'
  BY ZenonT(40), <1>0, <1>6 DEF Fault
<1>7. ASSUME NEW t \in Callers, ReadUsed(t) PROVE Rest'
  BY <1>0, <1>7 DEF ReadUsed, Refuse
<1>8. ASSUME NEW t \in Callers, CompareLimit(t) PROVE Rest'
  BY <1>0, <1>8 DEF CompareLimit, Refuse
<1>9. ASSUME NEW t \in Callers, ArtClamp(t) PROVE Rest'
  BY <1>0, <1>9 DEF ArtClamp, Resized, TargetsInRange
<1>10. ASSUME NEW t \in Callers, ExclusiveLock(t) PROVE Rest'
  BY <1>0, <1>10 DEF ExclusiveLock
<1>11. ASSUME NEW t \in Callers, CheckUsed(t) PROVE Rest'
  BY <1>0, <1>11 DEF CheckUsed
<1>12. ASSUME NEW t \in Callers, SetNumRegions(t) PROVE Rest'
  BY <1>0, <1>12 DEF SetNumRegions
<1>13. ASSUME NEW t \in Callers, SetBounds(t) PROVE Rest'
  BY <1>0, <1>13 DEF SetBounds
<1>14. ASSUME NEW t \in Callers, SetHeapSize(t) PROVE Rest'
  BY <1>0, <1>14 DEF SetHeapSize
<1>15. ASSUME NEW t \in Callers, SetSize(t) PROVE Rest'
  BY <1>0, <1>15 DEF SetSize
<1>16. ASSUME NEW t \in Callers, ExclusiveUnlock(t) PROVE Rest'
  BY <1>0, <1>16 DEF ExclusiveUnlock, Resized
<1>17. CASE Allocate
  BY <1>0, <1>17 DEF Allocate
<1>18. CASE Collect
  BY <1>0, <1>18 DEF Collect
<1>19. CASE UNCHANGED vars
  BY <1>0, <1>19 DEF vars
<1> QED
  BY <1>1, <1>2, <1>3, <1>4, <1>5, <1>6, <1>7, <1>8, <1>9, <1>10, <1>11,
     <1>12, <1>13, <1>14, <1>15, <1>16, <1>17, <1>18, <1>19
     DEF Next, Step, ResizeStep

\* Regions in use are never cut off, however many threads resize at once,
\* whatever they ask for and wherever the memory they touch is missing.
THEOREM UsedIsNeverCutOff == Spec => []UsedWithinCapacity
<1>1. SpaceInv => UsedWithinCapacity
  BY DEF SpaceInv
<1>2. SpaceInv /\ [Next]_vars => SpaceInv'
  BY SpaceInvStep
<1> QED
  BY SpaceInvInit, <1>1, <1>2, PTL DEF Spec

\* Nobody who takes the region lock finds a resize half done. A fault under the
\* lock does leave one half done, but with the lock taken for good.
THEOREM ResizeIsAtomicUnderLock == Spec => []SizesAgree
<1>1. SpaceInv => SizesAgree
  BY DEF SpaceInv
<1>2. SpaceInv /\ [Next]_vars => SpaceInv'
  BY SpaceInvStep
<1> QED
  BY SpaceInvInit, <1>1, <1>2, PTL DEF Spec

LEMMA LockLeftStep ==
  ASSUME TypeOK, [Next]_vars, NEW t \in Callers,
         pc[t] \in LockedPoints, pc'[t] \notin LockedPoints
  PROVE  lock' = Nobody \/ pc'[t] = "recover"
<1> USE DEF LockedPoints, ResizePoints
<1>0. pc \in [Callers -> ControlPoints]
  BY DEF TypeOK
<1>1. ASSUME NEW s \in Callers, NEW mb \in Requests, Call(s, mb)
      PROVE  pc'[t] = pc[t]
  BY <1>0, <1>1 DEF Call
<1>2. ASSUME NEW s \in Callers, Arm(s) \/ SetJmp(s) \/ Leave(s) \/ Recover(s)
      PROVE  pc'[t] = pc[t]
  BY <1>0, <1>2 DEF Arm, SetJmp, Leave, Recover, Return
<1>3. ASSUME NEW s \in Callers, Fault(s)
      PROVE  pc'[t] = pc[t] \/ pc'[t] = "recover"
  BY <1>0, <1>3 DEF Fault
<1>4. ASSUME NEW s \in Callers,
             \/ ReadUsed(s) \/ CompareLimit(s) \/ ArtClamp(s)
             \/ ExclusiveLock(s)
      PROVE  pc'[t] = pc[t]
  BY <1>0, <1>4
     DEF ReadUsed, CompareLimit, Refuse, ArtClamp, Resized, ExclusiveLock
<1>5. ASSUME NEW s \in Callers,
             \/ CheckUsed(s) \/ SetNumRegions(s) \/ SetBounds(s)
             \/ SetHeapSize(s) \/ SetSize(s)
      PROVE  pc'[t] = pc[t] \/ pc'[t] \in LockedPoints
  BY <1>0, <1>5
     DEF CheckUsed, SetNumRegions, SetBounds, SetHeapSize, SetSize
<1>6. ASSUME NEW s \in Callers, ExclusiveUnlock(s)
      PROVE  lock' = Nobody
  BY <1>6 DEF ExclusiveUnlock
<1>7. CASE Allocate \/ Collect \/ UNCHANGED vars
  BY <1>7 DEF Allocate, Collect, vars
<1> HIDE DEF LockedPoints, ResizePoints
<1> QED
  BY <1>1, <1>2, <1>3, <1>4, <1>5, <1>6, <1>7 DEF Next, Step, ResizeStep

\* For any callers and faults anywhere: whoever is out of the locked section has
\* unlocked, or was jumped out by a fault under the lock.
THEOREM LockLeftByUnlockOrJump == Spec => LockLeftOnlyByJump
<1>1. TypeInv /\ [Next]_vars =>
        [\A t \in Callers :
           pc[t] \in LockedPoints /\ pc'[t] \notin LockedPoints =>
             lock' = Nobody \/ pc'[t] = "recover"]_vars
  BY LockLeftStep DEF TypeInv
<1> QED
  BY TypeInvInit, TypeInvStep, <1>1, PTL DEF Spec, LockLeftOnlyByJump

----------------------------------------------------------------------------
(***************************************************************************)
(* What a reported success is worth.                                       *)
(***************************************************************************)

\* The owner of the lock is through: it has written its target, or it has found
\* the regions in use to reach it. Nobody allocates or resizes until the unlock.
Through ==
  \A t \in Callers :
    pc[t] = "unlock" => limit = target[t] \/ target[t] <= used

LEMMA ThroughStep ==
  ASSUME SpaceInv, Through, [Next]_vars
  PROVE  Through'
<1> USE ConstantsAssumption DEF LockedPoints, ResizePoints, Through
<1>0. /\ pc \in [Callers -> ControlPoints]
      /\ Nobody \notin Callers
      /\ target \in [Callers -> Int]
      /\ limit \in Int /\ used \in Int
      /\ \A t \in Callers : pc[t] \in LockedPoints => lock = t
      /\ \A t \in Callers : pc[t] \in {"bitmap", "map"} => limit = target[t]
  BY DEF SpaceInv, TypeInv, TypeOK, OwnsLock, WriteOrder
<1>1. ASSUME NEW t \in Callers, NEW mb \in Requests, Call(t, mb) PROVE Through'
  BY <1>0, <1>1 DEF Call
<1>2. ASSUME NEW t \in Callers,
             Arm(t) \/ SetJmp(t) \/ Leave(t) \/ Recover(t) \/ Fault(t)
      PROVE  Through'
  BY <1>0, <1>2 DEF Arm, SetJmp, Leave, Recover, Return, Fault
<1>3. ASSUME NEW t \in Callers, ReadUsed(t) \/ CompareLimit(t) PROVE Through'
  BY <1>0, <1>3 DEF ReadUsed, CompareLimit, Refuse
<1>4. ASSUME NEW t \in Callers, ArtClamp(t) PROVE Through'
  BY <1>0, <1>4 DEF ArtClamp, Resized
<1>5. ASSUME NEW t \in Callers, ExclusiveLock(t) PROVE Through'
  BY <1>0, <1>5 DEF ExclusiveLock
<1>6. ASSUME NEW t \in Callers, CheckUsed(t) PROVE Through'
  BY <1>0, <1>6 DEF CheckUsed
<1>7. ASSUME NEW t \in Callers,
             SetNumRegions(t) \/ SetBounds(t) \/ SetHeapSize(t)
      PROVE  Through'
  BY <1>0, <1>7 DEF SetNumRegions, SetBounds, SetHeapSize
<1>8. ASSUME NEW t \in Callers, SetSize(t) PROVE Through'
  BY <1>0, <1>8 DEF SetSize
<1>9. ASSUME NEW t \in Callers, ExclusiveUnlock(t) PROVE Through'
  BY <1>0, <1>9 DEF ExclusiveUnlock, Resized
<1>10. CASE Allocate \/ Collect \/ UNCHANGED vars
  BY <1>0, <1>10 DEF Allocate, Collect, vars
<1> HIDE DEF Through
<1> QED
  BY <1>1, <1>2, <1>3, <1>4, <1>5, <1>6, <1>7, <1>8, <1>9, <1>10
     DEF Next, Step, ResizeStep

LEMMA ReportStep ==
  ASSUME SpaceInv, Through, [Next]_vars, NEW t \in Callers,
         resized'[t], ~resized[t]
  PROVE  (limit' = target[t] /\ numRegions' = target[t]) \/ used' >= target[t]
<1>0. /\ target \in [Callers -> Int] /\ limit \in Int /\ used \in Int
      /\ resized \in [Callers -> BOOLEAN]
      /\ pc[t] = "unlock" => numRegions = limit
  BY DEF SpaceInv, TypeInv, TypeOK, WriteOrder, Agree, LockedPoints
<1>1. CASE ArtClamp(t)
  BY <1>0, <1>1 DEF ArtClamp
<1>2. CASE ExclusiveUnlock(t)
  BY <1>0, <1>2 DEF ExclusiveUnlock, Through
<1>3. CASE ~ArtClamp(t) /\ ~ExclusiveUnlock(t)
  <2>1. ASSUME NEW s \in Callers, s # t, ArtClamp(s) \/ ExclusiveUnlock(s)
        PROVE  FALSE
    BY <1>0, <2>1 DEF ArtClamp, ExclusiveUnlock, Resized
  <2>2. ASSUME NEW s \in Callers, NEW mb \in Requests, Call(s, mb) PROVE FALSE
    BY <1>0, <2>2 DEF Call
  <2>3. ASSUME NEW s \in Callers, ReadUsed(s) \/ CompareLimit(s) PROVE FALSE
    BY <1>0, <2>3 DEF ReadUsed, CompareLimit, Refuse
  <2>4. ASSUME NEW s \in Callers,
               \/ Arm(s) \/ SetJmp(s) \/ Leave(s) \/ Recover(s) \/ Fault(s)
               \/ ExclusiveLock(s) \/ CheckUsed(s) \/ SetNumRegions(s)
               \/ SetBounds(s) \/ SetHeapSize(s) \/ SetSize(s)
        PROVE  FALSE
    BY <2>4 DEF Arm, SetJmp, Leave, Recover, Return, Fault, ExclusiveLock, CheckUsed,
       SetNumRegions, SetBounds, SetHeapSize, SetSize
  <2>5. ~(Allocate \/ Collect \/ UNCHANGED vars)
    BY DEF Allocate, Collect, vars
  <2> QED
    BY <1>3, <2>1, <2>2, <2>3, <2>4, <2>5 DEF Next, Step, ResizeStep
<1> QED
  BY <1>1, <1>2, <1>3

\* Any number of callers: a resize that reports success has set the size asked
\* for, or was overtaken by the allocator between its two tests of the use.
THEOREM ReportedResizeIsDone == Spec => ResizeIsDone
<1>1. Init => SpaceInv /\ Through
  BY SpaceInvInit DEF Init, Through
<1>2. SpaceInv /\ Through /\ [Next]_vars => SpaceInv' /\ Through'
  BY SpaceInvStep, ThroughStep
<1>3. SpaceInv /\ Through /\ [Next]_vars
        => [\A t \in Callers :
              resized'[t] /\ ~resized[t] =>
                (limit' = target[t] /\ numRegions' = target[t])
                  \/ used' >= target[t]]_vars
  BY ReportStep
<1> QED
  BY <1>1, <1>2, <1>3, PTL DEF Spec, ResizeIsDone

----------------------------------------------------------------------------
(***************************************************************************)
(* One caller at a time: the resize implements the abstract shrink. The    *)
(* missing piece is that what CompareLimit saw of the limit is still true  *)
(* when the limit is written, which a second caller would spoil.           *)
(***************************************************************************)

OneCaller == \A s, t \in Callers : s = t

BelowLimit ==
  \A t \in Callers :
    pc[t] \in {"clamp", "check", "num", "bounds"} => target[t] <= limit

LEMMA BelowLimitStep ==
  ASSUME OneCaller, TypeInv, BelowLimit, [Next]_vars
  PROVE  BelowLimit'
<1> USE DEF LockedPoints, ResizePoints, BelowLimit, OneCaller
<1>1. /\ pc \in [Callers -> ControlPoints]
      /\ target \in [Callers -> Int]
      /\ limit \in Int
  BY DEF TypeInv, TypeOK
<1>2. ASSUME NEW t \in Callers, NEW mb \in Requests, Call(t, mb)
      PROVE  BelowLimit'
  BY <1>1, <1>2 DEF Call
<1>3. ASSUME NEW t \in Callers,
             Arm(t) \/ SetJmp(t) \/ Leave(t) \/ Recover(t)
      PROVE  BelowLimit'
  BY <1>1, <1>3 DEF Arm, SetJmp, Leave, Recover, Return
<1>4. ASSUME NEW t \in Callers, Fault(t) PROVE BelowLimit'
  BY <1>1, <1>4 DEF Fault
<1>5. ASSUME NEW t \in Callers, ReadUsed(t) PROVE BelowLimit'
  BY <1>1, <1>5 DEF ReadUsed, Refuse
<1>6. ASSUME NEW t \in Callers, CompareLimit(t) PROVE BelowLimit'
  BY <1>1, <1>6 DEF CompareLimit, Refuse, NonGrowthLimitCapacity
<1>7. ASSUME NEW t \in Callers, ArtClamp(t) PROVE BelowLimit'
  BY <1>1, <1>7 DEF ArtClamp, Resized
<1>8. ASSUME NEW t \in Callers,
             ExclusiveLock(t) \/ CheckUsed(t) \/ SetNumRegions(t)
      PROVE  BelowLimit'
  BY <1>1, <1>8 DEF ExclusiveLock, CheckUsed, SetNumRegions
<1>9. ASSUME NEW t \in Callers, SetBounds(t) PROVE BelowLimit'
  BY <1>1, <1>9 DEF SetBounds
<1>10. ASSUME NEW t \in Callers,
              SetHeapSize(t) \/ SetSize(t) \/ ExclusiveUnlock(t)
       PROVE  BelowLimit'
  BY <1>1, <1>10 DEF SetHeapSize, SetSize, ExclusiveUnlock, Resized
<1>11. CASE Allocate \/ Collect \/ UNCHANGED vars
  BY <1>1, <1>11 DEF Allocate, Collect, vars
<1> QED
  BY <1>2, <1>3, <1>4, <1>5, <1>6, <1>7, <1>8, <1>9, <1>10, <1>11
     DEF Next, Step, ResizeStep

LEMMA ShrinkStep ==
  ASSUME OneCaller, SpaceInv, BelowLimit, [Next]_vars
  PROVE  [Space!SpaceNext]_(Space!spaceVars)
<1> USE DEF Space!SpaceNext, Space!spaceVars, SpaceInv, LockedPoints,
            ResizePoints, OneCaller
<1>1. /\ limit \in 1 .. MaxRegions
      /\ used \in Nat
      /\ target \in [Callers -> Int]
  BY DEF TypeInv, TypeOK
<1>2. ASSUME NEW t \in Callers, SetBounds(t)
      PROVE  Space!Shrink(target[t]) /\ target[t] \in 1 .. limit
  BY <1>1, <1>2 DEF SetBounds, BelowLimit, RoomForUsed, TypeInv,
                    TargetsInRange, Space!Shrink, Space!Fits
<1>3. ASSUME NEW t \in Callers, ArtClamp(t), target[t] > used
      PROVE  Space!Shrink(target[t]) /\ target[t] \in 1 .. limit
  BY <1>1, <1>3 DEF ArtClamp, BelowLimit, TypeInv, TargetsInRange,
                    Space!Shrink, Space!Fits
<1>4. ASSUME Allocate PROVE Space!Allocate
  BY <1>1, <1>4 DEF Allocate, SizesAgree, Space!Allocate
<1>5. ASSUME Collect PROVE Space!Collect
  BY <1>1, <1>5 DEF Collect, Space!Collect
<1>6. ASSUME NEW t \in Callers,
             \/ \E mb \in Requests : Call(t, mb)
             \/ Arm(t) \/ SetJmp(t) \/ Leave(t) \/ Recover(t) \/ Fault(t)
             \/ ReadUsed(t) \/ CompareLimit(t) \/ ExclusiveLock(t)
             \/ CheckUsed(t) \/ SetNumRegions(t) \/ SetHeapSize(t)
             \/ SetSize(t) \/ ExclusiveUnlock(t)
             \/ (ArtClamp(t) /\ ~(target[t] > used))
      PROVE  UNCHANGED <<limit, used>>
  BY <1>1, <1>6 DEF Call, Arm, SetJmp, Leave, Recover, Fault, ReadUsed,
     CompareLimit, ExclusiveLock, CheckUsed, SetNumRegions, SetHeapSize,
     SetSize, ExclusiveUnlock, ArtClamp
<1>7. ASSUME UNCHANGED vars PROVE UNCHANGED <<limit, used>>
  BY <1>7 DEF vars
<1> QED
  BY <1>2, <1>3, <1>4, <1>5, <1>6, <1>7 DEF Next, Step, ResizeStep

\* With one caller, faults anywhere included, the unlocked tests, the clamp and
\* its stores amount to one indivisible shrink that never grows the space
\* and never cuts off a region in use.
THEOREM ResizeImplementsShrink ==
  ASSUME OneCaller
  PROVE  Spec => RefinesShrinkableSpace
<1>1. Init => SpaceInv /\ BelowLimit /\ Space!SpaceInit
  <2>1. Init => BelowLimit
    BY DEF Init, BelowLimit
  <2>2. Init => Space!SpaceInit
    BY DEF Init, Space!SpaceInit
  <2> QED
    BY <2>1, <2>2, SpaceInvInit
<1>2. SpaceInv /\ BelowLimit /\ [Next]_vars => SpaceInv' /\ BelowLimit'
  BY SpaceInvStep, BelowLimitStep DEF SpaceInv
<1>3. SpaceInv /\ BelowLimit /\ [Next]_vars
        => [Space!SpaceNext]_(Space!spaceVars)
  BY ShrinkStep
<1> QED
  BY <1>1, <1>2, <1>3, PTL DEF Spec, RefinesShrinkableSpace, Space!SpaceSpec

\* "can not grow region space": the unlocked comparison with the limit is
\* enough as long as calls do not overlap.
THEOREM SpaceNeverGrows ==
  ASSUME OneCaller
  PROVE  Spec => NeverGrows
<1>1. Init => SpaceInv /\ BelowLimit
  BY SpaceInvInit DEF Init, BelowLimit
<1>2. SpaceInv /\ BelowLimit /\ [Next]_vars => SpaceInv' /\ BelowLimit'
  BY SpaceInvStep, BelowLimitStep DEF SpaceInv
<1>3. SpaceInv /\ BelowLimit /\ [Next]_vars => [limit' <= limit]_vars
  <2> SUFFICES ASSUME SpaceInv, BelowLimit, [Next]_vars PROVE limit' <= limit
    OBVIOUS
  <2>1. limit \in Int
    BY DEF SpaceInv, TypeInv, TypeOK
  <2>2. CASE \E size \in 1 .. limit : Space!Shrink(size)
    BY <2>1, <2>2 DEF Space!Shrink
  <2>3. CASE Space!Allocate \/ Space!Collect \/ UNCHANGED <<limit, used>>
    BY <2>1, <2>3 DEF Space!Allocate, Space!Collect
  <2> QED
    BY <2>2, <2>3, ShrinkStep DEF Space!SpaceNext, Space!spaceVars
<1> QED
  BY <1>1, <1>2, <1>3, PTL DEF Spec, NeverGrows

----------------------------------------------------------------------------
(***************************************************************************)
(* The fault guard. Between sigsetjmp and the end of the resize the flag   *)
(* is up and time_machine is the frame of the caller that may fault; a     *)
(* second caller would break either half, a SA_RESETHAND the handler.      *)
(***************************************************************************)

Guard ==
  guarded =>
    /\ alive /\ installed
    /\ \A t \in Callers :
         /\ pc[t] \in {"setjmp"} \cup ResizePoints => wantSignal
         /\ pc[t] \in ResizePoints => timeMachine = t

LEMMA GuardStep ==
  ASSUME OneCaller, TypeOK, ~resetHand, Guard, [Next]_vars
  PROVE  Guard'
<1> USE ConstantsAssumption DEF Guard, OneCaller, ResizePoints, LockedPoints
<1>0. pc \in [Callers -> ControlPoints] /\ FaultPoints \subseteq ResizePoints
  BY DEF TypeOK
<1>1. ASSUME NEW t \in Callers, NEW mb \in Requests, Call(t, mb) PROVE Guard'
  BY <1>0, <1>1 DEF Call
<1>2. ASSUME NEW t \in Callers, Arm(t) PROVE Guard'
  BY <1>0, <1>2 DEF Arm
<1>3. ASSUME NEW t \in Callers, SetJmp(t) PROVE Guard'
  BY <1>0, <1>3 DEF SetJmp
<1>4. ASSUME NEW t \in Callers, Leave(t) PROVE Guard'
  BY <1>0, <1>4 DEF Leave, Return
<1>5. ASSUME NEW t \in Callers, Recover(t) PROVE Guard'
  BY <1>0, <1>5 DEF Recover, Return
<1>6. ASSUME NEW t \in Callers, Fault(t) PROVE Guard'
  BY <1>0, <1>6 DEF Fault
<1>7. ASSUME NEW t \in Callers, ReadUsed(t) PROVE Guard'
  BY <1>0, <1>7 DEF ReadUsed, Refuse
<1>8. ASSUME NEW t \in Callers, CompareLimit(t) PROVE Guard'
  BY <1>0, <1>8 DEF CompareLimit, Refuse
<1>9. ASSUME NEW t \in Callers, ArtClamp(t) PROVE Guard'
  BY <1>0, <1>9 DEF ArtClamp, Resized
<1>10. ASSUME NEW t \in Callers, ExclusiveLock(t) PROVE Guard'
  BY <1>0, <1>10 DEF ExclusiveLock
<1>11. ASSUME NEW t \in Callers, CheckUsed(t) PROVE Guard'
  BY <1>0, <1>11 DEF CheckUsed
<1>12. ASSUME NEW t \in Callers, SetNumRegions(t) PROVE Guard'
  BY <1>0, <1>12 DEF SetNumRegions
<1>13. ASSUME NEW t \in Callers, SetBounds(t) PROVE Guard'
  BY <1>0, <1>13 DEF SetBounds
<1>14. ASSUME NEW t \in Callers, SetHeapSize(t) PROVE Guard'
  BY <1>0, <1>14 DEF SetHeapSize
<1>15. ASSUME NEW t \in Callers, SetSize(t) PROVE Guard'
  BY <1>0, <1>15 DEF SetSize
<1>16. ASSUME NEW t \in Callers, ExclusiveUnlock(t) PROVE Guard'
  BY <1>0, <1>16 DEF ExclusiveUnlock, Resized
<1>17. ASSUME Allocate \/ Collect \/ UNCHANGED vars PROVE Guard'
  <2>1. UNCHANGED <<pc, guardVars, modeVars, resized, answer>>
    BY <1>17 DEF Allocate, Collect, vars
  <2> QED
    BY <1>0, <2>1
<1> HIDE DEF Guard, OneCaller, ResizePoints, LockedPoints
<1> QED
  BY <1>1, <1>2, <1>3, <1>4, <1>5, <1>6, <1>7, <1>8, <1>9, <1>10, <1>11,
     <1>12, <1>13, <1>14, <1>15, <1>16, <1>17
     DEF Next, Step, ResizeStep

\* A memory fault at any point of the resize, the region lock held or not,
\* costs the guarded call and not the process.
THEOREM FaultCostsTheCallOnly ==
  ASSUME OneCaller, ResetModes \subseteq {FALSE}
  PROVE  Spec => []FaultContained
<1> DEFINE GuardInv == TypeInv /\ ~resetHand /\ Guard
<1>1. Init => GuardInv
  <2> SUFFICES ASSUME Init PROVE GuardInv
    OBVIOUS
  <2>1. ~resetHand
    BY Zenon DEF Init
  <2>2. installed = guarded /\ alive /\ \A t \in Callers : pc[t] = "idle"
    BY DEF Init
  <2>3. Guard
    BY <2>2 DEF Guard, ResizePoints, LockedPoints
  <2> QED
    BY <2>1, <2>3, TypeInvInit
<1>2. GuardInv /\ [Next]_vars => GuardInv'
  <2>1. ASSUME [Next]_vars PROVE resetHand' = resetHand
    BY <2>1 DEF Next, Step, ResizeStep, vars, Call, Arm, SetJmp, Leave, Recover,
       Fault, ReadUsed, CompareLimit, ArtClamp, ExclusiveLock, CheckUsed,
       SetNumRegions, SetBounds, SetHeapSize, SetSize, ExclusiveUnlock, Resized,
       Allocate, Collect
  <2> QED
    BY <2>1, TypeInvStep, GuardStep DEF TypeInv
<1>3. GuardInv => FaultContained
  BY DEF Guard, FaultContained
<1> QED
  BY <1>1, <1>2, <1>3, PTL DEF Spec

=============================================================================
