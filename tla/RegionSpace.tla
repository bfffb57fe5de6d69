---------------------------- MODULE RegionSpace ----------------------------
(***************************************************************************)
(* The native half of a shrink: the JNI entry shrinkRegionSpace, its fault *)
(* guard, ResizeRegionSpace and ClampGrowthLimit__, as run by several      *)
(* threads at once (the timer thread of the automatic check, the app       *)
(* through Patrons.shrinkRegionSpace) while ART allocates and collects.    *)
(*                                                                         *)
(* Behaviours start after NativeInit has succeeded: init_ is set for good, *)
(* ClampGrowthLimit and region_space_ are bound, and the final check of    *)
(* NativeInit has found num_regions_ equal to the capacity.                *)
(*                                                                         *)
(* All sizes are counted in regions of kRegionSize. Every size in the code *)
(* is a whole number of MB, hence of regions, so nothing is rounded away.  *)
(***************************************************************************)
EXTENDS Integers

CONSTANTS
  Callers,        \* threads that may call shrinkRegionSpace
  Nobody,         \* no thread
  Requests,       \* values of the argument newSize, in MB, a jint
  RegionsPerMB,   \* MB / kRegionSize
  Word,           \* 2^32 / kRegionSize: the span of size_t and of jint
  MaxRegions,     \* the most regions a process starts with
  GuardModes,     \* values of has_exception_handle_ && !debuggable
  LegacyModes,    \* values of api_level < __ANDROID_API_P__
  FaultPoints,    \* control points whose memory accesses may raise SIGSEGV
  ResetModes      \* values of SA_RESETHAND in sa_flags, which nobody initialises

\* Inside the section protected by ART's region lock.
LockedPoints == {"check", "num", "bounds", "bitmap", "map", "unlock"}

\* Inside ResizeRegionSpace.
ResizePoints == {"resize", "compare", "clamp"} \cup LockedPoints

ControlPoints == {"idle", "arm", "setjmp", "leave", "recover"} \cup ResizePoints

ASSUME ConstantsAssumption ==
  /\ Nobody \notin Callers
  /\ Requests \subseteq Int
  /\ RegionsPerMB \in Nat \ {0}
  /\ Word \in Nat \ {0}
  /\ MaxRegions \in Nat \ {0}
  /\ GuardModes \subseteq BOOLEAN
  /\ LegacyModes \subseteq BOOLEAN
  /\ FaultPoints \subseteq ResizePoints
  /\ ResetModes \subseteq BOOLEAN

VARIABLES
  numRegions,    \* *num_regions_
  limit,         \* *limit_ - *begin_
  end,           \* *end_ - *begin_
  bitmapSize,    \* what SetHeapSize last told the live bitmap
  mapSize,       \* what SetSize last told the memory map
  used,          \* *non_free_region_index_limit_
  lock,          \* owner of the region lock at region_space + 0x38
  wantSignal,    \* i_want_handle_signal_flag
  timeMachine,   \* whose stack frame time_machine holds
  installed,     \* CustomSignalHandler is the handler of SIGSEGV
  resetHand,     \* it is taken away by the first delivery
  guarded,       \* has_exception_handle_ && !debuggable
  legacy,        \* ClampGrowthLimit is bound to ClampGrowthLimit__
  alive,         \* FALSE once a fault has taken the process down
  pc,            \* where each caller stands
  target,        \* the argument new_size of ResizeRegionSpace
  seenUsed,      \* the local variable used of ResizeRegionSpace
  resized,       \* what ResizeRegionSpace returned
  answer         \* what the last call of shrinkRegionSpace returned

spaceVars == <<numRegions, limit, end, bitmapSize, mapSize, used>>
guardVars == <<wantSignal, timeMachine, installed, alive>>
modeVars  == <<guarded, legacy, resetHand>>
localVars == <<target, seenUsed, resized, answer>>
vars == <<spaceVars, lock, guardVars, modeVars, pc, localVars>>

----------------------------------------------------------------------------

\* jint new_size receives new_size * MB, computed in size_t: modulo 2^32, and
\* its upper half is the negative numbers.
Target(mb) ==
  LET bytes == (mb * RegionsPerMB) % Word
  IN  IF 2 * bytes >= Word THEN bytes - Word ELSE bytes

NonGrowthLimitCapacity == limit

\* Offsets that passed the final check of NativeInit: the fields agree.
Init ==
  /\ limit \in 1 .. MaxRegions
  /\ numRegions = limit
  /\ end = limit
  /\ bitmapSize = limit
  /\ mapSize = limit
  /\ used \in 0 .. limit
  /\ lock = Nobody
  /\ wantSignal = FALSE
  /\ timeMachine = Nobody
  /\ guarded \in GuardModes
  /\ installed = guarded
  /\ resetHand \in ResetModes
  /\ legacy \in LegacyModes
  /\ alive = TRUE
  /\ pc = [t \in Callers |-> "idle"]
  /\ target = [t \in Callers |-> 0]
  /\ seenUsed = [t \in Callers |-> 0]
  /\ resized = [t \in Callers |-> FALSE]
  /\ answer = [t \in Callers |-> FALSE]

At(t, point) == alive /\ pc[t] = point

Goto(t, point) == pc' = [pc EXCEPT ![t] = point]

----------------------------------------------------------------------------
(***************************************************************************)
(* The JNI entry and its guard.                                            *)
(***************************************************************************)

Call(t, mb) ==
  /\ At(t, "idle")
  /\ target' = [target EXCEPT ![t] = Target(mb)]
  /\ resized' = [resized EXCEPT ![t] = FALSE]
  /\ answer' = [answer EXCEPT ![t] = FALSE]
  /\ Goto(t, IF guarded THEN "arm" ELSE "resize")
  /\ UNCHANGED <<spaceVars, lock, guardVars, modeVars, seenUsed>>

\* Mutant: the flag is raised only after the resize.
ArmLate(t) ==
  /\ At(t, "arm")
  /\ Goto(t, "setjmp")
  /\ UNCHANGED <<spaceVars, lock, guardVars, modeVars, localVars>>

Arm(t) ==
  /\ At(t, "arm")
  /\ wantSignal' = TRUE
  /\ Goto(t, "setjmp")
  /\ UNCHANGED <<spaceVars, lock, timeMachine, installed, alive, modeVars, localVars>>

SetJmp(t) ==
  /\ At(t, "setjmp")
  /\ timeMachine' = t
  /\ Goto(t, "resize")
  /\ UNCHANGED <<spaceVars, lock, wantSignal, installed, alive, modeVars, localVars>>

\* The arguments and local variables of the call go out of scope.
Return(t, result) ==
  /\ answer' = [answer EXCEPT ![t] = result]
  /\ target' = [target EXCEPT ![t] = 0]
  /\ seenUsed' = [seenUsed EXCEPT ![t] = 0]
  /\ Goto(t, "idle")
  /\ UNCHANGED resized

\* The guarded branch drops what ResizeRegionSpace returned.
Leave(t) ==
  /\ At(t, "leave")
  /\ wantSignal' = IF guarded THEN FALSE ELSE wantSignal
  /\ Return(t, guarded \/ resized[t])
  /\ UNCHANGED <<spaceVars, lock, timeMachine, installed, alive, modeVars>>

\* sigsetjmp has returned a second time.
Recover(t) ==
  /\ At(t, "recover")
  /\ Return(t, FALSE)
  /\ UNCHANGED <<spaceVars, lock, guardVars, modeVars>>

\* SIGSEGV in caller t. It survives only as a jump back into its own frame:
\* the old handler, a fault nobody asked for (the handler then puts the old one
\* back) and a jump into the frame of another thread all end the process.
Fault(t) ==
  /\ alive
  /\ pc[t] \in FaultPoints
  /\ IF installed /\ wantSignal /\ timeMachine = t
       THEN Goto(t, "recover") /\ alive' = alive
       ELSE pc' = pc /\ alive' = FALSE
  /\ wantSignal' = (wantSignal /\ ~installed)
  /\ installed' = (installed /\ wantSignal /\ ~resetHand)
  /\ UNCHANGED <<spaceVars, lock, timeMachine, modeVars, localVars>>

----------------------------------------------------------------------------
(***************************************************************************)
(* ResizeRegionSpace: two unlocked reads, then the clamp.                  *)
(***************************************************************************)

Refuse(t) ==
  /\ resized' = [resized EXCEPT ![t] = FALSE]
  /\ Goto(t, "leave")

ReadUsed(t) ==
  /\ At(t, "resize")
  /\ \/ /\ target[t] <= 0
        /\ Refuse(t)
        /\ UNCHANGED seenUsed
     \/ /\ target[t] > 0
        /\ seenUsed' = [seenUsed EXCEPT ![t] = used]
        /\ Goto(t, "compare")
        /\ UNCHANGED resized
  /\ UNCHANGED <<spaceVars, lock, guardVars, modeVars, target, answer>>

\* Mutant: no test against growing.
CompareUsedOnly(t) ==
  /\ At(t, "compare")
  /\ IF target[t] > seenUsed[t]
       THEN Goto(t, "clamp") /\ UNCHANGED resized
       ELSE Refuse(t)
  /\ UNCHANGED <<spaceVars, lock, guardVars, modeVars,
                 target, seenUsed, answer>>

CompareLimit(t) ==
  /\ At(t, "compare")
  /\ IF target[t] <= NonGrowthLimitCapacity /\ target[t] > seenUsed[t]
       THEN Goto(t, "clamp") /\ UNCHANGED resized
       ELSE Refuse(t)
  /\ UNCHANGED <<spaceVars, lock, guardVars, modeVars,
                 target, seenUsed, answer>>

Resized(t) ==
  /\ resized' = [resized EXCEPT ![t] = TRUE]
  /\ Goto(t, "leave")
  /\ UNCHANGED <<guardVars, modeVars, target, seenUsed, answer>>

\* From Android P on: ART's own method, under its own lock, in one step.
ArtClamp(t) ==
  /\ At(t, "clamp")
  /\ ~legacy
  /\ lock = Nobody
  /\ \/ /\ target[t] > used
        /\ numRegions' = target[t]
        /\ limit' = target[t]
        /\ end' = IF end > target[t] THEN target[t] ELSE end
        /\ bitmapSize' = target[t]
        /\ mapSize' = target[t]
        /\ UNCHANGED used
     \/ /\ target[t] <= used
        /\ UNCHANGED spaceVars
  /\ Resized(t)
  /\ UNCHANGED lock

----------------------------------------------------------------------------
(***************************************************************************)
(* ClampGrowthLimit__, one step for each store the other threads can see.  *)
(***************************************************************************)

ExclusiveLock(t) ==
  /\ At(t, "clamp")
  /\ legacy
  /\ lock = Nobody
  /\ lock' = t
  /\ Goto(t, "check")
  /\ UNCHANGED <<spaceVars, guardVars, modeVars, localVars>>

\* Mutant: what ResizeRegionSpace read before the lock is trusted.
CheckNothing(t) ==
  /\ At(t, "check")
  /\ Goto(t, "num")
  /\ UNCHANGED <<spaceVars, lock, guardVars, modeVars, localVars>>

\* Mutant: an early return between lock and unlock.
CheckAndReturn(t) ==
  /\ At(t, "check")
  /\ Goto(t, IF target[t] > used THEN "num" ELSE "leave")
  /\ UNCHANGED <<spaceVars, lock, guardVars, modeVars, localVars>>

\* Mutant: one region too many is kept free.
CheckOneMore(t) ==
  /\ At(t, "check")
  /\ Goto(t, IF target[t] > used + 1 THEN "num" ELSE "unlock")
  /\ UNCHANGED <<spaceVars, lock, guardVars, modeVars, localVars>>

\* The regions in use are read again, now under the lock.
CheckUsed(t) ==
  /\ At(t, "check")
  /\ Goto(t, IF target[t] > used THEN "num" ELSE "unlock")
  /\ UNCHANGED <<spaceVars, lock, guardVars, modeVars, localVars>>

SetNumRegions(t) ==
  /\ At(t, "num")
  /\ numRegions' = target[t]
  /\ Goto(t, "bounds")
  /\ UNCHANGED <<limit, end, bitmapSize, mapSize, used,
                 lock, guardVars, modeVars, localVars>>

SetBounds(t) ==
  /\ At(t, "bounds")
  /\ limit' = target[t]
  /\ end' = IF end > target[t] THEN target[t] ELSE end
  /\ Goto(t, "bitmap")
  /\ UNCHANGED <<numRegions, bitmapSize, mapSize, used,
                 lock, guardVars, modeVars, localVars>>

\* Mutant: the memory map is forgotten.
SetHeapSizeOnly(t) ==
  /\ At(t, "bitmap")
  /\ bitmapSize' = target[t]
  /\ Goto(t, "unlock")
  /\ UNCHANGED <<numRegions, limit, end, mapSize, used,
                 lock, guardVars, modeVars, localVars>>

SetHeapSize(t) ==
  /\ At(t, "bitmap")
  /\ bitmapSize' = target[t]
  /\ Goto(t, "map")
  /\ UNCHANGED <<numRegions, limit, end, mapSize, used,
                 lock, guardVars, modeVars, localVars>>

SetSize(t) ==
  /\ At(t, "map")
  /\ mapSize' = target[t]
  /\ Goto(t, "unlock")
  /\ UNCHANGED <<numRegions, limit, end, bitmapSize, used,
                 lock, guardVars, modeVars, localVars>>

\* ClampGrowthLimit__ returns nothing: ResizeRegionSpace reports success
\* whether or not the second check let it through.
ExclusiveUnlock(t) ==
  /\ At(t, "unlock")
  /\ lock' = Nobody
  /\ Resized(t)
  /\ UNCHANGED spaceVars

----------------------------------------------------------------------------
(***************************************************************************)
(* ART, as far as the code above relies on it: regions are taken and given *)
(* back only under the region lock.                                        *)
(***************************************************************************)

Allocate ==
  /\ alive
  /\ lock = Nobody
  /\ used < numRegions
  /\ used' = used + 1
  /\ UNCHANGED <<numRegions, limit, end, bitmapSize, mapSize,
                 lock, guardVars, modeVars, pc, localVars>>

Collect ==
  /\ alive
  /\ lock = Nobody
  /\ used' \in 0 .. used - 1
  /\ UNCHANGED <<numRegions, limit, end, bitmapSize, mapSize,
                 lock, guardVars, modeVars, pc, localVars>>

----------------------------------------------------------------------------

ResizeStep(t) ==
  \/ ReadUsed(t) \/ CompareLimit(t) \/ ArtClamp(t)
  \/ CheckUsed(t) \/ SetNumRegions(t) \/ SetBounds(t)
  \/ SetHeapSize(t) \/ SetSize(t) \/ ExclusiveUnlock(t)

Step(t) ==
  \/ Arm(t) \/ SetJmp(t) \/ Leave(t) \/ Recover(t) \/ ResizeStep(t)

Next ==
  \/ \E t \in Callers :
       \/ \E mb \in Requests : Call(t, mb)
       \/ Step(t)
       \/ ExclusiveLock(t)
       \/ Fault(t)
  \/ Allocate
  \/ Collect

Spec == Init /\ [][Next]_vars

\* A running thread is scheduled; a thread waiting for the region lock gets
\* it if it is free again and again. Nobody has to call, allocate or fault.
Fairness ==
  \A t \in Callers : WF_vars(Step(t)) /\ SF_vars(ArtClamp(t) \/ ExclusiveLock(t))

FairSpec == Spec /\ Fairness

----------------------------------------------------------------------------

TypeOK ==
  /\ numRegions \in 1 .. MaxRegions
  /\ limit \in 1 .. MaxRegions
  /\ end \in 1 .. MaxRegions
  /\ bitmapSize \in 1 .. MaxRegions
  /\ mapSize \in 1 .. MaxRegions
  /\ used \in 0 .. MaxRegions
  /\ lock \in Callers \cup {Nobody}
  /\ wantSignal \in BOOLEAN
  /\ timeMachine \in Callers \cup {Nobody}
  /\ guarded \in BOOLEAN
  /\ legacy \in BOOLEAN
  /\ installed \in BOOLEAN
  /\ resetHand \in BOOLEAN
  /\ alive \in BOOLEAN
  /\ pc \in [Callers -> ControlPoints]
  /\ target \in [Callers -> Int]
  /\ seenUsed \in [Callers -> 0 .. MaxRegions]
  /\ resized \in [Callers -> BOOLEAN]
  /\ answer \in [Callers -> BOOLEAN]

----------------------------------------------------------------------------
(***************************************************************************)
(* Safety.                                                                 *)
(***************************************************************************)

\* Whatever the callers and the mutator do in between the unlocked test of
\* ResizeRegionSpace and the stores of ClampGrowthLimit__, a region that holds
\* objects is never cut off: neither index nor address range ends below it.
UsedWithinCapacity ==
  /\ used <= numRegions
  /\ used <= limit

\* Whoever can take the region lock finds the five places that record the
\* size of the space in agreement, however many resizes have overlapped.
SizesAgree ==
  lock = Nobody =>
    /\ numRegions = limit
    /\ bitmapSize = limit
    /\ mapSize = limit
    /\ end <= limit

\* A thread leaves the section under the region lock with the lock given back,
\* or by siglongjmp: no return path of ClampGrowthLimit__ forgets the unlock. The
\* jump does not give it back, and whoever wants the lock later waits for ever.
LockLeftOnlyByJump ==
  [][\A t \in Callers :
       pc[t] \in LockedPoints /\ pc'[t] \notin LockedPoints =>
         lock' = Nobody \/ pc'[t] = "recover"]_vars

\* A fault inside a guarded resize, the region lock held or not, costs the call
\* and not the process. Holds for one caller and a handler that stays installed:
\* the jump buffer and the flag are one per process.
FaultContained == guarded => alive

\* A call that answers TRUE has got through the tests of ResizeRegionSpace. It need
\* not have with the guard on.
ReportsTruth ==
  \A t \in Callers : pc[t] = "idle" /\ answer[t] => resized[t]

\* ClampGrowthLimit__ returns nothing, and ResizeRegionSpace reports success after
\* it in any case. It may be believed this far: at the moment of the report the
\* space has the size that was asked for, or the regions in use have reached that
\* size since the unlocked test. Whatever another caller wrote in between is gone.
ResizeIsDone ==
  [][\A t \in Callers :
       resized'[t] /\ ~resized[t] =>
         (limit' = target[t] /\ numRegions' = target[t]) \/ used' >= target[t]]_vars

\* Seen through limit and used alone, a resize is one indivisible shrink.
\* Holds for one caller at a time.
Space == INSTANCE ShrinkableSpace WITH capacity <- limit, MaxSize <- MaxRegions

RefinesShrinkableSpace == Space!SpaceSpec

\* "can not grow region space": no step makes the space longer.
NeverGrows == [][limit' <= limit]_vars

(***************************************************************************)
(* Liveness.                                                               *)
(***************************************************************************)

\* Every call of shrinkRegionSpace comes back to its caller.
CallReturns == \A t \in Callers : pc[t] # "idle" ~> pc[t] = "idle"

=============================================================================
