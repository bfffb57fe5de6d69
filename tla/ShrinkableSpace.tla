-------------------------- MODULE ShrinkableSpace --------------------------
(***************************************************************************)
(* What the rest of Patrons may assume of ART's region space: an address   *)
(* range of `capacity` regions of which the first `used` hold objects.     *)
(* The range is only ever shortened, in one step, to a size that still     *)
(* covers the regions in use; objects come and go underneath it.           *)
(*                                                                         *)
(* RegionSpace is the step-by-step version of this; AutoCheck is a client. *)
(***************************************************************************)
EXTENDS Integers

CONSTANT MaxSize   \* the size the process was started with, at most

ASSUME MaxSizeAssumption == MaxSize \in Nat \ {0}

VARIABLES
  capacity,   \* NonGrowthLimitCapacity()
  used        \* non_free_region_index_limit_

spaceVars == <<capacity, used>>

SpaceInit ==
  /\ capacity \in 1 .. MaxSize
  /\ used \in 0 .. capacity

\* What a resize may be asked for: no growth, nothing below what is in use.
Fits(n) == used < n /\ n <= capacity

Shrink(n) ==
  /\ Fits(n)
  /\ capacity' = n
  /\ used' = used

\* The mutator takes a fresh region; a collection gives some back.
Allocate ==
  /\ used < capacity
  /\ used' = used + 1
  /\ capacity' = capacity

Collect ==
  /\ used' \in 0 .. used - 1
  /\ capacity' = capacity

SpaceNext == (\E n \in 1 .. capacity : Shrink(n)) \/ Allocate \/ Collect

SpaceSpec == SpaceInit /\ [][SpaceNext]_spaceVars

=============================================================================
