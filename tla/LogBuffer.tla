----------------------------- MODULE LogBuffer -----------------------------
(***************************************************************************)
(* The ring of native log lines: every LOGD, LOGI and LOGE ends in         *)
(* __log_dump, dumpLogs copies the lines out and CleanLogBuffer starts     *)
(* again. Lines are numbered in the order they are written; what matters   *)
(* of a line is whether its memory is still its own.                       *)
(*                                                                         *)
(* __log_dump takes no lock, dumpLogs takes one that nobody else takes.    *)
(***************************************************************************)
EXTENDS Integers, Sequences

CONSTANTS
  Threads,   \* threads that log, dump or clean
  Slots,     \* the length of dump_logs, 128
  Modulus,   \* 2^8: dump_cursor is an unsigned char
  Cleared,   \* the slots that the 128 bytes of the memset cover
  Overlap,   \* calls of different threads may overlap
  MaxLines   \* bound: lines written

ASSUME LogAssumption ==
  /\ Slots \in Nat \ {0}
  /\ Modulus \in Nat /\ Modulus >= Slots
  /\ Cleared \in 0 .. Slots
  /\ Overlap \in BOOLEAN
  /\ MaxLines \in Nat

VARIABLES
  slots,       \* dump_logs: line numbers, 0 for NULL
  cursor,      \* dump_cursor
  locked,      \* log_lock is taken
  written,     \* how many lines have been written
  cleanedAt,   \* that number at the last cleaning
  freed,       \* the lines whose buffer has been freed
  misused,     \* a freed buffer has been freed or read again
  shown,       \* the last dump: the lines, in order
  outside,     \* the last dump has read behind the last slot
  pc,          \* where each thread stands
  line,        \* the line it is writing
  index,       \* the slot it writes to, the slot its dump is at
  count,       \* current_cursor of its dump, the old dump_cursor of its line
  clean        \* cleanAfterDump

ringVars == <<slots, cursor>>
lineVars == <<written, freed, misused>>
dumpVars == <<shown, outside>>
localVars == <<line, index, count, clean>>
vars == <<ringVars, locked, cleanedAt, lineVars, dumpVars, pc, localVars>>

ControlPoints == {"idle", "advance", "test", "free", "store",
                  "read", "copy", "reset", "clear", "unlock"}

Init ==
  /\ slots = [i \in 0 .. Slots - 1 |-> 0]
  /\ cursor = 0
  /\ locked = FALSE
  /\ written = 0
  /\ cleanedAt = 0
  /\ freed = {}
  /\ misused = FALSE
  /\ shown = <<>>
  /\ outside = FALSE
  /\ pc = [t \in Threads |-> "idle"]
  /\ line = [t \in Threads |-> 0]
  /\ index = [t \in Threads |-> 0]
  /\ count = [t \in Threads |-> 0]
  /\ clean = [t \in Threads |-> FALSE]

Quiet == \A t \in Threads : pc[t] = "idle"

MayEnter(t) == pc[t] = "idle" /\ (Overlap \/ Quiet)

Goto(t, point) == pc' = [pc EXCEPT ![t] = point]

----------------------------------------------------------------------------
(***************************************************************************)
(* __log_dump.                                                             *)
(***************************************************************************)

\* Mutant: the cursor is not reduced to a slot.
LogUnreduced(t) ==
  /\ MayEnter(t)
  /\ written < MaxLines
  /\ written' = written + 1
  /\ line' = [line EXCEPT ![t] = written']
  /\ index' = [index EXCEPT ![t] = cursor]
  /\ count' = [count EXCEPT ![t] = cursor]
  /\ Goto(t, "advance")
  /\ UNCHANGED <<ringVars, locked, cleanedAt, freed, misused, dumpVars, clean>>

\* malloc and vsprintf, and the reading half of dump_cursor++ (the old value
\* is kept in count).
Log(t) ==
  /\ MayEnter(t)
  /\ written < MaxLines
  /\ written' = written + 1
  /\ line' = [line EXCEPT ![t] = written']
  /\ index' = [index EXCEPT ![t] = cursor % Slots]
  /\ count' = [count EXCEPT ![t] = cursor]
  /\ Goto(t, "advance")
  /\ UNCHANGED <<ringVars, locked, cleanedAt, freed, misused, dumpVars, clean>>

Advance(t) ==
  /\ pc[t] = "advance"
  /\ cursor' = (count[t] + 1) % Modulus
  /\ Goto(t, "test")
  /\ UNCHANGED <<slots, locked, cleanedAt, lineVars, dumpVars, localVars>>

TestOld(t) ==
  /\ pc[t] = "test"
  /\ Goto(t, IF slots[index[t]] # 0 THEN "free" ELSE "store")
  /\ UNCHANGED <<ringVars, locked, cleanedAt, lineVars, dumpVars, localVars>>

\* Mutant: return after the free.
FreeAndReturn(t) ==
  /\ pc[t] = "free"
  /\ misused' = (misused \/ slots[index[t]] \in freed)
  /\ freed' = freed \cup ({slots[index[t]]} \ {0})
  /\ Goto(t, "idle")
  /\ UNCHANGED <<ringVars, locked, cleanedAt, written, dumpVars, localVars>>

\* The slot is read once more; another thread may have put its line there.
FreeOld(t) ==
  /\ pc[t] = "free"
  /\ misused' = (misused \/ slots[index[t]] \in freed)
  /\ freed' = freed \cup ({slots[index[t]]} \ {0})
  /\ Goto(t, "store")
  /\ UNCHANGED <<ringVars, locked, cleanedAt, written, dumpVars, localVars>>

StoreLine(t) ==
  /\ pc[t] = "store"
  /\ slots' = [slots EXCEPT ![index[t]] = line[t]]
  /\ Goto(t, "idle")
  /\ UNCHANGED <<cursor, locked, cleanedAt, lineVars, dumpVars, localVars>>

----------------------------------------------------------------------------
(***************************************************************************)
(* dumpLogs, and the CleanLogBuffer at the start of __init.                *)
(***************************************************************************)

DumpLogs(t, cleanAfterDump) ==
  /\ MayEnter(t)
  /\ ~locked
  /\ locked' = TRUE
  /\ clean' = [clean EXCEPT ![t] = cleanAfterDump]
  /\ Goto(t, "read")
  /\ UNCHANGED <<ringVars, cleanedAt, lineVars, dumpVars, line, index, count>>

\* With the cursor at 0 the buffer is reported empty and not cleaned.
ReadCursor(t) ==
  /\ pc[t] = "read"
  /\ count' = [count EXCEPT ![t] = cursor]
  /\ index' = [index EXCEPT ![t] = 0]
  /\ shown' = <<>>
  /\ outside' = FALSE
  /\ Goto(t, IF cursor = 0 THEN "unlock" ELSE "copy")
  /\ UNCHANGED <<ringVars, locked, cleanedAt, lineVars, line, clean>>

\* One round of the loop. Behind the last slot lies other memory.
CopyLine(t) ==
  /\ pc[t] = "copy"
  /\ index[t] < count[t]
  /\ index' = [index EXCEPT ![t] = @ + 1]
  /\ IF index[t] < Slots
       THEN /\ LET here == slots[index[t]]
               IN  /\ shown' = IF here # 0 THEN Append(shown, here) ELSE shown
                   /\ misused' = (misused \/ here \in freed)
            /\ UNCHANGED outside
       ELSE outside' = TRUE /\ UNCHANGED <<shown, misused>>
  /\ UNCHANGED <<ringVars, locked, cleanedAt, written, freed, pc, line, count, clean>>

CopyEnd(t) ==
  /\ pc[t] = "copy"
  /\ index[t] = count[t]
  /\ Goto(t, IF clean[t] THEN "reset" ELSE "unlock")
  /\ UNCHANGED <<ringVars, locked, cleanedAt, lineVars, dumpVars, localVars>>

InitClean(t) ==
  /\ MayEnter(t)
  /\ clean' = [clean EXCEPT ![t] = FALSE]
  /\ Goto(t, "reset")
  /\ UNCHANGED <<ringVars, locked, cleanedAt, lineVars, dumpVars, line, index, count>>

\* Mutant: only the slots are cleaned.
ResetNothing(t) ==
  /\ pc[t] = "reset"
  /\ cleanedAt' = written
  /\ Goto(t, "clear")
  /\ UNCHANGED <<ringVars, locked, lineVars, dumpVars, localVars>>

ResetCursor(t) ==
  /\ pc[t] = "reset"
  /\ cursor' = 0
  /\ cleanedAt' = written
  /\ Goto(t, "clear")
  /\ UNCHANGED <<slots, locked, lineVars, dumpVars, localVars>>

\* The lines of the cleared slots are not freed, the others stay.
ClearSlots(t) ==
  /\ pc[t] = "clear"
  /\ slots' = [i \in 0 .. Slots - 1 |-> IF i < Cleared THEN 0 ELSE slots[i]]
  /\ Goto(t, IF clean[t] THEN "unlock" ELSE "idle")
  /\ UNCHANGED <<cursor, locked, cleanedAt, lineVars, dumpVars, localVars>>

Unlock(t) ==
  /\ pc[t] = "unlock"
  /\ locked' = FALSE
  /\ Goto(t, "idle")
  /\ UNCHANGED <<ringVars, cleanedAt, lineVars, dumpVars, localVars>>

----------------------------------------------------------------------------

Next ==
  \E t \in Threads :
    \/ Log(t) \/ Advance(t) \/ TestOld(t) \/ FreeOld(t) \/ StoreLine(t)
    \/ DumpLogs(t, TRUE) \/ DumpLogs(t, FALSE)
    \/ ReadCursor(t) \/ CopyLine(t) \/ CopyEnd(t)
    \/ InitClean(t) \/ ResetCursor(t) \/ ClearSlots(t) \/ Unlock(t)

Spec == Init /\ [][Next]_vars

----------------------------------------------------------------------------

TypeOK ==
  /\ slots \in [0 .. Slots - 1 -> 0 .. MaxLines]
  /\ cursor \in 0 .. Modulus - 1
  /\ locked \in BOOLEAN
  /\ written \in 0 .. MaxLines
  /\ cleanedAt \in 0 .. MaxLines
  /\ freed \subseteq 0 .. MaxLines
  /\ misused \in BOOLEAN
  /\ shown \in Seq(1 .. MaxLines)
  /\ outside \in BOOLEAN
  /\ pc \in [Threads -> ControlPoints]
  /\ line \in [Threads -> 0 .. MaxLines]
  /\ index \in [Threads -> 0 .. Modulus - 1]
  /\ count \in [Threads -> 0 .. Modulus - 1]
  /\ clean \in [Threads -> BOOLEAN]
  /\ \A t \in Threads : pc[t] \in {"test", "free", "store"} => index[t] < Slots

(***************************************************************************)
(* Safety, for calls that do not overlap.                                  *)
(***************************************************************************)

\* Through any number of rounds and incomplete cleanings, no line is freed
\* twice or copied after it was freed, and none is left in a slot to be.
LinesAreOwned ==
  ~misused /\ (Quiet => \A i \in DOMAIN slots : slots[i] \notin freed)

\* A dump shows exactly the lines written since the last cleaning, in order,
\* however much of older rounds the memset has left behind. Holds as long as
\* there are no more of them than slots.
DumpIsExact ==
  \A t \in Threads :
    LET since == written - cleanedAt
    IN  pc[t] = "copy" /\ index[t] = count[t] /\ since <= Slots =>
          /\ ~outside
          /\ shown = [i \in 1 .. since |-> cleanedAt + i]

=============================================================================
