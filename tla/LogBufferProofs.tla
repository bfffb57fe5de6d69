--------------------------- MODULE LogBufferProofs ---------------------------
(***************************************************************************)
(* Proofs about LogBuffer, for any number of threads and lines, any length *)
(* of the ring, any range of the cursor and any extent of the memset. The  *)
(* type invariant holds for overlapping calls too, the others for calls    *)
(* that do not overlap.                                                    *)
(*                                                                         *)
(* Ownership needs that a line is in one slot only and that the one being  *)
(* written is newer than all that is stored or freed (Owned). The content  *)
(* of a dump needs that, as long as the lines since the last cleaning fit  *)
(* the ring, they stand in its first slots and the cursor counts them      *)
(* (Content), whatever older lines the memset has left behind them.        *)
(***************************************************************************)
EXTENDS LogBuffer, TLAPS

\* The slot of a line that is being written.
SlotInRing ==
  \A t \in Threads : pc[t] \in {"advance", "test", "free", "store"} => index[t] < Slots

Types == TypeOK /\ SlotInRing

\* A remainder of dump_cursor lies within what it is divided by.
LEMMA RemainderInRange ==
  ASSUME NEW x \in Nat, NEW m \in Nat, m > 0
  PROVE  x % m \in 0 .. m - 1
  OBVIOUS

LEMMA RemainderOfSmall ==
  ASSUME NEW m \in Nat, NEW x \in 0 .. m - 1
  PROVE  x % m = x
  OBVIOUS

LEMMA RemainderOfItself ==
  ASSUME NEW m \in Nat, m > 0
  PROVE  m % m = 0
  OBVIOUS

\* The initial values are of their types.
LEMMA TypesInit == Init => Types
  <1> SUFFICES ASSUME Init PROVE Types
    OBVIOUS
  <1>1. shown \in Seq(1 .. MaxLines)
    BY DEF Init
  <1>2. misused \in BOOLEAN /\ locked \in BOOLEAN /\ outside \in BOOLEAN
    BY DEF Init
  <1>3. slots \in [0 .. Slots - 1 -> 0 .. MaxLines]
    BY LogAssumption DEF LogAssumption, Init
  <1>4. cursor \in 0 .. Modulus - 1 /\ written \in 0 .. MaxLines /\ cleanedAt \in 0 .. MaxLines
    BY LogAssumption DEF LogAssumption, Init
  <1>5. /\ line \in [Threads -> 0 .. MaxLines]
        /\ index \in [Threads -> 0 .. Modulus - 1]
        /\ count \in [Threads -> 0 .. Modulus - 1]
    BY LogAssumption DEF LogAssumption, Init
  <1> QED
    BY <1>1, <1>2, <1>3, <1>4, <1>5 DEF Init, Types, TypeOK, SlotInRing, ControlPoints

\* Every step keeps the types, the index of a line below Slots.
LEMMA TypesStep == Types /\ [Next]_vars => Types'
  <1> SUFFICES ASSUME Types, [Next]_vars PROVE Types'
    OBVIOUS
  <1> USE LogAssumption DEF LogAssumption, Types, TypeOK, SlotInRing,
      ControlPoints, Goto, MayEnter, Quiet,
      ringVars, lineVars, dumpVars, localVars
  <1>0. CASE UNCHANGED vars
    BY <1>0 DEF vars
  <1>1. ASSUME NEW t \in Threads, Log(t) PROVE Types'
    <2>1. cursor % Slots \in 0 .. Slots - 1
      BY RemainderInRange
    <2>2. /\ written' \in 0 .. MaxLines
          /\ line' \in [Threads -> 0 .. MaxLines]
          /\ count' \in [Threads -> 0 .. Modulus - 1]
      BY <1>1 DEF Log
    <2>3. index' \in [Threads -> 0 .. Modulus - 1] /\ index'[t] < Slots
      BY <1>1, <2>1 DEF Log
    <2>4. \A u \in Threads : u # t => index'[u] = index[u] /\ pc'[u] = pc[u]
      BY <1>1 DEF Log
    <2>5. pc' \in [Threads -> ControlPoints]
      BY <1>1 DEF Log
    <2> QED
      BY <1>1, <2>2, <2>3, <2>4, <2>5 DEF Log
  <1>2. ASSUME NEW t \in Threads, Advance(t) PROVE Types'
    <2>1. count[t] + 1 \in Nat /\ Modulus \in Nat /\ Modulus > 0
      OBVIOUS
    <2>2. (count[t] + 1) % Modulus \in 0 .. Modulus - 1
      BY <2>1, RemainderInRange
    <2>3. cursor' \in 0 .. Modulus - 1
      BY <1>2, <2>2 DEF Advance
    <2> QED
      BY <1>2, <2>3 DEF Advance
  <1>3. ASSUME NEW t \in Threads, TestOld(t) PROVE Types'
    BY <1>3, RemainderInRange DEF TestOld
  <1>4. ASSUME NEW t \in Threads, FreeOld(t) PROVE Types'
    <2>1. slots[index[t]] \in 0 .. MaxLines
      BY <1>4 DEF FreeOld
    <2>2. freed' \subseteq 0 .. MaxLines
      BY <1>4, <2>1 DEF FreeOld
    <2>3. misused' \in BOOLEAN
      BY <1>4 DEF FreeOld
    <2> QED
      BY <1>4, <2>2, <2>3 DEF FreeOld
  <1>5. ASSUME NEW t \in Threads, StoreLine(t) PROVE Types'
    BY <1>5, RemainderInRange DEF StoreLine
  <1>6. ASSUME NEW t \in Threads, DumpLogs(t, TRUE) PROVE Types'
    BY <1>6, RemainderInRange DEF DumpLogs
  <1>7. ASSUME NEW t \in Threads, DumpLogs(t, FALSE) PROVE Types'
    BY <1>7, RemainderInRange DEF DumpLogs
  <1>8. ASSUME NEW t \in Threads, ReadCursor(t) PROVE Types'
    <2>1. shown' \in Seq(1 .. MaxLines)
      BY <1>8 DEF ReadCursor
    <2>2. outside' \in BOOLEAN
      BY <1>8 DEF ReadCursor
    <2>3. /\ count' \in [Threads -> 0 .. Modulus - 1]
          /\ index' \in [Threads -> 0 .. Modulus - 1]
      BY <1>8 DEF ReadCursor
    <2>4. pc' \in [Threads -> ControlPoints] /\ pc'[t] \notin {"advance", "test", "free", "store"}
      BY <1>8 DEF ReadCursor
    <2>5. \A u \in Threads : u # t => index'[u] = index[u] /\ pc'[u] = pc[u]
      BY <1>8 DEF ReadCursor
    <2> QED
      BY <1>8, <2>1, <2>2, <2>3, <2>4, <2>5 DEF ReadCursor
  <1>9. ASSUME NEW t \in Threads, CopyLine(t) PROVE Types'
    <2>1. index' \in [Threads -> 0 .. Modulus - 1]
      BY SMTT(30), <1>9 DEF CopyLine
    <2>2. \A u \in Threads : u # t => index'[u] = index[u]
      BY <1>9 DEF CopyLine
    <2>3. shown' \in Seq(1 .. MaxLines) /\ misused' \in BOOLEAN /\ outside' \in BOOLEAN
      <3>1. CASE index[t] < Slots
        <4>1. slots[index[t]] \in 0 .. MaxLines
          BY <3>1
        <4>2. shown' \in Seq(1 .. MaxLines)
          <5>1. CASE slots[index[t]] = 0
            BY <1>9, <3>1, <5>1 DEF CopyLine
          <5>2. CASE slots[index[t]] # 0
            <6>1. slots[index[t]] \in 1 .. MaxLines /\ shown \in Seq(1 .. MaxLines)
              BY <4>1, <5>2
            <6>2. Append(shown, slots[index[t]]) \in Seq(1 .. MaxLines)
              BY <6>1
            <6>3. shown' = Append(shown, slots[index[t]])
              BY <1>9, <3>1, <5>2 DEF CopyLine
            <6> QED
              BY <6>2, <6>3
          <5> QED
            BY <5>1, <5>2
        <4>3. misused' \in BOOLEAN
          BY <1>9, <3>1 DEF CopyLine
        <4> QED
          BY <1>9, <3>1, <4>2, <4>3 DEF CopyLine
      <3>2. CASE ~(index[t] < Slots)
        <4>1. outside' \in BOOLEAN
          BY <1>9, <3>2 DEF CopyLine
        <4> QED
          BY <1>9, <3>2, <4>1 DEF CopyLine
      <3> QED
        BY <3>1, <3>2
    <2> QED
      BY <1>9, <2>1, <2>2, <2>3 DEF CopyLine
  <1>10. ASSUME NEW t \in Threads, CopyEnd(t) PROVE Types'
    BY <1>10, RemainderInRange DEF CopyEnd
  <1>11. ASSUME NEW t \in Threads, InitClean(t) PROVE Types'
    BY <1>11, RemainderInRange DEF InitClean
  <1>12. ASSUME NEW t \in Threads, ResetCursor(t) PROVE Types'
    BY <1>12, RemainderInRange DEF ResetCursor
  <1>13. ASSUME NEW t \in Threads, ClearSlots(t) PROVE Types'
    BY <1>13, RemainderInRange DEF ClearSlots
  <1>14. ASSUME NEW t \in Threads, Unlock(t) PROVE Types'
    BY <1>14, RemainderInRange DEF Unlock
  <1> QED
    BY <1>0, <1>1, <1>2, <1>3, <1>4, <1>5, <1>6, <1>7, <1>8, <1>9,
       <1>10, <1>11, <1>12, <1>13, <1>14
    DEF Next

\* Every variable keeps its type, and a line is never written behind the
\* last slot, also when calls overlap.
THEOREM TypeCorrect == Spec => []TypeOK
  BY TypesInit, TypesStep, PTL DEF Spec, Types

----------------------------------------------------------------------------
(***************************************************************************)
(* The inductive invariant for calls that do not overlap.                  *)
(***************************************************************************)

LogPoints == {"advance", "test", "free", "store"}

Alone ==
  \A t, u \in Threads : pc[t] # "idle" /\ pc[u] # "idle" => t = u

Since == written - cleanedAt

\* The lines are stored in the order they are numbered; no two slots share one.
Owned ==
  /\ ~misused
  /\ 0 \notin freed
  /\ \A f \in freed : f <= written
  /\ \A i \in 0 .. Slots - 1 : slots[i] <= written
  /\ \A i, j \in 0 .. Slots - 1 : slots[i] = slots[j] /\ slots[i] # 0 => i = j
  /\ \A t \in Threads : pc[t] \in LogPoints =>
       /\ line[t] = written /\ written > 0
       /\ written \notin freed
       /\ \A i \in 0 .. Slots - 1 : slots[i] # written
  /\ \A i \in 0 .. Slots - 1 :
       slots[i] \in freed => \E t \in Threads : pc[t] = "store" /\ index[t] = i

\* How many lines of this round are in their slots.
InPlace == IF \E t \in Threads : pc[t] \in LogPoints THEN Since - 1 ELSE Since

\* The parts of Content: which lines the round has, the slots that hold them,
\* the cursor, the slot of the line being written, what a dump has copied.
Rounds ==
  /\ cleanedAt <= written
  /\ \A t \in Threads :
       /\ pc[t] \in LogPoints => cleanedAt < written
       /\ pc[t] = "clear" => cleanedAt = written

Prefix ==
  Since <= Slots =>
    \A i \in 0 .. Slots - 1 : i < InPlace => slots[i] = cleanedAt + i + 1

Counting ==
  Since <= Slots /\ (\A t \in Threads : pc[t] # "advance") =>
    cursor = IF Since = Modulus THEN 0 ELSE Since

Aimed ==
  Since <= Slots => \A t \in Threads :
    /\ pc[t] = "advance" => count[t] = Since - 1
    /\ pc[t] \in LogPoints => index[t] = Since - 1

Copied ==
  Since <= Slots => \A t \in Threads : pc[t] = "copy" =>
    /\ count[t] = Since
    /\ index[t] <= count[t]
    /\ ~outside
    /\ shown = [i \in 1 .. index[t] |-> cleanedAt + i]

Content == Rounds /\ Prefix /\ Counting /\ Aimed /\ Copied

Inv == Types /\ Alone /\ Owned /\ Content

----------------------------------------------------------------------------
(***************************************************************************)
(* Each part is kept by every step.                                        *)
(***************************************************************************)

\* One call at a time.
LEMMA AloneStep ==
  ASSUME ~Overlap, Types, Alone, [Next]_vars
  PROVE  Alone'
  <1> USE LogAssumption DEF LogAssumption, Alone, Types, TypeOK, SlotInRing,
      ControlPoints, Goto, MayEnter, Quiet, ringVars, lineVars, dumpVars,
      localVars
  <1>0. CASE UNCHANGED vars
    BY <1>0 DEF vars
  <1>1. ASSUME NEW t \in Threads, Log(t) PROVE Alone'
    BY <1>1 DEF Log
  <1>2. ASSUME NEW t \in Threads, Advance(t) PROVE Alone'
    BY <1>2 DEF Advance
  <1>3. ASSUME NEW t \in Threads, TestOld(t) PROVE Alone'
    BY <1>3 DEF TestOld
  <1>4. ASSUME NEW t \in Threads, FreeOld(t) PROVE Alone'
    BY <1>4 DEF FreeOld
  <1>5. ASSUME NEW t \in Threads, StoreLine(t) PROVE Alone'
    BY <1>5 DEF StoreLine
  <1>6. ASSUME NEW t \in Threads, DumpLogs(t, TRUE) PROVE Alone'
    BY <1>6 DEF DumpLogs
  <1>7. ASSUME NEW t \in Threads, DumpLogs(t, FALSE) PROVE Alone'
    BY <1>7 DEF DumpLogs
  <1>8. ASSUME NEW t \in Threads, ReadCursor(t) PROVE Alone'
    BY <1>8 DEF ReadCursor
  <1>9. ASSUME NEW t \in Threads, CopyLine(t) PROVE Alone'
    BY <1>9 DEF CopyLine
  <1>10. ASSUME NEW t \in Threads, CopyEnd(t) PROVE Alone'
    BY <1>10 DEF CopyEnd
  <1>11. ASSUME NEW t \in Threads, InitClean(t) PROVE Alone'
    BY <1>11 DEF InitClean
  <1>12. ASSUME NEW t \in Threads, ResetCursor(t) PROVE Alone'
    BY <1>12 DEF ResetCursor
  <1>13. ASSUME NEW t \in Threads, ClearSlots(t) PROVE Alone'
    BY <1>13 DEF ClearSlots
  <1>14. ASSUME NEW t \in Threads, Unlock(t) PROVE Alone'
    BY <1>14 DEF Unlock
  <1> QED
    BY <1>0, <1>1, <1>2, <1>3, <1>4, <1>5, <1>6, <1>7, <1>8, <1>9,
       <1>10, <1>11, <1>12, <1>13, <1>14
    DEF Next

\* A run of line numbers grows by its next one.
LEMMA AppendToRun ==
  ASSUME NEW a \in Nat, NEW n \in Nat
  PROVE  Append([i \in 1 .. n |-> a + i], a + n + 1) = [i \in 1 .. n + 1 |-> a + i]
  <1> DEFINE f == [i \in 1 .. n |-> a + i]
  <1>1. f \in Seq(Nat) /\ Len(f) = n
    OBVIOUS
  <1>2. Append(f, a + n + 1) = [i \in 1 .. n + 1 |-> IF i = n + 1 THEN a + n + 1 ELSE f[i]]
    BY <1>1
  <1> QED
    BY <1>2

\* The types as the steps below need them.
LEMMA Numbers ==
  ASSUME Types
  PROVE  /\ slots \in [0 .. Slots - 1 -> Nat]
         /\ written \in Nat /\ cleanedAt \in Nat /\ cursor \in Nat /\ freed \subseteq Nat
         /\ index \in [Threads -> Nat] /\ count \in [Threads -> Nat]
         /\ Slots \in Nat /\ Slots > 0 /\ Modulus \in Nat /\ Modulus >= Slots
  <1> USE LogAssumption DEF LogAssumption, Types, TypeOK
  <1>1. slots \in [0 .. Slots - 1 -> Nat]
    OBVIOUS
  <1>2. freed \subseteq Nat
    OBVIOUS
  <1>3. index \in [Threads -> Nat] /\ count \in [Threads -> Nat]
    OBVIOUS
  <1> QED
    BY <1>1, <1>2, <1>3

\* No line gets into two hands.
LEMMA OwnedStep ==
  ASSUME ~Overlap, Types, Types', Alone, Alone', Owned, [Next]_vars
  PROVE  Owned'
  <1> USE LogAssumption DEF LogAssumption, Alone, Owned, LogPoints, Types,
      TypeOK, SlotInRing, ControlPoints, Goto, MayEnter, Quiet, ringVars,
      lineVars, dumpVars, localVars
  <1>0. CASE UNCHANGED vars
    BY <1>0 DEF vars
  <1>1. ASSUME NEW t \in Threads, Log(t) PROVE Owned'
    <2>0. /\ slots \in [0 .. Slots - 1 -> Nat]
          /\ written \in Nat /\ cleanedAt \in Nat /\ cursor \in Nat /\ freed \subseteq Nat
          /\ index \in [Threads -> Nat] /\ count \in [Threads -> Nat]
          /\ Slots \in Nat /\ Slots > 0 /\ Modulus \in Nat /\ Modulus >= Slots
      BY Numbers
    <2>1. \A i \in 0 .. Slots - 1 : slots[i] \notin freed
      BY <1>1 DEF Log
    <2>2. /\ written' = written + 1 /\ line'[t] = written'
          /\ UNCHANGED <<slots, freed, misused>>
      BY <1>1 DEF Log
    <2>3. \A u \in Threads : u # t => pc'[u] = "idle"
      BY <1>1 DEF Log
    <2> HIDE LogAssumption DEF LogAssumption, Types, TypeOK, SlotInRing
    <2>4. /\ written' \notin freed
          /\ \A i \in 0 .. Slots - 1 : slots[i] # written'
      BY <2>0, <2>2
    <2>5. /\ \A f \in freed' : f <= written'
          /\ \A i \in 0 .. Slots - 1 : slots'[i] <= written'
      BY <2>0, <2>2
    <2>6. written' > 0
      BY <2>0, <2>2
    <2>7. \A u \in Threads : pc'[u] \in LogPoints => u = t
      BY <2>3
    <2>8. \A i \in 0 .. Slots - 1 : slots'[i] \notin freed'
      BY <2>1, <2>2
    <2> QED
      BY <2>2, <2>4, <2>5, <2>6, <2>7, <2>8
  <1>2. ASSUME NEW t \in Threads, Advance(t) PROVE Owned'
    BY <1>2 DEF Advance
  <1>3. ASSUME NEW t \in Threads, TestOld(t) PROVE Owned'
    BY <1>3 DEF TestOld
  <1>4. ASSUME NEW t \in Threads, FreeOld(t) PROVE Owned'
    <2>0. /\ slots \in [0 .. Slots - 1 -> Nat]
          /\ written \in Nat /\ cleanedAt \in Nat /\ cursor \in Nat /\ freed \subseteq Nat
          /\ index \in [Threads -> Nat] /\ count \in [Threads -> Nat]
          /\ Slots \in Nat /\ Slots > 0 /\ Modulus \in Nat /\ Modulus >= Slots
      BY Numbers
    <2> DEFINE old == slots[index[t]]
    <2>1. \A i \in 0 .. Slots - 1 : slots[i] \notin freed
      BY <1>4 DEF FreeOld
    <2>2. index[t] \in 0 .. Slots - 1
      BY <1>4 DEF FreeOld
    <2>3. /\ ~misused'
          /\ freed' = freed \cup ({old} \ {0})
          /\ UNCHANGED <<slots, written, line, index>>
      BY <1>4, <2>1, <2>2 DEF FreeOld
    <2>4. /\ pc'[t] = "store" /\ pc[t] \in LogPoints
          /\ \A u \in Threads : u # t => pc'[u] = "idle"
      BY <1>4 DEF FreeOld
    <2> HIDE LogAssumption DEF LogAssumption, Types, TypeOK, SlotInRing
    <2>5. /\ old <= written /\ old # written
      BY <2>0, <2>2, <2>4
    <2>6. /\ 0 \notin freed' /\ written \notin freed'
          /\ \A f \in freed' : f <= written'
      BY <2>0, <2>3, <2>4, <2>5
    <2>7. ASSUME NEW i \in 0 .. Slots - 1, slots[i] \in freed'
          PROVE  i = index'[t]
      <3>1. slots[i] = old /\ slots[i] # 0
        BY <2>0, <2>1, <2>3, <2>7
      <3> QED
        BY <2>0, <3>1, <2>2, <2>3
    <2> QED
      BY <2>0, <2>3, <2>4, <2>6, <2>7
  <1>5. ASSUME NEW t \in Threads, StoreLine(t) PROVE Owned'
    <2>0. /\ slots \in [0 .. Slots - 1 -> Nat]
          /\ written \in Nat /\ cleanedAt \in Nat /\ cursor \in Nat /\ freed \subseteq Nat
          /\ index \in [Threads -> Nat] /\ count \in [Threads -> Nat]
          /\ Slots \in Nat /\ Slots > 0 /\ Modulus \in Nat /\ Modulus >= Slots
      BY Numbers
    <2>1. /\ index[t] \in 0 .. Slots - 1
          /\ line[t] = written /\ written > 0
          /\ written \notin freed
          /\ \A i \in 0 .. Slots - 1 : slots[i] # written
      BY <1>5 DEF StoreLine
    <2>2. \A i \in 0 .. Slots - 1 : slots'[i] = IF i = index[t] THEN written ELSE slots[i]
      BY <1>5, <2>1 DEF StoreLine
    <2>3. UNCHANGED <<written, freed, misused>>
      BY <1>5 DEF StoreLine
    <2>4. \A u \in Threads : pc'[u] = "idle"
      BY <1>5 DEF StoreLine
    <2> HIDE LogAssumption DEF LogAssumption, Types, TypeOK, SlotInRing
    <2>5. \A i \in 0 .. Slots - 1 : slots'[i] \notin freed'
      <3>1. \A i \in 0 .. Slots - 1 : slots[i] \in freed => i = index[t]
        BY <2>0, <1>5 DEF StoreLine
      <3> QED
        BY <2>0, <2>1, <2>2, <2>3, <3>1
    <2>6. \A i \in 0 .. Slots - 1 : slots'[i] <= written'
      BY <2>0, <2>2, <2>3
    <2>7. \A i, j \in 0 .. Slots - 1 : slots'[i] = slots'[j] /\ slots'[i] # 0 => i = j
      BY <2>0, <2>1, <2>2
    <2> QED
      BY <2>0, <2>3, <2>4, <2>5, <2>6, <2>7
  <1>6. ASSUME NEW t \in Threads, DumpLogs(t, TRUE) PROVE Owned'
    BY <1>6 DEF DumpLogs
  <1>7. ASSUME NEW t \in Threads, DumpLogs(t, FALSE) PROVE Owned'
    BY <1>7 DEF DumpLogs
  <1>8. ASSUME NEW t \in Threads, ReadCursor(t) PROVE Owned'
    BY <1>8 DEF ReadCursor
  <1>9. ASSUME NEW t \in Threads, CopyLine(t) PROVE Owned'
    <2>0. /\ slots \in [0 .. Slots - 1 -> Nat]
          /\ written \in Nat /\ cleanedAt \in Nat /\ cursor \in Nat /\ freed \subseteq Nat
          /\ index \in [Threads -> Nat] /\ count \in [Threads -> Nat]
          /\ Slots \in Nat /\ Slots > 0 /\ Modulus \in Nat /\ Modulus >= Slots
      BY Numbers
    <2>1. \A i \in 0 .. Slots - 1 : slots[i] \notin freed
      BY <1>9 DEF CopyLine
    <2>2. UNCHANGED <<slots, written, freed, pc, line>>
      BY <1>9 DEF CopyLine
    <2>3. ~misused'
      BY SMTT(30), <1>9, <2>1 DEF CopyLine
    <2>4. \A u \in Threads : pc[u] \in {"idle", "copy"}
      BY <1>9 DEF CopyLine
    <2> HIDE LogAssumption DEF LogAssumption, Types, TypeOK, SlotInRing
    <2> QED
      BY <2>0, <2>1, <2>2, <2>3, <2>4
  <1>10. ASSUME NEW t \in Threads, CopyEnd(t) PROVE Owned'
    BY <1>10 DEF CopyEnd
  <1>11. ASSUME NEW t \in Threads, InitClean(t) PROVE Owned'
    BY <1>11 DEF InitClean
  <1>12. ASSUME NEW t \in Threads, ResetCursor(t) PROVE Owned'
    BY <1>12 DEF ResetCursor
  <1>13. ASSUME NEW t \in Threads, ClearSlots(t) PROVE Owned'
    BY <1>13 DEF ClearSlots
  <1>14. ASSUME NEW t \in Threads, Unlock(t) PROVE Owned'
    BY <1>14 DEF Unlock
  <1> QED
    BY <1>0, <1>1, <1>2, <1>3, <1>4, <1>5, <1>6, <1>7, <1>8, <1>9,
       <1>10, <1>11, <1>12, <1>13, <1>14
    DEF Next

\* The lines of the round stay where a dump finds them.
LEMMA ContentStep ==
  ASSUME ~Overlap, Types, Types', Alone, Alone', Owned, Content, [Next]_vars
  PROVE  Content'
  <1> USE LogAssumption DEF LogAssumption, Alone, Content, Rounds, Prefix,
      Counting, Aimed, Copied, InPlace, Since, LogPoints, Types, TypeOK,
      SlotInRing, ControlPoints, Goto, MayEnter, Quiet, ringVars, lineVars,
      dumpVars, localVars
  <1>0. CASE UNCHANGED vars
    BY <1>0 DEF vars
  <1>1. ASSUME NEW t \in Threads, Log(t) PROVE Content'
    <2>0. /\ slots \in [0 .. Slots - 1 -> Nat]
          /\ written \in Nat /\ cleanedAt \in Nat /\ cursor \in Nat
          /\ index \in [Threads -> Nat] /\ count \in [Threads -> Nat]
          /\ Slots \in Nat /\ Slots > 0 /\ Modulus \in Nat /\ Modulus >= Slots
      BY Numbers
    <2>1. /\ \A u \in Threads : pc[u] = "idle"
          /\ pc'[t] = "advance"
          /\ \A u \in Threads : u # t => pc'[u] = "idle"
      BY <1>1 DEF Log
    <2>2. /\ written' = written + 1 /\ UNCHANGED <<slots, cursor, cleanedAt>>
          /\ index'[t] = cursor % Slots /\ count'[t] = cursor
      BY <1>1 DEF Log
    <2> HIDE LogAssumption DEF LogAssumption, Types, TypeOK, SlotInRing, Alone, Content, Rounds,
        Prefix, Counting, Aimed, Copied, InPlace, Since, LogPoints
    <2>3. InPlace = Since /\ InPlace' = Since /\ Since' = Since + 1
      <3>1. pc'[t] \in LogPoints
        BY <2>1 DEF LogPoints
      <3>2. \A u \in Threads : pc[u] \notin LogPoints
        BY <2>1 DEF LogPoints
      <3>3. Since' = Since + 1 /\ Since \in Int
        BY <2>0, <2>2 DEF Since
      <3> QED
        BY <3>1, <3>2, <3>3 DEF InPlace
    <2>4. Since \in Nat
      BY <2>0 DEF Since, Content, Rounds
    <2>5. Since' <= Slots => cursor = Since /\ cursor % Slots = cursor
      <3> SUFFICES ASSUME Since' <= Slots PROVE cursor = Since /\ cursor % Slots = cursor
        OBVIOUS
      <3>1. Since <= Slots /\ Since # Modulus /\ Since \in 0 .. Slots - 1
        BY <2>0, <2>3, <2>4
      <3>2. cursor = Since
        BY <2>1, <3>1 DEF Content, Counting
      <3> QED
        BY <2>0, <3>1, <3>2, RemainderOfSmall
    <2>6. Rounds'
      BY <2>0, <2>1, <2>2 DEF Content, Rounds, LogPoints
    <2>7. Prefix'
      <3>1. Since' <= Slots => Since <= Slots
        BY <2>0, <2>3, <2>4
      <3> QED
        BY <2>2, <2>3, <3>1 DEF Content, Prefix
    <2>8. Counting'
      BY <2>1 DEF Counting
    <2>9. Aimed'
      BY <2>1, <2>2, <2>3, <2>4, <2>5 DEF Aimed, LogPoints
    <2>10. Copied'
      BY <2>1 DEF Copied
    <2> QED
      BY <2>6, <2>7, <2>8, <2>9, <2>10 DEF Content
  <1>2. ASSUME NEW t \in Threads, Advance(t) PROVE Content'
    <2>0. /\ slots \in [0 .. Slots - 1 -> Nat]
          /\ written \in Nat /\ cleanedAt \in Nat /\ cursor \in Nat
          /\ index \in [Threads -> Nat] /\ count \in [Threads -> Nat]
          /\ Slots \in Nat /\ Slots > 0 /\ Modulus \in Nat /\ Modulus >= Slots
      BY Numbers
    <2>1. /\ pc[t] = "advance" /\ pc'[t] = "test"
          /\ \A u \in Threads : u # t => pc[u] = "idle" /\ pc'[u] = "idle"
      BY <1>2 DEF Advance
    <2>2. /\ cursor' = (count[t] + 1) % Modulus
          /\ UNCHANGED <<slots, written, cleanedAt, index>>
      BY <1>2 DEF Advance
    <2> HIDE LogAssumption DEF LogAssumption, Types, TypeOK, SlotInRing, Alone, Content, Rounds,
        Prefix, Counting, Aimed, Copied, InPlace, Since, LogPoints
    <2>3. Since \in Nat \ {0} /\ Since' = Since
      BY <2>0, <2>1, <2>2 DEF Since, Content, Rounds, LogPoints
    <2>4. InPlace = Since - 1 /\ InPlace' = Since - 1
      <3>1. pc[t] \in LogPoints /\ pc'[t] \in LogPoints
        BY <2>1 DEF LogPoints
      <3> QED
        BY <2>3, <3>1 DEF InPlace
    <2>5. Since <= Slots => cursor' = IF Since = Modulus THEN 0 ELSE Since
      <3> SUFFICES ASSUME Since <= Slots
                   PROVE  cursor' = IF Since = Modulus THEN 0 ELSE Since
        OBVIOUS
      <3>1. count[t] + 1 = Since
        BY <2>0, <2>1, <2>3 DEF Content, Aimed
      <3>2. CASE Since = Modulus
        BY <2>0, <2>2, <2>3, <3>1, <3>2, RemainderOfItself
      <3>3. CASE Since # Modulus
        <4>1. Since \in 0 .. Modulus - 1
          BY <2>0, <2>3, <3>3
        <4> QED
          BY <2>0, <2>2, <3>1, <3>3, <4>1, RemainderOfSmall
      <3> QED
        BY <3>2, <3>3
    <2>6. Rounds'
      BY <2>0, <2>1, <2>2 DEF Content, Rounds, LogPoints
    <2>7. Prefix'
      BY <2>2, <2>3, <2>4 DEF Content, Prefix
    <2>8. Counting'
      BY <2>3, <2>5 DEF Counting
    <2>9. Aimed'
      BY <2>1, <2>2, <2>3 DEF Content, Aimed, LogPoints
    <2>10. Copied'
      BY <2>1 DEF Copied
    <2> QED
      BY <2>6, <2>7, <2>8, <2>9, <2>10 DEF Content
  <1>3. ASSUME NEW t \in Threads, TestOld(t) PROVE Content'
    BY <1>3 DEF TestOld
  <1>4. ASSUME NEW t \in Threads, FreeOld(t) PROVE Content'
    BY <1>4 DEF FreeOld
  <1>5. ASSUME NEW t \in Threads, StoreLine(t) PROVE Content'
    <2>0. /\ slots \in [0 .. Slots - 1 -> Nat]
          /\ written \in Nat /\ cleanedAt \in Nat /\ cursor \in Nat
          /\ index \in [Threads -> Nat] /\ count \in [Threads -> Nat]
          /\ Slots \in Nat /\ Slots > 0 /\ Modulus \in Nat /\ Modulus >= Slots
      BY Numbers
    <2>1. /\ pc[t] = "store"
          /\ \A u \in Threads : pc'[u] = "idle"
          /\ \A u \in Threads : pc[u] # "advance"
      BY <1>5 DEF StoreLine
    <2>2. index[t] \in 0 .. Slots - 1
      BY <1>5 DEF StoreLine
    <2>3. line[t] = written
      BY <2>1 DEF Owned
    <2>4. /\ \A i \in 0 .. Slots - 1 : slots'[i] = IF i = index[t] THEN written ELSE slots[i]
          /\ UNCHANGED <<cursor, written, cleanedAt>>
      BY <1>5, <2>2, <2>3 DEF StoreLine
    <2> HIDE LogAssumption DEF LogAssumption, Types, TypeOK, SlotInRing, Alone, Content, Rounds,
        Prefix, Counting, Aimed, Copied, InPlace, Since, LogPoints
    <2>5. Since \in Nat \ {0} /\ Since' = Since
      BY <2>0, <2>1, <2>4 DEF Since, Content, Rounds, LogPoints
    <2>6. InPlace = Since - 1 /\ InPlace' = Since
      <3>1. pc[t] \in LogPoints /\ \A u \in Threads : pc'[u] \notin LogPoints
        BY <2>1 DEF LogPoints
      <3> QED
        BY <2>5, <3>1 DEF InPlace
    <2>7. Rounds'
      BY <2>0, <2>1, <2>4 DEF Content, Rounds, LogPoints
    <2>8. Prefix'
      <3> SUFFICES ASSUME Since <= Slots, NEW i \in 0 .. Slots - 1, i < Since
                   PROVE  slots'[i] = cleanedAt + i + 1
        BY <2>4, <2>5, <2>6 DEF Prefix
      <3>1. index[t] = Since - 1
        BY <2>1 DEF Content, Aimed, LogPoints
      <3>2. CASE i = index[t]
        BY <2>0, <2>4, <3>1, <3>2 DEF Since
      <3>3. CASE i # index[t]
        <4>1. i < InPlace
          BY <2>5, <2>6, <3>1, <3>3
        <4> QED
          BY <2>4, <3>3, <4>1 DEF Content, Prefix
      <3> QED
        BY <3>2, <3>3
    <2>9. Counting'
      BY <2>1, <2>4, <2>5 DEF Content, Counting
    <2>10. Aimed'
      BY <2>1 DEF Aimed, LogPoints
    <2>11. Copied'
      BY <2>1 DEF Copied
    <2> QED
      BY <2>7, <2>8, <2>9, <2>10, <2>11 DEF Content
  <1>6. ASSUME NEW t \in Threads, DumpLogs(t, TRUE) PROVE Content'
    BY <1>6 DEF DumpLogs
  <1>7. ASSUME NEW t \in Threads, DumpLogs(t, FALSE) PROVE Content'
    BY <1>7 DEF DumpLogs
  <1>8. ASSUME NEW t \in Threads, ReadCursor(t) PROVE Content'
    <2>0. /\ slots \in [0 .. Slots - 1 -> Nat]
          /\ written \in Nat /\ cleanedAt \in Nat /\ cursor \in Nat
          /\ index \in [Threads -> Nat] /\ count \in [Threads -> Nat]
          /\ Slots \in Nat /\ Slots > 0 /\ Modulus \in Nat /\ Modulus >= Slots
      BY Numbers
    <2>1. /\ pc[t] = "read" /\ pc'[t] \in {"unlock", "copy"}
          /\ \A u \in Threads : u # t => pc[u] = "idle" /\ pc'[u] = "idle"
      BY <1>8 DEF ReadCursor
    <2>2. /\ count'[t] = cursor /\ index'[t] = 0 /\ shown' = <<>> /\ ~outside'
          /\ UNCHANGED <<slots, cursor, written, cleanedAt>>
      BY <1>8 DEF ReadCursor
    <2>3. pc'[t] = "copy" => cursor # 0
      BY <1>8 DEF ReadCursor
    <2> HIDE LogAssumption DEF LogAssumption, Types, TypeOK, SlotInRing, Alone, Content, Rounds,
        Prefix, Counting, Aimed, Copied, InPlace, Since, LogPoints
    <2>4. Since \in Nat /\ Since' = Since
      BY <2>0, <2>2 DEF Since, Content, Rounds
    <2>5. InPlace = Since /\ InPlace' = Since
      <3>1. \A u \in Threads : pc[u] \notin LogPoints /\ pc'[u] \notin LogPoints
        BY <2>1 DEF LogPoints
      <3> QED
        BY <2>4, <3>1 DEF InPlace
    <2>6. Rounds'
      BY <2>1, <2>2 DEF Content, Rounds, LogPoints
    <2>7. Prefix'
      BY <2>2, <2>4, <2>5 DEF Content, Prefix
    <2>8. Counting'
      BY <2>1, <2>2, <2>4 DEF Content, Counting
    <2>9. Aimed'
      BY <2>1 DEF Aimed, LogPoints
    <2>10. Copied'
      <3> SUFFICES ASSUME Since <= Slots, pc'[t] = "copy"
                   PROVE  /\ count'[t] = Since
                          /\ shown' = [i \in 1 .. index'[t] |-> cleanedAt' + i]
        BY <2>1, <2>2, <2>4 DEF Copied
      <3>1. cursor = Since
        BY <2>1, <2>3 DEF Content, Counting
      <3>2. <<>> = [i \in 1 .. 0 |-> cleanedAt + i]
        OBVIOUS
      <3> QED
        BY <2>2, <3>1, <3>2
    <2> QED
      BY <2>6, <2>7, <2>8, <2>9, <2>10 DEF Content
  <1>9. ASSUME NEW t \in Threads, CopyLine(t) PROVE Content'
    <2>0. /\ slots \in [0 .. Slots - 1 -> Nat]
          /\ written \in Nat /\ cleanedAt \in Nat /\ cursor \in Nat
          /\ index \in [Threads -> Nat] /\ count \in [Threads -> Nat]
          /\ Slots \in Nat /\ Slots > 0 /\ Modulus \in Nat /\ Modulus >= Slots
      BY Numbers
    <2>1. /\ pc[t] = "copy" /\ pc'[t] = "copy"
          /\ \A u \in Threads : u # t => pc[u] = "idle" /\ pc'[u] = "idle"
      BY <1>9 DEF CopyLine
    <2>2. /\ index[t] < count[t] /\ index'[t] = index[t] + 1
          /\ UNCHANGED <<slots, cursor, written, cleanedAt, count>>
      BY <1>9 DEF CopyLine
    <2>3. index[t] < Slots =>
            /\ shown' = IF slots[index[t]] # 0 THEN Append(shown, slots[index[t]]) ELSE shown
            /\ outside' = outside
      BY <1>9 DEF CopyLine
    <2> HIDE LogAssumption DEF LogAssumption, Types, TypeOK, SlotInRing, Alone, Content, Rounds,
        Prefix, Counting, Aimed, Copied, InPlace, Since, LogPoints
    <2>4. Since \in Nat /\ Since' = Since
      BY <2>0, <2>2 DEF Since, Content, Rounds
    <2>5. InPlace = Since /\ InPlace' = Since
      <3>1. \A u \in Threads : pc[u] \notin LogPoints /\ pc'[u] \notin LogPoints
        BY <2>1 DEF LogPoints
      <3> QED
        BY <2>4, <3>1 DEF InPlace
    <2>6. Rounds'
      BY <2>1, <2>2 DEF Content, Rounds, LogPoints
    <2>7. Prefix'
      BY <2>2, <2>4, <2>5 DEF Content, Prefix
    <2>8. Counting'
      BY <2>1, <2>2, <2>4 DEF Content, Counting
    <2>9. Aimed'
      BY <2>1 DEF Aimed, LogPoints
    <2>10. Copied'
      <3> SUFFICES ASSUME Since <= Slots
                   PROVE  /\ count'[t] = Since /\ index'[t] <= count'[t] /\ ~outside'
                          /\ shown' = [i \in 1 .. index'[t] |-> cleanedAt' + i]
        BY <2>1, <2>4 DEF Copied
      <3>1. /\ count[t] = Since /\ ~outside
            /\ shown = [i \in 1 .. index[t] |-> cleanedAt + i]
        BY <2>1 DEF Content, Copied
      <3>2. index[t] \in Nat /\ index[t] \in 0 .. Slots - 1 /\ index[t] < InPlace
        BY <2>0, <2>2, <2>4, <2>5, <3>1
      <3>3. slots[index[t]] = cleanedAt + index[t] + 1
        BY <3>2 DEF Content, Prefix
      <3>4. shown' = Append(shown, cleanedAt + index[t] + 1) /\ outside' = outside
        BY <2>0, <2>3, <3>2, <3>3
      <3>5. shown' = [i \in 1 .. index[t] + 1 |-> cleanedAt + i]
        BY <2>0, <3>1, <3>2, <3>4, AppendToRun
      <3> QED
        BY SMTT(30), <2>0, <2>2, <3>1, <3>2, <3>4, <3>5
    <2> QED
      BY <2>6, <2>7, <2>8, <2>9, <2>10 DEF Content
  <1>10. ASSUME NEW t \in Threads, CopyEnd(t) PROVE Content'
    BY <1>10 DEF CopyEnd
  <1>11. ASSUME NEW t \in Threads, InitClean(t) PROVE Content'
    BY <1>11 DEF InitClean
  <1>12. ASSUME NEW t \in Threads, ResetCursor(t) PROVE Content'
    BY SMTT(30), <1>12 DEF ResetCursor
  <1>13. ASSUME NEW t \in Threads, ClearSlots(t) PROVE Content'
    BY <1>13 DEF ClearSlots
  <1>14. ASSUME NEW t \in Threads, Unlock(t) PROVE Content'
    BY <1>14 DEF Unlock
  <1> QED
    BY <1>0, <1>1, <1>2, <1>3, <1>4, <1>5, <1>6, <1>7, <1>8, <1>9,
       <1>10, <1>11, <1>12, <1>13, <1>14
    DEF Next

----------------------------------------------------------------------------

\* The empty ring satisfies the invariant.
LEMMA InvInit == Init => Inv
  <1> SUFFICES ASSUME Init PROVE Inv
    OBVIOUS
  <1>1. Types
    BY TypesInit
  <1>2. \A t \in Threads : pc[t] = "idle"
    BY DEF Init
  <1>3. Alone
    BY <1>2 DEF Alone
  <1>4. Owned
    <2>1. ~misused /\ freed = {} /\ \A i \in 0 .. Slots - 1 : slots[i] = 0 /\ written = 0
      BY DEF Init
    <2> QED
      BY <1>2, <2>1 DEF Owned, LogPoints
  <1>5. Content
    <2>1. written = 0 /\ cleanedAt = 0 /\ cursor = 0 /\ Modulus \in Nat /\ Slots \in Nat
      BY LogAssumption DEF LogAssumption, Init
    <2>2. Since = 0 /\ InPlace = 0
      BY <1>2, <2>1 DEF Since, InPlace, LogPoints
    <2> QED
      BY <1>2, <2>1, <2>2
      DEF Content, Rounds, Prefix, Counting, Aimed, Copied, LogPoints
  <1> QED
    BY <1>1, <1>3, <1>4, <1>5 DEF Inv

\* Its parts together are inductive.
LEMMA Invariant == ASSUME ~Overlap PROVE Spec => []Inv
  <1>1. Inv /\ [Next]_vars => Inv'
    <2> SUFFICES ASSUME Inv, [Next]_vars PROVE Inv'
      OBVIOUS
    <2>1. Types'
      BY TypesStep DEF Inv
    <2>2. Alone'
      BY AloneStep DEF Inv
    <2>3. Owned'
      BY <2>1, <2>2, OwnedStep DEF Inv
    <2>4. Content'
      BY <2>1, <2>2, ContentStep DEF Inv
    <2> QED
      BY <2>1, <2>2, <2>3, <2>4 DEF Inv
  <1> QED
    BY <1>1, InvInit, PTL DEF Spec

\* Through any number of rounds and cleanings that cover any part of the
\* ring, __log_dump never frees a line twice, dumpLogs never copies a freed
\* one, and between calls no slot holds one.
THEOREM LinesStayOwned ==
  ASSUME ~Overlap
  PROVE  Spec => []LinesAreOwned
  <1>1. Inv => LinesAreOwned
    <2> SUFFICES ASSUME Inv PROVE LinesAreOwned
      OBVIOUS
    <2>1. DOMAIN slots = 0 .. Slots - 1
      BY DEF Inv, Types, TypeOK
    <2> QED
      BY <2>1 DEF Inv, Owned, LinesAreOwned, Quiet
  <1> QED
    BY <1>1, Invariant, PTL

\* While no more lines than slots have been written since the last cleaning,
\* dumpLogs shows exactly those, in order, and reads no slot behind the ring.
THEOREM DumpShowsTheRound ==
  ASSUME ~Overlap
  PROVE  Spec => []DumpIsExact
  <1>1. Inv => DumpIsExact
    <2> SUFFICES ASSUME Inv, NEW t \in Threads, pc[t] = "copy", index[t] = count[t],
                        Since <= Slots
                 PROVE  ~outside /\ shown = [i \in 1 .. Since |-> cleanedAt + i]
      BY DEF DumpIsExact, Since
    <2>1. /\ count[t] = Since /\ ~outside
          /\ shown = [i \in 1 .. index[t] |-> cleanedAt + i]
      BY DEF Inv, Content, Copied
    <2> QED
      BY <2>1
  <1> QED
    BY <1>1, Invariant, PTL

=============================================================================
