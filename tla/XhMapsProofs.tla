----------------------------- MODULE XhMapsProofs -----------------------------
(****************************************************************************)
(* Proofs about XhMaps, for every number of addresses, every set of files   *)
(* and registrations, and any number of refreshes, faults and changes of    *)
(* the mappings.                                                            *)
(*                                                                          *)
(* The properties speak of what a refresh leaves behind.  While it is under *)
(* way, the buffer holds the lines between the last one read and the last   *)
(* one fetched (Buffered), and the new tree the first of the libraries read *)
(* so far (Scanned); and at any time, calm or not, a library whose file is  *)
(* in one of the trees at its address has its hooks, unless the refresh is  *)
(* about to apply them (Hooked).                                            *)
(****************************************************************************)
EXTENDS XhMaps, WellFoundedInduction, TLAPS

\* The libraries of file p whose lines the refresh has dealt with
Seen(p) == {a \in ElfsOf(p) : a < cursor \/ (a = cursor /\ pc # "header")}

\* What the buffer holds, and where: the lines are true as long as nothing changes
Buffered ==
    /\ cursor <= ahead
    /\ pc = "idle" => cursor = 0 /\ ahead = 0
    /\ \A a \in Addrs : lines[a] # NoMapping => cursor < a /\ a <= ahead
    /\ calm => \A a \in Addrs : cursor < a /\ a <= ahead => lines[a] = world[a]

\* A line, in the buffer or in hand, is that of the mapping at its address, or the
\* mapping is missed
LineIsCurrent ==
    /\ \A a \in Addrs :
         lines[a] # NoMapping /\ HasHeader(a) /\ a \notin missed =>
            world[a].path = lines[a].path
    /\ pc \in {"header", "hook"} =>
         /\ NeedsHook(path)
         /\ HasHeader(cursor) /\ cursor \notin missed => world[cursor].path = path
         /\ calm => world[cursor].path = path

\* A tree has file p at the first of the given addresses, if it is to be hooked
HoldsFirst(tree, p, addrs) ==
    /\ tree[p] # Nowhere => /\ NeedsHook(p)
                            /\ tree[p] \in addrs
                            /\ \A a \in addrs : tree[p] <= a
    /\ NeedsHook(p) /\ addrs # {} => tree[p] # Nowhere

Scanned ==
    /\ calm /\ pc # "idle" => \A p \in Paths : HoldsFirst(refreshed, p, Seen(p))
    /\ pc = "idle" => \A p \in Paths : refreshed[p] = Nowhere
    /\ Done => \A p \in Paths : HoldsFirst(known, p, ElfsOf(p))

\* No library has hooks of another file, and one that is in a tree has all
\* of its own
Hooked ==
    \A p \in Paths : \A a \in ElfsOf(p) \ missed :
        /\ applied[a] \subseteq Applicable(p)
        /\ IsElf(a) /\ a \in {known[p], refreshed[p]} =>
              Applicable(p) \ lost[a] \subseteq applied[a] \/ (pc = "hook" /\ cursor = a)

Inv ==
    /\ TypeOK
    /\ OneTree
    /\ Buffered
    /\ LineIsCurrent
    /\ Scanned
    /\ Hooked

-----------------------------------------------------------------------------
(* The operators of the model *)

USE MapsAssumption DEF Addrs, Nowhere, scan, trees, buffer, hooked, counters

\* FiniteSetsExt!Min of a set of naturals is its least element
LEMMA MinIsLeast ==
    ASSUME NEW S \in SUBSET Nat, S # {}
    PROVE  Min(S) \in S /\ \A y \in S : Min(S) <= y
<1>1. \E x \in S : \A y \in S : ~ (<<y, x>> \in OpToRel(<, Nat))
  BY NatLessThanWellFounded, WFMin
<1>2. \E x \in S : \A y \in S : ~ (y < x)
  BY <1>1, Zenon DEF OpToRel
<1>3. \E x \in S : \A y \in S : x <= y
  BY <1>2
<1> QED
  BY <1>3, Zenon DEF Min

\* What is mapped at an address: nothing, or a mapping of one of the files
LEMMA ElfOfItsPath ==
    ASSUME TypeOK, NEW a \in Addrs
    PROVE  /\ \A p : a \in ElfsOf(p) <=> HasHeader(a) /\ world[a].path = p
           /\ IsElf(a) => HasHeader(a)
           /\ HasHeader(a) => world[a] # NoMapping
           /\ world[a] # NoMapping => world[a].path \in Paths
<1>1. CASE world[a] = NoMapping
  BY <1>1 DEF NoMapping, IsElf, HasHeader, ElfsOf
<1>2. CASE world[a] \in Mappings
  <2>1. world[a].kind # "none" /\ world[a].path \in Paths
    BY <1>2 DEF Mappings
  <2>2. world[a] # NoMapping
    BY <2>1 DEF NoMapping
  <2> QED
    BY <2>1, <2>2 DEF IsElf, HasHeader, ElfsOf
<1> QED
  BY <1>1, <1>2 DEF TypeOK

\* The registrations are fixed, and with them all that is computed from them
LEMMA SetupKept ==
    ASSUME [Next]_vars
    PROVE  /\ setup' = setup
           /\ \A p : /\ NeedsHook(p)' <=> NeedsHook(p)
                     /\ FirstHook(p)' = FirstHook(p)
                     /\ Applicable(p)' = Applicable(p)
<1>1. setup' = setup
  BY DEF Next, vars, Refresh, Fill, ReadLine, NotElf, Existing, New, Repeated, HeaderFound,
       Hook, HookNothing, Fault, Sweep, Map, Unmap
<1> QED
  BY <1>1 DEF NeedsHook, FirstHook, Applicable, HooksOf, Ignored

\* A refresh maps and unmaps nothing
LEMMA ElfsKept ==
    ASSUME world' = world
    PROVE  \A p : ElfsOf(p)' = ElfsOf(p)
BY DEF ElfsOf, HasHeader

\* The next line is the lowest one in the buffer
LEMMA NextLine ==
    ASSUME TypeOK, Pending # {}
    PROVE  /\ Min(Pending) \in Addrs
           /\ lines[Min(Pending)] \in Mappings
           /\ \A a \in Pending : Min(Pending) <= a
<1>1. Pending \in SUBSET Nat
  BY DEF Pending
<1>2. Min(Pending) \in Pending /\ \A a \in Pending : Min(Pending) <= a
  BY <1>1, MinIsLeast
<1>3. \A a \in Pending : a \in Addrs /\ lines[a] \in Mappings
  BY DEF Pending, TypeOK
<1> QED
  BY <1>2, <1>3

-----------------------------------------------------------------------------

LEMMA InvInit == Init => Inv
<1> SUFFICES ASSUME Init PROVE Inv
  OBVIOUS
<1> USE DEF Init
<1>1. TypeOK
  <2>1. applied \in [Addrs -> SUBSET DOMAIN setup.hooks] /\ \A a \in Addrs : applied[a] = {}
    OBVIOUS
  <2>2. lost \in [Addrs -> SUBSET DOMAIN setup.hooks]
    OBVIOUS
  <2>3. lines \in [Addrs -> Mappings \cup {NoMapping}]
    BY DEF EmptyBuffer
  <2> QED
    BY <2>1, <2>2, <2>3 DEF TypeOK
<1>2. OneTree /\ Buffered /\ LineIsCurrent
  BY DEF OneTree, Buffered, LineIsCurrent, EmptyBuffer
<1>3. Scanned
  BY DEF Scanned, Done
<1>4. Hooked
  BY DEF Hooked, ElfsOf
<1> QED
  BY <1>1, <1>2, <1>3, <1>4 DEF Inv

LEMMA TypeStep ==
    ASSUME TypeOK, [Next]_vars
    PROVE  TypeOK'
<1> USE DEF TypeOK, IsElf
<1>1. \A p : Applicable(p) \subseteq DOMAIN setup.hooks
  BY DEF Applicable, HooksOf
<1>2. CASE Refresh
  BY <1>2 DEF Refresh
<1>3. CASE Fill \/ ReadLine
  <2>1. CASE Fill
    <3>1. ahead' \in Addrs
      BY <2>1 DEF Fill, Rest
    <3>2. lines' \in [Addrs -> Mappings \cup {NoMapping}]
      BY <2>1 DEF Fill
    <3> QED
      BY <2>1, <3>1, <3>2 DEF Fill
  <2>2. CASE ReadLine
    <3>1. cursor' \in Addrs /\ path' \in Paths
      BY <2>2, NextLine DEF ReadLine, Mappings
    <3>2. lines' \in [Addrs -> Mappings \cup {NoMapping}]
      BY <2>2 DEF ReadLine
    <3> QED
      BY <2>2, <3>1, <3>2 DEF ReadLine
  <2> QED
    BY <1>3, <2>1, <2>2
<1>4. CASE NotElf
  BY <1>4 DEF NotElf
<1>5. CASE Existing
  BY <1>5 DEF Existing, HeaderFound
<1>6. CASE New
  BY <1>6 DEF New, HeaderFound
<1>7. CASE Repeated
  BY <1>7 DEF Repeated, HeaderFound
<1>8. CASE Hook
  <2>1. PICK failing \in SUBSET Applicable(path) :
            /\ applied' = [applied EXCEPT ![cursor] = @ \cup (Applicable(path) \ failing)]
            /\ lost' = [lost EXCEPT ![cursor] = failing]
    BY <1>8 DEF Hook
  <2>2. /\ applied[cursor] \cup (Applicable(path) \ failing) \in SUBSET DOMAIN setup.hooks
        /\ failing \in SUBSET DOMAIN setup.hooks
    BY <1>1, <1>8 DEF Hook
  <2>3. /\ applied' \in [Addrs -> SUBSET DOMAIN setup.hooks]
        /\ lost' \in [Addrs -> SUBSET DOMAIN setup.hooks]
    BY <2>1, <2>2
  <2> QED
    BY <1>8, <2>1, <2>3 DEF Hook
<1>9. CASE HookNothing
  BY <1>9 DEF HookNothing
<1>10. CASE Fault
  <2>1. PICK i : LET done == {k \in Applicable(path) : k < i}
                 IN  /\ applied' = [applied EXCEPT ![cursor] = @ \cup done]
                     /\ lost' = [lost EXCEPT ![cursor] = Applicable(path) \ done]
    BY <1>10 DEF Fault
  <2> DEFINE done == {k \in Applicable(path) : k < i}
  <2>2. /\ applied[cursor] \cup done \in SUBSET DOMAIN setup.hooks
        /\ Applicable(path) \ done \in SUBSET DOMAIN setup.hooks
    BY <1>1, <1>10 DEF Fault
  <2>3. /\ applied' \in [Addrs -> SUBSET DOMAIN setup.hooks]
        /\ lost' \in [Addrs -> SUBSET DOMAIN setup.hooks]
    BY <2>1, <2>2
  <2> QED
    BY <1>10, <2>1, <2>3 DEF Fault
<1>11. CASE Sweep
  BY <1>11 DEF Sweep, Sweeping
<1>12. ASSUME NEW a \in Addrs, Map(a) PROVE TypeOK'
  <2>1. applied[a] = {}
    BY <1>12, ElfOfItsPath DEF Map
  <2>2. missed' \subseteq Addrs
    BY <1>12 DEF Map
  <2>3. PICK m \in Mappings : world' = [world EXCEPT ![a] = m]
    BY <1>12 DEF Map
  <2> QED
    BY <1>12, <2>1, <2>2, <2>3 DEF Map
<1>13. ASSUME NEW a \in Addrs, Unmap(a) PROVE TypeOK'
  BY <1>13 DEF Unmap
<1>14. CASE UNCHANGED vars
  BY <1>14 DEF vars
<1> QED
  BY <1>2, <1>3, <1>4, <1>5, <1>6, <1>7, <1>8, <1>9, <1>10, <1>11, <1>12, <1>13, <1>14
  DEF Next

\* One step of a refresh moves a file from tree to tree, it never copies it
LEMMA TreeStep ==
    ASSUME TypeOK, OneTree, [Next]_vars
    PROVE  OneTree'
BY DEF TypeOK, OneTree, Next, vars, Refresh, Fill, ReadLine, NotElf, Existing, New,
     Repeated, HeaderFound, Hook, HookNothing, Fault, Sweep, Sweeping, Map, Unmap

\* The buffer is filled from behind the last line, and read from the front
LEMMA BufferStep ==
    ASSUME TypeOK, Buffered, [Next]_vars
    PROVE  Buffered'
<1> USE DEF TypeOK, Buffered
<1>1. CASE Refresh
  BY <1>1 DEF Refresh
<1>2. CASE Fill
  <2>1. /\ ahead' \in Addrs /\ ahead' > ahead
        /\ lines' = [a \in Addrs |-> IF ahead < a /\ a <= ahead' THEN world[a] ELSE NoMapping]
        /\ UNCHANGED <<world, pc, cursor, calm>>
    BY <1>2 DEF Fill, Rest
  <2>2. \A a \in Addrs : lines[a] = NoMapping
    BY <1>2 DEF Fill, Pending
  <2>3. pc' # "idle"
    BY <1>2 DEF Fill
  <2>4. ASSUME calm', NEW a \in Addrs, cursor < a, a <= ahead' PROVE lines'[a] = world[a]
    BY <2>1, <2>2, <2>4
  <2> QED
    BY <2>1, <2>3, <2>4
<1>3. CASE ReadLine
  <2>1. /\ cursor' = Min(Pending) /\ pc' # "idle"
        /\ lines' = [lines EXCEPT ![cursor'] = NoMapping]
        /\ UNCHANGED <<world, ahead, calm>>
    BY <1>3 DEF ReadLine
  <2>2. cursor' \in Addrs /\ lines[cursor'] # NoMapping /\ \A a \in Pending : cursor' <= a
    <3>1. Pending # {} /\ cursor' = Min(Pending)
      BY <1>3 DEF ReadLine
    <3>2. cursor' \in Addrs /\ lines[cursor'] \in Mappings /\ \A a \in Pending : cursor' <= a
      BY <3>1, NextLine
    <3> QED
      BY <3>2 DEF Mappings, NoMapping
  <2>3. \A a \in Addrs : lines'[a] # NoMapping => cursor' < a /\ a <= ahead
    <3> SUFFICES ASSUME NEW a \in Addrs, lines'[a] # NoMapping
                 PROVE  cursor' < a /\ a <= ahead
      OBVIOUS
    <3>1. a # cursor' /\ lines'[a] = lines[a]
      BY <2>1, <2>2
    <3>2. a \in Pending
      BY <3>1 DEF Pending
    <3> QED
      BY <2>2, <3>1, <3>2
  <2> QED
    BY <2>1, <2>2, <2>3
<1>4. CASE Sweep
  <2>1. /\ pc' = "idle" /\ cursor' = 0 /\ ahead' = 0
        /\ UNCHANGED <<lines, world, calm>>
    BY <1>4 DEF Sweep, Sweeping
  <2>2. \A a \in Addrs : lines[a] = NoMapping
    BY <1>4 DEF Sweep, Sweeping, Pending
  <2> QED
    BY <2>1, <2>2
<1>5. ASSUME NEW a \in Addrs, Map(a) \/ Unmap(a) PROVE Buffered'
  BY <1>5 DEF Map, Unmap
<1>6. CASE NotElf \/ Existing \/ New \/ Repeated \/ Hook \/ HookNothing \/ Fault
  BY <1>6 DEF NotElf, Existing, New, Repeated, HeaderFound, Hook, HookNothing, Fault
<1>7. CASE UNCHANGED vars
  BY <1>7 DEF vars
<1> QED
  BY <1>1, <1>2, <1>3, <1>4, <1>5, <1>6, <1>7 DEF Next

LEMMA LineStep ==
    ASSUME TypeOK, TypeOK', Buffered, LineIsCurrent, [Next]_vars
    PROVE  LineIsCurrent'
<1> USE SetupKept DEF LineIsCurrent, HasHeader
<1>1. CASE UNCHANGED <<world, missed, calm, lines, cursor, path>>
           /\ (pc' \in {"header", "hook"} => pc \in {"header", "hook"})
  BY <1>1
<1>2. CASE Refresh
  BY <1>2 DEF Refresh
<1>3. CASE Fill
  <2>1. \A a \in Addrs : lines'[a] # NoMapping => lines'[a] = world[a]
    BY <1>3 DEF Fill
  <2>2. UNCHANGED <<world, missed>> /\ pc' = "scan"
    BY <1>3 DEF Fill
  <2> QED
    BY <2>1, <2>2
<1>4. CASE ReadLine
  <2>1. /\ cursor' = Min(Pending) /\ path' = lines[cursor'].path
        /\ lines' = [lines EXCEPT ![cursor'] = NoMapping]
        /\ pc' \in {"header", "hook"} => NeedsHook(path')
        /\ UNCHANGED <<world, missed, calm>>
    BY <1>4 DEF ReadLine
  <2>2. cursor' \in Addrs /\ lines[cursor'] # NoMapping
    BY <1>4, <2>1, NextLine DEF ReadLine, Mappings, NoMapping
  <2>3. \A a \in Addrs : lines'[a] # NoMapping => lines'[a] = lines[a]
    BY <2>1, <2>2 DEF TypeOK
  <2>4. calm => lines[cursor'] = world[cursor']
    BY <2>2 DEF Buffered
  <2> QED
    BY <2>1, <2>2, <2>3, <2>4
<1>5. CASE Sweep
  BY <1>5 DEF Sweep, Sweeping
<1>6. ASSUME NEW a \in Addrs, Map(a) PROVE LineIsCurrent'
  <2>1. PICK m \in Mappings :
            /\ world' = [world EXCEPT ![a] = m]
            /\ missed' = IF Unseen(a, m.path) THEN missed \cup {a} ELSE missed
    BY <1>6 DEF Map
  <2>2. UNCHANGED <<lines, pc, cursor, path>> /\ ~calm'
    BY <1>6 DEF Map
  <2>3. \A b \in Addrs : b # a => world'[b] = world[b] /\ (b \in missed' <=> b \in missed)
    BY <2>1 DEF TypeOK
  <2>4. world'[a] = m
    BY <2>1 DEF TypeOK
  <2>5. lines[a] # NoMapping /\ a \notin missed' => m.path = lines[a].path
    BY <2>1 DEF Unseen
  <2>6. pc \in {"header", "hook"} /\ cursor = a /\ a \notin missed' => m.path = path
    BY <2>1 DEF Unseen
  <2>7. pc \in {"header", "hook"} => cursor \in Addrs
    BY DEF TypeOK
  <2> QED
    BY <2>2, <2>3, <2>4, <2>5, <2>6, <2>7
<1>7. ASSUME NEW a \in Addrs, Unmap(a) PROVE LineIsCurrent'
  <2>1. world' = [world EXCEPT ![a] = NoMapping] /\ missed' = missed \ {a} /\ ~calm'
    BY <1>7 DEF Unmap
  <2>2. UNCHANGED <<lines, pc, cursor, path>>
    BY <1>7 DEF Unmap
  <2>3. \A b \in Addrs : b # a => world'[b] = world[b] /\ (b \in missed' <=> b \in missed)
    BY <2>1 DEF TypeOK
  <2>4. ~HasHeader(a)'
    BY <2>1 DEF TypeOK, NoMapping
  <2>5. pc \in {"header", "hook"} => cursor \in Addrs
    BY DEF TypeOK
  <2> QED
    BY <2>1, <2>2, <2>3, <2>4, <2>5
<1> QED
  BY <1>1, <1>2, <1>3, <1>4, <1>5, <1>6, <1>7
  DEF Next, vars, NotElf, Existing, New, Repeated, HeaderFound, Hook, HookNothing, Fault

-----------------------------------------------------------------------------
(* What a step of a refresh adds to the libraries dealt with *)

LEMMA SeenKept ==
    ASSUME TypeOK, NotElf \/ Hook \/ HookNothing \/ Fault
    PROVE  \A p : Seen(p)' = Seen(p)
<1>1. world' = world /\ cursor' = cursor /\ pc' = "scan" /\ pc \in {"header", "hook"}
  BY DEF NotElf, Hook, HookNothing, Fault
<1>2. pc = "header" => ~HasHeader(cursor) /\ cursor \in Addrs
  BY DEF NotElf, Hook, HookNothing, Fault, TypeOK
<1>3. \A p : pc = "header" => cursor \notin ElfsOf(p)
  BY <1>2, ElfOfItsPath
<1> QED
  BY <1>1, <1>3, ElfsKept DEF Seen

LEMMA SeenRead ==
    ASSUME TypeOK, Buffered, calm, ReadLine, NEW p, NeedsHook(p)
    PROVE  Seen(p)' = Seen(p)
<1>1. /\ world' = world /\ pc = "scan"
      /\ cursor' = Min(Pending) /\ Pending # {}
      /\ path' = lines[cursor'].path
      /\ pc' = IF lines[cursor'].kind # "other" /\ NeedsHook(path') THEN "header" ELSE "scan"
  BY DEF ReadLine
<1>2. ElfsOf(p)' = ElfsOf(p)
  BY <1>1, ElfsKept
<1>3. cursor' \in Addrs /\ cursor' \in Pending /\ \A a \in Pending : cursor' <= a
  BY <1>1, NextLine DEF Pending, Mappings, NoMapping
<1>4. cursor' > cursor /\ cursor' <= ahead /\ lines[cursor'] = world[cursor']
  BY <1>3 DEF Pending, Buffered
<1>5. cursor \in Nat /\ ahead \in Nat
  BY DEF TypeOK
<1>6. Seen(p) \subseteq Seen(p)'
  BY <1>1, <1>2, <1>3, <1>4, <1>5 DEF Seen, ElfsOf
<1>7. ASSUME NEW a \in Seen(p)' PROVE a \in Seen(p)
  <2>1. a \in ElfsOf(p) /\ a \in Addrs /\ a <= cursor'
    BY <1>2, <1>3, <1>7 DEF Seen, ElfsOf
  <2>2. HasHeader(a) /\ world[a].path = p /\ world[a] # NoMapping
    BY <2>1, ElfOfItsPath
  <2>3. a # cursor'
    <3> SUFFICES ASSUME a = cursor' PROVE FALSE
      OBVIOUS
    <3>1. pc' = "header"
      BY <1>1, <1>4, <2>2 DEF HasHeader
    <3> QED
      BY <1>3, <1>7, <3>1 DEF Seen
  <2>4. ~ (a > cursor)
    <3> SUFFICES ASSUME a > cursor PROVE FALSE
      OBVIOUS
    <3>1. lines[a] = world[a]
      BY <1>3, <1>4, <1>5, <2>1 DEF Buffered
    <3>2. a \in Pending
      BY <2>1, <2>2, <3>1 DEF Pending
    <3> QED
      BY <1>3, <2>1, <2>3, <3>2
  <2> QED
    BY <1>1, <1>5, <2>1, <2>4 DEF Seen
<1> QED
  BY <1>6, <1>7

LEMMA SeenHeader ==
    ASSUME TypeOK, LineIsCurrent, calm, HeaderFound, pc' \in {"scan", "hook"}
    PROVE  \A p : Seen(p)' = IF p = path THEN Seen(p) \cup {cursor} ELSE Seen(p)
<1>1. /\ world' = world /\ cursor' = cursor /\ pc = "header"
      /\ cursor \in Addrs /\ HasHeader(cursor) /\ world[cursor].path = path
  BY DEF HeaderFound, TypeOK, LineIsCurrent
<1>2. \A p : cursor \in ElfsOf(p) <=> p = path
  BY <1>1, ElfOfItsPath
<1>3. \A p : ElfsOf(p)' = ElfsOf(p)
  BY <1>1, ElfsKept
<1> QED
  BY <1>1, <1>2, <1>3 DEF Seen

LEMMA SeenAll ==
    ASSUME TypeOK, Buffered, calm, Sweep
    PROVE  \A p : Seen(p) = ElfsOf(p)
<1> SUFFICES ASSUME NEW p, NEW a \in ElfsOf(p) PROVE a \in Seen(p)
  BY DEF Seen
<1>1. a \in Addrs /\ world[a] # NoMapping
  BY ElfOfItsPath DEF ElfsOf
<1>2. pc = "scan" /\ ~ (a > ahead) /\ lines[a] = NoMapping
  BY <1>1 DEF Sweep, Sweeping, Rest, Pending
<1>3. ~ (cursor < a)
  BY <1>1, <1>2 DEF Buffered, TypeOK
<1> QED
  BY <1>1, <1>2, <1>3 DEF Seen, TypeOK

LEMMA ScannedStep ==
    ASSUME TypeOK, OneTree, Buffered, LineIsCurrent, Scanned, [Next]_vars
    PROVE  Scanned'
<1> USE SetupKept DEF Scanned, HoldsFirst, Done
<1>1. CASE Refresh
  <2>1. CASE UNCHANGED <<pc, calm>>
    BY <1>1, <2>1, ElfsKept DEF Refresh
  <2>2. CASE pc' = "scan" /\ calm'
    <3>1. UNCHANGED <<world, cursor, refreshed>> /\ cursor = 0
      BY <1>1 DEF Refresh, Buffered
    <3>2. \A p : Seen(p)' = {}
      <4>1. \A p : \A a \in ElfsOf(p)' : a \in Nat /\ a > 0
        BY DEF ElfsOf
      <4> QED
        BY <3>1, <2>2, <4>1 DEF Seen
    <3>3. \A p \in Paths : refreshed[p] = Nowhere
      BY <1>1 DEF Refresh
    <3> QED
      BY <2>2, <3>1, <3>2, <3>3
  <2> QED
    BY <1>1, <2>1, <2>2 DEF Refresh
<1>2. CASE Fill \/ ReadLine
  <2>1. pc = "scan" /\ pc' # "idle" /\ UNCHANGED <<refreshed, calm>>
    BY <1>2 DEF Fill, ReadLine
  <2>2. Fill => \A p : Seen(p)' = Seen(p)
    BY ElfsKept DEF Fill, Seen
  <2>3. calm => \A p : NeedsHook(p) => Seen(p)' = Seen(p)
    BY <1>2, <2>2, SeenRead
  <2> QED
    BY <2>1, <2>3
<1>3. CASE NotElf \/ Hook \/ HookNothing \/ Fault
  <2>1. pc # "idle" /\ pc' = "scan" /\ UNCHANGED <<refreshed, calm>>
    BY <1>3 DEF NotElf, Hook, HookNothing, Fault
  <2>2. \A p : Seen(p)' = Seen(p)
    BY <1>3, SeenKept
  <2> QED
    BY <2>1, <2>2
<1>4. CASE Existing \/ New \/ Repeated
  <2>1. /\ HeaderFound /\ pc = "header" /\ pc' \in {"scan", "hook"} /\ UNCHANGED calm
        /\ path \in Paths /\ NeedsHook(path) /\ cursor \in Addrs
    BY <1>4 DEF Existing, New, Repeated, HeaderFound, TypeOK, LineIsCurrent
  <2> SUFFICES ASSUME calm', NEW p \in Paths PROVE HoldsFirst(refreshed, p, Seen(p))'
    BY <2>1
  <2>2. HoldsFirst(refreshed, p, Seen(p))
    BY <2>1
  <2>3. Seen(p)' = IF p = path THEN Seen(p) \cup {cursor} ELSE Seen(p)
    BY <2>1, SeenHeader
  <2>4. CASE p # path
    <3>1. refreshed'[p] = refreshed[p]
      BY <1>4, <2>1, <2>4 DEF Existing, New, Repeated, TypeOK
    <3> QED
      BY <2>2, <2>3, <2>4, <3>1
  <2>5. CASE p = path /\ refreshed[path] = Nowhere
    <3>1. refreshed'[path] = cursor
      BY <1>4, <2>5 DEF Existing, New, Repeated, TypeOK
    <3>2. Seen(path) = {}
      BY <2>1, <2>2, <2>5
    <3> QED
      BY <2>1, <2>3, <2>5, <3>1, <3>2
  <2>6. CASE p = path /\ refreshed[path] # Nowhere
    <3>1. Repeated
      BY <1>4, <2>1, <2>6 DEF Existing, New, OneTree
    <3>2. refreshed' = refreshed
      BY <3>1 DEF Repeated
    <3>3. refreshed[path] \in Seen(path) /\ refreshed[path] <= cursor
      BY <2>1, <2>2, <2>6 DEF Seen, ElfsOf
    <3> QED
      BY <2>1, <2>2, <2>3, <2>6, <3>2, <3>3
  <2> QED
    BY <2>4, <2>5, <2>6
<1>5. CASE Sweep
  <2>1. /\ pc # "idle" /\ pc' = "idle"
        /\ known' = refreshed /\ refreshed' = [p \in Paths |-> Nowhere]
        /\ UNCHANGED <<world, calm>>
    BY <1>5 DEF Sweep, Sweeping
  <2>2. calm => \A p : ElfsOf(p)' = Seen(p)
    BY <1>5, <2>1, SeenAll, ElfsKept
  <2> QED
    BY <2>1, <2>2
<1>6. CASE \E a \in Addrs : Map(a) \/ Unmap(a)
  BY <1>6 DEF Map, Unmap
<1>7. CASE UNCHANGED vars
  BY <1>7, ElfsKept DEF vars, Seen
<1> QED
  BY <1>1, <1>2, <1>3, <1>4, <1>5, <1>6, <1>7 DEF Next

LEMMA HookedStep ==
    ASSUME TypeOK, TypeOK', LineIsCurrent, Hooked, [Next]_vars
    PROVE  Hooked'
<1> SUFFICES ASSUME NEW p \in Paths, NEW a \in ElfsOf(p)', a \notin missed'
             PROVE  /\ applied'[a] \subseteq Applicable(p)
                    /\ IsElf(a)' /\ a \in {known'[p], refreshed'[p]} =>
                          \/ Applicable(p) \ lost'[a] \subseteq applied'[a]
                          \/ pc' = "hook" /\ cursor' = a
  BY SetupKept DEF Hooked
<1> DEFINE Good == /\ applied[a] \subseteq Applicable(p)
                   /\ IsElf(a) /\ a \in {known[p], refreshed[p]} =>
                         \/ Applicable(p) \ lost[a] \subseteq applied[a]
                         \/ pc = "hook" /\ cursor = a
           GoodNow == /\ applied'[a] \subseteq Applicable(p)
                      /\ IsElf(a)' /\ a \in {known'[p], refreshed'[p]} =>
                            \/ Applicable(p) \ lost'[a] \subseteq applied'[a]
                            \/ pc' = "hook" /\ cursor' = a
<1>1. a \in Addrs /\ a # Nowhere
  BY DEF ElfsOf
<1>2. ASSUME a \in ElfsOf(p), a \notin missed PROVE Good
  BY <1>2 DEF Hooked
<1>3. ASSUME a \in ElfsOf(p), a \notin missed, cursor = a, pc \in {"header", "hook"}
      PROVE  p = path
  BY <1>1, <1>3, ElfOfItsPath DEF LineIsCurrent
<1>4. world' = world => a \in ElfsOf(p) /\ (IsElf(a)' <=> IsElf(a))
  BY ElfsKept DEF IsElf
<1> SUFFICES GoodNow
  OBVIOUS
<1> USE DEF TypeOK
<1>5. CASE Refresh
  BY <1>1, <1>2, <1>4, <1>5 DEF Refresh
<1>6. CASE Fill
  BY <1>2, <1>4, <1>6 DEF Fill
<1>7. CASE ReadLine
  BY <1>2, <1>4, <1>7 DEF ReadLine
<1>8. CASE NotElf
  BY <1>2, <1>4, <1>8 DEF NotElf
<1>9. CASE Existing
  BY <1>1, <1>2, <1>3, <1>4, <1>9 DEF Existing, HeaderFound
<1>10. CASE New
  BY <1>1, <1>2, <1>3, <1>4, <1>10 DEF New, HeaderFound
<1>11. CASE Repeated
  BY <1>2, <1>4, <1>11 DEF Repeated, HeaderFound
<1>12. CASE Hook
  <2>1. PICK failing \in SUBSET Applicable(path) :
            /\ applied' = [applied EXCEPT ![cursor] = @ \cup (Applicable(path) \ failing)]
            /\ lost' = [lost EXCEPT ![cursor] = failing]
    BY <1>12 DEF Hook
  <2>2. /\ pc = "hook" /\ cursor \in Addrs /\ a \notin missed /\ a \in ElfsOf(p)
        /\ UNCHANGED <<known, refreshed>>
    BY <1>4, <1>12 DEF Hook
  <2>3. CASE a = cursor
    <3>1. p = path
      BY <1>3, <2>2, <2>3
    <3>2. /\ applied'[a] = applied[a] \cup (Applicable(path) \ failing)
          /\ lost'[a] = failing
      BY <2>1, <2>2, <2>3
    <3> QED
      BY <1>2, <2>2, <3>1, <3>2
  <2>4. CASE a # cursor
    <3>1. applied'[a] = applied[a] /\ lost'[a] = lost[a]
      BY <1>1, <2>1, <2>4
    <3> QED
      BY <1>2, <1>4, <1>12, <2>2, <2>4, <3>1 DEF Hook
  <2> QED
    BY <2>3, <2>4
<1>13. CASE HookNothing
  <2>1. /\ pc = "hook" /\ ~IsElf(cursor) /\ a \notin missed
        /\ UNCHANGED <<world, applied, lost, known, refreshed>>
    BY <1>13 DEF HookNothing
  <2>2. Good /\ (IsElf(a)' <=> IsElf(a)) /\ (cursor = a => ~IsElf(a))
    BY <1>2, <1>4, <2>1
  <2> QED
    BY <2>1, <2>2
<1>14. CASE Fault
  <2>1. PICK i \in Applicable(path) :
            LET done == {k \in Applicable(path) : k < i}
            IN  /\ applied' = [applied EXCEPT ![cursor] = @ \cup done]
                /\ lost' = [lost EXCEPT ![cursor] = Applicable(path) \ done]
    BY <1>14, Zenon DEF Fault
  <2> DEFINE done == {k \in Applicable(path) : k < i}
  <2>2. /\ pc = "hook" /\ cursor \in Addrs /\ a \notin missed /\ a \in ElfsOf(p)
        /\ UNCHANGED <<known, refreshed>>
    BY <1>4, <1>14 DEF Fault
  <2>3. done \subseteq Applicable(path)
    OBVIOUS
  <2>4. /\ applied' = [applied EXCEPT ![cursor] = @ \cup done]
        /\ lost' = [lost EXCEPT ![cursor] = Applicable(path) \ done]
    BY <2>1
  <2> HIDE DEF done
  <2>5. CASE a = cursor
    <3>1. p = path
      BY <1>3, <2>2, <2>5
    <3>2. applied'[a] = applied[a] \cup done /\ lost'[a] = Applicable(path) \ done
      BY <2>2, <2>4, <2>5
    <3> QED
      BY <1>2, <2>2, <2>3, <3>1, <3>2
  <2>6. CASE a # cursor
    <3>1. applied'[a] = applied[a] /\ lost'[a] = lost[a]
      BY <1>1, <2>4, <2>6
    <3> QED
      BY <1>2, <1>4, <1>14, <2>2, <2>6, <3>1 DEF Fault
  <2> QED
    BY <2>5, <2>6
<1>15. CASE Sweep
  BY <1>1, <1>2, <1>4, <1>15 DEF Sweep, Sweeping
<1>16. ASSUME NEW b \in Addrs, Map(b) PROVE GoodNow
  <2>1. PICK m \in Mappings :
            /\ world' = [world EXCEPT ![b] = m]
            /\ missed' = IF Unseen(b, m.path) THEN missed \cup {b} ELSE missed
    BY <1>16 DEF Map
  <2>2. UNCHANGED <<applied, lost, known, refreshed, pc, cursor>> /\ a \notin missed
    BY <1>16, <2>1 DEF Map
  <2>3. HasHeader(a)' /\ world'[a].path = p
    BY DEF ElfsOf
  <2>4. CASE a = b
    <3>1. m.path = p
      BY <1>1, <2>1, <2>3, <2>4
    <3>2. applied[a] = {}
      BY <1>1, <1>16, <2>4, ElfOfItsPath DEF Map
    <3>3. a \notin {known[p], refreshed[p]}
      BY <2>1, <2>4, <3>1 DEF Unseen
    <3> QED
      BY <2>2, <3>2, <3>3
  <2>5. CASE a # b
    <3>1. world'[a] = world[a]
      BY <1>1, <2>1, <2>5
    <3>2. a \in ElfsOf(p) /\ (IsElf(a)' <=> IsElf(a))
      BY <1>1, <2>3, <3>1 DEF ElfsOf, HasHeader, IsElf
    <3> QED
      BY <1>2, <2>2, <3>2
  <2> QED
    BY <2>4, <2>5
<1>17. ASSUME NEW b \in Addrs, Unmap(b) PROVE GoodNow
  <2>1. /\ world' = [world EXCEPT ![b] = NoMapping]
        /\ applied' = [applied EXCEPT ![b] = {}]
        /\ lost' = [lost EXCEPT ![b] = {}]
        /\ missed' = missed \ {b}
        /\ UNCHANGED <<known, refreshed, pc, cursor>>
    BY <1>17 DEF Unmap
  <2>2. HasHeader(a)' /\ world'[a].path = p
    BY DEF ElfsOf
  <2>3. a # b
    BY <1>1, <2>1, <2>2 DEF NoMapping, HasHeader
  <2>4. world'[a] = world[a] /\ applied'[a] = applied[a] /\ lost'[a] = lost[a]
    BY <1>1, <2>1, <2>3
  <2>5. a \in ElfsOf(p) /\ (IsElf(a)' <=> IsElf(a))
    BY <1>1, <2>2, <2>4 DEF ElfsOf, HasHeader, IsElf
  <2> QED
    BY <1>2, <2>1, <2>3, <2>4, <2>5
<1>18. CASE UNCHANGED vars
  BY <1>2, <1>4, <1>18 DEF vars
<1> QED
  BY <1>5, <1>6, <1>7, <1>8, <1>9, <1>10, <1>11, <1>12, <1>13, <1>14, <1>15, <1>16, <1>17,
     <1>18 DEF Next

-----------------------------------------------------------------------------

\* The one induction behind the theorems
LEMMA Invariant == Spec => []Inv
<1>1. Inv /\ [Next]_vars => Inv'
  BY TypeStep, TreeStep, BufferStep, LineStep, ScannedStep, HookedStep DEF Inv
<1> QED
  BY InvInit, <1>1, PTL DEF Spec

\* Type correctness: a hook is applied only where a library is mapped, and the
\* refresh only works on lines of files that can be hooked.
THEOREM TypeCorrect == Spec => []TypeOK
<1>1. Inv => TypeOK
  BY DEF Inv
<1> QED
  BY Invariant, <1>1, PTL

\* However often a file is mapped, it is in one tree at a time: the sweep at the
\* end of a refresh drops no entry the new tree needs.
THEOREM NoFileInBothTrees == Spec => []OneTree
<1>1. Inv => OneTree
  BY DEF Inv
<1> QED
  BY Invariant, <1>1, PTL

\* After a refresh in quiet the tree is exactly the world: every file that needs
\* a hook and has a library in memory, at the lowest address, and no other.
THEOREM TreeIsTheWorld == Spec => []KnownIsCurrent
<1>1. Inv => KnownIsCurrent
  <2> SUFFICES ASSUME Inv, Done, NEW p \in Paths
               PROVE  known[p] = IF NeedsHook(p) /\ ElfsOf(p) # {} THEN Min(ElfsOf(p))
                                                                  ELSE Nowhere
    BY DEF KnownIsCurrent
  <2>1. HoldsFirst(known, p, ElfsOf(p))
    BY DEF Inv, Scanned
  <2>2. ElfsOf(p) \subseteq Nat
    BY DEF ElfsOf
  <2>3. CASE NeedsHook(p) /\ ElfsOf(p) # {}
    <3>1. Min(ElfsOf(p)) \in ElfsOf(p) /\ \A a \in ElfsOf(p) : Min(ElfsOf(p)) <= a
      BY <2>2, <2>3, MinIsLeast
    <3> QED
      BY <2>1, <2>2, <2>3, <3>1 DEF HoldsFirst
  <2>4. CASE ~ (NeedsHook(p) /\ ElfsOf(p) # {})
    BY <2>1, <2>4 DEF HoldsFirst
  <2> QED
    BY <2>3, <2>4
<1> QED
  BY Invariant, <1>1, PTL

\* A known library that xh_elf_init accepts has the hooks of its file and no other,
\* however often the file was mapped, moved and forgotten before; it goes without
\* those only that xh_elf_hook or a fault refused it, and it is left out when it
\* was mapped where the refresh took it for another.
THEOREM KnownIsHooked == Spec => []HookedWhenKnown
<1>1. Inv => HookedWhenKnown
  <2> SUFFICES ASSUME Inv, Done, NEW p \in Paths, known[p] # Nowhere, known[p] \notin missed
               PROVE  /\ applied[known[p]] \subseteq Applicable(p)
                      /\ IsElf(known[p]) =>
                            Applicable(p) \ lost[known[p]] \subseteq applied[known[p]]
    BY DEF HookedWhenKnown
  <2>1. known[p] \in ElfsOf(p)
    BY DEF Inv, Scanned, HoldsFirst
  <2> QED
    BY <2>1 DEF Inv, Hooked, Done
<1> QED
  BY Invariant, <1>1, PTL
=============================================================================
