-------------------------------- MODULE XhMaps --------------------------------
(****************************************************************************)
(* Reconciling xhook with /proc/self/maps (xh_core_refresh_impl).           *)
(*                                                                          *)
(* A refresh reads the mappings of the process line by line, lowest address *)
(* first, and for each file some hook is registered for finds out whether   *)
(* an ELF header is in memory there.  The tree of the last refresh tells    *)
(* whether the file is new or has moved; in both cases its slots are hooked *)
(* (module XhElf).  Other threads map and unmap files all the time: the     *)
(* lines come out of the buffer of fgets, and what they say may have been   *)
(* true several lines ago.                                                  *)
(*                                                                          *)
(* A mapping is [path, kind]: "elf" and "odd" start with an ELF header, but *)
(* "odd" is rejected by xh_elf_init; "data" starts with something else; and *)
(* "other" is a line the refresh passes over by itself (not readable,       *)
(* shared, or not at offset 0).  A hook that reached all slots of the       *)
(* mapping at an address is a member of applied[address].                   *)
(****************************************************************************)
EXTENDS Naturals, Sequences, FiniteSetsExt

CONSTANTS
    MaxAddr,        \* addresses are 1 .. MaxAddr
    Paths,          \* the files that can be mapped
    Setups,         \* the registrations: [hooks, ignores]
    ALL,            \* the symbol of an ignore that stands for all symbols
    MaxChanges,     \* bound on the mappings made and removed
    MaxFaults,      \* bound on the hookings that go wrong
    MaxRefreshes    \* bound on the refreshes

ASSUME MapsAssumption ==
    /\ MaxAddr \in Nat
    /\ \A s \in Setups : DOMAIN s.hooks \subseteq Nat \ {0}

Addrs == 1 .. MaxAddr
NoMapping == [path |-> "none", kind |-> "none"]
Mappings == [path : Paths, kind : {"elf", "odd", "data", "other"}]
Nowhere == 0

VARIABLES
    setup,      \* the queues of hooks and ignores, closed by the first refresh
    world,      \* what is mapped at each address
    applied,    \* the hooks whose slots the mapping at an address shows
    lost,       \* the hooks it was refused the last time, by an error or a fault
    known,      \* xh_core_map_info: the base address of each file, or Nowhere
    refreshed,  \* map_info_refreshed, the tree a refresh builds
    reported,   \* *base_addr of each hook
    lines,      \* the lines in the buffer of fp, by address
    ahead,      \* the address of the last line that got into the buffer
    pc, cursor, \* where the refresh is: its step, and the last line read
    path,       \* the file named by that line
    calm,       \* nothing was mapped or unmapped since the maps were opened
    missed,     \* addresses of libraries a refresh takes for others, see Map
    changes, faults, refreshes

buffer == <<lines, ahead>>
scan == <<pc, cursor, path>>
trees == <<known, refreshed>>
hooked == <<applied, lost>>
counters == <<changes, faults, refreshes>>
vars == <<setup, world, hooked, trees, reported, buffer, scan, calm, missed, counters>>

-----------------------------------------------------------------------------
(* The queues *)

HooksOf(p) == {i \in DOMAIN setup.hooks : p \in setup.hooks[i].paths}

Ignored(p, i) ==
    \E j \in DOMAIN setup.ignores :
        /\ p \in setup.ignores[j].paths
        /\ setup.ignores[j].symbol \in {ALL, setup.hooks[i].symbol}

\* The search for a hook ends at the first whose expression matches: when that
\* one is ignored, the later ones are not looked at
FirstHook(p) == Min(HooksOf(p))
NeedsHook(p) == HooksOf(p) # {} /\ ~Ignored(p, FirstHook(p))

\* What xh_core_hook_impl applies to a library
Applicable(p) == {i \in HooksOf(p) : ~Ignored(p, i)}

-----------------------------------------------------------------------------

EmptyBuffer == [a \in Addrs |-> NoMapping]

Init ==
    /\ setup \in Setups
    /\ world \in [Addrs -> Mappings \cup {NoMapping}]
    /\ applied = [a \in Addrs |-> {}]
    /\ lost = [a \in Addrs |-> {}]
    /\ known = [p \in Paths |-> Nowhere]
    /\ refreshed = [p \in Paths |-> Nowhere]
    /\ reported = [i \in DOMAIN setup.hooks |-> Nowhere]
    /\ lines = EmptyBuffer /\ ahead = 0
    /\ pc = "idle" /\ cursor = 0 /\ path = "none"
    /\ calm = FALSE
    /\ missed = {}
    /\ changes = 0 /\ faults = 0 /\ refreshes = 0

\* If the maps cannot be opened, everything stays as the last refresh left it
Refresh ==
    /\ pc = "idle" /\ refreshes < MaxRefreshes
    /\ refreshes' = refreshes + 1
    /\ \/ pc' = "scan" /\ calm' = TRUE
       \/ UNCHANGED <<pc, calm>>
    /\ UNCHANGED <<setup, world, hooked, trees, reported, buffer, cursor, path, missed,
                   changes, faults>>

Pending == {a \in Addrs : lines[a] # NoMapping}
Rest == {a \in Addrs : a > ahead /\ world[a] # NoMapping}

\* fgets finds its buffer empty: the kernel writes down some of the lines to come
Fill ==
    /\ pc = "scan" /\ Pending = {}
    /\ ahead' \in Rest
    /\ lines' = [a \in Addrs |-> IF ahead < a /\ a <= ahead' THEN world[a] ELSE NoMapping]
    /\ UNCHANGED <<setup, world, hooked, trees, reported, scan, calm, missed, counters>>

\* fgets, and everything decided by the line alone
ReadLine ==
    /\ pc = "scan" /\ Pending # {}
    /\ cursor' = Min(Pending)
    /\ path' = lines[cursor'].path
    /\ lines' = [lines EXCEPT ![cursor'] = NoMapping]
    /\ pc' = IF lines[cursor'].kind # "other" /\ NeedsHook(path') THEN "header" ELSE "scan"
    /\ UNCHANGED <<setup, world, hooked, trees, reported, ahead, calm, missed, counters>>

HasHeader(a) == world[a].kind \in {"elf", "odd"}

IsElf(a) == world[a].kind = "elf"

\* A wrong header, or a caught fault because nothing is mapped there any more
NotElf ==
    /\ pc = "header" /\ ~HasHeader(cursor)
    /\ pc' = "scan"
    /\ UNCHANGED <<setup, world, hooked, trees, reported, buffer, cursor, path, calm,
                   missed, counters>>

\* The address is reported before the tree is asked, for repeated mappings too
HeaderFound ==
    /\ pc = "header" /\ HasHeader(cursor)
    /\ reported' = [reported EXCEPT ![FirstHook(path)] = cursor]
    /\ UNCHANGED <<setup, world, hooked, buffer, cursor, path, calm, missed, counters>>

\* Mutant: the file stays in the old tree.
ExistingInBoth ==
    /\ HeaderFound
    /\ known[path] # Nowhere
    /\ refreshed' = [refreshed EXCEPT ![path] = cursor]
    /\ pc' = IF known[path] # cursor THEN "hook" ELSE "scan"
    /\ UNCHANGED known

\* Mutant: a known file is not hooked again at its new address.
ExistingNeverHooked ==
    /\ HeaderFound
    /\ known[path] # Nowhere
    /\ known' = [known EXCEPT ![path] = Nowhere]
    /\ refreshed' = [refreshed EXCEPT ![path] = cursor]
    /\ pc' = "scan"

Existing ==
    /\ HeaderFound
    /\ known[path] # Nowhere
    /\ known' = [known EXCEPT ![path] = Nowhere]
    /\ refreshed' = [refreshed EXCEPT ![path] = cursor]
    /\ pc' = IF known[path] # cursor THEN "hook" ELSE "scan"

New ==
    /\ HeaderFound
    /\ known[path] = Nowhere /\ refreshed[path] = Nowhere
    /\ refreshed' = [refreshed EXCEPT ![path] = cursor]
    /\ pc' = "hook"
    /\ UNCHANGED known

\* Only the first mapping of a file is kept
Repeated ==
    /\ HeaderFound
    /\ known[path] = Nowhere /\ refreshed[path] # Nowhere
    /\ pc' = "scan"
    /\ UNCHANGED trees

\* The library is parsed anew; whatever is mapped now gets the hooks of the path.
\* Nothing looks at what xh_elf_hook returns
Hook ==
    /\ pc = "hook" /\ IsElf(cursor)
    /\ \E failing \in SUBSET Applicable(path) :
        /\ faults' = IF failing = {} THEN faults ELSE faults + 1
        /\ faults' <= MaxFaults
        /\ applied' = [applied EXCEPT ![cursor] = @ \cup (Applicable(path) \ failing)]
        /\ lost' = [lost EXCEPT ![cursor] = failing]
    /\ pc' = "scan"
    /\ UNCHANGED <<setup, world, trees, reported, buffer, cursor, path, calm, missed,
                   changes, refreshes>>

\* xh_elf_init rejects the library, or faults because it was unmapped; it stays in
\* the tree
HookNothing ==
    /\ pc = "hook" /\ ~IsElf(cursor)
    /\ pc' = "scan"
    /\ UNCHANGED <<setup, world, hooked, trees, reported, buffer, cursor, path, calm,
                   missed, counters>>

\* A caught fault in the middle: the hooks from i on are not applied, and nothing
\* tries them again
Fault ==
    /\ pc = "hook" /\ IsElf(cursor) /\ faults < MaxFaults
    /\ faults' = faults + 1
    /\ \E i \in Applicable(path) :
        LET done == {k \in Applicable(path) : k < i}
        IN  /\ applied' = [applied EXCEPT ![cursor] = @ \cup done]
            /\ lost' = [lost EXCEPT ![cursor] = Applicable(path) \ done]
    /\ pc' = "scan"
    /\ UNCHANGED <<setup, world, trees, reported, buffer, cursor, path, calm, missed,
                   changes, refreshes>>

Sweeping == pc = "scan" /\ Pending = {} /\ Rest = {}

\* Mutant: the files that were not seen again are kept.
SweepNothing ==
    /\ Sweeping
    /\ known' = [p \in Paths |-> IF refreshed[p] # Nowhere THEN refreshed[p] ELSE known[p]]
    /\ refreshed' = [p \in Paths |-> Nowhere]
    /\ pc' = "idle"
    /\ cursor' = 0 /\ path' = "none" /\ ahead' = 0
    /\ UNCHANGED <<setup, world, hooked, reported, lines, calm, missed, counters>>

\* The files that were not seen again are dropped, and the locals are gone
Sweep ==
    /\ Sweeping
    /\ known' = refreshed
    /\ refreshed' = [p \in Paths |-> Nowhere]
    /\ pc' = "idle"
    /\ cursor' = 0 /\ path' = "none" /\ ahead' = 0
    /\ UNCHANGED <<setup, world, hooked, reported, lines, calm, missed, counters>>

-----------------------------------------------------------------------------
(* External: the other threads map and unmap files.  A refresh cannot see   *)
(* that a library is a new one when its file is known at that address, and  *)
(* takes it for another file when the line of that address has been written *)
(* down and is not worked off yet.                                          *)

Unseen(a, p) ==
    \/ a \in {known[p], refreshed[p]}
    \/ lines[a] # NoMapping /\ lines[a].path # p
    \/ pc \in {"header", "hook"} /\ cursor = a /\ path # p

Map(a) ==
    /\ world[a] = NoMapping /\ changes < MaxChanges
    /\ \E m \in Mappings :
        /\ world' = [world EXCEPT ![a] = m]
        /\ missed' = IF Unseen(a, m.path) THEN missed \cup {a} ELSE missed
    /\ changes' = changes + 1
    /\ calm' = FALSE
    /\ UNCHANGED <<setup, hooked, trees, reported, buffer, scan, faults, refreshes>>

Unmap(a) ==
    /\ world[a] # NoMapping /\ changes < MaxChanges
    /\ world' = [world EXCEPT ![a] = NoMapping]
    /\ applied' = [applied EXCEPT ![a] = {}]
    /\ lost' = [lost EXCEPT ![a] = {}]
    /\ missed' = missed \ {a}
    /\ changes' = changes + 1
    /\ calm' = FALSE
    /\ UNCHANGED <<setup, trees, reported, buffer, scan, faults, refreshes>>

Next ==
    \/ Refresh \/ Fill \/ ReadLine \/ NotElf
    \/ Existing \/ New \/ Repeated
    \/ Hook \/ HookNothing \/ Fault
    \/ Sweep
    \/ \E a \in Addrs : Map(a) \/ Unmap(a)

Spec == Init /\ [][Next]_vars

-----------------------------------------------------------------------------
(* Properties *)

\* The state has its shape, and no hook is applied where nothing is mapped.
TypeOK ==
    /\ setup \in Setups
    /\ world \in [Addrs -> Mappings \cup {NoMapping}]
    /\ applied \in [Addrs -> SUBSET DOMAIN setup.hooks]
    /\ \A a \in Addrs : ~IsElf(a) => applied[a] = {}
    /\ lost \in [Addrs -> SUBSET DOMAIN setup.hooks]
    /\ known \in [Paths -> Addrs \cup {Nowhere}]
    /\ refreshed \in [Paths -> Addrs \cup {Nowhere}]
    /\ reported \in [DOMAIN setup.hooks -> Addrs \cup {Nowhere}]
    /\ lines \in [Addrs -> Mappings \cup {NoMapping}]
    /\ ahead \in Addrs \cup {Nowhere}
    /\ pc \in {"idle", "scan", "header", "hook"}
    /\ cursor \in Addrs \cup {Nowhere}
    /\ pc \in {"header", "hook"} => cursor \in Addrs /\ path \in Paths
    /\ calm \in BOOLEAN
    /\ missed \subseteq Addrs

\* Nothing was mapped or unmapped since the last refresh that read the maps began
Done == pc = "idle" /\ calm

ElfsOf(p) == {a \in Addrs : HasHeader(a) /\ world[a].path = p}

\* After a refresh during and since which nothing changed, the tree holds exactly
\* the files that need a hook and have an ELF header in memory, each at its first.
KnownIsCurrent ==
    Done => \A p \in Paths :
        known[p] = IF NeedsHook(p) /\ ElfsOf(p) # {} THEN Min(ElfsOf(p)) ELSE Nowhere

\* After such a refresh every known library that xh_elf_init does not reject shows
\* its hooks and no other, however it came to its address: it goes without those
\* only for which xh_elf_hook reported an error or a fault was caught. A library
\* that the refresh took for another one, because it lies where that one's line
\* or tree entry says, is left out.
HookedWhenKnown ==
    Done => \A p \in Paths :
        known[p] # Nowhere /\ known[p] \notin missed =>
            /\ applied[known[p]] \subseteq Applicable(p)
            /\ IsElf(known[p]) =>
                  Applicable(p) \ lost[known[p]] \subseteq applied[known[p]]

\* "We only keep the first one, that is the real base address" (xh_core.c:401): the
\* address reported for a hook is the base address kept for one of its files. It is
\* not when a file is mapped twice.
ReportedBase ==
    Done => \A i \in DOMAIN setup.hooks :
        (\E p \in Paths : known[p] # Nowhere /\ FirstHook(p) = i) =>
            \E p \in setup.hooks[i].paths : reported[i] = known[p]

\* A file that was known when the refresh began and is not yet read is in the old
\* tree only, one that was read in the new tree only: the sweep drops no entry
\* that the new tree still needs.
OneTree == \A p \in Paths : known[p] = Nowhere \/ refreshed[p] = Nowhere
=============================================================================
