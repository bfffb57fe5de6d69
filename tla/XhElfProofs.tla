----------------------------- MODULE XhElfProofs -----------------------------
(****************************************************************************)
(* What XhElf promises for every set of libraries, with proofs.             *)
(*                                                                          *)
(* A library is hooked through its tables, and XhTablesProofs shows that    *)
(* they are read as they were written (TablesAreRead) once the bytes of its *)
(* names and of its packed section are (BytesAreRead); that much is a       *)
(* hypothesis here.  What is proved is what hooking makes of it.            *)
(****************************************************************************)
EXTENDS XhTablesProofs

\* The slots of the k-th registration
Own(img, k) == Meant(img, Parse(img), img.hooks[k].symbol)

Writing == {"unprotect", "save", "store", "restore"}
Visiting == {"slot"} \cup Writing
Points == {"check", "start", "hook", "done", "rejected", "faulted"} \cup Visiting

Types ==
    /\ image \in Images
    /\ h \in DOMAIN image.hooks /\ pass \in 1 .. image.passes
    /\ pc \in Points
    /\ todo \in Seq(Nat)
    /\ saved \in SUBSET Rights
    /\ old \in [DOMAIN image.hooks -> Values \cup {Unset}]
    /\ mem \in [DOMAIN image.slots -> Values]
    /\ rights \in [DOMAIN image.pages -> SUBSET Rights]
    /\ sealed \in BOOLEAN /\ loaded \in BOOLEAN
    /\ failed \subseteq DOMAIN image.hooks

\* What the thread still has before it belongs to the hook it is at.
Course ==
    /\ pc \in {"start", "hook"} \cup Visiting => CheckElfHeader(image.ehdr)
    /\ pc \in {"hook", "done"} \cup Visiting => elf = Parse(image) /\ elf.ok
    /\ pc \in {"check", "start", "rejected", "done"} => todo = <<>>
    /\ todo # <<>> => elf = Parse(image) /\ SlotsAt(elf, todo) \subseteq Own(image, h)
    /\ pc \in Writing => todo # <<>> /\ Hook.replaces
    /\ pc \in {"unprotect", "save", "store"} => mem[Slot] # NewOf(h)

Inv == Types /\ Course

-----------------------------------------------------------------------------
(* The data: functions, slots, pages *)

\* Original functions, new functions and the empty cell never meet.
LEMMA Distinct ==
    ASSUME NEW img \in Images, NEW a \in DOMAIN img.slots, NEW j, NEW k
    PROVE  /\ img.slots[a] # NewOf(k) /\ img.slots[a] # Unset
           /\ NewOf(k) # Unset
           /\ NewOf(j) = NewOf(k) => j = k
<1>1. img.slots[a][1] = "own"
  BY ImagesAssumption
<1>2. NewOf(k)[1] = "new" /\ NewOf(k)[2] = k /\ NewOf(j)[2] = j /\ Unset[1] = "unset"
  BY DEF NewOf, Unset
<1> QED
  BY <1>1, <1>2

LEMMA OwnSlots ==
    ASSUME NEW img \in Images, NEW k \in DOMAIN img.hooks
    PROVE  /\ Own(img, k) \subseteq DOMAIN img.slots
           /\ \A a, b \in Own(img, k) : img.slots[a] = img.slots[b]
<1>1. Own(img, k) \subseteq DOMAIN img.slots
  BY DEF Own, Meant
<1>2. \A a, b \in Own(img, k) : img.slots[a] = img.slots[b]
  BY LinkerAssumption DEF Own
<1> QED
  BY <1>1, <1>2

LEMMA TailSlots ==
    ASSUME NEW e, NEW s \in Seq(Nat), s # <<>>
    PROVE  /\ Tail(s) \in Seq(Nat)
           /\ (e.bias + Head(s)) % Word \in SlotsAt(e, s)
           /\ SlotsAt(e, s) = {(e.bias + Head(s)) % Word} \cup SlotsAt(e, Tail(s))
<1> DEFINE At(o) == (e.bias + o) % Word
<1> HIDE DEF At
<1>1. /\ Tail(s) \in Seq(Nat) /\ Head(s) = s[1] /\ Len(s) \in Nat /\ Len(s) >= 1
      /\ DOMAIN s = 1 .. Len(s)
      /\ DOMAIN Tail(s) = 1 .. Len(s) - 1
      /\ \A k \in 1 .. Len(s) - 1 : Tail(s)[k] = s[k + 1]
  OBVIOUS
<1>2. SlotsAt(e, s) = {At(s[k]) : k \in 1 .. Len(s)}
  BY <1>1 DEF SlotsAt, At
<1>3. SlotsAt(e, Tail(s)) = {At(s[k + 1]) : k \in 1 .. Len(s) - 1}
  BY <1>1 DEF SlotsAt, At
<1>4. \A k \in 1 .. Len(s) : k = 1 \/ (k - 1 \in 1 .. Len(s) - 1 /\ (k - 1) + 1 = k)
  BY <1>1
<1>5. \A k \in 1 .. Len(s) - 1 : k + 1 \in 1 .. Len(s)
  BY <1>1
<1>6. {At(s[k]) : k \in 1 .. Len(s)} = {At(s[1])} \cup {At(s[k + 1]) : k \in 1 .. Len(s) - 1}
  BY <1>1, <1>4, <1>5
<1>7. At(Head(s)) \in SlotsAt(e, s) /\ SlotsAt(e, s) = {At(Head(s))} \cup SlotsAt(e, Tail(s))
  BY <1>1, <1>2, <1>3, <1>6
<1> QED
  BY <1>1, <1>7 DEF At

LEMMA ValuesAreSet ==
    ASSUME Types
    PROVE  Unset \notin Values
<1>1. \A a \in DOMAIN image.slots : image.slots[a] # Unset
  BY Distinct DEF Types
<1>2. \A k \in DOMAIN image.hooks : NewOf(k) # Unset
  BY DEF NewOf, Unset
<1> QED
  BY <1>1, <1>2 DEF Values

\* The slot at hand is one of the hook at hand.
LEMMA SlotIsOwn ==
    ASSUME Inv, todo # <<>>
    PROVE  /\ Slot \in Own(image, h) /\ Slot \in DOMAIN image.slots
           /\ Tail(todo) \in Seq(Nat)
           /\ SlotsAt(elf, todo) = {Slot} \cup SlotsAt(elf, Tail(todo))
<1>1. /\ Tail(todo) \in Seq(Nat)
      /\ Slot \in SlotsAt(elf, todo)
      /\ SlotsAt(elf, todo) = {Slot} \cup SlotsAt(elf, Tail(todo))
  BY TailSlots DEF Inv, Types, Slot
<1>2. SlotsAt(elf, todo) \subseteq Own(image, h)
  BY DEF Inv, Course
<1> QED
  BY <1>1, <1>2, OwnSlots DEF Inv, Types

\* The hooks of a library are numbered from one.
LEMMA Counts ==
    ASSUME Types
    PROVE  /\ Len(image.hooks) \in Nat \ {0} /\ DOMAIN image.hooks = 1 .. Len(image.hooks)
           /\ h \in 1 .. Len(image.hooks)
           /\ image.passes \in Nat \ {0}
           /\ image.refuses \in BOOLEAN
           /\ DOMAIN image.slots \subseteq Nat
           /\ \A k \in DOMAIN image.hooks : image.hooks[k].replaces \in BOOLEAN
  BY ImagesAssumption DEF Types

\* The end of a call leads to the next hook, the next pass or the end.
LEMMA NextHookLeads ==
    ASSUME Types, NextHook
    PROVE  /\ todo' = <<>> /\ image' = image /\ sealed' = sealed /\ loaded' = loaded
           /\ h' \in DOMAIN image.hooks /\ pass' \in 1 .. image.passes
           /\ \/ h < Len(image.hooks) /\ h' = h + 1 /\ pass' = pass /\ pc' = "hook"
              \/ /\ h = Len(image.hooks) /\ h' = 1
                 /\ pass < image.passes /\ pass' = pass + 1 /\ pc' = "check"
              \/ /\ h = Len(image.hooks) /\ h' = 1
                 /\ pass = image.passes /\ pass' = pass /\ pc' = "done"
<1>1. pass \in 1 .. image.passes
  BY DEF Types
<1> QED
  BY Counts, <1>1 DEF NextHook

-----------------------------------------------------------------------------
(* Type correctness *)

LEMMA InvInit == Init => Inv
<1> SUFFICES ASSUME Init PROVE Inv
  OBVIOUS
<1>1. image \in Images /\ h = 1 /\ pass = 1 /\ pc = "check" /\ todo = <<>> /\ saved = {}
      /\ sealed = FALSE /\ loaded = TRUE /\ failed = {}
  BY DEF Init
<1>2. h \in DOMAIN image.hooks /\ pass \in 1 .. image.passes
  BY <1>1, ImagesAssumption
<1>3. old \in [DOMAIN image.hooks -> Values \cup {Unset}]
  BY DEF Init
<1>4. mem \in [DOMAIN image.slots -> Values]
  BY DEF Init, Values
<1>5. rights \in [DOMAIN image.pages -> SUBSET Rights]
  <2>1. rights = [p \in DOMAIN image.pages |-> image.pages[p].rights]
    BY DEF Init
  <2>2. \A p \in DOMAIN image.pages : image.pages[p].rights \subseteq Rights
    BY <1>1, ImagesAssumption DEF Rights
  <2> QED
    BY <2>1, <2>2
<1>6. Types
  <2>1. sealed \in BOOLEAN /\ loaded \in BOOLEAN
    BY <1>1
  <2>2. todo \in Seq(Nat) /\ saved \in SUBSET Rights /\ failed \subseteq DOMAIN image.hooks
    BY <1>1
  <2>3. image \in Images /\ pc \in Points
    BY <1>1 DEF Points
  <2> QED
    BY <2>1, <2>2, <2>3, <1>2, <1>3, <1>4, <1>5 DEF Types
<1>7. Course
  BY <1>1 DEF Course, Visiting, Writing
<1> QED
  BY <1>6, <1>7 DEF Inv

\* The next slot is one of the same hook.
LEMMA NextSlotLeads ==
    ASSUME Inv, todo # <<>>, NextSlot, UNCHANGED elf
    PROVE  /\ pc' = "slot" /\ todo' \in Seq(Nat) /\ todo' = Tail(todo)
           /\ UNCHANGED <<image, pass, h, sealed, loaded>>
           /\ SlotsAt(elf', todo') \subseteq Own(image', h')
<1>1. pc' = "slot" /\ todo' = Tail(todo) /\ UNCHANGED <<image, pass, h, sealed, loaded>>
  BY DEF NextSlot, Goto
<1>2. SlotsAt(elf, todo) \subseteq Own(image, h)
  BY DEF Inv, Course
<1> QED
  BY <1>1, <1>2, SlotIsOwn

LEMMA TypesStep ==
    ASSUME Inv, [Next]_vars, TablesAreRead
    PROVE  Types'
<1> USE DEF Types, Points, Visiting, Writing, Goto
<1>0. Types /\ Course
  BY DEF Inv
<1>1. image' = image
  BY DEF Next, vars, CheckHeader, ElfInit, ElfHook, Return, OutOfImage, GiveUp, NextHook,
       NextSlot, FindOnly, AlreadyReplaced, Replace, GetProtect, Unprotect,
       UnprotectFails, SaveOld, Store, Restore, RestoreFails, Fault, Seal, Unload
<1>2. /\ h' \in DOMAIN image.hooks /\ pass' \in 1 .. image.passes
      /\ pc' \in Points
  <2>1. CASE NextHook
    BY <1>0, <2>1, NextHookLeads
  <2>2. CASE UNCHANGED <<h, pass>> /\ pc' \in Points
    BY <1>0, <2>2
  <2> HIDE DEF Types
  <2> QED
    BY <1>0, <2>1, <2>2
    DEF Next, vars, CheckHeader, ElfInit, ElfHook, Return, OutOfImage, GiveUp,
       NextSlot, FindOnly, AlreadyReplaced, Replace, GetProtect, Unprotect,
       UnprotectFails, SaveOld, Store, Restore, RestoreFails, Fault, Seal, Unload, Types
<1>3. todo' \in Seq(Nat)
  <2>1. CASE NextHook
    <3>1. todo' = <<>>
      BY <1>0, <2>1, NextHookLeads
    <3> QED
      BY <3>1
  <2>2. CASE todo # <<>> /\ NextSlot /\ UNCHANGED elf
    BY <2>2, NextSlotLeads
  <2>3. CASE ElfHook
    <3>1. Decoded(image, elf)
      BY <1>0, <2>3 DEF ElfHook, Course, TablesAreRead
    <3> QED
      BY <1>0, <2>3, <3>1 DEF ElfHook, Decoded, Hook
  <2>4. CASE UNCHANGED todo
    BY <1>0, <2>4
  <2> HIDE DEF Types
  <2> QED
    BY <1>0, <2>1, <2>2, <2>3, <2>4
    DEF Next, vars, CheckHeader, ElfInit, Return, OutOfImage, GiveUp, VisitsSlot,
       FindOnly, AlreadyReplaced, Replace, GetProtect, Unprotect,
       UnprotectFails, SaveOld, Store, Restore, RestoreFails, Fault, Seal, Unload, Course
<1>4. saved' \in SUBSET Rights
  <2>1. CASE GetProtect
    BY <1>0, <2>1 DEF GetProtect, GetAddrProtect
  <2>2. CASE UNCHANGED saved
    BY <1>0, <2>2
  <2> HIDE DEF Types
  <2> QED
    BY <2>1, <2>2
    DEF Next, vars, CheckHeader, ElfInit, ElfHook, Return, OutOfImage, FindOnly,
       AlreadyReplaced, Replace, Unprotect,
       UnprotectFails, SaveOld, Store, Restore, RestoreFails, Fault, Seal, Unload
<1>5. old' \in [DOMAIN image.hooks -> Values \cup {Unset}]
  <2>1. CASE todo # <<>> /\ old' = [old EXCEPT ![h] = mem[Slot]]
    BY <1>0, <2>1, SlotIsOwn
  <2>2. CASE UNCHANGED old
    BY <1>0, <2>2
  <2> HIDE DEF Types
  <2> QED
    BY <1>0, <2>1, <2>2
    DEF Next, vars, CheckHeader, ElfInit, ElfHook, Return, OutOfImage, FindOnly, VisitsSlot,
       AlreadyReplaced, Replace, GetProtect, Unprotect,
       UnprotectFails, SaveOld, Store, Restore, RestoreFails, Fault, Seal, Unload, Course
<1>6. mem' \in [DOMAIN image.slots -> Values]
  <2>1. CASE mem' = [mem EXCEPT ![Slot] = NewOf(h)]
    BY <1>0, <2>1 DEF Values
  <2>2. CASE UNCHANGED mem
    BY <1>0, <2>2
  <2> HIDE DEF Types
  <2> QED
    BY <1>0, <2>1, <2>2
    DEF Next, vars, CheckHeader, ElfInit, ElfHook, Return, OutOfImage, FindOnly,
       AlreadyReplaced, Replace, GetProtect, Unprotect,
       UnprotectFails, SaveOld, Store, Restore, RestoreFails, Fault, Seal, Unload
<1>7. rights' \in [DOMAIN image.pages -> SUBSET Rights]
  <2>1. ASSUME NEW prot \in SUBSET Rights, SetAddrProtect(Slot, prot)
        PROVE  rights' \in [DOMAIN image.pages -> SUBSET Rights]
    BY <1>0, <2>1 DEF SetAddrProtect
  <2>2. CASE Seal
    BY <1>0, <2>2 DEF Seal, Rights
  <2>3. CASE UNCHANGED rights
    BY <1>0, <2>3
  <2>4. ReadWrite \in SUBSET Rights /\ saved \in SUBSET Rights
    BY <1>0 DEF ReadWrite, Rights
  <2> HIDE DEF Types
  <2> QED
    BY <2>1, <2>2, <2>3, <2>4
    DEF Next, vars, CheckHeader, ElfInit, ElfHook, Return, OutOfImage, FindOnly,
       AlreadyReplaced, Replace, GetProtect, Unprotect,
       UnprotectFails, SaveOld, Store, Restore, RestoreFails, Fault, Unload
<1>8. sealed' \in BOOLEAN /\ loaded' \in BOOLEAN
  <2>1. /\ sealed' = sealed \/ sealed' = TRUE
        /\ loaded' = loaded \/ loaded' = FALSE
    BY DEF Next, vars, CheckHeader, ElfInit, ElfHook, Return, OutOfImage, GiveUp, NextHook,
       NextSlot, FindOnly, AlreadyReplaced, Replace, GetProtect, Unprotect,
       UnprotectFails, SaveOld, Store, Restore, RestoreFails, Fault, Seal, Unload
  <2> QED
    BY <1>0, <2>1, Zenon
<1>9. failed' \subseteq DOMAIN image.hooks
  <2>1. CASE failed' = failed \cup {h}
    BY <1>0, <2>1
  <2>2. CASE UNCHANGED failed
    BY <1>0, <2>2
  <2> HIDE DEF Types
  <2> QED
    BY <2>1, <2>2
    DEF Next, vars, CheckHeader, ElfInit, ElfHook, Return, OutOfImage, GiveUp, FindOnly,
       AlreadyReplaced, Replace, GetProtect, Unprotect,
       UnprotectFails, SaveOld, Store, Restore, RestoreFails, Fault, Seal, Unload
<1>10. Values' = Values
  BY <1>1 DEF Values
<1>11. image' \in Images
  BY <1>0, <1>1
<1> HIDE DEF Types, Points, Visiting, Writing, Goto
<1> QED
  BY <1>1, <1>2, <1>3, <1>4, <1>5, <1>6, <1>7, <1>8, <1>9, <1>10, <1>11 DEF Types

LEMMA CourseStep ==
    ASSUME Inv, [Next]_vars, TablesAreRead
    PROVE  Course'
<1> USE DEF Visiting, Writing, Goto
<1>0. Types /\ Course
  BY DEF Inv
<1>1. CASE CheckHeader
  BY <1>0, <1>1 DEF CheckHeader, Course
<1>2. CASE ElfInit
  BY <1>0, <1>2 DEF ElfInit, Course
<1>3. CASE ElfHook
  <2>1. /\ elf' = elf /\ image' = image /\ h' = h /\ pc' = "slot" /\ pc = "hook"
        /\ todo' = Wanted(image, elf, image.hooks[h].symbol)
    BY <1>3 DEF ElfHook, Hook
  <2>2. elf = Parse(image) /\ elf.ok /\ CheckElfHeader(image.ehdr)
    BY <1>0, <2>1 DEF Course
  <2>3. Decoded(image, elf)
    BY <1>0, <2>2 DEF TablesAreRead, Types
  <2>4. SlotsAt(elf, todo') \subseteq Own(image, h)
    BY <1>0, <2>1, <2>2, <2>3 DEF Decoded, Own, Types
  <2> QED
    BY <2>1, <2>2, <2>4 DEF Course
<1>4. CASE NextHook /\ UNCHANGED elf /\ pc \in Visiting
  <2>1. /\ todo' = <<>> /\ image' = image /\ pc' \in {"hook", "check", "done"}
    BY <1>0, <1>4, NextHookLeads
  <2> QED
    BY <1>0, <1>4, <2>1 DEF Course
<1>5. CASE todo # <<>> /\ pc \in Visiting /\ NextSlot /\ UNCHANGED elf
  <2>1. /\ pc' = "slot" /\ UNCHANGED <<image, h>>
        /\ SlotsAt(elf', todo') \subseteq Own(image', h')
    BY <1>5, NextSlotLeads
  <2> QED
    BY <1>0, <1>5, <2>1 DEF Course
<1>6. CASE GetProtect /\ UNCHANGED todo /\ Goto(IF saved' = ReadWrite THEN "save" ELSE "unprotect")
  <2>1. /\ pc = "slot" /\ pc' \in {"save", "unprotect"} /\ todo # <<>> /\ Hook.replaces
        /\ mem[Slot] # NewOf(h) /\ UNCHANGED <<image, h, elf, todo, mem>>
    BY <1>6 DEF GetProtect, VisitsSlot
  <2> QED
    BY <1>0, <2>1 DEF Course, Hook, Slot
<1>7. CASE pc \in Writing /\ pc' \in Writing /\ UNCHANGED <<image, h, elf, todo>>
           /\ (pc' # "restore" => mem' = mem)
           /\ pc # "restore"
  BY <1>0, <1>7 DEF Course, Hook, Slot
<1>8. CASE pc' = "faulted" /\ UNCHANGED <<image, h, elf, todo>>
  BY <1>0, <1>8 DEF Course
<1>9. CASE UNCHANGED <<image, h, elf, todo, pc, mem>>
  BY <1>0, <1>9 DEF Course, Hook, Slot
<1>10. CASE GetProtect
  <2>1. \/ NextHook /\ UNCHANGED elf /\ pc \in Visiting
        \/ GetProtect /\ UNCHANGED todo
           /\ Goto(IF saved' = ReadWrite THEN "save" ELSE "unprotect")
    BY <1>10 DEF GetProtect, VisitsSlot, GiveUp
  <2> QED
    BY <2>1, <1>4, <1>6
<1>11. CASE Return \/ OutOfImage \/ UnprotectFails
  BY <1>4, <1>11 DEF Return, OutOfImage, UnprotectFails, GiveUp
<1>12. CASE FindOnly \/ AlreadyReplaced
  BY <1>5, <1>12 DEF FindOnly, AlreadyReplaced, VisitsSlot
<1>13. CASE Restore \/ RestoreFails
  <2>1. todo # <<>>
    BY <1>0, <1>13 DEF Restore, RestoreFails, Course
  <2> QED
    BY <1>5, <1>13, <2>1 DEF Restore, RestoreFails
<1>14. CASE Store
  <2>1. todo # <<>>
    BY <1>0, <1>14 DEF Store, Course
  <2>2. CASE saved = ReadWrite
    BY <1>5, <1>14, <2>1, <2>2 DEF Store
  <2>3. CASE saved # ReadWrite
    BY <1>7, <1>14, <2>3 DEF Store
  <2> QED
    BY <2>2, <2>3
<1>15. CASE Unprotect \/ SaveOld
  BY <1>7, <1>15 DEF Unprotect, SaveOld
<1>16. CASE Fault
  BY <1>8, <1>16 DEF Fault
<1>17. CASE Seal \/ Unload \/ UNCHANGED vars
  BY <1>9, <1>17 DEF Seal, Unload, vars
<1> QED
  BY <1>1, <1>2, <1>3, <1>10, <1>11, <1>12, <1>13, <1>14, <1>15, <1>16, <1>17
  DEF Next, Replace

LEMMA InvAlways ==
    ASSUME TablesAreRead
    PROVE  Spec => []Inv
<1>1. Inv /\ [Next]_vars => Inv'
  BY TypesStep, CourseStep DEF Inv
<1> QED
  BY InvInit, <1>1, PTL DEF Spec

\* Type correctness: if the tables are read as they were written, the thread only
\* ever touches slots of the library, and slots and saved functions hold
\* functions, whatever faults, seals and failures come in between.
THEOREM TypeCorrect ==
    ASSUME BytesAreRead
    PROVE  Spec => []TypeOK
<1>1. Inv => TypeOK
  <2> SUFFICES ASSUME Inv PROVE TypeOK
    OBVIOUS
  <2>1. SlotsAt(elf, todo) \subseteq DOMAIN image.slots
    <3>1. CASE todo = <<>>
      BY <3>1 DEF SlotsAt
    <3>2. CASE todo # <<>>
      BY <3>2, OwnSlots DEF Inv, Types, Course
    <3> QED
      BY <3>1, <3>2
  <2>2. /\ h \in DOMAIN image.hooks /\ pass \in 1 .. image.passes
        /\ failed \subseteq DOMAIN image.hooks
        /\ mem \in [DOMAIN image.slots -> Values]
        /\ old \in [DOMAIN image.hooks -> Values \cup {Unset}]
        /\ rights \in [DOMAIN image.pages -> SUBSET Rights]
    BY DEF Inv, Types
  <2> QED
    BY <2>1, <2>2 DEF TypeOK
<1> QED
  BY TablesRead, InvAlways, <1>1, PTL

\* No table hides a symbol: when the first registration of a library is called,
\* each name is found at an index that bears it, or nowhere if the library lacks
\* it, and each registration is led to the slots of its symbol and to no others.
THEOREM NamesAreFound ==
    ASSUME BytesAreRead
    PROVE  Spec => []NamesFound
<1>1. Inv => NamesFound
  <2> SUFFICES ASSUME Inv, pc = "hook" PROVE
           /\ \A name \in image.names :
                Found(image.symtab, name, SymbolIndex(image, elf, name))
           /\ Decoded(image, elf)
    BY DEF NamesFound, Found
  <2>1. image \in Images /\ CheckElfHeader(image.ehdr) /\ elf = Parse(image) /\ Parse(image).ok
    BY DEF Inv, Types, Course
  <2>2. HashWritten(image, Parse(image))
    BY <2>1, TablesAssumption
  <2>3. \A name \in image.names : name \in NamesOf(image) /\ image.symtab[0] # name
    BY <2>2 DEF NamesOf, HashWritten
  <2> QED
    BY <2>1, <2>3, NameIsFound, CallsFindSlots
<1> QED
  BY TablesRead, InvAlways, <1>1, PTL

-----------------------------------------------------------------------------
(* The rights of the pages.  ProtectionKept says nothing of the points      *)
(* between the two changes, and so not what the second one brings back.     *)

Flat == \A a \in DOMAIN mem : PageOf(a) = PageOf(a + PtrSize - 1)

Kept(p) == IF Flat THEN rights[p] = Due(p) ELSE rights[p] \subseteq Due(p)

\* What was saved may be put back.
Restorable ==
    /\ saved # ReadWrite /\ "r" \in saved
    /\ \A p \in Covered(Slot) : IF Flat THEN saved = Due(p) ELSE saved \subseteq Due(p)

\* Between the two changes either nothing had to be changed, or the pages of the
\* slot can be given their rights back.
Lifted ==
    \/ /\ pc # "restore" /\ saved = ReadWrite
       /\ \A p \in DOMAIN image.pages : Kept(p)
    \/ /\ Restorable
       /\ \A p \in DOMAIN image.pages \ Covered(Slot) : Kept(p)
       /\ Flat => \A p \in Covered(Slot) : rights[p] = ReadWrite

Guarded ==
    loaded /\ ~image.refuses =>
        /\ pc \notin {"save", "store", "restore", "faulted"} =>
                \A p \in DOMAIN image.pages : Kept(p)
        /\ pc = "unprotect" => Restorable
        /\ pc \in {"save", "store", "restore"} => Lifted
        /\ pc = "faulted" /\ Flat => \A p \in DOMAIN image.pages : Kept(p)

LEMMA SlotPages ==
    ASSUME Types, NEW a \in DOMAIN image.slots
    PROVE  /\ Covered(a) \subseteq DOMAIN image.pages
           /\ Flat => Covered(a) = {PageOf(a)}
<1>1. Covered(a) \subseteq DOMAIN image.pages
  BY ImagesAssumption DEF Types, Covered, PageOf
<1>2. a \in Nat /\ PageSize \in Nat \ {0}
  BY ImagesAssumption DEF Types
<1>3. PageOf(a) \in Int
  BY <1>2 DEF PageOf
<1>4. Flat => PageOf(a) = PageOf(a + PtrSize - 1)
  BY DEF Flat, Types
<1> QED
  BY <1>1, <1>3, <1>4 DEF Covered

\* The walk over the maps gives the slot no right one of its pages lacks.
LEMMA ProtectWalk ==
    ASSUME Inv, todo # <<>>, May(Slot, "r"), \A p \in DOMAIN image.pages : Kept(p)
    PROVE  LET prot == GetAddrProtect(Slot).prot
           IN  /\ "r" \in prot
               /\ \A p \in Covered(Slot) : IF Flat THEN prot = Due(p) ELSE prot \subseteq Due(p)
<1> DEFINE prot == GetAddrProtect(Slot).prot
<1>1. prot = {right \in Rights : \A p \in Covered(Slot) : right \in rights[p]}
  BY DEF GetAddrProtect
<1>2. "r" \in prot
  BY <1>1 DEF May, Rights
<1>3. Slot \in DOMAIN image.slots
  BY SlotIsOwn
<1>4. /\ Covered(Slot) \subseteq DOMAIN image.pages
      /\ Flat => Covered(Slot) = {PageOf(Slot)}
  BY <1>3, SlotPages DEF Inv
<1>5. \A p \in Covered(Slot) : prot \subseteq rights[p] /\ rights[p] \subseteq Rights
  BY <1>1, <1>4 DEF Inv, Types
<1>6. Flat => \A p \in Covered(Slot) : prot = rights[p]
  BY <1>1, <1>4, <1>5
<1> QED
  BY <1>2, <1>4, <1>5, <1>6 DEF Kept

LEMMA GuardedInit == Init => Guarded
<1> SUFFICES ASSUME Init PROVE Guarded
  OBVIOUS
<1>1. \A p \in DOMAIN image.pages : rights[p] = Due(p)
  BY DEF Init, Due
<1>2. pc = "check"
  BY DEF Init
<1> QED
  BY <1>1, <1>2 DEF Guarded, Kept

LEMMA GuardedStep ==
    ASSUME Inv, Guarded, [Next]_vars
    PROVE  Guarded'
<1>0. Types /\ Course
  BY DEF Inv
<1> SUFFICES ASSUME loaded', ~image'.refuses PROVE Guarded'
  BY DEF Guarded
<1> USE DEF Goto
<1>1. image' = image /\ loaded
  <2>1. image' = image /\ (loaded' = loaded \/ loaded' = FALSE)
    BY DEF Next, vars, CheckHeader, ElfInit, ElfHook, Return, OutOfImage, GiveUp, NextHook,
       NextSlot, FindOnly, AlreadyReplaced, Replace, GetProtect, Unprotect,
       UnprotectFails, SaveOld, Store, Restore, RestoreFails, Fault, Seal, Unload
  <2> QED
    BY <2>1
<1>2. DOMAIN mem = DOMAIN image.slots /\ DOMAIN rights = DOMAIN image.pages
  BY <1>0 DEF Types
<1>3. DOMAIN mem' = DOMAIN image.slots
  <2>1. mem' = mem \/ mem' = [mem EXCEPT ![Slot] = NewOf(h)]
    BY DEF Next, vars, CheckHeader, ElfInit, ElfHook, Return, OutOfImage, FindOnly,
       AlreadyReplaced, Replace, GetProtect, Unprotect,
       UnprotectFails, SaveOld, Store, Restore, RestoreFails, Fault, Seal, Unload
  <2> QED
    BY <1>2, <2>1
<1>4. Flat' = Flat
  BY <1>2, <1>3 DEF Flat
<1>5. /\ pc \notin {"save", "store", "restore", "faulted"} =>
                \A p \in DOMAIN image.pages : Kept(p)
      /\ pc = "unprotect" => Restorable
      /\ pc \in {"save", "store", "restore"} => Lifted
      /\ pc = "faulted" /\ Flat => \A p \in DOMAIN image.pages : Kept(p)
  BY <1>1 DEF Guarded
<1>6. ASSUME UNCHANGED <<rights, sealed>>
      PROVE  /\ \A p : Due(p)' = Due(p)
             /\ \A p : Kept(p)' <=> Kept(p)
  BY <1>1, <1>4, <1>6 DEF Due, Kept
<1>7. ASSUME UNCHANGED <<rights, sealed>>, pc' \notin {"unprotect", "save", "store", "restore"},
             pc \notin {"save", "store", "restore", "faulted"}
      PROVE  Guarded'
  BY <1>1, <1>4, <1>5, <1>6, <1>7 DEF Guarded
<1>8. ASSUME UNCHANGED <<rights, sealed, pc, elf, todo, saved>> PROVE Guarded'
  BY <1>1, <1>4, <1>5, <1>6, <1>8 DEF Guarded, Restorable, Lifted, Covered, Slot
<1>9. CASE CheckHeader \/ ElfInit \/ ElfHook \/ Return \/ OutOfImage \/ FindOnly \/ AlreadyReplaced
  <2>1. CASE NextHook /\ UNCHANGED rights /\ pc = "slot"
    BY <1>0, <2>1, <1>7, NextHookLeads
  <2>2. CASE CheckHeader \/ ElfInit \/ ElfHook \/ FindOnly \/ AlreadyReplaced
    BY <2>2, <1>7 DEF CheckHeader, ElfInit, ElfHook, FindOnly, AlreadyReplaced, NextSlot, VisitsSlot
  <2> QED
    BY <1>9, <2>1, <2>2 DEF Return, OutOfImage, GiveUp
<1>10. CASE GetProtect
  <2>1. /\ pc = "slot" /\ todo # <<>> /\ May(Slot, "r") /\ UNCHANGED <<elf, rights>>
    BY <1>10 DEF GetProtect, VisitsSlot
  <2>2. CASE NextHook
    BY <1>0, <2>1, <2>2, <1>7, NextHookLeads
  <2>3. CASE ~NextHook
    <3>1. /\ saved' = GetAddrProtect(Slot).prot /\ UNCHANGED <<todo, sealed>>
          /\ pc' = IF saved' = ReadWrite THEN "save" ELSE "unprotect"
      BY <1>10, <2>3 DEF GetProtect, GiveUp
    <3>2. /\ "r" \in saved'
          /\ \A p \in Covered(Slot) :
                IF Flat THEN saved' = Due(p) ELSE saved' \subseteq Due(p)
      BY <2>1, <3>1, <1>5, ProtectWalk
    <3>3. \A p \in DOMAIN image.pages : Kept(p)'
      BY <2>1, <3>1, <1>5, <1>6
    <3>4. CASE saved' = ReadWrite
      BY <3>1, <3>3, <3>4, <1>1 DEF Guarded, Lifted
    <3>5. CASE saved' # ReadWrite
      <4>1. Slot' = Slot
        BY <2>1, <3>1 DEF Slot
      <4>2. Restorable'
        BY <2>1, <3>1, <3>2, <3>5, <4>1, <1>4, <1>6 DEF Restorable, Covered
      <4> QED
        BY <3>1, <3>3, <3>5, <4>2, <1>1 DEF Guarded
    <3> QED
      BY <3>4, <3>5
  <2> QED
    BY <2>2, <2>3
<1>11. CASE Unprotect
  <2>1. /\ pc = "unprotect" /\ pc' = "save" /\ UNCHANGED <<elf, todo, saved, sealed>>
        /\ rights' = [p \in DOMAIN rights |-> IF p \in Covered(Slot) THEN ReadWrite ELSE rights[p]]
    BY <1>11 DEF Unprotect, SetAddrProtect
  <2>2. Slot' = Slot /\ todo # <<>>
    BY <1>0, <2>1 DEF Slot, Course, Writing
  <2>3. \A p : Due(p)' = Due(p)
    BY <2>1, <1>1 DEF Due
  <2>4. Restorable'
    BY <1>4, <1>5, <2>1, <2>2, <2>3 DEF Restorable, Covered
  <2>5. \A p \in DOMAIN image.pages \ Covered(Slot) : Kept(p)'
    BY <1>2, <1>4, <1>5, <2>1, <2>3 DEF Kept
  <2>6. Covered(Slot) \subseteq DOMAIN image.pages
    BY <2>2, SlotIsOwn, SlotPages DEF Inv
  <2>7. \A p \in Covered(Slot) : rights'[p] = ReadWrite
    BY <1>2, <2>1, <2>6
  <2>8. Lifted'
    BY <1>1, <2>2, <2>4, <2>5, <2>7 DEF Lifted, Covered
  <2> QED
    BY <2>1, <2>8 DEF Guarded
<1>12. CASE SaveOld
  <2>1. /\ pc = "save" /\ pc' = "store" /\ UNCHANGED <<elf, todo, saved, sealed, rights>>
    BY <1>12 DEF SaveOld
  <2>2. Lifted'
    BY <1>1, <1>4, <1>5, <1>6, <2>1 DEF Lifted, Restorable, Covered, Slot
  <2> QED
    BY <2>1, <2>2 DEF Guarded
<1>13. CASE Store
  <2>1. /\ pc = "store" /\ UNCHANGED <<elf, saved, sealed, rights>>
    BY <1>13 DEF Store, NextSlot
  <2>2. CASE saved = ReadWrite
    <3>1. pc' = "slot"
      BY <1>13, <2>2 DEF Store, NextSlot
    <3>2. \A p \in DOMAIN image.pages : Kept(p)
      BY <1>5, <2>1, <2>2 DEF Lifted, Restorable
    <3> QED
      BY <2>1, <3>1, <3>2, <1>1, <1>6 DEF Guarded
  <2>3. CASE saved # ReadWrite
    <3>1. pc' = "restore" /\ UNCHANGED todo
      BY <1>13, <2>3 DEF Store
    <3>2. Lifted'
      BY <1>1, <1>4, <1>5, <1>6, <2>1, <2>3, <3>1 DEF Lifted, Restorable, Covered, Slot
    <3> QED
      BY <3>1, <3>2 DEF Guarded
  <2> QED
    BY <2>2, <2>3
<1>14. CASE Restore
  <2>1. /\ pc = "restore" /\ pc' = "slot" /\ UNCHANGED sealed
        /\ rights' = [p \in DOMAIN rights |-> IF p \in Covered(Slot) THEN saved ELSE rights[p]]
    BY <1>14 DEF Restore, SetAddrProtect, NextSlot
  <2>2. \A p : Due(p)' = Due(p)
    BY <2>1, <1>1 DEF Due
  <2>3. /\ \A p \in Covered(Slot) : IF Flat THEN saved = Due(p) ELSE saved \subseteq Due(p)
        /\ \A p \in DOMAIN image.pages \ Covered(Slot) : Kept(p)
    BY <1>5, <2>1 DEF Lifted, Restorable
  <2>4. \A p \in DOMAIN image.pages : Kept(p)'
    BY <1>2, <1>4, <2>1, <2>2, <2>3 DEF Kept
  <2> QED
    BY <1>1, <2>1, <2>4 DEF Guarded
<1>15. CASE UnprotectFails \/ RestoreFails
  BY <1>1, <1>15 DEF UnprotectFails, RestoreFails
<1>16. CASE Fault
  <2>1. pc' = "faulted" /\ UNCHANGED <<rights, sealed>> /\ pc \in {"slot", "save", "store"}
    BY <1>1, <1>16 DEF Fault
  <2>2. CASE pc = "slot"
    BY <1>7, <2>1, <2>2
  <2>3. CASE pc \in {"save", "store"}
    <3>1. Slot \in DOMAIN image.slots
      BY <1>0, <2>3, SlotIsOwn DEF Course, Writing
    <3>2. \E p \in Covered(Slot) : rights[p] # ReadWrite
      BY <1>1, <1>16, <2>3 DEF Fault, May, ReadWrite
    <3>3. Flat => \A p \in DOMAIN image.pages : Kept(p)
      BY <1>5, <2>3, <3>2 DEF Lifted
    <3> QED
      BY <1>1, <1>4, <1>6, <2>1, <3>3 DEF Guarded
  <2> QED
    BY <2>1, <2>2, <2>3
<1>17. CASE Seal
  <2>1. /\ sealed = FALSE /\ sealed' = TRUE /\ UNCHANGED <<pc, elf, todo, saved>>
        /\ rights' = [p \in DOMAIN rights |->
                         IF image.pages[p].relro THEN {"r"} ELSE rights[p]]
    BY <1>17, <1>0 DEF Seal, Types
  <2>2. Slot' = Slot
    BY <2>1 DEF Slot
  <2>3. \A p \in DOMAIN image.pages :
            /\ Due(p) = image.pages[p].rights
            /\ Due(p)' = IF image.pages[p].relro THEN {"r"} ELSE image.pages[p].rights
            /\ image.pages[p].relro => Due(p) = ReadWrite
    BY <1>0, <1>1, <2>1, ImagesAssumption DEF Types, Due, ReadWrite
  <2>4. \A p \in DOMAIN image.pages : Kept(p) => Kept(p)'
    BY <1>2, <1>4, <2>1, <2>3 DEF Kept
  <2>5. ASSUME todo # <<>>, Restorable PROVE Restorable'
    <3>1. Covered(Slot) \subseteq DOMAIN image.pages
      BY <2>5, SlotIsOwn, SlotPages DEF Inv
    <3>2. ASSUME NEW p \in Covered(Slot)
          PROVE  IF Flat THEN saved = Due(p)' ELSE saved \subseteq Due(p)'
      <4>1. CASE image.pages[p].relro
        <5>1. ~Flat /\ saved \subseteq ReadWrite /\ Due(p)' = {"r"}
          BY <2>3, <2>5, <3>1, <3>2, <4>1 DEF Restorable
        <5>2. saved \subseteq {"r"}
          BY <2>5, <5>1 DEF Restorable, ReadWrite
        <5> QED
          BY <5>1, <5>2
      <4>2. CASE ~image.pages[p].relro
        BY <2>3, <2>5, <3>1, <3>2, <4>2 DEF Restorable
      <4> QED
        BY <4>1, <4>2
    <3> QED
      BY <1>4, <2>1, <2>2, <2>5, <3>2 DEF Restorable, Covered
  <2>6. ASSUME todo # <<>>, Lifted PROVE Lifted'
    <3>1. CASE pc # "restore" /\ saved = ReadWrite /\ \A p \in DOMAIN image.pages : Kept(p)
      BY <1>1, <2>1, <2>4, <3>1 DEF Lifted
    <3>2. CASE /\ Restorable
               /\ \A p \in DOMAIN image.pages \ Covered(Slot) : Kept(p)
               /\ Flat => \A p \in Covered(Slot) : rights[p] = ReadWrite
      <4>1. Restorable'
        BY <2>5, <2>6, <3>2
      <4>2. \A p \in DOMAIN image.pages \ Covered(Slot) : Kept(p)'
        BY <2>4, <3>2
      <4>3. Covered(Slot) \subseteq DOMAIN image.pages
        BY <2>6, SlotIsOwn, SlotPages DEF Inv
      <4>4. ASSUME Flat, NEW p \in Covered(Slot) PROVE rights'[p] = ReadWrite
        <5>1. ~image.pages[p].relro
          BY <2>3, <3>2, <4>3, <4>4 DEF Restorable
        <5> QED
          BY <1>2, <2>1, <3>2, <4>3, <4>4, <5>1
      <4> QED
        BY <1>1, <1>4, <2>2, <4>1, <4>2, <4>4 DEF Lifted, Covered
    <3> QED
      BY <2>6, <3>1, <3>2 DEF Lifted
  <2>7. pc \in {"unprotect", "save", "store", "restore"} => todo # <<>>
    BY <1>0 DEF Course, Writing
  <2>8. pc \notin {"save", "store", "restore", "faulted"} =>
            \A p \in DOMAIN image.pages : Kept(p)'
    BY <1>5, <2>4
  <2>9. pc = "unprotect" => Restorable'
    BY <1>5, <2>5, <2>7
  <2>10. pc \in {"save", "store", "restore"} => Lifted'
    BY <1>5, <2>6, <2>7
  <2>11. pc = "faulted" /\ Flat => \A p \in DOMAIN image.pages : Kept(p)'
    BY <1>5, <2>4
  <2> QED
    BY <1>1, <1>4, <2>1, <2>8, <2>9, <2>10, <2>11 DEF Guarded
<1>18. CASE Unload \/ UNCHANGED vars
  BY <1>8, <1>18 DEF Unload, vars
<1> QED
  BY <1>9, <1>10, <1>11, <1>12, <1>13, <1>14, <1>15, <1>16, <1>17, <1>18 DEF Next, Replace

\* The pages have the rights they are due whenever the thread is not between the
\* two changes, though the linker may seal them at any moment: exactly those
\* where every slot lies on one page, and never more where one does not.
THEOREM RightsComeBack ==
    ASSUME BytesAreRead
    PROVE  Spec => []ProtectionKept
<1>1. Inv /\ Guarded /\ [Next]_vars => Guarded'
  BY GuardedStep
<1>2. Inv /\ Guarded => ProtectionKept
  BY DEF Inv, Types, Guarded, Kept, Flat, ProtectionKept
<1> QED
  BY TablesRead, InvAlways, GuardedInit, <1>1, <1>2, PTL DEF Spec

-----------------------------------------------------------------------------
(* The way home.  OldLeadsHome speaks of what a slot shows now; a step that *)
(* overwrites a saved function could cut the ways of other slots, so where  *)
(* each saved function leads is kept for all registrations.                 *)

\* A saved function is the original one, or that of an earlier registration for
\* the same slots.
Chained ==
    \A k \in DOMAIN image.hooks : image.hooks[k].replaces /\ old[k] # Unset =>
        \E a \in Own(image, k) :
            \/ old[k] = image.slots[a]
            \/ \E j \in DOMAIN image.hooks :
                /\ j < k /\ image.hooks[j].replaces /\ old[j] # Unset
                /\ old[k] = NewOf(j) /\ a \in Own(image, j)

\* A slot shows a new function only after the old one was saved.
Shown ==
    \A a \in DOMAIN image.slots :
        \/ mem[a] = image.slots[a]
        \/ \E k \in DOMAIN image.hooks :
            /\ mem[a] = NewOf(k) /\ image.hooks[k].replaces /\ a \in Own(image, k)
            /\ old[k] # Unset
            /\ elf = Parse(image)
            /\ image.passes = 1 /\ pc # "done" => k <= h

Homeward == ReplacedInOnePass => Chained

Linked ==
    /\ Homeward /\ Shown
    /\ pc = "store" => old[h] # Unset

LEMMA OnceStays ==
    ASSUME image' = image
    PROVE  ReplacedInOnePass' <=> ReplacedInOnePass
  BY DEF ReplacedInOnePass

LEMMA MaxIs ==
    ASSUME NEW S \in SUBSET Int, NEW k \in S, \A j \in S : j <= k
    PROVE  Max(S) = k
<1>1. \A x \in S : (\A y \in S : x >= y) <=> x = k
  <2>1. \A x \in S : x >= k => x = k
    OBVIOUS
  <2>2. \A y \in S : k >= y
    OBVIOUS
  <2> QED
    BY <2>1, <2>2
<1> QED
  BY <1>1 DEF Max

\* From each registration that has saved a function there is a way to the
\* original: take the first one without.
LEMMA WaysExist ==
    ASSUME Types, Chained
    PROVE  \A k \in DOMAIN image.hooks : image.hooks[k].replaces /\ old[k] # Unset =>
              \A b \in Own(image, k) : \E way \in SUBSET DOMAIN image.hooks :
                 /\ k \in way /\ \A i \in way : i <= k
                 /\ \A i \in way : old[i] = TopOf({j \in way : j < i}, image.slots[b])
<1> DEFINE Way(way, k, f) ==
              /\ k \in way /\ \A i \in way : i <= k
              /\ \A i \in way : old[i] = TopOf({j \in way : j < i}, f)
           Saved(k) == image.hooks[k].replaces /\ old[k] # Unset
           Home(k) == \A b \in Own(image, k) :
                         \E way \in SUBSET DOMAIN image.hooks : Way(way, k, image.slots[b])
           Lost == {k \in DOMAIN image.hooks : Saved(k) /\ ~Home(k)}
<1> HIDE DEF Way
<1>0. DOMAIN image.hooks = 1 .. Len(image.hooks) /\ Len(image.hooks) \in Nat
  BY Counts
<1>1. SUFFICES ASSUME Lost # {} PROVE FALSE
  BY <1>1 DEF Way
<1>2. PICK k \in Lost : \A j \in Lost : ~(<<j, k>> \in OpToRel(<, Nat))
  <2>1. Lost \subseteq Nat
    BY <1>0
  <2> HIDE DEF Lost
  <2> QED
    BY <1>1, <2>1, NatLessThanWellFounded, WFMin
<1>3. \A j \in DOMAIN image.hooks : j < k /\ Saved(j) => Home(j)
  <2>1. \A j \in Lost : ~(j < k)
    <3>1. Lost \subseteq Nat
      BY <1>0
    <3> HIDE DEF Lost
    <3> QED
      BY <1>2, <3>1, Zenon DEF OpToRel
  <2> QED
    BY <2>1
<1>4. k \in DOMAIN image.hooks /\ Saved(k) /\ ~Home(k)
  BY <1>2
<1>5. PICK b \in Own(image, k) :
         ~ \E way \in SUBSET DOMAIN image.hooks : Way(way, k, image.slots[b])
  BY <1>4
<1>6. PICK a \in Own(image, k) :
            \/ old[k] = image.slots[a]
            \/ \E j \in DOMAIN image.hooks :
                /\ j < k /\ image.hooks[j].replaces /\ old[j] # Unset
                /\ old[k] = NewOf(j) /\ a \in Own(image, j)
  BY <1>4 DEF Chained
<1>7. image.slots[a] = image.slots[b]
  BY <1>4, OwnSlots DEF Types
<1>8. CASE old[k] = image.slots[a]
  <2>1. {j \in {k} : j < k} = {}
    BY <1>0, <1>4
  <2>2. Way({k}, k, image.slots[b])
    BY <1>0, <1>4, <1>7, <1>8, <2>1 DEF Way, TopOf
  <2> QED
    BY <1>4, <1>5, <2>2
<1>9. CASE \E j \in DOMAIN image.hooks :
                /\ j < k /\ image.hooks[j].replaces /\ old[j] # Unset
                /\ old[k] = NewOf(j) /\ a \in Own(image, j)
  <2>1. PICK j \in DOMAIN image.hooks :
                /\ j < k /\ image.hooks[j].replaces /\ old[j] # Unset
                /\ old[k] = NewOf(j) /\ a \in Own(image, j)
    BY <1>9
  <2>2. PICK way \in SUBSET DOMAIN image.hooks : Way(way, j, image.slots[a])
    BY <1>3, <2>1
  <2> DEFINE whole == way \cup {k}
  <2>3. /\ j \in way /\ \A i \in way : i <= j /\ i < k
        /\ \A i \in way : old[i] = TopOf({l \in way : l < i}, image.slots[a])
    <3>1. /\ j \in way /\ \A i \in way : i <= j
          /\ \A i \in way : old[i] = TopOf({l \in way : l < i}, image.slots[a])
      BY <2>2, Zenon DEF Way
    <3>2. j \in Int /\ k \in Int /\ way \subseteq Int
      BY <1>0, <1>4
    <3>3. \A i \in way : i < k
      BY <2>1, <3>1, <3>2
    <3> QED
      BY <3>1, <3>3
  <2>4. \A i \in way : {l \in whole : l < i} = {l \in way : l < i}
    BY <1>0, <1>4, <2>3
  <2>5. {l \in whole : l < k} = way
    BY <1>0, <1>4, <2>3
  <2>6. Max(way) = j
    BY <1>0, <2>3, MaxIs
  <2>7. old[k] = TopOf(way, image.slots[a])
    BY <2>1, <2>3, <2>6 DEF TopOf
  <2>8. \A i \in whole : old[i] = TopOf({l \in whole : l < i}, image.slots[a])
    BY <2>3, <2>4, <2>5, <2>7
  <2>9. \A i \in whole : i <= k
    BY <1>0, <1>4, <2>3
  <2>10. Way(whole, k, image.slots[b])
    BY <1>7, <2>8, <2>9 DEF Way
  <2> QED
    BY <1>4, <1>5, <2>10
<1> QED
  BY <1>6, <1>8, <1>9

LEMMA LinkedLeadsHome ==
    ASSUME Types, Linked
    PROVE  OldLeadsHome
<1> SUFFICES ASSUME ReplacedInOnePass, NEW a \in DOMAIN mem
             PROVE  \E way \in SUBSET DOMAIN image.hooks :
                      /\ mem[a] = TopOf(way, image.slots[a])
                      /\ \A k \in way : old[k] = TopOf({j \in way : j < k}, image.slots[a])
  BY DEF OldLeadsHome
<1>1. a \in DOMAIN image.slots
  BY DEF Types
<1>2. CASE mem[a] = image.slots[a]
  <2>1. mem[a] = TopOf({}, image.slots[a])
    BY <1>2 DEF TopOf
  <2> QED
    BY <2>1
<1>3. CASE mem[a] # image.slots[a]
  <2>1. PICK k \in DOMAIN image.hooks :
            /\ mem[a] = NewOf(k) /\ image.hooks[k].replaces /\ a \in Own(image, k)
            /\ old[k] # Unset
    BY <1>1, <1>3 DEF Linked, Shown
  <2>2. PICK way \in SUBSET DOMAIN image.hooks :
                 /\ k \in way /\ \A i \in way : i <= k
                 /\ \A i \in way : old[i] = TopOf({j \in way : j < i}, image.slots[a])
    BY <2>1, WaysExist DEF Linked, Homeward
  <2>3. Max(way) = k
    BY <2>2, MaxIs, Counts
  <2>4. mem[a] = TopOf(way, image.slots[a])
    BY <2>1, <2>2, <2>3 DEF TopOf
  <2> QED
    BY <2>2, <2>4
<1> QED
  BY <1>2, <1>3

LEMMA LinkedInit == Init => Linked
<1> SUFFICES ASSUME Init PROVE Linked
  OBVIOUS
<1>1. /\ \A k \in DOMAIN image.hooks : old[k] = Unset
      /\ \A a \in DOMAIN image.slots : mem[a] = image.slots[a]
      /\ pc = "check"
  BY DEF Init
<1> QED
  BY <1>1 DEF Linked, Homeward, Chained, Shown

\* No function is saved as its own predecessor.
LEMMA SaveKeepsChain ==
    ASSUME Inv, Linked, SaveOld
    PROVE  Linked'
<1>0. Types /\ Course
  BY DEF Inv
<1>1. /\ pc = "save" /\ pc' = "store" /\ UNCHANGED <<image, pass, h, elf, todo, mem>>
      /\ old' = [old EXCEPT ![h] = mem[Slot]]
  BY DEF SaveOld, Goto
<1>2. todo # <<>> /\ image.hooks[h].replaces /\ mem[Slot] # NewOf(h) /\ h \in DOMAIN image.hooks
  BY <1>0, <1>1 DEF Course, Types, Writing, Hook
<1>3. Slot \in Own(image, h) /\ Slot \in DOMAIN image.slots
  BY <1>2, SlotIsOwn
<1>4. /\ DOMAIN old = DOMAIN image.hooks
      /\ mem[Slot] \in Values
  BY <1>0, <1>3 DEF Types
<1>5. mem[Slot] # Unset
  BY <1>0, <1>4, ValuesAreSet
<1>6. /\ old'[h] = mem[Slot] /\ old'[h] # Unset
      /\ \A k \in DOMAIN image.hooks : k # h => old'[k] = old[k]
      /\ \A k \in DOMAIN image.hooks : old[k] # Unset => old'[k] # Unset
  BY <1>1, <1>2, <1>4, <1>5
<1>7. ASSUME ReplacedInOnePass
      PROVE  \/ old'[h] = image.slots[Slot]
             \/ \E j \in DOMAIN image.hooks :
                  /\ j < h /\ image.hooks[j].replaces /\ old[j] # Unset
                  /\ old'[h] = NewOf(j) /\ Slot \in Own(image, j)
  <2>1. CASE mem[Slot] = image.slots[Slot]
    BY <1>6, <2>1
  <2>2. CASE mem[Slot] # image.slots[Slot]
    <3>1. PICK k \in DOMAIN image.hooks :
            /\ mem[Slot] = NewOf(k) /\ image.hooks[k].replaces /\ Slot \in Own(image, k)
            /\ old[k] # Unset
            /\ image.passes = 1 => k <= h
      BY <1>1, <1>3, <2>2 DEF Linked, Shown
    <3>2. k # h
      BY <1>2, <3>1
    <3>3. image.passes = 1
      <4>1. ~(image.passes > 1)
        BY <1>2, <1>3, <1>7, <3>1, <3>2 DEF ReplacedInOnePass, Own
      <4> QED
        BY <1>0, <4>1, Counts
    <3>4. k < h
      BY <1>0, <3>1, <3>2, <3>3, Counts
    <3> QED
      BY <1>6, <3>1, <3>4
  <2> QED
    BY <2>1, <2>2
<1>8. ASSUME ReplacedInOnePass PROVE Chained'
  <2> SUFFICES ASSUME NEW k \in DOMAIN image.hooks, image.hooks[k].replaces, old'[k] # Unset
               PROVE  \E a \in Own(image, k) :
                          \/ old'[k] = image.slots[a]
                          \/ \E j \in DOMAIN image.hooks :
                                /\ j < k /\ image.hooks[j].replaces /\ old'[j] # Unset
                                /\ old'[k] = NewOf(j) /\ a \in Own(image, j)
    BY <1>1 DEF Chained
  <2>1. CASE k = h
    BY <1>3, <1>6, <1>7, <1>8, <2>1
  <2>2. CASE k # h
    <3>1. PICK a \in Own(image, k) :
                          \/ old[k] = image.slots[a]
                          \/ \E j \in DOMAIN image.hooks :
                                /\ j < k /\ image.hooks[j].replaces /\ old[j] # Unset
                                /\ old[k] = NewOf(j) /\ a \in Own(image, j)
      BY <1>6, <1>8, <2>2 DEF Linked, Homeward, Chained
    <3> QED
      BY <1>6, <2>2, <3>1
  <2> QED
    BY <2>1, <2>2
<1>9. Shown'
  BY <1>1, <1>6 DEF Linked, Shown
<1>10. Homeward'
  BY <1>1, <1>8, OnceStays DEF Homeward
<1> QED
  BY <1>1, <1>6, <1>9, <1>10 DEF Linked

LEMMA LinkedStep ==
    ASSUME Inv, Inv', Linked, [Next]_vars
    PROVE  Linked'
<1>0. Types /\ Course
  BY DEF Inv
<1> USE DEF Goto
<1>1. ASSUME UNCHANGED <<image, old, mem>>, elf' = elf \/ elf' = Parse(image),
             pc' # "store",
             image.passes = 1 /\ pc' # "done" => pc # "done" /\ h <= h'
      PROVE  Linked'
  <2>1. Homeward'
    BY <1>1, OnceStays DEF Linked, Homeward, Chained
  <2>2. h \in Int /\ h' \in Int /\ DOMAIN image.hooks \subseteq Int
    <3>1. Types' /\ DOMAIN image'.hooks = DOMAIN image.hooks
      BY <1>1 DEF Inv
    <3> QED
      BY <1>0, <3>1, Counts DEF Types
  <2>3. Shown'
    <3> SUFFICES ASSUME NEW a \in DOMAIN image.slots, mem[a] # image.slots[a]
                 PROVE  \E k \in DOMAIN image.hooks :
                            /\ mem[a] = NewOf(k) /\ image.hooks[k].replaces
                            /\ a \in Own(image, k) /\ old[k] # Unset
                            /\ elf' = Parse(image)
                            /\ image.passes = 1 /\ pc' # "done" => k <= h'
      BY <1>1 DEF Shown
    <3>1. PICK k \in DOMAIN image.hooks :
                            /\ mem[a] = NewOf(k) /\ image.hooks[k].replaces
                            /\ a \in Own(image, k) /\ old[k] # Unset
                            /\ elf = Parse(image)
                            /\ image.passes = 1 /\ pc # "done" => k <= h
      BY DEF Linked, Shown
    <3>2. image.passes = 1 /\ pc' # "done" => k <= h'
      BY <1>1, <2>2, <3>1
    <3> QED
      BY <1>1, <3>1, <3>2
  <2> QED
    BY <1>1, <2>1, <2>3 DEF Linked
<1>2. CASE NextHook /\ UNCHANGED <<elf, old, mem>> /\ pc \in Visiting
  <2>1. image' = image /\ pc' # "store"
    BY <1>0, <1>2, NextHookLeads
  <2>2. pc # "done"
    BY <1>2 DEF Visiting, Writing
  <2>3. image.passes = 1 /\ pc' # "done" => h <= h'
    BY <1>0, <1>2, NextHookLeads, Counts DEF Types
  <2> QED
    BY <1>1, <1>2, <2>1, <2>2, <2>3
<1>3. ASSUME UNCHANGED <<image, old, mem, h, pass, elf>>, pc' \notin {"store", "done"},
             pc # "done"
      PROVE  Linked'
  <2>1. h <= h'
    BY <1>0, <1>3, Counts
  <2> QED
    BY <1>1, <1>3, <2>1
<1>4. CASE CheckHeader \/ ElfHook \/ AlreadyReplaced \/ Unprotect \/ Restore \/ RestoreFails \/ Fault
  <2>1. /\ UNCHANGED <<image, old, mem, h, pass, elf>> /\ pc' \notin {"store", "done"}
        /\ pc # "done"
    BY <1>4 DEF CheckHeader, ElfHook, AlreadyReplaced, VisitsSlot, NextSlot, Unprotect,
                Restore, RestoreFails, Fault
  <2> QED
    BY <1>3, <2>1
<1>5. CASE ElfInit
  <2>1. h' = h /\ pc = "start" /\ pc' \notin {"store", "done"} /\ elf' = Parse(image)
        /\ UNCHANGED <<image, old, mem>>
    BY <1>5 DEF ElfInit
  <2>2. h <= h'
    BY <1>0, <2>1, Counts
  <2> QED
    BY <1>1, <2>1, <2>2
<1>6. CASE Return \/ OutOfImage \/ UnprotectFails
  BY <1>2, <1>6 DEF Return, OutOfImage, UnprotectFails, GiveUp, Visiting, Writing
<1>7. CASE GetProtect
  <2>1. \/ NextHook /\ UNCHANGED <<elf, old, mem>> /\ pc \in Visiting
        \/ UNCHANGED <<image, old, mem, h, pass, elf>> /\ pc' \notin {"store", "done"}
           /\ pc # "done"
    BY <1>7 DEF GetProtect, VisitsSlot, GiveUp, Visiting
  <2> QED
    BY <2>1, <1>2, <1>3
<1>8. CASE FindOnly
  <2>1. /\ ~image.hooks[h].replaces /\ pc = "slot" /\ pc' = "slot"
        /\ UNCHANGED <<image, mem, h, pass, elf>>
        /\ old' = [old EXCEPT ![h] = mem[Slot]]
    BY <1>8 DEF FindOnly, VisitsSlot, NextSlot, Hook
  <2>2. \A k \in DOMAIN image.hooks : image.hooks[k].replaces => old'[k] = old[k]
    BY <1>0, <2>1 DEF Types
  <2>3. Homeward'
    BY <2>1, <2>2, OnceStays DEF Linked, Homeward, Chained
  <2>4. Shown'
    BY <2>1, <2>2 DEF Linked, Shown
  <2> QED
    BY <2>1, <2>3, <2>4 DEF Linked
<1>9. CASE SaveOld
  BY <1>9, SaveKeepsChain
<1>10. CASE Store
  <2>1. /\ pc = "store" /\ pc' \in {"slot", "restore"} /\ UNCHANGED <<image, old, h, pass, elf>>
        /\ mem' = [mem EXCEPT ![Slot] = NewOf(h)]
    BY <1>10 DEF Store, NextSlot
  <2>2. /\ todo # <<>> /\ image.hooks[h].replaces /\ elf = Parse(image)
        /\ h \in DOMAIN image.hooks /\ old[h] # Unset /\ h <= h
    BY <1>0, <2>1, Counts DEF Course, Types, Visiting, Writing, Hook, Linked
  <2>3. Slot \in Own(image, h)
    BY <2>2, SlotIsOwn
  <2>4. Homeward'
    BY <2>1, OnceStays DEF Linked, Homeward, Chained
  <2>5. \A a \in DOMAIN image.slots : mem'[a] = IF a = Slot THEN NewOf(h) ELSE mem[a]
    BY <1>0, <2>1 DEF Types
  <2>6. Shown'
    <3> SUFFICES ASSUME NEW a \in DOMAIN image.slots, mem'[a] # image.slots[a]
                 PROVE  \E k \in DOMAIN image.hooks :
                            /\ mem'[a] = NewOf(k) /\ image.hooks[k].replaces
                            /\ a \in Own(image, k) /\ old[k] # Unset
                            /\ elf = Parse(image)
                            /\ image.passes = 1 => k <= h
      BY <2>1 DEF Shown
    <3>1. CASE a = Slot
      BY <2>2, <2>3, <2>5, <3>1
    <3>2. CASE a # Slot
      BY <2>1, <2>5, <3>2 DEF Linked, Shown
    <3> QED
      BY <3>1, <3>2
  <2> QED
    BY <2>1, <2>4, <2>6 DEF Linked
<1>11. CASE Seal \/ Unload \/ UNCHANGED vars
  <2>1. UNCHANGED <<image, old, mem, elf, pc, h>>
    BY <1>11 DEF Seal, Unload, vars
  <2> QED
    BY <2>1, OnceStays DEF Linked, Homeward, Chained, Shown
<1> QED
  BY <1>4, <1>5, <1>6, <1>7, <1>8, <1>9, <1>10, <1>11 DEF Next, Replace

\* A thread that calls through a slot gets home at any moment, also when a fault
\* or a refusal comes in between: for any registrations where the library is gone
\* through once, and over several passes where no two of them replace one slot.
THEOREM CallsGetHome ==
    ASSUME BytesAreRead
    PROVE  Spec => []OldLeadsHome
<1>1. Inv /\ Inv' /\ Linked /\ [Next]_vars => Linked'
  BY LinkedStep
<1>2. Inv /\ Linked => OldLeadsHome
  BY LinkedLeadsHome DEF Inv
<1> QED
  BY TablesRead, InvAlways, LinkedInit, <1>1, <1>2, PTL DEF Spec

-----------------------------------------------------------------------------
(* Exactness.  HookIsExact speaks of the end; how far the thread has come   *)
(* tells what each slot shows and which registrations have an answer on the *)
(* way there.                                                               *)

\* The registrations a slot is to be given to, all of them or those before n
Covering(a) == {k \in DOMAIN image.hooks : image.hooks[k].replaces /\ a \in Own(image, k)}
Upto(a, n) == {k \in Covering(a) : k < n}

\* The hook at hand is through with slot a.
Through(a) == old[h] # Unset /\ (image.hooks[h].replaces => mem[a] = NewOf(h))

\* What a slot shows when all registrations are through, and at the start of a pass
Settled(a) == TopOf(Covering(a), image.slots[a])
ShownBefore(a) == IF pass = 1 THEN image.slots[a] ELSE Settled(a)

Final == \A a \in DOMAIN image.slots : mem[a] = Settled(a)

Partial ==
    \A a \in DOMAIN image.slots :
        \/ mem[a] = TopOf(Upto(a, h), ShownBefore(a))
        \/ h \in Covering(a) /\ mem[a] = NewOf(h)

Answered ==
    \A k \in DOMAIN image.hooks :
        (k < h \/ pass > 1 \/ pc = "done") /\ Own(image, k) # {} => old[k] # Unset

Reached ==
    /\ \A k \in DOMAIN image.hooks : old[k] # Unset => Own(image, k) # {}
    /\ failed = {} =>
        /\ pc # "done" => Partial
        /\ pc = "done" => Final
        /\ Answered

Passed ==
    failed = {} =>
        /\ pc \in Visiting => \A a \in Own(image, h) \ SlotsAt(elf, todo) : Through(a)
        /\ pc = "restore" => Through(Slot)

LEMMA ReachedInit == Init => Reached /\ Passed
<1> SUFFICES ASSUME Init PROVE Reached /\ Passed
  OBVIOUS
<1>1. /\ \A k \in DOMAIN image.hooks : old[k] = Unset
      /\ \A a \in DOMAIN image.slots : mem[a] = image.slots[a]
      /\ pc = "check" /\ h = 1 /\ pass = 1 /\ image \in Images
  BY DEF Init
<1>2. DOMAIN image.hooks = 1 .. Len(image.hooks) /\ Len(image.hooks) \in Nat
  BY <1>1, ImagesAssumption
<1>3. \A a : Upto(a, h) = {}
  BY <1>1, <1>2 DEF Upto, Covering
<1>4. Partial
  BY <1>1, <1>3 DEF Partial, ShownBefore, TopOf
<1>5. Answered
  BY <1>1, <1>2 DEF Answered
<1> QED
  BY <1>1, <1>4, <1>5 DEF Reached, Passed, Visiting, Writing

\* At the end of a call every slot of the hook shows it.
LEMMA CallIsThrough ==
    ASSUME Inv, Reached, Passed, failed = {}, pc = "slot", todo = <<>>
    PROVE  /\ \A a \in DOMAIN image.slots : mem[a] = TopOf(Upto(a, h + 1), ShownBefore(a))
           /\ Own(image, h) # {} => old[h] # Unset
<1>0. Types /\ h \in DOMAIN image.hooks /\ DOMAIN image.hooks = 1 .. Len(image.hooks)
      /\ Len(image.hooks) \in Nat
  BY Counts DEF Inv, Types
<1>1. SlotsAt(elf, todo) = {}
  BY DEF SlotsAt
<1>2. \A a \in Own(image, h) : Through(a)
  BY <1>1 DEF Passed, Visiting
<1>3. ASSUME NEW a \in DOMAIN image.slots
      PROVE  mem[a] = TopOf(Upto(a, h + 1), ShownBefore(a))
  <2>1. CASE h \in Covering(a)
    <3>1. mem[a] = NewOf(h)
      BY <1>2, <2>1 DEF Covering, Through
    <3>2. h \in Upto(a, h + 1) /\ \A j \in Upto(a, h + 1) : j <= h
      BY <1>0, <2>1 DEF Upto, Covering
    <3>3. Upto(a, h + 1) \in SUBSET Int
      BY <1>0 DEF Upto, Covering
    <3>4. Max(Upto(a, h + 1)) = h
      BY <3>2, <3>3, MaxIs
    <3> QED
      BY <3>1, <3>2, <3>4 DEF TopOf
  <2>2. CASE h \notin Covering(a)
    <3>1. Upto(a, h + 1) = Upto(a, h)
      BY <1>0, <2>2 DEF Upto, Covering
    <3> QED
      BY <2>2, <3>1 DEF Reached, Partial
  <2> QED
    BY <2>1, <2>2
<1>4. Own(image, h) # {} => old[h] # Unset
  BY <1>2 DEF Through
<1> QED
  BY <1>3, <1>4

\* The last registration of the list is the last for every slot.
LEMMA UptoAll ==
    ASSUME Types, NEW a
    PROVE  Upto(a, Len(image.hooks) + 1) = Covering(a)
  BY Counts DEF Upto, Covering

LEMMA ReturnReaches ==
    ASSUME Inv, Reached, Passed, Return
    PROVE  Reached' /\ Passed'
<1>0. Types
  BY DEF Inv
<1>1. /\ pc = "slot" /\ todo = <<>> /\ UNCHANGED <<old, mem, failed>> /\ image' = image
      /\ todo' = <<>> /\ pc' \notin Visiting
      /\ \/ h < Len(image.hooks) /\ h' = h + 1 /\ pass' = pass /\ pc' = "hook"
         \/ /\ h = Len(image.hooks) /\ h' = 1
            /\ pass < image.passes /\ pass' = pass + 1 /\ pc' = "check"
         \/ /\ h = Len(image.hooks) /\ h' = 1
            /\ pass = image.passes /\ pass' = pass /\ pc' = "done"
  BY <1>0, NextHookLeads DEF Return, Visiting, Writing
<1>2. pass \in Nat \ {0} /\ h \in Nat /\ DOMAIN image.hooks = 1 .. Len(image.hooks)
      /\ Len(image.hooks) \in Nat
  BY <1>0, Counts DEF Types
<1>3. ASSUME failed = {} PROVE Answered'
  <2>1. Own(image, h) # {} => old[h] # Unset
    BY <1>1, <1>3, CallIsThrough
  <2>2. \A k \in DOMAIN image.hooks : k < h /\ Own(image, k) # {} => old[k] # Unset
    BY <1>3 DEF Reached, Answered
  <2>3. \A k \in DOMAIN image.hooks : pass > 1 /\ Own(image, k) # {} => old[k] # Unset
    BY <1>3 DEF Reached, Answered
  <2>4. CASE h < Len(image.hooks)
    BY <1>1, <1>2, <2>1, <2>2, <2>3, <2>4 DEF Answered
  <2>5. CASE h = Len(image.hooks)
    <3>1. \A k \in DOMAIN image.hooks : k = h \/ k < h
      BY <1>2, <2>5
    <3> QED
      BY <1>1, <2>1, <2>2, <3>1 DEF Answered
  <2> QED
    BY <1>2, <1>1, <2>4, <2>5
<1>4. ASSUME failed = {}
      PROVE  \A a \in DOMAIN image.slots : mem[a] = TopOf(Upto(a, h + 1), ShownBefore(a))
  BY <1>1, <1>4, CallIsThrough
<1>5. ASSUME failed = {}, h = Len(image.hooks) PROVE Final
  <2> SUFFICES ASSUME NEW a \in DOMAIN image.slots PROVE mem[a] = Settled(a)
    BY DEF Final
  <2>1. mem[a] = TopOf(Covering(a), ShownBefore(a))
    BY <1>0, <1>4, <1>5, UptoAll
  <2> QED
    BY <2>1 DEF ShownBefore, Settled, TopOf
<1>8. \A a : Covering(a)' = Covering(a) /\ Settled(a)' = Settled(a)
  BY <1>1 DEF Covering, Settled
<1>9. ASSUME failed = {}, pc' # "done" PROVE Partial'
  <2>1. CASE h' = h + 1 /\ pass' = pass
    <3>1. \A a : Upto(a, h)' = Upto(a, h + 1) /\ ShownBefore(a)' = ShownBefore(a)
      BY <1>1, <1>8, <2>1 DEF Upto, ShownBefore
    <3> QED
      BY <1>1, <1>4, <1>9, <3>1 DEF Partial
  <2>2. CASE h = Len(image.hooks) /\ h' = 1 /\ pass' = pass + 1
    <3>1. \A a : Upto(a, h)' = {} /\ ShownBefore(a)' = Settled(a)
      BY <1>1, <1>2, <1>8, <2>2 DEF Upto, Covering, ShownBefore
    <3> QED
      BY <1>1, <1>5, <1>9, <2>2, <3>1 DEF Partial, Final, TopOf
  <2> QED
    BY <1>1, <1>9, <2>1, <2>2
<1>10. ASSUME failed = {}, pc' = "done" PROVE Final'
  BY <1>1, <1>5, <1>8, <1>10 DEF Final
<1>6. Reached'
  BY <1>1, <1>3, <1>9, <1>10 DEF Reached
<1>7. Passed'
  BY <1>1 DEF Passed, Visiting, Writing
<1> QED
  BY <1>6, <1>7

LEMMA StoreReaches ==
    ASSUME Inv, Linked, Reached, Passed, Store
    PROVE  Reached' /\ Passed'
<1>0. Types /\ Course
  BY DEF Inv
<1>1. /\ pc = "store" /\ pc' \in {"slot", "restore"}
      /\ UNCHANGED <<image, old, h, pass, elf, failed>>
      /\ mem' = [mem EXCEPT ![Slot] = NewOf(h)]
      /\ pc' = "restore" => todo' = todo
      /\ pc' = "slot" => todo' = Tail(todo)
  BY DEF Store, NextSlot, Goto
<1>2. /\ todo # <<>> /\ image.hooks[h].replaces /\ h \in DOMAIN image.hooks
      /\ old[h] # Unset /\ mem[Slot] # NewOf(h)
  BY <1>0, <1>1 DEF Course, Types, Writing, Hook, Linked
<1>3. /\ Slot \in Own(image, h) /\ Slot \in DOMAIN image.slots
      /\ SlotsAt(elf, todo) = {Slot} \cup SlotsAt(elf, Tail(todo))
  BY <1>2, SlotIsOwn
<1>4. \A a \in DOMAIN image.slots : mem'[a] = IF a = Slot THEN NewOf(h) ELSE mem[a]
  BY <1>0, <1>1 DEF Types
<1>5. h \in Covering(Slot) /\ \A a : Covering(a)' = Covering(a) /\ Upto(a, h)' = Upto(a, h)
  BY <1>1, <1>2, <1>3 DEF Covering, Upto
<1>7. ASSUME failed = {} PROVE Partial' /\ Answered'
  <2>1. Partial /\ Answered
    BY <1>1, <1>7 DEF Reached
  <2>2. \A a : ShownBefore(a)' = ShownBefore(a)
    BY <1>1, <1>5 DEF ShownBefore, Settled
  <2>3. Partial'
    BY <1>1, <1>4, <1>5, <2>1, <2>2 DEF Partial
  <2>4. Answered'
    BY <1>1, <2>1 DEF Answered
  <2> QED
    BY <2>3, <2>4
<1>8. Reached'
  BY <1>1, <1>7 DEF Reached
<1>9. ASSUME failed = {} PROVE Passed'
  <2>1. mem'[Slot] = NewOf(h)
    BY <1>3, <1>4
  <2>2. ASSUME NEW a \in Own(image, h), a = Slot \/ a \notin SlotsAt(elf, todo)
        PROVE  Through(a)'
    <3>1. a \in DOMAIN image.slots
      BY <1>0, <1>2, OwnSlots DEF Types
    <3>2. CASE a = Slot
      BY <1>1, <1>2, <1>4, <3>1, <3>2 DEF Through
    <3>3. CASE a # Slot
      <4>1. Through(a)
        BY <1>1, <1>9, <2>2, <3>3 DEF Passed, Visiting, Writing
      <4> QED
        BY <1>1, <1>4, <3>1, <3>3, <4>1 DEF Through
    <3> QED
      BY <3>2, <3>3
  <2>3. CASE pc' = "slot"
    BY <1>1, <1>3, <2>2, <2>3 DEF Passed
  <2>4. CASE pc' = "restore"
    <3>1. Slot' = Slot
      BY <1>1, <2>4 DEF Slot
    <3>2. old'[h'] # Unset /\ mem'[Slot'] = NewOf(h')
      BY <1>1, <1>2, <2>1, <3>1
    <3>3. \A a \in Own(image', h') \ SlotsAt(elf', todo') : Through(a)'
      BY <1>1, <2>2, <2>4
    <3> QED
      BY <3>2, <3>3 DEF Passed, Through
  <2> QED
    BY <1>1, <2>3, <2>4
<1> QED
  BY <1>1, <1>8, <1>9 DEF Passed

\* A visit that leaves the slot as it is, and one that only reads it
LEMMA VisitReaches ==
    ASSUME Inv, Linked, Reached, Passed, FindOnly \/ AlreadyReplaced
    PROVE  Reached' /\ Passed'
<1>0. Types /\ Course
  BY DEF Inv
<1>1. /\ pc = "slot" /\ pc' = "slot" /\ todo # <<>> /\ todo' = Tail(todo)
      /\ UNCHANGED <<image, h, pass, elf, failed, mem>>
  BY DEF FindOnly, AlreadyReplaced, VisitsSlot, NextSlot, Goto
<1>2. /\ Slot \in Own(image, h) /\ Slot \in DOMAIN image.slots
      /\ SlotsAt(elf, todo) = {Slot} \cup SlotsAt(elf, Tail(todo))
  BY <1>1, SlotIsOwn
<1>3. mem[Slot] # Unset /\ h \in DOMAIN image.hooks
  BY <1>0, <1>2, ValuesAreSet DEF Types
<1>4. /\ \A k \in DOMAIN image.hooks : old[k] # Unset => old'[k] # Unset
      /\ \A k \in DOMAIN image.hooks : k # h => old'[k] = old[k]
      /\ old'[h] # Unset /\ (image.hooks[h].replaces => mem[Slot] = NewOf(h))
  <2>1. CASE FindOnly
    <3>1. old' = [old EXCEPT ![h] = mem[Slot]] /\ ~image.hooks[h].replaces
      BY <2>1 DEF FindOnly, Hook
    <3>2. DOMAIN old = DOMAIN image.hooks
      BY <1>0 DEF Types
    <3> QED
      BY <1>3, <3>1, <3>2
  <2>2. CASE AlreadyReplaced
    <3>1. old' = old /\ mem[Slot] = NewOf(h)
      BY <2>2 DEF AlreadyReplaced
    <3>2. mem[Slot] # image.slots[Slot]
      BY <1>0, <1>2, <3>1, Distinct DEF Types
    <3>3. PICK k \in DOMAIN image.hooks : mem[Slot] = NewOf(k) /\ old[k] # Unset
      BY <1>2, <3>2 DEF Linked, Shown
    <3>4. k = h
      BY <3>1, <3>3 DEF NewOf
    <3> QED
      BY <3>1, <3>3, <3>4
  <2> QED
    BY <2>1, <2>2
<1>5. Reached'
  <2>1. \A k \in DOMAIN image.hooks : old'[k] # Unset => Own(image, k) # {}
    BY <1>2, <1>4 DEF Reached
  <2>2. failed = {} => Answered'
    BY <1>1, <1>4 DEF Reached, Answered
  <2>3. /\ Partial => Partial'
        /\ Final => Final'
    BY <1>1 DEF Partial, Final, ShownBefore, Settled, Upto, Covering
  <2> QED
    BY <1>1, <2>1, <2>2, <2>3 DEF Reached
<1>6. Passed'
  <2>1. ASSUME failed = {}, NEW a \in Own(image, h), a \notin SlotsAt(elf, Tail(todo))
        PROVE  Through(a)'
    <3>1. CASE a = Slot
      BY <1>1, <1>4, <3>1 DEF Through
    <3>2. CASE a # Slot
      <4>1. Through(a)
        BY <1>1, <1>2, <2>1, <3>2 DEF Passed, Visiting
      <4> QED
        BY <1>1, <1>4, <4>1 DEF Through
    <3> QED
      BY <3>1, <3>2
  <2> QED
    BY <1>1, <2>1 DEF Passed
<1> QED
  BY <1>5, <1>6

LEMMA ReachedStep ==
    ASSUME Inv, Linked, Reached, Passed, TablesAreRead, [Next]_vars
    PROVE  Reached' /\ Passed'
<1>0. Types /\ Course
  BY DEF Inv
<1> USE DEF Goto
<1>1. ASSUME UNCHANGED <<image, h, pass, mem, old, failed>>,
             pc' = "done" <=> pc = "done"
      PROVE  Reached'
  <2>1. /\ Partial => Partial'
        /\ Final => Final'
    BY <1>1 DEF Partial, Final, ShownBefore, Settled, Upto, Covering
  <2>2. Answered => Answered'
    BY <1>1 DEF Answered
  <2> QED
    BY <1>1, <2>1, <2>2 DEF Reached
<1>2. ASSUME UNCHANGED <<image, old, mem>>, failed' = failed \cup {h}
      PROVE  Reached' /\ Passed'
  BY <1>2 DEF Reached, Passed
<1>3. ASSUME UNCHANGED <<image, h, pass, mem, old, failed>>,
             pc' = "done" <=> pc = "done", pc' \notin Visiting
      PROVE  Reached' /\ Passed'
  BY <1>1, <1>3 DEF Passed, Visiting, Writing
<1>4. ASSUME UNCHANGED <<image, h, pass, elf, todo, mem, failed>>,
             pc \in Visiting, pc' \in Visiting, pc' # "restore",
             old' = old \/ (old' = [old EXCEPT ![h] = mem[Slot]] /\ todo # <<>>)
      PROVE  Reached' /\ Passed'
  <2>1. /\ \A k \in DOMAIN image.hooks : old[k] # Unset => old'[k] # Unset
        /\ \A k \in DOMAIN image.hooks : k # h => old'[k] = old[k]
        /\ old'[h] # Unset => old[h] # Unset \/ Own(image, h) # {}
    <3>1. CASE old' = old
      BY <3>1
    <3>2. CASE old' = [old EXCEPT ![h] = mem[Slot]] /\ todo # <<>>
      <4>1. Slot \in Own(image, h) /\ Slot \in DOMAIN image.slots
        BY <3>2, SlotIsOwn
      <4>2. mem[Slot] # Unset
        BY <1>0, <4>1, ValuesAreSet DEF Types
      <4> QED
        BY <1>0, <3>2, <4>1, <4>2 DEF Types
    <3> QED
      BY <1>4, <3>1, <3>2
  <2>2. /\ Partial => Partial'
        /\ Final => Final'
    BY <1>4 DEF Partial, Final, ShownBefore, Settled, Upto, Covering
  <2>3. pc # "done" /\ pc' # "done"
    BY <1>4 DEF Visiting, Writing
  <2>4. Answered => Answered'
    BY <1>4, <2>1, <2>3 DEF Answered
  <2>5. h \in DOMAIN image.hooks
    BY <1>0 DEF Types
  <2>6. \A k \in DOMAIN image.hooks : old'[k] # Unset => Own(image, k) # {}
    BY <2>1, <2>5 DEF Reached
  <2>7. Reached'
    BY <1>4, <2>2, <2>3, <2>4, <2>6 DEF Reached
  <2>8. \A a : Through(a) => Through(a)'
    BY <1>4, <2>1, <2>5 DEF Through
  <2>9. Passed'
    BY <1>4, <2>8 DEF Passed
  <2> QED
    BY <2>7, <2>9
<1>5. CASE CheckHeader \/ ElfInit \/ Fault
  <2>1. /\ UNCHANGED <<image, h, pass, mem, old, failed>> /\ pc # "done" /\ pc' # "done"
        /\ pc' \notin Visiting
    BY <1>5 DEF CheckHeader, ElfInit, Fault, Visiting, Writing
  <2> QED
    BY <1>3, <2>1
<1>6. CASE ElfHook
  <2>1. /\ elf' = elf /\ image' = image /\ h' = h /\ pc' = "slot" /\ pc = "hook"
        /\ todo' = Wanted(image, elf, image.hooks[h].symbol)
        /\ UNCHANGED <<pass, mem, old, failed>>
    BY <1>6 DEF ElfHook, Hook
  <2>2. elf = Parse(image) /\ elf.ok /\ CheckElfHeader(image.ehdr)
    BY <1>0, <2>1 DEF Course
  <2>3. Decoded(image, elf)
    BY <1>0, <2>2 DEF TablesAreRead, Types
  <2>4. SlotsAt(elf, todo') = Own(image, h)
    BY <1>0, <2>1, <2>2, <2>3 DEF Decoded, Own, Types
  <2>5. Reached'
    BY <1>1, <2>1
  <2> QED
    BY <2>1, <2>4, <2>5 DEF Passed
<1>7. CASE Return
  BY <1>7, ReturnReaches
<1>8. CASE OutOfImage \/ UnprotectFails
  <2>1. UNCHANGED <<image, old, mem>> /\ failed' = failed \cup {h}
    BY <1>8 DEF OutOfImage, UnprotectFails, GiveUp, NextHook
  <2> QED
    BY <1>2, <2>1
<1>9. CASE FindOnly \/ AlreadyReplaced
  BY <1>9, VisitReaches
<1>10. CASE GetProtect
  <2>1. \/ UNCHANGED <<image, old, mem>> /\ failed' = failed \cup {h}
        \/ /\ UNCHANGED <<image, h, pass, elf, todo, mem, failed, old>>
           /\ pc = "slot" /\ pc' \in {"save", "unprotect"}
    BY <1>10 DEF GetProtect, GiveUp, NextHook, VisitsSlot
  <2>2. CASE UNCHANGED <<image, old, mem>> /\ failed' = failed \cup {h}
    BY <1>2, <2>2
  <2>3. CASE /\ UNCHANGED <<image, h, pass, elf, todo, mem, failed, old>>
             /\ pc = "slot" /\ pc' \in {"save", "unprotect"}
    <3>1. pc \in Visiting /\ pc' \in Visiting /\ pc' # "restore"
      BY <2>3 DEF Visiting, Writing
    <3> QED
      BY <1>4, <2>3, <3>1
  <2> QED
    BY <2>1, <2>2, <2>3
<1>11. CASE Unprotect \/ SaveOld
  <2>1. todo # <<>>
    BY <1>0, <1>11 DEF Unprotect, SaveOld, Course, Writing
  <2> QED
    BY <1>4, <1>11, <2>1 DEF Unprotect, SaveOld, Visiting, Writing
<1>12. CASE Store
  BY <1>12, StoreReaches
<1>13. CASE Restore \/ RestoreFails
  <2>1. /\ UNCHANGED <<image, h, pass, elf, mem, old, failed>>
        /\ pc = "restore" /\ pc' = "slot" /\ todo' = Tail(todo)
    BY <1>13 DEF Restore, RestoreFails, NextSlot
  <2>2. todo # <<>>
    BY <1>0, <2>1 DEF Course, Writing
  <2>3. SlotsAt(elf, todo) = {Slot} \cup SlotsAt(elf, Tail(todo))
    BY <2>2, SlotIsOwn
  <2>4. Reached'
    BY <1>1, <2>1
  <2>5. \A a : Through(a)' <=> Through(a)
    BY <2>1 DEF Through
  <2>6. Passed'
    BY <2>1, <2>3, <2>5 DEF Passed, Visiting, Writing
  <2> QED
    BY <2>4, <2>6
<1>14. CASE Seal \/ Unload \/ UNCHANGED vars
  <2>1. UNCHANGED <<image, h, pass, elf, todo, mem, old, failed, pc>>
    BY <1>14 DEF Seal, Unload, vars
  <2>2. Reached'
    BY <1>1, <2>1
  <2>3. Passed'
    BY <2>1 DEF Passed, Through, Slot
  <2> QED
    BY <2>2, <2>3
<1> QED
  BY <1>5, <1>6, <1>7, <1>8, <1>9, <1>10, <1>11, <1>12, <1>13, <1>14 DEF Next, Replace

\* Hooking is exact: no slot ever shows a function registered for another symbol,
\* and when all calls went through, each slot shows the last registration for its
\* symbol and each registration has an answer exactly when its symbol is used.
THEOREM HooksAreExact ==
    ASSUME BytesAreRead
    PROVE  Spec => []HookIsExact
<1>1. Inv /\ Inv' /\ Linked /\ Reached /\ Passed /\ [Next]_vars
      => Linked' /\ Reached' /\ Passed'
  BY TablesRead, LinkedStep, ReachedStep
<1>2. Init => Linked /\ Reached /\ Passed
  BY LinkedInit, ReachedInit
<1>3. Inv /\ Linked /\ Reached => HookIsExact
  <2> SUFFICES ASSUME Inv, Linked, Reached PROVE HookIsExact
    OBVIOUS
  <2>0. Types /\ Course /\ DOMAIN mem = DOMAIN image.slots
    BY DEF Inv, Types
  <2>1. ASSUME NEW a \in DOMAIN mem, NEW k \in DOMAIN image.hooks, mem[a] = NewOf(k)
        PROVE  a \in Meant(image, elf, image.hooks[k].symbol)
    <3>1. mem[a] # image.slots[a]
      BY <2>0, <2>1, Distinct DEF Types
    <3>2. PICK j \in DOMAIN image.hooks :
             mem[a] = NewOf(j) /\ a \in Own(image, j) /\ elf = Parse(image)
      BY <2>0, <2>1, <3>1 DEF Linked, Shown
    <3>3. j = k
      BY <2>1, <3>2 DEF NewOf
    <3> QED
      BY <3>2, <3>3 DEF Own
  <2>2. ASSUME pc = "done", failed = {}
        PROVE  /\ \A a \in DOMAIN mem :
                    mem[a] = TopOf({k \in DOMAIN image.hooks :
                                       /\ image.hooks[k].replaces
                                       /\ a \in Meant(image, elf, image.hooks[k].symbol)},
                                   image.slots[a])
               /\ \A k \in DOMAIN image.hooks :
                    old[k] = Unset <=> Meant(image, elf, image.hooks[k].symbol) = {}
    <3>1. \A k : Own(image, k) = Meant(image, elf, image.hooks[k].symbol)
      BY <2>0, <2>2 DEF Course, Own
    <3>2. Final /\ Answered
      BY <2>2 DEF Reached
    <3>3. \A a : Covering(a) = {k \in DOMAIN image.hooks :
                                  /\ image.hooks[k].replaces
                                  /\ a \in Meant(image, elf, image.hooks[k].symbol)}
      BY <3>1 DEF Covering
    <3>4. \A k \in DOMAIN image.hooks : old[k] = Unset <=> Own(image, k) = {}
      BY <2>2, <3>2 DEF Reached, Answered
    <3> QED
      BY <2>0, <3>1, <3>2, <3>3, <3>4 DEF Final, Settled
  <2> QED
    BY <2>1, <2>2 DEF HookIsExact
<1> QED
  BY TablesRead, InvAlways, <1>1, <1>2, <1>3, PTL DEF Spec
=============================================================================
