-------------------------------- MODULE XhElf --------------------------------
(****************************************************************************)
(* Hooking one loaded library (xh_elf.c, xh_util.c).                        *)
(*                                                                          *)
(* xh_elf_init reads the program headers and the dynamic section of a       *)
(* library, xh_elf_hook finds a symbol and puts a new function into every   *)
(* slot the relocations name for it, lifting the protection of the page for *)
(* the time of the store.  xh_core applies all its hooks to a library that  *)
(* way, and again (image.passes) when it found the library at another       *)
(* address in between or was cleared and set up anew.                       *)
(*                                                                          *)
(* While it does so the other threads of the process run: they call through *)
(* the slots, the dynamic linker may seal the RELRO pages, and a dlclose    *)
(* may unmap the library; xh_core catches the fault that follows.           *)
(*                                                                          *)
(* image.at gives the contents of the tables by their offset; the names of  *)
(* the symbol table stand in it directly, so the string table is only an    *)
(* address.  Functions are pairs: <<"own", symbol>> is what the linker put  *)
(* into the slots, <<"new", k>> the function of the k-th registration.      *)
(****************************************************************************)
EXTENDS XhReloc, XhSymbols

CONSTANTS
    Images,     \* libraries with the hooks that apply to them
    PageSize,   \* bytes of a page
    PtrSize     \* bytes of a slot

\* At least one registration applies to a library that is hooked.  The slots lie
\* on its pages and hold what the linker put there; the pages it is to seal are
\* writable data until then.
ASSUME ImagesAssumption ==
    /\ PageSize \in Nat \ {0} /\ PtrSize \in 1 .. PageSize
    /\ \A img \in Images :
        /\ Len(img.hooks) \in Nat \ {0} /\ DOMAIN img.hooks = 1 .. Len(img.hooks)
        /\ \A k \in DOMAIN img.hooks : img.hooks[k].replaces \in BOOLEAN
        /\ img.passes \in Nat \ {0}
        /\ img.refuses \in BOOLEAN /\ img.closes \in BOOLEAN
        /\ DOMAIN img.slots \subseteq Nat
        /\ \A a \in DOMAIN img.slots : img.slots[a][1] = "own"
        /\ DOMAIN img.pages \subseteq Nat
        /\ \A a \in DOMAIN img.slots :
            a \div PageSize .. (a + PtrSize - 1) \div PageSize \subseteq DOMAIN img.pages
        /\ \A p \in DOMAIN img.pages :
            /\ img.pages[p].rights \subseteq {"r", "w", "x"}
            /\ img.pages[p].relro \in BOOLEAN
            /\ img.pages[p].relro => img.pages[p].rights = {"r", "w"}

VARIABLES
    image,      \* the library: headers, dynamic section, tables, hooks
    elf,        \* xh_elf_t
    pc,         \* where the hooking thread is
    pass, h,    \* the pass and the hook it is at
    todo,       \* the offsets of the slots the current call still visits
    saved,      \* old_prot
    old,        \* *old_func of each hook, Unset before it is written
    mem,        \* the contents of the slots, by address
    rights,     \* the access rights of the pages, as /proc/self/maps shows them
    sealed,     \* the linker has protected the RELRO pages
    loaded,     \* the library is mapped
    failed      \* the hooks whose call returned early

vars == <<image, elf, pc, pass, h, todo, saved, old, mem, rights, sealed, loaded,
          failed>>

Unset == <<"unset">>
NewOf(k) == <<"new", k>>

JumpSlot == 1
GlobDat  == 2
Abs      == 3
SymOf(info)  == info \div 4     \* XH_ELF_R_SYM
TypeOf(info) == info % 4        \* XH_ELF_R_TYPE

-----------------------------------------------------------------------------
(* xh_elf_init *)

CheckElfHeader(e) ==
    /\ e.magic = "ELF" /\ e.class = ClassBits /\ e.data = "LSB"
    /\ e.ident_version = 1 /\ e.version = 1
    /\ e.type \in {"EXEC", "DYN"}
    /\ e.machine = "this"

EmptyElf == [ok |-> TRUE, ended |-> FALSE, base |-> 0, bias |-> 0,
             rela |-> FALSE, gnu |-> FALSE, strtab |-> 0, symtab |-> 0, hash |-> 0,
             relplt |-> 0, relplt_sz |-> 0, reldyn |-> 0, reldyn_sz |-> 0,
             relandroid |-> 0, relandroid_sz |-> 0]

FirstSegment(phdrs, Test(_)) == SelectInSeq(phdrs, Test)

PointerField == [STRTAB |-> "strtab", SYMTAB |-> "symtab", JMPREL |-> "relplt",
                 REL |-> "reldyn", RELA |-> "reldyn",
                 ANDROID_REL |-> "relandroid", ANDROID_RELA |-> "relandroid"]
SizeField == [PLTRELSZ |-> "relplt_sz", RELSZ |-> "reldyn_sz", RELASZ |-> "reldyn_sz",
              ANDROID_RELSZ |-> "relandroid_sz", ANDROID_RELASZ |-> "relandroid_sz"]

SetPointer(e, field, offset) ==
    LET addr == (e.bias + offset) % Word
    IN  IF addr < e.base THEN [e EXCEPT !.ok = FALSE] ELSE [e EXCEPT ![field] = addr]

ReadDynamic(e, d) ==
    CASE ~e.ok \/ e.ended             -> e
      [] d.tag = "NULL"               -> [e EXCEPT !.ended = TRUE]
      [] d.tag \in DOMAIN PointerField -> SetPointer(e, PointerField[d.tag], d.val)
      [] d.tag \in DOMAIN SizeField   -> [e EXCEPT ![SizeField[d.tag]] = d.val]
      [] d.tag = "PLTREL"             -> [e EXCEPT !.rela = (d.val = "RELA")]
      [] d.tag = "HASH" /\ ~e.gnu     -> SetPointer(e, "hash", d.val)
      [] d.tag = "GNU_HASH"           -> [SetPointer(e, "hash", d.val) EXCEPT !.gnu = TRUE]
      [] OTHER                        -> e

\* The android section starts with a magic of four bytes
CheckAndroid(e, at) ==
    CASE ~e.ok \/ e.relandroid = 0 -> e
      [] e.relandroid_sz >= 4 /\ at[e.relandroid - e.bias].magic = "APS2" ->
            [e EXCEPT !.relandroid_sz = @ - 4]
      [] OTHER -> [e EXCEPT !.ok = FALSE]

ElfCheck(e) ==
    [e EXCEPT !.ok = @ /\ \A field \in {"base", "bias", "strtab", "symtab", "hash"} :
                              e[field] # 0]

Parse(img) ==
    LET isLoad0(p)   == p.type = "LOAD" /\ p.offset = 0
        isDynamic(p) == p.type = "DYNAMIC"
        load0 == FirstSegment(img.phdrs, isLoad0)
        e0 == [EmptyElf EXCEPT !.base = img.base,
                               !.bias = img.base - img.phdrs[load0].vaddr]
    IN  IF \/ load0 = 0
           \/ img.base < img.phdrs[load0].vaddr
           \/ FirstSegment(img.phdrs, isDynamic) = 0
        THEN [EmptyElf EXCEPT !.ok = FALSE]
        ELSE ElfCheck(CheckAndroid(FoldLeft(ReadDynamic, e0, img.dynamic), img.at))

-----------------------------------------------------------------------------
(* What one call of xh_elf_hook visits *)

Table(img, e, addr) == img.at[addr - e.bias]

RelocsOf(img, e, section) ==
    CASE section = "plt" /\ e.relplt # 0 ->
            PlainRelocs(Table(img, e, e.relplt), e.relplt_sz, e.rela)
      [] section = "dyn" /\ e.reldyn # 0 ->
            PlainRelocs(Table(img, e, e.reldyn), e.reldyn_sz, e.rela)
      [] section = "android" /\ e.relandroid # 0 ->
            PackedRelocs(SubSeq(Table(img, e, e.relandroid).bytes, 1, e.relandroid_sz), e.rela)
      [] OTHER -> <<>>

SymbolIndex(img, e, name) == FindSymidx(e.gnu, Table(img, e, e.hash), Table(img, e, e.symtab), name)

\* The offsets of those of the relocations that name the symbol, in their order
Hits(relocs, types, symidx) ==
    LET named(k) == SymOf(relocs[k].info) = symidx /\ TypeOf(relocs[k].info) \in types
        hits[k \in 0 .. Len(relocs)] ==
            IF k = 0 THEN <<>>
            ELSE IF named(k) THEN Append(hits[k - 1], relocs[k].offset) ELSE hits[k - 1]
    IN  hits[Len(relocs)]

OffsetsIn(img, e, section, types, symidx) == Hits(RelocsOf(img, e, section), types, symidx)

\* Mutant: the first hit ends the whole search.
VisitsFirst(img, e, symidx) ==
    LET plt == OffsetsIn(img, e, "plt", {JumpSlot}, symidx)
    IN  IF plt # <<>> THEN <<Head(plt)>>
        ELSE OffsetsIn(img, e, "dyn", {GlobDat, Abs}, symidx)
             \o OffsetsIn(img, e, "android", {GlobDat, Abs}, symidx)

\* The search of the PLT ends at the first hit
Visits(img, e, symidx) ==
    LET plt == OffsetsIn(img, e, "plt", {JumpSlot}, symidx)
    IN  (IF plt = <<>> THEN <<>> ELSE <<Head(plt)>>)
        \o OffsetsIn(img, e, "dyn", {GlobDat, Abs}, symidx)
        \o OffsetsIn(img, e, "android", {GlobDat, Abs}, symidx)

\* The offsets one call for a symbol goes through
Wanted(img, e, name) ==
    LET symidx == SymbolIndex(img, e, name)
    IN  IF symidx = NoIndex THEN <<>> ELSE Visits(img, e, symidx)

SlotsAt(e, offsets) == {(e.bias + offsets[k]) % Word : k \in DOMAIN offsets}

-----------------------------------------------------------------------------
(* External: what the linker wrote.  image.linked are the relocations it    *)
(* made the tables from, image.symtab the names.                            *)

\* The slots of the library that are to hold the address of a symbol
Meant(img, e, name) ==
    {a \in DOMAIN img.slots :
        \E section \in DOMAIN img.linked : \E k \in DOMAIN img.linked[section] :
            LET r == img.linked[section][k]
            IN  /\ (e.bias + r.offset) % Word = a
                /\ img.symtab[SymOf(r.info)] = name
                /\ TypeOf(r.info) \in IF section = "plt" THEN {JumpSlot} ELSE {GlobDat, Abs}}

\* The tables hold the names and the relocations: a hash table is built over the
\* symbol table, a plain relocation table lists the words of its section, a missing
\* one stands for an empty section.  Names are unique, the procedure linkage table
\* has one slot for a symbol, and each slot belongs to the library.
Listed(img, e, section, addr, words) ==
    LET rs == img.linked[section]
    IN  IF addr = 0 THEN rs = <<>>
        ELSE Holds(Table(img, e, addr), words, e.rela, rs)

NamesOf(img) == {img.symtab[i] : i \in DOMAIN img.symtab} \cup img.names
                \cup {img.hooks[k].symbol : k \in DOMAIN img.hooks}

HashWritten(img, e) ==
    LET t == Table(img, e, e.hash)
        last == Cardinality(DOMAIN img.symtab) - 1
    IN  /\ last \in Nat /\ DOMAIN img.symtab = 0 .. last
        /\ \A name \in img.names : img.symtab[0] # name
        /\ \A k \in DOMAIN img.hooks : img.symtab[0] # img.hooks[k].symbol
        /\ Table(img, e, e.symtab) = img.symtab
        /\ e.gnu \in BOOLEAN
        /\ IF e.gnu THEN IsWrittenGnu(t, img.symtab, last) ELSE IsWrittenSysv(t, img.symtab)

RelocsWritten(img, e) ==
    /\ DOMAIN img.linked = {"plt", "dyn", "android"}
    /\ Listed(img, e, "plt", e.relplt, e.relplt_sz)
    /\ Listed(img, e, "dyn", e.reldyn, e.reldyn_sz)
    /\ e.rela \in BOOLEAN
    /\ \A section \in DOMAIN img.linked :
        LET rs == img.linked[section]
            wanted == IF section = "plt" THEN {JumpSlot} ELSE {GlobDat, Abs}
        IN  /\ rs \in Seq({rs[k] : k \in DOMAIN rs})
            /\ \A k \in DOMAIN rs :
                /\ rs[k].offset \in Nat /\ SymOf(rs[k].info) \in DOMAIN img.symtab
                /\ TypeOf(rs[k].info) \in wanted =>
                        (e.bias + rs[k].offset) % Word \in DOMAIN img.slots
    /\ \A j, k \in DOMAIN img.linked["plt"] :
        LET r(i) == img.linked["plt"][i]
        IN  /\ TypeOf(r(j).info) = JumpSlot /\ TypeOf(r(k).info) = JumpSlot
            /\ SymOf(r(j).info) = SymOf(r(k).info) => j = k

ASSUME TablesAssumption ==
    \A img \in Images :
        CheckElfHeader(img.ehdr) /\ Parse(img).ok =>
            /\ HashWritten(img, Parse(img)) /\ RelocsWritten(img, Parse(img))
            /\ \A i, j \in DOMAIN img.symtab : img.symtab[i] = img.symtab[j] => i = j

\* A symbol has one address.
ASSUME LinkerAssumption ==
    \A img \in Images : \A k \in DOMAIN img.hooks :
        \A a, b \in Meant(img, Parse(img), img.hooks[k].symbol) :
            img.slots[a] = img.slots[b]

-----------------------------------------------------------------------------
(* xh_util: the pages a slot covers *)

Rights == {"r", "w", "x"}
ReadWrite == {"r", "w"}
PageOf(addr) == addr \div PageSize
Covered(addr) == PageOf(addr) .. PageOf(addr + PtrSize - 1)

May(addr, right) == loaded /\ \A p \in Covered(addr) : right \in rights[p]

\* Mutant: a slot on two pages gets the rights of either.
GetAddrProtectEither(addr) ==
    [prot  |-> UNION {rights[p] : p \in Covered(addr)},
     found |-> \A p \in Covered(addr) : image.pages[p].mine /\ image.pages[p].private]

\* The walk over /proc/self/maps: lines that do not name the file, or are shared,
\* are passed over; a slot that reaches beyond the end of its line goes on in the
\* next one and has the rights of both.
GetAddrProtect(addr) ==
    [prot  |-> {right \in Rights : \A p \in Covered(addr) : right \in rights[p]},
     found |-> \A p \in Covered(addr) : image.pages[p].mine /\ image.pages[p].private]

SetAddrProtect(addr, prot) ==
    rights' = [p \in DOMAIN rights |-> IF p \in Covered(addr) THEN prot ELSE rights[p]]

-----------------------------------------------------------------------------

Init ==
    /\ image \in Images
    /\ elf = EmptyElf
    /\ pc = "check" /\ pass = 1 /\ h = 1
    /\ todo = <<>>
    /\ saved = {}
    /\ old = [k \in DOMAIN image.hooks |-> Unset]
    /\ mem = [a \in DOMAIN image.slots |-> image.slots[a]]
    /\ rights = [p \in DOMAIN image.pages |-> image.pages[p].rights]
    /\ sealed = FALSE
    /\ loaded = TRUE
    /\ failed = {}

Hook == image.hooks[h]
Slot == (elf.bias + Head(todo)) % Word

\* Takes the hooking thread to another point of the call
Goto(point) ==
    /\ pc' = point
    /\ UNCHANGED <<image, pass, h, sealed, loaded>>

\* Control goes on with the next slot
NextSlot == Goto("slot") /\ todo' = Tail(todo)

\* Mutant: the end of the list of hooks is not seen.
NextHookUnbounded ==
    /\ h' = h + 1 /\ pc' = "hook" /\ todo' = <<>>
    /\ UNCHANGED <<image, pass, sealed, loaded>>

\* The call returns, with an error or without; xh_core ignores which
NextHook ==
    /\ IF h < Len(image.hooks) THEN h' = h + 1 /\ pc' = "hook" /\ UNCHANGED pass
       ELSE h' = 1 /\ IF pass < image.passes
                      THEN pass' = pass + 1 /\ pc' = "check"
                      ELSE pc' = "done" /\ UNCHANGED pass
    /\ todo' = <<>>
    /\ UNCHANGED <<image, sealed, loaded>>

GiveUp == NextHook /\ failed' = failed \cup {h}

CheckHeader ==
    /\ pc = "check" /\ loaded
    /\ Goto(IF CheckElfHeader(image.ehdr) THEN "start" ELSE "rejected")
    /\ UNCHANGED <<elf, todo, saved, old, mem, rights, failed>>

ElfInit ==
    /\ pc = "start" /\ loaded
    /\ elf' = Parse(image)
    /\ Goto(IF elf'.ok THEN "hook" ELSE "rejected")
    /\ UNCHANGED <<todo, saved, old, mem, rights, failed>>

ElfHook ==
    /\ pc = "hook" /\ loaded
    /\ todo' = Wanted(image, elf, Hook.symbol)
    /\ Goto("slot")
    /\ UNCHANGED <<elf, saved, old, mem, rights, failed>>

Return ==
    /\ pc = "slot" /\ todo = <<>>
    /\ NextHook
    /\ UNCHANGED <<elf, saved, old, mem, rights, failed>>

\* The slot lies below the base address
OutOfImage ==
    /\ pc = "slot" /\ todo # <<>> /\ Slot < elf.base
    /\ GiveUp
    /\ UNCHANGED <<elf, saved, old, mem, rights>>

VisitsSlot == pc = "slot" /\ todo # <<>> /\ Slot >= elf.base /\ May(Slot, "r")

\* A registration without a new function only wants the old one
FindOnly ==
    /\ VisitsSlot /\ ~Hook.replaces
    /\ old' = [old EXCEPT ![h] = mem[Slot]]
    /\ NextSlot
    /\ UNCHANGED <<elf, saved, mem, rights, failed>>

AlreadyReplaced ==
    /\ VisitsSlot /\ Hook.replaces /\ mem[Slot] = NewOf(h)
    /\ NextSlot
    /\ UNCHANGED <<elf, saved, old, mem, rights, failed>>

\* Mutant: a slot that already shows the new function is replaced again.
GetProtectAgain ==
    /\ VisitsSlot /\ Hook.replaces
    /\ saved' = GetAddrProtect(Slot).prot
    /\ Goto(IF saved' = ReadWrite THEN "save" ELSE "unprotect")
    /\ UNCHANGED <<elf, todo, old, mem, rights, failed>>

GetProtect ==
    /\ VisitsSlot /\ Hook.replaces /\ mem[Slot] # NewOf(h)
    /\ LET walk == GetAddrProtect(Slot)
       IN  IF walk.found
           THEN /\ saved' = walk.prot
                /\ Goto(IF walk.prot = ReadWrite THEN "save" ELSE "unprotect")
                /\ UNCHANGED <<todo, failed>>
           ELSE GiveUp /\ UNCHANGED saved
    /\ UNCHANGED <<elf, old, mem, rights>>

Unprotect ==
    /\ pc = "unprotect" /\ loaded
    /\ SetAddrProtect(Slot, ReadWrite)
    /\ Goto("save")
    /\ UNCHANGED <<elf, todo, saved, old, mem, failed>>

UnprotectFails ==
    /\ pc = "unprotect" /\ (image.refuses \/ ~loaded)
    /\ GiveUp
    /\ UNCHANGED <<elf, saved, old, mem, rights>>

SaveOld ==
    /\ pc = "save" /\ May(Slot, "r")
    /\ old' = [old EXCEPT ![h] = mem[Slot]]
    /\ Goto("store")
    /\ UNCHANGED <<elf, todo, saved, mem, rights, failed>>

Store ==
    /\ pc = "store" /\ May(Slot, "w")
    /\ mem' = [mem EXCEPT ![Slot] = NewOf(h)]
    /\ IF saved = ReadWrite THEN NextSlot ELSE Goto("restore") /\ UNCHANGED todo
    /\ UNCHANGED <<elf, saved, old, rights, failed>>

Restore ==
    /\ pc = "restore" /\ loaded
    /\ SetAddrProtect(Slot, saved)
    /\ NextSlot
    /\ UNCHANGED <<elf, saved, old, mem, failed>>

\* Only a warning in the log
RestoreFails ==
    /\ pc = "restore" /\ (image.refuses \/ ~loaded)
    /\ NextSlot
    /\ UNCHANGED <<elf, saved, old, mem, rights, failed>>

\* The jump back to xh_core skips the remaining hooks of the library
Fault ==
    /\ \/ pc \in {"check", "start", "hook"} /\ ~loaded
       \/ pc = "slot" /\ todo # <<>> /\ Slot >= elf.base /\ ~May(Slot, "r")
       \/ pc = "save" /\ ~May(Slot, "r")
       \/ pc = "store" /\ ~May(Slot, "w")
    /\ Goto("faulted")
    /\ UNCHANGED <<elf, todo, saved, old, mem, rights, failed>>

-----------------------------------------------------------------------------
(* External: the linker seals the RELRO pages; another thread closes the    *)
(* library.                                                                 *)

Seal ==
    /\ ~sealed /\ loaded
    /\ \E p \in DOMAIN image.pages : image.pages[p].relro
    /\ sealed' = TRUE
    /\ rights' = [p \in DOMAIN rights |->
                     IF image.pages[p].relro THEN {"r"} ELSE rights[p]]
    /\ UNCHANGED <<image, elf, pc, pass, h, todo, saved, old, mem, loaded, failed>>

Unload ==
    /\ loaded /\ image.closes
    /\ loaded' = FALSE
    /\ UNCHANGED <<image, elf, pc, pass, h, todo, saved, old, mem, rights, sealed, failed>>

Replace ==
    \/ GetProtect \/ Unprotect \/ UnprotectFails \/ SaveOld \/ Store
    \/ Restore \/ RestoreFails

Next ==
    \/ CheckHeader \/ ElfInit \/ ElfHook \/ Return
    \/ OutOfImage \/ FindOnly \/ AlreadyReplaced
    \/ Replace \/ Fault
    \/ Seal \/ Unload

Spec == Init /\ [][Next]_vars

-----------------------------------------------------------------------------
(* Properties *)

Values == {image.slots[a] : a \in DOMAIN image.slots}
          \cup {NewOf(k) : k \in DOMAIN image.hooks}

\* The state has its shape: slots and saved functions hold functions, the
\* thread is at one of the registrations, pages have rights.
TypeOK ==
    /\ h \in DOMAIN image.hooks /\ pass \in 1 .. image.passes
    /\ SlotsAt(elf, todo) \subseteq DOMAIN image.slots
    /\ DOMAIN mem = DOMAIN image.slots /\ \A a \in DOMAIN mem : mem[a] \in Values
    /\ \A k \in DOMAIN old : old[k] \in Values \cup {Unset}
    /\ \A p \in DOMAIN rights : rights[p] \subseteq Rights
    /\ failed \subseteq DOMAIN image.hooks

\* A call goes through the slots the linker meant for the symbol, and no others
Decoded(img, e) ==
    \A k \in DOMAIN img.hooks :
        LET name == img.hooks[k].symbol
        IN  /\ Wanted(img, e, name) \in Seq(Nat)
            /\ SlotsAt(e, Wanted(img, e, name)) = Meant(img, e, name)

\* Both hash functions give the numbers the linker's gave.
HashesAgree(img) ==
    \A name \in NamesOf(img) :
        /\ ElfHash(name) = SysvHashOf(name) /\ SysvHashOf(name) \in Nat
        /\ GnuHash(name) = GnuHashOf(name) /\ GnuHashOf(name) \in Nat

\* The iterator hands out the relocations of a section, one for one.
SectionIsRead(img, e, section) == RelocsOf(img, e, section) = img.linked[section]

\* What xhook computes from the bytes of a library is what the linker put in: it
\* takes a library exactly when the library is sound, both hash functions agree
\* with the linker's, and each iterator returns the relocations of its section,
\* one for one.
ReadsBack ==
    /\ pc = "rejected" => ~image.sound
    /\ pc = "hook" /\ h = 1 =>
        /\ image.sound
        /\ HashesAgree(image)
        /\ \A section \in DOMAIN image.linked : SectionIsRead(image, elf, section)

\* Whichever hash table xhook takes, a name is found at an index that bears it, or
\* nowhere if the symbol table lacks it: no bucket, chain or bloom filter hides a
\* symbol, defined or imported.  So each registration is led to the slots of its
\* symbol and to no others.
NamesFound ==
    pc = "hook" /\ h = 1 =>
        /\ \A name \in image.names :
                LET i == SymbolIndex(image, elf, name)
                IN  IF \E j \in DOMAIN image.symtab : image.symtab[j] = name
                    THEN i \in DOMAIN image.symtab /\ image.symtab[i] = name
                    ELSE i = NoIndex
        /\ Decoded(image, elf)

\* The newest of the new functions of a set of registrations, or the original
TopOf(ks, original) == IF ks = {} THEN original ELSE NewOf(Max(ks))

\* A slot never shows a function registered for another symbol.  When all hooks
\* went through, each slot of a hooked symbol shows the last registration for
\* it, and a registration that only searches has an answer exactly when the
\* library uses the symbol.
HookIsExact ==
    /\ \A a \in DOMAIN mem : \A k \in DOMAIN image.hooks :
            mem[a] = NewOf(k) => a \in Meant(image, elf, image.hooks[k].symbol)
    /\ pc = "done" /\ failed = {} =>
        /\ \A a \in DOMAIN mem :
            mem[a] = TopOf({k \in DOMAIN image.hooks :
                               /\ image.hooks[k].replaces
                               /\ a \in Meant(image, elf, image.hooks[k].symbol)},
                           image.slots[a])
        /\ \A k \in DOMAIN image.hooks :
            old[k] = Unset <=> Meant(image, elf, image.hooks[k].symbol) = {}

\* No slot is gone through a second time that two registrations replace.
ReplacedInOnePass ==
    image.passes > 1 =>
        \A j, k \in DOMAIN image.hooks :
            j # k /\ image.hooks[j].replaces /\ image.hooks[k].replaces =>
                Meant(image, Parse(image), image.hooks[j].symbol)
                    \cap Meant(image, Parse(image), image.hooks[k].symbol) = {}

\* A thread that calls through a slot at any moment gets, from one registration to
\* an earlier one by way of the saved old functions, to the function the linker
\* had put there: the old function is saved before the new one shows, and no new
\* function is its own predecessor.  Two registrations for a symbol that are gone
\* through again end up as each other's predecessor; nothing is claimed of them.
OldLeadsHome ==
    ReplacedInOnePass =>
        \A a \in DOMAIN mem : \E way \in SUBSET DOMAIN image.hooks :
            /\ mem[a] = TopOf(way, image.slots[a])
            /\ \A k \in way : old[k] = TopOf({j \in way : j < k}, image.slots[a])

\* The rights a page should have: its own, or those of a sealed RELRO page
Due(p) == IF sealed /\ image.pages[p].relro THEN {"r"} ELSE image.pages[p].rights

\* Whenever the thread is not between unprotecting and restoring, the pages of the
\* library have the rights the loader gave them.  Where a slot lies across two
\* pages some may have lost a right, but none gains one unless a fault struck.
ProtectionKept ==
    loaded /\ ~image.refuses /\ pc \notin {"save", "store", "restore"} =>
        \A p \in DOMAIN rights :
            IF \A a \in DOMAIN mem : PageOf(a) = PageOf(a + PtrSize - 1)
            THEN rights[p] = Due(p)
            ELSE pc # "faulted" => rights[p] \subseteq Due(p)
=============================================================================
