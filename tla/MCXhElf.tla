------------------------------- MODULE MCXhElf -------------------------------
(***************************************************************************)
(* Libraries for XhElf, built the way a linker builds them, in four        *)
(* families: every way to pack a few relocations, symbol tables whose      *)
(* names collide, dynamic sections in every shape, and slots on pages of   *)
(* every kind with several hooks.  Bytes of LEB128 carry three bits and a  *)
(* word has eight, so that a number of three bytes overfills the word.     *)
(***************************************************************************)
EXTENDS XhElf

BaseAddr == 64
Bias(vaddr) == BaseAddr - vaddr
Info(sym, type) == 4 * sym + type
Rel(offset, sym, type) == [offset |-> offset, info |-> Info(sym, type)]

-----------------------------------------------------------------------------
(* The packer *)

Sleb(v) ==
    LET s == IF v % Word >= Word \div 2 THEN (v % Word) - Word ELSE v % Word
        n == Min({k \in 1 .. WordBits : - (Base ^ k) <= 2 * s /\ 2 * s < Base ^ k})
        digit(k) == ((s % (Base ^ n)) \div (Base ^ (k - 1))) % Base
    IN  [k \in 1 .. n |-> IF k < n THEN digit(k) + Base ELSE digit(k)]

Before(rs, k, field) == IF k = 1 THEN 0 ELSE rs[k - 1][field]
Step(rs, k, field) == (rs[k][field] - Before(rs, k, field)) % Word

\* The flags the relocations from a to b can be grouped with
Admissible(rs, a, b, rela) ==
    {f \in 0 .. 15 :
        /\ HasBit(f, 0) => \A k \in a .. b : rs[k].info = rs[a].info
        /\ HasBit(f, 1) => \A k \in a .. b : Step(rs, k, "offset") = Step(rs, a, "offset")
        /\ HasBit(f, 3) => rela
        /\ HasBit(f, 2) /\ HasBit(f, 3) =>
                \A k \in a .. b : rs[k].addend = rs[a].addend
        /\ ~HasBit(f, 3) => \A k \in a .. b : rs[k].addend = 0}

PackGroup(rs, a, b, f) ==
    LET one(k) == (IF HasBit(f, 1) THEN <<>> ELSE Sleb(Step(rs, k, "offset")))
                  \o (IF HasBit(f, 0) THEN <<>> ELSE Sleb(rs[k].info))
                  \o (IF HasBit(f, 3) /\ ~HasBit(f, 2)
                      THEN Sleb(Step(rs, k, "addend")) ELSE <<>>)
    IN  Sleb(b - a + 1) \o Sleb(f)
        \o (IF HasBit(f, 1) THEN Sleb(Step(rs, a, "offset")) ELSE <<>>)
        \o (IF HasBit(f, 0) THEN Sleb(rs[a].info) ELSE <<>>)
        \o (IF HasBit(f, 2) /\ HasBit(f, 3) THEN Sleb(Step(rs, a, "addend")) ELSE <<>>)
        \o FlattenSeq([k \in 1 .. b - a + 1 |-> one(a + k - 1)])

\* Two groups, the second from cut + 1 on, or one when cut is the length
Packings(rs, rela) ==
    LET n == Len(rs)
        head(cut) == Sleb(n) \o Sleb(0)
    IN  {head(n) \o PackGroup(rs, 1, n, f) : f \in Admissible(rs, 1, n, rela)}
        \cup UNION {{head(cut) \o PackGroup(rs, 1, cut, f) \o PackGroup(rs, cut + 1, n, g) :
                        f \in Admissible(rs, 1, cut, rela),
                        g \in Admissible(rs, cut + 1, n, rela)} : cut \in 1 .. n - 1}

-----------------------------------------------------------------------------
(* A library.  Its tables lie at the offsets 17 to 37 of the dynamic section. *)

Words(rs, rela) ==
    FlattenSeq([k \in DOMAIN rs |->
        <<rs[k].offset, rs[k].info>> \o (IF rela THEN <<0>> ELSE <<>>)])

Symtab == [i \in 0 .. 9 |-> IF i = 0 THEN <<>> ELSE <<i + 2>>]
SysvSymbols == SysvTable(Symtab, 2)
GnuSymbols == GnuTable(Symtab, 1, 1, 1, 2)
Header == [magic |-> "ELF", class |-> ClassBits, data |-> "LSB", ident_version |-> 1,
           version |-> 1, type |-> "DYN", machine |-> "this"]
Segments(vaddr) == <<[type |-> "PHDR", offset |-> 1, vaddr |-> 1],
                     [type |-> "LOAD", offset |-> 0, vaddr |-> vaddr],
                     [type |-> "LOAD", offset |-> 16, vaddr |-> vaddr + 16],
                     [type |-> "DYNAMIC", offset |-> 2, vaddr |-> 2]>>

Entry(tag, val) == [tag |-> tag, val |-> val]
Dynamic(plt, dyn, bytes, rela) ==
    LET e == EntryWords(rela)
    IN  <<Entry("NEEDED", 0), Entry("STRTAB", 17), Entry("SYMTAB", 18),
          Entry("PLTREL", IF rela THEN "RELA" ELSE "REL"),
          Entry("JMPREL", 24), Entry("PLTRELSZ", e * Len(plt)),
          Entry(IF rela THEN "RELA" ELSE "REL", 28), Entry("RELSZ", e * Len(dyn)),
          Entry("ANDROID_RELA", 32), Entry("ANDROID_RELASZ", 4 + Len(bytes)),
          Entry("HASH", 20), Entry("NULL", 0), Entry("SYMTAB", 19)>>

Page(rs) == [rights |-> rs, mine |-> TRUE, private |-> TRUE, relro |-> FALSE]
CodePage == Page({"r", "x"})
DataPage == Page({"r", "w"})
Sealed   == Page({"r"})
Relro    == [DataPage EXCEPT !.relro = TRUE]
Bss      == [DataPage EXCEPT !.mine = FALSE]
Shared   == [DataPage EXCEPT !.private = FALSE]
Hidden   == Page({})

\* 64 to 95 is code, 96 to 127 data of two kinds
Pages(p, q) == (4 :> CodePage) @@ (5 :> CodePage) @@ (6 :> p) @@ (7 :> q)

Hooked(name)   == [symbol |-> name, replaces |-> TRUE]
Searched(name) == [symbol |-> name, replaces |-> FALSE]

Library(plt, dyn, android, bytes, rela, vaddr, pages, hooks) ==
    LET all == plt \o dyn \o android
        slot(k) == (Bias(vaddr) + all[k].offset) % Word
    IN  [base |-> BaseAddr, ehdr |-> Header, phdrs |-> Segments(vaddr),
         dynamic |-> Dynamic(plt, dyn, bytes, rela),
         at |-> (18 :> Symtab) @@ (20 :> SysvSymbols)
                @@ (21 :> GnuSymbols)
                @@ (24 :> Words(plt, rela)) @@ (28 :> Words(dyn, rela))
                @@ (32 :> [magic |-> "APS2", bytes |-> bytes]),
         linked |-> [plt |-> plt, dyn |-> dyn, android |-> android],
         symtab |-> Symtab, names |-> {<<3>>, <<4>>, <<1>>},
         slots |-> [a \in {slot(k) : k \in DOMAIN all} |->
                       LET k == CHOOSE k \in DOMAIN all : slot(k) = a
                       IN  <<"own", SymOf(all[k].info)>>],
         pages |-> pages, hooks |-> hooks, passes |-> 1,
         sound |-> TRUE, refuses |-> FALSE, closes |-> FALSE]

-----------------------------------------------------------------------------
(* The families *)

Packed(offsets, infos, addends) ==
    [k \in DOMAIN offsets |-> [offset |-> offsets[k], info |-> infos[k],
                               addend |-> addends[k]]]

\* Equal steps and infos, or none equal; numbers of one to three bytes
RelaLists ==
    {Packed(<<32, 36, 40>>, <<Info(1, Abs), Info(1, Abs), Info(9, Abs)>>, <<100, 100, 0>>),
     Packed(<<60, 36, 40>>, <<Info(1, Abs), Info(2, GlobDat), Info(2, GlobDat)>>,
            <<0, 7, Word - 9>>),
     Packed(<<32, 48, 36>>, <<Info(1, Abs), Info(1, Abs), Info(1, Abs)>>, <<0, 0, 0>>)}
RelLists ==
    {Packed(<<32, 36, 40>>, <<Info(1, Abs), Info(1, Abs), Info(9, Abs)>>, <<0, 0, 0>>),
     Packed(<<60, 36, 12>>, <<Info(1, Abs), Info(2, GlobDat), Info(2, GlobDat)>>, <<0, 0, 0>>)}

PackedLibraries ==
    {Library(<<>>, <<>>, v[1], v[2], v[3], 0, Pages(DataPage, DataPage), <<Hooked(<<3>>)>>) :
        v \in UNION {{<<rs, bytes, TRUE>> : bytes \in Packings(rs, TRUE)} : rs \in RelaLists}
              \cup UNION {{<<rs, bytes, FALSE>> : bytes \in Packings(rs, FALSE)} :
                              rs \in RelLists}}

\* <<1, 34>> and <<2, 1>> have one GNU hash; the others share buckets
NameLists ==
    {<< <<1, 34>>, <<2, 1>>, <<9, 7>> >>, << <<200>>, <<9, 9, 9>>, <<2, 1>>, <<1, 34>> >>,
     << <<255, 255, 255>>, <<4>>, <<6>> >>}

NamedLibrary(names, gnu, table) ==
    LET symtab == [i \in 0 .. Len(names) |-> IF i = 0 THEN <<>> ELSE names[i]]
        dyn == [i \in 1 .. Len(names) |-> Rel(28 + 4 * i, i, GlobDat)]
        lib == Library(<<>>, dyn, <<>>, <<0, 0>>, FALSE, 0, Pages(DataPage, DataPage),
                       [i \in 1 .. Len(names) |-> Hooked(names[i])])
    IN  [lib EXCEPT !.symtab = symtab,
                    !.names = {names[i] : i \in DOMAIN names} \cup {<<7>>, <<3, 2, 1>>},
                    !.at = [[@ EXCEPT ![18] = symtab] EXCEPT ![20] = table],
                    !.dynamic = [@ EXCEPT ![11] = Entry(IF gnu THEN "GNU_HASH" ELSE "HASH", 20)]]

\* The defined names have to follow the order of their buckets
InBucketOrder(symtab, first, buckets) ==
    \A i, j \in first .. Len(symtab) :
        i < j => GnuHashOf(symtab[i]) % buckets <= GnuHashOf(symtab[j]) % buckets

NamedLibraries ==
    UNION {{NamedLibrary(names, FALSE, SysvTable([i \in 0 .. Len(names) |->
                IF i = 0 THEN <<>> ELSE names[i]], buckets)) : buckets \in 1 .. 3}
           \cup {NamedLibrary(names, TRUE, GnuTable([i \in 0 .. Len(names) |->
                    IF i = 0 THEN <<>> ELSE names[i]], v[1], v[2], v[3], v[4])) :
                    v \in {w \in (1 .. 4) \X (1 .. 2) \X (1 .. 2) \X {2, 5} :
                              InBucketOrder(names, w[1], w[2])}} :
           names \in NameLists}

Plain == Library(<<Rel(36, 1, JumpSlot)>>, <<Rel(44, 1, GlobDat), Rel(48, 2, Abs)>>,
                 <<>>, <<0, 0>>, TRUE, 0, Pages(DataPage, DataPage),
                 <<Hooked(<<3>>), Searched(<<4>>)>>)

Unsound(lib) == [lib EXCEPT !.sound = FALSE]
WithDynamic(k, e) == [Plain EXCEPT !.dynamic = [@ EXCEPT ![k] = e]]
Above(lib) == [lib EXCEPT !.phdrs = [@ EXCEPT ![2].vaddr = 16]]

ShapedLibraries ==
    {Plain,
     [Plain EXCEPT !.dynamic = Reverse(SubSeq(@, 1, 11))],
     WithDynamic(1, Entry("GNU_HASH", 21)),
     [Plain EXCEPT !.dynamic = Append(SubSeq(@, 1, 11), Entry("GNU_HASH", 21))],
     [Plain EXCEPT !.dynamic[9] = Entry("OTHER", 0)]}
    \cup {Unsound(WithDynamic(k, Entry("OTHER", 0))) : k \in {2, 3, 10, 11}}
    \cup {Unsound(WithDynamic(k, Entry("NULL", 0))) : k \in {2, 5, 10}}
    \cup {Unsound(WithDynamic(10, Entry("ANDROID_RELASZ", 3))),
          Unsound([Plain EXCEPT !.at[32].magic = "APR1"]),
          Unsound([Plain EXCEPT !.phdrs[2].offset = 16]),
          Unsound([Plain EXCEPT !.phdrs[4].type = "NOTE"]),
          Unsound([Plain EXCEPT !.phdrs[2].vaddr = 80]),
          Unsound([Plain EXCEPT !.phdrs[2].vaddr = 64])}
    \cup {Unsound(Above(WithDynamic(k, Entry(Plain.dynamic[k].tag, 0)))) :
              k \in {2, 3, 5, 7, 9, 11}}
    \cup {Unsound([Plain EXCEPT !.ehdr[f] = 0]) :
              f \in {"class", "ident_version", "version"}}
    \cup {Unsound([Plain EXCEPT !.ehdr[f] = "other"]) :
              f \in {"magic", "data", "type", "machine"}}

\* An unaligned slot may lie across the pages: 108 and 112 are on two pages
SlotLists ==
    {<<Rel(36, 1, JumpSlot), Rel(44, 1, GlobDat), Rel(48, 2, Abs), Rel(52, 1, 0)>>,
     <<Rel(32, 1, JumpSlot), Rel(46, 1, Abs), Rel(56, 2, GlobDat), Rel(60, 0, Abs)>>}

HookLists == {<<Hooked(<<3>>), Hooked(<<3>>)>>, <<Hooked(<<3>>), Hooked(<<4>>), Searched(<<3>>)>>,
              <<Searched(<<3>>), Hooked(<<1>>), Hooked(<<4>>)>>}

SlotLibraries ==
    {[Library(<<r[1]>>, Tail(r), <<>>, <<0, 0>>, FALSE, 0, Pages(p, q), hooks)
        EXCEPT !.refuses = env = "refuses", !.closes = env = "closes", !.passes = n] :
        r \in SlotLists, hooks \in HookLists, env \in {"calm", "refuses", "closes"},
        n \in 1 .. 2,
        p \in {DataPage, Relro, CodePage, Sealed},
        q \in {DataPage, Relro, Bss, Shared, Hidden}}

\* A relocation below the base address: linked at 16, loaded at 64, slot at 60
LowLibrary ==
    [Library(<<>>, <<Rel(12, 1, Abs), Rel(56, 1, Abs), Rel(60, 2, Abs)>>, <<>>, <<0, 0>>,
             FALSE, 16, Pages(DataPage, DataPage), <<Hooked(<<3>>), Hooked(<<4>>)>>)
        EXCEPT !.pages = @ @@ (3 :> Hidden)]

MCImages == PackedLibraries \cup NamedLibraries \cup ShapedLibraries
            \cup SlotLibraries \cup {LowLibrary}
=============================================================================
