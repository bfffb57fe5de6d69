------------------------------- MODULE XhReloc -------------------------------
(****************************************************************************)
(* The relocation iterators of xhook (xh_elf.c, lines 77-260).              *)
(*                                                                          *)
(* A library lists the slots its imports live in either in a plain table of *)
(* Rel or Rela entries or in a packed section ("APS2"): a stream of signed  *)
(* LEB128 numbers that hold groups of relocations.  The iterators hand out  *)
(* one relocation per call; here each yields the whole sequence of          *)
(* relocations a caller gets before the first NULL.                         *)
(*                                                                          *)
(* Widths are constants: the code has DigitBits = 7 and WordBits = 32 or 64;*)
(* a word that is no multiple of the digit shows the same edge when small.  *)
(****************************************************************************)
EXTENDS Integers, Sequences, SequencesExt, FiniteSetsExt

CONSTANTS
    DigitBits,  \* payload bits of one LEB128 byte, seven in the code
    WordBits    \* bits of size_t and of ElfW(Addr)

ASSUME WidthAssumption ==
    /\ DigitBits \in Nat \ {0}
    /\ WordBits \in Nat \ {0}

Base == 2 ^ DigitBits
Word == 2 ^ WordBits

\* Whether a number has the flag bit 2^k set
HasBit(n, k) == (n \div (2 ^ k)) % 2 = 1

-----------------------------------------------------------------------------
(* The plain iterator.  A table is read as machine words: an entry holds    *)
(* r_offset and r_info, and r_addend as a third word when it is a Rela.     *)

EntryWords(rela) == IF rela THEN 3 ELSE 2

PlainRelocs(table, words, rela) ==
    LET e == EntryWords(rela)
        n == (words + e - 1) \div e
    IN  [k \in 1 .. n |-> [offset |-> table[(k - 1) * e + 1],
                           info   |-> table[(k - 1) * e + 2]]]

\* External: the words of a table a linker writes for a list of relocations
Holds(table, words, rela, relocs) ==
    /\ words = EntryWords(rela) * Len(relocs)
    /\ \A k \in DOMAIN relocs :
        relocs[k] = [offset |-> table[(k - 1) * EntryWords(rela) + 1],
                     info   |-> table[(k - 1) * EntryWords(rela) + 2]]

-----------------------------------------------------------------------------
(* The signed LEB128 decoder.  A byte below Base ends a number.             *)

\* Mutant: negative numbers are not extended to the width of a word.
SlebNextUnsigned(bytes, cur) ==
    LET ends == {k \in cur .. Len(bytes) : bytes[k] < Base}
    IN  IF ends = {}
        THEN [ok |-> FALSE, cur |-> Len(bytes) + 1, value |-> 0]
        ELSE [ok |-> TRUE, cur |-> Min(ends) + 1,
              value |-> FoldRight(LAMBDA b, high : (b % Base) + Base * high,
                                  SubSeq(bytes, cur, Min(ends)), 0) % Word]

SlebNext(bytes, cur) ==
    LET ends  == {k \in cur .. Len(bytes) : bytes[k] < Base}
        last  == Min(ends)
        shift == (last - cur + 1) * DigitBits
        value == FoldRight(LAMBDA b, high : (b % Base) + Base * high,
                           SubSeq(bytes, cur, last), 0) % Word
        negative == shift < WordBits /\ HasBit(bytes[last], DigitBits - 1)
    IN  IF ends = {}
        THEN [ok |-> FALSE, cur |-> Len(bytes) + 1, value |-> 0]
        ELSE [ok |-> TRUE, cur |-> last + 1,
              value |-> (IF negative THEN value - 2 ^ shift ELSE value) % Word]

-----------------------------------------------------------------------------
(* The packed iterator.  it.ok is FALSE once a read ran out of bytes.       *)

\* One number from the stream, stored in, or added to, a field
Stored(it, field, d) ==
    IF it.ok /\ d.ok THEN [it EXCEPT !.cur = d.cur, ![field] = d.value]
    ELSE [it EXCEPT !.ok = FALSE]

Added(it, field, d) == Stored(it, field, [d EXCEPT !.value = (it[field] + @) % Word])

Read(it, field)     == Stored(it, field, SlebNext(it.bytes, it.cur))
ReadMore(it, field) == Added(it, field, SlebNext(it.bytes, it.cur))

GroupedByInfo(it)   == HasBit(it.flags, 0)
GroupedByDelta(it)  == HasBit(it.flags, 1)
GroupedByAddend(it) == HasBit(it.flags, 2)
HasAddend(it)       == HasBit(it.flags, 3)

PackedInit(bytes, rela) ==
    Read(Read([ok |-> TRUE, bytes |-> bytes, cur |-> 1, rela |-> rela,
               count |-> 0, size |-> 0, flags |-> 0, delta |-> 0, inGroup |-> 0,
               offset |-> 0, info |-> 0, addend |-> 0, out |-> <<>>],
              "count"), "offset")

\* The fields a group shares, in the order they are read
GroupDelta(it)  == IF GroupedByDelta(it) THEN Read(it, "delta") ELSE it
GroupInfo(it)   == IF GroupedByInfo(it) THEN Read(it, "info") ELSE it
GroupAddend(it) ==
    CASE ~HasAddend(it)       -> [it EXCEPT !.addend = 0]
      [] ~GroupedByAddend(it) -> it
      [] it.rela              -> ReadMore(it, "addend")
      [] OTHER                -> [it EXCEPT !.ok = FALSE]

ReadGroupFields(it) ==
    [GroupAddend(GroupInfo(GroupDelta(Read(Read(it, "size"), "flags"))))
        EXCEPT !.inGroup = 0]

\* The fields of one relocation, in the order they are read
NextGroup(it)  == IF it.inGroup = it.size THEN ReadGroupFields(it) ELSE it
NextOffset(it) == IF GroupedByDelta(it) THEN [it EXCEPT !.offset = (@ + it.delta) % Word]
                  ELSE ReadMore(it, "offset")
NextInfo(it)   == IF GroupedByInfo(it) THEN it ELSE Read(it, "info")
NextAddend(it) == IF it.rela /\ HasAddend(it) /\ ~GroupedByAddend(it)
                  THEN ReadMore(it, "addend") ELSE it
HandOut(it) ==
    IF it.ok
    THEN [it EXCEPT !.inGroup = @ + 1,
                    !.out = Append(@, [offset |-> it.offset, info |-> it.info,
                                       addend |-> IF it.rela THEN it.addend ELSE 0])]
    ELSE it

PackedNext(it) == HandOut(NextAddend(NextInfo(NextOffset(NextGroup(it)))))

\* The caller ignores the result of init: when that failed, every later read of
\* the stream fails as well, so no relocation comes out
PackedRelocs(bytes, rela) ==
    LET it0 == PackedInit(bytes, rela)
        step(it, k) == IF it.ok THEN PackedNext(it) ELSE it
    IN  FoldLeft(step, it0, [k \in 1 .. it0.count |-> k]).out
=============================================================================
