------------------------------ MODULE XhSymbols ------------------------------
(****************************************************************************)
(* Symbol lookup in a library (xh_elf.c, lines 302-446).                    *)
(*                                                                          *)
(* xhook wants the index a symbol name has in the dynamic symbol table.  A  *)
(* library carries a System V hash table, a GNU one, or both; the GNU table *)
(* lists only the symbols the library defines, so its imports are searched  *)
(* one by one.  Names are sequences of small numbers, hashes have HashBits  *)
(* bits (32 in the code), and a word of the bloom filter is the set of its  *)
(* bits.  Tables are functions from 0, as in the file.                      *)
(****************************************************************************)
EXTENDS Integers, Sequences, SequencesExt, FiniteSetsExt

CONSTANTS
    HashBits,   \* bits of uint32_t, at least 8
    ClassBits   \* bits of ElfW(Addr): the width of one bloom word

ASSUME BitsAssumption == HashBits \in Nat /\ HashBits >= 8 /\ ClassBits \in Nat \ {0}

NoIndex == -1   \* XH_ERRNO_NOTFND

HashSpace == 2 ^ HashBits

\* The operator ^ of C
BitsOf(n) == {k \in 0 .. HashBits - 1 : (n \div (2 ^ k)) % 2 = 1}
Xor(a, b) == SumSet({2 ^ k : k \in SymDiff(BitsOf(a), BitsOf(b))})

ElfHash(name) ==
    LET top == 2 ^ (HashBits - 4)
        add(h, c) == LET sum == (16 * h + c) % HashSpace
                     IN  Xor(sum % top, (sum \div top) * 16)
    IN  FoldLeft(add, 0, name)

GnuHash(name) ==
    LET add(h, c) == (h + 32 * h + c) % HashSpace
    IN  FoldLeft(add, 5381 % HashSpace, name)

\* The index HashLookup returns: the first in the chain with the right name
HashLookup(t, symtab, name) ==
    LET walk[i \in DOMAIN symtab] ==
            IF i = 0 THEN NoIndex
            ELSE IF symtab[i] = name THEN i ELSE walk[t.chain[i]]
    IN  walk[t.bucket[ElfHash(name) % t.bucket_cnt]]

GnuLookupDef(t, symtab, name) ==
    LET hash  == GnuHash(name)
        mask  == {hash % ClassBits, (hash \div (2 ^ t.bloom_shift)) % ClassBits}
        first == t.bucket[hash % t.bucket_cnt]
        chain(i) == t.chain[i - t.symoffset]
        last  == Min({i \in DOMAIN symtab : i >= first /\ chain(i) % 2 = 1})
        found == {i \in first .. last : /\ hash \div 2 = chain(i) \div 2
                                        /\ symtab[i] = name}
    IN  IF \/ ~(mask \subseteq t.bloom[(hash \div ClassBits) % t.bloom_sz])
           \/ first < t.symoffset
           \/ found = {}
        THEN NoIndex
        ELSE Min(found)

GnuLookupUndef(t, symtab, name) ==
    LET found == {i \in 0 .. t.symoffset - 1 : symtab[i] = name}
    IN  IF found = {} THEN NoIndex ELSE Min(found)

\* Mutant: the symbols a library only imports are not searched.
GnuLookupDefined(t, symtab, name) == GnuLookupDef(t, symtab, name)

GnuLookup(t, symtab, name) ==
    LET i == GnuLookupDef(t, symtab, name)
    IN  IF i # NoIndex THEN i ELSE GnuLookupUndef(t, symtab, name)

FindSymidx(gnu, t, symtab, name) ==
    IF gnu THEN GnuLookup(t, symtab, name) ELSE HashLookup(t, symtab, name)

-----------------------------------------------------------------------------
(* External: the tables a linker writes for a symbol table.  The names from *)
(* symoffset on are the library's own, in the order of their buckets.       *)

\* The gABI hash as a shift register: the top four bits are fed back but left where
\* they are, the next shift drops them, and only the result is cut to size
SysvHashOf(name) ==
    LET cut == 2 ^ (HashBits - 4)
        shift(h, c) == LET sum == (16 * h + c) % HashSpace
                       IN  Xor(sum, 16 * (sum \div cut))
    IN  FoldLeft(shift, 0, name) % cut

\* The GNU hash as a polynomial in 33
GnuHashOf(name) ==
    LET n == Len(name)
        term(acc, k) == (acc + name[k] * 33 ^ (n - k)) % HashSpace
    IN  FoldLeft(term, (5381 * 33 ^ n) % HashSpace, [k \in 1 .. n |-> k])

SysvTable(symtab, buckets) ==
    LET of(i) == SysvHashOf(symtab[i]) % buckets
        newest(S) == IF S = {} THEN 0 ELSE Max(S)
        named == DOMAIN symtab \ {0}
    IN  [bucket_cnt |-> buckets,
         bucket |-> [b \in 0 .. buckets - 1 |-> newest({i \in named : of(i) = b})],
         chain  |-> [i \in DOMAIN symtab |->
                        newest({j \in named : j < i /\ of(j) = of(i)})]]

GnuTable(symtab, symoffset, buckets, bloomWords, shift) ==
    LET own   == {i \in DOMAIN symtab : i >= symoffset}
        h(i)  == GnuHashOf(symtab[i])
        of(i) == h(i) % buckets
        first(S) == IF S = {} THEN 0 ELSE Min(S)
        ends(i) == i + 1 \notin own \/ of(i + 1) # of(i)
    IN  [bucket_cnt |-> buckets, symoffset |-> symoffset,
         bloom_sz |-> bloomWords, bloom_shift |-> shift,
         bloom  |-> [w \in 0 .. bloomWords - 1 |->
                        UNION {{h(i) % ClassBits, (h(i) \div (2 ^ shift)) % ClassBits} :
                               i \in {j \in own : (h(j) \div ClassBits) % bloomWords = w}}],
         bucket |-> [b \in 0 .. buckets - 1 |-> first({i \in own : of(i) = b})],
         chain  |-> [k \in 0 .. Cardinality(own) - 1 |->
                        LET i == k + symoffset
                        IN  2 * (h(i) \div 2) + (IF ends(i) THEN 1 ELSE 0)]]

\* What holds of a table the linker wrote for a symbol table 0 .. last
IsWrittenSysv(t, symtab) ==
    t.bucket_cnt \in Nat \ {0} /\ t = SysvTable(symtab, t.bucket_cnt)

IsWrittenGnu(t, symtab, last) ==
    /\ t.symoffset \in 1 .. last + 1
    /\ t.bucket_cnt \in Nat \ {0} /\ t.bloom_sz \in Nat \ {0}
    /\ t = GnuTable(symtab, t.symoffset, t.bucket_cnt, t.bloom_sz, t.bloom_shift)
    /\ \A i, j \in t.symoffset .. last :
        i < j => GnuHashOf(symtab[i]) % t.bucket_cnt <= GnuHashOf(symtab[j]) % t.bucket_cnt
=============================================================================
