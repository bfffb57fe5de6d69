--------------------------- MODULE XhTablesProofs ---------------------------
(****************************************************************************)
(* That xhook reads the tables of a library the way the linker wrote them,  *)
(* for every symbol table, every number of buckets and bloom words and      *)
(* every list of relocations.                                               *)
(*                                                                          *)
(* The lookups walk chains, runs and lists, defined here as recursive       *)
(* functions.  That such a function exists, and what it yields, is shown    *)
(* by the least index at which it would fail (LeastExists): the prover has  *)
(* no other induction over data.  Folds stay out of reach, so what the two  *)
(* hash functions make of a name and what the packed iterator makes of its  *)
(* bytes is a hypothesis, BytesAreRead, which TLC checks in ReadsBack.      *)
(****************************************************************************)
EXTENDS XhElf, NaturalsInduction, WellFoundedInduction,
        FiniteSetTheorems, TLAPS

-----------------------------------------------------------------------------
(* Least and greatest elements *)

\* Every set of naturals that is not empty has a least element.
LEMMA LeastExists ==
    ASSUME NEW S \in SUBSET Nat, S # {}
    PROVE  \E x \in S : \A y \in S : x <= y
<1>1. \E x \in S : \A y \in S : ~ (<<y, x>> \in OpToRel(<, Nat))
  BY NatLessThanWellFounded, WFMin
<1>2. \E x \in S : \A y \in S : ~ (y < x)
  BY <1>1, Zenon DEF OpToRel
<1> QED
  BY <1>2

LEMMA MinOf ==
    ASSUME NEW S \in SUBSET Nat, S # {}
    PROVE  Min(S) \in S /\ \A y \in S : Min(S) <= y
BY LeastExists, Zenon DEF Min

\* So has every set of numbers up to n a greatest one.
LEMMA MaxOf ==
    ASSUME NEW n \in Nat, NEW S \in SUBSET (0 .. n), S # {}
    PROVE  Max(S) \in S /\ \A y \in S : y <= Max(S)
<1> DEFINE T == {n - x : x \in S}
<1>1. T \in SUBSET Nat /\ T # {}
  <2>1. \A x \in S : n - x \in Nat
    OBVIOUS
  <2> QED
    BY <2>1, Zenon
<1>2. PICK z \in T : \A y \in T : z <= y
  BY <1>1, LeastExists
<1>3. PICK x \in S : z = n - x
  BY <1>2
<1>4. \A y \in S : x >= y
  <2> TAKE y \in S
  <2>1. n - y \in T /\ x \in Int /\ y \in Int
    OBVIOUS
  <2>2. n - x <= n - y
    BY <1>2, <1>3, <2>1
  <2> QED
    BY <2>1, <2>2
<1>5. Max(S) \in S /\ \A y \in S : Max(S) >= y
  BY <1>4, Zenon DEF Max
<1> QED
  BY <1>5

-----------------------------------------------------------------------------

Walked(f, m, symtab, chain, name) ==
    \A i \in 0 .. m :
        f[i] = IF i = 0 THEN NoIndex
               ELSE IF symtab[i] = name THEN i ELSE f[chain[i]]

IsWalk(f, n, symtab, chain, name) ==
    f = [i \in 0 .. n |-> IF i = 0 THEN NoIndex
                          ELSE IF symtab[i] = name THEN i ELSE f[chain[i]]]

\* A walk along a chain that leads to smaller and smaller indices is defined.
LEMMA WalkExists ==
    ASSUME NEW n \in Nat, NEW symtab, NEW chain, NEW name,
           \A i \in 1 .. n : chain[i] \in 0 .. i - 1
    PROVE  \E f : IsWalk(f, n, symtab, chain, name)
<1> DEFINE W(f, m) == Walked(f, m, symtab, chain, name)
           Bad == {m \in 0 .. n : ~ \E f : W(f, m)}
<1>1. Bad = {}
  <2> SUFFICES ASSUME Bad # {} PROVE FALSE
    OBVIOUS
  <2>1. PICK m \in Bad : \A y \in Bad : m <= y
    <3>1. Bad \in SUBSET Nat
      OBVIOUS
    <3> QED
      BY <3>1, LeastExists
  <2>2. CASE m = 0
    <3>1. W([i \in 0 .. 0 |-> NoIndex], 0)
      BY DEF Walked
    <3> QED
      BY <2>1, <2>2, <3>1
  <2>3. CASE m # 0
    <3>1. m - 1 \in 0 .. n /\ m \in 1 .. n /\ m - 1 \notin Bad
      BY <2>1, <2>3
    <3>2. PICK f : W(f, m - 1)
      BY <3>1
    <3> DEFINE g == [i \in 0 .. m |->
                        IF i # m THEN f[i]
                        ELSE IF symtab[i] = name THEN i ELSE f[chain[i]]]
    <3>3. \A i \in 0 .. m - 1 : g[i] = f[i]
      BY <3>1
    <3>4. \A i \in 0 .. m : i # 0 => chain[i] \in 0 .. m - 1 /\ i \in 0 .. m
      BY <3>1
    <3>5. \A i \in 0 .. m - 1 :
             g[i] = IF i = 0 THEN NoIndex
                    ELSE IF symtab[i] = name THEN i ELSE g[chain[i]]
      <4> HIDE DEF g
      <4> TAKE i \in 0 .. m - 1
      <4>1. f[i] = IF i = 0 THEN NoIndex
                   ELSE IF symtab[i] = name THEN i ELSE f[chain[i]]
        BY <3>2 DEF Walked
      <4>2. i # 0 => g[chain[i]] = f[chain[i]]
        <5> SUFFICES ASSUME i # 0 PROVE g[chain[i]] = f[chain[i]]
          OBVIOUS
        <5>1. i \in 0 .. m
          BY <3>1
        <5>2. chain[i] \in 0 .. m - 1
          BY <3>4, <5>1
        <5> QED
          BY <3>3, <5>2
      <4>3. g[i] = f[i]
        BY <3>3
      <4> QED
        BY <4>1, <4>2, <4>3
    <3>6. g[m] = IF symtab[m] = name THEN m ELSE g[chain[m]]
      BY <3>1, <3>3, <3>4
    <3>7. W(g, m)
      <4> HIDE DEF g
      <4> QED
        BY <2>3, <3>1, <3>5, <3>6 DEF Walked
    <3> QED
      BY <2>1, <3>7
  <2> QED
    BY <2>2, <2>3
<1>2. PICK f : W(f, n)
  BY <1>1
<1> DEFINE g == [i \in 0 .. n |-> f[i]]
<1>3. \A i \in 0 .. n : g[i] = IF i = 0 THEN NoIndex
                               ELSE IF symtab[i] = name THEN i ELSE g[chain[i]]
  BY <1>2 DEF Walked
<1>4. g = [i \in 0 .. n |-> IF i = 0 THEN NoIndex
                            ELSE IF symtab[i] = name THEN i ELSE g[chain[i]]]
  <2>1. g = [i \in 0 .. n |-> g[i]]
    OBVIOUS
  <2> HIDE DEF g
  <2> QED
    BY <1>3, <2>1
<1> QED
  BY <1>4 DEF IsWalk

\* What the linker puts into a bucket and into a chain: the last symbol of the
\* bucket, and the last one before.
LEMMA SysvChains ==
    ASSUME NEW n \in Nat, NEW symtab, DOMAIN symtab = 0 .. n,
           NEW buckets \in Nat \ {0},
           \A i \in 1 .. n : SysvHashOf(symtab[i]) \in Nat
    PROVE  LET t == SysvTable(symtab, buckets)
               of(i) == SysvHashOf(symtab[i]) % buckets
           IN  /\ t.bucket_cnt = buckets
               /\ \A b \in 0 .. buckets - 1 :
                    /\ t.bucket[b] \in 0 .. n
                    /\ t.bucket[b] # 0 => of(t.bucket[b]) = b
                    /\ \A j \in 1 .. n : of(j) = b => j <= t.bucket[b]
               /\ \A i \in 1 .. n :
                    /\ t.chain[i] \in 0 .. i - 1
                    /\ t.chain[i] # 0 => of(t.chain[i]) = of(i)
                    /\ \A j \in 1 .. i - 1 : of(j) = of(i) => j <= t.chain[i]
<1> DEFINE t == SysvTable(symtab, buckets)
           of(i) == SysvHashOf(symtab[i]) % buckets
           newest(S) == IF S = {} THEN 0 ELSE Max(S)
           named == DOMAIN symtab \ {0}
<1>1. t = [bucket_cnt |-> buckets,
           bucket |-> [b \in 0 .. buckets - 1 |-> newest({i \in named : of(i) = b})],
           chain  |-> [i \in DOMAIN symtab |->
                          newest({j \in named : j < i /\ of(j) = of(i)})]]
  BY DEF SysvTable
<1>2. named = 1 .. n
  OBVIOUS
<1>3. ASSUME NEW S \in SUBSET (1 .. n)
      PROVE  /\ newest(S) \in 0 .. n
             /\ newest(S) # 0 => newest(S) \in S
             /\ \A j \in S : j <= newest(S)
  <2>1. CASE S = {}
    BY <2>1
  <2>2. CASE S # {}
    <3>1. S \in SUBSET (0 .. n)
      OBVIOUS
    <3> QED
      BY <2>2, <3>1, MaxOf
  <2> QED
    BY <2>1, <2>2
<1> HIDE DEF newest, t
<1>4. \A b \in 0 .. buckets - 1 : t.bucket[b] = newest({i \in 1 .. n : of(i) = b})
  BY <1>1, <1>2
<1>5. \A i \in 1 .. n : t.chain[i] = newest({j \in 1 .. n : j < i /\ of(j) = of(i)})
  BY <1>1, <1>2
<1>6. t.bucket_cnt = buckets
  BY <1>1
<1> HIDE DEF of
<1>7. \A b \in 0 .. buckets - 1 :
        /\ t.bucket[b] \in 0 .. n
        /\ t.bucket[b] # 0 => of(t.bucket[b]) = b
        /\ \A j \in 1 .. n : of(j) = b => j <= t.bucket[b]
  <2> TAKE b \in 0 .. buckets - 1
  <2> DEFINE S == {i \in 1 .. n : of(i) = b}
  <2>1. S \in SUBSET (1 .. n)
    OBVIOUS
  <2> QED
    BY <1>3, <1>4, <2>1
<1>8. \A i \in 1 .. n :
        /\ t.chain[i] \in 0 .. i - 1
        /\ t.chain[i] # 0 => of(t.chain[i]) = of(i)
        /\ \A j \in 1 .. i - 1 : of(j) = of(i) => j <= t.chain[i]
  <2> TAKE i \in 1 .. n
  <2> DEFINE S == {j \in 1 .. n : j < i /\ of(j) = of(i)}
  <2>1. S \in SUBSET (1 .. n) /\ \A j \in 1 .. i - 1 : j \in 1 .. n /\ j < i
    OBVIOUS
  <2>2. t.chain[i] = newest(S)
    BY <1>5
  <2>3. /\ t.chain[i] \in 0 .. n
        /\ t.chain[i] # 0 => t.chain[i] \in S
        /\ \A j \in S : j <= t.chain[i]
    <3> HIDE DEF S
    <3> QED
      BY <1>3, <2>1, <2>2
  <2> QED
    BY <2>1, <2>3
<1> QED
  BY <1>6, <1>7, <1>8 DEF of, t

\* HashLookup finds a symbol in the table of a linker exactly when the symbol
\* table has it, at an index that bears the name.
THEOREM SysvLookupFinds ==
    ASSUME NEW n \in Nat, NEW symtab, DOMAIN symtab = 0 .. n,
           NEW buckets \in Nat \ {0}, NEW name, symtab[0] # name,
           \A i \in 1 .. n : SysvHashOf(symtab[i]) \in Nat,
           SysvHashOf(name) \in Nat, ElfHash(name) = SysvHashOf(name)
    PROVE  LET i == HashLookup(SysvTable(symtab, buckets), symtab, name)
           IN  IF \E j \in 0 .. n : symtab[j] = name
               THEN i \in 0 .. n /\ symtab[i] = name
               ELSE i = NoIndex
<1> DEFINE t == SysvTable(symtab, buckets)
           of(i) == SysvHashOf(symtab[i]) % buckets
           walk[i \in DOMAIN symtab] ==
               IF i = 0 THEN NoIndex
               ELSE IF symtab[i] = name THEN i ELSE walk[t.chain[i]]
           b == SysvHashOf(name) % buckets
<1>1. HashLookup(t, symtab, name) = walk[t.bucket[ElfHash(name) % t.bucket_cnt]]
  BY DEF HashLookup
<1>2. /\ t.bucket_cnt = buckets
      /\ \A c \in 0 .. buckets - 1 :
            /\ t.bucket[c] \in 0 .. n
            /\ t.bucket[c] # 0 => of(t.bucket[c]) = c
            /\ \A j \in 1 .. n : of(j) = c => j <= t.bucket[c]
      /\ \A i \in 1 .. n :
            /\ t.chain[i] \in 0 .. i - 1
            /\ t.chain[i] # 0 => of(t.chain[i]) = of(i)
            /\ \A j \in 1 .. i - 1 : of(j) = of(i) => j <= t.chain[i]
  BY SysvChains
<1> HIDE DEF t
<1>02. \A i \in 1 .. n : t.chain[i] \in 0 .. i - 1
  BY <1>2
<1>3. \A i \in 0 .. n : walk[i] = IF i = 0 THEN NoIndex
                                  ELSE IF symtab[i] = name THEN i ELSE walk[t.chain[i]]
  <2>1. PICK f : IsWalk(f, n, symtab, t.chain, name)
    BY <1>02, WalkExists
  <2>2. walk = [i \in 0 .. n |->
                  IF i = 0 THEN NoIndex
                  ELSE IF symtab[i] = name THEN i ELSE walk[t.chain[i]]]
    BY <2>1 DEF IsWalk
  <2> HIDE DEF walk
  <2> QED
    BY <2>2
<1> HIDE DEF walk
<1>03. \A i \in 1 .. n :
        /\ t.chain[i] # 0 => of(t.chain[i]) = of(i)
        /\ \A j \in 1 .. i - 1 : of(j) = of(i) => j <= t.chain[i] /\ 1 <= j
  BY <1>2
<1> DEFINE Good(i) == \/ walk[i] \in 1 .. n /\ symtab[walk[i]] = name
                      \/ walk[i] = NoIndex /\ \A j \in 1 .. i : of(j) = of(i) => symtab[j] # name
           Bad == {i \in 1 .. n : ~Good(i)}
<1>4. Bad = {}
  <2> SUFFICES ASSUME Bad # {} PROVE FALSE
    OBVIOUS
  <2>1. PICK i \in Bad : \A y \in Bad : i <= y
    <3>1. Bad \in SUBSET Nat
      OBVIOUS
    <3> HIDE DEF Bad
    <3> QED
      BY <3>1, LeastExists
  <2>2. i \in 1 .. n /\ ~Good(i)
    BY <2>1
  <2>3. symtab[i] # name /\ walk[i] = walk[t.chain[i]]
    BY <1>3, <2>2
  <2>4. CASE t.chain[i] = 0
    <3>1. walk[i] = NoIndex
      BY <1>3, <2>3, <2>4
    <3>2. \A j \in 1 .. i : of(j) = of(i) => symtab[j] # name
      <4> TAKE j \in 1 .. i
      <4>1. j = i \/ j \in 1 .. i - 1
        BY <2>2
      <4> HIDE DEF of
      <4>2. j \in 1 .. i - 1 => of(j) # of(i)
        BY <1>03, <2>2, <2>4
      <4> QED
        BY <2>3, <4>1, <4>2
    <3> QED
      BY <2>2, <3>1, <3>2
  <2>5. CASE t.chain[i] # 0
    <3> HIDE DEF of
    <3>1. t.chain[i] \in 1 .. n /\ t.chain[i] < i /\ of(t.chain[i]) = of(i)
      <4>1. i \in 1 .. n /\ t.chain[i] \in 0 .. i - 1 /\ of(t.chain[i]) = of(i)
        BY <1>02, <1>03, <2>2, <2>5, Zenon
      <4> QED
        BY <2>5, <4>1
    <3>2. Good(t.chain[i])
      <4>1. t.chain[i] \notin Bad
        <5>1. i \in Nat
          BY <2>2
        <5> HIDE DEF Bad
        <5> QED
          BY <2>1, <3>1, <5>1
      <4> QED
        BY <3>1, <4>1
    <3>3. CASE walk[t.chain[i]] = NoIndex
               /\ \A j \in 1 .. t.chain[i] : of(j) = of(t.chain[i]) => symtab[j] # name
      <4> SUFFICES ASSUME NEW j \in 1 .. i, of(j) = of(i) PROVE symtab[j] # name
        BY <2>2, <2>3, <3>3
      <4>1. CASE j = i
        BY <2>3, <4>1
      <4>2. CASE j # i
        <5>1. j \in 1 .. i - 1
          BY <2>2, <4>2
        <5>2. j <= t.chain[i]
          BY <1>03, <2>2, <5>1
        <5> QED
          BY <2>2, <3>1, <3>3, <5>1, <5>2
      <4> QED
        BY <4>1, <4>2
    <3> QED
      BY <2>2, <2>3, <3>2, <3>3
  <2> QED
    BY <2>4, <2>5
<1>5. b \in 0 .. buckets - 1 /\ HashLookup(t, symtab, name) = walk[t.bucket[b]]
  BY <1>1, <1>2
<1>6. \A j \in 1 .. n : symtab[j] = name => of(j) = b
  OBVIOUS
<1>7. CASE t.bucket[b] = 0
  <2>1. HashLookup(t, symtab, name) = NoIndex
    BY <1>3, <1>5, <1>7
  <2>2. \A j \in 1 .. n : of(j) # b
    BY <1>2, <1>5, <1>7
  <2>3. ~ \E j \in 0 .. n : symtab[j] = name
    BY <1>6, <2>2
  <2> QED
    BY <2>1, <2>3 DEF t
<1>8. CASE t.bucket[b] # 0
  <2>1. t.bucket[b] \in 1 .. n /\ of(t.bucket[b]) = b
    BY <1>2, <1>5, <1>8
  <2>2. Good(t.bucket[b])
    BY <1>4, <2>1
  <2>3. CASE walk[t.bucket[b]] \in 1 .. n /\ symtab[walk[t.bucket[b]]] = name
    BY <1>5, <2>3 DEF t
  <2>4. CASE walk[t.bucket[b]] = NoIndex
             /\ \A j \in 1 .. t.bucket[b] : of(j) = of(t.bucket[b]) => symtab[j] # name
    <3>1. \A j \in 1 .. n : of(j) = b => j \in 1 .. t.bucket[b]
      <4> HIDE DEF of, b, walk
      <4>1. \A j \in 1 .. n : of(j) = b => j <= t.bucket[b]
        BY <1>2, <1>5, Zenon
      <4> QED
        BY <2>1, <4>1
    <3>2. \A j \in 1 .. n : symtab[j] # name
      <4> HIDE DEF of, b, t, walk
      <4> SUFFICES ASSUME NEW j \in 1 .. n, symtab[j] = name PROVE FALSE
        OBVIOUS
      <4>1. of(j) = b
        BY <1>6
      <4>2. j \in 1 .. t.bucket[b]
        BY <3>1, <4>1
      <4> QED
        BY <2>1, <2>4, <4>1, <4>2
    <3>3. ~ \E j \in 0 .. n : symtab[j] = name
      BY <3>2
    <3> QED
      BY <1>5, <2>4, <3>3 DEF t
  <2> QED
    BY <2>2, <2>3, <2>4
<1> QED
  BY <1>7, <1>8

-----------------------------------------------------------------------------

\* The parts of a GNU table: the bloom filter holds both bits of each symbol of
\* the library, a bucket leads to its first symbol, and the lowest bit of a chain
\* word marks the last symbol of a bucket.
IsGnuTable(t, n, symtab, symoffset, buckets, bloomWords, shift) ==
    LET hs(i)  == GnuHashOf(symtab[i])
        of(i) == hs(i) % buckets
    IN  /\ t.bucket_cnt = buckets /\ t.symoffset = symoffset
        /\ t.bloom_sz = bloomWords /\ t.bloom_shift = shift
        /\ \A i \in symoffset .. n :
              {hs(i) % ClassBits, (hs(i) \div (2 ^ shift)) % ClassBits}
                  \subseteq t.bloom[(hs(i) \div ClassBits) % bloomWords]
        /\ \A b \in 0 .. buckets - 1 :
              IF \E i \in symoffset .. n : of(i) = b
              THEN /\ t.bucket[b] \in symoffset .. n /\ of(t.bucket[b]) = b
                   /\ \A i \in symoffset .. n : of(i) = b => t.bucket[b] <= i
              ELSE t.bucket[b] = 0
        /\ \A i \in symoffset .. n :
              t.chain[i - symoffset] =
                  2 * (hs(i) \div 2) + (IF i = n \/ of(i + 1) # of(i) THEN 1 ELSE 0)

LEMMA GnuParts ==
    ASSUME NEW n \in Nat, NEW symtab, DOMAIN symtab = 0 .. n,
           NEW symoffset \in Nat \ {0}, NEW buckets \in Nat \ {0},
           NEW bloomWords \in Nat \ {0}, NEW shift,
           \A i \in symoffset .. n : GnuHashOf(symtab[i]) \in Nat
    PROVE  IsGnuTable(GnuTable(symtab, symoffset, buckets, bloomWords, shift),
                      n, symtab, symoffset, buckets, bloomWords, shift)
<1> DEFINE t == GnuTable(symtab, symoffset, buckets, bloomWords, shift)
           hs(i) == GnuHashOf(symtab[i])
           of(i) == hs(i) % buckets
           own == {i \in DOMAIN symtab : i >= symoffset}
           first(S) == IF S = {} THEN 0 ELSE Min(S)
           ends(i) == i + 1 \notin own \/ of(i + 1) # of(i)
           bits(i) == {hs(i) % ClassBits, (hs(i) \div (2 ^ shift)) % ClassBits}
           word(i) == (hs(i) \div ClassBits) % bloomWords
           link(i) == 2 * (hs(i) \div 2) + (IF ends(i) THEN 1 ELSE 0)
<1>1. t = [bucket_cnt |-> buckets, symoffset |-> symoffset,
           bloom_sz |-> bloomWords, bloom_shift |-> shift,
           bloom  |-> [w \in 0 .. bloomWords - 1 |->
                          UNION {bits(i) : i \in {j \in own : word(j) = w}}],
           bucket |-> [b \in 0 .. buckets - 1 |-> first({i \in own : of(i) = b})],
           chain  |-> [k \in 0 .. Cardinality(own) - 1 |-> link(k + symoffset)]]
  BY DEF GnuTable
<1>2. own = symoffset .. n
  OBVIOUS
<1> HIDE DEF t, own, bits, link
<1>3. \A i \in symoffset .. n : bits(i) \subseteq t.bloom[word(i)]
  <2> TAKE i \in symoffset .. n
  <2>1. word(i) \in 0 .. bloomWords - 1
    <3>1. hs(i) \in Nat /\ ClassBits \in Nat \ {0}
      BY BitsAssumption
    <3> HIDE DEF hs
    <3>2. hs(i) \div ClassBits \in Nat
      BY <3>1
    <3> QED
      BY <3>2
  <2> HIDE DEF word
  <2>2. t.bloom[word(i)] = UNION {bits(k) : k \in {j \in own : word(j) = word(i)}}
    BY <1>1, <2>1
  <2>3. i \in {j \in own : word(j) = word(i)}
    BY <1>2
  <2> QED
    BY <2>2, <2>3
<1> HIDE DEF word
<1>4. \A b \in 0 .. buckets - 1 :
        IF \E i \in symoffset .. n : of(i) = b
        THEN /\ t.bucket[b] \in symoffset .. n /\ of(t.bucket[b]) = b
             /\ \A i \in symoffset .. n : of(i) = b => t.bucket[b] <= i
        ELSE t.bucket[b] = 0
  <2> TAKE b \in 0 .. buckets - 1
  <2> HIDE DEF of, first
  <2> DEFINE S == {i \in own : of(i) = b}
  <2>1. t.bucket[b] = first(S)
    BY <1>1
  <2>2. S \in SUBSET Nat /\ \A i : i \in S <=> i \in symoffset .. n /\ of(i) = b
    BY <1>2
  <2> HIDE DEF S
  <2>3. CASE S = {}
    BY <2>1, <2>2, <2>3 DEF first
  <2>4. CASE S # {}
    <3>1. t.bucket[b] \in S /\ \A i \in S : t.bucket[b] <= i
      BY <2>1, <2>2, <2>4, MinOf DEF first
    <3> QED
      BY <2>2, <3>1
  <2> QED
    BY <2>3, <2>4
<1>5. \A i \in symoffset .. n : t.chain[i - symoffset] = link(i)
  <2> TAKE i \in symoffset .. n
  <2>1. Cardinality(own) = n - symoffset + 1
    BY <1>2, FS_Interval
  <2>2. i - symoffset \in 0 .. Cardinality(own) - 1 /\ (i - symoffset) + symoffset = i
    BY <2>1
  <2> QED
    BY <1>1, <2>2
<1>6. \A i \in symoffset .. n : ends(i) <=> i = n \/ of(i + 1) # of(i)
  BY <1>2
<1>7. /\ t.bucket_cnt = buckets /\ t.symoffset = symoffset
      /\ t.bloom_sz = bloomWords /\ t.bloom_shift = shift
  BY <1>1
<1>8. \A i \in symoffset .. n :
        t.chain[i - symoffset] =
            2 * (hs(i) \div 2) + (IF i = n \/ of(i + 1) # of(i) THEN 1 ELSE 0)
  <2> HIDE DEF ends, of, hs
  <2> QED
    BY <1>5, <1>6 DEF link
<1> QED
  BY <1>3, <1>4, <1>7, <1>8 DEF t, bits, word, IsGnuTable

LEMMA Halves ==
    ASSUME NEW k \in Nat
    PROVE  /\ (2 * k + 1) \div 2 = k /\ (2 * k + 1) % 2 = 1
           /\ (2 * k) \div 2 = k /\ (2 * k) % 2 = 0
OBVIOUS

\* GnuLookup finds a symbol in the table of a linker exactly when the symbol table
\* has it, at an index that bears the name: a defined one in the run of its bucket,
\* behind the bloom filter, and an undefined one before them.
THEOREM GnuLookupFinds ==
    ASSUME NEW n \in Nat, NEW symtab, DOMAIN symtab = 0 .. n,
           NEW symoffset \in Nat \ {0}, symoffset <= n + 1,
           NEW buckets \in Nat \ {0}, NEW bloomWords \in Nat \ {0}, NEW shift,
           \A i \in symoffset .. n : GnuHashOf(symtab[i]) \in Nat,
           \A i, j \in symoffset .. n :
              i < j => GnuHashOf(symtab[i]) % buckets <= GnuHashOf(symtab[j]) % buckets,
           NEW name, GnuHashOf(name) \in Nat, GnuHash(name) = GnuHashOf(name)
    PROVE  LET t == GnuTable(symtab, symoffset, buckets, bloomWords, shift)
               i == GnuLookup(t, symtab, name)
           IN  IF \E j \in 0 .. n : symtab[j] = name
               THEN i \in 0 .. n /\ symtab[i] = name
               ELSE i = NoIndex
<1> DEFINE t == GnuTable(symtab, symoffset, buckets, bloomWords, shift)
           hs(i) == GnuHashOf(symtab[i])
           of(i) == hs(i) % buckets
           hash == GnuHashOf(name)
           b == hash % buckets
           mask == {hash % ClassBits, (hash \div (2 ^ shift)) % ClassBits}
           start == t.bucket[b]
           chain(i) == t.chain[i - symoffset]
           odd == {i \in DOMAIN symtab : i >= start /\ chain(i) % 2 = 1}
           last == Min(odd)
           found == {i \in start .. last : hash \div 2 = chain(i) \div 2 /\ symtab[i] = name}
           def == GnuLookupDef(t, symtab, name)
           before == {i \in 0 .. symoffset - 1 : symtab[i] = name}
<1>1. /\ t.bucket_cnt = buckets /\ t.symoffset = symoffset
      /\ t.bloom_sz = bloomWords /\ t.bloom_shift = shift
      /\ \A i \in symoffset .. n :
            {hs(i) % ClassBits, (hs(i) \div (2 ^ shift)) % ClassBits}
                \subseteq t.bloom[(hs(i) \div ClassBits) % bloomWords]
      /\ \A c \in 0 .. buckets - 1 :
            IF \E i \in symoffset .. n : of(i) = c
            THEN /\ t.bucket[c] \in symoffset .. n /\ of(t.bucket[c]) = c
                 /\ \A i \in symoffset .. n : of(i) = c => t.bucket[c] <= i
            ELSE t.bucket[c] = 0
      /\ \A i \in symoffset .. n :
            chain(i) = 2 * (hs(i) \div 2) + (IF i = n \/ of(i + 1) # of(i) THEN 1 ELSE 0)
  <2> HIDE DEF t
  <2>1. IsGnuTable(t, n, symtab, symoffset, buckets, bloomWords, shift)
    BY GnuParts DEF t
  <2> QED
    BY <2>1 DEF IsGnuTable
<1> HIDE DEF t
<1>2. def = IF \/ ~(mask \subseteq t.bloom[(hash \div ClassBits) % bloomWords])
               \/ start < symoffset
               \/ found = {}
            THEN NoIndex
            ELSE Min(found)
  BY <1>1 DEF GnuLookupDef
<1>3. b \in 0 .. buckets - 1 /\ hash \in Nat
  OBVIOUS
<1>4. \A i \in symoffset .. n :
        /\ hs(i) \in Nat /\ of(i) \in Nat
        /\ chain(i) \div 2 = hs(i) \div 2
        /\ chain(i) % 2 = 1 <=> i = n \/ of(i + 1) # of(i)
  <2> TAKE i \in symoffset .. n
  <2>1. hs(i) \in Nat /\ of(i) \in Nat
    OBVIOUS
  <2>2. chain(i) = 2 * (hs(i) \div 2) + (IF i = n \/ of(i + 1) # of(i) THEN 1 ELSE 0)
    BY <1>1
  <2> HIDE DEF of, hs, chain
  <2> DEFINE half == hs(i) \div 2
  <2>3. half \in Nat
    BY <2>1
  <2> HIDE DEF half
  <2>4. CASE i = n \/ of(i + 1) # of(i)
    <3>1. chain(i) = 2 * half + 1
      BY <2>2, <2>4 DEF half
    <3>2. chain(i) \div 2 = half /\ chain(i) % 2 = 1
      BY <2>3, <3>1, Halves
    <3> QED
      BY <2>1, <2>4, <3>2 DEF half
  <2>5. CASE ~(i = n \/ of(i + 1) # of(i))
    <3>1. chain(i) = 2 * half
      BY <2>2, <2>3, <2>5 DEF half
    <3>2. chain(i) \div 2 = half /\ chain(i) % 2 = 0
      BY <2>3, <3>1, Halves
    <3> QED
      BY <2>1, <2>5, <3>2 DEF half
  <2> QED
    BY <2>4, <2>5
<1>5. \A i \in symoffset .. n : symtab[i] = name =>
        /\ of(i) = b /\ hs(i) = hash
        /\ mask \subseteq t.bloom[(hash \div ClassBits) % bloomWords]
  BY <1>1
<1> HIDE DEF mask, hs, hash
<1>6. ASSUME start >= symoffset
      PROVE  start \in symoffset .. n /\ of(start) = b /\ last \in start .. n
  <2>1. start \in symoffset .. n /\ of(start) = b
    BY <1>1, <1>3, <1>6
  <2> HIDE DEF of, chain, start
  <2>2. n \in odd
    BY <1>4, <2>1
  <2>3. odd \in SUBSET Nat /\ \A i \in odd : i \in start .. n
    BY <2>1
  <2> HIDE DEF odd
  <2>4. last \in odd
    BY <2>2, <2>3, MinOf
  <2> QED
    BY <2>1, <2>3, <2>4
<1>7. ASSUME start >= symoffset, NEW j \in symoffset .. n, symtab[j] = name
      PROVE  j \in found
  <2>1. start \in symoffset .. n /\ of(start) = b /\ last \in start .. n /\ of(j) = b
    BY <1>5, <1>6, <1>7
  <2>2. start <= j
    BY <1>1, <1>3, <2>1
  <2>3. \A i \in symoffset .. n : \A k \in symoffset .. n : i < k => of(i) <= of(k)
    BY DEF hs
  <2> HIDE DEF of, start
  <2>4. \A i \in start .. j : of(i) = b
    <3> TAKE i \in start .. j
    <3>1. i \in symoffset .. n
      BY <2>1
    <3>2. of(start) <= of(i) /\ of(i) <= of(j)
      <4>1. of(i) \in Nat /\ of(start) \in Nat /\ of(j) \in Nat
        BY <1>4, <2>1, <3>1
      <4>2. start = i \/ of(start) <= of(i)
        BY <2>1, <2>3, <3>1
      <4>3. i = j \/ of(i) <= of(j)
        BY <2>1, <2>3, <3>1
      <4> QED
        BY <4>1, <4>2, <4>3
    <3>3. b \in Int /\ of(i) \in Int
      BY <1>3, <1>4, <3>1
    <3> HIDE DEF b
    <3> QED
      BY <2>1, <3>2, <3>3
  <2>5. \A i \in start .. n : i < j => chain(i) % 2 # 1
    <3> TAKE i \in start .. n
    <3> HAVE i < j
    <3>1. i \in symoffset .. n /\ i \in start .. j /\ i + 1 \in start .. j /\ i # n
      BY <2>1
    <3> HIDE DEF chain
    <3> QED
      BY <1>4, <2>4, <3>1
  <2>6. last >= j
    <3>1. odd \in SUBSET Nat /\ odd # {} /\ \A i \in odd : i \in start .. n /\ chain(i) % 2 = 1
      <4> HIDE DEF chain
      <4>1. n \in odd
        BY <1>4, <2>1
      <4>2. \A i \in odd : i \in start .. n /\ chain(i) % 2 = 1
        BY <2>1
      <4>3. \A i \in start .. n : i \in Nat
        BY <2>1
      <4> HIDE DEF odd
      <4> QED
        BY <4>1, <4>2, <4>3
    <3> HIDE DEF odd, chain
    <3>2. last \in odd
      BY <3>1, MinOf
    <3>3. last \in start .. n /\ ~(last < j)
      BY <2>5, <3>1, <3>2
    <3> QED
      BY <2>1, <3>3
  <2>7. hash \div 2 = chain(j) \div 2
    BY <1>4, <1>5, <1>7
  <2> HIDE DEF last, chain
  <2>8. j \in start .. last
    BY <2>1, <2>2, <2>6
  <2> QED
    BY <1>7, <2>7, <2>8
<1>8. \/ def \in symoffset .. n /\ symtab[def] = name
      \/ def = NoIndex /\ \A j \in symoffset .. n : symtab[j] # name
  <2>1. CASE \E j \in symoffset .. n : symtab[j] = name
    <3>1. PICK j \in symoffset .. n : symtab[j] = name
      BY <2>1
    <3>2. start \in symoffset .. n
      <4>1. of(j) = b
        BY <1>5, <3>1
      <4> HIDE DEF of
      <4> QED
        BY <1>1, <1>3, <4>1
    <3>3. last \in start .. n
      BY <1>6, <3>2
    <3>4. j \in found
      <4>1. start >= symoffset
        BY <3>2
      <4> HIDE DEF found, start
      <4> QED
        BY <1>7, <3>1, <4>1
    <3>5. found \in SUBSET Nat /\ \A i \in found : i \in symoffset .. n /\ symtab[i] = name
      <4> HIDE DEF last, chain, start
      <4> QED
        BY <3>2, <3>3
    <3> HIDE DEF found, start
    <3>6. Min(found) \in found
      BY <3>4, <3>5, MinOf
    <3>7. def = Min(found)
      BY <1>2, <1>5, <3>1, <3>2, <3>4
    <3> QED
      BY <3>5, <3>6, <3>7
  <2>2. CASE \A j \in symoffset .. n : symtab[j] # name
    <3>1. start >= symoffset => found = {}
      <4> SUFFICES ASSUME start >= symoffset, NEW i \in found PROVE FALSE
        OBVIOUS
      <4>1. start \in symoffset .. n /\ last \in start .. n
        BY <1>6
      <4> HIDE DEF last, chain, start
      <4>2. i \in symoffset .. n /\ symtab[i] = name
        BY <4>1
      <4> QED
        BY <2>2, <4>2
    <3>2. start \in Int
      BY <1>1, <1>3
    <3> HIDE DEF found, start
    <3>3. def = NoIndex
      BY <1>2, <3>1, <3>2
    <3> QED
      BY <2>2, <3>3
  <2> QED
    BY <2>1, <2>2
<1>9. GnuLookup(t, symtab, name) =
        IF def # NoIndex THEN def ELSE IF before = {} THEN NoIndex ELSE Min(before)
  BY <1>1 DEF GnuLookup, GnuLookupUndef
<1>10. CASE def # NoIndex
  <2>1. def \in 0 .. n /\ symtab[def] = name
    BY <1>8, <1>10
  <2> HIDE DEF def, before
  <2> QED
    BY <1>9, <1>10, <2>1 DEF t
<1>11. CASE def = NoIndex
  <2>1. \A j \in symoffset .. n : symtab[j] # name
    BY <1>8, <1>11 DEF NoIndex
  <2>2. before \in SUBSET Nat /\ \A j \in 0 .. n : symtab[j] = name <=> j \in before
    BY <2>1
  <2>3. before \subseteq 0 .. n
    OBVIOUS
  <2> HIDE DEF def, before
  <2>4. CASE before = {}
    BY <1>9, <1>11, <2>2, <2>4 DEF t
  <2>5. CASE before # {}
    <3>1. Min(before) \in before
      BY <2>2, <2>5, MinOf
    <3> QED
      BY <1>9, <1>11, <2>2, <2>3, <2>5, <3>1 DEF t
  <2> QED
    BY <2>4, <2>5
<1> QED
  BY <1>10, <1>11

-----------------------------------------------------------------------------

\* The plain iterator hands out the relocations a table was written for, one for
\* one, Rel or Rela: the size in words does not end it early or late.
THEOREM PlainTableReadsBack ==
    ASSUME NEW S, NEW relocs \in Seq(S), NEW table, NEW words, NEW rela \in BOOLEAN,
           Holds(table, words, rela, relocs)
    PROVE  PlainRelocs(table, words, rela) = relocs
<1> DEFINE e == EntryWords(rela)
           n == Len(relocs)
<1>1. e \in {2, 3} /\ n \in Nat /\ words = e * n
  BY DEF EntryWords, Holds
<1>2. (words + e - 1) \div e = n
  <2>1. CASE e = 2
    <3>1. (2 * n + 1) \div 2 = n
      BY <1>1
    <3> QED
      BY <1>1, <2>1, <3>1
  <2>2. CASE e = 3
    <3>1. (3 * n + 2) \div 3 = n
      BY <1>1
    <3>2. words + e - 1 = 3 * n + 2
      BY <1>1, <2>2
    <3> QED
      BY <2>2, <3>1, <3>2
  <2> HIDE DEF e
  <2> QED
    BY <1>1, <2>1, <2>2
<1>3. PlainRelocs(table, words, rela) =
        [k \in 1 .. n |-> [offset |-> table[(k - 1) * e + 1],
                           info   |-> table[(k - 1) * e + 2]]]
  BY <1>2 DEF PlainRelocs
<1>4. \A k \in 1 .. n : relocs[k] = [offset |-> table[(k - 1) * e + 1],
                                     info   |-> table[(k - 1) * e + 2]]
  BY DEF Holds
<1>5. relocs = [k \in 1 .. n |-> relocs[k]]
  OBVIOUS
<1> HIDE DEF e
<1> QED
  BY <1>3, <1>4, <1>5

-----------------------------------------------------------------------------

Elements(s) == {s[k] : k \in DOMAIN s}

LEMMA AppendElements ==
    ASSUME NEW s \in Seq(Nat), NEW x \in Nat
    PROVE  Append(s, x) \in Seq(Nat) /\ Elements(Append(s, x)) = Elements(s) \cup {x}
<1> DEFINE a == Append(s, x)
<1>1. /\ a \in Seq(Nat) /\ DOMAIN a = 1 .. Len(s) + 1 /\ DOMAIN s = 1 .. Len(s)
      /\ a[Len(s) + 1] = x /\ \A k \in 1 .. Len(s) : a[k] = s[k]
      /\ Len(s) \in Nat
  OBVIOUS
<1>2. \A k : k \in 1 .. Len(s) + 1 <=> k \in 1 .. Len(s) \/ k = Len(s) + 1
  BY <1>1
<1> HIDE DEF a
<1>3. Elements(a) = Elements(s) \cup {x}
  BY <1>1, <1>2 DEF Elements
<1> QED
  BY <1>1, <1>3 DEF a

Names(r, types, symidx) == SymOf(r.info) = symidx /\ TypeOf(r.info) \in types

Filtered(f, m, relocs, types, symidx) ==
    \A k \in 0 .. m :
        f[k] = IF k = 0 THEN <<>>
               ELSE IF Names(relocs[k], types, symidx)
                    THEN Append(f[k - 1], relocs[k].offset) ELSE f[k - 1]

IsFilter(f, m, relocs, types, symidx) ==
    f = [k \in 0 .. m |-> IF k = 0 THEN <<>>
                          ELSE IF Names(relocs[k], types, symidx)
                               THEN Append(f[k - 1], relocs[k].offset) ELSE f[k - 1]]

LEMMA FilterExists ==
    ASSUME NEW n \in Nat, NEW relocs, NEW types, NEW symidx
    PROVE  \E f : IsFilter(f, n, relocs, types, symidx)
<1> DEFINE F(f, m) == Filtered(f, m, relocs, types, symidx)
           Bad == {m \in 0 .. n : ~ \E f : F(f, m)}
<1>1. Bad = {}
  <2> SUFFICES ASSUME Bad # {} PROVE FALSE
    OBVIOUS
  <2>1. PICK m \in Bad : \A y \in Bad : m <= y
    <3>1. Bad \in SUBSET Nat
      OBVIOUS
    <3> QED
      BY <3>1, LeastExists
  <2>2. CASE m = 0
    <3>1. F([i \in 0 .. 0 |-> <<>>], 0)
      BY DEF Filtered
    <3> QED
      BY <2>1, <2>2, <3>1
  <2>3. CASE m # 0
    <3>1. m - 1 \in 0 .. n /\ m \in 1 .. n /\ m - 1 \notin Bad
      BY <2>1, <2>3
    <3>2. PICK f : F(f, m - 1)
      BY <3>1
    <3> DEFINE next == IF Names(relocs[m], types, symidx)
                       THEN Append(f[m - 1], relocs[m].offset) ELSE f[m - 1]
               g == [i \in 0 .. m |-> IF i # m THEN f[i] ELSE next]
    <3> HIDE DEF next
    <3>3. \A i \in 0 .. m - 1 : g[i] = f[i]
      BY <3>1
    <3>4. g[m] = next
      BY <3>1
    <3> HIDE DEF g
    <3>5. \A i \in 0 .. m - 1 :
             g[i] = IF i = 0 THEN <<>>
                    ELSE IF Names(relocs[i], types, symidx)
                         THEN Append(g[i - 1], relocs[i].offset) ELSE g[i - 1]
      <4> TAKE i \in 0 .. m - 1
      <4>1. i # 0 => i - 1 \in 0 .. m - 1
        BY <3>1
      <4> QED
        BY <3>2, <3>3, <4>1 DEF Filtered
    <3>6. g[m] = IF Names(relocs[m], types, symidx)
                 THEN Append(g[m - 1], relocs[m].offset) ELSE g[m - 1]
      BY <3>1, <3>3, <3>4 DEF next
    <3>7. F(g, m)
      <4> SUFFICES ASSUME NEW i \in 0 .. m
                   PROVE  g[i] = IF i = 0 THEN <<>>
                                 ELSE IF Names(relocs[i], types, symidx)
                                      THEN Append(g[i - 1], relocs[i].offset) ELSE g[i - 1]
        BY DEF Filtered
      <4>1. CASE i = m
        BY <2>3, <3>6, <4>1
      <4>2. CASE i # m
        <5>1. i \in 0 .. m - 1
          BY <3>1, <4>2
        <5> QED
          BY <3>5, <5>1
      <4> QED
        BY <4>1, <4>2
    <3> QED
      BY <2>1, <3>7
  <2> QED
    BY <2>2, <2>3
<1>2. PICK f : F(f, n)
  BY <1>1
<1> DEFINE g == [i \in 0 .. n |-> f[i]]
<1>3. \A i \in 0 .. n : g[i] = IF i = 0 THEN <<>>
                               ELSE IF Names(relocs[i], types, symidx)
                                    THEN Append(g[i - 1], relocs[i].offset) ELSE g[i - 1]
  <2> TAKE i \in 0 .. n
  <2>1. g[i] = f[i] /\ (i # 0 => g[i - 1] = f[i - 1])
    OBVIOUS
  <2> HIDE DEF g
  <2> QED
    BY <1>2, <2>1 DEF Filtered
<1>4. g = [i \in 0 .. n |-> IF i = 0 THEN <<>>
                            ELSE IF Names(relocs[i], types, symidx)
                                 THEN Append(g[i - 1], relocs[i].offset) ELSE g[i - 1]]
  <2>1. g = [i \in 0 .. n |-> g[i]]
    OBVIOUS
  <2> HIDE DEF g
  <2> QED
    BY <1>3, <2>1
<1> QED
  BY <1>4 DEF IsFilter

\* The search of a section yields the offsets of the relocations that name the
\* symbol with one of the types, all of them and nothing else.
THEOREM HitsAreExact ==
    ASSUME NEW S, NEW relocs \in Seq(S), \A k \in DOMAIN relocs : relocs[k].offset \in Nat,
           NEW types, NEW symidx
    PROVE  /\ Hits(relocs, types, symidx) \in Seq(Nat)
           /\ Elements(Hits(relocs, types, symidx)) =
                {relocs[k].offset : k \in {j \in DOMAIN relocs : Names(relocs[j], types, symidx)}}
<1> DEFINE n == Len(relocs)
           named(k) == Names(relocs[k], types, symidx)
           hits[k \in 0 .. Len(relocs)] ==
               IF k = 0 THEN <<>>
               ELSE IF named(k) THEN Append(hits[k - 1], relocs[k].offset) ELSE hits[k - 1]
           upto(m) == {relocs[k].offset : k \in {j \in 1 .. m : named(j)}}
           Good(m) == hits[m] \in Seq(Nat) /\ Elements(hits[m]) = upto(m)
           Bad == {m \in 0 .. n : ~Good(m)}
<1>1. Hits(relocs, types, symidx) = hits[n]
  BY DEF Hits, Names
<1>2. n \in Nat /\ DOMAIN relocs = 1 .. n
  OBVIOUS
<1>3. \A k \in 0 .. n : hits[k] = IF k = 0 THEN <<>>
                                  ELSE IF named(k) THEN Append(hits[k - 1], relocs[k].offset)
                                       ELSE hits[k - 1]
  <2>1. PICK f : IsFilter(f, n, relocs, types, symidx)
    BY <1>2, FilterExists
  <2>2. hits = [k \in 0 .. n |->
                  IF k = 0 THEN <<>>
                  ELSE IF named(k) THEN Append(hits[k - 1], relocs[k].offset) ELSE hits[k - 1]]
    BY <2>1 DEF IsFilter
  <2> HIDE DEF hits, named
  <2> QED
    BY <2>2
<1> HIDE DEF hits, named, n
<1>4. Bad = {}
  <2> SUFFICES ASSUME Bad # {} PROVE FALSE
    OBVIOUS
  <2>1. PICK m \in Bad : \A y \in Bad : m <= y
    <3>1. Bad \in SUBSET Nat
      BY <1>2
    <3> HIDE DEF Bad
    <3> QED
      BY <3>1, LeastExists
  <2>2. m \in 0 .. n /\ ~Good(m)
    BY <2>1
  <2>3. CASE m = 0
    <3>1. hits[m] = <<>> /\ upto(m) = {}
      BY <1>2, <1>3, <2>3
    <3>2. Elements(<<>>) = {} /\ <<>> \in Seq(Nat)
      BY DEF Elements
    <3> QED
      BY <2>2, <3>1, <3>2
  <2>4. CASE m # 0
    <3>1. m - 1 \in 0 .. n /\ m \in 1 .. n /\ m - 1 < m
      BY <1>2, <2>2, <2>4
    <3>2. Good(m - 1)
      <4>1. m - 1 \notin Bad
        <5>1. m \in Int
          BY <3>1
        <5> HIDE DEF Bad
        <5> QED
          BY <2>1, <5>1
      <4> QED
        BY <3>1, <4>1
    <3>3. \A j : j \in 1 .. m <=> j \in 1 .. m - 1 \/ j = m
      BY <3>1
    <3>4. CASE named(m)
      <4>1. hits[m] = Append(hits[m - 1], relocs[m].offset)
        BY <1>3, <2>2, <2>4, <3>4
      <4>2. relocs[m].offset \in Nat
        BY <1>2, <3>1
      <4>3. /\ hits[m] \in Seq(Nat)
            /\ Elements(hits[m]) = Elements(hits[m - 1]) \cup {relocs[m].offset}
        BY <3>2, <4>1, <4>2, AppendElements
      <4>4. upto(m) = upto(m - 1) \cup {relocs[m].offset}
        BY <3>3, <3>4
      <4> QED
        BY <2>2, <3>2, <4>3, <4>4
    <3>5. CASE ~named(m)
      <4>1. hits[m] = hits[m - 1]
        BY <1>3, <2>2, <2>4, <3>5
      <4>2. upto(m) = upto(m - 1)
        BY <3>3, <3>5
      <4> QED
        BY <2>2, <3>2, <4>1, <4>2
    <3> QED
      BY <3>4, <3>5
  <2> QED
    BY <2>3, <2>4
<1>5. Good(n)
  <2>1. n \in 0 .. n
    BY <1>2
  <2> HIDE DEF Good
  <2>2. n \notin Bad
    BY <1>4, Zenon
  <2> QED
    BY <2>1, <2>2
<1> QED
  BY <1>1, <1>2, <1>5 DEF named

-----------------------------------------------------------------------------
(* A call for a symbol.  What the two hash functions and the packed section *)
(* yield is a fold over their bytes: those are the hypotheses.              *)

\* The bytes of a library xhook takes are read as they were written: its names
\* hash to what the linker put into the tables, the packed section unpacks.
BytesAreRead ==
    \A img \in Images :
        CheckElfHeader(img.ehdr) /\ Parse(img).ok =>
            HashesAgree(img) /\ SectionIsRead(img, Parse(img), "android")

\* A library xhook takes is decoded as it was meant.
TablesAreRead ==
    \A img \in Images :
        CheckElfHeader(img.ehdr) /\ Parse(img).ok => Decoded(img, Parse(img))

\* A name xhook asks for has the index the symbol table gives it, or none.
Found(symtab, name, i) ==
    IF \E j \in DOMAIN symtab : symtab[j] = name
    THEN i \in DOMAIN symtab /\ symtab[i] = name
    ELSE i = NoIndex

LEMMA NameIsFound ==
    ASSUME BytesAreRead, NEW img \in Images, CheckElfHeader(img.ehdr), Parse(img).ok,
           NEW name \in NamesOf(img), img.symtab[0] # name
    PROVE  Found(img.symtab, name, SymbolIndex(img, Parse(img), name))
<1> DEFINE e == Parse(img)
           t == Table(img, e, e.hash)
           symtab == img.symtab
           n == Cardinality(DOMAIN symtab) - 1
<1>1. HashWritten(img, e)
  BY TablesAssumption
<1>2. HashesAgree(img)
  BY DEF BytesAreRead
<1> HIDE DEF e
<1>3. /\ n \in Nat /\ DOMAIN symtab = 0 .. n /\ Table(img, e, e.symtab) = symtab
      /\ e.gnu \in BOOLEAN
      /\ IF e.gnu THEN IsWrittenGnu(t, symtab, n) ELSE IsWrittenSysv(t, symtab)
  BY <1>1 DEF HashWritten
<1>4. /\ ElfHash(name) = SysvHashOf(name) /\ SysvHashOf(name) \in Nat
      /\ GnuHash(name) = GnuHashOf(name) /\ GnuHashOf(name) \in Nat
  BY <1>2 DEF HashesAgree
<1>5. \A i \in 0 .. n : SysvHashOf(symtab[i]) \in Nat /\ GnuHashOf(symtab[i]) \in Nat
  <2>1. \A i \in DOMAIN symtab : symtab[i] \in NamesOf(img)
    BY DEF NamesOf
  <2> QED
    BY <1>2, <1>3, <2>1 DEF HashesAgree
<1>6. SymbolIndex(img, e, name) = FindSymidx(e.gnu, t, symtab, name)
  BY <1>3 DEF SymbolIndex
<1> HIDE DEF t, n
<1>7. CASE e.gnu
  <2>1. IsWrittenGnu(t, symtab, n)
    BY <1>3, <1>7
  <2> DEFINE o == t.symoffset
             c == t.bucket_cnt
             w == t.bloom_sz
             shift == t.bloom_shift
  <2>2. /\ o \in 1 .. n + 1 /\ c \in Nat \ {0} /\ w \in Nat \ {0}
        /\ t = GnuTable(symtab, o, c, w, shift)
        /\ \A i, j \in o .. n :
              i < j => GnuHashOf(symtab[i]) % c <= GnuHashOf(symtab[j]) % c
    BY <2>1, Zenon DEF IsWrittenGnu
  <2> HIDE DEF o, c, w, shift
  <2>3. o \in Nat \ {0} /\ o <= n + 1 /\ n \in Nat
    BY <1>3, <2>2
  <2>4. \A i \in o .. n : GnuHashOf(symtab[i]) \in Nat
    BY <1>3, <1>5, <2>3
  <2>5. Found(symtab, name, GnuLookup(GnuTable(symtab, o, c, w, shift), symtab, name))
    <3> DEFINE i == GnuLookup(GnuTable(symtab, o, c, w, shift), symtab, name)
    <3>1. IF \E j \in 0 .. n : symtab[j] = name
          THEN i \in 0 .. n /\ symtab[i] = name
          ELSE i = NoIndex
      <4> HIDE DEF symtab
      <4>1. DOMAIN symtab = 0 .. n /\ c \in Nat \ {0} /\ w \in Nat \ {0}
        BY <1>3, <2>2, Zenon
      <4>2. \A i1, j1 \in o .. n :
              i1 < j1 => GnuHashOf(symtab[i1]) % c <= GnuHashOf(symtab[j1]) % c
        BY <2>2, Zenon
      <4>3. GnuHashOf(name) \in Nat /\ GnuHash(name) = GnuHashOf(name)
        BY <1>4, Zenon
      <4> HIDE DEF i
      <4> QED
        BY <2>3, <2>4, <4>1, <4>2, <4>3, GnuLookupFinds DEF i
    <3> HIDE DEF i
    <3> QED
      BY <1>3, <3>1 DEF Found, i
  <2> QED
    BY <1>6, <1>7, <2>2, <2>5 DEF FindSymidx, e
<1>8. CASE ~e.gnu
  <2>1. t.bucket_cnt \in Nat \ {0} /\ t = SysvTable(symtab, t.bucket_cnt)
    BY <1>3, <1>8 DEF IsWrittenSysv
  <2> DEFINE c == t.bucket_cnt
  <2> HIDE DEF c
  <2>2. c \in Nat \ {0} /\ t = SysvTable(symtab, c)
    BY <2>1 DEF c
  <2>3. \A i \in 1 .. n : SysvHashOf(symtab[i]) \in Nat
    BY <1>3, <1>5
  <2>4. Found(symtab, name, HashLookup(SysvTable(symtab, c), symtab, name))
    <3> DEFINE i == HashLookup(SysvTable(symtab, c), symtab, name)
    <3>1. IF \E j \in 0 .. n : symtab[j] = name
          THEN i \in 0 .. n /\ symtab[i] = name
          ELSE i = NoIndex
      <4>1. symtab[0] # name
        OBVIOUS
      <4> HIDE DEF symtab
      <4>2. n \in Nat /\ DOMAIN symtab = 0 .. n /\ c \in Nat \ {0}
        BY <1>3, <2>2, Zenon
      <4>3. SysvHashOf(name) \in Nat /\ ElfHash(name) = SysvHashOf(name)
        BY <1>4, Zenon
      <4> HIDE DEF i
      <4> QED
        BY <2>3, <4>1, <4>2, <4>3, SysvLookupFinds DEF i
    <3> HIDE DEF i
    <3> QED
      BY <1>3, <3>1 DEF Found, i
  <2> QED
    BY <1>6, <1>8, <2>2, <2>4 DEF FindSymidx, e
<1> QED
  BY <1>7, <1>8

LEMMA SectionsAreRead ==
    ASSUME BytesAreRead, NEW img \in Images, CheckElfHeader(img.ehdr), Parse(img).ok
    PROVE  \A section \in {"plt", "dyn", "android"} : SectionIsRead(img, Parse(img), section)
<1> DEFINE e == Parse(img)
<1>1. RelocsWritten(img, e) /\ SectionIsRead(img, e, "android")
  BY TablesAssumption DEF BytesAreRead
<1> HIDE DEF e
<1>2. /\ Listed(img, e, "plt", e.relplt, e.relplt_sz)
      /\ Listed(img, e, "dyn", e.reldyn, e.reldyn_sz)
      /\ e.rela \in BOOLEAN
      /\ \A section \in {"plt", "dyn"} :
            img.linked[section] \in Seq({img.linked[section][k] : k \in DOMAIN img.linked[section]})
  BY <1>1 DEF RelocsWritten
<1>3. ASSUME NEW section \in {"plt", "dyn"}, NEW addr, NEW words, addr # 0,
             Listed(img, e, section, addr, words)
      PROVE  PlainRelocs(Table(img, e, addr), words, e.rela) = img.linked[section]
  <2>1. Holds(Table(img, e, addr), words, e.rela, img.linked[section])
    BY <1>3 DEF Listed
  <2> DEFINE rs == img.linked[section]
             S == {rs[k] : k \in DOMAIN rs}
             table == Table(img, e, addr)
  <2>2. rs \in Seq(S)
    BY <1>2
  <2> HIDE DEF rs, S, table
  <2>3. Holds(table, words, e.rela, rs)
    BY <2>1 DEF rs, table
  <2>4. PlainRelocs(table, words, e.rela) = rs
    BY <1>2, <2>2, <2>3, PlainTableReadsBack
  <2> QED
    BY <2>4 DEF rs, table
<1>4. SectionIsRead(img, e, "plt")
  BY <1>2, <1>3 DEF SectionIsRead, RelocsOf, Listed
<1>5. SectionIsRead(img, e, "dyn")
  BY <1>2, <1>3 DEF SectionIsRead, RelocsOf, Listed
<1> QED
  BY <1>1, <1>4, <1>5 DEF e

LEMMA ConcatElements ==
    ASSUME NEW s \in Seq(Nat), NEW u \in Seq(Nat)
    PROVE  s \o u \in Seq(Nat) /\ Elements(s \o u) = Elements(s) \cup Elements(u)
<1> DEFINE c == s \o u
           m == Len(s)
           n == Len(u)
<1>1. /\ c \in Seq(Nat) /\ m \in Nat /\ n \in Nat
      /\ DOMAIN s = 1 .. m /\ DOMAIN u = 1 .. n /\ DOMAIN c = 1 .. m + n
  OBVIOUS
<1>2. \A k \in 1 .. m : c[k] = s[k]
  OBVIOUS
<1>3. \A k \in 1 .. n : c[m + k] = u[k]
  OBVIOUS
<1> HIDE DEF c, m, n
<1>4. \A k \in 1 .. m : k \in 1 .. m + n
  BY <1>1
<1>5. \A k \in 1 .. n : m + k \in 1 .. m + n
  BY <1>1
<1>6. \A k \in 1 .. m + n : k \in 1 .. m \/ (k - m \in 1 .. n /\ m + (k - m) = k)
  BY <1>1
<1>7. Elements(c) \subseteq Elements(s) \cup Elements(u)
  <2> SUFFICES ASSUME NEW k \in 1 .. m + n PROVE c[k] \in Elements(s) \cup Elements(u)
    BY <1>1 DEF Elements
  <2>1. CASE k \in 1 .. m
    BY <1>1, <1>2, <2>1 DEF Elements
  <2>2. CASE k - m \in 1 .. n /\ m + (k - m) = k
    <3>1. c[k] = u[k - m]
      BY <1>3, <2>2
    <3> QED
      BY <1>1, <2>2, <3>1 DEF Elements
  <2> QED
    BY <1>6, <2>1, <2>2
<1>8. Elements(s) \subseteq Elements(c)
  BY <1>1, <1>2, <1>4 DEF Elements
<1>9. Elements(u) \subseteq Elements(c)
  BY <1>1, <1>3, <1>5 DEF Elements
<1> QED
  BY <1>1, <1>7, <1>8, <1>9 DEF c

\* Of a list whose elements are all the same the head tells everything.
LEMMA HeadElement ==
    ASSUME NEW s \in Seq(Nat), \A x, y \in Elements(s) : x = y
    PROVE  LET first == IF s = <<>> THEN <<>> ELSE <<Head(s)>>
           IN  first \in Seq(Nat) /\ Elements(first) = Elements(s)
<1>1. CASE s = <<>>
  BY <1>1
<1>2. CASE s # <<>>
  <2>1. s[1] \in Nat /\ Head(s) = s[1] /\ 1 \in DOMAIN s
    BY <1>2
  <2>2. Elements(s) = {s[1]}
    BY <2>1 DEF Elements
  <2>3. <<s[1]>> \in Seq(Nat) /\ DOMAIN <<s[1]>> = {1} /\ <<s[1]>>[1] = s[1]
    BY <2>1
  <2>4. Elements(<<s[1]>>) = {s[1]}
    BY <2>3 DEF Elements
  <2> QED
    BY <1>2, <2>1, <2>2, <2>3, <2>4
<1> QED
  BY <1>1, <1>2

\* What a section has for a symbol.
Targets(img, section, types, symidx) ==
    {img.linked[section][k].offset :
        k \in {j \in DOMAIN img.linked[section] : Names(img.linked[section][j], types, symidx)}}

LEMMA OffsetsAreTargets ==
    ASSUME BytesAreRead, NEW img \in Images, CheckElfHeader(img.ehdr), Parse(img).ok,
           NEW section \in {"plt", "dyn", "android"}, NEW types, NEW symidx
    PROVE  /\ OffsetsIn(img, Parse(img), section, types, symidx) \in Seq(Nat)
           /\ Elements(OffsetsIn(img, Parse(img), section, types, symidx))
                = Targets(img, section, types, symidx)
<1> DEFINE e == Parse(img)
           rs == img.linked[section]
           S == {rs[k] : k \in DOMAIN rs}
<1>1. RelocsWritten(img, e)
  BY TablesAssumption
<1>2. RelocsOf(img, e, section) = rs
  BY SectionsAreRead DEF SectionIsRead
<1>3. rs \in Seq(S) /\ \A k \in DOMAIN rs : rs[k].offset \in Nat
  BY <1>1 DEF RelocsWritten
<1>4. OffsetsIn(img, e, section, types, symidx) = Hits(rs, types, symidx)
  BY <1>2 DEF OffsetsIn
<1> HIDE DEF rs, S
<1>5. /\ Hits(rs, types, symidx) \in Seq(Nat)
      /\ Elements(Hits(rs, types, symidx)) =
           {rs[k].offset : k \in {j \in DOMAIN rs : Names(rs[j], types, symidx)}}
  BY <1>3, HitsAreExact
<1> QED
  BY <1>4, <1>5 DEF Targets, rs

\* The calls for a symbol go through the targets of its index, and the offsets
\* they go through are those.
LEMMA VisitsAreTargets ==
    ASSUME BytesAreRead, NEW img \in Images, CheckElfHeader(img.ehdr), Parse(img).ok,
           NEW symidx
    PROVE  /\ Visits(img, Parse(img), symidx) \in Seq(Nat)
           /\ Elements(Visits(img, Parse(img), symidx)) =
                Targets(img, "plt", {JumpSlot}, symidx)
                \cup Targets(img, "dyn", {GlobDat, Abs}, symidx)
                \cup Targets(img, "android", {GlobDat, Abs}, symidx)
<1> DEFINE e == Parse(img)
           plt == OffsetsIn(img, e, "plt", {JumpSlot}, symidx)
           dyn == OffsetsIn(img, e, "dyn", {GlobDat, Abs}, symidx)
           android == OffsetsIn(img, e, "android", {GlobDat, Abs}, symidx)
           first == IF plt = <<>> THEN <<>> ELSE <<Head(plt)>>
<1>1. /\ plt \in Seq(Nat) /\ Elements(plt) = Targets(img, "plt", {JumpSlot}, symidx)
      /\ dyn \in Seq(Nat) /\ Elements(dyn) = Targets(img, "dyn", {GlobDat, Abs}, symidx)
      /\ android \in Seq(Nat)
      /\ Elements(android) = Targets(img, "android", {GlobDat, Abs}, symidx)
  BY OffsetsAreTargets
<1>2. \A x, y \in Targets(img, "plt", {JumpSlot}, symidx) : x = y
  <2>1. RelocsWritten(img, e)
    BY TablesAssumption
  <2> QED
    BY <2>1 DEF RelocsWritten, Targets, Names
<1>3. Visits(img, e, symidx) = first \o dyn \o android
  BY DEF Visits
<1> HIDE DEF plt, dyn, android
<1>4. first \in Seq(Nat) /\ Elements(first) = Elements(plt)
  <2>1. plt \in Seq(Nat) /\ \A x, y \in Elements(plt) : x = y
    BY <1>1, <1>2
  <2> QED
    BY <2>1, HeadElement
<1> HIDE DEF first
<1>5. first \o dyn \in Seq(Nat) /\ Elements(first \o dyn) = Elements(first) \cup Elements(dyn)
  BY <1>1, <1>4, ConcatElements
<1>6. /\ (first \o dyn) \o android \in Seq(Nat)
      /\ Elements((first \o dyn) \o android) = Elements(first \o dyn) \cup Elements(android)
  BY <1>1, <1>5, ConcatElements
<1> QED
  BY <1>1, <1>3, <1>4, <1>5, <1>6

\* Each registration is led to the slots of its symbol and to no others.
THEOREM CallsFindSlots ==
    ASSUME BytesAreRead, NEW img \in Images, CheckElfHeader(img.ehdr), Parse(img).ok
    PROVE  Decoded(img, Parse(img))
<1> DEFINE e == Parse(img)
           at(x) == (e.bias + x) % Word
<1>1. /\ HashWritten(img, e) /\ RelocsWritten(img, e)
      /\ \A i, j \in DOMAIN img.symtab : img.symtab[i] = img.symtab[j] => i = j
  BY TablesAssumption
<1> SUFFICES ASSUME NEW k \in DOMAIN img.hooks
             PROVE  LET name == img.hooks[k].symbol
                    IN  /\ Wanted(img, e, name) \in Seq(Nat)
                        /\ SlotsAt(e, Wanted(img, e, name)) = Meant(img, e, name)
  BY DEF Decoded
<1> DEFINE name == img.hooks[k].symbol
           symidx == SymbolIndex(img, e, name)
           offsets == Wanted(img, e, name)
<1>2. Found(img.symtab, name, symidx)
  <2>1. name \in NamesOf(img) /\ img.symtab[0] # name
    BY <1>1 DEF NamesOf, HashWritten
  <2> QED
    BY <2>1, NameIsFound
<1>3. offsets = IF symidx = NoIndex THEN <<>> ELSE Visits(img, e, symidx)
  BY DEF Wanted
<1>4. SlotsAt(e, offsets) = {at(x) : x \in Elements(offsets)}
  BY DEF SlotsAt, Elements
<1>5. DOMAIN img.linked = {"plt", "dyn", "android"}
  BY <1>1 DEF RelocsWritten
<1>6. CASE symidx = NoIndex
  <2>1. ~ \E j \in DOMAIN img.symtab : img.symtab[j] = name
    <3>1. DOMAIN img.symtab \subseteq Nat
      BY <1>1 DEF HashWritten
    <3> QED
      BY <1>2, <1>6, <3>1 DEF Found, NoIndex
  <2>2. Meant(img, e, name) = {}
    BY <1>1, <2>1 DEF Meant, RelocsWritten
  <2>3. offsets = <<>> /\ SlotsAt(e, <<>>) = {}
    BY <1>3, <1>6 DEF SlotsAt
  <2> HIDE DEF offsets, e
  <2>4. offsets \in Seq(Nat) /\ SlotsAt(e, offsets) = {}
    BY <2>3
  <2> QED
    BY <2>2, <2>4 DEF offsets, e
<1>7. CASE symidx # NoIndex
  <2>1. symidx \in DOMAIN img.symtab /\ img.symtab[symidx] = name
    BY <1>2, <1>7 DEF Found
  <2> DEFINE wanted(section) == IF section = "plt" THEN {JumpSlot} ELSE {GlobDat, Abs}
  <2>2. /\ offsets \in Seq(Nat)
        /\ Elements(offsets) = UNION {Targets(img, section, wanted(section), symidx) :
                                      section \in DOMAIN img.linked}
    <3>1. offsets = Visits(img, e, symidx)
      BY <1>3, <1>7
    <3>2. UNION {Targets(img, section, wanted(section), symidx) : section \in DOMAIN img.linked}
            = Targets(img, "plt", {JumpSlot}, symidx)
              \cup Targets(img, "dyn", {GlobDat, Abs}, symidx)
              \cup Targets(img, "android", {GlobDat, Abs}, symidx)
      <4>1. wanted("plt") = {JumpSlot} /\ wanted("dyn") = {GlobDat, Abs}
            /\ wanted("android") = {GlobDat, Abs}
        OBVIOUS
      <4> HIDE DEF wanted, symidx
      <4> QED
        BY <1>5, <4>1, Zenon
    <3>3. /\ Visits(img, e, symidx) \in Seq(Nat)
          /\ Elements(Visits(img, e, symidx)) =
               Targets(img, "plt", {JumpSlot}, symidx)
               \cup Targets(img, "dyn", {GlobDat, Abs}, symidx)
               \cup Targets(img, "android", {GlobDat, Abs}, symidx)
      <4> HIDE DEF symidx
      <4> QED
        BY VisitsAreTargets
    <3> HIDE DEF offsets, symidx, e, wanted
    <3> QED
      BY <3>1, <3>2, <3>3
  <2> HIDE DEF offsets, symidx, e
  <2>3. ASSUME NEW section \in DOMAIN img.linked, NEW j \in DOMAIN img.linked[section]
        PROVE  /\ SymOf(img.linked[section][j].info) \in DOMAIN img.symtab
               /\ TypeOf(img.linked[section][j].info) \in wanted(section) =>
                    at(img.linked[section][j].offset) \in DOMAIN img.slots
               /\ img.symtab[SymOf(img.linked[section][j].info)] = name
                    <=> SymOf(img.linked[section][j].info) = symidx
    BY <1>1, <2>1 DEF RelocsWritten
  <2>4. ASSUME NEW a \in SlotsAt(e, offsets) PROVE a \in Meant(img, e, name)
    <3>1. PICK section \in DOMAIN img.linked :
             \E x \in Targets(img, section, wanted(section), symidx) : a = at(x)
      BY <1>4, <2>2, <2>4
    <3>2. PICK j \in DOMAIN img.linked[section] :
             /\ Names(img.linked[section][j], wanted(section), symidx)
             /\ a = at(img.linked[section][j].offset)
      BY <3>1 DEF Targets
    <3> QED
      BY <2>3, <3>2 DEF Meant, Names
  <2>5. ASSUME NEW a \in Meant(img, e, name) PROVE a \in SlotsAt(e, offsets)
    <3>1. PICK section \in DOMAIN img.linked : \E j \in DOMAIN img.linked[section] :
             LET r == img.linked[section][j]
             IN  at(r.offset) = a /\ img.symtab[SymOf(r.info)] = name
                 /\ TypeOf(r.info) \in wanted(section)
      BY <2>5 DEF Meant
    <3>2. PICK j \in DOMAIN img.linked[section] :
             LET r == img.linked[section][j]
             IN  at(r.offset) = a /\ img.symtab[SymOf(r.info)] = name
                 /\ TypeOf(r.info) \in wanted(section)
      BY <3>1
    <3>3. Names(img.linked[section][j], wanted(section), symidx)
      BY <2>3, <3>2 DEF Names
    <3>4. img.linked[section][j].offset \in Targets(img, section, wanted(section), symidx)
      BY <3>3 DEF Targets
    <3>5. img.linked[section][j].offset \in Elements(offsets)
      BY <2>2, <3>4
    <3> QED
      BY <1>4, <3>2, <3>5
  <2> QED
    BY <2>2, <2>4, <2>5 DEF offsets, e
<1> QED
  BY <1>6, <1>7

LEMMA TablesRead ==
    ASSUME BytesAreRead
    PROVE  TablesAreRead
BY CallsFindSlots DEF TablesAreRead
=============================================================================
