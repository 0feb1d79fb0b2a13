------------------------ MODULE DynPatternCache_proofs ------------------------
(***************************************************************************)
(* Reference counts of dynamic patterns, the code nested runs execute and  *)
(* the contents of the cache, for all sources, hash functions, limits,     *)
(* depths of nesting and numbers of host references.                       *)
(*                                                                         *)
(* The chains are read as the set of their entries.  The proof counts the  *)
(* surplus of a pattern: its references that are not the cache's.  What    *)
(* the cache does by itself leaves every surplus alone, and a pattern with *)
(* a surplus keeps its source.                                             *)
(***************************************************************************)
EXTENDS DynPatternCache, FiniteSetTheorems, SequenceTheorems, WellFoundedInduction, TLAPS

EntryType == [source : Sources, pattern : Objects]

\* What is in the chains bs, and the entries for pattern o.
Entries(bs) == {e \in EntryType : \E b \in Buckets : \E i \in DOMAIN bs[b] : bs[b][i] = e}
EntriesOf(bs, o) == {e \in Entries(bs) : e.pattern = o}
EntryRefs(bs, o) == Cardinality(EntriesOf(bs, o))

\* Every entry is in the chain of its source, and no source has two.
Chains(bs) ==
    /\ bs \in [Buckets -> Seq(EntryType)]
    /\ \A b \in Buckets : \A i \in DOMAIN bs[b] :
         /\ Bucket[bs[b][i].source] = b
         /\ \A j \in DOMAIN bs[b] : bs[b][i].source = bs[b][j].source => i = j

HeapOK(h) ==
    /\ h \in [Objects -> [source : Sources \cup {NULL}, refcount : Nat]]
    /\ \A o \in Objects : h[o].refcount = 0 <=> h[o].source = NULL

\* Heap h and a cache of n entries in the chains bs.
CacheOK(h, bs, n) ==
    /\ HeapOK(h)
    /\ Chains(bs)
    /\ IsFiniteSet(Entries(bs))
    /\ n = Cardinality(Entries(bs))
    /\ n <= MAX_SIZE
    /\ \A e \in Entries(bs) : h[e.pattern].source = e.source
    /\ \A o \in Objects : EntryRefs(bs, o) <= h[o].refcount

\* References to o that the cache does not hold.
Surplus(h, bs, o) == h[o].refcount - EntryRefs(bs, o)

Frames == Seq(EntryType)
FramesOf(fs, o) == {i \in DOMAIN fs : fs[i].pattern = o}

CacheInv ==
    /\ CacheOK(heap, buckets, size)
    /\ pending \in Sources \cup {NULL}
    /\ frames \in Frames
    /\ held \in [Objects -> Nat]
    /\ \A o \in Objects : Surplus(heap, buckets, o) = FrameRefs(o) + held[o]
    /\ RunsOwnCode

(***************************************************************************)
(* The chains as sets of entries.                                          *)
(***************************************************************************)
\* An element of a chain.
LEMMA ChainElement ==
    ASSUME NEW bs, Chains(bs), NEW b \in Buckets
    PROVE  /\ bs[b] \in Seq(EntryType) /\ Len(bs[b]) \in Nat /\ DOMAIN bs[b] = 1 .. Len(bs[b])
           /\ \A i \in DOMAIN bs[b] : bs[b][i] \in EntryType /\ bs[b][i] \in Entries(bs)
<1>1. bs[b] \in Seq(EntryType)
  BY DEF Chains
<1>2. Len(bs[b]) \in Nat /\ DOMAIN bs[b] = 1 .. Len(bs[b]) /\ bs[b] \in [1 .. Len(bs[b]) -> EntryType]
  BY <1>1, LenProperties
<1> QED BY <1>1, <1>2 DEF Entries

\* An entry is found in the chain of its source, at one place.
LEMMA EntryPlace ==
    ASSUME NEW bs, Chains(bs), NEW e \in Entries(bs)
    PROVE  /\ e \in EntryType /\ Bucket[e.source] \in Buckets
           /\ \E i \in DOMAIN bs[Bucket[e.source]] : bs[Bucket[e.source]][i] = e
<1>1. PICK b \in Buckets : \E i \in DOMAIN bs[b] : bs[b][i] = e
  BY DEF Entries
<1>2. PICK i \in DOMAIN bs[b] : bs[b][i] = e
  BY <1>1
<1>3. b = Bucket[e.source]
  BY <1>2 DEF Chains
<1> QED BY <1>2, <1>3 DEF Entries

\* No source has two entries.
LEMMA OneEntryPerSource ==
    ASSUME NEW bs, Chains(bs), NEW e \in Entries(bs), NEW f \in Entries(bs), e.source = f.source
    PROVE  e = f
<1>1. PICK i \in DOMAIN bs[Bucket[e.source]] : bs[Bucket[e.source]][i] = e
  BY EntryPlace
<1>2. PICK j \in DOMAIN bs[Bucket[f.source]] : bs[Bucket[f.source]][j] = f
  BY EntryPlace
<1>3. Bucket[e.source] \in Buckets
  BY EntryPlace
<1>4. i = j
  BY <1>1, <1>2, <1>3 DEF Chains
<1> QED BY <1>1, <1>2, <1>4

\* Places and entries correspond one to one.
LEMMA PlacesCount ==
    ASSUME NEW bs, Chains(bs), NEW P, IsFiniteSet(P),
           \A p \in P : p[1] \in Buckets /\ p[2] \in DOMAIN bs[p[1]] /\ p = <<p[1], p[2]>>
    PROVE  Cardinality({bs[p[1]][p[2]] : p \in P}) = Cardinality(P)
<1> DEFINE T == {bs[p[1]][p[2]] : p \in P}
           f == [p \in P |-> bs[p[1]][p[2]]]
<1>1. f \in [P -> T] /\ \A t \in T : \E p \in P : f[p] = t
  OBVIOUS
<1>2. ASSUME NEW p \in P, NEW q \in P, f[p] = f[q] PROVE p = q
  <2>1. bs[p[1]][p[2]] = bs[q[1]][q[2]]
    BY <1>2
  <2>2. p[1] = q[1]
    BY <2>1 DEF Chains
  <2>3. p[2] = q[2]
    BY <2>1, <2>2 DEF Chains
  <2> QED BY <2>2, <2>3
<1>3. f \in Bijection(P, T)
  BY <1>1, <1>2 DEF Bijection, Injection, Surjection, IsInjective
<1>4. ExistsBijection(P, T)
  BY <1>3 DEF ExistsBijection
<1> QED BY <1>4, FS_Bijection

\* The chains are no longer than there are entries.
LEMMA ChainsFit ==
    ASSUME NEW bs, Chains(bs), IsFiniteSet(Entries(bs)), NEW b \in Buckets
    PROVE  Len(bs[b]) <= Cardinality(Entries(bs))
<1> DEFINE P == {b} \X (1 .. Len(bs[b]))
<1>1. Len(bs[b]) \in Nat /\ DOMAIN bs[b] = 1 .. Len(bs[b])
  BY ChainElement
<1>2. IsFiniteSet(1 .. Len(bs[b])) /\ Cardinality(1 .. Len(bs[b])) = Len(bs[b])
  BY <1>1, FS_Interval
<1>3. IsFiniteSet({b}) /\ Cardinality({b}) = 1
  BY FS_Singleton
<1>4. IsFiniteSet(P) /\ Cardinality(P) = 1 * Len(bs[b])
  BY <1>2, <1>3, FS_Product
<1>5. Cardinality({bs[p[1]][p[2]] : p \in P}) = Cardinality(P)
  <2>1. \A p \in P : p[1] \in Buckets /\ p[2] \in DOMAIN bs[p[1]] /\ p = <<p[1], p[2]>>
    BY <1>1
  <2> HIDE DEF P
  <2> QED BY <2>1, <1>4, PlacesCount
<1>6. {bs[p[1]][p[2]] : p \in P} \in SUBSET Entries(bs)
  BY <1>1, ChainElement
<1>7. Cardinality({bs[p[1]][p[2]] : p \in P}) <= Cardinality(Entries(bs))
  BY <1>6, FS_Subset
<1> QED BY <1>1, <1>4, <1>5, <1>7

\* The places 1 .. m of all chains hold all entries if no chain is longer.
LEMMA PlacesAll ==
    ASSUME NEW bs, Chains(bs), NEW m \in Nat, \A b \in Buckets : Len(bs[b]) <= m
    PROVE  LET places == {e \in Buckets \X (1 .. m) : e[2] \in DOMAIN bs[e[1]]}
           IN  /\ IsFiniteSet(places)
               /\ Cardinality(places) = Cardinality(Entries(bs))
               /\ \A o : Cardinality({e \in Buckets \X (1 .. m) :
                              e[2] \in DOMAIN bs[e[1]] /\ bs[e[1]][e[2]].pattern = o}) = EntryRefs(bs, o)
<1> DEFINE places == {e \in Buckets \X (1 .. m) : e[2] \in DOMAIN bs[e[1]]}
<1>1. IsFiniteSet(Buckets) /\ IsFiniteSet(1 .. m)
  BY CacheAssumption, FS_Interval DEF Buckets
<1>2. IsFiniteSet(Buckets \X (1 .. m))
  BY <1>1, FS_Product
<1>3. IsFiniteSet(places)
  BY <1>2, FS_Subset
<1>4. \A p \in places : p[1] \in Buckets /\ p[2] \in DOMAIN bs[p[1]] /\ p = <<p[1], p[2]>>
  OBVIOUS
<1>5. \A e \in Entries(bs) : \E p \in places : bs[p[1]][p[2]] = e
  <2> SUFFICES ASSUME NEW e \in Entries(bs) PROVE \E p \in places : bs[p[1]][p[2]] = e
    OBVIOUS
  <2>0. PICK b \in Buckets : \E i \in DOMAIN bs[b] : bs[b][i] = e
    BY DEF Entries
  <2>1. PICK i \in DOMAIN bs[b] : bs[b][i] = e
    BY <2>0
  <2>2. i \in 1 .. m
    BY ChainElement
  <2>3. <<b, i>> \in places
    BY <2>1, <2>2
  <2> QED BY <2>1, <2>3
<1>6. \A p \in places : bs[p[1]][p[2]] \in Entries(bs)
  BY <1>4, ChainElement
<1>7. Cardinality(places) = Cardinality(Entries(bs))
  <2>1. {bs[p[1]][p[2]] : p \in places} = Entries(bs)
    BY <1>5, <1>6
  <2> HIDE DEF places
  <2> QED BY <2>1, <1>3, <1>4, PlacesCount
<1>8. ASSUME NEW o
      PROVE  Cardinality({e \in Buckets \X (1 .. m) :
                  e[2] \in DOMAIN bs[e[1]] /\ bs[e[1]][e[2]].pattern = o}) = EntryRefs(bs, o)
  <2> DEFINE Q == {p \in places : bs[p[1]][p[2]].pattern = o}
  <2>1. {e \in Buckets \X (1 .. m) : e[2] \in DOMAIN bs[e[1]] /\ bs[e[1]][e[2]].pattern = o} = Q
    OBVIOUS
  <2>2. IsFiniteSet(Q)
    BY <1>3, FS_Subset
  <2>3. {bs[p[1]][p[2]] : p \in Q} = EntriesOf(bs, o)
    BY <1>5, <1>6 DEF EntriesOf
  <2>4. \A p \in Q : p[1] \in Buckets /\ p[2] \in DOMAIN bs[p[1]] /\ p = <<p[1], p[2]>>
    BY <1>4
  <2>5. Cardinality(Q) = EntryRefs(bs, o)
    <3> HIDE DEF Q
    <3> QED BY <2>2, <2>3, <2>4, PlacesCount DEF EntryRefs
  <2> QED BY <2>1, <2>5
<1> QED BY <1>3, <1>7, <1>8

(***************************************************************************)
(* Counting the entries of a pattern.                                      *)
(***************************************************************************)
LEMMA EntryRefsType ==
    ASSUME NEW bs, IsFiniteSet(Entries(bs)), NEW o
    PROVE  /\ IsFiniteSet(EntriesOf(bs, o)) /\ EntryRefs(bs, o) \in Nat
           /\ EntryRefs(bs, o) = 0 <=> EntriesOf(bs, o) = {}
<1>1. EntriesOf(bs, o) \in SUBSET Entries(bs)
  BY DEF EntriesOf
<1>2. IsFiniteSet(EntriesOf(bs, o))
  BY <1>1, FS_Subset
<1> QED BY <1>2, FS_CardinalityType, FS_EmptySet DEF EntryRefs

LEMMA EntryAdded ==
    ASSUME NEW bs, NEW bs2, NEW e \in EntryType, IsFiniteSet(Entries(bs)),
           Entries(bs2) = Entries(bs) \cup {e}, e \notin Entries(bs)
    PROVE  /\ IsFiniteSet(Entries(bs2))
           /\ Cardinality(Entries(bs2)) = Cardinality(Entries(bs)) + 1
           /\ \A o : EntryRefs(bs2, o) = EntryRefs(bs, o) + (IF e.pattern = o THEN 1 ELSE 0)
<1>1. IsFiniteSet(Entries(bs2)) /\ Cardinality(Entries(bs2)) = Cardinality(Entries(bs)) + 1
  BY FS_AddElement
<1>2. ASSUME NEW o
      PROVE  EntryRefs(bs2, o) = EntryRefs(bs, o) + (IF e.pattern = o THEN 1 ELSE 0)
  <2>1. IsFiniteSet(EntriesOf(bs, o)) /\ EntryRefs(bs, o) \in Nat
    BY EntryRefsType
  <2>2. CASE e.pattern = o
    <3>1. EntriesOf(bs2, o) = EntriesOf(bs, o) \cup {e} /\ e \notin EntriesOf(bs, o)
      BY <2>2 DEF EntriesOf
    <3> QED BY <2>1, <2>2, <3>1, FS_AddElement DEF EntryRefs
  <2>3. CASE e.pattern # o
    <3>1. EntriesOf(bs2, o) = EntriesOf(bs, o)
      BY <2>3 DEF EntriesOf
    <3> QED BY <2>1, <2>3, <3>1 DEF EntryRefs
  <2> QED BY <2>2, <2>3
<1> QED BY <1>1, <1>2

LEMMA EntryRemoved ==
    ASSUME NEW bs, NEW bs2, NEW e \in EntryType, IsFiniteSet(Entries(bs)),
           Entries(bs2) = Entries(bs) \ {e}, e \in Entries(bs)
    PROVE  /\ IsFiniteSet(Entries(bs2))
           /\ Cardinality(Entries(bs2)) = Cardinality(Entries(bs)) - 1
           /\ \A o : EntryRefs(bs2, o) = EntryRefs(bs, o) - (IF e.pattern = o THEN 1 ELSE 0)
<1>1. IsFiniteSet(Entries(bs2)) /\ Cardinality(Entries(bs2)) = Cardinality(Entries(bs)) - 1
  BY FS_RemoveElement
<1>2. ASSUME NEW o
      PROVE  EntryRefs(bs2, o) = EntryRefs(bs, o) - (IF e.pattern = o THEN 1 ELSE 0)
  <2>1. IsFiniteSet(EntriesOf(bs, o)) /\ EntryRefs(bs, o) \in Nat
    BY EntryRefsType
  <2>2. CASE e.pattern = o
    <3>1. EntriesOf(bs2, o) = EntriesOf(bs, o) \ {e} /\ e \in EntriesOf(bs, o)
      BY <2>2 DEF EntriesOf
    <3> QED BY <2>1, <2>2, <3>1, FS_RemoveElement DEF EntryRefs
  <2>3. CASE e.pattern # o
    <3>1. EntriesOf(bs2, o) = EntriesOf(bs, o)
      BY <2>3 DEF EntriesOf
    <3> QED BY <2>1, <2>3, <3>1 DEF EntryRefs
  <2> QED BY <2>2, <2>3
<1> QED BY <1>1, <1>2

(***************************************************************************)
(* Changing a chain.                                                       *)
(***************************************************************************)
\* A chain without its i-th element.
LEMMA WithoutFacts ==
    ASSUME NEW c \in Seq(EntryType), NEW i \in 1 .. Len(c)
    PROVE  /\ Without(c, i) \in Seq(EntryType)
           /\ Len(Without(c, i)) = Len(c) - 1
           /\ \A j \in 1 .. Len(c) - 1 : Without(c, i)[j] = IF j < i THEN c[j] ELSE c[j + 1]
<1> DEFINE l == SubSeq(c, 1, i - 1)
           r == SubSeq(c, i + 1, Len(c))
<1>1. Len(c) \in Nat /\ \A j \in 1 .. Len(c) : c[j] \in EntryType
  BY LenProperties
<1>2. l \in Seq(EntryType) /\ Len(l) = i - 1 /\ \A j \in 1 .. i - 1 : l[j] = c[j]
  <2>1. \A j \in 1 .. i - 1 : c[j] \in EntryType
    BY <1>1
  <2> QED BY <1>1, <2>1, SubSeqProperties
<1>3. r \in Seq(EntryType) /\ Len(r) = Len(c) - i /\ \A j \in 1 .. Len(c) - i : r[j] = c[j + i]
  <2>1. \A j \in i + 1 .. Len(c) : c[j] \in EntryType
    BY <1>1
  <2>2. i + 1 \in Int /\ Len(c) \in Int
    BY <1>1
  <2>3. /\ r \in Seq(EntryType) /\ Len(r) = IF i + 1 <= Len(c) THEN Len(c) - (i + 1) + 1 ELSE 0
        /\ \A j \in 1 .. Len(c) - (i + 1) + 1 : r[j] = c[(i + 1) + j - 1]
    BY <2>1, <2>2, SubSeqProperties
  <2> QED BY <1>1, <2>3
<1> HIDE DEF l, r
<1>4. /\ l \o r \in Seq(EntryType) /\ Len(l \o r) = Len(l) + Len(r)
      /\ \A j \in 1 .. Len(l) + Len(r) : (l \o r)[j] = IF j <= Len(l) THEN l[j] ELSE r[j - Len(l)]
  BY <1>2, <1>3, ConcatProperties
<1>5. Without(c, i) = l \o r
  BY DEF Without, l, r
<1>6. ASSUME NEW j \in 1 .. Len(c) - 1
      PROVE  (l \o r)[j] = IF j < i THEN c[j] ELSE c[j + 1]
  <2>1. j \in 1 .. Len(l) + Len(r) /\ j \in Int /\ i \in Int
    BY <1>1, <1>2, <1>3
  <2>2. CASE j < i
    BY <1>2, <1>4, <2>1, <2>2
  <2>3. CASE ~(j < i)
    <3>1. j - (i - 1) \in 1 .. Len(c) - i /\ (j - (i - 1)) + i = j + 1
      BY <1>1, <2>1, <2>3
    <3>2. (l \o r)[j] = r[j - (i - 1)]
      BY <1>2, <1>4, <2>1, <2>3
    <3>3. r[j - (i - 1)] = c[(j - (i - 1)) + i]
      BY <1>3, <3>1
    <3> QED BY <2>3, <3>1, <3>2, <3>3
  <2> QED BY <2>2, <2>3
<1> QED BY <1>1, <1>2, <1>3, <1>4, <1>5, <1>6

\* The first element is dropped.
LEMMA TailIsWithout ==
    ASSUME NEW c \in Seq(EntryType), c # <<>>
    PROVE  Tail(c) = Without(c, 1) /\ Head(c) = c[1] /\ 1 \in DOMAIN c
<1>1. Len(c) \in Nat /\ Len(c) > 0 /\ DOMAIN c = 1 .. Len(c)
  BY LenProperties, EmptySeq
<1>2. Tail(c) \in Seq(EntryType) /\ Len(Tail(c)) = Len(c) - 1 /\ \A i \in 1 .. Len(Tail(c)) : Tail(c)[i] = c[i + 1]
  BY HeadTailProperties
<1>3. /\ Without(c, 1) \in Seq(EntryType) /\ Len(Without(c, 1)) = Len(c) - 1
      /\ \A j \in 1 .. Len(c) - 1 : Without(c, 1)[j] = IF j < 1 THEN c[j] ELSE c[j + 1]
  <2>1. 1 \in 1 .. Len(c)
    BY <1>1
  <2> QED BY <2>1, WithoutFacts, Zenon
<1>4. Tail(c) = Without(c, 1)
  BY <1>1, <1>2, <1>3, SeqEqual
<1> QED BY <1>1, <1>4

\* An uncached source gets an entry at the front of its chain.
LEMMA PrependEntry ==
    ASSUME NEW bs, Chains(bs), NEW e \in EntryType, \A f \in Entries(bs) : f.source # e.source
    PROVE  LET bs2 == [bs EXCEPT ![Bucket[e.source]] = <<e>> \o @]
           IN  Chains(bs2) /\ Entries(bs2) = Entries(bs) \cup {e} /\ e \notin Entries(bs)
<1> DEFINE c   == Bucket[e.source]
           bs2 == [bs EXCEPT ![c] = <<e>> \o @]
<1>1. c \in Buckets
  BY CacheAssumption DEF Buckets, EntryType
<1>2. /\ bs[c] \in Seq(EntryType) /\ Len(bs[c]) \in Nat /\ DOMAIN bs[c] = 1 .. Len(bs[c])
      /\ \A i \in DOMAIN bs[c] : bs[c][i] \in Entries(bs)
  BY <1>1, ChainElement
<1>3. /\ <<e>> \o bs[c] \in Seq(EntryType)
      /\ Len(<<e>> \o bs[c]) = Len(bs[c]) + 1
      /\ (<<e>> \o bs[c])[1] = e
      /\ \A i \in 2 .. Len(bs[c]) + 1 : (<<e>> \o bs[c])[i] = bs[c][i - 1]
  <2>1. <<e>> \in Seq(EntryType) /\ Len(<<e>>) = 1 /\ <<e>>[1] = e
    OBVIOUS
  <2>2. /\ <<e>> \o bs[c] \in Seq(EntryType)
        /\ Len(<<e>> \o bs[c]) = Len(<<e>>) + Len(bs[c])
        /\ \A i \in 1 .. Len(<<e>>) + Len(bs[c]) :
             (<<e>> \o bs[c])[i] = IF i <= Len(<<e>>) THEN <<e>>[i] ELSE bs[c][i - Len(<<e>>)]
    BY <1>2, <2>1, ConcatProperties
  <2> QED BY <1>2, <2>1, <2>2
<1> DEFINE c2 == <<e>> \o bs[c]
<1>4. c2 \in Seq(EntryType) /\ DOMAIN c2 = 1 .. Len(bs[c]) + 1 /\ c2[1] = e
      /\ \A i \in 2 .. Len(bs[c]) + 1 : i - 1 \in DOMAIN bs[c] /\ c2[i] = bs[c][i - 1]
  BY <1>2, <1>3, LenProperties
<1> HIDE DEF c2
<1>5. bs \in [Buckets -> Seq(EntryType)] /\ bs2 = [bs EXCEPT ![c] = c2]
  BY DEF Chains, c2
<1>6. /\ bs2 \in [Buckets -> Seq(EntryType)] /\ bs2[c] = c2
      /\ \A b \in Buckets : b # c => bs2[b] = bs[b]
  BY <1>1, <1>4, <1>5
<1> HIDE DEF bs2
<1>7. \A b \in Buckets : \A i \in DOMAIN bs2[b] :
        /\ Bucket[bs2[b][i].source] = b
        /\ \A j \in DOMAIN bs2[b] : bs2[b][i].source = bs2[b][j].source => i = j
  <2> SUFFICES ASSUME NEW b \in Buckets, NEW i \in DOMAIN bs2[b]
               PROVE  /\ Bucket[bs2[b][i].source] = b
                      /\ \A j \in DOMAIN bs2[b] : bs2[b][i].source = bs2[b][j].source => i = j
    OBVIOUS
  <2>1. CASE b # c
    BY <1>6, <2>1 DEF Chains
  <2>2. CASE b = c
    <3>1. ASSUME NEW k \in 2 .. Len(bs[c]) + 1
          PROVE  Bucket[c2[k].source] = c /\ c2[k].source # e.source
      <4>1. k - 1 \in DOMAIN bs[c] /\ c2[k] = bs[c][k - 1]
        BY <1>4
      <4>2. Bucket[bs[c][k - 1].source] = c
        BY <1>1, <4>1 DEF Chains
      <4>3. bs[c][k - 1] \in Entries(bs)
        BY <1>2, <4>1
      <4> QED BY <4>1, <4>2, <4>3
    <3>2. ASSUME NEW k \in 1 .. Len(bs[c]) + 1 PROVE k = 1 \/ k \in 2 .. Len(bs[c]) + 1
      BY <1>2
    <3>3. Bucket[c2[i].source] = c
      BY <1>4, <1>6, <2>2, <3>1, <3>2
    <3>4. ASSUME NEW j \in DOMAIN c2, c2[i].source = c2[j].source PROVE i = j
      <4>1. i \in 1 .. Len(bs[c]) + 1 /\ j \in 1 .. Len(bs[c]) + 1
        BY <1>4, <1>6, <2>2
      <4>2. CASE i = 1 \/ j = 1
        BY <1>4, <3>1, <3>2, <3>4, <4>1, <4>2
      <4>3. CASE i # 1 /\ j # 1
        <5>1. i - 1 \in DOMAIN bs[c] /\ j - 1 \in DOMAIN bs[c]
              /\ bs[c][i - 1].source = bs[c][j - 1].source
          BY <1>4, <3>2, <3>4, <4>1, <4>3
        <5>2. i - 1 = j - 1
          BY <1>1, <5>1 DEF Chains
        <5> QED BY <4>1, <5>2
      <4> QED BY <4>2, <4>3
    <3> QED BY <1>6, <2>2, <3>3, <3>4
  <2> QED BY <2>1, <2>2
<1>8. Chains(bs2)
  BY <1>6, <1>7 DEF Chains
<1>9. e \notin Entries(bs)
  OBVIOUS
<1>10. ASSUME NEW f \in Entries(bs2) PROVE f \in Entries(bs) \cup {e}
  <2>1. PICK b \in Buckets : \E i \in DOMAIN bs2[b] : bs2[b][i] = f
    BY DEF Entries
  <2>2. PICK i \in DOMAIN bs2[b] : bs2[b][i] = f
    BY <2>1
  <2>3. CASE b # c
    BY <1>6, <2>2, <2>3 DEF Entries
  <2>4. CASE b = c
    <3>1. i = 1 \/ i \in 2 .. Len(bs[c]) + 1
      BY <1>2, <1>4, <1>6, <2>4
    <3>2. c2[i] = f
      BY <1>6, <2>2, <2>4
    <3>3. CASE i = 1
      BY <1>4, <3>2, <3>3
    <3>4. CASE i \in 2 .. Len(bs[c]) + 1
      <4>1. i - 1 \in DOMAIN bs[c] /\ c2[i] = bs[c][i - 1]
        BY <1>4, <3>4
      <4>2. bs[c][i - 1] \in Entries(bs)
        BY <1>2, <4>1
      <4> QED BY <3>2, <4>1, <4>2
    <3> QED BY <3>1, <3>3, <3>4
  <2> QED BY <2>3, <2>4
<1>11. ASSUME NEW f \in Entries(bs) PROVE f \in Entries(bs2)
  <2>1. PICK b \in Buckets : \E i \in DOMAIN bs[b] : bs[b][i] = f
    BY DEF Entries
  <2>2. PICK i \in DOMAIN bs[b] : bs[b][i] = f
    BY <2>1
  <2>3. CASE b # c
    BY <1>6, <2>2, <2>3 DEF Entries
  <2>4. CASE b = c
    <3>1. i + 1 \in 2 .. Len(bs[c]) + 1 /\ (i + 1) - 1 = i
      BY <1>2, <2>4
    <3>2. i + 1 \in DOMAIN bs2[c] /\ bs2[c][i + 1] = f
      BY <1>2, <1>4, <1>6, <2>2, <2>4, <3>1
    <3> QED BY <1>1, <3>2 DEF Entries
  <2> QED BY <2>3, <2>4
<1>12. e \in Entries(bs2)
  <2>1. 1 \in DOMAIN bs2[c] /\ bs2[c][1] = e
    BY <1>2, <1>4, <1>6
  <2> QED BY <1>1, <2>1 DEF Entries
<1>13. Entries(bs2) = Entries(bs) \cup {e}
  BY <1>10, <1>11, <1>12
<1> QED BY <1>8, <1>9, <1>13 DEF bs2

\* An entry is taken out of its chain.
LEMMA TakeEntry ==
    ASSUME NEW bs, Chains(bs), NEW c \in Buckets, NEW n \in DOMAIN bs[c]
    PROVE  LET bs2 == [bs EXCEPT ![c] = Without(@, n)]
           IN  Chains(bs2) /\ Entries(bs2) = Entries(bs) \ {bs[c][n]}
<1> DEFINE e   == bs[c][n]
           bs2 == [bs EXCEPT ![c] = Without(@, n)]
           c2  == Without(bs[c], n)
<1>1. bs[c] \in Seq(EntryType) /\ Len(bs[c]) \in Nat /\ DOMAIN bs[c] = 1 .. Len(bs[c])
  BY ChainElement
<1>2. /\ c2 \in Seq(EntryType) /\ Len(c2) = Len(bs[c]) - 1
      /\ \A j \in 1 .. Len(bs[c]) - 1 : c2[j] = IF j < n THEN bs[c][j] ELSE bs[c][j + 1]
  BY <1>1, WithoutFacts
<1>3. DOMAIN c2 = 1 .. Len(bs[c]) - 1
  BY <1>2, LenProperties
<1> HIDE DEF c2
<1>4. ASSUME NEW j \in DOMAIN c2
      PROVE  \E k \in DOMAIN bs[c] : k # n /\ (k = IF j < n THEN j ELSE j + 1) /\ c2[j] = bs[c][k]
  <2>1. j \in 1 .. Len(bs[c]) - 1 /\ n \in 1 .. Len(bs[c])
    BY <1>1, <1>3
  <2>2. CASE j < n
    BY <1>1, <1>2, <2>1, <2>2
  <2>3. CASE ~(j < n)
    <3>1. j + 1 \in DOMAIN bs[c] /\ j + 1 # n /\ c2[j] = bs[c][j + 1]
      BY <1>1, <1>2, <2>1, <2>3
    <3> QED BY <2>3, <3>1
  <2> QED BY <2>2, <2>3
<1>5. ASSUME NEW k \in DOMAIN bs[c], k # n PROVE \E j \in DOMAIN c2 : c2[j] = bs[c][k]
  <2>1. k \in 1 .. Len(bs[c]) /\ n \in 1 .. Len(bs[c])
    BY <1>1
  <2>2. CASE k < n
    BY <1>1, <1>2, <1>3, <2>1, <2>2
  <2>3. CASE ~(k < n)
    <3>1. k - 1 \in 1 .. Len(bs[c]) - 1 /\ ~(k - 1 < n) /\ (k - 1) + 1 = k
      BY <1>1, <1>5, <2>1, <2>3
    <3>2. c2[k - 1] = bs[c][k]
      BY <1>2, <3>1
    <3> QED BY <1>3, <3>1, <3>2
  <2> QED BY <2>2, <2>3
<1>6. /\ bs2 \in [Buckets -> Seq(EntryType)] /\ bs2[c] = c2
      /\ \A b \in Buckets : b # c => bs2[b] = bs[b]
  BY <1>2 DEF Chains, c2
<1> HIDE DEF bs2
<1>7. \A b \in Buckets : \A i \in DOMAIN bs2[b] :
        /\ Bucket[bs2[b][i].source] = b
        /\ \A j \in DOMAIN bs2[b] : bs2[b][i].source = bs2[b][j].source => i = j
  <2> SUFFICES ASSUME NEW b \in Buckets, NEW i \in DOMAIN bs2[b]
               PROVE  /\ Bucket[bs2[b][i].source] = b
                      /\ \A j \in DOMAIN bs2[b] : bs2[b][i].source = bs2[b][j].source => i = j
    OBVIOUS
  <2>1. CASE b # c
    BY <1>6, <2>1 DEF Chains
  <2>2. CASE b = c
    <3>1. PICK k \in DOMAIN bs[c] : (k = IF i < n THEN i ELSE i + 1) /\ c2[i] = bs[c][k]
      BY <1>4, <1>6, <2>2
    <3>2. Bucket[c2[i].source] = c
      BY <3>1 DEF Chains
    <3>3. ASSUME NEW j \in DOMAIN c2, c2[i].source = c2[j].source PROVE i = j
      <4>1. PICK m \in DOMAIN bs[c] : (m = IF j < n THEN j ELSE j + 1) /\ c2[j] = bs[c][m]
        BY <1>4
      <4>2. k = m
        BY <3>1, <3>3, <4>1 DEF Chains
      <4>3. i \in Int /\ j \in Int /\ n \in Int
        BY <1>1, <1>3, <1>6, <2>2
      <4> QED BY <3>1, <4>1, <4>2, <4>3
    <3> QED BY <1>6, <2>2, <3>2, <3>3
  <2> QED BY <2>1, <2>2
<1>8. Chains(bs2)
  BY <1>6, <1>7 DEF Chains
<1>9. ASSUME NEW f \in Entries(bs2) PROVE f \in Entries(bs) /\ f # e
  <2>1. PICK b \in Buckets : \E i \in DOMAIN bs2[b] : bs2[b][i] = f
    BY DEF Entries
  <2>2. PICK i \in DOMAIN bs2[b] : bs2[b][i] = f
    BY <2>1
  <2>3. CASE b # c
    <3>1. i \in DOMAIN bs[b] /\ bs[b][i] = f
      BY <1>6, <2>2, <2>3
    <3>2. Bucket[f.source] = b /\ Bucket[e.source] = c
      BY <3>1 DEF Chains
    <3> QED BY <2>3, <3>1, <3>2 DEF Entries
  <2>4. CASE b = c
    <3>1. PICK k \in DOMAIN bs[c] : k # n /\ c2[i] = bs[c][k]
      BY <1>4, <1>6, <2>4
    <3>2. f = bs[c][k]
      BY <1>6, <2>2, <2>4, <3>1
    <3>3. f # e
      BY <3>1, <3>2 DEF Chains
    <3> QED BY <3>1, <3>2, <3>3, ChainElement
  <2> QED BY <2>3, <2>4
<1>10. ASSUME NEW f \in Entries(bs), f # e PROVE f \in Entries(bs2)
  <2>1. PICK b \in Buckets : \E i \in DOMAIN bs[b] : bs[b][i] = f
    BY DEF Entries
  <2>2. PICK i \in DOMAIN bs[b] : bs[b][i] = f
    BY <2>1
  <2>3. CASE b # c
    BY <1>6, <2>2, <2>3 DEF Entries
  <2>4. CASE b = c
    <3>1. i # n
      BY <1>10, <2>2, <2>4
    <3>2. PICK j \in DOMAIN c2 : c2[j] = bs[c][i]
      BY <1>5, <2>4, <3>1
    <3> QED BY <1>6, <2>2, <2>4, <3>2 DEF Entries
  <2> QED BY <2>3, <2>4
<1>11. Entries(bs2) = Entries(bs) \ {e}
  BY <1>9, <1>10
<1> QED BY <1>8, <1>11 DEF bs2

(***************************************************************************)
(* What each operation does to the heap, the cache and the surplus of a    *)
(* pattern.                                                                *)
(***************************************************************************)
LEMMA SurplusType ==
    ASSUME NEW h, NEW bs, NEW n, CacheOK(h, bs, n), NEW o \in Objects
    PROVE  Surplus(h, bs, o) \in Nat /\ EntryRefs(bs, o) \in Nat /\ h[o].refcount \in Nat
<1>1. EntryRefs(bs, o) \in Nat
  BY EntryRefsType DEF CacheOK
<1>2. h[o].refcount \in Nat /\ EntryRefs(bs, o) <= h[o].refcount
  BY DEF CacheOK, HeapOK
<1> QED BY <1>1, <1>2 DEF Surplus

\* A pattern that some entry points to has a reference.
LEMMA EntryCounts ==
    ASSUME NEW h, NEW bs, NEW n, CacheOK(h, bs, n), NEW e \in Entries(bs)
    PROVE  /\ e \in EntryType /\ e.pattern \in Objects /\ e.source \in Sources
           /\ EntryRefs(bs, e.pattern) > 0 /\ h[e.pattern].refcount > 0
<1>1. e \in EntryType /\ e.pattern \in Objects /\ e.source \in Sources
  BY DEF Entries, EntryType
<1>2. EntriesOf(bs, e.pattern) # {}
  BY DEF EntriesOf
<1>3. EntryRefs(bs, e.pattern) \in Nat /\ EntryRefs(bs, e.pattern) # 0
  BY <1>2, EntryRefsType DEF CacheOK
<1>4. EntryRefs(bs, e.pattern) <= h[e.pattern].refcount /\ h[e.pattern].refcount \in Nat
  BY <1>1, SurplusType DEF CacheOK
<1> QED BY <1>1, <1>3, <1>4

\* dynamic_pattern_create
LEMMA CreateStep ==
    ASSUME NEW h, NEW bs, NEW n, CacheOK(h, bs, n),
           NEW o \in Objects \ Allocated(h), NEW s \in Sources
    PROVE  /\ CacheOK(Create(h, o, s), bs, n)
           /\ Create(h, o, s)[o].source = s
           /\ Surplus(h, bs, o) = 0 /\ Surplus(Create(h, o, s), bs, o) = 1
           /\ \A x \in Objects : x # o => Create(h, o, s)[x] = h[x]
<1> DEFINE h2 == Create(h, o, s)
<1>1. h[o].refcount = 0 /\ EntryRefs(bs, o) = 0
  <2>1. h[o].refcount \in Nat /\ EntryRefs(bs, o) \in Nat /\ EntryRefs(bs, o) <= h[o].refcount
    BY SurplusType DEF CacheOK
  <2> QED BY <2>1 DEF Allocated
<1>2. h \in [Objects -> [source : Sources \cup {NULL}, refcount : Nat]]
  BY DEF CacheOK, HeapOK
<1>3. /\ h2 \in [Objects -> [source : Sources \cup {NULL}, refcount : Nat]]
      /\ h2[o].source = s /\ h2[o].refcount = 1
      /\ \A x \in Objects : x # o => h2[x] = h[x]
  BY <1>2 DEF Create
<1> HIDE DEF h2
<1>4. HeapOK(h2)
  <2>1. s # NULL
    BY CacheAssumption
  <2> QED BY <1>3, <2>1 DEF HeapOK, CacheOK
<1>5. \A e \in Entries(bs) : e.pattern \in Objects /\ e.pattern # o
  BY <1>1, EntryCounts
<1>6. CacheOK(h2, bs, n)
  <2>1. \A e \in Entries(bs) : h2[e.pattern].source = e.source
    BY <1>3, <1>5 DEF CacheOK
  <2>2. \A x \in Objects : EntryRefs(bs, x) <= h2[x].refcount
    BY <1>1, <1>3 DEF CacheOK
  <2> QED BY <1>4, <2>1, <2>2 DEF CacheOK
<1>7. Surplus(h, bs, o) = 0 /\ Surplus(h2, bs, o) = 1
  BY <1>1, <1>3 DEF Surplus
<1> QED BY <1>3, <1>6, <1>7 DEF h2

\* dynamic_pattern_retain
LEMMA RetainStep ==
    ASSUME NEW h, NEW bs, NEW n, CacheOK(h, bs, n), NEW o \in Objects, h[o].refcount > 0
    PROVE  /\ CacheOK(Retain(h, o), bs, n)
           /\ Surplus(Retain(h, o), bs, o) = Surplus(h, bs, o) + 1
           /\ \A x \in Objects : /\ Retain(h, o)[x].source = h[x].source
                                 /\ x # o => Retain(h, o)[x] = h[x]
<1> DEFINE h2 == Retain(h, o)
<1>1. h \in [Objects -> [source : Sources \cup {NULL}, refcount : Nat]]
  BY DEF CacheOK, HeapOK
<1>2. /\ h2 \in [Objects -> [source : Sources \cup {NULL}, refcount : Nat]]
      /\ h2[o].source = h[o].source /\ h2[o].refcount = h[o].refcount + 1
      /\ \A x \in Objects : x # o => h2[x] = h[x]
  BY <1>1 DEF Retain
<1> HIDE DEF h2
<1>3. HeapOK(h2)
  BY <1>1, <1>2 DEF HeapOK, CacheOK
<1>4. CacheOK(h2, bs, n)
  <2>1. \A e \in Entries(bs) : e.pattern \in Objects /\ h2[e.pattern].source = e.source
    BY <1>2, EntryCounts DEF CacheOK
  <2>2. \A x \in Objects : EntryRefs(bs, x) <= h2[x].refcount
    BY <1>2, SurplusType DEF CacheOK
  <2> QED BY <1>3, <2>1, <2>2 DEF CacheOK
<1>5. Surplus(h2, bs, o) = Surplus(h, bs, o) + 1
  BY <1>2, SurplusType DEF Surplus
<1> QED BY <1>2, <1>4, <1>5 DEF h2

\* dynamic_pattern_release
LEMMA ReleaseFacts ==
    ASSUME NEW h, HeapOK(h), NEW o \in Objects, h[o].refcount > 0
    PROVE  /\ HeapOK(Release(h, o))
           /\ Release(h, o)[o].refcount = h[o].refcount - 1
           /\ h[o].refcount > 1 => Release(h, o)[o].source = h[o].source
           /\ \A x \in Objects : x # o => Release(h, o)[x] = h[x]
<1> DEFINE r  == h[o]
           h2 == Release(h, o)
           v  == IF r.refcount = 1 THEN Free
                 ELSE [source |-> r.source, refcount |-> r.refcount - 1]
<1>1. h \in [Objects -> [source : Sources \cup {NULL}, refcount : Nat]]
      /\ r \in [source : Sources \cup {NULL}, refcount : Nat]
  BY DEF HeapOK
<1>2. h2 = [h EXCEPT ![o] = v]
  BY DEF Release
<1>3. /\ v \in [source : Sources \cup {NULL}, refcount : Nat]
      /\ v.refcount = r.refcount - 1 /\ (r.refcount > 1 => v.source = r.source)
      /\ (r.refcount = 1 => v.source = NULL)
  <2>1. CASE r.refcount = 1
    BY <2>1 DEF Free
  <2>2. CASE r.refcount # 1
    BY <1>1, <2>2
  <2> QED BY <2>1, <2>2
<1> HIDE DEF v
<1>4. /\ h2 \in [Objects -> [source : Sources \cup {NULL}, refcount : Nat]]
      /\ h2[o] = v /\ \A x \in Objects : x # o => h2[x] = h[x]
  BY <1>1, <1>2, <1>3
<1> HIDE DEF h2
<1>5. v.refcount = 0 <=> v.source = NULL
  <2>1. r.refcount \in Nat /\ r.source # NULL
    BY <1>1 DEF HeapOK
  <2> QED BY <1>3, <2>1
<1>6. HeapOK(h2)
  BY <1>4, <1>5 DEF HeapOK
<1> QED BY <1>3, <1>4, <1>6 DEF h2

\* A reference that is not the cache's is given back.
LEMMA ReleaseStep ==
    ASSUME NEW h, NEW bs, NEW n, CacheOK(h, bs, n), NEW o \in Objects, Surplus(h, bs, o) > 0
    PROVE  /\ CacheOK(Release(h, o), bs, n)
           /\ Surplus(Release(h, o), bs, o) = Surplus(h, bs, o) - 1
           /\ Surplus(h, bs, o) > 1 => Release(h, o)[o].source = h[o].source
           /\ \A x \in Objects : x # o => Release(h, o)[x] = h[x]
<1> DEFINE h2 == Release(h, o)
<1>1. h[o].refcount \in Nat /\ EntryRefs(bs, o) \in Nat /\ h[o].refcount > EntryRefs(bs, o)
  BY SurplusType DEF Surplus
<1>2. /\ HeapOK(h2) /\ h2[o].refcount = h[o].refcount - 1
      /\ (h[o].refcount > 1 => h2[o].source = h[o].source)
      /\ \A x \in Objects : x # o => h2[x] = h[x]
  BY <1>1, ReleaseFacts DEF CacheOK
<1> HIDE DEF h2
<1>3. ASSUME NEW e \in Entries(bs) PROVE h2[e.pattern].source = e.source
  <2>1. e.pattern \in Objects /\ EntryRefs(bs, e.pattern) > 0 /\ h[e.pattern].source = e.source
    BY EntryCounts DEF CacheOK
  <2>2. CASE e.pattern = o
    <3>1. h[o].refcount > 1
      BY <1>1, <2>1, <2>2
    <3> QED BY <1>2, <2>1, <2>2, <3>1
  <2>3. CASE e.pattern # o
    BY <1>2, <2>1, <2>3
  <2> QED BY <2>2, <2>3
<1>4. \A x \in Objects : EntryRefs(bs, x) <= h2[x].refcount
  BY <1>1, <1>2 DEF CacheOK
<1>5. CacheOK(h2, bs, n)
  BY <1>2, <1>3, <1>4 DEF CacheOK
<1>6. Surplus(h2, bs, o) = Surplus(h, bs, o) - 1
  BY <1>1, <1>2 DEF Surplus
<1>7. Surplus(h, bs, o) > 1 => h2[o].source = h[o].source
  BY <1>1, <1>2 DEF Surplus
<1> QED BY <1>2, <1>5, <1>6, <1>7 DEF h2

\* What the cache does by itself: every surplus stays as it is, and with it
\* the source of the pattern.
OwnStep(h, bs, h2, bs2) ==
    \A x \in Objects : /\ Surplus(h2, bs2, x) = Surplus(h, bs, x)
                       /\ Surplus(h, bs, x) > 0 => h2[x].source = h[x].source

\* An entry is dropped and its reference given back.
LEMMA DropStep ==
    ASSUME NEW h, NEW bs, NEW n, CacheOK(h, bs, n), NEW c \in Buckets, NEW i \in DOMAIN bs[c]
    PROVE  LET h2  == Release(h, bs[c][i].pattern)
               bs2 == [bs EXCEPT ![c] = Without(@, i)]
           IN  CacheOK(h2, bs2, n - 1) /\ OwnStep(h, bs, h2, bs2)
<1> DEFINE e   == bs[c][i]
           o   == e.pattern
           h2  == Release(h, o)
           bs2 == [bs EXCEPT ![c] = Without(@, i)]
<1>1. e \in Entries(bs)
  BY ChainElement DEF CacheOK
<1>2. Chains(bs2) /\ Entries(bs2) = Entries(bs) \ {e}
  <2>1. Chains(bs)
    BY DEF CacheOK
  <2> QED BY <2>1, TakeEntry
<1> HIDE DEF bs2, e
<1>3. e \in EntryType /\ o \in Objects /\ EntryRefs(bs, o) > 0 /\ h[o].refcount > 0
  BY <1>1, EntryCounts
<1>4. /\ IsFiniteSet(Entries(bs2)) /\ Cardinality(Entries(bs2)) = Cardinality(Entries(bs)) - 1
      /\ \A x : EntryRefs(bs2, x) = EntryRefs(bs, x) - (IF o = x THEN 1 ELSE 0)
  <2>1. IsFiniteSet(Entries(bs))
    BY DEF CacheOK
  <2> QED BY <1>1, <1>2, <1>3, <2>1, EntryRemoved
<1>5. /\ HeapOK(h2) /\ h2[o].refcount = h[o].refcount - 1
      /\ (h[o].refcount > 1 => h2[o].source = h[o].source)
      /\ \A x \in Objects : x # o => h2[x] = h[x]
  BY <1>3, ReleaseFacts DEF CacheOK
<1> HIDE DEF h2
<1>6. \A x \in Objects : /\ h[x].refcount \in Nat /\ EntryRefs(bs, x) \in Nat
                         /\ EntryRefs(bs, x) <= h[x].refcount
  BY SurplusType DEF CacheOK
<1>7. ASSUME NEW f \in Entries(bs2) PROVE h2[f.pattern].source = f.source
  <2>1. f \in Entries(bs) /\ f # e /\ f.pattern \in Objects /\ h[f.pattern].source = f.source
    BY <1>2, EntryCounts DEF CacheOK
  <2>2. CASE f.pattern = o
    <3>1. f \in EntriesOf(bs2, o)
      BY <2>2 DEF EntriesOf
    <3>2. EntryRefs(bs2, o) # 0 /\ EntryRefs(bs2, o) \in Nat
      BY <1>4, <3>1, EntryRefsType
    <3>3. h[o].refcount > 1
      BY <1>3, <1>4, <1>6, <3>2
    <3> QED BY <1>5, <2>1, <2>2, <3>3
  <2>3. CASE f.pattern # o
    BY <1>5, <2>1, <2>3
  <2> QED BY <2>2, <2>3
<1>8. \A x \in Objects : EntryRefs(bs2, x) <= h2[x].refcount
  BY <1>3, <1>4, <1>5, <1>6
<1>9. CacheOK(h2, bs2, n - 1)
  <2>1. n - 1 = Cardinality(Entries(bs2)) /\ n - 1 <= MAX_SIZE
    <3>1. Cardinality(Entries(bs)) \in Nat
      BY FS_CardinalityType DEF CacheOK
    <3> QED BY <1>4, <3>1, CacheAssumption DEF CacheOK
  <2> QED BY <1>2, <1>4, <1>5, <1>7, <1>8, <2>1 DEF CacheOK
<1>10. OwnStep(h, bs, h2, bs2)
  <2> SUFFICES ASSUME NEW x \in Objects
               PROVE  /\ Surplus(h2, bs2, x) = Surplus(h, bs, x)
                      /\ Surplus(h, bs, x) > 0 => h2[x].source = h[x].source
    BY DEF OwnStep
  <2>1. CASE x = o
    BY <1>3, <1>4, <1>5, <1>6, <2>1 DEF Surplus
  <2>2. CASE x # o
    BY <1>4, <1>5, <1>6, <2>2 DEF Surplus
  <2> QED BY <2>1, <2>2
<1> QED BY <1>9, <1>10 DEF h2, bs2, e

\* An entry for pattern o is added.
LEMMA AddStep ==
    ASSUME NEW h, NEW bs, NEW n, CacheOK(h, bs, n), n < MAX_SIZE,
           NEW o \in Objects, NEW s \in Sources, h[o].source = s, h[o].refcount > 0,
           \A f \in Entries(bs) : f.source # s
    PROVE  LET h2  == Retain(h, o)
               bs2 == [bs EXCEPT ![Bucket[s]] = <<[source |-> s, pattern |-> o]>> \o @]
           IN  CacheOK(h2, bs2, n + 1) /\ OwnStep(h, bs, h2, bs2)
<1> DEFINE e   == [source |-> s, pattern |-> o]
           h2  == Retain(h, o)
           bs2 == [bs EXCEPT ![Bucket[s]] = <<e>> \o @]
<1>1. e \in EntryType /\ e.source = s /\ e.pattern = o
  BY DEF EntryType
<1> HIDE DEF e
<1>2. Chains(bs2) /\ Entries(bs2) = Entries(bs) \cup {e} /\ e \notin Entries(bs)
  <2>1. Chains(bs) /\ \A f \in Entries(bs) : f.source # e.source
    BY <1>1 DEF CacheOK
  <2> QED BY <1>1, <2>1, PrependEntry
<1> HIDE DEF bs2
<1>3. /\ IsFiniteSet(Entries(bs2)) /\ Cardinality(Entries(bs2)) = Cardinality(Entries(bs)) + 1
      /\ \A x : EntryRefs(bs2, x) = EntryRefs(bs, x) + (IF o = x THEN 1 ELSE 0)
  <2>1. IsFiniteSet(Entries(bs))
    BY DEF CacheOK
  <2>2. \A x : EntryRefs(bs2, x) = EntryRefs(bs, x) + (IF e.pattern = x THEN 1 ELSE 0)
    BY <1>1, <1>2, <2>1, EntryAdded, Zenon
  <2> QED BY <1>1, <1>2, <2>1, <2>2, EntryAdded
<1>4. /\ CacheOK(h2, bs, n) /\ Surplus(h2, bs, o) = Surplus(h, bs, o) + 1
      /\ \A x \in Objects : h2[x].source = h[x].source /\ (x # o => h2[x] = h[x])
  BY RetainStep
<1> HIDE DEF h2
<1>5. \A x \in Objects : /\ h[x].refcount \in Nat /\ EntryRefs(bs, x) \in Nat
                         /\ h2[x].refcount \in Nat /\ EntryRefs(bs, x) <= h[x].refcount
  BY <1>4, SurplusType DEF CacheOK
<1>6. h2[o].refcount = h[o].refcount + 1
  BY <1>4, <1>5 DEF Surplus
<1>7. \A f \in Entries(bs2) : h2[f.pattern].source = f.source
  BY <1>1, <1>2, <1>4 DEF CacheOK
<1>8. \A x \in Objects : EntryRefs(bs2, x) <= h2[x].refcount
  BY <1>3, <1>4, <1>5, <1>6
<1>9. CacheOK(h2, bs2, n + 1)
  <2>1. n + 1 = Cardinality(Entries(bs2)) /\ n + 1 <= MAX_SIZE
    <3>1. Cardinality(Entries(bs)) \in Nat
      BY FS_CardinalityType DEF CacheOK
    <3> QED BY <1>3, <3>1, CacheAssumption DEF CacheOK
  <2> QED BY <1>2, <1>3, <1>4, <1>7, <1>8, <2>1 DEF CacheOK
<1>10. OwnStep(h, bs, h2, bs2)
  <2> SUFFICES ASSUME NEW x \in Objects
               PROVE  /\ Surplus(h2, bs2, x) = Surplus(h, bs, x)
                      /\ Surplus(h, bs, x) > 0 => h2[x].source = h[x].source
    BY DEF OwnStep
  <2>1. CASE x = o
    BY <1>3, <1>4, <1>5, <1>6, <2>1 DEF Surplus
  <2>2. CASE x # o
    BY <1>3, <1>4, <1>5, <2>2 DEF Surplus
  <2> QED BY <2>1, <2>2
<1> QED BY <1>9, <1>10 DEF h2, bs2, e

(***************************************************************************)
(* Looking up and putting.                                                 *)
(***************************************************************************)
\* cache_find_entry finds the entry of a source if there is one.
LEMMA FindFacts ==
    ASSUME Chains(buckets), NEW s \in Sources
    PROVE  /\ Bucket[s] \in Buckets
           /\ Cached(s) => /\ Find(s) \in DOMAIN buckets[Bucket[s]]
                           /\ Entry(s) \in Entries(buckets) /\ Entry(s).source = s
           /\ ~Cached(s) => \A f \in Entries(buckets) : f.source # s
<1> DEFINE chain == buckets[Bucket[s]]
           at    == {i \in DOMAIN chain : chain[i].source = s}
<1>1. Bucket[s] \in Buckets
  BY CacheAssumption DEF Buckets
<1>2. DOMAIN chain = 1 .. Len(chain) /\ Len(chain) \in Nat
  BY <1>1, ChainElement
<1>3. Find(s) = IF at = {} THEN 0 ELSE CHOOSE i \in at : \A j \in at : i <= j
  BY DEF Find
<1>4. \A i, j \in at : i = j
  BY <1>1 DEF Chains
<1>5. CASE at = {}
  <2>1. ~Cached(s)
    BY <1>3, <1>5 DEF Cached
  <2>2. ASSUME NEW f \in Entries(buckets), f.source = s PROVE FALSE
    <3>1. PICK i \in DOMAIN buckets[Bucket[f.source]] : buckets[Bucket[f.source]][i] = f
      BY <1>1, EntryPlace
    <3> QED BY <1>5, <2>2, <3>1
  <2> QED BY <1>1, <2>1, <2>2
<1>6. CASE at # {}
  <2>1. PICK i \in at : TRUE
    BY <1>6
  <2>2. \A j \in at : i <= j
    BY <1>2, <1>4, <2>1
  <2>3. (CHOOSE k \in at : \A j \in at : k <= j) \in at
    BY <2>1, <2>2
  <2>4. Find(s) \in at
    BY <1>3, <1>6, <2>3
  <2> HIDE DEF at
  <2>5. Find(s) \in DOMAIN chain /\ chain[Find(s)].source = s /\ Find(s) # 0
    BY <1>2, <2>4 DEF at
  <2>6. Entry(s) = chain[Find(s)]
    BY DEF Entry
  <2>7. chain[Find(s)] \in Entries(buckets)
    BY <1>1, <2>5, ChainElement
  <2> QED BY <1>1, <2>5, <2>6, <2>7 DEF Cached
<1> QED BY <1>5, <1>6

\* cache_evict_one finds a bucket if one is not empty.
LEMMA VictimFacts ==
    ASSUME Chains(buckets), \E b \in Buckets : buckets[b] # <<>>
    PROVE  Victim \in Buckets /\ buckets[Victim] # <<>>
<1> DEFINE T == {b \in Buckets : buckets[b] # <<>>}
<1>1. T \subseteq Nat /\ T # {}
  BY CacheAssumption DEF Buckets
<1>2. PICK b \in T : \A c \in T : ~(<<c, b>> \in OpToRel(<, Nat))
  <2> HIDE DEF T
  <2> QED BY <1>1, NatLessThanWellFounded, WFMin, Zenon
<1>3. ASSUME NEW c \in Buckets, c < b PROVE buckets[c] = <<>>
  <2>1. c \in Nat /\ b \in Nat
    BY <1>1, CacheAssumption DEF Buckets
  <2>2. <<c, b>> \in OpToRel(<, Nat)
    BY <1>3, <2>1, Zenon DEF OpToRel
  <2>3. c \notin T
    BY <1>2, <2>2, Zenon
  <2> QED BY <2>3
<1>4. b \in Buckets /\ buckets[b] # <<>>
  OBVIOUS
<1>5. \E d \in Buckets : buckets[d] # <<>> /\ \A c \in Buckets : c < d => buckets[c] = <<>>
  BY <1>3, <1>4, Zenon
<1> QED BY <1>5, Zenon DEF Victim

\* dynamic_pattern_cache_put of a pattern the caller holds.
LEMMA PutStep ==
    ASSUME NEW h, CacheOK(h, buckets, size), NEW o \in Objects, NEW s \in Sources,
           h[o].source = s, Surplus(h, buckets, o) > 0, Put(h, s, o)
    PROVE  CacheOK(heap', buckets', size') /\ OwnStep(h, buckets, heap', buckets')
<1> DEFINE bs == IF Evicts THEN [buckets EXCEPT ![Victim] = Tail(@)] ELSE buckets
           h1 == IF Evicts THEN Release(h, Head(buckets[Victim]).pattern) ELSE h
           n  == IF Evicts THEN size - 1 ELSE size
<1>1. Chains(buckets)
  BY DEF CacheOK
<1>2. CASE Cached(s)
  <2>1. heap' = h /\ buckets' = buckets /\ size' = size
    BY <1>2 DEF Put, cacheVars
  <2> QED BY <2>1 DEF OwnStep
<1>3. CASE ~Cached(s)
  <2>1. \A f \in Entries(buckets) : f.source # s
    BY <1>1, <1>3, FindFacts
  <2>2. CacheOK(h1, bs, n) /\ OwnStep(h, buckets, h1, bs) /\ \A f \in Entries(bs) : f.source # s
    <3>1. CASE Evicts
      <4> DEFINE v == Victim
      <4>1. v \in Buckets /\ buckets[v] # <<>>
        BY <1>1, <3>1, VictimFacts DEF Evicts
      <4> HIDE DEF v
      <4>2. buckets[v] \in Seq(EntryType)
        BY <1>1, <4>1 DEF Chains
      <4>3. Tail(buckets[v]) = Without(buckets[v], 1) /\ Head(buckets[v]) = buckets[v][1] /\ 1 \in DOMAIN buckets[v]
        BY <4>1, <4>2, TailIsWithout
      <4>4. /\ CacheOK(Release(h, buckets[v][1].pattern), [buckets EXCEPT ![v] = Without(@, 1)], size - 1)
            /\ OwnStep(h, buckets, Release(h, buckets[v][1].pattern), [buckets EXCEPT ![v] = Without(@, 1)])
        BY <4>1, <4>3, DropStep
      <4>5. Entries([buckets EXCEPT ![v] = Without(@, 1)]) = Entries(buckets) \ {buckets[v][1]}
        <5>1. \A i \in DOMAIN buckets[v] :
                 Entries([buckets EXCEPT ![v] = Without(@, i)]) = Entries(buckets) \ {buckets[v][i]}
          BY <1>1, <4>1, TakeEntry
        <5> QED BY <4>3, <5>1, Zenon
      <4>6. h1 = Release(h, buckets[v][1].pattern) /\ n = size - 1
        BY <3>1, <4>3 DEF v
      <4>7. bs = [buckets EXCEPT ![v] = Without(@, 1)]
        BY <3>1, <4>3 DEF v
      <4> QED BY <2>1, <4>4, <4>5, <4>6, <4>7
    <3>2. CASE ~Evicts
      BY <2>1, <3>2 DEF OwnStep
    <3> QED BY <3>1, <3>2
  <2>3. n < MAX_SIZE
    <3>1. size \in Nat /\ size <= MAX_SIZE /\ MAX_SIZE \in Nat \ {0}
      BY CacheAssumption, FS_CardinalityType DEF CacheOK
    <3>2. CASE Evicts
      BY <3>1, <3>2
    <3>3. CASE ~Evicts
      <4>1. CASE size < MAX_SIZE
        BY <3>3, <4>1
      <4>2. CASE ~(size < MAX_SIZE)
        <5>1. Entries(buckets) # {}
          BY <3>1, <4>2, FS_EmptySet DEF CacheOK
        <5>2. PICK e \in Entries(buckets) : TRUE
          BY <5>1
        <5>3. Bucket[e.source] \in Buckets /\ \E i \in DOMAIN buckets[Bucket[e.source]] : buckets[Bucket[e.source]][i] = e
          BY <1>1, EntryPlace
        <5>4. buckets[Bucket[e.source]] # <<>>
          <6>1. DOMAIN <<>> = {}
            OBVIOUS
          <6> QED BY <5>3, <6>1
        <5> QED BY <3>1, <3>3, <4>2, <5>3, <5>4 DEF Evicts
      <4> QED BY <4>1, <4>2
    <3> QED BY <3>2, <3>3
  <2>4. h1[o].source = s /\ h1[o].refcount > 0
    <3>1. Surplus(h1, bs, o) > 0 /\ h1[o].source = s
      BY <2>2 DEF OwnStep
    <3>2. Surplus(h1, bs, o) \in Nat /\ EntryRefs(bs, o) \in Nat /\ h1[o].refcount \in Nat
      <4> HIDE DEF h1, bs, n
      <4> QED BY <2>2, SurplusType
    <3> QED BY <3>1, <3>2 DEF Surplus
  <2>5. \/ /\ heap' = Retain(h1, o)
           /\ buckets' = [bs EXCEPT ![Bucket[s]] = <<[source |-> s, pattern |-> o]>> \o @]
           /\ size' = n + 1
        \/ heap' = h1 /\ buckets' = bs /\ size' = n
    BY <1>3 DEF Put
  <2> HIDE DEF h1, bs, n
  <2>6. CASE heap' = h1 /\ buckets' = bs /\ size' = n
    BY <2>2, <2>6
  <2>7. CASE /\ heap' = Retain(h1, o)
             /\ buckets' = [bs EXCEPT ![Bucket[s]] = <<[source |-> s, pattern |-> o]>> \o @]
             /\ size' = n + 1
    <3>1. CacheOK(heap', buckets', size') /\ OwnStep(h1, bs, heap', buckets')
      <4> DEFINE h2  == Retain(h1, o)
                 bs2 == [bs EXCEPT ![Bucket[s]] = <<[source |-> s, pattern |-> o]>> \o @]
      <4>1. CacheOK(h2, bs2, n + 1) /\ OwnStep(h1, bs, h2, bs2)
        BY <2>2, <2>3, <2>4, AddStep
      <4>2. heap' = h2 /\ buckets' = bs2 /\ size' = n + 1
        BY <2>7
      <4> HIDE DEF h2, bs2
      <4> QED BY <4>1, <4>2
    <3> QED BY <2>2, <3>1 DEF OwnStep
  <2> QED BY <2>5, <2>6, <2>7
<1> QED BY <1>2, <1>3

(***************************************************************************)
(* Nested runs.                                                            *)
(***************************************************************************)
FrameCount(fs, o) == Cardinality(FramesOf(fs, o))

LEMMA FrameFacts ==
    ASSUME NEW fs \in Frames
    PROVE  /\ Len(fs) \in Nat /\ DOMAIN fs = 1 .. Len(fs)
           /\ \A o : IsFiniteSet(FramesOf(fs, o)) /\ FrameCount(fs, o) \in Nat
           /\ \A i \in DOMAIN fs : /\ fs[i] \in EntryType /\ fs[i].pattern \in Objects
                                   /\ fs[i].source \in Sources
                                   /\ FrameCount(fs, fs[i].pattern) > 0
<1>1. Len(fs) \in Nat /\ DOMAIN fs = 1 .. Len(fs) /\ \A i \in DOMAIN fs : fs[i] \in EntryType
  BY LenProperties DEF Frames
<1>2. IsFiniteSet(DOMAIN fs)
  BY <1>1, FS_Interval
<1>3. ASSUME NEW o PROVE IsFiniteSet(FramesOf(fs, o)) /\ FrameCount(fs, o) \in Nat
  <2>1. IsFiniteSet(FramesOf(fs, o))
    BY <1>2, FS_Subset DEF FramesOf
  <2> QED BY <2>1, FS_CardinalityType DEF FrameCount
<1>4. ASSUME NEW i \in DOMAIN fs PROVE FrameCount(fs, fs[i].pattern) > 0
  <2> DEFINE o == fs[i].pattern
  <2>1. i \in FramesOf(fs, o)
    BY DEF FramesOf
  <2>2. FrameCount(fs, o) # 0 /\ FrameCount(fs, o) \in Nat
    BY <1>3, <2>1, FS_EmptySet DEF FrameCount
  <2> QED BY <2>2
<1> QED BY <1>1, <1>3, <1>4 DEF EntryType

\* A run begins.
LEMMA FrameEntered ==
    ASSUME NEW fs \in Frames, NEW e \in EntryType
    PROVE  /\ Append(fs, e) \in Frames
           /\ DOMAIN Append(fs, e) = DOMAIN fs \cup {Len(fs) + 1}
           /\ Append(fs, e)[Len(fs) + 1] = e
           /\ \A i \in DOMAIN fs : Append(fs, e)[i] = fs[i]
           /\ \A o : FrameCount(Append(fs, e), o) = FrameCount(fs, o) + (IF e.pattern = o THEN 1 ELSE 0)
<1> DEFINE gs == Append(fs, e)
<1>1. Len(fs) \in Nat /\ DOMAIN fs = 1 .. Len(fs)
  BY FrameFacts
<1>2. /\ gs \in Frames /\ DOMAIN gs = 1 .. Len(fs) + 1 /\ gs[Len(fs) + 1] = e
      /\ \A i \in 1 .. Len(fs) : gs[i] = fs[i]
  <2>1. fs \in Seq(EntryType)
    BY DEF Frames
  <2>2. /\ gs \in Seq(EntryType) /\ Len(gs) = Len(fs) + 1 /\ gs[Len(fs) + 1] = e
        /\ \A i \in 1 .. Len(fs) : gs[i] = fs[i]
    BY <2>1, AppendProperties
  <2> QED BY <2>2, LenProperties DEF Frames
<1> HIDE DEF gs
<1>3. ASSUME NEW o PROVE FrameCount(gs, o) = FrameCount(fs, o) + (IF e.pattern = o THEN 1 ELSE 0)
  <2>1. IsFiniteSet(FramesOf(fs, o)) /\ FrameCount(fs, o) \in Nat
    BY FrameFacts
  <2>2. Len(fs) + 1 \notin FramesOf(fs, o)
    BY <1>1 DEF FramesOf
  <2>3. CASE e.pattern = o
    <3>1. FramesOf(gs, o) = FramesOf(fs, o) \cup {Len(fs) + 1}
      BY <1>1, <1>2, <2>3 DEF FramesOf
    <3> QED BY <2>1, <2>2, <2>3, <3>1, FS_AddElement DEF FrameCount
  <2>4. CASE e.pattern # o
    <3>1. FramesOf(gs, o) = FramesOf(fs, o)
      BY <1>1, <1>2, <2>4 DEF FramesOf
    <3> QED BY <2>1, <2>4, <3>1 DEF FrameCount
  <2> QED BY <2>3, <2>4
<1>4. DOMAIN gs = DOMAIN fs \cup {Len(fs) + 1}
  BY <1>1, <1>2
<1> QED BY <1>1, <1>2, <1>3, <1>4 DEF gs

\* The innermost run ends.
LEMMA FrameLeft ==
    ASSUME NEW fs \in Frames, fs # <<>>
    PROVE  LET gs == SubSeq(fs, 1, Len(fs) - 1)
           IN  /\ gs \in Frames
               /\ Len(fs) \in DOMAIN fs
               /\ \A i \in DOMAIN gs : i \in DOMAIN fs /\ gs[i] = fs[i]
               /\ \A o : FrameCount(gs, o) =
                            FrameCount(fs, o) - (IF fs[Len(fs)].pattern = o THEN 1 ELSE 0)
<1> DEFINE gs == SubSeq(fs, 1, Len(fs) - 1)
<1>1. Len(fs) \in Nat /\ DOMAIN fs = 1 .. Len(fs) /\ \A i \in DOMAIN fs : fs[i] \in EntryType
  BY FrameFacts
<1>2. Len(fs) > 0
  BY EmptySeq DEF Frames
<1>3. /\ gs \in Frames /\ DOMAIN gs = 1 .. Len(fs) - 1
      /\ \A i \in 1 .. Len(fs) - 1 : gs[i] = fs[i]
  <2>1. 1 \in Int /\ Len(fs) - 1 \in Int /\ \A i \in 1 .. Len(fs) - 1 : fs[i] \in EntryType
    BY <1>1
  <2>2. /\ gs \in Seq(EntryType)
        /\ Len(gs) = IF 1 <= Len(fs) - 1 THEN (Len(fs) - 1) - 1 + 1 ELSE 0
        /\ \A i \in 1 .. (Len(fs) - 1) - 1 + 1 : gs[i] = fs[1 + i - 1]
    BY <2>1, SubSeqProperties
  <2>3. Len(gs) = Len(fs) - 1 /\ \A i \in 1 .. Len(fs) - 1 : gs[i] = fs[i]
    BY <1>1, <1>2, <2>2
  <2> QED BY <2>2, <2>3, LenProperties DEF Frames
<1> HIDE DEF gs
<1>4. ASSUME NEW o
      PROVE  FrameCount(gs, o) = FrameCount(fs, o) - (IF fs[Len(fs)].pattern = o THEN 1 ELSE 0)
  <2>1. IsFiniteSet(FramesOf(fs, o)) /\ FrameCount(fs, o) \in Nat
    BY FrameFacts
  <2>2. CASE fs[Len(fs)].pattern = o
    <3>1. FramesOf(gs, o) = FramesOf(fs, o) \ {Len(fs)} /\ Len(fs) \in FramesOf(fs, o)
      BY <1>1, <1>2, <1>3, <2>2 DEF FramesOf
    <3> QED BY <2>1, <2>2, <3>1, FS_RemoveElement DEF FrameCount
  <2>3. CASE fs[Len(fs)].pattern # o
    <3>1. FramesOf(gs, o) = FramesOf(fs, o)
      BY <1>1, <1>2, <1>3, <2>3 DEF FramesOf
    <3> QED BY <2>1, <2>3, <3>1 DEF FrameCount
  <2> QED BY <2>2, <2>3
<1> QED BY <1>1, <1>2, <1>3, <1>4 DEF gs

LEMMA FrameRefsCount == \A o : FrameRefs(o) = FrameCount(frames, o)
BY DEF FrameRefs, FrameCount, FramesOf

(***************************************************************************)
(* The invariant is inductive.                                             *)
(***************************************************************************)
\* References of a pattern that are not the cache's.
LEMMA Holders ==
    ASSUME CacheInv, NEW o \in Objects
    PROVE  /\ Surplus(heap, buckets, o) \in Nat /\ FrameCount(frames, o) \in Nat /\ held[o] \in Nat
           /\ Surplus(heap, buckets, o) = FrameCount(frames, o) + held[o]
<1>1. Surplus(heap, buckets, o) \in Nat
  BY SurplusType DEF CacheInv
<1>2. FrameCount(frames, o) \in Nat
  BY FrameFacts DEF CacheInv
<1> QED BY <1>1, <1>2, FrameRefsCount DEF CacheInv

\* The runs keep their code when the patterns they hold keep their source.
LEMMA RunsKept ==
    ASSUME CacheInv, frames' = frames,
           \A x \in Objects : FrameCount(frames, x) > 0 => heap'[x].source = heap[x].source
    PROVE  RunsOwnCode'
<1> SUFFICES ASSUME NEW i \in DOMAIN frames
             PROVE  heap'[frames[i].pattern].source = frames[i].source
  BY DEF RunsOwnCode
<1>1. frames[i].pattern \in Objects /\ FrameCount(frames, frames[i].pattern) > 0
  BY FrameFacts DEF CacheInv
<1>2. heap[frames[i].pattern].source = frames[i].source
  BY DEF CacheInv, RunsOwnCode
<1> QED BY <1>1, <1>2

\* A step of the cache by itself, or none.
LEMMA OwnStepKeeps ==
    ASSUME CacheInv, CacheOK(heap', buckets', size'), OwnStep(heap, buckets, heap', buckets'),
           UNCHANGED <<frames, held>>, pending' \in Sources \cup {NULL}
    PROVE  CacheInv'
<1>1. \A x \in Objects : FrameCount(frames, x) > 0 => heap'[x].source = heap[x].source
  <2> SUFFICES ASSUME NEW x \in Objects, FrameCount(frames, x) > 0
               PROVE  heap'[x].source = heap[x].source
    OBVIOUS
  <2>1. Surplus(heap, buckets, x) > 0
    BY Holders
  <2> QED BY <2>1 DEF OwnStep
<1>2. RunsOwnCode'
  BY <1>1, RunsKept
<1>3. \A x \in Objects : (Surplus(heap, buckets, x) = FrameRefs(x) + held[x])'
  <2> SUFFICES ASSUME NEW x \in Objects PROVE (Surplus(heap, buckets, x) = FrameRefs(x) + held[x])'
    OBVIOUS
  <2>1. Surplus(heap', buckets', x) = Surplus(heap, buckets, x)
    BY DEF OwnStep
  <2>2. FrameRefs(x)' = FrameRefs(x) /\ held' = held
    BY DEF FrameRefs
  <2> QED BY <2>1, <2>2 DEF CacheInv
<1> QED BY <1>2, <1>3 DEF CacheInv

\* A run of pattern o for source s begins: what happened to heap and cache
\* leaves o with one surplus reference more.
LEMMA EnterKeeps ==
    ASSUME CacheInv, NEW o \in Objects, NEW s \in Sources, Enter(s, o),
           CacheOK(heap', buckets', size'), heap'[o].source = s,
           Surplus(heap', buckets', o) = Surplus(heap, buckets, o) + 1,
           \A x \in Objects : x # o =>
              /\ Surplus(heap', buckets', x) = Surplus(heap, buckets, x)
              /\ Surplus(heap, buckets, x) > 0 => heap'[x].source = heap[x].source,
           Surplus(heap, buckets, o) > 0 => heap[o].source = s,
           held' = held, pending' \in Sources \cup {NULL}
    PROVE  CacheInv'
<1> DEFINE e == [source |-> s, pattern |-> o]
<1>1. e \in EntryType /\ e.source = s /\ e.pattern = o /\ frames' = Append(frames, e)
  BY DEF EntryType, Enter
<1> HIDE DEF e
<1>2. frames \in Frames
  BY DEF CacheInv
<1>3. /\ frames' \in Frames
      /\ DOMAIN frames' = DOMAIN frames \cup {Len(frames) + 1}
      /\ frames'[Len(frames) + 1] = e
      /\ \A i \in DOMAIN frames : frames'[i] = frames[i]
      /\ \A x : FrameCount(frames', x) = FrameCount(frames, x) + (IF o = x THEN 1 ELSE 0)
  <2>1. \A x : FrameCount(frames', x) = FrameCount(frames, x) + (IF e.pattern = x THEN 1 ELSE 0)
    BY <1>1, <1>2, FrameEntered
  <2> QED BY <1>1, <1>2, <2>1, FrameEntered
<1>4. ASSUME NEW i \in DOMAIN frames' PROVE heap'[frames'[i].pattern].source = frames'[i].source
  <2>1. CASE i = Len(frames) + 1
    BY <1>1, <1>3, <2>1
  <2>2. CASE i \in DOMAIN frames
    <3> DEFINE x == frames[i].pattern
    <3>1. x \in Objects /\ FrameCount(frames, x) > 0
      BY <1>2, <2>2, FrameFacts
    <3>2. heap[x].source = frames[i].source
      BY <2>2 DEF CacheInv, RunsOwnCode
    <3>3. Surplus(heap, buckets, x) > 0
      BY <3>1, Holders
    <3>4. heap'[x].source = heap[x].source
      BY <3>1, <3>3
    <3> QED BY <1>3, <2>2, <3>2, <3>4
  <2> QED BY <1>3, <2>1, <2>2
<1>5. ASSUME NEW x \in Objects PROVE Surplus(heap', buckets', x) = FrameRefs(x)' + held'[x]
  <2>1. FrameRefs(x)' = FrameCount(frames', x)
    BY DEF FrameRefs, FrameCount, FramesOf
  <2>2. /\ Surplus(heap, buckets, x) \in Nat /\ FrameCount(frames, x) \in Nat /\ held[x] \in Nat
        /\ Surplus(heap, buckets, x) = FrameCount(frames, x) + held[x]
    BY Holders
  <2>3. FrameCount(frames', x) = FrameCount(frames, x) + (IF o = x THEN 1 ELSE 0)
    BY <1>3
  <2> QED BY <2>1, <2>2, <2>3
<1> QED BY <1>3, <1>4, <1>5 DEF CacheInv, RunsOwnCode

LEMMA HitStep == CacheInv /\ DynamicHit => CacheInv'
<1> SUFFICES ASSUME CacheInv, DynamicHit PROVE CacheInv'
  OBVIOUS
<1> DEFINE o == Entry(pending).pattern
<1>1. pending \in Sources /\ Cached(pending)
  BY DEF CacheInv, DynamicHit
<1>2. Entry(pending) \in Entries(buckets) /\ Entry(pending).source = pending
  BY <1>1, FindFacts DEF CacheInv, CacheOK
<1>3. CacheOK(heap, buckets, size)
  BY DEF CacheInv
<1>4. o \in Objects /\ heap[o].refcount > 0 /\ heap[o].source = pending
  <2>1. heap[o].source = pending
    BY <1>2, <1>3 DEF CacheOK
  <2> QED BY <1>2, <1>3, <2>1, EntryCounts
<1>5. heap' = Retain(heap, o) /\ Enter(pending, o) /\ buckets' = buckets /\ size' = size /\ held' = held
      /\ pending' = NULL
  BY DEF DynamicHit, cacheVars
<1> HIDE DEF o
<1>6. /\ CacheOK(heap', buckets', size')
      /\ Surplus(heap', buckets', o) = Surplus(heap, buckets, o) + 1
      /\ \A x \in Objects : heap'[x].source = heap[x].source /\ (x # o => heap'[x] = heap[x])
  BY <1>3, <1>4, <1>5, RetainStep
<1>7. \A x \in Objects : x # o =>
        /\ Surplus(heap', buckets', x) = Surplus(heap, buckets, x)
        /\ Surplus(heap, buckets, x) > 0 => heap'[x].source = heap[x].source
  BY <1>5, <1>6 DEF Surplus
<1> QED BY <1>1, <1>4, <1>5, <1>6, <1>7, EnterKeeps

LEMMA MissStep == CacheInv /\ DynamicMiss => CacheInv'
<1> SUFFICES ASSUME CacheInv, DynamicMiss PROVE CacheInv'
  OBVIOUS
<1>1. pending \in Sources
  BY DEF CacheInv, DynamicMiss
<1>2. CacheOK(heap, buckets, size)
  BY DEF CacheInv
<1>3. PICK o \in Objects \ Allocated(heap) :
        Put(Create(heap, o, pending), pending, o) /\ Enter(pending, o)
  BY DEF DynamicMiss
<1> DEFINE h == Create(heap, o, pending)
<1>4. /\ CacheOK(h, buckets, size) /\ h[o].source = pending
      /\ Surplus(heap, buckets, o) = 0 /\ Surplus(h, buckets, o) = 1
      /\ \A x \in Objects : x # o => h[x] = heap[x]
  BY <1>1, <1>2, CreateStep
<1>5. Put(h, pending, o) /\ Enter(pending, o)
  BY <1>3
<1> HIDE DEF h
<1>6. CacheOK(heap', buckets', size') /\ OwnStep(h, buckets, heap', buckets')
  BY <1>1, <1>4, <1>5, PutStep
<1>7. /\ heap'[o].source = pending
      /\ Surplus(heap', buckets', o) = Surplus(heap, buckets, o) + 1
  BY <1>4, <1>6 DEF OwnStep
<1>8. \A x \in Objects : x # o =>
        /\ Surplus(heap', buckets', x) = Surplus(heap, buckets, x)
        /\ Surplus(heap, buckets, x) > 0 => heap'[x].source = heap[x].source
  <2> SUFFICES ASSUME NEW x \in Objects, x # o
               PROVE  /\ Surplus(heap', buckets', x) = Surplus(heap, buckets, x)
                      /\ Surplus(heap, buckets, x) > 0 => heap'[x].source = heap[x].source
    OBVIOUS
  <2>1. h[x] = heap[x] /\ Surplus(h, buckets, x) = Surplus(heap, buckets, x)
    BY <1>4 DEF Surplus
  <2> QED BY <1>6, <2>1 DEF OwnStep
<1>9. held' = held /\ pending' \in Sources \cup {NULL}
  BY DEF DynamicMiss
<1> QED BY <1>1, <1>4, <1>5, <1>6, <1>7, <1>8, <1>9, EnterKeeps

LEMMA LeaveStep == CacheInv /\ frames # <<>> /\ Leave => CacheInv'
<1> SUFFICES ASSUME CacheInv, frames # <<>>, Leave PROVE CacheInv'
  OBVIOUS
<1> DEFINE o  == frames[Len(frames)].pattern
           gs == SubSeq(frames, 1, Len(frames) - 1)
<1>1. CacheOK(heap, buckets, size) /\ frames \in Frames
  BY DEF CacheInv
<1>2. /\ heap' = Release(heap, o) /\ frames' = gs /\ buckets' = buckets /\ size' = size
      /\ pending' = pending /\ held' = held
  BY DEF Leave, cacheVars
<1>3. /\ gs \in Frames /\ Len(frames) \in DOMAIN frames
      /\ \A i \in DOMAIN gs : i \in DOMAIN frames /\ gs[i] = frames[i]
      /\ \A x : FrameCount(gs, x) = FrameCount(frames, x) - (IF o = x THEN 1 ELSE 0)
  BY <1>1, FrameLeft
<1>4. o \in Objects /\ FrameCount(frames, o) > 0
  BY <1>1, <1>3, FrameFacts
<1> HIDE DEF o, gs
<1>5. Surplus(heap, buckets, o) > 0
  BY <1>4, Holders
<1>6. /\ CacheOK(heap', buckets', size')
      /\ Surplus(heap', buckets', o) = Surplus(heap, buckets, o) - 1
      /\ (Surplus(heap, buckets, o) > 1 => heap'[o].source = heap[o].source)
      /\ \A x \in Objects : x # o => heap'[x] = heap[x]
  BY <1>1, <1>2, <1>4, <1>5, ReleaseStep
<1>7. ASSUME NEW i \in DOMAIN gs PROVE heap'[gs[i].pattern].source = gs[i].source
  <2> DEFINE x == gs[i].pattern
  <2>1. x \in Objects /\ FrameCount(gs, x) > 0 /\ gs[i] = frames[i] /\ i \in DOMAIN frames
    BY <1>3, FrameFacts
  <2>2. heap[x].source = gs[i].source
    BY <2>1 DEF CacheInv, RunsOwnCode
  <2>3. heap'[x].source = heap[x].source
    <3>1. CASE x = o
      <4>1. FrameCount(frames, o) > 1
        BY <1>3, <2>1, <3>1, FrameFacts, <1>1
      <4>2. Surplus(heap, buckets, o) > 1
        BY <1>4, <4>1, Holders
      <4> QED BY <1>6, <3>1, <4>2
    <3>2. CASE x # o
      BY <1>6, <2>1, <3>2
    <3> QED BY <3>1, <3>2
  <2> QED BY <2>2, <2>3
<1>8. ASSUME NEW x \in Objects PROVE Surplus(heap', buckets', x) = FrameRefs(x)' + held'[x]
  <2>1. FrameRefs(x)' = FrameCount(gs, x)
    BY <1>2 DEF FrameRefs, FrameCount, FramesOf
  <2>2. /\ Surplus(heap, buckets, x) \in Nat /\ FrameCount(frames, x) \in Nat /\ held[x] \in Nat
        /\ Surplus(heap, buckets, x) = FrameCount(frames, x) + held[x]
    BY Holders
  <2>3. FrameCount(gs, x) = FrameCount(frames, x) - (IF o = x THEN 1 ELSE 0)
    BY <1>3
  <2>4. Surplus(heap', buckets', x) = Surplus(heap, buckets, x) - (IF o = x THEN 1 ELSE 0)
    <3>1. CASE x = o
      BY <1>6, <3>1
    <3>2. CASE x # o
      BY <1>2, <1>6, <2>2, <3>2 DEF Surplus
    <3> QED BY <3>1, <3>2
  <2> QED BY <1>2, <2>1, <2>2, <2>3, <2>4
<1> QED BY <1>2, <1>3, <1>6, <1>7, <1>8 DEF CacheInv, RunsOwnCode

\* dynamic_pattern_cache_remove
LEMMA RemoveStep == ASSUME CacheInv, NEW s \in Sources, Remove(s) PROVE CacheInv'
<1>1. CacheOK(heap, buckets, size) /\ Chains(buckets)
  BY DEF CacheInv, CacheOK
<1>2. /\ Bucket[s] \in Buckets /\ Find(s) \in DOMAIN buckets[Bucket[s]]
  BY <1>1, FindFacts DEF Remove
<1>3. /\ heap' = Release(heap, buckets[Bucket[s]][Find(s)].pattern)
      /\ buckets' = [buckets EXCEPT ![Bucket[s]] = Without(@, Find(s))]
      /\ size' = size - 1
      /\ pending' = pending /\ frames' = frames /\ held' = held
  BY DEF Remove, Entry
<1>4. CacheOK(heap', buckets', size') /\ OwnStep(heap, buckets, heap', buckets')
  BY <1>1, <1>2, <1>3, DropStep
<1>5. UNCHANGED <<frames, held>> /\ pending' \in Sources \cup {NULL}
  BY <1>3 DEF CacheInv
<1> QED BY <1>4, <1>5, OwnStepKeeps

\* What the cache counts as its references are the entries.
LEMMA CacheRefsCount ==
    ASSUME CacheOK(heap, buckets, size)
    PROVE  \A o : CacheRefs(o) = EntryRefs(buckets, o)
<1>1. Chains(buckets) /\ size \in Nat /\ \A b \in Buckets : Len(buckets[b]) <= size
  BY ChainsFit, FS_CardinalityType DEF CacheOK
<1> QED BY <1>1, PlacesAll DEF CacheRefs

\* dynamic_pattern_cache_clear
LEMMA ClearStep == CacheInv /\ Clear => CacheInv'
<1> SUFFICES ASSUME CacheInv, Clear PROVE CacheInv'
  OBVIOUS
<1>1. CacheOK(heap, buckets, size)
  BY DEF CacheInv
<1>2. \A o \in Objects : CacheRefs(o) = EntryRefs(buckets, o)
  BY <1>1, CacheRefsCount
<1>3. \A o \in Objects : /\ heap[o].refcount \in Nat /\ EntryRefs(buckets, o) \in Nat
                         /\ EntryRefs(buckets, o) <= heap[o].refcount
                         /\ heap[o] \in [source : Sources \cup {NULL}, refcount : Nat]
                         /\ (heap[o].refcount = 0 <=> heap[o].source = NULL)
  BY <1>1, SurplusType DEF CacheOK, HeapOK
<1> DEFINE left(o) == heap[o].refcount - EntryRefs(buckets, o)
           rest(o) == IF heap[o].refcount = CacheRefs(o) THEN Free
                      ELSE [heap[o] EXCEPT !.refcount = @ - CacheRefs(o)]
<1>4. ASSUME NEW o \in Objects
      PROVE  /\ rest(o) \in [source : Sources \cup {NULL}, refcount : Nat]
             /\ rest(o).refcount = left(o)
             /\ (left(o) = 0 => rest(o).source = NULL)
             /\ (left(o) # 0 => rest(o).source = heap[o].source /\ heap[o].source # NULL)
  <2>1. CASE heap[o].refcount = CacheRefs(o)
    BY <1>2, <1>3, <2>1 DEF Free
  <2>2. CASE heap[o].refcount # CacheRefs(o)
    BY <1>2, <1>3, <2>2
  <2> QED BY <2>1, <2>2
<1>5. heap' = [o \in Objects |-> rest(o)]
  BY DEF Clear
<1> HIDE DEF rest
<1>6. /\ heap' \in [Objects -> [source : Sources \cup {NULL}, refcount : Nat]]
      /\ \A o \in Objects : heap'[o] = rest(o)
  BY <1>4, <1>5
<1>7. /\ buckets' = [b \in Buckets |-> <<>>] /\ size' = 0 /\ pending' = pending
      /\ frames' = frames /\ held' = held
  BY DEF Clear
<1>8. HeapOK(heap')
  BY <1>4, <1>6 DEF HeapOK
<1>9. /\ Chains(buckets') /\ Entries(buckets') = {}
      /\ \A o : EntryRefs(buckets', o) = 0
  <2>1. \A b \in Buckets : buckets'[b] = <<>> /\ DOMAIN buckets'[b] = {}
    BY <1>7
  <2>2. Chains(buckets')
    BY <1>7, <2>1, EmptySeq DEF Chains
  <2>3. Entries(buckets') = {}
    BY <2>1 DEF Entries
  <2>4. \A o : EntriesOf(buckets', o) = {}
    BY <2>3 DEF EntriesOf
  <2> QED BY <2>2, <2>3, <2>4, FS_EmptySet DEF EntryRefs
<1>10. CacheOK(heap', buckets', size')
  <2>1. \A o \in Objects : EntryRefs(buckets', o) <= heap'[o].refcount
    BY <1>6, <1>9
  <2>2. IsFiniteSet(Entries(buckets')) /\ size' = Cardinality(Entries(buckets')) /\ size' <= MAX_SIZE
    <3>1. IsFiniteSet({}) /\ Cardinality({}) = 0
      BY FS_EmptySet
    <3>2. 0 <= MAX_SIZE
      BY CacheAssumption
    <3> QED BY <1>7, <1>9, <3>1, <3>2, Zenon
  <2> QED BY <1>8, <1>9, <2>1, <2>2 DEF CacheOK
<1>11. OwnStep(heap, buckets, heap', buckets')
  <2> SUFFICES ASSUME NEW x \in Objects
               PROVE  /\ Surplus(heap', buckets', x) = Surplus(heap, buckets, x)
                      /\ Surplus(heap, buckets, x) > 0 => heap'[x].source = heap[x].source
    BY DEF OwnStep
  <2>1. heap'[x] = rest(x) /\ rest(x).refcount = left(x)
        /\ (left(x) # 0 => rest(x).source = heap[x].source)
    BY <1>4, <1>6
  <2> QED BY <1>3, <1>9, <2>1 DEF Surplus
<1>12. UNCHANGED <<frames, held>> /\ pending' \in Sources \cup {NULL}
  BY <1>7 DEF CacheInv
<1> QED BY <1>10, <1>11, <1>12, OwnStepKeeps

(***************************************************************************)
(* The host.                                                               *)
(***************************************************************************)
\* The host takes or gives up a reference, and no run sees the difference.
LEMMA HostKeeps ==
    ASSUME CacheInv, CacheOK(heap', buckets', size'), UNCHANGED <<frames, pending>>,
           held' \in [Objects -> Nat],
           \A x \in Objects :
             /\ Surplus(heap', buckets', x) - held'[x] = Surplus(heap, buckets, x) - held[x]
             /\ FrameCount(frames, x) > 0 => heap'[x].source = heap[x].source
    PROVE  CacheInv'
<1>1. RunsOwnCode'
  BY RunsKept
<1>2. ASSUME NEW x \in Objects PROVE Surplus(heap', buckets', x) = FrameRefs(x)' + held'[x]
  <2>1. FrameRefs(x)' = FrameCount(frames, x)
    BY DEF FrameRefs, FrameCount, FramesOf
  <2>2. /\ Surplus(heap, buckets, x) \in Nat /\ FrameCount(frames, x) \in Nat /\ held[x] \in Nat
        /\ Surplus(heap, buckets, x) = FrameCount(frames, x) + held[x]
    BY Holders
  <2>3. Surplus(heap', buckets', x) \in Nat /\ held'[x] \in Nat
    BY SurplusType
  <2>4. Surplus(heap', buckets', x) - held'[x] = Surplus(heap, buckets, x) - held[x]
    OBVIOUS
  <2> QED BY <2>1, <2>2, <2>3, <2>4
<1> QED BY <1>1, <1>2 DEF CacheInv

LEMMA HostGetStep == ASSUME CacheInv, NEW s \in Sources, HostGet(s) PROVE CacheInv'
<1> DEFINE o == Entry(s).pattern
<1>1. CacheOK(heap, buckets, size) /\ held \in [Objects -> Nat]
  BY DEF CacheInv
<1>2. Entry(s) \in Entries(buckets)
  BY <1>1, FindFacts DEF HostGet, CacheOK
<1>3. o \in Objects /\ heap[o].refcount > 0
  BY <1>1, <1>2, EntryCounts
<1>4. /\ heap' = Retain(heap, o) /\ held' = [held EXCEPT ![o] = @ + 1]
      /\ buckets' = buckets /\ size' = size /\ UNCHANGED <<frames, pending>>
  BY DEF HostGet, cacheVars
<1> HIDE DEF o
<1>5. /\ CacheOK(heap', buckets', size')
      /\ Surplus(heap', buckets', o) = Surplus(heap, buckets, o) + 1
      /\ \A x \in Objects : heap'[x].source = heap[x].source /\ (x # o => heap'[x] = heap[x])
  BY <1>1, <1>3, <1>4, RetainStep
<1>6. held' \in [Objects -> Nat]
  BY <1>1, <1>3, <1>4
<1>7. \A x \in Objects : Surplus(heap', buckets', x) - held'[x] = Surplus(heap, buckets, x) - held[x]
  <2> SUFFICES ASSUME NEW x \in Objects
               PROVE  Surplus(heap', buckets', x) - held'[x] = Surplus(heap, buckets, x) - held[x]
    OBVIOUS
  <2>1. Surplus(heap, buckets, x) \in Nat /\ held[x] \in Nat
    BY Holders
  <2>2. CASE x = o
    BY <1>1, <1>3, <1>4, <1>5, <2>1, <2>2
  <2>3. CASE x # o
    BY <1>1, <1>4, <1>5, <2>3 DEF Surplus
  <2> QED BY <2>2, <2>3
<1> QED BY <1>4, <1>5, <1>6, <1>7, HostKeeps

LEMMA HostCreateStep == ASSUME CacheInv, NEW s \in Sources, HostCreate(s) PROVE CacheInv'
<1>1. CacheOK(heap, buckets, size) /\ held \in [Objects -> Nat]
  BY DEF CacheInv
<1>2. PICK o \in Objects \ Allocated(heap) :
        heap' = Create(heap, o, s) /\ held' = [held EXCEPT ![o] = 1]
  BY DEF HostCreate
<1>3. buckets' = buckets /\ size' = size /\ UNCHANGED <<frames, pending>>
  BY DEF HostCreate, cacheVars
<1>4. /\ CacheOK(heap', buckets', size')
      /\ Surplus(heap, buckets, o) = 0 /\ Surplus(heap', buckets', o) = 1
      /\ \A x \in Objects : x # o => heap'[x] = heap[x]
  BY <1>1, <1>2, <1>3, CreateStep
<1>5. held[o] = 0 /\ FrameCount(frames, o) = 0
  BY <1>4, Holders
<1>6. held' \in [Objects -> Nat]
  BY <1>1, <1>2
<1>7. ASSUME NEW x \in Objects
      PROVE  /\ Surplus(heap', buckets', x) - held'[x] = Surplus(heap, buckets, x) - held[x]
             /\ FrameCount(frames, x) > 0 => heap'[x].source = heap[x].source
  <2>1. CASE x = o
    BY <1>1, <1>2, <1>4, <1>5, <2>1
  <2>2. CASE x # o
    BY <1>1, <1>2, <1>3, <1>4, <2>2 DEF Surplus
  <2> QED BY <2>1, <2>2
<1> QED BY <1>3, <1>4, <1>6, <1>7, HostKeeps

LEMMA HostPutStep == ASSUME CacheInv, NEW o \in Objects, HostPut(o) PROVE CacheInv'
<1>1. CacheOK(heap, buckets, size) /\ held \in [Objects -> Nat]
  BY DEF CacheInv
<1>2. held[o] > 0 /\ Put(heap, heap[o].source, o) /\ UNCHANGED <<pending, frames, held>>
  BY DEF HostPut
<1>3. Surplus(heap, buckets, o) > 0
  BY <1>2, Holders
<1>4. heap[o].source \in Sources
  <2>1. heap[o].refcount # 0
    BY <1>1, <1>3, SurplusType DEF Surplus
  <2> QED BY <1>1, <2>1 DEF CacheOK, HeapOK
<1>5. CacheOK(heap', buckets', size') /\ OwnStep(heap, buckets, heap', buckets')
  BY <1>1, <1>2, <1>3, <1>4, PutStep
<1> QED BY <1>2, <1>5, OwnStepKeeps DEF CacheInv

LEMMA HostReleaseStep == ASSUME CacheInv, NEW o \in Objects, HostRelease(o) PROVE CacheInv'
<1>1. CacheOK(heap, buckets, size) /\ held \in [Objects -> Nat]
  BY DEF CacheInv
<1>2. /\ held[o] > 0 /\ heap' = Release(heap, o) /\ held' = [held EXCEPT ![o] = @ - 1]
      /\ buckets' = buckets /\ size' = size /\ UNCHANGED <<frames, pending>>
  BY DEF HostRelease, cacheVars
<1>3. Surplus(heap, buckets, o) > 0 /\ Surplus(heap, buckets, o) \in Nat
      /\ (FrameCount(frames, o) > 0 => Surplus(heap, buckets, o) > 1)
  BY <1>2, Holders
<1>4. /\ CacheOK(heap', buckets', size')
      /\ Surplus(heap', buckets', o) = Surplus(heap, buckets, o) - 1
      /\ (Surplus(heap, buckets, o) > 1 => heap'[o].source = heap[o].source)
      /\ \A x \in Objects : x # o => heap'[x] = heap[x]
  BY <1>1, <1>2, <1>3, ReleaseStep
<1>5. held' \in [Objects -> Nat]
  BY <1>1, <1>2
<1>6. ASSUME NEW x \in Objects
      PROVE  /\ Surplus(heap', buckets', x) - held'[x] = Surplus(heap, buckets, x) - held[x]
             /\ FrameCount(frames, x) > 0 => heap'[x].source = heap[x].source
  <2>1. CASE x = o
    BY <1>1, <1>2, <1>3, <1>4, <2>1
  <2>2. CASE x # o
    BY <1>1, <1>2, <1>4, <2>2 DEF Surplus
  <2> QED BY <2>1, <2>2
<1> QED BY <1>2, <1>4, <1>5, <1>6, HostKeeps

(***************************************************************************)
(* The system.                                                             *)
(***************************************************************************)
LEMMA CacheInit == Init => CacheInv
<1> SUFFICES ASSUME Init PROVE CacheInv
  OBVIOUS
<1>1. /\ heap = [o \in Objects |-> Free] /\ buckets = [b \in Buckets |-> <<>>] /\ size = 0
      /\ pending = NULL /\ frames = <<>> /\ held = [o \in Objects |-> 0]
  BY DEF Init
<1>2. HeapOK(heap) /\ \A o \in Objects : heap[o].refcount = 0
  BY <1>1 DEF HeapOK, Free
<1>3. Chains(buckets) /\ Entries(buckets) = {}
  <2>1. \A b \in Buckets : buckets[b] = <<>> /\ DOMAIN buckets[b] = {}
    BY <1>1
  <2>2. Chains(buckets)
    BY <1>1, <2>1, EmptySeq DEF Chains
  <2> QED BY <2>1, <2>2 DEF Entries
<1>4. IsFiniteSet({}) /\ Cardinality({}) = 0
  BY FS_EmptySet
<1>5. \A o : EntryRefs(buckets, o) = 0
  <2>1. \A o : EntriesOf(buckets, o) = {}
    BY <1>3 DEF EntriesOf
  <2> QED BY <1>4, <2>1 DEF EntryRefs
<1>6. CacheOK(heap, buckets, size)
  <2>1. size <= MAX_SIZE
    BY <1>1, CacheAssumption
  <2>2. IsFiniteSet(Entries(buckets)) /\ size = Cardinality(Entries(buckets))
    BY <1>1, <1>3, <1>4, Zenon
  <2> QED BY <1>2, <1>3, <1>5, <2>1, <2>2 DEF CacheOK
<1>7. frames \in Frames /\ DOMAIN frames = {}
  BY <1>1, EmptySeq DEF Frames
<1>8. ASSUME NEW o \in Objects PROVE Surplus(heap, buckets, o) = FrameRefs(o) + held[o]
  <2>1. {i \in DOMAIN frames : frames[i].pattern = o} = {}
    BY <1>7
  <2>2. FrameRefs(o) = 0
    BY <1>4, <2>1, Zenon DEF FrameRefs
  <2> QED BY <1>1, <1>2, <1>5, <2>2 DEF Surplus
<1> QED BY <1>1, <1>6, <1>7, <1>8 DEF CacheInv, RunsOwnCode

LEMMA CacheStep == CacheInv /\ [Next]_vars => CacheInv'
<1> SUFFICES ASSUME CacheInv, [Next]_vars PROVE CacheInv'
  OBVIOUS
<1>1. ASSUME NEW s \in Sources, DynamicDef(s) PROVE CacheInv'
  <2>1. /\ UNCHANGED <<heap, buckets, size, frames, held>> /\ pending' \in Sources \cup {NULL}
    BY <1>1 DEF DynamicDef, cacheVars
  <2>2. CacheOK(heap', buckets', size') /\ OwnStep(heap, buckets, heap', buckets')
    BY <2>1 DEF CacheInv, OwnStep
  <2> QED BY <2>1, <2>2, OwnStepKeeps
<1>2. CASE DynamicHit
  BY <1>2, HitStep
<1>3. CASE DynamicMiss
  BY <1>3, MissStep
<1>4. CASE DynamicFails
  <2>1. UNCHANGED <<heap, buckets, size, pending, frames, held>>
    BY <1>4 DEF DynamicFails, FailRun, cacheVars
  <2>2. CacheOK(heap', buckets', size') /\ OwnStep(heap, buckets, heap', buckets')
        /\ pending' \in Sources \cup {NULL}
    BY <2>1 DEF CacheInv, OwnStep
  <2> QED BY <2>1, <2>2, OwnStepKeeps
<1>5. CASE RunMatches
  BY <1>5, LeaveStep DEF RunMatches
<1>6. CASE RunFails
  BY <1>6, LeaveStep DEF RunFails
<1>7. ASSUME NEW s \in Sources, Remove(s) \/ HostGet(s) \/ HostCreate(s) PROVE CacheInv'
  BY <1>7, RemoveStep, HostGetStep, HostCreateStep
<1>8. ASSUME NEW o \in Objects, HostPut(o) \/ HostRelease(o) PROVE CacheInv'
  BY <1>8, HostPutStep, HostReleaseStep
<1>9. CASE Clear
  BY <1>9, ClearStep
<1>10. CASE UNCHANGED vars
  <2>1. UNCHANGED <<heap, buckets, size, pending, frames, held>>
    BY <1>10 DEF vars
  <2>2. CacheOK(heap', buckets', size') /\ OwnStep(heap, buckets, heap', buckets')
        /\ pending' \in Sources \cup {NULL}
    BY <2>1 DEF CacheInv, OwnStep
  <2> QED BY <2>1, <2>2, OwnStepKeeps
<1> QED BY <1>1, <1>2, <1>3, <1>4, <1>5, <1>6, <1>7, <1>8, <1>9, <1>10 DEF Next, VMStep, HostStep

LEMMA CacheInvariant == Spec => []CacheInv
BY CacheInit, CacheStep, PTL DEF Spec

LEMMA CountsExact == CacheInv => RefcountExact
<1> SUFFICES ASSUME CacheInv, NEW o \in Objects
             PROVE  heap[o].refcount = CacheRefs(o) + FrameRefs(o) + held[o]
  BY DEF RefcountExact
<1>1. CacheRefs(o) = EntryRefs(buckets, o)
  BY CacheRefsCount DEF CacheInv
<1>2. heap[o].refcount \in Nat /\ EntryRefs(buckets, o) \in Nat
  BY SurplusType DEF CacheInv
<1>3. Surplus(heap, buckets, o) = FrameRefs(o) + held[o] /\ FrameRefs(o) \in Nat /\ held[o] \in Nat
  BY Holders, FrameRefsCount
<1>4. Surplus(heap, buckets, o) = heap[o].refcount - EntryRefs(buckets, o)
  BY DEF Surplus
<1> QED BY <1>1, <1>2, <1>3, <1>4

LEMMA ContentsExact == CacheInv => CacheExact
<1> SUFFICES ASSUME CacheInv PROVE CacheExact
  OBVIOUS
<1> DEFINE m == MAX_SIZE + 1
           places == {e \in Buckets \X (1 .. m) : e[2] \in DOMAIN buckets[e[1]]}
<1>1. CacheOK(heap, buckets, size) /\ Chains(buckets) /\ size \in Nat /\ size <= MAX_SIZE
  BY FS_CardinalityType DEF CacheInv, CacheOK
<1>2. m \in Nat /\ \A b \in Buckets : Len(buckets[b]) <= m
  <2>1. m \in Nat /\ MAX_SIZE \in Nat
    BY CacheAssumption
  <2>2. ASSUME NEW b \in Buckets PROVE Len(buckets[b]) <= m
    <3>1. Len(buckets[b]) \in Nat
      BY <1>1, ChainElement
    <3>2. Len(buckets[b]) <= size
      BY <1>1, ChainsFit DEF CacheOK
    <3> QED BY <1>1, <2>1, <3>1, <3>2
  <2> QED BY <2>1, <2>2
<1>3. Cardinality(places) = size
  <2> HIDE DEF m
  <2>1. Cardinality(places) = Cardinality(Entries(buckets))
    BY <1>1, <1>2, PlacesAll
  <2> QED BY <1>1, <2>1 DEF CacheOK
<1>4. ASSUME NEW e \in places
      PROVE  /\ heap[buckets[e[1]][e[2]].pattern].source = buckets[e[1]][e[2]].source
             /\ \A f \in places : buckets[e[1]][e[2]].source = buckets[f[1]][f[2]].source => e = f
  <2>1. e[1] \in Buckets /\ e[2] \in DOMAIN buckets[e[1]] /\ e = <<e[1], e[2]>>
    OBVIOUS
  <2>2. buckets[e[1]][e[2]] \in Entries(buckets)
    BY <1>1, <2>1, ChainElement
  <2>3. heap[buckets[e[1]][e[2]].pattern].source = buckets[e[1]][e[2]].source
    BY <1>1, <2>2 DEF CacheOK
  <2>4. ASSUME NEW f \in places, buckets[e[1]][e[2]].source = buckets[f[1]][f[2]].source PROVE e = f
    <3>1. f[1] \in Buckets /\ f[2] \in DOMAIN buckets[f[1]] /\ f = <<f[1], f[2]>>
      OBVIOUS
    <3>2. e[1] = f[1]
      BY <1>1, <2>1, <2>4, <3>1 DEF Chains
    <3>3. e[2] = f[2]
      BY <1>1, <2>1, <2>4, <3>1, <3>2 DEF Chains
    <3> QED BY <2>1, <3>1, <3>2, <3>3
  <2> QED BY <2>3, <2>4
<1> QED BY <1>1, <1>3, <1>4 DEF CacheExact

\* A pattern's count is at all times the number of entries, nested runs and
\* host references that point to it: dynamic_pattern_release frees it with the
\* last of them and not before.
THEOREM PatternCountsExact == Spec => []RefcountExact
BY CacheInvariant, CountsExact, PTL

\* A nested run of OP_DYNAMIC executes the code it was started for until it
\* ends, whatever is evicted, removed, cleared or freed under it.
THEOREM RunsKeepTheirCode == Spec => []RunsOwnCode
<1>1. CacheInv => RunsOwnCode
  BY DEF CacheInv
<1> QED BY <1>1, CacheInvariant, PTL

\* dynamic_pattern_cache_put, get and remove keep at most max_size entries, one
\* for a source, counted by cache->size; the eviction loop ends after a round.
THEOREM CacheStaysExact == Spec => []CacheExact
BY CacheInvariant, ContentsExact, PTL
=============================================================================
