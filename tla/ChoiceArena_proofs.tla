------------------------- MODULE ChoiceArena_proofs -------------------------
(***************************************************************************)
(* The arena implements a stack, for every page size and every mixture of  *)
(* record sizes.                                                           *)
(*                                                                         *)
(* The invariant is the layout of the live records: where each one lies,   *)
(* that its two size words and its payload are still what the push wrote,  *)
(* that records follow one another without a gap inside a page, and that   *)
(* the newest one ends at the fill mark of the last page.  From the layout *)
(* alone it follows that the walk over the leading size words, which finds *)
(* the depth, comes to every live record once and to nothing else.         *)
(***************************************************************************)
EXTENDS ChoiceArena, SequenceTheorems, FiniteSetTheorems, WellFoundedInduction, TLAPS

PageSet == UNION {[cap : {c}, used : 0 .. c, data : [0 .. c - 1 -> Int]] : c \in Nat}

RecordType == [val : Records, size : Nat, below : Nat, page : Nat, base : Nat]

ArenaTypes ==
    /\ pages \in Seq(PageSet)
    /\ pages # <<>>
    /\ total_used \in Nat
    /\ peak_used \in Nat
    /\ popped \in Records
    /\ recs \in Seq(RecordType)

\* Record r lies in page pg, untouched.
Intact(r, pg) ==
    /\ r.size >= 6
    /\ r.base + r.size <= pg.used
    /\ pg.data[r.base] = r.size
    /\ pg.data[r.base + r.size - 1] = r.size
    /\ \A w \in r.base + 2 .. r.base + r.size - 3 : pg.data[w] = r.val

\* Record r is the first one of its page or lies behind record q.
Follows(q, r) ==
    /\ r.below = q.below + q.size
    /\ \/ r.page = q.page /\ r.base = q.base + q.size
       \/ r.page = q.page + 1 /\ r.base = 0 /\ pages[q.page].used = q.base + q.size

\* Record q lies before record r.
Before(q, r) == q.page < r.page \/ (q.page = r.page /\ q.base + q.size <= r.base)

Layout ==
    /\ \A i \in 1 .. Len(recs) : recs[i].page \in 1 .. Len(pages) /\ Intact(recs[i], pages[recs[i].page])
    /\ \A i \in 1 .. Len(recs) - 1 : Follows(recs[i], recs[i + 1])
    /\ \A j \in 1 .. Len(recs) : \A i \in 1 .. j - 1 : Before(recs[i], recs[j])
    /\ recs # <<>> =>
         LET top == recs[Len(recs)]
         IN  /\ top.page = Len(pages)
             /\ top.base + top.size = Cur.used
             /\ total_used = top.below + top.size
             /\ recs[1].below = 0
             /\ recs[1].base = 0
             /\ \/ recs[1].page = 1
                \/ recs[1].page = 2 /\ pages[1].used = 0
    /\ recs = <<>> => Len(pages) = 1 /\ Cur.used = 0 /\ total_used = 0

Sizes ==
    /\ last_rec_size = IF recs = <<>> THEN 0 ELSE recs[Len(recs)].size
    /\ total_used <= peak_used

ArenaInv == ArenaTypes /\ Layout /\ Sizes

(***************************************************************************)
(* Pages and records.                                                      *)
(***************************************************************************)
\* What the type of a page says.
LEMMA PageFacts ==
    ASSUME NEW pg \in PageSet
    PROVE  /\ pg.cap \in Nat /\ pg.used \in Nat /\ pg.used <= pg.cap
           /\ pg.data \in [0 .. pg.cap - 1 -> Int]
           /\ pg = [cap |-> pg.cap, used |-> pg.used, data |-> pg.data]
<1>1. PICK c \in Nat : pg \in [cap : {c}, used : 0 .. c, data : [0 .. c - 1 -> Int]]
  BY DEF PageSet
<1> QED BY <1>1

\* How a page is made.
LEMMA PageMade ==
    ASSUME NEW c \in Nat, NEW u \in 0 .. c, NEW d \in [0 .. c - 1 -> Int]
    PROVE  [cap |-> c, used |-> u, data |-> d] \in PageSet
<1>1. [cap |-> c, used |-> u, data |-> d]
         \in [cap : {c}, used : 0 .. c, data : [0 .. c - 1 -> Int]]
  OBVIOUS
<1> QED BY <1>1 DEF PageSet

\* A new page is empty and large enough.
LEMMA NewPageFacts ==
    ASSUME NEW need \in Nat
    PROVE  /\ NewPage(need) \in PageSet
           /\ NewPage(need).used = 0
           /\ need <= NewPage(need).cap
<1> DEFINE c == IF need > PAGE_SIZE THEN need ELSE PAGE_SIZE
           d == [w \in 0 .. c - 1 |-> Garbage]
<1>1. c \in Nat /\ need <= c /\ 0 \in 0 .. c
  BY ArenaAssumption
<1>2. d \in [0 .. c - 1 -> Int]
  BY DEF Garbage
<1>3. NewPage(need) = [cap |-> c, used |-> 0, data |-> d]
  BY DEF NewPage
<1> HIDE DEF c, d
<1> QED BY <1>1, <1>2, <1>3, PageMade

\* A payload has at least one word pair between its size words.
LEMMA FootprintFacts ==
    ASSUME NEW n \in Payloads
    PROVE  Footprint(n) \in Nat /\ Footprint(n) >= 6
<1>1. n \in Nat /\ n >= 1
  BY ArenaAssumption
<1>2. (n + 7) \div 8 \in Nat /\ (n + 7) \div 8 >= 1
  BY <1>1
<1> QED BY <1>2 DEF Footprint

\* Storing a record behind the fill mark leaves all older words alone.
LEMMA StoreKeeps ==
    ASSUME NEW pg \in PageSet, NEW fp \in Nat, fp >= 6, pg.used + fp <= pg.cap, NEW v \in Nat
    PROVE  /\ Store(pg, fp, v) \in PageSet
           /\ Store(pg, fp, v).used = pg.used + fp
           /\ Store(pg, fp, v).cap = pg.cap
           /\ \A w \in 0 .. pg.used - 1 : Store(pg, fp, v).data[w] = pg.data[w]
           /\ Store(pg, fp, v).data[pg.used] = fp
           /\ Store(pg, fp, v).data[pg.used + fp - 1] = fp
           /\ \A w \in pg.used + 2 .. pg.used + fp - 3 : Store(pg, fp, v).data[w] = v
<1> DEFINE b == pg.used
           d == [w \in 0 .. pg.cap - 1 |->
                    IF w = b \/ w = b + fp - 1 THEN fp
                    ELSE IF w \in b + 2 .. b + fp - 3 THEN v
                    ELSE pg.data[w]]
<1>1. /\ pg.cap \in Nat /\ b \in Nat /\ b <= pg.cap
      /\ pg.data \in [0 .. pg.cap - 1 -> Int]
      /\ pg = [cap |-> pg.cap, used |-> pg.used, data |-> pg.data]
  BY PageFacts
<1>2. d \in [0 .. pg.cap - 1 -> Int]
  BY <1>1
<1>3. Store(pg, fp, v) = [cap |-> pg.cap, used |-> b + fp, data |-> d]
  <2>1. DOMAIN pg.data = 0 .. pg.cap - 1
    BY <1>1
  <2>2. Store(pg, fp, v) = [pg EXCEPT !.used = b + fp, !.data = d]
    BY <2>1 DEF Store
  <2> HIDE DEF d
  <2> QED BY <1>1, <2>2
<1>4. [cap |-> pg.cap, used |-> b + fp, data |-> d] \in PageSet
  <2>1. b + fp \in 0 .. pg.cap
    BY <1>1
  <2> HIDE DEF d, b
  <2> QED BY <1>1, <1>2, <2>1, PageMade
<1>5. \A w \in 0 .. b - 1 : d[w] = pg.data[w]
  BY <1>1
<1>6. d[b] = fp /\ d[b + fp - 1] = fp
  BY <1>1
<1>7. \A w \in b + 2 .. b + fp - 3 : d[w] = v
  BY <1>1
<1> HIDE DEF d
<1> QED BY <1>3, <1>4, <1>5, <1>6, <1>7

\* A record that does not reach the new one keeps its words.
LEMMA IntactKept ==
    ASSUME NEW pg \in PageSet, NEW pn \in PageSet, NEW r \in RecordType, Intact(r, pg),
           pn.used >= r.base + r.size,
           \A w \in 0 .. r.base + r.size - 1 : pn.data[w] = pg.data[w]
    PROVE  Intact(r, pn)
<1>1. r.base \in Nat /\ r.size \in Nat
  BY DEF RecordType
<1> QED BY <1>1 DEF Intact

(***************************************************************************)
(* The steps.                                                              *)
(***************************************************************************)
\* A created arena is empty.
LEMMA ArenaInit == Init => ArenaInv
<1> SUFFICES ASSUME Init PROVE ArenaInv
  OBVIOUS
<1>1. NewPage(0) \in PageSet /\ NewPage(0).used = 0
  BY NewPageFacts
<1>2. ArenaTypes
  BY <1>1 DEF Init, ArenaTypes
<1>3. Layout
  BY <1>1 DEF Init, Layout, Cur
<1>4. Sizes
  BY DEF Init, Sizes
<1> QED BY <1>2, <1>3, <1>4 DEF ArenaInv

\* A push keeps the layout, in the last page or in a new one.
LEMMA PushStep ==
    ASSUME ArenaInv, NEW n \in Payloads, NEW v \in Records, Push(n, v)
    PROVE  ArenaInv'
<1> DEFINE fp  == Footprint(n)
           k   == Len(pages)
           old == IF Fits(fp) THEN Cur ELSE NewPage(fp)
           new == Store(old, fp, v)
           kn  == IF Fits(fp) THEN k ELSE k + 1
           rec == [val |-> v, size |-> fp, below |-> total_used, page |-> kn, base |-> old.used]
<1>1. fp \in Nat /\ fp >= 6 /\ v \in Nat
  BY FootprintFacts, ArenaAssumption
<1>2. pages \in Seq(PageSet) /\ k \in Nat /\ k >= 1 /\ Cur \in PageSet /\ total_used \in Nat
      /\ recs \in Seq(RecordType) /\ peak_used \in Nat
  BY DEF ArenaInv, ArenaTypes, Cur
<1>3. old \in PageSet /\ old.used + fp <= old.cap /\ old.used \in Nat
  <2>1. CASE Fits(fp)
    BY <1>1, <1>2, <2>1, PageFacts DEF Fits
  <2>2. CASE ~Fits(fp)
    BY <1>1, <2>2, NewPageFacts
  <2> QED BY <2>1, <2>2
<1> HIDE DEF fp
<1>4. /\ new \in PageSet
      /\ new.used = old.used + fp
      /\ \A w \in 0 .. old.used - 1 : new.data[w] = old.data[w]
      /\ new.data[old.used] = fp
      /\ new.data[old.used + fp - 1] = fp
      /\ \A w \in old.used + 2 .. old.used + fp - 3 : new.data[w] = v
  <2> HIDE DEF old
  <2> QED BY <1>1, <1>3, StoreKeeps
<1>5. /\ pages' \in Seq(PageSet) /\ Len(pages') = kn /\ pages'[kn] = new
      /\ kn \in Nat /\ kn >= k
      /\ \A j \in 1 .. k : j # kn => pages'[j] = pages[j]
  <2> HIDE DEF new
  <2>1. CASE Fits(fp)
    <3>1. pages' = [pages EXCEPT ![k] = new]
      BY <2>1 DEF Push, fp, new
    <3> QED BY <1>2, <1>4, <2>1, <3>1
  <2>2. CASE ~Fits(fp)
    <3>1. pages' = Append(pages, new)
      BY <2>2 DEF Push, fp, new
    <3> QED BY <1>2, <1>4, <2>2, <3>1
  <2> QED BY <2>1, <2>2
<1> HIDE DEF new
<1>6. /\ recs' = Append(recs, rec)
      /\ total_used' = total_used + fp /\ last_rec_size' = fp
      /\ peak_used' = IF total_used' > peak_used THEN total_used' ELSE peak_used
      /\ popped' = popped
  <2>1. pages'[Len(pages')].used - fp = old.used
    BY <1>1, <1>3, <1>4, <1>5
  <2> QED BY <1>5, <2>1 DEF Push, fp
<1>7. rec \in RecordType
  BY <1>1, <1>2, <1>3, <1>5 DEF RecordType
<1>8. /\ recs' \in Seq(RecordType) /\ recs' # <<>> /\ Len(recs') = Len(recs) + 1
      /\ recs'[Len(recs')] = rec
      /\ \A i \in 1 .. Len(recs) : recs'[i] = recs[i]
  <2> HIDE DEF rec
  <2> QED BY <1>2, <1>6, <1>7
<1>9. ArenaTypes'
  BY <1>1, <1>2, <1>5, <1>6, <1>8 DEF ArenaInv, ArenaTypes
<1>10. Sizes'
  BY <1>1, <1>2, <1>6, <1>8 DEF Sizes
<1>11. Layout'
  <2>1. ASSUME NEW i \in 1 .. Len(recs')
        PROVE  recs'[i].page \in 1 .. kn /\ Intact(recs'[i], pages'[recs'[i].page])
    <3>1. CASE i = Len(recs')
      <4>1. recs'[i] = rec /\ pages'[rec.page] = new
        BY <1>5, <1>8, <3>1
      <4>2. Intact(rec, new)
        BY <1>1, <1>3, <1>4 DEF Intact
      <4>3. rec.page \in 1 .. kn
        BY <1>2, <1>5
      <4> QED BY <4>1, <4>2, <4>3
    <3>2. CASE i # Len(recs')
      <4>1. i \in 1 .. Len(recs) /\ recs'[i] = recs[i]
        BY <1>2, <1>8, <3>2
      <4>2. recs[i].page \in 1 .. k /\ Intact(recs[i], pages[recs[i].page]) /\ recs[i] \in RecordType
        BY <1>2, <4>1 DEF ArenaInv, Layout
      <4>3. CASE recs[i].page # kn
        BY <1>2, <1>5, <4>1, <4>2, <4>3
      <4>4. CASE recs[i].page = kn
        <5>1. Fits(fp) /\ kn = k /\ old = Cur /\ pages[k] = Cur
          BY <1>2, <4>2, <4>4 DEF Cur
        <5>2. recs[i].base \in Nat /\ recs[i].size \in Nat /\ recs[i].base + recs[i].size <= old.used
          BY <4>2, <4>4, <5>1 DEF RecordType, Intact
        <5>3. \A w \in 0 .. recs[i].base + recs[i].size - 1 : new.data[w] = old.data[w]
          BY <1>3, <1>4, <5>2
        <5>4. new.used >= recs[i].base + recs[i].size
          <6>1. new.used = old.used + fp
            BY <1>4
          <6> HIDE DEF old
          <6> QED BY <1>1, <1>3, <5>2, <6>1
        <5>5. Intact(recs[i], old)
          BY <4>2, <4>4, <5>1
        <5>6. Intact(recs[i], new)
          <6> HIDE DEF old
          <6> QED BY <1>3, <1>4, <4>2, <5>3, <5>4, <5>5, IntactKept
        <5> QED BY <1>5, <4>1, <4>2, <4>4, <5>1, <5>6
      <4> QED BY <4>3, <4>4
    <3> QED BY <3>1, <3>2
  <2>2. ASSUME NEW i \in 1 .. Len(recs') - 1
        PROVE  Follows(recs[i], recs[i + 1])' 
    <3>1. i \in 1 .. Len(recs) /\ recs'[i] = recs[i] /\ recs[i] \in RecordType
          /\ recs[i].page \in 1 .. k
      BY <1>2, <1>8 DEF ArenaInv, Layout
    <3>2. CASE i = Len(recs)
      <4>1. recs'[i + 1] = rec
        BY <1>8, <3>2
      <4>2. recs[i].page = k /\ recs[i].base + recs[i].size = Cur.used
            /\ total_used = recs[i].below + recs[i].size
        BY <1>2, <3>1, <3>2 DEF ArenaInv, Layout
      <4>3. CASE Fits(fp)
        BY <3>1, <4>1, <4>2, <4>3 DEF Follows
      <4>4. CASE ~Fits(fp)
        <5>1. old.used = 0 /\ kn = k + 1 /\ pages'[k] = pages[k] /\ pages[k] = Cur
          BY <1>1, <1>2, <1>5, <4>4, NewPageFacts DEF Cur
        <5> QED BY <3>1, <4>1, <4>2, <4>4, <5>1 DEF Follows
      <4> QED BY <4>3, <4>4
    <3>3. CASE i # Len(recs)
      <4>1. i \in 1 .. Len(recs) - 1 /\ recs'[i + 1] = recs[i + 1] /\ recs[i + 1] \in RecordType
            /\ recs[i + 1].page \in 1 .. k
        BY <1>2, <1>8, <3>1, <3>3 DEF ArenaInv, Layout
      <4>2. Follows(recs[i], recs[i + 1])
        BY <4>1 DEF ArenaInv, Layout
      <4>3. CASE recs[i + 1].page = recs[i].page
        BY <3>1, <4>1, <4>2, <4>3 DEF Follows, RecordType
      <4>4. CASE recs[i + 1].page # recs[i].page
        <5>1. recs[i + 1].page = recs[i].page + 1
          BY <4>2, <4>4 DEF Follows
        <5>2. recs[i].page # kn
          BY <1>2, <3>1, <4>1, <5>1
        <5> QED BY <1>5, <3>1, <4>1, <4>2, <4>4, <5>2 DEF Follows
      <4> QED BY <4>3, <4>4
    <3> QED BY <3>2, <3>3
  <2>3. /\ rec.page = Len(pages')
        /\ rec.base + rec.size = Cur'.used
        /\ total_used' = rec.below + rec.size
    BY <1>1, <1>3, <1>4, <1>5, <1>6 DEF Cur
  <2>4. /\ recs'[1].below = 0 /\ recs'[1].base = 0
        /\ (recs'[1].page = 1 \/ (recs'[1].page = 2 /\ pages'[1].used = 0))
    <3>1. CASE recs = <<>>
      <4>1. recs'[1] = rec /\ k = 1 /\ Cur.used = 0 /\ total_used = 0
        BY <1>2, <1>8, <3>1 DEF ArenaInv, Layout
      <4>2. CASE Fits(fp)
        BY <4>1, <4>2
      <4>3. CASE ~Fits(fp)
        <5>1. old.used = 0 /\ kn = 2 /\ pages'[1] = pages[1] /\ pages[1] = Cur
          BY <1>1, <1>5, <4>1, <4>3, NewPageFacts DEF Cur
        <5> QED BY <4>1, <5>1
      <4> QED BY <4>2, <4>3
    <3>2. CASE recs # <<>>
      <4>1. recs'[1] = recs[1] /\ recs[1].below = 0 /\ recs[1].base = 0
            /\ (recs[1].page = 1 \/ (recs[1].page = 2 /\ pages[1].used = 0))
            /\ recs[1].page \in 1 .. k
        BY <1>2, <1>8, <3>2 DEF ArenaInv, Layout
      <4>2. CASE recs[1].page = 1
        BY <4>1, <4>2
      <4>3. CASE recs[1].page = 2
        <5>0. k >= 2
          BY <1>2, <4>1, <4>3
        <5>1. kn # 1 /\ 1 \in 1 .. k
          <6> HIDE DEF kn, rec, old
          <6> QED BY <1>2, <1>5, <5>0
        <5> QED BY <1>5, <4>1, <4>3, <5>1
      <4> QED BY <4>1, <4>2, <4>3
    <3> QED BY <3>1, <3>2
  <2>5. ASSUME NEW j \in 1 .. Len(recs'), NEW i \in 1 .. j - 1
        PROVE  Before(recs'[i], recs'[j])
    <3>1. i \in 1 .. Len(recs) /\ recs'[i] = recs[i] /\ recs[i] \in RecordType
          /\ recs[i].page \in 1 .. k /\ Intact(recs[i], pages[recs[i].page])
      BY <1>2, <1>8 DEF ArenaInv, Layout
    <3>2. CASE j = Len(recs')
      <4>1. recs'[j] = rec
        BY <1>8, <3>2
      <4>2. CASE Fits(fp)
        <5>1. recs[i].page = k => recs[i].base + recs[i].size <= Cur.used
          BY <3>1 DEF Intact, Cur
        <5> QED BY <1>2, <3>1, <4>1, <4>2, <5>1 DEF Before
      <4>3. CASE ~Fits(fp)
        BY <1>2, <3>1, <4>1, <4>3 DEF Before
      <4> QED BY <4>2, <4>3
    <3>3. CASE j # Len(recs')
      <4>1. j \in 1 .. Len(recs) /\ recs'[j] = recs[j]
        BY <1>2, <1>8, <3>3
      <4> QED BY <3>1, <4>1 DEF ArenaInv, Layout
    <3> QED BY <3>2, <3>3
  <2> QED BY <1>5, <1>8, <2>1, <2>2, <2>3, <2>4, <2>5 DEF Layout
<1> QED BY <1>9, <1>10, <1>11 DEF ArenaInv

\* A sequence without its last element.
LEMMA FrontFacts ==
    ASSUME NEW S, NEW s \in Seq(S), Len(s) >= 1
    PROVE  /\ SubSeq(s, 1, Len(s) - 1) \in Seq(S)
           /\ Len(SubSeq(s, 1, Len(s) - 1)) = Len(s) - 1
           /\ \A i \in 1 .. Len(s) - 1 : SubSeq(s, 1, Len(s) - 1)[i] = s[i]
<1>1. Len(s) \in Nat /\ Len(s) - 1 \in Nat /\ Len(s) - 1 <= Len(s)
  OBVIOUS
<1>2. \A i \in 1 .. Len(s) - 1 : s[i] \in S
  BY <1>1
<1> DEFINE n == Len(s) - 1
<1>3. /\ SubSeq(s, 1, n) \in Seq(S)
      /\ Len(SubSeq(s, 1, n)) = IF 1 <= n THEN n - 1 + 1 ELSE 0
      /\ \A i \in 1 .. n - 1 + 1 : SubSeq(s, 1, n)[i] = s[1 + i - 1]
  <2> HIDE DEF n
  <2> QED BY <1>1, <1>2, SubSeqProperties DEF n
<1>4. n \in Nat
  BY <1>1
<1> HIDE DEF n
<1> DEFINE t == SubSeq(s, 1, n)
<1> HIDE DEF t
<1>5. t \in Seq(S) /\ Len(t) = n /\ \A i \in 1 .. n : t[i] = s[i]
  <2>1. /\ t \in Seq(S)
        /\ Len(t) = IF 1 <= n THEN n - 1 + 1 ELSE 0
        /\ \A i \in 1 .. n - 1 + 1 : t[i] = s[1 + i - 1]
    BY <1>3 DEF t
  <2> QED BY <1>4, <2>1
<1> QED BY <1>5, Zenon DEF t, n

\* What the newest record's words tell a pop.
LEMMA TopRead ==
    ASSUME ArenaInv, recs # <<>>
    PROVE  /\ recs[Len(recs)] \in RecordType
           /\ Len(recs) \in Nat /\ Len(recs) >= 1
           /\ TailSize(Cur) = recs[Len(recs)].size
           /\ recs[Len(recs)].size >= 6
           /\ Cur.used - recs[Len(recs)].size = recs[Len(recs)].base
           /\ Cur.data[recs[Len(recs)].base + 2] = recs[Len(recs)].val
           /\ total_used = recs[Len(recs)].below + recs[Len(recs)].size
<1> DEFINE m == Len(recs)
           top == recs[m]
<1>1. m \in Nat /\ m >= 1 /\ top \in RecordType
  BY DEF ArenaInv, ArenaTypes
<1>2. top.page = Len(pages) /\ top.base + top.size = Cur.used
      /\ total_used = top.below + top.size
  BY DEF ArenaInv, Layout
<1>3. Intact(top, Cur)
  BY <1>1, <1>2 DEF ArenaInv, Layout, Cur
<1>4. top.base \in Nat /\ top.size \in Nat
  BY <1>1 DEF RecordType
<1> HIDE DEF top
<1>5. Cur.used - 1 = top.base + top.size - 1 /\ Cur.used - top.size = top.base
  BY <1>2, <1>4
<1>6. top.size >= 6 /\ Cur.data[top.base + 2] = top.val
      /\ Cur.data[top.base + top.size - 1] = top.size
  BY <1>3, <1>4 DEF Intact
<1> QED BY <1>1, <1>2, <1>5, <1>6 DEF TailSize, top

\* A pop keeps the layout of what is left, in the same page or in the one
\* before.
LEMMA PopStep ==
    ASSUME ArenaInv, Pop
    PROVE  ArenaInv' /\ popped' = recs[Len(recs)].val /\ recs # <<>>
<1> DEFINE m   == Len(recs)
           k   == Len(pages)
           top == recs[m]
           cut == [pages EXCEPT ![k].used = @ - top.size]
           low == [Cur EXCEPT !.used = top.base]
<1>1. recs # <<>>
  BY DEF ArenaInv, Layout, Pop
<1>2. /\ top \in RecordType /\ m \in Nat /\ m >= 1
      /\ TailSize(Cur) = top.size /\ top.size >= 6
      /\ Cur.used - top.size = top.base
      /\ Cur.data[top.base + 2] = top.val
      /\ total_used = top.below + top.size
  BY <1>1, TopRead
<1>3. /\ top.base \in Nat /\ top.size \in Nat /\ top.below \in Nat /\ top.val \in Records
      /\ pages \in Seq(PageSet) /\ k \in Nat /\ k >= 1 /\ Cur \in PageSet /\ pages[k] = Cur
      /\ recs \in Seq(RecordType) /\ total_used \in Nat /\ peak_used \in Nat
      /\ total_used <= peak_used
  <2>1. top.base \in Nat /\ top.size \in Nat /\ top.below \in Nat /\ top.val \in Records
    <3> HIDE DEF top
    <3> QED BY <1>2 DEF RecordType
  <2>2. pages \in Seq(PageSet) /\ k \in Nat /\ k >= 1 /\ Cur \in PageSet /\ pages[k] = Cur
    BY DEF ArenaInv, ArenaTypes, Cur
  <2>3. recs \in Seq(RecordType) /\ total_used \in Nat /\ peak_used \in Nat
        /\ total_used <= peak_used
    BY DEF ArenaInv, ArenaTypes, Sizes
  <2> QED BY <2>1, <2>2, <2>3
<1>4. /\ recs' = SubSeq(recs, 1, m - 1)
      /\ total_used' = total_used - top.size /\ peak_used' = peak_used
      /\ popped' = top.val
      /\ pages' = DropEmpty(cut)
      /\ last_rec_size' = IF pages'[Len(pages')].used > 0 THEN TailSize(pages'[Len(pages')]) ELSE 0
  BY <1>2 DEF Pop
<1> HIDE DEF top
<1>5. low \in PageSet /\ low.used = top.base /\ low.data = Cur.data /\ low.cap = Cur.cap
  <2>1. /\ Cur.cap \in Nat /\ Cur.used \in Nat /\ Cur.used <= Cur.cap
        /\ Cur.data \in [0 .. Cur.cap - 1 -> Int]
        /\ Cur = [cap |-> Cur.cap, used |-> Cur.used, data |-> Cur.data]
    BY <1>3, PageFacts
  <2>2. top.base \in 0 .. Cur.cap
    BY <1>2, <1>3, <2>1
  <2>3. low = [cap |-> Cur.cap, used |-> top.base, data |-> Cur.data]
    BY <2>1
  <2> HIDE DEF low
  <2> QED BY <2>1, <2>2, <2>3, PageMade
<1>6. cut = [pages EXCEPT ![k] = low]
  BY <1>2, <1>3
<1> HIDE DEF low
<1>7. cut \in Seq(PageSet) /\ Len(cut) = k /\ cut[k] = low
      /\ \A j \in 1 .. k : j # k => cut[j] = pages[j]
  <2> HIDE DEF cut
  <2>1. k \in 1 .. k /\ k = Len(pages)
    BY <1>3
  <2>2. cut \in Seq(PageSet) /\ Len(cut) = k
    BY <1>3, <1>5, <1>6
  <2>3. cut[k] = low /\ \A j \in 1 .. k : j # k => cut[j] = pages[j]
    BY <1>3, <1>6, <2>1
  <2> QED BY <2>2, <2>3
<1>8. /\ recs' \in Seq(RecordType) /\ Len(recs') = m - 1
      /\ \A i \in 1 .. m - 1 : recs'[i] = recs[i]
      /\ \A i \in 1 .. m : recs[i] \in RecordType
  <2>1. m = Len(recs) /\ m - 1 \in Nat /\ m - 1 <= Len(recs)
    BY <1>2
  <2>2. recs' \in Seq(RecordType) /\ Len(recs') = m - 1
    BY <1>2, <1>3, <1>4, FrontFacts
  <2>3. \A i \in 1 .. m - 1 : recs'[i] = recs[i]
    BY <1>2, <1>3, <1>4, FrontFacts
  <2>4. \A i \in 1 .. m : recs[i] \in RecordType
    BY <1>3
  <2> QED BY <2>2, <2>3, <2>4
<1> HIDE DEF cut
<1>9. \A i \in 1 .. m : recs[i].page \in 1 .. k /\ Intact(recs[i], pages[recs[i].page])
  BY DEF ArenaInv, Layout
<1>10. \A i \in 1 .. m - 1 : Before(recs[i], top)
  BY <1>2 DEF ArenaInv, Layout, top
<1>11. top.page = k
  BY <1>1 DEF ArenaInv, Layout, top
<1>12. total_used' = top.below /\ total_used' \in Nat /\ total_used' <= peak_used'
  BY <1>2, <1>3, <1>4
<1>13. \A i \in 1 .. m - 1 :
          /\ recs[i].base \in Nat /\ recs[i].size \in Nat /\ recs[i].page \in Nat
          /\ recs[i].below \in Nat /\ recs[i].size >= 6
  <2> SUFFICES ASSUME NEW i \in 1 .. m - 1
               PROVE  /\ recs[i].base \in Nat /\ recs[i].size \in Nat /\ recs[i].page \in Nat
                      /\ recs[i].below \in Nat /\ recs[i].size >= 6
    OBVIOUS
  <2>1. i \in 1 .. m
    BY <1>2
  <2>2. recs[i] \in RecordType /\ Intact(recs[i], pages[recs[i].page])
    BY <1>8, <1>9, <2>1
  <2> QED BY <2>2 DEF RecordType, Intact
<1>14. m >= 2 => Follows(recs[m - 1], top)
  BY <1>2 DEF ArenaInv, Layout, top
<1>15. m = 1 => /\ top.base = 0 /\ top.below = 0
                /\ (top.page = 1 \/ (top.page = 2 /\ pages[1].used = 0))
  BY <1>1 DEF ArenaInv, Layout, top
<1>16. \A j \in 1 .. m - 1 : \A i \in 1 .. j - 1 : Before(recs[i], recs[j])
  BY <1>2 DEF ArenaInv, Layout
<1>17. \A i \in 1 .. m - 2 : Follows(recs[i], recs[i + 1])
  BY <1>2 DEF ArenaInv, Layout
<1>18. m >= 2 => /\ recs[1].below = 0 /\ recs[1].base = 0
                 /\ (recs[1].page = 1 \/ (recs[1].page = 2 /\ pages[1].used = 0))
  BY <1>1 DEF ArenaInv, Layout
\* The pages that are left, and what each of them still shows.
<1>19. /\ pages' \in Seq(PageSet) /\ Len(pages') \in Nat /\ Len(pages') >= 1 /\ Len(pages') <= k
       /\ \A j \in 1 .. Len(pages') : pages'[j] = IF j = k THEN low ELSE pages[j]
       /\ Len(pages') = IF top.base = 0 /\ k > 1 THEN k - 1 ELSE k
  <2>1. CASE top.base = 0 /\ k > 1
    <3>1. pages' = SubSeq(cut, 1, k - 1)
      BY <1>4, <1>5, <1>7, <2>1 DEF DropEmpty
    <3> QED BY <1>3, <1>7, <2>1, <3>1
  <2>2. CASE ~(top.base = 0 /\ k > 1)
    <3>1. pages' = cut
      BY <1>4, <1>5, <1>7, <2>2 DEF DropEmpty
    <3> QED BY <1>3, <1>7, <2>2, <3>1
  <2> QED BY <2>1, <2>2
<1> DEFINE kn == Len(pages')
<1>20. \A i \in 1 .. m - 1 : recs[i].page \in 1 .. kn /\ Intact(recs[i], pages'[recs[i].page])
  <2> SUFFICES ASSUME NEW i \in 1 .. m - 1
               PROVE  recs[i].page \in 1 .. kn /\ Intact(recs[i], pages'[recs[i].page])
    OBVIOUS
  <2>1. /\ recs[i].base \in Nat /\ recs[i].size \in Nat /\ recs[i].page \in 1 .. k
        /\ recs[i].size >= 6 /\ recs[i] \in RecordType
        /\ Before(recs[i], top) /\ Intact(recs[i], pages[recs[i].page])
    BY <1>2, <1>8, <1>9, <1>10, <1>13
  <2>2. CASE recs[i].page = k
    <3>1. recs[i].base + recs[i].size <= top.base
      BY <1>3, <1>11, <2>1, <2>2 DEF Before
    <3>0. top.base # 0
      BY <1>3, <2>1, <3>1
    <3>2. kn = k /\ pages'[k] = low
      <4>1. kn = k
        BY <1>19, <3>0
      <4> QED BY <1>3, <1>19, <4>1
    <3>3. Intact(recs[i], low)
      BY <1>3, <1>5, <2>1, <2>2, <3>1, IntactKept
    <3> QED BY <2>1, <2>2, <3>2, <3>3
  <2>3. CASE recs[i].page # k
    <3>1. recs[i].page \in 1 .. kn
      BY <1>3, <1>19, <2>1, <2>3
    <3> QED BY <1>19, <2>1, <2>3, <3>1
  <2> QED BY <2>2, <2>3
<1>21. ASSUME m >= 2
       PROVE  /\ recs[m - 1].page = kn
              /\ recs[m - 1].base + recs[m - 1].size = pages'[kn].used
              /\ total_used' = recs[m - 1].below + recs[m - 1].size
  <2> DEFINE q == recs[m - 1]
  <2>1. m - 1 \in 1 .. m - 1
    BY <1>2, <1>21
  <2>2. Follows(q, top) /\ q.base \in Nat /\ q.size \in Nat /\ q.page \in Nat /\ q.size >= 6
        /\ q.page \in 1 .. k
    BY <1>9, <1>13, <1>14, <1>21, <2>1
  <2> HIDE DEF q
  <2>3. total_used' = q.below + q.size
    BY <1>12, <2>2 DEF Follows
  <2>4. CASE top.page = q.page
    <3>1. top.base = q.base + q.size /\ top.base # 0
      BY <2>2, <2>4 DEF Follows
    <3> QED BY <1>3, <1>5, <1>11, <1>19, <2>3, <2>4, <3>1 DEF q
  <2>5. CASE top.page # q.page
    <3>1. top.page = q.page + 1 /\ top.base = 0 /\ pages[q.page].used = q.base + q.size
      BY <2>2, <2>5 DEF Follows
    <3>2. k > 1 /\ q.page = k - 1 /\ kn = k - 1
      BY <1>11, <1>19, <2>2, <3>1
    <3> QED BY <1>3, <1>19, <2>3, <3>1, <3>2 DEF q
  <2> QED BY <2>4, <2>5
<1>22. ASSUME m = 1
       PROVE  kn = 1 /\ pages'[1].used = 0 /\ total_used' = 0
  <2>1. top.base = 0 /\ total_used' = 0
    BY <1>12, <1>15, <1>22
  <2>2. CASE k = 1
    BY <1>5, <1>19, <2>1, <2>2
  <2>3. CASE k # 1
    BY <1>3, <1>11, <1>15, <1>19, <1>22, <2>1, <2>3
  <2> QED BY <2>2, <2>3
<1>23. ArenaTypes'
  BY <1>3, <1>4, <1>8, <1>12, <1>19 DEF ArenaTypes
<1>24. Sizes'
  <2>1. CASE m = 1
    <3>1. recs' = <<>>
      BY <1>8, <2>1
    <3>2. pages'[Len(pages')].used = 0
      BY <1>22, <2>1
    <3>3. last_rec_size' = 0
      <4> HIDE DEF kn
      <4> QED BY <1>4, <3>2
    <3> QED BY <1>12, <3>1, <3>3 DEF Sizes
  <2>2. CASE m # 1
    <3>1. m >= 2 /\ recs' # <<>> /\ recs'[Len(recs')] = recs[m - 1] /\ m - 1 \in 1 .. m - 1
      BY <1>2, <1>8, <2>2
    <3>2. Intact(recs[m - 1], pages'[kn]) /\ pages'[kn].used > 0
          /\ pages'[kn].used - 1 = recs[m - 1].base + recs[m - 1].size - 1
      <4>1. Intact(recs[m - 1], pages'[kn])
        BY <1>20, <1>21, <3>1
      <4>2. pages'[kn].used = recs[m - 1].base + recs[m - 1].size
        BY <1>21, <3>1
      <4>3. recs[m - 1].base \in Nat /\ recs[m - 1].size \in Nat /\ recs[m - 1].size >= 6
        BY <1>13, <3>1
      <4> QED BY <4>1, <4>2, <4>3
    <3>3. TailSize(pages'[kn]) = recs[m - 1].size
      BY <3>2 DEF TailSize, Intact
    <3> QED BY <1>4, <1>12, <3>1, <3>2, <3>3 DEF Sizes
  <2> QED BY <2>1, <2>2
<1>25. Layout'
  <2>1. \A i \in 1 .. Len(recs') - 1 : Follows(recs[i], recs[i + 1])'
    <3> SUFFICES ASSUME NEW i \in 1 .. m - 2
                 PROVE  Follows(recs[i], recs[i + 1])'
      BY <1>2, <1>8
    <3>1. i \in 1 .. m - 1 /\ i + 1 \in 1 .. m - 1 /\ recs'[i] = recs[i] /\ recs'[i + 1] = recs[i + 1]
          /\ Follows(recs[i], recs[i + 1])
      BY <1>2, <1>8, <1>17
    <3>2. CASE recs[i + 1].page = recs[i].page
      BY <1>13, <3>1, <3>2 DEF Follows
    <3>3. CASE recs[i + 1].page # recs[i].page
      <4>1. recs[i + 1].page = recs[i].page + 1 /\ recs[i].page \in 1 .. kn
            /\ recs[i + 1].page \in 1 .. kn
        BY <1>20, <3>1, <3>3 DEF Follows
      <4>a. recs[i].page # k
        BY <1>3, <1>19, <4>1
      <4>2. pages'[recs[i].page] = pages[recs[i].page]
        BY <1>19, <4>1, <4>a
      <4> QED BY <3>1, <3>3, <4>2 DEF Follows
    <3> QED BY <3>2, <3>3
  <2>2. \A i \in 1 .. Len(recs') : recs'[i].page \in 1 .. kn /\ Intact(recs'[i], pages'[recs'[i].page])
    BY <1>8, <1>20
  <2>3. \A j \in 1 .. Len(recs') : \A i \in 1 .. j - 1 : Before(recs'[i], recs'[j])
    BY <1>2, <1>8, <1>16
  <2>4. CASE m = 1
    <3>1. recs' = <<>>
      BY <1>8, <2>4
    <3> QED BY <1>22, <2>1, <2>2, <2>3, <2>4, <3>1 DEF Layout, Cur
  <2>5. CASE m # 1
    <3>1. m >= 2 /\ recs' # <<>> /\ recs'[Len(recs')] = recs[m - 1] /\ recs'[1] = recs[1]
          /\ 1 \in 1 .. m - 1
      BY <1>2, <1>8, <2>5
    <3>2. recs[1].page = 1 \/ (recs[1].page = 2 /\ pages'[1].used = 0)
      <4>1. CASE recs[1].page = 1
        BY <4>1
      <4>2. CASE recs[1].page = 2
        <5>1. pages[1].used = 0 /\ kn >= 2
          BY <1>18, <1>20, <3>1, <4>2
        <5> QED BY <1>19, <4>2, <5>1
      <4> QED BY <1>18, <3>1, <4>1, <4>2
    <3> QED BY <1>18, <1>21, <2>1, <2>2, <2>3, <3>1, <3>2 DEF Layout, Cur
  <2> QED BY <2>4, <2>5
<1> QED BY <1>1, <1>4, <1>23, <1>24, <1>25 DEF ArenaInv, top

\* A reset leaves an empty arena.
LEMMA ResetStep ==
    ASSUME ArenaInv, Reset
    PROVE  ArenaInv'
<1> DEFINE pg == [pages[1] EXCEPT !.used = 0]
<1>1. pages[1] \in PageSet
  BY DEF ArenaInv, ArenaTypes
<1>2. pg \in PageSet /\ pg.used = 0
  <2>1. /\ pages[1].cap \in Nat
        /\ pages[1].data \in [0 .. pages[1].cap - 1 -> Int]
        /\ pages[1] = [cap |-> pages[1].cap, used |-> pages[1].used, data |-> pages[1].data]
    BY <1>1, PageFacts
  <2>2. pg = [cap |-> pages[1].cap, used |-> 0, data |-> pages[1].data]
    BY <2>1
  <2>3. 0 \in 0 .. pages[1].cap
    BY <2>1
  <2> HIDE DEF pg
  <2> QED BY <2>1, <2>2, <2>3, PageMade
<1>3. pages' = <<pg>>
  BY DEF Reset
<1> HIDE DEF pg
<1>4. ArenaTypes'
  BY <1>2, <1>3 DEF Reset, ArenaInv, ArenaTypes
<1>5. Layout' /\ Sizes'
  BY <1>2, <1>3 DEF Reset, Layout, Sizes, Cur
<1> QED BY <1>4, <1>5 DEF ArenaInv

\* The layout is an invariant of the arena.
LEMMA ArenaInvariant == Spec => []ArenaInv
<1>1. ArenaInv /\ [Next]_vars => ArenaInv'
  <2> SUFFICES ASSUME ArenaInv, [Next]_vars PROVE ArenaInv'
    OBVIOUS
  <2>1. CASE Next
    BY <2>1, PushStep, PopStep, ResetStep DEF Next
  <2>2. CASE UNCHANGED vars
    BY <2>2 DEF vars, ArenaInv, ArenaTypes, Layout, Sizes, Cur, Follows
  <2> QED BY <2>1, <2>2
<1> QED BY ArenaInit, <1>1, PTL DEF Spec

(***************************************************************************)
(* The walk over the leading size words.                                   *)
(***************************************************************************)
Least(S) == CHOOSE d \in S : \A x \in S : d <= x

\* A non-empty set of naturals has a least element.
LEMMA LeastExists ==
    ASSUME NEW S, S \subseteq Nat, S # {}
    PROVE  Least(S) \in S /\ \A x \in S : Least(S) <= x
<1>1. PICK d \in S : \A x \in S : ~(<<x, d>> \in OpToRel(<, Nat))
  BY NatLessThanWellFounded, WFMin, Zenon
<1>2. ASSUME NEW x \in S PROVE d <= x
  <2>1. d \in Nat /\ x \in Nat
    OBVIOUS
  <2>2. ~(<<x, d>> \in OpToRel(<, Nat))
    BY <1>1, Zenon
  <2>3. ~(x < d)
    BY <2>1, <2>2, Zenon DEF OpToRel
  <2> QED BY <2>1, <2>3
<1>3. \E y \in S : \A x \in S : y <= x
  BY <1>2
<1> QED BY <1>3, Zenon DEF Least

\* The loop of vm_choice_stack_depth, once round.
Onward(pg, p) == IF p + 2 <= pg.used THEN p + pg.data[p] ELSE p

\* The function f is the walk over page pg for n rounds.
Walks(pg, f, n) ==
    f = [k \in 0 .. n |-> IF k = 0 THEN 0 ELSE Onward(pg, f[k - 1])]

\* The walk is defined for any number of rounds.
LEMMA WalkExists ==
    ASSUME NEW pg, NEW n \in Nat
    PROVE  \E f : Walks(pg, f, n)
<1> DEFINE Bad == {m \in Nat : ~\E f : Walks(pg, f, m)}
<1> SUFFICES ASSUME n \in Bad PROVE FALSE
  OBVIOUS
<1>1. PICK m \in Bad : \A x \in Bad : m <= x
  <2>1. Bad \subseteq Nat /\ Bad # {}
    OBVIOUS
  <2> HIDE DEF Bad
  <2> QED BY <2>1, LeastExists
<1>2. m \in Nat /\ ~\E f : Walks(pg, f, m)
  OBVIOUS
<1>3. CASE m = 0
  <2> DEFINE g == [k \in 0 .. 0 |-> 0]
  <2>1. Walks(pg, g, 0)
    BY DEF Walks
  <2> QED BY <1>2, <1>3, <2>1
<1>4. CASE m # 0
  <2>1. m - 1 \in Nat /\ m - 1 \notin Bad
    BY <1>1, <1>2, <1>4
  <2>2. PICK f : Walks(pg, f, m - 1)
    BY <2>1
  <2> DEFINE g == [k \in 0 .. m |-> IF k = m THEN Onward(pg, f[m - 1]) ELSE f[k]]
  <2>3. ASSUME NEW k \in 0 .. m
        PROVE  g[k] = IF k = 0 THEN 0 ELSE Onward(pg, g[k - 1])
    <3>1. CASE k = m
      <4>1. k - 1 \in 0 .. m - 1 /\ k - 1 # m /\ k # 0
        BY <1>2, <1>4, <3>1
      <4>2. g[k - 1] = f[k - 1]
        BY <1>2, <4>1
      <4> QED BY <3>1, <4>1, <4>2
    <3>2. CASE k # m
      <4>1. k \in 0 .. m - 1
        BY <1>2, <3>2
      <4>2. f[k] = IF k = 0 THEN 0 ELSE Onward(pg, f[k - 1])
        BY <2>2, <4>1 DEF Walks
      <4>3. g[k] = f[k]
        BY <3>2
      <4>4. k # 0 => g[k - 1] = f[k - 1]
        BY <1>2, <4>1
      <4> QED BY <4>2, <4>3, <4>4
    <3> QED BY <3>1, <3>2
  <2>4. g = [k \in 0 .. m |-> g[k]]
    OBVIOUS
  <2> HIDE DEF g
  <2>5. Walks(pg, g, m)
    BY <2>3, <2>4 DEF Walks
  <2> QED BY <1>2, <2>5
<1> QED BY <1>3, <1>4

\* So the walk of the model takes one step after another.
LEMMA WalkSteps ==
    ASSUME NEW pg, pg.used \in Nat
    PROVE  /\ Offsets(pg)[0] = 0
           /\ \A k \in 1 .. pg.used :
                Offsets(pg)[k] = Onward(pg, Offsets(pg)[k - 1])
<1>1. PICK w : Walks(pg, w, pg.used)
  BY WalkExists
<1>2. Offsets(pg) = CHOOSE f : f = [k \in 0 .. pg.used |->
                                     IF k = 0 THEN 0
                                     ELSE LET p == f[k - 1]
                                          IN  IF p + 2 <= pg.used THEN p + pg.data[p] ELSE p]
  BY DEF Offsets
<1>3. Offsets(pg) = CHOOSE f : Walks(pg, f, pg.used)
  BY <1>2 DEF Walks, Onward
<1>4. Walks(pg, Offsets(pg), pg.used)
  BY <1>1, <1>3
<1> DEFINE at == Offsets(pg)
<1> HIDE DEF at
<1>5. at = [k \in 0 .. pg.used |-> IF k = 0 THEN 0 ELSE Onward(pg, at[k - 1])]
  BY <1>4 DEF Walks, at
<1>6. at[0] = 0
  BY <1>5
<1>7. \A k \in 1 .. pg.used : at[k] = Onward(pg, at[k - 1])
  BY <1>5
<1> QED BY <1>6, <1>7 DEF at

\* What the layout says of one record.
LEMMA RecordFacts ==
    ASSUME ArenaInv, NEW i \in 1 .. Len(recs)
    PROVE  /\ recs[i].base \in Nat /\ recs[i].size \in Nat /\ recs[i].size >= 6
           /\ recs[i].page \in 1 .. Len(pages)
           /\ pages[recs[i].page].used \in Nat
           /\ recs[i].base + recs[i].size <= pages[recs[i].page].used
           /\ pages[recs[i].page].data[recs[i].base] = recs[i].size
<1>1. recs[i] \in RecordType
  BY DEF ArenaInv, ArenaTypes
<1>2. recs[i].page \in 1 .. Len(pages) /\ Intact(recs[i], pages[recs[i].page])
  BY DEF ArenaInv, Layout
<1>3. pages[recs[i].page] \in PageSet
  BY <1>2 DEF ArenaInv, ArenaTypes
<1>4. pages[recs[i].page].used \in Nat
  BY <1>3, PageFacts
<1>5. recs[i].base \in Nat /\ recs[i].size \in Nat
  BY <1>1 DEF RecordType
<1> QED BY <1>2, <1>4, <1>5 DEF Intact

\* The walk stands on the record after the one it stands on, one round later.
LEMMA WalkPasses ==
    ASSUME ArenaInv, NEW i \in 1 .. Len(recs),
           NEW k \in 0 .. pages[recs[i].page].used,
           Offsets(pages[recs[i].page])[k] = recs[i].base,
           k + 1 <= pages[recs[i].page].used
    PROVE  Offsets(pages[recs[i].page])[k + 1] = recs[i].base + recs[i].size
<1> DEFINE pg == pages[recs[i].page]
           at == Offsets(pg)
<1>1. /\ recs[i].base \in Nat /\ recs[i].size \in Nat /\ recs[i].size >= 6
      /\ pg.used \in Nat /\ recs[i].base + recs[i].size <= pg.used
      /\ pg.data[recs[i].base] = recs[i].size
  BY RecordFacts
<1>2. at[k] = recs[i].base /\ k \in Nat /\ k + 1 <= pg.used
  OBVIOUS
<1> HIDE DEF pg
<1>3. \A x \in 1 .. pg.used : at[x] = Onward(pg, at[x - 1])
  BY <1>1, WalkSteps
<1> HIDE DEF at
<1>4. k + 1 \in 1 .. pg.used /\ (k + 1) - 1 = k
  BY <1>1, <1>2
<1>5. at[k + 1] = Onward(pg, recs[i].base)
  BY <1>2, <1>3, <1>4
<1>6. at[k + 1] = recs[i].base + recs[i].size
  BY <1>1, <1>5 DEF Onward
<1> QED BY <1>6 DEF at, pg

\* The walk stands on record i after k rounds.
At(i, k) == k \in 0 .. recs[i].base /\ Offsets(pages[recs[i].page])[k] = recs[i].base

\* The walk over a page stands on every live record of the page.
LEMMA EveryRecordReached ==
    ASSUME ArenaInv, NEW i \in 1 .. Len(recs)
    PROVE  \E k \in Nat : At(i, k)
<1> DEFINE Bad == {x \in 1 .. Len(recs) : ~\E k \in Nat : At(x, k)}
<1> SUFFICES ASSUME i \in Bad PROVE FALSE
  OBVIOUS
<1>0. Len(recs) \in Nat
  BY DEF ArenaInv, ArenaTypes
<1>1. PICK m \in Bad : \A x \in Bad : m <= x
  <2>1. Bad \subseteq Nat /\ Bad # {}
    OBVIOUS
  <2> HIDE DEF Bad
  <2> QED BY <2>1, LeastExists
<1>2. m \in 1 .. Len(recs) /\ ~\E k \in Nat : At(m, k)
  OBVIOUS
<1>3. recs[m].base # 0
  <2> SUFFICES ASSUME recs[m].base = 0 PROVE At(m, 0)
    BY <1>2
  <2>1. pages[recs[m].page].used \in Nat
    BY <1>2, RecordFacts
  <2> QED BY <2>1, WalkSteps DEF At
<1>4. m # 1
  BY <1>2, <1>3 DEF ArenaInv, Layout
<1>5. m - 1 \in 1 .. Len(recs) /\ m - 1 \in 1 .. Len(recs) - 1 /\ m - 1 \notin Bad
      /\ (m - 1) + 1 = m
  BY <1>0, <1>1, <1>2, <1>4
<1>6. PICK k \in Nat : At(m - 1, k)
  BY <1>5
<1> DEFINE q == m - 1
<1>7. Follows(recs[q], recs[m])
  BY <1>5 DEF ArenaInv, Layout
<1>8. recs[q].page = recs[m].page /\ recs[m].base = recs[q].base + recs[q].size
  BY <1>3, <1>7 DEF Follows
<1>9. /\ recs[q].base \in Nat /\ recs[q].size \in Nat /\ recs[q].size >= 6
      /\ pages[recs[q].page].used \in Nat
      /\ recs[q].base + recs[q].size <= pages[recs[q].page].used
  BY <1>5, RecordFacts
<1>10. k <= recs[q].base /\ Offsets(pages[recs[q].page])[k] = recs[q].base
       /\ q \in 1 .. Len(recs)
  BY <1>5, <1>6 DEF At
<1> HIDE DEF q, Bad
<1>11. k \in 0 .. pages[recs[q].page].used /\ k + 1 <= pages[recs[q].page].used
       /\ k + 1 \in 0 .. recs[q].base + recs[q].size
  BY <1>9, <1>10
<1>12. Offsets(pages[recs[q].page])[k + 1] = recs[q].base + recs[q].size
  BY <1>10, <1>11, WalkPasses
<1>13. At(m, k + 1)
  BY <1>8, <1>11, <1>12 DEF At
<1> QED BY <1>2, <1>13

\* A page that holds words holds a record at its start.
LEMMA PageStarts ==
    ASSUME ArenaInv, NEW j \in 1 .. Len(pages), pages[j].used # 0
    PROVE  \E i \in 1 .. Len(recs) : recs[i].page = j /\ recs[i].base = 0
<1>0. Len(recs) \in Nat /\ Len(pages) \in Nat
  BY DEF ArenaInv, ArenaTypes
<1>1. recs # <<>> /\ Len(recs) \in 1 .. Len(recs)
  BY <1>0 DEF ArenaInv, ArenaTypes, Layout, Cur
<1> DEFINE Late == {i \in 1 .. Len(recs) : recs[i].page >= j}
<1>2. PICK m \in Late : \A x \in Late : m <= x
  <2>1. Len(recs) \in Late
    BY <1>0, <1>1 DEF ArenaInv, Layout
  <2>2. Late \subseteq Nat /\ Late # {}
    BY <2>1
  <2> HIDE DEF Late
  <2> QED BY <2>2, LeastExists
<1>3. m \in 1 .. Len(recs) /\ recs[m].page >= j /\ recs[m].page \in 1 .. Len(pages)
  BY RecordFacts
<1>4. CASE m = 1
  <2>1. recs[1].base = 0 /\ (recs[1].page = 1 \/ (recs[1].page = 2 /\ pages[1].used = 0))
    BY <1>1 DEF ArenaInv, Layout
  <2>2. j # 1 \/ recs[1].page = 1
    BY <2>1
  <2>3. recs[1].page = j
    BY <1>0, <1>3, <1>4, <2>1, <2>2
  <2> QED BY <1>3, <1>4, <2>1, <2>3
<1>5. CASE m # 1
  <2>1. m - 1 \in 1 .. Len(recs) /\ m - 1 \in 1 .. Len(recs) - 1 /\ (m - 1) + 1 = m
        /\ m - 1 \notin Late
    BY <1>0, <1>2, <1>3, <1>5
  <2>2. recs[m - 1].page \in 1 .. Len(pages)
    BY <2>1, RecordFacts
  <2>3. recs[m - 1].page < j
    BY <1>0, <2>1, <2>2
  <2>4. Follows(recs[m - 1], recs[m])
    BY <2>1 DEF ArenaInv, Layout
  <2>5. recs[m].page = j /\ recs[m].base = 0
    BY <1>0, <1>3, <2>2, <2>3, <2>4 DEF Follows
  <2> QED BY <1>3, <2>5
<1> QED BY <1>4, <1>5

\* After record i its page ends or goes on with a record.
LEMMA RecordEnds ==
    ASSUME ArenaInv, NEW i \in 1 .. Len(recs)
    PROVE  \/ recs[i].base + recs[i].size = pages[recs[i].page].used
           \/ \E l \in 1 .. Len(recs) : /\ recs[l].page = recs[i].page
                                        /\ recs[l].base = recs[i].base + recs[i].size
<1>0. Len(recs) \in Nat
  BY DEF ArenaInv, ArenaTypes
<1>1. CASE i = Len(recs)
  BY <1>0, <1>1 DEF ArenaInv, Layout, Cur
<1>2. CASE i # Len(recs)
  <2>1. i \in 1 .. Len(recs) - 1 /\ i + 1 \in 1 .. Len(recs)
    BY <1>0, <1>2
  <2>2. Follows(recs[i], recs[i + 1])
    BY <2>1 DEF ArenaInv, Layout
  <2> QED BY <2>1, <2>2 DEF Follows
<1> QED BY <1>1, <1>2

\* The walk over page j stands at the fill mark or on a record, after k rounds.
Stands(j, k) ==
    \/ Offsets(pages[j])[k] = pages[j].used
    \/ \E i \in 1 .. Len(recs) : recs[i].page = j /\ recs[i].base = Offsets(pages[j])[k]

\* The walk over a page stands nowhere else.
LEMMA OnlyRecordsReached ==
    ASSUME ArenaInv, NEW j \in 1 .. Len(pages), NEW k \in 0 .. pages[j].used
    PROVE  Stands(j, k)
<1> DEFINE pg  == pages[j]
           Bad == {x \in 0 .. pg.used : ~Stands(j, x)}
<1> SUFFICES ASSUME k \in Bad PROVE FALSE
  OBVIOUS
<1>0. pg.used \in Nat
  <2>1. pg \in PageSet
    BY DEF ArenaInv, ArenaTypes
  <2> HIDE DEF pg
  <2> QED BY <2>1, PageFacts
<1>1. PICK m \in Bad : \A x \in Bad : m <= x
  <2>1. Bad \subseteq Nat /\ Bad # {}
    BY <1>0
  <2> HIDE DEF Bad
  <2> QED BY <2>1, LeastExists
<1>2. m \in 0 .. pg.used /\ ~Stands(j, m)
  OBVIOUS
<1>3. /\ Offsets(pg)[0] = 0
      /\ \A x \in 1 .. pg.used : Offsets(pg)[x] = Onward(pg, Offsets(pg)[x - 1])
  BY <1>0, WalkSteps
<1>4. CASE m = 0
  <2>1. Offsets(pg)[0] # pg.used
    BY <1>2, <1>4 DEF Stands
  <2>2. pages[j].used # 0
    BY <1>3, <2>1
  <2> QED BY <1>2, <1>3, <1>4, <2>2, PageStarts DEF Stands
<1>5. CASE m # 0
  <2>1. m - 1 \in 0 .. pg.used /\ m \in 1 .. pg.used /\ m - 1 \notin Bad /\ (m - 1) + 1 = m
    BY <1>0, <1>1, <1>2, <1>5
  <2>2. Stands(j, m - 1) /\ Offsets(pg)[m] = Onward(pg, Offsets(pg)[m - 1])
    BY <1>3, <2>1
  <2>3. CASE Offsets(pg)[m - 1] = pg.used
    <3>1. Offsets(pg)[m] = pg.used
      BY <1>0, <2>2, <2>3 DEF Onward
    <3> QED BY <1>2, <3>1 DEF Stands
  <2>4. CASE Offsets(pg)[m - 1] # pg.used
    <3>1. PICK i \in 1 .. Len(recs) : recs[i].page = j /\ recs[i].base = Offsets(pg)[m - 1]
      BY <2>2, <2>4 DEF Stands
    <3>2. Offsets(pages[recs[i].page])[(m - 1) + 1] = recs[i].base + recs[i].size
      <4>1. m - 1 \in 0 .. pages[recs[i].page].used /\ (m - 1) + 1 <= pages[recs[i].page].used
            /\ Offsets(pages[recs[i].page])[m - 1] = recs[i].base
        BY <1>0, <1>2, <2>1, <3>1
      <4> QED BY <4>1, WalkPasses
    <3>3. Offsets(pg)[m] = recs[i].base + recs[i].size
      BY <2>1, <3>1, <3>2
    <3>4. Stands(j, m)
      BY <3>1, <3>3, RecordEnds DEF Stands
    <3> QED BY <1>2, <3>4
  <2> QED BY <2>3, <2>4
<1> QED BY <1>4, <1>5

\* The walk over page j is inside the loop, after k rounds.
Inside(j, k) == k \in 0 .. pages[j].used /\ Offsets(pages[j])[k] + 2 <= pages[j].used

\* Inside the loop the walk stands on a record.
LEMMA InsideOnRecord ==
    ASSUME ArenaInv, NEW j \in 1 .. Len(pages), NEW k, Inside(j, k)
    PROVE  \E i \in 1 .. Len(recs) : recs[i].page = j /\ recs[i].base = Offsets(pages[j])[k]
<1>0. pages[j].used \in Nat
  <2>1. pages[j] \in PageSet
    BY DEF ArenaInv, ArenaTypes
  <2> QED BY <2>1, PageFacts
<1>1. Stands(j, k)
  BY OnlyRecordsReached DEF Inside
<1>2. Offsets(pages[j])[k] # pages[j].used
  BY <1>0 DEF Inside
<1> QED BY <1>1, <1>2 DEF Stands

\* Every record moves the walk on, so it comes to no place twice.
LEMMA WalkClimbs ==
    ASSUME ArenaInv, NEW j \in 1 .. Len(pages), NEW k, NEW l, Inside(j, k), Inside(j, l), k < l
    PROVE  Offsets(pages[j])[k] < Offsets(pages[j])[l]
<1> DEFINE pg  == pages[j]
           at  == Offsets(pg)
           Bad == {x \in 0 .. pg.used : k < x /\ Inside(j, x) /\ ~(at[k] < at[x])}
<1>0. pg.used \in Nat
  <2>1. pg \in PageSet
    BY DEF ArenaInv, ArenaTypes
  <2> HIDE DEF pg
  <2> QED BY <2>1, PageFacts
<1>a. k \in 0 .. pg.used /\ at[k] + 2 <= pg.used /\ l \in 0 .. pg.used
  BY DEF Inside
<1> SUFFICES ASSUME l \in Bad PROVE FALSE
  BY <1>a
<1>1. PICK m \in Bad : \A x \in Bad : m <= x
  <2>1. Bad \subseteq Nat /\ Bad # {}
    BY <1>0
  <2> HIDE DEF Bad
  <2> QED BY <2>1, LeastExists
<1>2. m \in 0 .. pg.used /\ k < m /\ Inside(j, m) /\ ~(at[k] < at[m])
  OBVIOUS
<1>3. m - 1 \in 0 .. pg.used /\ m \in 1 .. pg.used /\ m - 1 \notin Bad /\ k <= m - 1
  BY <1>0, <1>1, <1>2, <1>a
<1>4. at[m] = Onward(pg, at[m - 1])
  BY <1>0, <1>3, WalkSteps
<1>5. at[m] + 2 <= pg.used
  BY <1>2 DEF Inside
<1>6. at[m - 1] + 2 <= pg.used
  BY <1>4, <1>5 DEF Onward
<1>7. Inside(j, m - 1)
  BY <1>3, <1>6 DEF Inside
<1>8. PICK i \in 1 .. Len(recs) : recs[i].page = j /\ recs[i].base = at[m - 1]
  BY <1>7, InsideOnRecord
<1>9. /\ recs[i].base \in Nat /\ recs[i].size \in Nat /\ recs[i].size >= 6
      /\ pg.data[recs[i].base] = recs[i].size
  BY <1>8, RecordFacts
<1>10. at[m] = recs[i].base + recs[i].size /\ at[m - 1] = recs[i].base
  BY <1>4, <1>6, <1>8, <1>9 DEF Onward
<1>11. PICK o \in 1 .. Len(recs) : recs[o].page = j /\ recs[o].base = at[k]
  BY InsideOnRecord
<1>12. at[k] \in Nat
  BY <1>11, RecordFacts
<1>13. k # m - 1
  BY <1>2, <1>9, <1>10
<1>14. at[k] < at[m - 1]
  BY <1>3, <1>7, <1>13, <1>a, <1>0
<1> HIDE DEF Bad, at
<1> QED BY <1>2, <1>9, <1>10, <1>12, <1>14

\* The rounds of the loop are the places inside the loop.
LEMMA RoundsAre ==
    Rounds = {x \in (1 .. Len(pages)) \X UNION {0 .. pages[j].used : j \in 1 .. Len(pages)} :
                Inside(x[1], x[2])}
<1> DEFINE Going(j) == {k \in 0 .. pages[j].used : Offsets(pages[j])[k] + 2 <= pages[j].used}
<1>1. Rounds = UNION {{j} \X Going(j) : j \in 1 .. Len(pages)}
  BY DEF Rounds
<1>2. \A j, k : k \in Going(j) <=> Inside(j, k)
  BY DEF Inside
<1>3. \A j, k : Inside(j, k) => k \in 0 .. pages[j].used
  BY DEF Inside
<1> HIDE DEF Going
<1> QED BY <1>1, <1>2, <1>3

\* vm_choice_stack_depth, which follows the leading size words from page to
\* page, goes round once for every record pushed and not yet popped, whatever
\* freed words lie behind the fill marks.
THEOREM DepthWalkExact == Spec => []DepthExact
<1>1. ASSUME ArenaInv PROVE DepthExact
  <2> DEFINE n == Len(recs)
             F == [i \in 1 .. n |-> <<recs[i].page, CHOOSE k \in Nat : At(i, k)>>]
  <2>0. n \in Nat
    BY <1>1 DEF ArenaInv, ArenaTypes
  <2>1. ASSUME NEW i \in 1 .. n
        PROVE  /\ F[i] = <<F[i][1], F[i][2]>> /\ F[i][1] = recs[i].page /\ At(i, F[i][2])
               /\ F[i] \in Rounds
    <3>1. At(i, CHOOSE k \in Nat : At(i, k))
      BY <1>1, EveryRecordReached
    <3>2. F[i] = <<recs[i].page, CHOOSE k \in Nat : At(i, k)>>
      OBVIOUS
    <3>3. F[i][1] = recs[i].page /\ F[i][2] = CHOOSE k \in Nat : At(i, k)
      BY <3>2
    <3> HIDE DEF F
    <3>4. At(i, F[i][2]) /\ F[i] = <<F[i][1], F[i][2]>>
      BY <3>1, <3>2, <3>3
    <3>5. /\ recs[i].base \in Nat /\ recs[i].size \in Nat /\ recs[i].size >= 6
          /\ recs[i].page \in 1 .. Len(pages)
          /\ pages[recs[i].page].used \in Nat
          /\ recs[i].base + recs[i].size <= pages[recs[i].page].used
      BY <1>1, RecordFacts
    <3>6. Inside(recs[i].page, F[i][2])
      <4> DEFINE k == F[i][2]
                 u == pages[recs[i].page].used
      <4>1. k \in 0 .. recs[i].base /\ Offsets(pages[recs[i].page])[k] = recs[i].base
        BY <3>4 DEF At
      <4> HIDE DEF k, u
      <4>2. k \in 0 .. u /\ recs[i].base + 2 <= u
        BY <3>5, <4>1 DEF u
      <4> QED BY <4>1, <4>2 DEF Inside, k, u
    <3>7. F[i][2] \in 0 .. pages[recs[i].page].used
      BY <3>6 DEF Inside
    <3>8. F[i] \in Rounds
      BY <3>3, <3>4, <3>5, <3>6, <3>7, RoundsAre
    <3> QED BY <3>3, <3>4, <3>8
  <2>2. DOMAIN F = 1 .. n /\ F \in [1 .. n -> Rounds]
    <3>1. DOMAIN F = 1 .. n /\ F = [i \in 1 .. n |-> F[i]]
      OBVIOUS
    <3> HIDE DEF F
    <3> QED BY <2>1, <3>1
  <2> HIDE DEF F
  <2>3. ASSUME NEW a \in 1 .. n, NEW b \in 1 .. n, F[a] = F[b]
        PROVE  a = b
    <3>1. recs[a].page = recs[b].page /\ recs[a].base = recs[b].base
      BY <2>1, <2>3 DEF At
    <3>2. /\ recs[a].base \in Nat /\ recs[a].size \in Nat /\ recs[a].size >= 6
          /\ recs[b].size \in Nat /\ recs[b].size >= 6 /\ recs[a].page \in Nat
      BY <1>1, RecordFacts
    <3>3. ~Before(recs[a], recs[b]) /\ ~Before(recs[b], recs[a])
      BY <3>1, <3>2 DEF Before
    <3>4. a \in 1 .. b - 1 => Before(recs[a], recs[b])
      BY <1>1 DEF ArenaInv, Layout
    <3>5. b \in 1 .. a - 1 => Before(recs[b], recs[a])
      BY <1>1 DEF ArenaInv, Layout
    <3> QED BY <2>0, <3>3, <3>4, <3>5
  <2>4. ASSUME NEW x \in Rounds
        PROVE  \E i \in 1 .. n : F[i] = x
    <3>1. x = <<x[1], x[2]>> /\ x[1] \in 1 .. Len(pages) /\ Inside(x[1], x[2])
      BY <2>4, RoundsAre
    <3> DEFINE j == x[1]
               k == x[2]
    <3>2. PICK i \in 1 .. n : recs[i].page = j /\ recs[i].base = Offsets(pages[j])[k]
      BY <1>1, <3>1, InsideOnRecord
    <3> DEFINE l == F[i][2]
    <3>3. F[i] = <<j, l>> /\ F[i] \in Rounds /\ Offsets(pages[j])[l] = Offsets(pages[j])[k]
      BY <2>1, <3>2 DEF At
    <3>4. Inside(j, l)
      BY <3>3, RoundsAre
    <3>5. l \in 0 .. pages[j].used /\ k \in 0 .. pages[j].used
      BY <3>1, <3>4 DEF Inside
    <3>6. Offsets(pages[j])[k] \in Nat /\ l \in Int /\ k \in Int
      BY <1>1, <3>2, <3>5, RecordFacts
    <3> HIDE DEF j, k, l
    <3>7. ~(k < l) /\ ~(l < k)
      BY <1>1, <3>1, <3>3, <3>4, <3>6, WalkClimbs DEF j, k
    <3>8. k = l
      BY <3>6, <3>7
    <3> QED BY <3>1, <3>2, <3>3, <3>8 DEF j, k
  <2>5. F \in Bijection(1 .. n, Rounds)
    BY <2>2, <2>3, <2>4 DEF Bijection, Injection, Surjection, IsInjective
  <2>6. ExistsBijection(1 .. n, Rounds)
    BY <2>5 DEF ExistsBijection
  <2>7. Cardinality(Rounds) = n
    BY <2>0, <2>6, FS_CountingElements
  <2> QED BY <2>7 DEF DepthExact, Depth
<1> QED BY ArenaInvariant, <1>1, PTL

\* vm_arena_alloc and vm_arena_pop_last account for every live record: the
\* test for an empty arena and the size of the newest record are exact.
THEOREM ArenaAccounts == Spec => []Accounting
<1>1. ArenaInv => Accounting
  BY DEF ArenaInv, ArenaTypes, Layout, Sizes, Accounting
<1> QED BY ArenaInvariant, <1>1, PTL

\* Choice records spread over the pages of the arena behave as a stack:
\* vm_pop_choice reads back what vm_push_choice stored, for every page size,
\* every mixture of record sizes and every history of the memory.
THEOREM ArenaImplementsStack == Spec => IsStack
<1> DEFINE st == [i \in DOMAIN recs |-> recs[i].val]
<1>1. Init => RS!Init
  <2> SUFFICES ASSUME Init PROVE RS!Init
    OBVIOUS
  <2>1. st = <<>>
    BY DEF Init
  <2> QED BY <2>1 DEF Init, RS!Init
<1>2. ArenaInv /\ [Next]_vars => [RS!Next]_<<st, popped>>
  <2> SUFFICES ASSUME ArenaInv, [Next]_vars PROVE [RS!Next]_<<st, popped>>
    OBVIOUS
  <2>0. recs \in Seq(RecordType)
    BY DEF ArenaInv, ArenaTypes
  <2>1. ASSUME NEW n \in Payloads, NEW v \in Records, Push(n, v)
        PROVE  RS!Push
    <3>1. PICK r : recs' = Append(recs, r) /\ r.val = v
      BY <2>1 DEF Push
    <3>2. st' = Append(st, v)
      BY <2>0, <3>1
    <3> QED BY <2>1, <3>2 DEF Push, RS!Push
  <2>2. ASSUME Pop
        PROVE  RS!Pop
    <3>1. recs # <<>> /\ popped' = recs[Len(recs)].val /\ recs' = SubSeq(recs, 1, Len(recs) - 1)
      BY <2>2, PopStep DEF Pop
    <3>2. Len(st) = Len(recs) /\ st # <<>> /\ st[Len(st)] = recs[Len(recs)].val
      BY <2>0, <3>1
    <3>3. st' = SubSeq(st, 1, Len(st) - 1)
      BY <2>0, <3>1, <3>2
    <3> QED BY <3>1, <3>2, <3>3 DEF RS!Pop
  <2>3. ASSUME Reset
        PROVE  RS!Clear
    <3>1. st' = <<>>
      BY <2>3 DEF Reset
    <3> QED BY <2>3, <3>1 DEF Reset, RS!Clear
  <2>4. CASE UNCHANGED vars
    BY <2>4 DEF vars
  <2> QED BY <2>1, <2>2, <2>3, <2>4 DEF Next, RS!Next
<1> QED BY ArenaInvariant, <1>1, <1>2, PTL DEF Spec, IsStack, RS!Spec
=============================================================================
