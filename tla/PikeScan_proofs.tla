--------------------------- MODULE PikeScan_proofs ---------------------------
(***************************************************************************)
(* The Pike scan for every program, subject and size of its buffers: no    *)
(* slab has two owners, none is lost as long as no buffer ran full, no     *)
(* waiting thread is behind the position of the scan, and what it finds    *)
(* lies inside the subject.                                                *)
(*                                                                         *)
(* The invariant follows one thread from queue to queue.  A thread owns at *)
(* most one slab; a fork pays for its copy from the pool, a death pays     *)
(* back, and every other step moves the thread with what it owns.  That    *)
(* the next pass drops nobody rests on the positions: a thread that waits  *)
(* is ahead, because the cursor of a running thread never goes back.       *)
(***************************************************************************)
EXTENDS PikeScan, FiniteSetTheorems, WellFoundedInduction, TLAPS

(***************************************************************************)
(* Least elements.                                                         *)
(***************************************************************************)
Least(S) == CHOOSE d \in S : \A x \in S : d <= x

\* A non-empty set of naturals has a least element.
LEMMA LeastExists ==
    ASSUME NEW S, S \subseteq Nat, S # {}
    PROVE  Least(S) \in S /\ \A x \in S : Least(S) <= x
<1>1. PICK d \in S : \A x \in S : ~(<<x, d>> \in OpToRel(<, Nat))
  BY NatLessThanWellFounded, WFMin, Zenon
<1>2. ASSUME NEW x \in S PROVE d <= x
  <2>1. d \in Nat /\ x \in Nat
    OBVIOUS
  <2>2. ~(<<x, d>> \in OpToRel(<, Nat))
    BY <1>1, Zenon
  <2>3. ~(x < d)
    BY <2>1, <2>2, Zenon DEF OpToRel
  <2> QED BY <2>1, <2>3
<1>3. \E y \in S : \A x \in S : y <= x
  BY <1>2
<1> QED BY <1>3, Zenon DEF Least

\* Where a run ends is a position between here and the end of the subject.
LEMMA RunEndInside ==
    ASSUME SLen \in Nat, NEW p \in 0 .. SLen, NEW set
    PROVE  RunEnd(p, set) \in p .. SLen
<1> DEFINE S == {q \in p .. SLen : q = SLen \/ ByteAt(q) \notin set}
<1>1. S \subseteq Nat /\ SLen \in S
  OBVIOUS
<1>2. Least(S) \in S /\ \A x \in S : Least(S) <= x
  <2> HIDE DEF S
  <2> QED BY <1>1, LeastExists
<1> DEFINE q == Least(S)
<1>3. q \in p .. SLen /\ (q = SLen \/ ByteAt(q) \notin set)
  BY <1>2
<1>4. ASSUME NEW x \in p .. q - 1 PROVE ByteAt(x) \in set
  <2> HIDE DEF q
  <2>1. x \in p .. SLen /\ x < q /\ x # SLen
    BY <1>3
  <2>2. x \notin S
    BY <1>2, <1>3, <2>1 DEF q
  <2> QED BY <2>1, <2>2
<1> HIDE DEF q
<1>5. \E y \in p .. SLen : /\ \A x \in p .. y - 1 : ByteAt(x) \in set
                           /\ y = SLen \/ ByteAt(y) \notin set
  BY <1>3, <1>4
<1> QED BY <1>5 DEF RunEnd

\* So is where the next byte of a set is, and none before it is in the set.
LEMMA RunUntilInside ==
    ASSUME SLen \in Nat, NEW p \in 0 .. SLen, NEW set
    PROVE  /\ RunUntil(p, set) \in p .. SLen
           /\ \A x \in p .. RunUntil(p, set) - 1 : ByteAt(x) \notin set
<1> DEFINE S == {q \in p .. SLen : q = SLen \/ ByteAt(q) \in set}
<1>1. S \subseteq Nat /\ SLen \in S
  OBVIOUS
<1>2. Least(S) \in S /\ \A x \in S : Least(S) <= x
  <2> HIDE DEF S
  <2> QED BY <1>1, LeastExists
<1> DEFINE q == Least(S)
<1>3. q \in p .. SLen /\ (q = SLen \/ ByteAt(q) \in set)
  BY <1>2
<1>4. ASSUME NEW x \in p .. q - 1 PROVE ByteAt(x) \notin set
  <2> HIDE DEF q
  <2>1. x \in p .. SLen /\ x < q /\ x # SLen
    BY <1>3
  <2>2. x \notin S
    BY <1>2, <1>3, <2>1 DEF q
  <2> QED BY <2>1, <2>2
<1> HIDE DEF q
<1>5. \E y \in p .. SLen : /\ \A x \in p .. y - 1 : ByteAt(x) \notin set
                           /\ y = SLen \/ ByteAt(y) \in set
  BY <1>3, <1>4
<1> QED BY <1>5 DEF RunUntil

(***************************************************************************)
(* Queues of threads and what they hold.                                   *)
(***************************************************************************)
Owned(t) == IF HasCold(t) THEN 1 ELSE 0

\* The threads among the first n of ts that own a slab.
Holders(ts, n) == {i \in 1 .. n : HasCold(ts[i])}

IsQueue(ts) == \E S : ts \in Seq(S)

\* Slabs held are counted by numbers.
LEMMA HoldersFinite ==
    ASSUME NEW ts, NEW n \in Nat
    PROVE  IsFiniteSet(Holders(ts, n)) /\ Cardinality(Holders(ts, n)) \in Nat
<1>1. IsFiniteSet(1 .. n)
  BY FS_Interval
<1>2. Holders(ts, n) \subseteq 1 .. n
  BY DEF Holders
<1> QED BY <1>1, <1>2, FS_Subset, FS_CardinalityType

\* One thread more.
LEMMA HoldersNext ==
    ASSUME NEW ts, NEW n \in Nat
    PROVE  Cardinality(Holders(ts, n + 1)) = Cardinality(Holders(ts, n)) + Owned(ts[n + 1])
<1>1. IsFiniteSet(Holders(ts, n)) /\ Cardinality(Holders(ts, n)) \in Nat
  BY HoldersFinite
<1>2. n + 1 \notin Holders(ts, n)
  BY DEF Holders
<1>3. CASE HasCold(ts[n + 1])
  <2>1. Holders(ts, n + 1) = Holders(ts, n) \cup {n + 1}
    BY <1>3 DEF Holders
  <2> QED BY <1>1, <1>2, <1>3, <2>1, FS_AddElement DEF Owned
<1>4. CASE ~HasCold(ts[n + 1])
  <2>1. Holders(ts, n + 1) = Holders(ts, n)
    BY <1>4 DEF Holders
  <2> QED BY <1>1, <1>4, <2>1 DEF Owned
<1> QED BY <1>3, <1>4

\* What a queue holds is what its threads own.
LEMMA HeldIsHolders ==
    ASSUME NEW ts, IsQueue(ts)
    PROVE  Len(ts) \in Nat /\ Held(ts) = Cardinality(Holders(ts, Len(ts))) /\ Held(ts) \in Nat
<1>1. Len(ts) \in Nat /\ DOMAIN ts = 1 .. Len(ts)
  BY DEF IsQueue
<1>2. Held(ts) = Cardinality(Holders(ts, Len(ts)))
  BY <1>1 DEF Held, Holders
<1> QED BY <1>1, <1>2, HoldersFinite

\* An empty queue holds nothing.
LEMMA HeldEmpty == IsQueue(<<>>) /\ Held(<<>>) = 0
<1>1. <<>> \in Seq({})
  OBVIOUS
<1>2. Held(<<>>) = Cardinality({})
  BY DEF Held
<1> QED BY <1>1, <1>2, FS_EmptySet DEF IsQueue

\* The thread that runs holds what it owns.
LEMMA HeldOne == ASSUME NEW t PROVE Held(<<t>>) = Owned(t)
<1>1. <<t>> \in Seq({t}) /\ Len(<<t>>) = 1 /\ <<t>>[1] = t
  OBVIOUS
<1>2. Held(<<t>>) = Cardinality(Holders(<<t>>, 0 + 1))
  <2>1. IsQueue(<<t>>)
    BY <1>1 DEF IsQueue
  <2>2. Held(<<t>>) = Cardinality(Holders(<<t>>, Len(<<t>>)))
    BY <2>1, HeldIsHolders
  <2>3. Len(<<t>>) = 0 + 1
    OBVIOUS
  <2> QED BY <2>2, <2>3
<1>3. Holders(<<t>>, 0) = {}
  BY DEF Holders
<1>4. Cardinality(Holders(<<t>>, 0)) = 0
  BY <1>3, FS_EmptySet
<1>5. Cardinality(Holders(<<t>>, 0 + 1)) = Cardinality(Holders(<<t>>, 0)) + Owned(<<t>>[0 + 1])
  BY HoldersNext
<1> QED BY <1>1, <1>2, <1>4, <1>5 DEF Owned

\* Two queues that agree on their first n threads hold the same there.
LEMMA HoldersSame ==
    ASSUME NEW ts, NEW us, NEW n \in Nat, \A i \in 1 .. n : ts[i] = us[i]
    PROVE  Holders(ts, n) = Holders(us, n)
BY DEF Holders

\* A queue holds more by what the thread owns that joins it.
LEMMA HeldAppend ==
    ASSUME NEW ts, IsQueue(ts), NEW t
    PROVE  /\ IsQueue(Append(ts, t))
           /\ Len(Append(ts, t)) = Len(ts) + 1
           /\ \A i \in 1 .. Len(ts) : Append(ts, t)[i] = ts[i]
           /\ Append(ts, t)[Len(ts) + 1] = t
           /\ Held(Append(ts, t)) = Held(ts) + Owned(t)
<1>1. PICK S : ts \in Seq(S)
  BY DEF IsQueue
<1> DEFINE us == Append(ts, t)
           n == Len(ts)
<1>2. ts \in Seq(S \cup {t}) /\ n \in Nat
  BY <1>1
<1>3. /\ us \in Seq(S \cup {t}) /\ Len(us) = n + 1
      /\ \A i \in 1 .. n : us[i] = ts[i]
      /\ us[n + 1] = t
  BY <1>2
<1> HIDE DEF us
<1>4. Held(us) = Cardinality(Holders(us, n + 1)) /\ Held(ts) = Cardinality(Holders(ts, n))
  <2>1. IsQueue(us)
    BY <1>3 DEF IsQueue
  <2> QED BY <1>3, <2>1, HeldIsHolders
<1>5. Holders(us, n) = Holders(ts, n)
  BY <1>2, <1>3, HoldersSame
<1>6. Cardinality(Holders(us, n + 1)) = Cardinality(Holders(us, n)) + Owned(us[n + 1])
  BY <1>2, HoldersNext
<1>7. Held(us) = Held(ts) + Owned(t)
  BY <1>3, <1>4, <1>5, <1>6
<1>8. IsQueue(us)
  BY <1>3 DEF IsQueue
<1> QED BY <1>3, <1>7, <1>8 DEF us

\* Two queues one behind the other hold what both hold.
LEMMA HeldConcat ==
    ASSUME NEW ts, IsQueue(ts), NEW us, IsQueue(us)
    PROVE  /\ IsQueue(ts \o us)
           /\ Len(ts \o us) = Len(ts) + Len(us)
           /\ \A i \in 1 .. Len(ts) : (ts \o us)[i] = ts[i]
           /\ \A i \in 1 .. Len(us) : (ts \o us)[Len(ts) + i] = us[i]
           /\ Held(ts \o us) = Held(ts) + Held(us)
<1>1. PICK S, T : ts \in Seq(S) /\ us \in Seq(T)
  BY DEF IsQueue
<1> DEFINE all == ts \o us
           m == Len(ts)
           n == Len(us)
<1>2. ts \in Seq(S \cup T) /\ us \in Seq(S \cup T) /\ m \in Nat /\ n \in Nat
  BY <1>1
<1>3. /\ all \in Seq(S \cup T) /\ Len(all) = m + n
      /\ \A i \in 1 .. m : all[i] = ts[i]
      /\ \A i \in 1 .. n : all[m + i] = us[i]
  BY <1>2
<1> HIDE DEF all
<1> DEFINE Sum(x) == Cardinality(Holders(all, m + x)) = Held(ts) + Cardinality(Holders(us, x))
           Bad == {x \in 0 .. n : ~Sum(x)}
<1>4. Bad = {}
  <2> SUFFICES ASSUME Bad # {} PROVE FALSE
    OBVIOUS
  <2>1. PICK x \in Bad : \A y \in Bad : x <= y
    <3>1. Bad \subseteq Nat
      OBVIOUS
    <3> HIDE DEF Bad
    <3> QED BY <3>1, LeastExists
  <2>2. x \in 0 .. n /\ ~Sum(x)
    OBVIOUS
  <2>3. CASE x = 0
    <3>1. Holders(all, m) = Holders(ts, m)
      BY <1>2, <1>3, HoldersSame
    <3>2. Cardinality(Holders(us, 0)) = 0
      <4>1. Holders(us, 0) = {}
        BY DEF Holders
      <4> QED BY <4>1, FS_EmptySet
    <3>3. Held(ts) = Cardinality(Holders(ts, m)) /\ Held(ts) \in Nat
      BY HeldIsHolders
    <3>4. m + x = m
      BY <1>2, <2>3
    <3>5. Cardinality(Holders(all, m + x)) = Held(ts) + Cardinality(Holders(us, x))
      BY <2>3, <3>1, <3>2, <3>3, <3>4
    <3> QED BY <2>2, <3>5
  <2>4. CASE x # 0
    <3>1. x - 1 \in 0 .. n /\ x - 1 \in Nat /\ x - 1 \notin Bad
      BY <1>2, <2>1, <2>2, <2>4
    <3>2. Cardinality(Holders(all, m + (x - 1)))
            = Held(ts) + Cardinality(Holders(us, x - 1))
      BY <3>1
    <3>3. /\ Cardinality(Holders(us, (x - 1) + 1))
               = Cardinality(Holders(us, x - 1)) + Owned(us[(x - 1) + 1])
          /\ Cardinality(Holders(us, x - 1)) \in Nat
      BY <3>1, HoldersNext, HoldersFinite
    <3>4. Cardinality(Holders(all, (m + (x - 1)) + 1))
            = Cardinality(Holders(all, m + (x - 1))) + Owned(all[(m + (x - 1)) + 1])
      <4>1. m + (x - 1) \in Nat
        BY <1>2, <3>1
      <4> QED BY <4>1, HoldersNext
    <3>5. (x - 1) + 1 = x /\ (m + (x - 1)) + 1 = m + x /\ all[m + x] = us[x]
      BY <1>2, <1>3, <2>2, <2>4
    <3>6. Held(ts) \in Nat /\ Owned(us[x]) \in Nat
      BY HeldIsHolders DEF Owned
    <3>7. Cardinality(Holders(all, m + x)) = Held(ts) + Cardinality(Holders(us, x))
      <4> HIDE DEF m, Bad
      <4> QED BY <3>2, <3>3, <3>4, <3>5, <3>6
    <3> QED BY <2>2, <3>7
  <2> QED BY <2>3, <2>4
<1>5. Sum(n)
  BY <1>2, <1>4
<1>6. IsQueue(all)
  BY <1>3 DEF IsQueue
<1>7. Held(all) = Held(ts) + Held(us)
  <2>1. Held(all) = Cardinality(Holders(all, m + n)) /\ Held(us) = Cardinality(Holders(us, n))
    BY <1>3, <1>6, HeldIsHolders
  <2> QED BY <1>5, <2>1
<1> QED BY <1>3, <1>6, <1>7 DEF all

\* The first thread of a queue, and the others.
LEMMA HeldHead ==
    ASSUME NEW ts, IsQueue(ts), ts # <<>>
    PROVE  /\ IsQueue(Tail(ts)) /\ Len(Tail(ts)) = Len(ts) - 1
           /\ 1 \in 1 .. Len(ts) /\ Head(ts) = ts[1]
           /\ \A i \in 1 .. Len(Tail(ts)) : i + 1 \in 1 .. Len(ts) /\ Tail(ts)[i] = ts[i + 1]
           /\ Held(ts) = Owned(Head(ts)) + Held(Tail(ts))
<1>1. PICK S : ts \in Seq(S)
  BY DEF IsQueue
<1>2. /\ Tail(ts) \in Seq(S) /\ Len(Tail(ts)) = Len(ts) - 1
      /\ 1 \in 1 .. Len(ts) /\ Head(ts) = ts[1]
      /\ \A i \in 1 .. Len(Tail(ts)) : i + 1 \in 1 .. Len(ts) /\ Tail(ts)[i] = ts[i + 1]
  BY <1>1
<1>3. ts = <<Head(ts)>> \o Tail(ts)
  BY <1>1
<1>4. IsQueue(<<Head(ts)>>) /\ IsQueue(Tail(ts))
  <2>1. <<Head(ts)>> \in Seq({Head(ts)})
    OBVIOUS
  <2> QED BY <1>2, <2>1 DEF IsQueue
<1>5. Held(<<Head(ts)>> \o Tail(ts)) = Held(<<Head(ts)>>) + Held(Tail(ts))
  BY <1>4, HeldConcat
<1>6. Held(<<Head(ts)>>) = Owned(Head(ts))
  BY HeldOne
<1> QED BY <1>2, <1>3, <1>4, <1>5, <1>6

\* The front of a queue holds no more than the queue.
LEMMA HeldFront ==
    ASSUME NEW ts, IsQueue(ts), NEW n \in 0 .. Len(ts)
    PROVE  /\ IsQueue(SubSeq(ts, 1, n)) /\ Len(SubSeq(ts, 1, n)) = n
           /\ \A i \in 1 .. n : i \in 1 .. Len(ts) /\ SubSeq(ts, 1, n)[i] = ts[i]
           /\ Held(SubSeq(ts, 1, n)) <= Held(ts)
<1>1. PICK S : ts \in Seq(S)
  BY DEF IsQueue
<1> DEFINE us == SubSeq(ts, 1, n)
<1>2. /\ us \in Seq(S) /\ Len(us) = n /\ Len(ts) \in Nat
      /\ \A i \in 1 .. n : i \in 1 .. Len(ts) /\ us[i] = ts[i]
  BY <1>1
<1> HIDE DEF us
<1>3. IsQueue(us)
  BY <1>2 DEF IsQueue
<1>4. Held(us) = Cardinality(Holders(us, n)) /\ Held(ts) = Cardinality(Holders(ts, Len(ts)))
  BY <1>2, <1>3, HeldIsHolders
<1>5. Holders(us, n) = Holders(ts, n)
  BY <1>2, HoldersSame
<1>6. Holders(ts, n) \subseteq Holders(ts, Len(ts))
  BY <1>2 DEF Holders
<1>7. IsFiniteSet(Holders(ts, Len(ts)))
  BY <1>2, HoldersFinite
<1>8. Cardinality(Holders(ts, n)) <= Cardinality(Holders(ts, Len(ts)))
  BY <1>6, <1>7, FS_Subset
<1> QED BY <1>2, <1>3, <1>4, <1>5, <1>8 DEF us

(***************************************************************************)
(* Sorting the threads by their positions.                                 *)
(***************************************************************************)
Unsorted == [work |-> <<>>, carry |-> <<>>]

\* Where one more thread goes.
Sort(t, p, s) ==
    CASE t.pos = p -> [s EXCEPT !.work = Append(s.work, t)]
      [] t.pos > p -> [s EXCEPT !.carry = Append(s.carry, t)]
      [] t.pos < p -> s

\* The function f sorts the first n threads of ts, one after the other.
Sorts(ts, p, f, n) == f = [i \in 0 .. n |-> IF i = 0 THEN Unsorted ELSE Sort(ts[i], p, f[i - 1])]

\* Any number of threads can be sorted.
LEMMA SortExists ==
    ASSUME NEW ts, NEW p, NEW n \in Nat
    PROVE  \E f : Sorts(ts, p, f, n)
<1> DEFINE Bad == {m \in Nat : ~\E f : Sorts(ts, p, f, m)}
<1> SUFFICES ASSUME n \in Bad PROVE FALSE
  OBVIOUS
<1>1. PICK m \in Bad : \A x \in Bad : m <= x
  <2>1. Bad \subseteq Nat /\ Bad # {}
    OBVIOUS
  <2> HIDE DEF Bad
  <2> QED BY <2>1, LeastExists
<1>2. m \in Nat /\ ~\E f : Sorts(ts, p, f, m)
  OBVIOUS
<1>3. CASE m = 0
  <2> DEFINE g == [k \in 0 .. 0 |-> Unsorted]
  <2>1. Sorts(ts, p, g, 0)
    BY DEF Sorts
  <2> QED BY <1>2, <1>3, <2>1
<1>4. CASE m # 0
  <2>1. m - 1 \in Nat /\ m - 1 \notin Bad
    BY <1>1, <1>2, <1>4
  <2>2. PICK f : Sorts(ts, p, f, m - 1)
    BY <2>1
  <2> DEFINE g == [k \in 0 .. m |-> IF k = m THEN Sort(ts[m], p, f[m - 1]) ELSE f[k]]
  <2>3. ASSUME NEW k \in 0 .. m
        PROVE  g[k] = IF k = 0 THEN Unsorted ELSE Sort(ts[k], p, g[k - 1])
    <3>1. CASE k = m
      <4>1. k - 1 \in 0 .. m - 1 /\ k - 1 # m /\ k # 0
        BY <1>2, <1>4, <3>1
      <4>2. g[k - 1] = f[k - 1]
        BY <1>2, <4>1
      <4> QED BY <3>1, <4>1, <4>2
    <3>2. CASE k # m
      <4>1. k \in 0 .. m - 1
        BY <1>2, <3>2
      <4>2. f[k] = IF k = 0 THEN Unsorted ELSE Sort(ts[k], p, f[k - 1])
        BY <2>2, <4>1 DEF Sorts
      <4>3. g[k] = f[k]
        BY <3>2
      <4>4. k # 0 => g[k - 1] = f[k - 1]
        BY <1>2, <4>1
      <4> QED BY <4>2, <4>3, <4>4
    <3> QED BY <3>1, <3>2
  <2>4. g = [k \in 0 .. m |-> g[k]]
    OBVIOUS
  <2> HIDE DEF g
  <2>5. Sorts(ts, p, g, m)
    BY <2>3, <2>4 DEF Sorts
  <2> QED BY <1>2, <2>5
<1> QED BY <1>3, <1>4

\* So sorting takes one thread after another.
LEMMA SortSteps ==
    ASSUME NEW ts, Len(ts) \in Nat, NEW p
    PROVE  \E f : /\ Sorted(ts, p) = f[Len(ts)]
                  /\ f[0] = Unsorted
                  /\ \A i \in 1 .. Len(ts) : f[i] = Sort(ts[i], p, f[i - 1])
<1> DEFINE f == CHOOSE f : Sorts(ts, p, f, Len(ts))
<1>1. Sorted(ts, p) = f[Len(ts)]
  BY DEF Sorted, Sorts, Sort, Unsorted
<1>2. Sorts(ts, p, f, Len(ts))
  BY SortExists
<1> HIDE DEF f
<1>3. f[0] = Unsorted /\ \A i \in 1 .. Len(ts) : f[i] = Sort(ts[i], p, f[i - 1])
  BY <1>2 DEF Sorts
<1> QED BY <1>1, <1>3

\* What has been sorted of the first n threads of ts: all of them, each where
\* its position says.
Parted(ts, p, s, n) ==
    /\ s = [work |-> s.work, carry |-> s.carry]
    /\ IsQueue(s.work) /\ IsQueue(s.carry)
    /\ Held(s.work) + Held(s.carry) = Cardinality(Holders(ts, n))
    /\ \A x \in 1 .. Len(s.work) : \E y \in 1 .. Len(ts) : s.work[x] = ts[y]
    /\ \A x \in 1 .. Len(s.carry) : \E y \in 1 .. Len(ts) : s.carry[x] = ts[y] /\ ts[y].pos > p

\* One more thread is sorted.
LEMMA PartedNext ==
    ASSUME NEW ts, NEW p \in Nat, NEW s, NEW n \in Nat, n + 1 \in 1 .. Len(ts),
           ts[n + 1].pos \in Nat, ts[n + 1].pos >= p, Parted(ts, p, s, n)
    PROVE  Parted(ts, p, Sort(ts[n + 1], p, s), n + 1)
<1> DEFINE t == ts[n + 1]
<1>1. /\ s = [work |-> s.work, carry |-> s.carry] /\ IsQueue(s.work) /\ IsQueue(s.carry)
      /\ Held(s.work) + Held(s.carry) = Cardinality(Holders(ts, n))
      /\ \A x \in 1 .. Len(s.work) : \E y \in 1 .. Len(ts) : s.work[x] = ts[y]
      /\ \A x \in 1 .. Len(s.carry) : \E y \in 1 .. Len(ts) : s.carry[x] = ts[y] /\ ts[y].pos > p
  BY DEF Parted
<1>2. /\ Held(s.work) \in Nat /\ Held(s.carry) \in Nat
      /\ Len(s.work) \in Nat /\ Len(s.carry) \in Nat
  BY <1>1, HeldIsHolders
<1>3. /\ Cardinality(Holders(ts, n + 1)) = Cardinality(Holders(ts, n)) + Owned(t)
      /\ Owned(t) \in Nat
  BY HoldersNext DEF Owned
<1>4. t.pos = p \/ t.pos > p
  OBVIOUS
<1>5. n + 1 \in 1 .. Len(ts)
  OBVIOUS
<1> HIDE DEF t
<1>6. CASE t.pos = p
  <2> DEFINE w == Append(s.work, t)
  <2>1. /\ IsQueue(w) /\ Len(w) = Len(s.work) + 1
        /\ \A x \in 1 .. Len(s.work) : w[x] = s.work[x]
        /\ w[Len(s.work) + 1] = t
        /\ Held(w) = Held(s.work) + Owned(t)
    BY <1>1, HeldAppend
  <2>2. Sort(t, p, s) = [work |-> w, carry |-> s.carry]
    <3>1. Sort(t, p, s) = [s EXCEPT !.work = w]
      BY <1>6 DEF Sort
    <3> HIDE DEF w
    <3> QED BY <1>1, <3>1
  <2> HIDE DEF w
  <2>3. ASSUME NEW x \in 1 .. Len(w) PROVE \E y \in 1 .. Len(ts) : w[x] = ts[y]
    <3>1. CASE x \in 1 .. Len(s.work)
      BY <1>1, <2>1, <3>1
    <3>2. CASE x \notin 1 .. Len(s.work)
      <4>1. x = Len(s.work) + 1
        BY <1>2, <2>1, <3>2
      <4> QED BY <1>5, <2>1, <4>1 DEF t
    <3> QED BY <3>1, <3>2
  <2>4. Held(w) + Held(s.carry) = Cardinality(Holders(ts, n + 1))
    BY <1>1, <1>2, <1>3, <2>1
  <2>5. Parted(ts, p, [work |-> w, carry |-> s.carry], n + 1)
    BY <1>1, <2>1, <2>3, <2>4 DEF Parted
  <2> QED BY <2>2, <2>5 DEF t
<1>7. CASE t.pos > p
  <2> DEFINE c == Append(s.carry, t)
  <2>1. /\ IsQueue(c) /\ Len(c) = Len(s.carry) + 1
        /\ \A x \in 1 .. Len(s.carry) : c[x] = s.carry[x]
        /\ c[Len(s.carry) + 1] = t
        /\ Held(c) = Held(s.carry) + Owned(t)
    BY <1>1, HeldAppend
  <2>2. Sort(t, p, s) = [work |-> s.work, carry |-> c]
    <3>1. t.pos \in Nat /\ t.pos # p
      BY <1>7 DEF t
    <3>2. Sort(t, p, s) = [s EXCEPT !.carry = c]
      BY <1>7, <3>1 DEF Sort
    <3> HIDE DEF c
    <3> QED BY <1>1, <3>2
  <2> HIDE DEF c
  <2>3. ASSUME NEW x \in 1 .. Len(c)
        PROVE  \E y \in 1 .. Len(ts) : c[x] = ts[y] /\ ts[y].pos > p
    <3>1. CASE x \in 1 .. Len(s.carry)
      BY <1>1, <2>1, <3>1
    <3>2. CASE x \notin 1 .. Len(s.carry)
      <4>1. x = Len(s.carry) + 1
        BY <1>2, <2>1, <3>2
      <4> QED BY <1>5, <1>7, <2>1, <4>1 DEF t
    <3> QED BY <3>1, <3>2
  <2>4. Held(s.work) + Held(c) = Cardinality(Holders(ts, n + 1))
    BY <1>1, <1>2, <1>3, <2>1
  <2>5. Parted(ts, p, [work |-> s.work, carry |-> c], n + 1)
    BY <1>1, <2>1, <2>3, <2>4 DEF Parted
  <2> QED BY <2>2, <2>5 DEF t
<1> QED BY <1>4, <1>6, <1>7 DEF t

\* Sorting threads none of which is behind loses none.
LEMMA SortKeepsAll ==
    ASSUME NEW ts, IsQueue(ts), NEW p \in Nat,
           \A y \in 1 .. Len(ts) : ts[y].pos \in Nat /\ ts[y].pos >= p
    PROVE  Parted(ts, p, Sorted(ts, p), Len(ts))
<1>1. Len(ts) \in Nat
  BY HeldIsHolders
<1>2. PICK f : /\ Sorted(ts, p) = f[Len(ts)]
               /\ f[0] = Unsorted
               /\ \A i \in 1 .. Len(ts) : f[i] = Sort(ts[i], p, f[i - 1])
  BY <1>1, SortSteps
<1> DEFINE Bad == {i \in 0 .. Len(ts) : ~Parted(ts, p, f[i], i)}
<1>3. Bad = {}
  <2> SUFFICES ASSUME Bad # {} PROVE FALSE
    OBVIOUS
  <2>1. PICK m \in Bad : \A x \in Bad : m <= x
    <3>1. Bad \subseteq Nat
      OBVIOUS
    <3> HIDE DEF Bad
    <3> QED BY <3>1, LeastExists
  <2>2. m \in 0 .. Len(ts) /\ ~Parted(ts, p, f[m], m)
    OBVIOUS
  <2>3. CASE m = 0
    <3>1. Holders(ts, 0) = {}
      BY DEF Holders
    <3>2. Cardinality(Holders(ts, 0)) = 0
      BY <3>1, FS_EmptySet
    <3>3. Parted(ts, p, Unsorted, 0)
      BY <3>2, HeldEmpty DEF Parted, Unsorted
    <3> QED BY <1>2, <2>2, <2>3, <3>3
  <2>4. CASE m # 0
    <3> DEFINE n == m - 1
    <3>1. n \in Nat /\ n + 1 = m /\ n + 1 \in 1 .. Len(ts) /\ n \notin Bad /\ n \in 0 .. Len(ts)
      BY <1>1, <2>1, <2>2, <2>4
    <3>2. Parted(ts, p, f[n], n) /\ f[m] = Sort(ts[m], p, f[n])
      BY <1>2, <3>1
    <3> HIDE DEF n, Bad
    <3>3. ts[n + 1].pos \in Nat /\ ts[n + 1].pos >= p
      BY <3>1
    <3>4. Parted(ts, p, Sort(ts[n + 1], p, f[n]), n + 1)
      BY <3>1, <3>2, <3>3, PartedNext
    <3> QED BY <2>2, <3>1, <3>2, <3>4
  <2> QED BY <2>3, <2>4
<1>4. Parted(ts, p, f[Len(ts)], Len(ts))
  BY <1>1, <1>3
<1> QED BY <1>2, <1>4

(***************************************************************************)
(* States of the scan.                                                     *)
(***************************************************************************)
RegFields == {"cap", "var", "loop", "caps", "vars"}
ThreadFields == {"ip", "pos", "start", "cold"}
PikeFields == {"status", "pos", "carry", "work", "taken", "defer", "free", "th", "ip", "tp",
               "found", "start", "end", "regs", "overflowed", "zero"}

ThreadOK(t) ==
    /\ t = [x \in ThreadFields |-> t[x]]
    /\ t.ip \in Nat \ {0}
    /\ t.pos \in Nat
    /\ t.cold = NoCold \/ DOMAIN t.cold = RegFields

Queue(ts) == IsQueue(ts) /\ \A i \in 1 .. Len(ts) : ThreadOK(ts[i])
Ahead(ts, p) == \A i \in 1 .. Len(ts) : ts[i].pos > p
Begun(ts, p) == \A i \in 1 .. Len(ts) : ts[i].start \in 0 .. p

Queues(k) ==
    /\ Queue(k.carry) /\ Queue(k.work) /\ Queue(k.defer)
    /\ Ahead(k.carry, k.pos) /\ Ahead(k.defer, k.pos)
    /\ Begun(k.carry, k.pos) /\ Begun(k.work, k.pos) /\ Begun(k.defer, k.pos)

Total(k) == k.free + Held(k.carry) + Held(k.work) + Held(k.defer) + Owned(k.th)

Balanced(k) ==
    /\ k.free \in Nat
    /\ k.overflowed \in BOOLEAN
    /\ Total(k) <= PIKE_THREAD_BUF
    /\ ~k.overflowed => Total(k) = PIKE_THREAD_BUF

IsScan(k) == k = [x \in PikeFields |-> k[x]]

\* A thread is running.
Active(k) ==
    /\ IsScan(k) /\ Queues(k) /\ Balanced(k)
    /\ k.status = "run"
    /\ ThreadOK(k.th)
    /\ k.ip \in Nat \ {0}
    /\ k.pos \in 0 .. SLen
    /\ k.tp \in k.pos .. SLen
    /\ k.th.start \in 0 .. k.pos

\* No thread is.
Between(k) ==
    /\ IsScan(k) /\ Queues(k) /\ Balanced(k)
    /\ k.th = NoThread
    /\ \/ k.status = "next" /\ k.pos \in 0 .. SLen
       \/ k.status = "merge" /\ k.pos \in -1 .. SLen /\ k.work = <<>>

PikeInv ==
    /\ Loaded
    /\ Active(pike) \/ Between(pike) \/ pike.status \in {"idle", "done"}

(***************************************************************************)
(* What a change of one field leaves.                                      *)
(***************************************************************************)
\* A register set is not the mark of a thread without one.
LEMMA RegsAreCold ==
    /\ DOMAIN ZeroRegs = RegFields
    /\ \A c : DOMAIN c = RegFields => c # NoCold
<1>1. DOMAIN ZeroRegs = RegFields
  BY DEF ZeroRegs, RegFields
<1>2. DOMAIN NoCold = {"none"}
  BY DEF NoCold
<1>3. RegFields # {"none"}
  BY DEF RegFields
<1> QED BY <1>1, <1>2, <1>3

\* Nothing is held without a thread.
LEMMA NoThreadHolds == Owned(NoThread) = 0
BY DEF Owned, HasCold, NoThread

\* The numbers of a balance.
LEMMA TotalTypes ==
    ASSUME NEW k, Queues(k), Balanced(k)
    PROVE  /\ Held(k.carry) \in Nat /\ Held(k.work) \in Nat /\ Held(k.defer) \in Nat
           /\ Owned(k.th) \in {0, 1} /\ k.free \in Nat /\ k.overflowed \in BOOLEAN
BY HeldIsHolders DEF Queues, Queue, Balanced, Owned

\* pike_die gives the slab back.
LEMMA DieKeeps ==
    ASSUME NEW k, Active(k)
    PROVE  Between(Die(k))
<1> DEFINE d == Die(k)
           free == k.free + Owned(k.th)
<1>1. IsScan(k) /\ Queues(k) /\ Balanced(k) /\ k.pos \in 0 .. SLen
  BY DEF Active
<1>2. d = [k EXCEPT !.status = "next", !.th = NoThread, !.free = free]
  BY DEF Die, Owned
<1> HIDE DEF d, free
<1>3. /\ IsScan(d) /\ d.status = "next" /\ d.th = NoThread /\ d.free = free
      /\ d.pos = k.pos /\ d.carry = k.carry /\ d.work = k.work /\ d.defer = k.defer
      /\ d.overflowed = k.overflowed
  BY <1>1, <1>2 DEF IsScan, PikeFields
<1>4. Queues(d)
  BY <1>1, <1>3 DEF Queues
<1>5. Balanced(d)
  BY <1>1, <1>3, TotalTypes, NoThreadHolds DEF Balanced, Total, free
<1> QED BY <1>1, <1>3, <1>4, <1>5 DEF Between, d

\* A step that moves no thread and no slab.
LEMMA ActiveStays ==
    ASSUME NEW k, Active(k), NEW m, IsScan(m), m.status = "run", m.pos = k.pos,
           m.carry = k.carry, m.work = k.work, m.defer = k.defer,
           m.th = k.th, m.free = k.free,
           m.overflowed = k.overflowed \/ m.overflowed = TRUE,
           m.ip \in Nat \ {0}, m.tp \in k.pos .. SLen
    PROVE  Active(m)
<1>1. Queues(m)
  BY DEF Active, Queues
<1>2. Balanced(m)
  BY DEF Active, Balanced, Total
<1>3. ThreadOK(m.th) /\ m.pos \in 0 .. SLen /\ m.tp \in m.pos .. SLen
  BY DEF Active
<1> QED BY <1>1, <1>2, <1>3 DEF Active

\* The thread goes on behind its instruction.
LEMMA OnwardKeeps ==
    ASSUME NEW k, Active(k)
    PROVE  Active(Onward(k))
<1> DEFINE m == Onward(k)
<1>1. IsScan(k) /\ k.ip \in Nat \ {0} /\ k.tp \in k.pos .. SLen /\ k.status = "run"
  BY DEF Active
<1>2. /\ IsScan(m) /\ m.status = "run" /\ m.pos = k.pos
      /\ m.carry = k.carry /\ m.work = k.work /\ m.defer = k.defer
      /\ m.th = k.th /\ m.free = k.free /\ m.overflowed = k.overflowed
      /\ m.ip = k.ip + 1 /\ m.tp = k.tp
  BY <1>1 DEF IsScan, PikeFields, Onward
<1>3. m.ip \in Nat \ {0} /\ m.tp \in k.pos .. SLen
  BY <1>1, <1>2
<1> HIDE DEF m
<1>4. Active(m)
  BY <1>2, <1>3, ActiveStays
<1> QED BY <1>4 DEF m

\* pike_cold_acquire takes the slab of the thread from the pool.
LEMMA MaterializeKeeps ==
    ASSUME NEW k, Active(k)
    PROVE  /\ Active(Materialize(k))
           /\ Materialize(k).ip = k.ip /\ Materialize(k).tp = k.tp
<1>1. /\ IsScan(k) /\ Queues(k) /\ Balanced(k) /\ k.status = "run" /\ ThreadOK(k.th)
      /\ k.ip \in Nat \ {0} /\ k.pos \in 0 .. SLen /\ k.tp \in k.pos .. SLen
      /\ k.th.start \in 0 .. k.pos
  BY DEF Active
<1>2. CASE HasCold(k.th)
  BY <1>2 DEF Materialize
<1>3. CASE ~HasCold(k.th) /\ k.free = 0
  <2> DEFINE m == [k EXCEPT !.overflowed = TRUE]
  <2>1. Materialize(k) = m
    BY <1>3 DEF Materialize
  <2>2. /\ IsScan(m) /\ m.status = "run" /\ m.pos = k.pos
        /\ m.carry = k.carry /\ m.work = k.work /\ m.defer = k.defer
        /\ m.th = k.th /\ m.free = k.free /\ m.overflowed = TRUE
        /\ m.ip = k.ip /\ m.tp = k.tp
    BY <1>1 DEF IsScan, PikeFields
  <2> HIDE DEF m
  <2>3. Active(m)
    BY <1>1, <2>2, ActiveStays
  <2> QED BY <2>1, <2>2, <2>3
<1>4. CASE ~HasCold(k.th) /\ k.free # 0
  <2> DEFINE t == [k.th EXCEPT !.cold = ZeroRegs]
             m == [k EXCEPT !.free = k.free - 1, !.th = t]
  <2>1. Materialize(k) = m
    BY <1>4 DEF Materialize
  <2>2. ThreadOK(t) /\ HasCold(t) /\ t.start = k.th.start
    BY <1>1, RegsAreCold DEF ThreadOK, ThreadFields, HasCold
  <2> HIDE DEF t
  <2>3. /\ IsScan(m) /\ m.status = "run" /\ m.pos = k.pos
        /\ m.carry = k.carry /\ m.work = k.work /\ m.defer = k.defer
        /\ m.th = t /\ m.free = k.free - 1 /\ m.overflowed = k.overflowed
        /\ m.ip = k.ip /\ m.tp = k.tp
    BY <1>1 DEF IsScan, PikeFields
  <2> HIDE DEF m
  <2>4. Queues(m)
    BY <1>1, <2>3 DEF Queues
  <2>5. Balanced(m)
    <3>1. Owned(t) = 1 /\ Owned(k.th) = 0
      BY <1>4, <2>2 DEF Owned
    <3>2. m.free \in Nat
      BY <1>1, <1>4, <2>3, TotalTypes
    <3>3. Total(m) = Total(k)
      BY <1>1, <2>3, <3>1, TotalTypes DEF Total
    <3> QED BY <1>1, <2>3, <3>2, <3>3 DEF Balanced
  <2>6. Active(m)
    BY <1>1, <2>2, <2>3, <2>4, <2>5 DEF Active
  <2> QED BY <2>1, <2>3, <2>6
<1> QED BY <1>2, <1>3, <1>4

\* Registers are written in the slab the thread owns.
LEMMA WriteKeeps ==
    ASSUME NEW k, Active(k), HasCold(k.th), NEW c, DOMAIN c = RegFields
    PROVE  /\ Active([k EXCEPT !.th.cold = c])
           /\ [k EXCEPT !.th.cold = c].ip = k.ip /\ [k EXCEPT !.th.cold = c].tp = k.tp
<1> DEFINE t == [k.th EXCEPT !.cold = c]
           m == [k EXCEPT !.th = t]
<1>1. /\ IsScan(k) /\ Queues(k) /\ Balanced(k) /\ k.status = "run" /\ ThreadOK(k.th)
      /\ k.ip \in Nat \ {0} /\ k.pos \in 0 .. SLen /\ k.tp \in k.pos .. SLen
      /\ k.th.start \in 0 .. k.pos
  BY DEF Active
<1>2. [k EXCEPT !.th.cold = c] = m
  OBVIOUS
<1>3. ThreadOK(t) /\ HasCold(t) /\ t.start = k.th.start
  BY <1>1, RegsAreCold DEF ThreadOK, ThreadFields, HasCold
<1> HIDE DEF t
<1>4. /\ IsScan(m) /\ m.status = "run" /\ m.pos = k.pos
      /\ m.carry = k.carry /\ m.work = k.work /\ m.defer = k.defer
      /\ m.th = t /\ m.free = k.free /\ m.overflowed = k.overflowed
      /\ m.ip = k.ip /\ m.tp = k.tp
  BY <1>1 DEF IsScan, PikeFields
<1> HIDE DEF m
<1>5. Queues(m)
  BY <1>1, <1>4 DEF Queues
<1>6. Balanced(m)
  BY <1>1, <1>3, <1>4 DEF Balanced, Total, Owned
<1>7. Active(m)
  BY <1>1, <1>3, <1>4, <1>5, <1>6 DEF Active
<1> QED BY <1>2, <1>4, <1>7

\* The operations on registers keep them registers.
LEMMA RegsKept ==
    ASSUME NEW R, DOMAIN R = RegFields, NEW r, NEW q
    PROVE  /\ DOMAIN WithCapStart(R, r, q) = RegFields
           /\ DOMAIN WithCapEnd(R, r, q) = RegFields
           /\ DOMAIN WithAssign(R, r, q) = RegFields
           /\ \A l, v : DOMAIN [R EXCEPT !.loop[l] = v] = RegFields
BY DEF WithCapStart, WithCapEnd, WithAssign

\* A thread joins a queue.
LEMMA JoinKeeps ==
    ASSUME NEW ts, Queue(ts), NEW t, ThreadOK(t), NEW p
    PROVE  /\ Queue(Append(ts, t))
           /\ Held(Append(ts, t)) = Held(ts) + Owned(t)
           /\ Ahead(ts, p) /\ t.pos > p => Ahead(Append(ts, t), p)
           /\ Begun(ts, p) /\ t.start \in 0 .. p => Begun(Append(ts, t), p)
<1> DEFINE us == Append(ts, t)
<1>1. /\ IsQueue(us) /\ Len(us) = Len(ts) + 1 /\ Len(ts) \in Nat
      /\ \A i \in 1 .. Len(ts) : us[i] = ts[i]
      /\ us[Len(ts) + 1] = t
      /\ Held(us) = Held(ts) + Owned(t)
  BY HeldAppend, HeldIsHolders DEF Queue
<1> HIDE DEF us
<1>2. \A i \in 1 .. Len(us) : i \in 1 .. Len(ts) \/ i = Len(ts) + 1
  BY <1>1
<1>3. \A i \in 1 .. Len(us) : ThreadOK(us[i])
  BY <1>1, <1>2 DEF Queue
<1>4. Queue(us)
  BY <1>1, <1>3 DEF Queue
<1>5. Ahead(ts, p) /\ t.pos > p => Ahead(us, p)
  BY <1>1, <1>2 DEF Ahead
<1>6. Begun(ts, p) /\ t.start \in 0 .. p => Begun(us, p)
  BY <1>1, <1>2 DEF Begun
<1> QED BY <1>1, <1>4, <1>5, <1>6 DEF us

\* Two queues are merged.
LEMMA MergeKeeps ==
    ASSUME NEW ts, Queue(ts), NEW us, Queue(us), NEW p, Ahead(ts, p), Ahead(us, p),
           Begun(ts, p), Begun(us, p)
    PROVE  /\ Queue(ts \o us) /\ Ahead(ts \o us, p) /\ Begun(ts \o us, p)
           /\ Len(ts \o us) \in Nat
           /\ Held(ts \o us) = Held(ts) + Held(us)
<1> DEFINE all == ts \o us
<1>1. /\ IsQueue(all) /\ Len(all) = Len(ts) + Len(us)
      /\ Len(ts) \in Nat /\ Len(us) \in Nat
      /\ \A i \in 1 .. Len(ts) : all[i] = ts[i]
      /\ \A i \in 1 .. Len(us) : all[Len(ts) + i] = us[i]
      /\ Held(all) = Held(ts) + Held(us)
  BY HeldConcat, HeldIsHolders DEF Queue
<1> HIDE DEF all
<1>2. ASSUME NEW i \in 1 .. Len(all) PROVE ThreadOK(all[i]) /\ all[i].pos > p /\ all[i].start \in 0 .. p
  <2>1. CASE i \in 1 .. Len(ts)
    BY <1>1, <2>1 DEF Queue, Ahead, Begun
  <2>2. CASE i \notin 1 .. Len(ts)
    <3>1. PICK j \in 1 .. Len(us) : i = Len(ts) + j
      <4>1. i - Len(ts) \in 1 .. Len(us) /\ i = Len(ts) + (i - Len(ts))
        BY <1>1, <2>2
      <4> QED BY <4>1
    <3>2. all[i] = us[j]
      BY <1>1, <3>1
    <3> QED BY <3>2 DEF Queue, Ahead, Begun
  <2> QED BY <2>1, <2>2
<1>3. Queue(all)
  BY <1>1, <1>2 DEF Queue
<1>4. Ahead(all, p) /\ Begun(all, p)
  BY <1>2 DEF Ahead, Begun
<1> QED BY <1>1, <1>3, <1>4 DEF all

\* A fork of the running thread joins the work list with a slab of its own.
LEMMA SplitKeeps ==
    ASSUME NEW k, Active(k), CanFork(k), NEW a \in Nat \ {0}, NEW b \in Nat \ {0}
    PROVE  Active([Forked(k) EXCEPT
                      !.ip = a,
                      !.work = Append(@, [k.th EXCEPT !.ip = b, !.pos = k.tp])])
<1> DEFINE t == [k.th EXCEPT !.ip = b, !.pos = k.tp]
           w == Append(k.work, t)
           free == k.free - Owned(k.th)
           m == [k EXCEPT !.free = free, !.ip = a, !.work = w]
<1>1. /\ IsScan(k) /\ Queues(k) /\ Balanced(k) /\ k.status = "run" /\ ThreadOK(k.th)
      /\ k.ip \in Nat \ {0} /\ k.pos \in 0 .. SLen /\ k.tp \in k.pos .. SLen
      /\ k.th.start \in 0 .. k.pos
  BY DEF Active
<1>2. [Forked(k) EXCEPT !.ip = a, !.work = Append(@, t)] = m
  BY <1>1 DEF Forked, Owned, IsScan, PikeFields
<1>3. ThreadOK(t) /\ Owned(t) = Owned(k.th) /\ t.start = k.th.start
  <2>1. k.tp \in Nat
    BY <1>1
  <2> QED BY <1>1, <2>1 DEF ThreadOK, ThreadFields, Owned, HasCold
<1>4. Queue(w) /\ Held(w) = Held(k.work) + Owned(k.th) /\ Begun(w, k.pos)
  <2>1. Queue(k.work) /\ Begun(k.work, k.pos)
    BY <1>1 DEF Queues
  <2> HIDE DEF t
  <2> QED BY <1>1, <1>3, <2>1, JoinKeeps
<1>5. free \in Nat /\ free = k.free - Owned(k.th)
  BY <1>1, TotalTypes DEF CanFork, Owned
<1> HIDE DEF w, free
<1>6. /\ IsScan(m) /\ m.status = "run" /\ m.pos = k.pos
      /\ m.carry = k.carry /\ m.work = w /\ m.defer = k.defer
      /\ m.th = k.th /\ m.free = free /\ m.overflowed = k.overflowed
      /\ m.ip = a /\ m.tp = k.tp
  BY <1>1 DEF IsScan, PikeFields
<1> HIDE DEF m
<1>7. Queues(m)
  BY <1>1, <1>4, <1>6 DEF Queues
<1>8. Balanced(m)
  <2>1. Total(m) = Total(k)
    BY <1>1, <1>4, <1>5, <1>6, TotalTypes DEF Total
  <2> QED BY <1>1, <1>5, <1>6, <2>1 DEF Balanced
<1>9. Active(m)
  BY <1>1, <1>6, <1>7, <1>8 DEF Active
<1> QED BY <1>2, <1>9

\* A fork that waits at a later position.
LEMMA RetryKeeps ==
    ASSUME NEW k, Active(k), CanFork(k), NEW p \in Nat, p > k.pos
    PROVE  LET m == [Forked(k) EXCEPT !.defer = Append(@, [k.th EXCEPT !.ip = k.ip, !.pos = p])]
           IN  Active(m) /\ m.pos = k.pos
<1> DEFINE t == [k.th EXCEPT !.ip = k.ip, !.pos = p]
           w == Append(k.defer, t)
           free == k.free - Owned(k.th)
           m == [k EXCEPT !.free = free, !.defer = w]
<1>1. /\ IsScan(k) /\ Queues(k) /\ Balanced(k) /\ k.status = "run" /\ ThreadOK(k.th)
      /\ k.ip \in Nat \ {0} /\ k.pos \in 0 .. SLen /\ k.tp \in k.pos .. SLen
      /\ k.th.start \in 0 .. k.pos
  BY DEF Active
<1>2. [Forked(k) EXCEPT !.defer = Append(@, t)] = m
  BY <1>1 DEF Forked, Owned, IsScan, PikeFields
<1>3. ThreadOK(t) /\ Owned(t) = Owned(k.th) /\ t.pos > k.pos /\ t.start = k.th.start
  BY <1>1 DEF ThreadOK, ThreadFields, Owned, HasCold
<1>4. /\ Queue(w) /\ Held(w) = Held(k.defer) + Owned(k.th)
      /\ Ahead(w, k.pos) /\ Begun(w, k.pos)
  <2>1. Queue(k.defer) /\ Ahead(k.defer, k.pos) /\ Begun(k.defer, k.pos)
    BY <1>1 DEF Queues
  <2> HIDE DEF t
  <2> QED BY <1>1, <1>3, <2>1, JoinKeeps
<1>5. free \in Nat /\ free = k.free - Owned(k.th)
  BY <1>1, TotalTypes DEF CanFork, Owned
<1> HIDE DEF w, free
<1>6. /\ IsScan(m) /\ m.status = "run" /\ m.pos = k.pos
      /\ m.carry = k.carry /\ m.work = k.work /\ m.defer = w
      /\ m.th = k.th /\ m.free = free /\ m.overflowed = k.overflowed
      /\ m.ip = k.ip /\ m.tp = k.tp
  BY <1>1 DEF IsScan, PikeFields
<1> HIDE DEF m
<1>7. Queues(m)
  BY <1>1, <1>4, <1>6 DEF Queues
<1>8. Balanced(m)
  <2>1. Total(m) = Total(k)
    BY <1>1, <1>4, <1>5, <1>6, TotalTypes DEF Total
  <2> QED BY <1>1, <1>5, <1>6, <2>1 DEF Balanced
<1>9. Active(m)
  BY <1>1, <1>6, <1>7, <1>8 DEF Active
<1> QED BY <1>2, <1>6, <1>9

\* A thread that has moved waits, with its slab; or it runs on; or it is
\* dropped, slab and all, and the scan says so.
LEMMA MovedKeeps ==
    ASSUME NEW k, Active(k), NEW p \in k.pos .. SLen
    PROVE  Active(Moved(k, p)) \/ Between(Moved(k, p))
<1> DEFINE t == [k.th EXCEPT !.ip = k.ip + 1, !.pos = p]
<1>1. /\ IsScan(k) /\ Queues(k) /\ Balanced(k) /\ k.status = "run" /\ ThreadOK(k.th)
      /\ k.ip \in Nat \ {0} /\ k.pos \in 0 .. SLen /\ k.tp \in k.pos .. SLen
      /\ k.th.start \in 0 .. k.pos
  BY DEF Active
<1>2. /\ ThreadOK(t) /\ Owned(t) = Owned(k.th) /\ t.pos = p /\ t.ip = k.ip + 1
      /\ t.start = k.th.start
  <2>1. k.ip + 1 \in Nat \ {0} /\ p \in Nat
    BY <1>1
  <2> QED BY <1>1, <2>1 DEF ThreadOK, ThreadFields, Owned, HasCold
<1>3. CASE p = k.pos
  <2> DEFINE m == [k EXCEPT !.th = t, !.ip = t.ip, !.tp = k.pos]
  <2>1. Moved(k, p) = m
    BY <1>3 DEF Moved
  <2> HIDE DEF t
  <2>2. /\ IsScan(m) /\ m.status = "run" /\ m.pos = k.pos
        /\ m.carry = k.carry /\ m.work = k.work /\ m.defer = k.defer
        /\ m.th = t /\ m.free = k.free /\ m.overflowed = k.overflowed
        /\ m.ip = t.ip /\ m.tp = k.pos
    BY <1>1 DEF IsScan, PikeFields
  <2> HIDE DEF m
  <2>3. Queues(m) /\ Balanced(m)
    BY <1>1, <1>2, <2>2 DEF Queues, Balanced, Total
  <2>4. Active(m)
    BY <1>1, <1>2, <2>2, <2>3 DEF Active
  <2> QED BY <2>1, <2>4
<1>4. CASE p # k.pos /\ Len(k.defer) < PIKE_DEFER_BUF
  <2> DEFINE w == Append(k.defer, t)
             m == [k EXCEPT !.status = "next", !.th = NoThread, !.defer = w]
  <2>1. Moved(k, p) = m
    BY <1>4 DEF Moved
  <2>2. /\ Queue(w) /\ Held(w) = Held(k.defer) + Owned(k.th)
        /\ Ahead(w, k.pos) /\ Begun(w, k.pos)
    <3>1. Queue(k.defer) /\ Ahead(k.defer, k.pos) /\ Begun(k.defer, k.pos)
      BY <1>1 DEF Queues
    <3>2. t.pos > k.pos
      BY <1>1, <1>2, <1>4
    <3> HIDE DEF t
    <3> QED BY <1>1, <1>2, <3>1, <3>2, JoinKeeps
  <2> HIDE DEF w
  <2>3. /\ IsScan(m) /\ m.status = "next" /\ m.pos = k.pos
        /\ m.carry = k.carry /\ m.work = k.work /\ m.defer = w
        /\ m.th = NoThread /\ m.free = k.free /\ m.overflowed = k.overflowed
    BY <1>1 DEF IsScan, PikeFields
  <2> HIDE DEF m
  <2>4. Queues(m)
    BY <1>1, <2>2, <2>3 DEF Queues
  <2>5. Balanced(m)
    <3>1. Total(m) = Total(k)
      BY <1>1, <2>2, <2>3, TotalTypes, NoThreadHolds DEF Total
    <3> QED BY <1>1, <2>3, <3>1 DEF Balanced
  <2>6. Between(m)
    BY <1>1, <2>3, <2>4, <2>5 DEF Between
  <2> QED BY <2>1, <2>6
<1>5. CASE p # k.pos /\ ~(Len(k.defer) < PIKE_DEFER_BUF)
  <2> DEFINE m == [k EXCEPT !.status = "next", !.th = NoThread, !.overflowed = TRUE]
  <2>1. Moved(k, p) = m
    BY <1>5 DEF Moved
  <2>2. /\ IsScan(m) /\ m.status = "next" /\ m.pos = k.pos
        /\ m.carry = k.carry /\ m.work = k.work /\ m.defer = k.defer
        /\ m.th = NoThread /\ m.free = k.free /\ m.overflowed = TRUE
    BY <1>1 DEF IsScan, PikeFields
  <2> HIDE DEF m
  <2>3. Queues(m)
    BY <1>1, <2>2 DEF Queues
  <2>4. Balanced(m)
    <3>1. Total(m) <= Total(k) /\ Total(m) \in Int /\ Total(k) \in Int
      BY <1>1, <2>2, TotalTypes, NoThreadHolds DEF Total
    <3>2. Total(m) <= PIKE_THREAD_BUF /\ m.free \in Nat
      BY <1>1, <2>2, <3>1, PikeAssumption DEF Balanced
    <3>3. m.overflowed \in BOOLEAN /\ (~m.overflowed => Total(m) = PIKE_THREAD_BUF)
      BY <2>2
    <3> QED BY <3>2, <3>3 DEF Balanced
  <2>5. Between(m)
    BY <1>1, <2>2, <2>3, <2>4 DEF Between
  <2> QED BY <2>1, <2>5
<1> QED BY <1>3, <1>4, <1>5

(***************************************************************************)
(* The steps of a running thread.                                          *)
(***************************************************************************)
\* An instruction is fetched for a running thread only, from the program.
LEMMA Fetched ==
    ASSUME PikeInv, NEW ops, PikeFetch(ops)
    PROVE  Active(pike) /\ Op.op \in ops /\ pike.ip \in DOMAIN Code
<1>1. Active(pike)
  BY DEF PikeInv, PikeFetch, Between
<1>2. pike.ip \in Nat \ {0} /\ pike.ip <= Len(Code) /\ Op.op \in ops
  BY <1>1 DEF Active, PikeFetch, Op
<1> QED BY <1>1, <1>2 DEF PikeInv, Loaded, Decoded

\* Where the cursor of a running thread is.
LEMMA Cursor ==
    ASSUME PikeInv, Active(pike)
    PROVE  /\ pike.pos \in Nat /\ pike.tp \in Nat /\ SLen \in Nat
           /\ pike.pos <= pike.tp /\ pike.tp <= SLen
           /\ pike.tp \in 0 .. SLen /\ pike.tp \in pike.pos .. SLen
BY DEF PikeInv, Loaded, Active

\* The state after a step.
Kept == Active(pike') \/ Between(pike') \/ pike'.status = "done"

\* A condition holds and the cursor moves on, or the thread dies.
LEMMA KeepIfKeeps ==
    ASSUME Active(pike), NEW ok, NEW p, ok => p \in pike.pos .. SLen, KeepIf(ok, p)
    PROVE  Kept
<1>1. CASE ok
  <2> DEFINE k == Onward(pike)
             m == [k EXCEPT !.tp = p]
  <2>1. Active(k)
    BY OnwardKeeps
  <2>2. pike' = m
    BY <1>1 DEF KeepIf
  <2>3. k.pos = pike.pos
    BY DEF Onward, Active, IsScan, PikeFields
  <2> HIDE DEF k
  <2>4. IsScan(k) /\ k.ip \in Nat \ {0} /\ k.status = "run" /\ p \in k.pos .. SLen
    BY <1>1, <2>1, <2>3 DEF Active
  <2>5. /\ IsScan(m) /\ m.status = "run" /\ m.pos = k.pos
        /\ m.carry = k.carry /\ m.work = k.work /\ m.defer = k.defer
        /\ m.th = k.th /\ m.free = k.free /\ m.overflowed = k.overflowed
        /\ m.ip = k.ip /\ m.tp = p
    BY <2>4 DEF IsScan, PikeFields
  <2> HIDE DEF m
  <2>6. Active(m)
    BY <2>1, <2>4, <2>5, ActiveStays
  <2> QED BY <2>2, <2>6 DEF Kept
<1>2. CASE ~ok
  BY <1>2, DieKeeps DEF KeepIf, Kept
<1> QED BY <1>1, <1>2

\* A match ends at p, or the thread dies.
LEMMA MovedIfKeeps ==
    ASSUME Active(pike), NEW ok, NEW p, ok => p \in pike.pos .. SLen, MovedIf(ok, p)
    PROVE  Kept
<1>1. CASE ok
  BY <1>1, MovedKeeps DEF MovedIf, Kept
<1>2. CASE ~ok
  BY <1>2, DieKeeps DEF MovedIf, Kept
<1> QED BY <1>1, <1>2

\* A register operation.
LEMMA RegisterKeeps ==
    ASSUME Active(pike), NEW used, NEW c,
           HasCold(Materialize(pike).th) => DOMAIN c = RegFields,
           pike' = IF ~used THEN Onward(pike)
                   ELSE IF ~HasCold(Materialize(pike).th) THEN Die(Materialize(pike))
                   ELSE Onward([Materialize(pike) EXCEPT !.th.cold = c])
    PROVE  Kept
<1> DEFINE k == Materialize(pike)
<1>1. Active(k)
  BY MaterializeKeeps
<1>2. pike' = IF ~used THEN Onward(pike)
              ELSE IF ~HasCold(k.th) THEN Die(k) ELSE Onward([k EXCEPT !.th.cold = c])
  OBVIOUS
<1>3. HasCold(k.th) => DOMAIN c = RegFields
  OBVIOUS
<1> HIDE DEF k
<1>4. Active(Onward(pike)) /\ Between(Die(k))
  BY <1>1, OnwardKeeps, DieKeeps
<1>5. HasCold(k.th) => Active(Onward([k EXCEPT !.th.cold = c]))
  BY <1>1, <1>3, WriteKeeps, OnwardKeeps
<1> QED BY <1>2, <1>4, <1>5 DEF Kept

\* The registers a running thread owns.
LEMMA ColdOf ==
    ASSUME NEW k, Active(k), HasCold(k.th)
    PROVE  DOMAIN k.th.cold = RegFields
BY DEF Active, ThreadOK, HasCold

\* A capture begins.
LEMMA CapStartStep ==
    ASSUME PikeInv, PikeCapStart PROVE Kept
<1> DEFINE k == Materialize(pike)
           c == WithCapStart(k.th.cold, Op.r, pike.tp)
<1>1. Active(pike) /\ Active(k)
  BY Fetched, MaterializeKeeps DEF PikeCapStart
<1>2. HasCold(k.th) => DOMAIN c = RegFields
  BY <1>1, ColdOf, RegsKept
<1>3. pike' = IF ~(Op.r < MAX_CAPS) THEN Onward(pike)
              ELSE IF ~HasCold(k.th) THEN Die(k)
              ELSE Onward([k EXCEPT !.th.cold = c])
  BY DEF PikeCapStart, Register
<1> HIDE DEF c
<1> QED BY <1>1, <1>2, <1>3, RegisterKeeps

\* A capture ends, and with it the variable of its number.
LEMMA CapEndStep ==
    ASSUME PikeInv, PikeCapEnd PROVE Kept
<1> DEFINE k == Materialize(pike)
           c == WithCapEnd(k.th.cold, Op.r, pike.tp)
<1>1. Active(pike) /\ Active(k)
  BY Fetched, MaterializeKeeps DEF PikeCapEnd
<1>2. HasCold(k.th) => DOMAIN c = RegFields
  BY <1>1, ColdOf, RegsKept
<1>3. pike' = IF ~(Op.r < MAX_CAPS) THEN Onward(pike)
              ELSE IF ~HasCold(k.th) THEN Die(k)
              ELSE Onward([k EXCEPT !.th.cold = c])
  BY DEF PikeCapEnd, Register
<1> HIDE DEF c
<1> QED BY <1>1, <1>2, <1>3, RegisterKeeps

\* A capture is assigned.
LEMMA AssignStep ==
    ASSUME PikeInv, PikeAssign PROVE Kept
<1> DEFINE k == Materialize(pike)
           c == WithAssign(k.th.cold, Op.var, Op.r)
<1>1. Active(pike) /\ Active(k)
  BY Fetched, MaterializeKeeps DEF PikeAssign
<1>2. HasCold(k.th) => DOMAIN c = RegFields
  BY <1>1, ColdOf, RegsKept
<1>3. pike' = IF ~(Op.var < MAX_VARS /\ Op.r < MAX_CAPS) THEN Onward(pike)
              ELSE IF ~HasCold(k.th) THEN Die(k)
              ELSE Onward([k EXCEPT !.th.cold = c])
  BY DEF PikeAssign, Register
<1> HIDE DEF c
<1> QED BY <1>1, <1>2, <1>3, RegisterKeeps

\* The thread goes to instruction i, for want of a fork or not.
LEMMA JumpKeeps ==
    ASSUME NEW k, Active(k), NEW i \in Nat \ {0}
    PROVE  /\ Active([k EXCEPT !.ip = i])
           /\ Active([k EXCEPT !.ip = i, !.overflowed = TRUE])
<1>1. IsScan(k) /\ k.status = "run" /\ k.tp \in k.pos .. SLen
  BY DEF Active
<1>2. Active([k EXCEPT !.ip = i])
  <2> DEFINE m == [k EXCEPT !.ip = i]
  <2>1. /\ IsScan(m) /\ m.status = "run" /\ m.pos = k.pos
        /\ m.carry = k.carry /\ m.work = k.work /\ m.defer = k.defer
        /\ m.th = k.th /\ m.free = k.free /\ m.overflowed = k.overflowed
        /\ m.ip = i /\ m.tp = k.tp
    BY <1>1 DEF IsScan, PikeFields
  <2> HIDE DEF m
  <2>2. Active(m)
    BY <1>1, <2>1, ActiveStays
  <2> QED BY <2>2 DEF m
<1>3. Active([k EXCEPT !.ip = i, !.overflowed = TRUE])
  <2> DEFINE m == [k EXCEPT !.ip = i, !.overflowed = TRUE]
  <2>1. /\ IsScan(m) /\ m.status = "run" /\ m.pos = k.pos
        /\ m.carry = k.carry /\ m.work = k.work /\ m.defer = k.defer
        /\ m.th = k.th /\ m.free = k.free /\ m.overflowed = TRUE
        /\ m.ip = i /\ m.tp = k.tp
    BY <1>1 DEF IsScan, PikeFields
  <2> HIDE DEF m
  <2>2. Active(m)
    BY <1>1, <2>1, ActiveStays
  <2> QED BY <2>2 DEF m
<1> QED BY <1>2, <1>3

\* The scan notes that it cannot be relied on.
LEMMA FlagKeeps ==
    ASSUME NEW k, Active(k)
    PROVE  /\ Active([k EXCEPT !.overflowed = TRUE])
           /\ Active([k EXCEPT !.overflowed = TRUE, !.zero = TRUE])
<1>1. IsScan(k) /\ k.status = "run" /\ k.ip \in Nat \ {0} /\ k.tp \in k.pos .. SLen
  BY DEF Active
<1>2. Active([k EXCEPT !.overflowed = TRUE])
  <2> DEFINE m == [k EXCEPT !.overflowed = TRUE]
  <2>1. /\ IsScan(m) /\ m.status = "run" /\ m.pos = k.pos
        /\ m.carry = k.carry /\ m.work = k.work /\ m.defer = k.defer
        /\ m.th = k.th /\ m.free = k.free /\ m.overflowed = TRUE
        /\ m.ip = k.ip /\ m.tp = k.tp
    BY <1>1 DEF IsScan, PikeFields
  <2> HIDE DEF m
  <2>2. Active(m)
    BY <1>1, <2>1, ActiveStays
  <2> QED BY <2>2 DEF m
<1>3. Active([k EXCEPT !.overflowed = TRUE, !.zero = TRUE])
  <2> DEFINE m == [k EXCEPT !.overflowed = TRUE, !.zero = TRUE]
  <2>1. /\ IsScan(m) /\ m.status = "run" /\ m.pos = k.pos
        /\ m.carry = k.carry /\ m.work = k.work /\ m.defer = k.defer
        /\ m.th = k.th /\ m.free = k.free /\ m.overflowed = TRUE
        /\ m.ip = k.ip /\ m.tp = k.tp
    BY <1>1 DEF IsScan, PikeFields
  <2> HIDE DEF m
  <2>2. Active(m)
    BY <1>1, <2>1, ActiveStays
  <2> QED BY <2>2 DEF m
<1> QED BY <1>2, <1>3

\* A jump.
LEMMA JmpStep ==
    ASSUME PikeInv, PikeJmp PROVE Kept
<1>1. Active(pike) /\ Op.op = "JMP" /\ pike.ip \in DOMAIN Code
  BY Fetched DEF PikeJmp
<1>2. Op.target \in Nat \ {0}
  BY <1>1 DEF PikeInv, Loaded, Decoded, Op
<1> QED BY <1>1, <1>2, JumpKeeps DEF PikeJmp, Kept

\* A split, with its fork or without.
LEMMA SplitStep ==
    ASSUME PikeInv, PikeSplit PROVE Kept
<1>1. Active(pike) /\ Op.op = "SPLIT" /\ pike.ip \in DOMAIN Code
  BY Fetched DEF PikeSplit
<1>2. Op.a \in Nat \ {0} /\ Op.b \in Nat \ {0}
  BY <1>1 DEF PikeInv, Loaded, Decoded, Op
<1>3. CASE pike.taken + Len(pike.work) < PIKE_THREAD_BUF /\ CanFork(pike)
  BY <1>1, <1>2, <1>3, SplitKeeps DEF PikeSplit, Kept
<1>4. CASE ~(pike.taken + Len(pike.work) < PIKE_THREAD_BUF /\ CanFork(pike))
  BY <1>1, <1>2, <1>4, JumpKeeps DEF PikeSplit, Kept
<1> QED BY <1>3, <1>4

\* A loop begins.
LEMMA RepeatInitStep ==
    ASSUME PikeInv, PikeRepeatInit PROVE Kept
<1> DEFINE k == [Materialize(pike) EXCEPT !.overflowed = TRUE]
           c == [k.th.cold EXCEPT !.loop[Op.loop] = <<0, 0>>]
<1>1. Active(pike)
  BY Fetched DEF PikeRepeatInit
<1>2. Active(k)
  BY <1>1, MaterializeKeeps, FlagKeeps
<1>3. pike' = Onward(IF HasCold(k.th) THEN [k EXCEPT !.th.cold = c] ELSE k)
  BY DEF PikeRepeatInit
<1> HIDE DEF k
<1>4. HasCold(k.th) => DOMAIN c = RegFields
  BY <1>2, ColdOf
<1> HIDE DEF c
<1>5. Active(IF HasCold(k.th) THEN [k EXCEPT !.th.cold = c] ELSE k)
  BY <1>2, <1>4, WriteKeeps
<1> QED BY <1>3, <1>5, OnwardKeeps DEF Kept

\* A loop goes on, or makes no progress.
LEMMA RepeatStepStep ==
    ASSUME PikeInv, PikeRepeatStep PROVE Kept
<1> DEFINE k == IF Op.loop < MAX_LOOPS THEN Materialize(pike) ELSE pike
           l == k.th.cold.loop[Op.loop]
           c == [k.th.cold EXCEPT !.loop[Op.loop] = <<l[1] + 1, l[2]>>]
           d == [k.th.cold EXCEPT !.loop[Op.loop] = <<l[1] + 1, k.tp>>]
<1>1. Active(pike) /\ Op.op = "REPEAT_STEP" /\ pike.ip \in DOMAIN Code
  BY Fetched DEF PikeRepeatStep
<1>2. Op.target \in Nat \ {0}
  BY <1>1 DEF PikeInv, Loaded, Decoded, Op
<1>3. Active(k)
  BY <1>1, MaterializeKeeps
<1>4. pike' = IF Op.loop >= MAX_LOOPS \/ ~HasCold(k.th) THEN Onward(k)
              ELSE IF k.th.pos = l[2]
                THEN Onward([k EXCEPT !.th.cold = c, !.overflowed = TRUE, !.zero = TRUE])
                ELSE [k EXCEPT !.th.cold = d, !.ip = Op.target]
  BY DEF PikeRepeatStep
<1> HIDE DEF k
<1>5. HasCold(k.th) => DOMAIN c = RegFields /\ DOMAIN d = RegFields
  BY <1>3, ColdOf
<1> HIDE DEF c, d
<1>6. CASE Op.loop >= MAX_LOOPS \/ ~HasCold(k.th)
  BY <1>3, <1>4, <1>6, OnwardKeeps DEF Kept
<1>7. CASE ~(Op.loop >= MAX_LOOPS \/ ~HasCold(k.th)) /\ k.th.pos = l[2]
  <2> DEFINE m == [k EXCEPT !.th.cold = c]
  <2>1. Active(m)
    BY <1>3, <1>5, <1>7, WriteKeeps
  <2>2. pike' = Onward([m EXCEPT !.overflowed = TRUE, !.zero = TRUE])
    BY <1>4, <1>7
  <2> HIDE DEF m
  <2>3. Active([m EXCEPT !.overflowed = TRUE, !.zero = TRUE])
    BY <2>1, FlagKeeps
  <2> QED BY <2>2, <2>3, OnwardKeeps DEF Kept
<1>8. CASE ~(Op.loop >= MAX_LOOPS \/ ~HasCold(k.th)) /\ k.th.pos # l[2]
  <2> DEFINE m == [k EXCEPT !.th.cold = d]
  <2>1. Active(m)
    BY <1>3, <1>5, <1>8, WriteKeeps
  <2>2. pike' = [m EXCEPT !.ip = Op.target]
    BY <1>4, <1>8
  <2> HIDE DEF m
  <2> QED BY <1>2, <2>1, <2>2, JumpKeeps DEF Kept
<1> QED BY <1>6, <1>7, <1>8

\* A match is noted and its thread ends.
LEMMA AcceptStep ==
    ASSUME PikeInv, PikeAccept PROVE Kept
<1> DEFINE regs == IF HasCold(pike.th) THEN Rebased(pike.th.cold, pike.th.start) ELSE ZeroRegs
           m == [pike EXCEPT !.found = TRUE, !.start = pike.th.start, !.end = pike.tp,
                             !.regs = regs]
<1>1. Active(pike)
  BY Fetched DEF PikeAccept
<1>2. pike' = Die(IF Better(pike) THEN m ELSE pike)
  BY DEF PikeAccept
<1> HIDE DEF regs
<1>3. IsScan(pike) /\ pike.ip \in Nat \ {0} /\ pike.status = "run" /\ pike.tp \in pike.pos .. SLen
  BY <1>1 DEF Active
<1>4. /\ IsScan(m) /\ m.status = "run" /\ m.pos = pike.pos
      /\ m.carry = pike.carry /\ m.work = pike.work /\ m.defer = pike.defer
      /\ m.th = pike.th /\ m.free = pike.free /\ m.overflowed = pike.overflowed
      /\ m.ip = pike.ip /\ m.tp = pike.tp
  BY <1>3 DEF IsScan, PikeFields
<1> HIDE DEF m
<1>5. Active(m)
  BY <1>1, <1>3, <1>4, ActiveStays
<1> QED BY <1>1, <1>2, <1>5, DieKeeps DEF Kept

\* A target of the cursor operations is in the subject.
LEMMA TargetInside ==
    ASSUME SLen \in Nat, NEW n \in Nat
    PROVE  AbsTarget(n) \in 0 .. SLen /\ SLen - AbsTarget(n) \in 0 .. SLen
BY DEF AbsTarget

\* The operations that test the cursor or move it, and let the thread run on.
LEMMA CursorStep ==
    ASSUME PikeInv,
           PikeNop \/ PikeAnchor \/ PikePos \/ PikeTab \/ PikeRtab \/ PikeLen
    PROVE  Kept
<1>1. CASE PikeNop
  <2>1. Active(pike) /\ KeepIf(TRUE, pike.tp)
    BY <1>1, Fetched DEF PikeNop
  <2> QED BY <2>1, Cursor, KeepIfKeeps
<1>2. CASE PikeAnchor
  <2>1. Active(pike)
    BY <1>2, Fetched DEF PikeAnchor
  <2>2. PICK ok : KeepIf(ok, pike.tp)
    BY <1>2 DEF PikeAnchor
  <2> QED BY <2>1, <2>2, Cursor, KeepIfKeeps
<1>3. CASE PikePos
  <2>1. Active(pike)
    BY <1>3, Fetched DEF PikePos
  <2>2. PICK ok : KeepIf(ok, pike.tp)
    BY <1>3 DEF PikePos
  <2> QED BY <2>1, <2>2, Cursor, KeepIfKeeps
<1>4. CASE PikeTab
  <2> DEFINE target == AbsTarget(Op.n)
             ok == (target < SLen \/ Op.n = 0) /\ pike.tp <= target
  <2>1. Active(pike) /\ Op.op = "TAB" /\ pike.ip \in DOMAIN Code
    BY <1>4, Fetched DEF PikeTab
  <2>2. Op.n \in Nat
    BY <2>1 DEF PikeInv, Loaded, Decoded, Op
  <2>3. KeepIf(ok, target)
    BY <1>4 DEF PikeTab
  <2>4. target \in 0 .. SLen
    BY <2>1, <2>2, Cursor, TargetInside
  <2>5. ok => pike.tp <= target
    OBVIOUS
  <2> HIDE DEF target, ok
  <2>6. ok => target \in pike.pos .. SLen
    BY <2>1, <2>4, <2>5, Cursor
  <2> QED BY <2>1, <2>3, <2>6, KeepIfKeeps
<1>5. CASE PikeRtab
  <2> DEFINE target == SLen - AbsTarget(Op.n)
             ok == pike.tp <= target
  <2>1. Active(pike) /\ Op.op = "RTAB" /\ pike.ip \in DOMAIN Code
    BY <1>5, Fetched DEF PikeRtab
  <2>2. Op.n \in Nat
    BY <2>1 DEF PikeInv, Loaded, Decoded, Op
  <2>3. KeepIf(ok, target)
    BY <1>5 DEF PikeRtab
  <2>4. target \in 0 .. SLen
    BY <2>1, <2>2, Cursor, TargetInside
  <2> HIDE DEF target
  <2>5. ok => target \in pike.pos .. SLen
    BY <2>1, <2>4, Cursor
  <2> HIDE DEF ok
  <2> QED BY <2>1, <2>3, <2>5, KeepIfKeeps
<1>6. CASE PikeLen
  <2> DEFINE ok == pike.tp + Op.n <= SLen
             q == pike.tp + Op.n
  <2>1. Active(pike) /\ Op.op = "LEN" /\ pike.ip \in DOMAIN Code
    BY <1>6, Fetched DEF PikeLen
  <2>2. Op.n \in Nat
    BY <2>1 DEF PikeInv, Loaded, Decoded, Op
  <2>3. KeepIf(ok, q)
    BY <1>6 DEF PikeLen
  <2>4. ok => q \in pike.pos .. SLen
    BY <2>1, <2>2, Cursor
  <2> HIDE DEF ok, q
  <2> QED BY <2>1, <2>3, <2>4, KeepIfKeeps
<1> QED BY <1>1, <1>2, <1>3, <1>4, <1>5, <1>6

\* The operations that end the thread.
LEMMA DeathStep ==
    ASSUME PikeInv, PikeEndOfCode \/ PikeFail
    PROVE  Kept
<1>1. Active(pike)
  BY DEF PikeInv, PikeEndOfCode, PikeFail, PikeFetch, Between
<1>2. pike' = Die(pike)
  BY DEF PikeEndOfCode, PikeFail
<1> QED BY <1>1, <1>2, DieKeeps DEF Kept

\* The operations that match text.
LEMMA MatchStep ==
    ASSUME PikeInv,
           PikeLit \/ PikeAny \/ PikeNotany \/ PikeSpan \/ PikeBreak
    PROVE  Kept
<1>1. CASE PikeLit
  <2> DEFINE ok == LiteralAt(Op.text, pike.tp)
             q == pike.tp + Len(Op.text)
  <2>1. Active(pike) /\ Op.op = "LIT" /\ pike.ip \in DOMAIN Code
    BY <1>1, Fetched DEF PikeLit
  <2>2. Len(Op.text) \in Nat
    BY <2>1 DEF PikeInv, Loaded, Decoded, Op
  <2>3. MovedIf(ok, q)
    BY <1>1 DEF PikeLit
  <2>4. ok => q \in pike.pos .. SLen
    BY <2>1, <2>2, Cursor DEF LiteralAt
  <2> HIDE DEF ok, q
  <2> QED BY <2>1, <2>3, <2>4, MovedIfKeeps
<1>2. CASE PikeAny
  <2> DEFINE ok == pike.tp < SLen /\ ByteAt(pike.tp) \in Op.set
             q == pike.tp + 1
  <2>1. Active(pike) /\ MovedIf(ok, q)
    BY <1>2, Fetched DEF PikeAny
  <2>2. ok => q \in pike.pos .. SLen
    BY <2>1, Cursor
  <2> HIDE DEF ok, q
  <2> QED BY <2>1, <2>2, MovedIfKeeps
<1>3. CASE PikeNotany
  <2> DEFINE ok == pike.tp < SLen /\ ByteAt(pike.tp) \notin Op.set
             q == pike.tp + 1
  <2>1. Active(pike) /\ MovedIf(ok, q)
    BY <1>3, Fetched DEF PikeNotany
  <2>2. ok => q \in pike.pos .. SLen
    BY <2>1, Cursor
  <2> HIDE DEF ok, q
  <2> QED BY <2>1, <2>2, MovedIfKeeps
<1>4. CASE PikeSpan
  <2> DEFINE q == RunEnd(pike.tp, Op.set)
             ok == q > pike.tp
  <2>1. Active(pike) /\ MovedIf(ok, q)
    BY <1>4, Fetched DEF PikeSpan
  <2>2. q \in pike.tp .. SLen
    BY <2>1, Cursor, RunEndInside
  <2> HIDE DEF q
  <2>3. q \in pike.pos .. SLen
    BY <2>1, <2>2, Cursor
  <2> HIDE DEF ok
  <2> QED BY <2>1, <2>3, MovedIfKeeps
<1>5. CASE PikeBreak
  <2> DEFINE q == RunUntil(pike.tp, Op.set)
  <2>1. Active(pike) /\ MovedIf(TRUE, q)
    BY <1>5, Fetched DEF PikeBreak
  <2>2. q \in pike.tp .. SLen
    BY <2>1, Cursor, RunUntilInside
  <2> HIDE DEF q
  <2>3. q \in pike.pos .. SLen
    BY <2>1, <2>2, Cursor
  <2> QED BY <2>1, <2>3, MovedIfKeeps
<1> QED BY <1>1, <1>2, <1>3, <1>4, <1>5

\* BREAKX: the thread goes on from the break character, and the fork that
\* tries again behind it waits.
LEMMA BreakxStep ==
    ASSUME PikeInv, PikeBreakx PROVE Kept
<1> DEFINE end == RunUntil(pike.tp, Op.set)
           retry == [pike.th EXCEPT !.ip = pike.ip, !.pos = end + 1]
           f == [Forked(pike) EXCEPT !.defer = Append(@, retry)]
           o == [pike EXCEPT !.overflowed = TRUE]
           k == IF Len(pike.defer) < PIKE_DEFER_BUF /\ CanFork(pike) THEN f ELSE o
<1>1. Active(pike)
  BY Fetched DEF PikeBreakx
<1>2. pike' = Moved(k, end)
  BY DEF PikeBreakx
<1>3. end \in pike.tp .. SLen
  BY <1>1, Cursor, RunUntilInside
<1> HIDE DEF end
<1>4. end \in pike.pos .. SLen /\ end + 1 \in Nat /\ end + 1 > pike.pos
  BY <1>1, <1>3, Cursor
<1>5. CanFork(pike) => Active(f) /\ f.pos = pike.pos
  BY <1>1, <1>4, RetryKeeps
<1>6. Active(o) /\ o.pos = pike.pos
  <2>1. IsScan(pike)
    BY <1>1 DEF Active
  <2>2. o.pos = pike.pos
    BY <2>1 DEF IsScan, PikeFields
  <2> QED BY <1>1, <2>2, FlagKeeps
<1> HIDE DEF f, o
<1>7. Active(k) /\ k.pos = pike.pos
  BY <1>5, <1>6
<1> HIDE DEF k
<1>8. Active(Moved(k, end)) \/ Between(Moved(k, end))
  BY <1>4, <1>7, MovedKeeps
<1> QED BY <1>2, <1>8 DEF Kept

(***************************************************************************)
(* The steps of the position loop.                                         *)
(***************************************************************************)
\* The next thread leaves the work list with its slab.
LEMMA TakeStep ==
    ASSUME PikeInv, TakeThread PROVE Kept
<1>1. Between(pike) /\ pike.status = "next"
  BY DEF PikeInv, TakeThread, Active
<1>2. /\ IsScan(pike) /\ Queues(pike) /\ Balanced(pike) /\ pike.th = NoThread
      /\ pike.pos \in 0 .. SLen /\ SLen \in Nat
  BY <1>1 DEF Between, PikeInv, Loaded
<1>3. CASE pike.work = <<>>
  <2> DEFINE m == [pike EXCEPT !.status = "merge"]
  <2>1. pike' = m
    BY <1>3 DEF TakeThread
  <2>2. /\ IsScan(m) /\ m.status = "merge" /\ m.pos = pike.pos
        /\ m.carry = pike.carry /\ m.work = pike.work /\ m.defer = pike.defer
        /\ m.th = pike.th /\ m.free = pike.free /\ m.overflowed = pike.overflowed
    BY <1>2 DEF IsScan, PikeFields
  <2> HIDE DEF m
  <2>3. Queues(m) /\ Balanced(m)
    BY <1>2, <2>2 DEF Queues, Balanced, Total
  <2>4. m.pos \in -1 .. SLen
    BY <1>2, <2>2
  <2>5. Between(m)
    BY <1>2, <1>3, <2>2, <2>3, <2>4 DEF Between
  <2> QED BY <2>1, <2>5 DEF Kept
<1>4. CASE pike.work # <<>>
  <2> DEFINE t == Head(pike.work)
             w == Tail(pike.work)
             m == [pike EXCEPT !.status = "run", !.work = w, !.taken = pike.taken + 1,
                               !.th = t, !.ip = t.ip, !.tp = pike.pos]
  <2>1. pike' = m
    BY <1>4 DEF TakeThread
  <2>2. Queue(pike.work) /\ Begun(pike.work, pike.pos)
    BY <1>2 DEF Queues
  <2>3. /\ IsQueue(w) /\ 1 \in 1 .. Len(pike.work) /\ t = pike.work[1]
        /\ \A i \in 1 .. Len(w) : i + 1 \in 1 .. Len(pike.work) /\ w[i] = pike.work[i + 1]
        /\ Held(pike.work) = Owned(t) + Held(w)
    BY <1>4, <2>2, HeldHead DEF Queue
  <2> HIDE DEF t, w
  <2>4. ThreadOK(t) /\ Queue(w) /\ t.start \in 0 .. pike.pos /\ Begun(w, pike.pos)
    BY <2>2, <2>3 DEF Queue, Begun
  <2>5. /\ IsScan(m) /\ m.status = "run" /\ m.pos = pike.pos
        /\ m.carry = pike.carry /\ m.work = w /\ m.defer = pike.defer
        /\ m.th = t /\ m.free = pike.free /\ m.overflowed = pike.overflowed
        /\ m.ip = t.ip /\ m.tp = pike.pos
    BY <1>2 DEF IsScan, PikeFields
  <2> HIDE DEF m
  <2>6. Queues(m)
    BY <1>2, <2>4, <2>5 DEF Queues
  <2>7. Balanced(m)
    <3>1. Held(w) \in Nat /\ Owned(t) \in Nat
      BY <2>3, HeldIsHolders DEF Owned
    <3>2. /\ Held(pike.carry) \in Nat /\ Held(pike.defer) \in Nat /\ pike.free \in Nat
          /\ Owned(pike.th) = 0
      BY <1>2, TotalTypes, NoThreadHolds
    <3>3. Total(m) = pike.free + Held(pike.carry) + Held(w) + Held(pike.defer) + Owned(t)
      BY <2>5 DEF Total
    <3>4. Total(pike) = pike.free + Held(pike.carry) + Held(pike.work) + Held(pike.defer) + 0
      BY <3>2 DEF Total
    <3>5. Total(m) = Total(pike)
      BY <2>3, <3>1, <3>2, <3>3, <3>4
    <3> QED BY <1>2, <2>5, <3>5 DEF Balanced
  <2>8. Active(m)
    <3>1. m.ip \in Nat \ {0} /\ m.pos \in 0 .. SLen /\ m.tp \in m.pos .. SLen
      BY <1>2, <2>4, <2>5 DEF ThreadOK
    <3> QED BY <2>4, <2>5, <2>6, <2>7, <3>1 DEF Active
  <2> QED BY <2>1, <2>8 DEF Kept
<1> QED BY <1>3, <1>4

\* A new thread has no slab.
LEMMA SpawnKeeps ==
    ASSUME NEW ts, Queue(ts), NEW p \in Nat
    PROVE  /\ Queue(Spawn(ts, p)) /\ Held(Spawn(ts, p)) = Held(ts)
           /\ (Begun(ts, p) => Begun(Spawn(ts, p), p))
<1> DEFINE t == FreshThread(p)
<1>1. ThreadOK(t) /\ Owned(t) = 0 /\ t.start \in 0 .. p
  BY DEF FreshThread, ThreadOK, ThreadFields, Owned, HasCold
<1>2. Held(ts) \in Nat
  BY HeldIsHolders DEF Queue
<1>3. /\ Queue(Append(ts, t)) /\ Held(Append(ts, t)) = Held(ts) + Owned(t)
      /\ (Begun(ts, p) => Begun(Append(ts, t), p))
  <2> HIDE DEF t
  <2> QED BY <1>1, JoinKeeps
<1> HIDE DEF t
<1> QED BY <1>1, <1>2, <1>3 DEF Spawn, t

\* Threads that are ahead of a position are sorted by the next one without a
\* loss.
LEMMA SortedKeeps ==
    ASSUME NEW ts, Queue(ts), NEW p \in Nat, Ahead(ts, p - 1), Begun(ts, p)
    PROVE  /\ Queue(Sorted(ts, p).work) /\ Queue(Sorted(ts, p).carry)
           /\ Ahead(Sorted(ts, p).carry, p)
           /\ Begun(Sorted(ts, p).work, p) /\ Begun(Sorted(ts, p).carry, p)
           /\ Held(Sorted(ts, p).work) + Held(Sorted(ts, p).carry) = Held(ts)
<1> DEFINE s == Sorted(ts, p)
<1>1. ASSUME NEW y \in 1 .. Len(ts) PROVE ts[y].pos \in Nat /\ ts[y].pos >= p
  <2>1. ts[y].pos \in Nat /\ ts[y].pos > p - 1
    BY DEF Queue, ThreadOK, Ahead
  <2> QED BY <2>1
<1>2. Parted(ts, p, s, Len(ts))
  BY <1>1, SortKeepsAll DEF Queue
<1>3. Held(ts) = Cardinality(Holders(ts, Len(ts)))
  BY HeldIsHolders DEF Queue
<1> HIDE DEF s
<1>4. Held(s.work) + Held(s.carry) = Held(ts)
  BY <1>2, <1>3 DEF Parted
<1>5. Queue(s.work) /\ Queue(s.carry) /\ Ahead(s.carry, p)
  BY <1>2 DEF Parted, Queue, Ahead
<1>6. Begun(s.work, p) /\ Begun(s.carry, p)
  BY <1>2 DEF Parted, Begun
<1> QED BY <1>4, <1>5, <1>6 DEF s

\* The threads that wait are merged, and go on at the next position.
LEMMA NextPositionStep ==
    ASSUME PikeInv, NextPosition PROVE Kept
<1>1. Between(pike) /\ pike.status = "merge"
  BY DEF PikeInv, NextPosition, Active
<1>2. /\ IsScan(pike) /\ Queues(pike) /\ Balanced(pike) /\ pike.th = NoThread
      /\ pike.pos \in -1 .. SLen /\ SLen \in Nat /\ pike.work = <<>>
  BY <1>1 DEF Between, PikeInv, Loaded
<1> DEFINE all  == pike.carry \o pike.defer
           fits == Len(all) <= PIKE_THREAD_BUF
           ts   == IF fits THEN all ELSE SubSeq(all, 1, PIKE_THREAD_BUF)
           p    == pike.pos + 1
           over == pike.overflowed \/ ~fits
           s    == Sorted(ts, p)
           w    == Spawn(s.work, p)
           last == [pike EXCEPT !.status = "done", !.overflowed = over,
                                !.carry = <<>>, !.defer = <<>>, !.taken = 0]
           next == [pike EXCEPT !.status = "next", !.pos = p, !.overflowed = over,
                                !.work = w, !.carry = s.carry,
                                !.defer = <<>>, !.taken = 0]
<1>3. pike' = IF p > SLen THEN last ELSE next
  BY DEF NextPosition
<1>4. /\ Queue(all) /\ Ahead(all, pike.pos) /\ Begun(all, pike.pos) /\ Len(all) \in Nat
      /\ Held(all) = Held(pike.carry) + Held(pike.defer)
  <2>1. /\ Queue(pike.carry) /\ Queue(pike.defer)
        /\ Ahead(pike.carry, pike.pos) /\ Ahead(pike.defer, pike.pos)
        /\ Begun(pike.carry, pike.pos) /\ Begun(pike.defer, pike.pos)
    BY <1>2 DEF Queues
  <2> QED BY <2>1, MergeKeeps
<1> HIDE DEF all
<1>5. /\ Queue(ts) /\ Ahead(ts, pike.pos) /\ Begun(ts, pike.pos) /\ Held(ts) <= Held(all) /\ Held(ts) \in Nat
      /\ fits => Held(ts) = Held(all)
  <2>1. Held(all) \in Nat
    BY <1>4, HeldIsHolders DEF Queue
  <2>2. CASE fits
    BY <1>4, <2>1, <2>2
  <2>3. CASE ~fits
    <3> DEFINE us == SubSeq(all, 1, PIKE_THREAD_BUF)
    <3>1. PIKE_THREAD_BUF \in 0 .. Len(all)
      BY <1>4, <2>3, PikeAssumption
    <3>2. /\ IsQueue(us) /\ Len(us) = PIKE_THREAD_BUF
          /\ \A i \in 1 .. PIKE_THREAD_BUF : i \in 1 .. Len(all) /\ us[i] = all[i]
          /\ Held(us) <= Held(all)
      BY <1>4, <3>1, HeldFront DEF Queue
    <3>3. Held(us) \in Nat
      BY <3>2, HeldIsHolders
    <3>4. ts = us
      BY <2>3
    <3> HIDE DEF us, ts
    <3>5. Queue(us) /\ Ahead(us, pike.pos) /\ Begun(us, pike.pos)
      BY <1>4, <3>2 DEF Queue, Ahead, Begun
    <3> QED BY <2>3, <3>2, <3>3, <3>4, <3>5
  <2> QED BY <2>2, <2>3
<1> HIDE DEF ts
<1>6. p \in Nat /\ pike.pos = p - 1
  BY <1>2
<1>7. CASE p > SLen
  <2>1. pike'.status = "done"
    <3> HIDE DEF p, over
    <3>1. pike' = last
      BY <1>3, <1>7
    <3> QED BY <1>2, <3>1 DEF IsScan, PikeFields
  <2> QED BY <2>1 DEF Kept
<1>8. CASE ~(p > SLen)
  <2>1. p \in 0 .. SLen
    BY <1>2, <1>6, <1>8
  <2>2. /\ Queue(s.work) /\ Queue(s.carry) /\ Ahead(s.carry, p)
        /\ Begun(s.work, p) /\ Begun(s.carry, p)
        /\ Held(s.work) + Held(s.carry) = Held(ts)
    <3>1. Ahead(ts, p - 1)
      BY <1>5, <1>6
    <3>2. Begun(ts, p)
      BY <1>2, <1>5 DEF Begun
    <3> HIDE DEF p
    <3> QED BY <1>5, <1>6, <3>1, <3>2, SortedKeeps
  <2> HIDE DEF s
  <2>3. Queue(w) /\ Held(w) = Held(s.work) /\ Begun(w, p)
    <3> HIDE DEF p
    <3> QED BY <1>6, <2>2, SpawnKeeps
  <2> HIDE DEF w
  <2>4. pike' = next
    BY <1>3, <1>8
  <2>5. over \in BOOLEAN /\ (~over => ~pike.overflowed /\ fits)
    OBVIOUS
  <2> HIDE DEF over
  <2>6. /\ IsScan(next) /\ next.status = "next" /\ next.pos = p
        /\ next.carry = s.carry /\ next.work = w /\ next.defer = <<>>
        /\ next.th = pike.th /\ next.free = pike.free /\ next.overflowed = over
    <3> HIDE DEF p
    <3> QED BY <1>2 DEF IsScan, PikeFields
  <2> HIDE DEF next, p
  <2>7. Queues(next)
    <3>1. Queue(<<>>) /\ Ahead(<<>>, p) /\ Begun(<<>>, p)
      BY HeldEmpty DEF Queue, Ahead, Begun
    <3> QED BY <2>2, <2>3, <2>6, <3>1 DEF Queues
  <2>8. Balanced(next)
    <3>1. /\ Held(s.work) \in Nat /\ Held(s.carry) \in Nat
          /\ Held(pike.carry) \in Nat /\ Held(pike.defer) \in Nat
          /\ pike.free \in Nat
      BY <1>2, <2>2, HeldIsHolders, TotalTypes DEF Queue
    <3>2. Total(next) = pike.free + Held(ts)
      BY <1>2, <2>2, <2>3, <2>6, <3>1, HeldEmpty, NoThreadHolds DEF Total
    <3>3. Total(pike) = pike.free + Held(all)
      BY <1>2, <1>4, <3>1, HeldEmpty, NoThreadHolds DEF Total
    <3>4. Total(pike) <= PIKE_THREAD_BUF
          /\ (~pike.overflowed => Total(pike) = PIKE_THREAD_BUF)
      BY <1>2 DEF Balanced
    <3>5. Held(all) \in Nat
      BY <1>4, <3>1
    <3>6. Total(next) <= PIKE_THREAD_BUF
      BY <1>5, <3>1, <3>2, <3>3, <3>4, <3>5, PikeAssumption
    <3>7. ~over => Total(next) = PIKE_THREAD_BUF
      BY <1>5, <2>5, <3>2, <3>3, <3>4
    <3> QED BY <2>5, <2>6, <3>1, <3>6, <3>7 DEF Balanced
  <2>9. Between(next)
    BY <1>2, <2>1, <2>6, <2>7, <2>8 DEF Between
  <2> QED BY <2>4, <2>9 DEF Kept
<1> QED BY <1>7, <1>8

\* At the start every slab is free and no thread waits.
LEMMA StartIsBetween ==
    ASSUME SLen \in Nat
    PROVE  Between(PikeStart)
<1> DEFINE k == PikeStart
<1>1. /\ IsScan(k) /\ k.status = "merge" /\ k.pos = -1
      /\ k.carry = <<>> /\ k.work = <<>> /\ k.defer = <<>>
      /\ k.th = NoThread /\ k.free = PIKE_THREAD_BUF /\ k.overflowed = FALSE
  BY DEF PikeStart, IsScan, PikeFields
<1> HIDE DEF k
<1>2. Queues(k)
  <2>1. Queue(<<>>) /\ Ahead(<<>>, -1) /\ Begun(<<>>, -1)
    BY HeldEmpty DEF Queue, Ahead, Begun
  <2> QED BY <1>1, <2>1 DEF Queues
<1>3. Balanced(k)
  <2>1. Total(k) = PIKE_THREAD_BUF
    BY <1>1, HeldEmpty, NoThreadHolds, PikeAssumption DEF Total
  <2>2. Total(k) <= PIKE_THREAD_BUF /\ k.free \in Nat
    BY <1>1, <2>1, PikeAssumption
  <2>3. k.overflowed \in BOOLEAN
    BY <1>1
  <2> QED BY <2>1, <2>2, <2>3 DEF Balanced
<1>4. k.pos \in -1 .. SLen
  BY <1>1
<1> QED BY <1>1, <1>2, <1>3, <1>4 DEF Between, k

\* The invariant of the scan.
LEMMA PikeInvariant == PikeSpec => []PikeInv
<1>1. PikeInit => PikeInv
  BY DEF PikeInit, PikeInv, PikeIdle
<1>2. PikeInv /\ [PikeNext]_pikeVars => PikeInv'
  <2> SUFFICES ASSUME PikeInv, [PikeNext]_pikeVars PROVE PikeInv'
    OBVIOUS
  <2>1. pattern' = pattern /\ task' = task
    BY DEF PikeNext, pikeVars
  <2>2. SLen' = SLen /\ Loaded'
    BY <2>1 DEF PikeInv, Loaded, Decoded, SLen, Code
  <2>3. Kept \/ pike' = pike
    <3>1. CASE PikeCall
      <4>1. pike' = PikeStart /\ SLen \in Nat
        BY <3>1 DEF PikeCall, PikeInv, Loaded
      <4>2. Between(PikeStart)
        BY <4>1, StartIsBetween
      <4> QED BY <4>1, <4>2 DEF Kept
    <3>2. CASE PikeStep
      BY <3>2, NextPositionStep, TakeStep, DeathStep, CursorStep, JmpStep, CapStartStep,
         CapEndStep, AssignStep, SplitStep, RepeatInitStep, RepeatStepStep, AcceptStep,
         MatchStep, BreakxStep DEF PikeStep
    <3>3. CASE UNCHANGED pikeVars
      BY <3>3 DEF pikeVars
    <3> QED BY <3>1, <3>2, <3>3 DEF PikeNext
  <2>4. Active(pike') \/ Between(pike') \/ pike'.status \in {"idle", "done"}
    BY <2>3 DEF Kept, PikeInv
  <2>5. (Active(pike))' \/ (Between(pike))' \/ pike'.status \in {"idle", "done"}
    BY <2>2, <2>4 DEF Active, Between
  <2> QED BY <2>2, <2>5 DEF PikeInv
<1> QED BY <1>1, <1>2, PTL DEF PikeSpec

\* Between two calls there is nothing to balance; otherwise the scan is in
\* one of the two states.
LEMMA InUse ==
    ASSUME PikeInv, pike.status \notin {"idle", "done"}
    PROVE  Queues(pike) /\ Balanced(pike)
BY DEF PikeInv, Active, Between

(***************************************************************************)
(* The slabs of the threads that run or wait and the free ones are never   *)
(* more than pike_scan set up, and they are all of them unless it has      *)
(* asked for the fallback: pike_die gives every slab back, a fork pays for *)
(* its copy, and a drop for want of room sets overflowed.                  *)
(***************************************************************************)
THEOREM SlabsNeverLost == PikeSpec => []SlabsBalanced
<1>1. PikeInv => SlabsBalanced
  <2> SUFFICES ASSUME PikeInv, pike.status \notin {"idle", "done"} PROVE SlabsBalanced
    BY DEF SlabsBalanced
  <2>1. Balanced(pike)
    BY InUse
  <2>2. Held(<<pike.th>>) = Owned(pike.th)
    BY HeldOne
  <2> QED BY <2>1, <2>2 DEF SlabsBalanced, Balanced, Total
<1> QED BY <1>1, PikeInvariant, PTL

(***************************************************************************)
(* A thread that waits is ahead of the position, as the comment of the     *)
(* merge loop says, so the next pass of pike_scan, which skips the threads *)
(* behind it without a word, drops nobody and loses no slab.               *)
(***************************************************************************)
THEOREM NobodyBehind == PikeSpec => []NoneBehind
<1>1. PikeInv => NoneBehind
  <2> SUFFICES ASSUME PikeInv, pike.status \notin {"idle", "done"} PROVE NoneBehind
    BY DEF NoneBehind
  <2>1. Queues(pike)
    BY InUse
  <2>2. /\ DOMAIN pike.carry = 1 .. Len(pike.carry)
        /\ DOMAIN pike.defer = 1 .. Len(pike.defer)
    BY <2>1 DEF Queues, Queue, IsQueue
  <2> QED BY <2>1, <2>2 DEF NoneBehind, Queues, Ahead
<1> QED BY <1>1, PikeInvariant, PTL
(***************************************************************************)
(* What has been found.                                                    *)
(***************************************************************************)
SameMatch(k, m) == IsScan(m) /\ m.found = k.found /\ m.start = k.start /\ m.end = k.end

\* The parts of a step leave what has been found.
LEMMA PartsKeepMatch ==
    ASSUME NEW k, IsScan(k)
    PROVE  /\ SameMatch(k, Die(k)) /\ SameMatch(k, Onward(k))
           /\ SameMatch(k, Materialize(k)) /\ SameMatch(k, Forked(k))
           /\ \A i : SameMatch(k, [k EXCEPT !.ip = i])
           /\ \A q : SameMatch(k, [k EXCEPT !.tp = q])
           /\ \A w : SameMatch(k, [k EXCEPT !.work = w])
           /\ \A w : SameMatch(k, [k EXCEPT !.defer = w])
           /\ \A c : SameMatch(k, [k EXCEPT !.th.cold = c])
           /\ SameMatch(k, [k EXCEPT !.overflowed = TRUE])
           /\ SameMatch(k, [k EXCEPT !.zero = TRUE])
BY DEF SameMatch, IsScan, PikeFields, Die, Onward, Materialize, Forked

LEMMA MovedKeepsMatch ==
    ASSUME NEW k, IsScan(k), NEW p
    PROVE  SameMatch(k, Moved(k, p))
<1> DEFINE t == [k.th EXCEPT !.ip = k.ip + 1, !.pos = p]
<1>1. Moved(k, p) =
        IF p = k.pos THEN [k EXCEPT !.th = t, !.ip = t.ip, !.tp = k.pos]
        ELSE IF Len(k.defer) < PIKE_DEFER_BUF
          THEN [k EXCEPT !.status = "next", !.th = NoThread, !.defer = Append(k.defer, t)]
        ELSE [k EXCEPT !.status = "next", !.th = NoThread, !.overflowed = TRUE]
  BY DEF Moved
<1> HIDE DEF t
<1> QED BY <1>1 DEF SameMatch, IsScan, PikeFields

\* A step is a step of a scan.
LEMMA StepOfScan ==
    ASSUME PikeInv, pike.status \notin {"idle", "done"}
    PROVE  IsScan(pike)
BY DEF PikeInv, Active, Between

\* Going from one step to the next.
LEMMA SameMatchTwice ==
    ASSUME NEW k, NEW m, NEW n, SameMatch(k, m), SameMatch(m, n)
    PROVE  SameMatch(k, n)
BY DEF SameMatch

\* Only a thread that accepts changes what has been found.
LEMMA OthersKeepMatch ==
    ASSUME PikeInv, PikeStep
    PROVE  PikeAccept \/ SameMatch(pike, pike')
<1>1. IsScan(pike)
  <2>1. pike.status \in {"merge", "next", "run"}
    BY DEF PikeStep, NextPosition, TakeThread, PikeEndOfCode, PikeNop, PikeAnchor, PikePos,
       PikeTab, PikeRtab, PikeLen, PikeJmp, PikeCapStart, PikeCapEnd, PikeAssign, PikeSplit,
       PikeRepeatInit, PikeRepeatStep, PikeAccept, PikeFail, PikeLit, PikeAny, PikeNotany,
       PikeSpan, PikeBreak, PikeBreakx, PikeFetch
  <2> QED BY <2>1, StepOfScan
<1>2. ASSUME NEW ok, NEW p, KeepIf(ok, p) PROVE SameMatch(pike, pike')
  <2> DEFINE m == Onward(pike)
  <2>1. pike' = [m EXCEPT !.tp = p] \/ pike' = Die(pike)
    BY <1>2 DEF KeepIf
  <2>2. SameMatch(pike, m) /\ SameMatch(pike, Die(pike))
    BY <1>1, PartsKeepMatch
  <2> HIDE DEF m
  <2>3. SameMatch(m, [m EXCEPT !.tp = p])
    BY <2>2, PartsKeepMatch DEF SameMatch
  <2> QED BY <2>1, <2>2, <2>3, SameMatchTwice
<1>3. ASSUME NEW ok, NEW p, MovedIf(ok, p) PROVE SameMatch(pike, pike')
  BY <1>1, <1>3, PartsKeepMatch, MovedKeepsMatch DEF MovedIf
<1>4. CASE NextPosition
  <2> DEFINE all  == pike.carry \o pike.defer
             ts   == IF Len(all) <= PIKE_THREAD_BUF THEN all ELSE SubSeq(all, 1, PIKE_THREAD_BUF)
             p    == pike.pos + 1
             over == pike.overflowed \/ ~(Len(all) <= PIKE_THREAD_BUF)
             work == Spawn(Sorted(ts, p).work, p)
             carry == Sorted(ts, p).carry
  <2>1. pike' = IF p > SLen
                  THEN [pike EXCEPT !.status = "done", !.overflowed = over,
                                    !.carry = <<>>, !.defer = <<>>, !.taken = 0]
                  ELSE [pike EXCEPT !.status = "next", !.pos = p, !.overflowed = over,
                                    !.work = work, !.carry = carry,
                                    !.defer = <<>>, !.taken = 0]
    BY <1>4 DEF NextPosition
  <2> HIDE DEF p, over, work, carry
  <2> QED BY <1>1, <2>1 DEF SameMatch, IsScan, PikeFields
<1>5. CASE TakeThread
  <2> DEFINE t == Head(pike.work)
             w == Tail(pike.work)
  <2>1. pike' = IF pike.work = <<>> THEN [pike EXCEPT !.status = "merge"]
                ELSE [pike EXCEPT !.status = "run", !.work = w,
                                  !.taken = pike.taken + 1, !.th = t, !.ip = t.ip,
                                  !.tp = pike.pos]
    BY <1>5 DEF TakeThread
  <2> HIDE DEF t, w
  <2> QED BY <1>1, <2>1 DEF SameMatch, IsScan, PikeFields
<1>6. CASE PikeEndOfCode \/ PikeFail
  BY <1>1, <1>6, PartsKeepMatch DEF PikeEndOfCode, PikeFail
<1>7. CASE PikeNop \/ PikeAnchor \/ PikePos \/ PikeTab \/ PikeRtab \/ PikeLen
  BY <1>2, <1>7 DEF PikeNop, PikeAnchor, PikePos, PikeTab, PikeRtab, PikeLen
<1>8. CASE PikeJmp
  BY <1>1, <1>8, PartsKeepMatch DEF PikeJmp
<1>9. CASE PikeCapStart \/ PikeCapEnd \/ PikeAssign
  <2> DEFINE k == Materialize(pike)
  <2>1. PICK used, c : pike' = IF ~used THEN Onward(pike)
                               ELSE IF ~HasCold(k.th) THEN Die(k)
                               ELSE Onward([k EXCEPT !.th.cold = c])
    <3>1. CASE PikeCapStart
      BY <3>1 DEF PikeCapStart, Register
    <3>2. CASE PikeCapEnd
      BY <3>2 DEF PikeCapEnd, Register
    <3>3. CASE PikeAssign
      BY <3>3 DEF PikeAssign, Register
    <3> QED BY <1>9, <3>1, <3>2, <3>3
  <2>2. SameMatch(pike, k) /\ IsScan(k)
    BY <1>1, PartsKeepMatch DEF SameMatch
  <2> HIDE DEF k
  <2>3. SameMatch(k, Die(k)) /\ SameMatch(k, [k EXCEPT !.th.cold = c])
    BY <2>2, PartsKeepMatch
  <2>4. SameMatch([k EXCEPT !.th.cold = c], Onward([k EXCEPT !.th.cold = c]))
    BY <2>3, PartsKeepMatch DEF SameMatch
  <2>5. SameMatch(pike, Onward(pike))
    BY <1>1, PartsKeepMatch
  <2> QED BY <2>1, <2>2, <2>3, <2>4, <2>5, SameMatchTwice
<1>10. CASE PikeSplit
  <2> DEFINE t == [pike.th EXCEPT !.ip = Op.b, !.pos = pike.tp]
             f == Forked(pike)
  <2>1. pike' = IF pike.taken + Len(pike.work) < PIKE_THREAD_BUF /\ CanFork(pike)
                  THEN [f EXCEPT !.ip = Op.a, !.work = Append(f.work, t)]
                  ELSE [pike EXCEPT !.ip = Op.a, !.overflowed = TRUE]
    BY <1>10 DEF PikeSplit
  <2>2. SameMatch(pike, f)
    BY <1>1, PartsKeepMatch
  <2> HIDE DEF f, t
  <2>3. SameMatch(f, [f EXCEPT !.ip = Op.a, !.work = Append(f.work, t)])
    BY <2>2 DEF SameMatch, IsScan, PikeFields
  <2>4. SameMatch(pike, [pike EXCEPT !.ip = Op.a, !.overflowed = TRUE])
    BY <1>1 DEF SameMatch, IsScan, PikeFields
  <2> QED BY <2>1, <2>2, <2>3, <2>4, SameMatchTwice
<1>11. CASE PikeRepeatInit
  <2> DEFINE k == [Materialize(pike) EXCEPT !.overflowed = TRUE]
             c == [k.th.cold EXCEPT !.loop[Op.loop] = <<0, 0>>]
             m == IF HasCold(k.th) THEN [k EXCEPT !.th.cold = c] ELSE k
  <2>1. pike' = Onward(m)
    BY <1>11 DEF PikeRepeatInit
  <2>2. SameMatch(pike, k)
    BY <1>1, PartsKeepMatch, SameMatchTwice DEF SameMatch
  <2> HIDE DEF k, c
  <2>3. SameMatch(k, m)
    BY <2>2, PartsKeepMatch DEF SameMatch
  <2> HIDE DEF m
  <2>4. SameMatch(m, Onward(m))
    BY <2>3, PartsKeepMatch DEF SameMatch
  <2> QED BY <2>1, <2>2, <2>3, <2>4, SameMatchTwice
<1>12. CASE PikeRepeatStep
  <2> DEFINE k == IF Op.loop < MAX_LOOPS THEN Materialize(pike) ELSE pike
             l == k.th.cold.loop[Op.loop]
             c == [k.th.cold EXCEPT !.loop[Op.loop] = <<l[1] + 1, l[2]>>]
             d == [k.th.cold EXCEPT !.loop[Op.loop] = <<l[1] + 1, k.tp>>]
             m == [k EXCEPT !.th.cold = c, !.overflowed = TRUE, !.zero = TRUE]
             n == [k EXCEPT !.th.cold = d, !.ip = Op.target]
  <2>1. pike' = Onward(k) \/ pike' = Onward(m) \/ pike' = n
    BY <1>12 DEF PikeRepeatStep
  <2>2. SameMatch(pike, k)
    BY <1>1, PartsKeepMatch DEF SameMatch
  <2> HIDE DEF k, c, d
  <2>3. SameMatch(k, m) /\ SameMatch(k, n)
    BY <2>2 DEF SameMatch, IsScan, PikeFields
  <2> HIDE DEF m, n
  <2>4. SameMatch(k, Onward(k)) /\ SameMatch(m, Onward(m))
    BY <2>2, <2>3, PartsKeepMatch DEF SameMatch
  <2> QED BY <2>1, <2>2, <2>3, <2>4, SameMatchTwice
<1>13. CASE PikeLit \/ PikeAny \/ PikeNotany \/ PikeSpan \/ PikeBreak
  BY <1>3, <1>13 DEF PikeLit, PikeAny, PikeNotany, PikeSpan, PikeBreak
<1>14. CASE PikeBreakx
  <2> DEFINE end == RunUntil(pike.tp, Op.set)
             t == [pike.th EXCEPT !.ip = pike.ip, !.pos = end + 1]
             f == Forked(pike)
             m == [f EXCEPT !.defer = Append(f.defer, t)]
             o == [pike EXCEPT !.overflowed = TRUE]
  <2>1. pike' = Moved(m, end) \/ pike' = Moved(o, end)
    BY <1>14 DEF PikeBreakx
  <2>2. SameMatch(pike, f) /\ SameMatch(pike, o)
    BY <1>1, PartsKeepMatch
  <2> HIDE DEF end, t, f, o
  <2>3. SameMatch(f, m)
    BY <2>2, PartsKeepMatch DEF SameMatch
  <2> HIDE DEF m
  <2>4. SameMatch(m, Moved(m, end)) /\ SameMatch(o, Moved(o, end))
    BY <2>2, <2>3, MovedKeepsMatch DEF SameMatch
  <2> QED BY <2>1, <2>2, <2>3, <2>4, SameMatchTwice
<1> QED BY <1>4, <1>5, <1>6, <1>7, <1>8, <1>9, <1>10, <1>11, <1>12, <1>13, <1>14 DEF PikeStep

\* A thread that accepts started at the position or before, and its cursor is
\* there or behind.
LEMMA AcceptFindsInside ==
    ASSUME PikeInv, FoundInside, PikeAccept
    PROVE  pike'.found => pike'.start \in 0 .. SLen /\ pike'.end \in pike'.start .. SLen
<1> DEFINE regs == IF HasCold(pike.th) THEN Rebased(pike.th.cold, pike.th.start) ELSE ZeroRegs
           m == [pike EXCEPT !.found = TRUE, !.start = pike.th.start, !.end = pike.tp,
                             !.regs = regs]
<1>1. Active(pike)
  BY Fetched DEF PikeAccept
<1>2. pike' = Die(m) \/ pike' = Die(pike)
  BY DEF PikeAccept
<1> HIDE DEF regs
<1>3. IsScan(pike) /\ pike.status = "run" /\ pike.th.start \in 0 .. pike.pos
  BY <1>1 DEF Active
<1>4. IsScan(m) /\ m.start = pike.th.start /\ m.end = pike.tp
  BY <1>3 DEF IsScan, PikeFields
<1> HIDE DEF m
<1>5. m.start \in 0 .. SLen /\ m.end \in m.start .. SLen
  BY <1>1, <1>3, <1>4, Cursor
<1>6. SameMatch(m, Die(m)) /\ SameMatch(pike, Die(pike))
  BY <1>3, <1>4, PartsKeepMatch
<1> QED BY <1>2, <1>3, <1>5, <1>6 DEF SameMatch, FoundInside

(***************************************************************************)
(* The match a scan reports lies inside the subject and does not end       *)
(* before it starts: pike_scan takes the start from the thread that        *)
(* accepts and the end from its cursor, which is never before the position *)
(* of the scan, where threads that run have begun.                         *)
(***************************************************************************)
THEOREM MatchesInside == PikeSpec => []FoundInside
<1>1. PikeInit => FoundInside
  BY DEF PikeInit, FoundInside, PikeIdle
<1>2. PikeInv /\ FoundInside /\ [PikeNext]_pikeVars => FoundInside'
  <2> SUFFICES ASSUME PikeInv, FoundInside, [PikeNext]_pikeVars PROVE FoundInside'
    OBVIOUS
  <2>1. SLen' = SLen
    BY DEF PikeNext, pikeVars, SLen
  <2>2. CASE PikeCall
    BY <2>1, <2>2 DEF PikeCall, PikeStart, FoundInside
  <2>3. CASE PikeStep /\ ~PikeAccept
    <3>1. SameMatch(pike, pike')
      BY <2>3, OthersKeepMatch
    <3>2. pike.status # "idle"
      BY <2>3 DEF PikeStep, NextPosition, TakeThread, PikeEndOfCode, PikeNop, PikeAnchor,
         PikePos, PikeTab, PikeRtab, PikeLen, PikeJmp, PikeCapStart, PikeCapEnd, PikeAssign,
         PikeSplit, PikeRepeatInit, PikeRepeatStep, PikeAccept, PikeFail, PikeLit, PikeAny,
         PikeNotany, PikeSpan, PikeBreak, PikeBreakx, PikeFetch
    <3> QED BY <2>1, <3>1, <3>2 DEF SameMatch, FoundInside
  <2>4. CASE PikeAccept
    BY <2>1, <2>4, AcceptFindsInside DEF FoundInside
  <2>5. CASE UNCHANGED pikeVars
    BY <2>1, <2>5 DEF pikeVars, FoundInside
  <2> QED BY <2>2, <2>3, <2>4, <2>5 DEF PikeNext
<1> QED BY <1>1, <1>2, PikeInvariant, PTL DEF PikeSpec
=============================================================================
