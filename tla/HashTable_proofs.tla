-------------------------- MODULE HashTable_proofs --------------------------
(***************************************************************************)
(* Every search of the hash table ends, for all keys, hashes, capacities   *)
(* above four and sequences of operations; a write is read back at once;   *)
(* and the table is the map it promises to be until a deletion cuts a path.*)
(*                                                                         *)
(* The first invariant counts active slots: they are at most size (which   *)
(* no operation lowers without freeing a slot, although a resize and an    *)
(* insertion over an entry without a value leave it too large) and at most *)
(* size + tombstones (which is compared with the threshold).               *)
(*                                                                         *)
(* The second one is about the ways of keys through the array: no slot     *)
(* before an entry on its way is free, no key has two entries, and what a  *)
(* resize has moved and has still to move are the map together.            *)
(***************************************************************************)
EXTENDS HashTable, FiniteSetTheorems, WellFoundedInduction, TLAPS

EntryType == [key : Keys, value : Values \cup {NULL}, active : {TRUE}] \cup {Inactive}

Used(es, c) == {i \in 0 .. c - 1 : es[i].active}
LiveBelow(n) == {i \in 0 .. n - 1 : Live(entries[i])}

TableTypes ==
    /\ capacity \in Nat /\ capacity > 4
    /\ entries \in [0 .. capacity - 1 -> EntryType]
    /\ size \in Nat
    /\ tombstones \in Int
    /\ pc \in {"idle", "rehash", "set"}
    /\ arg \in [key : Keys \cup {NULL}, value : Values \cup {NULL}]
    /\ pc # "idle" => arg.key \in Keys

Counted ==
    LET n == Cardinality(Used(entries, capacity))
    IN  /\ n <= size
        /\ n <= size + tombstones
        /\ n < capacity
        /\ pc = "set" => n + 1 < capacity

Rehashing ==
    pc = "rehash" =>
        /\ next \in 0 .. capacity
        /\ new_entries \in [0 .. 2 * capacity - 1 -> EntryType]
        /\ Cardinality(Used(new_entries, 2 * capacity)) <= Cardinality(LiveBelow(next))

TableInv == TableTypes /\ Counted /\ Rehashing

\* What an active entry holds.
LEMMA ActiveEntry ==
    ASSUME NEW e \in EntryType, e.active
    PROVE  e \in [key : Keys, value : Values \cup {NULL}, active : {TRUE}] /\ e.key \in Keys
<1>1. Inactive.active = FALSE
  BY DEF Inactive
<1>2. e # Inactive
  BY <1>1
<1>3. e \in [key : Keys, value : Values \cup {NULL}, active : {TRUE}]
  BY <1>2 DEF EntryType
<1> QED BY <1>3

(***************************************************************************)
(* Counting slots.                                                         *)
(***************************************************************************)
\* A non-empty set of naturals has a least element.
LEMMA LeastExists ==
    ASSUME NEW S, S \subseteq Nat, S # {}
    PROVE  Least(S) \in S /\ \A x \in S : Least(S) <= x
<1>1. PICK d \in S : \A x \in S : ~(<<x, d>> \in OpToRel(<, Nat))
  BY NatLessThanWellFounded, WFMin, Zenon
<1>2. ASSUME NEW x \in S PROVE d <= x
  <2>1. d \in Nat /\ x \in Nat
    OBVIOUS
  <2>2. ~(<<x, d>> \in OpToRel(<, Nat))
    BY <1>1, Zenon
  <2>3. ~(x < d)
    BY <2>1, <2>2, Zenon DEF OpToRel
  <2> QED BY <2>1, <2>3
<1>3. \E y \in S : \A x \in S : y <= x
  BY <1>2
<1> QED BY <1>3, Zenon DEF Least

\* The used slots are a finite set.
LEMMA UsedFinite ==
    ASSUME NEW c \in Nat, NEW es
    PROVE  /\ IsFiniteSet(Used(es, c))
           /\ Cardinality(Used(es, c)) \in Nat
           /\ Cardinality(Used(es, c)) <= c
<1>1. IsFiniteSet(0 .. c - 1) /\ Cardinality(0 .. c - 1) = c
  BY FS_Interval
<1>2. Used(es, c) \in SUBSET (0 .. c - 1)
  BY DEF Used
<1>3. IsFiniteSet(Used(es, c)) /\ Cardinality(Used(es, c)) <= Cardinality(0 .. c - 1)
  BY <1>1, <1>2, FS_Subset
<1> QED BY <1>1, <1>3, FS_CardinalityType

\* If not all slots are used one is free.
LEMMA FreeExists ==
    ASSUME NEW c \in Nat, NEW es, Cardinality(Used(es, c)) < c
    PROVE  \E i \in 0 .. c - 1 : ~es[i].active
<1>1. Cardinality(0 .. c - 1) = c
  BY FS_Interval
<1> SUFFICES ASSUME \A i \in 0 .. c - 1 : es[i].active PROVE FALSE
  OBVIOUS
<1>2. Used(es, c) = 0 .. c - 1
  BY DEF Used
<1> QED BY <1>1, <1>2

\* No slot of a blank array is used.
LEMMA BlankUnused ==
    ASSUME NEW c \in Nat
    PROVE  Cardinality(Used(Blank(c), c)) = 0 /\ Blank(c) \in [0 .. c - 1 -> EntryType]
<1>1. Used(Blank(c), c) = {}
  BY DEF Used, Blank, Inactive
<1>2. Blank(c) \in [0 .. c - 1 -> EntryType]
  BY DEF Blank, Inactive, EntryType
<1> QED BY <1>1, <1>2, FS_EmptySet

\* Using one slot more.
LEMMA FillOne ==
    ASSUME NEW c \in Nat, NEW es \in [0 .. c - 1 -> EntryType], NEW i \in 0 .. c - 1,
           NEW e \in EntryType, e.active
    PROVE  /\ [es EXCEPT ![i] = e] \in [0 .. c - 1 -> EntryType]
           /\ Cardinality(Used([es EXCEPT ![i] = e], c)) =
                 IF es[i].active THEN Cardinality(Used(es, c)) ELSE Cardinality(Used(es, c)) + 1
<1>1. Used([es EXCEPT ![i] = e], c) = Used(es, c) \cup {i}
  BY DEF Used
<1>2. i \in Used(es, c) <=> es[i].active
  BY DEF Used
<1>3. IsFiniteSet(Used(es, c))
  BY UsedFinite
<1>4. Cardinality(Used(es, c) \cup {i}) =
         IF i \in Used(es, c) THEN Cardinality(Used(es, c)) ELSE Cardinality(Used(es, c)) + 1
  BY <1>3, FS_AddElement
<1>5. [es EXCEPT ![i] = e] \in [0 .. c - 1 -> EntryType]
  OBVIOUS
<1> QED BY <1>1, <1>2, <1>4, <1>5

\* Freeing a used slot.
LEMMA FreeOne ==
    ASSUME NEW c \in Nat, NEW es \in [0 .. c - 1 -> EntryType], NEW i \in 0 .. c - 1,
           es[i].active
    PROVE  /\ [es EXCEPT ![i] = Inactive] \in [0 .. c - 1 -> EntryType]
           /\ Cardinality(Used([es EXCEPT ![i] = Inactive], c)) = Cardinality(Used(es, c)) - 1
<1>1. Used([es EXCEPT ![i] = Inactive], c) = Used(es, c) \ {i}
  BY DEF Used, Inactive
<1>2. i \in Used(es, c)
  BY DEF Used
<1>3. IsFiniteSet(Used(es, c))
  BY UsedFinite
<1>4. Cardinality(Used(es, c) \ {i}) =
         IF i \in Used(es, c) THEN Cardinality(Used(es, c)) - 1 ELSE Cardinality(Used(es, c))
  BY <1>3, FS_RemoveElement
<1>5. [es EXCEPT ![i] = Inactive] \in [0 .. c - 1 -> EntryType]
  BY DEF Inactive, EntryType
<1> QED BY <1>1, <1>2, <1>4, <1>5

(***************************************************************************)
(* Probing.                                                                *)
(***************************************************************************)
\* A path stays inside the array and visits every slot.
LEMMA Paths ==
    ASSUME NEW k \in Keys, NEW c \in Nat, c > 0
    PROVE  /\ \A d \in 0 .. c - 1 : Along(k, d, c) \in 0 .. c - 1
           /\ \A i \in 0 .. c - 1 : \E d \in 0 .. c - 1 : Along(k, d, c) = i
<1> DEFINE h == Home(k, c)
<1>1. h \in 0 .. c - 1
  <2>1. Hash[k] \in Nat
    BY TableAssumption
  <2> QED BY <2>1 DEF Home
<1> HIDE DEF h
<1>2. \A d : Along(k, d, c) = IF h + d < c THEN h + d ELSE h + d - c
  BY DEF Along, h
<1>3. \A d \in 0 .. c - 1 : Along(k, d, c) \in 0 .. c - 1
  BY <1>1, <1>2
<1>4. ASSUME NEW i \in 0 .. c - 1 PROVE \E d \in 0 .. c - 1 : Along(k, d, c) = i
  <2>1. CASE i >= h
    <3>1. i - h \in 0 .. c - 1 /\ Along(k, i - h, c) = i
      BY <1>1, <1>2, <2>1
    <3> QED BY <3>1
  <2>2. CASE i < h
    <3>1. i - h + c \in 0 .. c - 1 /\ Along(k, i - h + c, c) = i
      BY <1>1, <1>2, <2>2
    <3> QED BY <3>1
  <2> QED BY <1>1, <2>1, <2>2
<1> QED BY <1>3, <1>4

\* A search in the table ends at one of its slots, and passes active ones only.
LEMMA SearchEnds ==
    ASSUME TableTypes, Counted, NEW k \in Keys
    PROVE  /\ Slot(k) \in 0 .. capacity - 1
           /\ Passed(k) # {} =>
                 LET i == Along(k, Least(Passed(k)), capacity)
                 IN  i \in 0 .. capacity - 1 /\ entries[i].active
<1>1. capacity \in Nat /\ capacity > 0 /\ Cardinality(Used(entries, capacity)) < capacity
  BY DEF TableTypes, Counted
<1>2. PICK i \in 0 .. capacity - 1 : ~entries[i].active
  BY <1>1, FreeExists
<1>3. PICK d \in 0 .. capacity - 1 : Along(k, d, capacity) = i
  BY <1>1, Paths
<1>4. d \in Halts(k) /\ Halts(k) \subseteq Nat
  BY <1>2, <1>3 DEF Halts
<1>5. Least(Halts(k)) \in Halts(k) /\ \A x \in Halts(k) : Least(Halts(k)) <= x
  BY <1>4, LeastExists
<1>6. Least(Halts(k)) \in 0 .. capacity - 1
  BY <1>5 DEF Halts
<1>7. Slot(k) \in 0 .. capacity - 1
  BY <1>1, <1>6, Paths DEF Slot
<1>8. ASSUME Passed(k) # {}
      PROVE  /\ Along(k, Least(Passed(k)), capacity) \in 0 .. capacity - 1
             /\ entries[Along(k, Least(Passed(k)), capacity)].active
  <2> DEFINE p == Least(Passed(k))
             r == Least(Halts(k))
  <2>1. Passed(k) \subseteq Nat
    BY DEF Passed
  <2>2. p \in Passed(k)
    BY <1>8, <2>1, LeastExists
  <2>3. r \in 0 .. capacity - 1 /\ \A x \in Halts(k) : r <= x
    BY <1>5, <1>6
  <2>4. p \in 0 .. r - 1
    BY <2>2 DEF Passed
  <2> HIDE DEF p, r
  <2>5. p \in 0 .. capacity - 1 /\ p \notin Halts(k)
    BY <1>1, <2>3, <2>4
  <2>6. entries[Along(k, p, capacity)].active
    BY <2>5 DEF Halts
  <2>7. Along(k, p, capacity) \in 0 .. capacity - 1
    BY <1>1, <2>5, Paths
  <2> QED BY <2>6, <2>7 DEF p
<1> QED BY <1>7, <1>8

\* So does the search of a resize for a free slot.
LEMMA FreeSlotFound ==
    ASSUME NEW k \in Keys, capacity \in Nat, capacity > 0,
           Cardinality(Used(new_entries, 2 * capacity)) < 2 * capacity
    PROVE  FreeSlot(k) \in 0 .. 2 * capacity - 1 /\ ~new_entries[FreeSlot(k)].active
<1> DEFINE c == 2 * capacity
           free == {d \in 0 .. c - 1 : ~new_entries[Along(k, d, c)].active}
<1>1. c \in Nat /\ c > 0 /\ Cardinality(Used(new_entries, c)) < c
  OBVIOUS
<1>2. FreeSlot(k) = Along(k, Least(free), c)
  BY DEF FreeSlot
<1> HIDE DEF c
<1>3. PICK i \in 0 .. c - 1 : ~new_entries[i].active
  BY <1>1, FreeExists
<1>4. PICK d \in 0 .. c - 1 : Along(k, d, c) = i
  BY <1>1, Paths
<1>5. d \in free /\ free \subseteq Nat
  BY <1>3, <1>4
<1>6. Least(free) \in free
  <2> HIDE DEF free
  <2> QED BY <1>5, LeastExists
<1>7. Along(k, Least(free), c) \in 0 .. c - 1
  BY <1>1, <1>6, Paths
<1> QED BY <1>2, <1>6, <1>7 DEF c

(***************************************************************************)
(* The steps.                                                              *)
(***************************************************************************)
\* An entry is erased: one slot less is used, the sum of both counters stays.
LEMMA EraseStep ==
    ASSUME TableTypes, Counted, NEW k \in Keys, entries[Slot(k)].active, Erase(k)
    PROVE  /\ entries' \in [0 .. capacity - 1 -> EntryType]
           /\ size' \in Nat /\ tombstones' \in Int
           /\ Cardinality(Used(entries', capacity)) \in Nat
           /\ Cardinality(Used(entries', capacity)) <= size'
           /\ Cardinality(Used(entries', capacity)) <= size' + tombstones'
           /\ Cardinality(Used(entries', capacity)) + 1 < capacity
<1> DEFINE n == Cardinality(Used(entries, capacity))
           es == [entries EXCEPT ![Slot(k)] = Inactive]
<1>1. capacity \in Nat /\ entries \in [0 .. capacity - 1 -> EntryType]
      /\ size \in Nat /\ tombstones \in Int
  BY DEF TableTypes
<1>2. n \in Nat /\ n <= size /\ n <= size + tombstones /\ n < capacity
  BY <1>1, UsedFinite DEF Counted
<1>3. Slot(k) \in 0 .. capacity - 1
  BY SearchEnds
<1>4. es \in [0 .. capacity - 1 -> EntryType] /\ Cardinality(Used(es, capacity)) = n - 1
  BY <1>1, <1>3, FreeOne
<1>5. entries' = es /\ size' = size - 1 /\ tombstones' = tombstones + 1
  BY DEF Erase
<1>6. Cardinality(Used(es, capacity)) \in Nat
  BY <1>1, UsedFinite
<1> HIDE DEF es, n
<1> QED BY <1>1, <1>2, <1>4, <1>5, <1>6

\* A key is inserted: either in a free slot, or over an entry without a value.
LEMMA InsertStep ==
    ASSUME TableTypes, Counted, pc = "set", NEW k \in Keys, NEW v \in Values \cup {NULL},
           ~entries[Slot(k)].active, Insert(k, v)
    PROVE  /\ entries' \in [0 .. capacity - 1 -> EntryType]
           /\ size' \in Nat /\ tombstones' \in Int
           /\ Cardinality(Used(entries', capacity)) <= size'
           /\ Cardinality(Used(entries', capacity)) <= size' + tombstones'
           /\ Cardinality(Used(entries', capacity)) < capacity
<1> DEFINE n == Cardinality(Used(entries, capacity))
           e == Entry(k, v)
<1>1. capacity \in Nat /\ entries \in [0 .. capacity - 1 -> EntryType]
      /\ size \in Nat /\ tombstones \in Int
  BY DEF TableTypes
<1>2. n \in Nat /\ n <= size /\ n <= size + tombstones /\ n + 1 < capacity
  BY <1>1, UsedFinite DEF Counted
<1>3. e \in EntryType /\ e.active
  BY DEF Entry, EntryType
<1>4. size' = size + 1
  BY DEF Insert
<1> HIDE DEF e
<1>5. CASE Passed(k) # {}
  <2> DEFINE i == Along(k, Least(Passed(k)), capacity)
             es == [entries EXCEPT ![i] = e]
  <2>1. i \in 0 .. capacity - 1 /\ entries[i].active
    BY <1>5, SearchEnds
  <2>2. entries' = es /\ tombstones' = tombstones - 1
    BY <1>5 DEF Insert, e
  <2> HIDE DEF i
  <2>3. es \in [0 .. capacity - 1 -> EntryType] /\ Cardinality(Used(es, capacity)) = n
    BY <1>1, <1>3, <2>1, FillOne
  <2> HIDE DEF es, n
  <2> QED BY <1>1, <1>2, <1>4, <2>2, <2>3
<1>6. CASE Passed(k) = {}
  <2> DEFINE es == [entries EXCEPT ![Slot(k)] = e]
  <2>1. Slot(k) \in 0 .. capacity - 1
    BY SearchEnds
  <2>2. entries' = es /\ tombstones' = tombstones
    BY <1>6 DEF Insert, e
  <2>3. es \in [0 .. capacity - 1 -> EntryType] /\ Cardinality(Used(es, capacity)) = n + 1
    BY <1>1, <1>3, <2>1, FillOne
  <2> HIDE DEF es, n
  <2> QED BY <1>1, <1>2, <1>4, <2>2, <2>3
<1> QED BY <1>5, <1>6

\* A value is replaced: the same slots are used.
LEMMA UpdateStep ==
    ASSUME TableTypes, Counted, NEW k \in Keys, NEW v \in Values,
           entries[Slot(k)].active, Update(k, v)
    PROVE  /\ entries' \in [0 .. capacity - 1 -> EntryType]
           /\ Cardinality(Used(entries', capacity)) = Cardinality(Used(entries, capacity))
<1> DEFINE e == [entries[Slot(k)] EXCEPT !.value = v]
<1>1. capacity \in Nat /\ entries \in [0 .. capacity - 1 -> EntryType]
  BY DEF TableTypes
<1>2. Slot(k) \in 0 .. capacity - 1
  BY SearchEnds
<1>3. entries[Slot(k)] \in EntryType
  BY <1>1, <1>2
<1>4. e \in EntryType /\ e.active
  <2>1. entries[Slot(k)] \in [key : Keys, value : Values \cup {NULL}, active : {TRUE}]
    BY <1>3, ActiveEntry
  <2>2. e \in [key : Keys, value : Values \cup {NULL}, active : {TRUE}]
    BY <2>1
  <2> HIDE DEF e
  <2> QED BY <2>2 DEF EntryType
<1>5. entries' = [entries EXCEPT ![Slot(k)] = e]
  BY DEF Update
<1> HIDE DEF e
<1> QED BY <1>1, <1>2, <1>4, <1>5, FillOne

\* A resize moves at most one entry a step.
LEMMA MoveStep ==
    ASSUME TableInv, Move
    PROVE  Rehashing'
<1> DEFINE c == 2 * capacity
<1>1. /\ capacity \in Nat /\ capacity > 4 /\ entries \in [0 .. capacity - 1 -> EntryType]
      /\ next \in 0 .. capacity /\ new_entries \in [0 .. c - 1 -> EntryType]
      /\ Cardinality(Used(new_entries, c)) <= Cardinality(LiveBelow(next))
      /\ next < capacity /\ next' = next + 1 /\ pc' = pc /\ entries' = entries
      /\ capacity' = capacity
  BY DEF TableInv, TableTypes, Rehashing, Move
<1>2. c \in Nat /\ c > 0
  BY <1>1
<1>3. next \in 0 .. capacity - 1 /\ next + 1 \in 0 .. capacity
  BY <1>1
<1>4. IsFiniteSet(LiveBelow(next)) /\ Cardinality(LiveBelow(next)) \in Nat
      /\ Cardinality(LiveBelow(next)) <= next
  <2>1. IsFiniteSet(0 .. next - 1) /\ Cardinality(0 .. next - 1) = next
    BY <1>3, FS_Interval
  <2>2. LiveBelow(next) \in SUBSET (0 .. next - 1)
    BY DEF LiveBelow
  <2>3. IsFiniteSet(LiveBelow(next)) /\ Cardinality(LiveBelow(next)) <= next
    BY <2>1, <2>2, FS_Subset
  <2> QED BY <2>3, FS_CardinalityType
<1>5. Cardinality(Used(new_entries, c)) \in Nat
  BY <1>2, UsedFinite
<1>6. CASE Live(entries[next])
  <2> DEFINE e == entries[next]
             i == FreeSlot(e.key)
             ns == [new_entries EXCEPT ![i] = e]
  <2>1. e \in EntryType /\ e.active
    BY <1>1, <1>3, <1>6 DEF Live
  <2>2. e.key \in Keys
    BY <2>1, ActiveEntry
  <2>3. Cardinality(Used(new_entries, c)) < c
    BY <1>1, <1>3, <1>4, <1>5
  <2>4. i \in 0 .. c - 1 /\ ~new_entries[i].active
    BY <1>1, <2>2, <2>3, FreeSlotFound
  <2>5. new_entries' = ns
    BY <1>6 DEF Move
  <2> HIDE DEF e, i
  <2>6. ns \in [0 .. c - 1 -> EntryType]
        /\ Cardinality(Used(ns, c)) = Cardinality(Used(new_entries, c)) + 1
    BY <1>1, <1>2, <2>1, <2>4, FillOne
  <2>7. LiveBelow(next)' = LiveBelow(next) \cup {next}
    BY <1>1, <1>3, <1>6 DEF LiveBelow, Live
  <2>8. next \notin LiveBelow(next)
    BY <1>3 DEF LiveBelow
  <2>9. Cardinality(LiveBelow(next) \cup {next}) = Cardinality(LiveBelow(next)) + 1
    BY <1>4, <2>8, FS_AddElement
  <2> HIDE DEF ns
  <2>10. Cardinality(Used(ns, c)) <= Cardinality(LiveBelow(next)')
    <3>1. Cardinality(LiveBelow(next)') = Cardinality(LiveBelow(next)) + 1
      BY <2>7, <2>9, Zenon
    <3> QED BY <1>1, <1>4, <1>5, <2>6, <3>1
  <2> QED BY <1>1, <1>3, <2>5, <2>6, <2>10 DEF Rehashing
<1>7. CASE ~Live(entries[next])
  <2>1. new_entries' = new_entries
    BY <1>7 DEF Move
  <2>2. LiveBelow(next)' = LiveBelow(next)
    BY <1>1, <1>3, <1>7 DEF LiveBelow, Live
  <2> QED BY <1>1, <1>3, <2>1, <2>2 DEF Rehashing
<1> QED BY <1>6, <1>7

\* A finished resize: no more slots are used than before, of twice as many.
LEMMA ResizedStep ==
    ASSUME TableInv, Resized
    PROVE  TableInv'
<1> DEFINE c == 2 * capacity
           n == Cardinality(Used(entries, capacity))
           m == Cardinality(Used(new_entries, c))
<1>1. /\ capacity \in Nat /\ capacity > 4
      /\ new_entries \in [0 .. c - 1 -> EntryType]
      /\ m <= Cardinality(LiveBelow(capacity))
      /\ n <= size /\ n < capacity /\ size \in Nat
      /\ entries' = new_entries /\ capacity' = c /\ tombstones' = 0 /\ pc' = "set"
      /\ size' = size /\ arg' = arg
  BY DEF TableInv, TableTypes, Counted, Rehashing, Resized
<1>2. c \in Nat /\ c > 4
  BY <1>1
<1>3. n \in Nat /\ m \in Nat
  BY <1>1, <1>2, UsedFinite
<1>4. Cardinality(LiveBelow(capacity)) <= n
  <2>1. LiveBelow(capacity) \in SUBSET Used(entries, capacity)
    BY DEF LiveBelow, Live, Used
  <2>2. IsFiniteSet(Used(entries, capacity))
    BY <1>1, UsedFinite
  <2> QED BY <2>1, <2>2, FS_Subset
<1>5. Cardinality(LiveBelow(capacity)) \in Nat
  <2>1. LiveBelow(capacity) \in SUBSET Used(entries, capacity)
    BY DEF LiveBelow, Live, Used
  <2>2. IsFiniteSet(LiveBelow(capacity))
    BY <1>1, <2>1, UsedFinite, FS_Subset
  <2> QED BY <2>2, FS_CardinalityType
<1> HIDE DEF n, m
<1>6. m <= size /\ m + 1 < c
  BY <1>1, <1>3, <1>4, <1>5
<1>7. TableTypes'
  BY <1>1, <1>2 DEF TableInv, TableTypes, Resized
<1>8. Counted'
  <2>1. Cardinality(Used(entries, capacity))' = m
    BY <1>1 DEF m
  <2> QED BY <1>1, <1>2, <1>3, <1>6, <2>1 DEF Counted
<1>9. Rehashing'
  BY <1>1 DEF Rehashing
<1> QED BY <1>7, <1>8, <1>9 DEF TableInv

\* A call of table_set_ex: without a resize there is room below the threshold.
LEMMA SetCallStep ==
    ASSUME TableInv, NEW k \in Keys, NEW v \in Values \cup {NULL}, SetCall(k, v)
    PROVE  TableInv'
<1> DEFINE n == Cardinality(Used(entries, capacity))
<1>1. /\ capacity \in Nat /\ capacity > 4 /\ size \in Nat /\ tombstones \in Int
      /\ n <= size /\ n <= size + tombstones /\ n < capacity
      /\ entries' = entries /\ capacity' = capacity /\ size' = size
      /\ tombstones' = tombstones /\ arg' = [key |-> k, value |-> v]
  BY DEF TableInv, TableTypes, Counted, SetCall
<1>2. n \in Nat /\ Cardinality(Used(entries, capacity))' = n
  BY <1>1, UsedFinite
<1>3. TableTypes'
  BY <1>1 DEF TableInv, TableTypes, SetCall
<1> HIDE DEF n
<1>4. CASE NeedsResize
  <2>1. pc' = "rehash" /\ new_entries' = Blank(2 * capacity) /\ next' = 0
    BY <1>4 DEF SetCall
  <2>2. 2 * capacity \in Nat /\ 0 \in 0 .. capacity
    BY <1>1
  <2>3. Cardinality(Used(Blank(2 * capacity), 2 * capacity)) = 0
        /\ Blank(2 * capacity) \in [0 .. 2 * capacity - 1 -> EntryType]
    BY <2>2, BlankUnused
  <2>4. LiveBelow(next)' = {}
    BY <2>1 DEF LiveBelow
  <2>5. Rehashing'
    <3>1. Cardinality(LiveBelow(next)') = 0
      BY <2>4, FS_EmptySet, Zenon
    <3>2. Cardinality(Used(new_entries', 2 * capacity')) = 0
      BY <1>1, <2>1, <2>3
    <3>3. new_entries' \in [0 .. 2 * capacity' - 1 -> EntryType] /\ next' \in 0 .. capacity'
      BY <1>1, <2>1, <2>2, <2>3
    <3> QED BY <3>1, <3>2, <3>3 DEF Rehashing
  <2>6. Counted'
    BY <1>1, <1>2, <2>1 DEF Counted
  <2> QED BY <1>3, <2>5, <2>6 DEF TableInv
<1>5. CASE ~NeedsResize
  <2>1. pc' = "set"
    BY <1>5 DEF SetCall
  <2>2. size + tombstones <= (capacity * 3) \div 4
    BY <1>1, <1>5 DEF NeedsResize
  <2>3. n + 1 < capacity
    BY <1>1, <1>2, <2>2
  <2>4. Counted'
    BY <1>1, <1>2, <2>1, <2>3 DEF Counted
  <2> QED BY <1>3, <2>1, <2>4 DEF TableInv, Rehashing
<1> QED BY <1>4, <1>5

\* The second half of table_set_ex.
LEMMA SetStep ==
    ASSUME TableInv, Set
    PROVE  TableInv'
<1> DEFINE k == arg.key
           v == arg.value
<1>1. /\ TableTypes /\ Counted /\ pc = "set" /\ pc' = "idle" /\ capacity' = capacity
      /\ k \in Keys /\ v \in Values \cup {NULL} /\ arg' = NoCall
  BY DEF TableInv, TableTypes, Set
<1>2. arg' \in [key : Keys \cup {NULL}, value : Values \cup {NULL}]
  BY <1>1 DEF NoCall
<1>3. ASSUME /\ entries' \in [0 .. capacity - 1 -> EntryType]
             /\ size' \in Nat /\ tombstones' \in Int
             /\ Cardinality(Used(entries', capacity)) <= size'
             /\ Cardinality(Used(entries', capacity)) <= size' + tombstones'
             /\ Cardinality(Used(entries', capacity)) < capacity
      PROVE  TableInv'
  BY <1>1, <1>2, <1>3 DEF TableInv, TableTypes, Counted, Rehashing
<1>4. capacity \in Nat /\ size \in Nat /\ tombstones \in Int
  BY <1>1 DEF TableTypes
<1> HIDE DEF k, v
<1>5. CASE entries[Slot(k)].active /\ v # NULL /\ Update(k, v)
  <2>1. v \in Values
    BY <1>1, <1>5
  <2>2. /\ entries' \in [0 .. capacity - 1 -> EntryType]
        /\ Cardinality(Used(entries', capacity)) = Cardinality(Used(entries, capacity))
    BY <1>1, <1>5, <2>1, UpdateStep
  <2>3. size' = size /\ tombstones' = tombstones
    BY <1>5 DEF Update
  <2> QED BY <1>1, <1>3, <1>4, <2>2, <2>3 DEF Counted
<1>6. CASE entries[Slot(k)].active /\ v = NULL /\ Erase(k)
  <2>1. /\ entries' \in [0 .. capacity - 1 -> EntryType]
        /\ size' \in Nat /\ tombstones' \in Int
        /\ Cardinality(Used(entries', capacity)) \in Nat
        /\ Cardinality(Used(entries', capacity)) <= size'
        /\ Cardinality(Used(entries', capacity)) <= size' + tombstones'
        /\ Cardinality(Used(entries', capacity)) + 1 < capacity
    BY <1>1, <1>6, EraseStep
  <2> QED BY <1>3, <1>4, <2>1
<1>7. CASE ~entries[Slot(k)].active /\ Insert(k, v)
  BY <1>1, <1>3, <1>7, InsertStep
<1> QED BY <1>5, <1>6, <1>7 DEF Set, k, v

\* table_delete_ex
LEMMA DeleteStep ==
    ASSUME TableInv, NEW k \in Keys, Delete(k)
    PROVE  TableInv'
<1>1. TableTypes /\ Counted /\ pc = "idle" /\ pc' = "idle" /\ capacity' = capacity /\ arg' = arg
      /\ entries[Slot(k)].active /\ Erase(k)
  BY DEF TableInv, Delete
<1>2. /\ entries' \in [0 .. capacity - 1 -> EntryType]
      /\ size' \in Nat /\ tombstones' \in Int
      /\ Cardinality(Used(entries', capacity)) \in Nat
      /\ Cardinality(Used(entries', capacity)) <= size'
      /\ Cardinality(Used(entries', capacity)) <= size' + tombstones'
      /\ Cardinality(Used(entries', capacity)) + 1 < capacity
  BY <1>1, EraseStep
<1>3. capacity \in Nat
  BY <1>1 DEF TableTypes
<1>4. Cardinality(Used(entries', capacity)) < capacity
  BY <1>2, <1>3
<1> QED BY <1>1, <1>2, <1>4 DEF TableInv, TableTypes, Counted, Rehashing

\* table_clear
LEMMA ClearStep ==
    ASSUME TableInv, Clear
    PROVE  TableInv'
<1>1. capacity \in Nat /\ capacity > 4
  BY DEF TableInv, TableTypes
<1>2. Cardinality(Used(Blank(capacity), capacity)) = 0
      /\ Blank(capacity) \in [0 .. capacity - 1 -> EntryType]
  BY <1>1, BlankUnused
<1> QED BY <1>1, <1>2 DEF TableInv, TableTypes, Counted, Rehashing, Clear

\* A created table is empty.
LEMMA TableInit == Init => TableInv
<1> SUFFICES ASSUME Init PROVE TableInv
  OBVIOUS
<1>1. capacity \in Nat /\ capacity > 4
  BY TableAssumption DEF Init
<1>2. Cardinality(Used(Blank(capacity), capacity)) = 0
      /\ Blank(capacity) \in [0 .. capacity - 1 -> EntryType]
  BY <1>1, BlankUnused
<1> QED BY <1>1, <1>2 DEF Init, NoCall, TableInv, TableTypes, Counted, Rehashing

\* Every operation keeps the counts.
LEMMA TableStep == TableInv /\ [Next]_vars => TableInv'
<1> SUFFICES ASSUME TableInv, [Next]_vars PROVE TableInv'
  OBVIOUS
<1>1. ASSUME NEW k \in Keys, NEW v \in Values \cup {NULL}, SetCall(k, v) PROVE TableInv'
  BY <1>1, SetCallStep
<1>2. CASE Move
  <2>1. Rehashing'
    BY <1>2, MoveStep
  <2> QED BY <1>2, <2>1 DEF Move, TableInv, TableTypes, Counted
<1>3. CASE Resized
  BY <1>3, ResizedStep
<1>4. CASE Set
  BY <1>4, SetStep
<1>5. CASE SetFails
  BY <1>5 DEF SetFails, NoCall, TableInv, TableTypes, Counted, Rehashing
<1>6. ASSUME NEW k \in Keys, Delete(k) PROVE TableInv'
  BY <1>6, DeleteStep
<1>7. CASE Clear
  BY <1>7, ClearStep
<1>8. CASE UNCHANGED vars
  BY <1>8 DEF vars, TableInv, TableTypes, Counted, Rehashing, LiveBelow
<1> QED BY <1>1, <1>2, <1>3, <1>4, <1>5, <1>6, <1>7, <1>8 DEF Next

\* The counts leave a slot free, in the table and in the one a resize fills.
LEMMA CountsLeaveRoom == TableInv => ProbeEnds
<1> SUFFICES ASSUME TableInv PROVE ProbeEnds
  OBVIOUS
<1>1. capacity \in Nat /\ capacity > 4 /\ Cardinality(Used(entries, capacity)) < capacity
  BY DEF TableInv, TableTypes, Counted
<1>2. \E i \in Slots : ~entries[i].active
  BY <1>1, FreeExists DEF Slots
<1>3. ASSUME pc = "rehash"
      PROVE  \E i \in 0 .. 2 * capacity - 1 : ~new_entries[i].active
  <2>1. next \in 0 .. capacity
        /\ Cardinality(Used(new_entries, 2 * capacity)) <= Cardinality(LiveBelow(next))
    BY <1>3 DEF TableInv, Rehashing
  <2>2. IsFiniteSet(0 .. next - 1) /\ Cardinality(0 .. next - 1) = next
    <3>1. next \in Nat /\ next - 1 \in Int
      BY <1>1, <2>1
    <3> QED BY <3>1, FS_Interval
  <2>3. LiveBelow(next) \in SUBSET (0 .. next - 1)
    BY DEF LiveBelow
  <2>4. IsFiniteSet(LiveBelow(next)) /\ Cardinality(LiveBelow(next)) <= next
    BY <2>2, <2>3, FS_Subset
  <2>5. Cardinality(LiveBelow(next)) \in Nat /\ 2 * capacity \in Nat
        /\ Cardinality(Used(new_entries, 2 * capacity)) \in Nat
    BY <1>1, <2>4, FS_CardinalityType, UsedFinite
  <2>6. Cardinality(Used(new_entries, 2 * capacity)) < 2 * capacity
    BY <1>1, <2>1, <2>4, <2>5
  <2> QED BY <2>5, <2>6, FreeExists
<1> QED BY <1>2, <1>3 DEF ProbeEnds

(***************************************************************************)
(* Theorem.                                                                *)
(***************************************************************************)
\* No search of table_get_ex, table_set_ex, table_delete_ex or table_resize
\* can go round a full array for ever.
THEOREM SearchesEnd == Spec => []ProbeEnds
<1>1. Init => TableInv
  BY TableInit
<1>2. TableInv /\ [Next]_vars => TableInv'
  BY TableStep
<1>3. TableInv => ProbeEnds
  BY CountsLeaveRoom
<1> QED BY <1>1, <1>2, <1>3, PTL DEF Spec

(***************************************************************************)
(* The table as a map.                                                     *)
(*                                                                         *)
(* The definitions below take the array and its length, so that what holds *)
(* of a search holds in the table, in the array a resize fills, and in the *)
(* table after a step.                                                     *)
(***************************************************************************)
\* Where a search for k ends, as distances along its path.
Halting(es, c, k) ==
    {d \in 0 .. c - 1 : LET e == es[Along(k, d, c)] IN ~e.active \/ e.key = k}

\* The entry it ends at.
Answer(es, c, k) == es[Along(k, Least(Halting(es, c, k)), c)]

\* It does not end before distance d.
Passes(es, c, k, d) == \A x \in 0 .. d - 1 : x \notin Halting(es, c, k)

\* Entry e is written there.
Written(es, c, k, d, e) == [es EXCEPT ![Along(k, d, c)] = e]

Holds(es, c, k) == \E i \in 0 .. c - 1 : es[i].active /\ es[i].key = k

\* The slots on the way to an active entry are active.
Reachable(es, c) ==
    \A k \in Keys : \A d \in 0 .. c - 1 :
        LET e == es[Along(k, d, c)]
        IN  e.active /\ e.key = k => \A x \in 0 .. d - 1 : es[Along(k, x, c)].active

\* No key has two entries.
Once(es, c) ==
    \A i, j \in 0 .. c - 1 : es[i].active /\ es[j].active /\ es[i].key = es[j].key => i = j

\* The entries are what was set.
Agree(es, c, con) ==
    /\ \A i \in 0 .. c - 1 : es[i].active => es[i].value = con[es[i].key]
    /\ \A k \in Keys : con[k] # NULL => Holds(es, c, k)

MapOf(es, c, con) == Reachable(es, c) /\ Once(es, c) /\ Agree(es, c, con)

\* The array a resize fills has the entries with values of the slots done.
Moved ==
    pc = "rehash" =>
        /\ Reachable(new_entries, 2 * capacity)
        /\ Once(new_entries, 2 * capacity)
        /\ \A j \in 0 .. 2 * capacity - 1 : new_entries[j].active =>
               \E i \in 0 .. next - 1 : entries[i] = new_entries[j]
        /\ \A i \in 0 .. next - 1 : Live(entries[i]) =>
               \E j \in 0 .. 2 * capacity - 1 : new_entries[j] = entries[i]

\* Until a deletion cuts a path the table is a map, during a resize too.
MapInv ==
    /\ contents \in [Keys -> Values \cup {NULL}]
    /\ cut \in BOOLEAN
    /\ ~cut => MapOf(entries, capacity, contents) /\ Moved

\* A path visits a slot once.
LEMMA AlongOnce ==
    ASSUME NEW k \in Keys, NEW c \in Nat, c > 0, NEW d \in 0 .. c - 1, NEW x \in 0 .. c - 1,
           Along(k, d, c) = Along(k, x, c)
    PROVE  d = x
<1> DEFINE h == Home(k, c)
<1>1. h \in 0 .. c - 1
  <2>1. Hash[k] \in Nat
    BY TableAssumption
  <2> QED BY <2>1 DEF Home
<1> HIDE DEF h
<1>2. \A y : Along(k, y, c) = IF h + y < c THEN h + y ELSE h + y - c
  BY DEF Along, h
<1>3. (IF h + d < c THEN h + d ELSE h + d - c) = (IF h + x < c THEN h + x ELSE h + x - c)
  BY <1>2
<1> QED BY <1>1, <1>3

\* A search that can end does, at a slot no earlier one of its path is like.
LEMMA SearchStops ==
    ASSUME NEW k \in Keys, NEW c \in Nat, NEW es, Halting(es, c, k) # {}
    PROVE  LET d == Least(Halting(es, c, k))
           IN  /\ d \in 0 .. c - 1
               /\ ~es[Along(k, d, c)].active \/ es[Along(k, d, c)].key = k
               /\ \A x \in 0 .. d - 1 : /\ x \in 0 .. c - 1
                                        /\ es[Along(k, x, c)].active
                                        /\ es[Along(k, x, c)].key # k
<1> DEFINE H == Halting(es, c, k)
           d == Least(H)
<1>1. H \subseteq Nat /\ H # {}
  BY DEF Halting
<1>2. d \in H /\ \A x \in H : d <= x
  <2> HIDE DEF H
  <2> QED BY <1>1, LeastExists
<1> HIDE DEF d
<1>3. d \in 0 .. c - 1 /\ (~es[Along(k, d, c)].active \/ es[Along(k, d, c)].key = k)
  BY <1>2 DEF Halting
<1>4. ASSUME NEW x \in 0 .. d - 1
      PROVE  x \in 0 .. c - 1 /\ es[Along(k, x, c)].active /\ es[Along(k, x, c)].key # k
  <2>1. x \in 0 .. c - 1
    BY <1>3
  <2>2. x \notin H
    BY <1>2, <1>3
  <2> QED BY <2>1, <2>2 DEF Halting
<1> QED BY <1>3, <1>4 DEF d

\* A search ends at the first slot it can end at.
LEMMA StopsAt ==
    ASSUME NEW k \in Keys, NEW c \in Nat, NEW es, NEW d \in Halting(es, c, k),
           Passes(es, c, k, d)
    PROVE  Least(Halting(es, c, k)) = d
<1> DEFINE H == Halting(es, c, k)
<1>1. H \subseteq Nat /\ d \in Nat
  BY DEF Halting
<1> HIDE DEF H
<1>2. d \in H /\ H # {} /\ \A x \in 0 .. d - 1 : x \notin H
  BY DEF H, Passes
<1>3. Least(H) \in H /\ \A x \in H : Least(H) <= x
  BY <1>1, <1>2, LeastExists
<1>4. Least(H) \in Nat /\ Least(H) <= d
  BY <1>1, <1>2, <1>3
<1>5. Least(H) = d
  BY <1>1, <1>2, <1>3, <1>4
<1> QED BY <1>5 DEF H

\* What is written on k's path, before any slot a search for k ends at or at
\* that slot, is what a search for k finds.
LEMMA ReadBack ==
    ASSUME NEW k \in Keys, NEW c \in Nat, c > 0, NEW es \in [0 .. c - 1 -> EntryType],
           NEW d \in 0 .. c - 1, Passes(es, c, k, d), NEW e, ~e.active \/ e.key = k
    PROVE  Answer(Written(es, c, k, d, e), c, k) = e
<1> DEFINE s   == Along(k, d, c)
           es2 == Written(es, c, k, d, e)
<1>1. s \in 0 .. c - 1
  BY Paths
<1>2. es2[s] = e /\ \A i \in 0 .. c - 1 : i # s => es2[i] = es[i]
  BY <1>1 DEF Written
<1> HIDE DEF es2
<1>3. d \in Halting(es2, c, k)
  BY <1>2 DEF Halting
<1>4. ASSUME NEW x \in 0 .. d - 1 PROVE x \notin Halting(es2, c, k)
  <2>1. x \in 0 .. c - 1 /\ x # d
    OBVIOUS
  <2>2. Along(k, x, c) \in 0 .. c - 1 /\ Along(k, x, c) # s
    <3>1. Along(k, x, c) \in 0 .. c - 1
      BY <2>1, Paths
    <3>2. Along(k, d, c) # Along(k, x, c)
      BY <2>1, AlongOnce
    <3> QED BY <3>1, <3>2
  <2>3. es2[Along(k, x, c)] = es[Along(k, x, c)]
    BY <1>2, <2>2
  <2> QED BY <2>1, <2>3 DEF Halting, Passes
<1>5. Least(Halting(es2, c, k)) = d
  <2>1. Passes(es2, c, k, d)
    BY <1>4 DEF Passes
  <2> QED BY <1>3, <2>1, StopsAt
<1> QED BY <1>2, <1>5 DEF Answer, es2

\* A search of the table can end.
LEMMA TableStops ==
    ASSUME TableTypes, Counted, NEW k \in Keys
    PROVE  Halting(entries, capacity, k) # {} /\ Halts(k) = Halting(entries, capacity, k)
<1>1. capacity \in Nat /\ capacity > 0 /\ Cardinality(Used(entries, capacity)) < capacity
  BY DEF TableTypes, Counted
<1>2. PICK i \in 0 .. capacity - 1 : ~entries[i].active
  BY <1>1, FreeExists
<1>3. PICK d \in 0 .. capacity - 1 : Along(k, d, capacity) = i
  BY <1>1, Paths
<1> QED BY <1>2, <1>3 DEF Halting, Halts

\* The slot a search ends at.
LEMMA SlotFacts ==
    ASSUME TableTypes, Counted, NEW k \in Keys
    PROVE  \E d \in 0 .. capacity - 1 :
              /\ Slot(k) = Along(k, d, capacity) /\ d = Least(Halts(k))
              /\ Slot(k) \in 0 .. capacity - 1
              /\ ~entries[Slot(k)].active \/ entries[Slot(k)].key = k
              /\ \A x \in 0 .. d - 1 : /\ x \in 0 .. capacity - 1
                                       /\ entries[Along(k, x, capacity)].active
                                       /\ entries[Along(k, x, capacity)].key # k
<1>1. capacity \in Nat
  BY DEF TableTypes
<1>2. Halting(entries, capacity, k) # {} /\ Halts(k) = Halting(entries, capacity, k)
  BY TableStops
<1> DEFINE d == Least(Halts(k))
<1>3. /\ d \in 0 .. capacity - 1
      /\ ~entries[Along(k, d, capacity)].active \/ entries[Along(k, d, capacity)].key = k
      /\ \A x \in 0 .. d - 1 : /\ x \in 0 .. capacity - 1
                               /\ entries[Along(k, x, capacity)].active
                               /\ entries[Along(k, x, capacity)].key # k
  BY <1>1, <1>2, SearchStops
<1>4. Slot(k) = Along(k, d, capacity)
  BY DEF Slot
<1>5. Slot(k) \in 0 .. capacity - 1
  BY SearchEnds
<1> QED BY <1>3, <1>4, <1>5

\* Active entries without a value are passed before the search ends.
LEMMA PassedFacts ==
    ASSUME TableTypes, Counted, NEW k \in Keys, Passed(k) # {}
    PROVE  LET p == Least(Passed(k))
           IN  /\ p \in 0 .. capacity - 1
               /\ Along(k, p, capacity) \in 0 .. capacity - 1
               /\ entries[Along(k, p, capacity)].active
               /\ entries[Along(k, p, capacity)].value = NULL
               /\ \A x \in 0 .. p - 1 : x \in 0 .. Least(Halts(k)) - 1
<1> DEFINE p == Least(Passed(k))
           r == Least(Halts(k))
<1>1. PICK d \in 0 .. capacity - 1 : d = r
  BY SlotFacts
<1>2. Passed(k) \subseteq Nat
  BY DEF Passed
<1>3. p \in Passed(k)
  BY <1>2, LeastExists
<1>4. p \in 0 .. r - 1 /\ entries[Along(k, p, capacity)].value = NULL
  BY <1>3 DEF Passed
<1>5. Along(k, p, capacity) \in 0 .. capacity - 1 /\ entries[Along(k, p, capacity)].active
  BY SearchEnds
<1> HIDE DEF p, r
<1>6. capacity \in Nat
  BY DEF TableTypes
<1>7. p \in 0 .. capacity - 1 /\ \A x \in 0 .. p - 1 : x \in 0 .. r - 1
  BY <1>1, <1>4, <1>6
<1> QED BY <1>4, <1>5, <1>7 DEF p, r

(***************************************************************************)
(* Reading back what was written.                                          *)
(***************************************************************************)
\* A lookup after a step.
LEMMA GetNext ==
    ASSUME NEW k
    PROVE  Get(k)' = Answer(entries', capacity', k).value
BY DEF Get, Slot, Halts, Halting, Answer

\* Erasing writes an inactive slot where the search for k ended.
LEMMA ErasedRead ==
    ASSUME TableTypes, Counted, NEW k \in Keys, Erase(k), capacity' = capacity
    PROVE  Get(k)' = NULL
<1>1. capacity \in Nat /\ capacity > 0 /\ entries \in [0 .. capacity - 1 -> EntryType]
  BY DEF TableTypes
<1>2. PICK d \in 0 .. capacity - 1 :
         /\ Slot(k) = Along(k, d, capacity)
         /\ \A x \in 0 .. d - 1 : /\ x \in 0 .. capacity - 1
                                  /\ entries[Along(k, x, capacity)].active
                                  /\ entries[Along(k, x, capacity)].key # k
  BY SlotFacts
<1>3. Passes(entries, capacity, k, d)
  BY <1>2 DEF Halting, Passes
<1>4. entries' = Written(entries, capacity, k, d, Inactive)
  BY <1>2 DEF Erase, Written
<1>5. ~Inactive.active /\ Inactive.value = NULL
  BY DEF Inactive
<1>6. Answer(Written(entries, capacity, k, d, Inactive), capacity, k) = Inactive
  BY <1>1, <1>3, <1>5, ReadBack
<1> QED BY <1>4, <1>5, <1>6, GetNext

\* Setting writes the value where the search for k ended, or before.
LEMMA SetRead ==
    ASSUME TableTypes, Counted, Set, NEW k \in Keys, arg.key = k
    PROVE  Get(k)' = arg.value
<1> DEFINE v == arg.value
<1>1. capacity \in Nat /\ capacity > 0 /\ entries \in [0 .. capacity - 1 -> EntryType]
      /\ capacity' = capacity
  BY DEF TableTypes, Set
<1>2. \/ entries[Slot(k)].active /\ Update(k, v)
      \/ v = NULL /\ Erase(k)
      \/ Insert(k, v)
  BY DEF Set
<1> SUFFICES Get(k)' = v
  OBVIOUS
<1> HIDE DEF v
<1>3. PICK d \in 0 .. capacity - 1 :
         /\ Slot(k) = Along(k, d, capacity) /\ d = Least(Halts(k))
         /\ Slot(k) \in 0 .. capacity - 1
         /\ ~entries[Slot(k)].active \/ entries[Slot(k)].key = k
         /\ \A x \in 0 .. d - 1 : /\ x \in 0 .. capacity - 1
                                  /\ entries[Along(k, x, capacity)].active
                                  /\ entries[Along(k, x, capacity)].key # k
  BY <1>1, SlotFacts
<1>4. Passes(entries, capacity, k, d)
  BY <1>3 DEF Halting, Passes
<1>5. ASSUME NEW p \in 0 .. capacity - 1, NEW e, ~e.active \/ e.key = k, e.value = v,
             Passes(entries, capacity, k, p),
             entries' = Written(entries, capacity, k, p, e)
      PROVE  Get(k)' = v
  <2>1. Answer(Written(entries, capacity, k, p, e), capacity, k) = e
    BY <1>1, <1>5, ReadBack
  <2> QED BY <1>1, <1>5, <2>1, GetNext
<1>6. CASE entries[Slot(k)].active /\ Update(k, v)
  <2> DEFINE e == [entries[Slot(k)] EXCEPT !.value = v]
  <2>1. entries' = Written(entries, capacity, k, d, e)
    BY <1>3, <1>6 DEF Update, Written
  <2>2. entries[Slot(k)] \in [key : Keys, value : Values \cup {NULL}, active : {TRUE}]
    BY <1>1, <1>3, <1>6, ActiveEntry
  <2>3. e.key = k /\ e.value = v
    BY <1>3, <1>6, <2>2
  <2> HIDE DEF e
  <2> QED BY <1>3, <1>4, <1>5, <2>1, <2>3
<1>7. CASE v = NULL /\ Erase(k)
  BY <1>1, <1>7, ErasedRead
<1>8. CASE Insert(k, v)
  <2> DEFINE e == Entry(k, v)
  <2>1. e.key = k /\ e.value = v
    BY DEF Entry
  <2>2. CASE Passed(k) # {}
    <3> DEFINE p == Least(Passed(k))
    <3>1. /\ p \in 0 .. capacity - 1
          /\ \A x \in 0 .. p - 1 : x \in 0 .. Least(Halts(k)) - 1
      BY <1>1, <2>2, PassedFacts
    <3>2. entries' = Written(entries, capacity, k, p, e)
      BY <1>8, <2>2 DEF Insert, Written
    <3> HIDE DEF p, e
    <3>3. Passes(entries, capacity, k, p)
      BY <1>3, <1>4, <3>1 DEF Passes
    <3> QED BY <1>5, <2>1, <3>1, <3>2, <3>3
  <2>3. CASE Passed(k) = {}
    <3>1. entries' = Written(entries, capacity, k, d, e)
      BY <1>3, <1>8, <2>3 DEF Insert, Written
    <3> HIDE DEF e
    <3> QED BY <1>4, <1>5, <2>1, <3>1
  <2> QED BY <2>2, <2>3
<1> QED BY <1>2, <1>6, <1>7, <1>8

\* What table_set_ex and table_delete_ex have just written is what
\* table_get_ex returns, for every table the operations can lead to: also when
\* deletions have cut paths and left a second entry of the key.
THEOREM WritesAreRead == Spec => OwnWriteVisible
<1>1. Init => TableInv
  BY TableInit
<1>2. TableInv /\ [Next]_vars => TableInv'
  BY TableStep
<1>3. TableInv => [\A k \in Keys : /\ (Set /\ arg.key = k) => Get(k)' = arg.value
                                   /\ Delete(k) => Get(k)' = NULL]_vars
  <2> SUFFICES ASSUME TableInv, NEW k \in Keys
               PROVE  /\ (Set /\ arg.key = k) => Get(k)' = arg.value
                      /\ Delete(k) => Get(k)' = NULL
    OBVIOUS
  <2>1. ASSUME Set, arg.key = k PROVE Get(k)' = arg.value
    BY <2>1, SetRead DEF TableInv
  <2>2. ASSUME Delete(k) PROVE Get(k)' = NULL
    BY <2>2, ErasedRead DEF TableInv, Delete
  <2> QED BY <2>1, <2>2
<1> QED BY <1>1, <1>2, <1>3, PTL DEF Spec, OwnWriteVisible

(***************************************************************************)
(* Writing keeps the table a map.                                          *)
(***************************************************************************)
\* Where an active entry is on its key's path.
LEMMA EntryPlace ==
    ASSUME NEW c \in Nat, c > 0, NEW es \in [0 .. c - 1 -> EntryType],
           NEW i \in 0 .. c - 1, es[i].active
    PROVE  es[i].key \in Keys /\ \E d \in 0 .. c - 1 : Along(es[i].key, d, c) = i
<1>1. es[i].key \in Keys
  BY ActiveEntry
<1> QED BY <1>1, Paths

\* What writing a slot does to the array.
LEMMA WrittenFacts ==
    ASSUME NEW k \in Keys, NEW c \in Nat, c > 0, NEW es \in [0 .. c - 1 -> EntryType],
           NEW d \in 0 .. c - 1, NEW e
    PROVE  /\ Along(k, d, c) \in 0 .. c - 1
           /\ Written(es, c, k, d, e)[Along(k, d, c)] = e
           /\ \A i \in 0 .. c - 1 : i # Along(k, d, c) => Written(es, c, k, d, e)[i] = es[i]
<1>1. Along(k, d, c) \in 0 .. c - 1
  BY Paths
<1> QED BY <1>1 DEF Written

\* A key that has no entry is written behind active slots of its path.
LEMMA EnterKey ==
    ASSUME NEW k \in Keys, NEW c \in Nat, c > 0, NEW es \in [0 .. c - 1 -> EntryType],
           NEW d \in 0 .. c - 1, \A x \in 0 .. d - 1 : es[Along(k, x, c)].active,
           NEW e \in EntryType, e.active, e.key = k,
           ~Holds(es, c, k), Reachable(es, c), Once(es, c)
    PROVE  Reachable(Written(es, c, k, d, e), c) /\ Once(Written(es, c, k, d, e), c)
<1> DEFINE es2 == Written(es, c, k, d, e)
           s   == Along(k, d, c)
<1>1. s \in 0 .. c - 1 /\ es2[s] = e /\ \A i \in 0 .. c - 1 : i # s => es2[i] = es[i]
  BY WrittenFacts
<1> HIDE DEF es2
<1>2. \A i \in 0 .. c - 1 : es[i].active => es2[i].active
  BY <1>1
<1>3. ASSUME NEW h \in Keys, NEW y \in 0 .. c - 1, es2[Along(h, y, c)].active,
             es2[Along(h, y, c)].key = h, NEW x \in 0 .. y - 1
      PROVE  es2[Along(h, x, c)].active
  <2>1. x \in 0 .. c - 1
    OBVIOUS
  <2>2. Along(h, x, c) \in 0 .. c - 1 /\ Along(h, y, c) \in 0 .. c - 1
    BY <2>1, Paths
  <2>3. CASE Along(h, y, c) = s
    <3>1. h = k
      BY <1>1, <1>3, <2>3
    <3>2. y = d
      BY <2>3, <3>1, AlongOnce
    <3>3. es[Along(h, x, c)].active
      BY <3>1, <3>2
    <3> QED BY <1>2, <2>2, <3>3
  <2>4. CASE Along(h, y, c) # s
    <3>1. es[Along(h, y, c)].active /\ es[Along(h, y, c)].key = h
      BY <1>1, <1>3, <2>2, <2>4
    <3>2. es[Along(h, x, c)].active
      BY <3>1 DEF Reachable
    <3> QED BY <1>2, <2>2, <3>2
  <2> QED BY <2>3, <2>4
<1>4. ASSUME NEW i \in 0 .. c - 1, NEW j \in 0 .. c - 1, es2[i].active, es2[j].active,
             es2[i].key = es2[j].key
      PROVE  i = j
  <2>1. CASE i # s /\ j # s
    BY <1>1, <1>4, <2>1 DEF Once
  <2>2. CASE i = s /\ j # s
    BY <1>1, <1>4, <2>2 DEF Holds
  <2>3. CASE i # s /\ j = s
    BY <1>1, <1>4, <2>3 DEF Holds
  <2> QED BY <2>1, <2>2, <2>3
<1>5. Reachable(es2, c)
  BY <1>3 DEF Reachable
<1>6. Once(es2, c)
  BY <1>4 DEF Once
<1> QED BY <1>5, <1>6 DEF es2

\* So the new key is in the map and no other is lost: an entry that is
\* overwritten has no value.
LEMMA EnterMap ==
    ASSUME NEW k \in Keys, NEW c \in Nat, c > 0, NEW es \in [0 .. c - 1 -> EntryType],
           NEW d \in 0 .. c - 1, \A x \in 0 .. d - 1 : es[Along(k, x, c)].active,
           NEW e \in EntryType, e.active, e.key = k,
           ~Holds(es, c, k),
           es[Along(k, d, c)].active => es[Along(k, d, c)].value = NULL,
           NEW con \in [Keys -> Values \cup {NULL}], MapOf(es, c, con)
    PROVE  MapOf(Written(es, c, k, d, e), c, [con EXCEPT ![k] = e.value])
<1> DEFINE es2  == Written(es, c, k, d, e)
           s    == Along(k, d, c)
           con2 == [con EXCEPT ![k] = e.value]
<1>1. s \in 0 .. c - 1 /\ es2[s] = e /\ \A i \in 0 .. c - 1 : i # s => es2[i] = es[i]
  BY WrittenFacts
<1>2. Reachable(es2, c) /\ Once(es2, c)
  BY EnterKey DEF MapOf
<1>3. con2[k] = e.value /\ \A h \in Keys : h # k => con2[h] = con[h]
  OBVIOUS
<1> HIDE DEF es2, s, con2
<1>4. ASSUME NEW i \in 0 .. c - 1, es2[i].active PROVE es2[i].value = con2[es2[i].key]
  <2>1. CASE i = s
    BY <1>1, <1>3, <2>1
  <2>2. CASE i # s
    <3>1. es2[i] = es[i] /\ es[i].active
      BY <1>1, <1>4, <2>2
    <3>2. es[i].key \in Keys /\ es[i].key # k
      BY <3>1, EntryPlace DEF Holds
    <3> QED BY <1>3, <3>1, <3>2 DEF MapOf, Agree
  <2> QED BY <2>1, <2>2
<1>5. ASSUME NEW h \in Keys, con2[h] # NULL PROVE Holds(es2, c, h)
  <2>1. CASE h = k
    BY <1>1, <2>1 DEF Holds
  <2>2. CASE h # k
    <3>1. con[h] # NULL
      BY <1>3, <1>5, <2>2
    <3>2. PICK i \in 0 .. c - 1 : es[i].active /\ es[i].key = h
      BY <3>1 DEF MapOf, Agree, Holds
    <3>3. es[i].value = con[h]
      BY <3>2 DEF MapOf, Agree
    <3>4. i # s
      BY <3>1, <3>2, <3>3 DEF s
    <3> QED BY <1>1, <3>2, <3>4 DEF Holds
  <2> QED BY <2>1, <2>2
<1> QED BY <1>2, <1>4, <1>5 DEF MapOf, Agree, es2, con2

\* A value is replaced.
LEMMA UpdateMap ==
    ASSUME NEW k \in Keys, NEW c \in Nat, c > 0, NEW es \in [0 .. c - 1 -> EntryType],
           NEW d \in 0 .. c - 1, es[Along(k, d, c)].active, es[Along(k, d, c)].key = k,
           NEW e \in EntryType, e.active, e.key = k,
           NEW con \in [Keys -> Values \cup {NULL}], MapOf(es, c, con)
    PROVE  MapOf(Written(es, c, k, d, e), c, [con EXCEPT ![k] = e.value])
<1> DEFINE es2  == Written(es, c, k, d, e)
           s    == Along(k, d, c)
           con2 == [con EXCEPT ![k] = e.value]
<1>1. s \in 0 .. c - 1 /\ es2[s] = e /\ \A i \in 0 .. c - 1 : i # s => es2[i] = es[i]
  <2>1. s \in 0 .. c - 1
    BY WrittenFacts
  <2>2. Written(es, c, k, d, e)[Along(k, d, c)] = e
    BY WrittenFacts
  <2>3. \A i \in 0 .. c - 1 : i # Along(k, d, c) => Written(es, c, k, d, e)[i] = es[i]
    BY WrittenFacts
  <2> QED BY <2>1, <2>2, <2>3
<1>2. con2[k] = e.value /\ \A h \in Keys : h # k => con2[h] = con[h]
  OBVIOUS
<1> HIDE DEF es2, con2
<1>3. \A i \in 0 .. c - 1 : es2[i].active = es[i].active /\ es2[i].key = es[i].key
  <2>1. ASSUME NEW i \in 0 .. c - 1 PROVE es2[i].active = es[i].active /\ es2[i].key = es[i].key
    <3>1. CASE i = s
      <4>1. es[s].active = TRUE /\ e.active = TRUE
        <5>1. es[s] \in EntryType
          BY <1>1
        <5> QED BY <5>1, ActiveEntry
      <4> QED BY <1>1, <3>1, <4>1
    <3>2. CASE i # s
      BY <1>1, <3>2
    <3> QED BY <3>1, <3>2
  <2> QED BY <2>1
<1>4. Reachable(es2, c)
  <2>1. ASSUME NEW h \in Keys, NEW y \in 0 .. c - 1, es2[Along(h, y, c)].active,
               es2[Along(h, y, c)].key = h, NEW x \in 0 .. y - 1
        PROVE  es2[Along(h, x, c)].active
    <3>1. x \in 0 .. c - 1
      OBVIOUS
    <3>2. Along(h, x, c) \in 0 .. c - 1 /\ Along(h, y, c) \in 0 .. c - 1
      BY <3>1, Paths
    <3>3. es[Along(h, x, c)].active
      BY <1>3, <2>1, <3>2 DEF MapOf, Reachable
    <3> QED BY <1>3, <3>2, <3>3
  <2> QED BY <2>1 DEF Reachable
<1>5. Once(es2, c)
  BY <1>3 DEF MapOf, Once
<1>6. ASSUME NEW i \in 0 .. c - 1, es2[i].active PROVE es2[i].value = con2[es2[i].key]
  <2>1. CASE i = s
    BY <1>1, <1>2, <2>1
  <2>2. CASE i # s
    <3>1. es2[i] = es[i] /\ es[i].active
      BY <1>1, <1>6, <2>2
    <3>2. es[i].key \in Keys /\ es[i].key # k
      BY <1>1, <2>2, <3>1, EntryPlace DEF MapOf, Once
    <3> QED BY <1>2, <3>1, <3>2 DEF MapOf, Agree
  <2> QED BY <2>1, <2>2
<1>7. ASSUME NEW h \in Keys, con2[h] # NULL PROVE Holds(es2, c, h)
  <2>1. CASE h = k
    BY <1>1, <2>1 DEF Holds
  <2>2. CASE h # k
    <3>1. con[h] # NULL
      BY <1>2, <1>7, <2>2
    <3>2. PICK i \in 0 .. c - 1 : es[i].active /\ es[i].key = h
      BY <3>1 DEF MapOf, Agree, Holds
    <3> QED BY <1>3, <3>2 DEF Holds
  <2> QED BY <2>1, <2>2
<1> QED BY <1>4, <1>5, <1>6, <1>7 DEF MapOf, Agree, es2, con2

\* An entry that no other key's path leads through is erased.
LEMMA EraseMap ==
    ASSUME NEW k \in Keys, NEW c \in Nat, c > 0, NEW es \in [0 .. c - 1 -> EntryType],
           NEW d \in 0 .. c - 1, es[Along(k, d, c)].active, es[Along(k, d, c)].key = k,
           \A h \in Keys : \A y \in 0 .. c - 1 :
               es[Along(h, y, c)].active /\ es[Along(h, y, c)].key = h =>
                   \A x \in 0 .. y - 1 : Along(h, x, c) # Along(k, d, c),
           NEW con \in [Keys -> Values \cup {NULL}], MapOf(es, c, con)
    PROVE  MapOf(Written(es, c, k, d, Inactive), c, [con EXCEPT ![k] = NULL])
<1> DEFINE es2  == Written(es, c, k, d, Inactive)
           s    == Along(k, d, c)
           con2 == [con EXCEPT ![k] = NULL]
<1>1. s \in 0 .. c - 1 /\ es2[s] = Inactive /\ \A i \in 0 .. c - 1 : i # s => es2[i] = es[i]
  BY WrittenFacts
<1>2. con2[k] = NULL /\ \A h \in Keys : h # k => con2[h] = con[h]
  OBVIOUS
<1>3. ~Inactive.active
  BY DEF Inactive
<1> HIDE DEF es2, con2
<1>4. \A i \in 0 .. c - 1 : es2[i].active => i # s /\ es2[i] = es[i] /\ es[i].active
  BY <1>1, <1>3
<1>5. ASSUME NEW h \in Keys, NEW y \in 0 .. c - 1, es2[Along(h, y, c)].active,
             es2[Along(h, y, c)].key = h, NEW x \in 0 .. y - 1
      PROVE  es2[Along(h, x, c)].active
  <2>1. x \in 0 .. c - 1
    OBVIOUS
  <2>2. Along(h, x, c) \in 0 .. c - 1 /\ Along(h, y, c) \in 0 .. c - 1
    BY <2>1, Paths
  <2>3. es[Along(h, y, c)].active /\ es[Along(h, y, c)].key = h
    BY <1>4, <1>5, <2>2
  <2>4. es[Along(h, x, c)].active
    BY <2>3 DEF MapOf, Reachable
  <2>5. Along(h, x, c) # s
    BY <2>3
  <2> QED BY <1>1, <2>2, <2>4, <2>5
<1>6. Once(es2, c)
  BY <1>4 DEF MapOf, Once
<1>7. ASSUME NEW i \in 0 .. c - 1, es2[i].active PROVE es2[i].value = con2[es2[i].key]
  <2>1. i # s /\ es2[i] = es[i] /\ es[i].active
    BY <1>4, <1>7
  <2>2. es[i].key \in Keys /\ es[i].key # k
    BY <1>1, <2>1, EntryPlace DEF MapOf, Once
  <2> QED BY <1>2, <2>1, <2>2 DEF MapOf, Agree
<1>8. ASSUME NEW h \in Keys, con2[h] # NULL PROVE Holds(es2, c, h)
  <2>1. h # k /\ con[h] # NULL
    BY <1>2, <1>8
  <2>2. PICK i \in 0 .. c - 1 : es[i].active /\ es[i].key = h
    BY <2>1 DEF MapOf, Agree, Holds
  <2>3. i # s
    BY <2>1, <2>2
  <2> QED BY <1>1, <2>2, <2>3 DEF Holds
<1>9. Reachable(es2, c)
  BY <1>5 DEF Reachable
<1> QED BY <1>6, <1>7, <1>8, <1>9 DEF MapOf, Agree, es2, con2

(***************************************************************************)
(* The operations keep the table a map.                                    *)
(***************************************************************************)
\* A number has one remainder.
LEMMA OneRemainder ==
    ASSUME NEW c \in Nat, c > 0, NEW p \in Int, NEW q \in Int,
           NEW r \in 0 .. c - 1, NEW s \in 0 .. c - 1, c * p + r = c * q + s
    PROVE  r = s
<1>1. c * (p - q) = s - r /\ p - q \in Int
  OBVIOUS
<1>2. CASE p - q >= 1
  <2>1. c * (p - q) >= c
    BY <1>1, <1>2
  <2> QED BY <1>1, <2>1
<1>3. CASE p - q <= -1
  <2>1. c * (p - q) <= -c
    BY <1>1, <1>3
  <2> QED BY <1>1, <2>1
<1>4. CASE p - q = 0
  BY <1>1, <1>4
<1> QED BY <1>1, <1>2, <1>3, <1>4

\* The distance of a slot from the home of a key.
LEMMA Distance ==
    ASSUME NEW k \in Keys, NEW c \in Nat, c > 0, NEW d \in 0 .. c - 1, NEW i \in 0 .. c - 1,
           Along(k, d, c) = i
    PROVE  (i - Hash[k]) % c = d
<1> DEFINE h == Hash[k]
           q == h \div c
           p == (i - h) \div c
           m == (i - h) % c
           r == h % c
<1>1. h \in Nat
  BY TableAssumption
<1>2. q \in Int /\ r \in 0 .. c - 1 /\ h = c * q + r
  <2> HIDE DEF h
  <2> QED BY <1>1
<1>3. p \in Int /\ m \in 0 .. c - 1 /\ i - h = c * p + m
  <2>1. i - h \in Int
    BY <1>1
  <2> QED BY <2>1
<1>4. i = IF r + d < c THEN r + d ELSE r + d - c
  BY DEF Along, Home
<1> HIDE DEF h, p, q, m, r
<1>5. CASE r + d < c
  <2>1. c * p + m = c * (-q) + d /\ -q \in Int
    BY <1>1, <1>2, <1>3, <1>4, <1>5
  <2> QED BY <1>3, <2>1, OneRemainder DEF m, h
<1>6. CASE ~(r + d < c)
  <2>1. c * p + m = c * (-q - 1) + d /\ -q - 1 \in Int
    BY <1>1, <1>2, <1>3, <1>4, <1>6
  <2> QED BY <1>3, <2>1, OneRemainder DEF m, h
<1> QED BY <1>5, <1>6

\* A deletion that does not cut lies on no other key's path.
LEMMA NothingCut ==
    ASSUME TableTypes, NEW k \in Keys, ~Cuts(k),
           NEW h \in Keys, NEW y \in 0 .. capacity - 1,
           entries[Along(h, y, capacity)].active, entries[Along(h, y, capacity)].key = h,
           NEW x \in 0 .. y - 1
    PROVE  Along(h, x, capacity) # Slot(k)
<1> DEFINE i == Along(h, y, capacity)
<1>1. capacity \in Nat /\ capacity > 0
  BY DEF TableTypes
<1>2. i \in 0 .. capacity - 1
  BY <1>1, Paths
<1> HIDE DEF i
<1>3. (i - Hash[h]) % capacity = y
  BY <1>1, <1>2, Distance DEF i
<1>4. entries[i].active /\ entries[i].key = h
  BY DEF i
<1>5. Slot(k) \notin {Along(entries[i].key, d, capacity) :
                        d \in 0 .. ((i - Hash[entries[i].key]) % capacity) - 1}
  BY <1>2, <1>4 DEF Cuts
<1> QED BY <1>3, <1>4, <1>5

\* A key whose search ends at a free slot has no entry.
LEMMA NotHeld ==
    ASSUME TableTypes, Counted, NEW k \in Keys, Reachable(entries, capacity),
           ~entries[Slot(k)].active
    PROVE  ~Holds(entries, capacity, k)
<1> SUFFICES ASSUME NEW i \in 0 .. capacity - 1, entries[i].active, entries[i].key = k
             PROVE  FALSE
  BY DEF Holds
<1>1. capacity \in Nat /\ capacity > 0
  BY DEF TableTypes
<1>2. PICK y \in 0 .. capacity - 1 : Along(k, y, capacity) = i
  BY <1>1, Paths
<1>3. PICK d \in 0 .. capacity - 1 :
         /\ Slot(k) = Along(k, d, capacity)
         /\ \A x \in 0 .. d - 1 : entries[Along(k, x, capacity)].key # k
  BY SlotFacts
<1>4. \A x \in 0 .. y - 1 : entries[Along(k, x, capacity)].active
  BY <1>2 DEF Reachable
<1>5. CASE y < d
  <2>1. y \in 0 .. d - 1
    BY <1>5
  <2> QED BY <1>2, <1>3, <2>1
<1>6. CASE d < y
  <2>1. d \in 0 .. y - 1
    BY <1>6
  <2> QED BY <1>3, <1>4, <2>1
<1>7. CASE y = d
  BY <1>2, <1>3, <1>7
<1> QED BY <1>5, <1>6, <1>7

\* Erase, by table_set_ex or table_delete_ex.
LEMMA EraseKeepsMap ==
    ASSUME TableTypes, Counted, NEW k \in Keys, entries[Slot(k)].active, Erase(k), ~Cuts(k),
           contents \in [Keys -> Values \cup {NULL}], MapOf(entries, capacity, contents)
    PROVE  MapOf(entries', capacity, contents')
<1>1. capacity \in Nat /\ capacity > 0 /\ entries \in [0 .. capacity - 1 -> EntryType]
  BY DEF TableTypes
<1>2. PICK d \in 0 .. capacity - 1 :
         Slot(k) = Along(k, d, capacity) /\ entries[Slot(k)].key = k
  BY SlotFacts
<1>3. entries' = Written(entries, capacity, k, d, Inactive)
      /\ contents' = [contents EXCEPT ![k] = NULL]
  BY <1>2 DEF Erase, Written
<1>4. \A h \in Keys : \A y \in 0 .. capacity - 1 :
          entries[Along(h, y, capacity)].active /\ entries[Along(h, y, capacity)].key = h =>
              \A x \in 0 .. y - 1 : Along(h, x, capacity) # Along(k, d, capacity)
  BY <1>2, NothingCut
<1>5. MapOf(Written(entries, capacity, k, d, Inactive), capacity, [contents EXCEPT ![k] = NULL])
  BY <1>1, <1>2, <1>4, EraseMap
<1> QED BY <1>3, <1>5

\* Update, by table_set_ex.
LEMMA UpdateKeepsMap ==
    ASSUME TableTypes, Counted, NEW k \in Keys, NEW v \in Values, entries[Slot(k)].active,
           Update(k, v),
           contents \in [Keys -> Values \cup {NULL}], MapOf(entries, capacity, contents)
    PROVE  MapOf(entries', capacity, contents')
<1> DEFINE e == [entries[Slot(k)] EXCEPT !.value = v]
<1>1. capacity \in Nat /\ capacity > 0 /\ entries \in [0 .. capacity - 1 -> EntryType]
  BY DEF TableTypes
<1>2. PICK d \in 0 .. capacity - 1 :
         /\ Slot(k) = Along(k, d, capacity) /\ entries[Slot(k)].key = k
         /\ Slot(k) \in 0 .. capacity - 1
  BY SlotFacts
<1>3. entries[Slot(k)] \in [key : Keys, value : Values \cup {NULL}, active : {TRUE}]
  BY <1>1, <1>2, ActiveEntry
<1>4. e \in [key : Keys, value : Values \cup {NULL}, active : {TRUE}]
      /\ e.active /\ e.key = k /\ e.value = v
  BY <1>2, <1>3
<1>5. entries' = Written(entries, capacity, k, d, e)
      /\ contents' = [contents EXCEPT ![k] = v]
  BY <1>2 DEF Update, Written
<1> HIDE DEF e
<1>6. e \in EntryType
  BY <1>4 DEF EntryType
<1>7. MapOf(Written(entries, capacity, k, d, e), capacity, [contents EXCEPT ![k] = e.value])
  BY <1>1, <1>2, <1>4, <1>6, UpdateMap
<1> QED BY <1>4, <1>5, <1>7

\* Insert, by table_set_ex.
LEMMA InsertKeepsMap ==
    ASSUME TableTypes, Counted, NEW k \in Keys, NEW v \in Values \cup {NULL},
           ~entries[Slot(k)].active, Insert(k, v),
           contents \in [Keys -> Values \cup {NULL}], MapOf(entries, capacity, contents)
    PROVE  MapOf(entries', capacity, contents')
<1> DEFINE e == Entry(k, v)
<1>1. capacity \in Nat /\ capacity > 0 /\ entries \in [0 .. capacity - 1 -> EntryType]
  BY DEF TableTypes
<1>2. e \in EntryType /\ e.active /\ e.key = k /\ e.value = v
  BY DEF Entry, EntryType
<1>3. ~Holds(entries, capacity, k)
  BY NotHeld DEF MapOf
<1>4. contents' = [contents EXCEPT ![k] = v]
  BY DEF Insert
<1>5. PICK d \in 0 .. capacity - 1 :
         /\ Slot(k) = Along(k, d, capacity) /\ d = Least(Halts(k))
         /\ \A x \in 0 .. d - 1 : entries[Along(k, x, capacity)].active
  BY SlotFacts
<1>6. ASSUME NEW p \in 0 .. capacity - 1,
             \A x \in 0 .. p - 1 : entries[Along(k, x, capacity)].active,
             entries[Along(k, p, capacity)].active => entries[Along(k, p, capacity)].value = NULL,
             entries' = Written(entries, capacity, k, p, e)
      PROVE  MapOf(entries', capacity, contents')
  <2> HIDE DEF e
  <2>1. MapOf(Written(entries, capacity, k, p, e), capacity, [contents EXCEPT ![k] = e.value])
    BY <1>1, <1>2, <1>3, <1>6, EnterMap
  <2> QED BY <1>2, <1>4, <1>6, <2>1
<1>7. CASE Passed(k) # {}
  <2> DEFINE p == Least(Passed(k))
  <2>1. /\ p \in 0 .. capacity - 1
        /\ entries[Along(k, p, capacity)].value = NULL
        /\ \A x \in 0 .. p - 1 : x \in 0 .. Least(Halts(k)) - 1
    BY <1>7, PassedFacts
  <2>2. entries' = Written(entries, capacity, k, p, e)
    BY <1>7 DEF Insert, Written
  <2> HIDE DEF p, e
  <2>3. \A x \in 0 .. p - 1 : entries[Along(k, x, capacity)].active
    BY <1>5, <2>1
  <2> QED BY <1>6, <2>1, <2>2, <2>3
<1>8. CASE Passed(k) = {}
  <2>1. entries' = Written(entries, capacity, k, d, e)
    BY <1>5, <1>8 DEF Insert, Written
  <2>2. ~entries[Along(k, d, capacity)].active
    BY <1>5
  <2> HIDE DEF e
  <2> QED BY <1>5, <1>6, <2>1, <2>2
<1> QED BY <1>7, <1>8

\* Where a resize puts an entry.
LEMMA FreeSlotPlace ==
    ASSUME NEW k \in Keys, capacity \in Nat, capacity > 0,
           Cardinality(Used(new_entries, 2 * capacity)) < 2 * capacity
    PROVE  \E d \in 0 .. 2 * capacity - 1 :
              /\ FreeSlot(k) = Along(k, d, 2 * capacity)
              /\ ~new_entries[FreeSlot(k)].active
              /\ \A x \in 0 .. d - 1 : new_entries[Along(k, x, 2 * capacity)].active
<1> DEFINE c == 2 * capacity
           free == {d \in 0 .. c - 1 : ~new_entries[Along(k, d, c)].active}
<1>1. c \in Nat /\ c > 0 /\ Cardinality(Used(new_entries, c)) < c
  OBVIOUS
<1>2. FreeSlot(k) = Along(k, Least(free), c)
  BY DEF FreeSlot
<1> HIDE DEF c
<1>3. PICK i \in 0 .. c - 1 : ~new_entries[i].active
  BY <1>1, FreeExists
<1>4. PICK d \in 0 .. c - 1 : Along(k, d, c) = i
  BY <1>1, Paths
<1>5. d \in free /\ free \subseteq Nat
  BY <1>3, <1>4
<1> DEFINE p == Least(free)
<1>6. p \in free /\ \A x \in free : p <= x
  <2> HIDE DEF free
  <2> QED BY <1>5, LeastExists
<1>7. p \in 0 .. c - 1 /\ ~new_entries[Along(k, p, c)].active
  BY <1>6
<1> HIDE DEF p
<1>8. ASSUME NEW x \in 0 .. p - 1 PROVE new_entries[Along(k, x, c)].active
  <2>1. x \in 0 .. c - 1 /\ ~(p <= x)
    BY <1>1, <1>7
  <2> QED BY <1>6, <2>1
<1> QED BY <1>2, <1>7, <1>8 DEF c, p

\* A resize moves an entry.
LEMMA MoveKeepsMap ==
    ASSUME TableInv, Move, MapOf(entries, capacity, contents), Moved
    PROVE  Moved'
<1> DEFINE c == 2 * capacity
<1>1. /\ capacity \in Nat /\ capacity > 4 /\ entries \in [0 .. capacity - 1 -> EntryType]
      /\ next \in 0 .. capacity /\ new_entries \in [0 .. c - 1 -> EntryType]
      /\ next < capacity /\ next' = next + 1 /\ pc = "rehash" /\ pc' = pc /\ entries' = entries
      /\ capacity' = capacity
      /\ Cardinality(Used(new_entries, c)) <= Cardinality(LiveBelow(next))
  BY DEF TableInv, TableTypes, Rehashing, Move
<1>2. c \in Nat /\ c > 0 /\ next \in Nat /\ next \in 0 .. capacity - 1
  BY <1>1
<1>3. Cardinality(Used(new_entries, c)) < c
  <2>1. IsFiniteSet(0 .. next - 1) /\ Cardinality(0 .. next - 1) = next
    <3>1. next \in Nat /\ next - 1 \in Int
      BY <1>2
    <3> QED BY <3>1, FS_Interval
  <2>2. LiveBelow(next) \in SUBSET (0 .. next - 1)
    BY DEF LiveBelow
  <2>3. IsFiniteSet(LiveBelow(next)) /\ Cardinality(LiveBelow(next)) <= next
    BY <2>1, <2>2, FS_Subset
  <2>4. Cardinality(LiveBelow(next)) \in Nat /\ Cardinality(Used(new_entries, c)) \in Nat
    BY <1>2, <2>3, FS_CardinalityType, UsedFinite
  <2> QED BY <1>1, <2>3, <2>4
<1>4. /\ Reachable(new_entries, c) /\ Once(new_entries, c)
      /\ \A j \in 0 .. c - 1 : new_entries[j].active =>
             \E i \in 0 .. next - 1 : entries[i] = new_entries[j]
      /\ \A i \in 0 .. next - 1 : Live(entries[i]) => \E j \in 0 .. c - 1 : new_entries[j] = entries[i]
  BY <1>1 DEF Moved
<1>5. ASSUME Reachable(new_entries', c), Once(new_entries', c),
             \A j \in 0 .. c - 1 : new_entries'[j].active =>
                 \E i \in 0 .. next : entries[i] = new_entries'[j],
             \A i \in 0 .. next : Live(entries[i]) =>
                 \E j \in 0 .. c - 1 : new_entries'[j] = entries[i]
      PROVE  Moved'
  <2>1. 0 .. next' - 1 = 0 .. next
    BY <1>1, <1>2
  <2>2. (2 * capacity)' = c
    BY <1>1
  <2> HIDE DEF c
  <2> QED BY <1>1, <1>5, <2>1, <2>2 DEF Moved, Live
<1>6. CASE Live(entries[next])
  <2> DEFINE e  == entries[next]
             k  == e.key
             ns == new_entries'
  <2>1. e \in EntryType /\ e.active /\ k \in Keys
    BY <1>1, <1>2, <1>6, ActiveEntry DEF Live
  <2>2. PICK d \in 0 .. c - 1 :
            /\ FreeSlot(k) = Along(k, d, c)
            /\ ~new_entries[FreeSlot(k)].active
            /\ \A x \in 0 .. d - 1 : new_entries[Along(k, x, c)].active
    BY <1>1, <1>2, <1>3, <2>1, FreeSlotPlace
  <2>3. ns = Written(new_entries, c, k, d, e)
    BY <1>6, <2>2 DEF Move, Written
  <2>4. ~Holds(new_entries, c, k)
    <3> SUFFICES ASSUME NEW j \in 0 .. c - 1, new_entries[j].active, new_entries[j].key = k
                 PROVE  FALSE
      BY DEF Holds
    <3>1. PICK i \in 0 .. next - 1 : entries[i] = new_entries[j]
      BY <1>4
    <3>2. i \in 0 .. capacity - 1 /\ i # next
      BY <1>1, <1>2
    <3>3. entries[i].active /\ entries[i].key = entries[next].key
      BY <3>1
    <3> QED BY <1>2, <2>1, <3>2, <3>3 DEF MapOf, Once
  <2> DEFINE s == Along(k, d, c)
  <2>5. s \in 0 .. c - 1 /\ ns[s] = e /\ \A j \in 0 .. c - 1 : j # s => ns[j] = new_entries[j]
    <3>1. /\ s \in 0 .. c - 1
          /\ Written(new_entries, c, k, d, e)[s] = e
          /\ \A j \in 0 .. c - 1 : j # s => Written(new_entries, c, k, d, e)[j] = new_entries[j]
      <4> HIDE DEF c, k, e
      <4> QED BY <1>1, <1>2, <2>1, WrittenFacts DEF c
    <3> QED BY <2>3, <3>1
  <2>6. Reachable(ns, c) /\ Once(ns, c)
    <3>1. Reachable(Written(new_entries, c, k, d, e), c) /\ Once(Written(new_entries, c, k, d, e), c)
      <4>0. e.key = k
        OBVIOUS
      <4> HIDE DEF c, k, e
      <4> QED BY <1>1, <1>2, <1>4, <2>1, <2>2, <2>4, <4>0, EnterKey DEF c
    <3> QED BY <2>3, <3>1
  <2>7. ~new_entries[s].active
    BY <2>2
  <2> HIDE DEF s, ns
  <2>8. ASSUME NEW j \in 0 .. c - 1, ns[j].active PROVE \E i \in 0 .. next : entries[i] = ns[j]
    <3>1. CASE j = s
      BY <1>2, <2>5, <3>1
    <3>2. CASE j # s
      <4>1. PICK i \in 0 .. next - 1 : entries[i] = new_entries[j]
        BY <1>4, <2>5, <2>8, <3>2
      <4>2. i \in 0 .. next
        BY <1>2
      <4> QED BY <2>5, <3>2, <4>1, <4>2
    <3> QED BY <3>1, <3>2
  <2>9. ASSUME NEW i \in 0 .. next, Live(entries[i]) PROVE \E j \in 0 .. c - 1 : ns[j] = entries[i]
    <3>1. CASE i = next
      BY <2>5, <3>1
    <3>2. CASE i # next
      <4>1. i \in 0 .. next - 1
        BY <1>2, <3>2
      <4>2. PICK j \in 0 .. c - 1 : new_entries[j] = entries[i]
        BY <1>4, <2>9, <4>1
      <4>3. j # s
        BY <2>7, <2>9, <4>2 DEF Live
      <4> QED BY <2>5, <4>2, <4>3
    <3> QED BY <3>1, <3>2
  <2> QED BY <1>5, <2>6, <2>8, <2>9 DEF ns
<1>7. CASE ~Live(entries[next])
  <2>1. new_entries' = new_entries
    BY <1>7 DEF Move
  <2>2. \A j \in 0 .. c - 1 : new_entries'[j].active =>
                 \E i \in 0 .. next : entries[i] = new_entries'[j]
    <3>1. 0 .. next - 1 \subseteq 0 .. next
      BY <1>2
    <3> QED BY <1>4, <2>1, <3>1
  <2>3. \A i \in 0 .. next : Live(entries[i]) =>
                 \E j \in 0 .. c - 1 : new_entries'[j] = entries[i]
    <3>1. \A i \in 0 .. next : i = next \/ i \in 0 .. next - 1
      BY <1>2
    <3> QED BY <1>4, <1>7, <2>1, <3>1
  <2> QED BY <1>4, <1>5, <2>1, <2>2, <2>3
<1> QED BY <1>6, <1>7

\* The array a resize has filled holds the same map.
LEMMA ResizedKeepsMap ==
    ASSUME TableInv, Resized, MapOf(entries, capacity, contents), Moved
    PROVE  MapOf(entries', capacity', contents')
<1> DEFINE c == 2 * capacity
<1>1. /\ capacity \in Nat /\ pc = "rehash" /\ next = capacity
      /\ entries' = new_entries /\ capacity' = c /\ contents' = contents
  BY DEF TableInv, TableTypes, Resized
<1>2. /\ Reachable(new_entries, c) /\ Once(new_entries, c)
      /\ \A j \in 0 .. c - 1 : new_entries[j].active =>
             \E i \in 0 .. capacity - 1 : entries[i] = new_entries[j]
      /\ \A i \in 0 .. capacity - 1 : Live(entries[i]) =>
             \E j \in 0 .. c - 1 : new_entries[j] = entries[i]
  BY <1>1 DEF Moved
<1> HIDE DEF c
<1>3. \A j \in 0 .. c - 1 : new_entries[j].active => new_entries[j].value = contents[new_entries[j].key]
  BY <1>2 DEF MapOf, Agree
<1>4. ASSUME NEW k \in Keys, contents[k] # NULL PROVE Holds(new_entries, c, k)
  <2>1. PICK i \in 0 .. capacity - 1 : entries[i].active /\ entries[i].key = k
    BY <1>4 DEF MapOf, Agree, Holds
  <2>2. Live(entries[i])
    BY <1>4, <2>1 DEF MapOf, Agree, Live
  <2>3. PICK j \in 0 .. c - 1 : new_entries[j] = entries[i]
    BY <1>2, <2>2
  <2> QED BY <2>1, <2>3 DEF Holds
<1> QED BY <1>1, <1>2, <1>3, <1>4 DEF MapOf, Agree

\* An empty table is a map that holds nothing.
LEMMA BlankMap ==
    ASSUME NEW c \in Nat
    PROVE  Reachable(Blank(c), c) /\ Once(Blank(c), c)
           /\ MapOf(Blank(c), c, [k \in Keys |-> NULL])
<1> DEFINE es == Blank(c)
<1>1. \A i \in 0 .. c - 1 : ~es[i].active
  BY DEF Blank, Inactive
<1> HIDE DEF es
<1>2. Once(es, c)
  BY <1>1 DEF Once
<1>3. Reachable(es, c)
  <2>1. ASSUME NEW k \in Keys, NEW d \in 0 .. c - 1 PROVE ~es[Along(k, d, c)].active
    <3>1. c > 0
      OBVIOUS
    <3>2. Along(k, d, c) \in 0 .. c - 1
      BY <3>1, Paths
    <3> QED BY <1>1, <3>2
  <2> QED BY <2>1 DEF Reachable
<1>4. Agree(es, c, [k \in Keys |-> NULL])
  BY <1>1 DEF Agree
<1> QED BY <1>2, <1>3, <1>4 DEF MapOf, es

\* table_set_ex stores.
LEMMA SetKeepsMap ==
    ASSUME TableInv, MapInv, Set
    PROVE  MapInv'
<1> DEFINE k == arg.key
           v == arg.value
<1>1. /\ TableTypes /\ Counted /\ pc' = "idle" /\ capacity' = capacity
      /\ k \in Keys /\ v \in Values \cup {NULL}
      /\ contents \in [Keys -> Values \cup {NULL}] /\ cut \in BOOLEAN
      /\ ~cut => MapOf(entries, capacity, contents)
  BY DEF TableInv, TableTypes, MapInv, Set
<1>2. Moved'
  BY <1>1 DEF Moved
<1>3. ASSUME contents' \in [Keys -> Values \cup {NULL}], cut' \in BOOLEAN,
             ~cut' => MapOf(entries', capacity, contents')
      PROVE  MapInv'
  BY <1>1, <1>2, <1>3 DEF MapInv
<1> HIDE DEF k, v
<1>4. CASE entries[Slot(k)].active /\ v # NULL /\ Update(k, v)
  <2>1. cut' = cut /\ contents' = [contents EXCEPT ![k] = v] /\ v \in Values
    BY <1>1, <1>4 DEF Update
  <2>2. contents' \in [Keys -> Values \cup {NULL}]
    BY <1>1, <2>1
  <2>3. ~cut' => MapOf(entries', capacity, contents')
    BY <1>1, <1>4, <2>1, UpdateKeepsMap
  <2> QED BY <1>1, <1>3, <2>1, <2>2, <2>3
<1>5. CASE entries[Slot(k)].active /\ v = NULL /\ Erase(k)
  <2>1. cut' = (cut \/ Cuts(k)) /\ contents' = [contents EXCEPT ![k] = NULL]
    BY <1>5 DEF Erase
  <2>2. contents' \in [Keys -> Values \cup {NULL}] /\ cut' \in BOOLEAN
    BY <1>1, <2>1 DEF Cuts
  <2>3. ~cut' => MapOf(entries', capacity, contents')
    BY <1>1, <1>5, <2>1, EraseKeepsMap
  <2> QED BY <1>3, <2>2, <2>3
<1>6. CASE ~entries[Slot(k)].active /\ Insert(k, v)
  <2>1. cut' = cut /\ contents' = [contents EXCEPT ![k] = v]
    BY <1>6 DEF Insert
  <2>2. contents' \in [Keys -> Values \cup {NULL}]
    BY <1>1, <2>1
  <2>3. ~cut' => MapOf(entries', capacity, contents')
    BY <1>1, <1>6, <2>1, InsertKeepsMap
  <2> QED BY <1>1, <1>3, <2>1, <2>2, <2>3
<1> QED BY <1>4, <1>5, <1>6 DEF Set, k, v

\* table_delete_ex erases.
LEMMA DeleteKeepsMap ==
    ASSUME TableInv, MapInv, NEW k \in Keys, Delete(k)
    PROVE  MapInv'
<1>1. /\ TableTypes /\ Counted /\ pc' = "idle" /\ capacity' = capacity
      /\ entries[Slot(k)].active /\ Erase(k)
      /\ contents \in [Keys -> Values \cup {NULL}] /\ cut \in BOOLEAN
      /\ ~cut => MapOf(entries, capacity, contents)
  BY DEF TableInv, MapInv, Delete
<1>2. cut' = (cut \/ Cuts(k)) /\ contents' = [contents EXCEPT ![k] = NULL]
  BY <1>1 DEF Erase
<1>3. contents' \in [Keys -> Values \cup {NULL}] /\ cut' \in BOOLEAN
  BY <1>1, <1>2 DEF Cuts
<1>4. ~cut' => MapOf(entries', capacity, contents')
  BY <1>1, <1>2, EraseKeepsMap
<1>5. Moved'
  BY <1>1 DEF Moved
<1> QED BY <1>1, <1>3, <1>4, <1>5 DEF MapInv

\* Every operation keeps the table a map until one cuts a path.
LEMMA MapStep == TableInv /\ MapInv /\ [Next]_vars => MapInv'
<1> SUFFICES ASSUME TableInv, MapInv, [Next]_vars PROVE MapInv'
  OBVIOUS
<1>1. /\ contents \in [Keys -> Values \cup {NULL}] /\ cut \in BOOLEAN
      /\ ~cut => MapOf(entries, capacity, contents) /\ Moved
      /\ capacity \in Nat
  BY DEF MapInv, TableInv, TableTypes
<1>2. ASSUME NEW k \in Keys, NEW v \in Values \cup {NULL}, SetCall(k, v) PROVE MapInv'
  <2>1. entries' = entries /\ capacity' = capacity /\ contents' = contents /\ cut' = cut
    BY <1>2 DEF SetCall
  <2>2. CASE NeedsResize
    <3>1. new_entries' = Blank(2 * capacity) /\ next' = 0
      BY <1>2, <2>2 DEF SetCall
    <3>2. Reachable(Blank(2 * capacity), 2 * capacity) /\ Once(Blank(2 * capacity), 2 * capacity)
      BY <1>1, BlankMap
    <3>3. \A j \in 0 .. 2 * capacity - 1 : ~Blank(2 * capacity)[j].active
      BY DEF Blank, Inactive
    <3>4. Moved'
      BY <2>1, <3>1, <3>2, <3>3 DEF Moved
    <3> QED BY <1>1, <2>1, <3>4 DEF MapInv
  <2>3. CASE ~NeedsResize
    <3>1. pc' = "set"
      BY <1>2, <2>3 DEF SetCall
    <3> QED BY <1>1, <2>1, <3>1 DEF MapInv, Moved
  <2> QED BY <2>2, <2>3
<1>3. CASE Move
  <2>1. entries' = entries /\ capacity' = capacity /\ contents' = contents /\ cut' = cut
    BY <1>3 DEF Move
  <2>2. ~cut => Moved'
    BY <1>1, <1>3, MoveKeepsMap
  <2> QED BY <1>1, <2>1, <2>2 DEF MapInv
<1>4. CASE Resized
  <2>1. contents' = contents /\ cut' = cut /\ pc' = "set"
    BY <1>4 DEF Resized
  <2>2. ~cut => MapOf(entries', capacity', contents')
    BY <1>1, <1>4, ResizedKeepsMap
  <2> QED BY <1>1, <2>1, <2>2 DEF MapInv, Moved
<1>5. CASE Set
  BY <1>5, SetKeepsMap
<1>6. CASE SetFails
  <2>1. entries' = entries /\ capacity' = capacity /\ contents' = contents /\ cut' = cut
        /\ pc' = "idle"
    BY <1>6 DEF SetFails
  <2> QED BY <1>1, <2>1 DEF MapInv, Moved
<1>7. ASSUME NEW k \in Keys, Delete(k) PROVE MapInv'
  BY <1>7, DeleteKeepsMap
<1>8. CASE Clear
  <2>1. entries' = Blank(capacity) /\ capacity' = capacity /\ cut' = FALSE /\ pc' = "idle"
        /\ contents' = [k \in Keys |-> NULL]
    BY <1>8 DEF Clear
  <2>2. MapOf(Blank(capacity), capacity, [k \in Keys |-> NULL])
    BY <1>1, BlankMap
  <2>3. contents' \in [Keys -> Values \cup {NULL}]
    BY <2>1
  <2> QED BY <2>1, <2>2, <2>3 DEF MapInv, Moved
<1>9. CASE UNCHANGED vars
  BY <1>1, <1>9 DEF vars, MapInv, Moved, Live
<1> QED BY <1>2, <1>3, <1>4, <1>5, <1>6, <1>7, <1>8, <1>9 DEF Next

LEMMA MapInit == Init => MapInv
<1> SUFFICES ASSUME Init PROVE MapInv
  OBVIOUS
<1>1. capacity \in Nat /\ entries = Blank(capacity) /\ pc = "idle" /\ cut = FALSE
      /\ contents = [k \in Keys |-> NULL]
  BY TableAssumption DEF Init
<1>2. MapOf(Blank(capacity), capacity, [k \in Keys |-> NULL])
  BY <1>1, BlankMap
<1> QED BY <1>1, <1>2 DEF MapInv, Moved

\* In such a table a lookup returns what was set.
LEMMA MapLookup == TableInv /\ MapInv => MapUntilCut
<1> SUFFICES ASSUME TableInv, MapInv, ~cut, NEW k \in Keys PROVE Get(k) = contents[k]
  BY DEF MapUntilCut
<1>1. TableTypes /\ Counted /\ MapOf(entries, capacity, contents)
  BY DEF TableInv, MapInv
<1>2. /\ Slot(k) \in 0 .. capacity - 1
      /\ ~entries[Slot(k)].active \/ entries[Slot(k)].key = k
  BY <1>1, SlotFacts
<1>3. CASE entries[Slot(k)].active
  BY <1>1, <1>2, <1>3 DEF MapOf, Agree, Get
<1>4. CASE ~entries[Slot(k)].active
  <2>1. contents[k] = NULL
    BY <1>1, <1>4, NotHeld DEF MapOf, Agree
  <2>2. entries[Slot(k)] \in EntryType
    BY <1>1, <1>2 DEF TableTypes
  <2>3. entries[Slot(k)].value = NULL
    <3>1. entries[Slot(k)] \notin [key : Keys, value : Values \cup {NULL}, active : {TRUE}]
      BY <1>4
    <3>2. entries[Slot(k)] = Inactive
      BY <2>2, <3>1 DEF EntryType
    <3> QED BY <3>2 DEF Inactive
  <2> QED BY <2>1, <2>3 DEF Get
<1> QED BY <1>3, <1>4

\* table_get_ex finds every key with the value last set for it, through
\* collisions, resizes, deletions and keys set to NULL, as long as no deletion
\* emptied a slot on the way to another key (which a tombstone would have kept).
THEOREM TableIsMapUntilCut == Spec => []MapUntilCut
<1>1. Init => TableInv /\ MapInv
  BY TableInit, MapInit
<1>2. TableInv /\ MapInv /\ [Next]_vars => (TableInv /\ MapInv)'
  BY TableStep, MapStep
<1>3. TableInv /\ MapInv => MapUntilCut
  BY MapLookup
<1> QED BY <1>1, <1>2, <1>3, PTL DEF Spec

=============================================================================
