----------------------------- MODULE HashTable -----------------------------
(***************************************************************************)
(* The associative table of core/src/table.c: open addressing with linear  *)
(* probing, doubled when live and deleted entries fill three quarters.     *)
(*                                                                         *)
(* table_set_ex runs in stages (pc): after the call it may rehash, one old *)
(* slot a step, and then stores.  The table belongs to one thread, so no   *)
(* other operation comes in between.  get, has and size only read.         *)
(* Reference counts and names are left out.                                *)
(***************************************************************************)
EXTENDS Integers, FiniteSets

CONSTANTS
    Keys,              \* key strings
    Values,            \* value strings
    NULL,              \* no string
    Hash,              \* table_hash_bytes of each key
    INITIAL_CAPACITY,  \* TABLE_INITIAL_CAPACITY, a power of two
    MAX_CAPACITY,      \* bound: no resize beyond
    MAX_SIZE           \* bound: no insertion beyond

ASSUME TableAssumption ==
    /\ NULL \notin Keys \cup Values
    /\ Hash \in [Keys -> Nat]
    /\ INITIAL_CAPACITY \in Nat /\ INITIAL_CAPACITY > 4
    /\ MAX_CAPACITY \in Nat
    /\ MAX_SIZE \in Nat

VARIABLES
    entries,      \* the slots
    capacity,     \* number of slots
    size,         \* table->size
    tombstones,   \* table->tombstones
    pc,           \* "idle", or where table_set_ex is: "rehash" or "set"
    arg,          \* its key and value
    new_entries,  \* table_resize: the new slots
    next,         \* table_resize: the old slot to move next
    contents,     \* history: the value last set for each key
    cut           \* history: a deletion has cut the path to another key

vars == <<entries, capacity, size, tombstones, pc, arg, new_entries, next, contents, cut>>

NoCall == [key |-> NULL, value |-> NULL]
Inactive == [key |-> NULL, value |-> NULL, active |-> FALSE]
Entry(k, v) == [key |-> k, value |-> v, active |-> TRUE]
Blank(cap) == [i \in 0 .. cap - 1 |-> Inactive]

(***************************************************************************)
(* Probing.                                                                *)
(***************************************************************************)
\* The d-th slot of key k's path; the masks of the code reduce modulo a power
\* of two.
Home(k, cap) == Hash[k] % cap
Along(k, d, cap) == IF Home(k, cap) + d < cap THEN Home(k, cap) + d ELSE Home(k, cap) + d - cap

Least(S) == CHOOSE d \in S : \A x \in S : d <= x

\* table_get_ex, table_delete_ex and table_set_ex stop at the first slot that
\* holds k or is not active.
Halts(k) == {d \in 0 .. capacity - 1 :
                LET e == entries[Along(k, d, capacity)] IN ~e.active \/ e.key = k}
Slot(k)  == Along(k, Least(Halts(k)), capacity)

Get(k) == entries[Slot(k)].value

(***************************************************************************)
(* Operations.                                                             *)
(***************************************************************************)
\* table_create
Init ==
    /\ capacity = INITIAL_CAPACITY
    /\ entries = Blank(capacity)
    /\ size = 0
    /\ tombstones = 0
    /\ pc = "idle"
    /\ arg = NoCall
    /\ new_entries = Blank(0)
    /\ next = 0
    /\ contents = [k \in Keys |-> NULL]
    /\ cut = FALSE

\* table_maybe_resize.  tombstones is a size_t and can be decremented at zero
\* (Insert); it is only read in this sum, where the wrap-around cancels out.
NeedsResize == size + tombstones > (capacity * 3) \div 4

\* table_set_ex(k, v) is called.
SetCall(k, v) ==
    /\ pc = "idle"
    /\ size < MAX_SIZE
    /\ NeedsResize => 2 * capacity <= MAX_CAPACITY
    /\ arg' = [key |-> k, value |-> v]
    /\ IF NeedsResize
         THEN pc' = "rehash" /\ new_entries' = Blank(2 * capacity) /\ next' = 0
         ELSE pc' = "set" /\ UNCHANGED <<new_entries, next>>
    /\ UNCHANGED <<entries, capacity, size, tombstones, contents, cut>>

Live(e) == e.active /\ e.value # NULL

\* Fault: the slot a key hashes to is taken even if it is in use.
FreeSlotHome(k) == Along(k, 0, 2 * capacity)

\* The free slot of the new array for key k.
FreeSlot(k) ==
    LET free == {d \in 0 .. 2 * capacity - 1 : ~new_entries[Along(k, d, 2 * capacity)].active}
    IN  Along(k, Least(free), 2 * capacity)

\* table_resize, one iteration: an entry with a value is moved.
Move ==
    /\ pc = "rehash"
    /\ next < capacity
    /\ new_entries' = IF Live(entries[next])
                        THEN [new_entries EXCEPT ![FreeSlot(entries[next].key)] = entries[next]]
                        ELSE new_entries
    /\ next' = next + 1
    /\ UNCHANGED <<entries, capacity, size, tombstones, pc, arg, contents, cut>>

\* table_resize, after the loop: size is not recounted.
Resized ==
    /\ pc = "rehash"
    /\ next = capacity
    /\ entries' = new_entries
    /\ capacity' = 2 * capacity
    /\ tombstones' = 0
    /\ pc' = "set"
    /\ new_entries' = Blank(0)
    /\ next' = 0
    /\ UNCHANGED <<size, arg, contents, cut>>

\* An active entry lies beyond k's slot on its own key's path.
Cuts(k) ==
    \E i \in 0 .. capacity - 1 :
        LET e == entries[i]
        IN  /\ e.active
            /\ Slot(k) \in {Along(e.key, d, capacity) : d \in 0 .. ((i - Hash[e.key]) % capacity) - 1}

\* The entry of k is emptied.  Its slot is no longer active.
Erase(k) ==
    /\ entries' = [entries EXCEPT ![Slot(k)] = Inactive]
    /\ size' = size - 1
    /\ tombstones' = tombstones + 1
    /\ contents' = [contents EXCEPT ![k] = NULL]
    /\ cut' = (cut \/ Cuts(k))

\* Active entries without a value passed on the way to k's slot.
Passed(k) == {d \in 0 .. Least(Halts(k)) - 1 : entries[Along(k, d, capacity)].value = NULL}

\* Fault: the key goes where the old mask points.
InsertStale(k, v) ==
    /\ entries' = [entries EXCEPT ![Hash[k] % INITIAL_CAPACITY] = Entry(k, v)]
    /\ size' = size + 1
    /\ UNCHANGED tombstones
    /\ contents' = [contents EXCEPT ![k] = v]
    /\ UNCHANGED cut

\* Fault: an entry put into a slot that was used before is not counted.
InsertUncounted(k, v) ==
    /\ IF Passed(k) # {}
         THEN /\ entries' = [entries EXCEPT ![Along(k, Least(Passed(k)), capacity)] = Entry(k, v)]
              /\ tombstones' = tombstones - 1
              /\ UNCHANGED size
         ELSE /\ entries' = [entries EXCEPT ![Slot(k)] = Entry(k, v)]
              /\ size' = size + 1
              /\ UNCHANGED tombstones
    /\ contents' = [contents EXCEPT ![k] = v]
    /\ UNCHANGED cut

\* A key that is not there goes into the first of those, or else into the slot
\* the search ended at.
Insert(k, v) ==
    /\ IF Passed(k) # {}
         THEN /\ entries' = [entries EXCEPT ![Along(k, Least(Passed(k)), capacity)] = Entry(k, v)]
              /\ tombstones' = tombstones - 1
         ELSE /\ entries' = [entries EXCEPT ![Slot(k)] = Entry(k, v)]
              /\ UNCHANGED tombstones
    /\ size' = size + 1
    /\ contents' = [contents EXCEPT ![k] = v]
    /\ UNCHANGED cut

Update(k, v) ==
    /\ entries' = [entries EXCEPT ![Slot(k)].value = v]
    /\ contents' = [contents EXCEPT ![k] = v]
    /\ UNCHANGED <<size, tombstones, cut>>

\* table_set_ex, after table_maybe_resize.
Set ==
    /\ pc = "set"
    /\ LET k == arg.key
           v == arg.value
       IN  \/ entries[Slot(k)].active /\ v # NULL /\ Update(k, v)
           \/ entries[Slot(k)].active /\ v = NULL /\ Erase(k)
           \/ ~entries[Slot(k)].active /\ Insert(k, v)
    /\ pc' = "idle"
    /\ arg' = NoCall
    /\ UNCHANGED <<capacity, new_entries, next>>

\* A copy of the key or the value cannot be allocated: table_set_ex returns
\* false, a resized table stays resized.  Deleting allocates nothing.  (When
\* the resize itself fails nothing has changed.)
SetFails ==
    /\ pc = "set"
    /\ entries[Slot(arg.key)].active => arg.value # NULL
    /\ pc' = "idle"
    /\ arg' = NoCall
    /\ UNCHANGED <<entries, capacity, size, tombstones, new_entries, next, contents, cut>>

\* table_delete_ex finds k.
Delete(k) ==
    /\ pc = "idle"
    /\ entries[Slot(k)].active
    /\ Erase(k)
    /\ UNCHANGED <<capacity, pc, arg, new_entries, next>>

\* table_clear
Clear ==
    /\ pc = "idle"
    /\ entries' = Blank(capacity)
    /\ size' = 0
    /\ tombstones' = 0
    /\ contents' = [k \in Keys |-> NULL]
    /\ cut' = FALSE
    /\ UNCHANGED <<capacity, pc, arg, new_entries, next>>

Next ==
    \/ \E k \in Keys, v \in Values \cup {NULL} : SetCall(k, v)
    \/ Move \/ Resized \/ Set \/ SetFails
    \/ \E k \in Keys : Delete(k)
    \/ Clear

Spec == Init /\ [][Next]_vars

(***************************************************************************)
(* Properties.                                                             *)
(***************************************************************************)
Slots == 0 .. capacity - 1

\* Every search ends: however keys have been set, deleted, re-inserted and
\* moved, a slot is free, in the table and in the one being filled by a resize.
\* A search for an absent key in a full table would go round for ever.
ProbeEnds ==
    /\ \E i \in Slots : ~entries[i].active
    /\ pc = "rehash" => \E i \in 0 .. 2 * capacity - 1 : ~new_entries[i].active

\* What has just been written is what a lookup finds, also when the write
\* resized the table or a stale entry of the key lies further on.
OwnWriteVisible ==
    [][\A k \in Keys : /\ (Set /\ arg.key = k) => Get(k)' = arg.value
                       /\ Delete(k) => Get(k)' = NULL]_vars

\* As long as no deletion cuts the path to another key the table is a map: all
\* keys are found with their values, through collisions, resizes, deletions and
\* keys set to NULL.
MapUntilCut ==
    (pc = "idle" /\ ~cut) => \A k \in Keys : Get(k) = contents[k]

\* The table is a map.
IsMap == pc = "idle" => \A k \in Keys : Get(k) = contents[k]
=============================================================================
