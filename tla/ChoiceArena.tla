---------------------------- MODULE ChoiceArena ----------------------------
(***************************************************************************)
(* The paged arena of core/src/vm_choice.c that holds the choice records:  *)
(* a list of pages, each a block of memory with a fill mark.  A record is  *)
(* its footprint, the payload and the footprint again, so that a pop can   *)
(* find the start of the newest record from the end of the last page.      *)
(*                                                                         *)
(* Memory is modelled word by word (uint32_t); sizes are in words.  The    *)
(* value of a payload fills all its words.  A popped record's words stay   *)
(* where they are until they are written again.                            *)
(***************************************************************************)
EXTENDS Integers, Sequences, FiniteSets

CONSTANTS
    PAGE_SIZE,     \* CHOICE_ARENA_PAGE_SIZE, in words
    Payloads,      \* lengths of payloads, in bytes
    Records,       \* values of a payload
    MAX_RECORDS    \* bound: records at a time

ASSUME ArenaAssumption ==
    /\ PAGE_SIZE \in Nat
    /\ Payloads \subseteq Nat \ {0}
    /\ Records \subseteq Nat /\ Records # {}
    /\ MAX_RECORDS \in Nat

VARIABLES
    pages,          \* from head to cur
    total_used,     \* a->total_used
    peak_used,      \* a->peak_used
    last_rec_size,  \* a->last_rec_size
    popped,         \* the payload vm_pop_choice has read last
    recs            \* history: what was pushed, and where it went

vars == <<pages, total_used, peak_used, last_rec_size, popped, recs>>

Cur == pages[Len(pages)]

\* A word malloc returned and nobody has written.
Garbage == -1

\* arena_new_page: a record that is too large gets a page of its own size.
NewPage(need) ==
    LET cap == IF need > PAGE_SIZE THEN need ELSE PAGE_SIZE
    IN  [cap |-> cap, used |-> 0, data |-> [w \in 0 .. cap - 1 |-> Garbage]]

\* The payload rounded up to 8 bytes, a size word and a pad on either side.
Footprint(n) == 2 * ((n + 7) \div 8) + 4

Fits(fp) == Cur.used + fp <= Cur.cap

\* The words vm_arena_alloc and then vm_push_choice write.
Store(pg, fp, v) ==
    LET b == pg.used
    IN  [pg EXCEPT !.used = b + fp,
                   !.data = [w \in DOMAIN pg.data |->
                               IF w = b \/ w = b + fp - 1 THEN fp
                               ELSE IF w \in b + 2 .. b + fp - 3 THEN v
                               ELSE pg.data[w]]]

\* vm_arena_create
Init ==
    /\ pages = <<NewPage(0)>>
    /\ total_used = 0
    /\ peak_used = 0
    /\ last_rec_size = 0
    /\ popped \in Records
    /\ recs = <<>>

\* vm_push_choice of v, n bytes long: vm_arena_alloc appends a page when the
\* record does not fit the rest of the last one.
Push(n, v) ==
    LET fp == Footprint(n)
    IN  /\ Len(recs) < MAX_RECORDS
        /\ pages' = IF Fits(fp) THEN [pages EXCEPT ![Len(pages)] = Store(Cur, fp, v)]
                                ELSE Append(pages, Store(NewPage(fp), fp, v))
        /\ total_used' = total_used + fp
        /\ peak_used' = IF total_used' > peak_used THEN total_used' ELSE peak_used
        /\ last_rec_size' = fp
        /\ recs' = Append(recs, [val  |-> v, size |-> fp, below |-> total_used,
                                 page |-> Len(pages'),
                                 base |-> pages'[Len(pages')].used - fp])
        /\ UNCHANGED popped

\* An emptied page behind the head is freed.
DropEmpty(ps) ==
    IF ps[Len(ps)].used = 0 /\ Len(ps) > 1 THEN SubSeq(ps, 1, Len(ps) - 1) ELSE ps

\* The size word before the fill mark.
TailSize(pg) == pg.data[pg.used - 1]

\* Faulty variants, for mutation testing only, stand before the definitions
\* they vary.

\* Fault: the payload is read where the size word is.
PopAtBase ==
    LET fp == TailSize(Cur)
        ps == DropEmpty([pages EXCEPT ![Len(pages)].used = @ - fp])
        pg == ps[Len(ps)]
    IN  /\ total_used > 0
        /\ popped' = Cur.data[Cur.used - fp]
        /\ pages' = ps
        /\ total_used' = total_used - fp
        /\ last_rec_size' = IF pg.used > 0 THEN TailSize(pg) ELSE 0
        /\ recs' = SubSeq(recs, 1, Len(recs) - 1)
        /\ UNCHANGED peak_used

\* Fault: the size of the newest record is not recovered.
PopStaleSize ==
    LET fp == TailSize(Cur)
    IN  /\ total_used > 0
        /\ popped' = Cur.data[Cur.used - fp + 2]
        /\ pages' = DropEmpty([pages EXCEPT ![Len(pages)].used = @ - fp])
        /\ total_used' = total_used - fp
        /\ recs' = SubSeq(recs, 1, Len(recs) - 1)
        /\ UNCHANGED <<peak_used, last_rec_size>>

\* vm_pop_choice reads the newest record, vm_arena_pop_last removes it.
Pop ==
    LET fp == TailSize(Cur)
        ps == DropEmpty([pages EXCEPT ![Len(pages)].used = @ - fp])
        pg == ps[Len(ps)]
    IN  /\ total_used > 0
        /\ popped' = Cur.data[Cur.used - fp + 2]
        /\ pages' = ps
        /\ total_used' = total_used - fp
        /\ last_rec_size' = IF pg.used > 0 THEN TailSize(pg) ELSE 0
        /\ recs' = SubSeq(recs, 1, Len(recs) - 1)
        /\ UNCHANGED peak_used

\* Fault: the head keeps its fill mark.
ResetKeepsHead ==
    /\ pages' = <<pages[1]>>
    /\ total_used' = 0
    /\ peak_used' = 0
    /\ last_rec_size' = 0
    /\ recs' = <<>>
    /\ UNCHANGED popped

\* vm_arena_reset: all pages but the head are freed.
Reset ==
    /\ pages' = <<[pages[1] EXCEPT !.used = 0]>>
    /\ total_used' = 0
    /\ peak_used' = 0
    /\ last_rec_size' = 0
    /\ recs' = <<>>
    /\ UNCHANGED popped

Next ==
    \/ \E n \in Payloads, v \in Records : Push(n, v)
    \/ Pop
    \/ Reset

Spec == Init /\ [][Next]_vars

(***************************************************************************)
(* Properties.                                                             *)
(***************************************************************************)
\* The arena is a stack: whatever pages records are spread over and whatever
\* freed records left behind in them, a pop delivers what the matching push
\* stored.
RS == INSTANCE RecordStack WITH stack <- [i \in DOMAIN recs |-> recs[i].val]
IsStack == RS!Spec

\* Where the walk over the leading size words of a page stands after k records.
Offsets(pg) ==
    LET at[k \in 0 .. pg.used] ==
          IF k = 0 THEN 0
          ELSE LET p == at[k - 1]
               IN  IF p + 2 <= pg.used THEN p + pg.data[p] ELSE p
    IN  at

\* vm_choice_stack_depth walks page by page: every time round the loop, with
\* the page it is on and the records of the page it has passed.
Rounds ==
    LET Going(pg) == LET at == Offsets(pg) IN {k \in 0 .. pg.used : at[k] + 2 <= pg.used}
    IN  UNION {{j} \X Going(pages[j]) : j \in 1 .. Len(pages)}

Depth == Cardinality(Rounds)

\* The depth found by walking the pages is the number of records pushed and
\* not yet popped, however they are spread.
DepthExact == Depth = Len(recs)

\* total_used, by which vm_pop_choice decides that nothing is left, is the
\* sum of the live footprints, last_rec_size is the newest one, and the peak
\* is never below.
Accounting ==
    /\ IF recs = <<>>
         THEN total_used = 0 /\ last_rec_size = 0
         ELSE LET top == recs[Len(recs)]
              IN  /\ total_used = top.below + top.size
                  /\ last_rec_size = top.size
    /\ total_used <= peak_used
=============================================================================
