---------------------------- MODULE BatchSearch ----------------------------
(***************************************************************************)
(* snobol_pattern_search_batch(_ex): all matches of a subject in one call, *)
(* collected into arrays that grow.  core/src/api.c, batch_run.            *)
(*                                                                         *)
(* One step is one turn of the loop.  Its search is external (SearchTiers  *)
(* models it): any match at or behind the offset, or none.  An array is    *)
(* the number of entries allocated and what was written; an allocation     *)
(* that fails is a choice of the step.                                     *)
(***************************************************************************)
EXTENDS Naturals, Sequences, FiniteSets

CONSTANTS
    SUBJECT_BYTES,   \* length of the subject
    BATCH_CAP,       \* first capacity of the arrays and rows (64)
    OUT_CAP,         \* first capacity of the output buffer (1024)
    MAX_VARS,        \* rows of captures
    OutputLengths    \* bytes a match may emit

ASSUME BatchAssumption ==
    /\ SUBJECT_BYTES \in Nat
    /\ BATCH_CAP \in Nat \ {0}
    /\ OUT_CAP \in Nat \ {0}
    /\ MAX_VARS \in Nat
    /\ OutputLengths \subseteq Nat

VARIABLES
    batch,    \* the call: arrays, rows, output buffer, offset
    found     \* the matches the searches returned, in order

batchVars == <<batch, found>>

Regs == 1 .. MAX_VARS
NoRow == [cap |-> 0, entry |-> <<>>]

Idle == [pc |-> "idle", count |-> 0, offset |-> 0, cap |-> 0,
         positions |-> <<>>, lengths |-> <<>>, rows |-> [r \in Regs |-> NoRow],
         var_count |-> 0, out_pos |-> 0, outbuf_cap |-> 0, outbuf_size |-> 0,
         outside |-> {}]

BatchInit == batch = Idle /\ found = <<>>

\* Until the main loop: fixed arrays, or no result.
BatchBegin ==
    /\ batch.pc = "idle"
    /\ \E fails \in BOOLEAN :
         batch' = IF fails THEN [Idle EXCEPT !.pc = "false"]
                  ELSE [Idle EXCEPT !.pc = "loop", !.cap = BATCH_CAP,
                                    !.outbuf_cap = OUT_CAP, !.outbuf_size = OUT_CAP]
    /\ UNCHANGED found

\* A match [start, len, regs, out] of a search from offset on.
MatchesFrom(offset) ==
    UNION {UNION {[start : {p}, len : {n}, out : OutputLengths,
                   regs : UNION {[1 .. k -> {<<0, 0>>, <<0, n>>}] : k \in 0 .. MAX_VARS}]
             : n \in 0 .. SUBJECT_BYTES - p} : p \in offset .. SUBJECT_BYTES}

\* Twice the capacity until it holds entry i.
Doubled(cap, i) == CHOOSE c \in {cap * (2 ^ k) : k \in 1 .. i + 1} :
                      /\ c > i
                      /\ \A k \in 1 .. i + 1 : cap * (2 ^ k) > i => c <= cap * (2 ^ k)

ZeroRow(n) == [i \in 0 .. n - 1 |-> <<0, 0>>]

\* Fault: a row grows when the arrays do.
RowForArrays(row, i, cap) ==
    IF row.cap = 0 THEN [cap |-> cap, entry |-> ZeroRow(cap)]
    ELSE IF i >= cap
      THEN LET c == Doubled(row.cap, i)
           IN  [cap |-> c, entry |-> [j \in 0 .. c - 1 |-> IF j < row.cap THEN row.entry[j] ELSE <<0, 0>>]]
      ELSE row

\* A row that can take entry i: allocated on first use with the capacity of
\* the arrays, doubled with a zeroed tail when entry i is outside.
RowFor(row, i, cap) ==
    IF row.cap = 0 THEN [cap |-> cap, entry |-> ZeroRow(cap)]
    ELSE IF i >= row.cap
      THEN LET c == Doubled(row.cap, i)
           IN  [cap |-> c, entry |-> [j \in 0 .. c - 1 |-> IF j < row.cap THEN row.entry[j] ELSE <<0, 0>>]]
      ELSE row

GrowsRow(row, i) == row.cap = 0 \/ i >= row.cap

\* The pair of register r: place in the subject and length.
Span(m, r) == <<m.start + m.regs[r][1], m.regs[r][2] - m.regs[r][1]>>

\* One register: the row is skipped when it has to grow and cannot.
RowAfter(row, i, cap, m, r, fails) ==
    IF fails /\ GrowsRow(row, i) THEN row
    ELSE LET grown == RowFor(row, i, cap)
         IN  IF i < grown.cap THEN [grown EXCEPT !.entry[i] = Span(m, r)] ELSE grown

\* The output: the capacity is doubled before the memory is there.
OutCap(b, m) == IF b.out_pos + m.out + 1 > b.outbuf_cap
                  THEN Doubled(b.outbuf_cap, b.out_pos + m.out) ELSE b.outbuf_cap
GrowsOut(b, m) == OutCap(b, m) # b.outbuf_cap

\* Fault: the next search starts where the match ended.
NextOffsetAtEnd(m) == m.start + m.len

\* For an empty match the next search starts one byte further.
NextOffset(m) == m.start + (IF m.len > 0 THEN m.len ELSE 1)

\* The arrays one match needs, and the indexes written outside of them.
ArrayCap(b) == IF b.count >= b.cap THEN b.cap * 2 ELSE b.cap
Record(b, m, rowFails, outFails) ==
    LET i    == b.count
        cap  == ArrayCap(b)
        rows == [r \in Regs |-> IF r \in DOMAIN m.regs THEN RowAfter(b.rows[r], i, cap, m, r, rowFails)
                                ELSE b.rows[r]]
        size == IF GrowsOut(b, m) /\ ~outFails THEN OutCap(b, m) ELSE b.outbuf_size
    IN  [pc |-> b.pc, count |-> i + 1, offset |-> NextOffset(m), cap |-> cap,
         positions |-> Append(b.positions, m.start), lengths |-> Append(b.lengths, m.len),
         rows |-> rows,
         var_count |-> IF Len(m.regs) > b.var_count THEN Len(m.regs) ELSE b.var_count,
         out_pos |-> b.out_pos + m.out + 1, outbuf_cap |-> OutCap(b, m), outbuf_size |-> size,
         outside |-> b.outside \cup (IF i >= cap THEN {"arrays"} ELSE {})
                       \cup {"rows" : r \in {x \in DOMAIN m.regs :
                               /\ ~(rowFails /\ GrowsRow(b.rows[x], i))
                               /\ i >= rows[x].cap}}
                       \cup (IF b.out_pos + m.out + 1 > size THEN {"output"} ELSE {})]

\* An allocation may fail where one is made.
Failing(allocates) == IF allocates THEN BOOLEAN ELSE {FALSE}

\* The arrays cannot grow: no result, although the call was eligible.
GiveUp(b) == [Idle EXCEPT !.pc = "false"]

BatchStep ==
    /\ batch.pc = "loop" /\ batch.offset <= SUBJECT_BYTES
    /\ \E m \in MatchesFrom(batch.offset) :
         \/ \E rowFails \in Failing(\E r \in DOMAIN m.regs : GrowsRow(batch.rows[r], batch.count)),
               outFails \in Failing(GrowsOut(batch, m)) :
              /\ batch' = Record(batch, m, rowFails, outFails)
              /\ found' = Append(found, [match |-> m, rowFails |-> rowFails, outFails |-> outFails])
         \/ /\ batch.count >= batch.cap /\ batch' = GiveUp(batch)
            /\ UNCHANGED found

\* The search fails or aborts, or the subject is used up.
BatchEnd ==
    /\ batch.pc = "loop"
    /\ batch' = IF batch.count = 0 THEN GiveUp(batch) ELSE [batch EXCEPT !.pc = "true"]
    /\ UNCHANGED found

\* snobol_batch_result_free, or the caller drops a call without a result.
BatchResultFree ==
    /\ batch.pc \in {"true", "false"}
    /\ batch' = Idle /\ found' = <<>>

BatchNext == BatchBegin \/ BatchStep \/ BatchEnd \/ BatchResultFree

BatchSpec == BatchInit /\ [][BatchNext]_batchVars

-----------------------------------------------------------------------------
\* The arrays are the matches the searches returned, one after the other:
\* no match overlaps or repeats an earlier one, and every match that sets a
\* register has it in the row of the register, unless the row could not grow for
\* it; then, and where the match did not set it, the row holds zero or ends
\* before.
BatchExact ==
    batch.pc \in {"loop", "true"} =>
        /\ batch.count = Len(found)
        /\ \A i \in 1 .. Len(found) : LET m == found[i].match IN
             /\ batch.positions[i] = m.start /\ batch.lengths[i] = m.len
             /\ i > 1 => LET prev == found[i - 1].match
                         IN  m.start >= prev.start + prev.len /\ m.start > prev.start
             /\ \A r \in Regs :
                  \/ /\ r \in DOMAIN m.regs /\ i <= batch.rows[r].cap
                     /\ batch.rows[r].entry[i - 1] = Span(m, r)
                  \/ /\ r \notin DOMAIN m.regs \/ found[i].rowFails
                     /\ i <= batch.rows[r].cap => batch.rows[r].entry[i - 1] = <<0, 0>>

\* Positions, lengths and captures are only written inside the memory that
\* was allocated for them, and output too until its buffer fails to grow.
WritesInside ==
    /\ batch.outside \subseteq {"output"}
    /\ "output" \in batch.outside => \E i \in DOMAIN found : found[i].outFails
=============================================================================
