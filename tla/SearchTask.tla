----------------------------- MODULE SearchTask -----------------------------
(***************************************************************************)
(* What every search engine of core/src/search_tiers.c works on: one       *)
(* search of a subject for a compiled program, and the registers a program *)
(* writes.  A subject is a sequence of ASCII codes, so a character is a    *)
(* byte; PatternVM models UTF-8.  Positions are counted from 0.            *)
(***************************************************************************)
EXTENDS Integers, Sequences, FiniteSets, SequencesExt

CONSTANTS
    MAX_CAPS, MAX_VARS, MAX_LOOPS

VARIABLES
    pattern,     \* [code, meta, dfa, tree]: a compiled program, what a search
                 \* derives from it once, and the tree it was compiled from
    task         \* [subject, start, anchored, dfa, cost]

UNBOUNDED == -1   \* (uint32_t)-1, the max of a loop without one

Code == pattern.code
SLen == Len(task.subject)
ByteAt(p) == task.subject[p + 1]
Slice(p, q) == SubSeq(task.subject, p + 1, q)
LiteralAt(text, p) == p + Len(text) <= SLen /\ Slice(p, p + Len(text)) = text

\* Where the run of bytes in set that begins at p ends.
RunEnd(p, set) ==
    CHOOSE q \in p .. SLen :
        /\ \A x \in p .. q - 1 : ByteAt(x) \in set
        /\ q = SLen \/ ByteAt(q) \notin set
\* Where the next byte of set from p on is, the end if there is none.
RunUntil(p, set) ==
    CHOOSE q \in p .. SLen :
        /\ \A x \in p .. q - 1 : ByteAt(x) \notin set
        /\ q = SLen \/ ByteAt(q) \in set

(***************************************************************************)
(* Registers: captures and variables as pairs (start, end), loops as       *)
(* (counter, loop_last_pos), and how many of the first two are in use.     *)
(***************************************************************************)
ZeroRegs ==
    [cap  |-> [r \in 0 .. MAX_CAPS - 1 |-> <<0, 0>>],
     var  |-> [v \in 0 .. MAX_VARS - 1 |-> <<0, 0>>],
     loop |-> [l \in 0 .. MAX_LOOPS - 1 |-> <<0, 0>>],
     caps |-> 0, vars |-> 0]

Above(n, r) == IF r >= n THEN r + 1 ELSE n

WithCapStart(R, r, p) ==
    IF r >= MAX_CAPS THEN R
    ELSE [R EXCEPT !.cap[r][1] = p, !.caps = Above(R.caps, r)]

\* A capture is also the variable of its number.
WithCapEnd(R, r, p) ==
    LET C == [R EXCEPT !.cap[r][2] = p, !.caps = Above(R.caps, r)]
    IN  IF r >= MAX_CAPS THEN R
        ELSE IF r >= MAX_VARS THEN C
        ELSE [C EXCEPT !.var[r] = C.cap[r], !.vars = Above(C.vars, r)]

WithAssign(R, v, r) ==
    IF v < MAX_VARS /\ r < MAX_CAPS
      THEN [R EXCEPT !.var[v] = R.cap[r], !.vars = Above(R.vars, v)]
      ELSE R
=============================================================================
