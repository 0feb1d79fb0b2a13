----------------------------- MODULE SearchDFA -----------------------------
(***************************************************************************)
(* The automaton of core/src/search_tiers.c (build_dfa and the walks over  *)
(* it): the subset construction over the instructions of a program.  A     *)
(* state of the NFA is <<k, j>>: instruction k with j bytes of its literal *)
(* read.  A state of the DFA is a set of those, and the empty set is       *)
(* SNOBOL_DFA_DEAD.                                                        *)
(***************************************************************************)
EXTENDS SearchTask, SearchMeta

CONSTANTS
    SNOBOL_DFA_MAX_STATES

\* Where an instruction leads without consuming.  The operands of the loop
\* instructions are read one byte early: the skip target of REPEAT_INIT comes
\* out beyond any program (for a max that is no multiple of 256), the target
\* of REPEAT_STEP as 0, the start, for loop 0 and beyond any program otherwise.
Epsilon(code, k) ==
    LET i == code[k]
    IN  CASE i.op = "JMP"         -> {i.target}
          [] i.op = "SPLIT"       -> {i.a, i.b}
          [] i.op \in {"NOP", "FENCE", "ANCHOR", "POS", "RPOS", "TAB", "RTAB",
                       "REPEAT_INIT", "BREAK"} -> {k + 1}
          [] i.op = "LIT"         -> IF i.text = <<>> THEN {k + 1} ELSE {}
          [] i.op = "REPEAT_STEP" -> IF i.loop = 0 THEN {1} ELSE {}
          [] OTHER                -> {}

\* epsilon_closure: the least set that contains k and is closed.
Closed(code, k) ==
    LET near[n \in 1 .. Len(code)] ==
          IF n = 1 THEN {k}
          ELSE LET S == near[n - 1]
               IN  S \cup (UNION {Epsilon(code, x) : x \in S} \cap (1 .. Len(code)))
    IN  near[Len(code)]
Closure(code, k) == IF k > Len(code) THEN {} ELSE Closed(code, k) \X {0}

\* Fault: the class of a negative instruction is not inverted.
OpBytesUninverted(i) == IF i.op = "LEN" THEN Bytes
                        ELSE IF i.op \notin ClassOps \ {"BREAKX"} THEN {}
                        ELSE IF i.set = {} THEN Bytes ELSE AsciiPart(i.set)

\* get_op_bytes: the bytes an instruction consumes first; of an empty class, all.
OpBytes(i) ==
    CASE i.op \in ClassOps \ {"BREAKX"} /\ i.set = {} -> Bytes
      [] i.op \in {"ANY", "SPAN"}     -> AsciiPart(i.set)
      [] i.op \in {"NOTANY", "BREAK"} -> Bytes \ AsciiPart(i.set)
      [] i.op = "LEN"                 -> Bytes
      [] OTHER                        -> {}

\* The transition of one NFA state on byte c.  LEN(n) for n > 1 stays where
\* it is; LEN(0) consumes like LEN(1).
Move(code, x, c) ==
    LET k == x[1]
        i == code[k]
    IN  CASE i.op = "LIT" /\ i.text # <<>> ->
               IF i.text[x[2] + 1] # c THEN {}
               ELSE IF x[2] + 1 = Len(i.text) THEN Closure(code, k + 1)
               ELSE {<<k, x[2] + 1>>}
          [] c \in OpBytes(i) /\ i.op \in {"ANY", "NOTANY"} -> Closure(code, k + 1)
          [] c \in OpBytes(i) /\ i.op = "SPAN"  -> Closure(code, k) \cup Closure(code, k + 1)
          [] c \in OpBytes(i) /\ i.op = "BREAK" -> Closure(code, k)
          [] i.op = "LEN" -> IF i.n <= 1 THEN Closure(code, k + 1) ELSE {x}
          [] OTHER -> {}

\* build_dfa: the reachable states and their transitions; no automaton, NoDfa,
\* when there are too many.
NoDfa == [none |-> TRUE]
After(code, S, c) == UNION {Move(code, x, c) : x \in S}
Reachable(code, start) ==
    LET found[n \in Nat] ==
          IF n = 0 THEN {start}
          ELSE LET Q == found[n - 1]
               IN  IF Cardinality(Q) >= SNOBOL_DFA_MAX_STATES THEN Q
                   ELSE Q \cup ({After(code, S, c) : S \in Q, c \in Bytes} \ {{}})
    IN  found[SNOBOL_DFA_MAX_STATES]
BuildDfa(code) ==
    LET start  == Closure(code, 1)
        states == Reachable(code, start)
    IN  IF Cardinality(states) >= SNOBOL_DFA_MAX_STATES THEN NoDfa
        ELSE [start     |-> start,
              accepting |-> {S \in states : \E x \in S : code[x[1]].op = "ACCEPT"},
              trans     |-> [S \in states |-> [c \in Bytes |-> After(code, S, c)]]]

\* Where the walk from p first accepts; -1 when the subject ends before, -2
\* when the walk dies.
WalkEnd(dfa, p) ==
    LET at[q \in p .. SLen] ==
          IF q = p THEN dfa.start
          ELSE IF at[q - 1] = {} THEN {} ELSE dfa.trans[at[q - 1]][ByteAt(q - 1)]
        ends == {q \in p .. SLen : at[q] \in dfa.accepting}
    IN  IF ends # {} THEN CHOOSE q \in ends : \A x \in ends : q <= x
        ELSE IF at[SLen] # {} THEN -1 ELSE -2

NoMatch == [success |-> FALSE, start |-> 0, end |-> 0]
Match(p, q) == [success |-> TRUE, start |-> p, end |-> q]

\* search_automaton_exec_anchored.
AutomatonExecAnchored(dfa, offset) ==
    LET q == WalkEnd(dfa, offset)
    IN  IF q >= 0 THEN Match(offset, q) ELSE NoMatch

\* search_automaton_exec: a walk that dies restarts at the next position, one
\* that reaches the end of the subject ends the scan.
AutomatonExec(dfa, offset) ==
    LET alive == {p \in offset .. SLen : WalkEnd(dfa, p) # -2}
        first == CHOOSE p \in alive : \A x \in alive : p <= x
    IN  IF alive = {} \/ WalkEnd(dfa, first) = -1 THEN NoMatch
        ELSE Match(first, WalkEnd(dfa, first))
=============================================================================
