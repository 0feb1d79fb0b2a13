---------------------------- MODULE MCPatternVM ----------------------------
(***************************************************************************)
(* Small instances of PatternVM: programs compiled by PatternCodegen from  *)
(* pattern trees, a few hand-written ones for the opcodes the compiler     *)
(* does not combine that way, subjects of up to three characters, and the  *)
(* reference meaning of a pattern tree the runs are compared with.         *)
(***************************************************************************)
EXTENDS PatternVM, PatternTrees, SequencesExt

CG == INSTANCE PatternCodegen

(***************************************************************************)
(* Pattern trees.                                                          *)
(***************************************************************************)
a == 97
b == 98
e_acute == 233

LitA  == LitN(<<a>>)
LitB  == LitN(<<b>>)
LitAB == LitN(<<a, b>>)
Words == {LitA, LitAB, ClassN("ANY", {a, b})}

\* One of each matching primitive, with a wide and a narrow class.
Primitives ==
    {LitAB, ClassN("ANY", {a, e_acute}), ClassN("NOTANY", {a, e_acute}),
     ClassN("SPAN", {a}), ClassN("SPAN", {a, e_acute}), ClassN("BREAK", {b}),
     ClassN("BREAKX", {b}), ClassN("BREAKX", {b, e_acute}), CountN("LEN", 1),
     CountN("POS", 0), CountN("RPOS", 0), CountN("TAB", 0), CountN("RTAB", 0),
     PlainN("REM"), PlainN("FAIL"), AnchorN("start"), AnchorN("end"),
     [op |-> "BAL", open |-> a, close |-> b]}

\* A primitive behind one character and before a rest to be captured.
Cursor == {Cat(<<Rep(CountN("LEN", 1), 0, 1), x, Cap(0, PlainN("REM"))>>) :
              x \in Primitives \ {[op |-> "BAL", open |-> a, close |-> b]}}
          \cup {[op |-> "BAL", open |-> a, close |-> b]}

\* Alternatives that write the same captures before they fail.
Branching == {Cat(<<Cap(0, x), Alt(Cat(<<Cap(0, y), Cap(1, LitB)>>), z), AnchorN("end")>>) :
                 x \in {LitA, ClassN("BREAKX", {b})}, y \in Words, z \in Words}

\* Loops over one body, bounded and not, with a tail that makes them give
\* back iterations.
Bodies == {LitA, Cap(0, Alt(LitA, LitAB)), Alt(Cap(0, LitAB), Cap(1, LitA)),
           Rep(LitB, 0, 1), Cat(<<>>), Arbno(Arbno(LitA))}
Bounds == {<<0, 1>>, <<1, UNBOUNDED>>, <<0, UNBOUNDED>>, <<1, 2>>, <<2, 3>>}
\* A loop inside a loop: an inner choice outlives the next entry of the loop.
Nested == {Cat(<<Rep(Cat(<<Rep(Alt(LitA, LitAB), 1, hi), Rep(LitB, 0, 1)>>), 1, m),
                 AnchorN("end")>>) :
              hi \in {2, UNBOUNDED}, m \in {2, UNBOUNDED}}
Looping == {Cat(<<Rep(x, m[1], m[2]), Cap(1, y)>>) :
               x \in Bodies, m \in Bounds, y \in {LitA}}
           \cup {Cat(<<Arbno(Cat(<<Arbno(LitA), LitB>>)), AnchorN("end")>>),
                 Arbno(Arbno(Rep(LitAB, 0, UNBOUNDED)))}

\* Unbounded loops over exactly one SPAN.
SpanLoops == {Cat(<<Rep(ClassN("SPAN", {a}), lo, UNBOUNDED), Cap(0, y)>>) :
                 lo \in {0, 1}, y \in {LitA, LitB}}

Trees == Cursor \cup Branching \cup Looping \cup Nested

(***************************************************************************)
(* Programs without a reference meaning: control, output, tables,          *)
(* callbacks, operands the VM has to refuse.                               *)
(***************************************************************************)
T == "t"
RegRef(r)    == [op |-> "REG_REF", r |-> r]
Lookup(k)    == [op |-> "TABLE_ACCESS", table |-> T, key |-> k]
Update(k, v) == [op |-> "TABLE_UPDATE", table |-> T, key |-> k, value |-> v]

StatefulTrees ==
    {Alt(Cat(<<Cap(0, LitA), PlainN("FENCE"), LitB>>), PlainN("REM")),
     Alt(Cat(<<Cap(0, LitA), Alt(PlainN("ABORT"), LitB)>>), PlainN("REM")),
     Cat(<<Alt(LitA, LitAB), PlainN("SUCCEED")>>),
     Alt(Lookup(ClassN("ANY", {a, b})), LitA),
     Cat(<<Rep(Update(LitA, LitB), 0, 2), Lookup(LitA)>>),
     Alt(Update(Cat(<<>>), LitA), LitA),
     Cat(<<Cap(1, LitA), Rep(Update(RegRef(1), LitB), 0, 1), Lookup(RegRef(1))>>),
     Alt(Cat(<<Cap(1, LitA), Lookup(RegRef(0))>>), Lookup(RegRef(1))),
     Cat(<<Cap(0, Rep(LitA, 0, 2)), [op |-> "EVAL", r |-> 0],
           [op |-> "ASSIGN", var |-> 1, r |-> 0],
           [op |-> "EMIT_LITERAL", text |-> <<b>>],
           [op |-> "EMIT_CAPTURE", r |-> 0], AnchorN("end")>>),
     [op |-> "LABEL_DEF", name |-> "l",
      sub |-> Alt(Cat(<<LitA, [op |-> "GOTO_STMT", name |-> "l"]>>), LitB)],
     Cat(<<CountN("POS", 1), CountN("TAB", 2), CountN("RTAB", 1), CountN("RPOS", 1)>>)}

\* GOTO to a label outside the table, its GOTO_F, operands out of range, and
\* code that ends without ACCEPT.
HandWritten ==
    {[labels |-> <<5>>, code |->
        <<[op |-> "SPLIT", a |-> 2, b |-> 3], [op |-> "GOTO", label |-> 9],
          [op |-> "GOTO_F", label |-> 1], [op |-> "ACCEPT"], [op |-> "FAIL"]>>],
     [labels |-> <<>>, code |->
        <<[op |-> "SPLIT", a |-> 2, b |-> 3], [op |-> "GOTO", label |-> 1],
          [op |-> "GOTO_F", label |-> 1], [op |-> "ACCEPT"]>>],
     [labels |-> <<>>, code |->
        <<[op |-> "GOTO_F", label |-> 1], [op |-> "CAP_START", r |-> MAX_CAPS],
          [op |-> "CAP_END", r |-> MAX_CAPS], [op |-> "ASSIGN", var |-> MAX_VARS, r |-> 0],
          [op |-> "REPEAT_INIT", loop |-> MAX_LOOPS, min |-> 0, max |-> 1, skip |-> 1],
          [op |-> "REPEAT_STEP", loop |-> MAX_LOOPS, target |-> 1],
          [op |-> "EMIT_CAPTURE", r |-> MAX_CAPS],
          [op |-> "JMP", target |-> 10], [op |-> "ACCEPT"]>>]}

None == PlainN("NONE")
WithTree(node, tree) == LET c == CG!Compile(node)
                        IN  [code |-> c.code, labels |-> c.labels, tree |-> tree]
Unreferenced == {WithTree(n, None) : n \in StatefulTrees}
                \cup {[code |-> P.code, labels |-> P.labels, tree |-> None] : P \in HandWritten}
Referenced(ns) == {WithTree(n, n) : n \in ns}

MCPrograms       == Referenced(Trees \cup SpanLoops) \cup Unreferenced
MCLegacyPrograms == Referenced(Trees) \cup Unreferenced

\* A loop whose body only begins with SPAN: the run that shows a disagreement.
MCSpanBodyPrograms == Referenced({Rep(Cat(<<ClassN("SPAN", {a}), LitB>>), 0, UNBOUNDED)})

MCIps  == 1 .. 24
MCLens == 0 .. 4
E == <<195, 169>>   \* e_acute in UTF-8
MCSubjects == (UNION {[1 .. n -> {a, b}] : n \in 0 .. 3} \ {<<b, b, a>>, <<b, b, b>>, <<b, a, b>>})
              \cup {<<a>> \o E \o <<b>>, E \o E}
MCTables == {[t \in {T} |-> [k \in {<<a>>} |-> <<b>>]], [t \in {} |-> <<>>]}

(***************************************************************************)
(* The reference: the outcomes of a tree at a position, in the order in    *)
(* which backtracking is to try them.  An outcome is a position, the       *)
(* captures and the number of captures in use.  It is stated in characters *)
(* (positions that are not inside one), not in bytes.                      *)
(***************************************************************************)
CharStarts == {p \in Pos : p = len \/ ~IsCont(p)}
CharsIn(p, q) == {x \in CharStarts : p <= x /\ x < q}
CharAt(p, cs) == p < len /\ CodePoint(p) \in cs

\* Where a primitive that matches at most one text may end.
Ends(node, p) ==
    {q \in CharStarts : q >= p /\
        CASE node.op = "LIT"    -> Text(p, q) = node.text
          [] node.op = "ANY"    -> CharAt(p, node.set) /\ Cardinality(CharsIn(p, q)) = 1
          [] node.op = "NOTANY" -> ~CharAt(p, node.set) /\ Cardinality(CharsIn(p, q)) = 1
          [] node.op = "SPAN"   -> /\ q > p
                                   /\ \A x \in CharsIn(p, q) : CharAt(x, node.set)
                                   /\ ~CharAt(q, node.set)
          [] node.op = "BREAK"  -> /\ \A x \in CharsIn(p, q) : ~CharAt(x, node.set)
                                   /\ q < len => CharAt(q, node.set)
          [] node.op = "LEN"    -> Cardinality(CharsIn(p, q)) = node.n
          [] node.op = "POS"    -> q = p /\ Cardinality(CharsIn(0, p)) = node.n
          [] node.op = "RPOS"   -> q = p /\ Cardinality(CharsIn(p, len)) = node.n
          [] node.op = "TAB"    -> Cardinality(CharsIn(0, q)) = node.n
          [] node.op = "RTAB"   -> Cardinality(CharsIn(q, len)) = node.n
          [] node.op = "ANCHOR" -> q = p /\ p = IF node.type = "start" THEN 0 ELSE len
          [] node.op = "REM"    -> q = len
          [] node.op = "FAIL"   -> FALSE
          [] node.op = "BREAKX" -> q < len => CharAt(q, node.set)
          [] node.op = "BAL"    ->
               LET opens(x)  == Cardinality({y \in CharsIn(p, x) : CharAt(y, {node.open})})
                   closes(x) == Cardinality({y \in CharsIn(p, x) : CharAt(y, {node.close})})
               IN  /\ CharAt(p, {node.open}) /\ q > p
                   /\ opens(q) = closes(q)
                   /\ \A x \in CharStarts : p < x /\ x < q => opens(x) > closes(x)}

RECURSIVE Outcomes(_, _), Sequel(_, _), Iterate(_, _, _)

Flat(f(_), xs) == FoldLeft(LAMBDA acc, x : acc \o f(x), <<>>, xs)

\* The parts of a CONCAT, one after the other.
Sequel(parts, o) ==
    IF parts = <<>> THEN <<o>>
    ELSE Flat(LAMBDA x : Sequel(Tail(parts), x), Outcomes(Head(parts), o))

\* One more iteration from o, n having been made: then, within the bounds,
\* further ones before leaving the loop.  An unbounded loop is left after an
\* iteration that consumed nothing.
Iterate(node, o, n) ==
    Flat(LAMBDA x :
            IF n + 1 < node.min THEN Iterate(node, x, n + 1)
            ELSE IF node.max = UNBOUNDED /\ x.pos = o.pos THEN <<x>>
            ELSE IF node.max = UNBOUNDED \/ n + 1 < node.max
              THEN Iterate(node, x, n + 1) \o <<x>>
            ELSE <<x>>,
         Outcomes(node.sub, o))

Outcomes(node, o) ==
    CASE node.op = "CONCAT"     -> Sequel(node.parts, o)
      [] node.op = "ALT"        -> Outcomes(node.left, o) \o Outcomes(node.right, o)
      [] node.op = "REPETITION" -> Iterate(node, o, 0) \o (IF node.min = 0 THEN <<o>> ELSE <<>>)
      [] node.op = "ARBNO"      -> Outcomes(Rep(node.sub, 0, UNBOUNDED), o)
      [] node.op = "CAP"        ->
           Flat(LAMBDA x : <<[pos  |-> x.pos,
                              caps |-> [x.caps EXCEPT ![node.r] = <<o.pos, x.pos>>],
                              used |-> Larger(x.used, node.r + 1)]>>,
                Outcomes(node.sub, o))
      [] OTHER -> LET qs == Ends(node, o.pos)
                  IN  Flat(LAMBDA q : <<[o EXCEPT !.pos = q]>>,
                           SetToSortSeq(qs, LAMBDA x, y : x < y))

Start == [pos |-> 0, caps |-> [c \in Caps |-> <<0, 0>>], used |-> 0]
Reference == Outcomes(prog.tree, Start)

(***************************************************************************)
(* Properties.                                                             *)
(***************************************************************************)
Finished == status # "run" /\ prog.tree # None

\* What a run of the VM returns is the first outcome of the pattern: it
\* matches exactly when there is one, and then it ends at the same position,
\* whatever it tried and gave up before and whatever an earlier run left in
\* the VM.
FirstOutcome ==
    Finished =>
        LET ref == Reference
        IN  IF ref = <<>> THEN status = "fail"
                          ELSE status = "match" /\ pos = ref[1].pos

\* The captures a match hands out, and the variables they are published as,
\* are those of its first outcome: nothing an abandoned alternative wrote is
\* left in a register.  (Compact mode: a snapshot covers neither variables nor
\* captures above its mark.)
AbandonedWritesUndone ==
    (Finished /\ status = "match") =>
        LET o == Reference[1]
        IN  \A c \in Caps :
                /\ <<cap_start(c), cap_end(c)>> = o.caps[c]
                /\ c \in Vars =>
                      <<reg[<<"var_start", c>>], reg[<<"var_end", c>>]>> = o.caps[c]

\* In snapshot mode too: a capture that the first outcome writes is as it writes
\* it, although alternatives given up wrote the register as well and a record
\* covers only registers below its mark.  (A register the outcome does not
\* write may keep what they wrote; empty at 0 is how such a register begins.)
OutcomeCaptures ==
    (Finished /\ status = "match") =>
        \A c \in Caps : LET x == Reference[1].caps[c]
                       IN  x # <<0, 0>> => <<cap_start(c), cap_end(c)>> = x

\* vm_run returns, for every program and subject of the instance: no
\* backtracking cycle and no loop that never leaves.
Terminates == (status = "run") ~> (status # "run")
=============================================================================
