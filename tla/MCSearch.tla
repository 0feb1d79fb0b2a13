------------------------------ MODULE MCSearch ------------------------------
(***************************************************************************)
(* Small instances of SearchTiers: programs for every tier, compiled from  *)
(* pattern trees, subjects of up to four characters, and the reference     *)
(* meaning of a pattern tree the results are compared with.                *)
(***************************************************************************)
EXTENDS SearchTiers, PatternTrees

CG == INSTANCE PatternCodegen

a == 97
b == 98
c == 99
e_acute == 233

(***************************************************************************)
(* The reference: what backtracking returns first for the nodes of a stack *)
(* matched one after the other from position p of window w, with registers *)
(* R.  "cut" is a failure behind FENCE, after which no earlier alternative *)
(* is tried.  A failure leaves the registers as the last alternative, for  *)
(* which nothing was saved any more, wrote them.                           *)
(***************************************************************************)
RECURSIVE First(_, _, _, _)

Try(x, y) == IF x.status = "fail" THEN y ELSE x
Failure(R) == [status |-> "fail", end |-> 0, regs |-> R]

\* Where a primitive may end, in the order in which it is tried.
PrimitiveEnds(i, w, p) ==
    LET n == Len(w)
        in(x, y) == \A z \in x .. y - 1 : w[z + 1] \in i.set
        out_(x, y) == \A z \in x .. y - 1 : w[z + 1] \notin i.set
        ends(q) ==
            CASE i.op = "LIT"    -> q = p + Len(i.text) /\ SubSeq(w, p + 1, q) = i.text
              [] i.op = "ANY"    -> q = p + 1 /\ in(p, q)
              [] i.op = "NOTANY" -> q = p + 1 /\ out_(p, q)
              [] i.op = "SPAN"   -> q > p /\ in(p, q) /\ (q < n => out_(q, q + 1))
              [] i.op = "BREAK"  -> q >= p /\ out_(p, q) /\ (q < n => in(q, q + 1))
              [] i.op = "BREAKX" -> q >= p /\ (q < n => in(q, q + 1))
              [] i.op = "LEN"    -> q = p + i.n
              [] i.op = "POS"    -> q = p /\ p = i.n
              [] i.op = "RPOS"   -> q = p /\ n - p = i.n
              [] i.op = "TAB"    -> q = i.n
              [] i.op = "RTAB"   -> q = n - i.n
              [] i.op = "ANCHOR" -> q = p /\ p = IF i.type = "start" THEN 0 ELSE n
              [] i.op = "REM"    -> q = n
              [] i.op = "AT"     -> q = p /\ p = i.n
              [] OTHER -> FALSE
    IN  SelectSeq([q \in 1 .. n + 1 |-> q - 1], ends)

First(stack, w, p, R) ==
    IF stack = <<>> THEN [status |-> "match", end |-> p, regs |-> R]
    ELSE LET i    == Head(stack)
             rest == Tail(stack)
         IN  CASE i.op = "CONCAT" -> First(i.parts \o rest, w, p, R)
               [] i.op = "ALT" ->
                    Try(First(<<i.left>> \o rest, w, p, R), First(<<i.right>> \o rest, w, p, R))
               [] i.op = "FENCE" ->
                    LET x == First(rest, w, p, R)
                    IN  IF x.status = "fail" THEN [x EXCEPT !.status = "cut"] ELSE x
               [] i.op = "ABORT" -> [Failure(R) EXCEPT !.status = "abort"]
               [] i.op = "SUCCEED" -> First(<<>>, w, p, R)
               [] i.op = "CAP" ->
                    First(<<i.sub, [op |-> "CAPEND", r |-> i.r]>> \o rest, w, p,
                          WithCapStart(R, i.r, p))
               [] i.op = "ASSIGN" -> First(rest, w, p, WithAssign(R, i.var, i.r))
               [] i.op = "CAPEND" -> First(rest, w, p, WithCapEnd(R, i.r, p))
               [] i.op = "ARBNO" -> First(<<Rep(i.sub, 0, UNBOUNDED)>> \o rest, w, p, R)
               [] i.op = "REPETITION" ->
                    LET body == First(<<i.sub, [op |-> "STEP", of |-> i, n |-> 1, from |-> p]>>
                                        \o rest, w, p, R)
                    IN  IF i.min = 0 THEN Try(body, First(rest, w, p, R)) ELSE body
               [] i.op = "STEP" ->
                    LET again == First(<<i.of.sub, [i EXCEPT !.n = @ + 1, !.from = p]>>
                                         \o rest, w, p, R)
                    IN  IF i.n < i.of.min THEN again
                        ELSE IF i.of.max = UNBOUNDED /\ p = i.from THEN First(rest, w, p, R)
                        ELSE IF i.of.max = UNBOUNDED \/ i.n < i.of.max
                          THEN Try(again, First(rest, w, p, R))
                        ELSE First(rest, w, p, R)
               [] OTHER ->
                    FoldLeft(LAMBDA r, q : Try(r, First(rest, w, q, R)), Failure(R),
                             PrimitiveEnds(i, w, p))

Tree == pattern.tree
FirstFrom(o, R) == First(<<Tree>>, Slice(o, SLen), 0, R)
FirstAt(o)   == FirstFrom(o, ZeroRegs)
\* The first outcome from o that ends at q.
OutcomeAt(o, q) == First(<<Tree, CountN("AT", q - o)>>, Slice(o, SLen), 0, ZeroRegs)

MCVmExec(p, w) == First(<<p.tree>>, w, 0, ZeroRegs)
MCVmRegs(p, w, R) == First(<<p.tree>>, w, 0, R).regs

(***************************************************************************)
(* Programs.                                                               *)
(***************************************************************************)
A  == LitN(<<a>>)
B  == LitN(<<b>>)
AB == LitN(<<a, b>>)
ABC == LitN(<<a, b, c>>)
Empty == LitN(<<>>)
AnyB == ClassN("ANY", {b})
SpanA == ClassN("SPAN", {a})
BreakB == ClassN("BREAK", {b})
Len1 == CountN("LEN", 1)
Rem  == PlainN("REM")

\* Literals and what follows a literal prefix: LITERAL, PREFIX, AUTOMATON.
Literals == <<A, AB, Cat(<<PlainN("FENCE"), AB>>),
             Cat(<<AB, AnyB>>), Cat(<<AB, ClassN("NOTANY", {b})>>), Cat(<<AB, Alt(B, ABC)>>), Cat(<<AB, Rem>>),
             Cat(<<A, AnchorN("end")>>), Cat(<<ABC, BreakB>>),
             Cat(<<A, PlainN("FENCE"), B>>), Cat(<<AB, Rep(AB, 0, UNBOUNDED)>>),
             Cat(<<AB, Len1>>), Cat(<<AB, CountN("LEN", 2)>>), Cat(<<AB, PlainN("FAIL")>>)>>
\* Alternations of literals, with and without shared prefixes: ALT_LIT.
Alternations == <<Alt(A, AB), Alt(AB, A), Alt(AB, ABC), Alt(ABC, Alt(AB, B)), Alt(AB, Empty),
                 Alt(Empty, A), Alt(LitN(<<b, a>>), AB), Alt(A, B), Alt(ABC, ABC),
                 Alt(ABC, LitN(<<b, a, b, a>>))>>
\* One class, and chains of classes: SIMD_NFA, FUSED, BITMAP, BREAK, SPAN.
Over(op, sets) == [k \in DOMAIN sets |-> ClassN(op, sets[k])]
Sets == <<{a}, {a, e_acute}>>
Classes == Over("ANY", Sets) \o Over("NOTANY", Sets) \o Over("SPAN", Sets) \o Over("BREAK", Sets)
Chains == <<Cat(<<SpanA, B>>), Cat(<<BreakB, B>>), Cat(<<ClassN("ANY", {a, b}), B>>),
           Cat(<<SpanA, Rem>>), Cat(<<BreakB, B, Rem>>), Cat(<<ClassN("ANY", {a}), Rem>>),
           Cat(<<ClassN("NOTANY", {a}), A>>), Cat(<<ClassN("BREAKX", {b}), B, A>>),
           Cat(<<SpanA, AnchorN("end")>>), Cat(<<ClassN("BREAKX", {b}), Rem>>)>>
\* Programs for the search VM and the general VM.
Captures == <<Cap(0, A), Cat(<<Cap(0, Alt(AB, A)), Cap(1, AnyB)>>),
             Cat(<<Alt(Cap(0, AB), Cap(1, A)), AnyB>>),
             Cat(<<Cap(0, ClassN("BREAKX", {b})), Cap(1, Alt(LitN(<<b, a>>), AnyB)), AnchorN("end")>>),
             Cat(<<Cap(0, BreakB), Cap(2, B)>>), Cat(<<Cap(0, SpanA), Cap(1, Rem)>>),
             Cat(<<Cap(0, Len1), AnyB>>), Alt(Cap(0, ABC), B),
             Cat(<<Cap(0, A), [op |-> "ASSIGN", var |-> 1, r |-> 0], AnyB>>)>>
Loops == <<Cat(<<Arbno(AnyB), A>>), Arbno(A), Cat(<<Cap(0, Rep(AnyB, 0, 1)), A>>),
          Cat(<<Rep(Alt(A, AB), 1, UNBOUNDED), AnchorN("end")>>),
          Cat(<<Arbno(Arbno(A)), B>>), Cat(<<Rep(Empty, 0, UNBOUNDED), B>>),
          Cat(<<Rep(Cap(1, AnyB), 2, 2), A>>)>>
Control == <<Alt(Cat(<<AnyB, PlainN("FENCE"), A>>), Rem), Alt(Cat(<<AnyB, PlainN("ABORT")>>), A),
            Alt(Cat(<<B, PlainN("ABORT")>>), Rem),
            Alt(PlainN("FAIL"), AnyB), Cat(<<AnyB, PlainN("SUCCEED"), A>>),
            Alt(Cat(<<A, A>>), Cat(<<AnyB, PlainN("FENCE"), A>>))>>
AtCursor(op) == <<Cat(<<CountN(op, 0), B>>), Cat(<<CountN(op, 1), Alt(Cap(0, A), B)>>)>>
Cursors == AtCursor("POS") \o AtCursor("RPOS") \o AtCursor("TAB") \o AtCursor("RTAB")

\* Programs for which a search is known to go wrong, each with its exception
\* below.
TabB      == Cat(<<CountN("TAB", 1), B>>)
InBranch  == Cat(<<A, Alt(AnyB, LitN(<<b, c>>))>>)
Len12     == Alt(Len1, CountN("LEN", 2))
AbBranch  == Cat(<<AB, Alt(LitN(<<c, a>>), LitN(<<c>>))>>)
OldCapture == Cat(<<Alt(Cat(<<Cap(1, A), B>>), Cat(<<Cap(0, A), LitN(<<c>>)>>)), Rem>>)
Awkward == <<Cat(<<A, Rem>>), TabB, InBranch, Len12, AbBranch, OldCapture,
             Alt(Cat(<<AnyB, PlainN("ABORT")>>), Cap(1, A)),
             Cat(<<Len1, Alt(LitN(<<c, c>>), AB)>>), Cat(<<AB, CountN("LEN", 0)>>),
             CountN("LEN", 0), Cat(<<BreakB, ClassN("BREAK", {a})>>), Cat(<<Empty, BreakB, ClassN("BREAK", {a})>>),
             Cat(<<Rep(Alt(A, AB), 2, 2), AnchorN("end")>>),
             Cat(<<AB, ClassN("ANY", {})>>), ClassN("SPAN", {}), Cat(<<AB, ClassN("NOTANY", {})>>)>>

\* Programs the compiler does not build: NOP, no ACCEPT at the end, register
\* numbers out of range.
HandWritten ==
    [code |-> <<[op |-> "NOP"], [op |-> "ANY", set |-> {b}], [op |-> "CAP_START", r |-> MAX_CAPS],
                  [op |-> "CAP_END", r |-> MAX_CAPS], [op |-> "ASSIGN", var |-> MAX_VARS, r |-> 0]>>,
       tree |-> Cat(<<AnyB, PlainN("FAIL")>>)]

Compiled(nodes) == {[code |-> CG!Compile(nodes[k]).code, tree |-> nodes[k]] : k \in DOMAIN nodes}
MCPrograms ==
    Compiled(Literals \o Alternations \o Classes \o Chains \o Captures \o Loops \o Control
             \o Cursors \o Awkward) \cup {HandWritten}

\* For the run that shows disagreements.
MCFaulty == Compiled(<<InBranch, Cat(<<A, Rem>>), Len12, AbBranch, OldCapture>>)

MCSubjects == UNION {[1 .. n -> {a, b}] : n \in 0 .. 3} \cup {<<a, b, c, a>>, <<b, a, a, b>>, <<a, b, a, b>>}
\* With the automaton built or not, and the length the cost model sees.
Modes == {[dfa |-> TRUE, cost |-> 4]} \cup {[dfa |-> FALSE, cost |-> n] : n \in {4, 400, 4000}}
Entries == {[anchored |-> TRUE, start |-> 0], [anchored |-> FALSE, start |-> 0],
            [anchored |-> FALSE, start |-> 1]}
MCTasks == {t \in {[subject |-> s, start |-> e.start, anchored |-> e.anchored,
                    dfa |-> m.dfa, cost |-> m.cost] :
                       s \in MCSubjects, m \in Modes, e \in Entries} :
               t.start <= Len(t.subject)}
MCBytes == {a, b, c, 200}

(***************************************************************************)
(* What a search should find.                                              *)
(***************************************************************************)
\* Where the pattern matches, in the order of the offsets; a pattern that
\* aborts is not tried further to the right.
Offsets  == IF task.anchored THEN {task.start} ELSE task.start .. SLen
Matching == {o \in Offsets : FirstAt(o).status = "match"}
Aborting == {o \in Offsets : FirstAt(o).status = "abort"}
Leftmost == CHOOSE o \in Matching : \A x \in Matching : o <= x
Matches  == Matching # {} /\ \A o \in Aborting : Leftmost < o
Ends(o)  == {q \in o .. SLen : OutcomeAt(o, q).status = "match"}

Text(pair) == IF pair[2] <= pair[1] THEN <<>> ELSE pair
\* The captures and variables of out are those of x as the API reads them: an
\* empty one has no position.  (The Pike scan moves registers nobody wrote.)
SameRegs(x) ==
    /\ \A r \in 0 .. MAX_CAPS - 1 : Text(out.regs.cap[r]) = Text(x.regs.cap[r])
    /\ \A v \in 0 .. MAX_VARS - 1 : Text(out.regs.var[v]) = Text(x.regs.var[v])

\* Those of them that the first outcome at o writes.
Mark(pairs) == [r \in DOMAIN pairs |-> <<-2, -2>>]
SameOwnRegs(o) ==
    LET x == FirstAt(o).regs
        m == FirstFrom(o, [ZeroRegs EXCEPT !.cap = Mark(@), !.var = Mark(@)]).regs
    IN  /\ \A r \in 0 .. MAX_CAPS - 1 :
              m.cap[r] # <<-2, -2>> => Text(out.regs.cap[r]) = Text(x.cap[r])
        /\ \A v \in 0 .. MAX_VARS - 1 :
              m.var[v] # <<-2, -2>> => Text(out.regs.var[v]) = Text(x.var[v])

\* out is the first outcome of the pattern at o.
IsFirstAt(o) ==
    /\ out.success /\ out.start = o /\ out.end = o + FirstAt(o).end
    /\ out.by \in {"vm", "svm"} => SameRegs(FirstAt(o))

(***************************************************************************)
(* Where the code is known not to find it, each as narrow as the fault.    *)
(***************************************************************************)
\* A register the match did not write may hold something else: the VM has run
\* at an earlier offset, or the search VM zeroed too little.
OldRegs ==
    IF out.by = "vm" THEN out.start > task.start
    ELSE out.by = "svm" /\ ~({"capture", "vars"} \subseteq M.classes)

\* The start-byte filters of two tiers move an anchored search on.
AnchoredDrift ==
    /\ task.anchored /\ task.start < SLen
    /\ \/ tier = "GENERAL" /\ ByteAt(task.start) \notin M.start_bitmap
       \/ tier = "BITMAP" /\ ByteAt(task.start) \notin M.candidate_bitmap

\* TAB and RTAB may go back over what the analysis took for the first byte.
MisreadCursor == Uses(Code, {"TAB", "RTAB"}) /\ ~AnalysisRight

\* All literals the prefilter may look for are in branches: behind a SPLIT
\* and before the target of a JMP that skips them.
InABranch(k) == \E j \in 1 .. k - 1 : Code[j].op = "JMP" /\ Code[j].target > k
RequiredInBranch ==
    /\ M.has_required_lit
    /\ \A k \in DOMAIN Code : Code[k].op = "LIT" /\ Code[k].text = M.required_lit => InABranch(k)

\* The search VM goes back into an earlier round of a loop that counts.
ForgottenCount ==
    /\ out.by \in {"svm", "none"} /\ tier = "SEARCH_VM"
    /\ \E i, s \in DOMAIN Code :
          /\ Code[i].op = "REPEAT_INIT" /\ Code[i].max # UNBOUNDED
          /\ Code[s].op = "REPEAT_STEP" /\ Code[s].loop = Code[i].loop
          /\ \E k \in i + 1 .. s - 1 : Code[k].op \in {"SPLIT", "BREAKX", "REPEAT_INIT"}

\* The fusion tier does not try the end of the subject.
FusionStopsShort == tier = "FUSED" /\ ~task.anchored /\ Leftmost = SLen

\* Threads of the Pike scan that a LEN has moved ahead of the position fork.
RECURSIVE RunsIntoSplit(_)
RunsIntoSplit(k) ==
    k \in DOMAIN Code /\
        \/ Code[k].op = "SPLIT"
        \/ Code[k].op = "JMP" /\ RunsIntoSplit(Code[k].target)
        \/ Code[k].op \in {"NOP", "CAP_START", "CAP_END", "ASSIGN", "LEN"} /\ RunsIntoSplit(k + 1)
ForksAhead ==
    \E k \in DOMAIN Code : Code[k].op = "LEN" /\ Code[k].n > 0 /\ RunsIntoSplit(k + 1)

\* The automaton makes a byte step of LEN(0) and of an empty class.
NoByteSteps ==
    \E k \in DOMAIN Code :
        \/ Code[k].op = "LEN" /\ Code[k].n = 0
        \/ Code[k].op \in {"ANY", "SPAN", "NOTANY", "BREAK", "BREAKX"} /\ Code[k].set = {}

\* Neither the scan nor the automaton keeps track of what FENCE cuts, ABORT
\* stops, and where the cursor operations count from.
Plain == ~Uses(Code, CursorOps \cup {"FENCE", "ABORT"})

(***************************************************************************)
(* Properties.                                                             *)
(***************************************************************************)
\* Whatever tier answers, filters, hops and starts at many offsets included,
\* unless it is the scan or the automaton: a search finds the leftmost match
\* and there what backtracking finds first, with its captures, and nothing if
\* there is none (search_tiers.c, the tiers and search_vm_exec).  The
\* exceptions are the ones above; an anchored search that drifts has no match
\* at its start, and one whose registers may be old has those it wrote right.
LeftmostFirst ==
    pc = "done" /\ out.by \notin {"pike", "dfa"} =>
        \/ Matches /\ IsFirstAt(Leftmost)
        \/ ~Matches /\ ~out.success
        \/ /\ Matches /\ OldRegs /\ out.success /\ out.start = Leftmost
           /\ out.end = Leftmost + FirstAt(Leftmost).end /\ SameOwnRegs(Leftmost)
        \/ AnchoredDrift /\ ~Matches /\ out.start > task.start /\ FirstAt(out.start).status = "match"
        \/ out.by = "prefilter" /\ RequiredInBranch
        \/ MisreadCursor \/ ForgottenCount
        \/ FusionStopsShort /\ ~out.success

\* What an engine without backtracking finds: an outcome at the leftmost
\* offset that has one, and the first there when all end at one place.
OutcomeOnly == \A x, y \in Ends(Leftmost) : x = y
Agrees == /\ Matches /\ out.start = Leftmost /\ out.end \in Ends(Leftmost)
          /\ OutcomeOnly => out.end = Leftmost + FirstAt(Leftmost).end

\* The Pike scan believed (pike_scan, search_tiers.c:3453): what it finds agrees
\* with backtracking as far as the engine promises, and its captures are those
\* of the first outcome that ends where it ends.
PikeOutcome ==
    pc = "done" /\ out.by = "pike" /\ ~pike.overflowed /\ Plain /\ ~ForksAhead =>
        /\ Agrees
        /\ SameRegs(OutcomeAt(Leftmost, out.end))

\* The automaton believed (snobol_search_automaton_exec and _anchored): what
\* it finds agrees with backtracking.
DfaOutcome ==
    pc = "done" /\ out.by = "dfa" /\ Plain /\ ~NoByteSteps => Agrees

\* A search, whichever engine answers, finds what repeated anchored calls of
\* vm_exec would find: the first outcome at the leftmost offset, with its
\* captures, and nothing only if there is none (snobol_search_exec).
AsVmExec == pc = "done" => IF Matches THEN IsFirstAt(Leftmost) ELSE ~out.success

\* Every search ends.
Terminates == <>(pc = "done")
=============================================================================
