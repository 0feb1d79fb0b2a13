----------------------------- MODULE PatternVM -----------------------------
(***************************************************************************)
(* The full SNOBOL4 virtual machine, core/src/vm_exec.c: vm_run's dispatch *)
(* loop, one action per opcode, over the backtracking store of ChoiceStore.*)
(*                                                                         *)
(* A program is a record: code, a sequence of instructions (records with   *)
(* the opcode's name and operands), and labels, the label table.  An       *)
(* address is an index of code instead of a byte offset; a subject is a    *)
(* sequence of bytes and a character class a set of code points.  The      *)
(* opcodes that format output (EMIT_EXPR, EMIT_TABLE, EMIT_FORMAT), the    *)
(* array opcodes and the nested runs of OP_DYNAMIC are not modelled here.  *)
(***************************************************************************)
EXTENDS ChoiceStore, FiniteSets

CONSTANTS
    Programs,      \* programs to run
    Subjects,      \* subjects to run them on
    Tables,        \* possible contents of the registered tables
    Modes,         \* values of use_compact_choice
    KeepChoices,   \* vm->keep_choices
    MAX_RUNS       \* bound: runs of one VM

\* Operands are in range: what the compiler emits, and what the byte-wise
\* readers make of a truncated operand, is an address.
ASSUME ProgramsAssumption ==
    \A P \in Programs :
        /\ 1 \in Ips
        /\ \A k \in DOMAIN P.code :
              /\ k \in Nat /\ k + 1 \in Ips /\ k \in Ips
              /\ P.code[k].op = "LIT" => P.code[k].text \in Seq(0 .. 255)
              /\ P.code[k].op = "SPLIT" => P.code[k].a \in Ips /\ P.code[k].b \in Ips
              /\ P.code[k].op \in {"JMP", "REPEAT_STEP"} => P.code[k].target \in Ips
              /\ P.code[k].op = "REPEAT_INIT" => P.code[k].skip \in Ips
        /\ \A x \in DOMAIN P.labels : P.labels[x] \in Ips

ASSUME SubjectsAssumption ==
    /\ \A x \in Subjects : x \in Seq(0 .. 255) /\ Len(x) \in Lens
    /\ Modes \subseteq BOOLEAN
    /\ KeepChoices \in BOOLEAN

VARIABLES
    prog,              \* vm->bc with its label table
    s,                 \* vm->s
    status,            \* "run", or what vm_run returned: "match", "fail"
    loop_min,          \* vm->loop_min
    loop_max,          \* vm->loop_max, UNBOUNDED standing for (uint32_t)-1
    loop_span_greedy,  \* vm->loop_span_greedy
    in_goto_fail,      \* vm->in_goto_fail
    abort_flag,        \* vm->abort_flag
    out,               \* vm->out: the pieces emitted, in order
    tables,            \* table id -> key -> value, for the registered ids
    runs               \* number of runs of this VM so far

loopVars == <<loop_min, loop_max, loop_span_greedy>>
envVars  == <<loopVars, in_goto_fail, abort_flag, out, tables>>
vars     == <<storeVars, prog, s, status, envVars, runs>>

UNBOUNDED == -1

(***************************************************************************)
(* Reading the subject.                                                    *)
(***************************************************************************)
Byte(p) == s[p + 1]

\* utf8_peek_next: the number of bytes the lead byte announces, 0 when it is
\* not a lead byte.  The continuation bytes are not validated.
Width(b) == IF b < 128 THEN 1
            ELSE IF b \div 32 = 6 THEN 2
            ELSE IF b \div 16 = 14 THEN 3
            ELSE IF b \div 8 = 30 THEN 4
            ELSE 0

Peek(p) == p < len /\ Width(Byte(p)) > 0 /\ p + Width(Byte(p)) <= len

CodePoint(p) ==
    LET b(i) == Byte(p + i) % 64
    IN  CASE Width(Byte(p)) = 1 -> Byte(p)
          [] Width(Byte(p)) = 2 -> (Byte(p) % 32) * 64 + b(1)
          [] Width(Byte(p)) = 3 -> (Byte(p) % 16) * 4096 + b(1) * 64 + b(2)
          [] OTHER -> (Byte(p) % 8) * 262144 + b(1) * 4096 + b(2) * 64 + b(3)

\* ranges_to_ascii_bitmap succeeds: the class is tested byte by byte.
IsAscii(set) == \A c \in set : c < 128
\* ranges_to_full_bitmap succeeds.
IsLatin(set) == \A c \in set : c < 256

\* Whether there is something to test at p, and how wide it is.
Testable(p, set) == IF IsAscii(set) THEN p < len ELSE Peek(p)
Unit(p, set)     == IF IsAscii(set) THEN 1 ELSE Width(Byte(p))
InClass(p, set)  ==
    /\ Testable(p, set)
    /\ (IF IsAscii(set) THEN Byte(p) ELSE CodePoint(p)) \in set
OutOfClass(p, set) == Testable(p, set) /\ ~InClass(p, set)

\* The scanning loops of OP_SPAN, OP_BREAK and OP_BREAKX, and OP_LEN's.
SpanEnd(p, set) ==
    LET f[q \in Nat] == IF InClass(q, set) THEN f[q + Unit(q, set)] ELSE q
    IN  f[p]
BreakEnd(p, set) ==
    LET f[q \in Nat] == IF OutOfClass(q, set) THEN f[q + Unit(q, set)] ELSE q
    IN  f[p]
\* The byte run of the greedy-span shortcut of OP_REPEAT_STEP.
ByteRunEnd(p, set) ==
    LET f[q \in Nat] == IF q < len /\ Byte(q) \in set THEN f[q + 1] ELSE q
    IN  f[p]
\* n code points on from p, or -1 when the subject ends before.
LenEnd(p, n) ==
    LET f[k \in 0 .. n] ==
          IF k = 0 THEN p
          ELSE IF f[k - 1] >= 0 /\ Peek(f[k - 1])
                 THEN f[k - 1] + Width(Byte(f[k - 1]))
                 ELSE -1
    IN  f[n]

\* The two walks shared by OP_POS / OP_TAB and by OP_RPOS / OP_RTAB: n code
\* points from the start, or from the end, stopping at the other end.
IsCont(p) == Byte(p) \div 64 = 2
FromStart(n) ==
    LET f[k \in 0 .. n] ==
          IF k = 0 THEN 0
          ELSE IF f[k - 1] = len THEN len
          ELSE CHOOSE q \in f[k - 1] + 1 .. len :
                 /\ q = len \/ ~IsCont(q)
                 /\ \A x \in f[k - 1] + 1 .. q - 1 : IsCont(x)
    IN  f[n]
FromEnd(n) ==
    LET f[k \in 0 .. n] ==
          IF k = 0 THEN len
          ELSE IF f[k - 1] = 0 THEN 0
          ELSE CHOOSE q \in 0 .. f[k - 1] - 1 :
                 /\ q = 0 \/ ~IsCont(q)
                 /\ \A x \in q + 1 .. f[k - 1] - 1 : IsCont(x)
    IN  f[n]

\* OP_BAL's scan from p: the end of the balanced text, or -1.
BalEnd(p, open, close) ==
    LET f[q \in Nat, depth \in Int] ==
          IF ~Peek(q) THEN -1
          ELSE LET next == q + Width(Byte(q))
               IN  IF CodePoint(q) = open THEN f[next, depth + 1]
                   ELSE IF CodePoint(q) # close THEN f[next, depth]
                   ELSE IF depth = 1 THEN next
                   ELSE f[next, depth - 1]
    IN  f[p, 0]

Text(a, b) == SubSeq(s, a + 1, b)

(***************************************************************************)
(* Parts shared by the handlers.                                           *)
(***************************************************************************)
Instr == prog.code[ip]
Fetch(op) == status = "run" /\ ip \in DOMAIN prog.code /\ Instr.op = op

\* Continue at address i and position q; nothing else changes.
Jump(i, q) ==
    /\ ip' = i
    /\ pos' = q
    /\ UNCHANGED <<compact, len, regVars, choiceVars, status>>
Advance(q) == Jump(ip + 1, q)

\* The exits of vm_run: the arena and the trail are freed unless the caller
\* keeps the VM for another run.
Finish(result) ==
    /\ status' = result
    /\ IF KeepChoices THEN UNCHANGED <<choices, trail>>
                      ELSE choices' = <<>> /\ trail' = <<>>
    /\ UNCHANGED <<compact, len, ip, pos, reg, var_count, max_cap_used,
                   max_counter_used, choice_live_depth>>

\* if (!vm_pop_choice(vm)) goto fail_ret; continue;
Backtrack ==
    IF choices # <<>> THEN PopChoice /\ UNCHANGED status ELSE Finish("fail")

\* if (!vm_pop_choice(vm)) goto fail_ret; break;  In the computed-goto build
\* break leaves the dispatch loop, and vm_run returns false.
PopAndLeave ==
    IF choices # <<>>
      THEN /\ IF KeepChoices THEN PopChoice ELSE PopAndRelease
           /\ status' = "fail"
      ELSE Finish("fail")

\* Consume up to q when ok holds, otherwise backtrack.
Consume(ok, q) == IF ok THEN Advance(q) ELSE Backtrack

\* Move to q, the result of a scan.  TLC's deadlock check shows that a scan
\* always ends inside the subject.
ScanTo(q) == q \in Pos /\ Advance(q)

(***************************************************************************)
(* Matching opcodes.                                                       *)
(***************************************************************************)
\* ip >= bc_len
EndOfCode == status = "run" /\ ip \notin DOMAIN prog.code /\ Backtrack

Nop     == Fetch("NOP") /\ Advance(pos)
Label   == Fetch("LABEL") /\ Advance(pos)
Accept  == Fetch("ACCEPT") /\ Finish("match")
Succeed == Fetch("SUCCEED") /\ Finish("match")
FailOp  == Fetch("FAIL") /\ Backtrack
Jmp     == Fetch("JMP") /\ Jump(Instr.target, pos)

Split ==
    /\ Fetch("SPLIT")
    /\ PushChoice(Instr.b, pos, reg, max_counter_used, trail)
    /\ ip' = Instr.a
    /\ UNCHANGED <<compact, len, pos, regVars, status>>

Lit ==
    /\ Fetch("LIT")
    /\ LET n == Len(Instr.text)
       IN  Consume(n <= len - pos /\ Text(pos, pos + n) = Instr.text, pos + n)

AnyOp  == Fetch("ANY") /\ Consume(InClass(pos, Instr.set), pos + Unit(pos, Instr.set))
NotAny == Fetch("NOTANY") /\ Consume(OutOfClass(pos, Instr.set), pos + Unit(pos, Instr.set))

Span ==
    /\ Fetch("SPAN")
    /\ IF InClass(pos, Instr.set) THEN ScanTo(SpanEnd(pos, Instr.set)) ELSE Backtrack

Break == Fetch("BREAK") /\ ScanTo(BreakEnd(pos, Instr.set))

\* Fault: the retry is pushed at the end of the subject too.
BreakXAtEnd ==
    /\ Fetch("BREAKX")
    /\ \E q \in Pos :
          /\ q = BreakEnd(pos, Instr.set)
          /\ PushChoice(ip, q + (IF Peek(q) THEN Width(Byte(q)) ELSE 1),
                        reg, max_counter_used, trail)
          /\ pos' = q
    /\ ip' = ip + 1
    /\ UNCHANGED <<compact, len, regVars, status>>

\* Fault: the retry does not skip the break character.
BreakXStays ==
    /\ Fetch("BREAKX")
    /\ \E q \in Pos :
          /\ q = BreakEnd(pos, Instr.set)
          /\ IF q < len THEN PushChoice(ip, q, reg, max_counter_used, trail)
                        ELSE UNCHANGED choiceVars
          /\ pos' = q
    /\ ip' = ip + 1
    /\ UNCHANGED <<compact, len, regVars, status>>

\* BREAK, and when it stopped before the end a choice that goes on behind the
\* break character.
BreakX ==
    /\ Fetch("BREAKX")
    /\ \E q \in Pos :
          /\ q = BreakEnd(pos, Instr.set)
          /\ IF q < len
               THEN PushChoice(ip, q + (IF Peek(q) THEN Width(Byte(q)) ELSE 1),
                               reg, max_counter_used, trail)
               ELSE UNCHANGED choiceVars
          /\ pos' = q
    /\ ip' = ip + 1
    /\ UNCHANGED <<compact, len, regVars, status>>

LenOp ==
    /\ Fetch("LEN")
    /\ LET q == LenEnd(pos, Instr.n) IN Consume(q \in Pos, q)

Anchor ==
    /\ Fetch("ANCHOR")
    /\ Consume(IF Instr.type = "start" THEN pos = 0 ELSE pos = len, pos)

Rem == Fetch("REM") /\ Advance(len)

PosOp  == Fetch("POS") /\ Consume(pos = FromStart(Instr.n), pos)
RPosOp == Fetch("RPOS") /\ Consume(pos = FromEnd(Instr.n), pos)

Tab ==
    /\ Fetch("TAB")
    /\ LET q == FromStart(Instr.n)
       IN  IF (q >= len /\ Instr.n > 0) \/ pos > q THEN Backtrack ELSE ScanTo(q)

RTab ==
    /\ Fetch("RTAB")
    /\ LET q == FromEnd(Instr.n)
       IN  IF pos > q THEN Backtrack ELSE ScanTo(q)

\* The first test leaves the dispatch loop, the scan's failure backtracks.
Bal ==
    /\ Fetch("BAL")
    /\ IF ~Peek(pos) \/ CodePoint(pos) # Instr.open
         THEN PopAndLeave
         ELSE LET q == BalEnd(pos, Instr.open, Instr.close)
              IN  Consume(q \in Pos, q)

\* Fault: the trail goes with the choices.
FenceClearing ==
    /\ Fetch("FENCE")
    /\ CutChoices
    /\ trail' = <<>>
    /\ ip' = ip + 1
    /\ UNCHANGED <<compact, len, pos, reg, var_count, max_cap_used, max_counter_used, status>>

Fence ==
    /\ Fetch("FENCE")
    /\ CutChoices
    /\ ip' = ip + 1
    /\ UNCHANGED <<compact, len, pos, regVars, status>>

(***************************************************************************)
(* Captures and variables.                                                 *)
(***************************************************************************)
CapStart ==
    /\ Fetch("CAP_START")
    /\ IF Instr.r \in Caps THEN WriteCapStart(Instr.r) ELSE UNCHANGED regVars
    /\ ip' = ip + 1
    /\ UNCHANGED <<compact, len, pos, choiceVars, status>>

CapEnd ==
    /\ Fetch("CAP_END")
    /\ IF Instr.r \in Caps THEN WriteCapEnd(Instr.r) ELSE UNCHANGED regVars
    /\ ip' = ip + 1
    /\ UNCHANGED <<compact, len, pos, choiceVars, status>>

Assign ==
    /\ Fetch("ASSIGN")
    /\ IF Instr.var \in Vars /\ Instr.r \in Caps
         THEN WriteAssign(Instr.var, Instr.r)
         ELSE UNCHANGED regVars
    /\ ip' = ip + 1
    /\ UNCHANGED <<compact, len, pos, choiceVars, status>>

\* A capture register other handlers may read: OP_EVAL and OP_EMIT_CAPTURE
\* accept an empty capture, the table opcodes do not.
Captured(r) == r \in Caps /\ cap_end(r) >= cap_start(r) /\ cap_end(r) <= len
NonEmpty(r) == r \in Caps /\ cap_end(r) > cap_start(r)
CapText(r)  == Text(cap_start(r), cap_end(r))

(***************************************************************************)
(* Loops.                                                                  *)
(***************************************************************************)
RepeatInit ==
    /\ Fetch("REPEAT_INIT")
    /\ LET l == Instr.loop
       IN  IF l \in Loops
             THEN /\ WriteRepeatInit(l, Instr.min = 0, Instr.skip)
                  /\ loop_min' = [loop_min EXCEPT ![l] = Instr.min]
                  /\ loop_max' = [loop_max EXCEPT ![l] = Instr.max]
             ELSE UNCHANGED <<regVars, choiceVars, loop_min, loop_max>>
    /\ ip' = ip + 1
    /\ UNCHANGED <<compact, len, pos, status, loop_span_greedy, in_goto_fail,
                   abort_flag, out, tables>>

\* loop_span_greedy[l] after its detection at the top of OP_REPEAT_STEP: the
\* loop is unbounded and the first opcode of its body is OP_SPAN.
DetectGreedy(l) ==
    \/ loop_span_greedy[l]
    \/ loop_max[l] = UNBOUNDED /\ prog.code[Instr.target].op = "SPAN"

\* Fault: one iteration too many.
MoreOrEqual(l, n) == loop_max[l] = UNBOUNDED \/ n <= loop_max[l]

\* What the per-iteration path decides from the incremented counter.
More(l, n) == loop_max[l] = UNBOUNDED \/ n < loop_max[l]
Stuck(l, n) ==
    loop_max[l] = UNBOUNDED /\ (pos = loop_last_pos(l) \/ n > len + 1)

IterationStep(l) ==
    LET n == CountPlus(l, 1)
    IN  /\ \/ /\ n < loop_min[l]
              /\ MandatoryIteration(l)
              /\ ip' = Instr.target
           \/ /\ n >= loop_min[l] /\ More(l, n) /\ ~Stuck(l, n)
              /\ OptionalIteration(l, ip + 1)
              /\ ip' = Instr.target
           \/ /\ n >= loop_min[l] /\ (More(l, n) => Stuck(l, n))
              /\ CountIteration(l)
              /\ ip' = ip + 1
        /\ UNCHANGED pos

GreedyStep(l) ==
    LET set     == prog.code[Instr.target].set
        scanned == set # {} /\ IsLatin(set)
    IN  /\ \E q \in pos .. len :
              /\ q = IF scanned THEN ByteRunEnd(pos, set) ELSE pos
              /\ GreedyIteration(l, q, scanned, ip)
        /\ ip' = ip + 1

RepeatStep ==
    /\ Fetch("REPEAT_STEP")
    /\ LET l == Instr.loop
       IN  IF l \notin Loops
             THEN Advance(pos) /\ UNCHANGED loop_span_greedy
             ELSE /\ loop_span_greedy' = [loop_span_greedy EXCEPT ![l] = DetectGreedy(l)]
                  /\ IF DetectGreedy(l) THEN GreedyStep(l) ELSE IterationStep(l)
                  /\ UNCHANGED <<compact, len, status>>
    /\ UNCHANGED <<loop_min, loop_max, in_goto_fail, abort_flag, out, tables>>

(***************************************************************************)
(* Control flow, output, tables, callbacks.                                *)
(***************************************************************************)
Abort ==
    /\ Fetch("ABORT")
    /\ abort_flag' = TRUE
    /\ status' = "fail"
    /\ CutChoices
    /\ trail' = IF KeepChoices THEN trail ELSE <<>>
    /\ UNCHANGED <<compact, len, ip, pos, reg, var_count, max_cap_used,
                   max_counter_used, loopVars, in_goto_fail, out, tables>>

\* vm_get_label_offset succeeds when the id is in the table.
Goto ==
    /\ Fetch("GOTO")
    /\ IF Instr.label \in DOMAIN prog.labels
         THEN Jump(prog.labels[Instr.label], pos) /\ UNCHANGED in_goto_fail
         ELSE Backtrack /\ in_goto_fail' = TRUE
    /\ UNCHANGED <<loopVars, abort_flag, out, tables>>

GotoF ==
    /\ Fetch("GOTO_F")
    /\ IF ~in_goto_fail
         THEN Advance(pos) /\ UNCHANGED in_goto_fail
         ELSE IF Instr.label \in DOMAIN prog.labels
                THEN Jump(prog.labels[Instr.label], pos) /\ in_goto_fail' = FALSE
                ELSE Backtrack /\ UNCHANGED in_goto_fail
    /\ UNCHANGED <<loopVars, abort_flag, out, tables>>

EmitLiteral ==
    /\ Fetch("EMIT_LITERAL")
    /\ out' = Append(out, Instr.text)
    /\ Advance(pos)
    /\ UNCHANGED <<loopVars, in_goto_fail, abort_flag, tables>>

EmitCapture ==
    /\ Fetch("EMIT_CAPTURE")
    /\ out' = IF Captured(Instr.r) THEN Append(out, CapText(Instr.r)) ELSE out
    /\ Advance(pos)
    /\ UNCHANGED <<loopVars, in_goto_fail, abort_flag, tables>>

\* The verdict of a predicate or host callback is arbitrary; a string function
\* that succeeds emits some text, here the capture itself.
Eval ==
    /\ Fetch("EVAL")
    /\ \E ok \in BOOLEAN, emits \in BOOLEAN :
          IF ok /\ Captured(Instr.r)
            THEN /\ Advance(pos)
                 /\ out' = IF emits THEN Append(out, CapText(Instr.r)) ELSE out
            ELSE Backtrack /\ UNCHANGED out
    /\ UNCHANGED <<loopVars, in_goto_fail, abort_flag, tables>>

TableGet ==
    /\ Fetch("TABLE_GET")
    /\ IF /\ Instr.table \in DOMAIN tables
          /\ NonEmpty(Instr.key)
          /\ CapText(Instr.key) \in DOMAIN tables[Instr.table]
         THEN Advance(pos)
         ELSE PopAndLeave
    /\ UNCHANGED envVars

TableSet ==
    /\ Fetch("TABLE_SET")
    /\ IF Instr.table \in DOMAIN tables /\ NonEmpty(Instr.key) /\ NonEmpty(Instr.value)
         THEN LET t == tables[Instr.table]
                  k == CapText(Instr.key)
              IN  /\ tables' = [tables EXCEPT ![Instr.table] =
                        [x \in DOMAIN t \cup {k} |->
                            IF x = k THEN CapText(Instr.value) ELSE t[x]]]
                  /\ Advance(pos)
         ELSE PopAndLeave /\ UNCHANGED tables
    /\ UNCHANGED <<loopVars, in_goto_fail, abort_flag, out>>

(***************************************************************************)
(* The machine.                                                            *)
(***************************************************************************)
Init ==
    /\ StoreInit
    /\ compact \in Modes
    /\ ip = 1
    /\ pos = 0
    /\ prog \in Programs
    /\ s \in Subjects
    /\ len = Len(s)
    /\ status = "run"
    /\ loop_min = [l \in Loops |-> 0]
    /\ loop_max = [l \in Loops |-> 0]
    /\ loop_span_greedy = [l \in Loops |-> FALSE]
    /\ in_goto_fail = FALSE
    /\ abort_flag = FALSE
    /\ out = <<>>
    /\ tables \in Tables
    /\ runs = 1

\* Opcodes that leave everything but the store and the status alone.
MatchOp ==
    \/ EndOfCode \/ Nop \/ Label \/ Accept \/ Succeed \/ FailOp \/ Jmp \/ Split
    \/ Lit \/ AnyOp \/ NotAny \/ Span \/ Break \/ BreakX \/ LenOp \/ Anchor
    \/ Rem \/ PosOp \/ RPosOp \/ Tab \/ RTab \/ Bal \/ Fence
    \/ CapStart \/ CapEnd \/ Assign

Dispatch ==
    /\ \/ MatchOp /\ UNCHANGED envVars
       \/ RepeatInit \/ RepeatStep
       \/ Abort \/ Goto \/ GotoF
       \/ EmitLiteral \/ EmitCapture \/ Eval
       \/ TableGet \/ TableSet
    /\ UNCHANGED <<prog, s, runs>>

\* The caller resets the VM (snobol_vm_reset) and runs the same program on
\* another subject.
Rerun ==
    /\ status # "run"
    /\ runs < MAX_RUNS
    /\ s' \in Subjects
    /\ Restart(Len(s'))
    /\ ip' = 1
    /\ status' = "run"
    /\ loop_min' = [l \in Loops |-> 0]
    /\ loop_max' = [l \in Loops |-> 0]
    /\ loop_span_greedy' = [l \in Loops |-> FALSE]
    /\ in_goto_fail' = FALSE
    /\ abort_flag' = FALSE
    /\ runs' = runs + 1
    /\ UNCHANGED <<prog, out, tables>>

\* The caller is done with the VM.
Idle == status # "run" /\ runs = MAX_RUNS /\ UNCHANGED vars

Next == Dispatch \/ Rerun \/ Idle

Spec == Init /\ [][Next]_vars

\* vm_run is a loop of its own thread: it goes on as long as it can.
FairSpec == Spec /\ WF_vars(Dispatch)
=============================================================================
