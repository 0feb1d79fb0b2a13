------------------------------ MODULE SearchVM ------------------------------
(***************************************************************************)
(* The search VM of core/src/search_tiers.c (search_vm_exec): a backtrack- *)
(* ing interpreter for programs without side effects, run at one offset of *)
(* the subject.  Its positions count from that offset.  A choice holds     *)
(* copies of the capture and variable registers, but not of the loop       *)
(* registers.  One action per opcode.                                      *)
(***************************************************************************)
EXTENDS SearchTask

CONSTANTS
    MAX_CHOICES   \* choices there is memory for

VARIABLES
    svm   \* [status, base, ip, pos, regs, choices]

SvmIdle == [status |-> "idle"]

\* What the stack happened to hold: no position of a subject.
Garbage(pairs) == [r \in DOMAIN pairs |-> <<-1, -1>>]

\* search_reset_vm and search_vm_init_from_vm: no register is in use, and the
\* captures and variables are zeroed if the analysis, which stops at the first
\* terminator, saw the program write them.  (Loop registers are written by
\* REPEAT_INIT before they are read.)
FreshRegs ==
    [ZeroRegs EXCEPT !.cap = IF "capture" \in pattern.meta.classes THEN @ ELSE Garbage(@),
                     !.var = IF "vars" \in pattern.meta.classes THEN @ ELSE Garbage(@)]
SvmAt(offset) ==
    [status |-> "run", base |-> offset, ip |-> 1, pos |-> 0, regs |-> FreshRegs,
     choices |-> <<>>]

WindowLen == SLen - svm.base

\* search_vm_push_choice.  Nobody looks at its result: a choice for which there
\* is no memory is an alternative that is never tried.
PushChoice(s, ip, pos) ==
    IF Len(s.choices) >= MAX_CHOICES THEN s
    ELSE [s EXCEPT !.choices = Append(@, [ip |-> ip, pos |-> pos, regs |-> s.regs])]

\* search_vm_pop_choice, or svm_fail_ret when there is no choice left.
Backtrack(s) ==
    IF s.choices = <<>> THEN [s EXCEPT !.status = "fail"]
    ELSE LET c == Last(s.choices)
         IN  [s EXCEPT !.ip = c.ip, !.pos = c.pos, !.choices = Front(@),
                       !.regs = [c.regs EXCEPT !.loop = s.regs.loop]]

\* The instruction at ip is one of ops.
Fetch(ops) == svm.status = "run" /\ svm.ip <= Len(Code) /\ Code[svm.ip].op \in ops
Instr == Code[svm.ip]
Step(s) == [s EXCEPT !.ip = @ + 1]
\* Go on at p if ok, else backtrack.
MoveIf(ok, p) == svm' = IF ok THEN [Step(svm) EXCEPT !.pos = p] ELSE Backtrack(svm)
Here == svm.base + svm.pos

EndOfCode == /\ svm.status = "run" /\ svm.ip > Len(Code)
             /\ svm' = Backtrack(svm)
Nop       == Fetch({"NOP"}) /\ svm' = Step(svm)
Fence     == Fetch({"FENCE"}) /\ svm' = [Step(svm) EXCEPT !.choices = <<>>]
Anchor    == /\ Fetch({"ANCHOR"})
             /\ MoveIf(svm.pos = IF Instr.type = "start" THEN 0 ELSE WindowLen, svm.pos)
Accept    == Fetch({"ACCEPT", "SUCCEED"}) /\ svm' = [svm EXCEPT !.status = "match"]
Abort     == Fetch({"ABORT"}) /\ svm' = [svm EXCEPT !.status = "abort"]
Fail      == Fetch({"FAIL"}) /\ svm' = Backtrack(svm)

CapStart  == /\ Fetch({"CAP_START"})
             /\ svm' = [Step(svm) EXCEPT !.regs = WithCapStart(@, Instr.r, svm.pos)]
CapEnd    == /\ Fetch({"CAP_END"})
             /\ svm' = [Step(svm) EXCEPT !.regs = WithCapEnd(@, Instr.r, svm.pos)]
Assign    == /\ Fetch({"ASSIGN"})
             /\ svm' = [Step(svm) EXCEPT !.regs = WithAssign(@, Instr.var, Instr.r)]

\* Fault: the length of the rest of the window is not compared.
LenUnchecked == Fetch({"LEN"}) /\ MoveIf(TRUE, svm.pos + Instr.n)

Lit       == /\ Fetch({"LIT"})
             /\ MoveIf(LiteralAt(Instr.text, Here), svm.pos + Len(Instr.text))
LenOp     == Fetch({"LEN"}) /\ MoveIf(svm.pos + Instr.n <= WindowLen, svm.pos + Instr.n)
AnyOp     == /\ Fetch({"ANY"})
             /\ MoveIf(Here < SLen /\ ByteAt(Here) \in Instr.set, svm.pos + 1)
Notany    == /\ Fetch({"NOTANY"})
             /\ MoveIf(Here < SLen /\ ByteAt(Here) \notin Instr.set, svm.pos + 1)
Span      == /\ Fetch({"SPAN"})
             /\ LET end == RunEnd(Here, Instr.set)
                IN  MoveIf(end > Here, end - svm.base)
Break     == Fetch({"BREAK"}) /\ MoveIf(TRUE, RunUntil(Here, Instr.set) - svm.base)

\* A choice that runs BREAKX again behind the break character, if there is one.
Breakx    == /\ Fetch({"BREAKX"})
             /\ LET end == RunUntil(Here, Instr.set) - svm.base
                    s   == IF end < WindowLen THEN PushChoice(svm, svm.ip, end + 1) ELSE svm
                IN  svm' = [Step(s) EXCEPT !.pos = end]

PosOp     == Fetch({"POS"}) /\ MoveIf(svm.pos = Instr.n, svm.pos)
RposOp    == Fetch({"RPOS"}) /\ MoveIf(WindowLen - svm.pos = Instr.n, svm.pos)
Tab       == Fetch({"TAB"}) /\ MoveIf(Instr.n <= WindowLen, Instr.n)
Rtab      == Fetch({"RTAB"}) /\ MoveIf(Instr.n <= WindowLen, WindowLen - Instr.n)

Jmp       == Fetch({"JMP"}) /\ svm' = [svm EXCEPT !.ip = Instr.target]
Split     == Fetch({"SPLIT"}) /\ svm' = [PushChoice(svm, Instr.b, svm.pos) EXCEPT !.ip = Instr.a]

\* The instruction that begins loop l: its min and max.
LoopInit(l) == CHOOSE i \in ToSet(Code) : i.op = "REPEAT_INIT" /\ i.loop = l

RepeatInit ==
    /\ Fetch({"REPEAT_INIT"})
    /\ LET s == [svm EXCEPT !.regs.loop[Instr.loop] = <<0, svm.pos>>]
       IN  svm' = Step(IF Instr.min = 0 THEN PushChoice(s, Instr.skip, svm.pos) ELSE s)

\* loop_last_pos is set behind the choice, which would not restore it anyway.
RepeatStep ==
    /\ Fetch({"REPEAT_STEP"})
    /\ LET l     == Instr.loop
           count == svm.regs.loop[l][1] + 1
           init  == LoopInit(l)
           s     == [svm EXCEPT !.regs.loop[l][1] = count]
           again == [s EXCEPT !.regs.loop[l][2] = svm.pos, !.ip = Instr.target]
           exit  == Step(s)
       IN  svm' = IF count < init.min THEN again
                  ELSE IF init.max # UNBOUNDED /\ count >= init.max THEN exit
                  ELSE IF init.max = UNBOUNDED /\ svm.pos = svm.regs.loop[l][2] THEN exit
                  ELSE [PushChoice(s, svm.ip + 1, svm.pos)
                           EXCEPT !.regs = again.regs, !.ip = again.ip]

SvmStep ==
    \/ EndOfCode \/ Nop \/ Fence \/ Anchor \/ Accept \/ Abort \/ Fail
    \/ CapStart \/ CapEnd \/ Assign
    \/ Lit \/ LenOp \/ AnyOp \/ Notany \/ Span \/ Break \/ Breakx
    \/ PosOp \/ RposOp \/ Tab \/ Rtab
    \/ Jmp \/ Split \/ RepeatInit \/ RepeatStep
=============================================================================
