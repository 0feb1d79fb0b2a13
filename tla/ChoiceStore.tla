---------------------------- MODULE ChoiceStore ----------------------------
(***************************************************************************)
(* The backtracking store of the full VM: the registers a match writes     *)
(* (captures, variables, loop counters), the undo trail of                 *)
(* core/src/vm_capture.c and the choice stack of core/src/vm_choice.c.     *)
(*                                                                         *)
(* Two representations of a choice point live side by side in the code.    *)
(* With use_compact_choice (the default) a record holds a trail index and  *)
(* backtracking replays the trail; otherwise (SNOBOL_LEGACY_CHOICE) it     *)
(* holds a snapshot of part of the registers.  Both are modelled, the mode *)
(* being fixed when the VM starts.                                         *)
(*                                                                         *)
(* The registers are one function, indexed by the VM's arrays (cap_start,  *)
(* cap_end, var_start, var_end, counters, loop_last_pos) and an index.  An *)
(* undo record gives the value before the write of the registers it saves  *)
(* (one for UNDO_CAP_WRITE, whose sub tells the start from the end, two    *)
(* for UNDO_VAR_WRITE and UNDO_COUNTER_DEC) and Unsaved for all others.    *)
(***************************************************************************)
EXTENDS Integers, Sequences

CONSTANTS
    MAX_CAPS,     \* number of capture registers
    MAX_VARS,     \* number of variables
    MAX_LOOPS,    \* number of loop counters
    COUNT_MAX,    \* largest value of a counter (UINT32_MAX in the code)
    Ips,          \* instruction addresses
    Lens          \* lengths of subjects

ASSUME SizesAssumption ==
    /\ MAX_CAPS \in Nat
    /\ MAX_VARS \in Nat
    /\ MAX_LOOPS \in Nat
    /\ COUNT_MAX \in Nat
    /\ Lens \subseteq Nat

VARIABLES
    compact,           \* vm->use_compact_choice
    len,               \* vm->len, the length of the subject
    ip,                \* vm->ip
    pos,               \* vm->pos
    reg,               \* capture, variable and loop registers
    var_count,         \* vm->var_count
    max_cap_used,      \* vm->max_cap_used
    max_counter_used,  \* vm->max_counter_used
    trail,             \* the undo trail, trail_top being its length
    choices,           \* the choice stack, the newest record last
    choice_live_depth  \* statistic: choice points thought to be live

regVars    == <<reg, var_count, max_cap_used, max_counter_used, trail>>
choiceVars == <<choices, choice_live_depth>>
storeVars  == <<compact, len, ip, pos, regVars, choiceVars>>

Caps  == 0 .. MAX_CAPS - 1
Vars  == 0 .. MAX_VARS - 1
Loops == 0 .. MAX_LOOPS - 1
Pos   == 0 .. len
Count == 0 .. COUNT_MAX

CapRegs  == {"cap_start", "cap_end"} \X Caps
VarRegs  == {"var_start", "var_end"} \X Vars
LoopRegs == {"counters", "loop_last_pos"} \X Loops
Regs     == CapRegs \cup VarRegs \cup LoopRegs

cap_start(c)     == reg[<<"cap_start", c>>]
cap_end(c)       == reg[<<"cap_end", c>>]
counters(l)      == reg[<<"counters", l>>]
loop_last_pos(l) == reg[<<"loop_last_pos", l>>]

(***************************************************************************)
(* The trail.                                                              *)
(***************************************************************************)
\* Faulty variants of definitions, each next to the one it varies, are used for
\* mutation testing only: they show that the properties can fail.

\* Fault: the undo record forgets var_end.
VarPairHalf(v) == {<<"var_start", v>>}

\* The registers saved by UNDO_VAR_WRITE and UNDO_COUNTER_DEC.
VarPair(v)  == {<<"var_start", v>>, <<"var_end", v>>}
LoopPair(l) == {<<"counters", l>>, <<"loop_last_pos", l>>}

\* vm_trail_counter_inc, vm_trail_cap_write, vm_trail_var_write: the record
\* of a write to the registers rs.
Unsaved == -1
UndoRecord(rs) == [r \in Regs |-> IF r \in rs THEN reg[r] ELSE Unsaved]

\* vm_trail_push, which they call in compact mode only.
TrailPush(tr, rs) == IF compact THEN Append(tr, UndoRecord(rs)) ELSE tr

\* The records above index b that save register r.
Touches(b, r) == {i \in b + 1 .. Len(trail) : trail[i][r] # Unsaved}

\* Fault: the oldest record is undone first.
ReplayForwards(b) ==
    [r \in Regs |->
        IF Touches(b, r) = {}
          THEN reg[r]
          ELSE trail[CHOOSE i \in Touches(b, r) :
                        \A j \in Touches(b, r) : i >= j][r]]

\* vm_trail_replay undoes [b, trail_top) newest first, so that of the records
\* of one register the oldest has the last word.
Replay(b) ==
    [r \in Regs |->
        IF Touches(b, r) = {}
          THEN reg[r]
          ELSE trail[CHOOSE i \in Touches(b, r) :
                        \A j \in Touches(b, r) : i <= j][r]]

\* The same as the loop of the code: one record undone, and all above b.
Undone(f, u) == [r \in Regs |-> IF u[r] = Unsaved THEN f[r] ELSE u[r]]
ReplayLoop(b) ==
    LET undo[i \in 0 .. Len(trail) - b] ==
          IF i = 0 THEN reg ELSE Undone(undo[i - 1], trail[Len(trail) + 1 - i])
    IN  undo[Len(trail) - b]

(***************************************************************************)
(* The choice stack.                                                       *)
(***************************************************************************)
\* CompactChoiceHeader / struct choice.  snap is the register file when the
\* record was pushed: in legacy mode the part LegacyRestore reads is stored
\* in the record, in compact mode it is a history variable nothing reads.
Choice(i, p, rg, mcu, tr) ==
    [ip |-> i, pos |-> p, var_count |-> var_count,
     max_cap_used |-> max_cap_used, max_counter_used |-> mcu,
     trail_base |-> Len(tr), snap |-> rg]

\* Fault: the compact branch does not count the record.
PushChoiceUncounted(i, p, rg, mcu, tr) ==
    /\ choices' = Append(choices, Choice(i, p, rg, mcu, tr))
    /\ choice_live_depth' = choice_live_depth + (IF compact THEN 0 ELSE 1)

\* vm_push_choice: rg, mcu and tr are the registers, max_counter_used and the
\* trail at the moment of the call.
PushChoice(i, p, rg, mcu, tr) ==
    /\ choices' = Append(choices, Choice(i, p, rg, mcu, tr))
    /\ choice_live_depth' = choice_live_depth + 1

\* Fault: one capture too few is copied back.
LegacyRestoreShort(c) ==
    [r \in Regs |->
        IF \/ r \in CapRegs /\ r[2] + 1 < c.max_cap_used
           \/ r \in LoopRegs /\ r[2] < c.max_counter_used
          THEN c.snap[r]
          ELSE reg[r]]

\* Fault: the loop registers are not copied back.
LegacyRestoreCaps(c) ==
    [r \in Regs |->
        IF r \in CapRegs /\ r[2] < c.max_cap_used THEN c.snap[r] ELSE reg[r]]

\* The memcpy calls of the legacy branch of vm_pop_choice: captures and loops
\* below the saved high-water marks, and no variable.
LegacyRestore(c) ==
    [r \in Regs |->
        IF \/ r \in CapRegs /\ r[2] < c.max_cap_used
           \/ r \in LoopRegs /\ r[2] < c.max_counter_used
          THEN c.snap[r]
          ELSE reg[r]]

Top == choices[Len(choices)]

\* vm_pop_choice, when there is a record: what it restores ...
RestoreTop ==
    /\ choices # <<>>
    /\ ip' = Top.ip
    /\ pos' = Top.pos
    /\ var_count' = Top.var_count
    /\ max_cap_used' = Top.max_cap_used
    /\ max_counter_used' = Top.max_counter_used
    /\ reg' = IF compact THEN Replay(Top.trail_base) ELSE LegacyRestore(Top)
    /\ choice_live_depth' =
         IF choice_live_depth > 0 THEN choice_live_depth - 1
                                  ELSE choice_live_depth
    /\ UNCHANGED <<compact, len>>

\* Fault: the whole trail is cleared instead of the part above the base.
PopChoiceClearing ==
    /\ RestoreTop
    /\ trail' = <<>>
    /\ choices' = SubSeq(choices, 1, Len(choices) - 1)

\* ... and what it removes.
PopChoice ==
    /\ RestoreTop
    /\ trail' = IF compact THEN SubSeq(trail, 1, Top.trail_base) ELSE trail
    /\ choices' = SubSeq(choices, 1, Len(choices) - 1)

\* A handler that pops a choice and then leaves the dispatch loop, which frees
\* the arena and the trail.
PopAndRelease ==
    /\ RestoreTop
    /\ trail' = <<>>
    /\ choices' = <<>>

\* vm_arena_reset as OP_FENCE and OP_ABORT call it: the records go, the trail
\* and the live-depth statistic stay.
CutChoices ==
    /\ choices' = <<>>
    /\ UNCHANGED choice_live_depth

(***************************************************************************)
(* Register writes of the executor (core/src/vm_exec.c), each with the     *)
(* undo records it pushes.                                                 *)
(***************************************************************************)
Larger(a, b) == IF a >= b THEN a ELSE b

\* Fault: no undo record.
WriteCapStartUntrailed(c) ==
    /\ reg' = [reg EXCEPT ![<<"cap_start", c>>] = pos]
    /\ max_cap_used' = Larger(max_cap_used, c + 1)
    /\ UNCHANGED <<trail, var_count, max_counter_used>>

\* OP_CAP_START c
WriteCapStart(c) ==
    /\ trail' = TrailPush(trail, {<<"cap_start", c>>})
    /\ reg' = [reg EXCEPT ![<<"cap_start", c>>] = pos]
    /\ max_cap_used' = Larger(max_cap_used, c + 1)
    /\ UNCHANGED <<var_count, max_counter_used>>

\* Fault: the variable is written without its undo record.
WriteCapEndUntrailed(c) ==
    /\ trail' = TrailPush(trail, {<<"cap_end", c>>})
    /\ reg' = [reg EXCEPT ![<<"cap_end", c>>] = pos,
                          ![<<"var_start", c>>] = cap_start(c),
                          ![<<"var_end", c>>] = pos]
    /\ var_count' = Larger(var_count, c + 1)
    /\ max_cap_used' = Larger(max_cap_used, c + 1)
    /\ UNCHANGED max_counter_used

\* OP_CAP_END c: the capture is also published as variable c.
WriteCapEnd(c) ==
    /\ IF c \in Vars
         THEN /\ trail' = TrailPush(TrailPush(trail, {<<"cap_end", c>>}), VarPair(c))
              /\ reg' = [reg EXCEPT ![<<"cap_end", c>>] = pos,
                                    ![<<"var_start", c>>] = cap_start(c),
                                    ![<<"var_end", c>>] = pos]
              /\ var_count' = Larger(var_count, c + 1)
         ELSE /\ trail' = TrailPush(trail, {<<"cap_end", c>>})
              /\ reg' = [reg EXCEPT ![<<"cap_end", c>>] = pos]
              /\ UNCHANGED var_count
    /\ max_cap_used' = Larger(max_cap_used, c + 1)
    /\ UNCHANGED max_counter_used

\* OP_ASSIGN v c
WriteAssign(v, c) ==
    /\ trail' = TrailPush(trail, VarPair(v))
    /\ reg' = [reg EXCEPT ![<<"var_start", v>>] = cap_start(c),
                          ![<<"var_end", v>>] = cap_end(c)]
    /\ var_count' = Larger(var_count, v + 1)
    /\ UNCHANGED <<max_cap_used, max_counter_used>>

WithLoop(l, n, p) ==
    [reg EXCEPT ![<<"counters", l>>] = n, ![<<"loop_last_pos", l>>] = p]

\* OP_REPEAT_INIT l: the loop register is overwritten without an undo record;
\* when the loop may be skipped (min = 0) a choice at address skip is pushed.
WriteRepeatInit(l, skippable, skip) ==
    /\ reg' = WithLoop(l, 0, pos)
    /\ max_counter_used' = Larger(max_counter_used, l + 1)
    /\ IF skippable
         THEN PushChoice(skip, pos, reg', max_counter_used', trail)
         ELSE UNCHANGED choiceVars
    /\ UNCHANGED <<var_count, max_cap_used, trail>>

\* counters[l] + k, in the width of the counter
CountPlus(l, k) == (counters(l) + k) % (COUNT_MAX + 1)

\* OP_REPEAT_STEP l, the four ways it leaves the store.  The first two are the
\* per-iteration loop body: count, then either leave last_pos alone (the loop
\* ends) or move it to pos (it goes round).
CountIteration(l) ==
    /\ trail' = TrailPush(trail, LoopPair(l))
    /\ reg' = WithLoop(l, CountPlus(l, 1), loop_last_pos(l))
    /\ UNCHANGED <<var_count, max_cap_used, max_counter_used, choiceVars>>

MandatoryIteration(l) ==
    /\ trail' = TrailPush(trail, LoopPair(l))
    /\ reg' = WithLoop(l, CountPlus(l, 1), pos)
    /\ UNCHANGED <<var_count, max_cap_used, max_counter_used, choiceVars>>

\* An optional iteration: the choice (leave the loop, at address exit) is
\* pushed between the counter's write and last_pos's.
OptionalIteration(l, exit) ==
    LET counted == WithLoop(l, CountPlus(l, 1), loop_last_pos(l))
    IN  /\ trail' = TrailPush(trail, LoopPair(l))
        /\ PushChoice(exit, pos, counted, max_counter_used, trail')
        /\ reg' = WithLoop(l, CountPlus(l, 1), pos)
        /\ UNCHANGED <<var_count, max_cap_used, max_counter_used>>

\* The greedy-span shortcut moves to q, the end of the run; scanned tells whether
\* the class fits the 256-bit map (only then is anything counted), again is
\* the address of the step itself.
GreedyIteration(l, q, scanned, again) ==
    LET tr      == IF scanned THEN TrailPush(trail, LoopPair(l)) ELSE trail
        n       == IF scanned THEN CountPlus(l, 1 + (q - pos)) ELSE counters(l)
        counted == WithLoop(l, n, loop_last_pos(l))
    IN  /\ pos' = q
        /\ trail' = tr
        /\ IF q > loop_last_pos(l)
             THEN PushChoice(again, q - 1, counted, max_counter_used, tr)
             ELSE UNCHANGED choiceVars
        /\ reg' = WithLoop(l, n, q)
        /\ UNCHANGED <<var_count, max_cap_used, max_counter_used>>

(***************************************************************************)
(* The store on its own: every order in which an executor may use it.      *)
(***************************************************************************)
\* A VM fresh from memset or snobol_vm_reset, after vm_run has emptied the
\* arena and the trail.
ZeroReg == [r \in Regs |-> 0]

StoreInit ==
    /\ compact \in BOOLEAN
    /\ len \in Lens
    /\ ip \in Ips
    /\ pos \in Pos
    /\ reg = ZeroReg
    /\ var_count = 0
    /\ max_cap_used = 0
    /\ max_counter_used = 0
    /\ trail = <<>>
    /\ choices = <<>>
    /\ choice_live_depth = 0

\* Where an instruction that does not backtrack leaves ip and pos.
Moves == ip' \in Ips /\ pos' \in Pos /\ UNCHANGED <<compact, len>>

Move == Moves /\ UNCHANGED <<regVars, choiceVars>>

Push ==
    /\ Moves
    /\ \E i \in Ips, p \in Pos : PushChoice(i, p, reg, max_counter_used, trail)
    /\ UNCHANGED regVars

WriteVar ==
    /\ Moves
    /\ \/ \E c \in Caps : WriteCapStart(c) \/ WriteCapEnd(c)
       \/ \E v \in Vars, c \in Caps : WriteAssign(v, c)
    /\ UNCHANGED choiceVars

EnterLoop ==
    /\ Moves
    /\ \E l \in Loops, skippable \in BOOLEAN, skip \in Ips :
          WriteRepeatInit(l, skippable, skip)

StepLoop ==
    /\ Moves
    /\ \E l \in Loops :
          \/ CountIteration(l)
          \/ MandatoryIteration(l)
          \/ \E exit \in Ips : OptionalIteration(l, exit)
          \/ \E q \in pos .. len, scanned \in BOOLEAN, again \in Ips :
                GreedyIteration(l, q, scanned, again)

Cut == Moves /\ CutChoices /\ UNCHANGED regVars

\* The end of vm_run frees the arena and the trail.
Release ==
    /\ choices' = <<>>
    /\ trail' = <<>>
    /\ UNCHANGED <<compact, len, ip, pos, reg, var_count, max_cap_used,
                   max_counter_used, choice_live_depth>>

\* snobol_vm_reset and the start of vm_run on a subject of length n.  The
\* live-depth statistic is the one field neither of them clears.
Restart(n) ==
    /\ ip' \in Ips
    /\ pos' = 0
    /\ len' = n
    /\ reg' = ZeroReg
    /\ var_count' = 0
    /\ max_cap_used' = 0
    /\ max_counter_used' = 0
    /\ trail' = <<>>
    /\ choices' = <<>>
    /\ UNCHANGED <<compact, choice_live_depth>>

StoreNext ==
    \/ Move \/ Push \/ PopChoice \/ PopAndRelease \/ WriteVar \/ EnterLoop \/ StepLoop
    \/ Cut \/ Release
    \/ \E n \in Lens : Restart(n)

StoreSpec == StoreInit /\ [][StoreNext]_storeVars

(***************************************************************************)
(* Properties.                                                             *)
(***************************************************************************)
RegVals(r) == IF r[1] = "counters" THEN Count ELSE Pos

IsRegFile(f) == f \in [Regs -> Nat] /\ \A r \in Regs : f[r] \in RegVals(r)

ChoiceRecords ==
    [ip : Ips, pos : Nat, var_count : 0 .. MAX_VARS,
     max_cap_used : 0 .. MAX_CAPS, max_counter_used : 0 .. MAX_LOOPS,
     trail_base : Nat, snap : [Regs -> Nat]]

IsTrail(tr) ==
    /\ tr \in Seq([Regs -> Int])
    /\ \A i \in DOMAIN tr : \A r \in Regs : tr[i][r] \in RegVals(r) \cup {Unsaved}

IsStack(cs) ==
    /\ cs \in Seq(ChoiceRecords)
    /\ \A k \in DOMAIN cs : cs[k].pos \in Pos /\ IsRegFile(cs[k].snap)

\* Every position the VM holds, in a register, in the trail or in a saved
\* choice, lies inside the subject, so that no capture it hands out and no
\* position it resumes from reads past vm->s + vm->len.
StoreTypeOK ==
    /\ compact \in BOOLEAN
    /\ len \in Lens
    /\ ip \in Ips
    /\ pos \in Pos
    /\ IsRegFile(reg)
    /\ var_count \in 0 .. MAX_VARS
    /\ max_cap_used \in 0 .. MAX_CAPS
    /\ max_counter_used \in 0 .. MAX_LOOPS
    /\ IsTrail(trail)
    /\ IsStack(choices)
    /\ choice_live_depth \in Nat

\* Trail bases never decrease up the stack and never exceed trail_top: a pop
\* leaves every older record's base valid.
BasesOrdered ==
    /\ \A k \in DOMAIN choices : choices[k].trail_base <= Len(trail)
    /\ \A j, k \in DOMAIN choices :
          j <= k => choices[j].trail_base <= choices[k].trail_base

\* The claim of vm_trail_replay's comment, for captures and variables: at any
\* moment, replaying the trail down to the base of ANY live choice, not only
\* the newest, gives these registers the values they had when that choice was
\* pushed.
Restoration ==
    compact =>
        \A k \in DOMAIN choices : \A r \in CapRegs \cup VarRegs :
            Replay(choices[k].trail_base)[r] = choices[k].snap[r]

\* vm_trail_replay undoes one record after the other, from the newest to the
\* oldest; Replay states what that leaves in a register directly.
ReplayIsLoop == \A base \in 0 .. Len(trail) : Replay(base) = ReplayLoop(base)

\* What a backtrack gives back: in either mode the position and every capture
\* the restored max_cap_used covers, in compact mode every capture and
\* variable.
PopRestores ==
    [][PopChoice \/ PopAndRelease =>
        /\ pos' = Top.pos
        /\ \A r \in CapRegs : r[2] < max_cap_used' => reg'[r] = Top.snap[r]
        /\ compact => \A r \in CapRegs \cup VarRegs : reg'[r] = Top.snap[r]
      ]_storeVars

\* The statistic choice_live_depth drifts (neither FENCE nor the end of a run
\* lowers it) but only upwards: the peak depth computed from it is never too
\* small, and the guard of its decrement never hides an underflow.
LiveDepthCovers == choice_live_depth >= Len(choices)
=============================================================================
