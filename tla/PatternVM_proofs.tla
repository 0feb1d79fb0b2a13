------------------------- MODULE PatternVM_proofs --------------------------
(***************************************************************************)
(* Proofs about the backtracking store, for any numbers of registers, any  *)
(* addresses and any subject lengths, and then about the virtual machine,  *)
(* which implements it: every opcode uses the store in one of the ways     *)
(* StoreNext allows, for all programs whose operands are in range and all  *)
(* subjects, so what is shown of the store holds of every run of the       *)
(* machine.                                                                *)
(***************************************************************************)
EXTENDS PatternVM, WellFoundedInduction, TLAPS

(***************************************************************************)
(* Lemmas about the register file, the trail and the stack.                *)
(***************************************************************************)
\* A non-empty set of naturals has a least element: what vm_trail_replay's
\* loop computes, and Replay chooses, exists.
LEMMA LeastElement ==
    ASSUME NEW S, S \subseteq Nat, S # {}
    PROVE  \E x \in S : \A y \in S : x <= y
<1>1. PICK x \in S : \A y \in S : ~(<<y, x>> \in OpToRel(<, Nat))
  BY NatLessThanWellFounded, WFMin, Zenon
<1>2. ASSUME NEW y \in S PROVE x <= y
  <2>1. x \in Nat /\ y \in Nat
    OBVIOUS
  <2>2. ~(<<y, x>> \in OpToRel(<, Nat))
    BY <1>1, Zenon
  <2>3. ~(y < x)
    BY <2>1, <2>2, Zenon DEF OpToRel
  <2> QED BY <2>1, <2>3
<1> QED BY <1>2

\* The registers the handlers name exist, and which values they hold.
LEMMA RegisterKinds ==
    /\ \A c \in Caps : /\ <<"cap_start", c>> \in Regs /\ RegVals(<<"cap_start", c>>) = Pos
                       /\ <<"cap_end", c>> \in Regs /\ RegVals(<<"cap_end", c>>) = Pos
    /\ \A v \in Vars : /\ <<"var_start", v>> \in Regs /\ RegVals(<<"var_start", v>>) = Pos
                       /\ <<"var_end", v>> \in Regs /\ RegVals(<<"var_end", v>>) = Pos
    /\ \A l \in Loops : /\ <<"counters", l>> \in Regs /\ RegVals(<<"counters", l>>) = Count
                        /\ <<"loop_last_pos", l>> \in Regs
                        /\ RegVals(<<"loop_last_pos", l>>) = Pos
BY DEF Regs, CapRegs, VarRegs, LoopRegs, RegVals

\* Writing one register keeps a register file one.
LEMMA WriteRegister ==
    ASSUME len \in Nat, NEW f, IsRegFile(f), NEW r \in Regs, NEW v \in RegVals(r)
    PROVE  IsRegFile([f EXCEPT ![r] = v])
<1>1. v \in Nat
  BY SizesAssumption DEF RegVals, Pos, Count
<1>2. [f EXCEPT ![r] = v] \in [Regs -> Nat]
  BY <1>1 DEF IsRegFile
<1>3. ASSUME NEW x \in Regs PROVE [f EXCEPT ![r] = v][x] \in RegVals(x)
  BY <1>2 DEF IsRegFile
<1> QED BY <1>2, <1>3 DEF IsRegFile

\* An undo record holds register values.
LEMMA TrailPushType ==
    ASSUME StoreTypeOK, NEW tr, IsTrail(tr), NEW rs
    PROVE  /\ IsTrail(TrailPush(tr, rs))
           /\ Len(tr) <= Len(TrailPush(tr, rs)) /\ Len(TrailPush(tr, rs)) \in Nat
<1>1. UndoRecord(rs) \in [Regs -> Int]
  BY DEF UndoRecord, StoreTypeOK, IsRegFile, Unsaved
<1>2. \A r \in Regs : UndoRecord(rs)[r] \in RegVals(r) \cup {Unsaved}
  BY DEF UndoRecord, StoreTypeOK, IsRegFile
<1>3. tr \in Seq([Regs -> Int])
  BY DEF IsTrail
<1>4. Append(tr, UndoRecord(rs)) \in Seq([Regs -> Int])
  BY <1>1, <1>3
<1>5. ASSUME NEW i \in DOMAIN Append(tr, UndoRecord(rs)), NEW r \in Regs
      PROVE  Append(tr, UndoRecord(rs))[i][r] \in RegVals(r) \cup {Unsaved}
  <2>1. CASE i \in 1 .. Len(tr)
    <3>1. Append(tr, UndoRecord(rs))[i] = tr[i]
      BY <2>1, <1>3, <1>1
    <3> QED BY <3>1, <2>1, <1>3 DEF IsTrail
  <2>2. CASE i = Len(tr) + 1
    <3>1. Append(tr, UndoRecord(rs))[i] = UndoRecord(rs)
      BY <2>2, <1>3, <1>1
    <3> QED BY <3>1, <1>2
  <2> QED BY <2>1, <2>2, <1>3, <1>1
<1>6. Len(Append(tr, UndoRecord(rs))) = Len(tr) + 1 /\ Len(tr) \in Nat
  BY <1>1, <1>3
<1> QED BY <1>4, <1>5, <1>6 DEF TrailPush, IsTrail

\* What a prefix of a sequence is.
LEMMA Prefix ==
    ASSUME NEW S, NEW q \in Seq(S), NEW m \in Nat, m <= Len(q)
    PROVE  /\ SubSeq(q, 1, m) \in Seq(S)
           /\ Len(SubSeq(q, 1, m)) = m
           /\ DOMAIN SubSeq(q, 1, m) = 1 .. m
           /\ \A k \in 1 .. m : k \in DOMAIN q /\ SubSeq(q, 1, m)[k] = q[k]
OBVIOUS

\* A trail cut at a base is a trail.
LEMMA TrailCutType ==
    ASSUME NEW tr, IsTrail(tr), NEW base \in Nat, base <= Len(tr)
    PROVE  IsTrail(SubSeq(tr, 1, base)) /\ Len(SubSeq(tr, 1, base)) = base
<1>1. tr \in Seq([Regs -> Int])
  BY DEF IsTrail
<1>2. SubSeq(tr, 1, base) \in Seq([Regs -> Int]) /\ Len(SubSeq(tr, 1, base)) = base
  BY <1>1
<1>3. ASSUME NEW i \in DOMAIN SubSeq(tr, 1, base) PROVE i \in DOMAIN tr /\ SubSeq(tr, 1, base)[i] = tr[i]
  BY <1>1, <1>2
<1> QED BY <1>2, <1>3 DEF IsTrail

\* Replaying a trail, or copying part of a snapshot, gives a register file.
LEMMA RestoreTypes ==
    ASSUME StoreTypeOK
    PROVE  /\ \A base \in Nat : IsRegFile(Replay(base))
           /\ \A k \in DOMAIN choices : IsRegFile(LegacyRestore(choices[k]))
<1>0. len \in Nat
  BY SizesAssumption DEF StoreTypeOK
<1>1. ASSUME NEW base \in Nat, NEW r \in Regs PROVE Replay(base)[r] \in RegVals(r)
  <2>1. CASE Touches(base, r) = {}
    BY <2>1 DEF Replay, StoreTypeOK, IsRegFile
  <2>2. CASE Touches(base, r) # {}
    <3>1. trail \in Seq([Regs -> Int]) /\ Len(trail) \in Nat
      BY DEF StoreTypeOK, IsTrail
    <3>2. Touches(base, r) \subseteq Nat
      BY <3>1 DEF Touches
    <3>3. PICK x \in Touches(base, r) : \A y \in Touches(base, r) : x <= y
      BY <3>2, <2>2, LeastElement
    <3> DEFINE m == CHOOSE i \in Touches(base, r) : \A j \in Touches(base, r) : i <= j
    <3>4. m \in Touches(base, r)
      BY <3>3
    <3>5. m \in DOMAIN trail /\ trail[m][r] # Unsaved
      BY <3>4, <3>1 DEF Touches
    <3>6. Replay(base)[r] = trail[m][r]
      BY <2>2 DEF Replay
    <3> QED BY <3>5, <3>6 DEF StoreTypeOK, IsTrail
  <2> QED BY <2>1, <2>2
<1>2. ASSUME NEW k \in DOMAIN choices, NEW r \in Regs
      PROVE  LegacyRestore(choices[k])[r] \in RegVals(r)
  BY DEF LegacyRestore, StoreTypeOK, IsStack, IsRegFile
<1>3. \A r \in Regs : RegVals(r) \subseteq Nat
  BY <1>0, SizesAssumption DEF RegVals, Pos, Count
<1>4. ASSUME NEW base \in Nat PROVE IsRegFile(Replay(base))
  <2>1. Replay(base) = [r \in Regs |-> Replay(base)[r]]
    BY DEF Replay
  <2> QED BY <1>1, <1>3, <2>1 DEF IsRegFile
<1>5. ASSUME NEW k \in DOMAIN choices PROVE IsRegFile(LegacyRestore(choices[k]))
  <2>1. LegacyRestore(choices[k]) = [r \in Regs |-> LegacyRestore(choices[k])[r]]
    BY DEF LegacyRestore
  <2> QED BY <1>2, <1>3, <2>1 DEF IsRegFile
<1> QED BY <1>4, <1>5

\* vm_push_choice keeps the stack well typed and its bases ordered.
LEMMA PushStep ==
    ASSUME StoreTypeOK, BasesOrdered,
           NEW i \in Ips, NEW p \in Pos, NEW rg, IsRegFile(rg),
           NEW mcu \in 0 .. MAX_LOOPS, NEW tr, IsTrail(tr), Len(trail) <= Len(tr),
           PushChoice(i, p, rg, mcu, tr), trail' = tr
    PROVE  IsStack(choices') /\ BasesOrdered' /\ choice_live_depth' \in Nat
<1> DEFINE new == Choice(i, p, rg, mcu, tr)
<1>1. len \in Nat /\ Len(tr) \in Nat /\ Len(trail) \in Nat
  BY SizesAssumption DEF StoreTypeOK, IsTrail
<1>2. new \in ChoiceRecords /\ new.pos = p /\ new.snap = rg /\ new.trail_base = Len(tr)
  BY <1>1 DEF Choice, ChoiceRecords, StoreTypeOK, IsRegFile, Pos
<1>3. choices \in Seq(ChoiceRecords) /\ Len(choices) \in Nat
  BY DEF StoreTypeOK, IsStack
<1>4. choices' = Append(choices, new)
  BY DEF PushChoice
<1> HIDE DEF new
<1>5. choices' \in Seq(ChoiceRecords) /\ Len(choices') = Len(choices) + 1
  BY <1>2, <1>3, <1>4
<1>6. /\ \A k \in 1 .. Len(choices) : choices'[k] = choices[k]
      /\ choices'[Len(choices) + 1] = new
  BY <1>2, <1>3, <1>4
<1>7. ASSUME NEW k \in DOMAIN choices'
      PROVE  k \in 1 .. Len(choices) \/ k = Len(choices) + 1
  BY <1>3, <1>5
<1>8. IsStack(choices')
  <2>1. ASSUME NEW k \in DOMAIN choices' PROVE choices'[k].pos \in Pos /\ IsRegFile(choices'[k].snap)
    BY <1>2, <1>3, <1>6, <1>7 DEF StoreTypeOK, IsStack
  <2> QED BY <2>1, <1>5 DEF IsStack
<1>9. BasesOrdered'
  <2>1. ASSUME NEW k \in 1 .. Len(choices)
        PROVE  choices[k].trail_base \in Nat /\ choices[k].trail_base <= Len(tr)
    <3>1. choices[k] \in ChoiceRecords /\ k \in DOMAIN choices
      BY <1>3
    <3>2. choices[k].trail_base \in Nat
      BY <3>1 DEF ChoiceRecords
    <3>3. choices[k].trail_base <= Len(trail)
      BY <3>1 DEF BasesOrdered
    <3> QED BY <1>1, <3>2, <3>3
  <2>2. ASSUME NEW k \in DOMAIN choices' PROVE choices'[k].trail_base <= Len(tr)
    BY <2>1, <1>1, <1>2, <1>6, <1>7
  <2>3. ASSUME NEW j \in DOMAIN choices', NEW k \in DOMAIN choices', j <= k
        PROVE  choices'[j].trail_base <= choices'[k].trail_base
    <3>1. CASE k = Len(choices) + 1
      BY <3>1, <1>2, <1>6, <2>2
    <3>2. CASE k \in 1 .. Len(choices)
      <4>1. j \in 1 .. Len(choices)
        BY <3>2, <2>3, <1>3, <1>5
      <4> QED BY <4>1, <3>2, <2>3, <1>3, <1>6 DEF BasesOrdered
    <3> QED BY <3>1, <3>2, <1>7
  <2> QED BY <2>2, <2>3 DEF BasesOrdered
<1>10. choice_live_depth' \in Nat
  BY DEF PushChoice, StoreTypeOK
<1> QED BY <1>8, <1>9, <1>10

\* A step that leaves the subject alone preserves the type invariant when it
\* does so part by part.
LEMMA TypeByParts ==
    ASSUME StoreTypeOK, len' = len, compact' = compact, ip' \in Ips, pos' \in Pos,
           IsRegFile(reg'), var_count' \in 0 .. MAX_VARS, max_cap_used' \in 0 .. MAX_CAPS,
           max_counter_used' \in 0 .. MAX_LOOPS, IsTrail(trail'), IsStack(choices'),
           choice_live_depth' \in Nat
    PROVE  StoreTypeOK'
BY DEF StoreTypeOK, IsRegFile, IsTrail, IsStack, RegVals, Pos

\* The newest record, when there is one.
LEMMA TopRecord ==
    ASSUME StoreTypeOK, BasesOrdered, choices # <<>>
    PROVE  /\ Len(choices) \in Nat \ {0} /\ Len(choices) \in DOMAIN choices
           /\ Top \in ChoiceRecords /\ Top.pos \in Pos /\ IsRegFile(Top.snap)
           /\ Top.trail_base \in Nat /\ Top.trail_base <= Len(trail)
           /\ \A k \in DOMAIN choices : choices[k].trail_base <= Top.trail_base
<1>1. choices \in Seq(ChoiceRecords)
  BY DEF StoreTypeOK, IsStack
<1>2. Len(choices) \in Nat \ {0} /\ Len(choices) \in DOMAIN choices
  BY <1>1
<1>3. Top \in ChoiceRecords
  BY <1>1, <1>2 DEF Top
<1>4. Top.pos \in Pos /\ IsRegFile(Top.snap)
  BY <1>2 DEF Top, StoreTypeOK, IsStack
<1>5. Top.trail_base \in Nat
  BY <1>3 DEF ChoiceRecords
<1>6. Top.trail_base <= Len(trail)
  BY <1>2 DEF Top, BasesOrdered
<1>7. ASSUME NEW k \in DOMAIN choices PROVE choices[k].trail_base <= Top.trail_base
  <2>1. k <= Len(choices)
    BY <1>1
  <2> QED BY <2>1, <1>2 DEF Top, BasesOrdered
<1> QED BY <1>2, <1>3, <1>4, <1>5, <1>6, <1>7

\* The stack without its newest record.
LEMMA PoppedStack ==
    ASSUME StoreTypeOK, BasesOrdered, choices # <<>>,
           choices' = SubSeq(choices, 1, Len(choices) - 1)
    PROVE  /\ IsStack(choices') /\ Len(choices') = Len(choices) - 1
           /\ \A k \in DOMAIN choices' : k \in DOMAIN choices /\ choices'[k] = choices[k]
<1>1. choices \in Seq(ChoiceRecords)
  BY DEF StoreTypeOK, IsStack
<1>2. Len(choices) \in Nat \ {0}
  BY TopRecord
<1> DEFINE m == Len(choices) - 1
<1>3. m \in Nat /\ m <= Len(choices)
  BY <1>2
<1>4. /\ choices' \in Seq(ChoiceRecords) /\ Len(choices') = m
      /\ \A k \in DOMAIN choices' : k \in DOMAIN choices /\ choices'[k] = choices[k]
  <2> HIDE DEF m
  <2>1. choices' = SubSeq(choices, 1, m)
    BY DEF m
  <2> QED BY <1>1, <1>3, <2>1, Prefix
<1>5. IsStack(choices')
  BY <1>4 DEF StoreTypeOK, IsStack
<1> QED BY <1>4, <1>5

\* What vm_pop_choice restores is well typed.
LEMMA RestoreTopType ==
    ASSUME StoreTypeOK, BasesOrdered, RestoreTop
    PROVE  /\ choices # <<>> /\ ip' \in Ips /\ pos' \in Pos /\ IsRegFile(reg')
           /\ var_count' \in 0 .. MAX_VARS /\ max_cap_used' \in 0 .. MAX_CAPS
           /\ max_counter_used' \in 0 .. MAX_LOOPS /\ choice_live_depth' \in Nat
           /\ len' = len /\ compact' = compact
<1>1. choices # <<>>
  BY DEF RestoreTop
<1>2. /\ Len(choices) \in DOMAIN choices /\ Top \in ChoiceRecords
      /\ Top.pos \in Pos /\ Top.trail_base \in Nat
  BY <1>1, TopRecord
<1>3. IsRegFile(reg')
  <2>1. CASE compact
    BY <2>1, <1>2, RestoreTypes DEF RestoreTop
  <2>2. CASE ~compact
    BY <2>2, <1>2, RestoreTypes DEF RestoreTop, Top
  <2> QED BY <2>1, <2>2
<1>4. /\ ip' \in Ips /\ var_count' \in 0 .. MAX_VARS /\ max_cap_used' \in 0 .. MAX_CAPS
      /\ max_counter_used' \in 0 .. MAX_LOOPS
  BY <1>2 DEF RestoreTop, ChoiceRecords
<1>5. choice_live_depth' \in Nat
  BY DEF RestoreTop, StoreTypeOK
<1> QED BY <1>1, <1>2, <1>3, <1>4, <1>5 DEF RestoreTop

(***************************************************************************)
(* The type invariant and the order of the trail bases.                    *)
(***************************************************************************)
\* A step that keeps the stack and does not shorten the trail.
LEMMA BasesKept ==
    ASSUME StoreTypeOK, BasesOrdered, choices' = choices,
           Len(trail') \in Nat, Len(trail) <= Len(trail')
    PROVE  BasesOrdered'
<1>1. ASSUME NEW k \in DOMAIN choices PROVE choices[k].trail_base <= Len(trail')
  <2>1. choices[k] \in ChoiceRecords /\ Len(trail) \in Nat
    BY DEF StoreTypeOK, IsStack, IsTrail
  <2>2. choices[k].trail_base \in Nat
    BY <2>1 DEF ChoiceRecords
  <2>3. choices[k].trail_base <= Len(trail)
    BY DEF BasesOrdered
  <2> QED BY <2>1, <2>2, <2>3
<1> QED BY <1>1 DEF BasesOrdered

\* Basic facts about a well-typed store.
LEMMA StoreFacts ==
    ASSUME StoreTypeOK
    PROVE  /\ len \in Nat /\ pos \in Nat /\ pos \in Pos /\ Pos = 0 .. len
           /\ Len(trail) \in Nat /\ IsRegFile(reg) /\ IsTrail(trail) /\ IsStack(choices)
           /\ \A c \in Caps : cap_start(c) \in Pos /\ cap_end(c) \in Pos
           /\ \A l \in Loops : counters(l) \in Count /\ loop_last_pos(l) \in Pos
<1>1. len \in Nat
  BY SizesAssumption DEF StoreTypeOK
<1>2. \A c \in Caps : cap_start(c) \in Pos /\ cap_end(c) \in Pos
  BY RegisterKinds DEF StoreTypeOK, IsRegFile, cap_start, cap_end
<1>3. \A l \in Loops : counters(l) \in Count /\ loop_last_pos(l) \in Pos
  BY RegisterKinds DEF StoreTypeOK, IsRegFile, counters, loop_last_pos
<1> QED BY <1>1, <1>2, <1>3 DEF StoreTypeOK, IsTrail, Pos

\* The counter arithmetic stays in the counter's width.
LEMMA CountType ==
    ASSUME StoreTypeOK, NEW l \in Loops, NEW k \in Nat
    PROVE  CountPlus(l, k) \in Count
<1>1. counters(l) \in 0 .. COUNT_MAX
  BY StoreFacts DEF Count
<1>2. COUNT_MAX \in Nat
  BY SizesAssumption
<1>3. counters(l) + k \in Nat /\ COUNT_MAX + 1 \in Nat \ {0}
  BY <1>1, <1>2
<1>4. \A x \in Nat, y \in Nat \ {0} : x % y \in 0 .. y - 1
  OBVIOUS
<1>5. (counters(l) + k) % (COUNT_MAX + 1) \in 0 .. (COUNT_MAX + 1) - 1
  BY <1>3, <1>4
<1> QED BY <1>2, <1>5 DEF CountPlus, Count

\* A loop register pair overwritten in range leaves a register file.
LEMMA WithLoopType ==
    ASSUME StoreTypeOK, NEW l \in Loops, NEW n \in Count, NEW p \in Pos
    PROVE  IsRegFile(WithLoop(l, n, p))
<1> DEFINE f == [reg EXCEPT ![<<"counters", l>>] = n]
<1>1. IsRegFile(f)
  BY StoreFacts, RegisterKinds, WriteRegister
<1>2. IsRegFile([f EXCEPT ![<<"loop_last_pos", l>>] = p])
  <2> HIDE DEF f
  <2> QED BY <1>1, StoreFacts, RegisterKinds, WriteRegister
<1> QED BY <1>2 DEF WithLoop

\* The writes of captures and variables.
LEMMA WriteVarType ==
    ASSUME StoreTypeOK,
           \/ \E c \in Caps : WriteCapStart(c) \/ WriteCapEnd(c)
           \/ \E v \in Vars, c \in Caps : WriteAssign(v, c)
    PROVE  /\ IsRegFile(reg') /\ IsTrail(trail') /\ Len(trail) <= Len(trail')
           /\ var_count' \in 0 .. MAX_VARS /\ max_cap_used' \in 0 .. MAX_CAPS
           /\ max_counter_used' \in 0 .. MAX_LOOPS
<1>0. /\ len \in Nat /\ pos \in Pos /\ Len(trail) \in Nat /\ IsRegFile(reg) /\ IsTrail(trail)
      /\ var_count \in 0 .. MAX_VARS /\ max_cap_used \in 0 .. MAX_CAPS
      /\ max_counter_used \in 0 .. MAX_LOOPS
  BY StoreFacts DEF StoreTypeOK
<1>1. \A c \in Caps : Larger(max_cap_used, c + 1) \in 0 .. MAX_CAPS
  BY <1>0, SizesAssumption DEF Caps, Larger
<1>2. \A v \in Vars : Larger(var_count, v + 1) \in 0 .. MAX_VARS
  BY <1>0, SizesAssumption DEF Vars, Larger
<1>3. ASSUME NEW c \in Caps, WriteCapStart(c)
      PROVE  /\ IsRegFile(reg') /\ IsTrail(trail') /\ Len(trail) <= Len(trail')
             /\ var_count' = var_count /\ max_cap_used' \in 0 .. MAX_CAPS
             /\ max_counter_used' = max_counter_used
  <2>1. IsRegFile(reg')
    BY <1>0, <1>3, RegisterKinds, WriteRegister DEF WriteCapStart
  <2> QED BY <2>1, <1>0, <1>1, <1>3, TrailPushType DEF WriteCapStart
<1>4. ASSUME NEW c \in Caps, WriteCapEnd(c)
      PROVE  /\ IsRegFile(reg') /\ IsTrail(trail') /\ Len(trail) <= Len(trail')
             /\ var_count' \in 0 .. MAX_VARS /\ max_cap_used' \in 0 .. MAX_CAPS
             /\ max_counter_used' = max_counter_used
  <2> DEFINE f == [reg EXCEPT ![<<"cap_end", c>>] = pos]
             tr == TrailPush(trail, {<<"cap_end", c>>})
  <2>1. IsRegFile(f)
    BY <1>0, RegisterKinds, WriteRegister
  <2>2. IsTrail(tr) /\ Len(trail) <= Len(tr) /\ Len(tr) \in Nat
    BY <1>0, TrailPushType
  <2>3. CASE c \in Vars
    <3> DEFINE g == [f EXCEPT ![<<"var_start", c>>] = cap_start(c)]
    <3>1. IsRegFile(g)
      <4> HIDE DEF f
      <4> QED BY <2>1, <2>3, <1>0, StoreFacts, RegisterKinds, WriteRegister
    <3>2. IsRegFile([g EXCEPT ![<<"var_end", c>>] = pos])
      <4> HIDE DEF g
      <4> QED BY <3>1, <2>3, <1>0, RegisterKinds, WriteRegister
    <3>3. reg' = [g EXCEPT ![<<"var_end", c>>] = pos] /\ trail' = TrailPush(tr, VarPair(c))
      BY <2>3, <1>4 DEF WriteCapEnd
    <3>4. IsTrail(trail') /\ Len(tr) <= Len(trail') /\ Len(trail') \in Nat
      <4> HIDE DEF tr
      <4> QED BY <3>3, <2>2, TrailPushType
    <3>5. var_count' \in 0 .. MAX_VARS
      BY <2>3, <1>2, <1>4 DEF WriteCapEnd
    <3>6. Len(trail) <= Len(trail')
      <4> HIDE DEF tr
      <4> QED BY <1>0, <2>2, <3>4
    <3> QED BY <3>2, <3>3, <3>4, <3>5, <3>6, <1>1, <1>4 DEF WriteCapEnd
  <2>4. CASE c \notin Vars
    BY <2>1, <2>2, <2>4, <1>0, <1>1, <1>4 DEF WriteCapEnd
  <2> QED BY <2>3, <2>4
<1>5. ASSUME NEW v \in Vars, NEW c \in Caps, WriteAssign(v, c)
      PROVE  /\ IsRegFile(reg') /\ IsTrail(trail') /\ Len(trail) <= Len(trail')
             /\ var_count' \in 0 .. MAX_VARS /\ max_cap_used' = max_cap_used
             /\ max_counter_used' = max_counter_used
  <2> DEFINE f == [reg EXCEPT ![<<"var_start", v>>] = cap_start(c)]
  <2>1. IsRegFile(f)
    BY <1>0, StoreFacts, RegisterKinds, WriteRegister
  <2>2. IsRegFile([f EXCEPT ![<<"var_end", v>>] = cap_end(c)])
    <3> HIDE DEF f
    <3> QED BY <2>1, <1>0, StoreFacts, RegisterKinds, WriteRegister
  <2>3. reg' = [f EXCEPT ![<<"var_end", v>>] = cap_end(c)]
    BY <1>5 DEF WriteAssign
  <2> QED BY <2>2, <2>3, <1>0, <1>2, <1>5, TrailPushType DEF WriteAssign
<1> QED BY <1>0, <1>3, <1>4, <1>5

\* What the invariance proofs below show of one step.
TypeAndOrder == StoreTypeOK /\ BasesOrdered

\* OP_REPEAT_INIT keeps types and the order of the bases.
LEMMA EnterLoopType ==
    ASSUME StoreTypeOK, BasesOrdered, EnterLoop
    PROVE  TypeAndOrder'
<1>1. PICK l \in Loops, skippable \in BOOLEAN, skip \in Ips : WriteRepeatInit(l, skippable, skip)
  BY DEF EnterLoop
<1>2. ip' \in Ips /\ pos' \in Pos /\ len' = len /\ compact' = compact
  BY DEF EnterLoop, Moves
<1>3. /\ pos \in Pos /\ Len(trail) \in Nat /\ IsTrail(trail) /\ IsStack(choices)
      /\ var_count \in 0 .. MAX_VARS /\ max_cap_used \in 0 .. MAX_CAPS
      /\ max_counter_used \in 0 .. MAX_LOOPS /\ choice_live_depth \in Nat
  BY StoreFacts DEF StoreTypeOK
<1>4. IsRegFile(reg')
  <2>1. 0 \in Count
    BY SizesAssumption DEF Count
  <2> QED BY <1>1, <1>3, <2>1, WithLoopType DEF WriteRepeatInit
<1>5. max_counter_used' \in 0 .. MAX_LOOPS
  BY <1>1, <1>3, SizesAssumption DEF WriteRepeatInit, Larger, Loops
<1>6. UNCHANGED <<var_count, max_cap_used, trail>>
  BY <1>1 DEF WriteRepeatInit
<1>7. IsStack(choices') /\ BasesOrdered' /\ choice_live_depth' \in Nat
  <2>1. CASE skippable
    <3>1. PushChoice(skip, pos, reg', max_counter_used', trail)
      BY <1>1, <2>1 DEF WriteRepeatInit
    <3>2. Len(trail) <= Len(trail)
      BY <1>3
    <3> QED BY <3>1, <3>2, <1>3, <1>4, <1>5, <1>6, PushStep
  <2>2. CASE ~skippable
    <3>1. choices' = choices /\ choice_live_depth' = choice_live_depth
      BY <1>1, <2>2 DEF WriteRepeatInit, choiceVars
    <3> QED BY <3>1, <1>3, <1>6, BasesKept
  <2> QED BY <2>1, <2>2
<1>8. StoreTypeOK'
  BY <1>2, <1>3, <1>4, <1>5, <1>6, <1>7, TypeByParts
<1> QED BY <1>7, <1>8 DEF TypeAndOrder

\* OP_REPEAT_STEP, in its four forms, keeps types and the order of the bases.
LEMMA StepLoopType ==
    ASSUME StoreTypeOK, BasesOrdered, StepLoop
    PROVE  TypeAndOrder'
<1>2. ip' \in Ips /\ pos' \in Pos /\ len' = len /\ compact' = compact
  BY DEF StepLoop, Moves
<1>3. /\ len \in Nat /\ pos \in Pos /\ pos \in Nat /\ Pos = 0 .. len /\ Len(trail) \in Nat
      /\ IsTrail(trail) /\ IsStack(choices)
      /\ var_count \in 0 .. MAX_VARS /\ max_cap_used \in 0 .. MAX_CAPS
      /\ max_counter_used \in 0 .. MAX_LOOPS /\ choice_live_depth \in Nat
  BY StoreFacts DEF StoreTypeOK
<1>4. PICK l \in Loops :
          \/ CountIteration(l)
          \/ MandatoryIteration(l)
          \/ \E exit \in Ips : OptionalIteration(l, exit)
          \/ \E q \in pos .. len, scanned \in BOOLEAN, again \in Ips :
                GreedyIteration(l, q, scanned, again)
  BY DEF StepLoop
<1> DEFINE tr == TrailPush(trail, LoopPair(l))
           Done == /\ IsRegFile(reg') /\ IsTrail(trail') /\ IsStack(choices')
                   /\ BasesOrdered' /\ choice_live_depth' \in Nat
                   /\ UNCHANGED <<var_count, max_cap_used, max_counter_used>>
<1>5. IsTrail(tr) /\ Len(trail) <= Len(tr) /\ Len(tr) \in Nat
  BY <1>3, TrailPushType
<1>6. CountPlus(l, 1) \in Count /\ counters(l) \in Count /\ loop_last_pos(l) \in Pos
  BY CountType, StoreFacts
<1> HIDE DEF tr
<1>7. ASSUME CountIteration(l) \/ MandatoryIteration(l) PROVE Done
  <2>1. trail' = tr /\ UNCHANGED <<var_count, max_cap_used, max_counter_used>>
    BY <1>7 DEF CountIteration, MandatoryIteration, tr
  <2>2. choices' = choices /\ choice_live_depth' = choice_live_depth
    BY <1>7 DEF CountIteration, MandatoryIteration, choiceVars
  <2>3. IsRegFile(reg')
    BY <1>3, <1>6, <1>7, WithLoopType DEF CountIteration, MandatoryIteration
  <2> QED BY <2>1, <2>2, <2>3, <1>3, <1>5, BasesKept
<1>8. ASSUME NEW exit \in Ips, OptionalIteration(l, exit) PROVE Done
  <2> DEFINE counted == WithLoop(l, CountPlus(l, 1), loop_last_pos(l))
  <2>1. IsRegFile(counted)
    BY <1>6, WithLoopType
  <2>2. /\ trail' = tr /\ PushChoice(exit, pos, counted, max_counter_used, tr)
        /\ reg' = WithLoop(l, CountPlus(l, 1), pos)
        /\ UNCHANGED <<var_count, max_cap_used, max_counter_used>>
    BY <1>8 DEF OptionalIteration, tr
  <2> HIDE DEF counted
  <2>3. IsRegFile(reg')
    BY <2>2, <1>3, <1>6, WithLoopType
  <2> QED BY <2>1, <2>2, <2>3, <1>3, <1>5, PushStep
<1>9. ASSUME NEW q \in pos .. len, NEW scanned \in BOOLEAN, NEW again \in Ips,
             GreedyIteration(l, q, scanned, again)
      PROVE  Done
  <2> DEFINE tr2     == IF scanned THEN tr ELSE trail
             n       == IF scanned THEN CountPlus(l, 1 + (q - pos)) ELSE counters(l)
             counted == WithLoop(l, n, loop_last_pos(l))
  <2>0. q \in Pos /\ 1 + (q - pos) \in Nat
    BY <1>3
  <2>1. n \in Count
    BY <2>0, <1>6, CountType
  <2>2. IsTrail(tr2) /\ Len(trail) <= Len(tr2) /\ Len(tr2) \in Nat
    BY <1>3, <1>5
  <2>3. /\ trail' = tr2 /\ reg' = WithLoop(l, n, q)
        /\ IF q > loop_last_pos(l)
             THEN PushChoice(again, q - 1, counted, max_counter_used, tr2)
             ELSE UNCHANGED choiceVars
        /\ UNCHANGED <<var_count, max_cap_used, max_counter_used>>
    BY <1>9 DEF GreedyIteration, tr
  <2> HIDE DEF tr2, n
  <2>4. IsRegFile(counted) /\ IsRegFile(reg')
    BY <2>0, <2>1, <2>3, <1>6, WithLoopType
  <2> HIDE DEF counted
  <2>5. CASE q > loop_last_pos(l)
    <3>1. q - 1 \in Pos
      BY <2>0, <2>5, <1>3, <1>6
    <3> QED BY <3>1, <2>2, <2>3, <2>4, <2>5, <1>3, PushStep
  <2>6. CASE ~(q > loop_last_pos(l))
    <3>1. choices' = choices /\ choice_live_depth' = choice_live_depth
      BY <2>3, <2>6 DEF choiceVars
    <3> QED BY <3>1, <2>2, <2>3, <2>4, <1>3, BasesKept
  <2> QED BY <2>5, <2>6
<1>10. Done
  BY <1>4, <1>7, <1>8, <1>9
<1>11. StoreTypeOK'
  BY <1>2, <1>3, <1>10, TypeByParts
<1> QED BY <1>10, <1>11 DEF TypeAndOrder

\* Every step of the store preserves both.
LEMMA TypeStep ==
    ASSUME StoreTypeOK, BasesOrdered, [StoreNext]_storeVars
    PROVE  TypeAndOrder'
<1>0. /\ len \in Nat /\ pos \in Pos /\ ip \in Ips /\ Len(trail) \in Nat
      /\ IsRegFile(reg) /\ IsTrail(trail) /\ IsStack(choices)
      /\ var_count \in 0 .. MAX_VARS /\ max_cap_used \in 0 .. MAX_CAPS
      /\ max_counter_used \in 0 .. MAX_LOOPS /\ choice_live_depth \in Nat
  BY StoreFacts DEF StoreTypeOK
<1>e. IsTrail(<<>>) /\ IsStack(<<>>) /\ Len(<<>>) = 0
  BY DEF IsTrail, IsStack
<1>m. ASSUME Moves PROVE ip' \in Ips /\ pos' \in Pos /\ len' = len /\ compact' = compact
  BY <1>m DEF Moves
<1>1. CASE Move
  <2>1. /\ choices' = choices /\ choice_live_depth' = choice_live_depth /\ trail' = trail
        /\ reg' = reg /\ UNCHANGED <<var_count, max_cap_used, max_counter_used>>
    BY <1>1 DEF Move, regVars, choiceVars
  <2> QED BY <2>1, <1>0, <1>1, <1>m, BasesKept, TypeByParts DEF Move, TypeAndOrder
<1>2. CASE Push
  <2>1. PICK i \in Ips, p \in Pos : PushChoice(i, p, reg, max_counter_used, trail)
    BY <1>2 DEF Push
  <2>2. trail' = trail /\ reg' = reg /\ UNCHANGED <<var_count, max_cap_used, max_counter_used>>
    BY <1>2 DEF Push, regVars
  <2>3. IsStack(choices') /\ BasesOrdered' /\ choice_live_depth' \in Nat
    BY <2>1, <2>2, <1>0, PushStep
  <2> QED BY <2>2, <2>3, <1>0, <1>2, <1>m, TypeByParts DEF Push, TypeAndOrder
<1>3. CASE PopChoice
  <2>1. /\ choices # <<>> /\ ip' \in Ips /\ pos' \in Pos /\ IsRegFile(reg')
        /\ var_count' \in 0 .. MAX_VARS /\ max_cap_used' \in 0 .. MAX_CAPS
        /\ max_counter_used' \in 0 .. MAX_LOOPS /\ choice_live_depth' \in Nat
        /\ len' = len /\ compact' = compact
    BY <1>3, RestoreTopType DEF PopChoice
  <2>2. /\ IsStack(choices')
        /\ \A k \in DOMAIN choices' : k \in DOMAIN choices /\ choices'[k] = choices[k]
    BY <1>3, <2>1, PoppedStack DEF PopChoice
  <2>3. /\ Top.trail_base \in Nat /\ Top.trail_base <= Len(trail)
        /\ \A k \in DOMAIN choices : choices[k].trail_base <= Top.trail_base
    BY <2>1, TopRecord
  <2>4. /\ IsTrail(trail')
        /\ \A k \in DOMAIN choices : choices[k].trail_base <= Len(trail')
    <3>1. CASE compact
      <4>1. trail' = SubSeq(trail, 1, Top.trail_base)
        BY <3>1, <1>3 DEF PopChoice
      <4> QED BY <4>1, <2>3, <1>0, TrailCutType
    <3>2. CASE ~compact
      BY <3>2, <1>0, <1>3 DEF PopChoice, BasesOrdered
    <3> QED BY <3>1, <3>2
  <2>5. BasesOrdered'
    BY <2>2, <2>4 DEF BasesOrdered
  <2> QED BY <2>1, <2>2, <2>4, <2>5, TypeByParts DEF TypeAndOrder
<1>4. CASE PopAndRelease
  <2>1. /\ ip' \in Ips /\ pos' \in Pos /\ IsRegFile(reg')
        /\ var_count' \in 0 .. MAX_VARS /\ max_cap_used' \in 0 .. MAX_CAPS
        /\ max_counter_used' \in 0 .. MAX_LOOPS /\ choice_live_depth' \in Nat
        /\ len' = len /\ compact' = compact
    BY <1>4, RestoreTopType DEF PopAndRelease
  <2>2. choices' = <<>> /\ trail' = <<>>
    BY <1>4 DEF PopAndRelease
  <2>3. BasesOrdered'
    BY <2>2 DEF BasesOrdered
  <2> QED BY <2>1, <2>2, <2>3, <1>e, TypeByParts DEF TypeAndOrder
<1>5. CASE WriteVar
  <2>1. /\ IsRegFile(reg') /\ IsTrail(trail') /\ Len(trail) <= Len(trail')
        /\ var_count' \in 0 .. MAX_VARS /\ max_cap_used' \in 0 .. MAX_CAPS
        /\ max_counter_used' \in 0 .. MAX_LOOPS
    BY <1>5, WriteVarType DEF WriteVar
  <2>2. choices' = choices /\ choice_live_depth' = choice_live_depth
    BY <1>5 DEF WriteVar, choiceVars
  <2>3. Len(trail') \in Nat
    BY <2>1 DEF IsTrail
  <2> QED BY <2>1, <2>2, <2>3, <1>0, <1>5, <1>m, BasesKept, TypeByParts
      DEF WriteVar, TypeAndOrder
<1>6. CASE EnterLoop
  BY <1>6, EnterLoopType
<1>7. CASE StepLoop
  BY <1>7, StepLoopType
<1>8. CASE Cut
  <2>1. /\ choices' = <<>> /\ choice_live_depth' = choice_live_depth /\ trail' = trail
        /\ reg' = reg /\ UNCHANGED <<var_count, max_cap_used, max_counter_used>>
    BY <1>8 DEF Cut, CutChoices, regVars
  <2>2. BasesOrdered'
    BY <2>1 DEF BasesOrdered
  <2> QED BY <2>1, <2>2, <1>0, <1>e, <1>8, <1>m, TypeByParts DEF Cut, TypeAndOrder
<1>9. CASE Release
  <2>1. BasesOrdered'
    BY <1>9 DEF Release, BasesOrdered
  <2> QED BY <2>1, <1>0, <1>e, <1>9, TypeByParts DEF Release, TypeAndOrder
<1>10. ASSUME NEW n \in Lens, Restart(n) PROVE TypeAndOrder'
  <2>1. BasesOrdered'
    BY <1>10 DEF Restart, BasesOrdered
  <2>2. n \in Nat /\ len' = n /\ len' \in Lens /\ compact' \in BOOLEAN
    BY <1>10, SizesAssumption DEF Restart, StoreTypeOK
  <2>3. IsRegFile(reg)'
    BY <2>2, <1>10, SizesAssumption DEF Restart, ZeroReg, IsRegFile, RegVals, Pos, Count
  <2>4. IsTrail(trail)' /\ IsStack(choices)'
    BY <1>10 DEF Restart, IsTrail, IsStack
  <2>5. /\ var_count' \in 0 .. MAX_VARS /\ max_cap_used' \in 0 .. MAX_CAPS
        /\ max_counter_used' \in 0 .. MAX_LOOPS /\ choice_live_depth' \in Nat
        /\ ip' \in Ips /\ pos' \in Pos'
    BY <2>2, <1>0, <1>10, SizesAssumption DEF Restart, Pos
  <2> QED BY <2>1, <2>2, <2>3, <2>4, <2>5 DEF StoreTypeOK, TypeAndOrder
<1>11. CASE UNCHANGED storeVars
  <2>1. /\ choices' = choices /\ choice_live_depth' = choice_live_depth /\ trail' = trail
        /\ reg' = reg /\ UNCHANGED <<var_count, max_cap_used, max_counter_used>>
        /\ len' = len /\ compact' = compact /\ ip' = ip /\ pos' = pos
    BY <1>11 DEF storeVars, regVars, choiceVars
  <2> QED BY <2>1, <1>0, BasesKept, TypeByParts DEF TypeAndOrder
<1> QED BY <1>1, <1>2, <1>3, <1>4, <1>5, <1>6, <1>7, <1>8, <1>9, <1>10, <1>11 DEF StoreNext

\* A fresh VM has the types and an empty, ordered stack.
LEMMA TypeInit == StoreInit => TypeAndOrder
<1> SUFFICES ASSUME StoreInit PROVE TypeAndOrder
  OBVIOUS
<1>1. len \in Nat
  BY SizesAssumption DEF StoreInit
<1>2. IsRegFile(reg)
  BY <1>1, SizesAssumption DEF StoreInit, ZeroReg, IsRegFile, RegVals, Pos, Count
<1>3. IsTrail(trail) /\ IsStack(choices) /\ BasesOrdered
  BY DEF StoreInit, IsTrail, IsStack, BasesOrdered
<1> QED BY <1>1, <1>2, <1>3, SizesAssumption DEF StoreInit, StoreTypeOK, TypeAndOrder

\* No register, saved position or undo record ever points outside the subject.
THEOREM StoreTypeCorrect == StoreSpec => []StoreTypeOK
<1>1. TypeAndOrder /\ [StoreNext]_storeVars => TypeAndOrder'
  BY TypeStep DEF TypeAndOrder
<1>2. TypeAndOrder => StoreTypeOK
  BY DEF TypeAndOrder
<1> QED BY TypeInit, <1>1, <1>2, PTL DEF StoreSpec

\* A pop never leaves an older choice with a base beyond the trail's end.
THEOREM BasesStayOrdered == StoreSpec => []BasesOrdered
<1>1. TypeAndOrder /\ [StoreNext]_storeVars => TypeAndOrder'
  BY TypeStep DEF TypeAndOrder
<1>2. TypeAndOrder => BasesOrdered
  BY DEF TypeAndOrder
<1> QED BY TypeInit, <1>1, <1>2, PTL DEF StoreSpec

(***************************************************************************)
(* Restoration.  The invariant is restated without CHOOSE: of the records  *)
(* of register r above base, the first holds v; or there is none and the   *)
(* register itself holds v.                                                *)
(***************************************************************************)
Kept == CapRegs \cup VarRegs

FirstSaved(tr, base, r, v) ==
    \E i \in base + 1 .. Len(tr) :
        /\ tr[i][r] = v /\ v # Unsaved
        /\ \A j \in base + 1 .. i - 1 : tr[j][r] = Unsaved
NeverSaved(tr, base, r) == \A j \in base + 1 .. Len(tr) : tr[j][r] = Unsaved

Restores(tr, rg, base, r, v) ==
    FirstSaved(tr, base, r, v) \/ (NeverSaved(tr, base, r) /\ rg[r] = v)

AllRestore ==
    compact => \A k \in DOMAIN choices : \A r \in Kept :
        Restores(trail, reg, choices[k].trail_base, r, choices[k].snap[r])

\* The registers the trail restores are registers, and no loop register.
LEMMA KeptRegs == Kept \subseteq Regs /\ \A l \in Loops : LoopPair(l) \cap Kept = {}
BY DEF Kept, Regs, CapRegs, VarRegs, LoopRegs, LoopPair

\* Restores determines what a replay yields ...
LEMMA ReplayGives ==
    ASSUME StoreTypeOK, NEW base \in Nat, NEW r \in Regs, NEW v, Restores(trail, reg, base, r, v)
    PROVE  Replay(base)[r] = v
<1>0. Len(trail) \in Nat
  BY StoreFacts
<1>1. CASE FirstSaved(trail, base, r, v)
  <2>1. PICK i \in base + 1 .. Len(trail) :
           /\ trail[i][r] = v /\ v # Unsaved
           /\ \A j \in base + 1 .. i - 1 : trail[j][r] = Unsaved
    BY <1>1 DEF FirstSaved
  <2>2. i \in Touches(base, r) /\ \A j \in Touches(base, r) : i <= j
    BY <1>0, <2>1 DEF Touches
  <2>3. Touches(base, r) \subseteq Nat
    BY <1>0 DEF Touches
  <2> DEFINE m == CHOOSE x \in Touches(base, r) : \A y \in Touches(base, r) : x <= y
  <2>4. m \in Touches(base, r) /\ \A y \in Touches(base, r) : m <= y
    BY <2>2
  <2>5. m = i
    <3> HIDE DEF m
    <3>1. m \in Nat /\ i \in Nat /\ m <= i /\ i <= m
      BY <2>2, <2>3, <2>4
    <3> QED BY <3>1
  <2>6. Replay(base)[r] = trail[m][r]
    BY <2>2 DEF Replay
  <2> QED BY <2>1, <2>5, <2>6
<1>2. CASE NeverSaved(trail, base, r) /\ reg[r] = v
  <2>1. Touches(base, r) = {}
    BY <1>2 DEF Touches, NeverSaved
  <2> QED BY <2>1, <1>2 DEF Replay
<1> QED BY <1>1, <1>2 DEF Restores

\* The invariant with the choices' snapshots spelled out.
LEMMA AllRestoreMeans ==
    ASSUME StoreTypeOK, AllRestore
    PROVE  Restoration
<1> SUFFICES ASSUME compact, NEW k \in DOMAIN choices, NEW r \in Kept
             PROVE  Replay(choices[k].trail_base)[r] = choices[k].snap[r]
  BY DEF Restoration, Kept
<1>1. choices[k] \in ChoiceRecords
  BY DEF StoreTypeOK, IsStack
<1>2. choices[k].trail_base \in Nat
  BY <1>1 DEF ChoiceRecords
<1> QED BY <1>2, ReplayGives, KeptRegs DEF AllRestore

\* A write that saves what it overwrites keeps every older promise.
LEMMA SavedWrite ==
    ASSUME NEW tr \in Seq([Regs -> Int]), NEW u \in [Regs -> Int], NEW rg, NEW rg2,
           NEW base \in Nat, base <= Len(tr), NEW r \in Regs, NEW v,
           Restores(tr, rg, base, r, v),
           \/ u[r] = rg[r] /\ u[r] # Unsaved
           \/ u[r] = Unsaved /\ rg2[r] = rg[r]
    PROVE  Restores(Append(tr, u), rg2, base, r, v)
<1> DEFINE new == Append(tr, u)
<1>1. /\ Len(tr) \in Nat /\ Len(new) = Len(tr) + 1 /\ new[Len(tr) + 1] = u
      /\ \A i \in 1 .. Len(tr) : new[i] = tr[i]
  OBVIOUS
<1> HIDE DEF new
<1>2. CASE FirstSaved(tr, base, r, v)
  <2>1. PICK i \in base + 1 .. Len(tr) :
           /\ tr[i][r] = v /\ v # Unsaved
           /\ \A j \in base + 1 .. i - 1 : tr[j][r] = Unsaved
    BY <1>2 DEF FirstSaved
  <2>2. i \in base + 1 .. Len(new) /\ new[i][r] = v
    BY <1>1, <2>1
  <2>3. ASSUME NEW j \in base + 1 .. i - 1 PROVE new[j][r] = Unsaved
    <3>1. j \in 1 .. Len(tr)
      BY <1>1, <2>1
    <3> QED BY <3>1, <1>1, <2>1
  <2> QED BY <2>1, <2>2, <2>3 DEF Restores, FirstSaved, new
<1>3. CASE NeverSaved(tr, base, r) /\ rg[r] = v
  <2>1. \A j \in base + 1 .. Len(tr) : new[j][r] = Unsaved
    BY <1>1, <1>3 DEF NeverSaved
  <2>2. CASE u[r] = rg[r] /\ u[r] # Unsaved
    <3>1. Len(tr) + 1 \in base + 1 .. Len(new) /\ new[Len(tr) + 1][r] = v /\ v # Unsaved
      BY <1>1, <1>3, <2>2
    <3>2. \A j \in base + 1 .. (Len(tr) + 1) - 1 : new[j][r] = Unsaved
      BY <1>1, <2>1
    <3> QED BY <3>1, <3>2 DEF Restores, FirstSaved, new
  <2>3. CASE u[r] = Unsaved /\ rg2[r] = rg[r]
    <3>1. \A j \in base + 1 .. Len(new) : new[j][r] = Unsaved
      BY <1>1, <2>1, <2>3
    <3> QED BY <3>1, <1>3, <2>3 DEF Restores, NeverSaved, new
  <2> QED BY <2>2, <2>3
<1> QED BY <1>2, <1>3 DEF Restores

\* The same for vm_trail_push of the registers rs in compact mode.
LEMMA TrailedWrite ==
    ASSUME StoreTypeOK, compact, NEW tr, IsTrail(tr), NEW rs, NEW rg, NEW rg2,
           NEW base \in Nat, base <= Len(tr), NEW r \in Regs, NEW v,
           Restores(tr, rg, base, r, v),
           r \in rs => rg[r] = reg[r],
           r \notin rs => rg2[r] = rg[r]
    PROVE  Restores(TrailPush(tr, rs), rg2, base, r, v)
<1> DEFINE u == UndoRecord(rs)
<1>1. u \in [Regs -> Int] /\ u[r] = IF r \in rs THEN reg[r] ELSE Unsaved
  BY DEF UndoRecord, StoreTypeOK, IsRegFile, Unsaved
<1>2. reg[r] \in Nat
  BY DEF StoreTypeOK, IsRegFile
<1>3. reg[r] # Unsaved
  BY <1>2 DEF Unsaved
<1>4. tr \in Seq([Regs -> Int]) /\ TrailPush(tr, rs) = Append(tr, u)
  BY DEF IsTrail, TrailPush
<1> HIDE DEF u
<1>5. \/ u[r] = rg[r] /\ u[r] # Unsaved
      \/ u[r] = Unsaved /\ rg2[r] = rg[r]
  BY <1>1, <1>3
<1>6. Restores(Append(tr, u), rg2, base, r, v)
  BY <1>1, <1>4, <1>5, SavedWrite
<1> QED BY <1>4, <1>6

\* The promises of the records on the stack, after a step that may have
\* written registers and extended the trail.
OldKept ==
    compact => \A k \in DOMAIN choices : \A r \in Kept :
        Restores(trail', reg', choices[k].trail_base, r, choices[k].snap[r])

\* The base of a live choice is an index of the trail.
LEMMA BaseFacts ==
    ASSUME StoreTypeOK, BasesOrdered, NEW k \in DOMAIN choices
    PROVE  choices[k].trail_base \in Nat /\ choices[k].trail_base <= Len(trail)
<1>1. choices[k] \in ChoiceRecords
  BY DEF StoreTypeOK, IsStack
<1> QED BY <1>1 DEF ChoiceRecords, BasesOrdered

\* A write that touches no kept register needs no undo record.
LEMMA OldKeptUntrailed ==
    ASSUME AllRestore, trail' = trail, \A r \in Kept : reg'[r] = reg[r]
    PROVE  OldKept
BY DEF AllRestore, OldKept, Restores

\* A write behind its undo record keeps every older choice restorable.
LEMMA OldKeptTrailed ==
    ASSUME StoreTypeOK, BasesOrdered, AllRestore, NEW rs, trail' = TrailPush(trail, rs),
           \A r \in Kept \ rs : reg'[r] = reg[r]
    PROVE  OldKept
<1> SUFFICES ASSUME compact, NEW k \in DOMAIN choices, NEW r \in Kept
             PROVE  Restores(trail', reg', choices[k].trail_base, r, choices[k].snap[r])
  BY DEF OldKept
<1>1. choices[k].trail_base \in Nat /\ choices[k].trail_base <= Len(trail)
  BY BaseFacts
<1>2. r \in Regs /\ IsTrail(trail)
  BY KeptRegs, StoreFacts
<1>3. Restores(trail, reg, choices[k].trail_base, r, choices[k].snap[r])
  BY DEF AllRestore
<1> QED BY <1>1, <1>2, <1>3, TrailedWrite

\* Choices stay restorable when the stack does not change.
LEMMA SameStack ==
    ASSUME OldKept, choices' = choices, compact' = compact
    PROVE  AllRestore'
BY DEF OldKept, AllRestore, Restores, FirstSaved, NeverSaved, Kept, CapRegs, VarRegs, Caps, Vars

\* A record just pushed promises the registers of the moment.
LEMMA NewRecord ==
    ASSUME StoreTypeOK, OldKept, compact' = compact, IsTrail(trail'),
           NEW i, NEW p, NEW rg, NEW mcu, PushChoice(i, p, rg, mcu, trail'),
           \A r \in Kept : rg[r] = reg'[r]
    PROVE  AllRestore'
<1> DEFINE new == Choice(i, p, rg, mcu, trail')
<1>1. choices \in Seq(ChoiceRecords) /\ Len(choices) \in Nat /\ Len(trail') \in Nat
  BY DEF StoreTypeOK, IsStack, IsTrail
<1>2. choices' = Append(choices, new) /\ new.trail_base = Len(trail') /\ new.snap = rg
  BY DEF PushChoice, Choice
<1> HIDE DEF new
<1>3. /\ DOMAIN choices' = 1 .. Len(choices) + 1 /\ choices'[Len(choices) + 1] = new
      /\ \A k \in 1 .. Len(choices) : choices'[k] = choices[k] /\ k \in DOMAIN choices
  BY <1>1, <1>2
<1>4. ASSUME compact, NEW k \in DOMAIN choices', NEW r \in Kept
      PROVE  Restores(trail', reg', choices'[k].trail_base, r, choices'[k].snap[r])
  <2>1. CASE k \in 1 .. Len(choices)
    BY <2>1, <1>3, <1>4 DEF OldKept
  <2>2. CASE k = Len(choices) + 1
    <3>1. NeverSaved(trail', Len(trail'), r)
      BY <1>1 DEF NeverSaved
    <3> QED BY <2>2, <3>1, <1>2, <1>3 DEF Restores
  <2> QED BY <2>1, <2>2, <1>1, <1>3
<1> QED BY <1>4 DEF AllRestore, Restores, FirstSaved, NeverSaved, Kept, CapRegs, VarRegs, Caps, Vars

\* A pop: the replay gives the promise of the newest record, and the part of
\* the trail that stays keeps those of the others.
LEMMA PopKeeps ==
    ASSUME StoreTypeOK, BasesOrdered, AllRestore, PopChoice
    PROVE  AllRestore'
<1>1. choices # <<>> /\ compact' = compact
  BY DEF PopChoice, RestoreTop
<1>2. \A k \in DOMAIN choices' : k \in DOMAIN choices /\ choices'[k] = choices[k]
  BY <1>1, PoppedStack DEF PopChoice
<1> DEFINE top == Top.trail_base
<1>3. /\ top \in Nat /\ top <= Len(trail) /\ Len(choices) \in DOMAIN choices
      /\ \A k \in DOMAIN choices : choices[k].trail_base <= top
  BY <1>1, TopRecord
<1>4. trail \in Seq([Regs -> Int]) /\ Len(trail) \in Nat
  BY StoreFacts DEF IsTrail
<1>5. ASSUME compact, NEW k \in DOMAIN choices, NEW r \in Kept
      PROVE  Restores(trail', reg', choices[k].trail_base, r, choices[k].snap[r])
  <2> DEFINE base == choices[k].trail_base
             v    == choices[k].snap[r]
  <2>1. base \in Nat /\ base <= top /\ r \in Regs
    BY <1>3, <1>5, BaseFacts, KeptRegs
  <2>2. /\ Len(trail') = top /\ \A i \in 1 .. top : trail'[i] = trail[i]
        /\ reg' = Replay(top)
    <3>1. trail' = SubSeq(trail, 1, top) /\ reg' = Replay(top)
      BY <1>5 DEF PopChoice, RestoreTop
    <3> QED BY <3>1, <1>3, <1>4, Prefix
  <2>3. Restores(trail, reg, base, r, v)
    BY <1>5 DEF AllRestore
  <2> HIDE DEF base, v, top
  <2>4. CASE FirstSaved(trail, base, r, v)
    <3>1. PICK i \in base + 1 .. Len(trail) :
             /\ trail[i][r] = v /\ v # Unsaved
             /\ \A j \in base + 1 .. i - 1 : trail[j][r] = Unsaved
      BY <2>4 DEF FirstSaved
    <3>2. CASE i <= top
      <4>1. i \in base + 1 .. Len(trail') /\ trail'[i][r] = v
        BY <1>3, <1>4, <2>1, <2>2, <3>1, <3>2
      <4>2. ASSUME NEW j \in base + 1 .. i - 1 PROVE trail'[j][r] = Unsaved
        <5>1. j \in 1 .. top
          BY <1>3, <1>4, <2>1, <3>1, <3>2
        <5> QED BY <5>1, <2>2, <3>1
      <4> QED BY <4>1, <4>2, <3>1 DEF Restores, FirstSaved, base, v
    <3>3. CASE i > top
      <4>1. ASSUME NEW j \in base + 1 .. Len(trail') PROVE trail'[j][r] = Unsaved
        <5>1. j \in 1 .. top /\ j \in base + 1 .. i - 1
          BY <1>3, <1>4, <2>1, <2>2, <3>1, <3>3
        <5> QED BY <5>1, <2>2, <3>1
      <4>2. FirstSaved(trail, top, r, v)
        <5>1. i \in top + 1 .. Len(trail)
          BY <1>3, <1>4, <3>1, <3>3
        <5>2. ASSUME NEW j \in top + 1 .. i - 1 PROVE trail[j][r] = Unsaved
          <6>1. j \in base + 1 .. i - 1
            BY <1>3, <1>4, <2>1, <3>1
          <6> QED BY <6>1, <3>1
        <5> QED BY <5>1, <5>2, <3>1 DEF FirstSaved
      <4>3. reg'[r] = v
        BY <4>2, <1>3, <2>1, <2>2, ReplayGives DEF Restores
      <4> QED BY <4>1, <4>3 DEF Restores, NeverSaved, base, v
    <3> QED BY <3>2, <3>3, <3>1, <1>3, <1>4
  <2>5. CASE NeverSaved(trail, base, r) /\ reg[r] = v
    <3>1. ASSUME NEW j \in base + 1 .. Len(trail') PROVE trail'[j][r] = Unsaved
      <4>1. j \in 1 .. top /\ j \in base + 1 .. Len(trail)
        BY <1>3, <1>4, <2>1, <2>2
      <4> QED BY <4>1, <2>2, <2>5 DEF NeverSaved
    <3>2. NeverSaved(trail, top, r)
      <4>1. ASSUME NEW j \in top + 1 .. Len(trail) PROVE trail[j][r] = Unsaved
        <5>1. j \in base + 1 .. Len(trail)
          BY <1>3, <1>4, <2>1
        <5> QED BY <5>1, <2>5 DEF NeverSaved
      <4> QED BY <4>1 DEF NeverSaved
    <3>3. reg'[r] = v
      BY <3>2, <1>3, <2>1, <2>2, <2>5, ReplayGives DEF Restores
    <3> QED BY <3>1, <3>3 DEF Restores, NeverSaved, base, v
  <2> QED BY <2>3, <2>4, <2>5 DEF Restores, base, v
<1> QED BY <1>1, <1>2, <1>5
    DEF AllRestore, Restores, FirstSaved, NeverSaved, Kept, CapRegs, VarRegs, Caps, Vars

\* Loop writes touch no capture and no variable.
LEMMA WithLoopKeeps ==
    ASSUME StoreTypeOK, NEW l \in Loops, NEW n, NEW p, NEW r \in Kept
    PROVE  WithLoop(l, n, p)[r] = reg[r]
<1>1. r # <<"counters", l>> /\ r # <<"loop_last_pos", l>> /\ r \in Regs
  BY KeptRegs DEF LoopPair
<1>2. reg \in [Regs -> Nat]
  BY DEF StoreTypeOK, IsRegFile
<1> QED BY <1>1, <1>2 DEF WithLoop

\* Nothing has to be restored when there are no choices.
LEMMA EmptyStack ==
    ASSUME choices' = <<>>
    PROVE  AllRestore'
BY DEF AllRestore

\* The writes of captures and variables are all trailed.
LEMMA WriteVarKeeps ==
    ASSUME StoreTypeOK, BasesOrdered, AllRestore, WriteVar
    PROVE  AllRestore'
<1>0. choices' = choices /\ compact' = compact
  BY DEF WriteVar, Moves, choiceVars
<1>1. reg \in [Regs -> Nat] /\ IsTrail(trail)
  BY StoreFacts DEF IsRegFile
<1>2. ASSUME NEW c \in Caps, WriteCapStart(c) PROVE OldKept
  <2>1. \A r \in Kept \ {<<"cap_start", c>>} : reg'[r] = reg[r]
    BY <1>1, <1>2, KeptRegs DEF WriteCapStart
  <2> QED BY <2>1, <1>2, OldKeptTrailed DEF WriteCapStart
<1>3. ASSUME NEW v \in Vars, NEW c \in Caps, WriteAssign(v, c) PROVE OldKept
  <2>1. \A r \in Kept \ VarPair(v) : reg'[r] = reg[r]
    BY <1>1, <1>3, KeptRegs DEF WriteAssign, VarPair
  <2> QED BY <2>1, <1>3, OldKeptTrailed DEF WriteAssign
<1>4. ASSUME NEW c \in Caps, WriteCapEnd(c) PROVE OldKept
  <2>1. CASE c \notin Vars
    <3>1. \A r \in Kept \ {<<"cap_end", c>>} : reg'[r] = reg[r]
      BY <1>1, <1>4, <2>1, KeptRegs DEF WriteCapEnd
    <3> QED BY <3>1, <2>1, <1>4, OldKeptTrailed DEF WriteCapEnd
  <2>2. CASE c \in Vars
    <3> DEFINE mid == [reg EXCEPT ![<<"cap_end", c>>] = pos]
               tr  == TrailPush(trail, {<<"cap_end", c>>})
    <3>1. trail' = TrailPush(tr, VarPair(c))
      BY <1>4, <2>2 DEF WriteCapEnd
    <3>2. IsTrail(tr) /\ Len(trail) <= Len(tr) /\ Len(tr) \in Nat
      BY <1>1, TrailPushType
    <3>3. SUFFICES ASSUME compact, NEW k \in DOMAIN choices, NEW r \in Kept
                   PROVE  Restores(trail', reg', choices[k].trail_base, r, choices[k].snap[r])
      BY DEF OldKept
    <3>4. choices[k].trail_base \in Nat /\ choices[k].trail_base <= Len(trail) /\ Len(trail) \in Nat
      BY BaseFacts, StoreFacts
    <3>5. r \in Regs /\ Restores(trail, reg, choices[k].trail_base, r, choices[k].snap[r])
      BY <3>3, KeptRegs DEF AllRestore
    <3>6. r \notin {<<"cap_end", c>>} => mid[r] = reg[r]
      BY <1>1, <3>5
    <3>7. r \in VarPair(c) => mid[r] = reg[r]
      BY <1>1, <3>5 DEF VarPair
    <3>8. r \notin VarPair(c) => reg'[r] = mid[r]
      BY <1>1, <1>4, <2>2, <3>5 DEF WriteCapEnd, VarPair
    <3>9. Restores(tr, mid, choices[k].trail_base, r, choices[k].snap[r])
      <4> HIDE DEF mid
      <4> QED BY <1>1, <3>3, <3>4, <3>5, <3>6, TrailedWrite
    <3> HIDE DEF mid, tr
    <3>10. choices[k].trail_base <= Len(tr)
      BY <3>2, <3>4
    <3> QED BY <3>1, <3>2, <3>3, <3>4, <3>5, <3>7, <3>8, <3>9, <3>10, TrailedWrite
  <2> QED BY <2>1, <2>2
<1>5. OldKept
  BY <1>2, <1>3, <1>4 DEF WriteVar
<1> QED BY <1>0, <1>5, SameStack

\* The loop instructions write loop registers only.
LEMMA LoopsKeep ==
    ASSUME StoreTypeOK, BasesOrdered, AllRestore, EnterLoop \/ StepLoop
    PROVE  AllRestore'
<1>0. compact' = compact /\ IsTrail(trail)
  BY StoreFacts DEF EnterLoop, StepLoop, Moves
<1>1. CASE EnterLoop
  <2>1. PICK l \in Loops, skippable \in BOOLEAN, skip \in Ips : WriteRepeatInit(l, skippable, skip)
    BY <1>1 DEF EnterLoop
  <2>2. trail' = trail /\ \A r \in Kept : reg'[r] = reg[r]
    BY <2>1, WithLoopKeeps DEF WriteRepeatInit
  <2>3. OldKept
    BY <2>2, OldKeptUntrailed
  <2>4. CASE skippable
    <3>1. PushChoice(skip, pos, reg', max_counter_used', trail')
      BY <2>1, <2>2, <2>4 DEF WriteRepeatInit
    <3> QED BY <3>1, <2>2, <2>3, <1>0, NewRecord
  <2>5. CASE ~skippable
    BY <2>1, <2>3, <2>5, <1>0, SameStack DEF WriteRepeatInit, choiceVars
  <2> QED BY <2>4, <2>5
<1>2. CASE StepLoop
  <2>1. PICK l \in Loops :
          \/ CountIteration(l)
          \/ MandatoryIteration(l)
          \/ \E exit \in Ips : OptionalIteration(l, exit)
          \/ \E q \in pos .. len, scanned \in BOOLEAN, again \in Ips :
                GreedyIteration(l, q, scanned, again)
    BY <1>2 DEF StepLoop
  <2> DEFINE tr == TrailPush(trail, LoopPair(l))
  <2>2. IsTrail(tr)
    BY <1>0, TrailPushType
  <2>3. ASSUME trail' = tr, \A r \in Kept : reg'[r] = reg[r] PROVE OldKept
    BY <2>3, OldKeptTrailed
  <2> HIDE DEF tr
  <2>4. CASE CountIteration(l) \/ MandatoryIteration(l)
    <3>1. trail' = tr /\ choices' = choices /\ \A r \in Kept : reg'[r] = reg[r]
      BY <2>4, WithLoopKeeps DEF CountIteration, MandatoryIteration, choiceVars, tr
    <3> QED BY <3>1, <2>3, <1>0, SameStack
  <2>5. ASSUME NEW exit \in Ips, OptionalIteration(l, exit) PROVE AllRestore'
    <3> DEFINE counted == WithLoop(l, CountPlus(l, 1), loop_last_pos(l))
    <3>1. /\ trail' = tr /\ PushChoice(exit, pos, counted, max_counter_used, trail')
          /\ reg' = WithLoop(l, CountPlus(l, 1), pos)
      BY <2>5 DEF OptionalIteration, tr
    <3>2. \A r \in Kept : reg'[r] = reg[r] /\ counted[r] = reg[r]
      BY <3>1, WithLoopKeeps
    <3> HIDE DEF counted
    <3> QED BY <3>1, <3>2, <2>2, <2>3, <1>0, NewRecord
  <2>6. ASSUME NEW q \in pos .. len, NEW scanned \in BOOLEAN, NEW again \in Ips,
               GreedyIteration(l, q, scanned, again)
        PROVE  AllRestore'
    <3> DEFINE n       == IF scanned THEN CountPlus(l, 1 + (q - pos)) ELSE counters(l)
               counted == WithLoop(l, n, loop_last_pos(l))
    <3>1. /\ trail' = IF scanned THEN tr ELSE trail
          /\ reg' = WithLoop(l, n, q)
          /\ IF q > loop_last_pos(l)
               THEN PushChoice(again, q - 1, counted, max_counter_used, trail')
               ELSE UNCHANGED choiceVars
      BY <2>6 DEF GreedyIteration, tr
    <3> HIDE DEF n
    <3>2. \A r \in Kept : reg'[r] = reg[r] /\ counted[r] = reg[r]
      BY <3>1, WithLoopKeeps
    <3>3. OldKept /\ IsTrail(trail')
      BY <3>1, <3>2, <2>2, <2>3, <1>0, OldKeptUntrailed
    <3> HIDE DEF counted
    <3> QED BY <3>1, <3>2, <3>3, <1>0, NewRecord, SameStack DEF choiceVars
  <2> QED BY <2>1, <2>4, <2>5, <2>6
<1> QED BY <1>1, <1>2

\* Every step of the store keeps every live choice restorable.
LEMMA RestoreStep ==
    ASSUME StoreTypeOK, BasesOrdered, AllRestore, [StoreNext]_storeVars
    PROVE  AllRestore'
<1>1. CASE Move \/ UNCHANGED storeVars
  <2>1. choices' = choices /\ compact' = compact /\ trail' = trail /\ reg' = reg
    BY <1>1 DEF Move, Moves, storeVars, regVars, choiceVars
  <2>2. OldKept
    BY <2>1, OldKeptUntrailed
  <2> QED BY <2>1, <2>2, SameStack
<1>2. CASE Push
  <2>1. PICK i \in Ips, p \in Pos : PushChoice(i, p, reg, max_counter_used, trail)
    BY <1>2 DEF Push
  <2>2. compact' = compact /\ trail' = trail /\ reg' = reg
    BY <1>2 DEF Push, Moves, regVars
  <2>3. OldKept /\ IsTrail(trail')
    BY <2>2, OldKeptUntrailed, StoreFacts
  <2> QED BY <2>1, <2>2, <2>3, NewRecord
<1>3. CASE PopChoice
  BY <1>3, PopKeeps
<1>4. CASE WriteVar
  BY <1>4, WriteVarKeeps
<1>5. CASE EnterLoop \/ StepLoop
  BY <1>5, LoopsKeep
<1>6. CASE PopAndRelease \/ Cut \/ Release \/ \E n \in Lens : Restart(n)
  <2>1. choices' = <<>>
    BY <1>6 DEF PopAndRelease, Cut, CutChoices, Release, Restart
  <2> QED BY <2>1, EmptyStack
<1> QED BY <1>1, <1>2, <1>3, <1>4, <1>5, <1>6 DEF StoreNext

(***************************************************************************)
(* The theorems.                                                           *)
(***************************************************************************)
StoreInv == StoreTypeOK /\ BasesOrdered /\ AllRestore

\* The inductive invariant holds in every behaviour of the store.
LEMMA StoreInvariant == StoreSpec => []StoreInv
<1>1. StoreInit => StoreInv
  <2>1. StoreInit => AllRestore
    BY DEF StoreInit, AllRestore
  <2> QED BY <2>1, TypeInit DEF StoreInv, TypeAndOrder
<1>2. StoreInv /\ [StoreNext]_storeVars => StoreInv'
  BY TypeStep, RestoreStep DEF StoreInv, TypeAndOrder
<1> QED BY <1>1, <1>2, PTL DEF StoreSpec

\* Replaying the trail to the base of any live choice gives back the captures
\* and variables of the moment it was pushed (vm_trail_replay), in every
\* interleaving of pushes, pops, writes, loop steps, fences and restarts.
THEOREM TrailRestores == StoreSpec => []Restoration
<1>1. StoreInv => Restoration
  BY AllRestoreMeans DEF StoreInv
<1> QED BY StoreInvariant, <1>1, PTL

(***************************************************************************)
(* The loop of vm_trail_replay.  Undoing the records above b is undoing    *)
(* those above b + 1 and then record b + 1, so the loop has computed       *)
(* Replay(Len(trail) - i) after i rounds.                                  *)
(***************************************************************************)
\* The register files after every round of the loop, for n rounds.
Undoes(f, n) ==
    f = [i \in 0 .. n |->
            IF i = 0 THEN reg ELSE Undone(f[i - 1], trail[Len(trail) + 1 - i])]

\* They exist for any number of rounds.
LEMMA RoundsExist == ASSUME NEW n \in Nat PROVE \E f : Undoes(f, n)
<1> DEFINE Bad == {m \in Nat : ~\E f : Undoes(f, m)}
<1> SUFFICES ASSUME n \in Bad PROVE FALSE
  OBVIOUS
<1>1. PICK m \in Bad : \A x \in Bad : m <= x
  <2>1. Bad \subseteq Nat /\ Bad # {}
    OBVIOUS
  <2> HIDE DEF Bad
  <2> QED BY <2>1, LeastElement
<1>2. m \in Nat /\ ~\E f : Undoes(f, m)
  OBVIOUS
<1>3. CASE m = 0
  <2> DEFINE g == [k \in 0 .. 0 |-> reg]
  <2>1. Undoes(g, 0)
    BY DEF Undoes
  <2> QED BY <1>2, <1>3, <2>1
<1>4. CASE m # 0
  <2>1. m - 1 \in Nat /\ m - 1 \notin Bad
    BY <1>1, <1>2, <1>4
  <2>2. PICK f : Undoes(f, m - 1)
    BY <2>1
  <2> DEFINE u(k) == trail[Len(trail) + 1 - k]
             g == [k \in 0 .. m |-> IF k = m THEN Undone(f[m - 1], u(m)) ELSE f[k]]
  <2>3. ASSUME NEW k \in 0 .. m
        PROVE  g[k] = IF k = 0 THEN reg ELSE Undone(g[k - 1], u(k))
    <3>1. CASE k = m
      <4>1. k - 1 \in 0 .. m /\ k - 1 # m /\ k # 0
        BY <1>2, <1>4, <3>1
      <4>2. g[k - 1] = f[k - 1]
        BY <4>1
      <4> QED BY <3>1, <4>1, <4>2
    <3>2. CASE k # m
      <4>1. k \in 0 .. m - 1
        BY <1>2, <3>2
      <4>2. f[k] = IF k = 0 THEN reg ELSE Undone(f[k - 1], u(k))
        BY <2>2, <4>1 DEF Undoes
      <4>3. g[k] = f[k]
        BY <3>2
      <4>4. k # 0 => g[k - 1] = f[k - 1]
        BY <1>2, <4>1
      <4> QED BY <4>2, <4>3, <4>4
    <3> QED BY <3>1, <3>2
  <2>4. g = [k \in 0 .. m |-> g[k]]
    OBVIOUS
  <2> HIDE DEF g
  <2>5. Undoes(g, m)
    BY <2>3, <2>4 DEF Undoes
  <2> QED BY <1>2, <2>5
<1> QED BY <1>3, <1>4

\* So the loop runs one round after the other.
LEMMA LoopRounds ==
    ASSUME Len(trail) \in Nat, NEW base \in 0 .. Len(trail)
    PROVE  \E f : /\ ReplayLoop(base) = f[Len(trail) - base]
                  /\ f[0] = reg
                  /\ \A i \in 1 .. Len(trail) - base :
                        f[i] = Undone(f[i - 1], trail[Len(trail) + 1 - i])
<1> DEFINE n == Len(trail) - base
           f == CHOOSE f : Undoes(f, n)
<1>1. n \in Nat
  OBVIOUS
<1>2. ReplayLoop(base) = f[n]
  BY DEF ReplayLoop, Undoes
<1>3. Undoes(f, n)
  <2> HIDE DEF n
  <2> QED BY <1>1, RoundsExist
<1> HIDE DEF f
<1>4. f[0] = reg /\ \A i \in 1 .. n : f[i] = Undone(f[i - 1], trail[Len(trail) + 1 - i])
  <2> HIDE DEF n
  <2> QED BY <1>1, <1>3 DEF Undoes
<1> QED BY <1>2, <1>4

\* The record at the base is undone last.
LEMMA ReplayOneMore ==
    ASSUME StoreTypeOK, NEW b \in Nat, b + 1 <= Len(trail)
    PROVE  Replay(b) = Undone(Replay(b + 1), trail[b + 1])
<1>0. Len(trail) \in Nat
  BY StoreFacts
<1>1. ASSUME NEW r \in Regs PROVE Replay(b)[r] = Undone(Replay(b + 1), trail[b + 1])[r]
  <2>1. CASE trail[b + 1][r] = Unsaved
    <3>1. Touches(b, r) = Touches(b + 1, r)
      <4>1. \A i \in b + 1 .. Len(trail) : i = b + 1 \/ i \in (b + 1) + 1 .. Len(trail)
        BY <1>0
      <4>2. (b + 1) + 1 .. Len(trail) \subseteq b + 1 .. Len(trail)
        BY <1>0
      <4> QED BY <2>1, <4>1, <4>2 DEF Touches
    <3>2. Replay(b)[r] = Replay(b + 1)[r]
      BY <3>1 DEF Replay
    <3> QED BY <2>1, <3>2 DEF Undone
  <2>2. CASE trail[b + 1][r] # Unsaved
    <3>1. b + 1 \in Touches(b, r) /\ \A j \in Touches(b, r) : j \in Nat /\ b + 1 <= j
      BY <1>0, <2>2 DEF Touches
    <3> DEFINE m == CHOOSE i \in Touches(b, r) : \A j \in Touches(b, r) : i <= j
    <3>2. m \in Touches(b, r) /\ m <= b + 1
      BY <3>1
    <3>3. Replay(b)[r] = trail[m][r]
      BY <3>1 DEF Replay
    <3> HIDE DEF m
    <3>4. m = b + 1
      BY <3>1, <3>2
    <3> QED BY <2>2, <3>3, <3>4 DEF Undone
  <2> QED BY <2>1, <2>2
<1>2. /\ Replay(b) = [r \in Regs |-> Replay(b)[r]]
      /\ Undone(Replay(b + 1), trail[b + 1])
           = [r \in Regs |-> Undone(Replay(b + 1), trail[b + 1])[r]]
  BY DEF Replay, Undone
<1> QED BY <1>1, <1>2

(***************************************************************************)
(* Undoing the records one after the other from the newest, as             *)
(* vm_trail_replay does, leaves in every register what Replay says, the    *)
(* value its oldest record above the base saved, for every base.           *)
(***************************************************************************)
THEOREM ReplayComputesOldest == StoreSpec => []ReplayIsLoop
<1>1. StoreTypeOK => ReplayIsLoop
  <2> SUFFICES ASSUME StoreTypeOK, NEW base \in 0 .. Len(trail)
               PROVE  Replay(base) = ReplayLoop(base)
    BY DEF ReplayIsLoop
  <2>0. Len(trail) \in Nat
    BY StoreFacts
  <2>1. PICK f : /\ ReplayLoop(base) = f[Len(trail) - base]
                 /\ f[0] = reg
                 /\ \A i \in 1 .. Len(trail) - base :
                       f[i] = Undone(f[i - 1], trail[Len(trail) + 1 - i])
    BY <2>0, LoopRounds
  <2> DEFINE Bad == {i \in 0 .. Len(trail) - base : f[i] # Replay(Len(trail) - i)}
  <2>2. Bad = {}
    <3> SUFFICES ASSUME Bad # {} PROVE FALSE
      OBVIOUS
    <3>1. PICK m \in Bad : \A x \in Bad : m <= x
      <4>1. Bad \subseteq Nat
        BY <2>0
      <4> HIDE DEF Bad
      <4> QED BY <4>1, LeastElement
    <3>2. m \in 0 .. Len(trail) - base /\ f[m] # Replay(Len(trail) - m)
      OBVIOUS
    <3>3. CASE m = 0
      <4>1. \A r \in Regs : Touches(Len(trail), r) = {}
        BY <2>0 DEF Touches
      <4>2. Replay(Len(trail)) = [r \in Regs |-> reg[r]]
        BY <4>1 DEF Replay
      <4>3. reg = [r \in Regs |-> reg[r]]
        BY DEF StoreTypeOK, IsRegFile
      <4>4. Len(trail) - m = Len(trail)
        BY <2>0, <3>3
      <4> QED BY <2>1, <3>2, <3>3, <4>2, <4>3, <4>4
    <3>4. CASE m # 0
      <4> DEFINE b == Len(trail) - m
      <4>1. /\ m - 1 \in 0 .. Len(trail) - base /\ m - 1 \notin Bad
            /\ m \in 1 .. Len(trail) - base
            /\ b \in Nat /\ b + 1 <= Len(trail)
            /\ Len(trail) - (m - 1) = b + 1 /\ Len(trail) + 1 - m = b + 1
        BY <2>0, <3>1, <3>2, <3>4
      <4>2. f[m - 1] = Replay(Len(trail) - (m - 1))
        BY <4>1
      <4>3. f[m] = Undone(f[m - 1], trail[Len(trail) + 1 - m])
        BY <2>1, <4>1
      <4> HIDE DEF b, Bad
      <4>4. Replay(b) = Undone(Replay(b + 1), trail[b + 1])
        BY <4>1, ReplayOneMore
      <4>5. f[m] = Replay(b)
        BY <4>1, <4>2, <4>3, <4>4
      <4> QED BY <3>2, <4>5 DEF b
    <3> QED BY <3>3, <3>4
  <2>3. f[Len(trail) - base] = Replay(Len(trail) - (Len(trail) - base))
    <3>1. Len(trail) - base \in 0 .. Len(trail) - base
      BY <2>0
    <3> QED BY <2>2, <3>1
  <2>4. Len(trail) - (Len(trail) - base) = base
    BY <2>0
  <2> QED BY <2>1, <2>3, <2>4
<1> QED BY <1>1, StoreTypeCorrect, PTL

\* What vm_pop_choice gives back, in both modes.
THEOREM BacktrackRestores == StoreSpec => PopRestores
<1>1. ASSUME StoreInv, PopChoice \/ PopAndRelease
      PROVE  /\ pos' = Top.pos
             /\ \A r \in CapRegs : r[2] < max_cap_used' => reg'[r] = Top.snap[r]
             /\ compact => \A r \in CapRegs \cup VarRegs : reg'[r] = Top.snap[r]
  <2>1. RestoreTop
    BY <1>1 DEF PopChoice, PopAndRelease
  <2>2. choices # <<>> /\ pos' = Top.pos /\ max_cap_used' = Top.max_cap_used
    BY <2>1 DEF RestoreTop
  <2>3. Len(choices) \in DOMAIN choices
    BY <1>1, <2>2, TopRecord DEF StoreInv
  <2>4. ASSUME compact, NEW r \in CapRegs \cup VarRegs PROVE reg'[r] = Top.snap[r]
    <3>1. Restoration
      BY <1>1, AllRestoreMeans DEF StoreInv
    <3>2. Replay(Top.trail_base)[r] = Top.snap[r]
      BY <2>3, <2>4, <3>1 DEF Restoration, Top
    <3> QED BY <2>1, <2>4, <3>2 DEF RestoreTop
  <2>5. ASSUME ~compact, NEW r \in CapRegs, r[2] < max_cap_used' PROVE reg'[r] = Top.snap[r]
    BY <2>1, <2>2, <2>5 DEF RestoreTop, LegacyRestore, Regs
  <2> QED BY <2>2, <2>4, <2>5
<1>2. StoreInv /\ [StoreNext]_storeVars =>
        [PopChoice \/ PopAndRelease =>
            /\ pos' = Top.pos
            /\ \A r \in CapRegs : r[2] < max_cap_used' => reg'[r] = Top.snap[r]
            /\ compact => \A r \in CapRegs \cup VarRegs : reg'[r] = Top.snap[r]
        ]_storeVars
  BY <1>1
<1> QED BY StoreInvariant, <1>2, PTL DEF StoreSpec, PopRestores

\* The live-depth statistic is never below the true depth.
THEOREM LiveDepthNeverLow == StoreSpec => []LiveDepthCovers
<1>1. StoreInit => LiveDepthCovers
  BY DEF StoreInit, LiveDepthCovers
<1>2. ASSUME StoreTypeOK, BasesOrdered, LiveDepthCovers, [StoreNext]_storeVars
      PROVE  LiveDepthCovers'
  <2>0. choice_live_depth \in Nat /\ choices \in Seq(ChoiceRecords) /\ Len(choices) \in Nat
    BY <1>2 DEF StoreTypeOK, IsStack
  <2>1. CASE choices' = choices /\ choice_live_depth' = choice_live_depth
    BY <2>1, <1>2 DEF LiveDepthCovers
  <2>2. CASE choices' = <<>> /\ choice_live_depth' \in Nat
    BY <2>2 DEF LiveDepthCovers
  <2>3. ASSUME NEW i, NEW p, NEW rg, NEW mcu, NEW tr, PushChoice(i, p, rg, mcu, tr)
        PROVE  LiveDepthCovers'
    BY <2>0, <2>3, <1>2 DEF PushChoice, LiveDepthCovers
  <2>4. CASE PopChoice
    <3>1. choices # <<>> /\ choices' = SubSeq(choices, 1, Len(choices) - 1)
      BY <2>4 DEF PopChoice, RestoreTop
    <3>2. Len(choices') = Len(choices) - 1 /\ Len(choices) \in Nat \ {0}
      BY <3>1, <1>2, PoppedStack, TopRecord
    <3>3. choice_live_depth' = choice_live_depth - 1
      BY <2>0, <2>4, <3>2, <1>2 DEF PopChoice, RestoreTop, LiveDepthCovers
    <3> QED BY <2>0, <3>2, <3>3, <1>2 DEF LiveDepthCovers
  <2>5. CASE Move \/ WriteVar \/ UNCHANGED storeVars
    BY <2>1, <2>5 DEF Move, WriteVar, storeVars, choiceVars
  <2>6. CASE Push
    BY <2>3, <2>6 DEF Push
  <2>7. CASE PopAndRelease
    BY <2>0, <2>2, <2>7 DEF PopAndRelease, RestoreTop
  <2>8. CASE Cut \/ Release \/ \E n \in Lens : Restart(n)
    BY <2>0, <2>2, <2>8 DEF Cut, CutChoices, Release, Restart
  <2>9. CASE EnterLoop
    BY <2>1, <2>3, <2>9 DEF EnterLoop, WriteRepeatInit, choiceVars
  <2>10. CASE StepLoop
    BY <2>1, <2>3, <2>10
    DEF StepLoop, CountIteration, MandatoryIteration, OptionalIteration, GreedyIteration, choiceVars
  <2> QED BY <2>4, <2>5, <2>6, <2>7, <2>8, <2>9, <2>10, <1>2 DEF StoreNext
<1> QED BY StoreInvariant, <1>1, <1>2, PTL DEF StoreSpec, StoreInv

(***************************************************************************)
(* The machine uses the store as StoreNext allows.                         *)
(***************************************************************************)
VMInv == StoreTypeOK /\ BasesOrdered /\ prog \in Programs /\ s \in Subjects

\* A step of the store or none.
StoreStep == [StoreNext]_storeVars

\* Operands of the instruction at ip are addresses.
LEMMA Operands ==
    ASSUME VMInv, ip \in DOMAIN prog.code
    PROVE  /\ ip \in Nat /\ ip \in Ips /\ ip + 1 \in Ips
           /\ Instr.op = "LIT" => Len(Instr.text) \in Nat
           /\ Instr.op = "SPLIT" => Instr.a \in Ips /\ Instr.b \in Ips
           /\ Instr.op \in {"JMP", "REPEAT_STEP"} => Instr.target \in Ips
           /\ Instr.op = "REPEAT_INIT" => Instr.skip \in Ips
BY ProgramsAssumption DEF VMInv, Instr

\* A label of a program is an address.
LEMMA LabelTargets ==
    ASSUME VMInv, NEW x \in DOMAIN prog.labels
    PROVE  prog.labels[x] \in Ips
BY ProgramsAssumption DEF VMInv

\* A lead byte announces at most four bytes.
LEMMA Widths == \A b : Width(b) \in 0 .. 4
BY DEF Width

\* A character that can be tested ends inside the subject.
LEMMA UnitInside ==
    ASSUME StoreTypeOK, NEW set, Testable(pos, set)
    PROVE  pos + Unit(pos, set) \in Pos
<1>1. len \in Nat /\ pos \in Nat /\ Pos = 0 .. len
  BY StoreFacts
<1>2. CASE IsAscii(set)
  BY <1>1, <1>2 DEF Testable, Unit
<1>3. CASE ~IsAscii(set)
  <2>1. pos + Width(Byte(pos)) <= len /\ Unit(pos, set) = Width(Byte(pos))
    BY <1>3 DEF Testable, Unit, Peek
  <2>2. Width(Byte(pos)) \in Nat
    BY Widths
  <2> QED BY <1>1, <2>1, <2>2
<1> QED BY <1>2, <1>3

(***************************************************************************)
(* The shared parts of the handlers.                                       *)
(***************************************************************************)
\* Continuing at an address inside the code is a move of the store.
LEMMA JumpStep ==
    ASSUME NEW i \in Ips, NEW q \in Pos, Jump(i, q)
    PROVE  StoreStep
<1>1. Move
  BY DEF Jump, Move, Moves
<1> QED BY <1>1 DEF StoreStep, StoreNext

\* The exits of vm_run release the store or leave it alone.
LEMMA FinishStep ==
    ASSUME NEW r, Finish(r)
    PROVE  StoreStep
<1>1. CASE KeepChoices
  BY <1>1 DEF Finish, StoreStep, storeVars, regVars, choiceVars
<1>2. CASE ~KeepChoices
  <2>1. Release
    BY <1>2 DEF Finish, Release
  <2> QED BY <2>1 DEF StoreStep, StoreNext
<1> QED BY <1>1, <1>2

\* A backtrack is a pop or an exit.
LEMMA BacktrackStep ==
    ASSUME Backtrack
    PROVE  StoreStep
BY FinishStep DEF Backtrack, StoreStep, StoreNext

\* A pop that leaves the dispatch loop is a pop or a release.
LEMMA PopAndLeaveStep ==
    ASSUME PopAndLeave
    PROVE  StoreStep
BY FinishStep DEF PopAndLeave, StoreStep, StoreNext

\* Consuming up to a position inside the subject, or backtracking.
LEMMA ConsumeStep ==
    ASSUME VMInv, ip \in DOMAIN prog.code, NEW ok, NEW q, ok => q \in Pos, Consume(ok, q)
    PROVE  StoreStep
<1>1. CASE ok
  BY <1>1, Operands, JumpStep DEF Consume, Advance
<1>2. CASE ~ok
  BY <1>2, BacktrackStep DEF Consume
<1> QED BY <1>1, <1>2

\* Going on with the next instruction.
LEMMA AdvanceStep ==
    ASSUME VMInv, ip \in DOMAIN prog.code, NEW q \in Pos, Advance(q)
    PROVE  StoreStep
BY Operands, JumpStep DEF Advance

\* Going on behind a scan.
LEMMA ScanStep ==
    ASSUME VMInv, ip \in DOMAIN prog.code, NEW q, ScanTo(q)
    PROVE  StoreStep
BY AdvanceStep DEF ScanTo

(***************************************************************************)
(* The opcodes.                                                            *)
(***************************************************************************)
\* Those that only test the subject, move or stop.
LEMMA CursorOps ==
    ASSUME VMInv,
           \/ EndOfCode \/ Nop \/ Label \/ Accept \/ Succeed \/ FailOp \/ Jmp
           \/ Lit \/ AnyOp \/ NotAny \/ Span \/ Break \/ LenOp \/ Anchor
           \/ Rem \/ PosOp \/ RPosOp \/ Tab \/ RTab \/ Bal
    PROVE  StoreStep
<1>0. StoreTypeOK /\ len \in Nat /\ pos \in Nat /\ pos \in Pos /\ Pos = 0 .. len
  BY StoreFacts DEF VMInv
<1>1. CASE EndOfCode \/ FailOp
  BY <1>1, BacktrackStep DEF EndOfCode, FailOp
<1>2. CASE Accept \/ Succeed
  BY <1>2, FinishStep DEF Accept, Succeed
<1>3. CASE Nop \/ Label
  BY <1>0, <1>3, AdvanceStep DEF Nop, Label, Fetch
<1>4. CASE Jmp
  BY <1>0, <1>4, Operands, JumpStep DEF Jmp, Fetch
<1>5. CASE Lit
  <2>1. Len(Instr.text) \in Nat /\ ip \in DOMAIN prog.code
    BY <1>5, Operands DEF Lit, Fetch
  <2>2. /\ Len(Instr.text) <= len - pos /\ Text(pos, pos + Len(Instr.text)) = Instr.text
        => pos + Len(Instr.text) \in Pos
    BY <1>0, <2>1
  <2> QED BY <2>1, <2>2, <1>5, ConsumeStep DEF Lit
<1>6. CASE AnyOp
  <2>1. InClass(pos, Instr.set) => pos + Unit(pos, Instr.set) \in Pos
    BY <1>0, UnitInside DEF InClass
  <2> QED BY <2>1, <1>6, ConsumeStep DEF AnyOp, Fetch
<1>7. CASE NotAny
  <2>1. OutOfClass(pos, Instr.set) => pos + Unit(pos, Instr.set) \in Pos
    BY <1>0, UnitInside DEF OutOfClass
  <2> QED BY <2>1, <1>7, ConsumeStep DEF NotAny, Fetch
<1>8. CASE Span \/ Break
  BY <1>8, ScanStep, BacktrackStep DEF Span, Break, Fetch
<1>9. CASE LenOp
  BY <1>9, ConsumeStep DEF LenOp, Fetch
<1>10. CASE Anchor \/ PosOp \/ RPosOp
  BY <1>0, <1>10, ConsumeStep DEF Anchor, PosOp, RPosOp, Fetch
<1>11. CASE Rem
  <2>1. len \in Pos
    BY <1>0
  <2> QED BY <2>1, <1>11, AdvanceStep DEF Rem, Fetch
<1>12. CASE Tab \/ RTab
  BY <1>12, ScanStep, BacktrackStep DEF Tab, RTab, Fetch
<1>13. CASE Bal
  BY <1>13, ConsumeStep, PopAndLeaveStep DEF Bal, Fetch
<1> QED BY <1>1, <1>2, <1>3, <1>4, <1>5, <1>6, <1>7, <1>8, <1>9, <1>10, <1>11, <1>12, <1>13

\* Those that push or cut choices.
LEMMA ChoiceOps ==
    ASSUME VMInv, Split \/ BreakX \/ Fence
    PROVE  StoreStep
<1>0. /\ StoreTypeOK /\ len \in Nat /\ pos \in Nat /\ pos \in Pos /\ Pos = 0 .. len
      /\ ip \in DOMAIN prog.code
  BY StoreFacts DEF VMInv, Split, BreakX, Fence, Fetch
<1>1. ip + 1 \in Ips /\ ip \in Ips
  BY <1>0, Operands
<1>2. CASE Split
  <2>1. Instr.a \in Ips /\ Instr.b \in Ips
    BY <1>0, <1>2, Operands DEF Split, Fetch
  <2>2. Push
    BY <2>1, <1>0, <1>2 DEF Split, Push, Moves
  <2> QED BY <2>2 DEF StoreStep, StoreNext
<1>3. CASE BreakX
  <2>1. PICK q \in Pos :
          /\ IF q < len
               THEN PushChoice(ip, q + (IF Peek(q) THEN Width(Byte(q)) ELSE 1),
                               reg, max_counter_used, trail)
               ELSE UNCHANGED choiceVars
          /\ pos' = q
    BY <1>3 DEF BreakX
  <2>2. Moves /\ UNCHANGED regVars
    BY <1>1, <1>3, <2>1 DEF BreakX, Moves
  <2>3. CASE q < len
    <3> DEFINE p == q + (IF Peek(q) THEN Width(Byte(q)) ELSE 1)
    <3>1. p \in Pos
      <4>1. Width(Byte(q)) \in Nat
        BY Widths
      <4> QED BY <4>1, <1>0, <2>3 DEF Peek
    <3>2. PushChoice(ip, p, reg, max_counter_used, trail)
      BY <2>1, <2>3
    <3> HIDE DEF p
    <3>3. Push
      BY <3>1, <3>2, <2>2, <1>1 DEF Push
    <3> QED BY <3>3 DEF StoreStep, StoreNext
  <2>4. CASE ~(q < len)
    <3>1. Move
      BY <2>1, <2>2, <2>4 DEF Move
    <3> QED BY <3>1 DEF StoreStep, StoreNext
  <2> QED BY <2>3, <2>4
<1>4. CASE Fence
  <2>1. Cut
    BY <1>0, <1>1, <1>4 DEF Fence, Cut, Moves
  <2> QED BY <2>1 DEF StoreStep, StoreNext
<1> QED BY <1>2, <1>3, <1>4

\* Those that write registers.
LEMMA RegisterOps ==
    ASSUME VMInv, CapStart \/ CapEnd \/ Assign \/ RepeatInit \/ RepeatStep
    PROVE  StoreStep
<1>0. /\ StoreTypeOK /\ len \in Nat /\ pos \in Nat /\ pos \in Pos /\ Pos = 0 .. len
      /\ ip \in DOMAIN prog.code
  BY StoreFacts DEF VMInv, CapStart, CapEnd, Assign, RepeatInit, RepeatStep, Fetch
<1>1. ip + 1 \in Ips /\ ip \in Ips
  BY <1>0, Operands
<1>2. CASE CapStart \/ CapEnd \/ Assign
  <2>1. Moves /\ UNCHANGED choiceVars
    BY <1>0, <1>1, <1>2 DEF CapStart, CapEnd, Assign, Moves
  <2>2. \/ UNCHANGED regVars
        \/ \E c \in Caps : WriteCapStart(c) \/ WriteCapEnd(c)
        \/ \E v \in Vars, c \in Caps : WriteAssign(v, c)
    BY <1>2 DEF CapStart, CapEnd, Assign
  <2>3. Move \/ WriteVar
    BY <2>1, <2>2 DEF Move, WriteVar
  <2> QED BY <2>3 DEF StoreStep, StoreNext
<1>3. CASE RepeatInit
  <2>1. Moves
    BY <1>0, <1>1, <1>3 DEF RepeatInit, Moves
  <2>2. CASE Instr.loop \in Loops
    <3>1. Instr.skip \in Ips
      BY <1>0, <1>3, Operands DEF RepeatInit, Fetch
    <3>2. (Instr.min = 0) \in BOOLEAN
      OBVIOUS
    <3>3. WriteRepeatInit(Instr.loop, Instr.min = 0, Instr.skip)
      BY <1>3, <2>2 DEF RepeatInit
    <3>4. EnterLoop
      BY <2>1, <2>2, <3>1, <3>2, <3>3 DEF EnterLoop
    <3> QED BY <3>4 DEF StoreStep, StoreNext
  <2>3. CASE Instr.loop \notin Loops
    <3>1. Move
      BY <1>3, <2>1, <2>3 DEF RepeatInit, Move
    <3> QED BY <3>1 DEF StoreStep, StoreNext
  <2> QED BY <2>2, <2>3
<1>4. CASE RepeatStep
  <2> DEFINE l == Instr.loop
  <2>1. CASE l \notin Loops
    BY <1>0, <1>4, <2>1, AdvanceStep DEF RepeatStep
  <2>2. CASE l \in Loops /\ DetectGreedy(l)
    <3>1. compact' = compact /\ len' = len /\ GreedyStep(l)
      BY <1>4, <2>2 DEF RepeatStep
    <3>2. PICK q \in pos .. len, scanned \in BOOLEAN : GreedyIteration(l, q, scanned, ip)
      BY <3>1 DEF GreedyStep
    <3>3. Moves
      BY <3>1, <3>2, <1>0, <1>1 DEF Moves, GreedyStep, GreedyIteration
    <3>4. StepLoop
      BY <2>2, <3>2, <3>3, <1>1 DEF StepLoop
    <3> QED BY <3>4 DEF StoreStep, StoreNext
  <2>3. CASE l \in Loops /\ ~DetectGreedy(l)
    <3>1. compact' = compact /\ len' = len /\ IterationStep(l)
      BY <1>4, <2>3 DEF RepeatStep
    <3>2. Instr.target \in Ips
      BY <1>0, <1>4, Operands DEF RepeatStep, Fetch
    <3>3. Moves
      BY <3>1, <3>2, <1>0, <1>1 DEF Moves, IterationStep
    <3>4. CountIteration(l) \/ MandatoryIteration(l) \/ OptionalIteration(l, ip + 1)
      BY <3>1 DEF IterationStep
    <3>5. StepLoop
      BY <2>3, <3>3, <3>4, <1>1 DEF StepLoop
    <3> QED BY <3>5 DEF StoreStep, StoreNext
  <2> QED BY <2>1, <2>2, <2>3
<1> QED BY <1>2, <1>3, <1>4

\* Control flow, output, callbacks and tables.
LEMMA OtherOps ==
    ASSUME VMInv,
           Abort \/ Goto \/ GotoF \/ EmitLiteral \/ EmitCapture \/ Eval \/ TableGet \/ TableSet
    PROVE  StoreStep
<1>0. StoreTypeOK /\ pos \in Pos /\ ip \in Ips /\ ip \in DOMAIN prog.code
  BY DEF VMInv, StoreTypeOK, Abort, Goto, GotoF, EmitLiteral, EmitCapture, Eval,
         TableGet, TableSet, Fetch
<1>1. CASE Abort
  <2>1. CASE KeepChoices
    <3>1. Cut
      BY <1>0, <1>1, <2>1 DEF Abort, Cut, Moves, regVars
    <3> QED BY <3>1 DEF StoreStep, StoreNext
  <2>2. CASE ~KeepChoices
    <3>1. Release
      BY <1>1, <2>2 DEF Abort, Release, CutChoices
    <3> QED BY <3>1 DEF StoreStep, StoreNext
  <2> QED BY <2>1, <2>2
<1>2. CASE Goto \/ GotoF
  BY <1>0, <1>2, LabelTargets, JumpStep, AdvanceStep, BacktrackStep DEF Goto, GotoF
<1>3. CASE EmitLiteral \/ EmitCapture \/ Eval
  BY <1>0, <1>3, AdvanceStep, BacktrackStep DEF EmitLiteral, EmitCapture, Eval
<1>4. CASE TableGet \/ TableSet
  BY <1>0, <1>4, AdvanceStep, PopAndLeaveStep DEF TableGet, TableSet
<1> QED BY <1>1, <1>2, <1>3, <1>4

(***************************************************************************)
(* The theorems.                                                           *)
(***************************************************************************)
\* Every step of the machine is a step of the store or leaves it alone.
LEMMA NextIsStoreStep ==
    ASSUME VMInv, [Next]_vars
    PROVE  StoreStep
<1>1. CASE Dispatch
  BY <1>1, CursorOps, ChoiceOps, RegisterOps, OtherOps DEF Dispatch, MatchOp
<1>2. CASE Rerun
  <2>1. Len(s') \in Lens /\ Restart(Len(s'))
    BY <1>2, SubjectsAssumption DEF Rerun
  <2> QED BY <2>1 DEF StoreStep, StoreNext
<1>3. CASE Idle \/ UNCHANGED vars
  BY <1>3 DEF Idle, vars, StoreStep
<1> QED BY <1>1, <1>2, <1>3 DEF Next

\* A machine at its start has a store at its start.
LEMMA InitIsStoreInit == Init => StoreInit
BY DEF Init

\* The machine keeps the store's invariant and its own types.
LEMMA VMInvariant == Spec => []VMInv
<1>1. Init => VMInv
  BY InitIsStoreInit, TypeInit DEF Init, VMInv, TypeAndOrder
<1>2. ASSUME VMInv, [Next]_vars PROVE VMInv'
  <2>1. TypeAndOrder'
    BY <1>2, NextIsStoreStep, TypeStep DEF VMInv, StoreStep
  <2>2. prog' \in Programs /\ s' \in Subjects
    BY <1>2 DEF VMInv, Next, Dispatch, Rerun, Idle, vars
  <2> QED BY <2>1, <2>2 DEF VMInv, TypeAndOrder
<1> QED BY <1>1, <1>2, PTL DEF Spec

\* The machine implements the store: whatever program it runs, on whatever
\* subjects, in either choice mode.
THEOREM VMImplementsStore == Spec => StoreSpec
<1>1. VMInv /\ [Next]_vars => [StoreNext]_storeVars
  BY NextIsStoreStep DEF StoreStep
<1> QED BY VMInvariant, InitIsStoreInit, <1>1, PTL DEF Spec, StoreSpec

\* No opcode moves the cursor, or lets a capture, a saved choice or an undo
\* record point, outside the subject.
THEOREM VMStaysInside == Spec => []StoreTypeOK
BY VMImplementsStore, StoreTypeCorrect, PTL

\* Backtracking in the machine undoes the captures and variables written since
\* the choice, for every program.
THEOREM VMTrailRestores == Spec => []Restoration
BY VMImplementsStore, TrailRestores, PTL

\* In the machine too the trail bases stay in order, the loop of
\* vm_trail_replay gives every register its oldest saved value, and the depth
\* statistic is never too small.
THEOREM VMKeepsStoreSound == Spec => [](BasesOrdered /\ ReplayIsLoop /\ LiveDepthCovers)
BY VMImplementsStore, BasesStayOrdered, ReplayComputesOldest, LiveDepthNeverLow, PTL

\* Every backtrack of vm_run gives back position and registers as
\* vm_pop_choice promises, whatever program runs.
THEOREM VMBacktrackRestores == Spec => PopRestores
BY VMImplementsStore, BacktrackRestores, PTL
=============================================================================
