------------------------- MODULE SearchInside_proofs -------------------------
(***************************************************************************)
(* Every search answers inside its subject, whichever of the engines       *)
(* answers, for every program, subject and size of the buffers.            *)
(*                                                                         *)
(* Each engine has its own reason: the search VM keeps its cursor and its  *)
(* choices in the window of its offset, the Pike scan keeps its threads in *)
(* the subject (MatchesInside), a walk of the automaton ends at a position *)
(* it has reached, fused segments lead from a position to a later one, a   *)
(* literal is compared before it is reported, and the VM stays in the      *)
(* window it is given.  The invariant adds where each engine begins: no    *)
(* tier calls one behind the end of the subject, although the Horspool     *)
(* shift and the hops can lead there.                                      *)
(***************************************************************************)
EXTENDS SearchTiers_proofs

(***************************************************************************)
(* The search VM stays in its window.                                      *)
(***************************************************************************)
\* The run at one offset, with the place it is at and those it may go back to.
SvmFields == {"status", "base", "ip", "pos", "regs", "choices"}
IsSvm(s) == s = [x \in SvmFields |-> s[x]]

\* An instruction to go on at, and a position of a window of length n.
PlaceInside(s, n) == s.ip \in Nat \ {0} /\ s.pos \in 0 .. n

\* The choices lead back to positions of the window.
ChoicesInside(cs, n) == \E S : cs \in Seq(S) /\ \A c \in S : PlaceInside(c, n)

\* A run begins in the subject and stays in its window, the rest of the subject.
SvmInside(s) ==
    /\ IsSvm(s)
    /\ s.base \in 0 .. SLen
    /\ PlaceInside(s, SLen - s.base)
    /\ ChoicesInside(s.choices, SLen - s.base)

\* What only moves inside the window, or changes other fields.
LEMMA SvmMoves ==
    ASSUME NEW s, SvmInside(s), NEW m, IsSvm(m), m.base = s.base, m.choices = s.choices,
           m.pos = s.pos \/ m.pos \in 0 .. SLen - s.base, m.ip = s.ip \/ m.ip \in Nat \ {0}
    PROVE  SvmInside(m)
BY DEF SvmInside, PlaceInside

\* A choice for a position of the window.
LEMMA PushInside ==
    ASSUME NEW s, SvmInside(s), NEW ip \in Nat \ {0}, NEW p \in 0 .. SLen - s.base
    PROVE  LET m == PushChoice(s, ip, p)
           IN  SvmInside(m) /\ m.base = s.base /\ m.pos = s.pos
<1> DEFINE c == [ip |-> ip, pos |-> p, regs |-> s.regs]
           m == [s EXCEPT !.choices = Append(s.choices, c)]
<1>1. PushChoice(s, ip, p) = m \/ PushChoice(s, ip, p) = s
  BY DEF PushChoice
<1>2. PICK S : s.choices \in Seq(S) /\ \A x \in S : PlaceInside(x, SLen - s.base)
  BY DEF SvmInside, ChoicesInside
<1>3. c.ip = ip /\ c.pos = p
  OBVIOUS
<1> HIDE DEF c
<1>4. Append(s.choices, c) \in Seq(S \cup {c}) /\ \A x \in S \cup {c} : PlaceInside(x, SLen - s.base)
  BY <1>2, <1>3 DEF PlaceInside
<1>5. ChoicesInside(Append(s.choices, c), SLen - s.base)
  BY <1>4 DEF ChoicesInside
<1>6. IsSvm(m) /\ m.base = s.base /\ m.ip = s.ip /\ m.pos = s.pos /\ m.choices = Append(s.choices, c)
  BY DEF SvmInside, IsSvm, SvmFields
<1> HIDE DEF m
<1>7. SvmInside(m)
  BY <1>5, <1>6 DEF SvmInside, PlaceInside
<1> QED BY <1>1, <1>6, <1>7

\* A failure goes back to a choice, or ends the run.
LEMMA BacktrackInside ==
    ASSUME NEW s, SvmInside(s)
    PROVE  SvmInside(Backtrack(s)) /\ Backtrack(s).base = s.base
<1>1. IsSvm(s)
  BY DEF SvmInside
<1>2. CASE s.choices = <<>>
  <2> DEFINE m == [s EXCEPT !.status = "fail"]
  <2>1. Backtrack(s) = m
    BY <1>2 DEF Backtrack
  <2>2. IsSvm(m) /\ m.base = s.base /\ m.ip = s.ip /\ m.pos = s.pos /\ m.choices = s.choices
    BY <1>1 DEF IsSvm, SvmFields
  <2> HIDE DEF m
  <2> QED BY <2>1, <2>2, SvmMoves
<1>3. CASE s.choices # <<>>
  <2> DEFINE c == Last(s.choices)
             cs == Front(s.choices)
             r == [c.regs EXCEPT !.loop = s.regs.loop]
             m == [s EXCEPT !.ip = c.ip, !.pos = c.pos, !.choices = cs, !.regs = r]
  <2>1. Backtrack(s) = m
    BY <1>3 DEF Backtrack
  <2>2. PICK S : s.choices \in Seq(S) /\ \A x \in S : PlaceInside(x, SLen - s.base)
    BY DEF SvmInside, ChoicesInside
  <2>3. c \in S /\ cs \in Seq(S)
    <3>1. Len(s.choices) \in 1 .. Len(s.choices)
      BY <1>3, <2>2
    <3> QED BY <2>2, <3>1 DEF Last, Front
  <2> HIDE DEF c, cs, r
  <2>4. PlaceInside(c, SLen - s.base) /\ ChoicesInside(cs, SLen - s.base)
    BY <2>2, <2>3 DEF ChoicesInside
  <2>5. IsSvm(m) /\ m.base = s.base /\ m.ip = c.ip /\ m.pos = c.pos /\ m.choices = cs
    BY <1>1 DEF IsSvm, SvmFields
  <2> HIDE DEF m
  <2>6. SvmInside(m)
    BY <2>4, <2>5 DEF SvmInside, PlaceInside
  <2> QED BY <2>1, <2>5, <2>6
<1> QED BY <1>2, <1>3

\* The run goes on behind its instruction, at p if it moves.
LEMMA StepInside ==
    ASSUME NEW s, SvmInside(s)
    PROVE  /\ SvmInside(Step(s)) /\ Step(s).base = s.base
           /\ \A p \in 0 .. SLen - s.base :
                 LET m == [Step(s) EXCEPT !.pos = p]
                 IN  SvmInside(m) /\ m.base = s.base
           /\ \A r : LET m == [Step(s) EXCEPT !.regs = r]
                     IN  SvmInside(m) /\ m.base = s.base
<1> DEFINE n == Step(s)
<1>1. IsSvm(s)
  BY DEF SvmInside
<1>2. IsSvm(n) /\ n.base = s.base /\ n.ip = s.ip + 1 /\ n.pos = s.pos /\ n.choices = s.choices
  BY <1>1 DEF Step, IsSvm, SvmFields
<1> s.ip + 1 \in Nat \ {0}
  BY DEF SvmInside, PlaceInside
<1> HIDE DEF n
<1>3. SvmInside(n)
  BY <1>2, SvmMoves
<1>4. ASSUME NEW p \in 0 .. SLen - s.base
      PROVE  LET m == [n EXCEPT !.pos = p] IN SvmInside(m) /\ m.base = s.base
  <2> DEFINE m == [n EXCEPT !.pos = p]
  <2>1. IsSvm(m) /\ m.base = n.base /\ m.ip = n.ip /\ m.pos = p /\ m.choices = n.choices
    BY <1>2 DEF IsSvm, SvmFields
  <2> HIDE DEF m
  <2>2. SvmInside(m) /\ m.base = s.base
    BY <1>2, <1>3, <2>1, SvmMoves
  <2> QED BY <2>2 DEF m
<1>5. ASSUME NEW r
      PROVE  LET m == [n EXCEPT !.regs = r] IN SvmInside(m) /\ m.base = s.base
  <2> DEFINE m == [n EXCEPT !.regs = r]
  <2>1. IsSvm(m) /\ m.base = n.base /\ m.ip = n.ip /\ m.pos = n.pos /\ m.choices = n.choices
    BY <1>2 DEF IsSvm, SvmFields
  <2> HIDE DEF m
  <2>2. SvmInside(m) /\ m.base = s.base
    BY <1>2, <1>3, <2>1, SvmMoves
  <2> QED BY <2>2 DEF m
<1> QED BY <1>2, <1>3, <1>4, <1>5 DEF n

\* A step of the search VM from one place in its window to another.
SvmGoesOn == SvmInside(svm') /\ svm'.base = svm.base

\* MoveIf goes on inside the window, or fails.
LEMMA MoveInside ==
    ASSUME SvmInside(svm), NEW ok, NEW p, ok => p \in 0 .. WindowLen, MoveIf(ok, p)
    PROVE  SvmGoesOn
<1>1. CASE ok
  <2>1. p \in 0 .. SLen - svm.base
    BY <1>1 DEF WindowLen
  <2>2. svm' = [Step(svm) EXCEPT !.pos = p]
    BY <1>1 DEF MoveIf
  <2> QED BY <2>1, <2>2, StepInside DEF SvmGoesOn
<1>2. CASE ~ok
  BY <1>2, BacktrackInside DEF MoveIf, SvmGoesOn
<1> QED BY <1>1, <1>2

\* Of the fields of a run, ip, regs and status are changed freely.
LEMMA FreeFields ==
    ASSUME NEW s, SvmInside(s), NEW x, NEW f \in {"ip", "regs", "status"},
           f = "ip" => x \in Nat \ {0}
    PROVE  LET m == [s EXCEPT ![f] = x] IN SvmInside(m) /\ m.base = s.base /\ m.pos = s.pos
<1> DEFINE m == [s EXCEPT ![f] = x]
<1>1. IsSvm(s)
  BY DEF SvmInside
<1>2. IsSvm(m) /\ m.base = s.base /\ m.pos = s.pos /\ m.choices = s.choices
      /\ m.ip = (IF f = "ip" THEN x ELSE s.ip)
  BY <1>1 DEF IsSvm, SvmFields
<1> HIDE DEF m
<1>3. SvmInside(m)
  BY <1>2, SvmMoves
<1> QED BY <1>2, <1>3 DEF m

\* Where the run is, and what its instruction has.
LEMMA SvmHere ==
    ASSUME SvmInside(svm), SLen \in Nat
    PROVE  /\ WindowLen \in Nat /\ svm.base \in 0 .. SLen /\ svm.pos \in 0 .. WindowLen
           /\ Here \in svm.base .. SLen /\ Here = svm.base + svm.pos /\ Here \in 0 .. SLen
BY DEF SvmInside, PlaceInside, WindowLen, Here

\* The instruction that is fetched is one of the program.
LEMMA SvmFetched ==
    ASSUME SvmInside(svm), Decoded(Code), NEW ops, Fetch(ops)
    PROVE  svm.ip \in DOMAIN Code /\ Instr = Code[svm.ip] /\ Instr.op \in ops
BY DEF Fetch, Decoded, Instr, SvmInside, PlaceInside

\* Instructions that move the position, or fail.
LEMMA SvmMoveStep ==
    ASSUME SvmInside(svm), SLen \in Nat, Decoded(Code),
           \/ Anchor \/ Lit \/ LenOp \/ AnyOp \/ Notany \/ Span \/ Break
           \/ PosOp \/ RposOp \/ Tab \/ Rtab
    PROVE  SvmGoesOn
<1>1. /\ WindowLen \in Nat /\ svm.base \in 0 .. SLen /\ svm.pos \in 0 .. WindowLen
      /\ Here = svm.base + svm.pos /\ Here \in 0 .. SLen /\ WindowLen = SLen - svm.base
  BY SvmHere DEF WindowLen
<1>2. CASE Anchor \/ PosOp \/ RposOp
  BY <1>1, <1>2, MoveInside DEF Anchor, PosOp, RposOp
<1>3. CASE Lit
  <2>1. svm.ip \in DOMAIN Code /\ Instr = Code[svm.ip] /\ Instr.op = "LIT"
    BY <1>3, SvmFetched DEF Lit
  <2>2. Len(Instr.text) \in Nat
    BY <2>1 DEF Decoded
  <2>3. LiteralAt(Instr.text, Here) => svm.pos + Len(Instr.text) \in 0 .. WindowLen
    BY <1>1, <2>2 DEF LiteralAt
  <2> QED BY <1>3, <2>3, MoveInside DEF Lit
<1>4. CASE LenOp
  <2>1. svm.ip \in DOMAIN Code /\ Instr = Code[svm.ip] /\ Instr.op = "LEN"
    BY <1>4, SvmFetched DEF LenOp
  <2>2. Instr.n \in Nat
    BY <2>1 DEF Decoded
  <2>3. svm.pos + Instr.n <= WindowLen => svm.pos + Instr.n \in 0 .. WindowLen
    BY <1>1, <2>2
  <2> QED BY <1>4, <2>3, MoveInside DEF LenOp
<1>5. CASE AnyOp \/ Notany
  <2>1. Here < SLen => svm.pos + 1 \in 0 .. WindowLen
    BY <1>1
  <2> QED BY <1>5, <2>1, MoveInside DEF AnyOp, Notany
<1>6. CASE Span
  <2>1. RunEnd(Here, Instr.set) \in Here .. SLen
    BY <1>1, RunEndInside
  <2>2. RunEnd(Here, Instr.set) - svm.base \in 0 .. WindowLen
    BY <1>1, <2>1
  <2> QED BY <1>6, <2>2, MoveInside DEF Span
<1>7. CASE Break
  <2>1. RunUntil(Here, Instr.set) \in Here .. SLen
    BY <1>1, RunUntilInside
  <2>2. RunUntil(Here, Instr.set) - svm.base \in 0 .. WindowLen
    BY <1>1, <2>1
  <2> QED BY <1>7, <2>2, MoveInside DEF Break
<1>8. CASE Tab \/ Rtab
  <2>1. svm.ip \in DOMAIN Code /\ Instr = Code[svm.ip] /\ Instr.op \in {"TAB", "RTAB"}
    BY <1>8, SvmFetched DEF Tab, Rtab
  <2>2. Instr.n \in Nat
    BY <2>1 DEF Decoded
  <2>3. Instr.n <= WindowLen => Instr.n \in 0 .. WindowLen /\ WindowLen - Instr.n \in 0 .. WindowLen
    BY <1>1, <2>2
  <2> QED BY <1>8, <2>3, MoveInside DEF Tab, Rtab
<1> QED BY <1>2, <1>3, <1>4, <1>5, <1>6, <1>7, <1>8

\* No choices, none outside.
LEMMA NoChoices == \A n : ChoicesInside(<<>>, n)
<1> SUFFICES ASSUME NEW n PROVE \E S : <<>> \in Seq(S) /\ \A c \in S : PlaceInside(c, n)
  BY DEF ChoicesInside
<1> DEFINE none == {}
<1>1. <<>> \in Seq(none) /\ \A c \in none : PlaceInside(c, n)
  OBVIOUS
<1> HIDE DEF none
<1> QED BY <1>1

\* Instructions that leave the position alone.
LEMMA SvmStayStep ==
    ASSUME SvmInside(svm), SLen \in Nat, Decoded(Code),
           \/ EndOfCode \/ Nop \/ Fence \/ Accept \/ Abort \/ Fail
           \/ CapStart \/ CapEnd \/ Assign \/ Jmp
    PROVE  SvmGoesOn
<1>1. CASE EndOfCode \/ Fail
  BY <1>1, BacktrackInside DEF EndOfCode, Fail, SvmGoesOn
<1>2. CASE Nop
  BY <1>2, StepInside DEF Nop, SvmGoesOn
<1>3. CASE Fence
  <2> DEFINE s == Step(svm)
             m == [s EXCEPT !.choices = <<>>]
  <2>1. SvmInside(s) /\ s.base = svm.base
    BY StepInside
  <2> HIDE DEF s
  <2>2. IsSvm(m) /\ m.base = s.base /\ m.ip = s.ip /\ m.pos = s.pos /\ m.choices = <<>>
    BY <2>1 DEF SvmInside, IsSvm, SvmFields
  <2>3. ChoicesInside(<<>>, SLen - s.base)
    BY NoChoices
  <2>4. svm' = m
    BY <1>3 DEF Fence, s
  <2> HIDE DEF m
  <2>5. SvmInside(m)
    BY <2>1, <2>2, <2>3 DEF SvmInside, PlaceInside
  <2> QED BY <2>1, <2>2, <2>4, <2>5 DEF SvmGoesOn
<1>4. CASE Accept \/ Abort
  <2>1. \A x : LET m == [svm EXCEPT !["status"] = x] IN SvmInside(m) /\ m.base = svm.base
    BY FreeFields
  <2> QED BY <1>4, <2>1 DEF Accept, Abort, SvmGoesOn
<1>5. CASE CapStart \/ CapEnd \/ Assign
  <2>1. \A r : LET m == [Step(svm) EXCEPT !.regs = r] IN SvmInside(m) /\ m.base = svm.base
    BY StepInside
  <2>2. PICK r : svm' = [Step(svm) EXCEPT !.regs = r]
    BY <1>5 DEF CapStart, CapEnd, Assign
  <2> QED BY <2>1, <2>2 DEF SvmGoesOn
<1>6. CASE Jmp
  <2>1. svm.ip \in DOMAIN Code /\ Instr = Code[svm.ip] /\ Instr.op = "JMP"
    BY <1>6, SvmFetched DEF Jmp
  <2>2. Instr.target \in Nat \ {0}
    BY <2>1 DEF Decoded
  <2>3. LET m == [svm EXCEPT !["ip"] = Instr.target] IN SvmInside(m) /\ m.base = svm.base
    BY <2>2, FreeFields
  <2> QED BY <1>6, <2>3 DEF Jmp, SvmGoesOn
<1> QED BY <1>1, <1>2, <1>3, <1>4, <1>5, <1>6

\* BREAKX, and the instructions of loops and alternations.
LEMMA SvmBranchStep ==
    ASSUME SvmInside(svm), SLen \in Nat, Decoded(Code),
           Breakx \/ Split \/ RepeatInit \/ RepeatStep
    PROVE  SvmGoesOn
<1>1. /\ WindowLen \in Nat /\ svm.base \in 0 .. SLen /\ svm.pos \in 0 .. WindowLen
      /\ Here = svm.base + svm.pos /\ Here \in 0 .. SLen /\ WindowLen = SLen - svm.base
  BY SvmHere DEF WindowLen
<1>2. svm.ip \in Nat \ {0} /\ svm.ip + 1 \in Nat \ {0}
  BY DEF SvmInside, PlaceInside
<1>3. CASE Breakx
  <2> DEFINE end == RunUntil(Here, Instr.set) - svm.base
             s == IF end < WindowLen THEN PushChoice(svm, svm.ip, end + 1) ELSE svm
  <2>1. RunUntil(Here, Instr.set) \in Here .. SLen
    BY <1>1, RunUntilInside
  <2>2. end \in 0 .. WindowLen /\ (end < WindowLen => end + 1 \in 0 .. WindowLen)
    BY <1>1, <2>1
  <2>3. svm' = [Step(s) EXCEPT !.pos = end]
    BY <1>3 DEF Breakx
  <2> HIDE DEF end
  <2>4. SvmInside(s) /\ s.base = svm.base
    <3>1. CASE end < WindowLen
      <4>1. end + 1 \in 0 .. SLen - svm.base
        BY <1>1, <2>2, <3>1
      <4> DEFINE p == end + 1
      <4> HIDE DEF p
      <4>2. SvmInside(PushChoice(svm, svm.ip, p)) /\ PushChoice(svm, svm.ip, p).base = svm.base
        BY <1>2, <4>1, PushInside DEF p
      <4> QED BY <3>1, <4>2 DEF p
    <3>2. CASE ~(end < WindowLen)
      BY <3>2
    <3> QED BY <3>1, <3>2
  <2> HIDE DEF s
  <2>5. end \in 0 .. SLen - s.base
    BY <1>1, <2>2, <2>4
  <2> QED BY <2>3, <2>4, <2>5, StepInside DEF SvmGoesOn
<1>4. CASE Split
  <2> DEFINE s == PushChoice(svm, Instr.b, svm.pos)
  <2>1. svm.ip \in DOMAIN Code /\ Instr = Code[svm.ip] /\ Instr.op = "SPLIT"
    BY <1>4, SvmFetched DEF Split
  <2>2. Instr.a \in Nat \ {0} /\ Instr.b \in Nat \ {0}
    BY <2>1 DEF Decoded
  <2>3. SvmInside(s) /\ s.base = svm.base
    BY <1>1, <2>2, PushInside
  <2>4. svm' = [s EXCEPT !.ip = Instr.a]
    BY <1>4 DEF Split
  <2> HIDE DEF s
  <2>5. LET m == [s EXCEPT !["ip"] = Instr.a] IN SvmInside(m) /\ m.base = s.base
    BY <2>2, <2>3, FreeFields
  <2> QED BY <2>3, <2>4, <2>5 DEF SvmGoesOn
<1>5. CASE RepeatInit
  <2> DEFINE r == [svm.regs EXCEPT !.loop[Instr.loop] = <<0, svm.pos>>]
             s == [svm EXCEPT !["regs"] = r]
             t == IF Instr.min = 0 THEN PushChoice(s, Instr.skip, svm.pos) ELSE s
  <2>1. svm.ip \in DOMAIN Code /\ Instr = Code[svm.ip] /\ Instr.op = "REPEAT_INIT"
    BY <1>5, SvmFetched DEF RepeatInit
  <2>2. Instr.skip \in Nat \ {0}
    BY <2>1 DEF Decoded
  <2>3. svm' = Step(t)
    BY <1>5 DEF RepeatInit
  <2> HIDE DEF r
  <2>4. SvmInside(s) /\ s.base = svm.base
    BY FreeFields
  <2> HIDE DEF s
  <2>5. SvmInside(t) /\ t.base = svm.base
    <3>1. svm.pos \in 0 .. SLen - s.base
      BY <1>1, <2>4
    <3>2. SvmInside(PushChoice(s, Instr.skip, svm.pos))
          /\ PushChoice(s, Instr.skip, svm.pos).base = s.base
      BY <2>2, <2>4, <3>1, PushInside
    <3> QED BY <2>4, <3>2
  <2> HIDE DEF t
  <2> QED BY <2>3, <2>5, StepInside DEF SvmGoesOn
<1>6. CASE RepeatStep
  <2> DEFINE l == Instr.loop
             count == svm.regs.loop[l][1] + 1
             r == [svm.regs EXCEPT !.loop[l][1] = count]
             s == [svm EXCEPT !["regs"] = r]
             q == [r EXCEPT !.loop[l][2] = svm.pos]
             u == [s EXCEPT !["regs"] = q]
             again == [u EXCEPT !["ip"] = Instr.target]
             c == PushChoice(s, svm.ip + 1, svm.pos)
             d == [c EXCEPT !["regs"] = q]
             both == [d EXCEPT !["ip"] = Instr.target]
  <2>1. svm.ip \in DOMAIN Code /\ Instr = Code[svm.ip] /\ Instr.op = "REPEAT_STEP"
    BY <1>6, SvmFetched DEF RepeatStep
  <2>2. Instr.target \in Nat \ {0}
    BY <2>1 DEF Decoded
  <2>3. svm' \in {again, Step(s), both}
    <3>1. IsSvm(svm)
      BY DEF SvmInside
    <3> QED BY <1>6, <3>1 DEF RepeatStep, IsSvm, SvmFields
  <2> HIDE DEF r, q
  <2>4. SvmInside(s) /\ s.base = svm.base
    BY FreeFields
  <2> HIDE DEF s
  <2>5. SvmInside(u) /\ u.base = svm.base
    BY <2>4, FreeFields
  <2> HIDE DEF u
  <2>6. SvmInside(again) /\ again.base = svm.base
    BY <2>2, <2>5, FreeFields
  <2>7. SvmInside(c) /\ c.base = svm.base
    <3>1. svm.pos \in 0 .. SLen - s.base
      BY <1>1, <2>4
    <3> DEFINE n == svm.ip + 1
    <3> HIDE DEF n
    <3>2. SvmInside(PushChoice(s, n, svm.pos)) /\ PushChoice(s, n, svm.pos).base = s.base
      BY <1>2, <2>4, <3>1, PushInside DEF n
    <3> QED BY <2>4, <3>2 DEF n
  <2> HIDE DEF c
  <2>8. SvmInside(d) /\ d.base = svm.base
    BY <2>7, FreeFields
  <2> HIDE DEF d
  <2>9. SvmInside(both) /\ both.base = svm.base
    BY <2>2, <2>8, FreeFields
  <2>10. SvmInside(Step(s)) /\ Step(s).base = svm.base
    BY <2>4, StepInside
  <2> HIDE DEF again, both
  <2> QED BY <2>3, <2>6, <2>9, <2>10 DEF SvmGoesOn
<1> QED BY <1>3, <1>4, <1>5, <1>6

\* No step leads out of the window.
LEMMA SvmStepInside ==
    ASSUME SvmInside(svm), SLen \in Nat, Decoded(Code), SvmStep
    PROVE  SvmGoesOn
BY SvmMoveStep, SvmStayStep, SvmBranchStep DEF SvmStep

\* A run begins at the start of its window.
LEMMA SvmBegins ==
    ASSUME SLen \in Nat, NEW o \in 0 .. SLen
    PROVE  SvmInside(SvmAt(o)) /\ SvmAt(o).base = o
<1>1. ChoicesInside(<<>>, SLen - o)
  BY NoChoices
<1>2. IsSvm(SvmAt(o)) /\ SvmAt(o).base = o /\ SvmAt(o).ip = 1 /\ SvmAt(o).pos = 0
      /\ SvmAt(o).choices = <<>>
  BY DEF SvmAt, IsSvm, SvmFields
<1> QED BY <1>1, <1>2 DEF SvmInside, PlaceInside

(***************************************************************************)
(* The automaton and the fused segments end inside the subject.            *)
(***************************************************************************)
\* The least of some positions is one of them.
LEMMA LeastOf ==
    ASSUME NEW S, S \subseteq Nat, S # {}
    PROVE  (CHOOSE q \in S : \A x \in S : q <= x) \in S
<1>1. \E q \in S : \A x \in S : q <= x
  BY LeastExists
<1> QED BY <1>1

\* A walk of the automaton ends where it has been.
LEMMA WalkEndInside ==
    ASSUME SLen \in Nat, NEW dfa, NEW p \in 0 .. SLen
    PROVE  WalkEnd(dfa, p) \in {-1, -2} \cup p .. SLen
<1> DEFINE at == CHOOSE at : at = [q \in p .. SLen |->
                    IF q = p THEN dfa.start
                    ELSE IF at[q - 1] = {} THEN {} ELSE dfa.trans[at[q - 1]][ByteAt(q - 1)]]
           ends == {q \in p .. SLen : at[q] \in dfa.accepting}
           first == CHOOSE q \in ends : \A x \in ends : q <= x
<1>1. WalkEnd(dfa, p) = IF ends # {} THEN first ELSE IF at[SLen] # {} THEN -1 ELSE -2
  BY DEF WalkEnd
<1> HIDE DEF at
<1>2. ends # {} => first \in p .. SLen
  <2> SUFFICES ASSUME ends # {} PROVE first \in p .. SLen
    OBVIOUS
  <2>1. ends \subseteq Nat /\ ends \subseteq p .. SLen
    OBVIOUS
  <2> HIDE DEF ends
  <2> QED BY <2>1, LeastOf
<1> HIDE DEF first, ends
<1> QED BY <1>1, <1>2

\* The walks from an offset on, and the walk from that offset.
LEMMA AutomatonInside ==
    ASSUME SLen \in Nat, NEW dfa, NEW o \in 0 .. SLen
    PROVE  /\ LET r == AutomatonExec(dfa, o)
              IN  r.success => r.start \in o .. SLen /\ r.end \in r.start .. SLen
           /\ LET r == AutomatonExecAnchored(dfa, o)
              IN  r.success => r.start \in o .. SLen /\ r.end \in r.start .. SLen
<1>1. \A p \in o .. SLen : WalkEnd(dfa, p) \in {-1, -2} \cup p .. SLen
  BY WalkEndInside
<1> DEFINE alive == {p \in o .. SLen : WalkEnd(dfa, p) # -2}
           first == CHOOSE p \in alive : \A x \in alive : p <= x
<1>2. AutomatonExec(dfa, o) = IF alive = {} \/ WalkEnd(dfa, first) = -1 THEN NoMatch
                              ELSE Match(first, WalkEnd(dfa, first))
  BY DEF AutomatonExec
<1>3. alive # {} => first \in o .. SLen /\ WalkEnd(dfa, first) # -2
  <2> SUFFICES ASSUME alive # {} PROVE first \in alive
    OBVIOUS
  <2>1. alive \subseteq Nat
    OBVIOUS
  <2> HIDE DEF alive
  <2> QED BY <2>1, LeastOf
<1> HIDE DEF alive, first
<1>4. ~(alive = {} \/ WalkEnd(dfa, first) = -1) =>
        first \in o .. SLen /\ WalkEnd(dfa, first) \in first .. SLen
  BY <1>1, <1>3
<1>5. LET r == AutomatonExec(dfa, o)
      IN  r.success => r.start \in o .. SLen /\ r.end \in r.start .. SLen
  <2> DEFINE q == WalkEnd(dfa, first)
  <2>1. NoMatch.success = FALSE /\ Match(first, q).start = first /\ Match(first, q).end = q
    BY DEF NoMatch, Match
  <2> HIDE DEF q
  <2> QED BY <1>2, <1>4, <2>1 DEF q
<1>6. WalkEnd(dfa, o) >= 0 => o \in o .. SLen /\ WalkEnd(dfa, o) \in o .. SLen
  BY <1>1
<1>7. LET r == AutomatonExecAnchored(dfa, o)
      IN  r.success => r.start \in o .. SLen /\ r.end \in r.start .. SLen
  <2> DEFINE q == WalkEnd(dfa, o)
  <2>1. NoMatch.success = FALSE /\ Match(o, q).start = o /\ Match(o, q).end = q
    BY DEF NoMatch, Match
  <2>2. AutomatonExecAnchored(dfa, o) = IF q >= 0 THEN Match(o, q) ELSE NoMatch
    BY DEF AutomatonExecAnchored
  <2> HIDE DEF q
  <2> QED BY <1>6, <2>1, <2>2 DEF q
<1> QED BY <1>5, <1>7

\* The function f goes through the first n steps from p on.
Goes(steps, p, f, n) ==
    f = [i \in 0 .. n |-> IF i = 0 THEN p ELSE IF f[i - 1] = -1 THEN -1 ELSE steps[i][f[i - 1]]]

\* Any number of steps can be gone.
LEMMA GoingExists ==
    ASSUME NEW steps, NEW p, NEW n \in Nat
    PROVE  \E f : Goes(steps, p, f, n)
<1> DEFINE Bad == {m \in Nat : ~\E f : Goes(steps, p, f, m)}
<1> SUFFICES ASSUME n \in Bad PROVE FALSE
  OBVIOUS
<1>1. PICK m \in Bad : \A x \in Bad : m <= x
  <2>1. Bad \subseteq Nat /\ Bad # {}
    OBVIOUS
  <2> HIDE DEF Bad
  <2> QED BY <2>1, LeastExists
<1>2. m \in Nat /\ ~\E f : Goes(steps, p, f, m)
  OBVIOUS
<1>3. CASE m = 0
  <2> DEFINE g == [k \in 0 .. 0 |-> p]
  <2>1. Goes(steps, p, g, 0)
    BY DEF Goes
  <2> QED BY <1>2, <1>3, <2>1
<1>4. CASE m # 0
  <2>1. m - 1 \in Nat /\ m - 1 \notin Bad
    BY <1>1, <1>2, <1>4
  <2>2. PICK f : Goes(steps, p, f, m - 1)
    BY <2>1
  <2> DEFINE Reached(i, h) == IF i = 0 THEN p ELSE IF h[i - 1] = -1 THEN -1 ELSE steps[i][h[i - 1]]
             g == [k \in 0 .. m |-> IF k = m THEN Reached(m, f) ELSE f[k]]
  <2>3. ASSUME NEW k \in 0 .. m PROVE g[k] = Reached(k, g)
    <3>1. CASE k = m
      <4>1. k - 1 \in 0 .. m /\ k - 1 # m /\ k # 0
        BY <1>2, <1>4, <3>1
      <4>2. g[k - 1] = f[k - 1]
        BY <4>1
      <4> QED BY <3>1, <4>1, <4>2
    <3>2. CASE k # m
      <4>1. k \in 0 .. m - 1 /\ (k # 0 => k - 1 \in 0 .. m /\ k - 1 # m)
        BY <1>2, <3>2
      <4>2. f[k] = Reached(k, f)
        BY <2>2, <4>1 DEF Goes
      <4>3. g[k] = f[k] /\ (k # 0 => g[k - 1] = f[k - 1])
        BY <3>2, <4>1
      <4> QED BY <4>2, <4>3
    <3> QED BY <3>1, <3>2
  <2>4. g = [k \in 0 .. m |-> g[k]]
    OBVIOUS
  <2> HIDE DEF g
  <2>5. g = [k \in 0 .. m |-> Reached(k, g)]
    BY <2>3, <2>4
  <2>6. Goes(steps, p, g, m)
    BY <2>5 DEF Goes
  <2> QED BY <1>2, <2>6
<1> QED BY <1>3, <1>4

\* Steps that go on inside the subject lead through it.
Onwards(steps) ==
    \A n \in 1 .. Len(steps) : \A q \in 0 .. SLen : steps[n][q] \in {-1} \cup q .. SLen

\* Where the first step begins, and where each of the next ones.
LEMMA ThroughInside ==
    ASSUME SLen \in Nat, NEW steps, Len(steps) \in Nat, Onwards(steps), NEW p \in 0 .. SLen
    PROVE  Through(steps, p) \in {-1} \cup p .. SLen
<1> DEFINE f == CHOOSE f : Goes(steps, p, f, Len(steps))
<1>1. Through(steps, p) = f[Len(steps)]
  BY DEF Through, Goes
<1>2. Goes(steps, p, f, Len(steps))
  BY GoingExists
<1> HIDE DEF f
<1>3. \A i \in 0 .. Len(steps) :
        f[i] = IF i = 0 THEN p ELSE IF f[i - 1] = -1 THEN -1 ELSE steps[i][f[i - 1]]
  BY <1>2 DEF Goes
<1> DEFINE Bad == {n \in 0 .. Len(steps) : f[n] \notin {-1} \cup p .. SLen}
<1>4. Bad = {}
  <2> SUFFICES ASSUME Bad # {} PROVE FALSE
    OBVIOUS
  <2>1. PICK m \in Bad : \A x \in Bad : m <= x
    <3>1. Bad \subseteq Nat
      OBVIOUS
    <3> HIDE DEF Bad
    <3> QED BY <3>1, LeastExists
  <2>2. m \in 0 .. Len(steps) /\ f[m] \notin {-1} \cup p .. SLen
    OBVIOUS
  <2>3. CASE m = 0
    BY <1>3, <2>2, <2>3
  <2>4. CASE m # 0
    <3>1. m - 1 \in 0 .. Len(steps) /\ m \in 1 .. Len(steps) /\ m - 1 \notin Bad
      BY <2>1, <2>2, <2>4
    <3>2. f[m - 1] \in {-1} \cup p .. SLen
      BY <3>1
    <3>3. f[m] = IF f[m - 1] = -1 THEN -1 ELSE steps[m][f[m - 1]]
      BY <1>3, <2>2, <2>4
    <3>4. f[m - 1] # -1 => f[m] \in {-1} \cup f[m - 1] .. SLen
      BY <3>1, <3>2, <3>3 DEF Onwards
    <3> HIDE DEF Bad
    <3> QED BY <2>2, <3>2, <3>3, <3>4
  <2> QED BY <2>3, <2>4
<1> QED BY <1>1, <1>4

\* The function f gathers from the addresses from m on.
Gathers(code, stops, part, f, m) ==
    f = [k \in m .. Len(code) + 1 |->
            IF k > Len(code) \/ code[k].op \in stops THEN <<>> ELSE part[k] \o f[k + 1]]

\* It can be gathered from every address on.
LEMMA GatheringExists ==
    ASSUME NEW code, Len(code) \in Nat, NEW stops, NEW part
    PROVE  \E f : Gathers(code, stops, part, f, 1)
<1> DEFINE N == Len(code)
           From(k, f) == IF k > N \/ code[k].op \in stops THEN <<>> ELSE part[k] \o f[k + 1]
           Bad == {d \in 0 .. N : ~\E f : Gathers(code, stops, part, f, N + 1 - d)}
<1>1. Bad = {}
  <2> SUFFICES ASSUME Bad # {} PROVE FALSE
    OBVIOUS
  <2>1. PICK d \in Bad : \A x \in Bad : d <= x
    <3>1. Bad \subseteq Nat
      OBVIOUS
    <3> HIDE DEF Bad
    <3> QED BY <3>1, LeastExists
  <2>2. d \in 0 .. N /\ ~\E f : Gathers(code, stops, part, f, N + 1 - d)
    OBVIOUS
  <2> DEFINE m == N + 1 - d
  <2>3. m \in 1 .. N + 1
    BY <2>2
  <2>4. CASE d = 0
    <3> DEFINE g == [k \in N + 1 .. N + 1 |-> <<>>]
    <3>1. ASSUME NEW k \in N + 1 .. N + 1 PROVE g[k] = From(k, g)
      <4>1. k > N /\ g[k] = <<>>
        OBVIOUS
      <4> HIDE DEF g
      <4> QED BY <4>1
    <3>2. g = [k \in N + 1 .. N + 1 |-> g[k]]
      OBVIOUS
    <3> HIDE DEF g
    <3>3. g = [k \in N + 1 .. N + 1 |-> From(k, g)]
      BY <3>1, <3>2
    <3>4. Gathers(code, stops, part, g, N + 1)
      BY <3>3 DEF Gathers
    <3> QED BY <2>2, <2>4, <3>4
  <2>5. CASE d # 0
    <3>1. d - 1 \in 0 .. N /\ d - 1 \notin Bad /\ N + 1 - (d - 1) = m + 1
      BY <2>1, <2>2, <2>5
    <3>2. PICK f : Gathers(code, stops, part, f, m + 1)
      BY <3>1
    <3>3. m \in 1 .. N
      BY <2>2, <2>5
    <3> DEFINE g == [k \in m .. N + 1 |-> IF k = m THEN From(m, f) ELSE f[k]]
    <3>4. ASSUME NEW k \in m .. N + 1 PROVE g[k] = From(k, g)
      <4>1. k # N + 1 => k + 1 \in m + 1 .. N + 1 /\ g[k + 1] = f[k + 1]
        BY <3>3
      <4>2. CASE k = m
        BY <3>3, <4>1, <4>2
      <4>3. CASE k # m
        <5>1. k \in m + 1 .. N + 1
          BY <3>3, <4>3
        <5>2. f[k] = From(k, f)
          BY <3>2, <5>1 DEF Gathers
        <5>3. g[k] = f[k]
          BY <4>3
        <5> HIDE DEF g, m
        <5>4. k > N \/ k # N + 1
          BY <5>1
        <5> QED BY <4>1, <5>2, <5>3, <5>4
      <4> QED BY <4>2, <4>3
    <3>5. g = [k \in m .. N + 1 |-> g[k]]
      OBVIOUS
    <3> HIDE DEF g, m
    <3>6. g = [k \in m .. N + 1 |-> From(k, g)]
      BY <3>4, <3>5
    <3>7. Gathers(code, stops, part, g, m)
      BY <3>6 DEF Gathers
    <3> QED BY <2>2, <3>7 DEF m
  <2> QED BY <2>4, <2>5
<1>2. N \in 0 .. N /\ N \notin Bad /\ N + 1 - N = 1
  BY <1>1
<1> QED BY <1>2

\* What is gathered consists of the parts.
LEMMA GatheredParts ==
    ASSUME NEW code, Len(code) \in Nat, NEW stops, NEW part, NEW S,
           \A k \in 1 .. Len(code) : part[k] \in Seq(S), NEW start \in 1 .. Len(code) + 1
    PROVE  Gather(code, start, stops, part) \in Seq(S)
<1> DEFINE f == CHOOSE f : Gathers(code, stops, part, f, 1)
           N == Len(code)
           Bad == {d \in 0 .. N : f[N + 1 - d] \notin Seq(S)}
<1>1. Gather(code, start, stops, part) = f[start]
  BY DEF Gather, Gathers
<1>2. Gathers(code, stops, part, f, 1)
  BY GatheringExists
<1> HIDE DEF f
<1>3. \A k \in 1 .. N + 1 :
        f[k] = IF k > N \/ code[k].op \in stops THEN <<>> ELSE part[k] \o f[k + 1]
  BY <1>2 DEF Gathers
<1>4. Bad = {}
  <2> SUFFICES ASSUME Bad # {} PROVE FALSE
    OBVIOUS
  <2>1. PICK d \in Bad : \A x \in Bad : d <= x
    <3>1. Bad \subseteq Nat
      OBVIOUS
    <3> HIDE DEF Bad
    <3> QED BY <3>1, LeastExists
  <2> DEFINE k == N + 1 - d
  <2>2. d \in 0 .. N /\ k \in 1 .. N + 1 /\ f[k] \notin Seq(S)
    OBVIOUS
  <2>3. f[k] = IF k > N \/ code[k].op \in stops THEN <<>> ELSE part[k] \o f[k + 1]
    BY <1>3, <2>2
  <2>4. ~(k > N) => f[k + 1] \in Seq(S)
    <3> SUFFICES ASSUME ~(k > N) PROVE f[k + 1] \in Seq(S)
      OBVIOUS
    <3>1. d - 1 \in 0 .. N /\ d - 1 < d /\ N + 1 - (d - 1) = k + 1
      BY <2>2
    <3>2. d - 1 \notin Bad
      <4> HIDE DEF Bad
      <4> QED BY <2>1, <2>2, <3>1
    <3> QED BY <3>1, <3>2
  <2> HIDE DEF k, Bad
  <2>5. <<>> \in Seq(S)
    OBVIOUS
  <2>6. ~(k > N) => part[k] \o f[k + 1] \in Seq(S)
    <3> SUFFICES ASSUME ~(k > N) PROVE part[k] \o f[k + 1] \in Seq(S)
      OBVIOUS
    <3>1. part[k] \in Seq(S)
      BY <2>2
    <3> QED BY <2>4, <3>1
  <2> QED BY <2>2, <2>3, <2>5, <2>6
<1>5. N + 1 - start \in 0 .. N /\ N + 1 - (N + 1 - start) = start
  OBVIOUS
<1>6. N + 1 - start \notin Bad
  BY <1>4
<1> QED BY <1>1, <1>5, <1>6

\* A segment that is one instruction.
Segments(code) == {Segment(code[k]) : k \in DOMAIN code} \ {Refused}

\* Without a refused one, a sequence of segments.
LEMMA NoneRefused ==
    ASSUME NEW S, NEW segs \in Seq(S), Refused \notin ToSet(segs)
    PROVE  segs \in Seq(S \ {Refused})
<1>1. \A n \in 1 .. Len(segs) : segs[n] \in S /\ segs[n] # Refused
  <2>1. \A n \in 1 .. Len(segs) : segs[n] \in ToSet(segs)
    BY DEF ToSet
  <2> QED BY <2>1
<1> QED BY <1>1

\* The branch of a SPLIT has segments of one instruction each.
LEMMA BranchSegments ==
    ASSUME NEW code, Decoded(code), NEW start \in 1 .. Len(code)
    PROVE  FusionBranch(code, start) \in Seq(Segments(code))
<1> DEFINE part == [k \in DOMAIN code |-> IF Skipped(code[k]) THEN <<>> ELSE <<Segment(code[k])>>]
           S == {Segment(code[k]) : k \in DOMAIN code}
           segs == Gather(code, start, {"ACCEPT", "SUCCEED", "JMP"}, part)
<1>1. \A k \in 1 .. Len(code) : part[k] \in Seq(S)
  <2> SUFFICES ASSUME NEW k \in 1 .. Len(code) PROVE part[k] \in Seq(S)
    OBVIOUS
  <2>1. k \in DOMAIN code
    BY DEF Decoded
  <2>2. Segment(code[k]) \in S
    BY <2>1
  <2>3. part[k] = IF Skipped(code[k]) THEN <<>> ELSE <<Segment(code[k])>>
    BY <2>1
  <2> HIDE DEF S, part
  <2> QED BY <2>2, <2>3
<1>2. Len(code) \in Nat /\ start \in 1 .. Len(code) + 1
  BY DEF Decoded
<1>3. segs \in Seq(S)
  <2> HIDE DEF part, S
  <2> QED BY <1>1, <1>2, GatheredParts
<1>4. FusionBranch(code, start) =
        IF Refused \in ToSet(segs) \/ Len(segs) > MAX_FUSION_SEGMENTS THEN <<>> ELSE segs
  BY DEF FusionBranch
<1> HIDE DEF segs, S
<1>5. Refused \notin ToSet(segs) => segs \in Seq(S \ {Refused})
  BY <1>3, NoneRefused
<1>6. S \ {Refused} = Segments(code)
  BY DEF S, Segments
<1>7. <<>> \in Seq(Segments(code))
  OBVIOUS
<1> QED BY <1>4, <1>5, <1>6, <1>7

\* The segments of an alternation, each with two branches.
AltSegments(code) ==
    {s \in {AltSegment(code, code[k]) : k \in {x \in DOMAIN code : code[x].op = "SPLIT"}} : s # Refused}

\* A program has segments of one instruction, alternations and empty literals.
LEMMA FusedSegments ==
    ASSUME NEW code, Decoded(code)
    PROVE  FusionSegments(code) \in
             Seq(Segments(code) \cup AltSegments(code) \cup {[type |-> "lit", text |-> <<>>]})
<1> DEFINE empty == [type |-> "lit", text |-> <<>>]
           alts == {AltSegment(code, code[k]) : k \in {x \in DOMAIN code : code[x].op = "SPLIT"}}
           S == {Segment(code[k]) : k \in DOMAIN code} \cup alts \cup {empty}
           part == [k \in DOMAIN code |->
                      IF Skipped(code[k]) THEN <<>>
                      ELSE IF code[k].op = "SPLIT" THEN <<AltSegment(code, code[k]), empty>>
                      ELSE <<Segment(code[k])>>]
           segs == Gather(code, 1, {"ACCEPT", "SUCCEED"}, part)
<1>1. \A k \in 1 .. Len(code) : part[k] \in Seq(S)
  <2> SUFFICES ASSUME NEW k \in 1 .. Len(code) PROVE part[k] \in Seq(S)
    OBVIOUS
  <2>1. k \in DOMAIN code
    BY DEF Decoded
  <2>2. code[k].op = "SPLIT" => AltSegment(code, code[k]) \in S /\ empty \in S
    BY <2>1
  <2>3. Segment(code[k]) \in S
    BY <2>1
  <2>4. part[k] = IF Skipped(code[k]) THEN <<>>
                  ELSE IF code[k].op = "SPLIT" THEN <<AltSegment(code, code[k]), empty>>
                  ELSE <<Segment(code[k])>>
    BY <2>1
  <2> HIDE DEF S, part, empty
  <2> QED BY <2>2, <2>3, <2>4
<1>2. Len(code) \in Nat /\ 1 \in 1 .. Len(code) + 1
  BY DEF Decoded
<1>3. segs \in Seq(S)
  <2> HIDE DEF part, S
  <2> QED BY <1>1, <1>2, GatheredParts
<1>4. FusionSegments(code) =
        IF Refused \in ToSet(segs) \/ Len(segs) > MAX_FUSION_SEGMENTS \/ Len(segs) < 2
          THEN <<>> ELSE segs
  BY DEF FusionSegments
<1> HIDE DEF segs, S
<1>5. Refused \notin ToSet(segs) => segs \in Seq(S \ {Refused})
  BY <1>3, NoneRefused
<1> DEFINE T == Segments(code) \cup AltSegments(code) \cup {empty}
<1>6. S \ {Refused} \subseteq T
  BY DEF S, Segments, AltSegments
<1>7. <<>> \in Seq(T)
  OBVIOUS
<1> HIDE DEF T, S
<1>8. segs \in Seq(S \ {Refused}) => segs \in Seq(T)
  BY <1>6
<1>9. FusionSegments(code) \in Seq(T)
  BY <1>4, <1>5, <1>7, <1>8
<1> QED BY <1>9 DEF T

\* What a segment of one instruction is.
Basic(seg) == seg.type \in {"lit", "char", "run"} /\ (seg.type = "lit" => Len(seg.text) \in Nat)

\* Every instruction gives such a segment.
LEMMA SegmentKinds ==
    ASSUME NEW code, Decoded(code), NEW seg \in Segments(code)
    PROVE  Basic(seg)
<1>1. PICK k \in DOMAIN code : seg = Segment(code[k])
  BY DEF Segments
<1>2. seg # Refused
  BY DEF Segments
<1> DEFINE i == code[k]
<1>3. i.op = "LIT" => Len(i.text) \in Nat
  BY DEF Decoded
<1> HIDE DEF i
<1>4. CASE i.op = "LIT"
  <2>1. seg = [type |-> "lit", text |-> i.text]
    BY <1>1, <1>4 DEF Segment, ClassOps, i
  <2> QED BY <1>3, <1>4, <2>1 DEF Basic
<1>5. CASE i.op # "LIT" /\ i.op \in ClassOps \ {"BREAKX"} /\ AsciiOnly(i.set)
  <2> DEFINE t == IF i.op \in {"ANY", "NOTANY"} THEN "char" ELSE "run"
             s == IF i.op \in {"NOTANY", "BREAK"} THEN Bytes \ i.set ELSE i.set
             n == IF i.op = "SPAN" THEN 1 ELSE 0
  <2>1. seg = [type |-> t, set |-> s, min |-> n]
    BY <1>1, <1>5 DEF Segment, i
  <2>2. t \in {"char", "run"}
    OBVIOUS
  <2> HIDE DEF t, s, n
  <2>3. seg.type = t
    BY <2>1
  <2> QED BY <2>2, <2>3 DEF Basic
<1>6. CASE i.op # "LIT" /\ ~(i.op \in ClassOps \ {"BREAKX"} /\ AsciiOnly(i.set))
  BY <1>1, <1>2, <1>6 DEF Segment, i
<1> QED BY <1>4, <1>5, <1>6

\* A segment that matches ends inside the subject.
LEMMA SegmentInside ==
    ASSUME SLen \in Nat, NEW seg, Basic(seg), NEW p \in 0 .. SLen
    PROVE  SegmentEnd(seg, p) \in {-1} \cup p .. SLen
<1>1. CASE seg.type = "lit"
  <2>1. SegmentEnd(seg, p) = IF LiteralAt(seg.text, p) THEN p + Len(seg.text) ELSE -1
    BY <1>1 DEF SegmentEnd
  <2>2. LiteralAt(seg.text, p) => p + Len(seg.text) <= SLen
    BY DEF LiteralAt
  <2>3. Len(seg.text) \in Nat
    BY <1>1 DEF Basic
  <2> QED BY <2>1, <2>2, <2>3
<1>2. CASE seg.type = "char"
  <2>1. SegmentEnd(seg, p) = IF p < SLen /\ ByteAt(p) \in seg.set THEN p + 1 ELSE -1
    BY <1>2 DEF SegmentEnd
  <2> QED BY <2>1
<1>3. CASE seg.type = "run"
  <2>1. SegmentEnd(seg, p) \in {RunEnd(p, seg.set), -1}
    BY <1>3 DEF SegmentEnd
  <2>2. RunEnd(p, seg.set) \in p .. SLen
    BY RunEndInside
  <2> QED BY <2>1, <2>2
<1> QED BY <1>1, <1>2, <1>3 DEF Basic

\* So do the segments of a branch.
LEMMA BranchInside ==
    ASSUME SLen \in Nat, NEW segs, Len(segs) \in Nat, DOMAIN segs = 1 .. Len(segs),
           \A n \in 1 .. Len(segs) : Basic(segs[n]), NEW p \in 0 .. SLen
    PROVE  BranchEnd(segs, p) \in {-1} \cup p .. SLen
<1> DEFINE steps == [n \in DOMAIN segs |-> [q \in 0 .. SLen |-> SegmentEnd(segs[n], q)]]
<1>1. \A n \in 1 .. Len(segs) : \A q \in 0 .. SLen :
        steps[n][q] = SegmentEnd(segs[n], q) /\ SegmentEnd(segs[n], q) \in {-1} \cup q .. SLen
  BY SegmentInside
<1>2. Len(steps) = Len(segs)
  <2>1. steps = [n \in 1 .. Len(segs) |-> [q \in 0 .. SLen |-> SegmentEnd(segs[n], q)]]
    OBVIOUS
  <2> HIDE DEF steps
  <2>2. DOMAIN steps = 1 .. Len(segs)
    BY <2>1
  <2>3. steps \in Seq({steps[n] : n \in 1 .. Len(segs)})
    BY <2>1
  <2> QED BY <2>2, <2>3
<1>3. BranchEnd(segs, p) = Through(steps, p)
  BY DEF BranchEnd
<1> HIDE DEF steps
<1>4. Onwards(steps)
  BY <1>1, <1>2 DEF Onwards
<1> QED BY <1>2, <1>3, <1>4, ThroughInside

\* So does an alternation, whichever branch matches.
LEMMA AltInside ==
    ASSUME SLen \in Nat, NEW code, Decoded(code), Forward(code), NEW seg \in AltSegments(code),
           NEW p \in 0 .. SLen
    PROVE  seg.type = "alt" /\ AltEnd(seg.alts, p) \in {-1} \cup p .. SLen
<1>1. PICK k \in DOMAIN code : code[k].op = "SPLIT" /\ seg = AltSegment(code, code[k])
  BY DEF AltSegments
<1>2. seg # Refused
  BY DEF AltSegments
<1> DEFINE l == FusionBranch(code, code[k].a)
           r == FusionBranch(code, code[k].b)
<1>3. code[k].a \in 1 .. Len(code) /\ code[k].b \in 1 .. Len(code)
  BY <1>1 DEF Decoded, Forward
<1>4. l \in Seq(Segments(code)) /\ r \in Seq(Segments(code))
  BY <1>3, BranchSegments
<1>5. seg = [type |-> "alt", alts |-> <<l, r>>]
  BY <1>1, <1>2 DEF AltSegment
<1> HIDE DEF l, r
<1>6. seg.type = "alt" /\ seg.alts[1] = l /\ seg.alts[2] = r
  BY <1>5
<1>7. BranchEnd(l, p) \in {-1} \cup p .. SLen
  <2>1. Len(l) \in Nat /\ DOMAIN l = 1 .. Len(l) /\ \A n \in 1 .. Len(l) : l[n] \in Segments(code)
    BY <1>4
  <2> QED BY <2>1, SegmentKinds, BranchInside
<1>8. BranchEnd(r, p) \in {-1} \cup p .. SLen
  <2>1. Len(r) \in Nat /\ DOMAIN r = 1 .. Len(r) /\ \A n \in 1 .. Len(r) : r[n] \in Segments(code)
    BY <1>4
  <2> QED BY <2>1, SegmentKinds, BranchInside
<1>9. AltEnd(seg.alts, p) \in {BranchEnd(l, p), BranchEnd(r, p)}
  BY <1>6 DEF AltEnd
<1> QED BY <1>6, <1>7, <1>8, <1>9

\* The segments of a program lead on inside the subject.
LEMMA FusionInside ==
    ASSUME SLen \in Nat, NEW code, Decoded(code), Forward(code), NEW p \in 0 .. SLen
    PROVE  ExecFusion(FusionSegments(code), p) \in {-1} \cup p .. SLen
<1> DEFINE segs == FusionSegments(code)
           empty == [type |-> "lit", text |-> <<>>]
           steps == [n \in DOMAIN segs |->
                       [q \in 0 .. SLen |-> IF segs[n].type = "alt" THEN AltEnd(segs[n].alts, q)
                                            ELSE SegmentEnd(segs[n], q)]]
<1>1. segs \in Seq(Segments(code) \cup AltSegments(code) \cup {empty})
  BY FusedSegments
<1>2. ExecFusion(segs, p) = Through(steps, p)
  BY DEF ExecFusion
<1> HIDE DEF segs
<1>3. /\ Len(segs) \in Nat /\ DOMAIN segs = 1 .. Len(segs)
      /\ \A n \in 1 .. Len(segs) : segs[n] \in Segments(code) \cup AltSegments(code) \cup {empty}
  BY <1>1
<1>4. Basic(empty)
  BY DEF Basic
<1> HIDE DEF empty
<1>5. ASSUME NEW n \in 1 .. Len(segs), NEW q \in 0 .. SLen
      PROVE  steps[n][q] \in {-1} \cup q .. SLen
  <2>1. steps[n][q] = IF segs[n].type = "alt" THEN AltEnd(segs[n].alts, q) ELSE SegmentEnd(segs[n], q)
    BY <1>3
  <2> HIDE DEF steps
  <2>2. CASE Basic(segs[n])
    <3>1. segs[n].type # "alt"
      BY <2>2 DEF Basic
    <3>2. SegmentEnd(segs[n], q) \in {-1} \cup q .. SLen
      BY <2>2, SegmentInside
    <3> QED BY <2>1, <3>1, <3>2
  <2>3. CASE segs[n] \in AltSegments(code)
    <3>1. segs[n].type = "alt" /\ AltEnd(segs[n].alts, q) \in {-1} \cup q .. SLen
      BY <2>3, AltInside
    <3> QED BY <2>1, <3>1
  <2>4. segs[n] \in Segments(code) => Basic(segs[n])
    BY SegmentKinds
  <2> QED BY <1>3, <1>4, <2>2, <2>3, <2>4
<1>6. Len(steps) = Len(segs)
  <2>1. DOMAIN steps = 1 .. Len(segs) /\ steps \in Seq({steps[n] : n \in 1 .. Len(segs)})
    <3>1. steps = [n \in 1 .. Len(segs) |-> steps[n]]
      BY <1>3
    <3> HIDE DEF steps
    <3>2. DOMAIN steps = 1 .. Len(segs)
      BY <3>1
    <3> QED BY <1>3, <3>1, <3>2
  <2> HIDE DEF steps
  <2> QED BY <1>3, <2>1
<1> HIDE DEF steps
<1>7. Onwards(steps)
  BY <1>5, <1>6 DEF Onwards
<1>8. Len(steps) \in Nat
  BY <1>3, <1>6
<1>9. ExecFusion(segs, p) \in {-1} \cup p .. SLen
  BY <1>2, <1>7, <1>8, ThroughInside
<1> QED BY <1>9 DEF segs

(***************************************************************************)
(* Every answer lies inside the subject.                                   *)
(***************************************************************************)
\* What a match may be.
Answer(p, q) == p \in task.start .. SLen /\ q \in p .. SLen

\* The tiers whose offset does not pass the end of the subject.
InsideTiers == {"BREAK_SCAN", "SIMD_NFA", "FUSED", "AUTOMATON", "SEARCH_VM"}

\* A search is at an offset of the subject, in a tier it may be in, and the
\* engine that runs there runs in the window of that offset.
InsideInv ==
    /\ Prepped
    /\ pc = "call" => offset = task.start
    /\ pc = "tier" =>
          /\ offset \in Nat /\ offset >= task.start
          /\ tier \in InsideTiers => offset <= SLen
          /\ tier # "AUTOMATON" => TierEligible(tier, M, task.anchored)
    /\ pc \in {"pike", "svm"} => offset \in task.start .. SLen
    /\ pc = "pike" => task.start = 0
    /\ pc = "svm" => SvmInside(svm) /\ svm.base = offset
    /\ ResultInside

\* What depends on the program and the task only.
LEMMA SameTask ==
    ASSUME UNCHANGED <<pattern, task>>
    PROVE  /\ Prepped' = Prepped /\ M' = M /\ SLen' = SLen /\ Code' = Code
           /\ \A t : TierEligible(t, M, task.anchored)' = TierEligible(t, M, task.anchored)
BY DEF Prepped, M, SLen, Code, TierEligible

\* A search that ends, with an answer inside the subject if it has one.
LEMMA EndsInside ==
    ASSUME Prepped, NEW o, Finish(o), o.success => Answer(o.start, o.end)
    PROVE  InsideInv'
<1>1. UNCHANGED <<pattern, task>> /\ pc' = "done" /\ out' = o
  BY DEF Finish
<1>2. SLen \in Nat /\ task.start \in Nat
  BY PreppedTypes
<1>3. ResultInside'
  BY <1>1, <1>2, SameTask DEF ResultInside, Answer
<1> QED BY <1>1, <1>3, SameTask DEF InsideInv

\* An engine that found something.
LEMMA FoundAnswers ==
    ASSUME Prepped, NEW p, NEW q, Answer(p, q), NEW regs, NEW by, Finish(Found(p, q, regs, by))
    PROVE  InsideInv'
<1>1. Found(p, q, regs, by).start = p /\ Found(p, q, regs, by).end = q
  BY DEF Found
<1> QED BY <1>1, EndsInside

\* A search that found nothing.
LEMMA NoneAnswers ==
    ASSUME Prepped, NEW x, x.success = FALSE, Finish(x)
    PROVE  InsideInv'
BY EndsInside

\* So with NotFound.
LEMMA NotFoundAnswers ==
    ASSUME Prepped, NotFound
    PROVE  InsideInv'
<1>1. NoResult.success = FALSE
  BY DEF NoResult
<1> QED BY <1>1, NoneAnswers DEF NotFound

\* A tier goes on at a later offset.
LEMMA GoesOnInside ==
    ASSUME InsideInv, pc = "tier", NEW o \in Nat, o >= offset, GoTo(o),
           tier \in InsideTiers => o <= SLen
    PROVE  InsideInv'
<1>1. UNCHANGED <<pattern, task, pc, tier>> /\ offset' = o
  BY DEF GoTo
<1>2. SLen \in Nat /\ task.start \in Nat
  BY PreppedTypes DEF InsideInv
<1>3. offset' \in Nat /\ offset' >= task.start
  BY <1>1, <1>2 DEF InsideInv
<1>4. (TierEligible(tier, M, task.anchored))' = TierEligible(tier, M, task.anchored)
  BY <1>1, SameTask DEF TierEligible
<1> QED BY <1>1, <1>3, <1>4, SameTask DEF InsideInv, ResultInside

\* A tier gives up and the general one begins at the start.
LEMMA FallsBackInside ==
    ASSUME InsideInv, pc = "tier", Fallback
    PROVE  InsideInv'
<1>1. UNCHANGED <<pattern, task, pc>> /\ offset' = task.start /\ tier' = "GENERAL"
  BY DEF Fallback
<1>2. SLen \in Nat /\ task.start \in 0 .. SLen
  BY PreppedTypes DEF InsideInv
<1>3. (TierEligible(tier, M, task.anchored))'
  BY <1>1 DEF TierEligible
<1> QED BY <1>1, <1>2, <1>3, SameTask DEF InsideInv, ResultInside

\* The VM confirms a candidate, or Else.
LEMMA VmInside ==
    ASSUME Prepped, NEW p \in task.start .. SLen, VmHit(p)
    PROVE  Answer(p, p + VmExec(pattern, Slice(p, SLen)).end)
<1>1. SLen \in Nat /\ task.start \in Nat /\ task.subject \in Seq(Bytes) /\ task \in Tasks
  BY PreppedTypes DEF Prepped
<1> DEFINE w == Slice(p, SLen)
<1>2. w = SubSeq(task.subject, p + 1, Len(task.subject)) /\ p \in 0 .. Len(task.subject)
  BY <1>1 DEF Slice, SLen
<1>3. w \in Windows
  BY <1>1, <1>2 DEF Windows
<1>4. pattern \in {Prepared(q) : q \in Programs}
  BY DEF Prepped
<1>5. Len(w) = SLen - p
  BY <1>1, <1>2 DEF SLen
<1> HIDE DEF w
<1>6. VmExec(pattern, w).end \in 0 .. SLen - p
  BY <1>3, <1>4, <1>5, VmAssumption DEF VmHit, w
<1>7. Answer(p, p + VmExec(pattern, w).end)
  BY <1>1, <1>6 DEF Answer
<1> QED BY <1>7 DEF w

\* The match the VM confirms ends the search.
LEMMA ConfirmedInside ==
    ASSUME Prepped, NEW p \in task.start .. SLen, VmHit(p),
           LET r == VmExec(pattern, Slice(p, SLen)) IN Finish(Found(p, p + r.end, RegsAt(p), "vm"))
    PROVE  InsideInv'
BY VmInside, FoundAnswers

\* The byte behind a position that has been tried.
LEMMA NextInside ==
    ASSUME InsideInv, pc = "tier", NEW p \in Nat, p >= offset, GoTo(p + 1),
           tier \in InsideTiers => p < SLen
    PROVE  InsideInv'
<1> DEFINE o == p + 1
<1>1. SLen \in Nat /\ offset \in Nat
  BY PreppedTypes DEF InsideInv
<1>2. o \in Nat /\ o >= offset /\ (tier \in InsideTiers => o <= SLen)
  BY <1>1
<1>3. GoTo(o)
  OBVIOUS
<1> HIDE DEF o
<1> QED BY <1>2, <1>3, GoesOnInside

\* The Horspool shift does not lead further than one byte behind the end.
LEMMA ShiftInside ==
    ASSUME InsideInv, pc = "tier", GoTo(Horspool(offset)),
           tier \in InsideTiers => offset < SLen
    PROVE  InsideInv'
<1> DEFINE o == Horspool(offset)
<1>1. Prepped /\ offset \in Nat /\ SLen \in Nat
  BY PreppedTypes DEF InsideInv
<1>2. o \in Nat /\ o > offset /\ (o = offset + 1 \/ o <= SLen)
  BY <1>1, HorspoolSkipsNone
<1>3. GoTo(o)
  OBVIOUS
<1> HIDE DEF o
<1>4. o >= offset /\ (tier \in InsideTiers => o <= SLen)
  BY <1>1, <1>2
<1> QED BY <1>2, <1>3, <1>4, GoesOnInside

\* Where a search in a tier is.
LEMMA TierPlace ==
    ASSUME InsideInv, NEW t, Tier(t)
    PROVE  /\ pc = "tier" /\ tier = t /\ Prepped
           /\ SLen \in Nat /\ task.start \in 0 .. SLen
           /\ offset \in Nat /\ offset >= task.start
           /\ offset <= SLen => offset \in task.start .. SLen
           /\ t \in InsideTiers => offset \in task.start .. SLen
           /\ t # "AUTOMATON" => TierEligible(t, M, task.anchored)
<1>1. pc = "tier" /\ tier = t /\ Prepped
  BY DEF Tier, InsideInv
<1>2. SLen \in Nat /\ task.start \in 0 .. SLen
  BY <1>1, PreppedTypes
<1>3. /\ offset \in Nat /\ offset >= task.start
      /\ t \in InsideTiers => offset <= SLen
      /\ t # "AUTOMATON" => TierEligible(t, M, task.anchored)
  BY <1>1 DEF InsideInv
<1> QED BY <1>1, <1>2, <1>3

\* BREAK, SPAN, BITMAP: the VM confirms the offset of the tier.
LEMMA BreakInside ==
    ASSUME InsideInv, TierBreakScan
    PROVE  InsideInv'
<1> DEFINE scan == RunUntil(offset, M.class_bitmap)
<1>1. pc = "tier" /\ tier = "BREAK_SCAN" /\ Prepped /\ SLen \in Nat /\ offset \in Nat
      /\ task.start \in 0 .. SLen /\ offset \in task.start .. SLen
  BY TierPlace DEF TierBreakScan, InsideTiers
<1>2. scan \in offset .. SLen
  <2>1. offset \in 0 .. SLen
    BY <1>1
  <2> QED BY <1>1, <2>1, RunUntilInside
<1>3. Confirm(offset, IF scan >= SLen THEN NotFound ELSE GoTo(scan + 1))
  BY DEF TierBreakScan
<1> HIDE DEF scan
<1>4. CASE VmHit(offset)
  BY <1>1, <1>3, <1>4, ConfirmedInside DEF Confirm, VmHit, RegsAt
<1>5. CASE ~VmHit(offset) /\ scan >= SLen
  BY <1>1, <1>3, <1>5, NotFoundAnswers DEF Confirm, VmHit
<1>6. CASE ~VmHit(offset) /\ ~(scan >= SLen)
  <2>1. GoTo(scan + 1)
    BY <1>3, <1>6 DEF Confirm, VmHit
  <2>2. scan \in Nat /\ scan >= offset /\ scan < SLen
    BY <1>1, <1>2, <1>6
  <2> QED BY <1>1, <2>1, <2>2, NextInside
<1> QED BY <1>4, <1>5, <1>6

\* The SPAN tier tries no offset behind the last byte.
LEMMA SpanInside ==
    ASSUME InsideInv, TierSpanScan
    PROVE  InsideInv'
<1>1. pc = "tier" /\ tier = "SPAN_SCAN" /\ Prepped /\ SLen \in Nat /\ offset \in Nat
      /\ (offset <= SLen => offset \in task.start .. SLen) /\ offset >= offset
  BY TierPlace DEF TierSpanScan
<1>2. CASE NotFound
  BY <1>1, <1>2, NotFoundAnswers
<1>3. CASE GoTo(offset + 1)
  BY <1>1, <1>3, NextInside DEF InsideTiers
<1>4. CASE ~NotFound /\ ~GoTo(offset + 1)
  <2>1. ~(offset >= SLen) /\ Confirm(offset, GoTo(offset + 1))
    BY <1>4 DEF TierSpanScan, GiveUp, Skip
  <2>2. offset \in task.start .. SLen
    BY <1>1, <2>1
  <2>3. VmHit(offset)
    BY <1>4, <2>1 DEF Confirm, VmHit
  <2> QED BY <1>1, <2>1, <2>2, <2>3, ConfirmedInside DEF Confirm, VmHit, RegsAt
<1> QED BY <1>2, <1>3, <1>4

\* Nor does the bitmap tier.
LEMMA BitmapInside ==
    ASSUME InsideInv, TierBitmap
    PROVE  InsideInv'
<1>1. pc = "tier" /\ tier = "BITMAP" /\ Prepped /\ SLen \in Nat /\ offset \in Nat
      /\ (offset <= SLen => offset \in task.start .. SLen) /\ offset >= offset
  BY TierPlace DEF TierBitmap
<1>2. CASE NotFound
  BY <1>1, <1>2, NotFoundAnswers
<1>3. CASE GoTo(offset + 1)
  BY <1>1, <1>3, NextInside DEF InsideTiers
<1>4. CASE ~NotFound /\ ~GoTo(offset + 1)
  <2>1. /\ ~(offset >= SLen)
        /\ Confirm(offset, IF task.anchored THEN NotFound ELSE GoTo(offset + 1))
    BY <1>4 DEF TierBitmap, GiveUp, Skip
  <2>2. offset \in task.start .. SLen
    BY <1>1, <2>1
  <2>3. VmHit(offset)
    BY <1>4, <2>1 DEF Confirm, VmHit
  <2> QED BY <1>1, <2>1, <2>2, <2>3, ConfirmedInside DEF Confirm, VmHit, RegsAt
<1> QED BY <1>2, <1>3, <1>4

\* PREFIX: the VM confirms a candidate behind the offset.
LEMMA PrefixInside ==
    ASSUME InsideInv, TierPrefix
    PROVE  InsideInv'
<1> DEFINE p == M.literal_prefix
           c == IF offset > SLen THEN -1 ELSE PrefixCandidate(offset)
<1>1. pc = "tier" /\ tier = "PREFIX" /\ tier \notin InsideTiers /\ Prepped /\ SLen \in Nat
      /\ offset \in Nat /\ offset >= task.start /\ task.start \in Nat
  BY TierPlace DEF TierPrefix, InsideTiers
<1>2. c = -1 \/ c \in offset .. SLen
  <2>1. CASE offset > SLen
    BY <1>1, <2>1
  <2>2. CASE ~(offset > SLen)
    <3> DEFINE q == Occurrence(p, offset)
    <3>1. q = -1 \/ q \in offset .. SLen
      BY <1>1, OccurrenceIsFirst
    <3>2. \/ q # -1 /\ c = q
          \/ q = -1 /\ c = SLen - 1 /\ SLen - 1 >= offset
          \/ q = -1 /\ c = -1
      BY <2>2 DEF PrefixCandidate
    <3> HIDE DEF q, c, p
    <3> QED BY <1>1, <3>1, <3>2
  <2> QED BY <2>1, <2>2
<1>3. IF c = -1 THEN NotFound ELSE Confirm(c, GoTo(c + 1))
  BY DEF TierPrefix, GiveUp
<1> HIDE DEF c, p
<1>4. CASE c = -1
  BY <1>1, <1>3, <1>4, NotFoundAnswers
<1>5. CASE c # -1
  <2>1. c \in task.start .. SLen /\ c \in Nat /\ c >= offset
    BY <1>1, <1>2, <1>5
  <2>2. CASE VmHit(c)
    BY <1>1, <1>3, <1>5, <2>1, <2>2, ConfirmedInside DEF Confirm, VmHit, RegsAt
  <2>3. CASE ~VmHit(c)
    <3>1. GoTo(c + 1)
      BY <1>3, <1>5, <2>3 DEF Confirm, VmHit
    <3> QED BY <1>1, <2>1, <3>1, NextInside
  <2> QED BY <2>2, <2>3
<1> QED BY <1>4, <1>5

\* GENERAL: no VM behind the end of the subject.
LEMMA GeneralInside ==
    ASSUME InsideInv, TierGeneral
    PROVE  InsideInv'
<1>1. pc = "tier" /\ tier = "GENERAL" /\ tier \notin InsideTiers /\ Prepped /\ SLen \in Nat
      /\ offset \in Nat /\ (offset <= SLen => offset \in task.start .. SLen) /\ offset >= offset
  BY TierPlace DEF TierGeneral, InsideTiers
<1> DEFINE aborted == [NoResult EXCEPT !.aborted = TRUE]
<1>2. CASE NotFound
  BY <1>1, <1>2, NotFoundAnswers
<1>3. CASE GoTo(offset + 1)
  BY <1>1, <1>3, NextInside
<1>4. CASE GoTo(Horspool(offset))
  BY <1>1, <1>4, ShiftInside
<1>5. CASE Finish(aborted)
  <2>1. aborted.success = FALSE
    BY DEF NoResult
  <2> HIDE DEF aborted
  <2> QED BY <1>1, <1>5, <2>1, NoneAnswers
<1>6. CASE ~NotFound /\ ~GoTo(offset + 1) /\ ~GoTo(Horspool(offset)) /\ ~Finish(aborted)
  <2>1. /\ ~(offset > SLen)
        /\ Confirm(offset,
                   IF VmExec(pattern, Slice(offset, SLen)).status = "abort" THEN Finish(aborted)
                   ELSE IF offset >= SLen \/ task.anchored THEN NotFound
                   ELSE GoTo(Horspool(offset)))
    BY <1>6 DEF TierGeneral, GiveUp, Skip
  <2>2. offset \in task.start .. SLen
    BY <1>1, <2>1
  <2> HIDE DEF aborted
  <2>3. VmHit(offset)
    BY <1>6, <2>1 DEF Confirm, VmHit
  <2> QED BY <1>1, <2>1, <2>2, <2>3, ConfirmedInside DEF Confirm, VmHit, RegsAt
<1> QED BY <1>2, <1>3, <1>4, <1>5, <1>6

\* A text that is found lies inside the subject.
LEMMA TextAnswers ==
    ASSUME Prepped, NEW text, Len(text) \in Nat, NEW p \in Nat, p >= task.start, LiteralAt(text, p)
    PROVE  Answer(p, p + Len(text))
<1>1. SLen \in Nat /\ task.start \in Nat
  BY PreppedTypes
<1>2. p + Len(text) <= SLen
  BY DEF LiteralAt
<1> QED BY <1>1, <1>2 DEF Answer

\* LITERAL: the program is that literal.
LEMMA LiteralInside ==
    ASSUME InsideInv, TierLiteral
    PROVE  InsideInv'
<1> DEFINE k == PastOps(Code, 1, {"NOP", "FENCE"})
           text == Code[k].text
           p == IF task.anchored THEN IF LiteralAt(text, task.start) THEN task.start ELSE -1
                ELSE Occurrence(text, task.start)
<1>1. tier = "LITERAL" /\ Prepped /\ SLen \in Nat /\ task.start \in Nat /\ M.is_literal_only
  <2>1. Tier("LITERAL")
    BY DEF TierLiteral
  <2> QED BY <2>1, TierPlace DEF TierEligible
<1>2. Len(text) \in Nat
  <2>1. M = DeriveMeta(Code) /\ Decoded(Code)
    BY <1>1, PreppedTypes
  <2>2. CheckLiteralOnly(Code)
    BY <1>1, <2>1 DEF DeriveMeta
  <2>3. Len(Code) \in Nat /\ 1 \in 1 .. Len(Code) + 1
    BY <2>1 DEF Decoded
  <2>4. k \in 1 .. Len(Code) + 1
    BY <2>3, PastOpsInside
  <2>5. k < Len(Code) /\ Code[k].op = "LIT"
    BY <2>2 DEF CheckLiteralOnly
  <2> HIDE DEF k
  <2>6. k \in DOMAIN Code
    BY <2>1, <2>4, <2>5 DEF Decoded
  <2> QED BY <2>1, <2>5, <2>6 DEF Decoded
<1>3. IF p = -1 THEN NotFound ELSE Finish(Found(p, p + Len(text), ZeroRegs, "literal"))
  BY DEF TierLiteral
<1> HIDE DEF text
<1>4. p = -1 \/ (p \in Nat /\ p >= task.start /\ LiteralAt(text, p))
  <2>1. CASE task.anchored
    BY <1>1, <2>1
  <2>2. CASE ~task.anchored
    BY <1>1, <2>2, OccurrenceIsFirst
  <2> QED BY <2>1, <2>2
<1> HIDE DEF p
<1>5. CASE p = -1
  BY <1>1, <1>3, <1>5, NotFoundAnswers
<1>6. CASE p # -1
  <2>1. Answer(p, p + Len(text))
    BY <1>1, <1>2, <1>4, <1>6, TextAnswers
  <2> QED BY <1>1, <1>3, <1>6, <2>1, FoundAnswers
<1> QED BY <1>5, <1>6

\* ALT_LIT: a literal of the alternation begins at the offset.
LEMMA TrieInside ==
    ASSUME InsideInv, TierAltLit
    PROVE  InsideInv'
<1> DEFINE lits == AltLeaves(Code).lits
           i == TrieMatch(lits, offset)
           at == {x \in DOMAIN lits : LiteralAt(lits[x], offset)}
<1>1. pc = "tier" /\ tier = "ALT_LIT" /\ tier \notin InsideTiers /\ Prepped /\ SLen \in Nat
      /\ offset \in Nat /\ offset >= task.start /\ offset >= offset
  BY TierPlace DEF TierAltLit, InsideTiers
<1>2. Decoded(Code) /\ Forward(Code)
  BY <1>1, PreppedTypes
<1>3. lits \in Seq(Literals(Code)) /\ \A t \in Literals(Code) : Len(t) \in Nat
  BY <1>2, LeavesAreLiterals DEF Literals, Decoded
<1>4. CASE NotFound
  BY <1>1, <1>4, NotFoundAnswers
<1>5. CASE GoTo(offset + 1)
  BY <1>1, <1>5, NextInside
<1>6. CASE GoTo(Horspool(offset))
  BY <1>1, <1>6, ShiftInside
<1>7. CASE Fallback
  BY <1>1, <1>7, FallsBackInside
<1>8. CASE ~NotFound /\ ~GoTo(offset + 1) /\ ~GoTo(Horspool(offset)) /\ ~Fallback
  <2>1. i # 0 /\ Finish(Found(offset, offset + Len(lits[i]), ZeroRegs, "trie"))
    BY <1>8 DEF TierAltLit
  <2>2. i = IF at = {} THEN 0 ELSE CHOOSE x \in at : \A y \in at : x <= y
    BY DEF TrieMatch
  <2> HIDE DEF lits, i
  <2>3. at \subseteq Nat
    BY <1>3
  <2>4. i \in at
    <3> HIDE DEF at
    <3> QED BY <2>1, <2>2, <2>3, LeastOf
  <2>5. i \in DOMAIN lits /\ LiteralAt(lits[i], offset)
    BY <2>4
  <2>6. lits[i] \in Literals(Code)
    BY <1>3, <2>5
  <2>7. Answer(offset, offset + Len(lits[i]))
    BY <1>1, <1>3, <2>5, <2>6, TextAnswers
  <2> QED BY <1>1, <2>1, <2>7, FoundAnswers
<1> QED BY <1>4, <1>5, <1>6, <1>7, <1>8

\* SIMD_NFA: the run of one class.
LEMMA SimdInside ==
    ASSUME InsideInv, TierSimdNfa
    PROVE  InsideInv'
<1> DEFINE i == Code[1]
           end == SimdVerify(i, offset)
           run == RunEnd(offset, SimdMask(i))
<1>1. pc = "tier" /\ tier = "SIMD_NFA" /\ Prepped /\ SLen \in Nat /\ task.start \in Nat
      /\ offset \in Nat /\ offset \in task.start .. SLen /\ offset >= offset
      /\ TierEligible("SIMD_NFA", M, task.anchored)
  BY TierPlace DEF TierSimdNfa, InsideTiers
<1>2. i.op \in {"SPAN", "BREAK", "ANY", "NOTANY"}
  <2>1. M.simd_eligible
    BY <1>1 DEF TierEligible
  <2>2. M = DeriveMeta(Code)
    BY <1>1, PreppedTypes
  <2>3. CheckSimdEligible(Code)
    BY <2>1, <2>2 DEF DeriveMeta
  <2> QED BY <2>3 DEF CheckSimdEligible
<1>3. run \in offset .. SLen
  <2>1. offset \in 0 .. SLen
    BY <1>1
  <2> QED BY <1>1, <2>1, RunEndInside
<1>4. end = -1 \/ (run > offset /\ end = offset + 1) \/ end = run
  <2>1. CASE i.op \in {"ANY", "NOTANY"}
    BY <2>1 DEF SimdVerify
  <2>2. CASE i.op = "SPAN"
    BY <2>2 DEF SimdVerify
  <2>3. CASE i.op = "BREAK"
    BY <2>3 DEF SimdVerify
  <2> QED BY <1>2, <2>1, <2>2, <2>3
<1> HIDE DEF run, end
<1>5. end # -1 => Answer(offset, end)
  BY <1>1, <1>3, <1>4 DEF Answer
<1>6. IF task.anchored \/ i.op = "BREAK"
        THEN IF end = -1 THEN NotFound ELSE Finish(Found(offset, end, ZeroRegs, "simd"))
      ELSE IF offset >= SLen THEN NotFound
      ELSE IF end = -1 THEN GoTo(offset + 1)
      ELSE Finish(Found(offset, end, ZeroRegs, "simd"))
  BY DEF TierSimdNfa, end
<1> HIDE DEF i
<1>7. CASE NotFound
  BY <1>1, <1>7, NotFoundAnswers
<1>8. CASE end # -1 /\ Finish(Found(offset, end, ZeroRegs, "simd"))
  BY <1>1, <1>5, <1>8, FoundAnswers
<1>9. CASE offset < SLen /\ GoTo(offset + 1)
  BY <1>1, <1>9, NextInside
<1>10. offset >= SLen \/ offset < SLen
  BY <1>1
<1> QED BY <1>6, <1>7, <1>8, <1>9, <1>10

\* FUSED: segment after segment.
LEMMA FusedInside ==
    ASSUME InsideInv, TierFusion
    PROVE  InsideInv'
<1> DEFINE end == ExecFusion(M.fusion, offset)
<1>1. pc = "tier" /\ tier = "FUSED" /\ Prepped /\ SLen \in Nat /\ task.start \in Nat
      /\ offset \in Nat /\ offset \in task.start .. SLen /\ offset >= offset
  BY TierPlace DEF TierFusion, InsideTiers
<1>2. end \in {-1} \cup offset .. SLen
  <2>1. M = DeriveMeta(Code) /\ Decoded(Code) /\ Forward(Code)
    BY <1>1, PreppedTypes
  <2>2. M.fusion = FusionSegments(Code)
    BY <2>1 DEF DeriveMeta
  <2>3. offset \in 0 .. SLen
    BY <1>1
  <2> QED BY <1>1, <2>1, <2>2, <2>3, FusionInside
<1>3. IF ~task.anchored /\ offset >= SLen THEN NotFound
      ELSE IF end # -1 THEN Finish(Found(offset, end, ZeroRegs, "fusion"))
      ELSE IF task.anchored THEN NotFound
      ELSE GoTo(offset + 1)
  BY DEF TierFusion
<1> HIDE DEF end
<1>4. end # -1 => Answer(offset, end)
  BY <1>1, <1>2 DEF Answer
<1>5. CASE NotFound
  BY <1>1, <1>5, NotFoundAnswers
<1>6. CASE end # -1 /\ Finish(Found(offset, end, ZeroRegs, "fusion"))
  BY <1>1, <1>4, <1>6, FoundAnswers
<1>7. CASE offset < SLen /\ GoTo(offset + 1)
  BY <1>1, <1>7, NextInside
<1>8. offset >= SLen \/ offset < SLen
  BY <1>1
<1> QED BY <1>3, <1>5, <1>6, <1>7, <1>8

\* AUTOMATON: a walk from the offset or behind it.
LEMMA WalkInside ==
    ASSUME InsideInv, TierAutomaton
    PROVE  InsideInv'
<1> DEFINE r == AutomatonExec(D, offset)
<1>1. pc = "tier" /\ tier = "AUTOMATON" /\ Prepped /\ SLen \in Nat /\ task.start \in Nat
      /\ offset \in Nat /\ offset \in task.start .. SLen /\ offset >= task.start
  BY TierPlace DEF TierAutomaton, InsideTiers
<1>2. r.success => r.start \in offset .. SLen /\ r.end \in r.start .. SLen
  <2>1. offset \in 0 .. SLen
    BY <1>1
  <2> QED BY <1>1, <2>1, AutomatonInside
<1>3. IF r.success THEN Finish(Found(r.start, r.end, ZeroRegs, "dfa"))
      ELSE IF offset >= SLen THEN Fallback
      ELSE GoTo(Horspool(offset))
  BY DEF TierAutomaton
<1> HIDE DEF r
<1>4. CASE r.success
  <2>1. Answer(r.start, r.end)
    BY <1>1, <1>2, <1>4 DEF Answer
  <2> QED BY <1>1, <1>3, <1>4, <2>1, FoundAnswers
<1>5. CASE ~r.success /\ offset >= SLen
  BY <1>1, <1>3, <1>5, FallsBackInside
<1>6. CASE ~r.success /\ ~(offset >= SLen)
  <2>1. offset < SLen
    BY <1>1, <1>6
  <2> QED BY <1>1, <1>3, <1>6, <2>1, ShiftInside
<1> QED BY <1>4, <1>5, <1>6

\* The entry: one byte that is looked for at once, a filter, the anchored
\* automaton, or a tier at the start of the search.
LEMMA EntryInside ==
    ASSUME InsideInv, SearchExec
    PROVE  InsideInv'
<1> DEFINE p == Occurrence(M.required_lit, task.start)
           r == AutomatonExecAnchored(D, task.start)
           rejected == [NoResult EXCEPT !.by = "prefilter"]
<1>1. pc = "call" /\ Prepped /\ offset = task.start /\ SLen \in Nat /\ task.start \in 0 .. SLen
      /\ task.cost \in Nat
  <2>1. pc = "call" /\ Prepped /\ offset = task.start
    BY DEF SearchExec, InsideInv
  <2> QED BY <2>1, PreppedTypes
<1>2. CASE ShortCircuit
  <2>1. Finish(IF p = -1 THEN NoResult ELSE Found(p, p + 1, ZeroRegs, "literal"))
    BY <1>2 DEF SearchExec
  <2>2. Len(M.required_lit) = 1
    BY <1>2 DEF ShortCircuit
  <2>3. p = -1 \/ (p \in Nat /\ p >= task.start /\ LiteralAt(M.required_lit, p))
    BY <1>1, OccurrenceIsFirst
  <2> HIDE DEF p
  <2>4. CASE p = -1
    BY <1>1, <2>1, <2>4, NotFoundAnswers DEF NotFound
  <2>5. CASE p # -1
    <3>1. Answer(p, p + Len(M.required_lit))
      <4>1. Len(M.required_lit) \in Nat /\ p \in Nat /\ p >= task.start /\ LiteralAt(M.required_lit, p)
        BY <2>2, <2>3, <2>5
      <4> QED BY <1>1, <4>1, TextAnswers
    <3> QED BY <1>1, <2>1, <2>2, <2>5, <3>1, FoundAnswers
  <2> QED BY <2>4, <2>5
<1>3. CASE ~ShortCircuit /\ PrefilterMiss
  <2>1. Finish(rejected)
    BY <1>3 DEF SearchExec
  <2>2. rejected.success = FALSE
    BY DEF NoResult
  <2> HIDE DEF rejected
  <2> QED BY <1>1, <2>1, <2>2, NoneAnswers
<1>4. CASE ~ShortCircuit /\ ~PrefilterMiss /\ task.anchored /\ UseDfa /\ r.success
  <2>1. Finish(Found(r.start, r.end, ZeroRegs, "dfa"))
    BY <1>4 DEF SearchExec
  <2>2. r.start \in task.start .. SLen /\ r.end \in r.start .. SLen
    BY <1>1, <1>4, AutomatonInside
  <2>3. Answer(r.start, r.end)
    BY <2>2 DEF Answer
  <2> HIDE DEF r
  <2> QED BY <1>1, <2>1, <2>3, FoundAnswers
<1>5. CASE ~ShortCircuit /\ ~PrefilterMiss /\ ~(task.anchored /\ UseDfa /\ r.success)
  <2>1. pc' = "tier" /\ tier' = DispatchTier /\ UNCHANGED <<pattern, task, svm, pike, offset, out>>
    BY <1>5 DEF SearchExec
  <2>2. TierEligible(SelectTier(M, task.cost, task.anchored), M, task.anchored)
    BY <1>1, TierIsEligible
  <2>3. DispatchTier # "AUTOMATON" => TierEligible(DispatchTier, M, task.anchored)
    BY <2>2 DEF DispatchTier
  <2>4. (tier # "AUTOMATON" => TierEligible(tier, M, task.anchored))'
    BY <2>1, <2>3 DEF M, TierEligible
  <2>5. offset' \in Nat /\ offset' >= task.start /\ offset' <= SLen
    BY <1>1, <2>1
  <2> QED BY <1>1, <2>1, <2>4, <2>5, SameTask DEF InsideInv, ResultInside
<1> QED BY <1>2, <1>3, <1>4, <1>5

\* The search VM begins in the window of the offset.
LEMMA SvmStarts ==
    ASSUME Prepped, NEW o \in task.start .. SLen, UNCHANGED <<pattern, task>>,
           offset' = o, svm' = SvmAt(o), pc' = "svm"
    PROVE  InsideInv'
<1>1. SLen \in Nat /\ task.start \in Nat
  BY PreppedTypes
<1>2. SvmInside(SvmAt(o)) /\ SvmAt(o).base = o
  <2>1. o \in 0 .. SLen
    BY <1>1
  <2> QED BY <1>1, <2>1, SvmBegins
<1>3. SvmInside(svm)' /\ svm'.base = o
  BY <1>2, SameTask DEF SvmInside
<1> QED BY <1>3, SameTask DEF InsideInv, ResultInside

\* The tier of the search VM calls the scan for whole subjects only.
LEMMA SearchVMInside ==
    ASSUME InsideInv, TierSearchVM
    PROVE  InsideInv'
<1>1. Prepped /\ offset \in task.start .. SLen
  BY TierPlace DEF TierSearchVM, InsideTiers
<1>2. UNCHANGED <<pattern, task, offset>>
  BY DEF TierSearchVM
<1>3. CASE task.start = 0 /\ ~task.anchored
  <2>1. pc' = "pike"
    BY <1>3 DEF TierSearchVM
  <2> QED BY <1>1, <1>2, <1>3, <2>1, SameTask DEF InsideInv, ResultInside
<1>4. CASE ~(task.start = 0 /\ ~task.anchored)
  <2>1. pc' = "svm" /\ svm' = SvmAt(offset)
    BY <1>4 DEF TierSearchVM
  <2> QED BY <1>1, <1>2, <2>1, SvmStarts
<1> QED BY <1>3, <1>4

\* What the scan found is the answer, or the search VM begins.
LEMMA PikeEndsInside ==
    ASSUME InsideInv, FoundInside, PikeResult
    PROVE  InsideInv'
<1>1. pc = "pike" /\ pike.status = "done" /\ Prepped /\ offset \in task.start .. SLen
      /\ task.start = 0
  BY DEF PikeResult, InsideInv
<1>2. CASE ~pike.zero /\ pike.found
  <2>1. Finish(Found(pike.start, pike.end, pike.regs, "pike"))
    BY <1>2 DEF PikeResult
  <2>2. Answer(pike.start, pike.end)
    BY <1>1, <1>2 DEF FoundInside, Answer
  <2> QED BY <1>1, <2>1, <2>2, FoundAnswers
<1>3. CASE ~(~pike.zero /\ pike.found) /\ ~pike.zero /\ ~pike.overflowed
  BY <1>1, <1>3, NotFoundAnswers DEF PikeResult
<1>4. CASE ~(~pike.zero /\ pike.found) /\ ~(~pike.zero /\ ~pike.overflowed)
  <2>1. pc' = "svm" /\ svm' = SvmAt(offset) /\ UNCHANGED <<pattern, task, offset>>
    BY <1>4 DEF PikeResult
  <2> QED BY <1>1, <2>1, SvmStarts
<1> QED BY <1>2, <1>3, <1>4

\* The match of the search VM, moved to the subject, is the answer; a failure
\* leads to the next offset.
LEMMA SvmEndsInside ==
    ASSUME InsideInv, SvmResult
    PROVE  InsideInv'
<1>1. pc = "svm" /\ Prepped /\ offset \in task.start .. SLen /\ SvmInside(svm) /\ svm.base = offset
  BY DEF SvmResult, InsideInv
<1>2. SLen \in Nat /\ task.start \in Nat
  BY <1>1, PreppedTypes
<1> DEFINE aborted == [NoResult EXCEPT !.aborted = TRUE]
<1>3. CASE Finish(Found(svm.base, svm.base + svm.pos, svm.regs, "svm"))
  <2>1. svm.pos \in 0 .. SLen - offset
    BY <1>1 DEF SvmInside, PlaceInside
  <2>2. Answer(svm.base, svm.base + svm.pos)
    BY <1>1, <1>2, <2>1 DEF Answer
  <2> QED BY <1>1, <1>3, <2>2, FoundAnswers
<1>4. CASE Finish(aborted)
  <2>1. aborted.success = FALSE
    BY DEF NoResult
  <2> HIDE DEF aborted
  <2> QED BY <1>1, <1>4, <2>1, NoneAnswers
<1>5. CASE NotFound
  BY <1>1, <1>5, NotFoundAnswers
<1>6. CASE /\ offset < SLen /\ offset' = Horspool(offset) /\ svm' = SvmAt(Horspool(offset))
           /\ UNCHANGED <<pattern, task, pike, pc, tier, out>>
  <2> DEFINE o == Horspool(offset)
  <2>1. offset \in Nat
    BY <1>1, <1>2
  <2>2. o \in Nat /\ o > offset /\ (o = offset + 1 \/ o <= SLen)
    BY <1>1, <2>1, HorspoolSkipsNone
  <2>3. offset' = o /\ svm' = SvmAt(o) /\ pc' = "svm" /\ UNCHANGED <<pattern, task>>
    BY <1>1, <1>6
  <2> HIDE DEF o
  <2>4. o \in task.start .. SLen
    BY <1>1, <1>2, <1>6, <2>1, <2>2
  <2> QED BY <1>1, <2>3, <2>4, SvmStarts
<1>7. offset >= SLen \/ offset < SLen
  BY <1>1, <1>2
<1> HIDE DEF aborted
<1> QED BY <1>3, <1>4, <1>5, <1>6, <1>7 DEF SvmResult, aborted

\* A step of the search VM.
LEMMA SvmRunInside ==
    ASSUME InsideInv, SvmRun
    PROVE  InsideInv'
<1>1. pc = "svm" /\ Prepped /\ SvmInside(svm) /\ svm.base = offset /\ SvmStep
      /\ UNCHANGED <<pattern, task, pc, offset, out>>
  BY DEF SvmRun, InsideInv
<1>2. SLen \in Nat /\ Decoded(Code)
  BY <1>1, PreppedTypes
<1>3. SvmInside(svm') /\ svm'.base = svm.base
  BY <1>1, <1>2, SvmStepInside DEF SvmGoesOn
<1>4. SvmInside(svm)' /\ (svm.base = offset)'
  BY <1>1, <1>3, SameTask DEF SvmInside
<1> QED BY <1>1, <1>4, SameTask DEF InsideInv, ResultInside

(***************************************************************************)
(* Whatever engine answers, for every program and subject: the match a     *)
(* search reports begins not before the start asked for, ends not before   *)
(* it begins, and lies inside the subject.  The API takes the length of    *)
(* the match, an unsigned number, as the difference of the two unchecked.  *)
(***************************************************************************)
THEOREM ResultsInside == Spec => []ResultInside
<1>1. Init => InsideInv
  BY DEF Init, InsideInv, Prepped, ResultInside
<1>2. InsideInv /\ FoundInside /\ [Next]_vars => InsideInv'
  <2> SUFFICES ASSUME InsideInv, FoundInside, [Next]_vars PROVE InsideInv'
    OBVIOUS
  <2>1. CASE SearchExec BY <2>1, EntryInside
  <2>2. CASE TierBreakScan BY <2>2, BreakInside
  <2>3. CASE TierSpanScan BY <2>3, SpanInside
  <2>4. CASE TierPrefix BY <2>4, PrefixInside
  <2>5. CASE TierBitmap BY <2>5, BitmapInside
  <2>6. CASE TierGeneral BY <2>6, GeneralInside
  <2>7. CASE TierLiteral BY <2>7, LiteralInside
  <2>8. CASE TierAltLit BY <2>8, TrieInside
  <2>9. CASE TierSimdNfa BY <2>9, SimdInside
  <2>10. CASE TierFusion BY <2>10, FusedInside
  <2>11. CASE TierAutomaton BY <2>11, WalkInside
  <2>12. CASE TierSearchVM BY <2>12, SearchVMInside
  <2>13. CASE PikeRun
    <3>1. pc = "pike" /\ UNCHANGED <<pattern, task, svm, pc, tier, offset, out>>
      BY <2>13 DEF PikeRun
    <3> QED BY <3>1, SameTask DEF InsideInv, ResultInside
  <2>14. CASE PikeResult BY <2>14, PikeEndsInside
  <2>15. CASE SvmRun BY <2>15, SvmRunInside
  <2>16. CASE SvmResult BY <2>16, SvmEndsInside
  <2>17. CASE UNCHANGED vars
    <3>1. UNCHANGED <<pattern, task, svm, pc, tier, offset, out>>
      BY <2>17 DEF vars
    <3>2. SvmInside(svm)' = SvmInside(svm)
      BY <3>1, SameTask DEF SvmInside
    <3>3. (TierEligible(tier, M, task.anchored))' = TierEligible(tier, M, task.anchored)
      BY <3>1 DEF TierEligible, M
    <3> QED BY <3>1, <3>2, <3>3, SameTask DEF InsideInv, ResultInside
  <2> QED BY <2>1, <2>2, <2>3, <2>4, <2>5, <2>6, <2>7, <2>8, <2>9, <2>10, <2>11, <2>12,
             <2>13, <2>14, <2>15, <2>16, <2>17 DEF Next, Returned
<1>3. InsideInv => ResultInside
  BY DEF InsideInv
<1> QED BY <1>1, <1>2, <1>3, SearchUsesScan, MatchesInside, PTL DEF Spec
=============================================================================
