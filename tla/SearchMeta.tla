----------------------------- MODULE SearchMeta -----------------------------
(***************************************************************************)
(* The static analysis of core/src/search_meta.c: what a search derives    *)
(* once from a compiled program (snobol_search_derive_meta) to decide      *)
(* which offsets it may skip and which engine may run, and the cost model  *)
(* that picks the engine.                                                  *)
(*                                                                         *)
(* A program is a sequence of PatternCodegen instructions and an address   *)
(* an index, so the tests for truncated operands have no counterpart.  A   *)
(* bitmap is the set of its bytes, a class the set of its code points.     *)
(***************************************************************************)
EXTENDS Integers, Sequences, FiniteSets, SequencesExt

CONSTANTS
    Bytes,                \* the bytes, a few for all 256
    MAX_PREFIX,           \* SNOBOL_SEARCH_MAX_PREFIX
    MAX_FUSION_SEGMENTS,  \* MAX_FUSION_SEGMENTS
    MAX_LIT_BYTES         \* SNOBOL_AUTO_MAX_LIT_BYTES, the budget of the trie

UINT32_MAX == 1000000   \* stands for a length no subject has
CursorOps == {"POS", "RPOS", "TAB", "RTAB"}
ClassOps == {"ANY", "NOTANY", "SPAN", "BREAK", "BREAKX"}
Terminals == {"ACCEPT", "SUCCEED", "ABORT"}

\* ranges_to_ascii_bitmap: the ASCII part of a class, and whether that is all.
AsciiPart(set) == {c \in set : c < 128}
AsciiOnly(set) == \A c \in set : c < 128

Clip(text) == SubSeq(text, 1, IF Len(text) < MAX_PREFIX THEN Len(text) ELSE MAX_PREFIX)

\* The first address from k on whose opcode is not in ops.
PastOps(code, k, ops) ==
    CHOOSE m \in k .. Len(code) + 1 :
        /\ m > Len(code) \/ code[m].op \notin ops
        /\ \A x \in k .. m - 1 : code[x].op \in ops

(***************************************************************************)
(* Alternations of literals.                                               *)
(***************************************************************************)
\* The explicit-stack walk over SPLITs shared by the alternation analyses and
\* the trie builder: the literals in branch order.  Nothing else may occur.
AltLeaves(code) ==
    LET f[k \in 1 .. Len(code) + 1] ==
          LET l == f[code[k].a]
              r == f[code[k].b]
          IN  IF k > Len(code) THEN [ok |-> FALSE, lits |-> <<>>]
              ELSE CASE code[k].op = "LIT"   -> [ok |-> TRUE, lits |-> <<code[k].text>>]
                     [] code[k].op = "SPLIT" -> [ok |-> l.ok /\ r.ok, lits |-> l.lits \o r.lits]
                     [] OTHER -> [ok |-> FALSE, lits |-> <<>>]
    IN  f[1]

\* Fault: the budget is not looked at.
CheckAltLiteralsUnbounded(code) == AltLeaves(code).ok

\* The bytes of all literals.
LitBytes(lits) ==
    LET n[i \in 0 .. Len(lits)] == IF i = 0 THEN 0 ELSE n[i - 1] + Len(lits[i])
    IN  n[Len(lits)]

\* Every leaf runs, over JMPs, into ACCEPT, and the literals are within the
\* budget of the trie.
CheckAltLiterals(code) ==
    LET land[k \in 1 .. Len(code)] ==
          IF code[k].op = "JMP" THEN land[code[k].target] ELSE code[k].op = "ACCEPT"
        f[k \in 1 .. Len(code)] ==
          CASE code[k].op = "LIT"   -> k < Len(code) /\ land[k + 1]
            [] code[k].op = "SPLIT" -> f[code[k].a] /\ f[code[k].b]
            [] OTHER -> FALSE
    IN  /\ f[1]
        /\ LitBytes(AltLeaves(code).lits) <= MAX_LIT_BYTES

AltHasEmptyBranch(code) ==
    AltLeaves(code).ok /\ <<>> \in ToSet(AltLeaves(code).lits)

AltLiteralsSharePrefix(code) ==
    LET w == AltLeaves(code)
    IN  \/ ~w.ok
        \/ <<>> \in ToSet(w.lits)
        \/ \E i, j \in DOMAIN w.lits : i < j /\ w.lits[i][1] = w.lits[j][1]

\* The prefix all of at least two non-empty literals share.
AltLiteralsSharedPrefix(code) ==
    LET w == AltLeaves(code)
        shared(n) == \A i \in DOMAIN w.lits :
                        Len(w.lits[i]) >= n
                        /\ SubSeq(w.lits[i], 1, n) = SubSeq(w.lits[1], 1, n)
        n == CHOOSE m \in 0 .. Len(Clip(w.lits[1])) :
                shared(m) /\ ~(m < Len(Clip(w.lits[1])) /\ shared(m + 1))
    IN  IF ~w.ok \/ <<>> \in ToSet(w.lits) \/ Len(w.lits) < 2
          THEN <<>> ELSE SubSeq(w.lits[1], 1, n)

(***************************************************************************)
(* What a match can start with, and how long it is at least.               *)
(***************************************************************************)
ZeroWidth == {"CAP_START", "CAP_END", "FENCE", "NOP", "ANCHOR", "ASSIGN"} \cup CursorOps

\* compute_start_bitmap: the bytes a match may begin with.  Cursor operations
\* are passed over like zero-width ones.
StartBitmap(code) ==
    LET f[k \in 1 .. Len(code) + 1] ==
          IF k > Len(code) THEN {}
          ELSE LET i == code[k]
               IN  CASE i.op = "LIT"            -> IF i.text = <<>> THEN Bytes ELSE {i.text[1]}
                     [] i.op \in {"ANY", "SPAN"} -> AsciiPart(i.set)
                     [] i.op = "NOTANY"         -> Bytes \ AsciiPart(i.set)
                     [] i.op = "SPLIT"          -> f[i.a] \cup f[i.b]
                     [] i.op = "JMP"            -> f[i.target]
                     [] i.op \in ZeroWidth      -> f[k + 1]
                     [] i.op \in Terminals \cup {"FAIL"} -> {}
                     [] OTHER                   -> Bytes
    IN  f[1]

\* compute_minlength.  A branch that can only FAIL does not count; a loop
\* makes the answer 0; a walk deeper than 12 SPLITs answers 0.
MinLength(code) ==
    LET from[k \in Nat, len \in Nat, depth \in 0 .. 13] ==
          IF depth > 12 THEN 0
          ELSE IF k > Len(code) THEN len
          ELSE LET i == code[k]
                   x == from[i.a, 0, depth + 1]
                   y == from[i.b, 0, depth + 1]
               IN  CASE i.op = "LIT"   -> from[k + 1, len + Len(i.text), depth]
                     [] i.op \in {"ANY", "NOTANY", "SPAN"} -> from[k + 1, len + 1, depth]
                     [] i.op = "LEN"   -> from[k + 1, len + i.n, depth]
                     [] i.op \in {"BREAK", "BREAKX"} \cup ZeroWidth -> from[k + 1, len, depth]
                     [] i.op = "SPLIT" -> len + IF x = UINT32_MAX /\ y = UINT32_MAX THEN 0
                                                ELSE IF x < y THEN x ELSE y
                     [] i.op = "JMP"   -> from[i.target, len, depth]
                     [] i.op = "BAL"   -> len + 2
                     [] i.op \in {"REPEAT_STEP", "REM"} \cup Terminals -> len
                     [] i.op = "FAIL"  -> UINT32_MAX
                     [] OTHER          -> 0
    IN  from[1, 0, 0]

(***************************************************************************)
(* Which engines may run the program.                                      *)
(***************************************************************************)
SideEffects == {"EVAL", "EMIT_LITERAL", "EMIT_CAPTURE", "EMIT_EXPR", "EMIT_TABLE",
                "EMIT_FORMAT", "DYNAMIC", "DYNAMIC_DEF", "TABLE_GET", "TABLE_SET",
                "GOTO", "GOTO_F", "LABEL"}
Uses(code, ops) == \E k \in DOMAIN code : code[k].op \in ops

\* The bytes an instruction of such a program takes: opcode, operands, and the
\* text of a literal behind it.  (The code also counts the class table that
\* follows the program, which the model does not have.)
Size(i) ==
    CASE i.op = "LIT" -> 9 + Len(i.text)
      [] i.op \in {"ANY", "NOTANY"} -> 3
      [] i.op \in {"CAP_START", "CAP_END", "ANCHOR"} -> 2
      [] i.op \in {"JMP", "LEN"} -> 5
      [] i.op = "SPLIT" -> 9
      [] i.op = "REPEAT_INIT" -> 14
      [] i.op = "REPEAT_STEP" -> 6
      [] OTHER -> 1
AUTOMATON_MAX_CODE == 512
CodeSize(code) == FoldLeft(LAMBDA n, i : n + Size(i), 0, code)

CheckAutomatonEligible(code) ==
    /\ CodeSize(code) <= AUTOMATON_MAX_CODE
    /\ ~Uses(code, SideEffects \cup {"ASSIGN", "BREAKX", "BAL", "SPAN", "BREAK", "ANCHOR",
                                     "ARRAY_GET", "ARRAY_SET"} \cup CursorOps)
CheckSearchVMEligible(code) ==
    ~Uses(code, SideEffects \cup {"ARRAY_GET", "ARRAY_SET", "BAL", "REM"})

\* [NOP | FENCE]* LIT [NOP | FENCE]* ACCEPT with a non-empty literal.
CheckLiteralOnly(code) ==
    LET k == PastOps(code, 1, {"NOP", "FENCE"})
        m == PastOps(code, k + 1, {"NOP", "FENCE"})
    IN  /\ k < Len(code) /\ code[k].op = "LIT" /\ code[k].text # <<>>
        /\ m <= Len(code) /\ code[m].op = "ACCEPT"

\* One class instruction and a terminator.
CheckSimdEligible(code) ==
    /\ code[1].op \in {"SPAN", "BREAK", "ANY", "NOTANY"}
    /\ LET m == PastOps(code, 2, {"NOP"})
       IN  m <= Len(code) /\ code[m].op \in Terminals \cup {"FAIL"}

\* snobol_bc_register_classes: what the instructions before the first
\* terminator write.  bc_has_capture finds no capture this one does not, unless
\* it loses its place behind a JMP or the text of a LIT; a capture it imagines
\* there only closes shortcuts and is left out.
BeforeTerminal(code) ==
    SelectInSeq(Append(code, [op |-> "ACCEPT"]), LAMBDA i : i.op \in Terminals) - 1
RegisterClasses(code) ==
    LET seen == {code[k].op : k \in 1 .. BeforeTerminal(code)}
        known == ClassOps \cup CursorOps \cup
                 {"CAP_START", "CAP_END", "EMIT_CAPTURE", "ASSIGN", "REPEAT_INIT",
                  "REPEAT_STEP", "FAIL", "NOP", "FENCE", "REM", "DYNAMIC", "JMP", "SPLIT",
                  "LIT", "EMIT_LITERAL", "EVAL", "LEN", "ANCHOR"}
    IN  IF ~(seen \subseteq known) THEN {"capture", "vars", "counters"}
        ELSE {c \in {"capture", "vars", "counters"} :
                CASE c = "capture"  -> seen \cap {"CAP_START", "CAP_END", "EMIT_CAPTURE", "ASSIGN"} # {}
                  [] c = "vars"     -> seen \cap {"CAP_END", "ASSIGN"} # {}
                  [] c = "counters" -> seen \cap {"REPEAT_INIT", "REPEAT_STEP"} # {}}

(***************************************************************************)
(* Fusion: a program as a sequence of segments matched left to right.      *)
(***************************************************************************)
\* fusion_bitmap_from_ascii, fusion_bitmap_invert: the segment of one
\* instruction; Refused when its class is not ASCII or it has no segment.
Refused == [type |-> "refused"]
Segment(i) ==
    CASE i.op = "LIT" -> [type |-> "lit", text |-> i.text]
      [] i.op \in ClassOps \ {"BREAKX"} /\ AsciiOnly(i.set) ->
           [type |-> IF i.op \in {"ANY", "NOTANY"} THEN "char" ELSE "run",
            set  |-> IF i.op \in {"NOTANY", "BREAK"} THEN Bytes \ i.set ELSE i.set,
            min  |-> IF i.op = "SPAN" THEN 1 ELSE 0]
      [] OTHER -> Refused

\* Instructions without a segment.
Skipped(i) == i.op \in {"NOP", "FENCE"} \/ (i.op = "LIT" /\ i.text = <<>>)

\* What part gives for the addresses from start on, up to an opcode of stops or
\* the end of the program.
Gather(code, start, stops, part) ==
    LET f[k \in 1 .. Len(code) + 1] ==
          IF k > Len(code) \/ code[k].op \in stops THEN <<>> ELSE part[k] \o f[k + 1]
    IN  f[start]

\* The segments of one branch of a SPLIT, up to its JMP or the end of the
\* program; <<>> when there are none or one is refused.
FusionBranch(code, start) ==
    LET part == [k \in DOMAIN code |->
                    IF Skipped(code[k]) THEN <<>> ELSE <<Segment(code[k])>>]
        segs == Gather(code, start, {"ACCEPT", "SUCCEED", "JMP"}, part)
    IN  IF Refused \in ToSet(segs) \/ Len(segs) > MAX_FUSION_SEGMENTS THEN <<>> ELSE segs

\* The segment of a SPLIT, whose branches may hold no SPLIT.
AltSegment(code, i) ==
    LET l == FusionBranch(code, i.a)
        r == FusionBranch(code, i.b)
    IN  IF l = <<>> \/ r = <<>> THEN Refused ELSE [type |-> "alt", alts |-> <<l, r>>]

\* check_fusion_eligible: the segments, <<>> when the program is refused.
\* After a SPLIT the scan goes on inside its first branch, with an empty
\* literal segment between, and refuses the JMP at that branch's end.  The
\* code counts before each instruction and a SPLIT twice; a program with a
\* SPLIT is refused for its JMP whenever the count is taken, and in the others
\* an instruction is a segment, so that the count at the end is the same test
\* (but for an empty literal behind the last segment, which the code refuses).
FusionSegments(code) ==
    LET part == [k \in DOMAIN code |->
                    IF Skipped(code[k]) THEN <<>>
                    ELSE IF code[k].op = "SPLIT"
                      THEN <<AltSegment(code, code[k]), [type |-> "lit", text |-> <<>>]>>
                    ELSE <<Segment(code[k])>>]
        segs == Gather(code, 1, {"ACCEPT", "SUCCEED"}, part)
    IN  IF Refused \in ToSet(segs) \/ Len(segs) > MAX_FUSION_SEGMENTS \/ Len(segs) < 2
          THEN <<>> ELSE segs

(***************************************************************************)
(* The required literal: the last literal of the linear scan, unless it    *)
(* may be bypassed.                                                        *)
(***************************************************************************)
\* A SPLIT with a branch that is one instruction and a JMP past the last
\* literal.  Of the instructions with operands only LIT and JMP are stepped
\* over; behind the others the scan looks at an operand byte and sees no JMP.
BranchBypasses(code, k, lit) ==
    \E b \in {code[k].a, code[k].b} :
        /\ b < Len(code)
        /\ code[b].op \in {"LIT", "JMP", "NOP", "FENCE", "REM", "FAIL"} \cup Terminals
        /\ code[b + 1].op = "JMP" /\ code[b + 1].target > lit

RequiredLiteral(code) ==
    LET step(acc, k) ==
          LET i == code[k]
          IN  CASE i.op = "LIT" ->
                     IF i.text = <<>> THEN [acc EXCEPT !.at = k]
                     ELSE [acc EXCEPT !.at = k, !.text = Clip(i.text),
                                      !.bypassed = acc.early \/ acc.branch \/ k < acc.loopEnd]
                [] i.op = "SPLIT" /\ acc.text = <<>> ->
                     [acc EXCEPT !.early = TRUE, !.bypassed = TRUE]
                [] i.op = "SPLIT" /\ BranchBypasses(code, k, acc.at) ->
                     [acc EXCEPT !.branch = TRUE, !.bypassed = TRUE]
                [] i.op = "REPEAT_INIT" /\ i.min = 0 /\ i.skip > k ->
                     [acc EXCEPT !.loopEnd = i.skip]
                [] OTHER -> acc
        end == FoldLeft(step, [at |-> 0, text |-> <<>>, bypassed |-> FALSE, early |-> FALSE,
                               branch |-> FALSE, loopEnd |-> 0],
                        [k \in 1 .. BeforeTerminal(code) |-> k])
    IN  IF end.bypassed THEN <<>> ELSE end.text

(***************************************************************************)
(* snobol_search_derive_meta.                                              *)
(***************************************************************************)
\* The first consuming instruction.
FirstConsuming(code) ==
    LET k == PastOps(code, 1, {"ANCHOR", "NOP", "FENCE"} \cup CursorOps)
    IN  IF k > Len(code) THEN 1 ELSE k

\* CHECK_SINGLE_LIT: a branch that is one character and ACCEPT.
SingleLit(code, k) ==
    /\ k < Len(code) /\ code[k].op = "LIT" /\ Len(code[k].text) = 1
    /\ code[k + 1].op = "ACCEPT"

\* The shape of the first instruction.
ShapeOf(code) ==
    LET k   == FirstConsuming(code)
        i   == code[k]
        nil == [prefix |-> <<>>, class |-> {}, candidates |-> {}, ascii |-> FALSE,
                break |-> FALSE, span |-> FALSE, single |-> FALSE, empty |-> FALSE]
    IN  CASE i.op \in {"ACCEPT", "SUCCEED"} -> [nil EXCEPT !.empty = TRUE]
          [] i.op = "LIT" -> [nil EXCEPT !.prefix = Clip(i.text), !.empty = (i.text = <<>>)]
          [] i.op \in {"BREAK", "BREAKX"} ->
               [nil EXCEPT !.break = TRUE, !.empty = TRUE,
                           !.class = AsciiPart(i.set), !.ascii = AsciiOnly(i.set)]
          [] i.op = "SPAN" ->
               [nil EXCEPT !.span = TRUE, !.class = AsciiPart(i.set), !.ascii = AsciiOnly(i.set)]
          [] i.op = "ANY" /\ i.set # {} ->
               [nil EXCEPT !.single = AsciiOnly(i.set), !.candidates = AsciiPart(i.set),
                           !.ascii = AsciiOnly(i.set)]
          [] i.op = "NOTANY" -> [nil EXCEPT !.ascii = AsciiOnly(i.set) /\ i.set # {}]
          [] i.op = "REPEAT_INIT" ->
               [nil EXCEPT !.empty = /\ i.min = 0 /\ i.skip <= Len(code)
                                     /\ code[i.skip].op \in {"ACCEPT", "SUCCEED"}]
          [] i.op = "SPLIT" /\ SingleLit(code, i.a) /\ SingleLit(code, i.b) ->
               [nil EXCEPT !.single = TRUE,
                           !.candidates = AsciiPart({code[i.a].text[1], code[i.b].text[1]})]
          [] OTHER -> nil

\* Fault: the last byte of the prefix counts as well.
BmhSkipAll(prefix) ==
    [c \in Bytes |->
        LET at == {i \in 1 .. Len(prefix) : prefix[i] = c}
        IN  IF at = {} THEN Len(prefix)
            ELSE Len(prefix) - (CHOOSE i \in at : \A x \in at : x <= i)]

\* The table of the Boyer-Moore-Horspool skip for a prefix.
BmhSkip(prefix) ==
    [c \in Bytes |->
        LET at == {i \in 1 .. Len(prefix) - 1 : prefix[i] = c}
        IN  IF at = {} THEN Len(prefix)
            ELSE Len(prefix) - (CHOOSE i \in at : \A x \in at : x <= i)]

DeriveMeta(code) ==
    LET sh      == ShapeOf(code)
        alt     == code[FirstConsuming(code)].op = "SPLIT" /\ CheckAltLiterals(code)
        altPref == IF alt THEN AltLiteralsSharedPrefix(code) ELSE <<>>
        prefix  == IF altPref # <<>> THEN altPref ELSE sh.prefix
        empty   == sh.empty \/ (alt /\ AltHasEmptyBranch(code))
        classes == RegisterClasses(code)
        \* capture gate: clears every shortcut that does not keep captures
        free    == "capture" \notin classes
        bmh     == Len(sh.prefix) >= 2 \/ altPref # <<>>
        req     == IF alt /\ free THEN <<>> ELSE RequiredLiteral(code)
        segs    == FusionSegments(code)
    IN  [has_literal_prefix   |-> free /\ sh.prefix # <<>>,
         literal_prefix       |-> prefix,
         has_bmh_skip         |-> bmh,
         bmh_skip             |-> IF bmh THEN BmhSkip(prefix) ELSE <<>>,
         is_break_family      |-> free /\ sh.break,
         is_span_family       |-> free /\ sh.span,
         class_bitmap         |-> sh.class,
         ascii_class_only     |-> sh.ascii,
         has_candidate_bitmap |-> free /\ sh.single,
         candidate_bitmap     |-> sh.candidates,
         may_match_empty      |-> empty,
         is_alt_literals      |-> free /\ alt,
         is_alt_literals_flat |-> free /\ alt /\ ~AltLiteralsSharePrefix(code),
         automaton_eligible   |-> /\ free /\ CheckAutomatonEligible(code)
                                  /\ (sh.break \/ sh.span) => sh.ascii,
         is_literal_only      |-> CheckLiteralOnly(code),
         search_vm_eligible   |-> CheckSearchVMEligible(code),
         simd_eligible        |-> free /\ CheckSimdEligible(code),
         fusion_eligible      |-> free /\ segs # <<>>,
         fusion               |-> segs,
         start_bitmap         |-> IF empty THEN Bytes ELSE StartBitmap(code),
         minlength            |-> MinLength(code),
         has_required_lit     |-> req # <<>>,
         required_lit         |-> req,
         classes              |-> classes]

(***************************************************************************)
(* select_tier_by_cost.                                                    *)
(***************************************************************************)
\* k_tier_cost, in the order of the table.
TierCost ==
    <<[tier |-> "BREAK_SCAN", setup |-> 20, div |-> 8],
      [tier |-> "SPAN_SCAN", setup |-> 20, div |-> 8],
      [tier |-> "LITERAL", setup |-> 10, div |-> 16],
      [tier |-> "PREFIX", setup |-> 30, div |-> 32],
      [tier |-> "BITMAP", setup |-> 25, div |-> 12],
      [tier |-> "ALT_LIT", setup |-> 12, div |-> 20],
      [tier |-> "SEARCH_VM", setup |-> 50, div |-> 10],
      [tier |-> "GENERAL", setup |-> 100, div |-> 5],
      [tier |-> "SIMD_NFA", setup |-> 15, div |-> 16],
      [tier |-> "FUSED", setup |-> 20, div |-> 8]>>

TierEligible(tier, m, anchored) ==
    CASE tier = "BREAK_SCAN" -> ~anchored /\ m.is_break_family /\ m.ascii_class_only
      [] tier = "SPAN_SCAN"  -> ~anchored /\ m.is_span_family /\ m.ascii_class_only
      [] tier = "LITERAL"    -> m.is_literal_only
      [] tier = "PREFIX"     -> ~anchored /\ m.has_literal_prefix
      [] tier = "BITMAP"     -> m.has_candidate_bitmap
      [] tier = "ALT_LIT"    -> m.is_alt_literals
      [] tier = "SEARCH_VM"  -> m.search_vm_eligible /\ ~m.is_alt_literals
      [] tier = "SIMD_NFA"   -> m.simd_eligible /\ m.ascii_class_only
      [] tier = "FUSED"      -> m.fusion_eligible /\ ~m.has_literal_prefix
      [] OTHER               -> TRUE

\* The cheapest eligible tier; the first of the table among equals.
SelectTier(m, len, anchored) ==
    LET ok == {i \in DOMAIN TierCost : TierEligible(TierCost[i].tier, m, anchored)}
        cost(i) == TierCost[i].setup + len \div TierCost[i].div
    IN  TierCost[CHOOSE i \in ok :
                    \A j \in ok : cost(i) < cost(j) \/ (cost(i) = cost(j) /\ i <= j)].tier
=============================================================================
