---------------------------- MODULE SearchTiers ----------------------------
(***************************************************************************)
(* One search, from snobol_search_exec or snobol_search_exec_anchored to   *)
(* its result: the filters, the choice of a tier, the loop of the tier     *)
(* over the offsets of the subject, and the engines the tiers run there.   *)
(* core/src/search_tiers.c, search_simd.c and search_fusion.c, over the    *)
(* analysis of SearchMeta and the engines SearchVM, PikeScan, SearchDFA.   *)
(*                                                                         *)
(* The full VM is the operators VmExec and VmRegs (PatternVM models it).   *)
(* The length the cost model sees, task.cost, is the subject's or a longer *)
(* one: a short subject then takes the tier of a long one.                 *)
(***************************************************************************)
EXTENDS SearchVM, PikeScan, SearchDFA

CONSTANTS
    VmExec(_, _),         \* pattern and window: status and end of vm_exec
    VmRegs(_, _, _),      \* pattern, window, registers before: those after vm_exec
    Programs,             \* set of records [code, tree]
    Tasks,                \* the searches
    MAX_TRIE_NODES        \* SNOBOL_AUTO_MAX_NODES

\* The compiler puts both branches of an alternation behind its SPLIT.  A
\* start behind the subject is answered before any tier is called.
Forward(code) ==
    \A k \in DOMAIN code :
        code[k].op = "SPLIT" => code[k].a \in k + 1 .. Len(code) /\ code[k].b \in k + 1 .. Len(code)

ASSUME SearchAssumption ==
    /\ \A p \in Programs : Decoded(p.code) /\ Forward(p.code) /\ p.code # <<>>
    /\ \A t \in Tasks :
          t.subject \in Seq(Bytes) /\ t.start \in 0 .. Len(t.subject) /\ t.cost \in Nat
    /\ MAX_PREFIX \in Nat /\ MAX_LIT_BYTES \in Nat /\ MAX_TRIE_NODES \in Nat /\ MAX_LIT_BYTES < MAX_TRIE_NODES

VARIABLES
    pc,       \* "call", "tier", "pike", "svm", "done"
    tier,     \* the tier that is running
    offset,   \* its offset
    left,     \* the registers the VM's last run left
    out       \* the result, and which engine gave it

vars == <<pattern, task, svm, pike, pc, tier, offset, left, out>>

M == pattern.meta
D == pattern.dfa

\* snobol_search_derive_meta, and snobol_search_get_or_build_dfa where there
\* may be an automaton.
Prepared(p) ==
    LET m == DeriveMeta(p.code)
    IN  [code |-> p.code, tree |-> p.tree, meta |-> m,
         dfa  |-> IF m.automaton_eligible THEN BuildDfa(p.code) ELSE NoDfa]

\* The VM keeps its cursor in the window it is given, the rest of a subject
\* (theorem VMStaysInside of PatternVM_proofs).
Windows == UNION {{SubSeq(t.subject, o + 1, Len(t.subject)) : o \in 0 .. Len(t.subject)} : t \in Tasks}
ASSUME VmAssumption ==
    \A p \in {Prepared(q) : q \in Programs}, w \in Windows :
        VmExec(p, w).status = "match" => VmExec(p, w).end \in 0 .. Len(w)

NoResult == [success |-> FALSE, start |-> 0, end |-> 0, aborted |-> FALSE,
             regs |-> ZeroRegs, by |-> "none"]
Found(p, q, regs, by) == [success |-> TRUE, start |-> p, end |-> q, aborted |-> FALSE,
                          regs |-> regs, by |-> by]

Init ==
    /\ pattern \in {Prepared(p) : p \in Programs}
    /\ task \in Tasks
    /\ svm = SvmIdle /\ pike = PikeIdle
    /\ pc = "call" /\ tier = "none" /\ offset = task.start
    /\ left = ZeroRegs
    /\ out = NoResult

\* Steps of a tier; what the VM's registers become is said where they are used.
Finish(o) == /\ pc' = "done" /\ out' = o
             /\ svm' = SvmIdle
             /\ UNCHANGED <<pattern, task, pike, tier, offset>>
GoTo(o)   == offset' = o /\ UNCHANGED <<pattern, task, svm, pike, pc, tier, out>>
Fallback  == tier' = "GENERAL" /\ offset' = task.start /\ UNCHANGED <<pattern, task, svm, pike, pc, out>>

\* The first occurrence of text from p on; -1 if there is none (memmem).
Occurrence(text, p) ==
    LET at == {q \in p .. SLen : LiteralAt(text, q)}
    IN  IF at = {} THEN -1 ELSE CHOOSE q \in at : \A x \in at : q <= x

(***************************************************************************)
(* Entry: filters and dispatch.                                            *)
(***************************************************************************)
\* search_prefilter_miss.
PrefilterMiss == M.has_required_lit /\ Occurrence(M.required_lit, task.start) = -1

\* A program that is one byte is looked for at once.
ShortCircuit == ~task.anchored /\ M.is_literal_only /\ Len(M.required_lit) = 1

UseDfa == /\ task.dfa /\ D # NoDfa /\ M.automaton_eligible
          /\ ~M.is_alt_literals /\ M.has_bmh_skip

\* dispatch_search_impl: the tier, with the automaton in front of it.
DispatchTier ==
    IF UseDfa /\ ~task.anchored THEN "AUTOMATON"
    ELSE SelectTier(M, task.cost, task.anchored)

SearchExec ==
    /\ pc = "call"
    /\ IF ShortCircuit
         THEN LET p == Occurrence(M.required_lit, task.start)
              IN  Finish(IF p = -1 THEN NoResult ELSE Found(p, p + 1, ZeroRegs, "literal"))
       ELSE IF PrefilterMiss THEN Finish([NoResult EXCEPT !.by = "prefilter"])
       ELSE LET r == AutomatonExecAnchored(D, task.start)
            IN  IF task.anchored /\ UseDfa /\ r.success
                  THEN Finish(Found(r.start, r.end, ZeroRegs, "dfa"))
                  ELSE /\ pc' = "tier" /\ tier' = DispatchTier
                       /\ UNCHANGED <<pattern, task, svm, pike, offset, out>>
    /\ UNCHANGED left

(***************************************************************************)
(* Tiers that confirm candidates with the VM.                              *)
(***************************************************************************)
Tier(t) == pc = "tier" /\ tier = t
NotFound == Finish(NoResult)

\* Without a run of the VM: nothing is found, or offset o is next.
GiveUp  == NotFound /\ UNCHANGED left
Skip(o) == GoTo(o) /\ UNCHANGED left

\* Run the VM at p: a match ends the search, otherwise Else.  search_reset_vm
\* sets the numbers of registers in use to zero and leaves the registers.
Confirm(p, Else) ==
    LET r == VmExec(pattern, Slice(p, SLen))
        R == VmRegs(pattern, Slice(p, SLen), [left EXCEPT !.caps = 0, !.vars = 0])
    IN  /\ left' = R
        /\ IF r.status = "match" THEN Finish(Found(p, p + r.end, R, "vm")) ELSE Else

\* Fault: the shift is always the length of the prefix.
HorspoolByLength(o) ==
    IF M.has_bmh_skip /\ o + Len(M.literal_prefix) <= SLen
      THEN o + Len(M.literal_prefix)
      ELSE o + 1

\* The offset after a failure: the Horspool shift when there is a table and
\* its window fits, else one byte.
Horspool(o) ==
    IF M.has_bmh_skip /\ o + Len(M.literal_prefix) <= SLen
      THEN o + M.bmh_skip[ByteAt(o + Len(M.literal_prefix) - 1)]
      ELSE o + 1

\* search_break_accelerated.  The candidates are the start and the bytes
\* behind delimiters.
TierBreakScan ==
    /\ Tier("BREAK_SCAN")
    /\ LET scan == RunUntil(offset, M.class_bitmap)
       IN  Confirm(offset, IF scan >= SLen THEN NotFound ELSE GoTo(scan + 1))

\* search_span_accelerated.
TierSpanScan ==
    /\ Tier("SPAN_SCAN")
    /\ IF offset >= SLen THEN GiveUp
       ELSE IF ByteAt(offset) \notin M.class_bitmap THEN Skip(offset + 1)
       ELSE Confirm(offset, GoTo(offset + 1))

\* search_literal_accelerated.  A two-byte prefix is found by its first byte
\* alone at the end of the subject.
PrefixCandidate(o) ==
    LET p    == M.literal_prefix
        last == SLen - 1
    IN  IF Occurrence(p, o) # -1 THEN Occurrence(p, o)
        ELSE IF Len(p) = 2 /\ last >= o /\ ByteAt(last) = p[1] THEN last
        ELSE -1
TierPrefix ==
    /\ Tier("PREFIX")
    /\ LET c == IF offset > SLen THEN -1 ELSE PrefixCandidate(offset)
       IN  IF c = -1 THEN GiveUp ELSE Confirm(c, GoTo(c + 1))

\* search_bitmap_accelerated.
TierBitmap ==
    /\ Tier("BITMAP")
    /\ IF offset >= SLen THEN GiveUp
       ELSE IF ByteAt(offset) \notin M.candidate_bitmap THEN Skip(offset + 1)
       ELSE Confirm(offset, IF task.anchored THEN NotFound ELSE GoTo(offset + 1))

\* Fault: the skip over impossible first bytes runs off the last offset.
TierGeneralNoEnd ==
    /\ Tier("GENERAL")
    /\ IF offset >= SLen THEN GiveUp
       ELSE IF ByteAt(offset) \notin M.start_bitmap THEN Skip(offset + 1)
       ELSE IF offset + M.minlength > SLen THEN GiveUp
       ELSE Confirm(offset, IF task.anchored THEN NotFound ELSE GoTo(Horspool(offset)))

\* tier_general_fallback.  The start-byte filter is passed at the end of the
\* subject; it moves on from the start of an anchored search as well.
TierGeneral ==
    /\ Tier("GENERAL")
    /\ IF offset > SLen THEN GiveUp
       ELSE IF offset < SLen /\ ByteAt(offset) \notin M.start_bitmap THEN Skip(offset + 1)
       ELSE IF offset + M.minlength > SLen THEN GiveUp
       ELSE Confirm(offset,
                    IF VmExec(pattern, Slice(offset, SLen)).status = "abort"
                      THEN Finish([NoResult EXCEPT !.aborted = TRUE])
                    ELSE IF offset >= SLen \/ task.anchored THEN NotFound
                    ELSE GoTo(Horspool(offset)))

(***************************************************************************)
(* Tiers without the VM.                                                   *)
(***************************************************************************)
\* search_literal_only.
TierLiteral ==
    /\ Tier("LITERAL")
    /\ LET text == Code[PastOps(Code, 1, {"NOP", "FENCE"})].text
           p    == IF task.anchored
                     THEN IF LiteralAt(text, task.start) THEN task.start ELSE -1
                     ELSE Occurrence(text, task.start)
       IN  IF p = -1 THEN NotFound ELSE Finish(Found(p, p + Len(text), ZeroRegs, "literal"))
    /\ UNCHANGED left

\* trie_insert of all literals: a node per distinct prefix.
TrieNodes(lits) == 1 + Cardinality(UNION {{SubSeq(t, 1, n) : n \in 1 .. Len(t)} : t \in ToSet(lits)})

\* trie_match: of the literals that begin at p, the first of the alternation;
\* 0 when there is none.
TrieMatch(lits, p) ==
    LET at == {i \in DOMAIN lits : LiteralAt(lits[i], p)}
    IN  IF at = {} THEN 0 ELSE CHOOSE i \in at : \A x \in at : i <= x

\* search_alt_literals_try.  At the end of the subject the start-byte filter
\* reads behind it; only programs that match nothing get there, and those
\* admit every byte.
TierAltLit ==
    /\ Tier("ALT_LIT")
    /\ LET lits == AltLeaves(Code).lits
           i    == TrieMatch(lits, offset)
       IN  IF TrieNodes(lits) > MAX_TRIE_NODES THEN Fallback
           ELSE IF offset + M.minlength > SLen \/ (task.anchored /\ offset # task.start)
             THEN NotFound
           ELSE IF offset < SLen /\ ByteAt(offset) \notin M.start_bitmap THEN GoTo(offset + 1)
           ELSE IF i # 0
             THEN Finish(Found(offset, offset + Len(lits[i]), ZeroRegs, "trie"))
           ELSE GoTo(Horspool(offset))
    /\ UNCHANGED left

\* build_nfa_masks and the verifiers: the end of the match of one class
\* instruction at p, -1 if it fails.  The vector loops skip whole blocks of
\* the run and leave the rest to the scalar one, so they return the same.
SimdMask(i) == IF i.op \in {"NOTANY", "BREAK"} THEN Bytes \ i.set ELSE i.set
SimdVerify(i, p) ==
    LET run == RunEnd(p, SimdMask(i))
    IN  CASE i.op \in {"ANY", "NOTANY"} -> IF run > p THEN p + 1 ELSE -1
          [] i.op = "SPAN"              -> IF run > p THEN run ELSE -1
          [] i.op = "BREAK"             -> run

\* tier_simd_nfa.
TierSimdNfa ==
    /\ Tier("SIMD_NFA")
    /\ LET i   == Code[1]
           end == SimdVerify(i, offset)
       IN  IF task.anchored \/ i.op = "BREAK"
             THEN IF end = -1 THEN NotFound ELSE Finish(Found(offset, end, ZeroRegs, "simd"))
           ELSE IF offset >= SLen THEN NotFound
           ELSE IF end = -1 THEN GoTo(offset + 1)
           ELSE Finish(Found(offset, end, ZeroRegs, "simd"))
    /\ UNCHANGED left

\* exec_fusion: the end of the segments from p on, -1 if one fails.  The
\* first alternative that matches is taken for good.
SegmentEnd(seg, p) ==
    CASE seg.type = "lit"  -> IF LiteralAt(seg.text, p) THEN p + Len(seg.text) ELSE -1
      [] seg.type = "char" -> IF p < SLen /\ ByteAt(p) \in seg.set THEN p + 1 ELSE -1
      [] seg.type = "run"  -> IF RunEnd(p, seg.set) - p >= seg.min THEN RunEnd(p, seg.set) ELSE -1
\* One step after another, steps being functions of the position; -1 is final.
Through(steps, p) ==
    LET at[n \in 0 .. Len(steps)] ==
          IF n = 0 THEN p ELSE IF at[n - 1] = -1 THEN -1 ELSE steps[n][at[n - 1]]
    IN  at[Len(steps)]
BranchEnd(segs, p) ==
    Through([n \in DOMAIN segs |-> [q \in 0 .. SLen |-> SegmentEnd(segs[n], q)]], p)
AltEnd(alts, p) ==
    IF BranchEnd(alts[1], p) # -1 THEN BranchEnd(alts[1], p) ELSE BranchEnd(alts[2], p)
ExecFusion(segs, p) ==
    Through([n \in DOMAIN segs |->
                [q \in 0 .. SLen |-> IF segs[n].type = "alt" THEN AltEnd(segs[n].alts, q)
                                     ELSE SegmentEnd(segs[n], q)]], p)

\* tier_fusion.
TierFusion ==
    /\ Tier("FUSED")
    /\ LET end == ExecFusion(M.fusion, offset)
       IN  IF ~task.anchored /\ offset >= SLen THEN NotFound
           ELSE IF end # -1 THEN Finish(Found(offset, end, ZeroRegs, "fusion"))
           ELSE IF task.anchored THEN NotFound
           ELSE GoTo(offset + 1)
    /\ UNCHANGED left

\* tier_automaton.  When the automaton finds nothing the VM has the last word.
TierAutomaton ==
    /\ Tier("AUTOMATON")
    /\ LET r == AutomatonExec(D, offset)
       IN  IF r.success THEN Finish(Found(r.start, r.end, ZeroRegs, "dfa"))
           ELSE IF offset >= SLen THEN Fallback
           ELSE GoTo(Horspool(offset))
    /\ UNCHANGED left

(***************************************************************************)
(* The search-VM tier: one pass of the Pike scan, or the search VM at one  *)
(* offset after the other.                                                 *)
(***************************************************************************)
\* Fault: a search from a later offset is scanned from there.
TierSearchVMScansOn ==
    /\ Tier("SEARCH_VM")
    /\ IF ~task.anchored
         THEN pc' = "pike" /\ pike' = [PikeStart EXCEPT !.pos = task.start - 1] /\ UNCHANGED svm
         ELSE pc' = "svm" /\ svm' = SvmAt(offset) /\ UNCHANGED pike
    /\ UNCHANGED <<pattern, task, tier, offset, left, out>>

\* The tier of the search VM.
TierSearchVM ==
    /\ Tier("SEARCH_VM")
    /\ IF task.start = 0 /\ ~task.anchored
         THEN pc' = "pike" /\ pike' = PikeStart /\ UNCHANGED svm
         ELSE pc' = "svm" /\ svm' = SvmAt(offset) /\ UNCHANGED pike
    /\ UNCHANGED <<pattern, task, tier, offset, left, out>>

\* The scan is believed when it found something, or lacked nothing.
PikeResult ==
    /\ pc = "pike" /\ pike.status = "done"
    /\ IF ~pike.zero /\ pike.found
         THEN Finish(Found(pike.start, pike.end, pike.regs, "pike"))
       ELSE IF ~pike.zero /\ ~pike.overflowed THEN NotFound
       ELSE /\ pc' = "svm" /\ svm' = SvmAt(offset)
            /\ UNCHANGED <<pattern, task, pike, tier, offset, out>>
    /\ UNCHANGED left

\* The restart loop, and search_vm_writeback_to_vm at its end.
SvmResult ==
    /\ pc = "svm"
    /\ \/ svm.status = "match" /\ Finish(Found(svm.base, svm.base + svm.pos, svm.regs, "svm"))
       \/ svm.status = "abort" /\ Finish([NoResult EXCEPT !.aborted = TRUE])
       \/ /\ svm.status = "fail"
          /\ IF offset >= SLen \/ task.anchored THEN NotFound
             ELSE /\ offset' = Horspool(offset) /\ svm' = SvmAt(Horspool(offset))
                  /\ UNCHANGED <<pattern, task, pike, pc, tier, out>>
    /\ UNCHANGED left

PikeRun == pc = "pike" /\ PikeStep /\ UNCHANGED <<pattern, task, svm, pc, tier, offset, left, out>>
SvmRun  == pc = "svm" /\ SvmStep /\ UNCHANGED <<pattern, task, pike, pc, tier, offset, left, out>>
Returned == pc = "done" /\ UNCHANGED vars

Next ==
    \/ SearchExec
    \/ TierBreakScan \/ TierSpanScan \/ TierPrefix \/ TierBitmap \/ TierGeneral
    \/ TierLiteral \/ TierAltLit \/ TierSimdNfa \/ TierFusion \/ TierAutomaton
    \/ TierSearchVM \/ PikeRun \/ PikeResult \/ SvmRun \/ SvmResult
    \/ Returned

\* The code is sequential: a search that can take a step takes it.
Spec == Init /\ [][Next]_vars /\ WF_vars(Next)

\* The literals of a program that goes to the trie tier fit the trie: the
\* budget the analysis counts in bytes covers the nodes the tier has.
TrieFits == Tier("ALT_LIT") => TrieNodes(AltLeaves(Code).lits) <= MAX_TRIE_NODES

(***************************************************************************)
(* What a tier may skip.                                                   *)
(***************************************************************************)
\* The tiers that leave out offsets before they check one, and their check.
SkippingTiers == {"BREAK_SCAN", "SPAN_SCAN", "PREFIX", "BITMAP", "GENERAL", "ALT_LIT"}
Hit(o) == IF tier = "ALT_LIT" THEN TrieMatch(AltLeaves(Code).lits, o) # 0
          ELSE VmExec(pattern, Slice(o, SLen)).status = "match"

\* The analysis is right about this search: where the check succeeds the
\* subject is as the analysis says of every match.
AnalysisRight ==
    \A o \in {x \in task.start .. SLen : Hit(x)} :
        /\ o < SLen => ByteAt(o) \in M.start_bitmap
        /\ M.minlength \in 0 .. SLen - o
        /\ M.has_bmh_skip \/ M.has_literal_prefix => LiteralAt(M.literal_prefix, o)
        /\ M.has_candidate_bitmap => o < SLen /\ ByteAt(o) \in M.candidate_bitmap
        /\ M.ascii_class_only /\ M.is_span_family => o < SLen /\ ByteAt(o) \in M.class_bitmap
        /\ M.ascii_class_only /\ M.is_break_family /\ o > task.start =>
              ByteAt(o - 1) \in M.class_bitmap \/ Hit(o - 1)

\* Whatever engine answers, and whatever filters and loops came before: the
\* match it reports lies inside the subject and not before the start asked for.
ResultInside ==
    pc = "done" /\ out.success =>
        task.start <= out.start /\ out.start <= out.end /\ out.end <= SLen

\* As far as the analysis is right, the loops of the tiers skip nothing: what
\* a search finds is at the first offset where the check of its tier succeeds,
\* and a search that finds nothing had no such offset (an anchored one: not at
\* its start).
SkipsNothing ==
    pc = "done" /\ tier \in SkippingTiers /\ AnalysisRight =>
        /\ out.success =>
              Hit(out.start) /\ \A o \in task.start .. out.start - 1 : ~Hit(o)
        /\ ~out.success /\ ~out.aborted =>
              \A o \in task.start .. (IF task.anchored THEN task.start ELSE SLen) : ~Hit(o)
=============================================================================
