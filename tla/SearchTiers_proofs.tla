------------------------- MODULE SearchTiers_proofs -------------------------
(***************************************************************************)
(* Searches for every program, subject and size of the buffers: a search   *)
(* uses the Pike scan as it is specified, the trie tier has nodes enough,  *)
(* and the tiers skip no offset where they could succeed.                  *)
(*                                                                         *)
(* The trie has a node for every distinct prefix of its literals, so never *)
(* more than bytes were counted, and the root.  For the tiers that skip,   *)
(* the invariant says that no check before the offset of the tier          *)
(* succeeds; each tier keeps it by its own argument, from what the         *)
(* analysis says of a match.                                               *)
(***************************************************************************)
EXTENDS SearchTiers, PikeScan_proofs

(***************************************************************************)
(* The scan inside a search.                                               *)
(***************************************************************************)
\* Until a tier hands the search to an engine, the scan has not begun.
ScanUnused == pc \in {"call", "tier"} => pike = PikeIdle

\* A step of a search begins the scan, goes on with it, or leaves it alone;
\* no step leads back to the tiers.
LEMMA SearchStep ==
    ASSUME ScanUnused, [Next]_vars
    PROVE  ScanUnused' /\ [PikeNext]_pikeVars
<1> USE DEF ScanUnused, pikeVars
<1>1. CASE SearchExec
  BY <1>1 DEF SearchExec, Finish
<1>2. CASE TierSearchVM
  BY <1>2 DEF TierSearchVM, Tier, PikeNext, PikeCall, PikeIdle
<1>3. CASE PikeRun
  BY <1>3 DEF PikeRun, PikeNext
<1>4. CASE PikeResult \/ SvmRun \/ SvmResult
  BY <1>4 DEF PikeResult, SvmRun, SvmResult, Finish, NotFound
<1>5. CASE \/ TierBreakScan \/ TierSpanScan \/ TierPrefix \/ TierBitmap \/ TierGeneral
           \/ TierLiteral \/ TierAltLit \/ TierSimdNfa \/ TierFusion \/ TierAutomaton
  <2>1. pc = "tier" /\ UNCHANGED <<pattern, task, pike>>
    <3> USE DEF Tier, Finish, GoTo, Fallback, NotFound, GiveUp, Skip, Confirm
    <3>1. CASE TierBreakScan BY <3>1 DEF TierBreakScan
    <3>2. CASE TierSpanScan BY <3>2 DEF TierSpanScan
    <3>3. CASE TierPrefix BY <3>3 DEF TierPrefix
    <3>4. CASE TierBitmap BY <3>4 DEF TierBitmap
    <3>5. CASE TierGeneral BY <3>5 DEF TierGeneral
    <3>6. CASE TierLiteral BY <3>6 DEF TierLiteral
    <3>7. CASE TierAltLit BY <3>7 DEF TierAltLit
    <3>8. CASE TierSimdNfa BY <3>8 DEF TierSimdNfa
    <3>9. CASE TierFusion BY <3>9 DEF TierFusion
    <3>10. CASE TierAutomaton BY <3>10 DEF TierAutomaton
    <3> QED BY <1>5, <3>1, <3>2, <3>3, <3>4, <3>5, <3>6, <3>7, <3>8, <3>9, <3>10
  <2> QED BY <2>1
<1>6. CASE Returned \/ UNCHANGED vars
  BY <1>6 DEF Returned, vars
<1> QED BY <1>1, <1>2, <1>3, <1>4, <1>5, <1>6 DEF Next

(***************************************************************************)
(* A search uses the scan as it is specified: search_vm_tier calls         *)
(* pike_scan at most once, for a program and a subject the scan may be     *)
(* given, and no other tier touches its threads.                           *)
(***************************************************************************)
THEOREM SearchUsesScan == Spec => PikeSpec
<1>1. Init => ScanUnused /\ PikeInit
  <2> SUFFICES ASSUME Init PROVE ScanUnused /\ PikeInit
    OBVIOUS
  <2>1. PICK p \in Programs : pattern = Prepared(p)
    BY DEF Init
  <2>2. Code = p.code
    BY <2>1 DEF Code, Prepared
  <2>3. Decoded(Code) /\ SLen \in Nat
    BY <2>2, SearchAssumption DEF Init, SLen
  <2> QED BY <2>3 DEF Init, ScanUnused, PikeInit, Loaded
<1>2. ScanUnused /\ [Next]_vars => ScanUnused' /\ [PikeNext]_pikeVars
  BY SearchStep
<1> QED BY <1>1, <1>2, PTL DEF Spec, PikeSpec

(***************************************************************************)
(* So in every search, whatever the program, the subject and the sizes of  *)
(* the buffers, the slabs of the scan balance and no thread of it waits    *)
(* behind its position, where it would be dropped unseen.                  *)
(***************************************************************************)
THEOREM SearchKeepsThreads == Spec => [](SlabsBalanced /\ NoneBehind)
BY SearchUsesScan, SlabsNeverLost, NobodyBehind, PTL

(***************************************************************************)
(* The trie: as many nodes as the literals have bytes, and the root.       *)
(***************************************************************************)
\* The function f counts the bytes of the first n literals.
Counts(lits, f, n) == f = [i \in 0 .. n |-> IF i = 0 THEN 0 ELSE f[i - 1] + Len(lits[i])]

\* The bytes of any number of literals can be counted.
LEMMA CountExists ==
    ASSUME NEW lits, NEW n \in Nat
    PROVE  \E f : Counts(lits, f, n)
<1> DEFINE Bad == {m \in Nat : ~\E f : Counts(lits, f, m)}
<1> SUFFICES ASSUME n \in Bad PROVE FALSE
  OBVIOUS
<1>1. PICK m \in Bad : \A x \in Bad : m <= x
  <2>1. Bad \subseteq Nat /\ Bad # {}
    OBVIOUS
  <2> HIDE DEF Bad
  <2> QED BY <2>1, LeastExists
<1>2. m \in Nat /\ ~\E f : Counts(lits, f, m)
  OBVIOUS
<1>3. CASE m = 0
  <2> DEFINE g == [k \in 0 .. 0 |-> 0]
  <2>1. Counts(lits, g, 0)
    BY DEF Counts
  <2> QED BY <1>2, <1>3, <2>1
<1>4. CASE m # 0
  <2>1. m - 1 \in Nat /\ m - 1 \notin Bad
    BY <1>1, <1>2, <1>4
  <2>2. PICK f : Counts(lits, f, m - 1)
    BY <2>1
  <2> DEFINE g == [k \in 0 .. m |-> IF k = m THEN f[m - 1] + Len(lits[m]) ELSE f[k]]
  <2>3. ASSUME NEW k \in 0 .. m
        PROVE  g[k] = IF k = 0 THEN 0 ELSE g[k - 1] + Len(lits[k])
    <3>1. CASE k = m
      <4>1. k - 1 \in 0 .. m /\ k - 1 # m /\ k # 0
        BY <1>2, <1>4, <3>1
      <4>2. g[k - 1] = f[k - 1]
        BY <4>1
      <4> QED BY <3>1, <4>1, <4>2
    <3>2. CASE k # m
      <4>1. k \in 0 .. m - 1 /\ (k # 0 => k - 1 \in 0 .. m /\ k - 1 # m)
        BY <1>2, <3>2
      <4>2. f[k] = IF k = 0 THEN 0 ELSE f[k - 1] + Len(lits[k])
        BY <2>2, <4>1 DEF Counts
      <4>3. g[k] = f[k] /\ (k # 0 => g[k - 1] = f[k - 1])
        BY <3>2, <4>1
      <4> QED BY <4>2, <4>3
    <3> QED BY <3>1, <3>2
  <2>4. g = [k \in 0 .. m |-> g[k]]
    OBVIOUS
  <2> HIDE DEF g
  <2>5. Counts(lits, g, m)
    BY <2>3, <2>4 DEF Counts
  <2> QED BY <1>2, <2>5
<1> QED BY <1>3, <1>4

\* The nodes trie_insert makes for one literal, and for the first n.
NodesOf(t) == {SubSeq(t, 1, n) : n \in 1 .. Len(t)}
Inserted(lits, n) == UNION {NodesOf(lits[i]) : i \in 1 .. n}

\* A literal has no more prefixes than bytes.
LEMMA NodesFew ==
    ASSUME NEW t, Len(t) \in Nat
    PROVE  IsFiniteSet(NodesOf(t)) /\ Cardinality(NodesOf(t)) <= Len(t)
<1> DEFINE f == [n \in 1 .. Len(t) |-> SubSeq(t, 1, n)]
<1>1. f \in Surjection(1 .. Len(t), NodesOf(t))
  BY DEF Surjection, NodesOf
<1> HIDE DEF f
<1>2. IsFiniteSet(1 .. Len(t)) /\ Cardinality(1 .. Len(t)) = IF 1 > Len(t) THEN 0 ELSE Len(t) - 1 + 1
  BY FS_Interval
<1>3. IsFiniteSet(1 .. Len(t)) /\ Cardinality(1 .. Len(t)) = Len(t)
  BY <1>2
<1> QED BY <1>1, <1>3, FS_Surjection

\* Sharing only saves nodes: the literals together have no more prefixes than
\* bytes.
LEMMA TrieBound ==
    ASSUME NEW lits, Len(lits) \in Nat, DOMAIN lits = 1 .. Len(lits),
           \A i \in 1 .. Len(lits) : Len(lits[i]) \in Nat
    PROVE  /\ LitBytes(lits) \in Nat /\ TrieNodes(lits) \in Nat
           /\ TrieNodes(lits) <= 1 + LitBytes(lits)
<1> DEFINE f == CHOOSE f : Counts(lits, f, Len(lits))
<1>1. LitBytes(lits) = f[Len(lits)]
  BY DEF LitBytes, Counts
<1>2. Counts(lits, f, Len(lits))
  BY CountExists
<1> HIDE DEF f
<1>3. f[0] = 0 /\ \A i \in 1 .. Len(lits) : f[i] = f[i - 1] + Len(lits[i])
  BY <1>2 DEF Counts
<1> DEFINE Few(n) == /\ f[n] \in Nat /\ IsFiniteSet(Inserted(lits, n))
                     /\ Cardinality(Inserted(lits, n)) <= f[n]
           Bad == {n \in 0 .. Len(lits) : ~Few(n)}
<1>4. Bad = {}
  <2> SUFFICES ASSUME Bad # {} PROVE FALSE
    OBVIOUS
  <2>1. PICK m \in Bad : \A x \in Bad : m <= x
    <3>1. Bad \subseteq Nat
      OBVIOUS
    <3> HIDE DEF Bad
    <3> QED BY <3>1, LeastExists
  <2>2. m \in 0 .. Len(lits) /\ ~Few(m)
    OBVIOUS
  <2>3. CASE m = 0
    <3>1. Inserted(lits, 0) = {}
      BY DEF Inserted
    <3>2. IsFiniteSet(Inserted(lits, 0)) /\ Cardinality(Inserted(lits, 0)) = 0
      BY <3>1, FS_EmptySet
    <3>3. Few(0)
      BY <1>3, <3>2
    <3> QED BY <2>2, <2>3, <3>3
  <2>4. CASE m # 0
    <3>1. m - 1 \in 0 .. Len(lits) /\ m \in 1 .. Len(lits) /\ m - 1 \notin Bad
      BY <2>1, <2>2, <2>4
    <3>2. Few(m - 1)
      BY <3>1
    <3>3. Inserted(lits, m) = Inserted(lits, m - 1) \cup NodesOf(lits[m])
      <4>1. 1 .. m = 1 .. m - 1 \cup {m}
        BY <3>1
      <4> QED BY <4>1 DEF Inserted
    <3>4. /\ IsFiniteSet(NodesOf(lits[m])) /\ Cardinality(NodesOf(lits[m])) <= Len(lits[m])
          /\ Len(lits[m]) \in Nat
      BY <3>1, NodesFew
    <3> DEFINE S == Inserted(lits, m - 1)
               T == NodesOf(lits[m])
    <3>5. /\ IsFiniteSet(S \cup T)
          /\ Cardinality(S \cup T) = Cardinality(S) + Cardinality(T) - Cardinality(S \cap T)
      BY <3>2, <3>4, FS_Union
    <3>6. /\ Cardinality(S) \in Nat /\ Cardinality(T) \in Nat
          /\ Cardinality(S \cap T) \in Nat
      BY <3>2, <3>4, FS_CardinalityType, FS_Intersection
    <3>7. f[m] = f[m - 1] + Len(lits[m])
      BY <1>3, <3>1
    <3> HIDE DEF S, T
    <3>8. Cardinality(S) <= f[m - 1] /\ f[m - 1] \in Nat
      BY <3>2 DEF S
    <3>9. Cardinality(T) <= Len(lits[m]) /\ Len(lits[m]) \in Nat
      BY <3>4 DEF T
    <3>10. f[m] \in Nat /\ Cardinality(S \cup T) <= f[m]
      BY <3>5, <3>6, <3>7, <3>8, <3>9
    <3>11. Inserted(lits, m) = S \cup T
      BY <3>3 DEF S, T
    <3> QED BY <2>2, <3>5, <3>10, <3>11
  <2> QED BY <2>3, <2>4
<1>5. Few(Len(lits))
  BY <1>4
<1>6. TrieNodes(lits) = 1 + Cardinality(Inserted(lits, Len(lits)))
  <2>1. UNION {{SubSeq(t, 1, n) : n \in 1 .. Len(t)} : t \in ToSet(lits)}
          = Inserted(lits, Len(lits))
    <3>1. ToSet(lits) = {lits[i] : i \in 1 .. Len(lits)}
      BY DEF ToSet
    <3>2. UNION {NodesOf(t) : t \in ToSet(lits)} = Inserted(lits, Len(lits))
      BY <3>1, Zenon DEF Inserted
    <3> QED BY <3>2 DEF NodesOf
  <2> QED BY <2>1 DEF TrieNodes
<1>7. Cardinality(Inserted(lits, Len(lits))) \in Nat
  BY <1>5, FS_CardinalityType
<1> QED BY <1>1, <1>5, <1>6, <1>7

(***************************************************************************)
(* The walk over the SPLITs, which ends because they lead forward.         *)
(***************************************************************************)
\* What the walk f collects from address k on.
LeafAt(code, k, f) ==
    IF k > Len(code) THEN [ok |-> FALSE, lits |-> <<>>]
    ELSE CASE code[k].op = "LIT"   -> [ok |-> TRUE, lits |-> <<code[k].text>>]
           [] code[k].op = "SPLIT" -> [ok   |-> f[code[k].a].ok /\ f[code[k].b].ok,
                                       lits |-> f[code[k].a].lits \o f[code[k].b].lits]
           [] OTHER -> [ok |-> FALSE, lits |-> <<>>]

\* The function f is the walk from the addresses from m on.
Walks(code, f, m) == f = [k \in m .. Len(code) + 1 |-> LeafAt(code, k, f)]

\* The walk from an address needs the walk from the later addresses only.
LEMMA LeafLater ==
    ASSUME NEW code, Decoded(code), Forward(code), NEW k \in Nat, k > 0, NEW f, NEW g,
           \A x \in k + 1 .. Len(code) : f[x] = g[x]
    PROVE  LeafAt(code, k, f) = LeafAt(code, k, g)
<1>1. CASE k > Len(code)
  BY <1>1 DEF LeafAt
<1>2. CASE k <= Len(code) /\ code[k].op = "SPLIT"
  <2>1. code[k].a \in k + 1 .. Len(code) /\ code[k].b \in k + 1 .. Len(code)
    BY <1>2 DEF Decoded, Forward
  <2>2. f[code[k].a] = g[code[k].a] /\ f[code[k].b] = g[code[k].b]
    BY <2>1
  <2> QED BY <2>2 DEF LeafAt
<1>3. CASE k <= Len(code) /\ code[k].op # "SPLIT"
  BY <1>3 DEF LeafAt
<1> QED BY <1>1, <1>2, <1>3 DEF Decoded

\* There is a walk from every address on.
LEMMA WalkExists ==
    ASSUME NEW code, Decoded(code), Forward(code)
    PROVE  \E f : Walks(code, f, 1)
<1> DEFINE N == Len(code)
           Bad == {d \in 0 .. N : ~\E f : Walks(code, f, N + 1 - d)}
<1>1. N \in Nat
  BY DEF Decoded
<1>2. Bad = {}
  <2> SUFFICES ASSUME Bad # {} PROVE FALSE
    OBVIOUS
  <2>1. PICK d \in Bad : \A x \in Bad : d <= x
    <3>1. Bad \subseteq Nat
      BY <1>1
    <3> HIDE DEF Bad
    <3> QED BY <3>1, LeastExists
  <2>2. d \in 0 .. N /\ ~\E f : Walks(code, f, N + 1 - d)
    OBVIOUS
  <2> DEFINE m == N + 1 - d
  <2>3. m \in 1 .. N + 1
    BY <1>1, <2>2
  <2>4. CASE d = 0
    <3> DEFINE g == [k \in N + 1 .. N + 1 |-> [ok |-> FALSE, lits |-> <<>>]]
    <3>1. ASSUME NEW k \in N + 1 .. N + 1 PROVE g[k] = LeafAt(code, k, g)
      BY <1>1 DEF LeafAt
    <3>2. g = [k \in N + 1 .. N + 1 |-> g[k]]
      OBVIOUS
    <3> HIDE DEF g
    <3>3. g = [k \in N + 1 .. N + 1 |-> LeafAt(code, k, g)]
      BY <3>1, <3>2
    <3>4. Walks(code, g, N + 1)
      BY <3>3 DEF Walks
    <3> QED BY <1>1, <2>2, <2>4, <3>4
  <2>5. CASE d # 0
    <3>1. d - 1 \in 0 .. N /\ d - 1 \notin Bad /\ N + 1 - (d - 1) = m + 1
      BY <1>1, <2>1, <2>2, <2>5
    <3>2. PICK f : Walks(code, f, m + 1)
      BY <3>1
    <3> DEFINE g == [k \in m .. N + 1 |-> IF k = m THEN LeafAt(code, m, f) ELSE f[k]]
    <3>3. \A x \in m + 1 .. N : f[x] = g[x]
      BY <1>1, <2>3
    <3>4. ASSUME NEW k \in m .. N + 1 PROVE g[k] = LeafAt(code, k, g)
      <4>1. k \in Nat /\ k > 0 /\ \A x \in k + 1 .. N : x \in m + 1 .. N
        BY <1>1, <2>3
      <4>2. LeafAt(code, k, f) = LeafAt(code, k, g)
        <5> HIDE DEF g, m
        <5>1. \A x \in k + 1 .. N : f[x] = g[x]
          BY <3>3, <4>1
        <5> QED BY <4>1, <5>1, LeafLater
      <4>3. CASE k = m
        BY <4>2, <4>3
      <4>4. CASE k # m
        <5>1. k \in m + 1 .. N + 1
          BY <1>1, <2>3, <4>4
        <5>2. f[k] = LeafAt(code, k, f)
          BY <3>2, <5>1 DEF Walks
        <5>3. g[k] = f[k]
          BY <4>4
        <5> QED BY <4>2, <5>2, <5>3
      <4> QED BY <4>3, <4>4
    <3>5. g = [k \in m .. N + 1 |-> g[k]]
      OBVIOUS
    <3> HIDE DEF g, m
    <3>6. g = [k \in m .. N + 1 |-> LeafAt(code, k, g)]
      BY <3>4, <3>5
    <3>7. Walks(code, g, m)
      BY <3>6 DEF Walks
    <3> QED BY <2>2, <3>7 DEF m
  <2> QED BY <2>4, <2>5
<1>3. N \in 0 .. N /\ N \notin Bad /\ N + 1 - N = 1
  BY <1>1, <1>2
<1> QED BY <1>3

\* The literals of a program, and that what the walk collects are some of them.
Literals(code) == {code[k].text : k \in {x \in 1 .. Len(code) : code[x].op = "LIT"}}

LEMMA LeavesAreLiterals ==
    ASSUME NEW code, Decoded(code), Forward(code)
    PROVE  AltLeaves(code).lits \in Seq(Literals(code))
<1> DEFINE f == CHOOSE f : Walks(code, f, 1)
           N == Len(code)
           Bad == {d \in 0 .. N : f[N + 1 - d].lits \notin Seq(Literals(code))}
<1>1. N \in Nat
  BY DEF Decoded
<1>2. AltLeaves(code) = f[1]
  BY DEF AltLeaves, Walks, LeafAt
<1>3. Walks(code, f, 1)
  BY WalkExists
<1> HIDE DEF f
<1>4. \A k \in 1 .. N + 1 : f[k] = LeafAt(code, k, f)
  BY <1>3 DEF Walks
<1>5. Bad = {}
  <2> SUFFICES ASSUME Bad # {} PROVE FALSE
    OBVIOUS
  <2>1. PICK d \in Bad : \A x \in Bad : d <= x
    <3>1. Bad \subseteq Nat
      BY <1>1
    <3> HIDE DEF Bad
    <3> QED BY <3>1, LeastExists
  <2> DEFINE k == N + 1 - d
  <2>2. d \in 0 .. N /\ k \in 1 .. N + 1 /\ f[k].lits \notin Seq(Literals(code))
    BY <1>1
  <2>3. ASSUME NEW x \in k + 1 .. N PROVE f[x].lits \in Seq(Literals(code))
    <3>1. N + 1 - x \in 0 .. N /\ N + 1 - x < d /\ N + 1 - (N + 1 - x) = x
      BY <1>1, <2>2
    <3>2. N + 1 - x \notin Bad
      <4> HIDE DEF Bad
      <4> QED BY <1>1, <2>1, <2>2, <3>1
    <3> QED BY <3>1, <3>2
  <2>4. f[k] = LeafAt(code, k, f)
    BY <1>4, <2>2
  <2> HIDE DEF k, Bad
  <2>5. <<>> \in Seq(Literals(code))
    OBVIOUS
  <2>6. CASE k > Len(code)
    BY <2>2, <2>4, <2>5, <2>6 DEF LeafAt
  <2>7. CASE k <= Len(code) /\ code[k].op = "LIT"
    <3>1. code[k].text \in Literals(code)
      BY <1>1, <2>2, <2>7 DEF Literals
    <3>2. f[k].lits = <<code[k].text>>
      BY <1>1, <2>2, <2>4, <2>7 DEF LeafAt
    <3> QED BY <2>2, <3>1, <3>2
  <2>8. CASE k <= Len(code) /\ code[k].op = "SPLIT"
    <3>1. code[k].a \in k + 1 .. N /\ code[k].b \in k + 1 .. N
      BY <2>2, <2>8 DEF Decoded, Forward
    <3>2. f[code[k].a].lits \in Seq(Literals(code)) /\ f[code[k].b].lits \in Seq(Literals(code))
      BY <2>3, <3>1
    <3>3. f[k].lits = f[code[k].a].lits \o f[code[k].b].lits
      <4> DEFINE l == f[code[k].a]
                 r == f[code[k].b]
                 both == [ok |-> l.ok /\ r.ok, lits |-> l.lits \o r.lits]
      <4>1. LeafAt(code, k, f) = both
        BY <1>1, <2>2, <2>8 DEF LeafAt
      <4>2. both.lits = l.lits \o r.lits
        OBVIOUS
      <4> QED BY <2>4, <4>1, <4>2
    <3>4. f[code[k].a].lits \o f[code[k].b].lits \in Seq(Literals(code))
      BY <3>2
    <3> QED BY <2>2, <3>3, <3>4
  <2>9. CASE k <= Len(code) /\ code[k].op \notin {"LIT", "SPLIT"}
    BY <1>1, <2>2, <2>4, <2>5, <2>9 DEF LeafAt
  <2> QED BY <1>1, <2>2, <2>6, <2>7, <2>8, <2>9
<1>6. N \in 0 .. N /\ N + 1 - N = 1 /\ N \notin Bad
  BY <1>1, <1>5
<1> QED BY <1>2, <1>6

\* What the budget allows fits the trie.
LEMMA WithinBudget ==
    ASSUME NEW code, Decoded(code), Forward(code), CheckAltLiterals(code)
    PROVE  TrieNodes(AltLeaves(code).lits) <= MAX_TRIE_NODES
<1> DEFINE lits == AltLeaves(code).lits
<1>1. lits \in Seq(Literals(code))
  BY LeavesAreLiterals
<1>2. \A t \in Literals(code) : Len(t) \in Nat
  BY DEF Literals, Decoded
<1>3. LitBytes(lits) <= MAX_LIT_BYTES
  BY DEF CheckAltLiterals
<1> HIDE DEF lits
<1>4. /\ Len(lits) \in Nat /\ DOMAIN lits = 1 .. Len(lits)
      /\ \A i \in 1 .. Len(lits) : Len(lits[i]) \in Nat
  BY <1>1, <1>2
<1>5. /\ LitBytes(lits) \in Nat /\ TrieNodes(lits) \in Nat
      /\ TrieNodes(lits) <= 1 + LitBytes(lits)
  BY <1>4, TrieBound
<1>6. TrieNodes(lits) <= MAX_TRIE_NODES
  BY <1>3, <1>5, SearchAssumption
<1> QED BY <1>6 DEF lits

\* The cost model picks an eligible tier: there is one, and of finitely many
\* natural costs one is the least.
LEMMA TierIsEligible ==
    ASSUME NEW m, NEW len \in Nat, NEW anchored
    PROVE  TierEligible(SelectTier(m, len, anchored), m, anchored)
<1> DEFINE ok == {i \in DOMAIN TierCost : TierEligible(TierCost[i].tier, m, anchored)}
           cost(i) == TierCost[i].setup + len \div TierCost[i].div
           Costs == {cost(i) : i \in ok}
           best(i) == \A x \in ok : cost(i) < cost(x) \/ (cost(i) = cost(x) /\ i <= x)
<1>1. DOMAIN TierCost = 1 .. 10 /\ TierCost[8].tier = "GENERAL"
  BY DEF TierCost
<1>2. \A i \in 1 .. 10 : TierCost[i].setup \in Nat /\ TierCost[i].div \in Nat \ {0}
  BY DEF TierCost
<1>3. \A i \in 1 .. 10 : cost(i) \in Nat
  BY <1>2
<1>4. 8 \in ok /\ ok \subseteq Nat
  BY <1>1 DEF TierEligible
<1>5. SelectTier(m, len, anchored) = TierCost[CHOOSE i \in ok : best(i)].tier
  BY DEF SelectTier
<1> HIDE DEF cost
<1>6. Costs \subseteq Nat /\ Costs # {}
  BY <1>1, <1>3, <1>4
<1>7. Least(Costs) \in Costs /\ \A c \in Costs : Least(Costs) <= c
  <2> HIDE DEF Costs
  <2> QED BY <1>6, LeastExists
<1> DEFINE firsts == {i \in ok : cost(i) = Least(Costs)}
<1>8. firsts \subseteq Nat /\ firsts # {}
  BY <1>4, <1>7
<1>9. Least(firsts) \in firsts /\ \A i \in firsts : Least(firsts) <= i
  <2> HIDE DEF firsts
  <2> QED BY <1>8, LeastExists
<1>10. best(Least(firsts)) /\ Least(firsts) \in ok
  <2>1. ASSUME NEW x \in ok
        PROVE  \/ cost(Least(firsts)) < cost(x)
               \/ cost(Least(firsts)) = cost(x) /\ Least(firsts) <= x
    <3>1. cost(x) \in Nat /\ Least(Costs) \in Nat /\ Least(Costs) <= cost(x)
      BY <1>1, <1>3, <1>6, <1>7
    <3>2. cost(Least(firsts)) = Least(Costs)
      BY <1>9
    <3>3. CASE cost(x) = Least(Costs)
      BY <1>9, <3>2, <3>3
    <3>4. CASE cost(x) # Least(Costs)
      BY <3>1, <3>2, <3>4
    <3> QED BY <3>3, <3>4
  <2> QED BY <1>9, <2>1
<1>11. (CHOOSE i \in ok : best(i)) \in ok
  <2> HIDE DEF best, ok, firsts
  <2> QED BY <1>10
<1> QED BY <1>5, <1>11

\* A search that is in the trie tier has a program the analysis admitted there.
TrieAdmitted ==
    /\ pattern \in {Prepared(p) : p \in Programs}
    /\ task \in Tasks
    /\ pc = "call" => tier = "none"
    /\ tier = "ALT_LIT" => M.is_alt_literals

(***************************************************************************)
(* The trie tier never runs out of nodes: the comment at                   *)
(* SNOBOL_AUTO_MAX_LIT_BYTES says that the byte budget of                  *)
(* check_alt_literals keeps every build inside the fixed pool.             *)
(***************************************************************************)
THEOREM TrieNeverFull == Spec => []TrieFits
<1>1. Init => TrieAdmitted
  BY DEF Init, TrieAdmitted
<1>2. TrieAdmitted /\ [Next]_vars => TrieAdmitted'
  <2> SUFFICES ASSUME TrieAdmitted, [Next]_vars PROVE TrieAdmitted'
    OBVIOUS
  <2>1. CASE SearchExec
    <3>1. UNCHANGED <<pattern, task>> /\ pc' # "call" /\ (tier' = tier \/ tier' = DispatchTier)
      BY <2>1 DEF SearchExec, Finish
    <3>2. DispatchTier = "ALT_LIT" => M.is_alt_literals
      <4>1. task.cost \in Nat
        BY SearchAssumption DEF TrieAdmitted
      <4>2. TierEligible(SelectTier(M, task.cost, task.anchored), M, task.anchored)
        BY <4>1, TierIsEligible
      <4> QED BY <4>2 DEF DispatchTier, TierEligible
    <3>3. M' = M
      BY <3>1 DEF M
    <3>4. tier' = "ALT_LIT" => M.is_alt_literals
      BY <2>1, <3>1, <3>2 DEF TrieAdmitted, SearchExec
    <3> QED BY <3>1, <3>3, <3>4 DEF TrieAdmitted
  <2>2. CASE UNCHANGED <<pattern, task>> /\ pc' # "call" /\ tier' \in {tier, "GENERAL"}
    <3>1. M' = M
      BY <2>2 DEF M
    <3> QED BY <2>2, <3>1 DEF TrieAdmitted
  <2> USE DEF Tier, Finish, GoTo, Fallback, NotFound, GiveUp, Skip, Confirm
  <2>3. CASE TierBreakScan BY <2>2, <2>3 DEF TierBreakScan
  <2>4. CASE TierSpanScan BY <2>2, <2>4 DEF TierSpanScan
  <2>5. CASE TierPrefix BY <2>2, <2>5 DEF TierPrefix
  <2>6. CASE TierBitmap BY <2>2, <2>6 DEF TierBitmap
  <2>7. CASE TierGeneral BY <2>2, <2>7 DEF TierGeneral
  <2>8. CASE TierLiteral BY <2>2, <2>8 DEF TierLiteral
  <2>9. CASE TierAltLit BY <2>2, <2>9 DEF TierAltLit
  <2>10. CASE TierSimdNfa BY <2>2, <2>10 DEF TierSimdNfa
  <2>11. CASE TierFusion BY <2>2, <2>11 DEF TierFusion
  <2>12. CASE TierAutomaton BY <2>2, <2>12 DEF TierAutomaton
  <2>13. CASE TierSearchVM BY <2>2, <2>13 DEF TierSearchVM
  <2>14. CASE PikeRun BY <2>2, <2>14 DEF PikeRun
  <2>15. CASE PikeResult BY <2>2, <2>15 DEF PikeResult
  <2>16. CASE SvmRun BY <2>2, <2>16 DEF SvmRun
  <2>17. CASE SvmResult BY <2>2, <2>17 DEF SvmResult
  <2>18. CASE Returned \/ UNCHANGED vars
    <3>1. UNCHANGED <<pattern, task, pc, tier>>
      BY <2>18 DEF Returned, vars
    <3>2. M' = M
      BY <3>1 DEF M
    <3> QED BY <3>1, <3>2 DEF TrieAdmitted
  <2> QED BY <2>1, <2>3, <2>4, <2>5, <2>6, <2>7, <2>8, <2>9, <2>10, <2>11, <2>12, <2>13,
             <2>14, <2>15, <2>16, <2>17, <2>18 DEF Next
<1>3. TrieAdmitted => TrieFits
  <2> SUFFICES ASSUME TrieAdmitted, Tier("ALT_LIT")
               PROVE  TrieNodes(AltLeaves(Code).lits) <= MAX_TRIE_NODES
    BY DEF TrieFits
  <2>1. PICK p \in Programs : pattern = Prepared(p)
    BY DEF TrieAdmitted
  <2>2. Code = p.code /\ M = DeriveMeta(p.code)
    BY <2>1 DEF Code, M, Prepared
  <2>3. M.is_alt_literals
    BY DEF TrieAdmitted, Tier
  <2>4. CheckAltLiterals(p.code)
    BY <2>2, <2>3 DEF DeriveMeta
  <2> QED BY <2>2, <2>4, SearchAssumption, WithinBudget
<1> QED BY <1>1, <1>2, <1>3, PTL DEF Spec

(***************************************************************************)
(* What a tier may skip.                                                   *)
(***************************************************************************)
\* A non-empty set of positions up to N has a greatest element.
LEMMA GreatestExists ==
    ASSUME NEW N \in Nat, NEW S, S \subseteq 0 .. N, S # {}
    PROVE  \E m \in S : \A x \in S : x <= m
<1> DEFINE R == {N - x : x \in S}
<1>1. R \subseteq Nat /\ R # {}
  <2>1. R \subseteq Nat
    OBVIOUS
  <2>2. PICK y \in S : TRUE
    OBVIOUS
  <2>3. N - y \in R
    OBVIOUS
  <2> QED BY <2>1, <2>3
<1>2. Least(R) \in R /\ \A d \in R : Least(R) <= d
  <2> HIDE DEF R
  <2> QED BY <1>1, LeastExists
<1>3. PICK m \in S : Least(R) = N - m
  BY <1>2
<1>4. ASSUME NEW x \in S PROVE x <= m
  <2>1. N - x \in R
    OBVIOUS
  <2>2. N - m <= N - x
    BY <1>2, <1>3, <2>1
  <2>3. x \in 0 .. N /\ m \in 0 .. N
    OBVIOUS
  <2> HIDE DEF R
  <2> QED BY <2>2, <2>3
<1> QED BY <1>4

\* The first address behind some operations is in the program or its end.
LEMMA PastOpsInside ==
    ASSUME NEW code, Len(code) \in Nat, NEW k \in 1 .. Len(code) + 1, NEW ops
    PROVE  PastOps(code, k, ops) \in k .. Len(code) + 1
<1> DEFINE S == {m \in k .. Len(code) + 1 : m > Len(code) \/ code[m].op \notin ops}
           m == Least(S)
<1>1. S \subseteq Nat /\ Len(code) + 1 \in S
  OBVIOUS
<1>2. m \in S /\ \A x \in S : m <= x
  <2> HIDE DEF S
  <2> QED BY <1>1, LeastExists
<1>3. m \in k .. Len(code) + 1 /\ (m > Len(code) \/ code[m].op \notin ops)
  BY <1>2
<1>4. ASSUME NEW x \in k .. m - 1 PROVE code[x].op \in ops
  <2> HIDE DEF m
  <2>1. x \in k .. Len(code) + 1 /\ x < m
    BY <1>3
  <2>2. x \notin S
    BY <1>2, <1>3, <2>1 DEF m
  <2> QED BY <2>1, <2>2
<1> HIDE DEF m
<1>5. \E y \in k .. Len(code) + 1 : /\ y > Len(code) \/ code[y].op \notin ops
                                    /\ \A x \in k .. y - 1 : code[x].op \in ops
  BY <1>3, <1>4
<1> QED BY <1>5 DEF PastOps

\* The prefix all literals of an alternation share is a text.
LEMMA SharedPrefixIsText ==
    ASSUME NEW code, Decoded(code), Forward(code), MAX_PREFIX \in Nat
    PROVE  AltLiteralsSharedPrefix(code) \in Seq(Nat)
<1> DEFINE w == AltLeaves(code)
           shared(n) == \A i \in DOMAIN w.lits :
                            Len(w.lits[i]) >= n
                            /\ SubSeq(w.lits[i], 1, n) = SubSeq(w.lits[1], 1, n)
           top == Len(Clip(w.lits[1]))
           stop(m) == shared(m) /\ ~(m < top /\ shared(m + 1))
           n == CHOOSE m \in 0 .. top : stop(m)
<1>1. w.lits \in Seq(Literals(code)) /\ Literals(code) \subseteq Seq(Nat)
  BY LeavesAreLiterals DEF Literals, Decoded
<1>2. AltLiteralsSharedPrefix(code) =
        IF ~w.ok \/ <<>> \in ToSet(w.lits) \/ Len(w.lits) < 2
          THEN <<>> ELSE SubSeq(w.lits[1], 1, n)
  BY DEF AltLiteralsSharedPrefix
<1>3. CASE ~(Len(w.lits) < 2)
  <2> HIDE DEF w, shared
  <2>1. \A i \in DOMAIN w.lits : w.lits[i] \in Seq(Nat)
    BY <1>1
  <2>2. 1 \in DOMAIN w.lits
    BY <1>1, <1>3
  <2>3. top \in Nat /\ top <= Len(w.lits[1])
    <3>1. w.lits[1] \in Seq(Nat)
      BY <2>1, <2>2
    <3> QED BY <3>1 DEF Clip
  <2> HIDE DEF top
  <2>4. shared(0)
    BY <2>1, <2>2 DEF shared
  <2> DEFINE S == {m \in 0 .. top : shared(m)}
  <2>5. S \subseteq 0 .. top /\ 0 \in S
    BY <2>3, <2>4
  <2>6. PICK g \in S : \A x \in S : x <= g
    <3> HIDE DEF S
    <3> QED BY <2>3, <2>5, GreatestExists
  <2>7. g \in 0 .. top /\ stop(g)
    <3>1. g \in 0 .. top /\ shared(g)
      OBVIOUS
    <3>2. ~(g < top /\ shared(g + 1))
      <4> SUFFICES ASSUME g < top, shared(g + 1) PROVE FALSE
        OBVIOUS
      <4>1. g + 1 \in S
        BY <2>3, <3>1
      <4>2. g + 1 <= g
        BY <2>6, <4>1
      <4> QED BY <3>1, <4>2
    <3> QED BY <3>1, <3>2
  <2>8. n \in 0 .. top
    <3> HIDE DEF stop
    <3> QED BY <2>7
  <2> HIDE DEF n
  <2>9. SubSeq(w.lits[1], 1, n) \in Seq(Nat)
    <3>1. w.lits[1] \in Seq(Nat)
      BY <2>1, <2>2
    <3> QED BY <2>3, <2>8, <3>1
  <2> QED BY <1>2, <2>9
<1>4. CASE Len(w.lits) < 2
  <2>1. AltLiteralsSharedPrefix(code) = <<>>
    BY <1>2, <1>4
  <2> QED BY <2>1
<1> QED BY <1>3, <1>4

\* The prefix of a program is a text, and the skip table is made from it.
LEMMA PrefixIsText ==
    ASSUME NEW code, Decoded(code), Forward(code), code # <<>>, MAX_PREFIX \in Nat
    PROVE  LET m == DeriveMeta(code)
           IN  /\ m.literal_prefix \in Seq(Nat)
               /\ m.has_bmh_skip =>
                     m.literal_prefix # <<>> /\ m.bmh_skip = BmhSkip(m.literal_prefix)
<1> DEFINE sh == ShapeOf(code)
           alt == code[FirstConsuming(code)].op = "SPLIT" /\ CheckAltLiterals(code)
           altPref == IF alt THEN AltLiteralsSharedPrefix(code) ELSE <<>>
           prefix == IF altPref # <<>> THEN altPref ELSE sh.prefix
           bmh == Len(sh.prefix) >= 2 \/ altPref # <<>>
           m == DeriveMeta(code)
<1>1. FirstConsuming(code) \in 1 .. Len(code) /\ DOMAIN code = 1 .. Len(code)
  <2>1. Len(code) \in Nat /\ DOMAIN code = 1 .. Len(code)
    BY DEF Decoded
  <2>2. Len(code) # 0
    <3> SUFFICES ASSUME Len(code) = 0 PROVE FALSE
      OBVIOUS
    <3>1. code = <<>>
      BY <2>1 DEF Decoded
    <3> QED BY <3>1
  <2>3. PastOps(code, 1, {"ANCHOR", "NOP", "FENCE"} \cup CursorOps) \in 1 .. Len(code) + 1
    BY <2>1, PastOpsInside
  <2> QED BY <2>1, <2>2, <2>3 DEF FirstConsuming
<1>2. sh.prefix \in Seq(Nat)
  <2> DEFINE i == code[FirstConsuming(code)]
  <2>1. i.op = "LIT" => Clip(i.text) \in Seq(Nat)
    <3>1. i.op = "LIT" => i.text \in Seq(Nat)
      BY <1>1 DEF Decoded
    <3> QED BY <3>1 DEF Clip
  <2>2. sh.prefix = IF i.op = "LIT" THEN Clip(i.text) ELSE <<>>
    <3> HIDE DEF i
    <3> USE DEF i
    <3> QED BY DEF ShapeOf
  <2> QED BY <2>1, <2>2
<1>3. altPref \in Seq(Nat)
  BY SharedPrefixIsText
<1>4. m.literal_prefix = prefix /\ m.has_bmh_skip = bmh
      /\ m.bmh_skip = IF bmh THEN BmhSkip(prefix) ELSE <<>>
  BY DEF DeriveMeta
<1> HIDE DEF m, sh, altPref
<1>5. bmh => prefix # <<>>
  BY <1>2
<1>6. prefix \in Seq(Nat)
  BY <1>2, <1>3
<1> QED BY <1>4, <1>5, <1>6 DEF m

\* A search has a program the analysis has seen and a subject of bytes.
Prepped == pattern \in {Prepared(p) : p \in Programs} /\ task \in Tasks

LEMMA PreppedTypes ==
    ASSUME Prepped
    PROVE  /\ Decoded(Code) /\ Forward(Code) /\ Code # <<>> /\ M = DeriveMeta(Code)
           /\ task.subject \in Seq(Bytes) /\ SLen \in Nat
           /\ task.start \in 0 .. SLen /\ task.cost \in Nat
           /\ M.literal_prefix \in Seq(Nat)
           /\ M.has_bmh_skip =>
                 M.literal_prefix # <<>> /\ M.bmh_skip = BmhSkip(M.literal_prefix)
<1>1. PICK p \in Programs : pattern = Prepared(p)
  BY DEF Prepped
<1>2. pattern.code = p.code /\ pattern.meta = DeriveMeta(p.code)
  BY <1>1 DEF Prepared
<1>3. Decoded(Code) /\ Forward(Code) /\ Code # <<>> /\ M = DeriveMeta(Code)
  BY <1>2, SearchAssumption DEF Code, M
<1>4. /\ task.subject \in Seq(Bytes) /\ SLen \in Nat
      /\ task.start \in 0 .. SLen /\ task.cost \in Nat
  BY SearchAssumption DEF Prepped, SLen
<1>5. MAX_PREFIX \in Nat
  BY SearchAssumption
<1>6. /\ M.literal_prefix \in Seq(Nat)
      /\ M.has_bmh_skip =>
            M.literal_prefix # <<>> /\ M.bmh_skip = BmhSkip(M.literal_prefix)
  BY <1>3, <1>5, PrefixIsText
<1> QED BY <1>3, <1>4, <1>6

\* What is in a part of a sequence.
LEMMA PartAt ==
    ASSUME NEW S, NEW s \in Seq(S), NEW m \in Nat, m >= 1, NEW n \in Nat, n <= Len(s),
           NEW i \in 1 .. n - m + 1
    PROVE  SubSeq(s, m, n)[i] = s[m + i - 1]
  OBVIOUS

\* The Horspool shift moves on and passes over no occurrence of the prefix: an
\* occurrence in between has the byte the shift was taken for at a place the
\* table knows of.
LEMMA HorspoolSkipsNone ==
    ASSUME Prepped, NEW o \in Nat
    PROVE  /\ Horspool(o) \in Nat /\ Horspool(o) > o
           /\ Horspool(o) = o + 1 \/ Horspool(o) <= SLen
           /\ \A x \in o + 1 .. Horspool(o) - 1 :
                 M.has_bmh_skip /\ x <= SLen /\ ~LiteralAt(M.literal_prefix, x)
<1> DEFINE p == M.literal_prefix
           L == Len(p)
           c == ByteAt(o + L - 1)
           at == {i \in 1 .. L - 1 : p[i] = c}
           far == CHOOSE i \in at : \A x \in at : x <= i
<1>1. p \in Seq(Nat) /\ SLen \in Nat /\ task.subject \in Seq(Bytes)
      /\ (M.has_bmh_skip => p # <<>> /\ M.bmh_skip = BmhSkip(p))
  BY PreppedTypes
<1>2. CASE ~(M.has_bmh_skip /\ o + L <= SLen)
  <2>1. Horspool(o) = o + 1
    BY <1>2 DEF Horspool
  <2> QED BY <2>1
<1>3. CASE M.has_bmh_skip /\ o + L <= SLen
  <2>1. L \in Nat /\ L >= 1 /\ DOMAIN p = 1 .. L
    BY <1>1, <1>3
  <2>2. c \in Bytes
    <3>1. o + L - 1 + 1 \in 1 .. Len(task.subject)
      BY <1>1, <1>3, <2>1 DEF SLen
    <3> QED BY <1>1, <3>1 DEF ByteAt
  <2>3. Horspool(o) = o + BmhSkip(p)[c]
    BY <1>1, <1>3 DEF Horspool
  <2>4. BmhSkip(p)[c] = IF at = {} THEN L ELSE L - far
    BY <2>2 DEF BmhSkip
  <2> HIDE DEF c, p, L
  <2>5. at # {} => far \in at /\ \A x \in at : x <= far
    <3> SUFFICES ASSUME at # {} PROVE far \in at /\ \A x \in at : x <= far
      OBVIOUS
    <3>1. at \subseteq 0 .. L
      BY <2>1
    <3>2. \E m \in at : \A x \in at : x <= m
      <4> HIDE DEF at
      <4> QED BY <2>1, <3>1, GreatestExists
    <3> HIDE DEF at
    <3> QED BY <3>2
  <2>6. at \subseteq 1 .. L - 1
    OBVIOUS
  <2> DEFINE s == BmhSkip(p)[c]
  <2>7. s \in 1 .. L /\ \A i \in at : s <= L - i
    <3>1. CASE at = {}
      BY <2>1, <2>4, <3>1
    <3>2. CASE at # {}
      <4> HIDE DEF at, far
      <4>1. far \in 1 .. L - 1 /\ s = L - far
        BY <2>4, <2>5, <2>6, <3>2
      <4>2. \A i \in at : i \in 1 .. L - 1 /\ i <= far
        BY <2>5, <2>6, <3>2
      <4> HIDE DEF s
      <4> QED BY <2>1, <4>1, <4>2
    <3> QED BY <3>1, <3>2
  <2>8. Horspool(o) = o + s
    BY <2>3
  <2> HIDE DEF s
  <2>9. ASSUME NEW x \in o + 1 .. o + s - 1, LiteralAt(p, x)
        PROVE  FALSE
    <3> DEFINE i == o + L - x
    <3>1. i \in 1 .. L - 1 /\ x \in Nat /\ x + L <= SLen
      BY <2>1, <2>7, <2>9 DEF LiteralAt, L
    <3>2. Slice(x, x + L) = p
      BY <2>9 DEF LiteralAt, L
    <3>3. Slice(x, x + L)[i] = task.subject[x + 1 + i - 1]
      <4> DEFINE from == x + 1
                 to == x + L
      <4>2. task.subject \in Seq(Bytes)
        BY <1>1
      <4>3. from \in Nat /\ from >= 1 /\ to \in Nat /\ to <= Len(task.subject)
            /\ i \in 1 .. to - from + 1
        BY <2>1, <3>1 DEF SLen
      <4> HIDE DEF i, from, to
      <4>4. SubSeq(task.subject, from, to)[i] = task.subject[from + i - 1]
        BY <4>2, <4>3, PartAt
      <4> QED BY <4>4 DEF Slice, from, to
    <3>4. x + 1 + i - 1 = o + L - 1 + 1
      BY <2>1, <3>1
    <3>5. p[i] = c
      BY <3>2, <3>3, <3>4 DEF c, ByteAt
    <3>6. i \in at
      BY <3>1, <3>5
    <3>7. s <= L - i
      BY <2>7, <3>6
    <3>8. L - i = x - o
      BY <2>1, <3>1
    <3> HIDE DEF i
    <3> QED BY <2>1, <2>7, <3>1, <3>7, <3>8
  <2>10. s \in Nat /\ s >= 1
    BY <2>1, <2>7
  <2>11. \A x \in o + 1 .. o + s - 1 : x <= SLen
    BY <1>1, <1>3, <2>1, <2>7 DEF L
  <2>12. o + s <= SLen
    BY <1>1, <1>3, <2>1, <2>7 DEF L
  <2> QED BY <1>3, <2>8, <2>9, <2>10, <2>11, <2>12 DEF p
<1> QED BY <1>2, <1>3

\* What memmem returns is the first occurrence.
LEMMA OccurrenceIsFirst ==
    ASSUME SLen \in Nat, NEW text, NEW p \in Nat
    PROVE  \/ /\ Occurrence(text, p) = -1
              /\ \A x \in p .. SLen : ~LiteralAt(text, x)
           \/ /\ Occurrence(text, p) \in p .. SLen /\ LiteralAt(text, Occurrence(text, p))
              /\ \A x \in p .. Occurrence(text, p) - 1 : ~LiteralAt(text, x)
<1> DEFINE at == {q \in p .. SLen : LiteralAt(text, q)}
           first == CHOOSE q \in at : \A x \in at : q <= x
<1>1. Occurrence(text, p) = IF at = {} THEN -1 ELSE first
  BY DEF Occurrence
<1>2. CASE at = {}
  BY <1>1, <1>2
<1>3. CASE at # {}
  <2>1. at \subseteq Nat
    OBVIOUS
  <2>2. Least(at) \in at /\ \A x \in at : Least(at) <= x
    <3> HIDE DEF at
    <3> QED BY <1>3, <2>1, LeastExists
  <2>3. first = Least(at)
    BY DEF Least
  <2>4. first \in at /\ \A x \in at : first <= x
    BY <2>2, <2>3
  <2>5. first \in p .. SLen /\ LiteralAt(text, first)
    BY <2>4
  <2>6. ASSUME NEW x \in p .. first - 1 PROVE ~LiteralAt(text, x)
    <3>1. x \in p .. SLen /\ ~(first <= x)
      <4> HIDE DEF first
      <4> QED BY <2>5
    <3>2. x \notin at
      BY <2>4, <3>1
    <3> QED BY <3>1, <3>2
  <2> HIDE DEF first
  <2> QED BY <1>1, <1>3, <2>5, <2>6
<1> QED BY <1>2, <1>3

\* No check before offset n succeeds.
Clean(n) == \A o \in task.start .. n - 1 : ~Hit(o)

\* A tier that skips is where the search is allowed, and every offset before
\* its own is of no use.
SkipInv ==
    /\ Prepped
    /\ pc = "call" => tier = "none" /\ offset = task.start
    /\ pc = "tier" /\ tier \in SkippingTiers =>
          /\ offset \in Nat /\ offset >= task.start
          /\ tier = "BREAK_SCAN" => offset <= SLen
          /\ TierEligible(tier, M, task.anchored)
          /\ AnalysisRight => Clean(offset)
    /\ pc \in {"pike", "svm"} => tier = "SEARCH_VM"
    /\ SkipsNothing

\* What a check says depends on the program, the subject and the tier only.
LEMMA SameChecks ==
    ASSUME UNCHANGED <<pattern, task, tier>>
    PROVE  /\ Prepped' = Prepped /\ M' = M /\ SLen' = SLen
           /\ AnalysisRight' = AnalysisRight
           /\ \A o : Hit(o)' = Hit(o)
<1>1. Prepped' = Prepped /\ M' = M /\ SLen' = SLen /\ Code' = Code
  BY DEF Prepped, M, SLen, Code
<1>2. ASSUME NEW o PROVE Hit(o)' = Hit(o)
  <2>1. \A t, x : LiteralAt(t, x)' = LiteralAt(t, x)
    BY DEF LiteralAt, Slice, SLen
  <2>2. TrieMatch(AltLeaves(Code).lits, o)' = TrieMatch(AltLeaves(Code).lits, o)
    BY <1>1 DEF TrieMatch, LiteralAt, Slice, SLen, Code
  <2>3. Slice(o, SLen)' = Slice(o, SLen)
    BY DEF Slice, SLen
  <2> QED BY <2>2, <2>3 DEF Hit
<1>3. AnalysisRight' = AnalysisRight
  <2>1. \A t, x : LiteralAt(t, x)' = LiteralAt(t, x)
    BY DEF LiteralAt, Slice, SLen
  <2>2. \A x : ByteAt(x)' = ByteAt(x)
    BY DEF ByteAt
  <2> QED BY <1>1, <1>2, <2>1, <2>2 DEF AnalysisRight
<1> QED BY <1>1, <1>2, <1>3

\* A tier that goes on past offsets of no use keeps the invariant,
LEMMA SkipOn ==
    ASSUME SkipInv, pc = "tier", tier \in SkippingTiers,
           NEW n, n \in Nat, n >= offset, tier = "BREAK_SCAN" => n <= SLen, GoTo(n),
           AnalysisRight => \A o \in offset .. n - 1 : ~Hit(o)
    PROVE  SkipInv'
<1>1. UNCHANGED <<pattern, task, tier>> /\ pc' = "tier" /\ offset' = n
  BY DEF GoTo
<1>2. /\ Prepped' = Prepped /\ M' = M /\ SLen' = SLen /\ AnalysisRight' = AnalysisRight
      /\ \A o : Hit(o)' = Hit(o)
  BY <1>1, SameChecks
<1>3. offset \in Nat /\ offset >= task.start /\ task.start \in Nat
  BY PreppedTypes DEF SkipInv
<1>4. AnalysisRight => \A o \in task.start .. n - 1 : ~Hit(o)
  <2> SUFFICES ASSUME AnalysisRight, NEW o \in task.start .. n - 1 PROVE ~Hit(o)
    OBVIOUS
  <2>1. o \in task.start .. offset - 1 \/ o \in offset .. n - 1
    BY <1>3
  <2> QED BY <2>1 DEF SkipInv, Clean
<1>5. (AnalysisRight => Clean(offset))'
  BY <1>1, <1>2, <1>4 DEF Clean
<1>6. SkipsNothing'
  BY <1>1 DEF SkipsNothing
<1> QED BY <1>1, <1>2, <1>3, <1>5, <1>6 DEF SkipInv

\* so does one that ends where its check succeeds,
LEMMA SkipFound ==
    ASSUME SkipInv, pc = "tier", tier \in SkippingTiers,
           NEW p \in Nat, p >= offset, NEW q, NEW regs, NEW by, Finish(Found(p, q, regs, by)),
           Hit(p), AnalysisRight => \A o \in offset .. p - 1 : ~Hit(o)
    PROVE  SkipInv'
<1>1. /\ UNCHANGED <<pattern, task, tier>> /\ pc' = "done"
      /\ out'.success /\ out'.start = p
  BY DEF Finish, Found
<1>2. /\ Prepped' = Prepped /\ AnalysisRight' = AnalysisRight
      /\ \A o : Hit(o)' = Hit(o)
  BY <1>1, SameChecks
<1>3. offset \in Nat /\ offset >= task.start /\ task.start \in Nat
  BY PreppedTypes DEF SkipInv
<1>4. AnalysisRight => \A o \in task.start .. p - 1 : ~Hit(o)
  <2> SUFFICES ASSUME AnalysisRight, NEW o \in task.start .. p - 1 PROVE ~Hit(o)
    OBVIOUS
  <2>1. o \in task.start .. offset - 1 \/ o \in offset .. p - 1
    BY <1>3
  <2> QED BY <2>1 DEF SkipInv, Clean
<1>5. SkipsNothing'
  BY <1>1, <1>2, <1>4 DEF SkipsNothing
<1> QED BY <1>1, <1>2, <1>5 DEF SkipInv

\* and one that gives up when no offset is left.
LEMMA SkipMissed ==
    ASSUME SkipInv, pc = "tier", tier \in SkippingTiers, NotFound,
           AnalysisRight =>
              \A o \in offset .. (IF task.anchored THEN task.start ELSE SLen) : ~Hit(o)
    PROVE  SkipInv'
<1>1. /\ UNCHANGED <<pattern, task, tier>> /\ pc' = "done" /\ out'.success = FALSE
  BY DEF NotFound, Finish, NoResult
<1>2. /\ Prepped' = Prepped /\ AnalysisRight' = AnalysisRight /\ SLen' = SLen
      /\ \A o : Hit(o)' = Hit(o)
  BY <1>1, SameChecks
<1>3. offset \in Nat /\ offset >= task.start /\ task.start \in Nat /\ SLen \in Nat
  BY PreppedTypes DEF SkipInv
<1> DEFINE last == IF task.anchored THEN task.start ELSE SLen
<1>4. AnalysisRight => \A o \in task.start .. last : ~Hit(o)
  <2> SUFFICES ASSUME AnalysisRight, NEW o \in task.start .. last PROVE ~Hit(o)
    OBVIOUS
  <2>1. last \in Nat
    BY <1>3
  <2> HIDE DEF last
  <2>2. o \in task.start .. offset - 1 \/ o \in offset .. last
    BY <1>3, <2>1
  <2>3. \A x \in offset .. last : ~Hit(x)
    BY DEF last
  <2> QED BY <2>2, <2>3 DEF SkipInv, Clean
<1>5. SkipsNothing'
  BY <1>1, <1>2, <1>4 DEF SkipsNothing
<1> QED BY <1>1, <1>2, <1>5 DEF SkipInv

VmHit(p) == VmExec(pattern, Slice(p, SLen)).status = "match"

\* The registers it leaves when it has been run there.
RegsAt(p) == VmRegs(pattern, Slice(p, SLen), [left EXCEPT !.caps = 0, !.vars = 0])

\* A match of the VM at a candidate ends the search there.
LEMMA SkipConfirmed ==
    ASSUME SkipInv, pc = "tier", tier \in SkippingTiers \ {"ALT_LIT"}, NEW p \in Nat, p >= offset,
           VmHit(p), NEW q, NEW regs, Finish(Found(p, q, regs, "vm")),
           AnalysisRight => \A o \in offset .. p - 1 : ~Hit(o)
    PROVE  SkipInv'
<1>1. Hit(p)
  BY DEF Hit, VmHit
<1> QED BY <1>1, SkipFound

\* BREAK: behind a byte that is no delimiter a match would have begun earlier.
LEMMA BreakSkips ==
    ASSUME SkipInv, TierBreakScan
    PROVE  SkipInv'
<1> DEFINE scan == RunUntil(offset, M.class_bitmap)
           r == VmExec(pattern, Slice(offset, SLen))
<1>1. pc = "tier" /\ tier = "BREAK_SCAN" /\ tier \in SkippingTiers \ {"ALT_LIT"}
  BY DEF TierBreakScan, Tier, SkippingTiers
<1>2. /\ offset \in Nat /\ offset <= SLen /\ offset >= task.start /\ SLen \in Nat
      /\ task.start \in Nat
  BY <1>1, PreppedTypes DEF SkipInv
<1>3. M.is_break_family /\ M.ascii_class_only /\ ~task.anchored
  BY <1>1 DEF SkipInv, TierEligible
<1>4. scan \in offset .. SLen /\ \A x \in offset .. scan - 1 : ByteAt(x) \notin M.class_bitmap
  <2>1. offset \in 0 .. SLen
    BY <1>2
  <2> QED BY <1>2, <2>1, RunUntilInside
<1> HIDE DEF scan
<1>5. CASE VmHit(offset)
  <2>1. Finish(Found(offset, offset + r.end, RegsAt(offset), "vm"))
    BY <1>5 DEF TierBreakScan, Confirm, VmHit, RegsAt
  <2> QED BY <1>1, <1>2, <1>5, <2>1, SkipConfirmed
<1>6. CASE ~VmHit(offset)
  <2>1. ~Hit(offset)
    BY <1>1, <1>6 DEF Hit, VmHit
  <2>2. ASSUME AnalysisRight, NEW o \in offset .. scan PROVE ~Hit(o)
    <3> DEFINE Bad == {x \in offset .. scan : Hit(x)}
    <3>1. Bad = {}
      <4> SUFFICES ASSUME Bad # {} PROVE FALSE
        OBVIOUS
      <4>1. Bad \subseteq Nat
        BY <1>2, <1>4
      <4>2. Least(Bad) \in Bad /\ \A x \in Bad : Least(Bad) <= x
        <5> HIDE DEF Bad
        <5> QED BY <4>1, LeastExists
      <4> DEFINE b == Least(Bad)
      <4>3. b \in offset .. scan /\ Hit(b)
        BY <4>2
      <4>4. \A x \in offset .. scan : Hit(x) => b <= x
        BY <4>2
      <4> HIDE DEF b, Bad
      <4>5. b # offset
        BY <2>1, <4>3
      <4>6. b - 1 \in offset .. scan - 1 /\ b > task.start /\ b \in task.start .. SLen
            /\ b - 1 \in offset .. scan /\ ~(b <= b - 1)
        BY <1>2, <1>4, <4>3, <4>5
      <4>7. ByteAt(b - 1) \notin M.class_bitmap
        BY <1>4, <4>6
      <4>8. ByteAt(b - 1) \in M.class_bitmap \/ Hit(b - 1)
        BY <1>3, <2>2, <4>3, <4>6 DEF AnalysisRight
      <4> QED BY <4>4, <4>6, <4>7, <4>8
    <3> QED BY <3>1
  <2>3. CASE scan >= SLen
    <3>1. NotFound
      BY <1>6, <2>3 DEF TierBreakScan, Confirm, VmHit, scan
    <3>2. scan = SLen
      BY <1>2, <1>4, <2>3
    <3>3. AnalysisRight => \A o \in offset .. (IF task.anchored THEN task.start ELSE SLen) : ~Hit(o)
      BY <1>3, <2>2, <3>2
    <3> QED BY <1>1, <3>1, <3>3, SkipMissed
  <2>4. CASE ~(scan >= SLen)
    <3>1. GoTo(scan + 1)
      BY <1>6, <2>4 DEF TierBreakScan, Confirm, VmHit, scan
    <3> DEFINE n == scan + 1
    <3>2. n \in Nat /\ n >= offset /\ n <= SLen /\ n - 1 = scan
      BY <1>2, <1>4, <2>4
    <3>3. AnalysisRight => \A o \in offset .. n - 1 : ~Hit(o)
      BY <2>2, <3>2
    <3>4. GoTo(n)
      BY <3>1
    <3> HIDE DEF n
    <3> QED BY <1>1, <3>2, <3>3, <3>4, SkipOn
  <2> QED BY <2>3, <2>4
<1> QED BY <1>5, <1>6

\* One offset further.
LEMMA SkipOne ==
    ASSUME SkipInv, pc = "tier", tier \in SkippingTiers, GoTo(offset + 1),
           tier = "BREAK_SCAN" => offset < SLen,
           AnalysisRight => ~Hit(offset)
    PROVE  SkipInv'
<1> DEFINE n == offset + 1
<1>1. offset \in Nat /\ SLen \in Nat
  BY PreppedTypes DEF SkipInv
<1>2. n \in Nat /\ n >= offset /\ (tier = "BREAK_SCAN" => n <= SLen) /\ GoTo(n)
  BY <1>1
<1>3. AnalysisRight => \A o \in offset .. n - 1 : ~Hit(o)
  BY <1>1
<1> HIDE DEF n
<1> QED BY <1>2, <1>3, SkipOn

\* SPAN: a match begins with a byte of the class.
LEMMA SpanSkips ==
    ASSUME SkipInv, TierSpanScan
    PROVE  SkipInv'
<1> DEFINE r == VmExec(pattern, Slice(offset, SLen))
<1>1. pc = "tier" /\ tier = "SPAN_SCAN" /\ tier \in SkippingTiers \ {"ALT_LIT"}
  BY DEF TierSpanScan, Tier, SkippingTiers
<1>2. offset \in Nat /\ offset >= task.start /\ SLen \in Nat /\ task.start \in Nat
  BY <1>1, PreppedTypes DEF SkipInv
<1>3. M.is_span_family /\ M.ascii_class_only /\ ~task.anchored
  BY <1>1 DEF SkipInv, TierEligible
<1>4. ASSUME AnalysisRight, NEW o \in offset .. SLen, Hit(o)
      PROVE  o < SLen /\ ByteAt(o) \in M.class_bitmap
  <2>1. o \in task.start .. SLen
    BY <1>2
  <2> QED BY <1>3, <1>4, <2>1 DEF AnalysisRight
<1>5. CASE offset >= SLen
  <2>1. NotFound
    BY <1>5 DEF TierSpanScan, GiveUp, Skip
  <2>2. AnalysisRight => \A o \in offset .. SLen : ~Hit(o)
    <3> SUFFICES ASSUME AnalysisRight, NEW o \in offset .. SLen, Hit(o) PROVE FALSE
      OBVIOUS
    <3> QED BY <1>2, <1>4, <1>5
  <2> QED BY <1>1, <1>3, <2>1, <2>2, SkipMissed
<1>6. CASE offset < SLen /\ ByteAt(offset) \notin M.class_bitmap
  <2>1. GoTo(offset + 1)
    BY <1>2, <1>6 DEF TierSpanScan, GiveUp, Skip
  <2>2. AnalysisRight => ~Hit(offset)
    BY <1>2, <1>4, <1>6
  <2> QED BY <1>1, <2>1, <2>2, SkipOne
<1>7. CASE offset < SLen /\ ByteAt(offset) \in M.class_bitmap
  <2>1. Confirm(offset, GoTo(offset + 1))
    BY <1>2, <1>7 DEF TierSpanScan
  <2>2. CASE VmHit(offset)
    <3>1. Finish(Found(offset, offset + r.end, RegsAt(offset), "vm"))
      BY <2>1, <2>2 DEF Confirm, VmHit, RegsAt
    <3> QED BY <1>1, <1>2, <2>2, <3>1, SkipConfirmed
  <2>3. CASE ~VmHit(offset)
    <3>1. GoTo(offset + 1)
      BY <2>1, <2>3 DEF Confirm, VmHit
    <3>2. ~Hit(offset)
      BY <1>1, <2>3 DEF Hit, VmHit
    <3> QED BY <1>1, <3>1, <3>2, SkipOne
  <2> QED BY <2>2, <2>3
<1> QED BY <1>2, <1>5, <1>6, <1>7

\* BITMAP: a match begins with a candidate.
LEMMA BitmapSkips ==
    ASSUME SkipInv, TierBitmap
    PROVE  SkipInv'
<1> DEFINE r == VmExec(pattern, Slice(offset, SLen))
           last == IF task.anchored THEN task.start ELSE SLen
<1>1. pc = "tier" /\ tier = "BITMAP" /\ tier \in SkippingTiers \ {"ALT_LIT"}
  BY DEF TierBitmap, Tier, SkippingTiers
<1>2. /\ offset \in Nat /\ offset >= task.start /\ SLen \in Nat /\ task.start \in Nat
      /\ task.start <= SLen
  BY <1>1, PreppedTypes DEF SkipInv
<1>3. M.has_candidate_bitmap
  BY <1>1 DEF SkipInv, TierEligible
<1>4. ASSUME AnalysisRight, NEW o \in offset .. SLen, Hit(o)
      PROVE  o < SLen /\ ByteAt(o) \in M.candidate_bitmap
  <2>1. o \in task.start .. SLen
    BY <1>2
  <2> QED BY <1>3, <1>4, <2>1 DEF AnalysisRight
<1>5. CASE offset >= SLen
  <2>1. NotFound
    BY <1>5 DEF TierBitmap, GiveUp, Skip
  <2>2. AnalysisRight => \A o \in offset .. last : ~Hit(o)
    <3> SUFFICES ASSUME AnalysisRight, NEW o \in offset .. last, Hit(o) PROVE FALSE
      OBVIOUS
    <3>1. o \in offset .. SLen
      BY <1>2
    <3> QED BY <1>2, <1>4, <1>5, <3>1
  <2> QED BY <1>1, <2>1, <2>2, SkipMissed
<1>6. CASE offset < SLen /\ ByteAt(offset) \notin M.candidate_bitmap
  <2>1. GoTo(offset + 1)
    BY <1>2, <1>6 DEF TierBitmap, GiveUp, Skip
  <2>2. AnalysisRight => ~Hit(offset)
    BY <1>2, <1>4, <1>6
  <2> QED BY <1>1, <2>1, <2>2, SkipOne
<1>7. CASE offset < SLen /\ ByteAt(offset) \in M.candidate_bitmap
  <2>1. Confirm(offset, IF task.anchored THEN NotFound ELSE GoTo(offset + 1))
    BY <1>2, <1>7 DEF TierBitmap
  <2>2. CASE VmHit(offset)
    <3>1. Finish(Found(offset, offset + r.end, RegsAt(offset), "vm"))
      BY <2>1, <2>2 DEF Confirm, VmHit, RegsAt
    <3> QED BY <1>1, <1>2, <2>2, <3>1, SkipConfirmed
  <2>3. CASE ~VmHit(offset)
    <3>1. ~Hit(offset)
      BY <1>1, <2>3 DEF Hit, VmHit
    <3>2. CASE task.anchored
      <4>1. NotFound
        BY <2>1, <2>3, <3>2 DEF Confirm, VmHit
      <4>2. \A o \in offset .. last : ~Hit(o)
        BY <1>2, <3>1, <3>2
      <4> QED BY <1>1, <4>1, <4>2, SkipMissed
    <3>3. CASE ~task.anchored
      <4>1. GoTo(offset + 1)
        BY <2>1, <2>3, <3>3 DEF Confirm, VmHit
      <4> QED BY <1>1, <3>1, <4>1, SkipOne
    <3> QED BY <3>2, <3>3
  <2> QED BY <2>2, <2>3
<1> QED BY <1>2, <1>5, <1>6, <1>7

\* PREFIX: a match begins with the prefix.
LEMMA PrefixSkips ==
    ASSUME SkipInv, TierPrefix
    PROVE  SkipInv'
<1> DEFINE p == M.literal_prefix
           c == IF offset > SLen THEN -1 ELSE PrefixCandidate(offset)
           r == VmExec(pattern, Slice(c, SLen))
<1>1. pc = "tier" /\ tier = "PREFIX" /\ tier \in SkippingTiers \ {"ALT_LIT"}
  BY DEF TierPrefix, Tier, SkippingTiers
<1>2. offset \in Nat /\ offset >= task.start /\ SLen \in Nat /\ task.start \in Nat
  BY <1>1, PreppedTypes DEF SkipInv
<1>3. M.has_literal_prefix /\ ~task.anchored
  BY <1>1 DEF SkipInv, TierEligible
<1>4. ASSUME AnalysisRight, NEW o \in offset .. SLen, Hit(o)
      PROVE  LiteralAt(p, o)
  <2>1. o \in task.start .. SLen
    BY <1>2
  <2> QED BY <1>3, <1>4, <2>1 DEF AnalysisRight
<1>5. \/ c = -1 /\ \A x \in offset .. SLen : ~LiteralAt(p, x)
      \/ c \in offset .. SLen /\ \A x \in offset .. c - 1 : ~LiteralAt(p, x)
  <2>1. CASE offset > SLen
    BY <1>2, <2>1
  <2>2. CASE ~(offset > SLen)
    <3> DEFINE q == Occurrence(p, offset)
    <3>1. \/ q = -1 /\ \A x \in offset .. SLen : ~LiteralAt(p, x)
          \/ q \in offset .. SLen /\ \A x \in offset .. q - 1 : ~LiteralAt(p, x)
      BY <1>2, OccurrenceIsFirst
    <3>2. \/ q # -1 /\ c = q
          \/ q = -1 /\ c = SLen - 1 /\ SLen - 1 >= offset
          \/ q = -1 /\ c = -1
      BY <2>2 DEF PrefixCandidate
    <3> HIDE DEF q, c, p
    <3>3. CASE q # -1
      BY <1>2, <3>1, <3>2, <3>3
    <3>4. CASE q = -1
      BY <1>2, <3>1, <3>2, <3>4
    <3> QED BY <3>3, <3>4
  <2> QED BY <2>1, <2>2
<1>6. IF c = -1 THEN NotFound ELSE Confirm(c, GoTo(c + 1))
  BY DEF TierPrefix, GiveUp
<1> HIDE DEF c, p
<1>7. CASE c = -1
  <2>1. AnalysisRight => \A o \in offset .. SLen : ~Hit(o)
    BY <1>2, <1>4, <1>5, <1>7
  <2> QED BY <1>1, <1>3, <1>6, <1>7, <2>1, SkipMissed
<1>8. CASE c # -1
  <2>1. c \in offset .. SLen /\ c \in Nat /\ c >= offset
    BY <1>2, <1>5, <1>8
  <2>2. AnalysisRight => \A o \in offset .. c - 1 : ~Hit(o)
    <3> SUFFICES ASSUME AnalysisRight, NEW o \in offset .. c - 1, Hit(o) PROVE FALSE
      OBVIOUS
    <3>1. o \in offset .. SLen
      BY <1>2, <2>1
    <3> QED BY <1>4, <1>5, <1>8, <3>1
  <2>3. CASE VmHit(c)
    <3>1. Finish(Found(c, c + r.end, RegsAt(c), "vm"))
      BY <1>6, <1>8, <2>3 DEF Confirm, VmHit, RegsAt
    <3> QED BY <1>1, <2>1, <2>2, <2>3, <3>1, SkipConfirmed
  <2>4. CASE ~VmHit(c)
    <3> DEFINE n == c + 1
    <3>1. GoTo(n)
      BY <1>6, <1>8, <2>4 DEF Confirm, VmHit
    <3>2. ~Hit(c)
      BY <1>1, <2>4 DEF Hit, VmHit
    <3>3. n \in Nat /\ n >= offset
      BY <1>2, <2>1
    <3>4. AnalysisRight => \A o \in offset .. n - 1 : ~Hit(o)
      <4> SUFFICES ASSUME AnalysisRight, NEW o \in offset .. n - 1 PROVE ~Hit(o)
        OBVIOUS
      <4>1. o \in offset .. c - 1 \/ o = c
        BY <1>2, <2>1
      <4> QED BY <2>2, <3>2, <4>1
    <3> HIDE DEF n
    <3> QED BY <1>1, <3>1, <3>3, <3>4, SkipOn
  <2> QED BY <2>3, <2>4
<1> QED BY <1>7, <1>8

\* The Horspool shift.
LEMMA SkipShift ==
    ASSUME SkipInv, pc = "tier", tier \in SkippingTiers \ {"BREAK_SCAN"},
           GoTo(Horspool(offset)), ~Hit(offset)
    PROVE  SkipInv'
<1> DEFINE n == Horspool(offset)
<1>1. offset \in Nat /\ offset >= task.start /\ SLen \in Nat /\ task.start \in Nat /\ Prepped
  BY PreppedTypes DEF SkipInv
<1>2. /\ n \in Nat /\ n > offset
      /\ \A x \in offset + 1 .. n - 1 :
            M.has_bmh_skip /\ x <= SLen /\ ~LiteralAt(M.literal_prefix, x)
  BY <1>1, HorspoolSkipsNone
<1>3. GoTo(n)
  OBVIOUS
<1> HIDE DEF n
<1>4. AnalysisRight => \A o \in offset .. n - 1 : ~Hit(o)
  <2> SUFFICES ASSUME AnalysisRight, NEW o \in offset .. n - 1, Hit(o) PROVE FALSE
    OBVIOUS
  <2>1. o # offset
    OBVIOUS
  <2>2. o \in offset + 1 .. n - 1
    BY <1>1, <1>2, <2>1
  <2>3. o \in task.start .. SLen
    BY <1>1, <1>2, <2>2
  <2>4. LiteralAt(M.literal_prefix, o)
    BY <1>2, <2>2, <2>3 DEF AnalysisRight
  <2> QED BY <1>2, <2>2, <2>4
<1>5. n >= offset
  BY <1>1, <1>2
<1> QED BY <1>2, <1>3, <1>4, <1>5, SkipOn

\* What the start bytes and the minimum length exclude.
LEMMA FiltersRight ==
    ASSUME SkipInv, pc = "tier", tier \in SkippingTiers, AnalysisRight,
           NEW o, o \in offset .. SLen, Hit(o)
    PROVE  /\ o < SLen => ByteAt(o) \in M.start_bitmap
           /\ M.minlength \in Nat /\ offset + M.minlength <= SLen
<1>1. offset \in Nat /\ offset >= task.start /\ SLen \in Nat /\ task.start \in Nat
  BY PreppedTypes DEF SkipInv
<1>2. o \in task.start .. SLen
  BY <1>1
<1>3. (o < SLen => ByteAt(o) \in M.start_bitmap) /\ M.minlength \in 0 .. SLen - o
  BY <1>2 DEF AnalysisRight
<1> QED BY <1>1, <1>2, <1>3

\* GENERAL: every offset the filters admit is tried.
LEMMA GeneralSkips ==
    ASSUME SkipInv, TierGeneral
    PROVE  SkipInv'
<1> DEFINE r == VmExec(pattern, Slice(offset, SLen))
           last == IF task.anchored THEN task.start ELSE SLen
<1>1. /\ pc = "tier" /\ tier = "GENERAL" /\ tier \in SkippingTiers \ {"ALT_LIT"}
      /\ tier \in SkippingTiers \ {"BREAK_SCAN"}
  BY DEF TierGeneral, Tier, SkippingTiers
<1>2. /\ offset \in Nat /\ offset >= task.start /\ SLen \in Nat /\ task.start \in Nat
      /\ task.start <= SLen
  BY <1>1, PreppedTypes DEF SkipInv
<1>3. \A o \in offset .. last : o \in offset .. SLen
  BY <1>2
<1>4. CASE offset > SLen
  <2>1. NotFound
    BY <1>4 DEF TierGeneral, GiveUp, Skip
  <2>2. \A o \in offset .. last : ~Hit(o)
    BY <1>2, <1>3, <1>4
  <2> QED BY <1>1, <2>1, <2>2, SkipMissed
<1>5. CASE offset <= SLen /\ offset < SLen /\ ByteAt(offset) \notin M.start_bitmap
  <2>1. GoTo(offset + 1)
    BY <1>2, <1>5 DEF TierGeneral, GiveUp, Skip
  <2>2. AnalysisRight => ~Hit(offset)
    <3>1. offset \in offset .. SLen
      BY <1>2, <1>5
    <3> QED BY <1>1, <1>5, <3>1, FiltersRight
  <2> QED BY <1>1, <2>1, <2>2, SkipOne
<1>6. CASE /\ offset <= SLen /\ ~(offset < SLen /\ ByteAt(offset) \notin M.start_bitmap)
           /\ offset + M.minlength > SLen
  <2>1. NotFound
    BY <1>2, <1>6 DEF TierGeneral, GiveUp, Skip
  <2>2. AnalysisRight => \A o \in offset .. last : ~Hit(o)
    <3> SUFFICES ASSUME AnalysisRight, NEW o \in offset .. last, Hit(o) PROVE FALSE
      OBVIOUS
    <3>1. M.minlength \in Nat /\ offset + M.minlength <= SLen
      BY <1>1, <1>3, FiltersRight
    <3> QED BY <1>2, <1>6, <3>1
  <2> QED BY <1>1, <2>1, <2>2, SkipMissed
<1>7. CASE /\ offset <= SLen /\ ~(offset < SLen /\ ByteAt(offset) \notin M.start_bitmap)
           /\ ~(offset + M.minlength > SLen)
  <2>1. Confirm(offset,
                IF r.status = "abort" THEN Finish([NoResult EXCEPT !.aborted = TRUE])
                ELSE IF offset >= SLen \/ task.anchored THEN NotFound
                ELSE GoTo(Horspool(offset)))
    BY <1>2, <1>7 DEF TierGeneral
  <2>2. CASE VmHit(offset)
    <3>1. Finish(Found(offset, offset + r.end, RegsAt(offset), "vm"))
      BY <2>1, <2>2 DEF Confirm, VmHit, RegsAt
    <3> QED BY <1>1, <1>2, <2>2, <3>1, SkipConfirmed
  <2>3. CASE ~VmHit(offset)
    <3>1. ~Hit(offset)
      BY <1>1, <2>3 DEF Hit, VmHit
    <3>2. IF r.status = "abort" THEN Finish([NoResult EXCEPT !.aborted = TRUE])
          ELSE IF offset >= SLen \/ task.anchored THEN NotFound
          ELSE GoTo(Horspool(offset))
      BY <2>1, <2>3 DEF Confirm, VmHit
    <3>3. CASE r.status = "abort"
      <4>1. Finish([NoResult EXCEPT !.aborted = TRUE])
        BY <3>2, <3>3
      <4>2. UNCHANGED <<pattern, task, tier>> /\ pc' = "done" /\ out'.aborted = TRUE
            /\ out'.success = FALSE
        BY <4>1 DEF Finish, NoResult
      <4>3. SkipsNothing'
        BY <4>2 DEF SkipsNothing
      <4> QED BY <4>2, <4>3, SameChecks DEF SkipInv
    <3>4. CASE r.status # "abort" /\ (offset >= SLen \/ task.anchored)
      <4>1. NotFound
        BY <3>2, <3>4
      <4>2. \A o \in offset .. last : ~Hit(o)
        BY <1>2, <1>7, <3>1, <3>4
      <4> QED BY <1>1, <4>1, <4>2, SkipMissed
    <3>5. CASE r.status # "abort" /\ ~(offset >= SLen \/ task.anchored)
      <4>1. GoTo(Horspool(offset))
        BY <3>2, <3>5
      <4> QED BY <1>1, <3>1, <4>1, SkipShift
    <3> QED BY <3>3, <3>4, <3>5
  <2> QED BY <2>2, <2>3
<1> QED BY <1>2, <1>4, <1>5, <1>6, <1>7

\* The start of a search is where nothing was skipped yet.
LEMMA SkipBegins ==
    ASSUME Prepped, UNCHANGED <<pattern, task>>, pc' = "tier", offset' = task.start,
           (TierEligible(tier, M, task.anchored))'
    PROVE  SkipInv'
<1>1. Prepped' /\ SLen' = SLen
  BY DEF Prepped, SLen
<1>2. task.start \in 0 .. SLen /\ SLen \in Nat
  BY PreppedTypes
<1>3. Clean(offset)'
  BY <1>2 DEF Clean
<1>4. SkipsNothing'
  BY DEF SkipsNothing
<1> QED BY <1>1, <1>2, <1>3, <1>4 DEF SkipInv

\* ALT_LIT: the filters and the shift before the trie.
LEMMA TrieSkips ==
    ASSUME SkipInv, TierAltLit
    PROVE  SkipInv'
<1> DEFINE lits == AltLeaves(Code).lits
           i == TrieMatch(lits, offset)
           last == IF task.anchored THEN task.start ELSE SLen
<1>1. /\ pc = "tier" /\ tier = "ALT_LIT" /\ tier \in SkippingTiers
      /\ tier \in SkippingTiers \ {"BREAK_SCAN"}
  BY DEF TierAltLit, Tier, SkippingTiers
<1>2. /\ offset \in Nat /\ offset >= task.start /\ SLen \in Nat /\ task.start \in Nat
      /\ task.start <= SLen
  BY <1>1, PreppedTypes DEF SkipInv
<1>3. \A o \in offset .. last : o \in offset .. SLen
  BY <1>2
<1>4. Hit(offset) <=> i # 0
  BY <1>1 DEF Hit
<1>5. IF TrieNodes(lits) > MAX_TRIE_NODES THEN Fallback
      ELSE IF offset + M.minlength > SLen \/ (task.anchored /\ offset # task.start)
        THEN NotFound
      ELSE IF offset < SLen /\ ByteAt(offset) \notin M.start_bitmap THEN GoTo(offset + 1)
      ELSE IF i # 0 THEN Finish(Found(offset, offset + Len(lits[i]), ZeroRegs, "trie"))
      ELSE GoTo(Horspool(offset))
  BY DEF TierAltLit
<1> HIDE DEF i, lits
<1>6. CASE Fallback
  <2>1. UNCHANGED <<pattern, task>> /\ pc' = "tier" /\ offset' = task.start /\ tier' = "GENERAL"
    BY <1>1, <1>6 DEF Fallback
  <2>2. (TierEligible(tier, M, task.anchored))'
    BY <2>1 DEF TierEligible
  <2> QED BY <2>1, <2>2, SkipBegins DEF SkipInv
<1>7. CASE NotFound /\ (offset + M.minlength > SLen \/ (task.anchored /\ offset # task.start))
  <2>1. AnalysisRight => \A o \in offset .. last : ~Hit(o)
    <3> SUFFICES ASSUME AnalysisRight, NEW o \in offset .. last, Hit(o) PROVE FALSE
      OBVIOUS
    <3>1. M.minlength \in Nat /\ offset + M.minlength <= SLen
      BY <1>1, <1>3, FiltersRight
    <3>2. task.anchored /\ offset # task.start
      BY <1>2, <1>7, <3>1
    <3> QED BY <1>2, <3>2
  <2> QED BY <1>1, <1>7, <2>1, SkipMissed
<1>8. CASE GoTo(offset + 1) /\ offset < SLen /\ ByteAt(offset) \notin M.start_bitmap
  <2>1. AnalysisRight => ~Hit(offset)
    <3>1. offset \in offset .. SLen
      BY <1>2, <1>8
    <3> QED BY <1>1, <1>8, <3>1, FiltersRight
  <2> QED BY <1>1, <1>8, <2>1, SkipOne
<1>9. CASE i # 0 /\ Finish(Found(offset, offset + Len(lits[i]), ZeroRegs, "trie"))
  <2>1. AnalysisRight => \A o \in offset .. offset - 1 : ~Hit(o)
    BY <1>2
  <2> QED BY <1>1, <1>2, <1>4, <1>9, <2>1, SkipFound
<1>10. CASE i = 0 /\ GoTo(Horspool(offset))
  BY <1>1, <1>4, <1>10, SkipShift
<1> QED BY <1>5, <1>6, <1>7, <1>8, <1>9, <1>10

(***************************************************************************)
(* As far as the analysis is right about a search, its tier tries every    *)
(* offset where it could succeed: the Horspool shift, the hops behind      *)
(* delimiters, to candidates and to prefixes, the filter of start bytes    *)
(* and the minimum length leave out only offsets where the check fails,    *)
(* in every loop of search_tiers.c that has them.                          *)
(***************************************************************************)
THEOREM NothingSkipped == Spec => []SkipsNothing
<1>1. Init => SkipInv
  <2> SUFFICES ASSUME Init PROVE SkipInv
    OBVIOUS
  <2>1. Prepped /\ pc = "call" /\ tier = "none" /\ offset = task.start
    BY DEF Init, Prepped
  <2> QED BY <2>1 DEF SkipInv, SkipsNothing
<1>2. SkipInv /\ [Next]_vars => SkipInv'
  <2> SUFFICES ASSUME SkipInv, [Next]_vars PROVE SkipInv'
    OBVIOUS
  <2>1. CASE SearchExec
    <3>1. pc = "call" /\ tier = "none" /\ offset = task.start /\ Prepped
      BY <2>1 DEF SearchExec, SkipInv
    <3>2. CASE UNCHANGED <<pattern, task, tier>> /\ pc' = "done"
      <4>1. tier' \notin SkippingTiers
        BY <3>1, <3>2 DEF SkippingTiers
      <4>2. SkipsNothing'
        BY <4>1 DEF SkipsNothing
      <4> QED BY <3>1, <3>2, <4>2, SameChecks DEF SkipInv
    <3>3. CASE pc' = "tier" /\ tier' = DispatchTier /\ UNCHANGED <<pattern, task, offset>>
      <4>1. TierEligible(SelectTier(M, task.cost, task.anchored), M, task.anchored)
        BY <3>1, PreppedTypes, TierIsEligible
      <4>2. TierEligible(DispatchTier, M, task.anchored)
        BY <4>1 DEF DispatchTier, TierEligible
      <4>3. (TierEligible(tier, M, task.anchored))'
        BY <3>3, <4>2 DEF M, TierEligible
      <4> QED BY <3>1, <3>3, <4>3, SkipBegins
    <3> QED BY <2>1, <3>2, <3>3 DEF SearchExec, Finish
  <2>2. CASE /\ UNCHANGED <<pattern, task, tier>> /\ tier \notin SkippingTiers
             /\ pc' \in {"tier", "pike", "svm", "done"}
             /\ pc' \in {"pike", "svm"} => tier = "SEARCH_VM"
    BY <2>2, SameChecks DEF SkipInv, SkipsNothing
  <2>3. CASE TierBreakScan BY <2>3, BreakSkips
  <2>4. CASE TierSpanScan BY <2>4, SpanSkips
  <2>5. CASE TierPrefix BY <2>5, PrefixSkips
  <2>6. CASE TierBitmap BY <2>6, BitmapSkips
  <2>7. CASE TierGeneral BY <2>7, GeneralSkips
  <2>8. CASE TierAltLit BY <2>8, TrieSkips
  <2> USE DEF Tier, Finish, GoTo, NotFound, SkippingTiers
  <2>9. CASE TierLiteral BY <2>2, <2>9 DEF TierLiteral
  <2>10. CASE TierSimdNfa BY <2>2, <2>10 DEF TierSimdNfa
  <2>11. CASE TierFusion BY <2>2, <2>11 DEF TierFusion
  <2>12. CASE TierAutomaton
    <3>1. CASE Fallback
      <4>1. UNCHANGED <<pattern, task>> /\ pc' = "tier" /\ offset' = task.start /\ tier' = "GENERAL"
        BY <2>12, <3>1 DEF Fallback, TierAutomaton
      <4>2. (TierEligible(tier, M, task.anchored))'
        BY <4>1 DEF TierEligible
      <4> QED BY <4>1, <4>2, SkipBegins DEF SkipInv
    <3>2. CASE ~Fallback
      BY <2>2, <2>12, <3>2 DEF TierAutomaton
    <3> QED BY <3>1, <3>2
  <2>13. CASE TierSearchVM BY <2>2, <2>13 DEF TierSearchVM
  <2>14. CASE PikeRun BY <2>2, <2>14 DEF PikeRun, SkipInv
  <2>15. CASE PikeResult BY <2>2, <2>15 DEF PikeResult, SkipInv
  <2>16. CASE SvmRun BY <2>2, <2>16 DEF SvmRun, SkipInv
  <2>17. CASE SvmResult BY <2>2, <2>17 DEF SvmResult, SkipInv
  <2>18. CASE UNCHANGED vars
    <3>1. UNCHANGED <<pattern, task, tier, pc, offset, out>>
      BY <2>18 DEF vars
    <3>2. Clean(offset)' = Clean(offset)
      BY <3>1, SameChecks DEF Clean
    <3>3. SkipsNothing' = SkipsNothing
      BY <3>1, SameChecks DEF SkipsNothing
    <3> QED BY <3>1, <3>2, <3>3, SameChecks DEF SkipInv
  <2> QED BY <2>1, <2>3, <2>4, <2>5, <2>6, <2>7, <2>8, <2>9, <2>10, <2>11, <2>12, <2>13,
             <2>14, <2>15, <2>16, <2>17, <2>18 DEF Next, Returned
<1>3. SkipInv => SkipsNothing
  BY DEF SkipInv
<1> QED BY <1>1, <1>2, <1>3, PTL DEF Spec
=============================================================================
