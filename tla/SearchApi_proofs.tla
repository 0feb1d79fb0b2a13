-------------------------- MODULE SearchApi_proofs --------------------------
(***************************************************************************)
(* The search API, for all tables, name lists, outcomes and sequences of   *)
(* calls: the ownership of tables, the resolution of their names and the   *)
(* captures of the match object (SearchState), and the result of a batch   *)
(* search and the memory it is written to, for all subjects, capacities,   *)
(* numbers of captures, matches and allocations that fail (BatchSearch).   *)
(*                                                                         *)
(* Beyond BatchExact the invariant of the batch says that entries of a row *)
(* that no match has reached are zero, that a match a row is too short for *)
(* did not set it or could not grow it, and that the output buffer is as   *)
(* large as its capacity says until an allocation fails.                   *)
(***************************************************************************)
EXTENDS SearchState, BatchSearch, FiniteSetTheorems, SequenceTheorems, WellFoundedInduction, TLAPS

\* The fields of the records, and the bindings as sequences of tables.
ApiTypes ==
    /\ refs \in [Tables -> Int]
    /\ pat = [alive |-> pat.alive, bound |-> pat.bound, gen |-> pat.gen, ids |-> pat.ids]
    /\ pat.bound \in Seq(Tables) /\ pat.gen \in Nat
    /\ st = [alive |-> st.alive, pattern |-> st.pattern, bound |-> st.bound, gen |-> st.gen,
             registry |-> st.registry, synced |-> st.synced, short |-> st.short]
    /\ st.bound \in Seq(Tables) /\ st.registry \in Seq(Tables) /\ st.gen \in Nat
    /\ ~st.alive => st = NoState

(***************************************************************************)
(* Counting references.                                                    *)
(***************************************************************************)
LEMMA OccurrencesType ==
    ASSUME NEW seq \in Seq(Tables), NEW t
    PROVE  Occurrences(seq, t) \in Nat
<1> DEFINE at == {i \in DOMAIN seq : seq[i] = t}
<1>1. at \in SUBSET (1 .. Len(seq)) /\ Len(seq) \in Nat
  OBVIOUS
<1>2. IsFiniteSet(1 .. Len(seq))
  BY <1>1, FS_Interval
<1>3. IsFiniteSet(at)
  BY <1>1, <1>2, FS_Subset
<1> QED BY <1>3, FS_CardinalityType DEF Occurrences

LEMMA EmptyOccurs == \A t : Occurrences(<<>>, t) = 0
<1> SUFFICES ASSUME NEW t PROVE Occurrences(<<>>, t) = 0
  OBVIOUS
<1>1. {i \in DOMAIN <<>> : <<>>[i] = t} = {}
  OBVIOUS
<1> QED BY <1>1, FS_EmptySet DEF Occurrences

LEMMA RetainedCount ==
    ASSUME NEW r \in [Tables -> Int], NEW seq \in Seq(Tables)
    PROVE  /\ Retained(r, seq) \in [Tables -> Int]
           /\ \A t \in Tables : Retained(r, seq)[t] = r[t] + Occurrences(seq, t)
BY OccurrencesType DEF Retained

LEMMA ReleasedCount ==
    ASSUME NEW r \in [Tables -> Int], NEW seq \in Seq(Tables)
    PROVE  /\ Released(r, seq) \in [Tables -> Int]
           /\ \A t \in Tables : Released(r, seq)[t] = r[t] - Occurrences(seq, t)
BY OccurrencesType DEF Released

\* Old entries released, then new ones retained, or more released.
LEMMA ExchangedCount ==
    ASSUME NEW r \in [Tables -> Int], NEW old \in Seq(Tables), NEW new \in Seq(Tables)
    PROVE  /\ Retained(Released(r, old), new) \in [Tables -> Int]
           /\ Released(Released(r, old), new) \in [Tables -> Int]
           /\ \A t \in Tables :
                /\ Retained(Released(r, old), new)[t] = (r[t] - Occurrences(old, t)) + Occurrences(new, t)
                /\ Released(Released(r, old), new)[t] = (r[t] - Occurrences(old, t)) - Occurrences(new, t)
<1> DEFINE q == Released(r, old)
<1>1. q \in [Tables -> Int] /\ \A t \in Tables : q[t] = r[t] - Occurrences(old, t)
  BY ReleasedCount
<1> HIDE DEF q
<1>2. Retained(q, new) \in [Tables -> Int] /\ \A t \in Tables : Retained(q, new)[t] = q[t] + Occurrences(new, t)
  BY <1>1, RetainedCount
<1>3. Released(q, new) \in [Tables -> Int] /\ \A t \in Tables : Released(q, new)[t] = q[t] - Occurrences(new, t)
  BY <1>1, ReleasedCount
<1> QED BY <1>1, <1>2, <1>3 DEF q

LEMMA ListTables == \A list \in Lists : TablesOf(list) \in Seq(Tables)
BY ApiAssumption DEF TablesOf

(***************************************************************************)
(* Synchronising the registry: either nothing changes, or the registry is  *)
(* the binding or empty, and is labelled with the binding.                 *)
(***************************************************************************)
LEMMA BindingTables ==
    ASSUME ApiTypes
    PROVE  /\ Binding.tables \in Seq(Tables)
           /\ Binding.gen \in Nat
           /\ Binding = [src |-> Binding.src, gen |-> Binding.gen, tables |-> Binding.tables]
BY DEF Binding, ApiTypes

LEMMA SyncResult ==
    ASSUME ApiTypes, NEW s \in SyncTables
    PROVE  /\ s = [alive |-> s.alive, pattern |-> s.pattern, bound |-> s.bound, gen |-> s.gen,
                   registry |-> s.registry, synced |-> s.synced, short |-> s.short]
           /\ s.alive = st.alive /\ s.pattern = st.pattern /\ s.bound = st.bound /\ s.gen = st.gen
           /\ s.registry \in Seq(Tables)
           /\ Synced(Binding) => s = st
           /\ ~Synced(Binding) => /\ s.registry \in {Binding.tables, <<>>}
                                  /\ s.short = (s.registry # Binding.tables)
                                  /\ s.synced = [src |-> Binding.src, gen |-> Binding.gen]
<1>1. CASE Synced(Binding)
  BY <1>1 DEF SyncTables, ApiTypes
<1>2. CASE ~Synced(Binding)
  <2>1. PICK r \in Registries(Binding.tables) :
          s = [st EXCEPT !.registry = r, !.short = (r # Binding.tables),
                         !.synced = [src |-> Binding.src, gen |-> Binding.gen]]
    BY <1>2 DEF SyncTables
  <2>2. r \in {Binding.tables, <<>>} /\ r \in Seq(Tables)
    <3>1. r \in {Binding.tables, <<>>}
      BY <2>1 DEF Registries
    <3>2. <<>> \in Seq(Tables) /\ Binding.tables \in Seq(Tables)
      BY BindingTables
    <3> QED BY <3>1, <3>2
  <2>3. /\ st = [alive |-> st.alive, pattern |-> st.pattern, bound |-> st.bound, gen |-> st.gen,
                 registry |-> st.registry, synced |-> st.synced, short |-> st.short]
    BY DEF ApiTypes
  <2>4. /\ s = [alive |-> st.alive, pattern |-> st.pattern, bound |-> st.bound, gen |-> st.gen,
                registry |-> r, synced |-> [src |-> Binding.src, gen |-> Binding.gen],
                short |-> (r # Binding.tables)]
    BY <2>1, <2>3
  <2> QED BY <1>2, <2>2, <2>4
<1> QED BY <1>1, <1>2

(***************************************************************************)
(* Reference counts.                                                       *)
(***************************************************************************)
RefsInv == ApiTypes /\ RefsExact

\* The count of each table after a step is that of the bindings after it.
LEMMA RefsInit == Init => RefsInv
<1> SUFFICES ASSUME Init PROVE RefsInv
  OBVIOUS
<1>1. <<>> \in Seq(Tables)
  OBVIOUS
<1>2. ApiTypes
  BY <1>1 DEF Init, ApiTypes, NoState
<1>3. RefsExact
  BY EmptyOccurs DEF Init, RefsExact, NoState
<1> QED BY <1>2, <1>3 DEF RefsInv

\* A step preserves the counts when it moves each by what it does to the
\* client's reference and to the three bindings.
LEMMA CountsMove ==
    ASSUME RefsInv, ApiTypes',
           \A t \in Tables :
               refs'[t] - refs[t] =
                   ((IF t \in mine' THEN 1 ELSE 0) - (IF t \in mine THEN 1 ELSE 0))
                   + (Occurrences(pat'.bound, t) - Occurrences(pat.bound, t))
                   + (Occurrences(st'.bound, t) - Occurrences(st.bound, t))
                   + (Occurrences(st'.registry, t) - Occurrences(st.registry, t))
    PROVE  RefsInv'
<1>1. ASSUME NEW t \in Tables
      PROVE refs'[t] = (IF t \in mine' THEN 1 ELSE 0) + Occurrences(pat'.bound, t)
                       + Occurrences(st'.bound, t) + Occurrences(st'.registry, t)
  <2>1. /\ Occurrences(pat.bound, t) \in Nat /\ Occurrences(st.bound, t) \in Nat
        /\ Occurrences(st.registry, t) \in Nat /\ Occurrences(pat'.bound, t) \in Nat
        /\ Occurrences(st'.bound, t) \in Nat /\ Occurrences(st'.registry, t) \in Nat
    BY OccurrencesType DEF RefsInv, ApiTypes
  <2>2. refs[t] \in Int /\ refs'[t] \in Int
    BY DEF RefsInv, ApiTypes
  <2>3. refs[t] = (IF t \in mine THEN 1 ELSE 0) + Occurrences(pat.bound, t)
                  + Occurrences(st.bound, t) + Occurrences(st.registry, t)
    BY DEF RefsInv, RefsExact
  <2> QED BY <2>1, <2>2, <2>3
<1>2. RefsExact'
  BY <1>1 DEF RefsExact
<1> QED BY <1>2 DEF RefsInv

LEMMA RefsStep == RefsInv /\ [Next]_vars => RefsInv'
<1> SUFFICES ASSUME RefsInv, [Next]_vars PROVE RefsInv'
  OBVIOUS
<1>0. /\ refs \in [Tables -> Int]
      /\ pat = [alive |-> pat.alive, bound |-> pat.bound, gen |-> pat.gen, ids |-> pat.ids]
      /\ pat.bound \in Seq(Tables) /\ pat.gen \in Nat
      /\ st = [alive |-> st.alive, pattern |-> st.pattern, bound |-> st.bound, gen |-> st.gen,
               registry |-> st.registry, synced |-> st.synced, short |-> st.short]
      /\ st.bound \in Seq(Tables) /\ st.registry \in Seq(Tables) /\ st.gen \in Nat
      /\ ~st.alive => st = NoState
      /\ ApiTypes
  BY DEF ApiTypes, RefsInv
<1>e. <<>> \in Seq(Tables)
  OBVIOUS
<1>o. \A seq \in Seq(Tables), t \in Tables : Occurrences(seq, t) \in Nat
  BY OccurrencesType
<1>r. \A t \in Tables : refs[t] \in Int
  BY <1>0
<1>1. ASSUME NEW new \in Seq(Tables), mine' = mine, st' = st,
             refs' = Retained(Released(refs, pat.bound), new) \/ (new = <<>> /\ refs' = Released(refs, pat.bound)),
             pat'.bound = new, pat'.gen \in Nat,
             pat' = [alive |-> pat'.alive, bound |-> pat'.bound, gen |-> pat'.gen, ids |-> pat'.ids]
      PROVE RefsInv'
  <2>1. refs' = Retained(Released(refs, pat.bound), new)
    <3>1. CASE new = <<>> /\ refs' = Released(refs, pat.bound)
      <4>1. Released(refs, pat.bound) \in [Tables -> Int]
        BY <1>0, ReleasedCount
      <4>2. \A r \in [Tables -> Int] : Retained(r, <<>>) = r
        BY EmptyOccurs DEF Retained
      <4> QED BY <3>1, <4>1, <4>2
    <3> QED BY <1>1, <3>1
  <2>5. refs' \in [Tables -> Int]
    BY <1>0, <2>1, ExchangedCount
  <2>2. ApiTypes'
    BY <1>0, <1>1, <2>5 DEF ApiTypes
  <2>3. ASSUME NEW t \in Tables PROVE refs'[t] = (refs[t] - Occurrences(pat.bound, t)) + Occurrences(new, t)
    BY <1>0, <2>1, <2>3, ExchangedCount
  <2>4. ASSUME NEW t \in Tables
        PROVE refs'[t] - refs[t] =
                ((IF t \in mine' THEN 1 ELSE 0) - (IF t \in mine THEN 1 ELSE 0))
                + (Occurrences(pat'.bound, t) - Occurrences(pat.bound, t))
                + (Occurrences(st'.bound, t) - Occurrences(st.bound, t))
                + (Occurrences(st'.registry, t) - Occurrences(st.registry, t))
    <3>1. Occurrences(pat.bound, t) \in Nat /\ Occurrences(new, t) \in Nat /\ refs[t] \in Int
          /\ Occurrences(st.bound, t) \in Nat /\ Occurrences(st.registry, t) \in Nat
      BY <1>0, <1>o, <1>r, <2>4
    <3> QED BY <1>1, <2>3, <2>4, <3>1
  <2> QED BY <2>2, <2>4, CountsMove
<1>2. ASSUME NEW list \in Lists, BindTables(list) PROVE RefsInv'
  <2>1. TablesOf(list) \in Seq(Tables)
    BY ListTables
  <2>2. pat' = [pat EXCEPT !.gen = @ + 1, !.bound = TablesOf(list), !.ids = BindBytecode(list)]
    BY <1>2 DEF BindTables
  <2>3. /\ pat'.bound = TablesOf(list) /\ pat'.gen \in Nat
        /\ pat' = [alive |-> pat'.alive, bound |-> pat'.bound, gen |-> pat'.gen, ids |-> pat'.ids]
    <3>1. pat' = [alive |-> pat.alive, bound |-> TablesOf(list), gen |-> pat.gen + 1, ids |-> BindBytecode(list)]
      BY <1>0, <2>2
    <3> QED BY <1>0, <3>1
  <2> QED BY <1>1, <1>2, <2>1, <2>3 DEF BindTables
<1>3. ASSUME ClearTables PROVE RefsInv'
  <2>1. /\ pat'.bound = <<>> /\ pat'.gen \in Nat
        /\ pat' = [alive |-> pat'.alive, bound |-> pat'.bound, gen |-> pat'.gen, ids |-> pat'.ids]
    <3>1. pat' = [alive |-> pat.alive, bound |-> <<>>, gen |-> pat.gen + 1, ids |-> pat.ids]
      BY <1>0, <1>3 DEF ClearTables
    <3> QED BY <1>0, <3>1
  <2> QED BY <1>1, <1>3, <1>e, <2>1 DEF ClearTables
<1>4. ASSUME NEW list \in Lists, BindTablesFails(list) PROVE RefsInv'
  <2>1. PICK patched \in {{}, Names} :
          pat' = [pat EXCEPT !.gen = @ + 1, !.bound = <<>>,
                             !.ids = [n \in Names |-> IF n \in patched THEN IdIn(list, n) ELSE @[n]]]
    BY <1>4 DEF BindTablesFails
  <2>2. /\ pat'.bound = <<>> /\ pat'.gen \in Nat
        /\ pat' = [alive |-> pat'.alive, bound |-> pat'.bound, gen |-> pat'.gen, ids |-> pat'.ids]
    <3> DEFINE ids == [n \in Names |-> IF n \in patched THEN IdIn(list, n) ELSE pat.ids[n]]
    <3>1. pat' = [pat EXCEPT !.gen = pat.gen + 1, !.bound = <<>>, !.ids = ids]
      BY <2>1
    <3> HIDE DEF ids
    <3>2. pat' = [alive |-> pat.alive, bound |-> <<>>, gen |-> pat.gen + 1, ids |-> ids]
      BY <1>0, <3>1
    <3> QED BY <1>0, <3>2
  <2> QED BY <1>1, <1>4, <1>e, <2>2 DEF BindTablesFails
<1>5. ASSUME PatternFree PROVE RefsInv'
  <2>1. /\ pat'.bound = <<>> /\ pat'.gen \in Nat
        /\ pat' = [alive |-> pat'.alive, bound |-> pat'.bound, gen |-> pat'.gen, ids |-> pat'.ids]
    <3>1. pat' = [alive |-> FALSE, bound |-> <<>>, gen |-> pat.gen, ids |-> pat.ids]
      BY <1>0, <1>5 DEF PatternFree
    <3> QED BY <1>0, <3>1
  <2> QED BY <1>1, <1>5, <1>e, <2>1 DEF PatternFree
<1>6. ASSUME NEW tables \in Seq(Tables), mine' = mine, pat' = pat,
             refs' = Retained(Released(refs, st.bound), tables) \/ (tables = <<>> /\ refs' = Released(refs, st.bound)),
             st.alive, st'.alive = st.alive, st'.bound = tables, st'.registry = st.registry, st'.gen \in Nat,
             st' = [alive |-> st'.alive, pattern |-> st'.pattern, bound |-> st'.bound, gen |-> st'.gen,
                    registry |-> st'.registry, synced |-> st'.synced, short |-> st'.short]
      PROVE RefsInv'
  <2>1. refs' = Retained(Released(refs, st.bound), tables)
    <3>1. CASE tables = <<>> /\ refs' = Released(refs, st.bound)
      <4>1. Released(refs, st.bound) \in [Tables -> Int]
        BY <1>0, ReleasedCount
      <4>2. \A r \in [Tables -> Int] : Retained(r, <<>>) = r
        BY EmptyOccurs DEF Retained
      <4> QED BY <3>1, <4>1, <4>2
    <3> QED BY <1>6, <3>1
  <2>5. refs' \in [Tables -> Int]
    BY <1>0, <2>1, ExchangedCount
  <2>2. ApiTypes'
    BY <1>0, <1>6, <2>5 DEF ApiTypes
  <2>3. ASSUME NEW t \in Tables PROVE refs'[t] = (refs[t] - Occurrences(st.bound, t)) + Occurrences(tables, t)
    BY <1>0, <2>1, <2>3, ExchangedCount
  <2>4. ASSUME NEW t \in Tables
        PROVE refs'[t] - refs[t] =
                ((IF t \in mine' THEN 1 ELSE 0) - (IF t \in mine THEN 1 ELSE 0))
                + (Occurrences(pat'.bound, t) - Occurrences(pat.bound, t))
                + (Occurrences(st'.bound, t) - Occurrences(st.bound, t))
                + (Occurrences(st'.registry, t) - Occurrences(st.registry, t))
    <3>1. Occurrences(pat.bound, t) \in Nat /\ Occurrences(tables, t) \in Nat /\ refs[t] \in Int
          /\ Occurrences(st.bound, t) \in Nat /\ Occurrences(st.registry, t) \in Nat
      BY <1>0, <1>o, <1>r, <2>4
    <3> QED BY <1>6, <2>3, <2>4, <3>1
  <2> QED BY <2>2, <2>4, CountsMove
<1>7. ASSUME NEW tables \in Seq(Tables), SetTables(tables) PROVE RefsInv'
  <2>1. st' = [st EXCEPT !.bound = tables, !.gen = @ + 1]
    BY <1>7 DEF SetTables
  <2>2. /\ st'.alive = st.alive /\ st'.bound = tables /\ st'.registry = st.registry /\ st'.gen \in Nat
        /\ st' = [alive |-> st'.alive, pattern |-> st'.pattern, bound |-> st'.bound, gen |-> st'.gen,
                  registry |-> st'.registry, synced |-> st'.synced, short |-> st'.short]
    <3>1. st' = [alive |-> st.alive, pattern |-> st.pattern, bound |-> tables, gen |-> st.gen + 1,
                 registry |-> st.registry, synced |-> st.synced, short |-> st.short]
      BY <1>0, <2>1
    <3> QED BY <1>0, <3>1
  <2> QED BY <1>6, <1>7, <2>2 DEF SetTables
<1>8. ASSUME SetTablesFails PROVE RefsInv'
  <2>1. /\ st'.alive = st.alive /\ st'.bound = <<>> /\ st'.registry = st.registry /\ st'.gen \in Nat
        /\ st' = [alive |-> st'.alive, pattern |-> st'.pattern, bound |-> st'.bound, gen |-> st'.gen,
                  registry |-> st'.registry, synced |-> st'.synced, short |-> st'.short]
    BY <1>0, <1>8 DEF SetTablesFails
  <2> QED BY <1>6, <1>8, <1>e, <2>1 DEF SetTablesFails
<1>9. ASSUME NEW t \in Tables, ReleaseTable(t) PROVE RefsInv'
  <2>1. refs' = [refs EXCEPT ![t] = @ - 1] /\ mine' = mine \ {t} /\ t \in mine /\ pat' = pat /\ st' = st
    BY <1>9 DEF ReleaseTable
  <2>2. ApiTypes'
    BY <1>0, <2>1 DEF ApiTypes
  <2>3. ASSUME NEW u \in Tables
        PROVE refs'[u] - refs[u] =
                ((IF u \in mine' THEN 1 ELSE 0) - (IF u \in mine THEN 1 ELSE 0))
                + (Occurrences(pat'.bound, u) - Occurrences(pat.bound, u))
                + (Occurrences(st'.bound, u) - Occurrences(st.bound, u))
                + (Occurrences(st'.registry, u) - Occurrences(st.registry, u))
    <3>1. Occurrences(pat.bound, u) \in Nat /\ refs[u] \in Int /\ refs[t] \in Int
          /\ Occurrences(st.bound, u) \in Nat /\ Occurrences(st.registry, u) \in Nat
      BY <1>0, <1>9, <1>o, <1>r, <2>3
    <3>2. refs'[u] = IF u = t THEN refs[u] - 1 ELSE refs[u]
      BY <1>0, <2>1, <2>3
    <3> QED BY <2>1, <3>1, <3>2
  <2> QED BY <2>2, <2>3, CountsMove
<1>10. ASSUME StateDestroy PROVE RefsInv'
  <2>1. st' = NoState /\ mine' = mine /\ pat' = pat
        /\ refs' = Released(Released(refs, st.registry), st.bound)
    BY <1>10 DEF StateDestroy
  <2>2. refs' \in [Tables -> Int]
    BY <1>0, <2>1, ExchangedCount
  <2>3. ApiTypes'
    BY <1>0, <1>e, <2>1, <2>2 DEF ApiTypes, NoState
  <2>4. ASSUME NEW t \in Tables
        PROVE refs'[t] - refs[t] =
                ((IF t \in mine' THEN 1 ELSE 0) - (IF t \in mine THEN 1 ELSE 0))
                + (Occurrences(pat'.bound, t) - Occurrences(pat.bound, t))
                + (Occurrences(st'.bound, t) - Occurrences(st.bound, t))
                + (Occurrences(st'.registry, t) - Occurrences(st.registry, t))
    <3>1. Occurrences(pat.bound, t) \in Nat /\ refs[t] \in Int
          /\ Occurrences(st.bound, t) \in Nat /\ Occurrences(st.registry, t) \in Nat
      BY <1>0, <1>o, <1>r, <2>4
    <3>2. refs'[t] = (refs[t] - Occurrences(st.registry, t)) - Occurrences(st.bound, t)
      BY <1>0, <2>1, <2>4, ExchangedCount
    <3>3. Occurrences(st'.bound, t) = 0 /\ Occurrences(st'.registry, t) = 0
      BY <2>1, EmptyOccurs DEF NoState
    <3> QED BY <2>1, <3>1, <3>2, <3>3
  <2> QED BY <2>3, <2>4, CountsMove
<1>11. ASSUME NEW s \in SyncTables, st' = s, mine' = mine, pat' = pat, st.alive,
              refs' = IF Synced(Binding) THEN refs ELSE Retained(Released(refs, st.registry), s.registry)
       PROVE RefsInv'
  <2>1. /\ s = [alive |-> s.alive, pattern |-> s.pattern, bound |-> s.bound, gen |-> s.gen,
                registry |-> s.registry, synced |-> s.synced, short |-> s.short]
        /\ s.bound = st.bound /\ s.gen = st.gen /\ s.registry \in Seq(Tables) /\ s.alive = st.alive
        /\ Synced(Binding) => s = st
    BY <1>0, SyncResult
  <2>2. refs' \in [Tables -> Int]
    BY <1>0, <1>11, <2>1, ExchangedCount
  <2>3. ApiTypes'
    BY <1>0, <1>11, <2>1, <2>2 DEF ApiTypes
  <2>4. ASSUME NEW t \in Tables
        PROVE refs'[t] - refs[t] =
                ((IF t \in mine' THEN 1 ELSE 0) - (IF t \in mine THEN 1 ELSE 0))
                + (Occurrences(pat'.bound, t) - Occurrences(pat.bound, t))
                + (Occurrences(st'.bound, t) - Occurrences(st.bound, t))
                + (Occurrences(st'.registry, t) - Occurrences(st.registry, t))
    <3>1. Occurrences(pat.bound, t) \in Nat /\ refs[t] \in Int /\ Occurrences(s.registry, t) \in Nat
          /\ Occurrences(st.bound, t) \in Nat /\ Occurrences(st.registry, t) \in Nat
      BY <1>0, <1>o, <1>r, <2>1, <2>4
    <3>2. refs'[t] = (refs[t] - Occurrences(st.registry, t)) + Occurrences(s.registry, t)
      <4>1. CASE Synced(Binding)
        BY <1>11, <2>1, <3>1, <4>1
      <4>2. CASE ~Synced(Binding)
        BY <1>0, <1>11, <2>1, <2>4, <4>2, ExchangedCount
      <4> QED BY <4>1, <4>2
    <3> QED BY <1>11, <2>1, <3>1, <3>2
  <2> QED BY <2>3, <2>4, CountsMove
<1>12. ASSUME UNCHANGED <<refs, mine, pat>>, st'.bound = st.bound, st'.registry = st.registry, st'.gen \in Nat,
              st'.alive \/ st' = st,
              st' = [alive |-> st'.alive, pattern |-> st'.pattern, bound |-> st'.bound, gen |-> st'.gen,
                     registry |-> st'.registry, synced |-> st'.synced, short |-> st'.short]
       PROVE RefsInv'
  BY <1>12 DEF ApiTypes, RefsExact, RefsInv
<1>13. ASSUME NEW subject \in Subjects, NEW o \in Outcomes, Search(subject, o) PROVE RefsInv'
  <2>1. CASE SearchEx(subject, o)
    BY <1>11, <2>1 DEF SearchEx
  <2>2. CASE SearchExAnchored(subject, o)
    BY <1>11, <2>2 DEF SearchExAnchored
  <2>3. CASE PatternMatch(subject, o) \/ PatternSearch(subject, o) \/ SearchReuse(subject, o)
    BY <1>0, <1>12, <2>3 DEF PatternMatch, PatternSearch, SearchReuse, OwnVm
  <2> QED BY <1>13, <2>1, <2>2, <2>3 DEF Search
<1>14. ASSUME NEW on \in BOOLEAN, SetPattern(on) PROVE RefsInv'
  <2>1. st.alive /\ st' = [st EXCEPT !.pattern = on]
    BY <1>14 DEF SetPattern
  <2>2. /\ st'.alive = st.alive /\ st'.bound = st.bound /\ st'.registry = st.registry /\ st'.gen = st.gen
        /\ st' = [alive |-> st'.alive, pattern |-> st'.pattern, bound |-> st'.bound, gen |-> st'.gen,
                  registry |-> st'.registry, synced |-> st'.synced, short |-> st'.short]
    BY <1>0, <2>1
  <2> QED BY <1>0, <1>12, <1>14, <2>1, <2>2 DEF SetPattern
<1>15. ASSUME StateCreate PROVE RefsInv'
  BY <1>0, <1>12, <1>15 DEF StateCreate, NoState
<1>16. ASSUME NEW i \in 1 .. API_MAX_VARS, GetVariable(i) PROVE RefsInv'
  BY <1>0, <1>12, <1>16 DEF GetVariable
<1>17. CASE UNCHANGED vars
  BY <1>0, <1>12, <1>17 DEF vars
<1> QED
  BY <1>2, <1>3, <1>4, <1>5, <1>7, <1>8, <1>9, <1>10, <1>13, <1>14, <1>15, <1>16, <1>17, <1>e, ListTables DEF Next

\* However the client orders binding, searching, releasing and freeing, and
\* whatever allocation fails, every table's reference count is the number of
\* its holders.
THEOREM CountsStayExact == Spec => []RefsExact
<1>1. RefsInv => RefsExact
  BY DEF RefsInv
<1> QED BY <1>1, RefsInit, RefsStep, PTL DEF Spec

(***************************************************************************)
(* Names.  The registry's label says which binding it mirrors, unless that *)
(* binding has moved on since; a generation is never used twice for        *)
(* different tables.                                                       *)
(***************************************************************************)
Mirrors(tables) == st.registry = tables \/ (st.short /\ st.registry = <<>>)

RegistryFresh ==
    st.synced # NULL =>
        /\ st.synced.gen \in Nat
        /\ st.synced.src = "state" =>
             st.synced.gen <= st.gen /\ (st.synced.gen = st.gen /\ st.bound # <<>> => Mirrors(st.bound))
        /\ st.synced.src = "pattern" =>
             st.synced.gen <= pat.gen /\ (st.synced.gen = pat.gen /\ pat.bound # <<>> => Mirrors(pat.bound))
        /\ st.synced.src = "none" => st.registry = <<>>

\* The ids in the bytecode resolve in the pattern's binding.
IdsResolve == \A n \in Names : named[n] = GetTable(pat.bound, pat.ids[n])

NamesInv == ApiTypes /\ RegistryFresh /\ IdsResolve /\ NamesResolve

LEMMA NothingBound == \A id : GetTable(<<>>, id) = NULL
BY DEF GetTable

LEMMA NamesInit == Init => NamesInv
<1> SUFFICES ASSUME Init PROVE NamesInv
  OBVIOUS
<1>1. ApiTypes
  BY RefsInit DEF RefsInv
<1>2. RegistryFresh
  BY DEF Init, RegistryFresh, NoState
<1>3. IdsResolve
  BY NothingBound DEF Init, IdsResolve
<1>4. NamesResolve
  BY DEF Init, NamesResolve, NoSearch
<1> QED BY <1>1, <1>2, <1>3, <1>4 DEF NamesInv

\* The registry a search uses mirrors the binding it is meant to use.
LEMMA SearchRegistry ==
    ASSUME ApiTypes, RegistryFresh, NEW s \in SyncTables
    PROVE  /\ s.registry = Binding.tables \/ (s.short /\ s.registry = <<>>)
           /\ st' = s /\ pat' = pat => RegistryFresh'
<1>0. /\ s.bound = st.bound /\ s.gen = st.gen
      /\ Synced(Binding) => s = st
      /\ ~Synced(Binding) => /\ s.registry \in {Binding.tables, <<>>}
                             /\ s.short = (s.registry # Binding.tables)
                             /\ s.synced = [src |-> Binding.src, gen |-> Binding.gen]
  BY SyncResult
<1>t. st.gen \in Nat /\ pat.gen \in Nat
  BY DEF ApiTypes
<1>1. CASE Synced(Binding)
  <2>1. st.synced # NULL /\ st.synced.src = Binding.src /\ st.synced.gen = Binding.gen
    BY <1>1 DEF Synced
  <2>2. CASE st.bound # <<>>
    BY <1>0, <1>1, <2>1, <2>2 DEF Binding, RegistryFresh, Mirrors
  <2>3. CASE st.bound = <<>> /\ st.pattern /\ pat.bound # <<>>
    BY <1>0, <1>1, <2>1, <2>3 DEF Binding, RegistryFresh, Mirrors
  <2>4. CASE st.bound = <<>> /\ ~(st.pattern /\ pat.bound # <<>>)
    BY <1>0, <1>1, <2>1, <2>4 DEF Binding, RegistryFresh, Mirrors
  <2>5. st' = s /\ pat' = pat => RegistryFresh'
    BY <1>0, <1>1 DEF RegistryFresh, Mirrors
  <2> QED BY <2>2, <2>3, <2>4, <2>5
<1>2. CASE ~Synced(Binding)
  <2>1. s.registry = Binding.tables \/ (s.short /\ s.registry = <<>>)
    BY <1>0, <1>2
  <2>2. ASSUME st' = s, pat' = pat PROVE RegistryFresh'
    <3>1. s.synced.src = Binding.src /\ s.synced.gen = Binding.gen
      BY <1>0, <1>2
    <3>2. CASE st.bound # <<>>
      BY <1>0, <1>t, <2>1, <2>2, <3>1, <3>2 DEF Binding, RegistryFresh, Mirrors
    <3>3. CASE st.bound = <<>> /\ st.pattern /\ pat.bound # <<>>
      BY <1>0, <1>t, <2>1, <2>2, <3>1, <3>3 DEF Binding, RegistryFresh, Mirrors
    <3>4. CASE st.bound = <<>> /\ ~(st.pattern /\ pat.bound # <<>>)
      BY <1>0, <1>t, <2>1, <2>2, <3>1, <3>4 DEF Binding, RegistryFresh, Mirrors
    <3> QED BY <3>2, <3>3, <3>4
  <2> QED BY <2>1, <2>2
<1> QED BY <1>1, <1>2

\* What a search with a state sees of each name.
LEMMA StateSearchResolves ==
    ASSUME NamesInv, NEW s \in SyncTables, NEW subject, NEW o, NEW anchored,
           Searched(subject, o, anchored, s.registry, Wanted, s.short)
    PROVE  NamesResolve'
<1>1. s.registry = Binding.tables \/ (s.short /\ s.registry = <<>>)
  BY SearchRegistry DEF NamesInv
<1>2. last'.seen = Resolved(s.registry) /\ last'.want = Wanted /\ last'.short = s.short
  BY DEF Searched
<1>3. ASSUME NEW n \in Names PROVE Wanted[n] = GetTable(Binding.tables, pat.ids[n])
  <2>1. CASE st.bound # <<>>
    BY <1>3, <2>1 DEF Wanted, Resolved, Binding
  <2>2. CASE st.bound = <<>> /\ st.pattern /\ pat.bound # <<>>
    BY <1>3, <2>2 DEF Wanted, Binding, NamesInv, IdsResolve
  <2>3. CASE st.bound = <<>> /\ st.pattern /\ pat.bound = <<>>
    BY <1>3, <2>3 DEF Wanted, Binding, NamesInv, IdsResolve
  <2>4. CASE st.bound = <<>> /\ ~st.pattern
    BY <1>3, <2>4, NothingBound DEF Wanted, Binding
  <2> QED BY <2>1, <2>2, <2>3, <2>4
<1>4. ASSUME NEW n \in Names
      PROVE last'.seen[n] = last'.want[n] \/ (last'.short /\ last'.seen[n] = NULL)
  BY <1>1, <1>2, <1>3, <1>4, NothingBound DEF Resolved
<1> QED BY <1>4 DEF NamesResolve

LEMMA NamesStep == RefsInv /\ NamesInv /\ [Next]_vars => NamesInv'
<1> SUFFICES ASSUME RefsInv, NamesInv, [Next]_vars PROVE NamesInv'
  OBVIOUS
<1>0. /\ pat = [alive |-> pat.alive, bound |-> pat.bound, gen |-> pat.gen, ids |-> pat.ids]
      /\ pat.gen \in Nat /\ st.gen \in Nat
      /\ st = [alive |-> st.alive, pattern |-> st.pattern, bound |-> st.bound, gen |-> st.gen,
               registry |-> st.registry, synced |-> st.synced, short |-> st.short]
      /\ ApiTypes /\ RegistryFresh /\ IdsResolve /\ NamesResolve
  BY DEF ApiTypes, NamesInv
<1>t. ApiTypes'
  BY RefsStep DEF RefsInv
<1>1. ASSUME UNCHANGED last PROVE NamesResolve'
  BY <1>0, <1>1 DEF NamesResolve
\* A new generation of the pattern's binding.
<1>2. ASSUME st' = st, pat'.gen = pat.gen + 1 PROVE RegistryFresh'
  BY <1>0, <1>2 DEF RegistryFresh, Mirrors
<1>3. ASSUME pat'.bound = <<>>, \A n \in Names : named'[n] = NULL PROVE IdsResolve'
  BY <1>3, NothingBound DEF IdsResolve
<1>4. ASSUME NEW list \in Lists, BindTables(list) PROVE NamesInv'
  <2>1. pat' = [alive |-> pat.alive, bound |-> TablesOf(list), gen |-> pat.gen + 1, ids |-> BindBytecode(list)]
    <3>1. pat' = [pat EXCEPT !.gen = @ + 1, !.bound = TablesOf(list), !.ids = BindBytecode(list)]
      BY <1>4 DEF BindTables
    <3> QED BY <1>0, <3>1
  <2>2. IdsResolve'
    <3>1. \A n \in Names : named'[n] = GetTable(TablesOf(list), IdIn(list, n))
      BY <1>4 DEF BindTables
    <3>2. pat'.bound = TablesOf(list) /\ \A n \in Names : pat'.ids[n] = IdIn(list, n)
      BY <2>1 DEF BindBytecode
    <3> QED BY <3>1, <3>2 DEF IdsResolve
  <2>3. st' = st /\ UNCHANGED last
    BY <1>4 DEF BindTables
  <2> QED BY <1>t, <1>1, <1>2, <2>1, <2>2, <2>3 DEF NamesInv
<1>5. ASSUME ClearTables PROVE NamesInv'
  <2>1. pat' = [alive |-> pat.alive, bound |-> <<>>, gen |-> pat.gen + 1, ids |-> pat.ids]
    BY <1>0, <1>5 DEF ClearTables
  <2>2. st' = st /\ UNCHANGED last /\ \A n \in Names : named'[n] = NULL
    BY <1>5 DEF ClearTables
  <2> QED BY <1>t, <1>1, <1>2, <1>3, <2>1, <2>2 DEF NamesInv
<1>6. ASSUME NEW list \in Lists, BindTablesFails(list) PROVE NamesInv'
  <2>1. PICK patched \in {{}, Names} :
          pat' = [pat EXCEPT !.gen = @ + 1, !.bound = <<>>,
                             !.ids = [n \in Names |-> IF n \in patched THEN IdIn(list, n) ELSE @[n]]]
    BY <1>6 DEF BindTablesFails
  <2>2. pat'.bound = <<>> /\ pat'.gen = pat.gen + 1
    <3> DEFINE ids == [n \in Names |-> IF n \in patched THEN IdIn(list, n) ELSE pat.ids[n]]
    <3>1. pat' = [pat EXCEPT !.gen = pat.gen + 1, !.bound = <<>>, !.ids = ids]
      BY <2>1
    <3> HIDE DEF ids
    <3>2. pat' = [alive |-> pat.alive, bound |-> <<>>, gen |-> pat.gen + 1, ids |-> ids]
      BY <1>0, <3>1
    <3> QED BY <3>2
  <2>3. st' = st /\ UNCHANGED last /\ \A n \in Names : named'[n] = NULL
    BY <1>6 DEF BindTablesFails
  <2> QED BY <1>t, <1>1, <1>2, <1>3, <2>2, <2>3 DEF NamesInv
<1>7. ASSUME PatternFree PROVE NamesInv'
  <2>1. pat' = [alive |-> FALSE, bound |-> <<>>, gen |-> pat.gen, ids |-> pat.ids]
    BY <1>0, <1>7 DEF PatternFree
  <2>2. st' = st /\ UNCHANGED last /\ \A n \in Names : named'[n] = NULL
    BY <1>7 DEF PatternFree
  <2>3. RegistryFresh'
    BY <1>0, <2>1, <2>2 DEF RegistryFresh, Mirrors
  <2> QED BY <1>t, <1>1, <1>3, <2>1, <2>2, <2>3 DEF NamesInv
<1>8. ASSUME UNCHANGED <<pat, named>> PROVE IdsResolve'
  BY <1>0, <1>8 DEF IdsResolve
<1>9. ASSUME NEW tables \in Seq(Tables), SetTables(tables) PROVE NamesInv'
  <2>1. st' = [alive |-> st.alive, pattern |-> st.pattern, bound |-> tables, gen |-> st.gen + 1,
               registry |-> st.registry, synced |-> st.synced, short |-> st.short]
    <3>1. st' = [st EXCEPT !.bound = tables, !.gen = @ + 1]
      BY <1>9 DEF SetTables
    <3> QED BY <1>0, <3>1
  <2>2. UNCHANGED <<pat, named, last>>
    BY <1>9 DEF SetTables
  <2>3. RegistryFresh'
    BY <1>0, <2>1, <2>2 DEF RegistryFresh, Mirrors
  <2> QED BY <1>t, <1>1, <1>8, <2>2, <2>3 DEF NamesInv
<1>10. ASSUME SetTablesFails PROVE NamesInv'
  <2>1. st' = [alive |-> st.alive, pattern |-> st.pattern, bound |-> <<>>, gen |-> st.gen,
               registry |-> st.registry, synced |-> st.synced, short |-> st.short]
    BY <1>0, <1>10 DEF SetTablesFails
  <2>2. UNCHANGED <<pat, named, last>>
    BY <1>10 DEF SetTablesFails
  <2>3. RegistryFresh'
    BY <1>0, <2>1, <2>2 DEF RegistryFresh, Mirrors
  <2> QED BY <1>t, <1>1, <1>8, <2>2, <2>3 DEF NamesInv
<1>11. ASSUME UNCHANGED <<pat, named, last>>, st'.synced = NULL PROVE NamesInv'
  BY <1>t, <1>1, <1>8, <1>11 DEF NamesInv, RegistryFresh
<1>12. ASSUME UNCHANGED <<pat, named, last>>, st'.bound = st.bound, st'.gen = st.gen,
              st'.registry = st.registry, st'.synced = st.synced, st'.short = st.short
       PROVE NamesInv'
  <2>1. RegistryFresh'
    BY <1>0, <1>12 DEF RegistryFresh, Mirrors
  <2> QED BY <1>t, <1>1, <1>8, <1>12, <2>1 DEF NamesInv
<1>13. ASSUME StateCreate \/ StateDestroy PROVE NamesInv'
  BY <1>11, <1>13 DEF StateCreate, StateDestroy, NoState
<1>14. ASSUME NEW on \in BOOLEAN, SetPattern(on) PROVE NamesInv'
  <2>1. st' = [alive |-> st.alive, pattern |-> on, bound |-> st.bound, gen |-> st.gen,
               registry |-> st.registry, synced |-> st.synced, short |-> st.short]
    BY <1>0, <1>14 DEF SetPattern
  <2> QED BY <1>12, <1>14, <2>1 DEF SetPattern
<1>15. ASSUME NEW subject \in Subjects, NEW o \in Outcomes, Search(subject, o) PROVE NamesInv'
  <2>1. ASSUME NEW s \in SyncTables, st' = s, UNCHANGED <<pat, named>>, NEW anchored,
               Searched(subject, o, anchored, s.registry, Wanted, s.short)
        PROVE NamesInv'
    <3>1. NamesResolve'
      BY <2>1, StateSearchResolves
    <3>2. RegistryFresh'
      BY <1>0, <2>1, SearchRegistry
    <3> QED BY <1>t, <1>8, <2>1, <3>1, <3>2 DEF NamesInv
  <2>2. CASE SearchEx(subject, o)
    BY <2>1, <2>2 DEF SearchEx
  <2>3. CASE SearchExAnchored(subject, o)
    BY <2>1, <2>3 DEF SearchExAnchored
  <2>4. ASSUME NEW anchored, OwnVm(subject, o, anchored) PROVE NamesInv'
    <3>1. PICK r \in Registries(pat.bound) : Searched(subject, o, anchored, r, named, r # pat.bound)
      BY <2>4 DEF OwnVm
    <3>2. last'.seen = Resolved(r) /\ last'.want = named /\ last'.short = (r # pat.bound)
      BY <3>1 DEF Searched
    <3>3. ASSUME NEW n \in Names
          PROVE last'.seen[n] = last'.want[n] \/ (last'.short /\ last'.seen[n] = NULL)
      <4>1. named[n] = GetTable(pat.bound, pat.ids[n]) /\ Resolved(r)[n] = GetTable(r, pat.ids[n])
        BY <1>0, <3>3 DEF IdsResolve, Resolved
      <4>2. CASE r = pat.bound
        BY <3>2, <4>1, <4>2
      <4>3. CASE r # pat.bound
        BY <3>1, <3>2, <4>1, <4>3, NothingBound DEF Registries
      <4> QED BY <4>2, <4>3
    <3>4. NamesResolve'
      BY <3>3 DEF NamesResolve
    <3>5. RegistryFresh'
      BY <1>0, <2>4 DEF OwnVm, RegistryFresh, Mirrors
    <3> QED BY <1>t, <1>8, <2>4, <3>4, <3>5 DEF NamesInv, OwnVm
  <2>5. CASE PatternMatch(subject, o) \/ PatternSearch(subject, o) \/ SearchReuse(subject, o)
    BY <2>4, <2>5 DEF PatternMatch, PatternSearch, SearchReuse
  <2> QED BY <1>15, <2>2, <2>3, <2>5 DEF Search
<1>16. ASSUME NEW t \in Tables, ReleaseTable(t) PROVE NamesInv'
  BY <1>12, <1>16 DEF ReleaseTable
<1>17. ASSUME NEW i \in 1 .. API_MAX_VARS, GetVariable(i) PROVE NamesInv'
  BY <1>12, <1>17 DEF GetVariable
<1>18. CASE UNCHANGED vars
  BY <1>12, <1>18 DEF vars
<1>e. <<>> \in Seq(Tables)
  OBVIOUS
<1> QED
  BY <1>4, <1>5, <1>6, <1>7, <1>9, <1>10, <1>13, <1>14, <1>15, <1>16, <1>17, <1>18, <1>e, ListTables DEF Next

\* Every search resolves every table name to the table bound to it last,
\* although the registry of the VM is only rebuilt when the source of the
\* tables or its generation has changed.
THEOREM NamesAlwaysResolve == Spec => []NamesResolve
<1>1. NamesInv => NamesResolve
  BY DEF NamesInv
<1>2. Init => RefsInv /\ NamesInv
  BY RefsInit, NamesInit
<1>3. (RefsInv /\ NamesInv) /\ [Next]_vars => (RefsInv /\ NamesInv)'
  BY RefsStep, NamesStep
<1> QED BY <1>1, <1>2, <1>3, PTL DEF Spec

(***************************************************************************)
(* Captures.                                                               *)
(***************************************************************************)
\* The match object has its fields, and there is no state without VM.
MatchShape ==
    /\ match = [success |-> match.success, var_count |-> match.var_count, subject |-> match.subject,
                base |-> match.base, off |-> match.off, len |-> match.len, value |-> match.value]
    /\ DOMAIN match.off = 1 .. API_MAX_VARS
    /\ DOMAIN match.len = 1 .. API_MAX_VARS
    /\ DOMAIN match.value = 1 .. API_MAX_VARS
    /\ match.value = [i \in 1 .. API_MAX_VARS |-> match.value[i]]

CapturesInv == MatchShape /\ Len(last.regs) \in Nat /\ CaptureRight

\* A match object without values.
Blank(m) ==
    /\ m = [success |-> m.success, var_count |-> m.var_count, subject |-> m.subject,
            base |-> m.base, off |-> m.off, len |-> m.len, value |-> m.value]
    /\ DOMAIN m.off = 1 .. API_MAX_VARS /\ DOMAIN m.len = 1 .. API_MAX_VARS
    /\ m.value = [i \in 1 .. API_MAX_VARS |-> NULL]

\* Storing into an object without values: each register that is kept reads
\* as its bytes, relative to the base.
LEMMA StoredRead ==
    ASSUME NEW m, NEW subject \in Subjects, NEW base, NEW o,
           Blank(m),
           match' = StoreCaptures(m, subject, base, o)
    PROVE  /\ MatchShape'
           /\ match'.success = m.success /\ match'.var_count = m.var_count
           /\ \A i \in Stored(o, SUBJECT_LEN - base) :
                i \in 1 .. API_MAX_VARS =>
                    ValueOf(i)' = [subject |-> subject, from |-> base + o.regs[i][1],
                                   len |-> o.regs[i][2] - o.regs[i][1]]
<1> DEFINE kept == Stored(o, SUBJECT_LEN - base)
           sub  == IF kept = {} THEN m.subject ELSE subject
           bas  == IF kept = {} THEN m.base ELSE base
           off  == [i \in 1 .. API_MAX_VARS |-> IF i \in kept THEN o.regs[i][1] ELSE m.off[i]]
           len  == [i \in 1 .. API_MAX_VARS |-> IF i \in kept THEN o.regs[i][2] - o.regs[i][1] ELSE m.len[i]]
           val  == [i \in 1 .. API_MAX_VARS |-> NULL]
<1>0. DOMAIN m.value = 1 .. API_MAX_VARS /\ DOMAIN m.off = 1 .. API_MAX_VARS /\ DOMAIN m.len = 1 .. API_MAX_VARS
  BY DEF Blank
<1>1. [i \in DOMAIN m.value |-> IF i \in kept THEN NULL ELSE m.value[i]] = val
  BY DEF Blank
<1>2. match' = [m EXCEPT !.subject = sub, !.base = bas, !.off = off, !.len = len, !.value = val]
  BY <1>0, <1>1 DEF StoreCaptures
<1>3. DOMAIN off = 1 .. API_MAX_VARS /\ DOMAIN len = 1 .. API_MAX_VARS /\ DOMAIN val = 1 .. API_MAX_VARS
      /\ val = [i \in 1 .. API_MAX_VARS |-> val[i]]
  OBVIOUS
<1>4. /\ \A i \in 1 .. API_MAX_VARS : val[i] = NULL
      /\ \A i \in kept : i \in 1 .. API_MAX_VARS =>
             off[i] = o.regs[i][1] /\ len[i] = o.regs[i][2] - o.regs[i][1] /\ sub = subject /\ bas = base
  OBVIOUS
<1> HIDE DEF kept, sub, bas, off, len, val
<1>5. match' = [success |-> m.success, var_count |-> m.var_count, subject |-> sub,
                base |-> bas, off |-> off, len |-> len, value |-> val]
  BY <1>2 DEF Blank
<1>6. MatchShape'
  BY <1>3, <1>5 DEF MatchShape
<1>7. ASSUME NEW i \in kept, i \in 1 .. API_MAX_VARS
      PROVE ValueOf(i)' = [subject |-> subject, from |-> base + o.regs[i][1],
                           len |-> o.regs[i][2] - o.regs[i][1]]
  <2>1. /\ match'.value[i] = NULL /\ match'.subject = subject /\ match'.base = base
        /\ match'.off[i] = o.regs[i][1] /\ match'.len[i] = o.regs[i][2] - o.regs[i][1]
    BY <1>4, <1>5, <1>7
  <2>2. subject # NULL
    BY ApiAssumption
  <2> QED BY <2>1, <2>2 DEF ValueOf
<1> QED BY <1>5, <1>6, <1>7 DEF kept

LEMMA EmptyMatch == Blank(NoMatch) /\ NoMatch.success = FALSE
BY DEF NoMatch, Blank

\* The verdict and the number of variables are entered.
LEMMA EnteredBlank ==
    ASSUME NEW m, Blank(m), NEW o
    PROVE  Blank(Entered(m, o)) /\ Entered(m, o).success = o.ok /\ Entered(m, o).var_count = VarCount(o)
<1> DEFINE n == Entered(m, o)
<1>0. n = [m EXCEPT !.success = o.ok, !.var_count = VarCount(o)]
  BY DEF Entered
<1> HIDE DEF n
<1>1. n = [success |-> o.ok, var_count |-> VarCount(o), subject |-> m.subject, base |-> m.base,
           off |-> m.off, len |-> m.len, value |-> m.value]
  BY <1>0 DEF Blank
<1>2. n.success = o.ok /\ n.var_count = VarCount(o) /\ n.off = m.off /\ n.len = m.len /\ n.value = m.value
      /\ n.subject = m.subject /\ n.base = m.base
  BY <1>1
<1>3. Blank(n)
  BY <1>1, <1>2 DEF Blank
<1> QED BY <1>2, <1>3 DEF n

\* The object a search with a state stores into.
LEMMA Cleared == MatchShape => Blank(ClearValues(match))
<1> SUFFICES ASSUME MatchShape PROVE Blank(ClearValues(match))
  OBVIOUS
<1> DEFINE val == [i \in 1 .. API_MAX_VARS |-> NULL]
           c   == ClearValues(match)
<1>1. c = [match EXCEPT !.success = FALSE, !.var_count = 0, !.value = val]
  BY DEF ClearValues
<1> HIDE DEF val, c
<1>2. c = [success |-> FALSE, var_count |-> 0, subject |-> match.subject, base |-> match.base,
           off |-> match.off, len |-> match.len, value |-> val]
  BY <1>1 DEF MatchShape
<1>3. /\ c.success = FALSE /\ c.var_count = 0 /\ c.off = match.off /\ c.len = match.len /\ c.value = val
      /\ c.subject = match.subject /\ c.base = match.base
  BY <1>2
<1>4. DOMAIN c.off = 1 .. API_MAX_VARS /\ DOMAIN c.len = 1 .. API_MAX_VARS
  BY <1>3 DEF MatchShape
<1>5. c = [success |-> c.success, var_count |-> c.var_count, subject |-> c.subject,
           base |-> c.base, off |-> c.off, len |-> c.len, value |-> c.value]
  BY <1>2, <1>3
<1>6. Blank(c)
  BY <1>3, <1>4, <1>5 DEF Blank, val
<1> QED BY <1>6 DEF c

\* Registers of an outcome fit the match object.
LEMMA CountFits == \A o \in Outcomes : \A i \in 1 .. VarCount(o) : i \in 1 .. API_MAX_VARS
BY ApiAssumption DEF VarCount

\* A search that stores the registers of o relative to base, where base is
\* the start of the match unless the search is anchored and has a state.
LEMMA SearchCaptures ==
    ASSUME NEW n, NEW subject \in Subjects, NEW o \in Outcomes, NEW base, NEW anchored,
           Blank(n),
           n.success = o.ok, n.var_count = VarCount(o),
           match' = StoreCaptures(n, subject, base, o) \/ (~o.ok /\ match' = n),
           last'.subject = subject, last'.start = o.start, last'.anchored = anchored,
           o.ok => last'.regs = o.regs, Len(last'.regs) \in Nat,
           (anchored /\ st'.alive => o.start = 0) => base = o.start
    PROVE  CapturesInv'
<1>1. CASE match' = StoreCaptures(n, subject, base, o)
  <2>1. /\ MatchShape'
        /\ match'.success = n.success /\ match'.var_count = n.var_count
        /\ \A i \in Stored(o, SUBJECT_LEN - base) :
             i \in 1 .. API_MAX_VARS =>
                 ValueOf(i)' = [subject |-> subject, from |-> base + o.regs[i][1],
                                len |-> o.regs[i][2] - o.regs[i][1]]
    BY <1>1, StoredRead
  <2>2. ASSUME match'.success, last'.anchored /\ st'.alive => last'.start = 0,
               NEW i \in 1 .. match'.var_count,
               i \in Stored([regs |-> last'.regs], SUBJECT_LEN - last'.start)
        PROVE ValueOf(i)' = [subject |-> last'.subject, from |-> last'.start + last'.regs[i][1],
                             len |-> last'.regs[i][2] - last'.regs[i][1]]
    <3>1. o.ok /\ last'.regs = o.regs /\ base = o.start /\ last'.start = o.start /\ last'.subject = subject
      BY <2>1, <2>2
    <3>2. i \in Stored(o, SUBJECT_LEN - base)
      BY <2>2, <3>1 DEF Stored, VarCount
    <3>3. i \in 1 .. API_MAX_VARS
      BY <2>1, <2>2, CountFits
    <3> QED BY <2>1, <3>1, <3>2, <3>3
  <2>3. CaptureRight'
    BY <2>2 DEF CaptureRight
  <2> QED BY <2>1, <2>3 DEF CapturesInv
<1>2. CASE ~o.ok /\ match' = n
  <2>1. MatchShape'
    <3>1. DOMAIN n.value = 1 .. API_MAX_VARS /\ n.value = [i \in 1 .. API_MAX_VARS |-> n.value[i]]
      BY DEF Blank
    <3> QED BY <1>2, <3>1 DEF MatchShape, Blank
  <2>2. CaptureRight'
    BY <1>2 DEF CaptureRight
  <2> QED BY <2>1, <2>2 DEF CapturesInv
<1> QED BY <1>1, <1>2

LEMMA CapturesInit == Init => CapturesInv
<1> SUFFICES ASSUME Init PROVE CapturesInv
  OBVIOUS
<1>1. match = NoMatch
  BY DEF Init
<1>2. MatchShape
  BY <1>1 DEF MatchShape, NoMatch
<1>3. CaptureRight
  BY <1>1, EmptyMatch DEF CaptureRight
<1>4. Len(last.regs) \in Nat
  BY DEF Init, NoSearch
<1> QED BY <1>2, <1>3, <1>4 DEF CapturesInv

LEMMA CapturesStep == ApiTypes /\ CapturesInv /\ [Next]_vars => CapturesInv'
<1> SUFFICES ASSUME ApiTypes, CapturesInv, [Next]_vars PROVE CapturesInv'
  OBVIOUS
<1>0. MatchShape /\ CaptureRight /\ Len(last.regs) \in Nat
  BY DEF CapturesInv
<1>1. ASSUME UNCHANGED <<match, last>>, st'.alive = st.alive PROVE CapturesInv'
  BY <1>0, <1>1 DEF CapturesInv, MatchShape, CaptureRight, ValueOf
<1>2. ASSUME match' = NoMatch, UNCHANGED last PROVE CapturesInv'
  <2>1. MatchShape'
    BY <1>2 DEF MatchShape, NoMatch
  <2>2. CaptureRight'
    BY <1>2, EmptyMatch DEF CaptureRight
  <2> QED BY <1>0, <1>2, <2>1, <2>2 DEF CapturesInv
<1>3. ASSUME NEW i \in 1 .. API_MAX_VARS, GetVariable(i) PROVE CapturesInv'
  <2> DEFINE v == ValueOf(i)
  <2>1. match' = [match EXCEPT !.value = [match.value EXCEPT ![i] = v]] /\ UNCHANGED <<last, st>>
    BY <1>3 DEF GetVariable
  <2> DEFINE w == [match.value EXCEPT ![i] = v]
  <2>2. /\ w[i] = v /\ DOMAIN w = 1 .. API_MAX_VARS
        /\ \A j \in 1 .. API_MAX_VARS : j # i => w[j] = match.value[j]
        /\ w = [j \in 1 .. API_MAX_VARS |-> w[j]]
    BY <1>0, <1>3 DEF MatchShape
  <2> HIDE DEF w
  <2>3. match' = [success |-> match.success, var_count |-> match.var_count, subject |-> match.subject,
                  base |-> match.base, off |-> match.off, len |-> match.len, value |-> w]
    BY <1>0, <2>1 DEF MatchShape, w
  <2>4. MatchShape'
    BY <1>0, <2>2, <2>3 DEF MatchShape
  <2>5. ASSUME NEW j \in 1 .. API_MAX_VARS PROVE ValueOf(j)' = ValueOf(j)
    <3>1. CASE j = i
      <4>1. match'.value[j] = ValueOf(j) /\ match'.subject = match.subject /\ match'.base = match.base
            /\ match'.off = match.off /\ match'.len = match.len
        BY <2>2, <2>3, <3>1
      <4> QED BY <4>1 DEF ValueOf
    <3>2. CASE j # i
      <4>1. match'.value[j] = match.value[j] /\ match'.subject = match.subject /\ match'.base = match.base
            /\ match'.off = match.off /\ match'.len = match.len
        BY <2>2, <2>3, <2>5, <3>2
      <4> QED BY <4>1 DEF ValueOf
    <3> QED BY <3>1, <3>2
  <2>6. \A j \in Stored([regs |-> last.regs], SUBJECT_LEN - last.start) : j \in 1 .. API_MAX_VARS
    BY <1>0, ApiAssumption DEF Stored, VarCount
  <2>7. match'.success = match.success /\ match'.var_count = match.var_count
    BY <2>3
  <2>8. CaptureRight'
    <3> SUFFICES ASSUME match'.success, last'.anchored /\ st'.alive => last'.start = 0,
                        NEW j \in 1 .. match'.var_count,
                        j \in Stored([regs |-> last'.regs], SUBJECT_LEN - last'.start)
                 PROVE  ValueOf(j)' = [subject |-> last'.subject, from |-> last'.start + last'.regs[j][1],
                                       len |-> last'.regs[j][2] - last'.regs[j][1]]
      BY DEF CaptureRight
    <3>1. ValueOf(j) = [subject |-> last.subject, from |-> last.start + last.regs[j][1],
                        len |-> last.regs[j][2] - last.regs[j][1]]
      BY <1>0, <2>1, <2>7 DEF CaptureRight
    <3>2. j \in 1 .. API_MAX_VARS
      BY <2>1, <2>6
    <3> QED BY <2>1, <2>5, <3>1, <3>2
  <2> QED BY <1>0, <2>1, <2>4, <2>8 DEF CapturesInv
<1>4. ASSUME NEW subject \in Subjects, NEW o \in Outcomes, NEW n, NEW base, NEW anchored,
             NEW registry, NEW want, NEW short,
             Searched(subject, o, anchored, registry, want, short),
             Blank(n), n.success = o.ok, n.var_count = VarCount(o),
             match' = StoreCaptures(n, subject, base, o) \/ (~o.ok /\ match' = n),
             (anchored /\ st'.alive => o.start = 0) => base = o.start
      PROVE  CapturesInv'
  <2>1. /\ last'.subject = subject /\ last'.start = o.start /\ last'.anchored = anchored
        /\ last'.regs = IF o.ok THEN o.regs ELSE <<>>
    BY <1>4 DEF Searched
  <2>2. Len(last'.regs) \in Nat
    BY <2>1, ApiAssumption
  <2> QED BY <1>4, <2>1, <2>2, SearchCaptures
<1>5. ASSUME NEW subject \in Subjects, NEW o \in Outcomes, SearchEx(subject, o) PROVE CapturesInv'
  <2> DEFINE n == Entered(ClearValues(match), o)
  <2>1. Blank(n) /\ n.success = o.ok /\ n.var_count = VarCount(o)
    <3>1. Blank(ClearValues(match))
      BY <1>0, Cleared
    <3> QED BY <3>1, EnteredBlank
  <2>2. match' = IF o.ok THEN StoreCaptures(n, subject, o.start, o) ELSE n
    BY <1>5 DEF SearchEx, Result
  <2>3. PICK s \in SyncTables : Searched(subject, o, FALSE, s.registry, Wanted, s.short)
    BY <1>5 DEF SearchEx
  <2> HIDE DEF n
  <2> QED BY <1>4, <2>1, <2>2, <2>3
<1>6. ASSUME NEW subject \in Subjects, NEW o \in Outcomes, SearchExAnchored(subject, o) PROVE CapturesInv'
  <2> DEFINE n == Entered(ClearValues(match), o)
  <2>1. Blank(n) /\ n.success = o.ok /\ n.var_count = VarCount(o)
    <3>1. Blank(ClearValues(match))
      BY <1>0, Cleared
    <3> QED BY <3>1, EnteredBlank
  <2>2. PICK s \in SyncTables :
          /\ st' = s /\ match' = StoreCaptures(n, subject, 0, o)
          /\ Searched(subject, o, TRUE, s.registry, Wanted, s.short)
    BY <1>6 DEF SearchExAnchored
  <2>3. st'.alive
    <3>1. s.alive = st.alive
      BY SyncResult
    <3> QED BY <1>6, <2>2, <3>1 DEF SearchExAnchored
  <2> HIDE DEF n
  <2> QED BY <1>4, <2>1, <2>2, <2>3
<1>7. ASSUME NEW subject \in Subjects, NEW o \in Outcomes, NEW anchored, OwnVm(subject, o, anchored),
             match' = Result(NoMatch, subject, o)
      PROVE CapturesInv'
  <2> DEFINE n == Entered(NoMatch, o)
  <2>1. Blank(n) /\ n.success = o.ok /\ n.var_count = VarCount(o)
    <3>1. Blank(NoMatch)
      BY EmptyMatch
    <3> QED BY <3>1, EnteredBlank
  <2>2. match' = IF o.ok THEN StoreCaptures(n, subject, o.start, o) ELSE n
    BY <1>7 DEF Result
  <2>3. PICK r \in Registries(pat.bound) : Searched(subject, o, anchored, r, named, r # pat.bound)
    BY <1>7 DEF OwnVm
  <2> HIDE DEF n
  <2> QED BY <1>4, <2>1, <2>2, <2>3
<1>8. ASSUME NEW subject \in Subjects, NEW o \in Outcomes, Search(subject, o) PROVE CapturesInv'
  <2>1. CASE PatternMatch(subject, o) \/ PatternSearch(subject, o) \/ SearchReuse(subject, o)
    BY <1>7, <2>1 DEF PatternMatch, PatternSearch, SearchReuse, MatchReset
  <2> QED BY <1>5, <1>6, <1>8, <2>1 DEF Search
<1>9. ASSUME StateCreate \/ StateDestroy PROVE CapturesInv'
  BY <1>2, <1>9 DEF StateCreate, StateDestroy
<1>10. ASSUME NEW list \in Lists, BindTables(list) \/ BindTablesFails(list) PROVE CapturesInv'
  BY <1>1, <1>10 DEF BindTables, BindTablesFails
<1>11. ASSUME ClearTables \/ PatternFree PROVE CapturesInv'
  BY <1>1, <1>11 DEF ClearTables, PatternFree
<1>12. ASSUME NEW tables, SetTables(tables) PROVE CapturesInv'
  <2>1. st'.alive = st.alive
    BY <1>12 DEF SetTables, ApiTypes
  <2> QED BY <1>1, <1>12, <2>1 DEF SetTables
<1>13. ASSUME SetTablesFails PROVE CapturesInv'
  <2>1. st'.alive = st.alive
    BY <1>13 DEF SetTablesFails, ApiTypes
  <2> QED BY <1>1, <1>13, <2>1 DEF SetTablesFails
<1>14. ASSUME NEW on \in BOOLEAN, SetPattern(on) PROVE CapturesInv'
  <2>1. st'.alive = st.alive
    BY <1>14 DEF SetPattern, ApiTypes
  <2> QED BY <1>1, <1>14, <2>1 DEF SetPattern
<1>15. ASSUME NEW t \in Tables, ReleaseTable(t) PROVE CapturesInv'
  BY <1>1, <1>15 DEF ReleaseTable
<1>16. CASE UNCHANGED vars
  BY <1>1, <1>16 DEF vars
<1> QED
  BY <1>3, <1>8, <1>9, <1>10, <1>11, <1>12, <1>13, <1>14, <1>15, <1>16 DEF Next

\* Every non-empty capture the client reads is the bytes of the last match,
\* however often the match object was searched into and read from before.
THEOREM CapturesStayRight == Spec => []CaptureRight
<1>1. CapturesInv => CaptureRight
  BY DEF CapturesInv
<1>2. Init => RefsInv /\ CapturesInv
  BY RefsInit, CapturesInit
<1>3. (RefsInv /\ CapturesInv) /\ [Next]_vars => (RefsInv /\ CapturesInv)'
  BY RefsStep, CapturesStep DEF RefsInv
<1> QED BY <1>1, <1>2, <1>3, PTL DEF Spec

(***************************************************************************)
(* Batch search.                                                           *)
(***************************************************************************)
Match == [start : Nat, len : Nat, out : Nat, regs : UNION {[1 .. k -> {<<0, 0>>} \cup ({0} \X Nat)] : k \in 0 .. MAX_VARS}]
Finding == [match : Match, rowFails : BOOLEAN, outFails : BOOLEAN]

\* A row of captures: its entries are what was allocated.
IsRow(row) ==
    /\ row.cap \in Nat
    /\ row = [cap |-> row.cap, entry |-> row.entry]
    /\ row.entry = [j \in 0 .. row.cap - 1 |-> row.entry[j]]

\* Match f, the i-th, did not set register r.
NotSet(f, r) == r \notin DOMAIN f.match.regs \/ f.rowFails

\* The row of register r after the matches fs.
RowRight(row, r, fs) ==
    /\ IsRow(row)
    /\ \A j \in 0 .. row.cap - 1 : j >= Len(fs) => row.entry[j] = <<0, 0>>
    /\ \A i \in 1 .. Len(fs) :
         IF i <= row.cap
           THEN \/ r \in DOMAIN fs[i].match.regs /\ row.entry[i - 1] = Span(fs[i].match, r)
                \/ NotSet(fs[i], r) /\ row.entry[i - 1] = <<0, 0>>
           ELSE NotSet(fs[i], r)

\* The records a call keeps.
Fields == {"pc", "count", "offset", "cap", "positions", "lengths", "rows", "var_count",
           "out_pos", "outbuf_cap", "outbuf_size", "outside"}

IsBatch(b) ==
    /\ b = [x \in Fields |-> b[x]]
    /\ b.offset \in Nat
    /\ b.cap \in Nat \ {0} /\ b.count <= b.cap
    /\ b.positions \in Seq(Nat) /\ b.lengths \in Seq(Nat)
    /\ b.rows = [r \in Regs |-> b.rows[r]]
    /\ b.out_pos \in Nat
    /\ b.outbuf_cap \in Nat \ {0}

\* The matches are recorded one after the other, and the next search starts
\* behind the last.
Recorded(b, fs) ==
    /\ b.count = Len(fs) /\ Len(b.positions) = Len(fs) /\ Len(b.lengths) = Len(fs)
    /\ \A i \in 1 .. Len(fs) :
         /\ b.positions[i] = fs[i].match.start /\ b.lengths[i] = fs[i].match.len
         /\ i > 1 => LET prev == fs[i - 1].match
                     IN  /\ fs[i].match.start >= prev.start + prev.len
                         /\ fs[i].match.start > prev.start
    /\ fs # <<>> => b.offset = NextOffset(fs[Len(fs)].match)

\* Writes outside of the memory happen only to the output, after a failure.
Inside(b, fs) ==
    /\ b.outside \subseteq {"output"}
    /\ \/ b.outbuf_size = b.outbuf_cap /\ b.outside = {}
       \/ \E i \in DOMAIN fs : fs[i].outFails

BatchRight(b, fs) ==
    /\ IsBatch(b)
    /\ Recorded(b, fs)
    /\ \A r \in Regs : RowRight(b.rows[r], r, fs)
    /\ Inside(b, fs)

BatchInv ==
    /\ found \in Seq(Finding)
    /\ batch.pc = "idle" => found = <<>>
    /\ \/ batch.pc \in {"loop", "true"} /\ BatchRight(batch, found)
       \/ batch.pc \in {"idle", "false"} /\ batch.outside = {}

(***************************************************************************)
(* Doubling.                                                               *)
(***************************************************************************)
\* A power of two exceeds its exponent: a set of k elements has k singletons
\* and the empty set as subsets.
LEMMA PowerExceeds ==
    ASSUME NEW k \in Nat
    PROVE  2 ^ k \in Nat /\ 2 ^ k > k
<1> DEFINE S == 1 .. k
           T == {{x} : x \in S}
           f == [x \in S |-> {x}]
<1>1. IsFiniteSet(S) /\ Cardinality(S) = k
  BY FS_Interval
<1>2. IsFiniteSet(SUBSET S) /\ Cardinality(SUBSET S) = 2 ^ k
  <2>1. IsFiniteSet(SUBSET S) /\ Cardinality(SUBSET S) = 2 ^ Cardinality(S)
    BY <1>1, FS_SUBSET
  <2> QED BY <1>1, <2>1
<1>3. f \in Bijection(S, T)
  <2>1. f \in [S -> T] /\ \A t \in T : \E x \in S : f[x] = t
    OBVIOUS
  <2>2. \A x, y \in S : f[x] = f[y] => x = y
    OBVIOUS
  <2> QED BY <2>1, <2>2 DEF Bijection, Injection, Surjection, IsInjective
<1>4. IsFiniteSet(T) /\ Cardinality(T) = k
  <2>1. ExistsBijection(S, T)
    BY <1>3 DEF ExistsBijection
  <2> QED BY <1>1, <2>1, FS_Bijection
<1>5. {} \notin T
  OBVIOUS
<1>6. IsFiniteSet(T \cup {{}}) /\ Cardinality(T \cup {{}}) = k + 1
  BY <1>4, <1>5, FS_AddElement
<1>7. T \cup {{}} \in SUBSET (SUBSET S)
  OBVIOUS
<1>8. k + 1 <= 2 ^ k
  BY <1>2, <1>6, <1>7, FS_Subset
<1>9. 2 ^ k \in Nat
  BY <1>2, FS_CardinalityType
<1> QED BY <1>8, <1>9

\* The doubling loop ends with a capacity for entry i.
LEMMA DoubledFacts ==
    ASSUME NEW cap \in Nat \ {0}, NEW i \in Nat
    PROVE  Doubled(cap, i) \in Nat /\ Doubled(cap, i) > i
<1> DEFINE C == {cap * (2 ^ k) : k \in 1 .. i + 1}
           T == {c \in C : c > i}
<1>1. \A k \in 1 .. i + 1 : 2 ^ k \in Nat /\ cap * (2 ^ k) \in Nat
  <2> SUFFICES ASSUME NEW k \in 1 .. i + 1 PROVE 2 ^ k \in Nat /\ cap * (2 ^ k) \in Nat
    OBVIOUS
  <2>1. 2 ^ k \in Nat
    BY PowerExceeds
  <2> QED BY <2>1
<1>2. cap * (2 ^ (i + 1)) > i
  <2> DEFINE p == 2 ^ (i + 1)
  <2>1. p \in Nat /\ p > i + 1
    BY PowerExceeds
  <2> HIDE DEF p
  <2>2. cap * p >= p
    BY <2>1
  <2>3. cap * p \in Nat
    BY <2>1
  <2>4. cap * p > i
    BY <2>1, <2>2, <2>3
  <2> QED BY <2>4 DEF p
<1>3. T \subseteq Nat
  BY <1>1
<1>4. T # {}
  <2>1. cap * (2 ^ (i + 1)) \in C
    OBVIOUS
  <2> QED BY <1>2, <2>1
<1>5. PICK c \in T : \A d \in T : ~(<<d, c>> \in OpToRel(<, Nat))
  <2> HIDE DEF T
  <2> QED BY <1>3, <1>4, NatLessThanWellFounded, WFMin, Zenon
<1>6. ASSUME NEW k \in 1 .. i + 1, cap * (2 ^ k) > i PROVE c <= cap * (2 ^ k)
  <2> DEFINE d == cap * (2 ^ k)
  <2>1. d \in T /\ d \in Nat /\ c \in Nat
    BY <1>1, <1>3, <1>6
  <2>2. ~(<<d, c>> \in OpToRel(<, Nat))
    BY <1>5, <2>1, Zenon
  <2> HIDE DEF d
  <2>3. ~(d < c)
    BY <2>1, <2>2, Zenon DEF OpToRel
  <2>4. c <= d
    BY <2>1, <2>3
  <2> QED BY <2>4 DEF d
<1> DEFINE Right(x) == x > i /\ \A k \in 1 .. i + 1 : cap * (2 ^ k) > i => x <= cap * (2 ^ k)
<1>7. c \in C /\ Right(c)
  BY <1>6
<1>8. (CHOOSE x \in C : Right(x)) \in C /\ Right(CHOOSE x \in C : Right(x))
  <2> HIDE DEF C, Right
  <2> QED BY <1>7
<1>9. Doubled(cap, i) = CHOOSE x \in C : Right(x)
  BY DEF Doubled
<1>10. Doubled(cap, i) \in C /\ Doubled(cap, i) > i
  BY <1>8, <1>9
<1> QED BY <1>1, <1>10

(***************************************************************************)
(* One row of captures.                                                    *)
(***************************************************************************)
\* The row that takes entry i has it, keeps what it had and is zero beyond.
LEMMA RowForFacts ==
    ASSUME NEW row, IsRow(row), NEW i \in Nat, NEW cap \in Nat, cap > i
    PROVE  /\ IsRow(RowFor(row, i, cap)) /\ RowFor(row, i, cap).cap > i
           /\ RowFor(row, i, cap).cap >= row.cap
           /\ \A j \in 0 .. RowFor(row, i, cap).cap - 1 :
                RowFor(row, i, cap).entry[j] = IF j < row.cap THEN row.entry[j] ELSE <<0, 0>>
<1>1. CASE row.cap = 0
  <2>1. RowFor(row, i, cap) = [cap |-> cap, entry |-> ZeroRow(cap)]
    BY <1>1 DEF RowFor
  <2>2. ZeroRow(cap) = [j \in 0 .. cap - 1 |-> <<0, 0>>]
    BY DEF ZeroRow
  <2> QED BY <1>1, <2>1, <2>2 DEF IsRow
<1>2. CASE row.cap # 0 /\ i >= row.cap
  <2> DEFINE c == Doubled(row.cap, i)
             entry == [j \in 0 .. c - 1 |-> IF j < row.cap THEN row.entry[j] ELSE <<0, 0>>]
  <2>1. c \in Nat /\ c > i
    BY <1>2, DoubledFacts DEF IsRow
  <2>2. RowFor(row, i, cap) = [cap |-> c, entry |-> entry]
    BY <1>2 DEF RowFor
  <2> HIDE DEF c
  <2>3. row.cap \in Nat /\ c >= row.cap
    BY <1>2, <2>1 DEF IsRow
  <2> QED BY <2>1, <2>2, <2>3 DEF IsRow
<1>3. CASE row.cap # 0 /\ ~(i >= row.cap)
  <2>1. RowFor(row, i, cap) = row
    BY <1>3 DEF RowFor
  <2> QED BY <1>3, <2>1 DEF IsRow
<1> QED BY <1>1, <1>2, <1>3

LEMMA RowWritten ==
    ASSUME NEW row, IsRow(row), NEW n, NEW v
    PROVE  [row EXCEPT !.entry[n] = v] = [cap |-> row.cap, entry |-> [row.entry EXCEPT ![n] = v]]
<1>1. \A c, e : [[cap |-> c, entry |-> e] EXCEPT !.entry[n] = v] =
                   [cap |-> c, entry |-> [e EXCEPT ![n] = v]]
  OBVIOUS
<1>2. row = [cap |-> row.cap, entry |-> row.entry]
  BY DEF IsRow
<1> QED BY <1>1, <1>2, Zenon

\* A match that has register r is recorded in the row, or the row could not
\* grow.
LEMMA RowTaken ==
    ASSUME NEW r \in Regs, NEW fs \in Seq(Finding), NEW row, RowRight(row, r, fs),
           NEW f \in Finding, r \in DOMAIN f.match.regs, NEW cap \in Nat, cap > Len(fs)
    PROVE  /\ RowRight(RowAfter(row, Len(fs), cap, f.match, r, f.rowFails), r, Append(fs, f))
           /\ ~(f.rowFails /\ GrowsRow(row, Len(fs))) =>
                 RowAfter(row, Len(fs), cap, f.match, r, f.rowFails).cap > Len(fs)
<1> DEFINE n   == Len(fs)
           fs2 == Append(fs, f)
<1>1. n \in Nat /\ DOMAIN fs = 1 .. n
  BY LenProperties
<1>2. Len(fs2) = n + 1 /\ fs2[n + 1] = f /\ \A i \in 1 .. n : fs2[i] = fs[i]
  BY AppendProperties
<1> HIDE DEF fs2
<1>3. CASE f.rowFails /\ GrowsRow(row, n)
  <2>1. RowAfter(row, n, cap, f.match, r, f.rowFails) = row
    BY <1>3 DEF RowAfter
  <2>2. IsRow(row) /\ row.cap \in Nat /\ row.cap <= n
    BY <1>1, <1>3 DEF RowRight, IsRow, GrowsRow
  <2>3. \A j \in 0 .. row.cap - 1 : j >= Len(fs2) => row.entry[j] = <<0, 0>>
    BY <1>1, <1>2, <2>2
  <2>4. ASSUME NEW i \in 1 .. Len(fs2)
        PROVE  IF i <= row.cap
                 THEN \/ r \in DOMAIN fs2[i].match.regs /\ row.entry[i - 1] = Span(fs2[i].match, r)
                      \/ NotSet(fs2[i], r) /\ row.entry[i - 1] = <<0, 0>>
                 ELSE NotSet(fs2[i], r)
    <3>1. CASE i \in 1 .. n
      BY <1>2, <3>1 DEF RowRight
    <3>2. CASE i = n + 1
      BY <1>1, <1>2, <1>3, <2>2, <3>2 DEF NotSet
    <3> QED BY <1>1, <1>2, <3>1, <3>2
  <2> QED BY <1>3, <2>1, <2>2, <2>3, <2>4 DEF RowRight, fs2
<1>4. CASE ~(f.rowFails /\ GrowsRow(row, n))
  <2> DEFINE grown == RowFor(row, n, cap)
             after == [grown EXCEPT !.entry[n] = Span(f.match, r)]
  <2>1. /\ IsRow(grown) /\ grown.cap > n /\ grown.cap >= row.cap
        /\ \A j \in 0 .. grown.cap - 1 : grown.entry[j] = IF j < row.cap THEN row.entry[j] ELSE <<0, 0>>
    BY <1>1, RowForFacts DEF RowRight
  <2>2. RowAfter(row, n, cap, f.match, r, f.rowFails) = after
    BY <1>4, <2>1 DEF RowAfter
  <2> HIDE DEF grown
  <2>3. /\ after.cap = grown.cap /\ IsRow(after) /\ after.entry[n] = Span(f.match, r)
        /\ \A j \in 0 .. grown.cap - 1 : j # n => after.entry[j] = grown.entry[j]
    <3> DEFINE e2 == [grown.entry EXCEPT ![n] = Span(f.match, r)]
    <3>1. grown = [cap |-> grown.cap, entry |-> grown.entry] /\ grown.cap \in Nat
          /\ grown.entry = [j \in 0 .. grown.cap - 1 |-> grown.entry[j]]
      BY <2>1 DEF IsRow
    <3>2. after = [cap |-> grown.cap, entry |-> e2]
      BY <2>1, RowWritten
    <3>3. n \in 0 .. grown.cap - 1
      BY <1>1, <2>1, <3>1
    <3>4. /\ e2 = [j \in 0 .. grown.cap - 1 |-> e2[j]] /\ e2[n] = Span(f.match, r)
          /\ \A j \in 0 .. grown.cap - 1 : j # n => e2[j] = grown.entry[j]
      BY <3>1, <3>3
    <3> HIDE DEF e2, after
    <3> QED BY <3>1, <3>2, <3>4 DEF IsRow
  <2> HIDE DEF after
  <2>4. grown.cap \in Nat /\ row.cap \in Nat /\ n \in Nat /\ Len(fs2) = n + 1
    BY <1>1, <1>2, <2>1 DEF IsRow, RowRight
  <2>5. \A j \in 0 .. after.cap - 1 : j >= Len(fs2) => after.entry[j] = <<0, 0>>
    <3> SUFFICES ASSUME NEW j \in 0 .. grown.cap - 1, j >= n + 1 PROVE after.entry[j] = <<0, 0>>
      BY <1>2, <2>3
    <3>1. after.entry[j] = grown.entry[j]
      BY <2>3, <2>4
    <3>2. CASE j < row.cap
      <4>1. j \in 0 .. row.cap - 1 /\ j >= Len(fs)
        BY <1>1, <2>4, <3>2
      <4>2. row.entry[j] = <<0, 0>>
        BY <4>1 DEF RowRight
      <4> QED BY <2>1, <3>1, <3>2, <4>2
    <3>3. CASE ~(j < row.cap)
      BY <2>1, <3>1, <3>3
    <3> QED BY <3>2, <3>3
  <2>6. ASSUME NEW i \in 1 .. Len(fs2)
        PROVE  IF i <= after.cap
                 THEN \/ r \in DOMAIN fs2[i].match.regs /\ after.entry[i - 1] = Span(fs2[i].match, r)
                      \/ NotSet(fs2[i], r) /\ after.entry[i - 1] = <<0, 0>>
                 ELSE NotSet(fs2[i], r)
    <3>1. CASE i = n + 1
      <4>1. fs2[i] = f /\ i <= after.cap /\ i - 1 = n
        BY <1>2, <2>1, <2>3, <2>4, <3>1
      <4> QED BY <2>3, <4>1
    <3>2. CASE i \in 1 .. n
      <4>0. fs2[i] = fs[i]
        BY <1>2, <3>2
      <4>1. fs2[i] = fs[i] /\ i - 1 \in 0 .. grown.cap - 1 /\ i - 1 # n /\ i <= after.cap
        <5>1. after.cap = grown.cap /\ grown.cap > n
          BY <2>1, <2>3
        <5> QED BY <2>4, <3>2, <4>0, <5>1
      <4>2. after.entry[i - 1] = IF i - 1 < row.cap THEN row.entry[i - 1] ELSE <<0, 0>>
        BY <2>1, <2>3, <4>1
      <4>3. CASE i <= row.cap
        <5>1. after.entry[i - 1] = row.entry[i - 1]
          BY <2>4, <4>2, <4>3, <3>2, <1>1
        <5>2. \/ r \in DOMAIN fs[i].match.regs /\ row.entry[i - 1] = Span(fs[i].match, r)
              \/ NotSet(fs[i], r) /\ row.entry[i - 1] = <<0, 0>>
          BY <3>2, <4>3 DEF RowRight
        <5> QED BY <4>1, <5>1, <5>2
      <4>4. CASE ~(i <= row.cap)
        <5>1. after.entry[i - 1] = <<0, 0>>
          BY <2>4, <4>2, <4>4, <3>2, <1>1
        <5>2. NotSet(fs[i], r)
          BY <3>2, <4>4 DEF RowRight
        <5> QED BY <4>1, <5>1, <5>2
      <4> QED BY <4>3, <4>4
    <3> QED BY <1>1, <1>2, <3>1, <3>2
  <2> QED BY <2>1, <2>2, <2>3, <2>5, <2>6 DEF RowRight, fs2
<1> QED BY <1>3, <1>4

\* The row of a register that the match does not have stays as it is.
LEMMA RowSkipped ==
    ASSUME NEW r \in Regs, NEW fs \in Seq(Finding), NEW row, RowRight(row, r, fs),
           NEW f \in Finding, r \notin DOMAIN f.match.regs
    PROVE  RowRight(row, r, Append(fs, f))
<1> DEFINE n   == Len(fs)
           fs2 == Append(fs, f)
<1>1. n \in Nat
  BY LenProperties
<1>2. Len(fs2) = n + 1 /\ fs2[n + 1] = f /\ \A i \in 1 .. n : fs2[i] = fs[i]
  BY AppendProperties
<1> HIDE DEF fs2
<1>3. IsRow(row) /\ row.cap \in Nat
  BY DEF RowRight, IsRow
<1>4. \A j \in 0 .. row.cap - 1 : j >= n => row.entry[j] = <<0, 0>>
  BY DEF RowRight
<1>5. ASSUME NEW i \in 1 .. Len(fs2)
      PROVE  IF i <= row.cap
               THEN \/ r \in DOMAIN fs2[i].match.regs /\ row.entry[i - 1] = Span(fs2[i].match, r)
                    \/ NotSet(fs2[i], r) /\ row.entry[i - 1] = <<0, 0>>
               ELSE NotSet(fs2[i], r)
  <2>1. CASE i \in 1 .. n
    BY <1>2, <2>1 DEF RowRight
  <2>2. CASE i = n + 1
    <3>1. NotSet(fs2[i], r)
      BY <1>2, <2>2 DEF NotSet
    <3>2. i <= row.cap => row.entry[i - 1] = <<0, 0>>
      BY <1>1, <1>3, <1>4, <2>2
    <3> QED BY <3>1, <3>2
  <2> QED BY <1>1, <1>2, <2>1, <2>2
<1>6. \A j \in 0 .. row.cap - 1 : j >= Len(fs2) => row.entry[j] = <<0, 0>>
  BY <1>1, <1>2, <1>3, <1>4
<1> QED BY <1>3, <1>5, <1>6 DEF RowRight, fs2

(***************************************************************************)
(* One turn of the loop.                                                   *)
(***************************************************************************)
\* A match of a search from an offset.
LEMMA MatchFacts ==
    ASSUME NEW offset \in Nat, NEW m \in MatchesFrom(offset)
    PROVE  m \in Match /\ m.start >= offset /\ m.start \in Nat /\ m.len \in Nat /\ m.out \in Nat
<1>1. PICK p \in offset .. SUBJECT_BYTES :
        m \in UNION {[start : {p}, len : {n}, out : OutputLengths,
                      regs : UNION {[1 .. k -> {<<0, 0>>, <<0, n>>}] : k \in 0 .. MAX_VARS}]
                     : n \in 0 .. SUBJECT_BYTES - p}
  BY DEF MatchesFrom
<1>2. PICK n \in 0 .. SUBJECT_BYTES - p :
        m \in [start : {p}, len : {n}, out : OutputLengths,
               regs : UNION {[1 .. k -> {<<0, 0>>, <<0, n>>}] : k \in 0 .. MAX_VARS}]
  BY <1>1
<1>3. p \in Nat /\ p >= offset /\ n \in Nat
  BY BatchAssumption
<1>4. m.regs \in UNION {[1 .. k -> {<<0, 0>>} \cup ({0} \X Nat)] : k \in 0 .. MAX_VARS}
  <2>1. PICK k \in 0 .. MAX_VARS : m.regs \in [1 .. k -> {<<0, 0>>, <<0, n>>}]
    BY <1>2
  <2>2. {<<0, 0>>, <<0, n>>} \subseteq {<<0, 0>>} \cup ({0} \X Nat)
    BY <1>3
  <2>3. m.regs \in [1 .. k -> {<<0, 0>>} \cup ({0} \X Nat)]
    BY <2>1, <2>2
  <2> QED BY <2>3
<1>5. /\ m = [start |-> p, len |-> n, out |-> m.out, regs |-> m.regs] /\ m.out \in OutputLengths
  BY <1>2
<1>6. m.start = p /\ m.len = n /\ m.out \in Nat
  BY <1>2, BatchAssumption
<1> HIDE DEF Match
<1>7. m \in Match
  <2> DEFINE regs == m.regs
             out  == m.out
  <2>1. m = [start |-> p, len |-> n, out |-> out, regs |-> regs]
    BY <1>5
  <2>2. regs \in UNION {[1 .. k -> {<<0, 0>>} \cup ({0} \X Nat)] : k \in 0 .. MAX_VARS} /\ out \in Nat
    BY <1>4, <1>6
  <2> HIDE DEF regs, out
  <2> QED BY <1>3, <2>1, <2>2 DEF Match
<1> QED BY <1>3, <1>6, <1>7

\* The matches stay recorded, and the search goes on behind the new one.
LEMMA StepRecorded ==
    ASSUME NEW b, NEW fs \in Seq(Finding), IsBatch(b), Recorded(b, fs),
           NEW f \in Finding, f.match.start >= b.offset
    PROVE  Recorded(Record(b, f.match, f.rowFails, f.outFails), Append(fs, f))
<1> DEFINE m   == f.match
           b2  == Record(b, m, f.rowFails, f.outFails)
           fs2 == Append(fs, f)
           n   == Len(fs)
<1>1. /\ b2.count = b.count + 1 /\ b2.offset = NextOffset(m)
      /\ b2.positions = Append(b.positions, m.start) /\ b2.lengths = Append(b.lengths, m.len)
  BY DEF Record
<1>2. m.start \in Nat /\ m.len \in Nat
  BY DEF Finding, Match
<1> HIDE DEF b2, m
<1>3. n \in Nat /\ Len(fs2) = n + 1 /\ fs2[n + 1] = f /\ \A i \in 1 .. n : fs2[i] = fs[i]
  BY AppendProperties, LenProperties
<1> HIDE DEF fs2
<1>4. /\ b.count = n /\ Len(b.positions) = n /\ Len(b.lengths) = n
      /\ b.positions \in Seq(Nat) /\ b.lengths \in Seq(Nat)
  BY DEF IsBatch, Recorded
<1>5. /\ Len(b2.positions) = n + 1 /\ b2.positions[n + 1] = m.start
      /\ \A i \in 1 .. n : b2.positions[i] = b.positions[i]
  BY <1>1, <1>2, <1>4, AppendProperties
<1>6. /\ Len(b2.lengths) = n + 1 /\ b2.lengths[n + 1] = m.len
      /\ \A i \in 1 .. n : b2.lengths[i] = b.lengths[i]
  BY <1>1, <1>2, <1>4, AppendProperties
<1>7. ASSUME NEW i \in 1 .. Len(fs2)
      PROVE  /\ b2.positions[i] = fs2[i].match.start /\ b2.lengths[i] = fs2[i].match.len
             /\ i > 1 => LET prev == fs2[i - 1].match
                         IN  /\ fs2[i].match.start >= prev.start + prev.len
                             /\ fs2[i].match.start > prev.start
  <2>1. CASE i \in 1 .. n
    <3>1. i > 1 => i - 1 \in 1 .. n
      BY <1>3, <2>1
    <3> QED BY <1>3, <1>5, <1>6, <2>1, <3>1 DEF Recorded
  <2>2. CASE i = n + 1
    <3>1. b2.positions[i] = fs2[i].match.start /\ b2.lengths[i] = fs2[i].match.len
      BY <1>3, <1>5, <1>6, <2>2 DEF m
    <3>2. ASSUME i > 1
          PROVE  LET prev == fs2[i - 1].match
                 IN  /\ fs2[i].match.start >= prev.start + prev.len
                     /\ fs2[i].match.start > prev.start
      <4> DEFINE prev == fs[n].match
      <4>1. n \in 1 .. n /\ i - 1 = n /\ fs2[i - 1] = fs[n] /\ fs2[i].match = m
        BY <1>3, <2>2, <3>2 DEF m
      <4>2. prev.start \in Nat /\ prev.len \in Nat
        <5>1. fs[n] \in Finding
          BY <4>1, ElementOfSeq
        <5> QED BY <5>1 DEF Finding, Match
      <4>3. m.start >= NextOffset(prev)
        <5>1. fs # <<>>
          BY <4>1
        <5>2. b.offset = NextOffset(prev)
          BY <5>1 DEF Recorded
        <5> QED BY <5>2 DEF m
      <4>4. m.start >= prev.start + prev.len /\ m.start > prev.start
        BY <1>2, <4>2, <4>3 DEF NextOffset
      <4> QED BY <4>1, <4>4
    <3> QED BY <3>1, <3>2
  <2> QED BY <1>3, <2>1, <2>2
<1>8. b2.count = Len(fs2) /\ Len(b2.positions) = Len(fs2) /\ Len(b2.lengths) = Len(fs2)
  BY <1>1, <1>3, <1>4, <1>5, <1>6
<1>9. b2.offset = NextOffset(fs2[Len(fs2)].match)
  BY <1>1, <1>3 DEF m
<1> QED BY <1>7, <1>8, <1>9 DEF Recorded, b2, fs2, m

\* The output buffer is as large as its capacity says, or has failed to grow.
LEMMA OutFacts ==
    ASSUME NEW b, NEW fs, IsBatch(b), NEW m \in Match, NEW of \in Failing(GrowsOut(b, m)),
           b.outbuf_size = b.outbuf_cap, ~of
    PROVE  LET size == IF GrowsOut(b, m) /\ ~of THEN OutCap(b, m) ELSE b.outbuf_size
           IN  size = OutCap(b, m) /\ ~(b.out_pos + m.out + 1 > size)
<1>1. b.out_pos \in Nat /\ m.out \in Nat /\ b.outbuf_cap \in Nat \ {0}
  BY DEF IsBatch, Match
<1>2. CASE b.out_pos + m.out + 1 > b.outbuf_cap
  <2>0. b.out_pos + m.out \in Nat
    BY <1>1
  <2>1. Doubled(b.outbuf_cap, b.out_pos + m.out) \in Nat
        /\ Doubled(b.outbuf_cap, b.out_pos + m.out) > b.out_pos + m.out
    BY <1>1, <2>0, DoubledFacts
  <2>2. OutCap(b, m) = Doubled(b.outbuf_cap, b.out_pos + m.out)
    BY <1>2 DEF OutCap
  <2> QED BY <1>1, <2>1, <2>2 DEF GrowsOut
<1>3. CASE ~(b.out_pos + m.out + 1 > b.outbuf_cap)
  BY <1>1, <1>3 DEF OutCap, GrowsOut
<1> QED BY <1>2, <1>3

LEMMA StepRight ==
    ASSUME NEW b, NEW fs \in Seq(Finding), BatchRight(b, fs),
           NEW f \in Finding, f.match.start >= b.offset,
           f.outFails \in Failing(GrowsOut(b, f.match))
    PROVE  BatchRight(Record(b, f.match, f.rowFails, f.outFails), Append(fs, f))
<1> DEFINE m    == f.match
           b2   == Record(b, m, f.rowFails, f.outFails)
           fs2  == Append(fs, f)
           n    == Len(fs)
           cap  == ArrayCap(b)
           rows == [r \in Regs |-> IF r \in DOMAIN m.regs
                                     THEN RowAfter(b.rows[r], b.count, cap, m, r, f.rowFails)
                                     ELSE b.rows[r]]
           size == IF GrowsOut(b, m) /\ ~f.outFails THEN OutCap(b, m) ELSE b.outbuf_size
           over == {"rows" : r \in {x \in DOMAIN m.regs :
                               /\ ~(f.rowFails /\ GrowsRow(b.rows[x], b.count))
                               /\ b.count >= rows[x].cap}}
<1>1. b2 = [pc |-> b.pc, count |-> b.count + 1, offset |-> NextOffset(m), cap |-> cap,
            positions |-> Append(b.positions, m.start), lengths |-> Append(b.lengths, m.len),
            rows |-> rows,
            var_count |-> IF Len(m.regs) > b.var_count THEN Len(m.regs) ELSE b.var_count,
            out_pos |-> b.out_pos + m.out + 1, outbuf_cap |-> OutCap(b, m), outbuf_size |-> size,
            outside |-> b.outside \cup (IF b.count >= cap THEN {"arrays"} ELSE {})
                          \cup over
                          \cup (IF b.out_pos + m.out + 1 > size THEN {"output"} ELSE {})]
  BY DEF Record
<1>2. IsBatch(b) /\ Recorded(b, fs) /\ Inside(b, fs)
  BY DEF BatchRight
<1>3. n \in Nat /\ DOMAIN fs = 1 .. n /\ Len(fs2) = n + 1 /\ fs2[n + 1] = f
      /\ (\A i \in 1 .. n : fs2[i] = fs[i]) /\ DOMAIN fs2 = 1 .. n + 1
  <2>1. fs2 \in Seq(Finding) /\ n \in Nat /\ Len(fs2) = n + 1 /\ fs2[n + 1] = f
        /\ (\A i \in 1 .. n : fs2[i] = fs[i])
    BY AppendProperties, LenProperties
  <2> QED BY <2>1, LenProperties
<1>4. b.count = n /\ b.count <= b.cap /\ b.cap \in Nat \ {0}
  BY <1>2 DEF IsBatch, Recorded
<1>5. cap \in Nat \ {0} /\ cap > n
  BY <1>3, <1>4 DEF ArrayCap
<1>6. m \in Match /\ f.rowFails \in BOOLEAN /\ f.outFails \in BOOLEAN
      /\ m.start \in Nat /\ m.len \in Nat /\ m.out \in Nat
  BY DEF Finding, Match
<1>7. DOMAIN m.regs \subseteq Regs
  <2>1. PICK k \in 0 .. MAX_VARS : m.regs \in [1 .. k -> {<<0, 0>>} \cup ({0} \X Nat)]
    BY <1>6 DEF Match
  <2> QED BY <2>1, BatchAssumption DEF Regs
<1> HIDE DEF cap, m, fs2
<1>8. ASSUME NEW r \in Regs
      PROVE  /\ RowRight(rows[r], r, fs2)
             /\ r \in DOMAIN m.regs /\ ~(f.rowFails /\ GrowsRow(b.rows[r], n)) => rows[r].cap > n
  <2>1. RowRight(b.rows[r], r, fs)
    BY DEF BatchRight
  <2>2. CASE r \in DOMAIN m.regs
    <3>1. rows[r] = RowAfter(b.rows[r], n, cap, m, r, f.rowFails)
      BY <1>4, <2>2
    <3>2. /\ RowRight(RowAfter(b.rows[r], n, cap, m, r, f.rowFails), r, fs2)
          /\ ~(f.rowFails /\ GrowsRow(b.rows[r], n)) =>
                RowAfter(b.rows[r], n, cap, m, r, f.rowFails).cap > n
      BY <1>5, <2>1, <2>2, RowTaken DEF m, fs2
    <3> QED BY <3>1, <3>2
  <2>3. CASE r \notin DOMAIN m.regs
    <3>1. rows[r] = b.rows[r]
      BY <2>3
    <3>2. RowRight(b.rows[r], r, fs2)
      BY <2>1, <2>3, RowSkipped DEF m, fs2
    <3> QED BY <2>3, <3>1, <3>2
  <2> QED BY <2>2, <2>3
<1>9. over = {}
  <2>1. ASSUME NEW x \in DOMAIN m.regs, ~(f.rowFails /\ GrowsRow(b.rows[x], b.count))
        PROVE  ~(b.count >= rows[x].cap)
    <3>1. x \in Regs
      BY <1>7
    <3>2. rows[x].cap > n
      BY <1>4, <1>8, <2>1, <3>1
    <3>3. rows[x].cap \in Nat
      BY <1>8, <3>1 DEF RowRight, IsRow
    <3> QED BY <1>3, <1>4, <3>2, <3>3
  <2> QED BY <2>1
<1>10. ~(b.count >= cap)
  BY <1>3, <1>4, <1>5
<1>11. OutCap(b, m) \in Nat \ {0}
  <2>1. b.outbuf_cap \in Nat \ {0} /\ b.out_pos \in Nat
    BY <1>2 DEF IsBatch
  <2>2. b.out_pos + m.out \in Nat
    BY <1>6, <2>1
  <2>3. Doubled(b.outbuf_cap, b.out_pos + m.out) \in Nat /\ Doubled(b.outbuf_cap, b.out_pos + m.out) > b.out_pos + m.out
    BY <2>1, <2>2, DoubledFacts
  <2> QED BY <2>1, <2>2, <2>3 DEF OutCap
<1> HIDE DEF rows, over, b2
<1>12. Inside(b2, fs2)
  <2>1. /\ b2.outbuf_cap = OutCap(b, m) /\ b2.outbuf_size = size
        /\ b2.outside = b.outside \cup (IF b.out_pos + m.out + 1 > size THEN {"output"} ELSE {})
    BY <1>1, <1>9, <1>10
  <2>2. b2.outside \subseteq {"output"}
    BY <1>2, <2>1 DEF Inside
  <2>3. CASE \E i \in DOMAIN fs : fs[i].outFails
    <3>1. \E i \in DOMAIN fs2 : fs2[i].outFails
      BY <1>3, <2>3
    <3> QED BY <2>2, <3>1 DEF Inside
  <2>4. CASE f.outFails
    <3>1. \E i \in DOMAIN fs2 : fs2[i].outFails
      BY <1>3, <2>4
    <3> QED BY <2>2, <3>1 DEF Inside
  <2>5. CASE ~f.outFails /\ b.outbuf_size = b.outbuf_cap /\ b.outside = {}
    <3>1. size = OutCap(b, m) /\ ~(b.out_pos + m.out + 1 > size)
      BY <1>2, <1>6, <2>5, OutFacts DEF m
    <3> QED BY <2>1, <2>5, <3>1 DEF Inside
  <2> QED BY <1>2, <1>6, <2>3, <2>4, <2>5 DEF Inside
<1>13. IsBatch(b2)
  <2>1. NextOffset(m) \in Nat
    BY <1>6 DEF NextOffset
  <2>2. Append(b.positions, m.start) \in Seq(Nat) /\ Append(b.lengths, m.len) \in Seq(Nat)
    BY <1>2, <1>6, AppendProperties DEF IsBatch
  <2>3. rows = [r \in Regs |-> rows[r]]
    BY DEF rows
  <2>4. b.count + 1 <= cap
    BY <1>3, <1>4, <1>5
  <2>5. b.out_pos + m.out + 1 \in Nat
    BY <1>2, <1>6 DEF IsBatch
  <2> HIDE DEF size
  <2>6. /\ b2.offset = NextOffset(m) /\ b2.cap = cap /\ b2.count = b.count + 1
        /\ b2.positions = Append(b.positions, m.start) /\ b2.lengths = Append(b.lengths, m.len)
        /\ b2.rows = rows /\ b2.out_pos = b.out_pos + m.out + 1 /\ b2.outbuf_cap = OutCap(b, m)
    BY <1>1
  <2>7. b2 = [x \in Fields |-> b2[x]]
    BY <1>1 DEF Fields
  <2> QED BY <1>5, <1>11, <2>1, <2>2, <2>3, <2>4, <2>5, <2>6, <2>7 DEF IsBatch
<1>14. \A r \in Regs : RowRight(b2.rows[r], r, fs2)
  BY <1>1, <1>8
<1>15. Recorded(b2, fs2)
  BY <1>2, StepRecorded DEF b2, fs2, m
<1> QED BY <1>12, <1>13, <1>14, <1>15 DEF BatchRight, b2, fs2, m

(***************************************************************************)
(* The call.                                                               *)
(***************************************************************************)
LEMMA IdleFacts ==
    /\ Idle.pc = "idle" /\ Idle.outside = {}
    /\ \A b : GiveUp(b).pc = "false" /\ GiveUp(b).outside = {}
BY DEF Idle, GiveUp

LEMMA BeginStep == BatchInv /\ BatchBegin => BatchInv'
<1> SUFFICES ASSUME BatchInv, BatchBegin PROVE BatchInv'
  OBVIOUS
<1> DEFINE b == [Idle EXCEPT !.pc = "loop", !.cap = BATCH_CAP,
                             !.outbuf_cap = OUT_CAP, !.outbuf_size = OUT_CAP]
<1>1. found' = found /\ batch.pc = "idle" /\ (batch' = [Idle EXCEPT !.pc = "false"] \/ batch' = b)
  BY DEF BatchBegin
<1>2. CASE batch' = [Idle EXCEPT !.pc = "false"]
  <2>1. batch'.pc = "false" /\ batch'.outside = {}
    BY <1>2 DEF Idle
  <2> QED BY <1>1, <2>1 DEF BatchInv
<1>3. CASE batch' = b
  <2>0. found = <<>> /\ found \in Seq(Finding)
    BY <1>1 DEF BatchInv
  <2>1. b = [x \in Fields |-> b[x]]
    BY DEF Idle, Fields
  <2>2. /\ b.pc = "loop" /\ b.count = 0 /\ b.offset = 0 /\ b.cap = BATCH_CAP
        /\ b.positions = <<>> /\ b.lengths = <<>> /\ b.rows = [r \in Regs |-> NoRow]
    BY DEF Idle
  <2>3. /\ b.out_pos = 0 /\ b.outbuf_cap = OUT_CAP /\ b.outbuf_size = OUT_CAP /\ b.outside = {}
    BY DEF Idle
  <2> HIDE DEF b
  <2>4. <<>> \in Seq(Nat) /\ Len(<<>>) = 0
    BY EmptySeq
  <2>5. IsBatch(b)
    <3>1. b.offset \in Nat /\ b.cap \in Nat \ {0} /\ b.count <= b.cap
      BY <2>2, BatchAssumption
    <3>2. b.positions \in Seq(Nat) /\ b.lengths \in Seq(Nat)
      BY <2>2, <2>4
    <3>3. b.rows = [r \in Regs |-> b.rows[r]]
      BY <2>2
    <3>4. b.out_pos \in Nat /\ b.outbuf_cap \in Nat \ {0}
      BY <2>3, BatchAssumption
    <3> QED BY <2>1, <3>1, <3>2, <3>3, <3>4 DEF IsBatch
  <2>6. Recorded(b, <<>>)
    BY <2>2, <2>4 DEF Recorded
  <2>7. \A r \in Regs : RowRight(b.rows[r], r, <<>>)
    <3>1. \A r : RowRight(NoRow, r, <<>>)
      BY <2>4 DEF RowRight, IsRow, NoRow
    <3> QED BY <2>2, <3>1
  <2>8. Inside(b, <<>>)
    BY <2>3 DEF Inside
  <2> QED BY <1>1, <1>3, <2>0, <2>2, <2>5, <2>6, <2>7, <2>8 DEF BatchInv, BatchRight
<1> QED BY <1>1, <1>2, <1>3

\* A call without a result keeps nothing that was written.
LEMMA GaveUp ==
    ASSUME NEW b, found' = found, found \in Seq(Finding), batch' = GiveUp(b)
    PROVE  BatchInv'
<1>1. batch'.pc = "false" /\ batch'.outside = {}
  BY IdleFacts
<1> QED BY <1>1 DEF BatchInv

LEMMA LoopStep == BatchInv /\ BatchStep => BatchInv'
<1> SUFFICES ASSUME BatchInv, BatchStep PROVE BatchInv'
  OBVIOUS
<1>1. found \in Seq(Finding) /\ batch.pc = "loop" /\ BatchRight(batch, found)
  BY DEF BatchInv, BatchStep
<1>2. PICK m \in MatchesFrom(batch.offset) :
         \/ \E rowFails \in Failing(\E r \in DOMAIN m.regs : GrowsRow(batch.rows[r], batch.count)),
               outFails \in Failing(GrowsOut(batch, m)) :
              /\ batch' = Record(batch, m, rowFails, outFails)
              /\ found' = Append(found, [match |-> m, rowFails |-> rowFails, outFails |-> outFails])
         \/ /\ batch.count >= batch.cap /\ batch' = GiveUp(batch)
            /\ UNCHANGED found
  BY DEF BatchStep
<1>3. m \in Match /\ m.start >= batch.offset
  <2>1. batch.offset \in Nat
    BY <1>1 DEF BatchRight, IsBatch
  <2> QED BY <2>1, MatchFacts
<1>4. ASSUME NEW rowFails \in Failing(\E r \in DOMAIN m.regs : GrowsRow(batch.rows[r], batch.count)),
             NEW outFails \in Failing(GrowsOut(batch, m)),
             batch' = Record(batch, m, rowFails, outFails),
             found' = Append(found, [match |-> m, rowFails |-> rowFails, outFails |-> outFails])
      PROVE  BatchInv'
  <2> DEFINE f == [match |-> m, rowFails |-> rowFails, outFails |-> outFails]
  <2>1. rowFails \in BOOLEAN /\ outFails \in BOOLEAN
    BY DEF Failing
  <2>2. f \in Finding /\ f.match = m /\ f.rowFails = rowFails /\ f.outFails = outFails
    BY <1>3, <2>1 DEF Finding
  <2>3. batch' = Record(batch, f.match, f.rowFails, f.outFails) /\ found' = Append(found, f)
    BY <1>4, <2>2
  <2>4. f.match.start >= batch.offset /\ f.outFails \in Failing(GrowsOut(batch, f.match))
    BY <1>3, <2>2
  <2> HIDE DEF f
  <2>5. BatchRight(Record(batch, f.match, f.rowFails, f.outFails), Append(found, f))
    BY <1>1, <2>2, <2>4, StepRight
  <2>6. Append(found, f) \in Seq(Finding)
    BY <1>1, <2>2, AppendProperties
  <2>7. Record(batch, f.match, f.rowFails, f.outFails).pc = "loop"
    BY <1>1 DEF Record
  <2> QED BY <2>3, <2>5, <2>6, <2>7 DEF BatchInv
<1>5. CASE batch' = GiveUp(batch) /\ UNCHANGED found
  BY <1>1, <1>5, GaveUp
<1> QED BY <1>2, <1>4, <1>5

LEMMA EndStep == BatchInv /\ BatchEnd => BatchInv'
<1> SUFFICES ASSUME BatchInv, BatchEnd PROVE BatchInv'
  OBVIOUS
<1> DEFINE b == [batch EXCEPT !.pc = "true"]
<1>1. /\ found \in Seq(Finding) /\ BatchRight(batch, found)
      /\ found' = found /\ (batch' = GiveUp(batch) \/ batch' = b)
  BY DEF BatchInv, BatchEnd
<1>2. CASE batch' = b
  <2>1. batch = [x \in Fields |-> batch[x]]
    BY <1>1 DEF BatchRight, IsBatch
  <2>2. b = [x \in Fields |-> b[x]]
    BY <2>1 DEF Fields
  <2>3. /\ b.pc = "true" /\ b.count = batch.count /\ b.offset = batch.offset /\ b.cap = batch.cap
        /\ b.positions = batch.positions /\ b.lengths = batch.lengths /\ b.rows = batch.rows
    BY <2>1 DEF Fields
  <2>4. /\ b.out_pos = batch.out_pos /\ b.outbuf_cap = batch.outbuf_cap
        /\ b.outbuf_size = batch.outbuf_size /\ b.outside = batch.outside
    BY <2>1 DEF Fields
  <2> HIDE DEF b
  <2>5. IsBatch(b)
    BY <1>1, <2>2, <2>3, <2>4 DEF BatchRight, IsBatch
  <2>6. Recorded(b, found)
    BY <1>1, <2>3 DEF BatchRight, Recorded
  <2>7. \A r \in Regs : RowRight(b.rows[r], r, found)
    BY <1>1, <2>3 DEF BatchRight
  <2>8. Inside(b, found)
    BY <1>1, <2>4 DEF BatchRight, Inside
  <2> QED BY <1>1, <1>2, <2>3, <2>5, <2>6, <2>7, <2>8 DEF BatchInv, BatchRight
<1>3. CASE batch' = GiveUp(batch)
  BY <1>1, <1>3, GaveUp
<1> QED BY <1>1, <1>2, <1>3

LEMMA FreeStep == BatchResultFree => BatchInv'
<1> SUFFICES ASSUME BatchResultFree PROVE BatchInv'
  OBVIOUS
<1>1. batch'.pc = "idle" /\ batch'.outside = {} /\ found' = <<>>
  BY IdleFacts DEF BatchResultFree
<1> QED BY <1>1, EmptySeq DEF BatchInv

LEMMA BatchInvariant == BatchSpec => []BatchInv
<1>1. BatchInit => BatchInv
  <2>1. <<>> \in Seq(Finding)
    BY EmptySeq
  <2> QED BY <2>1, IdleFacts DEF BatchInit, BatchInv
<1>2. BatchInv /\ [BatchNext]_batchVars => BatchInv'
  <2> SUFFICES ASSUME BatchInv, [BatchNext]_batchVars PROVE BatchInv'
    OBVIOUS
  <2>1. CASE UNCHANGED batchVars
    BY <2>1 DEF batchVars, BatchInv
  <2> QED BY <2>1, BeginStep, LoopStep, EndStep, FreeStep DEF BatchNext
<1> QED BY <1>1, <1>2, PTL DEF BatchSpec

(***************************************************************************)
(* Every result batch_run returns is the matches its searches found: no    *)
(* match is lost, repeated or overlaps an earlier one, and every register  *)
(* stays with its match however often the arrays and rows grow, also when  *)
(* a row could not grow and was skipped.                                   *)
(***************************************************************************)
THEOREM BatchResultExact == BatchSpec => []BatchExact
<1>1. BatchInv => BatchExact
  <2> SUFFICES ASSUME BatchInv, batch.pc \in {"loop", "true"}
               PROVE  /\ batch.count = Len(found)
                      /\ \A i \in 1 .. Len(found) : LET m == found[i].match IN
                           /\ batch.positions[i] = m.start /\ batch.lengths[i] = m.len
                           /\ i > 1 => LET prev == found[i - 1].match
                                       IN  m.start >= prev.start + prev.len /\ m.start > prev.start
                           /\ \A r \in Regs :
                                \/ /\ r \in DOMAIN m.regs /\ i <= batch.rows[r].cap
                                   /\ batch.rows[r].entry[i - 1] = Span(m, r)
                                \/ /\ r \notin DOMAIN m.regs \/ found[i].rowFails
                                   /\ i <= batch.rows[r].cap =>
                                        batch.rows[r].entry[i - 1] = <<0, 0>>
    BY DEF BatchExact
  <2>1. Recorded(batch, found) /\ \A r \in Regs : RowRight(batch.rows[r], r, found)
    BY DEF BatchInv, BatchRight
  <2>2. batch.count = Len(found)
    BY <2>1 DEF Recorded
  <2>3. ASSUME NEW i \in 1 .. Len(found), NEW r \in Regs
        PROVE  LET m == found[i].match
               IN  \/ /\ r \in DOMAIN m.regs /\ i <= batch.rows[r].cap
                      /\ batch.rows[r].entry[i - 1] = Span(m, r)
                   \/ /\ r \notin DOMAIN m.regs \/ found[i].rowFails
                      /\ i <= batch.rows[r].cap => batch.rows[r].entry[i - 1] = <<0, 0>>
    BY <2>1, <2>3 DEF RowRight, NotSet
  <2> QED BY <2>1, <2>2, <2>3 DEF Recorded
<1> QED BY <1>1, BatchInvariant, PTL

(***************************************************************************)
(* batch_run never writes a position, a length or a capture outside of     *)
(* what it allocated, and writes output outside only once the buffer       *)
(* failed to grow: its capacity is doubled before the memory is there.     *)
(***************************************************************************)
THEOREM BatchWritesInside == BatchSpec => []WritesInside
<1>1. BatchInv => WritesInside
  BY DEF BatchInv, BatchRight, Inside, WritesInside
<1> QED BY <1>1, BatchInvariant, PTL
=============================================================================
