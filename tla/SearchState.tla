---------------------------- MODULE SearchState ----------------------------
(***************************************************************************)
(* What the public API keeps between two calls: the tables bound to a      *)
(* pattern, the search state with its persistent VM, and the match object  *)
(* the client reads captures from.  core/src/api.c.                        *)
(*                                                                         *)
(* Three holders retain tables: the pattern (bind_tables), the state       *)
(* (state_set_tables) and the VM registry that mirrors one of the two,     *)
(* rebuilt only when the source or its generation changed.  The pattern's  *)
(* table operations carry positions of the name list that was bound last.  *)
(*                                                                         *)
(* What a search finds is external here (SearchTiers models it): it is one *)
(* of Outcomes.  Bytes are identified by subject, place and length.        *)
(***************************************************************************)
EXTENDS Naturals, Sequences, FiniteSets

CONSTANTS
    Tables,         \* the tables of the client
    Names,          \* the table names in the pattern's operations
    Lists,          \* name lists: sequences of records [name, table]
    Subjects,       \* subjects, each of SUBJECT_LEN bytes
    SUBJECT_LEN,
    Outcomes,       \* [ok, start, regs]: regs are the VM's (var_start, var_end)
    API_MAX_VARS,
    MAX_CALLS,      \* bound on the calls of the client
    NULL

VARIABLES
    refs,      \* reference count of each table
    mine,      \* the tables the client still holds a reference to
    pat,       \* the pattern: bound_tables, bound_tables_gen, ids in the bytecode
    st,        \* the search state and the registry of its VM
    match,     \* the match object: the state's, or the client's when there is no state
    named,     \* what the last bind_tables gave each name
    last,      \* the last search: its outcome, and how names resolved in it
    calls

ASSUME ApiAssumption ==
    /\ API_MAX_VARS \in Nat
    /\ NULL \notin Subjects
    /\ \A o \in Outcomes : Len(o.regs) \in Nat
    /\ \A list \in Lists : [i \in DOMAIN list |-> list[i].table] \in Seq(Tables)

vars == <<refs, mine, pat, st, match, named, last, calls>>

Occurrences(seq, t) == Cardinality({i \in DOMAIN seq : seq[i] = t})
Retained(r, seq) == [t \in Tables |-> r[t] + Occurrences(seq, t)]
Released(r, seq) == [t \in Tables |-> r[t] - Occurrences(seq, t)]

TablesOf(list) == [i \in DOMAIN list |-> list[i].table]

\* vm_get_table: an id outside the registry is no table.
GetTable(registry, id) == IF id \in DOMAIN registry THEN registry[id] ELSE NULL

\* snobol_pattern_bind_bytecode_tables: the first position of the name, or
\* the unbound id.
IdIn(list, n) ==
    LET at == {k \in DOMAIN list : list[k].name = n}
    IN  IF at = {} THEN NULL ELSE CHOOSE k \in at : \A j \in at : k <= j
BindBytecode(list) == [n \in Names |-> IdIn(list, n)]

NoMatch == [success |-> FALSE, var_count |-> 0, subject |-> NULL, base |-> 0,
            off |-> [i \in 1 .. API_MAX_VARS |-> 0],
            len |-> [i \in 1 .. API_MAX_VARS |-> 0],
            value |-> [i \in 1 .. API_MAX_VARS |-> NULL]]
NoState == [alive |-> FALSE, pattern |-> FALSE, bound |-> <<>>, gen |-> 0,
            registry |-> <<>>, synced |-> NULL, short |-> FALSE]
NoSearch == [subject |-> NULL, start |-> 0, regs |-> <<>>, anchored |-> FALSE,
             seen |-> [n \in Names |-> NULL], want |-> [n \in Names |-> NULL],
             short |-> FALSE]

Init ==
    /\ refs = [t \in Tables |-> 1] /\ mine = Tables
    /\ pat = [alive |-> TRUE, bound |-> <<>>, gen |-> 0, ids |-> [n \in Names |-> NULL]]
    /\ st = NoState /\ match = NoMatch
    /\ named = [n \in Names |-> NULL]
    /\ last = NoSearch
    /\ calls = 0

Call == calls < MAX_CALLS /\ calls' = calls + 1

(***************************************************************************)
(* Binding tables.                                                         *)
(***************************************************************************)
\* snobol_pattern_bind_tables: the generation moves first, the old tables
\* are released, the ids patched, the new tables retained.
BindTables(list) ==
    /\ Call /\ pat.alive
    /\ \A i \in DOMAIN list : list[i].table \in mine
    /\ refs' = Retained(Released(refs, pat.bound), TablesOf(list))
    /\ pat' = [pat EXCEPT !.gen = @ + 1, !.bound = TablesOf(list), !.ids = BindBytecode(list)]
    /\ named' = [n \in Names |-> GetTable(TablesOf(list), IdIn(list, n))]
    /\ UNCHANGED <<mine, st, match, last>>

\* No list: the ids stay, and resolve to nothing.
ClearTables ==
    /\ Call /\ pat.alive
    /\ refs' = Released(refs, pat.bound)
    /\ pat' = [pat EXCEPT !.gen = @ + 1, !.bound = <<>>]
    /\ named' = [n \in Names |-> NULL]
    /\ UNCHANGED <<mine, st, match, last>>

\* Bytecode that cannot be walked, or no memory once all ids are patched.
BindTablesFails(list) ==
    /\ Call /\ pat.alive
    /\ \E patched \in {{}, Names} :
         pat' = [pat EXCEPT !.gen = @ + 1, !.bound = <<>>,
                            !.ids = [n \in Names |-> IF n \in patched THEN IdIn(list, n) ELSE @[n]]]
    /\ refs' = Released(refs, pat.bound)
    /\ named' = [n \in Names |-> NULL]
    /\ UNCHANGED <<mine, st, match, last>>

\* snobol_pattern_search_state_set_tables; <<>> clears.
SetTables(tables) ==
    /\ Call /\ st.alive
    /\ \A i \in DOMAIN tables : tables[i] \in mine
    /\ refs' = Retained(Released(refs, st.bound), tables)
    /\ st' = [st EXCEPT !.bound = tables, !.gen = @ + 1]
    /\ UNCHANGED <<mine, pat, match, named, last>>

\* No memory: the old tables are gone and the generation has not moved.
SetTablesFails ==
    /\ Call /\ st.alive
    /\ refs' = Released(refs, st.bound)
    /\ st' = [st EXCEPT !.bound = <<>>]
    /\ UNCHANGED <<mine, pat, match, named, last>>

\* table_release by the client.
ReleaseTable(t) ==
    /\ Call /\ t \in mine
    /\ mine' = mine \ {t} /\ refs' = [refs EXCEPT ![t] = @ - 1]
    /\ UNCHANGED <<pat, st, match, named, last>>

(***************************************************************************)
(* The search state.                                                       *)
(***************************************************************************)
StateCreate ==
    /\ Call /\ pat.alive /\ ~st.alive
    /\ st' = [NoState EXCEPT !.alive = TRUE] /\ match' = NoMatch
    /\ UNCHANGED <<refs, mine, pat, named, last>>

SetPattern(on) ==
    /\ Call /\ st.alive /\ st.pattern # on
    /\ st' = [st EXCEPT !.pattern = on]
    /\ UNCHANGED <<refs, mine, pat, match, named, last>>

\* Fault: the registry's references are not released.
StateDestroyKeepsRegistry ==
    /\ Call /\ st.alive
    /\ refs' = Released(refs, st.bound)
    /\ st' = NoState /\ match' = NoMatch
    /\ UNCHANGED <<mine, pat, named, last>>

StateDestroy ==
    /\ Call /\ st.alive
    /\ refs' = Released(Released(refs, st.registry), st.bound)
    /\ st' = NoState /\ match' = NoMatch
    /\ UNCHANGED <<mine, pat, named, last>>

\* The pattern must outlive the state.
PatternFree ==
    /\ Call /\ pat.alive /\ ~st.alive
    /\ refs' = Released(refs, pat.bound)
    /\ pat' = [pat EXCEPT !.alive = FALSE, !.bound = <<>>]
    /\ named' = [n \in Names |-> NULL]
    /\ UNCHANGED <<mine, st, match, last>>

\* Tables of the state come first, then those of its pattern.
Binding ==
    IF st.bound # <<>> THEN [src |-> "state", gen |-> st.gen, tables |-> st.bound]
    ELSE IF st.pattern /\ pat.bound # <<>>
           THEN [src |-> "pattern", gen |-> pat.gen, tables |-> pat.bound]
           ELSE [src |-> "none", gen |-> 0, tables |-> <<>>]

\* vm_set_tables: the registry grows by 16, so without memory a short list
\* leaves it empty.
Registries(tables) == {tables, <<>>}

\* Fault: the generation is not compared.
SyncedBySource(b) == st.synced # NULL /\ st.synced.src = b.src

\* search_state_sync_tables: the registry afterwards, and whether memory ran out.
Synced(b) == st.synced # NULL /\ st.synced = [src |-> b.src, gen |-> b.gen]

SyncTables ==
    IF Synced(Binding) THEN {st}
    ELSE {[st EXCEPT !.registry = r, !.short = (r # Binding.tables),
                     !.synced = [src |-> Binding.src, gen |-> Binding.gen]]
            : r \in Registries(Binding.tables)}

(***************************************************************************)
(* Results.                                                                *)
(***************************************************************************)
\* The values of the previous call are freed; places and lengths stay.
ClearValues(m) == [m EXCEPT !.success = FALSE, !.var_count = 0,
                            !.value = [i \in 1 .. API_MAX_VARS |-> NULL]]

VarCount(o) == IF Len(o.regs) > API_MAX_VARS THEN API_MAX_VARS ELSE Len(o.regs)

\* match_store_capture for the registers below n: an empty span is skipped.
Stored(o, limit) == {i \in 1 .. VarCount(o) : o.regs[i][2] > o.regs[i][1] /\ o.regs[i][2] <= limit}
StoreCaptures(m, subject, base, o) ==
    LET kept == Stored(o, SUBJECT_LEN - base)
    IN  [m EXCEPT !.subject = IF kept = {} THEN @ ELSE subject,
                  !.base    = IF kept = {} THEN @ ELSE base,
                  !.off     = [i \in DOMAIN @ |-> IF i \in kept THEN o.regs[i][1] ELSE @[i]],
                  !.len     = [i \in DOMAIN @ |-> IF i \in kept THEN o.regs[i][2] - o.regs[i][1] ELSE @[i]],
                  !.value   = [i \in DOMAIN @ |-> IF i \in kept THEN NULL ELSE @[i]]]

\* The verdict and the number of variables.
Entered(m, o) == [m EXCEPT !.success = o.ok, !.var_count = VarCount(o)]

\* Fault: the registers are taken as relative to the subject.
ResultFromSubject(m, subject, o) ==
    IF o.ok THEN StoreCaptures(Entered(m, o), subject, 0, o) ELSE Entered(m, o)

\* The registers are relative to the match; a failed search has none.
Result(m, subject, o) ==
    IF o.ok THEN StoreCaptures(Entered(m, o), subject, o.start, o) ELSE Entered(m, o)

Resolved(registry) == [n \in Names |-> GetTable(registry, pat.ids[n])]
Wanted == IF st.bound # <<>> THEN Resolved(st.bound)
          ELSE IF st.pattern THEN named ELSE [n \in Names |-> NULL]

Searched(subject, o, anchored, registry, want, short) ==
    last' = [subject |-> subject, start |-> o.start, regs |-> IF o.ok THEN o.regs ELSE <<>>,
             anchored |-> anchored, seen |-> Resolved(registry), want |-> want, short |-> short]

\* snobol_pattern_search_ex.
SearchEx(subject, o) ==
    /\ Call /\ st.alive
    /\ \E s \in SyncTables :
         /\ st' = s
         /\ refs' = IF Synced(Binding) THEN refs
                    ELSE Retained(Released(refs, st.registry), s.registry)
         /\ match' = Result(ClearValues(match), subject, o)
         /\ Searched(subject, o, FALSE, s.registry, Wanted, s.short)
    /\ UNCHANGED <<mine, pat, named>>

\* snobol_pattern_search_ex_anchored: registers are taken as relative to the
\* subject, and stored after a failure too.
SearchExAnchored(subject, o) ==
    /\ Call /\ st.alive
    /\ \E s \in SyncTables :
         /\ st' = s
         /\ refs' = IF Synced(Binding) THEN refs
                    ELSE Retained(Released(refs, st.registry), s.registry)
         /\ match' = StoreCaptures(Entered(ClearValues(match), o), subject, 0, o)
         /\ Searched(subject, o, TRUE, s.registry, Wanted, s.short)
    /\ UNCHANGED <<mine, pat, named>>

\* A VM of its own: the registry is built from the pattern and released at
\* the end of the call, and the match object starts empty.
OwnVm(subject, o, anchored) ==
    /\ Call /\ pat.alive /\ ~st.alive
    /\ \E r \in Registries(pat.bound) :
         Searched(subject, o, anchored, r, named, r # pat.bound)
    /\ UNCHANGED <<refs, mine, pat, st, named>>

\* snobol_pattern_match.
PatternMatch(subject, o) ==
    OwnVm(subject, o, TRUE) /\ match' = Result(NoMatch, subject, o)
\* snobol_pattern_search.
PatternSearch(subject, o) ==
    OwnVm(subject, o, FALSE) /\ match' = Result(NoMatch, subject, o)
\* snobol_match_reset.
MatchReset(m) == NoMatch
\* snobol_pattern_search_reuse.
SearchReuse(subject, o) ==
    OwnVm(subject, o, FALSE) /\ match' = Result(MatchReset(match), subject, o)

\* What snobol_match_get_variable returns: the copy made before, or a new
\* one of the bytes the register stands for.
ValueOf(i) ==
    IF match.value[i] # NULL THEN match.value[i]
    ELSE IF match.subject = NULL THEN NULL
    ELSE [subject |-> match.subject, from |-> match.base + match.off[i], len |-> match.len[i]]
GetVariable(i) ==
    /\ match.success /\ i <= match.var_count
    /\ match' = [match EXCEPT !.value[i] = ValueOf(i)]
    /\ UNCHANGED <<refs, mine, pat, st, named, last, calls>>

Search(subject, o) ==
    \/ SearchEx(subject, o) \/ SearchExAnchored(subject, o)
    \/ PatternMatch(subject, o) \/ PatternSearch(subject, o) \/ SearchReuse(subject, o)

Next ==
    \/ \E list \in Lists : BindTables(list) \/ BindTablesFails(list) \/ SetTables(TablesOf(list))
    \/ ClearTables \/ SetTables(<<>>) \/ SetTablesFails
    \/ \E t \in Tables : ReleaseTable(t)
    \/ StateCreate \/ StateDestroy \/ PatternFree
    \/ \E on \in BOOLEAN : SetPattern(on)
    \/ \E subject \in Subjects, o \in Outcomes : Search(subject, o)
    \/ \E i \in 1 .. API_MAX_VARS : GetVariable(i)

Spec == Init /\ [][Next]_vars

-----------------------------------------------------------------------------
\* Every table is retained once by the client and once per entry of the
\* pattern's binding, the state's binding and the VM registry: whatever the
\* order of binding, rebinding, failing, searching and freeing, no table is
\* freed while an id can reach it and none is leaked.
RefsExact ==
    \A t \in Tables :
        refs[t] = (IF t \in mine THEN 1 ELSE 0)
                  + Occurrences(pat.bound, t) + Occurrences(st.bound, t) + Occurrences(st.registry, t)

\* A search resolves each table name to the table that was last bound to it,
\* through the ids in the bytecode and the cached registry of the VM; only a
\* registry cut short for want of memory makes a name resolve to nothing,
\* and none ever resolves to another table.
NamesResolve ==
    \A n \in Names :
        last.seen[n] = last.want[n] \/ (last.short /\ last.seen[n] = NULL)

\* The client reads the bytes of the last match from every capture that is
\* not empty, however many searches and reads the match object has seen.
\* Registers of an anchored search are right for a match at offset 0.
CaptureRight ==
    match.success /\ (last.anchored /\ st.alive => last.start = 0) =>
        \A i \in 1 .. match.var_count :
            i \in Stored([regs |-> last.regs], SUBJECT_LEN - last.start) =>
                ValueOf(i) = [subject |-> last.subject, from |-> last.start + last.regs[i][1],
                              len |-> last.regs[i][2] - last.regs[i][1]]
=============================================================================
