# A TLA+ verification project for libsnobol4

libsnobol4 compiles SNOBOL4 patterns to bytecode and runs them with a
backtracking virtual machine; a search first derives metadata from the code and
picks one of eleven engines ("tiers") that may skip most of the subject. This
directory models the parser, the code generator, the virtual machine, the search
tiers and the stateful part of the public API, checks them with TLC on small
instances, and proves central safety properties with TLAPS for all values of the
parameters. All paths below are
relative to the repository root.

## 1. The system and its parts

| part | files | state it keeps | operations |
|---|---|---|---|
| lexer, parser, AST | `core/src/lexer.c`, `parser.c`, `ast.c` | token cursor, tree | parse, build, free |
| code generator | `core/src/compiler_codegen.c`, `compiler_analysis.c` | code buffer, label table, loop counter, class list (file-scope statics) | emit one node, patch, fuse alternations |
| builder compiler | `core/src/compiler.c`, `pattern_build.c` | the same, from PHP arrays | compile |
| VM executor | `core/src/vm_exec.c`, `core/include/snobol/vm.h` | `ip`, `pos`, captures, variables, loop counters, output, tables | one handler per opcode |
| backtracking store | `core/src/vm_choice.c`, `vm_capture.c` | choice stack on a paged arena, undo trail | push, pop, cut, replay, reset |
| associative table, array | `core/src/table.c`, `array.c` | open-addressing slots, sparse elements | set, get, delete, clear, resize |
| dynamic pattern cache | `core/src/dynamic_pattern.c`, `OP_DYNAMIC` | bucket chains, reference counts | get, put, evict, remove, clear |
| search tiers | `core/src/search_tiers.c`, `search_meta.c`, `search_fusion.c`, `search_simd.c` | metadata of a pattern, scan positions | choose a tier, scan, verify with the VM |
| public API | `core/src/api.c` | contexts, pattern handles, table bindings, search states with a VM and its table registry, match objects, batch results | compile, bind, match, search, batch, read captures, free |
| PHP binding | `bindings/php/src/*` | objects around the above, pattern cache, iterators | marshal, iterate |

How they interact: the compiler hands a code array (with trailing class and
label tables) to the executor; every executor handler works on the backtracking
store by direct calls; the search tiers call the executor at the positions they
consider possible; the API owns the compiled pattern and its lazily built search
metadata; host callbacks (`eval_fn`) run inside a match.

What is hard here is not concurrency. A context belongs to one thread (the
README's thread-safety table says so) and nothing is persisted. The hard part
is *what survives backtracking*: every handler writes registers that an
alternative abandoned hundreds of steps later must give back; two
representations of a choice point (undo trail, partial snapshot) must agree;
loops decide from counters and positions that a pop may or may not have restored
whether they go round again; records of differing sizes cross arena pages; and
optimisations (alternation fusion, the greedy-span shortcut) must not change the
language matched.

Around the VM the hard part is *agreement of several derivations of the same
thing*: the metadata must describe the code it was derived from, each tier must
answer what the VM would have answered at the leftmost offset, the registry of a
persistent VM must mirror tables that were bound through another object, the
captures of a reused match object must be those of the last search, and the
parser must agree with itself about a token it has put back. `PROJECT.json` lists these hazards at the lines where they
bite.

## 2. Modules

| module | models | composed of |
|---|---|---|
| `ChoiceStore` | registers, trail, choice stack, both modes, and every register write of the executor with its undo records | |
| `PatternVM` | the executor, one action per opcode, restart on another subject | extends `ChoiceStore` |
| `PatternCodegen` | AST to instructions, alternation fusion | |
| `MCPatternVM` | instances, the reference matcher, the properties that mention it | extends `PatternVM`, instantiates `PatternCodegen` |
| `ChoiceArena` | the pages below the choice stack, word by word | refines `RecordStack` |
| `RecordStack` | what the arena promises: a stack | |
| `MCChoiceArena` | instances of the arena | extends `ChoiceArena` |
| `HashTable` | the associative table: probing, deletion, resizing slot by slot | |
| `MCHashTable` | three keys with colliding hashes; seven that fill the first array | extends `HashTable` |
| `DynPatternCache` | reference-counted patterns, their cache, nested runs, a host | |
| `MCDynPatternCache` | a cache of two entries for three sources | extends `DynPatternCache` |
| `PatternTrees` | constructors of pattern trees for the instances | |
| `SearchTask` | a search: subject, offset, registers | |
| `SearchMeta` | the metadata derived from code, eligibility of the tiers, the cost model | |
| `SearchVM` | the light backtracking VM of the search-VM tier | extends `SearchTask` |
| `PikeScan` | the one-pass thread scan | extends `SearchTask` |
| `SearchDFA` | subset construction and its walks | extends `SearchTask`, `SearchMeta` |
| `SearchTiers` | one search: filters, tier selection, the tiers' restart loops | composes the five above |
| `MCSearch` | programs for every tier, the reference meaning of a pattern | extends `SearchTiers`, instantiates `PatternCodegen` |
| `SearchState` | table bindings, search state, match object | |
| `BatchSearch` | one batch call and its growing arrays | |
| `MCApi` | instances of both | extends `SearchState`, `BatchSearch` |
| `PatternLexer` | lexemes, lookahead, context of `[`, error, save and restore | |
| `PatternParser` | the recursive descent, one step between two calls | extends `PatternLexer` |
| `MCPatternParser` | sources, their trees, a grammar of a sublanguage | extends `PatternParser` |
| `PatternVM_proofs`, `ChoiceArena_proofs`, `HashTable_proofs`, `DynPatternCache_proofs`, `SearchApi_proofs`, `PikeScan_proofs`, `SearchTiers_proofs`, `SearchInside_proofs` | theorems | extend the module they are about; `PatternVM_proofs` is about `ChoiceStore` too, `SearchApi_proofs` about `SearchState` and `BatchSearch`, `SearchInside_proofs` about `SearchTiers` |

A definition whose comment begins with *Fault* is not part of a specification.
It is a variant of the definition that follows it, with a mistake a programmer
could make there; `PROJECT.json` (`mutants`) says which property rejects it.

## 3. How state and actions correspond to the code

**ChoiceStore.** The VM's register arrays (`cap_start`, `cap_end`, `var_start`,
`var_end`, `counters`, `loop_last_pos`) are one function `reg`. `trail` is the
undo trail, `choices` the stack of choice records; in compact mode a record is
used through its `trail_base`, in snapshot mode through its `snap`. (The
snapshot is stored in both modes so that properties can refer to it; in compact
mode no action reads it.) `PushChoice`, `PopChoice`, `CutChoices`, `Release` and
`Restart` are `vm_push_choice`, `vm_pop_choice`, `vm_arena_reset`, the end of
`vm_run` and `snobol_vm_reset`. Each register write of a handler is an action
with exactly the undo records that handler makes: two for a capture end that is
also published as a variable, none for `OP_REPEAT_INIT`. `StoreSpec` allows an
executor to use the store in any order, and is thus the abstract specification
of what every handler may do.

**PatternVM.** One action per opcode. Its guard fetches the instruction at `ip`,
its body is the whole handler with its early exits; `Backtrack` is the pop at
the end of most handlers. `PopAndLeave` is what the handlers do that pop a
choice and then execute `break`: in the computed-goto build this leaves the
dispatch loop and the run returns false. Addresses are indices of instructions,
a subject is a sequence of bytes, classes are sets of code points; UTF-8
decoding is done as in `utf8_peek_next`, continuation bytes unchecked. The host
callback of `EVAL` may answer anything. `Rerun` resets the VM and runs it again.

**PatternCodegen.** `EmitNode` mirrors `emit_node_c` case by case and `Compile`
adds the label table and the fusion pass. It is written with recursive
operators, so it is used by TLC only. It works on instructions where the code works
on bytes: the fusion pass of the code also looks at bytes of operands and literals
that happen to equal `OP_SPLIT`.

**ChoiceArena.** Pages of words, with the size word before and after each
record. `Push`, `Pop`, `Reset` and `Depth` are `vm_arena_alloc` with the write of
the payload, `vm_arena_pop_last`, `vm_arena_reset` and `vm_choice_stack_depth`.
`recs` is a history variable: what was pushed and where it was put.

**HashTable.** `entries`, `capacity`, `size` and `tombstones` are the fields of
`snobol_table_t`. `table_set_ex` takes several steps (call, one per rehashed
slot, end of the resize, store) so that the array being filled can be examined;
nothing else runs in between. `contents` (what a map would hold) and `cut` (a
deletion has emptied a slot on another key's probe path) are history variables.

**DynPatternCache.** `heap` gives each address its pattern and count, `buckets`
the chains, `frames` the nested runs of `OP_DYNAMIC`, the innermost last. When a
run fails, `failing` is set and the runs around it return one by one, as
`goto fail_ret` makes them. Pattern and entry allocations may fail. The host may
get, create, put, remove, release and clear between any two VM steps, which
covers both callbacks and use between matches.

**SearchMeta, SearchTiers.** `DeriveMeta` is `snobol_search_derive_meta` as a
function of the program: literal prefix, start bitmap, minimum length, required
literal, alternation leaves, fusion segments, eligibilities. `SelectTier` is the
cost model. A search starts in `SearchExec`, which applies the short cuts and
the prefilter; `DispatchTier` enters the tier; each turn of a tier's loop over
the offsets is a step; an engine that runs at an offset (`SearchVM`, `PikeScan`)
runs step by step, the automaton in one step, and the full VM is the operator
`VmExec`, for which the instance substitutes the reference meaning (`vm_compact`
checks the VM against such a reference). `VmRegs` is what it does to its
registers: `left` holds them between attempts, because `search_reset_vm` only
lowers the numbers of those in use. `task.cost` lets a short subject take
the tier of a long one: the thresholds of the cost model are the code's.

**SearchVM, PikeScan, SearchDFA.** One action per opcode; choices of the search
VM hold copies of captures and variables but not of loop registers, as in the
code; registers that the analysis did not see written begin with `Garbage`, and
a choice for which there is no memory (`MAX_CHOICES`) is not stored. Threads of the Pike scan share a fixed number of register slabs, and
forking, deferring and dying move or release them. `PikeSpec` is the scan by
itself, for programs as it decodes them (`Loaded`); a search is shown to use it
that way. The automaton is built from the same instructions with the operand
bytes `get_op_bytes` computes.

**SearchState.** `refs` counts references per table, `pat`, `st` and `match` are
the fields of pattern, search state and match object that outlive a call. A
binding stores in the bytecode the position of each name in the list bound last,
hence `ids`; the registry the VM indexes is a copy of the state's or pattern's
binding, labelled with source and generation (`synced`). What a search finds is
one of `Outcomes`. `named`, `last` and `mine` are history variables. Allocation
may fail wherever the code asks for memory for tables; a registry that could not
grow is `short`.

**BatchSearch.** One turn of `batch_run`'s loop is a step that records a match in
arrays that double when full; `outside` collects writes behind the end of an
allocation. A row of captures doubles on its own, when its register is set. Any match behind the offset may come next.

**PatternLexer, PatternParser.** The parser's call stack is `stack`, a frame per
active parse function; a step is the code from one call to the next. A source is
a sequence of lexemes, so scanning characters is left out, but the context test
that tells a table key from a class, the lookahead, its save and restore, and the
error that a restore does not undo are there. Trees are records without texts
and positions.

## 4. What each run checks

| run | expected | what it shows |
|---|---|---|
| `vm_compact` | pass | In the default mode, for every pattern tree and subject of the instance and for two runs of one VM: the verdict and end position are those of the reference matcher (`FirstOutcome`), no capture or variable keeps what an abandoned alternative wrote (`AbandonedWritesUndone`), the trail restores *any* live choice (`Restoration`, `BasesOrdered`), the replay computed in closed form is the loop of the code (`ReplayIsLoop`), every position stays inside the subject (`StoreTypeOK`), the depth statistic is never too small (`LiveDepthCovers`), every step is one the store permits (`StoreSpec`), a pop gives back what it must (`PopRestores`) and every run returns (`Terminates`). |
| `vm_legacy` | pass | The same programs without SPAN loops in snapshot mode with `keep_choices`, although registers above the marks of a record are not restored: the verdict and end position of the reference (`FirstOutcome`), every capture the first outcome writes as it writes it (`OutcomeCaptures`; what it does not write may keep a value of an alternative given up, section 6), and termination (`Terminates`). |
| `span_body` | violation | See 6.1. |
| `arena` | pass | The arena is a stack (`IsStack`), the walk over size words finds the true depth (`DepthExact`), the byte counts that decide whether anything is left are exact (`Accounting`). |
| `table` | pass | However the counters `size` and `tombstones` have come to differ from what is in the slots, one slot is always free, so searches end (`ProbeEnds`; seven keys in an array of eight that does not double); a write is visible to the next lookup (`OwnWriteVisible`); until a deletion cuts a path the table is a map (`MapUntilCut`). |
| `table_delete` | violation | See 6.2. |
| `dyn_cache` | pass | Counts equal the references that exist (`RefcountExact`), a nested run's code is never freed or replaced under it (`RunsOwnCode`), the cache is bounded and without duplicates (`CacheExact`). |
| `search` | pass | For every program, subject, entry point and cost regime of the instance: a result that is not the Pike scan's or the automaton's is the first outcome of the pattern at the leftmost offset that has one, with its captures, and no match means there is none (`LeftmostFirst`); what the Pike scan and the automaton find is an outcome of the pattern at that offset, and the first one there when all end at one place, and the captures of the scan fit it (`PikeOutcome`, `DfaOutcome`; that it need not be the first is 6.3). The three exempt the faults of section 6 by name, each no wider than the fault. Slabs are neither lost nor shared (`SlabsBalanced`), no waiting thread is behind the position, where the next pass would drop it (`NoneBehind`), and the search calls and steps the scan as its own specification says (`PikeSpec`); admitted literal sets fit the trie (`TrieFits`); where the analysis of the pattern is right, the filters and hops of the tiers skip no offset at which the check would have succeeded (`SkipsNothing`); the match reported, whichever engine found it, lies inside the subject, not before the start asked for and not ending before it starts, whatever the analysis says (`ResultInside`); every search ends (`Terminates`). |
| `as_vm_exec` | violation | See 6.3. |
| `api` | pass | In every order of binding, rebinding, failing, searching, releasing and freeing: reference counts equal the holders (`RefsExact`), names resolve to what was bound last (`NamesResolve`), captures read are those of the last match (`CaptureRight`). Batch results list the matches without overlap or repetition, every register a match sets has its place in the row, unless the row could not grow (`BatchExact`), and only output whose buffer could not grow is written outside its memory (`WritesInside`). |
| `parser` | pass | A source is accepted if and only if a grammar written independently of the parser generates it (`AcceptsLanguage`); composed sources give the tree they were built with: precedence, association, capture registers, calls, tables (`ParsesToTree`); every parse returns, except as in 6.4 (`ReturnsUnlessStuck`). |
| `parser_hang` | violation | See 6.4. |

The reference matcher of `MCPatternVM` is written in characters, not bytes, and
lists *all* outcomes of a tree in the order backtracking has to try them. It
shares nothing with the VM but the decoding of one character. Trees that contain
FENCE, ABORT, SUCCEED, EVAL, tables, output or labels have no reference meaning;
for them the store properties and termination are checked.

## 5. Bounds and fairness

*VM.* Subjects of at most three ASCII characters, or four bytes with two-byte
characters; two captures, two variables, three loops; addresses up to 24. Three
characters are enough to make every loop of the instance do two iterations and
give one back, to retry BREAKX twice and to leave a nested loop's choice alive
across a re-entry of the loop. A second run (`MAX_RUNS = 2`) suffices for
anything left over from an earlier one, because the reset state does not depend
on how many came before. `COUNT_MAX`
stands for `UINT32_MAX`, and counters wrap at it as in the code; in the instance
no counter comes near it.

*Arena.* Pages of twelve words with records of six, eight and fourteen words:
pages that fill exactly, that keep a gap, and records larger than a page. Four
records at a time reach three pages.

*Table.* Eight slots growing to sixteen, two keys with the same home slot before
and after the resize and one behind them, wrapping around the end. Tombstones
push the table over the load factor with three keys. `MAX_SIZE` bounds `size`,
which can exceed the number of keys (section 6) and would otherwise grow for
ever. Three keys never come near filling eight slots, so a second instance
(`instance` in `MCHashTable`) has seven, two with one home slot, in an array that
does not double; there only key 1 is deleted and set to NULL, over and over.
Miscounting one entry is enough to fill the array.

*Cache.* Two entries, three sources of which two share a bucket, nested runs two
deep, four addresses: evicting what is running, and handing out an address
again, both happen. Addresses are interchangeable, hence the symmetry set.

*Search.* Subjects of up to three characters over two letters and three longer
ones; from offset zero, from offset one, and anchored; short, medium and long
cost regimes, with and without automaton, so that every tier is selected by some
program. `PIKE_THREAD_BUF` and `PIKE_DEFER_BUF` are 6 (the code has 64), so
that threads are dropped and the scan falls back; `SNOBOL_DFA_MAX_STATES` is 12
and `MAX_LIT_BYTES`, `MAX_TRIE_NODES` 6 and 7 so that automata and tries are
refused; `MAX_PREFIX` and `MAX_FUSION_SEGMENTS` are 2 and 3 and are exceeded.
The programs include those that run into section 6, most of them in `Awkward`; the operators
that exempt them (`OldRegs`, `AnchoredDrift`, `MisreadCursor`,
`RequiredInBranch`, `ForgottenCount`, `FusionStopsShort`, `ForksAhead`,
`NoByteSteps`) say when the fault can show, and the run fails without any one of
them. The only fault whose programs are kept out is that of loops that go round
without progress (section 6); `MAX_CHOICES` (20) is not reached by the others.
`as_vm_exec` asks without exemption for what the code promises, of five programs.

*API.* Two tables, one name bound at two positions, two subjects, five outcomes
(captures empty, non-empty, absent, left by a failure), and histories of
`MAX_CALLS = 6` calls: create, bind, attach, search, rebind, search is the
shortest history in which a stale registry would show. A batch has a subject of
two bytes and first capacities of one (`BATCH_CAP`, `OUT_CAP`), so that arrays,
rows and output all grow, at different matches.

*Parser.* All sequences of up to four lexemes over nine, all sequences of up to
four words in which a naming is one word (`MAX_TOKENS`), sources composed to depth
three, and eight longer ones with each lexeme dropped or spoiled in turn. `MAX_VARS`
is 2 so that registers run out; `MAX_PARTS` bounds the parts a concatenation
records and is never reached.

*Fairness.* Termination needs weak fairness of the one step that is possible: of
`Dispatch` for `vm_run`, of the next step of a search, and of the parser. Each is
a loop or a recursion of the calling thread without waiting, so it continues
whenever a step can be executed. Nothing is assumed about the host: `Rerun` may
never happen, and the API has no liveness property.

## 6. Disagreements found while modelling

1. **Loops that only begin with SPAN** (`span_body`). `OP_REPEAT_STEP` takes the
   "pure OP_SPAN body" shortcut after one look at the first opcode of the body.
   `(SPAN('a') 'b')*` on `abab` then ends where no matching of the pattern ends.
2. **Deletion from a table** (`table_delete`). A deleted slot is called a
   tombstone but marked inactive, and probes stop at inactive slots: deleting
   one of two colliding keys loses the other one.
3. **A search is not repeated `vm_exec`** (`as_vm_exec`), although
   `search_tiers.c:2893` says its semantics are identical to that. TLC reports the
   first disagreement it meets; each of the five programs of the run (`MCFaulty`)
   shows one. `LeftmostFirst`, `PikeOutcome` and `DfaOutcome` state what holds beside
   these.
   * *The required literal.* `snobol_search_derive_meta` keeps the last literal of
     the code although one branch of an alternation jumps past it; the search then
     rejects subjects without it. `'a' (ANY('b') | 'bc')` is not found in `ab`.
   * *Anchored searches.* The start-byte filters of the general and bitmap tiers
     move an anchored search on: `'a' REM` on `ba` matches at 1
     (`search_tiers.c:3858`, `588`), and its captures are then taken as relative to
     the subject.
   * *The Pike scan reports the longest match*: two characters for `LEN(1) | LEN(2)`.
   * *The automaton reports the shortest match*: `abc` for `'ab' ('ca' | 'c')` on
     `abca`.
   * *Captures of an earlier offset.* `search_reset_vm` clears the numbers of
     registers, not the registers: `(('a' . @1 'b') | ('a' . @0 'c')) REM` on `aab`
     matches at 1 with a capture 0 from the attempt at 0.
4. **A token put back over an error** (`parser_hang`). Behind a bare identifier
   the parser looks one token further and restores the lexer. If that token was
   unreadable the error stays set, the lookahead is served without end, and the
   parser loops: `ARB #`, `REM #`, `'a' $ #` never return.

Further disagreements met while modelling; the models do as the code does, and
none of these has a run of its own.

*Virtual machine.* A snapshot record covers the captures below `max_cap_used`, not
"a complete copy" (`vm.h:383`): `('a' . @0 'b') | 'a' . @1` on `a` hands out a
capture 0 of the alternative that was given up. In snapshot mode `SPAN('a')* 'b'` on `a` never returns: the retry
of the greedy-span shortcut depends on `loop_last_pos`, which the pop restores
(`vm_exec.c:1204`). `TABLE_GET` that misses restores the
alternative and then leaves the dispatch loop without trying it, although its
comment says "trigger backtracking" (`vm_exec.c:1714-1717`); `TABLE_SET`,
`ARRAY_GET`, `ARRAY_SET` and the first test of `BAL` are written the same way
(`PopAndLeave`).

*Search*, with the exemption of the run `search` that names it. A search for
`TAB(1) 'b'` misses in `ab` (`MisreadCursor`). The Pike scan finds
`LEN(1) ('cc' | 'ab')` in `ab` (`ForksAhead`); it treats FENCE as nothing and ABORT as
the end of one thread only (`Plain`); it drops the fresh thread when its work list is
full without noting it, and a result found after an overflow is trusted
(`('b')* 'c' | 'x'` on `cx`; `PikeOutcome` asks for no overflow). The automaton consumes
a byte for `LEN(0)` and for an empty class (`NoByteSteps`), and reads a loop's operands
one byte early. The search VM does not restore loop counters on backtracking
(`ForgottenCount`) and leaves registers behind an early terminator unzeroed
(`OldRegs`). Its choices hold no loop registers, so its test for progress compares
with a position of another branch (`search_tiers.c:1797`): `('a' | '')* 'b'`, tried
at an `a` with no `b` behind it, goes round without moving and stores an exit each
time, until memory for choices runs out. The fusion tier misses an empty match at the end of the subject
(`FusionStopsShort`).

*API.* A row of batch captures holds as many entries as it had when its register was
last set, not `match_count` (`snobol.h:161`), and the PHP binding reads up to
`match_count` (`snobol_pattern.c:1098`); `BatchExact` speaks of the entries a row
has, and requires one wherever a match sets the register. A state reused for searches keeps the captures of an earlier one where the
new one is empty (`match_store_capture` returns early): `SPAN('a') . @x BREAK('b')
. @y 'b'` on `aacb`, then on `aab`, leaves `y = "b"`. When the batch output cannot
grow, its capacity has been doubled already and the output is written past the
buffer (`api.c:1698-1712`). A batch that runs out of memory returns false with
`eligible` set, which `snobol.h:150` reads as no match. `batch_run` does not
synchronise the tables. A registry that could not grow stays short and counts as
synchronised (`short` in `SearchState`).

*Parser.* `v64 = 0` and `EMIT(@v64)` are accepted (the test is `>`); a builtin may
be abbreviated to any prefix (`A('x')`); the name of a table is leaked when its key
is malformed.

Smaller observations:
`choice_live_depth` is not lowered by FENCE nor at the end of a run; output
emitted by an abandoned alternative stays; `POS`/`RPOS` clamp to the subject;
label offsets are truncated to 16 bits; `vm.h:535` equates `trail_top` with the
number of live choices, which is not so; a table entry set to NULL without
having existed counts in `size` until the table is cleared; the pattern cache's
"LRU-style" eviction (`dynamic_pattern.h:107`) takes the first entry of the first
non-empty bucket, whatever its age; a nested run that fails ends the match around
it although the opcode's comment promises backtracking.

## 7. What is proved

All theorems hold for every value of the constants satisfying the named
assumptions (`SizesAssumption`, `ProgramsAssumption`, `SubjectsAssumption`,
`ArenaAssumption`, `TableAssumption`, `CacheAssumption`, `ApiAssumption`,
`BatchAssumption`, `PikeAssumption`, `SearchAssumption`, `VmAssumption`), which say that sizes are natural numbers,
that jump targets are addresses, that hash values are natural numbers and buckets
in range, that the table starts with more than four slots (sixteen in the code),
that a cache has room for an entry and a batch array starts with one, and that
name lists are sequences of tables and `NULL` is no subject, source or value.
For a search they say that operands and addresses are unsigned and the exit of a
loop is an address (`Decoded`), that
both branches of a `SPLIT` lie behind it (`Forward`, as `emit_alt_c` places them),
that a program is not empty (it ends in `ACCEPT`), that subjects are sequences of
bytes and a search starts inside its subject (the API and the tiers' entry answer
an offset behind the end before any tier runs), and that the byte budget of the alternation analysis is below the number of trie
nodes (250 and 256 in the code, 6 and 7 in the instance).
`VmAssumption` says of the full VM, which a search calls as an operator, that a
match it reports ends inside the window it was given. That is what
`VMStaysInside` proves of the executor; in the instance, where the reference
meaning stands for the VM, TLC evaluates it for every program and window.

Induction over a sequence or a loop is done by taking the least index at which
the claim fails (`LeastElement` and its likes, from the well-foundedness of the
naturals), because the library's induction theorems are out of the provers'
reach; recursive definitions are recursive functions where they are proved about.

* **Store** (`PatternVM_proofs`). `StoreTypeCorrect`, `BasesStayOrdered`,
  `TrailRestores`, `BacktrackRestores`, `LiveDepthNeverLow`. `Restoration` is
  stated with the replay operator, a choice of the oldest undo record above a
  base; the inductive form (`AllRestore`) says of every live choice and register
  that either the first record above the base holds the saved value, or there is
  none and the register holds it. Writes with an undo record keep it for old
  choices, a push establishes it for the new one, and a pop needs
  `BasesOrdered`: what it cuts off the trail lies above all older bases.
  `ReplayComputesOldest` closes the gap between that choice and the code: after
  `i` rounds the loop of `vm_trail_replay` has computed the replay to a base `i`
  records below the top.
* **Executor** (`PatternVM_proofs`). `VMImplementsStore`: for every program and
  subject each step of the executor is a step of `StoreSpec`. The argument is by
  groups of opcodes; each needs only that the positions computed by scanning lie
  inside the subject. The store's theorems then hold of the executor
  (`VMStaysInside`, `VMTrailRestores`, `VMBacktrackRestores`, `VMKeepsStoreSound`).
* **Arena** (`ChoiceArena_proofs`). `ArenaImplementsStack`, `ArenaAccounts`. The
  invariant is the layout of the live records: each lies untouched in its page,
  with no gap between neighbours in a page, and the newest ends at the fill mark
  of the last page. Without the gap clause a pop could read a stale size word.
  `DepthWalkExact` follows from the layout alone: the walk by leading size words
  stands at the `k`-th live record of a page after `k` steps, and stops at the
  fill mark.
* **Table** (`HashTable_proofs`). `SearchesEnd`. Active slots are at most `size`
  and at most `size + tombstones`; both are needed, because a resize sets
  `tombstones` to zero without recounting `size`, and insertion over an entry
  without a value lowers `tombstones` (below zero, even). During a resize the
  slots in use in the new array are at most the live entries already visited.
  `WritesAreRead` and `TableIsMapUntilCut` add `MapInv`: as long as no deletion
  has cut a path, no slot before an entry on its way is free, no key has two
  entries, and the active entries with a value are the map; during a resize the
  entries moved so far are exactly the live ones among those visited.
* **Pattern cache** (`DynPatternCache_proofs`). `PatternCountsExact`,
  `RunsKeepTheirCode`, `CacheStaysExact`. The three are proved together
  (`CacheInv`), with the chains read as the set of their entries. The *surplus* of
  a pattern is its count less the entries that hold it. Lookups, evictions,
  replacements and clears move counts and entries together and leave every
  surplus as it is; only a reference taken or given back by the machine or the
  host changes one; and a pattern with a surplus is not freed, so a frame keeps
  its source. For the cache's own size the entries are counted by a bijection
  with the places in the chains.
* **API state** (`SearchApi_proofs`). `CountsStayExact`: one lemma
  (`CountsMove`) says that a step preserves the counts if it moves each by what it
  does to the client's reference and the three bindings, and each action is
  shown to. `NamesAlwaysResolve` needs that the label of the registry tells the
  truth (`RegistryFresh`): if source and generation still agree, the registry
  mirrors the binding or was left short; a generation that moves past the label
  can only make it stale, never wrong. It also needs that the ids in the bytecode
  resolve in the pattern's own binding (`IdsResolve`). `CapturesStayRight` follows
  from what storing into a cleared object gives (`StoredRead`) and from reading
  not changing what is read; nothing is assumed about outcomes but that they have
  finitely many registers.
* **Batch search** (`SearchApi_proofs`). `BatchResultExact`,
  `BatchWritesInside`, about one call (`BatchSpec`), for any matches the searches
  may return and any growth that fails. `BatchInv` adds that entries of a row no
  match has reached are zero, that a match a row is too short for did not set it
  or could not grow it, and that the output buffer has the size its capacity says
  until it fails to grow. Doubling reaches every size because a power of two
  exceeds its exponent, which is counted with the subsets of a set.
* **Pike scan** (`PikeScan_proofs`). `SlabsNeverLost`, `NobodyBehind`, for every
  program, subject and buffer size. `PikeInv` says that either a thread runs, its
  cursor at or past the position, or none does, and in both cases that waiting
  threads are ahead and that the slabs of all threads and the free ones are
  `PIKE_THREAD_BUF`, or fewer once `overflowed` is set. A fork pays for its copy, a
  death pays back, every other step moves a thread with what it owns. That the
  partition of the threads at a new position loses none (`SortedKeeps`) needs
  `NoneBehind`, so the two properties are proved together.
* **Search** (`SearchTiers_proofs`). `SearchUsesScan`: a search implements
  `PikeSpec`, because a scan that has begun is never begun again (`ScanUnused`) and
  no tier but the search-VM one touches it; with it the theorems about the scan
  hold in every search (`SearchKeepsThreads`). `TrieNeverFull`: no alternation the
  analysis admits needs more trie nodes than there are. The walk over the `SPLIT`s
  is shown to end and to collect literals of the program (`LeavesAreLiterals`), a
  trie to have no more nodes than bytes and the root (`TrieBound`), and the cost
  model to pick an eligible tier (`TierIsEligible`); the invariant (`TrieAdmitted`)
  is that a search in the trie tier has a program admitted there.
* **Skipping** (`SearchTiers_proofs`). `NothingSkipped`: for the tiers that do not
  try every offset, what is found is at the first offset where the tier's check
  succeeds, and a search that finds nothing had none. The condition
  `AnalysisRight` is what the loops rely on: every match begins with the literal
  prefix, has the minimum length, and so on. The code's analysis does not
  guarantee that (`TAB(1) 'b'`, section 6), so the theorem separates the two: with
  a right analysis the loops are right, for every program, subject and offset,
  and a miss is the analysis's doing. In the run `search` it is wrong, when one of
  these tiers finishes, for TAB and RTAB only. The invariant (`SkipInv`) is that no check
  before the tier's offset succeeds. Each tier's turn is shown to keep it: the hop of
  the BREAK scan by the least offset in the run that would succeed, the Horspool shift by
  comparing the byte under the end of the window with its last place in
  the literal (`HorspoolSkipsNone`), the prefix scan by the first occurrence of
  the prefix (`OccurrenceIsFirst`).
* **Inside the subject** (`PikeScan_proofs`, `SearchInside_proofs`).
  `MatchesInside`: what the Pike scan reports lies inside the subject and does not
  end before it starts. A reported match may be replaced by a longer or an earlier one,
  so the proof says of every opcode whether it touches the match
  (`OthersKeepMatch`) and needs of `OP_ACCEPT` only that the cursor of the running
  thread is between its start and the end of the subject. `ResultsInside`: the same of a
  search, whichever engine answers; nothing is assumed about the analysis. The
  API takes the length of a match as an unsigned difference (`api.c:855`), so an
  engine that broke this would be believed. The invariant
  (`InsideInv`) holds where each engine begins: the Horspool shift and the hops may
  lead the offset behind the end, where their tiers give up; the tiers in
  `InsideTiers` are those whose offset never gets there. Each engine then has its own argument: the search
  VM's cursor and the positions its choices go back to stay in the window
  (`SvmStepInside`), a walk of the automaton ends at a position it has reached
  (`WalkEndInside`), a chain of segments leads from a position to the same or a
  later one, also through an alternation (`FusionInside`, for which the
  segments are traced back to the instructions they come from, `FusedSegments`),
  a literal and a trie path are compared before they are reported (`LiteralInside`,
  `TrieInside`), and the full VM stays in its window (`VmAssumption`).

Model-checked only:

* termination (`Terminates`, `Returns...`): liveness under fairness is outside
  the prover's reach;
* what compares with a recursively defined reference, computed by induction over
  trees: `FirstOutcome`, `OutcomeCaptures`, `AbandonedWritesUndone`, `LeftmostFirst`,
  `PikeOutcome`, `DfaOutcome`, `AcceptsLanguage`, `ParsesToTree`;
* the fusion pass, in the generator, whose recursive operators the prover does
  not take.

## 8. What is not modelled, and the plan

Left out for good: logging, statistics other than the depth, the vector
instructions of the SIMD scan (their property would restate the scalar loop they
replace), Unicode folding tables, splitting characters into lexemes, the version.
Strings of a tree, positions and wording of messages are abstracted. The builder
compiler builds the same trees from PHP arrays and shares the generator. Each
component of `PROJECT.json` says what of it is missing.

Still to do, in this order:

1. *Executor*: nested runs inside `PatternVM` (what survives a nested match of
   the outer run's registers and choices), ARRAY_GET/SET, EMIT_EXPR/TABLE/FORMAT,
   allocation failure of the trail.
2. *Search*: multibyte classes and case-insensitive literals in the metadata.
3. *Builder compiler* against the generator: the same pattern gives equivalent
   code. *Array*, and the PHP side: pattern cache, LRU dynamic cache, search and
   split iterators.
