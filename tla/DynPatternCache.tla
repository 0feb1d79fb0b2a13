-------------------------- MODULE DynPatternCache --------------------------
(***************************************************************************)
(* Dynamic patterns (core/src/dynamic_pattern.c) and the opcodes that use  *)
(* them (OP_DYNAMIC_DEF, OP_DYNAMIC of core/src/vm_exec.c): reference-     *)
(* counted patterns, a cache with bucket chains and a size limit, nested   *)
(* runs of the VM that execute the code of a pattern while the cache       *)
(* changes under them, and a host that holds patterns of its own.          *)
(*                                                                         *)
(* An address whose pattern was freed can be handed out again.  Any        *)
(* allocation may fail where the code provides for it.                     *)
(***************************************************************************)
EXTENDS Integers, Sequences, FiniteSets

CONSTANTS
    Sources,    \* pattern sources
    NULL,       \* no source, no pattern
    Objects,    \* addresses of patterns
    BUCKETS,    \* CACHE_INITIAL_BUCKETS
    Bucket,     \* the bucket a source hashes to
    MAX_SIZE,   \* cache->max_size
    MAX_DEPTH,  \* bound: nested runs
    MAX_HELD    \* bound: references of the host to one pattern

ASSUME CacheAssumption ==
    /\ NULL \notin Sources \cup Objects
    /\ BUCKETS \in Nat \ {0}
    /\ Bucket \in [Sources -> 0 .. BUCKETS - 1]
    /\ MAX_SIZE \in Nat \ {0}
    /\ MAX_DEPTH \in Nat
    /\ MAX_HELD \in Nat

VARIABLES
    heap,     \* the patterns: source and refcount, 0 if the address is free
    buckets,  \* chains of entries, the newest first
    size,     \* cache->size
    pending,  \* vm->dyn_pending_source
    frames,   \* nested runs: what each was asked to match, and its pattern
    failing,  \* a run has taken fail_ret
    held      \* references of the host

vars == <<heap, buckets, size, pending, frames, failing, held>>
cacheVars == <<buckets, size>>

Buckets == 0 .. BUCKETS - 1
Free == [source |-> NULL, refcount |-> 0]

(***************************************************************************)
(* Reference counts.                                                       *)
(***************************************************************************)
Allocated(h) == {o \in Objects : h[o].refcount > 0}

\* dynamic_pattern_create
Create(h, o, s) == [h EXCEPT ![o] = [source |-> s, refcount |-> 1]]

Retain(h, o) == [h EXCEPT ![o].refcount = @ + 1]

\* dynamic_pattern_release frees the pattern with its last reference.
Release(h, o) ==
    [h EXCEPT ![o] = IF h[o].refcount = 1 THEN Free
                     ELSE [source |-> h[o].source, refcount |-> h[o].refcount - 1]]

(***************************************************************************)
(* The cache.                                                              *)
(***************************************************************************)
\* cache_find_entry, as a position in the chain; 0 if there is none.
Find(s) ==
    LET chain == buckets[Bucket[s]]
        at    == {i \in DOMAIN chain : chain[i].source = s}
    IN  IF at = {} THEN 0 ELSE CHOOSE i \in at : \A j \in at : i <= j

Cached(s) == Find(s) # 0
Entry(s)  == buckets[Bucket[s]][Find(s)]

Without(chain, i) == SubSeq(chain, 1, i - 1) \o SubSeq(chain, i + 1, Len(chain))

\* cache_evict_one takes the first entry of the first non-empty bucket.
Victim == CHOOSE b \in Buckets : buckets[b] # <<>> /\ \A c \in Buckets : c < b => buckets[c] = <<>>
Evicts == size >= MAX_SIZE /\ \E b \in Buckets : buckets[b] # <<>>

\* Fault: the cache does not count its own reference.
PutUnretained(h, s, o) ==
    IF Cached(s)
      THEN heap' = h /\ UNCHANGED cacheVars
      ELSE LET bs == IF Evicts THEN [buckets EXCEPT ![Victim] = Tail(@)] ELSE buckets
               h1 == IF Evicts THEN Release(h, Head(buckets[Victim]).pattern) ELSE h
               n  == IF Evicts THEN size - 1 ELSE size
           IN  /\ heap' = h1
               /\ buckets' = [bs EXCEPT ![Bucket[s]] = <<[source |-> s, pattern |-> o]>> \o @]
               /\ size' = n + 1

\* Fault: a source already cached gets a second entry.
PutTwice(h, s, o) ==
    LET bs == IF Evicts THEN [buckets EXCEPT ![Victim] = Tail(@)] ELSE buckets
        h1 == IF Evicts THEN Release(h, Head(buckets[Victim]).pattern) ELSE h
        n  == IF Evicts THEN size - 1 ELSE size
    IN  /\ heap' = Retain(h1, o)
        /\ buckets' = [bs EXCEPT ![Bucket[s]] = <<[source |-> s, pattern |-> o]>> \o @]
        /\ size' = n + 1

\* dynamic_pattern_cache_put of pattern o, h being the heap at the call.  The
\* eviction loop ends after one round (CacheExact: size is at most MAX_SIZE).
\* The entry may fail to be allocated after something was evicted for it.
Put(h, s, o) ==
    IF Cached(s)
      THEN heap' = h /\ UNCHANGED cacheVars
      ELSE LET bs == IF Evicts THEN [buckets EXCEPT ![Victim] = Tail(@)] ELSE buckets
               h1 == IF Evicts THEN Release(h, Head(buckets[Victim]).pattern) ELSE h
               n  == IF Evicts THEN size - 1 ELSE size
           IN  \/ /\ heap' = Retain(h1, o)
                  /\ buckets' = [bs EXCEPT ![Bucket[s]] = <<[source |-> s, pattern |-> o]>> \o @]
                  /\ size' = n + 1
               \/ heap' = h1 /\ buckets' = bs /\ size' = n

\* dynamic_pattern_cache_remove, by the host.
Remove(s) ==
    /\ Cached(s)
    /\ heap' = Release(heap, Entry(s).pattern)
    /\ buckets' = [buckets EXCEPT ![Bucket[s]] = Without(@, Find(s))]
    /\ size' = size - 1
    /\ UNCHANGED <<pending, frames, failing, held>>

\* The references the cache holds to o.
CacheRefs(o) ==
    Cardinality({e \in Buckets \X (1 .. size) :
                    e[2] \in DOMAIN buckets[e[1]] /\ buckets[e[1]][e[2]].pattern = o})

\* dynamic_pattern_cache_clear, by the host.
Clear ==
    /\ heap' = [o \in Objects |->
                  IF heap[o].refcount = CacheRefs(o) THEN Free
                  ELSE [heap[o] EXCEPT !.refcount = @ - CacheRefs(o)]]
    /\ buckets' = [b \in Buckets |-> <<>>]
    /\ size' = 0
    /\ UNCHANGED <<pending, frames, failing, held>>

(***************************************************************************)
(* The opcodes.                                                            *)
(***************************************************************************)
\* OP_DYNAMIC_DEF replaces what is pending, by nothing if a copy cannot be
\* allocated.
DynamicDef(s) ==
    /\ ~failing
    /\ pending' \in {s, NULL}
    /\ UNCHANGED <<heap, cacheVars, frames, failing, held>>

\* goto fail_ret: the run ends, and so do the runs around it.
FailRun == failing' = (frames # <<>>) /\ UNCHANGED frames

Enter(s, o) == frames' = Append(frames, [source |-> s, pattern |-> o]) /\ UNCHANGED failing

\* Fault: a cache hit hands out the cache's own reference.
DynamicHitUnretained ==
    /\ ~failing /\ pending # NULL /\ Cached(pending)
    /\ Len(frames) < MAX_DEPTH
    /\ Enter(pending, Entry(pending).pattern)
    /\ pending' = NULL
    /\ UNCHANGED <<heap, cacheVars, held>>

\* OP_DYNAMIC, cache hit: dynamic_pattern_cache_get retains the pattern and a
\* nested run of its code begins.
DynamicHit ==
    /\ ~failing /\ pending # NULL /\ Cached(pending)
    /\ Len(frames) < MAX_DEPTH
    /\ heap' = Retain(heap, Entry(pending).pattern)
    /\ Enter(pending, Entry(pending).pattern)
    /\ pending' = NULL
    /\ UNCHANGED <<cacheVars, held>>

\* Cache miss: a pattern is made from the pending code and offered to the cache.
DynamicMiss ==
    /\ ~failing /\ pending # NULL /\ ~Cached(pending)
    /\ Len(frames) < MAX_DEPTH
    /\ \E o \in Objects \ Allocated(heap) :
          /\ Put(Create(heap, o, pending), pending, o)
          /\ Enter(pending, o)
    /\ pending' = NULL
    /\ UNCHANGED held

\* Nothing is pending, or the pattern cannot be allocated.  (The handler also
\* gives up a pattern that is not valid, that is, without a byte of code; code
\* that was compiled is never empty, it ends in ACCEPT.)
DynamicFails ==
    /\ ~failing
    /\ pending # NULL => ~Cached(pending)
    /\ FailRun
    /\ UNCHANGED <<heap, cacheVars, pending, held>>

Leave ==
    /\ heap' = Release(heap, frames[Len(frames)].pattern)
    /\ frames' = SubSeq(frames, 1, Len(frames) - 1)
    /\ UNCHANGED <<cacheVars, pending, held>>

\* A nested run matches: the run around it goes on.
RunMatches == frames # <<>> /\ ~failing /\ Leave /\ UNCHANGED failing

\* A nested run fails, by itself or because one inside it has: OP_DYNAMIC takes
\* fail_ret in the run around it.
RunFails == frames # <<>> /\ Leave /\ failing' = (Len(frames) > 1)

(***************************************************************************)
(* The host, between runs and from callbacks of a run: not while failing   *)
(* runs return.  It caches a pattern under the source it was made from.    *)
(***************************************************************************)
HostGet(s) ==
    /\ Cached(s)
    /\ held[Entry(s).pattern] < MAX_HELD
    /\ heap' = Retain(heap, Entry(s).pattern)
    /\ held' = [held EXCEPT ![Entry(s).pattern] = @ + 1]
    /\ UNCHANGED <<cacheVars, pending, frames, failing>>

HostCreate(s) ==
    /\ MAX_HELD > 0
    /\ \E o \in Objects \ Allocated(heap) :
          /\ heap' = Create(heap, o, s)
          /\ held' = [held EXCEPT ![o] = 1]
    /\ UNCHANGED <<cacheVars, pending, frames, failing>>

HostPut(o) ==
    /\ held[o] > 0
    /\ Put(heap, heap[o].source, o)
    /\ UNCHANGED <<pending, frames, failing, held>>

HostRelease(o) ==
    /\ held[o] > 0
    /\ heap' = Release(heap, o)
    /\ held' = [held EXCEPT ![o] = @ - 1]
    /\ UNCHANGED <<cacheVars, pending, frames, failing>>

(***************************************************************************)
(* The system.                                                             *)
(***************************************************************************)
\* dynamic_pattern_cache_init, and a VM that uses the cache.
Init ==
    /\ heap = [o \in Objects |-> Free]
    /\ buckets = [b \in Buckets |-> <<>>]
    /\ size = 0
    /\ pending = NULL
    /\ frames = <<>>
    /\ failing = FALSE
    /\ held = [o \in Objects |-> 0]

VMStep ==
    \/ \E s \in Sources : DynamicDef(s)
    \/ DynamicHit \/ DynamicMiss \/ DynamicFails \/ RunMatches \/ RunFails

HostStep ==
    /\ ~failing
    /\ \/ \E s \in Sources : Remove(s) \/ HostGet(s) \/ HostCreate(s)
       \/ \E o \in Objects : HostPut(o) \/ HostRelease(o)
       \/ Clear

Next == VMStep \/ HostStep

Spec == Init /\ [][Next]_vars

(***************************************************************************)
(* Properties.                                                             *)
(***************************************************************************)
FrameRefs(o) == Cardinality({i \in DOMAIN frames : frames[i].pattern = o})

\* The count of a pattern is the number of cache entries, nested runs and host
\* references that point to it: with one too few it would be freed in use, with
\* one too many never.
RefcountExact ==
    \A o \in Objects : heap[o].refcount = CacheRefs(o) + FrameRefs(o) + held[o]

\* A nested run executes the code it was started for, to its end: its pattern
\* is neither freed nor replaced by another one at the same address, whatever
\* is evicted, removed or cleared meanwhile.
RunsOwnCode ==
    \A i \in DOMAIN frames : heap[frames[i].pattern].source = frames[i].source

\* The cache counts its entries, keeps to its limit, and has at most one entry
\* for a source, whose pattern is of that source.
CacheExact ==
    LET places == {e \in Buckets \X (1 .. MAX_SIZE + 1) : e[2] \in DOMAIN buckets[e[1]]}
        at(e)  == buckets[e[1]][e[2]]
    IN  /\ size = Cardinality(places)
        /\ size <= MAX_SIZE
        /\ \A e \in places : /\ heap[at(e).pattern].source = at(e).source
                             /\ \A f \in places : at(e).source = at(f).source => e = f
=============================================================================
