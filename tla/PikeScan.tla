------------------------------ MODULE PikeScan ------------------------------
(***************************************************************************)
(* The single-pass scan of core/src/search_tiers.c (pike_scan): threads of *)
(* the program, one more started at every position, advanced together from *)
(* position 0 to the end of the subject.  A thread [ip, pos, start, cold]  *)
(* owns a slab of registers, cold, from its first register operation on.   *)
(* Positions are absolute.  One action per opcode; tp is the cursor of     *)
(* the thread that is running, pos the position the scan has reached; of   *)
(* the work list, taken threads have been run and work are still to run.   *)
(***************************************************************************)
EXTENDS SearchTask

CONSTANTS
    PIKE_THREAD_BUF,   \* threads, work list and slabs
    PIKE_DEFER_BUF     \* threads that have moved past the position

ASSUME PikeAssumption ==
    /\ PIKE_THREAD_BUF \in Nat
    /\ PIKE_DEFER_BUF \in Nat

VARIABLES
    pike   \* [status, pos, carry, work, taken, defer, free, th, ip, tp,
           \*  found, start, end, regs, overflowed, zero]

NoCold == [none |-> TRUE]
NoThread == [ip |-> 0, pos |-> 0, start |-> 0, cold |-> NoCold]
PikeIdle == [status |-> "idle"]

\* The scan before position 0.
PikeStart ==
    [status |-> "merge", pos |-> -1, carry |-> <<>>, work |-> <<>>, taken |-> 0,
     defer |-> <<>>, free |-> PIKE_THREAD_BUF, th |-> NoThread, ip |-> 0, tp |-> 0,
     found |-> FALSE, start |-> 0, end |-> 0, regs |-> ZeroRegs,
     overflowed |-> FALSE, zero |-> FALSE]

(***************************************************************************)
(* The position loop.                                                      *)
(***************************************************************************)
\* The threads of ts at position p, for the work list, and those further ahead.
Sorted(ts, p) ==
    LET sort[i \in 0 .. Len(ts)] ==
          IF i = 0 THEN [work |-> <<>>, carry |-> <<>>]
          ELSE LET t == ts[i]
                   s == sort[i - 1]
               IN  CASE t.pos = p -> [s EXCEPT !.work = Append(s.work, t)]
                     [] t.pos > p -> [s EXCEPT !.carry = Append(s.carry, t)]
                     [] t.pos < p -> s
    IN  sort[Len(ts)]

FreshThread(p) == [ip |-> 1, pos |-> p, start |-> p, cold |-> NoCold]

\* A full work list leaves no room for the new thread.
Spawn(work, p) ==
    IF Len(work) < PIKE_THREAD_BUF THEN Append(work, FreshThread(p)) ELSE work

\* Merge carried and deferred threads, go to the next position, split the
\* threads into those that continue here and those further ahead.
NextPosition ==
    /\ pike.status = "merge"
    /\ LET all  == pike.carry \o pike.defer
           fits == Len(all) <= PIKE_THREAD_BUF
           ts   == IF fits THEN all ELSE SubSeq(all, 1, PIKE_THREAD_BUF)
           p    == pike.pos + 1
           over == pike.overflowed \/ ~fits
       IN  pike' = IF p > SLen
                     THEN [pike EXCEPT !.status = "done", !.overflowed = over,
                                       !.carry = <<>>, !.defer = <<>>, !.taken = 0]
                     ELSE [pike EXCEPT !.status = "next", !.pos = p, !.overflowed = over,
                                       !.work = Spawn(Sorted(ts, p).work, p),
                                       !.carry = Sorted(ts, p).carry,
                                       !.defer = <<>>, !.taken = 0]

\* The next thread of the work list; its cursor is the position of the scan.
TakeThread ==
    /\ pike.status = "next"
    /\ pike' = IF pike.work = <<>> THEN [pike EXCEPT !.status = "merge"]
               ELSE LET t == Head(pike.work)
                    IN  [pike EXCEPT !.status = "run", !.work = Tail(@),
                                     !.taken = @ + 1, !.th = t, !.ip = t.ip, !.tp = pike.pos]

(***************************************************************************)
(* Slabs.                                                                  *)
(***************************************************************************)
HasCold(t) == t.cold # NoCold

\* Fault: a thread that dies keeps its slab.
DieKeepingSlab(k) == [k EXCEPT !.status = "next", !.th = NoThread]

\* pike_die: the slab goes back to the pool.
Die(k) == [k EXCEPT !.status = "next", !.th = NoThread,
                    !.free = @ + IF HasCold(k.th) THEN 1 ELSE 0]

\* pike_cold_acquire for the running thread; k is unchanged but for the
\* overflow flag when the pool is exhausted.
Materialize(k) ==
    IF HasCold(k.th) THEN k
    ELSE IF k.free = 0 THEN [k EXCEPT !.overflowed = TRUE]
    ELSE [k EXCEPT !.free = @ - 1, !.th.cold = ZeroRegs]

\* Whether a fork of the running thread can have its own copy of the slab.
CanFork(k) == HasCold(k.th) => k.free > 0
Forked(k)  == [k EXCEPT !.free = @ - IF HasCold(k.th) THEN 1 ELSE 0]

(***************************************************************************)
(* Operations that keep the thread running.                                *)
(***************************************************************************)
PikeFetch(ops) == pike.status = "run" /\ pike.ip <= Len(Code) /\ Code[pike.ip].op \in ops
Op == Code[pike.ip]
Onward(k) == [k EXCEPT !.ip = @ + 1]
KeepIf(ok, p) == pike' = IF ok THEN [Onward(pike) EXCEPT !.tp = p] ELSE Die(pike)

PikeEndOfCode == pike.status = "run" /\ pike.ip > Len(Code) /\ pike' = Die(pike)
PikeNop    == PikeFetch({"NOP", "FENCE"}) /\ KeepIf(TRUE, pike.tp)
PikeAnchor == /\ PikeFetch({"ANCHOR"})
              /\ KeepIf(pike.tp = IF Op.type = "start" THEN pike.th.start ELSE SLen, pike.tp)

\* The cursor operations count from the ends of the subject, and a target
\* beyond it is its end.
AbsTarget(n)  == IF n < SLen THEN n ELSE SLen
PikePos    == /\ PikeFetch({"POS", "RPOS"})
              /\ LET target == IF Op.op = "POS" THEN AbsTarget(Op.n) ELSE SLen - AbsTarget(Op.n)
                 IN  KeepIf(pike.tp = target, pike.tp)
PikeTab    == /\ PikeFetch({"TAB"})
              /\ LET target == AbsTarget(Op.n)
                 IN  KeepIf((target < SLen \/ Op.n = 0) /\ pike.tp <= target, target)
PikeRtab   == /\ PikeFetch({"RTAB"})
              /\ LET target == SLen - AbsTarget(Op.n)
                 IN  KeepIf(pike.tp <= target, target)
PikeLen    == PikeFetch({"LEN"}) /\ KeepIf(pike.tp + Op.n <= SLen, pike.tp + Op.n)
PikeJmp    == PikeFetch({"JMP"}) /\ pike' = [pike EXCEPT !.ip = Op.target]

\* A register operation; the thread dies when it gets no slab.
Register(R(_), used) ==
    LET k == Materialize(pike)
    IN  pike' = IF ~used THEN Onward(pike)
                ELSE IF ~HasCold(k.th) THEN Die(k)
                ELSE Onward([k EXCEPT !.th.cold = R(@)])
PikeCapStart == PikeFetch({"CAP_START"})
                /\ Register(LAMBDA R : WithCapStart(R, Op.r, pike.tp), Op.r < MAX_CAPS)
PikeCapEnd   == PikeFetch({"CAP_END"})
                /\ Register(LAMBDA R : WithCapEnd(R, Op.r, pike.tp), Op.r < MAX_CAPS)
PikeAssign   == PikeFetch({"ASSIGN"})
                /\ Register(LAMBDA R : WithAssign(R, Op.var, Op.r),
                            Op.var < MAX_VARS /\ Op.r < MAX_CAPS)

\* The second branch goes to the end of the work list, where it starts again
\* at the position of the scan, whatever the cursor was.
PikeSplit ==
    /\ PikeFetch({"SPLIT"})
    /\ pike' = IF pike.taken + Len(pike.work) < PIKE_THREAD_BUF /\ CanFork(pike)
                 THEN [Forked(pike) EXCEPT
                          !.ip = Op.a,
                          !.work = Append(@, [pike.th EXCEPT !.ip = Op.b, !.pos = pike.tp])]
                 ELSE [pike EXCEPT !.ip = Op.a, !.overflowed = TRUE]

\* Loops are not supported: overflow asks for the fallback.
PikeRepeatInit ==
    /\ PikeFetch({"REPEAT_INIT"})
    /\ LET k == [Materialize(pike) EXCEPT !.overflowed = TRUE]
       IN  pike' = Onward(IF HasCold(k.th)
                            THEN [k EXCEPT !.th.cold.loop[Op.loop] = <<0, 0>>] ELSE k)

PikeRepeatStep ==
    /\ PikeFetch({"REPEAT_STEP"})
    /\ LET k == IF Op.loop < MAX_LOOPS THEN Materialize(pike) ELSE pike
       IN  pike' = IF Op.loop >= MAX_LOOPS \/ ~HasCold(k.th) THEN Onward(k)
                   ELSE LET l == k.th.cold.loop[Op.loop]
                        IN  IF k.th.pos = l[2]
                              THEN Onward([k EXCEPT !.th.cold.loop[Op.loop] = <<l[1] + 1, l[2]>>,
                                                    !.overflowed = TRUE, !.zero = TRUE])
                              ELSE [k EXCEPT !.th.cold.loop[Op.loop] = <<l[1] + 1, k.tp>>,
                                             !.ip = Op.target]

(***************************************************************************)
(* Operations that end the thread or move it past the position.            *)
(***************************************************************************)
\* Fault: the first match seen stays.
BetterFirst(k) == ~k.found

\* Of the matches seen, the leftmost; of those that start there, the longest.
Better(k) == \/ ~k.found
             \/ k.th.start < k.start
             \/ k.th.start = k.start /\ k.tp > k.end

\* Registers are handed out relative to the start of the match.
Rebased(R, base) ==
    [R EXCEPT !.cap = [r \in DOMAIN R.cap |->
                          IF r < R.caps THEN <<R.cap[r][1] - base, R.cap[r][2] - base>>
                          ELSE <<0, 0>>],
              !.var = [v \in DOMAIN R.var |->
                          IF v < R.vars THEN <<R.var[v][1] - base, R.var[v][2] - base>>
                          ELSE <<0, 0>>]]

PikeAccept ==
    /\ PikeFetch({"ACCEPT", "SUCCEED"})
    /\ pike' = Die(IF Better(pike)
                     THEN [pike EXCEPT
                             !.found = TRUE, !.start = pike.th.start, !.end = pike.tp,
                             !.regs = IF HasCold(pike.th)
                                        THEN Rebased(pike.th.cold, pike.th.start)
                                        ELSE ZeroRegs]
                     ELSE pike)

PikeFail == PikeFetch({"FAIL", "ABORT"}) /\ pike' = Die(pike)

\* Leave the thread at p behind the instruction: for a later position, or to
\* run on at once if it has not moved.
Moved(k, p) ==
    LET t == [k.th EXCEPT !.ip = k.ip + 1, !.pos = p]
    IN  IF p = k.pos THEN [k EXCEPT !.th = t, !.ip = t.ip, !.tp = k.pos]
        ELSE IF Len(k.defer) < PIKE_DEFER_BUF
          THEN [k EXCEPT !.status = "next", !.th = NoThread, !.defer = Append(@, t)]
        ELSE [k EXCEPT !.status = "next", !.th = NoThread, !.overflowed = TRUE]
MovedIf(ok, p) == pike' = IF ok THEN Moved(pike, p) ELSE Die(pike)

PikeLit    == PikeFetch({"LIT"}) /\ MovedIf(LiteralAt(Op.text, pike.tp), pike.tp + Len(Op.text))
PikeAny    == /\ PikeFetch({"ANY"})
              /\ MovedIf(pike.tp < SLen /\ ByteAt(pike.tp) \in Op.set, pike.tp + 1)
PikeNotany == /\ PikeFetch({"NOTANY"})
              /\ MovedIf(pike.tp < SLen /\ ByteAt(pike.tp) \notin Op.set, pike.tp + 1)
PikeSpan   == /\ PikeFetch({"SPAN"})
              /\ LET end == RunEnd(pike.tp, Op.set) IN MovedIf(end > pike.tp, end)
PikeBreak  == PikeFetch({"BREAK"}) /\ MovedIf(TRUE, RunUntil(pike.tp, Op.set))

\* Fault: the thread tries again at the break character.
PikeBreakxAtBreak ==
    /\ PikeFetch({"BREAKX"})
    /\ LET end   == RunUntil(pike.tp, Op.set)
           retry == [pike.th EXCEPT !.ip = pike.ip, !.pos = end]
           k     == IF Len(pike.defer) < PIKE_DEFER_BUF /\ CanFork(pike)
                      THEN [Forked(pike) EXCEPT !.defer = Append(@, retry)]
                      ELSE [pike EXCEPT !.overflowed = TRUE]
       IN  pike' = Moved(k, end)

\* A thread that runs BREAKX again behind the break character, even at the end.
PikeBreakx ==
    /\ PikeFetch({"BREAKX"})
    /\ LET end   == RunUntil(pike.tp, Op.set)
           retry == [pike.th EXCEPT !.ip = pike.ip, !.pos = end + 1]
           k     == IF Len(pike.defer) < PIKE_DEFER_BUF /\ CanFork(pike)
                      THEN [Forked(pike) EXCEPT !.defer = Append(@, retry)]
                      ELSE [pike EXCEPT !.overflowed = TRUE]
       IN  pike' = Moved(k, end)

PikeStep ==
    \/ NextPosition \/ TakeThread
    \/ PikeEndOfCode \/ PikeNop \/ PikeAnchor \/ PikePos \/ PikeTab \/ PikeRtab
    \/ PikeLen \/ PikeJmp \/ PikeCapStart \/ PikeCapEnd \/ PikeAssign
    \/ PikeSplit \/ PikeRepeatInit \/ PikeRepeatStep
    \/ PikeAccept \/ PikeFail
    \/ PikeLit \/ PikeAny \/ PikeNotany \/ PikeSpan \/ PikeBreak \/ PikeBreakx

(***************************************************************************)
(* The scan by itself, once for every call.                                *)
(***************************************************************************)
pikeVars == <<pattern, task, pike>>

\* A program as the engines decode it: operands and addresses are unsigned.
Decoded(code) ==
    /\ Len(code) \in Nat /\ DOMAIN code = 1 .. Len(code)
    /\ \A i \in DOMAIN code :
          /\ code[i].op \in {"LEN", "TAB", "RTAB"} => code[i].n \in Nat
          /\ code[i].op = "LIT" => code[i].text \in Seq(Nat)
          /\ code[i].op \in {"JMP", "REPEAT_STEP"} => code[i].target \in Nat \ {0}
          /\ code[i].op = "SPLIT" => code[i].a \in Nat \ {0} /\ code[i].b \in Nat \ {0}
          /\ code[i].op = "REPEAT_INIT" => code[i].skip \in Nat \ {0}
Loaded == SLen \in Nat /\ Decoded(Code)

PikeInit == Loaded /\ pike = PikeIdle

\* Every slab is free when a call begins.
PikeCall == pike.status \in {"idle", "done"} /\ pike' = PikeStart

PikeNext == (PikeCall \/ PikeStep) /\ UNCHANGED <<pattern, task>>

\* What a search does with the scan, and the scan with its slabs.
PikeSpec == PikeInit /\ [][PikeNext]_pikeVars

\* The threads of ts that own a slab.
Held(ts) == Cardinality({i \in DOMAIN ts : HasCold(ts[i])})

\* No slab of the Pike scan is handed out twice, and none is lost: those of
\* the threads alive and the free ones are never more than there are, and all
\* there are unless a thread was dropped for want of room.
SlabsBalanced ==
    pike.status \notin {"idle", "done"} =>
        LET total == pike.free + Held(pike.carry) + Held(pike.work) + Held(pike.defer)
                        + Held(<<pike.th>>)
        IN  /\ total <= PIKE_THREAD_BUF
            /\ ~pike.overflowed => total = PIKE_THREAD_BUF

\* Threads cannot be behind the position: the next pass would drop them.
NoneBehind ==
    pike.status \notin {"idle", "done"} =>
        /\ \A i \in DOMAIN pike.carry : pike.carry[i].pos > pike.pos
        /\ \A i \in DOMAIN pike.defer : pike.defer[i].pos > pike.pos

\* What the scan reports lies inside the subject, and does not end before it
\* starts, although a match seen later may replace either end of it.
FoundInside ==
    pike.status # "idle" /\ pike.found =>
        pike.start \in 0 .. SLen /\ pike.end \in pike.start .. SLen
=============================================================================
