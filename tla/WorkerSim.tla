----------------------------- MODULE WorkerSim ------------------------------
(***************************************************************************)
(* The small model of one worker that the guide scenes of the docs site    *)
(* play (docs/src/components/guides-b/sim.ts), as operators on the record  *)
(* that stands for one WorkerSim object.  A call that only returns an      *)
(* error leaves the record alone.                                          *)
(*                                                                         *)
(* Time goes in whole STEPs of 40 ms.  A goroutine is known by its slot,   *)
(* which no two live goroutines share; `age' is how long it has been idle, *)
(* counted no further than the expiry needs.  A job that is over keeps its *)
(* place in `job' so that nothing that happened is forgotten; whether it   *)
(* failed changes nothing but the metrics, which count what `job' shows.   *)
(***************************************************************************)
EXTENDS Naturals, Sequences, SequencesExt

CONSTANTS
    Batch,   \* MAX_BATCH (32 in the code)
    NoCtx    \* a context that is not done

\* What Op makes of v; v is evaluated once, however often Op uses it.
Then(v, Op(_)) == CHOOSE r \in {Op(x) : x \in {v}} : TRUE

Least(S) == CHOOSE x \in S : \A y \in S : x <= y
Smaller(a, b) == IF a < b THEN a ELSE b

Blank(limit) ==
    [status |-> "Initiated", limit |-> limit, minPct |-> 0, expiry |-> 0,
     queue |-> <<>>, parked |-> <<>>, gors |-> <<>>, pool |-> <<>>, cur |-> 0,
     userCtx |-> NoCtx, ctx |-> NoCtx, restart |-> FALSE, clock |-> 0, job |-> <<>>]

-----------------------------------------------------------------------------
(* Reads *)
Gors(s)     == {s.gors[k] : k \in DOMAIN s.gors}
Gor(s, sl)  == CHOOSE g \in Gors(s) : g.slot = sl
NumBusy(s)  == Len(SelectSeq(s.gors, LAMBDA g : g.busy))
Waiting(s)  == Len(s.queue) + Len(s.parked)
NumPending(s) == Waiting(s) + (IF s.cur > NumBusy(s) THEN s.cur - NumBusy(s) ELSE 0)
IsActive(s) == s.status \in {"Idle", "Running"}
IsHalting(s) == s.status \in {"Pausing", "Paused", "Stopping", "Stopped"}
MinIdle(s)  == LET share == (s.limit * s.minPct) \div 100 IN IF share > 1 THEN share ELSE 1

\* The wait calls of worker_wait.go.
WaitDone(s) ==
    CASE IsActive(s)  -> NumPending(s) = 0 /\ s.cur = 0
      [] IsHalting(s) -> s.cur = 0
      [] OTHER        -> TRUE
WaitUntilIdleDone(s)    == s.status = "Idle" /\ NumPending(s) = 0 /\ s.cur = 0
WaitUntilPausedDone(s)  == s.status = "Paused"
WaitUntilStoppedDone(s) == s.status = "Stopped"

\* moving: what still changes without a call.
Moving(s) == NumBusy(s) > 0 \/ s.status = "Stopping" \/ (IsActive(s) /\ Waiting(s) > 0)

-----------------------------------------------------------------------------
(* Inside *)
SetGor(s, g) ==
    [s EXCEPT !.gors = [k \in DOMAIN @ |-> IF @[k].slot = g.slot THEN g ELSE @[k]]]

\* The lowest slot no live goroutine has.
FreeSlot(s) == Least({k \in 0 .. Len(s.gors) : \A g \in Gors(s) : g.slot # k})
spawn(s) ==
    [s EXCEPT !.gors = Append(@, [slot |-> FreeSlot(s), busy |-> FALSE, batch |-> <<>>,
                                  i |-> 0, age |-> 0])]

exit(s, sl) ==
    [s EXCEPT !.gors = SelectSeq(@, LAMBDA g : g.slot # sl),
              !.pool = SelectSeq(@, LAMBDA x : x # sl)]

\* The i-th job of goroutine g's batch starts.
begin(s, g, i) ==
    [SetGor(s, [g EXCEPT !.i = i]) EXCEPT !.job[g.batch[i]].state = "running"]

\* dispatch: while a goroutine may start, hand it the next batch, parked jobs
\* first.  No job in the queue is ever closed (SimSound), so none is skipped and
\* no batch comes out empty.
RECURSIVE dispatch(_)
dispatch(s) ==
    IF ~(IsActive(s) /\ NumBusy(s) < s.limit /\ Waiting(s) > 0)
    THEN s
    ELSE LET k    == IF s.limit = 1 THEN Smaller(Waiting(s), Batch) ELSE 1
             have == s.pool # <<>>
             sl   == IF have THEN Last(s.pool) ELSE FreeSlot(s)
             got  == IF have THEN [s EXCEPT !.pool = Front(@)] ELSE spawn(s)
             p    == Smaller(k, Len(s.parked))
             buf  == SubSeq(s.parked, 1, p) \o SubSeq(s.queue, 1, k - p)
             took == [got EXCEPT !.parked = SubSeq(@, p + 1, Len(@)),
                                 !.queue  = SubSeq(@, k - p + 1, Len(@)),
                                 !.cur    = @ + k,
                                 !.status = "Running"]
             hand(x) == begin(x, [Gor(x, sl) EXCEPT !.busy = TRUE, !.batch = buf], 1)
         IN  Then(Then(took, hand), dispatch)

\* endBatch: freePoolNode, then finishJobs.
endBatch(s, g) ==
    LET k    == Len(g.batch)
        free == SetGor(s, [g EXCEPT !.busy = FALSE, !.batch = <<>>, !.i = 0, !.age = 0])
        keep == \/ Waiting(s) > Len(s.pool)
                \/ s.expiry > 0
                \/ Len(s.pool) < MinIdle(s)
        back(x) == IF keep THEN [x EXCEPT !.pool = Append(@, g.slot)] ELSE exit(x, g.slot)
    IN  [Then(free, back) EXCEPT !.cur = @ - k,
                     !.status = CASE s.cur = k /\ @ = "Running" -> "Idle"
                                  [] s.cur = k /\ @ = "Pausing" -> "Paused"
                                  [] OTHER -> @]

\* finishJob: the job that ran is over; then close what a purge marked, park the
\* rest when the worker is halting, or start the next job.
finishJob(s, g) ==
    LET j     == g.batch[g.i]
        over  == [s EXCEPT !.job[j].state = "done"]
        fresh == {k \in g.i + 1 .. Len(g.batch) : ~s.job[g.batch[k]].stale}
        next  == IF fresh = {} THEN Len(g.batch) + 1 ELSE Least(fresh)
        shut  == {g.batch[k] : k \in g.i + 1 .. next - 1}
        past  == [over EXCEPT !.job = [x \in DOMAIN @ |->
                     IF x \in shut THEN [@[x] EXCEPT !.state = "closed"] ELSE @[x]]]
        rest  == SubSeq(g.batch, next, Len(g.batch))
        end(x) == endBatch(x, g)
    IN  CASE rest = <<>>  -> Then(past, end)
          [] rest # <<>> /\ IsHalting(s) -> Then([past EXCEPT !.parked = @ \o rest], end)
          [] OTHER -> begin(past, g, next)

\* One goroutine's share of a step: its job comes nearer to its end, or returns
\* early because it watches the context.
work(s, sl) ==
    LET g    == Gor(s, sl)
        j    == g.batch[g.i]
        cut  == s.job[j].watch /\ s.ctx # NoCtx
        left == IF cut \/ s.job[j].left <= 1 THEN 0 ELSE s.job[j].left - 1
        end(x) == finishJob(x, g)
        s1   == [s EXCEPT !.job[j].left = left]
    IN  IF ~g.busy THEN s ELSE IF left = 0 THEN Then(s1, end) ELSE s1

\* Every goroutine that was alive when the step began takes its turn.
turns(s) == FoldLeft(LAMBDA t, g : Then(t, LAMBDA x : work(x, g.slot)), s, s.gors)

\* expire: once per expiry, remove goroutines idle for longer, from the bottom
\* of the pool and down to the minimum.
expire(s) ==
    LET drop(t, sl) == IF Len(t.pool) > MinIdle(s) /\ Gor(s, sl).age > s.expiry
                       THEN exit(t, sl) ELSE t
    IN  IF s.expiry = 0 \/ ~IsActive(s) THEN s
        ELSE IF s.clock + 1 < s.expiry THEN [s EXCEPT !.clock = @ + 1]
        ELSE FoldLeft(LAMBDA t, sl : Then(t, LAMBDA x : drop(x, sl)), [s EXCEPT !.clock = 0], s.pool)

-----------------------------------------------------------------------------
(* Calls *)
add(s, dur, watch) ==
    Then([s EXCEPT !.job = Append(@, [left |-> dur, state |-> "queued",
                                      watch |-> watch, stale |-> FALSE]),
                   !.queue = Append(@, Len(s.job) + 1)], dispatch)

start(s) ==
    IF s.status \notin {"Initiated", "Stopped"} THEN s
    ELSE LET up == spawn([s EXCEPT !.ctx = s.userCtx])
         IN  Then([up EXCEPT !.pool = Append(@, FreeSlot(s)), !.status = "Idle"], dispatch)

StopErr(s) == s.status = "Initiated"
stop(s) ==
    IF s.status \in {"Stopped", "Stopping", "Initiated"} THEN s
    ELSE [s EXCEPT !.ctx = IF s.userCtx = NoCtx THEN "canceled" ELSE s.userCtx,
                   !.status = "Stopping"]

PauseErr(s) == s.status \notin {"Paused", "Pausing", "Idle", "Running"}
pause(s) ==
    CASE s.status = "Idle" -> [s EXCEPT !.status = "Paused"]
      [] s.status = "Running" -> [s EXCEPT !.status = IF s.cur = 0 THEN "Paused" ELSE "Pausing"]
      [] OTHER -> s

resume(s) == IF s.status = "Paused" THEN Then([s EXCEPT !.status = "Idle"], dispatch) ELSE s

restart(s) ==
    CASE s.status = "Initiated" -> s
      [] s.status = "Stopped"   -> start(s)
      [] OTHER -> [stop(s) EXCEPT !.restart = TRUE]

\* The loop of tunePool: pop idle goroutines, not past the minimum.
RECURSIVE shrink(_, _)
shrink(s, n) ==
    IF n = 0 \/ Len(s.pool) = MinIdle(s) \/ s.pool = <<>> THEN s
    ELSE Then(exit(s, Last(s.pool)), LAMBDA x : shrink(x, n - 1))

tunePool(s, n) ==
    LET set == [s EXCEPT !.limit = n]
    IN  CASE ~IsActive(s) \/ s.limit = n -> s
          [] IsActive(s) /\ n > s.limit  -> Then(set, dispatch)
          [] IsActive(s) /\ n < s.limit  -> IF s.expiry # 0 THEN set ELSE Then(set, LAMBDA x : shrink(x, s.limit - n))

\* purge: close what waits; what is already in a batch is only marked.
purge(s) ==
    LET waits == ToSet(s.queue) \cup ToSet(s.parked)
        held  == UNION {ToSet(SubSeq(g.batch, g.i + 1, Len(g.batch))) : g \in Gors(s)}
    IN  [s EXCEPT !.queue = <<>>, !.parked = <<>>,
                  !.job = [j \in DOMAIN @ |->
                     CASE j \in waits -> [@[j] EXCEPT !.state = "closed"]
                       [] j \in held  -> [@[j] EXCEPT !.stale = TRUE]
                       [] OTHER -> @[j]]]

cancelUser(s, why) ==
    IF s.userCtx # NoCtx THEN s
    ELSE [s EXCEPT !.userCtx = why, !.ctx = IF @ = NoCtx THEN why ELSE @]

\* The constructor.
New(limit, autoRun) == IF autoRun THEN start(Blank(limit)) ELSE Blank(limit)

-----------------------------------------------------------------------------
(* Time: one STEP, and the loop that takes several *)
aged(s) == [s EXCEPT !.gors = [k \in DOMAIN @ |->
              [@[k] EXCEPT !.age = Smaller(@ + 1, s.expiry + 1)]]]

\* The event loop's <-ctx.Done().
ctxDone(s) ==
    IF s.ctx # NoCtx /\ (IsActive(s) \/ s.status \in {"Pausing", "Paused"})
    THEN [s EXCEPT !.status = "Stopping"] ELSE s

\* Stopping: nothing runs any more, so every goroutine goes, and a restart that
\* was asked for begins.
stopped(s) ==
    LET gone == [s EXCEPT !.gors = SelectSeq(@, LAMBDA g : g.slot \notin ToSet(s.pool)),
                          !.pool = <<>>, !.status = "Stopped", !.restart = FALSE]
    IN  IF s.status # "Stopping" \/ s.cur # 0 THEN s
        ELSE IF s.restart THEN Then(gone, start) ELSE gone

step(s) == Then(Then(Then(Then(Then(aged(s), ctxDone), turns), stopped), expire), dispatch)

RECURSIVE advance(_, _)
advance(s, n) == IF n = 0 THEN s ELSE Then(step(s), LAMBDA x : advance(x, n - 1))
=============================================================================
