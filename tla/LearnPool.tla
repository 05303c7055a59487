----------------------------- MODULE LearnPool -----------------------------
(***************************************************************************)
(* The pool the documentation lets its reader step through                 *)
(* (docs/src/components/learn/engine.ts, played by PoolScene.astro): the   *)
(* rules of planBatch and freePoolNode with one atomic step per call of    *)
(* advance.                                                                *)
(*                                                                         *)
(* Abstractions: a job is its number; a batch's end is kept as the time    *)
(* left, so that the clock needs no bound; the pacing of the scene's       *)
(* frames is any order of steps and of time passing, and what a scene      *)
(* prints is left out.                                                     *)
(***************************************************************************)
EXTENDS Integers, Sequences, FiniteSets, FiniteSetsExt

CONSTANTS
    Limits,       \* the concurrencies the reader can choose
    JobTimes,     \* the lengths of a job, in units of time
    Nanos,        \* one unit of time, on the scale of SpawnNanos and HandoffGap
    SpawnNanos, HandoffGap,
    MaxBatch,     \* MAX_BATCH
    Adds,         \* the numbers of jobs one Add brings
    MaxLate,      \* bound: how late a batch that has ended can be looked at
    MaxJobs       \* bound: jobs added to one model

VARIABLE m   \* the PoolModel

\* batch.left: until its end.  next: the number of the next job.
Model(c, ms, measured) ==
  [concurrency |-> c, jobMs |-> ms, jobNanos |-> IF measured THEN ms * Nanos ELSE 0,
   queue |-> <<>>, idle |-> <<1>>, busy |-> <<>>, done |-> <<>>,
   signal |-> FALSE, awake |-> FALSE, next |-> 1, phase |-> "rest"]

Init == \E c \in Limits, ms \in JobTimes, measured \in BOOLEAN : m = Model(c, ms, measured)

worthSpawning(pending, nanos, alive) ==
  alive = 0 \/ nanos = 0 \/ pending * nanos > SpawnNanos * alive * alive

batchSize(pending, shares) == Max({1, Min({pending \div Max({shares, 1}), MaxBatch})})

batchBudget(nanos, alive) ==
  IF nanos = 0 THEN 1
  ELSE LET gap == Max({alive, 1}) * HandoffGap
       IN Max({1, Min({(gap + nanos - 1) \div nanos, MaxBatch})})

nodes(x) == {x.idle[i] : i \in DOMAIN x.idle} \cup {x.busy[i].node : i \in DOMAIN x.busy}
lowestFreeNode(x) == Min(1..(Cardinality(nodes(x)) + 1) \ nodes(x))

\* Null when no goroutine is idle and a new one is not worth it; else the node,
\* whether it is new, and the batch's size.
NoPlan == [node |-> 0, isNew |-> FALSE, k |-> 0]
plan(x) ==
  LET pending == Len(x.queue)
      alive == Len(x.idle) + Len(x.busy)
      grow == worthSpawning(pending, x.jobNanos, alive)
      shares == IF grow THEN Min({x.concurrency, pending}) ELSE alive
      budget == IF x.concurrency > 1 THEN batchBudget(x.jobNanos, alive) ELSE MaxBatch
      k == Min({batchSize(pending, shares), budget, MaxBatch})
  IN IF x.idle # <<>> THEN [node |-> x.idle[Len(x.idle)], isNew |-> FALSE, k |-> k]
     ELSE IF grow THEN [node |-> lowestFreeNode(x), isNew |-> TRUE, k |-> k]
     ELSE NoPlan

Due(x) == {i \in DOMAIN x.busy : x.busy[i].left <= 0}

\* The batch that ended first, the first such one in busy.
First(x) == Min({i \in Due(x) : \A j \in Due(x) : x.busy[i].left <= x.busy[j].left})

----------------------------------------------------------------------------
\* Every job tries the signal slot, which holds one.
add(n) ==
  /\ m.next + n - 1 <= MaxJobs
  /\ m' = [m EXCEPT !.queue = @ \o [i \in 1..n |-> m.next + i - 1], !.next = @ + n, !.signal = TRUE]

\* Mutant: a finished batch wakes nobody.
finishQuietly ==
  /\ m.phase = "rest" /\ Due(m) # {}
  /\ LET i == First(m)
         b == m.busy[i]
     IN m' = [m EXCEPT !.busy = SubSeq(@, 1, i - 1) \o SubSeq(@, i + 1, Len(@)),
                       !.done = @ \o b.jobs, !.jobNanos = m.jobMs * Nanos,
                       !.idle = IF Len(m.queue) > Len(@) \/ Len(@) < 1 THEN Append(@, b.node) ELSE @]

\* advance, while the loop rests: a batch that has ended comes back first.  Its
\* goroutine stays for a backlog, or as the one idle goroutine of the pool.
finishBatch ==
  /\ m.phase = "rest" /\ Due(m) # {}
  /\ LET i == First(m)
         b == m.busy[i]
     IN m' = [m EXCEPT !.busy = SubSeq(@, 1, i - 1) \o SubSeq(@, i + 1, Len(@)),
                       !.done = @ \o b.jobs, !.jobNanos = m.jobMs * Nanos,
                       !.idle = IF Len(m.queue) > Len(@) \/ Len(@) < 1 THEN Append(@, b.node) ELSE @,
                       !.signal = TRUE]

wake ==
  /\ m.phase = "rest" /\ Due(m) = {} /\ m.signal
  /\ m' = [m EXCEPT !.signal = FALSE, !.awake = TRUE, !.phase = "dispatch"]

\* advance, while the loop dispatches: one hand-off, or back to sleep.
dispatch ==
  /\ m.phase = "dispatch"
  /\ LET p == IF Len(m.busy) < m.concurrency /\ m.queue # <<>> THEN plan(m) ELSE NoPlan
         jobs == SubSeq(m.queue, 1, Min({p.k, Len(m.queue)}))
     IN IF p = NoPlan THEN m' = [m EXCEPT !.awake = FALSE, !.phase = "rest"]
        ELSE m' = [m EXCEPT !.idle = IF p.isNew THEN @ ELSE SubSeq(@, 1, Len(@) - 1),
                            !.queue = SubSeq(@, Len(jobs) + 1, Len(@)),
                            !.busy = Append(@, [node |-> p.node, jobs |-> jobs, left |-> Len(jobs) * m.jobMs])]

advance == finishBatch \/ wake \/ dispatch

\* A frame's clock moves on, and every batch comes nearer to its end.
Tick == /\ m.busy # <<>> /\ \A i \in DOMAIN m.busy : m.busy[i].left > -MaxLate
        /\ m' = [m EXCEPT !.busy = [i \in DOMAIN @ |-> [@[i] EXCEPT !.left = @ - 1]]]

\* Reset, or another concurrency: a new model.
reset == /\ m.next > 1
         /\ \E c \in Limits : m' = Model(c, m.jobMs, FALSE)

Next == advance \/ Tick \/ reset \/ \E n \in Adds : add(n)

Spec == Init /\ [][Next]_m /\ WF_m(advance) /\ WF_m(Tick)

----------------------------------------------------------------------------
\* The step-by-step pool keeps what it explains: a queued job has a signal, a
\* dispatch or a running batch that will come to it (plan's null relies on the
\* batch, engine.ts:49), each job is in one place and runs in the order of the
\* queue, and two goroutines never share a node number or exceed the limit.
PoolSound ==
  LET started == UNION {{m.busy[i].jobs[j] : j \in DOMAIN m.busy[i].jobs} : i \in DOMAIN m.busy}
                 \cup {m.done[i] : i \in DOMAIN m.done}
  IN /\ m.queue # <<>> => m.signal \/ m.phase = "dispatch" \/ m.busy # <<>>
     /\ \A j \in started, i \in DOMAIN m.queue : j < m.queue[i]
     /\ Cardinality(started) + Len(m.queue) = m.next - 1
     /\ Cardinality(nodes(m)) = Len(m.idle) + Len(m.busy)
     /\ Len(m.busy) <= m.concurrency
     /\ m.awake <=> m.phase = "dispatch"
============================================================================
