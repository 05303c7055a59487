------------------------------- MODULE Pool -------------------------------
(***************************************************************************)
(* The worker pool: the lock-free stack of idle nodes (internal/pool) and  *)
(* everyone who pushes on it or pops from it.  The event loop takes a node *)
(* for every batch, the pool's goroutines put theirs back, TunePool and    *)
(* the removal of expired nodes shrink it, Stop empties it and Start       *)
(* pushes its first node.                                                  *)
(*                                                                         *)
(* Abstractions: a job is a unit of the counters queue and cur; a job's    *)
(* cost is a number of Costs; parked jobs count as queued ones (they are   *)
(* pending, as w.pending says); the status is one of active, stopping and  *)
(* stopped (WorkerLifecycle has the rest).  One thread stands for the      *)
(* remover of expired nodes: an old one that Stop has not ended yet and a  *)
(* new one would take turns on popMx.                                      *)
(***************************************************************************)
EXTENDS Integers, Sequences, FiniteSets, FiniteSetsExt

CONSTANTS
    Elems,        \* the Elem values there are: in use, cached or never made
    Goroutines,   \* the goroutines that can be in Serve at once
    Callers,      \* user goroutines that call TunePool, Stop and Start
    Nil,
    Expiries,     \* whether idleWorkerExpiryDuration is set: a subset of BOOLEAN
    Ratio,        \* minIdleWorkerRatio, in percent
    Limits,       \* the concurrencies TunePool is called with; the worker starts with the largest
    Costs,        \* what a batch can store in jobNanos, with SpawnNanos as its scale
    SpawnNanos,   \* spawnNanos
    HandoffGap,   \* handoffGap
    MaxBatch,     \* maxBatch
    MaxJobs,      \* bound: jobs added in a behaviour
    MaxCalls      \* bound: calls of TunePool, Purge and Stop in a behaviour

Loop == "loop"       \* the event loop
Reaper == "reaper"   \* the goroutine of goRemoveIdleWorkers
Threads == Goroutines \cup Callers \cup {Loop, Reaper}
Stop == 0            \* the Payload that ends a Serve; a batch is sent as its size
Removing == -1       \* what the event loop counts while it removes all workers

ASSUME PoolAssumption ==
  /\ IsFiniteSet(Elems) /\ IsFiniteSet(Goroutines) /\ IsFiniteSet(Callers)
  /\ Nil \notin Elems \cup Threads /\ Elems \cap Threads = {}
  /\ Goroutines \cap Callers = {} /\ {Loop, Reaper} \cap (Goroutines \cup Callers) = {}
  /\ Expiries \subseteq BOOLEAN /\ Costs \subseteq Nat
  /\ Limits \subseteq Nat \ {0} /\ \E m \in Limits : \A n \in Limits : n <= m
  /\ {Ratio, SpawnNanos, HandoffGap, MaxJobs, MaxCalls} \subseteq Nat /\ MaxBatch \in Nat \ {0}

VARIABLES
    head, next, len, popMx,  \* Pool: the stack, its count, the removers' mutex
    cache,                   \* Pool.Cache, with the Elems it has not made yet
    ch,                      \* Node.ch, of capacity 1: what was sent to each Elem
    pc,                      \* the step each thread is at
    node,                    \* the Elem each thread has in hand
    seen,                    \* per thread: the head and its next as PopBack loaded them
    at,                      \* the Elem each goroutine serves
    count,                   \* per thread: a batch's size, or the nodes TunePool may still remove
    alive,                   \* planBatch: goroutines alive
    walk,                    \* Prune: the node looked at, how many may go, the one above, the dropped
    w,                       \* the worker's counters and status
    expiry,                  \* idleWorkerExpiryDuration is not zero
    added, called

stack == <<head, next, len, popMx>>
hands == <<node, seen, at, count, alive, walk>>
bounds == <<expiry, added, called>>
vars == <<stack, cache, ch, pc, hands, w, bounds>>
----------------------------------------------------------------------------
NoWalk == [e |-> Nil, left |-> 0, prev |-> Nil, dropped |-> {}]

\* The nodes from e down, e first, along the links nx.
Down(nx, e) == LET down[i \in 0..Cardinality(Elems)] ==
                     IF i = 0 THEN (IF e = Nil THEN <<>> ELSE <<e>>)
                     ELSE LET s == down[i - 1]
                          IN IF s = <<>> \/ nx[s[Len(s)]] = Nil THEN s ELSE Append(s, nx[s[Len(s)]])
               IN down[Cardinality(Elems)]

From(e) == Down(next, e)

Goto(t, step) == pc' = [pc EXCEPT ![t] = step]
Hold(t, e) == node' = [node EXCEPT ![t] = e]
At(t, step) == pc[t] = step

worthSpawning(pending, nanos, n) == n = 0 \/ nanos = 0 \/ pending * nanos > SpawnNanos * n * n

batchSize(pending, shares) == Max({1, Min({pending \div Max({shares, 1}), MaxBatch})})

batchBudget(nanos, n) ==
  IF nanos = 0 THEN 1
  ELSE Max({1, Min({(Max({n, 1}) * HandoffGap + nanos - 1) \div nanos, MaxBatch})})

\* Mutant: a minimum without its floor of one.
minUnfloored == (w.concurrency * Ratio) \div 100

numMinIdleWorkers == Max({(w.concurrency * Ratio) \div 100, 1})

Init ==
  \E e \in Elems, g \in Goroutines :
     /\ head = e /\ next = [x \in Elems |-> Nil] /\ len = 1 /\ popMx = Nil
     /\ cache = Elems \ {e} /\ ch = [x \in Elems |-> <<>>]
     /\ pc = [t \in Threads |-> IF t = g THEN "serve" ELSE IF t = Loop THEN "select"
                                ELSE IF t \in Goroutines THEN "dead" ELSE "free"]
     /\ node = [t \in Threads |-> Nil] /\ seen = [t \in Threads |-> <<Nil, Nil>>]
     /\ at = [x \in Goroutines |-> IF x = g THEN e ELSE Nil]
     /\ count = [t \in Threads |-> 0] /\ alive = 0 /\ walk = NoWalk
     /\ w = [queue |-> 0, signal |-> TRUE, busy |-> 0, cur |-> 0, jobNanos |-> 0,
             concurrency |-> Max(Limits), status |-> "active"]
     /\ expiry \in Expiries /\ added = 0 /\ called = 0
----------------------------------------------------------------------------
(* PushNode and PopBack, by any thread: each load and each swap is a step. *)

\* Where a thread that has pushed its node goes on.
Pushed(t) == IF t = Loop THEN "undo" ELSE IF t \in Goroutines THEN "release" ELSE "started"

PushCount(t) == /\ At(t, "push") /\ len' = len + 1 /\ Goto(t, "pushLoad")
                /\ UNCHANGED <<head, next, popMx, cache, ch, hands, w, bounds>>

PushLoad(t) == /\ At(t, "pushLoad") /\ Goto(t, "pushCas")
               /\ next' = [next EXCEPT ![node[t]] = head]
               /\ UNCHANGED <<head, len, popMx, cache, ch, hands, w, bounds>>

PushCas(t) ==
  /\ At(t, "pushCas")
  /\ IF head = next[node[t]]
       THEN head' = node[t] /\ Goto(t, Pushed(t)) /\ Hold(t, Nil)
       ELSE Goto(t, "pushLoad") /\ UNCHANGED <<head, node>>
  /\ UNCHANGED <<next, len, popMx, cache, ch, seen, at, count, alive, walk, w, bounds>>

\* PopBack takes the mutex and loads the head; an empty stack lets it go again.
\* The node in hand is Nil when it returns none.
PopLoad(t) ==
  /\ At(t, "pop") /\ popMx \in {Nil, t}
  /\ Hold(t, Nil)
  /\ IF head = Nil
       THEN popMx' = Nil /\ Goto(t, "popped") /\ UNCHANGED seen
       ELSE popMx' = t /\ Goto(t, "popCas") /\ seen' = [seen EXCEPT ![t] = <<head, next[head]>>]
  /\ UNCHANGED <<head, next, len, cache, ch, at, count, alive, walk, w, bounds>>

PopCas(t) ==
  /\ At(t, "popCas")
  /\ IF head = seen[t][1]
       THEN head' = seen[t][2] /\ Hold(t, head) /\ Goto(t, "popCount")
       ELSE Goto(t, "pop") /\ UNCHANGED <<head, node>>
  /\ seen' = [seen EXCEPT ![t] = <<Nil, Nil>>]
  /\ UNCHANGED <<next, len, popMx, cache, ch, at, count, alive, walk, w, bounds>>

PopCount(t) == /\ At(t, "popCount") /\ len' = len - 1 /\ popMx' = Nil /\ Goto(t, "popped")
               /\ UNCHANGED <<head, next, cache, ch, hands, w, bounds>>

\* node.Value.Stop(), then Cache.Put(node): a full channel makes the caller wait.
StopAndPut(e) == /\ ch[e] = <<>>
                 /\ ch' = [ch EXCEPT ![e] = <<Stop>>]
                 /\ cache' = cache \cup {e}

\* initPoolNode: an Elem of the cache, and a goroutine that serves it.
initPoolNode(t, e, g) == /\ e \in cache /\ At(g, "dead")
                         /\ cache' = cache \ {e}
                         /\ at' = [at EXCEPT ![g] = e]
                         /\ Hold(t, e)

----------------------------------------------------------------------------
(* The event loop. *)

Active == w.status = "active"

\* ctx.Done, or a signal: the select takes either.
Select ==
  /\ At(Loop, "select")
  /\ \/ w.signal /\ w' = [w EXCEPT !.signal = FALSE] /\ Goto(Loop, "check")
     \/ w.status = "stopping" /\ Goto(Loop, "drain") /\ UNCHANGED w
  /\ UNCHANGED <<stack, cache, ch, hands, bounds>>

Check ==
  /\ At(Loop, "check")
  /\ Goto(Loop, IF Active /\ w.busy < w.concurrency /\ w.queue > 0 THEN "planBusy" ELSE "select")
  /\ UNCHANGED <<stack, cache, ch, hands, w, bounds>>

\* planBatch: alive is read counter by counter, the node popped afterwards.
PlanBusy == /\ At(Loop, "planBusy") /\ alive' = w.busy /\ Goto(Loop, "planLen")
            /\ count' = [count EXCEPT ![Loop] = w.queue]
            /\ UNCHANGED <<stack, cache, ch, node, seen, at, walk, w, bounds>>

PlanLen == /\ At(Loop, "planLen") /\ alive' = alive + len /\ Goto(Loop, "pop")
           /\ UNCHANGED <<stack, cache, ch, node, seen, at, count, walk, w, bounds>>

Grow == worthSpawning(count[Loop], w.jobNanos, alive)

\* The batch's size, from the backlog that planBatch read.
Batch == LET pending == count[Loop]
             shares == IF Grow THEN Min({w.concurrency, pending}) ELSE alive
             budget == IF w.concurrency > 1 THEN batchBudget(w.jobNanos, alive) ELSE MaxBatch
         IN Min({batchSize(pending, shares), budget})

PlanNode ==
  /\ At(Loop, "popped") /\ count[Loop] # Removing
  /\ \/ /\ node[Loop] # Nil
        /\ Goto(Loop, "reserve") /\ count' = [count EXCEPT ![Loop] = Batch]
        /\ UNCHANGED <<cache, node, at>>
     \/ /\ node[Loop] = Nil /\ ~Grow
        /\ Goto(Loop, "select")
        /\ UNCHANGED <<cache, node, at, count>>
     \/ /\ node[Loop] = Nil /\ Grow
        /\ \E e \in cache, g \in Goroutines :
              /\ initPoolNode(Loop, e, g)
              /\ pc' = [pc EXCEPT ![Loop] = "reserve", ![g] = "serve"]
        /\ count' = [count EXCEPT ![Loop] = Batch]
  /\ alive' = 0
  /\ UNCHANGED <<stack, ch, seen, walk, w, bounds>>

\* processNextJob counts the worker and its jobs first ...
Reserve == /\ At(Loop, "reserve") /\ Goto(Loop, "admit")
           /\ w' = [w EXCEPT !.busy = @ + 1, !.cur = @ + count[Loop]]
           /\ UNCHANGED <<stack, cache, ch, hands, bounds>>

\* ... and reserve asks for the status after.  A worker that is not active
\* gets the node back.
Admit == /\ At(Loop, "admit") /\ Goto(Loop, IF Active THEN "fill" ELSE "push")
         /\ UNCHANGED <<stack, cache, ch, hands, w, bounds>>

\* fillBatch takes what the sources still have; a batch of none puts the node back.
Fill ==
  /\ At(Loop, "fill")
  /\ LET n == Min({w.queue, count[Loop]})
     IN IF n = 0 THEN Goto(Loop, "push") /\ UNCHANGED <<w, count>>
        ELSE /\ Goto(Loop, IF n = count[Loop] THEN "send" ELSE "sendLast")
             /\ count' = [count EXCEPT ![Loop] = n]
             /\ w' = [w EXCEPT !.queue = @ - n, !.cur = @ - (count[Loop] - n)]
  /\ UNCHANGED <<stack, cache, ch, node, seen, at, alive, walk, bounds>>

\* The node is back in the pool: the worker and its jobs are uncounted, and the
\* loop rests (a refused reserve and an empty source both end its round).
Undo ==
  /\ At(Loop, "undo")
  /\ w' = [w EXCEPT !.busy = @ - 1, !.cur = @ - count[Loop]]
  /\ count' = [count EXCEPT ![Loop] = 0]
  /\ Goto(Loop, "select")
  /\ UNCHANGED <<stack, cache, ch, node, seen, at, alive, walk, bounds>>

\* SendBatch waits while the channel still holds a Stop.  A source that ran
\* empty during the fill ends the round.
Send ==
  /\ pc[Loop] \in {"send", "sendLast"} /\ ch[node[Loop]] = <<>>
  /\ ch' = [ch EXCEPT ![node[Loop]] = <<count[Loop]>>]
  /\ Hold(Loop, Nil) /\ count' = [count EXCEPT ![Loop] = 0]
  /\ Goto(Loop, IF At(Loop, "send") THEN "check" ELSE "select")
  /\ UNCHANGED <<stack, cache, seen, at, alive, walk, w, bounds>>

\* The context is done: wait for the jobs that were taken, then remove every node.
Drain == /\ At(Loop, "drain") /\ w.cur = 0
         /\ Goto(Loop, "pop") /\ count' = [count EXCEPT ![Loop] = Removing]
         /\ UNCHANGED <<stack, cache, ch, node, seen, at, alive, walk, w, bounds>>

RemoveAll ==
  /\ At(Loop, "popped") /\ count[Loop] = Removing
  /\ IF node[Loop] = Nil
       THEN /\ w' = [w EXCEPT !.status = "stopped"]
            /\ count' = [count EXCEPT ![Loop] = 0] /\ Goto(Loop, "over")
            /\ UNCHANGED <<cache, ch, node>>
       ELSE /\ StopAndPut(node[Loop]) /\ Hold(Loop, Nil) /\ Goto(Loop, "pop")
            /\ UNCHANGED <<w, count>>
  /\ UNCHANGED <<stack, seen, at, alive, walk, bounds>>

----------------------------------------------------------------------------
(* A goroutine of the pool: Serve, and what initPoolNode passes to it. *)

Serve(g) ==
  /\ At(g, "serve") /\ ch[at[g]] # <<>>
  /\ ch' = [ch EXCEPT ![at[g]] = <<>>]
  /\ IF ch[at[g]] = <<Stop>>
       THEN Goto(g, "dead") /\ at' = [at EXCEPT ![g] = Nil] /\ UNCHANGED count
       ELSE Goto(g, "run") /\ count' = [count EXCEPT ![g] = ch[at[g]][1]] /\ UNCHANGED at
  /\ UNCHANGED <<stack, cache, node, seen, alive, walk, w, bounds>>

\* Mutant: the jobs are taken off the processing count before the node is back.
FinishEarly(g) ==
  /\ At(g, "run")
  /\ \E nanos \in Costs : w' = [w EXCEPT !.jobNanos = nanos, !.cur = @ - count[g]]
  /\ count' = [count EXCEPT ![g] = 0] /\ Goto(g, "keep")
  /\ UNCHANGED <<stack, cache, ch, node, seen, at, alive, walk, bounds>>

\* The batch runs and its cost is measured.  A halted worker parks the jobs
\* after the first that have not started.
RunBatch(g) ==
  /\ At(g, "run")
  /\ \E nanos \in Costs, rest \in 0..(count[g] - 1) :
        /\ rest > 0 => ~Active
        /\ w' = [w EXCEPT !.jobNanos = nanos, !.queue = @ + rest]
  /\ Goto(g, "keep")
  /\ UNCHANGED <<stack, cache, ch, hands, bounds>>

\* freePoolNode keeps the goroutine for a backlog, for the remover of expired
\* nodes, or for the minimum of idle ones.
Kept == w.queue > len \/ expiry \/ len < numMinIdleWorkers

\* Mutant: a node that is not kept is cached without its Stop.
PutOnly(g) ==
  /\ At(g, "keep")
  /\ IF Kept THEN Goto(g, "push") /\ Hold(g, at[g]) /\ UNCHANGED cache
     ELSE cache' = cache \cup {at[g]} /\ Goto(g, "release") /\ UNCHANGED node
  /\ UNCHANGED <<stack, ch, seen, at, count, alive, walk, w, bounds>>

freePoolNode(g) ==
  /\ At(g, "keep")
  /\ IF Kept THEN Goto(g, "push") /\ Hold(g, at[g]) /\ UNCHANGED <<cache, ch>>
     ELSE StopAndPut(at[g]) /\ Goto(g, "release") /\ UNCHANGED node
  /\ UNCHANGED <<stack, seen, at, count, alive, walk, w, bounds>>

Release(g) == /\ At(g, "release") /\ Goto(g, "finish")
              /\ w' = [w EXCEPT !.busy = @ - 1]
              /\ UNCHANGED <<stack, cache, ch, hands, bounds>>

finishJobs(g) == /\ At(g, "finish") /\ Goto(g, "notify")
                 /\ w' = [w EXCEPT !.cur = @ - count[g]]
                 /\ count' = [count EXCEPT ![g] = 0]
                 /\ UNCHANGED <<stack, cache, ch, node, seen, at, alive, walk, bounds>>

Notify(g) == /\ At(g, "notify") /\ Goto(g, "serve")
             /\ w' = [w EXCEPT !.signal = TRUE]
             /\ UNCHANGED <<stack, cache, ch, hands, bounds>>

----------------------------------------------------------------------------
(* The remover of expired nodes: Prune unlinks under popMx, beside the pushes. *)

\* A tick with more idle nodes than the minimum; the walk starts at the head
\* it loads and leaves the bottom ones alone.
Tick ==
  /\ expiry /\ At(Reaper, "free") /\ Active
  /\ len > numMinIdleWorkers /\ popMx = Nil
  /\ popMx' = Reaper /\ Goto(Reaper, "prune")
  /\ walk' = [NoWalk EXCEPT !.e = head, !.left = Len(From(head)) - numMinIdleWorkers]
  /\ UNCHANGED <<head, next, len, cache, ch, node, seen, at, count, alive, w, bounds>>

\* The node looked at goes, once it is out of the list.
Dropped(wk) == [wk EXCEPT !.e = next[wk.e], !.left = @ - 1, !.dropped = @ \cup {wk.e}]

\* Mutant: a swap that meets a push is not tried again.
PruneOnce ==
  /\ At(Reaper, "prune") /\ walk.e # Nil /\ walk.left > 0
  /\ head' = (IF head = walk.e THEN next[walk.e] ELSE head) /\ len' = len - 1
  /\ walk' = Dropped(walk)
  /\ UNCHANGED <<next, pc, popMx, cache, ch, node, seen, at, count, alive, w, bounds>>

\* One node: kept (it was used lately), or unlinked from the kept one above it,
\* or swapped off the head.  A swap that meets a push looks for its
\* predecessor first.
Prune ==
  /\ At(Reaper, "prune") /\ walk.e # Nil /\ walk.left > 0
  /\ \/ walk' = [walk EXCEPT !.e = next[walk.e], !.left = @ - 1, !.prev = walk.e]
        /\ UNCHANGED <<head, next, len, pc>>
     \/ /\ walk.prev # Nil
        /\ next' = [next EXCEPT ![walk.prev] = next[walk.e]] /\ len' = len - 1
        /\ walk' = Dropped(walk) /\ UNCHANGED <<head, pc>>
     \/ /\ walk.prev = Nil /\ head = walk.e
        /\ head' = next[walk.e] /\ len' = len - 1
        /\ walk' = Dropped(walk) /\ UNCHANGED <<next, pc>>
     \/ /\ walk.prev = Nil /\ head # walk.e
        /\ Goto(Reaper, "relink") /\ UNCHANGED <<head, next, len, walk>>
  /\ UNCHANGED <<popMx, cache, ch, node, seen, at, count, alive, w, bounds>>

\* The node above e now: the last of those pushed since.
Above(e) == CHOOSE p \in {x \in Elems : \E i \in DOMAIN From(head) : From(head)[i] = x} : next[p] = e

Relink ==
  /\ At(Reaper, "relink") /\ Goto(Reaper, "prune")
  /\ next' = [next EXCEPT ![Above(walk.e)] = next[walk.e]] /\ len' = len - 1
  /\ walk' = [Dropped(walk) EXCEPT !.prev = Above(walk.e)]
  /\ UNCHANGED <<head, popMx, cache, ch, node, seen, at, count, alive, w, bounds>>

PruneDone ==
  /\ At(Reaper, "prune") /\ (walk.e = Nil \/ walk.left <= 0)
  /\ popMx' = Nil /\ Goto(Reaper, "expire")
  /\ UNCHANGED <<head, next, len, cache, ch, hands, w, bounds>>

\* The dropped nodes are stopped one after the other.
Expire ==
  /\ At(Reaper, "expire")
  /\ IF walk.dropped = {}
       THEN Goto(Reaper, "free") /\ walk' = NoWalk /\ UNCHANGED <<cache, ch>>
       ELSE \E e \in walk.dropped : StopAndPut(e) /\ walk' = [walk EXCEPT !.dropped = @ \ {e}] /\ UNCHANGED pc
  /\ UNCHANGED <<stack, node, seen, at, count, alive, w, bounds>>

----------------------------------------------------------------------------
(* The user: Add, Purge, TunePool, Stop and Start. *)

\* A job is queued, then the loop is notified.
Add == /\ added < MaxJobs
       /\ added' = added + 1 /\ w' = [w EXCEPT !.queue = @ + 1, !.signal = TRUE]
       /\ UNCHANGED <<stack, cache, ch, pc, hands, expiry, called>>

Purge == /\ called < MaxCalls /\ called' = called + 1
         /\ w.queue > 0 /\ w' = [w EXCEPT !.queue = 0]
         /\ UNCHANGED <<stack, cache, ch, pc, hands, expiry, added>>

\* TunePool stores the new limit.  A larger one wakes the loop; a smaller one
\* removes idle nodes, unless the remover of expired ones does that.
TunePool(c, n) ==
  /\ At(c, "free") /\ called < MaxCalls /\ called' = called + 1
  /\ Active /\ n # w.concurrency
  /\ LET shrinks == n < w.concurrency /\ ~expiry
     IN /\ w' = [w EXCEPT !.concurrency = n, !.signal = @ \/ n > w.concurrency]
        /\ Goto(c, IF shrinks THEN "tune" ELSE "free")
        /\ count' = [count EXCEPT ![c] = IF shrinks THEN w.concurrency - n ELSE 0]
  /\ UNCHANGED <<stack, cache, ch, node, seen, at, alive, walk, expiry, added>>

\* The loop of TunePool: Len is read here, the node popped afterwards.
TuneLen(c) ==
  /\ At(c, "tune")
  /\ IF count[c] > 0 /\ len # numMinIdleWorkers
       THEN Goto(c, "pop") /\ UNCHANGED count
       ELSE Goto(c, "free") /\ count' = [count EXCEPT ![c] = 0]
  /\ UNCHANGED <<stack, cache, ch, node, seen, at, alive, walk, w, bounds>>

TuneNode(c) ==
  /\ At(c, "popped")
  /\ IF node[c] = Nil
       THEN Goto(c, "free") /\ count' = [count EXCEPT ![c] = 0] /\ UNCHANGED <<cache, ch>>
       ELSE StopAndPut(node[c]) /\ Goto(c, "tune") /\ count' = [count EXCEPT ![c] = @ - 1]
  /\ Hold(c, Nil)
  /\ UNCHANGED <<stack, seen, at, alive, walk, w, bounds>>

StopWorker(c) ==
  /\ At(c, "free") /\ called < MaxCalls /\ called' = called + 1
  /\ Active /\ w' = [w EXCEPT !.status = "stopping"]
  /\ UNCHANGED <<stack, cache, ch, pc, hands, expiry, added>>

\* Start launches the loop, pushes a first node and only then is idle again.
Start(c) ==
  /\ At(c, "free") /\ w.status = "stopped" /\ At(Loop, "over")
  /\ \E e \in cache, g \in Goroutines :
        /\ initPoolNode(c, e, g)
        /\ pc' = [pc EXCEPT ![c] = "push", ![g] = "serve", ![Loop] = "select"]
  /\ w' = [w EXCEPT !.status = "starting"]
  /\ UNCHANGED <<stack, ch, seen, count, alive, walk, bounds>>

Started(c) == /\ At(c, "started") /\ Goto(c, "free")
              /\ w' = [w EXCEPT !.status = "active", !.signal = TRUE]
              /\ UNCHANGED <<stack, cache, ch, hands, bounds>>

----------------------------------------------------------------------------
StackStep(t) == PushCount(t) \/ PushLoad(t) \/ PushCas(t) \/ PopLoad(t) \/ PopCas(t) \/ PopCount(t)
LoopStep == Select \/ Check \/ PlanBusy \/ PlanLen \/ PlanNode \/ Reserve \/ Admit \/ Fill \/ Undo
            \/ Send \/ Drain \/ RemoveAll
GoStep(g) == Serve(g) \/ RunBatch(g) \/ freePoolNode(g) \/ Release(g) \/ finishJobs(g) \/ Notify(g)
ReapStep == Prune \/ Relink \/ PruneDone \/ Expire
CallStep(c) == TuneLen(c) \/ TuneNode(c) \/ Start(c) \/ Started(c)

Next == \/ LoopStep \/ ReapStep \/ Tick \/ Add \/ Purge
        \/ \E t \in Threads : StackStep(t)
        \/ \E g \in Goroutines : GoStep(g)
        \/ \E c \in Callers : CallStep(c) \/ StopWorker(c) \/ \E n \in Limits : TunePool(c, n)

Spec == Init /\ [][Next]_vars

----------------------------------------------------------------------------
(* Properties. *)

Busy(g) == pc[g] \notin {"dead", "serve"}
InStack == {From(head)[i] : i \in DOMAIN From(head)}
Servers(e) == {g \in Goroutines : at[g] = e}
Owns(g, e) == at[g] = e /\ pc[g] \in {"run", "keep"}

TypeOK ==
  /\ head \in Elems \cup {Nil} /\ next \in [Elems -> Elems \cup {Nil}] /\ len \in 0..Cardinality(Elems)
  /\ popMx \in Threads \cup {Nil} /\ cache \subseteq Elems
  /\ \A e \in Elems : Len(ch[e]) <= 1
  /\ node \in [Threads -> Elems \cup {Nil}] /\ at \in [Goroutines -> Elems \cup {Nil}]
  /\ w.queue \in 0..MaxJobs /\ w.busy \in 0..Max(Limits) /\ w.cur >= 0

\* Every node is in one place: on the stack, in the cache, sent a batch, in one
\* thread's hands or among the pruned.  A push that met Prune's or PopBack's
\* swap loses no node and brings none back twice, and Len is high only by the
\* pushes and the pop under way (pool.go:35).
NodesAccounted ==
  /\ TypeOK
  /\ Len(From(head)) = Cardinality(InStack)
  /\ \A e \in Elems :
       Cardinality({p \in {<<"stack">>} : e \in InStack} \cup {p \in {<<"cache">>} : e \in cache}
                   \cup {p \in {<<"pruned">>} : e \in walk.dropped}
                   \cup {p \in {<<"sent">>} : ch[e] \notin {<<>>, <<Stop>>}}
                   \cup {<<"hand", t>> : t \in {t \in Threads : node[t] = e}}
                   \cup {<<"runs", g>> : g \in {g \in Goroutines : Owns(g, e)}}) = 1
  /\ len = Cardinality(InStack) + Cardinality({t \in Threads : pc[t] \in {"pushLoad", "pushCas", "popCount"}})

\* A node that is in use has one goroutine to serve it, and a Stop still in its
\* channel has one more to take it: an Elem that comes back out of the cache
\* before its old goroutine has ended neither loses a batch nor leaks a
\* goroutine (worker_pool.go:180, node.go:83).
OneServes ==
  \A e \in Elems :
    Cardinality(Servers(e)) = (IF e \in cache THEN 0 ELSE 1) + (IF ch[e] = <<Stop>> THEN 1 ELSE 0)

\* planBatch, worker_eventloop.go:174: "no worker is idle and none should be
\* spawned: the loop waits for one to come back".  A loop that rests on a
\* backlog has a goroutine that will notify it.
OneComesBack ==
  (At(Loop, "select") /\ ~w.signal /\ Active /\ w.queue > 0)
    => (\E g \in Goroutines : Busy(g)) \/ (\E e \in Elems : ch[e] \notin {<<>>, <<Stop>>})

\* With the remover of expired nodes, which leaves the minimum under popMx, the
\* loop never rests on a backlog nobody comes back for.
ExpiryKeepsOne == expiry => OneComesBack

\* Stopped: removeAllWorkers found every node, whoever was pushing or tuning.
\* What is not in the cache is in the hands of a TunePool or of the remover,
\* about to be stopped (worker_pool.go:92, :153).
StoppedLeavesNone ==
  w.status = "stopped" =>
    \A e \in Elems \ cache : e \in walk.dropped \/ \E c \in Callers : node[c] = e
============================================================================
