---------------------------- MODULE QueueScenes -----------------------------
(***************************************************************************)
(* The queue scenes of the guides (docs/src/components/guides-a): a        *)
(* bounded queue and its handle, a queue beside a priority queue, the four *)
(* strategies, Add beside AddAll, and the two scenes that walk the lines   *)
(* of a worker function.  Each has buttons and timeouts that a reset       *)
(* cancels (Timers in ui/dom.ts); motion may be reduced at any time.       *)
(*                                                                         *)
(* One step is one click or one timeout, and each ends with a paint.  The  *)
(* texts of the scenes are left out, but for what they say of the state.   *)
(***************************************************************************)
EXTENDS Naturals, Sequences, FiniteSets, SequencesExt, FiniteSetsExt

CONSTANTS
    Scenes,     \* the scenes that are played
    Capacities, \* positions of the capacity stepper, 0: no limit (0 .. 5)
    Priorities, \* positions of the priority stepper (-9 .. 20)
    StartLens,  \* jobs the three queues of the strategies start with (START)
    MaxJobs     \* bound: jobs a reader adds

VARIABLES
    scene,  \* which scene is played
    s,      \* the scene's closure
    timers, \* timeouts that are pending, in the order they were set
    reduce  \* the reader asks for reduced motion

vars == <<scene, s, timers, reduce>>

NoRun == 0
Then(v, Op(_)) == CHOOSE r \in {Op(x) : x \in {v}} : TRUE
Tick == [kind |-> "tick", i |-> 0]

-----------------------------------------------------------------------------
(* model.ts *)
Strategies == {"Priority", "RoundRobin", "MaxLen", "MinLen"}

\* The source of the next job, and where round robin goes on; lens are the
\* lengths of the worker's queues.
Full(lens) == {i \in DOMAIN lens : lens[i] > 0}
pick(strategy, lens, rr) ==
    LET full    == Full(lens)
        n       == Len(lens)
        after(i) == (i - 1 + n - rr) % n
    IN  CASE strategy = "Priority"   -> Min(full)
          [] strategy = "RoundRobin" -> CHOOSE i \in full : \A k \in full : after(i) <= after(k)
          [] strategy = "MaxLen"     -> Min({i \in full : \A k \in full : lens[i] >= lens[k]})
          [] strategy = "MinLen"     -> Min({i \in full : \A k \in full : lens[i] <= lens[k]})

\* The lowest number, then the one added first.
nextRanked(items) ==
    CHOOSE a \in items : \A b \in items :
        a.priority < b.priority \/ (a.priority = b.priority /\ a.seq <= b.seq)

-----------------------------------------------------------------------------
(* queue-handle.ts *)
Handle == [capacity |-> 2, queue |-> <<>>, batch |-> <<>>, purged |-> {}, running |-> NoRun,
           closedJobs |-> {}, ran |-> <<>>, isClosed |-> FALSE, started |-> FALSE, n |-> 0,
           pending |-> FALSE, startOff |-> FALSE]

isFull(h) == h.capacity > 0 /\ Len(h.queue) >= h.capacity

\* A worker that is free takes the waiting jobs into a batch.
pull(h) ==
    IF ~h.started \/ h.running # NoRun \/ h.batch # <<>> \/ h.queue = <<>> THEN h
    ELSE [h EXCEPT !.batch = h.queue, !.queue = <<>>]

\* The next job of the batch that Purge has not reached runs; the worker closes
\* the ones before it.
next(h) ==
    LET live == {i \in DOMAIN h.batch : h.batch[i] \notin h.purged}
        k    == IF live = {} THEN Len(h.batch) + 1 ELSE Min(live)
    IN  IF h.running # NoRun \/ h.batch = <<>> THEN h
        ELSE [h EXCEPT !.closedJobs = @ \cup ToSet(SubSeq(h.batch, 1, k - 1)),
                       !.running = IF live = {} THEN NoRun ELSE h.batch[k],
                       !.batch = SubSeq(@, k + 1, Len(@))]
advance(h) == next(pull(h))
ranOne(h)  == [h EXCEPT !.ran = IF h.running = NoRun THEN @ ELSE Append(@, h.running),
                        !.running = NoRun]

RECURSIVE drain(_)
drain(h) == Then(advance(h), LAMBDA x : IF x.running = NoRun THEN x ELSE drain(ranOne(x)))

paintHandle(h) == [h EXCEPT !.startOff = h.started /\ ~reduce]

\* render, then schedule.
Scheduled(h) ==
    /\ s' = paintHandle([h EXCEPT !.pending = @ \/ h.running # NoRun])
    /\ timers' = IF h.pending \/ h.running = NoRun THEN timers ELSE Append(timers, Tick)

HandleAdd ==
    /\ scene = "handle" /\ s.n < MaxJobs
    /\ LET h == [s EXCEPT !.n = @ + 1, !.queue = Append(@, s.n + 1)]
       IN  IF s.isClosed \/ isFull(s) THEN s' = paintHandle(s) /\ UNCHANGED timers
           ELSE Scheduled(IF ~s.started THEN h ELSE IF reduce THEN drain(h) ELSE advance(h))
    /\ UNCHANGED <<scene, reduce>>

HandleCapacity(c) ==
    /\ scene = "handle" /\ c # s.capacity
    /\ s' = paintHandle([s EXCEPT !.capacity = c])
    /\ UNCHANGED <<scene, timers, reduce>>

HandlePurge ==
    /\ scene = "handle"
    /\ s' = paintHandle([s EXCEPT !.closedJobs = @ \cup ToSet(s.queue), !.queue = <<>>,
                                  !.purged = @ \cup ToSet(s.batch)])
    /\ UNCHANGED <<scene, timers, reduce>>

HandleClose ==
    /\ scene = "handle" /\ ~s.isClosed
    /\ s' = paintHandle([s EXCEPT !.isClosed = TRUE])
    /\ UNCHANGED <<scene, timers, reduce>>

HandleStart ==
    /\ scene = "handle" /\ ~s.startOff
    /\ LET h == [s EXCEPT !.started = TRUE]
       IN  IF reduce THEN s' = paintHandle(drain(h)) /\ UNCHANGED timers
           ELSE Scheduled(advance(h))
    /\ UNCHANGED <<scene, reduce>>

HandleTick ==
    /\ scene = "handle" /\ timers # <<>>
    /\ LET h == advance(ranOne([s EXCEPT !.pending = FALSE]))
       IN  /\ s' = paintHandle([h EXCEPT !.pending = h.running # NoRun])
           /\ timers' = IF h.running = NoRun THEN Tail(timers) ELSE Append(Tail(timers), Tick)
    /\ UNCHANGED <<scene, reduce>>

-----------------------------------------------------------------------------
(* queue-order.ts *)
Sides == {"fifo", "pq"}
Order == [queue |-> [d \in Sides |-> <<>>], running |-> [d \in Sides |-> <<>>],
          ran |-> [d \in Sides |-> <<>>], seq |-> 0, started |-> FALSE, paused |-> FALSE,
          pending |-> FALSE, startOff |-> FALSE]

\* The head of the rail: the order the jobs leave in.
first(o, d) == IF d = "fifo" THEN Head(o.queue[d]) ELSE nextRanked(ToSet(o.queue[d]))
takes(o) == {d \in Sides : o.running[d] = <<>> /\ o.queue[d] # <<>>}
take(o) ==
    [o EXCEPT !.running = [d \in Sides |-> IF d \in takes(o) THEN <<first(o, d)>> ELSE @[d]],
              !.queue = [d \in Sides |-> IF d \in takes(o)
                                         THEN SelectSeq(@[d], LAMBDA j : j # first(o, d)) ELSE @[d]]]
finish(o) == [o EXCEPT !.ran = [d \in Sides |-> @[d] \o o.running[d]],
                       !.running = [d \in Sides |-> <<>>]]
busy(o)   == \E d \in Sides : o.running[d] # <<>>
waits(o)  == \E d \in Sides : o.queue[d] # <<>>

RECURSIVE drainBoth(_)
drainBoth(o) == Then(finish(take(o)), LAMBDA x : IF waits(x) THEN drainBoth(x) ELSE x)

paintOrder(o) ==
    [o EXCEPT !.startOff = o.started /\ ~o.paused /\ ~reduce /\ ~busy(o) /\ ~waits(o)]

\* schedule: one timeout for both sides.
OrderScheduled(o) ==
    /\ s' = [paintOrder(o) EXCEPT !.pending = @ \/ busy(o)]
    /\ timers' = IF o.pending \/ ~busy(o) THEN timers ELSE Append(timers, Tick)

OrderAdd(p) ==
    /\ scene = "order" /\ s.seq < MaxJobs
    /\ LET job == [priority |-> p, seq |-> s.seq + 1]
           o   == [s EXCEPT !.seq = @ + 1, !.queue = [d \in Sides |-> Append(@[d], job)]]
       IN  \/ s.started /\ reduce /\ s' = paintOrder(drainBoth(o)) /\ UNCHANGED timers
           \/ s.started /\ ~reduce /\ ~s.paused /\ OrderScheduled(take(o))
           \/ (~s.started \/ (~reduce /\ s.paused)) /\ s' = paintOrder(o) /\ UNCHANGED timers
    /\ UNCHANGED <<scene, reduce>>

\* The example: a reset, and three jobs of which the second comes first.
OrderExample ==
    /\ scene = "order"
    /\ LET job(k) == [priority |-> IF k = 2 THEN Min(Priorities) ELSE Max(Priorities), seq |-> k]
       IN  s' = [Order EXCEPT !.seq = 3, !.queue = [d \in Sides |-> [k \in 1 .. 3 |-> job(k)]]]
    /\ timers' = <<>>
    /\ UNCHANGED <<scene, reduce>>

OrderStart ==
    /\ scene = "order" /\ ~s.startOff
    /\ \/ reduce /\ s' = paintOrder(drainBoth([s EXCEPT !.started = TRUE])) /\ UNCHANGED timers
       \/ /\ ~reduce /\ (~s.started \/ s.paused)
          /\ OrderScheduled(take([s EXCEPT !.started = TRUE, !.paused = FALSE]))
       \/ /\ ~reduce /\ s.started /\ ~s.paused
          /\ s' = paintOrder([s EXCEPT !.paused = TRUE]) /\ UNCHANGED timers
    /\ UNCHANGED <<scene, reduce>>

OrderTick ==
    /\ scene = "order" /\ timers # <<>>
    /\ LET ended == finish([s EXCEPT !.pending = FALSE])
           o     == IF s.paused THEN ended ELSE take(ended)
       IN  /\ s' = [paintOrder(o) EXCEPT !.pending = busy(o)]
           /\ timers' = IF busy(o) THEN Append(Tail(timers), Tick) ELSE Tail(timers)
    /\ UNCHANGED <<scene, reduce>>

-----------------------------------------------------------------------------
(* strategy-picker.ts *)
Picker(strategy) ==
    [strategy |-> strategy, jobs |-> StartLens, taken |-> <<>>, rr |-> 0, playing |-> FALSE,
     total |-> FoldLeft(LAMBDA a, b : a + b, 0, StartLens)]

\* step: the head of the picked queue is taken.
pickStep(p) ==
    IF Full(p.jobs) = {} THEN p
    ELSE LET i == pick(p.strategy, p.jobs, p.rr)
         IN  [p EXCEPT !.jobs[i] = @ - 1, !.taken = Append(@, i),
                       !.rr = IF p.strategy = "RoundRobin" THEN i % Len(p.jobs) ELSE @]
RECURSIVE pickAll(_)
pickAll(p) == IF Full(p.jobs) = {} THEN p ELSE Then(pickStep(p), pickAll)

PickStep ==
    /\ scene = "picker" /\ Full(s.jobs) # {}
    /\ s' = pickStep([s EXCEPT !.playing = FALSE])
    /\ timers' = <<>>
    /\ UNCHANGED <<scene, reduce>>

PickPlay ==
    /\ scene = "picker" /\ (Full(s.jobs) # {} \/ s.playing)
    /\ \/ reduce /\ s' = pickAll(s) /\ UNCHANGED timers
       \/ /\ ~reduce
          /\ s' = [s EXCEPT !.playing = ~@]
          /\ timers' = IF s.playing THEN <<>> ELSE <<Tick>>
    /\ UNCHANGED <<scene, reduce>>

PickAdd(i) ==
    /\ scene = "picker" /\ s.total < MaxJobs + Picker(s.strategy).total
    /\ s' = [s EXCEPT !.jobs[i] = @ + 1, !.total = @ + 1]
    /\ UNCHANGED <<scene, timers, reduce>>

PickTick ==
    /\ scene = "picker" /\ timers # <<>>
    /\ LET on == s.playing /\ Full(s.jobs) # {}
       IN  /\ s' = [pickStep(s) EXCEPT !.playing = on]
           /\ timers' = IF on THEN Append(Tail(timers), Tick) ELSE Tail(timers)
    /\ UNCHANGED <<scene, reduce>>

-----------------------------------------------------------------------------
(* add-all-compare.ts *)
Variants == [new |-> <<"a", "b", "c", "d">>, repeat |-> <<"a", "b", "a", "c">>,
             full |-> <<"a", "b", "c", "d">>]
capacity(v) == IF v = "full" THEN 3 ELSE 0

\* An item is refused when the queue is full or holds its ID.
acceptAll(v) ==
    LET ids == Variants[v]
        fits(acc, i) == IF (capacity(v) > 0 /\ Cardinality(acc) >= capacity(v))
                           \/ \E k \in acc : ids[k] = ids[i] THEN acc ELSE acc \cup {i}
    IN  FoldLeft(fits, {}, [i \in DOMAIN ids |-> i])

Compare(v) == [variant |-> v, phase |-> "idle", accepted |-> {}, processing |-> {},
               arrived |-> <<>>, pending |-> 0]

CompareAdd ==
    /\ scene = "compare" /\ s.phase = "idle"
    /\ s' = [s EXCEPT !.accepted = acceptAll(s.variant), !.phase = "added",
                      !.pending = Cardinality(acceptAll(s.variant))]
    /\ UNCHANGED <<scene, timers, reduce>>

\* Start: a timeout for each job's start and one for its end, in an order that
\* the durations drawn at random decide.
CompareStart ==
    /\ scene = "compare" /\ s.phase = "added"
    /\ \/ /\ reduce
          /\ \E order \in SetToSeqs(s.accepted) :
               s' = [s EXCEPT !.phase = "done", !.arrived = order, !.pending = 0]
          /\ UNCHANGED timers
       \/ /\ ~reduce
          /\ s' = [s EXCEPT !.phase = "running"]
          /\ timers' = FoldSet(LAMBDA i, ts : ts \o <<[kind |-> "start", i |-> i], [kind |-> "end", i |-> i]>>,
                               <<>>, s.accepted)
    /\ UNCHANGED <<scene, reduce>>

CompareTick(k) ==
    LET t == timers[k]
    IN  /\ scene = "compare"
        /\ t.kind = "end" => ~\E m \in DOMAIN timers : timers[m] = [kind |-> "start", i |-> t.i]
        /\ s' = IF t.kind = "start" THEN [s EXCEPT !.processing = @ \cup {t.i}]
                ELSE [s EXCEPT !.processing = @ \ {t.i}, !.arrived = Append(@, t.i),
                               !.pending = @ - 1, !.phase = IF s.pending = 1 THEN "done" ELSE @]
        /\ timers' = RemoveAt(timers, k)
        /\ UNCHANGED <<scene, reduce>>

-----------------------------------------------------------------------------
(* helper-wrap.ts and worker-types.ts: a worker function of each kind on three *)
(* inputs.  A run lights the lines that ran, and then what the caller reads.   *)
Kinds == {"plain", "err", "result"}

\* What each helper does with a closure: the outcome on the handle and on Errs.
Closures == {"works", "fails", "nil"}
outcome(kind, c) ==
    [read |-> IF kind = "plain" THEN "dim" ELSE IF c = "works" THEN "ok" ELSE "bad",
     errs |-> IF c = "works" THEN "dim" ELSE "bad"]

\* The lines of the helper a closure runs through.
PATH(kind, c) ==
    CASE c # "nil"                    -> <<0, 1, 2>>
      [] c = "nil" /\ kind = "plain" -> <<0, 1, 5>>
      [] OTHER                        -> <<0, 1, 4>>

\* paint(lit, stage) of the helper scene.
WrapPainted(kind, c, lit, stage) ==
    [kind |-> kind, input |-> c, lit |-> lit, stage |-> stage,
     on |-> ToSet(SubSeq(PATH(kind, c), 1, lit)), shown |-> outcome(kind, c)]
WrapWhole(kind, c) == WrapPainted(kind, c, Len(PATH(kind, c)), 3)

\* A choice of a tab or a radio: shown as a whole, at once.
WrapChoose(kind, c) ==
    /\ scene = "wrap" /\ (kind = s.kind \/ c = s.input)
    /\ s' = WrapWhole(kind, c) /\ timers' = <<>>
    /\ UNCHANGED <<scene, reduce>>

WrapAdd ==
    /\ scene = "wrap"
    /\ \/ reduce /\ s' = WrapWhole(s.kind, s.input) /\ timers' = <<>>
       \/ /\ ~reduce
          /\ s' = WrapPainted(s.kind, s.input, 0, 1)
          /\ timers' = [k \in 1 .. Len(PATH(s.kind, s.input)) + 1 |-> [kind |-> "line", i |-> k]]
    /\ UNCHANGED <<scene, reduce>>

WrapTick ==
    /\ scene = "wrap" /\ timers # <<>>
    /\ LET i == Head(timers).i
       IN  s' = IF i > Len(PATH(s.kind, s.input)) THEN WrapWhole(s.kind, s.input)
                ELSE WrapPainted(s.kind, s.input, i, 2)
    /\ timers' = Tail(timers)
    /\ UNCHANGED <<scene, reduce>>

\* What each constructor gives for a job: what the function returned, what the
\* handle reads and what Errs got.
Inputs == {"42", "forty-two", "boom"}
view(kind, input) ==
    LET bad == input = "boom" \/ (input = "forty-two" /\ kind # "plain")
    IN  [ret  |-> IF bad THEN "bad" ELSE IF kind = "plain" THEN "" ELSE "ok",
         read |-> IF kind = "plain" THEN "dim" ELSE IF bad THEN "bad" ELSE "ok",
         errs |-> IF bad THEN "bad" ELSE "dim"]

\* The lines that run: to the panic, or past it.
RUNS(kind, input) ==
    CASE input = "boom"                    -> {0, 1, 2}
      [] input # "boom" /\ kind = "result" -> {0, 1, 4, 5}
      [] OTHER                             -> {0, 1, 4, 5, 6}

\* paint(lit) of the constructor scene.
TypesPainted(kind, input, lit) ==
    [kind |-> kind, input |-> input, lit |-> lit, stage |-> lit,
     on |-> IF lit >= 1 THEN RUNS(kind, input) \ {0} ELSE {}, shown |-> view(kind, input)]

TypesChoose(kind, input) ==
    /\ scene = "types" /\ (kind = s.kind \/ input = s.input)
    /\ s' = TypesPainted(kind, input, 3) /\ timers' = <<>>
    /\ UNCHANGED <<scene, reduce>>

\* Add: three steps, and then the announcement.
TypesAdd ==
    /\ scene = "types"
    /\ s' = TypesPainted(s.kind, s.input, IF reduce THEN 3 ELSE 0)
    /\ timers' = IF reduce THEN <<>> ELSE [k \in 1 .. 4 |-> [kind |-> "line", i |-> k]]
    /\ UNCHANGED <<scene, reduce>>

TypesTick ==
    /\ scene = "types" /\ timers # <<>>
    /\ s' = IF Head(timers).i > 3 THEN s ELSE TypesPainted(s.kind, s.input, Head(timers).i)
    /\ timers' = Tail(timers)
    /\ UNCHANGED <<scene, reduce>>

-----------------------------------------------------------------------------
\* What a scene starts with, and its Reset comes back to.
Fresh ==
    CASE scene = "handle"  -> Handle
      [] scene = "order"   -> Order
      [] scene = "picker"  -> Picker(s.strategy)
      [] scene = "compare" -> Compare(s.variant)

\* The Reset button: timers.clear(), and everything as at first.
Reset ==
    /\ scene \notin {"wrap", "types"}
    /\ s' = Fresh /\ timers' = <<>>
    /\ UNCHANGED <<scene, reduce>>

\* A tab of a scene that has them.
Tab ==
    /\ \/ scene = "picker" /\ \E st \in Strategies \ {s.strategy} : s' = Picker(st)
       \/ scene = "compare" /\ \E v \in DOMAIN Variants : s' = Compare(v)
    /\ timers' = <<>>
    /\ UNCHANGED <<scene, reduce>>

\* The system's setting for reduced motion changes.
Motion == reduce' = ~reduce /\ UNCHANGED <<scene, s, timers>>

Init ==
    /\ scene \in Scenes
    /\ s = CASE scene = "handle" -> Handle [] scene = "order" -> Order
             [] scene = "picker" -> Picker("Priority") [] scene = "compare" -> Compare("repeat")
             [] scene = "wrap" -> WrapWhole("plain", "works")
             [] scene = "types" -> TypesPainted("plain", "42", 3)
    /\ timers = <<>>
    /\ reduce \in BOOLEAN

Timeout ==
    \/ HandleTick \/ OrderTick \/ PickTick \/ WrapTick \/ TypesTick
    \/ \E k \in DOMAIN timers : CompareTick(k)
Next ==
    \/ Timeout \/ Reset \/ Tab \/ Motion
    \/ HandleAdd \/ HandlePurge \/ HandleClose \/ HandleStart
    \/ \E c \in Capacities : HandleCapacity(c)
    \/ (\E p \in Priorities : OrderAdd(p)) \/ OrderExample \/ OrderStart
    \/ PickStep \/ PickPlay \/ (\E i \in DOMAIN StartLens : PickAdd(i))
    \/ CompareAdd \/ CompareStart
    \/ WrapAdd \/ TypesAdd
    \/ \E kind \in Kinds : (\E c \in Closures : WrapChoose(kind, c)) \/ (\E i \in Inputs : TypesChoose(kind, i))

\* The browser fires every timeout that is not cleared.
Spec == Init /\ [][Next]_vars /\ WF_vars(Timeout)

-----------------------------------------------------------------------------
\* What the scene shows as under way is under way: a job that runs, a replay that
\* plays, a group that runs and a walk through the lines that is not at its end
\* have exactly the timeouts that take them there, and a scene at rest has none,
\* whatever was pressed, reset or switched in between.
TimersMatch ==
    CASE scene = "handle"  -> /\ Len(timers) = IF s.pending THEN 1 ELSE 0
                              /\ s.running # NoRun => s.pending
      [] scene = "order"   -> /\ Len(timers) = IF s.pending THEN 1 ELSE 0
                              /\ busy(s) => s.pending
      [] scene = "picker"  -> Len(timers) = IF s.playing THEN 1 ELSE 0
      [] scene = "compare" -> /\ (s.phase = "running") = (timers # <<>>)
                              /\ s.phase \in {"running", "done"} =>
                                   s.pending = Cardinality({k \in DOMAIN timers : timers[k].kind = "end"})
      [] scene = "wrap"    -> (timers = <<>>) = (s = WrapWhole(s.kind, s.input))
      [] scene = "types"   -> IF s = TypesPainted(s.kind, s.input, 3) THEN Len(timers) <= 1
                              ELSE Len(timers) = 4 - s.lit

SeqsIn(sides) == [d \in Sides |-> {sides[d][k].seq : k \in DOMAIN sides[d]}]

\* Every job the reader added is in one place: queued, in the batch, running, ran
\* or closed; a purged job never runs; an item AddAll accepted sends one result.
JobsOnce ==
    CASE scene = "handle" ->
           LET places == <<ToSet(s.queue), ToSet(s.batch), {s.running} \ {NoRun}, ToSet(s.ran), s.closedJobs>>
           IN  /\ UNION ToSet(places) = 1 .. s.n
               /\ FoldLeft(LAMBDA a, b : a + Cardinality(b), 0, places) = s.n
               /\ IsInjective(s.ran) /\ ToSet(s.ran) \cap s.purged = {}
      [] scene = "order" ->
           \A d \in Sides : /\ Len(s.queue[d]) + Len(s.running[d]) + Len(s.ran[d]) = s.seq
                            /\ SeqsIn(s.queue)[d] \cup SeqsIn(s.running)[d] \cup SeqsIn(s.ran)[d] = 1 .. s.seq
      [] scene = "picker" -> Len(s.taken) + FoldLeft(LAMBDA a, b : a + b, 0, s.jobs) = s.total
      [] scene = "compare" ->
           /\ IsInjective(s.arrived) /\ ToSet(s.arrived) \subseteq s.accepted
           /\ s.phase = "done" => ToSet(s.arrived) = s.accepted
           /\ s.phase # "idle" => s.pending = Cardinality(s.accepted) - Len(s.arrived)
      [] OTHER -> TRUE

\* A worker that is free has no job waiting.  In the scene of the two queues that
\* is so whenever the workers are started and not paused; in the scene of the
\* handle, unless Purge has reached jobs the worker had already taken.
NoneLeftWaiting ==
    /\ scene = "order" =>
         \A d \in Sides : s.started /\ ~s.paused /\ s.queue[d] # <<>> => s.running[d] # <<>>
    /\ scene = "handle" =>
         (s.started /\ s.queue # <<>> => s.running # NoRun \/ s.purged # {})

\* "A worker that is free takes the waiting jobs into a batch: they leave the
\* queue" (queue-handle.ts:109), with and without a Purge.
FreeWorkerTakes ==
    scene = "handle" /\ s.started /\ s.running = NoRun => s.queue = <<>>
=============================================================================
