------------------------------ MODULE HeroPool ------------------------------
(***************************************************************************)
(* The worker of the home page's map as a discrete-event simulation        *)
(* (docs/src/lib/heromap/pool.ts): jobs land in sources, an event loop     *)
(* hands them to goroutines drawn as rings, controls pause, resume, stop,  *)
(* restart and tune it.                                                    *)
(*                                                                         *)
(* A plan says when jobs land, how long they work, when the controls come  *)
(* and how long a wake-up and a hand-out take.  Plans are free in all of   *)
(* that, so a timer fires here at any time after it was set, and a plan's  *)
(* controls are taken where `control' does not refuse them.  What is kept  *)
(* of the timers is which ones are pending.                                *)
(*                                                                         *)
(* A worker plays plan after plan: endState hands its limit, its idle      *)
(* goroutines and its round-robin turn to the next one.                    *)
(***************************************************************************)
EXTENDS Naturals, Sequences, FiniteSets, SequencesExt, FiniteSetsExt

CONSTANTS
    NumSources, \* the sources, 1 .. NumSources in bind order
    Jobs,       \* the jobs of a plan, integers
    rank,       \* a job's priority
    ByPriority, \* the sources that are priority queues
    MaxLimit,   \* bound: the highest limit a plan tunes to
    MaxControls,\* bound: controls in a plan
    Plans       \* bound: plans played one after the other

VARIABLES
    pool,     \* track's pool: limit, busy, idle, turn, waiting
    strategy, \* the one in force (strategyAt)
    flags,    \* paused, stopped, stepping
    wakes,    \* pending timers that wake the event loop
    runs,     \* pending finish timers: a job and its ring
    toLand,   \* jobs that have not landed
    controls, \* controls so far
    plan,     \* plans so far
    refused,  \* the simulation threw
    passed    \* history: hand-outs by round robin since a source had its turn or nothing waiting

vars == <<pool, strategy, flags, wakes, runs, toLand, controls, plan, refused, passed>>

Sources    == 1 .. NumSources
Strategies == {"priority", "roundrobin", "maxlen", "minlen"}
Rings      == 0 .. MaxLimit

\* Of the rings, the lowest that is not taken.
lowestFree(taken) == Min(Rings \ taken)

-----------------------------------------------------------------------------
(* track *)
IdleRings(p) == ToSet(p.idle)
Without(ring, s) == SelectSeq(s, LAMBDA r : r # ring)

\* A priority source keeps its lowest number at the head, ties by arrival.
insert(queue, job, byPriority) ==
    LET ahead == {i \in DOMAIN queue : ~byPriority \/ rank[queue[i]] <= rank[job]}
        i     == IF ahead = {} THEN 0 ELSE Max(ahead)
    IN  SubSeq(queue, 1, i) \o <<job>> \o SubSeq(queue, i + 1, Len(queue))

\* apply: what each event makes of the pool.
land(p, job, s)        == [p EXCEPT !.waiting[s] = insert(@, job, s \in ByPriority)]
done(p, ring)          == [p EXCEPT !.busy = @ \ {ring}]
goIdle(p, ring)        == [p EXCEPT !.idle = Append(@, ring)]
exit(p, ring)          == [p EXCEPT !.idle = Without(ring, @)]
dispatched(p, s, ring) ==
    [p EXCEPT !.waiting[s] = Tail(@), !.idle = Without(ring, @), !.busy = @ \cup {ring},
              !.turn = IF NumSources > 1 /\ strategy = "roundrobin" THEN s % NumSources ELSE @]

pending(p) == MapThenSumSet(LAMBDA s : Len(p.waiting[s]), Sources)

-----------------------------------------------------------------------------
(* simulatePool *)

\* What the event loop asks before each hand-out.
ready(p, f) == ~f.paused /\ ~f.stopped /\ Cardinality(p.busy) < p.limit /\ pending(p) > 0

\* The source the strategy picks, the first of equals in bind order; round robin
\* looks from the turn on.
pick(p) ==
    LET full  == {s \in Sources : p.waiting[s] # <<>>}
        len(s) == Len(p.waiting[s])
        from(s) == (s - 1 + NumSources - p.turn) % NumSources
    IN  CASE strategy = "maxlen" -> Min({s \in full : \A o \in full : len(s) >= len(o)})
          [] strategy = "minlen" -> Min({s \in full : \A o \in full : len(s) <= len(o)})
          [] strategy = "roundrobin" -> CHOOSE s \in full : \A o \in full : from(s) <= from(o)
          [] strategy = "priority" -> Min(full)

\* A hand-out; a worker at limit 1 with more waiting would take a batch, which
\* the map cannot draw.
dispatch ==
    LET s    == pick(pool)
        job  == Head(pool.waiting[s])
        ring == IF pool.idle = <<>> THEN lowestFree(pool.busy) ELSE Last(pool.idle)
        next == dispatched(pool, s, ring)
    IN  IF pool.limit = 1 /\ pending(pool) > 1
        THEN refused' = TRUE /\ UNCHANGED <<pool, flags, runs, passed>>
        ELSE /\ pool' = next
             /\ runs' = runs \cup {<<job, ring>>}
             /\ flags' = [flags EXCEPT !.stepping = ready(next, flags)]
             /\ passed' = [o \in Sources |->
                    IF o = s \/ next.waiting[o] = <<>> THEN 0
                    ELSE passed[o] + (IF strategy = "roundrobin" THEN 1 ELSE 0)]
             /\ UNCHANGED refused

\* One turn of the event loop's `for'.
step ==
    IF ready(pool, flags) THEN dispatch
    ELSE flags' = [flags EXCEPT !.stepping = FALSE] /\ UNCHANGED <<pool, runs, passed, refused>>

\* Every goroutine in the pool is stopped.
retire(p, rings) == FoldLeft(exit, p, rings)

-----------------------------------------------------------------------------
(* The timers *)
LandTimer(job, s) ==
    /\ job \in toLand
    /\ toLand' = toLand \ {job}
    /\ pool' = land(pool, job, s)
    /\ wakes' = wakes + 1
    /\ UNCHANGED <<strategy, flags, runs, controls, plan, refused, passed>>

StepTimer ==
    /\ flags.stepping
    /\ step
    /\ UNCHANGED <<strategy, wakes, toLand, controls, plan>>

\* wake: dropped while a run of hand-outs is under way.
WakeTimer ==
    /\ wakes > 0
    /\ wakes' = wakes - 1
    /\ \/ flags.stepping /\ UNCHANGED <<pool, flags, runs, passed, refused>>
       \/ ~flags.stepping /\ step
    /\ UNCHANGED <<strategy, toLand, controls, plan>>

\* finish: the goroutine stays while more jobs wait than goroutines sit idle, or
\* while none does; the last job of a stopped worker takes them all along.
stays(p) == pending(p) > Len(p.idle) \/ p.idle = <<>>

\* Mutant: a goroutine that finishes does not wake the event loop.
FinishAsleep(r) ==
    LET ring == r[2]
        p    == done(pool, ring)
    IN  /\ r \in runs
        /\ runs' = runs \ {r}
        /\ pool' = IF flags.stopped /\ p.busy = {} THEN retire(p, <<ring>> \o Reverse(p.idle))
                   ELSE IF stays(p) THEN goIdle(p, ring) ELSE exit(p, ring)
        /\ UNCHANGED <<strategy, flags, wakes, toLand, controls, plan, refused, passed>>

FinishTimer(r) ==
    LET ring == r[2]
        p    == done(pool, ring)
    IN  /\ r \in runs
        /\ runs' = runs \ {r}
        /\ pool' = IF flags.stopped /\ p.busy = {} THEN retire(p, <<ring>> \o Reverse(p.idle))
                   ELSE IF stays(p) THEN goIdle(p, ring) ELSE exit(p, ring)
        /\ wakes' = wakes + 1
        /\ UNCHANGED <<strategy, flags, toLand, controls, plan, refused, passed>>

\* control, where it does not throw, and the calls a plan may make.
Control ==
    /\ controls < MaxControls
    /\ controls' = controls + 1
    /\ UNCHANGED <<strategy, runs, toLand, plan, refused, passed>>

Pause ==
    /\ Control
    /\ ~flags.paused /\ ~flags.stopped
    /\ flags' = [flags EXCEPT !.paused = TRUE]
    /\ UNCHANGED <<pool, wakes>>

Resume ==
    /\ Control
    /\ flags.paused /\ ~flags.stopped /\ pool.busy = {}
    /\ flags' = [flags EXCEPT !.paused = FALSE]
    /\ wakes' = wakes + 1
    /\ UNCHANGED pool

Stop ==
    /\ Control
    /\ ~flags.stopped
    /\ flags' = [flags EXCEPT !.stopped = TRUE]
    /\ pool' = IF pool.busy = {} THEN retire(pool, Reverse(pool.idle)) ELSE pool
    /\ UNCHANGED wakes

Restart ==
    /\ Control
    /\ flags.stopped /\ pool.busy = {}
    /\ flags' = [flags EXCEPT !.stopped = FALSE, !.paused = FALSE]
    /\ pool' = goIdle(pool, 0)
    /\ wakes' = wakes + 1

Tune(to) ==
    /\ Control
    /\ ~flags.paused /\ ~flags.stopped
    /\ to > pool.limit
    /\ pool' = [pool EXCEPT !.limit = to]
    /\ wakes' = wakes + 1
    /\ UNCHANGED flags

\* A story that shows the strategies in turn.
SetStrategy(s) ==
    /\ controls < MaxControls
    /\ controls' = controls + 1
    /\ strategy' = s
    /\ UNCHANGED <<pool, flags, wakes, runs, toLand, plan, refused, passed>>

-----------------------------------------------------------------------------
NoFlags == [paused |-> FALSE, stopped |-> FALSE, stepping |-> FALSE]
NoJobs  == [s \in Sources |-> <<>>]

NewPool(limit, idle, turn) ==
    [limit |-> limit, busy |-> {}, idle |-> idle, turn |-> turn, waiting |-> NoJobs]

Init ==
    /\ \E limit \in 1 .. MaxLimit : pool = NewPool(limit, <<0>>, 0)
    /\ strategy \in Strategies
    /\ flags = NoFlags
    /\ wakes = 0 /\ runs = {} /\ toLand = Jobs /\ controls = 0
    /\ plan = 1 /\ refused = FALSE
    /\ passed = [s \in Sources |-> 0]

\* No timer is left: endState gives the next plan what it starts with.  A chapter
\* that leaves the worker paused or stopped is the last.
Over == wakes = 0 /\ runs = {} /\ toLand = {} /\ ~flags.stepping
NextPlan ==
    /\ Over /\ ~flags.stopped /\ ~flags.paused
    /\ plan < Plans
    /\ plan' = plan + 1
    /\ pool' = NewPool(pool.limit, pool.idle, pool.turn)
    /\ toLand' = Jobs /\ controls' = 0
    /\ UNCHANGED <<strategy, flags, wakes, runs, refused, passed>>

Timers ==
    \/ \E j \in Jobs : \E s \in Sources : LandTimer(j, s)
    \/ StepTimer \/ WakeTimer
    \/ \E r \in runs : FinishTimer(r)
Next ==
    /\ ~refused
    /\ \/ Timers
       \/ Pause \/ Resume \/ Stop \/ Restart
       \/ \E to \in 1 .. MaxLimit : Tune(to)
       \/ \E s \in Strategies \ {strategy} : SetStrategy(s)
       \/ NextPlan

\* The loop at the end of simulatePool runs every timer.
Spec == Init /\ [][Next]_vars /\ WF_vars(~refused /\ Timers)

-----------------------------------------------------------------------------
\* A job that can be handed out has a timer that will hand it out: a wake-up
\* dropped because a run of hand-outs is under way is never the last one, nor is
\* one that comes while the worker is paused, stopped or full.
WakeNotLost == ready(pool, flags) => refused \/ wakes > 0 \/ flags.stepping

\* Every ring is drawn once: running exactly one job, or once on the idle stack;
\* a goroutine is started only below the limit; the worker keeps one goroutine,
\* and none once it has stopped with nothing left to run.
RingsSound ==
    /\ IsInjective(pool.idle)
    /\ IdleRings(pool) \cap pool.busy = {}
    /\ pool.busy = {r[2] : r \in runs}
    /\ Cardinality(runs) = Cardinality(pool.busy)
    /\ Cardinality(pool.busy) + Len(pool.idle) <= pool.limit
    /\ (pool.busy = {} /\ pool.idle = <<>>) <=> (flags.stopped /\ pool.busy = {})

\* Round robin passes over a source with jobs at most once for every other
\* source, whatever other strategies do in between.
NoneStarved == \A s \in Sources : passed[s] < NumSources

\* Once every job has landed and no control comes, the plan ends, with no job
\* left behind unless the worker was left paused or stopped.
AllRun == refused \/ flags.paused \/ flags.stopped \/ (Over /\ pending(pool) = 0)
=============================================================================
