----------------------------- MODULE HeroStores -----------------------------
(***************************************************************************)
(* The SQLite and the Redis store of the home page's map as discrete-event *)
(* simulations (docs/src/lib/heromap/stores.ts): a queue, a tray with the  *)
(* records in flight, and the workers of the programs that take jobs.      *)
(*                                                                         *)
(* As in HeroPool the plan's times are free: a timer fires at any time     *)
(* after it was set.  The exceptions are a claim and a pull, which are set *)
(* for the instant of their cause and come before a crash at that instant  *)
(* or later.  A plan has at most one crash.                                *)
(***************************************************************************)
EXTENDS Naturals, Sequences, FiniteSets, SequencesExt, FiniteSetsExt

CONSTANTS
    Slots,     \* SLOTS, the tray's
    Jobs,      \* the jobs of a plan, numbered as they land
    Kinds,     \* which stores: "sqlite", "redis"
    Crew,      \* a store's workers
    Limit,     \* a worker's concurrency
    NotifyOrder,\* the Redis consumers in the plan's order
    NoJob

VARIABLES
    kind,      \* which of the two is simulated
    store,     \* queue, tray, each worker's busy rings with their jobs and its idle stack; refused: apply threw
    dones,     \* pending timers: a function that will return, with its worker's deaths at the take
    acks,      \* pending timers: acks on their way
    deaths,    \* a worker's deaths
    toLand,    \* jobs still to land
    program,   \* SQLite: open, looking, restarted, and the pending claims
    redis,     \* Redis: waiting, idle, wakes on their way and pending pulls of each worker
    taker,     \* jobs with their last taker, in the order they were first taken
    down,      \* the worker whose program has died, and how far its plan's crash has come
    rows,      \* SQLite: jobs in write order
    acked      \* history: jobs acknowledged

vars == <<kind, store, dones, acks, deaths, toLand, program, redis, taker, down, rows, acked>>

AllWorkers == UNION {Crew[k] : k \in Kinds}
Workers    == Crew[kind]
Then(v, Op(_)) == CHOOSE r \in {Op(x) : x \in {v}} : TRUE

\* Of the rings, the lowest that is not taken.
lowestFree(taken) == Min((0 .. Slots) \ taken)
busyRings(s, w)   == {b[1] : b \in s.busy[w]}
indexOf(s, job)   == CHOOSE k \in DOMAIN s.tray : s.tray[k] = job
inFlight(s)       == {s.tray[k] : k \in DOMAIN s.tray} \ {NoJob}

fresh == [queue |-> <<>>, tray |-> [k \in 1 .. Slots |-> NoJob],
          busy |-> [w \in AllWorkers |-> {}], idle |-> [w \in AllWorkers |-> <<0>>],
          refused |-> FALSE]

-----------------------------------------------------------------------------
(* apply: what each event makes of the store; it refuses what no store does *)
Check(ok, s) == IF ok THEN s ELSE [s EXCEPT !.refused = TRUE]
Without(x, seq) == SelectSeq(seq, LAMBDA y : y # x)

landed(s, job) == [s EXCEPT !.queue = Append(@, job)]

spawned(s, w, ring) ==
    Check(ring \notin busyRings(s, w) \cup ToSet(s.idle[w]),
          [s EXCEPT !.idle[w] = Append(@, ring)])

\* Onto the lowest free slot of the tray, of which there must be one.
taken(s, job, w, ring) ==
    IF job \in ToSet(s.queue) /\ NoJob \in {s.tray[k] : k \in DOMAIN s.tray} /\ ring \in ToSet(s.idle[w])
    THEN LET slot == Min({k \in DOMAIN s.tray : s.tray[k] = NoJob})
         IN  [s EXCEPT !.queue = Without(job, @), !.tray[slot] = job,
                       !.idle[w] = Without(ring, @), !.busy[w] = @ \cup {<<ring, job>>}]
    ELSE Check(FALSE, s)

\* The record is gone; every ring that holds the job goes idle.
ackd(s, job) ==
    IF job \in inFlight(s)
    THEN [s EXCEPT !.tray[indexOf(s, job)] = NoJob,
                   !.busy = [w \in AllWorkers |-> {b \in @[w] : b[2] # job}],
                   !.idle = [w \in AllWorkers |->
                       @[w] \o SetToSeq({b[1] : b \in {c \in s.busy[w] : c[2] = job}})]]
    ELSE Check(FALSE, s)

exited(s, w, ring) ==
    Check(ring \in busyRings(s, w) \cup ToSet(s.idle[w]),
          [s EXCEPT !.busy[w] = {b \in @ : b[1] # ring}, !.idle[w] = Without(ring, @)])

requeued(s, jobs) ==
    Check(ToSet(jobs) \subseteq inFlight(s),
          [s EXCEPT !.tray = [k \in DOMAIN @ |-> IF @[k] \in ToSet(jobs) THEN NoJob ELSE @[k]],
                    !.queue = jobs \o @])

-----------------------------------------------------------------------------
(* engine *)
credit(s, w) == Limit[w] - Cardinality(s.busy[w])
upTo(s, n)   == SubSeq(s, 1, IF n < Len(s) THEN n ELSE Len(s))
batch(s, w)  == upTo(s.queue, credit(s, w))

\* take: the goroutine that went idle last, or a new one, runs the job.
Takes(w, from, jobs) ==
    LET one(t, job) ==
          Then(IF t.s.idle[w] = <<>> THEN spawned(t.s, w, lowestFree(busyRings(t.s, w))) ELSE t.s,
               LAMBDA s : [s |-> taken(s, job, w, Last(s.idle[w])),
                           d |-> t.d \cup {[w |-> w, job |-> job, ring |-> Last(s.idle[w]),
                                            deaths |-> deaths[w]]}])
        all == FoldLeft(LAMBDA t, job : Then(t, LAMBDA x : one(x, job)), [s |-> from, d |-> dones], jobs)
    IN  store' = all.s /\ dones' = all.d

\* The function returns, unless its program has died since.
Done(d) ==
    /\ d \in dones
    /\ dones' = dones \ {d}
    /\ acks' = IF d.deaths = deaths[d.w] THEN acks \cup {d} ELSE acks
    /\ UNCHANGED <<kind, store, deaths, toLand, program, redis, taker, down, rows, acked>>

\* Mutant: the program does not look again after an ack.
AckOnly(d) ==
    /\ d \in acks
    /\ acks' = acks \ {d}
    /\ acked' = acked \cup {d.job}
    /\ store' = ackd(store, d.job)
    /\ redis' = IF kind = "sqlite" \/ d.w \in redis.waiting THEN redis
                ELSE [redis EXCEPT !.pulls[d.w] = @ + 1]
    /\ UNCHANGED <<kind, dones, deaths, toLand, program, taker, down, rows>>

\* The ack lands; the goroutine stays while more jobs wait than the others idle,
\* or while none of them is; then the worker looks again.
Ack(d) ==
    LET s      == ackd(store, d.job)
        others == Len(s.idle[d.w]) - 1
        leaves == Len(s.queue) <= others /\ others > 0
    IN  /\ d \in acks
        /\ acks' = acks \ {d}
        /\ acked' = acked \cup {d.job}
        /\ store' = IF leaves THEN exited(s, d.w, d.ring) ELSE s
        /\ \/ /\ kind = "sqlite"
              /\ program' = [program EXCEPT !.claims = @ + 1]
              /\ UNCHANGED redis
           \/ /\ kind = "redis"
              /\ redis' = IF d.w \in redis.waiting THEN redis ELSE [redis EXCEPT !.pulls[d.w] = @ + 1]
              /\ UNCHANGED program
        /\ UNCHANGED <<kind, dones, deaths, toLand, taker, down, rows>>

\* Its goroutines die with a program, busy and idle.
died(s, w) == FoldLeft(LAMBDA t, ring : Then(t, LAMBDA x : exited(x, w, ring)), s,
                       SetToSeq(busyRings(s, w) \cup ToSet(s.idle[w])))

-----------------------------------------------------------------------------
(* simulateSqlite *)
SqliteLand(job) ==
    /\ kind = "sqlite" /\ program.open
    /\ toLand' = toLand \ {job}
    /\ rows' = Append(rows, job)
    /\ store' = landed(store, job)
    /\ program' = IF program.looking THEN [program EXCEPT !.claims = @ + 1] ELSE program
    /\ UNCHANGED <<kind, dones, acks, deaths, redis, taker, down, acked>>

FirstClaim ==
    /\ kind = "sqlite" /\ ~program.looking
    /\ program' = [program EXCEPT !.looking = TRUE, !.claims = @ + 1]
    /\ UNCHANGED <<kind, store, dones, acks, deaths, toLand, redis, taker, down, rows, acked>>

\* One statement: a job for every credit, from the head of the queue.
Claim ==
    /\ kind = "sqlite" /\ program.claims > 0
    /\ program' = [program EXCEPT !.claims = @ - 1]
    /\ IF program.open THEN Takes("sqlite", store, batch(store, "sqlite")) ELSE UNCHANGED <<store, dones>>
    /\ UNCHANGED <<kind, acks, deaths, toLand, redis, taker, down, rows, acked>>

\* Refused while an ack is on its way.
SqliteCrash ==
    /\ kind = "sqlite" /\ down = "no" /\ acks = {}
    /\ down' = "dead"
    /\ deaths' = [deaths EXCEPT !["sqlite"] = @ + 1]
    /\ program' = [program EXCEPT !.open = FALSE]
    /\ store' = died(store, "sqlite")
    /\ UNCHANGED <<kind, dones, acks, toLand, redis, taker, rows, acked>>

SqliteRestart ==
    /\ kind = "sqlite" /\ down = "dead"
    /\ down' = "restarted"
    /\ store' = spawned(store, "sqlite", 0)
    /\ UNCHANGED <<kind, dones, acks, deaths, toLand, program, redis, taker, rows, acked>>

\* Opening the queue: every record in flight goes back, in write order.
SqliteRequeue ==
    /\ kind = "sqlite" /\ down = "restarted"
    /\ down' = "over"
    /\ store' = requeued(store, SelectSeq(rows, LAMBDA j : j \in inFlight(store)))
    /\ program' = [program EXCEPT !.open = TRUE, !.claims = @ + 1]
    /\ UNCHANGED <<kind, dones, acks, deaths, toLand, redis, taker, rows, acked>>

-----------------------------------------------------------------------------
(* simulateRedis *)

\* Redis wakes idle consumers in the plan's order, one per job waiting that no
\* wake is on its way for.
wake(r, queue) ==
    LET one(x, w) == IF w \notin x.idle \/ x.waking >= Len(queue) THEN x
                     ELSE [x EXCEPT !.idle = @ \ {w}, !.waking = @ + 1, !.notify[w] = @ + 1]
    IN  FoldLeft(LAMBDA x, w : Then(x, LAMBDA y : one(y, w)), r, NotifyOrder)

RedisLand(job) ==
    /\ kind = "redis"
    /\ toLand' = toLand \ {job}
    /\ store' = landed(store, job)
    /\ redis' = wake(redis, store'.queue)
    /\ UNCHANGED <<kind, dones, acks, deaths, program, taker, down, rows, acked>>

\* pull: one pop; a short one leaves the worker waiting for a wake.
Pull(w, s, r) ==
    LET jobs  == batch(s, w)
        known == {taker[k][1] : k \in DOMAIN taker}
        new   == SelectSeq(jobs, LAMBDA j : j \notin known)
    IN  /\ redis' = IF Len(jobs) < credit(s, w)
                    THEN [r EXCEPT !.waiting = @ \cup {w}, !.idle = @ \cup {w}] ELSE r
        /\ taker' = [k \in DOMAIN taker |->
                        IF taker[k][1] \in ToSet(jobs) THEN <<taker[k][1], w>> ELSE taker[k]]
                    \o [k \in DOMAIN new |-> <<new[k], w>>]
        /\ Takes(w, s, jobs)

Notify(w) ==
    /\ kind = "redis" /\ redis.notify[w] > 0
    /\ Pull(w, store, [redis EXCEPT !.waking = @ - 1, !.waiting = @ \ {w}, !.notify[w] = @ - 1])
    /\ UNCHANGED <<kind, acks, deaths, toLand, program, down, rows, acked>>

PullTimer(w) ==
    /\ kind = "redis" /\ redis.pulls[w] > 0
    /\ Pull(w, store, [redis EXCEPT !.pulls[w] = @ - 1])
    /\ UNCHANGED <<kind, acks, deaths, toLand, program, down, rows, acked>>

\* One consumer's program dies.  Refused while one of its acks is on its way; the
\* plans have it die with no wake on its way to it.
Victim == Head(NotifyOrder)
held == LET mine(t) == t[2] = Victim /\ t[1] \in inFlight(store)
            ts == SelectSeq(taker, mine)
        IN  [k \in DOMAIN ts |-> ts[k][1]]

RedisCrash ==
    /\ kind = "redis" /\ down = "no"
    /\ \A d \in acks : d.w # Victim
    /\ redis.pulls[Victim] = 0 /\ redis.notify[Victim] = 0
    /\ down' = "dead"
    /\ deaths' = [deaths EXCEPT ![Victim] = @ + 1]
    /\ redis' = [redis EXCEPT !.waiting = @ \ {Victim}, !.idle = @ \ {Victim}]
    /\ store' = died(store, Victim)
    /\ UNCHANGED <<kind, dones, acks, toLand, program, taker, rows, acked>>

\* The others' sweep; the plans have it come before the restart.
RedisRequeue ==
    /\ kind = "redis" /\ down = "dead"
    /\ down' = "swept"
    /\ store' = requeued(store, held)
    /\ redis' = wake(redis, store'.queue)
    /\ UNCHANGED <<kind, dones, acks, deaths, toLand, program, taker, rows, acked>>

RedisRestart ==
    /\ kind = "redis" /\ down = "swept"
    /\ down' = "over"
    /\ Pull(Victim, spawned(store, Victim, 0), redis)
    /\ UNCHANGED <<kind, acks, deaths, toLand, program, rows, acked>>

-----------------------------------------------------------------------------
\* What each of the two simulations starts with.
NewProgram == [open |-> TRUE, looking |-> FALSE, claims |-> 0]
NewRedis   == [waiting |-> Crew["redis"], idle |-> Crew["redis"], waking |-> 0,
               notify |-> [w \in AllWorkers |-> 0], pulls |-> [w \in AllWorkers |-> 0]]

Init ==
    /\ kind \in Kinds
    /\ store = fresh
    /\ dones = {} /\ acks = {} /\ acked = {}
    /\ deaths = [w \in AllWorkers |-> 0]
    /\ toLand = Jobs
    /\ program = NewProgram /\ redis = NewRedis
    /\ taker = <<>> /\ rows = <<>>
    /\ down = "no"

Timers ==
    \/ \E d \in dones : Done(d)
    \/ \E d \in acks : Ack(d)
    \/ toLand # {} /\ (SqliteLand(Min(toLand)) \/ RedisLand(Min(toLand)))
    \/ FirstClaim \/ Claim \/ SqliteRestart \/ SqliteRequeue
    \/ \E w \in AllWorkers : Notify(w) \/ PullTimer(w)
    \/ RedisRequeue \/ RedisRestart
Next == ~store.refused /\ (Timers \/ SqliteCrash \/ RedisCrash)

\* `run' fires every timer.
Spec == Init /\ [][Next]_vars /\ WF_vars(~store.refused /\ Timers)

-----------------------------------------------------------------------------
Waiting == ToSet(store.queue)

\* apply refuses nothing the simulations emit, and so the replays of the map show
\* what they decided on: a ring is free when a goroutine starts on it, the tray
\* has a slot for every take, an ack and a requeue find their records.
NeverRefused == ~store.refused

\* A job that has landed is in exactly one place: the queue, one slot of the tray,
\* or acknowledged; a record in flight is held by one ring, or by none while its
\* program is down; a worker holds no more than its limit.
RecordsSound ==
    /\ IsInjective(store.queue)
    /\ \A j \in Jobs :
         LET places == Cardinality({k \in DOMAIN store.tray : store.tray[k] = j})
                       + (IF j \in Waiting THEN 1 ELSE 0) + (IF j \in acked THEN 1 ELSE 0)
             holders == UNION {{<<w, b[1]>> : b \in {c \in store.busy[w] : c[2] = j}} : w \in AllWorkers}
         IN  /\ places = IF j \in toLand THEN 0 ELSE 1
             /\ Cardinality(holders) <= 1
             /\ (j \in inFlight(store) /\ down \notin {"dead", "restarted"}) => holders # {}
             /\ holders # {} => j \in inFlight(store)
    /\ \A w \in AllWorkers : /\ Cardinality(store.busy[w]) <= Limit[w]
                             /\ IsInjective(store.idle[w])
                             /\ ToSet(store.idle[w]) \cap busyRings(store, w) = {}

\* A wake is never lost: a job in Redis's queue is on its way to be taken, by a
\* wake or a pull that is coming, or by a worker that pulls again at its next ack;
\* failing that, the sweep or the restart after a crash is still to come.
WakeComes ==
    (kind = "redis" /\ store.queue # <<>>) =>
        \/ \E w \in Workers : \/ redis.notify[w] + redis.pulls[w] > 0
                              \/ w \notin redis.waiting /\ store.busy[w] # {}
        \/ down \in {"dead", "swept"}

\* What a dying SQLite program was running comes back ahead of every job that was
\* written later, and the queue is always in write order.
WriteOrder ==
    kind = "sqlite" =>
        \A i, k \in DOMAIN store.queue : i < k =>
            SelectInSeq(rows, LAMBDA j : j = store.queue[i]) < SelectInSeq(rows, LAMBDA j : j = store.queue[k])

\* Every job is acknowledged in the end, a crash or not.
AllAcked == acked = Jobs
=============================================================================
