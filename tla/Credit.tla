------------------------------- MODULE Credit -------------------------------
(***************************************************************************)
(* A worker whose only source pops in batches from acknowledging storage   *)
(* (batchAckSource in source.go, dispatchCredit in worker_credit.go).  The *)
(* loop does not ask the storage how much it holds: it keeps a ready hint, *)
(* built from what the last pop left, from pokes, and, where nobody pokes, *)
(* from a look at the storage once per second.                             *)
(*                                                                         *)
(* Beside it the worker may serve a topic, and may have left unstarted     *)
(* jobs of the topic's last batch with a node, or parked: parked jobs go   *)
(* first, through the classic loop, which leaves the hint alone.           *)
(*                                                                         *)
(* Of the counters pokes and dryAt, which only grow, the model keeps what  *)
(* ready compares: dry is pokes = dryAt, fresh is pokes = g in fetch.      *)
(***************************************************************************)
EXTENDS Integers

CONSTANTS
    Instances,  \* the ways a queue is bound, each with bounds of its own
    MaxItems,   \* bound: items and jobs stored, running, unacknowledged or parked
    MaxCalls,   \* bound: goroutines between their change and its signal
    MaxLimit,   \* bound: concurrency
    MaxCredit   \* maxCredit: most jobs of one pop

ASSUME CreditAssumption ==
    /\ MaxItems \in Nat /\ MaxCalls \in Nat
    /\ MaxLimit \in Nat \ {0} /\ MaxCredit \in Nat \ {0}
    /\ Instances \subseteq [distributed : BOOLEAN, alone : BOOLEAN,
                            items : 0 .. MaxItems, limits : SUBSET (1 .. MaxLimit)]

VARIABLES
    inst,        \* how this queue is bound, whether no topic is bound beside it,
                 \* how many items there are and which concurrencies
    distributed, \* bound as a distributed queue: its storage announces items
    bp,          \* the next step of the call that binds it, or "bound"
    stored,      \* items in the storage
    unacked,     \* items popped that no job was made of
    idle,        \* the storage owes this consumer an announcement
    paused,      \* the queue is paused
    remaining,   \* batchAckSource.remaining
    dry,         \* pokes = dryAt
    resyncing,   \* batchAckSource.resyncing
    rp,          \* the next step of a resync that fired, or "none"
    active,      \* Worker.IsActive
    limit,       \* concurrency
    busy,        \* busyWorkers: jobs running
    sole,        \* the manager is this source's creditManager
    rest,        \* jobs of the topic's batch that a busy node has not started
    parked,      \* nParked: such jobs set aside by a pause
    signal,      \* the token in eventLoopSignal
    toPoke,      \* calls whose next step is poke
    toNotify,    \* calls whose next step is notifyToPullNextJobs
    lp,          \* the event loop's next step
    credit,      \* credit of the pass
    popped,      \* n, remaining and err of the pop
    fresh,       \* no poke since the pass read pokes
    news,        \* history: a poke came after the last storage call
    missed,      \* history: what binding missed since then: "unheard", the storage announced
                 \* to nobody; "unprobed", it owes nothing to a hint that is dry; or "none"
    pass         \* history: why the last pass of a lone source was classic: jobs were
                 \* "parked", and maybe "purged" under it; else "other"

storage == <<stored, unacked, idle, paused>>
hint    == <<remaining, dry>>
timer   == <<resyncing, rp>>
worker  == <<active, limit, busy, sole, rest, parked>>
binding == <<inst, distributed, bp>>
calls   == <<signal, toPoke, toNotify>>
loop    == <<lp, credit, popped, fresh>>
history == <<news, missed, pass>>
vars    == <<binding, storage, hint, timer, worker, calls, loop, history>>

NoPop == [n |-> 0, left |-> 0, err |-> FALSE]

TypeOK ==
    /\ inst \in Instances /\ distributed \in BOOLEAN /\ bp \in {"subscribe", "listen", "bound"}
    /\ stored \in 0 .. MaxItems /\ unacked \in 0 .. MaxItems
    /\ idle \in BOOLEAN /\ paused \in BOOLEAN
    /\ remaining \in 0 .. MaxItems /\ dry \in BOOLEAN
    /\ resyncing \in BOOLEAN /\ rp \in {"none", "fired", "cleared", "hint", "len", "arm"}
    /\ active \in BOOLEAN /\ limit \in 1 .. MaxLimit /\ busy \in 0 .. MaxItems /\ sole \in BOOLEAN
    /\ rest \in 0 .. MaxItems /\ parked \in 0 .. MaxItems
    /\ signal \in BOOLEAN /\ toPoke \in Nat /\ toNotify \in Nat
    /\ lp \in {"wait", "credit", "reserve", "fetch", "pop", "mark", "arm", "emit", "again",
              "classic", "process"}
    /\ credit \in 0 .. MaxLimit
    /\ popped \in [n : 0 .. MaxItems, left : 0 .. MaxItems, err : BOOLEAN]
    /\ fresh \in BOOLEAN
    /\ news \in BOOLEAN /\ missed \in {"none", "unheard", "unprobed"}
    /\ pass \in {"other", "parked", "purged"}

\* bind has added the source to the worker, alone or beside a topic that may have
\* left jobs with a busy node, and has signalled; the source is not known to be
\* empty, and that of a distributed queue has not subscribed yet.
Init ==
    /\ inst \in Instances
    /\ distributed = inst.distributed /\ bp = IF distributed THEN "subscribe" ELSE "bound"
    /\ stored \in 0 .. inst.items /\ unacked = 0 /\ idle = FALSE /\ paused \in BOOLEAN
    /\ remaining = 0 /\ dry = FALSE
    /\ resyncing = FALSE /\ rp = "none"
    /\ active \in BOOLEAN /\ limit \in inst.limits
    /\ sole \in BOOLEAN /\ (inst.alone => sole)
    /\ rest \in 0 .. inst.items /\ parked = 0
    /\ busy = IF rest > 0 THEN 1 ELSE 0
    /\ stored + rest + busy <= inst.items
    /\ signal = TRUE /\ toPoke = 0 /\ toNotify = 0
    /\ lp = "wait" /\ credit = 0 /\ popped = NoPop /\ fresh = FALSE
    /\ news = FALSE /\ missed = "none" /\ pass = "other"

(***************************************************************************)
(* The hint                                                                *)
(***************************************************************************)
\* A count above 0: a pop may find a job.
ready == IF paused THEN 0
         ELSE IF remaining > 0 THEN remaining
         ELSE IF dry THEN 0 ELSE 1

\* batchAckSource.subscribed: stored by subscribe, after bind's signal.
subscribed == distributed /\ bp \in {"listen", "bound"}

\* A persistent source looks again in a second; a distributed one is told.
armResync == resyncing' = (resyncing \/ ~subscribed)

\* creditManager.Len reading 0 arms the resync.
ArmIfDry == IF sole /\ ready = 0 THEN armResync ELSE UNCHANGED resyncing

(***************************************************************************)
(* Who wakes the loop: first the change, then the poke, then the signal    *)
(***************************************************************************)
\* The last place is for those that do not wait for a caller.
Room    == toPoke + toNotify < MaxCalls
OneMore == toPoke + toNotify <= MaxCalls

Items   == stored + unacked + busy + popped.n + rest + parked

\* After bind's signal subscribe stores the flag, and then hands the storage a
\* callback.
subscribe ==
    /\ bp # "bound"
    /\ bp' = IF bp = "subscribe" THEN "listen" ELSE "bound"
    /\ UNCHANGED <<inst, distributed, storage, hint, timer, worker, calls, loop, history>>

poke ==
    /\ toPoke > 0
    /\ toPoke' = toPoke - 1 /\ toNotify' = toNotify + 1
    /\ dry' = FALSE /\ fresh' = FALSE /\ news' = TRUE
    /\ UNCHANGED <<binding, storage, remaining, timer, worker, signal, lp, credit, popped,
                   missed, pass>>

notifyToPullNextJobs ==
    /\ toNotify > 0
    /\ toNotify' = toNotify - 1
    /\ signal' = TRUE
    /\ UNCHANGED <<binding, storage, hint, timer, worker, toPoke, loop, history>>

\* A persistent handle's Add: the storage has confirmed, the poke follows.
Add ==
    /\ ~distributed /\ Room /\ Items < inst.items
    /\ stored' = stored + 1
    /\ toPoke' = toPoke + 1
    /\ UNCHANGED <<binding, unacked, idle, paused, hint, timer, worker, signal, toNotify,
                   loop, history>>

\* A distributed handle's Add, or another process's: no poke.
AddElsewhere ==
    /\ Items < inst.items
    /\ stored' = stored + 1
    /\ UNCHANGED <<binding, unacked, idle, paused, hint, timer, worker, calls, loop, history>>

\* Another consumer takes an item.
TakeElsewhere ==
    /\ stored > 0
    /\ stored' = stored - 1
    /\ UNCHANGED <<binding, unacked, idle, paused, hint, timer, worker, calls, loop, history>>

\* A visibility timeout requeues what nobody acknowledged.
Requeue ==
    /\ unacked > 0
    /\ unacked' = unacked - 1 /\ stored' = stored + 1
    /\ UNCHANGED <<binding, idle, paused, hint, timer, worker, calls, loop, history>>

\* Distributed storage calls back a consumer whose pop was short or failed, if
\* there is a callback by then.
Announce ==
    /\ idle /\ stored > 0 /\ ~paused /\ OneMore
    /\ idle' = FALSE
    /\ IF bp = "bound"
         THEN toPoke' = toPoke + 1 /\ UNCHANGED missed
         ELSE missed' = "unheard" /\ UNCHANGED toPoke
    /\ UNCHANGED <<binding, stored, unacked, paused, hint, timer, worker, signal, toNotify,
                   loop, news, pass>>

\* Pause and Resume of the queue; the hook of a Resume pokes.
PauseQueue ==
    /\ ~paused
    /\ paused' = TRUE
    /\ UNCHANGED <<binding, stored, unacked, idle, hint, timer, worker, calls, loop, history>>

ResumeQueue ==
    /\ paused /\ Room
    /\ paused' = FALSE
    /\ toPoke' = toPoke + 1
    /\ UNCHANGED <<binding, stored, unacked, idle, hint, timer, worker, signal, toNotify,
                   loop, history>>

\* Pause and Resume of the worker: it is Paused once nothing is processing.
Pause ==
    /\ active
    /\ active' = FALSE
    /\ UNCHANGED <<binding, storage, hint, timer, limit, busy, sole, rest, parked, calls, loop,
                   history>>

Resume ==
    /\ ~active /\ busy = 0 /\ lp \notin {"fetch", "pop", "mark", "arm", "emit"} /\ Room
    /\ active' = TRUE
    /\ toNotify' = toNotify + 1
    /\ UNCHANGED <<binding, storage, hint, timer, limit, busy, sole, rest, parked, signal, toPoke,
                   loop, history>>

TunePool(c) ==
    /\ active /\ c # limit /\ c \in inst.limits /\ Room
    /\ limit' = c
    /\ toNotify' = IF c > limit THEN toNotify + 1 ELSE toNotify
    /\ UNCHANGED <<binding, storage, hint, timer, active, busy, sole, rest, parked, signal, toPoke,
                   loop, history>>

\* A topic is bound beside this source (another queue's bind signals, WithTopic
\* does not), and unbound again.
AddSource ==
    /\ sole /\ ~inst.alone /\ Room
    /\ sole' = FALSE
    /\ toNotify' \in {toNotify, toNotify + 1}
    /\ UNCHANGED <<binding, storage, hint, timer, active, limit, busy, rest, parked, signal,
                   toPoke, loop, history>>

RemoveSource ==
    /\ ~sole /\ Room
    /\ sole' = TRUE
    /\ dry' = FALSE
    /\ toNotify' = toNotify + 1
    /\ UNCHANGED <<binding, storage, remaining, timer, active, limit, busy, rest, parked, signal,
                   toPoke, loop, history>>

\* The topic's batch: its node starts the next job, or parks the rest on a pause.
RunRest ==
    /\ active /\ rest > 0
    /\ rest' = rest - 1
    /\ UNCHANGED <<binding, storage, hint, timer, active, limit, busy, sole, parked, calls, loop,
                   history>>

park ==
    /\ ~active /\ rest > 0
    /\ rest' = 0 /\ parked' = parked + rest
    /\ UNCHANGED <<binding, storage, hint, timer, active, limit, busy, sole, calls, loop, history>>

\* Purge of the topic's subscription, bound or not: no signal follows.
PurgeTopic ==
    /\ rest + parked > 0
    /\ rest' = 0 /\ parked' = 0
    /\ pass' = IF lp # "wait" /\ pass = "parked" /\ parked > 0 THEN "purged" ELSE pass
    /\ UNCHANGED <<binding, storage, hint, timer, active, limit, busy, sole, calls, loop, news,
                   missed>>

\* A job is done and its node freed, which reads pending.
FinishJob ==
    /\ busy > (IF rest > 0 THEN 1 ELSE 0) /\ OneMore
    /\ busy' = busy - 1
    /\ toNotify' = toNotify + 1
    /\ ArmIfDry
    /\ UNCHANGED <<binding, storage, hint, rp, active, limit, sole, rest, parked, signal, toPoke,
                   loop, history>>

(***************************************************************************)
(* The resync                                                              *)
(***************************************************************************)
ResyncFire ==
    /\ resyncing /\ rp = "none"
    /\ rp' = "fired"
    /\ UNCHANGED <<binding, storage, hint, resyncing, worker, calls, loop, history>>

\* The flag first, then the checks.
ResyncClear ==
    /\ rp = "fired"
    /\ resyncing' = FALSE
    /\ rp' = "cleared"
    /\ UNCHANGED <<binding, storage, hint, worker, calls, loop, history>>

ResyncActive ==
    /\ rp = "cleared"
    /\ rp' = IF active THEN "hint" ELSE "none"
    /\ UNCHANGED <<binding, storage, hint, resyncing, worker, calls, loop, history>>

ResyncHint ==
    /\ rp = "hint"
    /\ rp' = IF ready = 0 /\ sole THEN "len" ELSE "none"
    /\ UNCHANGED <<binding, storage, hint, resyncing, worker, calls, loop, history>>

\* Mutant of ResyncLen: the last count instead of the exact length.
ResyncByHint ==
    /\ rp = "len"
    /\ IF remaining > 0 /\ ~paused
         THEN OneMore /\ toPoke' = toPoke + 1 /\ rp' = "none"
         ELSE rp' = "arm" /\ UNCHANGED toPoke
    /\ UNCHANGED <<binding, storage, hint, resyncing, worker, signal, toNotify, loop, history>>

\* The exact length: items nobody announced poke, else look again later.
ResyncLen ==
    /\ rp = "len"
    /\ IF stored > 0 /\ ~paused
         THEN OneMore /\ toPoke' = toPoke + 1 /\ rp' = "none"
         ELSE rp' = "arm" /\ UNCHANGED toPoke
    /\ UNCHANGED <<binding, storage, hint, resyncing, worker, signal, toNotify, loop, history>>

ResyncArm ==
    /\ rp = "arm"
    /\ rp' = "none"
    /\ armResync
    /\ UNCHANGED <<binding, storage, hint, worker, calls, loop, history>>

resync == ResyncClear \/ ResyncActive \/ ResyncHint \/ ResyncLen \/ ResyncArm

(***************************************************************************)
(* The event loop                                                          *)
(***************************************************************************)
\* Mutant of Wake: a lone batch source is served by credit, parked jobs or not.
WakeUnparked ==
    /\ lp = "wait" /\ signal
    /\ signal' = FALSE
    /\ lp' = IF sole THEN "credit" ELSE "classic"
    /\ pass' = IF sole /\ parked > 0 THEN "parked" ELSE "other"
    /\ UNCHANGED <<binding, storage, hint, timer, worker, toPoke, toNotify, credit, popped, fresh,
                   news, missed>>

\* Parked jobs go first, through the classic loop.
Wake ==
    /\ lp = "wait" /\ signal
    /\ signal' = FALSE
    /\ lp' = IF sole /\ parked = 0 THEN "credit" ELSE "classic"
    /\ pass' = IF sole /\ parked > 0 THEN "parked" ELSE "other"
    /\ UNCHANGED <<binding, storage, hint, timer, worker, toPoke, toNotify, credit, popped, fresh,
                   news, missed>>

CreditCheck ==
    /\ lp = "credit"
    /\ IF ~active \/ ready = 0 \/ busy >= limit
         THEN lp' = "wait" /\ UNCHANGED credit
         ELSE /\ lp' = "reserve"
              /\ credit' = IF limit - busy < MaxCredit THEN limit - busy ELSE MaxCredit
    /\ IF active /\ ready = 0 THEN armResync ELSE UNCHANGED resyncing
    /\ UNCHANGED <<binding, storage, hint, rp, worker, calls, popped, fresh, history>>

\* A worker no longer active gives the credit back.
Reserve ==
    /\ lp = "reserve"
    /\ lp' = IF active THEN "fetch" ELSE "wait"
    /\ credit' = IF active THEN credit ELSE 0
    /\ UNCHANGED <<binding, storage, hint, timer, worker, calls, popped, fresh, history>>

\* fetch: pokes is read before the storage call ...
FetchPokes ==
    /\ lp = "fetch"
    /\ lp' = "pop"
    /\ fresh' = TRUE
    /\ UNCHANGED <<binding, storage, hint, timer, worker, calls, credit, popped, history>>

\* ... which fails, is refused by a pause, or takes what there is, and says how
\* much is left, or less, but not 0 while something is.
DequeueBatchWithAckIds ==
    LET n == IF credit < stored THEN credit ELSE stored IN
    \/ /\ idle' = distributed
       /\ popped' = [NoPop EXCEPT !.err = TRUE]
       /\ UNCHANGED stored
    \/ /\ paused
       /\ popped' = NoPop
       /\ UNCHANGED <<stored, idle>>
    \/ /\ ~paused
       /\ idle' = (distributed /\ n < credit)
       /\ stored' = stored - n
       /\ \E left \in 0 .. stored - n :
            /\ left = 0 => n = stored
            /\ popped' = [n |-> n, left |-> left, err |-> FALSE]

Pop ==
    /\ lp = "pop"
    /\ lp' = "mark"
    /\ DequeueBatchWithAckIds
    /\ news' = FALSE /\ missed' = "none"
    /\ UNCHANGED <<binding, unacked, paused, hint, timer, worker, calls, credit, fresh, pass>>

\* Mutant of ShowsDry: a full pop that emptied the queue, subscribed or not.
DryWhenEmpty == popped.err \/ popped.n < credit \/ popped.n = 0 \/ popped.left = 0

\* A short pop ran the storage dry, and so did a full one that emptied a queue
\* that is not subscribed.
ShowsDry ==
    \/ popped.err \/ popped.n < credit
    \/ ~subscribed /\ (popped.n = 0 \/ popped.left = 0)

\* Mutant of Mark: markDry(s.pokes.Load()), after the storage call.
MarkLate ==
    /\ lp = "mark"
    /\ lp' = IF ShowsDry THEN "arm" ELSE "emit"
    /\ remaining' = IF popped.n = 0 THEN 0 ELSE popped.left
    /\ dry' = ShowsDry
    /\ missed' = IF distributed /\ ~subscribed /\ popped.n = credit /\ dry'
                 THEN "unprobed" ELSE missed
    /\ fresh' = FALSE
    /\ UNCHANGED <<binding, storage, timer, worker, calls, credit, popped, news, pass>>

\* markDry(g): dry, unless a poke came since g was read ...
Mark ==
    /\ lp = "mark"
    /\ lp' = IF ShowsDry THEN "arm" ELSE "emit"
    /\ remaining' = IF popped.n = 0 THEN 0 ELSE popped.left
    /\ dry' = (ShowsDry /\ fresh)
    /\ missed' = IF distributed /\ ~subscribed /\ popped.n = credit /\ dry'
                 THEN "unprobed" ELSE missed
    /\ fresh' = FALSE
    /\ UNCHANGED <<binding, storage, timer, worker, calls, credit, popped, news, pass>>

\* ... and armResync, if the source is not subscribed by then.
Arm ==
    /\ lp = "arm"
    /\ lp' = "emit"
    /\ armResync
    /\ UNCHANGED <<binding, storage, hint, rp, worker, calls, credit, popped, fresh, history>>

\* Every job decoded starts, Pause or TunePool or not; what does not parse stays
\* unacknowledged.
Emit ==
    /\ lp = "emit"
    /\ \E k \in 0 .. popped.n : busy' = busy + k /\ unacked' = unacked + (popped.n - k)
    /\ credit' = 0
    /\ popped' = NoPop
    /\ lp' = IF popped.err THEN "wait" ELSE "again"
    /\ UNCHANGED <<binding, stored, idle, paused, hint, timer, active, limit, sole, rest, parked,
                   calls, fresh, history>>

Again ==
    /\ lp = "again"
    /\ lp' = "wait"
    /\ signal' = (signal \/ ready > 0)
    /\ UNCHANGED <<binding, storage, hint, timer, worker, toPoke, toNotify, credit, popped,
                   fresh, history>>

\* The classic loop: with other sources bound it reads the exact length, alone the
\* hint, and the parked jobs count too.
pending == parked + (IF sole THEN ready ELSE IF paused THEN 0 ELSE stored)

Classic ==
    /\ lp = "classic"
    /\ lp' = IF active /\ busy < limit /\ pending > 0 THEN "process" ELSE "wait"
    /\ IF active /\ busy < limit THEN ArmIfDry ELSE UNCHANGED resyncing
    /\ UNCHANGED <<binding, storage, hint, rp, worker, calls, credit, popped, fresh, history>>

\* One job, a parked one first; else one item of the storage, by its exact length,
\* which may hold no job.  The hint is left alone.
processNextJob ==
    /\ lp = "process"
    /\ ArmIfDry
    /\ \/ /\ ~active \/ busy > 0 \/ (parked = 0 /\ (stored = 0 \/ paused))
          /\ lp' = "wait"
          /\ UNCHANGED <<parked, busy, stored, unacked>>
       \/ /\ active /\ parked > 0
          /\ lp' = "classic"
          /\ parked' = parked - 1 /\ busy' = busy + 1
          /\ UNCHANGED <<stored, unacked>>
       \/ /\ active /\ parked = 0 /\ stored > 0 /\ ~paused
          /\ lp' = "classic"
          /\ stored' = stored - 1
          /\ \/ busy' = busy + 1 /\ UNCHANGED unacked
             \/ unacked' = unacked + 1 /\ UNCHANGED busy
          /\ UNCHANGED parked
    /\ UNCHANGED <<binding, idle, paused, hint, rp, active, limit, sole, rest, calls, credit,
                   popped, fresh, history>>

EventLoop ==
    \/ Wake \/ CreditCheck \/ Reserve \/ FetchPokes \/ Pop \/ Mark \/ Arm \/ Emit \/ Again
    \/ Classic \/ processNextJob

Next ==
    \/ subscribe \/ poke \/ notifyToPullNextJobs
    \/ Add \/ AddElsewhere \/ TakeElsewhere \/ Requeue \/ Announce
    \/ PauseQueue \/ ResumeQueue \/ Pause \/ Resume \/ AddSource \/ RemoveSource
    \/ RunRest \/ park \/ PurgeTopic \/ FinishJob
    \/ \E c \in 1 .. MaxLimit : TunePool(c)
    \/ ResyncFire \/ resync
    \/ EventLoop

\* Calls under way go on, the loop goes on, jobs end, timers fire, and storage keeps
\* its promise.
Fairness ==
    /\ WF_vars(subscribe \/ poke \/ notifyToPullNextJobs) /\ WF_vars(EventLoop)
    /\ WF_vars(RunRest \/ park \/ FinishJob)
    /\ WF_vars(ResyncFire \/ resync) /\ WF_vars(Announce)

Spec     == Init /\ [][Next]_vars
FairSpec == Spec /\ Fairness

(***************************************************************************)
(* Properties                                                              *)
(***************************************************************************)
\* The worker could run a job of this queue, and this queue is its only source.
Attentive == active /\ ~paused /\ sole /\ busy < limit

Resting == lp = "wait" /\ ~signal /\ toPoke = 0 /\ toNotify = 0

\* "No wake-up is lost" (source.go:256), as far as the code keeps it: a loop that
\* rests has asked the storage since the last poke, and its hint says nothing is
\* there; an item that nobody announced has a resync or an announcement coming,
\* unless a distributed queue missed it while it was being bound.  After a classic
\* pass for parked jobs the hint may read high instead, but then a job runs whose
\* end signals, unless a Purge took the parked jobs away.  Parked jobs are not left
\* behind either.
PokesAreHeard ==
    /\ TypeOK
    /\ Resting /\ Attentive =>
         /\ parked = 0 \/ busy > 0
         /\ \/ /\ ~news /\ ready = 0
               /\ stored > 0 => IF distributed THEN idle \/ missed # "none"
                                ELSE resyncing \/ rp # "none"
            \/ ready > 0 /\ pass # "other" /\ (busy > 0 \/ pass = "purged")

\* Stored items are reached: again and again the loop asks the storage, or there
\* is nothing to ask for, or a wake-up was lost in one of the two ways above.
ItemsAreReached ==
    []<>(\/ stored = 0 \/ ~Attentive \/ lp \in {"pop", "process"}
         \/ missed # "none" \/ pass = "purged")

\* The same, but for announcements made before anybody listens: "No wake-up is lost"
\* (source.go:256) and "a worker that sees nothing to do still finds items no poke
\* announced" (source_manager.go:142).
EveryItemIsReached ==
    []<>(stored = 0 \/ ~Attentive \/ lp \in {"pop", "process"} \/ missed = "unheard")
=============================================================================
