------------------------------ MODULE Dispatch ------------------------------
(***************************************************************************)
(* The way of a job through one worker and one in-memory FIFO queue: into  *)
(* storage, into a batch, perhaps into the parked list and out of it, into *)
(* the worker function, with Pause and Resume of the worker, Pause and     *)
(* Resume of the queue, Purge and Close of a job coming in between.        *)
(*                                                                         *)
(* Jobs are numbered in the order they are added.  The worker's status is  *)
(* what WorkerLifecycle establishes about it: halting from a Pause or Stop *)
(* until, with nothing taken any more, a Resume or a Restart.              *)
(***************************************************************************)
EXTENDS Naturals, Sequences, FiniteSets, FiniteSetsExt

CONSTANTS
    MaxJobs,    \* bound: jobs added
    Nodes,      \* pool nodes; bound: the concurrency
    MaxBatch,   \* bound: jobs in a batch (32 in the code)
    MaxPurges,  \* bound: calls of Purge
    MaxCloses,  \* bound: jobs the user closes
    MaxOwed,    \* bound: queue Pause and Resume calls under way
    None        \* no node; parkMx is free

Jobs == 1 .. MaxJobs

ASSUME DispatchAssumption ==
    /\ MaxJobs \in Nat /\ MaxBatch \in Nat \ {0}
    /\ MaxPurges \in Nat /\ MaxCloses \in Nat /\ MaxOwed \in Nat
    /\ None \notin Nodes \cup {"loop", "other"} /\ IsFiniteSet(Nodes) /\ Nodes # {}

VARIABLES
    state,       \* what became of each job
    storage,     \* the queue's items
    paused,      \* pauseState.at: the queue is paused
    owed,        \* Pause and Resume calls whose notify is still to come
    notify,      \* the value the notify under way read, or "none"
    concurrency, \* w.concurrency
    halting,     \* w.halting()
    signal,      \* w.eventLoopSignal
    lpc,         \* the event loop's next step
    node,        \* the node it prepares, or None
    room,        \* how many jobs planBatch asked for
    buf,         \* the node's staging buffer during fillBatch
    n,           \* what pending has counted so far
    dispatched,  \* w.dispatched
    npc,         \* each node's next step
    batch,       \* the jobs of each node not dealt with yet
    first,       \* is the head of the batch its first job?
    stamp,       \* each batch's Stamp: Epoch, and Seq of the batch's head
    parked,      \* w.parked, a set: unpark sorts it by Seq
    nParked,     \* w.nParked
    parkHeld,    \* w.parkHeld
    parkMx,      \* who holds parkMx across steps: a scan of unheld, or None
    asked,       \* another caller of pending is about to scan
    gen,         \* purgeState.gen
    ppc,         \* Purge's next step
    reach,       \* history: jobs added before some Purge returned
    doomed       \* history: jobs stamped before some Purge began

qvars == <<storage, paused, owed, notify>>
lvars == <<lpc, node, room, buf, n, dispatched>>
nvars == <<npc, batch, first, stamp>>
kvars == <<parked, nParked, parkHeld, parkMx, asked>>
pvars == <<gen, ppc, reach, doomed>>
wvars == <<concurrency, halting>>
vars  == <<state, qvars, wvars, signal, lvars, nvars, kvars, pvars>>

Stamps  == [epoch : Nat, seq : Nat]
NoStamp == [epoch |-> 0, seq |-> 0]

TypeOK ==
    /\ concurrency \in 1 .. Cardinality(Nodes)
    /\ state \in [Jobs -> {"new", "queued", "running", "done", "closed", "purged"}]
    /\ storage \in Seq(Jobs) /\ buf \in Seq(Jobs)
    /\ paused \in BOOLEAN /\ halting \in BOOLEAN /\ signal \in BOOLEAN
    /\ owed \in 0 .. MaxOwed
    /\ notify \in {"none", "paused", "resumed"}
    /\ lpc \in {"select", "check", "scan", "len", "plan", "unpark", "fill", "stamp"}
    /\ node \in Nodes \cup {None}
    /\ room \in 0 .. MaxBatch
    /\ n \in Nat /\ dispatched \in Nat /\ nParked \in Nat
    /\ npc \in [Nodes -> {"idle", "taken", "stale", "halt", "park", "start", "run"}]
    /\ batch \in [Nodes -> Seq(Jobs)]
    /\ first \in [Nodes -> BOOLEAN]
    /\ stamp \in [Nodes -> Stamps]
    /\ parked \subseteq [jobs : Seq(Jobs) \ {<<>>}, stamp : Stamps]
    /\ parkHeld \in BOOLEAN /\ asked \in BOOLEAN
    /\ parkMx \in {"loop", "other", None}
    /\ gen \in 0 .. MaxPurges
    /\ ppc \in {"none", "drop", "storage"}
    /\ reach \subseteq Jobs /\ doomed \subseteq Jobs

Init ==
    /\ concurrency \in 1 .. Cardinality(Nodes)
    /\ state = [j \in Jobs |-> "new"]
    /\ storage = <<>> /\ paused = FALSE /\ owed = 0 /\ notify = "none"
    /\ halting = FALSE /\ signal = TRUE
    /\ lpc = "select" /\ node = None /\ room = 0 /\ buf = <<>> /\ n = 0 /\ dispatched = 0
    /\ npc = [x \in Nodes |-> "idle"]
    /\ batch = [x \in Nodes |-> <<>>]
    /\ first = [x \in Nodes |-> FALSE]
    /\ stamp = [x \in Nodes |-> NoStamp]
    /\ parked = {} /\ nParked = 0 /\ parkHeld = FALSE /\ parkMx = None /\ asked = FALSE
    /\ gen = 0 /\ ppc = "none" /\ reach = {} /\ doomed = {}

\* The stamp of the job that is k places on in a batch.
Later(st, k) == [st EXCEPT !.seq = @ + k]

Stale(st) == gen # st.epoch   \* Stamp.Stale
Held      == paused           \* Stamp.Held: every batch is from the one queue

\* The jobs of js that are still Queued are closed by a Purge, or for it.
Purged(js) == [j \in Jobs |->
                 IF j \in js /\ state[j] = "queued" THEN "purged" ELSE state[j]]

JobsOf(batches) == UNION {Range(b.jobs) : b \in batches}
NumJobs(batches) == Cardinality(UNION {{b} \X DOMAIN b.jobs : b \in batches})
Busy == {x \in Nodes : npc[x] # "idle"}

(***************************************************************************)
(* Users of the queue and of the worker                                    *)
(***************************************************************************)
\* Queue.Add: jobs are added in the order of their numbers.
Add(j) ==
    /\ state[j] = "new" /\ \A i \in 1 .. j - 1 : state[i] # "new"
    /\ state' = [state EXCEPT ![j] = "queued"]
    /\ storage' = Append(storage, j)
    /\ signal' = TRUE
    /\ UNCHANGED <<paused, owed, notify, wvars, lvars, nvars, kvars, pvars>>

\* The user closes a job that is still Queued, wherever it is.
CloseJob(j) ==
    /\ state[j] = "queued"
    /\ Cardinality({i \in Jobs : state[i] = "closed"}) < MaxCloses
    /\ state' = [state EXCEPT ![j] = "closed"]
    /\ UNCHANGED <<qvars, wvars, signal, lvars, nvars, kvars, pvars>>

\* Pause or Stop of the worker.
Halt ==
    /\ ~halting
    /\ halting' = TRUE
    /\ UNCHANGED <<state, concurrency, qvars, signal, lvars, nvars, kvars, pvars>>

\* Resume, or Restart, of a worker that is Paused or Stopped: nothing taken.
Unhalt ==
    /\ halting
    /\ Busy = {}
    /\ halting' = FALSE
    /\ signal' = TRUE
    /\ UNCHANGED <<state, concurrency, qvars, lvars, nvars, kvars, pvars>>

\* The queue's Pause and Resume: the flag first, notify later ...
SetPaused(p) ==
    /\ paused # p
    /\ owed < MaxOwed
    /\ paused' = p
    /\ owed' = owed + 1
    /\ UNCHANGED <<state, storage, notify, wvars, signal, lvars, nvars, kvars, pvars>>

\* ... under notifyMu, with the state as of then ...
NotifyRead ==
    /\ owed > 0 /\ notify = "none"
    /\ notify' = IF paused THEN "paused" ELSE "resumed"
    /\ owed' = owed - 1
    /\ UNCHANGED <<state, storage, paused, wvars, signal, lvars, nvars, kvars, pvars>>

\* Mutant of NotifyHook: a Resume does not wake the loop.
HookOnlyPause ==
    /\ notify # "none"
    /\ notify' = "none"
    /\ parkHeld' = (parkHeld \/ notify = "paused")
    /\ UNCHANGED <<state, storage, paused, owed, wvars, signal, lvars, nvars, parked,
                   nParked, parkMx, asked, pvars>>

\* ... and the worker's hook: remember that a batch may be held, or wake up.
NotifyHook ==
    /\ notify # "none"
    /\ notify' = "none"
    /\ parkHeld' = (parkHeld \/ notify = "paused")
    /\ signal' = (signal \/ notify = "resumed")
    /\ UNCHANGED <<state, storage, paused, owed, wvars, lvars, nvars, parked, nParked,
                   parkMx, asked, pvars>>

(***************************************************************************)
(* Purge                                                                   *)
(***************************************************************************)
\* The counter moves first: batches stamped so far are stale.
PurgeBump ==
    /\ ppc = "none" /\ gen < MaxPurges
    /\ gen' = gen + 1
    /\ ppc' = "drop"
    /\ doomed' = doomed \cup JobsOf(parked) \cup
         UNION {Range(IF npc[x] = "stale" \/ batch[x] = <<>> THEN batch[x] ELSE Tail(batch[x]))
                  : x \in {y \in Nodes : npc[y] # "taken"}}
    /\ UNCHANGED <<state, qvars, wvars, signal, lvars, nvars, kvars, reach>>

\* dropParked: every parked batch of this storage, under parkMx.
PurgeDrop ==
    /\ ppc = "drop" /\ parkMx = None
    /\ state' = Purged(JobsOf(parked))
    /\ parked' = {} /\ nParked' = nParked - NumJobs(parked)
    /\ ppc' = "storage"
    /\ UNCHANGED <<qvars, wvars, signal, lvars, nvars, parkHeld, parkMx, asked, gen, reach, doomed>>

\* PurgeValues, and the jobs it removed are closed.
PurgeStorage ==
    /\ ppc = "storage"
    /\ state' = Purged(Range(storage))
    /\ storage' = <<>>
    /\ ppc' = "none"
    /\ reach' = {j \in Jobs : state[j] # "new"}
    /\ UNCHANGED <<paused, owed, notify, wvars, signal, lvars, nvars, kvars, gen, doomed>>

(***************************************************************************)
(* pending: nParked, corrected by unheld if a batch may be held, and the   *)
(* sources.  The event loop calls it, and so does everybody who asks for   *)
(* NumPending (freePoolNode, Wait, ...): "other".                          *)
(***************************************************************************)
\* Another caller of pending finds that a parked batch may be held.
Ask ==
    /\ ~asked /\ nParked > 0 /\ parkHeld
    /\ asked' = TRUE
    /\ UNCHANGED <<state, qvars, wvars, signal, lvars, nvars, parked, nParked, parkHeld,
                   parkMx, pvars>>

\* unheld clears parkHeld first ...
ScanClear(t) ==
    /\ IF t = "loop" THEN lpc = "scan" ELSE asked
    /\ parkMx = None
    /\ parkMx' = t
    /\ parkHeld' = FALSE
    /\ UNCHANGED <<state, qvars, wvars, signal, lvars, nvars, parked, nParked, asked, pvars>>

\* Mutant of ScanEnd: a held batch is found and not remembered.
ScanForget(t) ==
    /\ parkMx = t
    /\ parkMx' = None
    /\ IF t = "loop" THEN lpc' = "len" /\ n' = (IF Held THEN 0 ELSE nParked) /\ UNCHANGED asked
                     ELSE asked' = FALSE /\ UNCHANGED <<lpc, n>>
    /\ UNCHANGED <<state, qvars, wvars, signal, node, room, buf, dispatched, nvars,
                   parked, nParked, parkHeld, pvars>>

\* ... then looks at the batches' queue, and sets it again if one is held.
ScanEnd(t) ==
    /\ parkMx = t
    /\ parkMx' = None
    /\ parkHeld' = (parkHeld \/ (Held /\ parked # {}))
    /\ IF t = "loop" THEN lpc' = "len" /\ n' = (IF Held THEN 0 ELSE nParked) /\ UNCHANGED asked
                     ELSE asked' = FALSE /\ UNCHANGED <<lpc, n>>
    /\ UNCHANGED <<state, qvars, wvars, signal, node, room, buf, dispatched, nvars,
                   parked, nParked, pvars>>

(***************************************************************************)
(* goEventLoop and processNextJob                                          *)
(***************************************************************************)
LoopSignal ==
    /\ lpc = "select" /\ signal
    /\ signal' = FALSE
    /\ lpc' = "check"
    /\ UNCHANGED <<state, qvars, wvars, node, room, buf, n, dispatched, nvars, kvars, pvars>>

\* IsActive, a free slot, and the start of pending: the atomics.
LoopCheck ==
    /\ lpc = "check"
    /\ lpc' = IF halting \/ Cardinality(Busy) >= concurrency THEN "select"
              ELSE IF nParked > 0 /\ parkHeld THEN "scan" ELSE "len"
    /\ n' = nParked
    /\ UNCHANGED <<state, qvars, wvars, signal, node, room, buf, dispatched, nvars, kvars,
                   pvars>>

\* m.Len(): 0 while the queue is paused.
LoopLen ==
    /\ lpc = "len"
    /\ lpc' = IF n > 0 \/ (~paused /\ storage # <<>>) THEN "plan" ELSE "select"
    /\ n' = 0
    /\ UNCHANGED <<state, qvars, wvars, signal, node, room, buf, dispatched, nvars, kvars,
                   pvars>>

\* planBatch finds no idle node and none worth spawning, or reserve refuses.
LoopNoBatch ==
    /\ lpc = "plan"
    /\ halting \/ Busy # {}
    /\ lpc' = "select"
    /\ UNCHANGED <<state, qvars, wvars, signal, node, room, buf, n, dispatched, nvars,
                   kvars, pvars>>

\* planBatch picks a node and a size; reserve lets only an active worker pass.
LoopPlan(x, k) ==
    /\ lpc = "plan" /\ ~halting
    /\ npc[x] = "idle"
    /\ node' = x /\ room' = k
    /\ npc' = [npc EXCEPT ![x] = "taken"]
    /\ lpc' = "unpark"
    /\ UNCHANGED <<state, qvars, wvars, signal, buf, n, dispatched, batch, first, stamp,
                   kvars, pvars>>

\* SendBatch: the node goes to work on the jobs js with the stamp st.
SendBatch(js, st) ==
    /\ batch' = [batch EXCEPT ![node] = js]
    /\ stamp' = [stamp EXCEPT ![node] = st]
    /\ first' = [first EXCEPT ![node] = TRUE]
    /\ npc' = [npc EXCEPT ![node] = "stale"]
    /\ node' = None /\ room' = 0

\* The parked batch with the lowest Seq.
Oldest == CHOOSE b \in parked : \A c \in parked : b.stamp.seq <= c.stamp.seq

\* Mutant of LoopUnparkNone: the sources may go first.
LoopFillFirst ==
    /\ lpc = "unpark"
    /\ lpc' = "fill"
    /\ UNCHANGED <<state, qvars, wvars, signal, node, room, buf, n, dispatched, nvars, kvars,
                   pvars>>

\* Parked jobs go first: up to room of the oldest batch, the rest keeps its
\* place.  Nothing parked, or the queue paused: the sources.
LoopUnparkNone ==
    /\ lpc = "unpark"
    /\ parked = {} \/ (parkMx = None /\ Held)
    /\ lpc' = "fill"
    /\ UNCHANGED <<state, qvars, wvars, signal, node, room, buf, n, dispatched, nvars, kvars,
                   pvars>>

\* What stays of a parked batch when k of its jobs go.
Rest(b, k) == [jobs  |-> SubSeq(b.jobs, k + 1, Len(b.jobs)),
               stamp |-> Later(b.stamp, k)]

\* Mutant of UnparkFrom: the batch is stamped anew.
UnparkRestamp(b, k) ==
    /\ parked' = (parked \ {b}) \cup IF k < Len(b.jobs) THEN {Rest(b, k)} ELSE {}
    /\ nParked' = nParked - k
    /\ SendBatch(SubSeq(b.jobs, 1, k), [b.stamp EXCEPT !.epoch = gen])

UnparkFrom(b, k) ==
    /\ parked' = (parked \ {b}) \cup IF k < Len(b.jobs) THEN {Rest(b, k)} ELSE {}
    /\ nParked' = nParked - k
    /\ SendBatch(SubSeq(b.jobs, 1, k), b.stamp)

LoopUnpark ==
    /\ lpc = "unpark" /\ parked # {} /\ parkMx = None /\ ~Held
    /\ UnparkFrom(Oldest, Min({room, Len(Oldest.jobs)}))
    /\ lpc' = "check"
    /\ UNCHANGED <<state, qvars, wvars, signal, buf, n, dispatched, parkHeld, parkMx, asked,
                   pvars>>

\* fillBatch, one Dequeue at a time; closed jobs are skipped.
LoopTake ==
    /\ lpc = "fill" /\ Len(buf) < room
    /\ storage # <<>> /\ ~paused
    /\ storage' = Tail(storage)
    /\ buf' = IF state[Head(storage)] = "closed" THEN buf ELSE Append(buf, Head(storage))
    /\ UNCHANGED <<state, paused, owed, notify, wvars, signal, lpc, node, room, n,
                   dispatched, nvars, kvars, pvars>>

\* The buffer is full, or there is nothing more to take.
LoopFilled ==
    /\ lpc = "fill"
    /\ Len(buf) = room \/ storage = <<>> \/ paused
    /\ lpc' = "stamp"
    /\ UNCHANGED <<state, qvars, wvars, signal, node, room, buf, n, dispatched, nvars, kvars,
                   pvars>>

\* An empty batch: the node goes back, and the loop goes on only if Dequeue
\* failed after Len had seen something.
LoopGiveBack ==
    /\ lpc = "stamp" /\ buf = <<>>
    /\ npc' = [npc EXCEPT ![node] = "idle"]
    /\ node' = None /\ room' = 0
    /\ lpc' \in {"select", "check"}
    /\ UNCHANGED <<state, qvars, wvars, signal, buf, n, dispatched, batch, first, stamp,
                   kvars, pvars>>

\* Mutant of LoopStamp: the Epoch is not read.
StampOnce ==
    /\ lpc = "stamp" /\ buf # <<>>
    /\ SendBatch(buf, [stamp[node] EXCEPT !.seq = dispatched])
    /\ dispatched' = dispatched + Len(buf)
    /\ buf' = <<>>
    /\ lpc' \in {"check"} \cup (IF Len(buf) < room THEN {"select"} ELSE {})
    /\ UNCHANGED <<state, qvars, wvars, signal, n, kvars, pvars>>

\* Stamped after the fill; the loop goes on if the batch is full (or on error).
LoopStamp ==
    /\ lpc = "stamp" /\ buf # <<>>
    /\ SendBatch(buf, [epoch |-> gen, seq |-> dispatched])
    /\ dispatched' = dispatched + Len(buf)
    /\ buf' = <<>>
    /\ lpc' \in {"check"} \cup (IF Len(buf) < room THEN {"select"} ELSE {})
    /\ UNCHANGED <<state, qvars, wvars, signal, n, kvars, pvars>>

(***************************************************************************)
(* A pool goroutine and its batch (initPoolNode)                           *)
(***************************************************************************)
\* The head of the batch is dealt with: the next one, or the node is free
\* again and the loop is told.  What an idle node was stamped with is forgotten:
\* SendBatch overwrites it.
NextInBatch(x) ==
    /\ batch' = [batch EXCEPT ![x] = Tail(@)]
    /\ first' = [first EXCEPT ![x] = FALSE]
    /\ stamp' = [stamp EXCEPT ![x] = IF Len(batch[x]) > 1 THEN Later(@, 1) ELSE NoStamp]
    /\ npc' = [npc EXCEPT ![x] = IF Len(batch[x]) > 1 THEN "stale" ELSE "idle"]
    /\ signal' = (signal \/ Len(batch[x]) = 1)

\* Purged after it was taken: closed.
NodeStale(x) ==
    /\ npc[x] = "stale"
    /\ Stale(stamp[x])
    /\ state' = Purged({Head(batch[x])})
    /\ NextInBatch(x)
    /\ UNCHANGED <<qvars, wvars, lvars, kvars, pvars>>

\* Not stale: on to the check of the halt.
NodeFresh(x) ==
    /\ npc[x] = "stale"
    /\ ~Stale(stamp[x])
    /\ npc' = [npc EXCEPT ![x] = "halt"]
    /\ UNCHANGED <<state, qvars, wvars, signal, lvars, batch, first, stamp, kvars, pvars>>

\* The first job always runs; before any other the worker may be halting, or
\* the queue paused.
NodeHalt(x) ==
    /\ npc[x] = "halt"
    /\ npc' = [npc EXCEPT ![x] = IF ~first[x] /\ (halting \/ Held) THEN "park" ELSE "start"]
    /\ UNCHANGED <<state, qvars, wvars, signal, lvars, batch, first, stamp, kvars, pvars>>

\* park: a batch a Purge reached first is closed instead.
ParkStale(x) ==
    /\ Stale(stamp[x])
    /\ state' = Purged(Range(batch[x]))
    /\ UNCHANGED <<parked, nParked, parkHeld>>

\* Mutant of ParkBatch: one job too few is parked.
ParkAfterHead(x) ==
    /\ ~Stale(stamp[x])
    /\ parked' = parked \cup
         (IF Len(batch[x]) > 1 THEN {[jobs |-> Tail(batch[x]), stamp |-> stamp[x]]} ELSE {})
    /\ nParked' = nParked + Len(batch[x]) - 1
    /\ parkHeld' = (parkHeld \/ Held)
    /\ UNCHANGED state

\* Mutant of ParkBatch: the batch is numbered anew when it parks.
ParkRenumber(x) ==
    /\ ~Stale(stamp[x])
    /\ parked' = parked \cup {[jobs |-> batch[x], stamp |-> [stamp[x] EXCEPT !.seq = dispatched]]}
    /\ nParked' = nParked + Len(batch[x])
    /\ parkHeld' = (parkHeld \/ Held)
    /\ UNCHANGED state

ParkBatch(x) ==
    /\ ~Stale(stamp[x])
    /\ parked' = parked \cup {[jobs |-> batch[x], stamp |-> stamp[x]]}
    /\ nParked' = nParked + Len(batch[x])
    /\ parkHeld' = (parkHeld \/ Held)
    /\ UNCHANGED state

NodePark(x) ==
    /\ npc[x] = "park" /\ parkMx = None
    /\ ParkStale(x) \/ ParkBatch(x)
    /\ batch' = [batch EXCEPT ![x] = <<>>]
    /\ stamp' = [stamp EXCEPT ![x] = NoStamp]
    /\ npc' = [npc EXCEPT ![x] = "idle"]
    /\ signal' = TRUE
    /\ UNCHANGED <<qvars, wvars, lvars, first, parkMx, asked, pvars>>

\* startProcessing: a job closed while it waited in the batch is skipped.
NodeSkip(x) ==
    /\ npc[x] = "start" /\ state[Head(batch[x])] # "queued"
    /\ NextInBatch(x)
    /\ UNCHANGED <<state, qvars, wvars, lvars, kvars, pvars>>

NodeStart(x) ==
    /\ npc[x] = "start" /\ state[Head(batch[x])] = "queued"
    /\ state' = [state EXCEPT ![Head(batch[x])] = "running"]
    /\ npc' = [npc EXCEPT ![x] = "run"]
    /\ UNCHANGED <<qvars, wvars, signal, lvars, batch, first, stamp, kvars, pvars>>

NodeRan(x) ==
    /\ npc[x] = "run"
    /\ state' = [state EXCEPT ![Head(batch[x])] = "done"]
    /\ NextInBatch(x)
    /\ UNCHANGED <<qvars, wvars, lvars, kvars, pvars>>

(***************************************************************************)
(* The specification                                                       *)
(***************************************************************************)
LoopStep ==
    \/ LoopSignal \/ LoopCheck \/ ScanClear("loop") \/ ScanEnd("loop") \/ LoopLen
    \/ LoopNoBatch \/ (\E x \in Nodes, k \in 1 .. MaxBatch : LoopPlan(x, k))
    \/ LoopUnparkNone \/ LoopUnpark \/ LoopTake \/ LoopFilled \/ LoopGiveBack \/ LoopStamp

NodeStep(x) ==
    \/ NodeStale(x) \/ NodeFresh(x) \/ NodeHalt(x) \/ NodePark(x) \/ NodeSkip(x)
    \/ NodeStart(x) \/ NodeRan(x)

OtherScan == ScanClear("other") \/ ScanEnd("other")
Notify    == NotifyRead \/ NotifyHook
Purge     == PurgeBump \/ PurgeDrop \/ PurgeStorage

Next ==
    \/ \E j \in Jobs : Add(j) \/ CloseJob(j)
    \/ Halt \/ Unhalt
    \/ SetPaused(TRUE) \/ SetPaused(FALSE) \/ Notify
    \/ Ask \/ OtherScan
    \/ Purge
    \/ LoopStep
    \/ \E x \in Nodes : NodeStep(x)

\* Goroutines keep running, jobs end, a call that has begun ends, and parkMx is
\* not starved (sync.Mutex).  Nobody has to add, close, halt, pause or purge.
Fairness ==
    /\ WF_vars(LoopStep) /\ SF_vars(ScanClear("loop")) /\ SF_vars(LoopUnpark)
    /\ WF_vars(Notify) /\ WF_vars(OtherScan)
    /\ \A x \in Nodes : WF_vars(NodeStep(x)) /\ SF_vars(NodePark(x))

Spec     == Init /\ [][Next]_vars
FairSpec == Spec /\ Fairness

(***************************************************************************)
(* Properties                                                              *)
(***************************************************************************)
\* The jobs of a node that it has not started.
Waiting(x) == IF npc[x] = "run" THEN Tail(batch[x]) ELSE batch[x]

\* Where a job is found: in the storage, the loop's buffer, the batches, and the
\* parked batches.
Places(j) ==
    LET In(q) == {i \in DOMAIN q : q[i] = j} IN
      ({<<"storage">>} \X In(storage)) \cup ({<<"buf">>} \X In(buf))
        \cup (UNION {{<<"node", x>>} \X In(Waiting(x)) : x \in Nodes})
        \cup (UNION {{<<"parked", b>>} \X In(b.jobs) : b \in parked})

\* No job is lost and none is handed out twice: whatever parks, resumes and
\* purges come in between, a Queued job waits in exactly one place, and a job
\* that has started waits nowhere.
JobsInOnePlace ==
    /\ TypeOK
    /\ \A j \in Jobs : /\ state[j] = "queued" => Cardinality(Places(j)) = 1
                       /\ state[j] \in {"new", "running", "done"} => Places(j) = {}

\* unpark's order: dispatch numbers grow with the age of the parked jobs, also
\* after a batch was split and its parts were parked by different workers.
ParkedInOrder ==
    \A b, c \in parked :
      b # c /\ b.stamp.seq <= c.stamp.seq =>
        \A i \in Range(b.jobs), j \in Range(c.jobs) : i < j

\* A worker of concurrency 1 runs jobs in queue order: parked jobs go first, "they
\* were taken before anything in the sources".
StartsInOrder ==
    [][\A j \in Jobs : concurrency = 1 /\ state[j] = "queued" /\ state'[j] = "running" =>
         \A i \in 1 .. j - 1 : state[i] # "queued"]_vars

\* Purge closes exactly the jobs that were there: every one it finds in a batch,
\* not yet looked at, or parked; and "a job Added after a Purge returned is never
\* taken for a purged one".
PurgeExact ==
    /\ \A j \in doomed : state[j] \notin {"running", "done"}
    /\ \A j \in Jobs : state[j] = "purged" => j \in reach \/ ppc # "none"

\* While its queue is paused a parked job is not the worker's pending: once the
\* Pause has told the worker, no scan makes it forget.
HeldRemembered ==
    paused /\ parked # {} /\ owed = 0 /\ notify = "none" /\ parkMx = None => parkHeld

\* No job is forgotten: again and again nothing waits, or the worker is halting
\* or the queue paused.
NoneForgotten ==
    []<>(halting \/ paused \/ \A j \in Jobs : state[j] # "queued")
=============================================================================
