-------------------------------- MODULE Job --------------------------------
(***************************************************************************)
(* The life of one job (job.go) under everybody who may touch it at once:  *)
(* the producer in Add, the pool goroutine that runs it, a Purge of its    *)
(* queue, and any number of users who hold its handle and call Close.      *)
(*                                                                         *)
(* A step is one atomic operation of the code (an atomic load, store, swap *)
(* or CAS, or one call into the storage).  The loop of job.transition is   *)
(* one step: a lost CAS changes nothing and reads the status again, so a   *)
(* call takes effect at its last load or at its CAS.                       *)
(***************************************************************************)
EXTENDS Naturals

CONSTANTS
    Users,       \* goroutines that hold the job's handle and may Close it
    Storages,    \* the kinds of storage the job may be added to
    Outcomes,    \* what the worker function may do: "ok", "fail"
    MaxRefusals  \* bound: how often the storage refuses an acknowledgement

Producer == "producer"   \* the goroutine inside Add
Worker   == "worker"     \* the pool goroutine that is handed the job
Purger   == "purger"     \* a goroutine inside Queue.Purge

Agents == Users \cup {Producer, Worker, Purger}

ASSUME RolesAssumption ==
    /\ Users \cap {Producer, Worker, Purger} = {}
    /\ Storages \subseteq {"mem", "ack", "plain"}
    /\ Outcomes \subseteq {"ok", "fail"}
    /\ MaxRefusals \in Nat

VARIABLES
    storage,    \* "mem": in-memory queue, "ack": acknowledging, "plain": neither
    status,     \* job.status
    ackRef,     \* job.ackRef: "nil", "mem" (no storage to tell), "ack", "rej" (reason set)
    wg,         \* the counter of job.wg
    where,      \* "out" (not enqueued), "stored", "taken" by a worker, "removed" by Purge
    stale,      \* a Purge bumped the generation after the job was stamped (Stamp.Stale)
    pc,         \* the next step of every agent
    hand,       \* the ackRef an agent swapped out and has not reported yet
    acked,      \* successful storage.Acknowledge calls
    rejected,   \* successful storage.Reject calls
    refusals    \* acknowledgements the storage refused so far

place  == <<storage, where, stale>>
ledger == <<acked, rejected, refusals>>
vars   == <<place, status, ackRef, wg, pc, hand, ledger>>

Statuses == {"created", "queued", "processing", "finished", "closed"}
Refs     == {"nil", "mem", "ack", "rej"}
Steps    == {"ready", "enqueue", "markQueued", "take", "checkNext", "setAck",
             "checkFill", "serve", "run", "storeReason", "finish", "bump", "remove",
             "loadRef", "closeable", "swap", "report", "restore", "claim",
             "done", "end"}

TypeOK ==
    /\ storage \in Storages
    /\ status \in Statuses
    /\ ackRef \in Refs
    /\ wg \in Nat
    /\ where \in {"out", "stored", "taken", "removed"}
    /\ stale \in BOOLEAN
    /\ pc \in [Agents -> Steps]
    /\ hand \in [Agents -> Refs]
    /\ acked \in Nat
    /\ rejected \in Nat
    /\ refusals \in Nat

\* newJob and countedBy: the job exists, its wait group counts one, an
\* in-memory job names its queue's totals; Add is about to enqueue it.
Init ==
    /\ storage \in Storages
    /\ status = "created"
    /\ ackRef = IF storage = "mem" THEN "mem" ELSE "nil"
    /\ wg = 1
    /\ where = "out"
    /\ stale = FALSE
    /\ pc = [a \in Agents |-> IF a = Producer THEN "enqueue"
                             ELSE IF a = Worker THEN "take"
                             ELSE IF a = Purger THEN "bump"
                             ELSE "ready"]
    /\ hand = [a \in Agents |-> "nil"]
    /\ acked = 0
    /\ rejected = 0
    /\ refusals = 0

At(a, step)   == pc[a] = step
Goto(a, step) == pc' = [pc EXCEPT ![a] = step]

\* Where an agent goes when its call of Close returns; a user may call again.
Return(a) == Goto(a, IF a \in Users THEN "ready" ELSE "end")

(***************************************************************************)
(* Close, by any agent                                                     *)
(***************************************************************************)
\* Mutant of closeable: a closed job may be closed again.
closeableAgain(s) == s # "processing"

closeable(s) == s \notin {"processing", "closed"}
notClosed(s) == s # "closed"

acknowledgeable(ref) == ref \in {"ack", "rej"}

\* closeOnce: the ref decides whether there is a storage to acknowledge.
LoadRef(a) ==
    /\ At(a, "loadRef")
    /\ Goto(a, IF acknowledgeable(ackRef) THEN "closeable" ELSE "claim")
    /\ UNCHANGED <<place, status, ackRef, wg, hand, ledger>>

\* closeOnce: refuse a processing or closed job before its ack is taken.
CheckCloseable(a) ==
    /\ At(a, "closeable")
    /\ IF closeable(status) THEN Goto(a, "swap") ELSE Return(a)
    /\ UNCHANGED <<place, status, ackRef, wg, hand, ledger>>

\* Mutant of SwapRef: the ack is read but left in the job.
LoadAckOnly(a) ==
    /\ At(a, "swap")
    /\ hand' = [hand EXCEPT ![a] = ackRef]
    /\ Goto(a, IF ackRef = "nil" THEN "claim" ELSE "report")
    /\ UNCHANGED <<place, status, ackRef, wg, ledger>>

\* acknowledge: take the ack out of the job.
SwapRef(a) ==
    /\ At(a, "swap")
    /\ hand' = [hand EXCEPT ![a] = ackRef]
    /\ ackRef' = "nil"
    /\ Goto(a, IF ackRef = "nil" THEN "claim" ELSE "report")
    /\ UNCHANGED <<place, status, wg, ledger>>

\* acknowledge: the storage accepts the report.
ReportAccepted(a) ==
    /\ At(a, "report")
    /\ IF hand[a] = "rej"
         THEN rejected' = rejected + 1 /\ UNCHANGED acked
         ELSE acked' = acked + 1 /\ UNCHANGED rejected
    /\ hand' = [hand EXCEPT ![a] = "nil"]
    /\ Goto(a, "claim")
    /\ UNCHANGED <<place, status, ackRef, wg, refusals>>

\* acknowledge: the storage answers false.
ReportRefused(a) ==
    /\ At(a, "report")
    /\ refusals < MaxRefusals
    /\ refusals' = refusals + 1
    /\ Goto(a, "restore")
    /\ UNCHANGED <<place, status, ackRef, wg, hand, acked, rejected>>

\* Mutant of RestoreRef: the refused ack is not put back.
DropRefusedRef(a) ==
    /\ At(a, "restore")
    /\ hand' = [hand EXCEPT ![a] = "nil"]
    /\ Return(a)
    /\ UNCHANGED <<place, status, ackRef, wg, ledger>>

\* acknowledge: put the ack back so that a retry can report again.
RestoreRef(a) ==
    /\ At(a, "restore")
    /\ ackRef' = hand[a]
    /\ hand' = [hand EXCEPT ![a] = "nil"]
    /\ Return(a)
    /\ UNCHANGED <<place, status, wg, ledger>>

\* claimClose: one caller moves the job to closed, the others get an error.
ClaimClose(a) ==
    /\ At(a, "claim")
    /\ IF closeable(status)
         THEN status' = "closed" /\ Goto(a, "done")
         ELSE UNCHANGED status /\ Return(a)
    /\ UNCHANGED <<place, ackRef, wg, hand, ledger>>

\* Close: the winner releases Wait (wg.Done panics below zero).
ReleaseWait(a) ==
    /\ At(a, "done")
    /\ wg' = wg - 1
    /\ Return(a)
    /\ UNCHANGED <<place, status, ackRef, hand, ledger>>

CloseStep(a) ==
    \/ LoadRef(a)
    \/ CheckCloseable(a)
    \/ SwapRef(a)
    \/ ReportAccepted(a)
    \/ ReportRefused(a)
    \/ RestoreRef(a)
    \/ ClaimClose(a)
    \/ ReleaseWait(a)

(***************************************************************************)
(* The producer: Add                                                       *)
(***************************************************************************)
\* The storage takes the job: from here a worker or a Purge may reach it.
EnqueueAccepted ==
    /\ At(Producer, "enqueue")
    /\ where' = "stored"
    /\ Goto(Producer, "markQueued")
    /\ UNCHANGED <<storage, stale, status, ackRef, wg, hand, ledger>>

\* The storage refuses it (closed, or the id is taken): Add closes the job.
EnqueueRefused ==
    /\ At(Producer, "enqueue")
    /\ Goto(Producer, "loadRef")
    /\ UNCHANGED <<place, status, ackRef, wg, hand, ledger>>

\* Mutant of MarkQueued: a plain store instead of the CAS from created.
StoreQueued ==
    /\ At(Producer, "markQueued")
    /\ status' = "queued"
    /\ Goto(Producer, "end")
    /\ UNCHANGED <<place, ackRef, wg, hand, ledger>>

\* markQueued: only a created job moves; then Add returns the handle.
MarkQueued ==
    /\ At(Producer, "markQueued")
    /\ status' = IF status = "created" THEN "queued" ELSE status
    /\ Goto(Producer, "end")
    /\ UNCHANGED <<place, ackRef, wg, hand, ledger>>

(***************************************************************************)
(* The worker: source.Next, fillBatch, and one turn of the serve loop      *)
(***************************************************************************)
Take ==
    /\ At(Worker, "take")
    /\ where = "stored"
    /\ where' = "taken"
    /\ Goto(Worker, IF storage = "ack" THEN "checkNext" ELSE "checkFill")
    /\ UNCHANGED <<storage, stale, status, ackRef, wg, hand, ledger>>

\* ackSource.Next: a job the user closed in the queue gets no ack.
CheckNext ==
    /\ At(Worker, "checkNext")
    /\ Goto(Worker, IF status = "closed" THEN "checkFill" ELSE "setAck")
    /\ UNCHANGED <<place, status, ackRef, wg, hand, ledger>>

SetAck ==
    /\ At(Worker, "setAck")
    /\ ackRef' = "ack"
    /\ Goto(Worker, "checkFill")
    /\ UNCHANGED <<place, status, wg, hand, ledger>>

\* fillBatch: a closed job is skipped; the others are stamped with the purge
\* generation and handed to the pool goroutine.
CheckFill ==
    /\ At(Worker, "checkFill")
    /\ Goto(Worker, IF status = "closed" THEN "end" ELSE "serve")
    /\ UNCHANGED <<place, status, ackRef, wg, hand, ledger>>

\* Mutant of ServeStale: a purged job is skipped and never closed.
SkipStale ==
    /\ At(Worker, "serve")
    /\ stale
    /\ Goto(Worker, "end")
    /\ UNCHANGED <<place, status, ackRef, wg, hand, ledger>>

\* The serve loop closes a purged job, skips a closed one, or starts it.
ServeStale ==
    /\ At(Worker, "serve")
    /\ stale
    /\ Goto(Worker, "loadRef")
    /\ UNCHANGED <<place, status, ackRef, wg, hand, ledger>>

startProcessing ==
    /\ At(Worker, "serve")
    /\ ~stale
    /\ IF notClosed(status)
         THEN status' = "processing" /\ Goto(Worker, "run")
         ELSE UNCHANGED status /\ Goto(Worker, "end")
    /\ UNCHANGED <<place, ackRef, wg, hand, ledger>>

\* The worker function returned no error.
succeed ==
    /\ At(Worker, "run")
    /\ "ok" \in Outcomes
    /\ Goto(Worker, "finish")
    /\ UNCHANGED <<place, status, ackRef, wg, hand, ledger>>

\* It failed or panicked: fail reads the ref and, if it is an ack, goes on to
\* store a new ref with the reason.
failLoad ==
    /\ At(Worker, "run")
    /\ "fail" \in Outcomes
    /\ Goto(Worker, IF acknowledgeable(ackRef) THEN "storeReason" ELSE "finish")
    /\ UNCHANGED <<place, status, ackRef, wg, hand, ledger>>

failStore ==
    /\ At(Worker, "storeReason")
    /\ ackRef' = "rej"
    /\ Goto(Worker, "finish")
    /\ UNCHANGED <<place, status, wg, hand, ledger>>

\* changeStatus(finished) is a plain store; then the worker closes the job.
Finish ==
    /\ At(Worker, "finish")
    /\ status' = "finished"
    /\ Goto(Worker, "loadRef")
    /\ UNCHANGED <<place, ackRef, wg, hand, ledger>>

(***************************************************************************)
(* Queue.Purge, and the calls of Close by users                            *)
(***************************************************************************)
\* bumpPurges: a job stamped before the bump, and not started, becomes stale.
PurgeBump ==
    /\ At(Purger, "bump")
    /\ stale' = (storage # "ack" /\ At(Worker, "serve"))
    /\ Goto(Purger, "remove")
    /\ UNCHANGED <<storage, where, status, ackRef, wg, hand, ledger>>

\* PurgeValues: a job still in storage is removed and then closed.
PurgeRemove ==
    /\ At(Purger, "remove")
    /\ IF where = "stored"
         THEN where' = "removed" /\ Goto(Purger, "loadRef")
         ELSE UNCHANGED where /\ Goto(Purger, "end")
    /\ UNCHANGED <<storage, stale, status, ackRef, wg, hand, ledger>>

\* A user got the handle from Add and calls Close.
UserClose(u) ==
    /\ At(u, "ready")
    /\ At(Producer, "end")
    /\ where # "out"
    /\ Goto(u, "loadRef")
    /\ UNCHANGED <<place, status, ackRef, wg, hand, ledger>>

ProducerStep == EnqueueAccepted \/ EnqueueRefused \/ MarkQueued \/ CloseStep(Producer)

WorkerStep ==
    \/ Take \/ CheckNext \/ SetAck \/ CheckFill
    \/ ServeStale \/ startProcessing
    \/ succeed \/ failLoad \/ failStore \/ Finish
    \/ CloseStep(Worker)

PurgerStep == PurgeBump \/ PurgeRemove \/ CloseStep(Purger)

Next ==
    \/ ProducerStep
    \/ WorkerStep
    \/ PurgerStep
    \/ \E u \in Users : UserClose(u) \/ CloseStep(u)

\* Go runs every runnable goroutine eventually, and a call once begun goes on;
\* nobody has to call Close or Purge.
Fairness ==
    /\ WF_vars(ProducerStep)
    /\ WF_vars(WorkerStep)
    /\ WF_vars(PurgeRemove \/ CloseStep(Purger))
    /\ \A u \in Users : WF_vars(CloseStep(u))

Spec     == Init /\ [][Next]_vars
FairSpec == Spec /\ Fairness

(***************************************************************************)
(* Properties                                                              *)
(***************************************************************************)
\* Exactly one caller of Close wins and calls wg.Done: there is never a second
\* one on its way to it, Wait is released only by that call and only once the
\* job is closed, and the counter never goes below zero (which would panic).
ReleasedExactlyOnce ==
    /\ \A a, b \in Agents : At(a, "done") /\ At(b, "done") => a = b
    /\ wg = IF status = "closed" /\ \A a \in Agents : ~At(a, "done") THEN 0 ELSE 1

\* A job the worker has taken from acknowledging storage keeps its ack until a
\* report is accepted: it is in the job, or in the hand of the one Close that
\* swapped it out, or reported.  A refused report is never forgotten.
AckNeverLost ==
    storage = "ack" /\ (status \in {"processing", "finished"} \/ At(Worker, "serve"))
      => \/ acknowledgeable(ackRef)
         \/ \E a \in Agents : acknowledgeable(hand[a])
         \/ acked + rejected > 0

\* The storage hears at most one Acknowledge and at most one Reject of a job,
\* whoever closes it and however often reports are refused and made again.
ReportsNotRepeated == acked <= 1 /\ rejected <= 1

\* acknowledge "reports the job's outcome to its storage at most once".
AtMostOneReport == acked + rejected <= 1

\* The job implements its contract: runs and closes exclude each other, and
\* Wait is released once, after the close.
Phase == IF status \in {"created", "queued"} THEN "open"
         ELSE IF status = "processing" THEN "running"
         ELSE IF status = "finished" THEN "ran"
         ELSE "closed"

Contract == INSTANCE JobContract WITH phase <- Phase, waiting <- wg

ImplementsContract == Contract!CSpec

\* Nobody who Waits for a job waits forever: it is closed and released, or the
\* storage refused the worker's report, and then the job stays Finished.
EventuallyReleased == <>(wg = 0 \/ (status = "finished" /\ refusals > 0))
=============================================================================
