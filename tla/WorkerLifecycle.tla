-------------------------- MODULE WorkerLifecycle --------------------------
(***************************************************************************)
(* The worker's status machine: the event loop that hands batches to pool  *)
(* goroutines, the goroutines that run them, and any callers of Start,     *)
(* Stop, Pause, Resume, Restart and the Wait family, with the atomics, the *)
(* mutex w.mx and the condition variable w.waiters they share.             *)
(*                                                                         *)
(* A step is one atomic operation, or one critical stretch under w.mx that *)
(* touches nothing the others reach without it.  Jobs are counted, not     *)
(* named (Dispatch names them).  curProcessing is only ever compared with  *)
(* 0, so it is kept as the set of batches it counts: a batch keeps at      *)
(* least one count from reserve to the finishJobs that ends it.            *)
(***************************************************************************)
EXTENDS Naturals, FiniteSets

CONSTANTS
    Batches,      \* hand-offs that may be under way, with their goroutines
    Callers,      \* goroutines that call the worker's methods
    Ops,          \* the methods they call
    Concurrency,  \* w.concurrency
    MaxBatch,     \* bound: jobs in a batch (32 in the code)
    MaxJobs,      \* bound: jobs added
    AutoRun,      \* WithAutoRun: newWorker has called Start
    Cancellable   \* WithContext: the parent context may be cancelled

Loop == "loop"    \* the event loop goroutine
None == "none"    \* w.mx is free; no batch

Threads == Batches \cup Callers \cup {Loop}

AllOps == {"Start", "Stop", "Pause", "Resume", "Restart", "Wait",
           "WaitUntilIdle", "WaitUntilPaused", "WaitUntilStopped"}

ASSUME LifecycleAssumption ==
    /\ Loop \notin Batches \cup Callers
    /\ None \notin Threads
    /\ Batches \cap Callers = {}
    /\ Ops \subseteq AllOps
    /\ Concurrency \in Nat \ {0}
    /\ MaxBatch \in Nat \ {0}
    /\ MaxJobs \in Nat
    /\ AutoRun \in BOOLEAN /\ Cancellable \in BOOLEAN

VARIABLES
    status,      \* w.status
    mx,          \* who holds w.mx
    waiters,     \* threads blocked in w.waiters.Wait
    armed,       \* those of them whose recheck timer runs (waitForChange)
    signal,      \* w.eventLoopSignal, a channel of capacity one
    ctxDone,     \* the worker's context is cancelled
    parentDone,  \* the context given by WithContext is cancelled
    counted,     \* w.curProcessing: the batches it counts
    busy,        \* w.busyWorkers: the batches it counts
    slot,        \* the batch processNextJob is preparing, or None
    cont,        \* what processNextJob will return
    queue,       \* jobs in the worker's sources
    parked,      \* w.nParked
    left,        \* jobs of each batch not started yet
    added,       \* jobs added so far
    done,        \* jobs run so far
    pc,          \* the next step of every thread
    op,          \* the method each caller is in
    need         \* jobs added when a caller entered Wait, 0 outside it

sync  == <<mx, waiters, armed>>
world == <<signal, ctxDone, parentDone>>
load  == <<counted, busy, slot, cont>>
jobs  == <<queue, parked, left, added, done>>
calls == <<op, need>>
vars  == <<status, sync, world, load, jobs, pc, calls>>

Statuses == {"initiated", "idle", "running", "pausing", "paused", "stopping",
             "stopped"}
Active   == {"idle", "running"}
Halting  == {"pausing", "paused", "stopping", "stopped"}

Steps ==
    {"ready", "free", "off",
     \* the event loop
     "select", "check", "count", "admit", "fill", "undo", "cancelled", "exit",
     \* a batch
     "taken", "start", "run", "next", "release", "notify",
     \* finishJobs
     "finDec", "finLock", "finLoad", "finCasIdle", "finRecheck", "finCasBack",
     "finCasPaused", "finWake",
     \* Start, Stop, Pause, Resume
     "startLock", "startLaunch", "startStore",
     "stopLoad", "stopRunning", "stopIdle", "stopPausing", "stopPaused",
     "stopCancel", "stopErr",
     "pauseLock", "pauseLoad", "pauseCasIdle", "pauseCasRunning", "pauseZero",
     "pauseCasPaused", "pauseWake", "pauseEnd", "pauseErr",
     "resumeCas", "resumeWake", "resumeNotify", "resumeLoad", "resumeErr",
     \* the Wait family and the wait inside Restart
     "waitLock", "waitStatus", "waitPending", "waitCur", "waitHalted", "waitArm",
     "waitBlock", "blocked"}

TypeOK ==
    /\ status \in Statuses
    /\ mx \in Threads \cup {None}
    /\ waiters \subseteq Threads
    /\ armed \subseteq Threads
    /\ signal \in BOOLEAN
    /\ ctxDone \in BOOLEAN /\ parentDone \in BOOLEAN
    /\ counted \subseteq Batches
    /\ busy \subseteq Batches
    /\ slot \in Batches \cup {None}
    /\ cont \in BOOLEAN
    /\ queue \in Nat /\ parked \in Nat /\ added \in Nat /\ done \in Nat
    /\ left \in [Batches -> Nat]
    /\ pc \in [Threads -> Steps]
    /\ op \in [Callers -> AllOps]
    /\ need \in [Callers -> Nat]

\* A worker just made by newWorker: Start has run if AutoRun, not otherwise.
Init ==
    /\ status = IF AutoRun THEN "idle" ELSE "initiated"
    /\ mx = None /\ waiters = {} /\ armed = {}
    /\ signal = AutoRun
    /\ ctxDone = FALSE /\ parentDone = FALSE
    /\ counted = {} /\ busy = {} /\ slot = None /\ cont = FALSE
    /\ queue = 0 /\ parked = 0 /\ added = 0 /\ done = 0
    /\ left = [b \in Batches |-> 0]
    /\ pc = [t \in Threads |->
               IF t \in Batches THEN "free"
               ELSE IF t \in Callers THEN "ready"
               ELSE IF AutoRun THEN "select" ELSE "off"]
    /\ op = [c \in Callers |-> "Start"]
    /\ need = [c \in Callers |-> 0]

At(t, step)   == pc[t] = step
Goto(t, step) == pc' = [pc EXCEPT ![t] = step]
Goto2(t, step, u, other) == pc' = [pc EXCEPT ![t] = step, ![u] = other]

Unlock    == mx' = None
Broadcast == waiters' = {}

Pending == queue + parked

\* status.CompareAndSwap(from, to) and the step it leads to either way.
CAS(t, step, from, to, hit, miss) ==
    /\ At(t, step)
    /\ IF status = from THEN status' = to /\ Goto(t, hit)
                        ELSE UNCHANGED status /\ Goto(t, miss)
    /\ UNCHANGED <<sync, world, load, jobs, calls>>

\* w.mx.Lock() at the head of a method or of finishJobs, and what it guards.
LockSteps == {"finLock", "startLock", "pauseLock", "waitLock"}

Guarded(step) == IF step = "finLock" THEN "finLoad"
                 ELSE IF step = "startLock" THEN "startLaunch"
                 ELSE IF step = "pauseLock" THEN "pauseLoad"
                 ELSE "waitStatus"

Lock(t) ==
    /\ pc[t] \in LockSteps
    /\ mx = None
    /\ mx' = t
    /\ Goto(t, Guarded(pc[t]))
    /\ UNCHANGED <<status, waiters, armed, world, load, jobs, calls>>

(***************************************************************************)
(* The environment: producers, other consumers of the sources, the parent  *)
(* context                                                                 *)
(***************************************************************************)
\* Queue.Add: enqueue, then notifyToPullNextJobs.
Add ==
    /\ added < MaxJobs
    /\ added' = added + 1
    /\ queue' = queue + 1
    /\ signal' = TRUE
    /\ UNCHANGED <<status, sync, ctxDone, parentDone, load, parked, left, done,
                   pc, calls>>

\* A Purge, or another worker bound to the same source, takes a job away.
TakenElsewhere ==
    /\ queue > 0
    /\ queue' = queue - 1
    /\ done' = done + 1
    /\ UNCHANGED <<status, sync, world, load, parked, left, added, pc, calls>>

\* The context given by WithContext is cancelled, and the worker's with it.
CancelParent ==
    /\ Cancellable /\ ~parentDone
    /\ parentDone' = TRUE /\ ctxDone' = TRUE
    /\ UNCHANGED <<status, sync, signal, load, jobs, pc, calls>>

(***************************************************************************)
(* goEventLoop and processNextJob                                          *)
(***************************************************************************)
LoopSignal ==
    /\ At(Loop, "select")
    /\ signal
    /\ signal' = FALSE
    /\ Goto(Loop, "check")
    /\ UNCHANGED <<status, sync, ctxDone, parentDone, load, jobs, calls>>

\* The loop's condition, and planBatch's choice of a worker: concurrency
\* bounds the busy ones.  busyWorkers counts it from here.
LoopPlan(b) ==
    /\ At(Loop, "check")
    /\ status \in Active /\ Cardinality(busy) < Concurrency /\ Pending > 0
    /\ At(b, "free")
    /\ slot' = b
    /\ busy' = busy \cup {b}
    /\ Goto2(Loop, "count", b, "taken")
    /\ UNCHANGED <<status, sync, world, counted, cont, jobs, calls>>

\* The condition is false, or planBatch found no idle worker and, with one
\* busy, none worth spawning: wait for the next signal.
LoopRest ==
    /\ At(Loop, "check")
    /\ status \notin Active \/ busy # {} \/ Pending = 0
    /\ Goto(Loop, "select")
    /\ UNCHANGED <<status, sync, world, load, jobs, calls>>

\* reserve counts first ...
reserveCount ==
    /\ At(Loop, "count")
    /\ counted' = counted \cup {slot}
    /\ Goto(Loop, "admit")
    /\ UNCHANGED <<status, sync, world, busy, slot, cont, jobs, calls>>

\* Mutant of reserveAdmit: an Idle worker passes without moving to Running.
admitIdle ==
    /\ At(Loop, "admit")
    /\ cont' = (status \in Active)
    /\ Goto(Loop, IF status \in Active THEN "fill" ELSE "undo")
    /\ UNCHANGED <<status, sync, world, counted, busy, slot, jobs, calls>>

\* ... and then lets only a Running worker pass, moving an Idle one there.  A
\* lost CAS reads the status again, so the loop is one step.
reserveAdmit ==
    /\ At(Loop, "admit")
    /\ status' = IF status \in Active THEN "running" ELSE status
    /\ cont' = (status \in Active)
    /\ Goto(Loop, IF status \in Active THEN "fill" ELSE "undo")
    /\ UNCHANGED <<sync, world, counted, busy, slot, jobs, calls>>

\* Parked jobs go first, then the sources; at least one job is handed out.
LoopFill(n) ==
    /\ At(Loop, "fill")
    /\ IF parked > 0
         THEN n <= parked /\ parked' = parked - n /\ UNCHANGED queue
         ELSE n <= queue /\ queue' = queue - n /\ UNCHANGED parked
    /\ left' = [left EXCEPT ![slot] = n]
    /\ slot' = None
    /\ Goto2(Loop, "check", slot, "start")
    /\ UNCHANGED <<status, sync, world, counted, busy, cont, added, done, calls>>

\* The sources ran dry meanwhile.  cont is false when none is ready.
LoopFillEmpty ==
    /\ At(Loop, "fill")
    /\ Pending = 0
    /\ cont' \in BOOLEAN
    /\ Goto(Loop, "undo")
    /\ UNCHANGED <<status, sync, world, counted, busy, slot, jobs, calls>>

\* Nothing to run: the worker goes back to the pool, then finishJobs.
LoopUndo ==
    /\ At(Loop, "undo")
    /\ busy' = busy \ {slot}
    /\ Goto(Loop, "finDec")
    /\ UNCHANGED <<status, sync, world, counted, slot, cont, jobs, calls>>

\* <-ctx.Done(): a plain store of Stopping, then Wait ...
LoopDone ==
    /\ At(Loop, "select")
    /\ ctxDone
    /\ Goto(Loop, "cancelled")
    /\ UNCHANGED <<status, sync, world, load, jobs, calls>>

LoopStopping ==
    /\ At(Loop, "cancelled")
    /\ status' = "stopping"
    /\ Goto(Loop, "waitLock")
    /\ UNCHANGED <<sync, world, load, jobs, calls>>

\* ... then removeAllWorkers, and Stopped and a broadcast under w.mx.
LoopStopped ==
    /\ At(Loop, "exit")
    /\ mx = None
    /\ status' = "stopped"
    /\ Broadcast
    /\ Goto(Loop, "off")
    /\ UNCHANGED <<mx, armed, world, load, jobs, calls>>

(***************************************************************************)
(* A pool goroutine and its batch (initPoolNode)                           *)
(***************************************************************************)
StartJob(b) ==
    /\ At(b, "start")
    /\ left' = [left EXCEPT ![b] = @ - 1]
    /\ Goto(b, "run")
    /\ UNCHANGED <<status, sync, world, load, queue, parked, added, done, calls>>

EndJob(b) ==
    /\ At(b, "run")
    /\ done' = done + 1
    /\ Goto(b, IF left[b] > 0 THEN "next" ELSE "release")
    /\ UNCHANGED <<status, sync, world, load, queue, parked, left, added, calls>>

\* Before each job but the first: a halting worker parks the rest.
NextJob(b) ==
    /\ At(b, "next")
    /\ IF status \in Halting
         THEN /\ parked' = parked + left[b]
              /\ left' = [left EXCEPT ![b] = 0]
              /\ Goto(b, "release")
         ELSE UNCHANGED <<parked, left>> /\ Goto(b, "start")
    /\ UNCHANGED <<status, sync, world, load, queue, added, done, calls>>

\* freePoolNode and busyWorkers-1, before the processing count drops.
Release(b) ==
    /\ At(b, "release")
    /\ busy' = busy \ {b}
    /\ Goto(b, "finDec")
    /\ UNCHANGED <<status, sync, world, counted, slot, cont, jobs, calls>>

\* The goroutine's last step: notifyToPullNextJobs.
BatchNotify(b) ==
    /\ At(b, "notify")
    /\ signal' = TRUE
    /\ Goto(b, "free")
    /\ UNCHANGED <<status, sync, ctxDone, parentDone, load, jobs, calls>>

(***************************************************************************)
(* finishJobs and releaseWaiters, by the event loop for a batch it gives   *)
(* back and by the goroutine of a batch that ends                          *)
(***************************************************************************)
\* Where a thread goes after finishJobs.
AfterFinish(t) == IF t # Loop THEN "notify" ELSE IF cont THEN "check" ELSE "select"

\* The decrement; only the one that reaches 0 goes for the mutex.
FinDec(t) ==
    /\ At(t, "finDec")
    /\ counted' = counted \ {IF t = Loop THEN slot ELSE t}
    /\ LET after == IF counted' = {} THEN "finLock" ELSE AfterFinish(t) IN
       IF t = Loop THEN slot' = None /\ Goto2(Loop, after, slot, "free")
                   ELSE UNCHANGED slot /\ Goto(t, after)
    /\ UNCHANGED <<status, sync, world, busy, cont, jobs, calls>>

\* A job may have started since the decrement; then it releases the waiters.
FinLoad(t) ==
    /\ At(t, "finLoad")
    /\ IF counted = {} THEN Goto(t, "finCasIdle") /\ UNCHANGED mx
                       ELSE Goto(t, AfterFinish(t)) /\ Unlock
    /\ UNCHANGED <<status, waiters, armed, world, load, jobs, calls>>

FinCasIdle(t) == CAS(t, "finCasIdle", "running", "idle", "finRecheck", "finCasPaused")

\* A dispatch may have reserved since: then back to Running.
FinRecheck(t) ==
    /\ At(t, "finRecheck")
    /\ Goto(t, IF counted = {} THEN "finWake" ELSE "finCasBack")
    /\ UNCHANGED <<status, sync, world, load, jobs, calls>>

FinCasBack(t) == CAS(t, "finCasBack", "idle", "running", "finWake", "finWake")

\* Mutant of FinCasPaused: the last job does not complete a pause.
StayPausing(t) == CAS(t, "finCasPaused", "pausing", "pausing", "finWake", "finWake")

FinCasPaused(t) == CAS(t, "finCasPaused", "pausing", "paused", "finWake", "finWake")

\* The deferred Broadcast, and Unlock.
FinWake(t) ==
    /\ At(t, "finWake")
    /\ Broadcast /\ Unlock
    /\ Goto(t, AfterFinish(t))
    /\ UNCHANGED <<status, armed, world, load, jobs, calls>>

FinStep(t) ==
    \/ FinDec(t) \/ FinLoad(t) \/ FinCasIdle(t) \/ FinRecheck(t)
    \/ FinCasBack(t) \/ FinCasPaused(t) \/ FinWake(t)

(***************************************************************************)
(* Method calls                                                            *)
(***************************************************************************)
Entry(m) == IF m = "Start" THEN "startLock"
            ELSE IF m \in {"Stop", "Restart"} THEN "stopLoad"
            ELSE IF m = "Pause" THEN "pauseLock"
            ELSE IF m = "Resume" THEN "resumeCas"
            ELSE "waitLock"

Call(c, m) ==
    /\ At(c, "ready")
    /\ op' = [op EXCEPT ![c] = m]
    /\ need' = [need EXCEPT ![c] = IF m = "Wait" THEN added ELSE 0]
    /\ Goto(c, Entry(m))
    /\ UNCHANGED <<status, sync, world, load, jobs>>

\* The call returns; which error it returned is not kept.
Return(c) ==
    /\ Goto(c, "ready")
    /\ op' = [op EXCEPT ![c] = "Start"]
    /\ need' = [need EXCEPT ![c] = 0]

\* getStatusError, at the end of Stop and Resume.
ReturnError(c) ==
    /\ pc[c] \in {"stopErr", "resumeErr"}
    /\ Return(c)
    /\ UNCHANGED <<status, sync, world, load, jobs>>

\* Start, under w.mx throughout: refuse a started worker, renew the context
\* of a stopped one (born cancelled under a cancelled parent), launch the loop.
StartRefused(c) ==
    /\ At(c, "startLaunch")
    /\ status \notin {"initiated", "stopped"}
    /\ Unlock
    /\ Return(c)
    /\ UNCHANGED <<status, waiters, armed, world, load, jobs>>

StartLaunch(c) ==
    /\ At(c, "startLaunch")
    /\ status \in {"initiated", "stopped"}
    /\ ctxDone' = parentDone
    /\ Goto2(c, "startStore", Loop, "select")
    /\ UNCHANGED <<status, sync, signal, parentDone, load, jobs, calls>>

\* The store of Idle comes after the launch; then broadcast and notify.
StartStore(c) ==
    /\ At(c, "startStore")
    /\ status' = "idle"
    /\ Broadcast /\ Unlock
    /\ signal' = TRUE
    /\ Return(c)
    /\ UNCHANGED <<armed, ctxDone, parentDone, load, jobs>>

StartStep(c) == StartRefused(c) \/ StartLaunch(c) \/ StartStore(c)

\* Stop, and Restart's first half: one CAS per status it may leave, in order.
\* Restart goes on to wait for Stopped.
StopReturn(c) ==
    IF op[c] = "Restart" THEN Goto(c, "waitLock") /\ UNCHANGED calls
                         ELSE Return(c)

StopLoad(c) ==
    /\ At(c, "stopLoad")
    /\ IF status \in {"stopping", "stopped"}
         THEN StopReturn(c)
         ELSE Goto(c, "stopRunning") /\ UNCHANGED calls
    /\ UNCHANGED <<status, sync, world, load, jobs>>

StopCas(c) ==
    \/ CAS(c, "stopRunning", "running", "stopping", "stopCancel", "stopIdle")
    \/ CAS(c, "stopIdle",    "idle",    "stopping", "stopCancel", "stopPausing")
    \/ CAS(c, "stopPausing", "pausing", "stopping", "stopCancel", "stopPaused")
    \/ CAS(c, "stopPaused",  "paused",  "stopping", "stopCancel", "stopErr")

\* Mutant of StopCancel: the context is not cancelled.
StopNoCancel(c) ==
    /\ At(c, "stopCancel")
    /\ mx = None
    /\ StopReturn(c)
    /\ UNCHANGED <<status, sync, world, load, jobs>>

\* w.cancel() under w.mx.
StopCancel(c) ==
    /\ At(c, "stopCancel")
    /\ mx = None
    /\ ctxDone' = TRUE
    /\ StopReturn(c)
    /\ UNCHANGED <<status, sync, signal, parentDone, load, jobs>>

StopStep(c) == StopLoad(c) \/ StopCas(c) \/ StopCancel(c)

\* Pause, under w.mx throughout.
PauseLoad(c) ==
    /\ At(c, "pauseLoad")
    /\ IF status \in {"pausing", "paused"}
         THEN Unlock /\ Return(c)
         ELSE Goto(c, "pauseCasIdle") /\ UNCHANGED <<mx, calls>>
    /\ UNCHANGED <<status, waiters, armed, world, load, jobs>>

\* Mutant of PauseCasIdle: only a running worker can be paused.
PauseOnlyRunning(c) ==
    CAS(c, "pauseCasIdle", "paused", "paused", "pauseWake", "pauseCasRunning")

PauseCasIdle(c) ==
    CAS(c, "pauseCasIdle", "idle", "paused", "pauseWake", "pauseCasRunning")

PauseCasRunning(c) ==
    CAS(c, "pauseCasRunning", "running", "pausing", "pauseZero", "pauseErr")

\* Jobs taken, not busy workers, decide whether the pause is complete.
PauseZero(c) ==
    /\ At(c, "pauseZero")
    /\ Goto(c, IF counted = {} THEN "pauseCasPaused" ELSE "pauseEnd")
    /\ UNCHANGED <<status, sync, world, load, jobs, calls>>

PauseCasPaused(c) ==
    CAS(c, "pauseCasPaused", "pausing", "paused", "pauseWake", "pauseEnd")

\* Unlock and return, after a broadcast if the worker became Paused.
PauseEnd(c) ==
    /\ pc[c] \in {"pauseWake", "pauseEnd", "pauseErr"}
    /\ waiters' = IF At(c, "pauseWake") THEN {} ELSE waiters
    /\ Unlock
    /\ Return(c)
    /\ UNCHANGED <<status, armed, world, load, jobs>>

PauseStep(c) ==
    \/ PauseLoad(c) \/ PauseCasIdle(c) \/ PauseCasRunning(c) \/ PauseZero(c)
    \/ PauseCasPaused(c) \/ PauseEnd(c)

\* Resume: the CAS is not under w.mx; the broadcast is, the notify follows.
ResumeCas(c) == CAS(c, "resumeCas", "paused", "idle", "resumeWake", "resumeLoad")

ResumeWake(c) ==
    /\ At(c, "resumeWake")
    /\ mx = None
    /\ Broadcast
    /\ Goto(c, "resumeNotify")
    /\ UNCHANGED <<status, mx, armed, world, load, jobs, calls>>

\* Mutant of ResumeNotify: the loop is not told.
ResumeQuietly(c) ==
    /\ At(c, "resumeNotify")
    /\ Return(c)
    /\ UNCHANGED <<status, sync, world, load, jobs>>

ResumeNotify(c) ==
    /\ At(c, "resumeNotify")
    /\ signal' = TRUE
    /\ Return(c)
    /\ UNCHANGED <<status, sync, ctxDone, parentDone, load, jobs>>

ResumeLoad(c) ==
    /\ At(c, "resumeLoad")
    /\ IF status \in Active THEN Return(c)
                            ELSE Goto(c, "resumeErr") /\ UNCHANGED calls
    /\ UNCHANGED <<status, sync, world, load, jobs>>

ResumeStep(c) == ResumeCas(c) \/ ResumeWake(c) \/ ResumeNotify(c) \/ ResumeLoad(c)

(***************************************************************************)
(* Wait, WaitUntilIdle, WaitUntilPaused, WaitUntilStopped, Restart's wait; *)
(* the event loop calls Wait too                                           *)
(***************************************************************************)
WaitOp(t) == IF t = Loop THEN "Wait" ELSE op[t]

\* The wait is over: unlock and return; the loop goes on to exit, and Restart
\* goes on to Start or reports a worker somebody else started.
WaitReturn(t) ==
    /\ Unlock
    /\ IF t = Loop THEN Goto(Loop, "exit") /\ UNCHANGED calls
       ELSE IF op[t] = "Restart" /\ status = "stopped"
              THEN Goto(t, "startLock") /\ UNCHANGED calls
       ELSE Return(t)

\* What a thread does next on the status it reads: look at the pending jobs,
\* look at the count, block with or without the timer, or return.
OnStatus(m, s) ==
    IF <<m, s>> \in ({"Wait"} \X Active) \cup {<<"WaitUntilIdle", "idle">>} THEN "waitPending"
    ELSE IF m = "Wait" /\ s \in Halting THEN "waitHalted"
    ELSE IF m = "WaitUntilIdle" THEN "waitArm"
    ELSE IF \/ m = "WaitUntilPaused" /\ s # "paused"
            \/ m = "WaitUntilStopped" /\ s # "stopped"
            \/ m = "Restart" /\ s \notin Active \cup {"stopped"} THEN "waitBlock"
    ELSE "return"

WaitStatus(t) ==
    /\ At(t, "waitStatus")
    /\ LET next == OnStatus(WaitOp(t), status) IN
       IF next = "return" THEN WaitReturn(t)
                          ELSE Goto(t, next) /\ UNCHANGED <<mx, calls>>
    /\ UNCHANGED <<status, waiters, armed, world, load, jobs>>

\* NumPending: sources, parked jobs and what sits in batches, so it may be
\* above zero while a batch is counted.
WaitPending(t) ==
    /\ At(t, "waitPending")
    /\ \/ Pending = 0 /\ Goto(t, "waitCur")
       \/ (Pending > 0 \/ counted # {}) /\ Goto(t, "waitArm")
    /\ UNCHANGED <<status, sync, world, load, jobs, calls>>

\* Mutant of WaitCur: an empty queue is enough.
IgnoreCur(t) ==
    /\ pc[t] \in {"waitCur", "waitHalted"}
    /\ WaitReturn(t)
    /\ UNCHANGED <<status, waiters, armed, world, load, jobs>>

WaitCur(t) ==
    /\ pc[t] \in {"waitCur", "waitHalted"}
    /\ IF counted = {} THEN WaitReturn(t)
                       ELSE Goto(t, "waitArm") /\ UNCHANGED <<mx, calls>>
    /\ UNCHANGED <<status, waiters, armed, world, load, jobs>>

\* Mutant of WaitArm: no recheck timer.
NeverArm(t) ==
    /\ At(t, "waitArm")
    /\ Goto(t, "waitBlock")
    /\ UNCHANGED <<status, sync, world, load, jobs, calls>>

\* waitForChange arms the recheck timer if nothing runs ...
WaitArm(t) ==
    /\ At(t, "waitArm")
    /\ armed' = IF counted = {} THEN armed \cup {t} ELSE armed
    /\ Goto(t, "waitBlock")
    /\ UNCHANGED <<status, mx, waiters, world, load, jobs, calls>>

\* ... and blocks, giving up the mutex.
WaitBlock(t) ==
    /\ At(t, "waitBlock")
    /\ waiters' = waiters \cup {t}
    /\ Unlock
    /\ Goto(t, "blocked")
    /\ UNCHANGED <<status, armed, world, load, jobs, calls>>

\* Woken: the mutex again, the timer stopped, and around the loop.
WaitWake(t) ==
    /\ At(t, "blocked") /\ t \notin waiters
    /\ mx = None /\ mx' = t
    /\ armed' = armed \ {t}
    /\ Goto(t, "waitStatus")
    /\ UNCHANGED <<status, waiters, world, load, jobs, calls>>

\* The timer fires: a broadcast under w.mx.
Recheck(t) ==
    /\ t \in armed
    /\ mx = None
    /\ armed' = armed \ {t}
    /\ Broadcast
    /\ UNCHANGED <<status, mx, world, load, jobs, pc, calls>>

WaitStep(t) ==
    \/ WaitStatus(t) \/ WaitPending(t) \/ WaitCur(t) \/ WaitArm(t)
    \/ WaitBlock(t) \/ WaitWake(t) \/ Recheck(t)

(***************************************************************************)
(* The specification                                                       *)
(***************************************************************************)
LoopStep ==
    \/ LoopSignal \/ LoopRest \/ (\E b \in Batches : LoopPlan(b))
    \/ reserveCount \/ reserveAdmit
    \/ (\E n \in 1..MaxBatch : LoopFill(n)) \/ LoopFillEmpty \/ LoopUndo
    \/ LoopDone \/ LoopStopping \/ LoopStopped
    \/ Lock(Loop) \/ FinStep(Loop) \/ WaitStep(Loop)

BatchStep(b) ==
    \/ StartJob(b) \/ EndJob(b) \/ NextJob(b) \/ Release(b) \/ BatchNotify(b)
    \/ Lock(b) \/ FinStep(b)

CallStep(c) ==
    \/ Lock(c) \/ StartStep(c) \/ StopStep(c) \/ PauseStep(c) \/ ResumeStep(c)
    \/ WaitStep(c) \/ ReturnError(c)

Next ==
    \/ Add \/ TakenElsewhere \/ CancelParent
    \/ LoopStep
    \/ \E b \in Batches : BatchStep(b)
    \/ \E c \in Callers : CallStep(c) \/ \E m \in Ops : Call(c, m)

\* Every goroutine keeps running, jobs end, and a call once made goes on.  The
\* mutex is not starved (w.mx is only locked for writing, and its writers' mutex
\* hands over to a waiter it starved for 1ms), and select picks at random among ready channels, so a cancelled
\* context is not passed over forever: strong fairness for those.  Nobody has
\* to add jobs, call methods or cancel the parent.
MxStep(t) ==
    \/ Lock(t) \/ WaitWake(t) \/ Recheck(t)
    \/ t = Loop /\ LoopStopped
    \/ t \in Callers /\ (StopCancel(t) \/ ResumeWake(t))

Fairness ==
    /\ WF_vars(LoopStep) /\ SF_vars(LoopDone)
    /\ \A b \in Batches : WF_vars(BatchStep(b))
    /\ \A c \in Callers : WF_vars(CallStep(c))
    /\ \A t \in Threads : SF_vars(MxStep(t))

Spec     == Init /\ [][Next]_vars
FairSpec == Spec /\ Fairness

(***************************************************************************)
(* Properties                                                              *)
(***************************************************************************)
\* A batch that passed reserve and has not given its jobs up.
InFlight(b) == pc[b] \in {"start", "run", "next"} \/ (At(Loop, "fill") /\ slot = b)

\* Issue the comment of reserve is about: whatever Pause, Resume, Stop and the
\* finishing jobs do meanwhile, no job is in flight on a Paused or Stopped
\* worker, so none can start there.
NothingRunsWhenHalted ==
    status \in {"paused", "stopped"} => \A b \in Batches : ~InFlight(b)

\* A Pausing worker always has somebody who will make it Paused: a batch that is
\* still counted, a finisher on its way to the CAS, or the Pause itself.
PausingHasFinisher ==
    status = "pausing" =>
      \/ counted # {}
      \/ \E t \in Threads : pc[t] \in {"finLock", "finLoad", "finCasIdle",
                                       "finCasPaused", "pauseZero", "pauseCasPaused"}

\* Pause: a caller only gets an error the documentation lists.  Between the
\* load and the CASes the status still moves (reserve, Stop and Resume do not
\* take w.mx), yet a Pause never falls through all of them on an active worker.
PauseErrorsDocumented ==
    \A c \in Callers : At(c, "pauseErr") => status \in {"initiated", "stopping", "stopped"}

\* Stop: "idempotent"; the only error it documents is for an Initiated worker.
StopErrorsDocumented ==
    \A c \in Callers : At(c, "stopErr") => status = "initiated"

\* A Wait that returns on an active worker has waited for every job added
\* before it was called; only a Stop that came meanwhile may have parked some.
WaitDrains ==
    [][\A c \in Callers :
         op[c] = "Wait" /\ At(c, "waitCur") /\ pc'[c] = "ready"
           => done >= need[c] \/ status = "stopping"]_vars

\* A job that is waiting on an active worker is not forgotten: again and again
\* there is nothing to do or the worker is not active.
NoLostWakeup == []<>(Pending = 0 \/ status \notin Active)

\* A Pause completes, and a Stop completes.
HaltsComplete ==
    /\ status = "pausing" ~> status # "pausing"
    /\ status = "stopping" ~> status = "stopped"

\* Nobody sleeps through what they wait for.
NoMissedBroadcast ==
    \A c \in Callers :
      /\ []<>~(op[c] = "WaitUntilPaused" /\ status = "paused")
      /\ []<>~(op[c] = "WaitUntilStopped" /\ status = "stopped")
      /\ []<>~(op[c] = "WaitUntilIdle" /\ status = "idle" /\ Pending = 0 /\ counted = {})
      /\ []<>~(op[c] = "Wait" /\ counted = {} /\ (Pending = 0 \/ status \in Halting))

\* Cancelling the context given by WithContext stops the worker.
CancelStops == []<>(~parentDone \/ status \in {"initiated", "stopped"})
=============================================================================
