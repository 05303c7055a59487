----------------------- MODULE WorkerLifecycleProofs -----------------------
(***************************************************************************)
(* Proofs about WorkerLifecycle, for any number of batches, callers and    *)
(* jobs, and any concurrency.                                              *)
(***************************************************************************)
EXTENDS WorkerLifecycle, TLAPS

(***************************************************************************)
(* The inductive invariant                                                 *)
(***************************************************************************)
FinHeld   == {"finLoad", "finCasIdle", "finRecheck", "finCasBack",
              "finCasPaused", "finWake"}
FinSteps  == {"finDec", "finLock"} \cup FinHeld
WaitHeld  == {"waitStatus", "waitPending", "waitCur", "waitHalted", "waitArm",
              "waitBlock"}
WaitSteps == {"waitLock", "blocked"} \cup WaitHeld
PauseHeld == {"pauseLoad", "pauseCasIdle", "pauseCasRunning", "pauseZero",
              "pauseCasPaused", "pauseWake", "pauseEnd", "pauseErr"}
Prepared  == {"count", "admit", "fill", "undo", "finDec"}

\* The steps at which a thread holds w.mx.
Held == FinHeld \cup WaitHeld \cup PauseHeld \cup {"startLaunch", "startStore"}

\* Every thread keeps to its own program.
Roles ==
    /\ \A b \in Batches : pc[b] \in {"free", "taken", "start", "run", "next",
                                     "release", "notify"} \cup FinSteps
    /\ pc[Loop] \in {"off", "select", "check", "cancelled", "exit"} \cup Prepared
                      \cup FinSteps \cup WaitSteps
    /\ \A c \in Callers :
         pc[c] \in WaitSteps \cup PauseHeld \cup
           {"ready", "startLock", "startLaunch", "startStore", "stopLoad",
            "stopRunning", "stopIdle", "stopPausing", "stopPaused", "stopCancel",
            "stopErr", "pauseLock", "resumeCas", "resumeWake", "resumeNotify",
            "resumeLoad", "resumeErr"}

\* w.mx: held by the thread that is at one of those steps, and only there.
Mutex == \A t \in Threads : pc[t] \in Held <=> mx = t

\* The batch the loop prepares, and no other, is taken; the loop is preparing.
Prepares ==
    /\ slot # None <=> pc[Loop] \in Prepared
    /\ \A b \in Batches : slot = b <=> At(b, "taken")

\* A worker that is Initiated or Stopped has no event loop, except between its
\* launch and the store of Idle in Start, where the status is not active.
Launch ==
    /\ \A c \in Callers : At(c, "startStore") => status \in {"initiated", "stopped", "stopping"}
    /\ status \in {"initiated", "stopped"} =>
         \/ At(Loop, "off")
         \/ \E c \in Callers : At(c, "startStore")
    /\ status = "initiated" => pc[Loop] \in {"off", "select", "check", "cancelled"}

\* curProcessing counts every batch from reserve to the end of finishJobs.
Counts ==
    /\ \A b \in Batches : pc[b] \in {"start", "run", "next", "release", "finDec"} => b \in counted
    /\ pc[Loop] \in {"admit", "fill", "undo", "finDec"} => slot \in counted

\* There is a job to start where the goroutine is about to start one.
HasNext == \A b \in Batches : pc[b] \in {"start", "next"} => left[b] > 0

Structure == TypeOK /\ Roles /\ Mutex /\ Prepares /\ Launch /\ Counts /\ HasNext

Quiet == \A b \in Batches : ~InFlight(b)

\* Where a batch may be in flight.  Idle is possible only inside releaseWaiters,
\* between its CAS to Idle and the CAS back, and then w.mx keeps Pause away.
Flight ==
    \/ Quiet
    \/ status \in {"running", "pausing", "stopping"}
    \/ status = "idle" /\ mx # None /\ pc[mx] \in {"finRecheck", "finCasBack"}

\* Whoever is about to make a Pausing worker Paused has seen a zero count
\* under w.mx, and no batch has been admitted since.
AboutToPause ==
    /\ \A t \in Threads : pc[t] \in {"finCasIdle", "finCasPaused"} /\ status = "pausing" => Quiet
    /\ \A c \in Callers : At(c, "pauseCasPaused") => Quiet \/ status # "pausing"

\* Nothing is in flight when Start is about to store Idle and when the event
\* loop is about to store Stopped.
AboutToStore ==
    /\ At(Loop, "exit") => Quiet
    /\ \A c \in Callers : At(c, "startStore") => Quiet

\* What a Pause that holds w.mx can still meet at each of its steps.
PauseWindow ==
    \A c \in Callers :
      /\ At(c, "pauseCasIdle") => status \notin {"pausing", "paused"}
      /\ At(c, "pauseCasRunning") => status \notin {"idle", "pausing", "paused"}
      /\ At(c, "pauseErr") => status \in {"initiated", "stopping", "stopped"}

HaltInv == Flight /\ AboutToPause /\ AboutToStore

-----------------------------------------------------------------------------
\* The event loop, the batches and the callers are different threads.
LEMMA ThreadsDistinct ==
    /\ Loop \in Threads /\ Loop \notin Batches /\ Loop \notin Callers
    /\ None \notin Threads
    /\ Batches \subseteq Threads /\ Callers \subseteq Threads
    /\ \A b \in Batches : b \notin Callers /\ b # None
    /\ \A t \in Threads : t \in Batches \/ t \in Callers \/ t = Loop
BY LifecycleAssumption DEF Threads

\* A worker just made by newWorker has the structure.
LEMMA StructureInit == Init => Structure
<1> SUFFICES ASSUME Init PROVE Structure
  OBVIOUS
<1> USE ThreadsDistinct DEF Init
<1>1. TypeOK
  <2>1. signal \in BOOLEAN /\ ctxDone \in BOOLEAN /\ parentDone \in BOOLEAN /\ cont \in BOOLEAN
    BY LifecycleAssumption, Zenon
  <2>2. pc \in [Threads -> Steps]
    BY DEF Steps
  <2>3. op \in [Callers -> AllOps]
    BY DEF AllOps
  <2>4. status \in Statuses
    BY DEF Statuses
  <2>5. left \in [Batches -> Nat] /\ need \in [Callers -> Nat]
    OBVIOUS
  <2>6. mx \in Threads \cup {None} /\ slot \in Batches \cup {None}
        /\ waiters \subseteq Threads /\ armed \subseteq Threads
        /\ counted \subseteq Batches /\ busy \subseteq Batches
        /\ queue \in Nat /\ parked \in Nat /\ added \in Nat /\ done \in Nat
    OBVIOUS
  <2> QED BY <2>1, <2>2, <2>3, <2>4, <2>5, <2>6, Zenon DEF TypeOK
<1>2. Roles /\ Mutex
  BY DEF Roles, Mutex, Held, FinHeld, WaitHeld, PauseHeld, WaitSteps, FinSteps
<1>3. Prepares /\ Launch /\ Counts /\ HasNext
  BY DEF Prepares, Prepared, Launch, Counts, HasNext, At
<1> QED
  BY <1>1, <1>2, <1>3 DEF Structure

\* The actions of Next, with the threads that share a program taken together.
LEMMA NextCases ==
    [Next]_vars =>
      \/ Add \/ TakenElsewhere \/ CancelParent
      \/ LoopSignal \/ LoopRest \/ (\E b \in Batches : LoopPlan(b))
      \/ reserveCount \/ reserveAdmit
      \/ (\E n \in 1..MaxBatch : LoopFill(n)) \/ LoopFillEmpty \/ LoopUndo
      \/ LoopDone \/ LoopStopping \/ LoopStopped
      \/ \E b \in Batches :
           StartJob(b) \/ EndJob(b) \/ NextJob(b) \/ Release(b) \/ BatchNotify(b)
      \/ \E t \in Threads :
           \/ Lock(t)
           \/ FinDec(t) \/ FinLoad(t) \/ FinCasIdle(t) \/ FinRecheck(t)
           \/ FinCasBack(t) \/ FinCasPaused(t) \/ FinWake(t)
           \/ WaitStatus(t) \/ WaitPending(t) \/ WaitCur(t) \/ WaitArm(t)
           \/ WaitBlock(t) \/ WaitWake(t) \/ Recheck(t)
      \/ \E c \in Callers :
           \/ (\E m \in Ops : Call(c, m)) \/ ReturnError(c)
           \/ StartRefused(c) \/ StartLaunch(c) \/ StartStore(c)
           \/ StopLoad(c) \/ StopCas(c) \/ StopCancel(c)
           \/ PauseLoad(c) \/ PauseCasIdle(c) \/ PauseCasRunning(c)
           \/ PauseZero(c) \/ PauseCasPaused(c) \/ PauseEnd(c)
           \/ ResumeCas(c) \/ ResumeWake(c) \/ ResumeNotify(c) \/ ResumeLoad(c)
      \/ UNCHANGED vars
BY ThreadsDistinct DEF Next, LoopStep, BatchStep, CallStep, FinStep, WaitStep,
     StartStep, StopStep, PauseStep, ResumeStep

\* Each step keeps the types, the threads' programs, the mutex and the count.
LEMMA StructureNext == Structure /\ [Next]_vars => Structure'
<1> SUFFICES ASSUME Structure, [Next]_vars PROVE Structure'
  OBVIOUS
<1> USE ThreadsDistinct, LifecycleAssumption
    DEF Structure, TypeOK, Statuses, Steps, AllOps, Roles, Mutex, Prepares, Launch,
        Counts, HasNext, Held, FinHeld, FinSteps, WaitHeld, WaitSteps, PauseHeld,
        Prepared, At, Goto, Goto2, Unlock, Broadcast, Pending, Active, Halting,
        sync, world, load, jobs, calls
<1>1. CASE Add
  BY <1>1 DEF Add
<1>2. CASE TakenElsewhere
  BY <1>2 DEF TakenElsewhere
<1>3. CASE CancelParent
  BY <1>3 DEF CancelParent
<1>4. CASE LoopSignal
  <2>1. /\ At(Loop, "select") /\ Goto(Loop, "check") /\ signal' \in BOOLEAN
        /\ UNCHANGED <<status, sync, ctxDone, parentDone, load, jobs, calls>>
    BY <1>4, Zenon DEF LoopSignal
  <2>2. TypeOK' /\ Roles'
    BY <2>1
  <2>3. Mutex'
    BY <2>1
  <2>4. Prepares' /\ Launch' /\ Counts' /\ HasNext'
    BY <2>1
  <2> QED
    BY <2>2, <2>3, <2>4, Zenon DEF Structure
<1>5. CASE LoopRest
  BY <1>5 DEF LoopRest
<1>6. ASSUME NEW b \in Batches, LoopPlan(b) PROVE Structure'
  BY <1>6 DEF LoopPlan
<1>7. CASE reserveCount
  BY <1>7 DEF reserveCount
<1>8. CASE reserveAdmit
  BY <1>8 DEF reserveAdmit
<1>9. ASSUME NEW n \in 1..MaxBatch, LoopFill(n) PROVE Structure'
  BY <1>9 DEF LoopFill
<1>10. CASE LoopFillEmpty
  BY <1>10 DEF LoopFillEmpty
<1>11. CASE LoopUndo
  BY <1>11 DEF LoopUndo
<1>12. CASE LoopDone
  BY <1>12 DEF LoopDone
<1>13. CASE LoopStopping
  BY <1>13 DEF LoopStopping
<1>14. CASE LoopStopped
  BY <1>14 DEF LoopStopped
<1>15. ASSUME NEW b \in Batches, StartJob(b) PROVE Structure'
  BY <1>15 DEF StartJob
<1>16. ASSUME NEW b \in Batches, EndJob(b) PROVE Structure'
  BY <1>16 DEF EndJob
<1>17. ASSUME NEW b \in Batches, NextJob(b) PROVE Structure'
  BY <1>17 DEF NextJob
<1>18. ASSUME NEW b \in Batches, Release(b) PROVE Structure'
  BY <1>18 DEF Release
<1>19. ASSUME NEW b \in Batches, BatchNotify(b) PROVE Structure'
  BY <1>19 DEF BatchNotify
<1>20. ASSUME NEW t \in Threads, Lock(t) PROVE Structure'
  BY <1>20 DEF Lock, LockSteps, Guarded
<1>21. ASSUME NEW t \in Threads, FinDec(t) PROVE Structure'
  BY <1>21 DEF FinDec, AfterFinish
<1>22. ASSUME NEW t \in Threads, FinLoad(t) PROVE Structure'
  BY <1>22 DEF FinLoad, AfterFinish
<1>23. ASSUME NEW t \in Threads, FinCasIdle(t) PROVE Structure'
  BY <1>23 DEF FinCasIdle, CAS
<1>24. ASSUME NEW t \in Threads, FinRecheck(t) PROVE Structure'
  BY <1>24 DEF FinRecheck
<1>25. ASSUME NEW t \in Threads, FinCasBack(t) PROVE Structure'
  BY <1>25 DEF FinCasBack, CAS
<1>26. ASSUME NEW t \in Threads, FinCasPaused(t) PROVE Structure'
  BY <1>26 DEF FinCasPaused, CAS
<1>27. ASSUME NEW t \in Threads, FinWake(t) PROVE Structure'
  BY <1>27 DEF FinWake, AfterFinish
<1>28. ASSUME NEW c \in Callers, NEW m \in Ops, Call(c, m) PROVE Structure'
  BY <1>28 DEF Call, Entry
<1>29. ASSUME NEW c \in Callers, ReturnError(c) PROVE Structure'
  BY <1>29 DEF ReturnError, Return
<1>30. ASSUME NEW c \in Callers, StartRefused(c) PROVE Structure'
  BY <1>30 DEF StartRefused, Return
<1>31. ASSUME NEW c \in Callers, StartLaunch(c) PROVE Structure'
  BY <1>31 DEF StartLaunch
<1>32. ASSUME NEW c \in Callers, StartStore(c) PROVE Structure'
  BY <1>32 DEF StartStore, Return
<1>33. ASSUME NEW c \in Callers, StopLoad(c) PROVE Structure'
  BY <1>33 DEF StopLoad, StopReturn, Return
<1>34. ASSUME NEW c \in Callers, StopCas(c) PROVE Structure'
  BY <1>34 DEF StopCas, CAS
<1>35. ASSUME NEW c \in Callers, StopCancel(c) PROVE Structure'
  BY <1>35 DEF StopCancel, StopReturn, Return
<1>36. ASSUME NEW c \in Callers, PauseLoad(c) PROVE Structure'
  BY <1>36 DEF PauseLoad, Return
<1>37. ASSUME NEW c \in Callers, PauseCasIdle(c) PROVE Structure'
  BY <1>37 DEF PauseCasIdle, CAS
<1>38. ASSUME NEW c \in Callers, PauseCasRunning(c) PROVE Structure'
  BY <1>38 DEF PauseCasRunning, CAS
<1>39. ASSUME NEW c \in Callers, PauseZero(c) PROVE Structure'
  BY <1>39 DEF PauseZero
<1>40. ASSUME NEW c \in Callers, PauseCasPaused(c) PROVE Structure'
  BY <1>40 DEF PauseCasPaused, CAS
<1>41. ASSUME NEW c \in Callers, PauseEnd(c) PROVE Structure'
  BY <1>41 DEF PauseEnd, Return
<1>42. ASSUME NEW c \in Callers, ResumeCas(c) PROVE Structure'
  BY <1>42 DEF ResumeCas, CAS
<1>43. ASSUME NEW c \in Callers, ResumeWake(c) PROVE Structure'
  BY <1>43 DEF ResumeWake
<1>44. ASSUME NEW c \in Callers, ResumeNotify(c) PROVE Structure'
  BY <1>44 DEF ResumeNotify, Return
<1>45. ASSUME NEW c \in Callers, ResumeLoad(c) PROVE Structure'
  BY <1>45 DEF ResumeLoad, Return
<1>46. ASSUME NEW t \in Threads, WaitStatus(t) PROVE Structure'
  BY <1>46 DEF WaitStatus, WaitReturn, OnStatus, Return
<1>47. ASSUME NEW t \in Threads, WaitPending(t) PROVE Structure'
  BY <1>47 DEF WaitPending
<1>48. ASSUME NEW t \in Threads, WaitCur(t) PROVE Structure'
  BY <1>48 DEF WaitCur, WaitReturn, Return
<1>49. ASSUME NEW t \in Threads, WaitArm(t) PROVE Structure'
  BY <1>49 DEF WaitArm
<1>50. ASSUME NEW t \in Threads, WaitBlock(t) PROVE Structure'
  BY <1>50 DEF WaitBlock
<1>51. ASSUME NEW t \in Threads, WaitWake(t) PROVE Structure'
  BY <1>51 DEF WaitWake
<1>52. ASSUME NEW t \in Threads, Recheck(t) PROVE Structure'
  BY <1>52 DEF Recheck
<1>53. CASE UNCHANGED vars
  BY <1>53 DEF vars
<1> HIDE DEF Structure, TypeOK, Statuses, Steps, AllOps, Roles, Mutex, Prepares,
        Launch, Counts, HasNext, Held, FinHeld, FinSteps, WaitHeld, WaitSteps,
        PauseHeld, Prepared, At, Goto, Goto2, Unlock, Broadcast, Pending, Active,
        Halting, sync, world, load, jobs, calls
<1> QED
  BY NextCases, <1>1, <1>2, <1>3, <1>4, <1>5, <1>6, <1>7, <1>8, <1>9, <1>10, <1>11,
     <1>12, <1>13, <1>14, <1>15, <1>16, <1>17, <1>18, <1>19, <1>20, <1>21,
     <1>22, <1>23, <1>24, <1>25, <1>26, <1>27, <1>28, <1>29, <1>30, <1>31,
     <1>32, <1>33, <1>34, <1>35, <1>36, <1>37, <1>38, <1>39, <1>40, <1>41,
     <1>42, <1>43, <1>44, <1>45, <1>46, <1>47, <1>48, <1>49, <1>50, <1>51,
     <1>52, <1>53
\* Each step keeps jobs off a halted worker.
LEMMA HaltNext == Structure /\ HaltInv /\ [Next]_vars => HaltInv'
<1> SUFFICES ASSUME Structure, HaltInv, [Next]_vars PROVE HaltInv'
  OBVIOUS
<1> Structure'
  BY StructureNext
<1>a. pc \in [Threads -> Steps] /\ mx \in Threads \cup {None}
      /\ Roles /\ Mutex /\ Prepares /\ Launch /\ Counts
  BY DEF Structure, TypeOK
<1>b. (Roles /\ Mutex /\ Prepares /\ Launch /\ Counts)'
  BY DEF Structure
<1> USE <1>a, <1>b, ThreadsDistinct
    DEF HaltInv, Quiet, Flight, AboutToPause, AboutToStore, InFlight, Roles,
        Mutex, Prepares, Launch, Counts, Held, FinHeld, FinSteps, WaitHeld,
        WaitSteps, PauseHeld, Prepared, At, Goto, Goto2, Unlock, Broadcast,
        Active, sync, world, load, jobs, calls
<1>1. CASE Add
  BY <1>1 DEF Add
<1>2. CASE TakenElsewhere
  BY <1>2 DEF TakenElsewhere
<1>3. CASE CancelParent
  BY <1>3 DEF CancelParent
<1>4. CASE LoopSignal
  <2>1. /\ At(Loop, "select") /\ Goto(Loop, "check")
        /\ UNCHANGED <<status, sync, load>>
    BY <1>4, Zenon DEF LoopSignal
  <2> QED
    BY <2>1
<1>5. CASE LoopRest
  BY <1>5 DEF LoopRest
<1>6. ASSUME NEW b \in Batches, LoopPlan(b) PROVE HaltInv'
  <2>1. Quiet => Quiet'
    BY <1>6 DEF LoopPlan
  <2>2. Flight'
    BY <1>6, <2>1 DEF LoopPlan
  <2>3. AboutToPause'
    BY <1>6, <2>1 DEF LoopPlan
  <2>4. AboutToStore'
    BY <1>6, <2>1 DEF LoopPlan
  <2> QED
    BY <2>2, <2>3, <2>4
<1>7. CASE reserveCount
  BY <1>7 DEF reserveCount
<1>8. CASE reserveAdmit
  BY <1>8 DEF reserveAdmit
<1>9. ASSUME NEW n \in 1..MaxBatch, LoopFill(n) PROVE HaltInv'
  <2>1. Quiet => Quiet'
    BY <1>9 DEF LoopFill
  <2>2. Flight'
    BY <1>9, <2>1 DEF LoopFill
  <2>3. AboutToPause'
    BY <1>9, <2>1 DEF LoopFill
  <2>4. AboutToStore'
    BY <1>9, <2>1 DEF LoopFill
  <2> QED
    BY <2>2, <2>3, <2>4
<1>10. CASE LoopFillEmpty
  BY <1>10 DEF LoopFillEmpty
<1>11. CASE LoopUndo
  BY <1>11 DEF LoopUndo
<1>12. CASE LoopDone
  BY <1>12 DEF LoopDone
<1>13. CASE LoopStopping
  BY <1>13 DEF LoopStopping
<1>14. CASE LoopStopped
  BY <1>14 DEF LoopStopped
<1>15. ASSUME NEW b \in Batches, StartJob(b) PROVE HaltInv'
  BY <1>15 DEF StartJob
<1>16. ASSUME NEW b \in Batches, EndJob(b) PROVE HaltInv'
  BY <1>16 DEF EndJob
<1>17. ASSUME NEW b \in Batches, NextJob(b) PROVE HaltInv'
  <2>1. Quiet => Quiet'
    BY <1>17 DEF NextJob, Halting
  <2>2. Flight'
    BY <1>17, <2>1 DEF NextJob, Halting
  <2>3. AboutToPause'
    BY <1>17, <2>1 DEF NextJob, Halting
  <2>4. AboutToStore'
    BY <1>17, <2>1 DEF NextJob, Halting
  <2> QED
    BY <2>2, <2>3, <2>4
<1>18. ASSUME NEW b \in Batches, Release(b) PROVE HaltInv'
  BY <1>18 DEF Release
<1>19. ASSUME NEW b \in Batches, BatchNotify(b) PROVE HaltInv'
  BY <1>19 DEF BatchNotify
<1>20. ASSUME NEW t \in Threads, Lock(t) PROVE HaltInv'
  BY <1>20 DEF Lock, LockSteps, Guarded
<1>21. ASSUME NEW t \in Threads, FinDec(t) PROVE HaltInv'
  <2>1. Quiet => Quiet'
    BY <1>21 DEF FinDec, AfterFinish
  <2>2. Flight'
    BY <1>21, <2>1 DEF FinDec, AfterFinish
  <2>3. AboutToPause'
    BY <1>21, <2>1 DEF FinDec, AfterFinish
  <2>4. AboutToStore'
    BY <1>21, <2>1 DEF FinDec, AfterFinish
  <2> QED
    BY <2>2, <2>3, <2>4
<1>22. ASSUME NEW t \in Threads, FinLoad(t) PROVE HaltInv'
  BY <1>22 DEF FinLoad, AfterFinish
<1>23. ASSUME NEW t \in Threads, FinCasIdle(t) PROVE HaltInv'
  BY <1>23 DEF FinCasIdle, CAS
<1>24. ASSUME NEW t \in Threads, FinRecheck(t) PROVE HaltInv'
  BY <1>24 DEF FinRecheck
<1>25. ASSUME NEW t \in Threads, FinCasBack(t) PROVE HaltInv'
  BY <1>25 DEF FinCasBack, CAS
<1>26. ASSUME NEW t \in Threads, FinCasPaused(t) PROVE HaltInv'
  BY <1>26 DEF FinCasPaused, CAS
<1>27. ASSUME NEW t \in Threads, FinWake(t) PROVE HaltInv'
  BY <1>27 DEF FinWake, AfterFinish
<1>28. ASSUME NEW c \in Callers, NEW m \in Ops, Call(c, m) PROVE HaltInv'
  BY <1>28 DEF Call, Entry
<1>29. ASSUME NEW c \in Callers, ReturnError(c) PROVE HaltInv'
  BY <1>29 DEF ReturnError, Return
<1>30. ASSUME NEW c \in Callers, StartRefused(c) PROVE HaltInv'
  BY <1>30 DEF StartRefused, Return
<1>31. ASSUME NEW c \in Callers, StartLaunch(c) PROVE HaltInv'
  BY <1>31 DEF StartLaunch
<1>32. ASSUME NEW c \in Callers, StartStore(c) PROVE HaltInv'
  BY <1>32 DEF StartStore, Return
<1>33. ASSUME NEW c \in Callers, StopLoad(c) PROVE HaltInv'
  <2>1. Quiet => Quiet'
    BY <1>33 DEF StopLoad, StopReturn, Return
  <2>2. Flight'
    BY <1>33, <2>1 DEF StopLoad, StopReturn, Return
  <2>3. AboutToPause'
    BY <1>33, <2>1 DEF StopLoad, StopReturn, Return
  <2>4. AboutToStore'
    BY <1>33, <2>1 DEF StopLoad, StopReturn, Return
  <2> QED
    BY <2>2, <2>3, <2>4
<1>34. ASSUME NEW c \in Callers, StopCas(c) PROVE HaltInv'
  <2>1. /\ status' \in {status, "stopping"} /\ UNCHANGED <<mx, slot>>
        /\ \E s \in {"stopCancel", "stopIdle", "stopPausing", "stopPaused", "stopErr"} :
             Goto(c, s)
    BY <1>34 DEF StopCas, CAS
  <2>2. pc[c] \in {"stopRunning", "stopIdle", "stopPausing", "stopPaused"}
    BY <1>34 DEF StopCas, CAS
  <2>3. Quiet => Quiet'
    BY <2>1, <2>2
  <2> QED
    BY <2>1, <2>2, <2>3
<1>35. ASSUME NEW c \in Callers, StopCancel(c) PROVE HaltInv'
  BY <1>35 DEF StopCancel, StopReturn, Return
<1>36. ASSUME NEW c \in Callers, PauseLoad(c) PROVE HaltInv'
  BY <1>36 DEF PauseLoad, Return
<1>37. ASSUME NEW c \in Callers, PauseCasIdle(c) PROVE HaltInv'
  BY <1>37 DEF PauseCasIdle, CAS
<1>38. ASSUME NEW c \in Callers, PauseCasRunning(c) PROVE HaltInv'
  BY <1>38 DEF PauseCasRunning, CAS
<1>39. ASSUME NEW c \in Callers, PauseZero(c) PROVE HaltInv'
  BY <1>39 DEF PauseZero
<1>40. ASSUME NEW c \in Callers, PauseCasPaused(c) PROVE HaltInv'
  BY <1>40 DEF PauseCasPaused, CAS
<1>41. ASSUME NEW c \in Callers, PauseEnd(c) PROVE HaltInv'
  BY <1>41 DEF PauseEnd, Return
<1>42. ASSUME NEW c \in Callers, ResumeCas(c) PROVE HaltInv'
  <2>1. Quiet => Quiet'
    BY <1>42 DEF ResumeCas, CAS
  <2>2. Flight'
    BY <1>42, <2>1 DEF ResumeCas, CAS
  <2>3. AboutToPause'
    BY <1>42, <2>1 DEF ResumeCas, CAS
  <2>4. AboutToStore'
    BY <1>42, <2>1 DEF ResumeCas, CAS
  <2> QED
    BY <2>2, <2>3, <2>4
<1>43. ASSUME NEW c \in Callers, ResumeWake(c) PROVE HaltInv'
  BY <1>43 DEF ResumeWake
<1>44. ASSUME NEW c \in Callers, ResumeNotify(c) PROVE HaltInv'
  BY <1>44 DEF ResumeNotify, Return
<1>45. ASSUME NEW c \in Callers, ResumeLoad(c) PROVE HaltInv'
  <2>1. Quiet => Quiet'
    BY <1>45 DEF ResumeLoad, Return
  <2>2. Flight'
    BY <1>45, <2>1 DEF ResumeLoad, Return
  <2>3. AboutToPause'
    BY <1>45, <2>1 DEF ResumeLoad, Return
  <2>4. AboutToStore'
    BY <1>45, <2>1 DEF ResumeLoad, Return
  <2> QED
    BY <2>2, <2>3, <2>4
<1>46. ASSUME NEW t \in Threads, WaitStatus(t) PROVE HaltInv'
  <2>1. Quiet => Quiet'
    BY <1>46 DEF WaitStatus, WaitReturn, OnStatus, Return
  <2>2. Flight'
    BY <1>46, <2>1 DEF WaitStatus, WaitReturn, OnStatus, Return
  <2>3. AboutToPause'
    BY <1>46, <2>1 DEF WaitStatus, WaitReturn, OnStatus, Return
  <2>4. status \notin Active \cup Halting /\ t = Loop => Quiet
    BY DEF Halting
  <2>5. AboutToStore'
    BY <1>46, <2>1, <2>4 DEF WaitStatus, WaitReturn, OnStatus, Return, Halting, WaitOp
  <2> QED
    BY <2>2, <2>3, <2>5
<1>47. ASSUME NEW t \in Threads, WaitPending(t) PROVE HaltInv'
  BY <1>47 DEF WaitPending
<1>48. ASSUME NEW t \in Threads, WaitCur(t) PROVE HaltInv'
  BY <1>48 DEF WaitCur, WaitReturn, Return
<1>49. ASSUME NEW t \in Threads, WaitArm(t) PROVE HaltInv'
  BY <1>49 DEF WaitArm
<1>50. ASSUME NEW t \in Threads, WaitBlock(t) PROVE HaltInv'
  BY <1>50 DEF WaitBlock
<1>51. ASSUME NEW t \in Threads, WaitWake(t) PROVE HaltInv'
  BY <1>51 DEF WaitWake
<1>52. ASSUME NEW t \in Threads, Recheck(t) PROVE HaltInv'
  BY <1>52 DEF Recheck
<1>53. CASE UNCHANGED vars
  BY <1>53 DEF vars
<1> HIDE DEF HaltInv, Quiet, Flight, AboutToPause, AboutToStore, InFlight,
        Roles, Mutex, Prepares, Launch, Counts, Held, FinHeld, FinSteps,
        WaitHeld, WaitSteps, PauseHeld, Prepared, At, Goto, Goto2, Unlock,
        Broadcast, Active, sync, world, load, jobs, calls
<1> QED
    BY NextCases, <1>1, <1>2, <1>3, <1>4, <1>5, <1>6, <1>7, <1>8, <1>9,
     <1>10, <1>11, <1>12, <1>13, <1>14, <1>15, <1>16, <1>17, <1>18, <1>19,
     <1>20, <1>21, <1>22, <1>23, <1>24, <1>25, <1>26, <1>27, <1>28, <1>29,
     <1>30, <1>31, <1>32, <1>33, <1>34, <1>35, <1>36, <1>37, <1>38, <1>39,
     <1>40, <1>41, <1>42, <1>43, <1>44, <1>45, <1>46, <1>47, <1>48, <1>49,
     <1>50, <1>51, <1>52, <1>53

\* Each step keeps a Pause that holds w.mx within its window.
LEMMA PauseWindowNext == Structure /\ PauseWindow /\ [Next]_vars => PauseWindow'
<1> SUFFICES ASSUME Structure, PauseWindow, [Next]_vars PROVE PauseWindow'
  OBVIOUS
<1>a. pc \in [Threads -> Steps] /\ mx \in Threads \cup {None} /\ status \in Statuses
      /\ Roles /\ Mutex /\ Launch
  BY DEF Structure, TypeOK
<1> USE <1>a, ThreadsDistinct
    DEF PauseWindow, Roles, Mutex, Launch, Held, FinHeld, FinSteps,
        WaitHeld, WaitSteps, PauseHeld, Prepared, At, Goto, Goto2, Unlock,
        Broadcast, Active, sync, world, load, jobs, calls
<1>1. CASE Add
  BY <1>1 DEF Add
<1>2. CASE TakenElsewhere
  BY <1>2 DEF TakenElsewhere
<1>3. CASE CancelParent
  BY <1>3 DEF CancelParent
<1>4. CASE LoopSignal
  <2>1. /\ At(Loop, "select") /\ Goto(Loop, "check")
        /\ UNCHANGED <<status, sync, load>>
    BY <1>4, Zenon DEF LoopSignal
  <2> QED
    BY <2>1
<1>5. CASE LoopRest
  BY <1>5 DEF LoopRest
<1>6. ASSUME NEW b \in Batches, LoopPlan(b) PROVE PauseWindow'
  BY <1>6 DEF LoopPlan
<1>7. CASE reserveCount
  BY <1>7 DEF reserveCount
<1>8. CASE reserveAdmit
  BY <1>8 DEF reserveAdmit
<1>9. ASSUME NEW n \in 1..MaxBatch, LoopFill(n) PROVE PauseWindow'
  BY <1>9 DEF LoopFill
<1>10. CASE LoopFillEmpty
  BY <1>10 DEF LoopFillEmpty
<1>11. CASE LoopUndo
  BY <1>11 DEF LoopUndo
<1>12. CASE LoopDone
  BY <1>12 DEF LoopDone
<1>13. CASE LoopStopping
  BY <1>13 DEF LoopStopping
<1>14. CASE LoopStopped
  BY <1>14 DEF LoopStopped
<1>15. ASSUME NEW b \in Batches, StartJob(b) PROVE PauseWindow'
  BY <1>15 DEF StartJob
<1>16. ASSUME NEW b \in Batches, EndJob(b) PROVE PauseWindow'
  BY <1>16 DEF EndJob
<1>17. ASSUME NEW b \in Batches, NextJob(b) PROVE PauseWindow'
  BY <1>17 DEF NextJob
<1>18. ASSUME NEW b \in Batches, Release(b) PROVE PauseWindow'
  BY <1>18 DEF Release
<1>19. ASSUME NEW b \in Batches, BatchNotify(b) PROVE PauseWindow'
  BY <1>19 DEF BatchNotify
<1>20. ASSUME NEW t \in Threads, Lock(t) PROVE PauseWindow'
  BY <1>20 DEF Lock, LockSteps, Guarded
<1>21. ASSUME NEW t \in Threads, FinDec(t) PROVE PauseWindow'
  BY <1>21 DEF FinDec, AfterFinish
<1>22. ASSUME NEW t \in Threads, FinLoad(t) PROVE PauseWindow'
  BY <1>22 DEF FinLoad, AfterFinish
<1>23. ASSUME NEW t \in Threads, FinCasIdle(t) PROVE PauseWindow'
  BY <1>23 DEF FinCasIdle, CAS
<1>24. ASSUME NEW t \in Threads, FinRecheck(t) PROVE PauseWindow'
  BY <1>24 DEF FinRecheck
<1>25. ASSUME NEW t \in Threads, FinCasBack(t) PROVE PauseWindow'
  BY <1>25 DEF FinCasBack, CAS
<1>26. ASSUME NEW t \in Threads, FinCasPaused(t) PROVE PauseWindow'
  BY <1>26 DEF FinCasPaused, CAS
<1>27. ASSUME NEW t \in Threads, FinWake(t) PROVE PauseWindow'
  BY <1>27 DEF FinWake, AfterFinish
<1>28. ASSUME NEW c \in Callers, NEW m \in Ops, Call(c, m) PROVE PauseWindow'
  BY <1>28 DEF Call, Entry
<1>29. ASSUME NEW c \in Callers, ReturnError(c) PROVE PauseWindow'
  BY <1>29 DEF ReturnError, Return
<1>30. ASSUME NEW c \in Callers, StartRefused(c) PROVE PauseWindow'
  BY <1>30 DEF StartRefused, Return
<1>31. ASSUME NEW c \in Callers, StartLaunch(c) PROVE PauseWindow'
  BY <1>31 DEF StartLaunch
<1>32. ASSUME NEW c \in Callers, StartStore(c) PROVE PauseWindow'
  BY <1>32 DEF StartStore, Return
<1>33. ASSUME NEW c \in Callers, StopLoad(c) PROVE PauseWindow'
  BY <1>33 DEF StopLoad, StopReturn, Return
<1>34. ASSUME NEW c \in Callers, StopCas(c) PROVE PauseWindow'
  BY <1>34 DEF StopCas, CAS
<1>35. ASSUME NEW c \in Callers, StopCancel(c) PROVE PauseWindow'
  BY <1>35 DEF StopCancel, StopReturn, Return
<1>36. ASSUME NEW c \in Callers, PauseLoad(c) PROVE PauseWindow'
  BY <1>36 DEF PauseLoad, Return
<1>37. ASSUME NEW c \in Callers, PauseCasIdle(c) PROVE PauseWindow'
  BY <1>37 DEF PauseCasIdle, CAS
<1>38. ASSUME NEW c \in Callers, PauseCasRunning(c) PROVE PauseWindow'
  BY <1>38 DEF PauseCasRunning, CAS, Statuses
<1>39. ASSUME NEW c \in Callers, PauseZero(c) PROVE PauseWindow'
  BY <1>39 DEF PauseZero
<1>40. ASSUME NEW c \in Callers, PauseCasPaused(c) PROVE PauseWindow'
  BY <1>40 DEF PauseCasPaused, CAS
<1>41. ASSUME NEW c \in Callers, PauseEnd(c) PROVE PauseWindow'
  BY <1>41 DEF PauseEnd, Return
<1>42. ASSUME NEW c \in Callers, ResumeCas(c) PROVE PauseWindow'
  BY <1>42 DEF ResumeCas, CAS
<1>43. ASSUME NEW c \in Callers, ResumeWake(c) PROVE PauseWindow'
  BY <1>43 DEF ResumeWake
<1>44. ASSUME NEW c \in Callers, ResumeNotify(c) PROVE PauseWindow'
  BY <1>44 DEF ResumeNotify, Return
<1>45. ASSUME NEW c \in Callers, ResumeLoad(c) PROVE PauseWindow'
  BY <1>45 DEF ResumeLoad, Return
<1>46. ASSUME NEW t \in Threads, WaitStatus(t) PROVE PauseWindow'
  BY <1>46 DEF WaitStatus, WaitReturn, OnStatus, Return
<1>47. ASSUME NEW t \in Threads, WaitPending(t) PROVE PauseWindow'
  BY <1>47 DEF WaitPending
<1>48. ASSUME NEW t \in Threads, WaitCur(t) PROVE PauseWindow'
  BY <1>48 DEF WaitCur, WaitReturn, Return
<1>49. ASSUME NEW t \in Threads, WaitArm(t) PROVE PauseWindow'
  BY <1>49 DEF WaitArm
<1>50. ASSUME NEW t \in Threads, WaitBlock(t) PROVE PauseWindow'
  BY <1>50 DEF WaitBlock
<1>51. ASSUME NEW t \in Threads, WaitWake(t) PROVE PauseWindow'
  BY <1>51 DEF WaitWake
<1>52. ASSUME NEW t \in Threads, Recheck(t) PROVE PauseWindow'
  BY <1>52 DEF Recheck
<1>53. CASE UNCHANGED vars
  BY <1>53 DEF vars
<1> HIDE DEF PauseWindow, Roles, Mutex, Launch, Held, FinHeld, FinSteps,
        WaitHeld, WaitSteps, PauseHeld, Prepared, At, Goto, Goto2, Unlock,
        Broadcast, Active, sync, world, load, jobs, calls
<1> QED
    BY NextCases, <1>1, <1>2, <1>3, <1>4, <1>5, <1>6, <1>7, <1>8, <1>9,
     <1>10, <1>11, <1>12, <1>13, <1>14, <1>15, <1>16, <1>17, <1>18, <1>19,
     <1>20, <1>21, <1>22, <1>23, <1>24, <1>25, <1>26, <1>27, <1>28, <1>29,
     <1>30, <1>31, <1>32, <1>33, <1>34, <1>35, <1>36, <1>37, <1>38, <1>39,
     <1>40, <1>41, <1>42, <1>43, <1>44, <1>45, <1>46, <1>47, <1>48, <1>49,
     <1>50, <1>51, <1>52, <1>53

\* Each step leaves a Pausing worker somebody who completes the pause.
LEMMA FinisherNext == Structure /\ PausingHasFinisher /\ [Next]_vars => PausingHasFinisher'
<1> SUFFICES ASSUME Structure, PausingHasFinisher, [Next]_vars PROVE PausingHasFinisher'
  OBVIOUS
<1>a. pc \in [Threads -> Steps] /\ slot \in Batches \cup {None}
      /\ Roles /\ Prepares
  BY DEF Structure, TypeOK
<1> USE <1>a, ThreadsDistinct
    DEF PausingHasFinisher, Roles, Prepares, Held, FinHeld, FinSteps,
        WaitHeld, WaitSteps, PauseHeld, Prepared, At, Goto, Goto2, Unlock,
        Broadcast, Active, sync, world, load, jobs, calls
<1>1. CASE Add
  BY <1>1 DEF Add
<1>2. CASE TakenElsewhere
  BY <1>2 DEF TakenElsewhere
<1>3. CASE CancelParent
  BY <1>3 DEF CancelParent
<1>4. CASE LoopSignal
  <2>1. /\ At(Loop, "select") /\ Goto(Loop, "check")
        /\ UNCHANGED <<status, sync, load>>
    BY <1>4, Zenon DEF LoopSignal
  <2> QED
    BY <2>1
<1>5. CASE LoopRest
  BY <1>5 DEF LoopRest
<1>6. ASSUME NEW b \in Batches, LoopPlan(b) PROVE PausingHasFinisher'
  BY <1>6 DEF LoopPlan
<1>7. CASE reserveCount
  BY <1>7 DEF reserveCount
<1>8. CASE reserveAdmit
  BY <1>8 DEF reserveAdmit
<1>9. ASSUME NEW n \in 1..MaxBatch, LoopFill(n) PROVE PausingHasFinisher'
  <2>1. slot \in Batches /\ At(slot, "taken") /\ At(Loop, "fill")
    BY <1>9 DEF LoopFill
  <2>2. pc' = [pc EXCEPT ![Loop] = "check", ![slot] = "start"] /\ UNCHANGED <<status, counted>>
    BY <1>9 DEF LoopFill
  <2> QED
    BY <2>1, <2>2
<1>10. CASE LoopFillEmpty
  BY <1>10 DEF LoopFillEmpty
<1>11. CASE LoopUndo
  BY <1>11 DEF LoopUndo
<1>12. CASE LoopDone
  BY <1>12 DEF LoopDone
<1>13. CASE LoopStopping
  BY <1>13 DEF LoopStopping
<1>14. CASE LoopStopped
  BY <1>14 DEF LoopStopped
<1>15. ASSUME NEW b \in Batches, StartJob(b) PROVE PausingHasFinisher'
  BY <1>15 DEF StartJob
<1>16. ASSUME NEW b \in Batches, EndJob(b) PROVE PausingHasFinisher'
  BY <1>16 DEF EndJob
<1>17. ASSUME NEW b \in Batches, NextJob(b) PROVE PausingHasFinisher'
  BY <1>17 DEF NextJob
<1>18. ASSUME NEW b \in Batches, Release(b) PROVE PausingHasFinisher'
  BY <1>18 DEF Release
<1>19. ASSUME NEW b \in Batches, BatchNotify(b) PROVE PausingHasFinisher'
  BY <1>19 DEF BatchNotify
<1>20. ASSUME NEW t \in Threads, Lock(t) PROVE PausingHasFinisher'
  BY <1>20 DEF Lock, LockSteps, Guarded
<1>21. ASSUME NEW t \in Threads, FinDec(t) PROVE PausingHasFinisher'
  BY <1>21 DEF FinDec, AfterFinish
<1>22. ASSUME NEW t \in Threads, FinLoad(t) PROVE PausingHasFinisher'
  BY <1>22 DEF FinLoad, AfterFinish
<1>23. ASSUME NEW t \in Threads, FinCasIdle(t) PROVE PausingHasFinisher'
  BY <1>23 DEF FinCasIdle, CAS
<1>24. ASSUME NEW t \in Threads, FinRecheck(t) PROVE PausingHasFinisher'
  BY <1>24 DEF FinRecheck
<1>25. ASSUME NEW t \in Threads, FinCasBack(t) PROVE PausingHasFinisher'
  BY <1>25 DEF FinCasBack, CAS
<1>26. ASSUME NEW t \in Threads, FinCasPaused(t) PROVE PausingHasFinisher'
  BY <1>26 DEF FinCasPaused, CAS
<1>27. ASSUME NEW t \in Threads, FinWake(t) PROVE PausingHasFinisher'
  BY <1>27 DEF FinWake, AfterFinish
<1>28. ASSUME NEW c \in Callers, NEW m \in Ops, Call(c, m) PROVE PausingHasFinisher'
  BY <1>28 DEF Call, Entry
<1>29. ASSUME NEW c \in Callers, ReturnError(c) PROVE PausingHasFinisher'
  BY <1>29 DEF ReturnError, Return
<1>30. ASSUME NEW c \in Callers, StartRefused(c) PROVE PausingHasFinisher'
  BY <1>30 DEF StartRefused, Return
<1>31. ASSUME NEW c \in Callers, StartLaunch(c) PROVE PausingHasFinisher'
  BY <1>31 DEF StartLaunch
<1>32. ASSUME NEW c \in Callers, StartStore(c) PROVE PausingHasFinisher'
  BY <1>32 DEF StartStore, Return
<1>33. ASSUME NEW c \in Callers, StopLoad(c) PROVE PausingHasFinisher'
  BY <1>33 DEF StopLoad, StopReturn, Return
<1>34. ASSUME NEW c \in Callers, StopCas(c) PROVE PausingHasFinisher'
  BY <1>34 DEF StopCas, CAS
<1>35. ASSUME NEW c \in Callers, StopCancel(c) PROVE PausingHasFinisher'
  BY <1>35 DEF StopCancel, StopReturn, Return
<1>36. ASSUME NEW c \in Callers, PauseLoad(c) PROVE PausingHasFinisher'
  BY <1>36 DEF PauseLoad, Return
<1>37. ASSUME NEW c \in Callers, PauseCasIdle(c) PROVE PausingHasFinisher'
  BY <1>37 DEF PauseCasIdle, CAS
<1>38. ASSUME NEW c \in Callers, PauseCasRunning(c) PROVE PausingHasFinisher'
  BY <1>38 DEF PauseCasRunning, CAS
<1>39. ASSUME NEW c \in Callers, PauseZero(c) PROVE PausingHasFinisher'
  BY <1>39 DEF PauseZero
<1>40. ASSUME NEW c \in Callers, PauseCasPaused(c) PROVE PausingHasFinisher'
  BY <1>40 DEF PauseCasPaused, CAS
<1>41. ASSUME NEW c \in Callers, PauseEnd(c) PROVE PausingHasFinisher'
  BY <1>41 DEF PauseEnd, Return
<1>42. ASSUME NEW c \in Callers, ResumeCas(c) PROVE PausingHasFinisher'
  BY <1>42 DEF ResumeCas, CAS
<1>43. ASSUME NEW c \in Callers, ResumeWake(c) PROVE PausingHasFinisher'
  BY <1>43 DEF ResumeWake
<1>44. ASSUME NEW c \in Callers, ResumeNotify(c) PROVE PausingHasFinisher'
  BY <1>44 DEF ResumeNotify, Return
<1>45. ASSUME NEW c \in Callers, ResumeLoad(c) PROVE PausingHasFinisher'
  BY <1>45 DEF ResumeLoad, Return
<1>46. ASSUME NEW t \in Threads, WaitStatus(t) PROVE PausingHasFinisher'
  BY <1>46 DEF WaitStatus, WaitReturn, OnStatus, Return
<1>47. ASSUME NEW t \in Threads, WaitPending(t) PROVE PausingHasFinisher'
  BY <1>47 DEF WaitPending
<1>48. ASSUME NEW t \in Threads, WaitCur(t) PROVE PausingHasFinisher'
  BY <1>48 DEF WaitCur, WaitReturn, Return
<1>49. ASSUME NEW t \in Threads, WaitArm(t) PROVE PausingHasFinisher'
  BY <1>49 DEF WaitArm
<1>50. ASSUME NEW t \in Threads, WaitBlock(t) PROVE PausingHasFinisher'
  BY <1>50 DEF WaitBlock
<1>51. ASSUME NEW t \in Threads, WaitWake(t) PROVE PausingHasFinisher'
  BY <1>51 DEF WaitWake
<1>52. ASSUME NEW t \in Threads, Recheck(t) PROVE PausingHasFinisher'
  BY <1>52 DEF Recheck
<1>53. CASE UNCHANGED vars
  BY <1>53 DEF vars
<1> HIDE DEF PausingHasFinisher, Roles, Prepares, Held, FinHeld, FinSteps,
        WaitHeld, WaitSteps, PauseHeld, Prepared, At, Goto, Goto2, Unlock,
        Broadcast, Active, sync, world, load, jobs, calls
<1> QED
    BY NextCases, <1>1, <1>2, <1>3, <1>4, <1>5, <1>6, <1>7, <1>8, <1>9,
     <1>10, <1>11, <1>12, <1>13, <1>14, <1>15, <1>16, <1>17, <1>18, <1>19,
     <1>20, <1>21, <1>22, <1>23, <1>24, <1>25, <1>26, <1>27, <1>28, <1>29,
     <1>30, <1>31, <1>32, <1>33, <1>34, <1>35, <1>36, <1>37, <1>38, <1>39,
     <1>40, <1>41, <1>42, <1>43, <1>44, <1>45, <1>46, <1>47, <1>48, <1>49,
     <1>50, <1>51, <1>52, <1>53

-----------------------------------------------------------------------------
\* The worker's state keeps its types under any interleaving of the loop, the
\* pool goroutines and the callers: in particular the batch the loop prepares
\* and the job counts are always defined where the code uses them.
THEOREM LifecycleTypeCorrect == Spec => []TypeOK
<1>1. Structure => TypeOK
  BY DEF Structure
<1> QED
  BY <1>1, StructureInit, StructureNext, PTL DEF Spec

\* reserve's promise: no job is in flight on a Paused or Stopped worker.
THEOREM LifecycleNothingRunsWhenHalted == Spec => []NothingRunsWhenHalted
<1>1. Init => HaltInv
  BY ThreadsDistinct DEF Init, HaltInv, Quiet, Flight, AboutToPause, AboutToStore,
     InFlight, At
<1>2. HaltInv => NothingRunsWhenHalted
  BY DEF HaltInv, Quiet, Flight, NothingRunsWhenHalted
<1> QED
  BY <1>1, <1>2, StructureInit, StructureNext, HaltNext, PTL DEF Spec

\* Pause and releaseWaiters together: a pause is never left without somebody
\* who will complete it.
THEOREM LifecyclePausingHasFinisher == Spec => []PausingHasFinisher
<1>1. Init => PausingHasFinisher
  BY DEF Init, PausingHasFinisher
<1> QED
  BY <1>1, StructureInit, StructureNext, FinisherNext, PTL DEF Spec

\* Pause returns an error only from the statuses its documentation lists.
THEOREM LifecyclePauseErrorsDocumented == Spec => []PauseErrorsDocumented
<1>1. Init => PauseWindow
  BY ThreadsDistinct DEF Init, PauseWindow, At
<1>2. PauseWindow => PauseErrorsDocumented
  BY DEF PauseWindow, PauseErrorsDocumented
<1> QED
  BY <1>1, <1>2, StructureInit, StructureNext, PauseWindowNext, PTL DEF Spec
=============================================================================
