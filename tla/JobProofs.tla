----------------------------- MODULE JobProofs -----------------------------
(***************************************************************************)
(* Proofs about Job, for any number of users, storages and refusals.       *)
(***************************************************************************)
EXTENDS Job, TLAPS

(***************************************************************************)
(* The inductive invariant.  ReleasedExactlyOnce is not inductive alone:   *)
(* Finish is a plain store and would reopen a closed job unless the status *)
(* follows the worker's position.                                          *)
(***************************************************************************)
\* The winner of claimClose has closed the job.
DoneIsClosed == \A a \in Agents : At(a, "done") => status = "closed"

\* The status is processing exactly while the worker is inside a run, and a
\* job the worker has not started yet has not finished.
WorkerPosition ==
    /\ status = "processing" <=> pc[Worker] \in {"run", "storeReason", "finish"}
    /\ pc[Worker] \in {"take", "checkNext", "setAck", "checkFill", "serve"}
         => status # "finished"

\* Only a job of acknowledging storage has an ack, only closers hold one.
AckPosition ==
    /\ ackRef = "mem" <=> storage = "mem"
    /\ At(Worker, "storeReason") => storage # "mem"
    /\ \A a \in Agents :
         /\ pc[a] \in {"closeable", "swap", "report", "restore"} => storage # "mem"
         /\ pc[a] \in {"report", "restore"} <=> acknowledgeable(hand[a])
         /\ hand[a] # "mem"

\* AckNeverLost, from the moment the dispatcher lets the job through.
AckKept ==
    /\ AckNeverLost
    /\ storage = "ack" /\ At(Worker, "checkFill") /\ status # "closed"
         => \/ acknowledgeable(ackRef)
            \/ \E a \in Agents : acknowledgeable(hand[a])
            \/ acked + rejected > 0
    /\ At(Worker, "setAck") \/ At(Worker, "checkNext") => storage = "ack"

CloseInv ==
    /\ TypeOK
    /\ ReleasedExactlyOnce
    /\ DoneIsClosed
    /\ WorkerPosition

\* Before the worker sets the ack there is none, before a failing run has
\* stored its reason there is no rejection, and a run that cannot fail makes none.
NotYet ==
    /\ pc[Worker] \in {"take", "checkNext", "setAck"} =>
         /\ ~acknowledgeable(ackRef)
         /\ \A a \in Agents : ~acknowledgeable(hand[a])
         /\ acked = 0 /\ rejected = 0
    /\ \/ pc[Worker] \in {"take", "checkNext", "setAck", "checkFill", "serve", "run", "storeReason"}
       \/ "fail" \notin Outcomes
       => ackRef # "rej" /\ (\A a \in Agents : hand[a] # "rej") /\ rejected = 0
    /\ At(Worker, "storeReason") => "fail" \in Outcomes

\* There is at most one ack and at most one rejection: in the job, in one hand,
\* or reported.
OneOfEach ==
    /\ NotYet
    /\ ackRef = "ack" => (\A a \in Agents : hand[a] # "ack") /\ acked = 0
    /\ ackRef = "rej" => (\A a \in Agents : hand[a] # "rej") /\ rejected = 0
    /\ \A a \in Agents :
         /\ hand[a] = "ack" => acked = 0 /\ \A b \in Agents : hand[b] = "ack" => a = b
         /\ hand[a] = "rej" => rejected = 0 /\ \A b \in Agents : hand[b] = "rej" => a = b
    /\ ReportsNotRepeated

-----------------------------------------------------------------------------
\* The producer, the worker and the purger are three agents, none of them a user.
LEMMA RolesDistinct ==
    /\ Producer \in Agents /\ Worker \in Agents /\ Purger \in Agents
    /\ Producer # Worker /\ Producer # Purger /\ Worker # Purger
    /\ Producer \notin Users /\ Worker \notin Users /\ Purger \notin Users
    /\ Users \subseteq Agents
BY RolesAssumption DEF Agents, Producer, Worker, Purger

\* A new job, about to be enqueued, satisfies the invariant about Close.
LEMMA CloseInvInit == Init => CloseInv
<1> SUFFICES ASSUME Init PROVE CloseInv
  OBVIOUS
<1>1. TypeOK
  BY RolesDistinct, RolesAssumption
     DEF Init, TypeOK, Statuses, Refs, Steps, Producer, Worker, Purger
<1>2. pc[Worker] = "take" /\ \A a \in Agents : ~At(a, "done")
  BY RolesDistinct DEF Init, At, Producer, Worker, Purger
<1>3. ReleasedExactlyOnce /\ DoneIsClosed /\ WorkerPosition
  BY <1>2 DEF Init, ReleasedExactlyOnce, DoneIsClosed, WorkerPosition
<1> QED
  BY <1>1, <1>3 DEF CloseInv

\* The steps of a Close call, by whoever makes it, keep the invariant.
LEMMA CloseStepInv ==
    ASSUME CloseInv, NEW a \in Agents, CloseStep(a)
    PROVE  CloseInv'
<1> USE RolesDistinct DEF CloseInv, TypeOK, Statuses, Refs, Steps, At, Goto,
        place, ledger, Return, ReleasedExactlyOnce, DoneIsClosed, WorkerPosition, closeable
<1>1. CASE LoadRef(a)
  BY <1>1 DEF LoadRef
<1>2. CASE CheckCloseable(a)
  BY <1>2 DEF CheckCloseable
<1>3. CASE SwapRef(a)
  BY <1>3 DEF SwapRef
<1>4. CASE ReportAccepted(a)
  BY <1>4 DEF ReportAccepted
<1>5. CASE ReportRefused(a)
  BY <1>5 DEF ReportRefused
<1>6. CASE RestoreRef(a)
  BY <1>6 DEF RestoreRef
<1>7. CASE ClaimClose(a)
  BY <1>7 DEF ClaimClose
<1>8. CASE ReleaseWait(a)
  BY <1>8 DEF ReleaseWait
<1> QED
  BY <1>1, <1>2, <1>3, <1>4, <1>5, <1>6, <1>7, <1>8 DEF CloseStep

\* Every step keeps the invariant about Close: one winner, one release.
LEMMA CloseInvNext == CloseInv /\ [Next]_vars => CloseInv'
<1> SUFFICES ASSUME CloseInv, [Next]_vars PROVE CloseInv'
  OBVIOUS
<1> USE RolesDistinct DEF CloseInv, TypeOK, Statuses, Refs, Steps, At, Goto,
        place, ledger, ReleasedExactlyOnce, DoneIsClosed, WorkerPosition, notClosed
<1>1. CASE ProducerStep
  <2>1. CASE EnqueueAccepted
    BY <2>1 DEF EnqueueAccepted
  <2>2. CASE EnqueueRefused
    BY <2>2 DEF EnqueueRefused
  <2>3. CASE MarkQueued
    BY <2>3 DEF MarkQueued
  <2> QED
    BY <1>1, <2>1, <2>2, <2>3, CloseStepInv DEF ProducerStep
<1>2. CASE WorkerStep
  <2>1. CASE Take
    BY <2>1 DEF Take
  <2>2. CASE CheckNext
    BY <2>2 DEF CheckNext
  <2>3. CASE SetAck
    BY <2>3 DEF SetAck
  <2>4. CASE CheckFill
    BY <2>4 DEF CheckFill
  <2>5. CASE ServeStale
    BY <2>5 DEF ServeStale
  <2>6. CASE startProcessing
    BY <2>6 DEF startProcessing
  <2>7. CASE succeed
    BY <2>7 DEF succeed
  <2>8. CASE failLoad
    BY <2>8 DEF failLoad
  <2>9. CASE failStore
    BY <2>9 DEF failStore
  <2>10. CASE Finish
    BY <2>10 DEF Finish
  <2> QED
    BY <1>2, <2>1, <2>2, <2>3, <2>4, <2>5, <2>6, <2>7, <2>8, <2>9, <2>10,
       CloseStepInv DEF WorkerStep
<1>3. CASE PurgerStep
  <2>1. CASE PurgeBump
    BY <2>1 DEF PurgeBump
  <2>2. CASE PurgeRemove
    BY <2>2 DEF PurgeRemove
  <2> QED
    BY <1>3, <2>1, <2>2, CloseStepInv DEF PurgerStep
<1>4. CASE \E u \in Users : UserClose(u) \/ CloseStep(u)
  <2> PICK u \in Users : UserClose(u) \/ CloseStep(u)
    BY <1>4
  <2>1. CASE UserClose(u)
    BY <2>1 DEF UserClose
  <2> QED
    BY <2>1, CloseStepInv
<1>5. CASE UNCHANGED vars
  BY <1>5 DEF vars
<1> QED
  BY <1>1, <1>2, <1>3, <1>4, <1>5 DEF Next

\* Every behaviour of the job keeps the types of its state.
THEOREM JobTypeCorrect == Spec => []TypeOK
<1>1. CloseInv => TypeOK
  BY DEF CloseInv
<1> QED
  BY <1>1, CloseInvInit, CloseInvNext, PTL DEF Spec

\* Whoever races to Close a job (any number of users, Purge, the worker), one
\* wins, Wait is released once and only after the close.
THEOREM JobReleasedExactlyOnce == Spec => []ReleasedExactlyOnce
<1>1. CloseInv => ReleasedExactlyOnce
  BY DEF CloseInv
<1> QED
  BY <1>1, CloseInvInit, CloseInvNext, PTL DEF Spec

(***************************************************************************)
(* The acknowledgement                                                     *)
(***************************************************************************)
AckInv == AckPosition /\ AckKept

\* A new job has no ack in anybody's hand.
LEMMA AckInvInit == Init => AckInv
BY RolesDistinct, RolesAssumption
   DEF Init, AckInv, AckPosition, AckKept, AckNeverLost, acknowledgeable, At,
       Producer, Worker, Purger

\* The steps of a Close call pass the ack on.
LEMMA AckInvCloseStep ==
    ASSUME CloseInv, AckInv, NEW a \in Agents, CloseStep(a)
    PROVE  AckInv'
<1> USE RolesDistinct DEF CloseInv, TypeOK, Statuses, Refs, Steps, At, Goto, Return,
        place, ledger, WorkerPosition, AckInv, AckPosition, AckKept, AckNeverLost,
        acknowledgeable, closeable, notClosed
<1>1. CASE LoadRef(a)
  BY <1>1 DEF LoadRef
<1>2. CASE CheckCloseable(a)
  BY <1>2 DEF CheckCloseable
<1>3. CASE SwapRef(a)
  BY <1>3 DEF SwapRef
<1>4. CASE ReportAccepted(a)
  BY <1>4 DEF ReportAccepted
<1>5. CASE ReportRefused(a)
  BY <1>5 DEF ReportRefused
<1>6. CASE RestoreRef(a)
  BY <1>6 DEF RestoreRef
<1>7. CASE ClaimClose(a)
  BY <1>7 DEF ClaimClose
<1>8. CASE ReleaseWait(a)
  BY <1>8 DEF ReleaseWait
<1> QED
  BY <1>1, <1>2, <1>3, <1>4, <1>5, <1>6, <1>7, <1>8 DEF CloseStep

\* Every step keeps the ack of a taken job: in the job, in a hand, or reported.
LEMMA AckInvNext == CloseInv /\ AckInv /\ [Next]_vars => AckInv'
<1> SUFFICES ASSUME CloseInv, AckInv, [Next]_vars PROVE AckInv'
  OBVIOUS
<1> USE RolesDistinct DEF CloseInv, TypeOK, Statuses, Refs, Steps, At, Goto, Return,
        place, ledger, WorkerPosition, AckInv, AckPosition, AckKept, AckNeverLost,
        acknowledgeable, closeable, notClosed
<1>1. CASE ProducerStep
  <2>1. CASE EnqueueAccepted
    BY <2>1 DEF EnqueueAccepted
  <2>2. CASE EnqueueRefused
    BY <2>2 DEF EnqueueRefused
  <2>3. CASE MarkQueued
    BY <2>3 DEF MarkQueued
  <2> QED
    BY <1>1, <2>1, <2>2, <2>3,
       AckInvCloseStep DEF ProducerStep
<1>2. CASE WorkerStep
  <2>1. CASE Take
    BY <2>1 DEF Take
  <2>2. CASE CheckNext
    BY <2>2 DEF CheckNext
  <2>3. CASE SetAck
    BY <2>3 DEF SetAck
  <2>4. CASE CheckFill
    BY <2>4 DEF CheckFill
  <2>5. CASE ServeStale
    BY <2>5 DEF ServeStale
  <2>6. CASE startProcessing
    BY <2>6 DEF startProcessing
  <2>7. CASE succeed
    BY <2>7 DEF succeed
  <2>8. CASE failLoad
    BY <2>8 DEF failLoad
  <2>9. CASE failStore
    BY <2>9 DEF failStore
  <2>10. CASE Finish
    BY <2>10 DEF Finish
  <2> QED
    BY <1>2, <2>1, <2>2, <2>3, <2>4, <2>5, <2>6, <2>7, <2>8, <2>9, <2>10,
       AckInvCloseStep DEF WorkerStep
<1>3. CASE PurgerStep
  <2>1. CASE PurgeBump
    BY <2>1 DEF PurgeBump
  <2>2. CASE PurgeRemove
    BY <2>2 DEF PurgeRemove
  <2> QED
    BY <1>3, <2>1, <2>2,
       AckInvCloseStep DEF PurgerStep
<1>4. CASE \E u \in Users : UserClose(u) \/ CloseStep(u)
  <2> PICK u \in Users : UserClose(u) \/ CloseStep(u)
    BY <1>4
  <2>1. CASE UserClose(u)
    BY <2>1 DEF UserClose
  <2> QED
    BY <2>1, AckInvCloseStep
<1>5. CASE UNCHANGED vars
  BY <1>5 DEF vars
<1> QED
  BY <1>1, <1>2, <1>3, <1>4, <1>5 DEF Next

\* The ack of a job taken from acknowledging storage is never lost, however
\* often reports are refused and whoever closes meanwhile.
THEOREM JobAckNeverLost == Spec => []AckNeverLost
<1>1. AckInv => AckNeverLost
  BY DEF AckInv, AckKept
<1> QED
  BY <1>1, CloseInvInit, CloseInvNext, AckInvInit, AckInvNext, PTL DEF Spec

\* A new job has neither an ack nor a rejection.
LEMMA OneOfEachInit == Init => OneOfEach
BY RolesDistinct, RolesAssumption
   DEF Init, OneOfEach, NotYet, ReportsNotRepeated, acknowledgeable, At, Producer, Worker, Purger

\* The steps of a Close call do not multiply the ack.
LEMMA OneOfEachCloseStep ==
    ASSUME CloseInv, AckInv, OneOfEach, NEW a \in Agents, CloseStep(a)
    PROVE  OneOfEach'
<1> USE RolesDistinct DEF CloseInv, TypeOK, Statuses, Refs, Steps, At, Goto, Return,
        place, ledger, AckInv, AckPosition, OneOfEach, NotYet, ReportsNotRepeated, acknowledgeable, closeable
<1>1. CASE LoadRef(a)
  BY <1>1 DEF LoadRef
<1>2. CASE CheckCloseable(a)
  BY <1>2 DEF CheckCloseable
<1>3. CASE SwapRef(a)
  BY <1>3 DEF SwapRef
<1>4. CASE ReportAccepted(a)
  BY <1>4 DEF ReportAccepted
<1>5. CASE ReportRefused(a)
  BY <1>5 DEF ReportRefused
<1>6. CASE RestoreRef(a)
  BY <1>6 DEF RestoreRef
<1>7. CASE ClaimClose(a)
  BY <1>7 DEF ClaimClose
<1>8. CASE ReleaseWait(a)
  BY <1>8 DEF ReleaseWait
<1> QED
  BY <1>1, <1>2, <1>3, <1>4, <1>5, <1>6, <1>7, <1>8 DEF CloseStep

\* No step makes a second ack or a second rejection.
LEMMA OneOfEachNext == CloseInv /\ AckInv /\ OneOfEach /\ [Next]_vars => OneOfEach'
<1> SUFFICES ASSUME CloseInv, AckInv, OneOfEach, [Next]_vars PROVE OneOfEach'
  OBVIOUS
<1> USE RolesDistinct DEF CloseInv, TypeOK, Statuses, Refs, Steps, At, Goto, Return,
        place, ledger, AckInv, AckPosition, OneOfEach, NotYet, ReportsNotRepeated, acknowledgeable, closeable
<1>1. CASE ProducerStep
  <2>1. CASE EnqueueAccepted
    BY <2>1 DEF EnqueueAccepted
  <2>2. CASE EnqueueRefused
    BY <2>2 DEF EnqueueRefused
  <2>3. CASE MarkQueued
    BY <2>3 DEF MarkQueued
  <2> QED
    BY <1>1, <2>1, <2>2, <2>3,
       OneOfEachCloseStep DEF ProducerStep
<1>2. CASE WorkerStep
  <2>1. CASE Take
    BY <2>1 DEF Take
  <2>2. CASE CheckNext
    BY <2>2 DEF CheckNext
  <2>3. CASE SetAck
    BY <2>3 DEF SetAck
  <2>4. CASE CheckFill
    BY <2>4 DEF CheckFill
  <2>5. CASE ServeStale
    BY <2>5 DEF ServeStale
  <2>6. CASE startProcessing
    BY <2>6 DEF startProcessing
  <2>7. CASE succeed
    BY <2>7 DEF succeed
  <2>8. CASE failLoad
    BY <2>8 DEF failLoad
  <2>9. CASE failStore
    BY <2>9 DEF failStore
  <2>10. CASE Finish
    BY <2>10 DEF Finish
  <2> QED
    BY <1>2, <2>1, <2>2, <2>3, <2>4, <2>5, <2>6, <2>7, <2>8, <2>9, <2>10,
       OneOfEachCloseStep DEF WorkerStep
<1>3. CASE PurgerStep
  <2>1. CASE PurgeBump
    BY <2>1 DEF PurgeBump
  <2>2. CASE PurgeRemove
    BY <2>2 DEF PurgeRemove
  <2> QED
    BY <1>3, <2>1, <2>2,
       OneOfEachCloseStep DEF PurgerStep
<1>4. CASE \E u \in Users : UserClose(u) \/ CloseStep(u)
  <2> PICK u \in Users : UserClose(u) \/ CloseStep(u)
    BY <1>4
  <2>1. CASE UserClose(u)
    BY <2>1 DEF UserClose
  <2> QED
    BY <2>1, OneOfEachCloseStep
<1>5. CASE UNCHANGED vars
  BY <1>5 DEF vars
<1> QED
  BY <1>1, <1>2, <1>3, <1>4, <1>5 DEF Next

\* The storage is told of a job's success at most once and of its failure at
\* most once, retries of refused reports included.
THEOREM JobReportsNotRepeated == Spec => []ReportsNotRepeated
<1>1. OneOfEach => ReportsNotRepeated
  BY DEF OneOfEach
<1> QED
  BY <1>1, CloseInvInit, CloseInvNext, AckInvInit, AckInvNext, OneOfEachInit, OneOfEachNext,
     PTL DEF Spec

\* When the worker function cannot fail, the storage is told of the job at most
\* once.  (A failing run breaks this: fail loads and stores the ack in two
\* steps, and a Close between them reports too.)
THEOREM JobAtMostOneReport ==
    ASSUME "fail" \notin Outcomes
    PROVE  Spec => []AtMostOneReport
<1>1. CloseInv /\ OneOfEach => AtMostOneReport
  BY DEF CloseInv, TypeOK, OneOfEach, NotYet, ReportsNotRepeated, AtMostOneReport
<1> QED
  BY <1>1, CloseInvInit, CloseInvNext, AckInvInit, AckInvNext, OneOfEachInit, OneOfEachNext,
     PTL DEF Spec

(***************************************************************************)
(* Refinement                                                              *)
(***************************************************************************)
\* A new job is an open contract with one to wait for.
LEMMA ContractInit == Init => Contract!CInit
BY DEF Init, Contract!CInit, Phase

\* A step of a Close call is the contract's Close or Release, or changes nothing.
LEMMA ContractCloseStep ==
    ASSUME CloseInv, NEW a \in Agents, CloseStep(a)
    PROVE  [Contract!CNext]_(Contract!cvars)
<1> USE RolesDistinct DEF CloseInv, TypeOK, Statuses, Refs, Steps, At, Goto, Return,
        place, ledger, ReleasedExactlyOnce, DoneIsClosed, WorkerPosition, Phase, closeable,
        notClosed, Contract!CNext, Contract!cvars, Contract!Start,
        Contract!Ran, Contract!Close, Contract!Release
<1>1. CASE LoadRef(a)
  BY <1>1 DEF LoadRef
<1>2. CASE CheckCloseable(a)
  BY <1>2 DEF CheckCloseable
<1>3. CASE SwapRef(a)
  BY <1>3 DEF SwapRef
<1>4. CASE ReportAccepted(a)
  BY <1>4 DEF ReportAccepted
<1>5. CASE ReportRefused(a)
  BY <1>5 DEF ReportRefused
<1>6. CASE RestoreRef(a)
  BY <1>6 DEF RestoreRef
<1>7. CASE ClaimClose(a)
  BY <1>7 DEF ClaimClose
<1>8. CASE ReleaseWait(a)
  BY <1>8 DEF ReleaseWait
<1> QED
  BY <1>1, <1>2, <1>3, <1>4, <1>5, <1>6, <1>7, <1>8 DEF CloseStep

\* Every step of the job is a step of the contract, or none.
LEMMA ContractNext == CloseInv /\ [Next]_vars => [Contract!CNext]_(Contract!cvars)
<1> SUFFICES ASSUME CloseInv, [Next]_vars PROVE [Contract!CNext]_(Contract!cvars)
  OBVIOUS
<1> USE RolesDistinct DEF CloseInv, TypeOK, Statuses, Refs, Steps, At, Goto, Return,
        place, ledger, ReleasedExactlyOnce, DoneIsClosed, WorkerPosition, Phase, closeable,
        notClosed, Contract!CNext, Contract!cvars, Contract!Start,
        Contract!Ran, Contract!Close, Contract!Release
<1>1. CASE ProducerStep
  <2>1. CASE EnqueueAccepted
    BY <2>1 DEF EnqueueAccepted
  <2>2. CASE EnqueueRefused
    BY <2>2 DEF EnqueueRefused
  <2>3. CASE MarkQueued
    BY <2>3 DEF MarkQueued
  <2> QED
    BY <1>1, <2>1, <2>2, <2>3,
       ContractCloseStep DEF ProducerStep
<1>2. CASE WorkerStep
  <2>1. CASE Take
    BY <2>1 DEF Take
  <2>2. CASE CheckNext
    BY <2>2 DEF CheckNext
  <2>3. CASE SetAck
    BY <2>3 DEF SetAck
  <2>4. CASE CheckFill
    BY <2>4 DEF CheckFill
  <2>5. CASE ServeStale
    BY <2>5 DEF ServeStale
  <2>6. CASE startProcessing
    BY <2>6 DEF startProcessing
  <2>7. CASE succeed
    BY <2>7 DEF succeed
  <2>8. CASE failLoad
    BY <2>8 DEF failLoad
  <2>9. CASE failStore
    BY <2>9 DEF failStore
  <2>10. CASE Finish
    BY <2>10 DEF Finish
  <2> QED
    BY <1>2, <2>1, <2>2, <2>3, <2>4, <2>5, <2>6, <2>7, <2>8, <2>9, <2>10,
       ContractCloseStep DEF WorkerStep
<1>3. CASE PurgerStep
  <2>1. CASE PurgeBump
    BY <2>1 DEF PurgeBump
  <2>2. CASE PurgeRemove
    BY <2>2 DEF PurgeRemove
  <2> QED
    BY <1>3, <2>1, <2>2,
       ContractCloseStep DEF PurgerStep
<1>4. CASE \E u \in Users : UserClose(u) \/ CloseStep(u)
  <2> PICK u \in Users : UserClose(u) \/ CloseStep(u)
    BY <1>4
  <2>1. CASE UserClose(u)
    BY <2>1 DEF UserClose
  <2> QED
    BY <2>1, ContractCloseStep
<1>5. CASE UNCHANGED vars
  BY <1>5 DEF vars
<1> QED
  BY <1>1, <1>2, <1>3, <1>4, <1>5 DEF Next

\* The job, with its races, implements the contract its users rely on.
THEOREM JobImplementsContract == Spec => ImplementsContract
BY ContractInit, ContractNext, CloseInvInit, CloseInvNext, PTL
   DEF Spec, ImplementsContract, Contract!CSpec
=============================================================================
