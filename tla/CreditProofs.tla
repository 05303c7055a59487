---------------------------- MODULE CreditProofs ----------------------------
(***************************************************************************)
(* No wake-up is lost: PokesAreHeard of Credit, for every number of items, *)
(* callers, workers and every size of a pop.                               *)
(***************************************************************************)
EXTENDS Credit, TLAPS

\* Every item is in one place, so no count outgrows the items there are.
Counted ==
    /\ Items <= MaxItems
    /\ lp \notin {"mark", "arm", "emit"} => popped.n = 0
    /\ popped.err => popped.n = 0

\* A signal is there, or a goroutine is about to send one.
Coming == signal \/ toNotify > 0

\* The hint is never too low unheard: a loop that went to wait, or that goes
\* there whatever the hint says, has a signal behind a hint above 0, or the end of
\* a job that a classic pass started.
HintHeard ==
    /\ lp = "wait" /\ Attentive /\ (remaining > 0 \/ ~dry) =>
         toPoke > 0 \/ Coming \/ (pass # "other" /\ (busy > 0 \/ pass = "purged"))
    /\ lp \in {"pop", "mark"} /\ ~fresh => Coming
    /\ lp \in {"arm", "emit"} /\ popped.err => remaining = 0 /\ (~dry => Coming)
    /\ lp \in {"classic", "process"} /\ sole =>
         Coming \/ (pass = "parked" /\ (parked > 0 \/ busy > 0)) \/ pass = "purged"

\* Parked jobs wait for a Resume, for a signal, or for a job's end.
ParkedHeard ==
    /\ parked > 0 /\ active => Coming \/ busy > 0 \/ lp \in {"classic", "process"}
    /\ rest > 0 => busy > 0

\* What dry says: no poke since the storage was asked, and nothing left then.
DryIsTrue ==
    /\ news => ~dry
    /\ lp = "mark" /\ news => ~fresh
    /\ dry => remaining = 0 /\ lp \notin {"reserve", "fetch", "pop", "mark"}
    /\ lp = "mark" /\ popped.n < credit => popped.n = 0 \/ popped.left = 0
    /\ lp = "mark" => popped.n <= credit

\* Whoever stores an item behind a dry hint is still going to be noticed: by
\* the announcement the storage owes, unless binding missed it, or by the look of
\* a persistent source.
SomeoneLooks ==
    /\ distributed /\ dry => idle \/ missed # "none" \/ paused \/ toPoke > 0
    /\ lp = "mark" /\ distributed /\ fresh /\ (popped.err \/ popped.n < credit)
         => idle \/ missed # "none" \/ paused \/ toPoke > 0
    /\ ~distributed /\ dry =>
         \/ resyncing \/ rp # "none"
         \/ ~sole \/ ~active \/ busy >= limit
         \/ toPoke > 0 \/ Coming \/ lp \in {"credit", "classic", "arm"}
    /\ idle => distributed
    /\ ~distributed => bp = "bound"

IInv == TypeOK /\ Counted /\ HintHeard /\ ParkedHeard /\ DryIsTrue /\ SomeoneLooks

\* TypeOK in two parts, for the two provers: what is true or false, and the rest.
Flags ==
    /\ distributed \in BOOLEAN /\ idle \in BOOLEAN /\ paused \in BOOLEAN /\ dry \in BOOLEAN
    /\ resyncing \in BOOLEAN /\ active \in BOOLEAN /\ sole \in BOOLEAN /\ signal \in BOOLEAN
    /\ fresh \in BOOLEAN /\ news \in BOOLEAN

Numbers ==
    /\ inst \in Instances /\ bp \in {"subscribe", "listen", "bound"}
    /\ stored \in 0 .. MaxItems /\ unacked \in 0 .. MaxItems /\ remaining \in 0 .. MaxItems
    /\ rp \in {"none", "fired", "cleared", "hint", "len", "arm"}
    /\ limit \in 1 .. MaxLimit /\ busy \in 0 .. MaxItems
    /\ rest \in 0 .. MaxItems /\ parked \in 0 .. MaxItems
    /\ toPoke \in Nat /\ toNotify \in Nat
    /\ lp \in {"wait", "credit", "reserve", "fetch", "pop", "mark", "arm", "emit", "again",
              "classic", "process"}
    /\ credit \in 0 .. MaxLimit
    /\ popped \in [n : 0 .. MaxItems, left : 0 .. MaxItems, err : BOOLEAN]
    /\ missed \in {"none", "unheard", "unprobed"}
    /\ pass \in {"other", "parked", "purged"}

\* The two parts make up TypeOK, before and after a step.
LEMMA TypeParts ==
    /\ TypeOK <=> Flags /\ Numbers
    /\ TypeOK' <=> Flags' /\ Numbers'
BY Zenon DEF TypeOK, Flags, Numbers

\* What a pop leaves, whichever way it went: it takes no more than the credit
\* and the storage have; a short one left nothing, and the storage of a
\* distributed source owes an announcement for it, unless the queue is paused.
LEMMA PopOutcome ==
    ASSUME Flags, Numbers, DequeueBatchWithAckIds
    PROVE  \E n, left \in 0 .. stored, err \in BOOLEAN :
             /\ popped' = [n |-> n, left |-> left, err |-> err]
             /\ stored' = stored - n
             /\ err => n = 0
             /\ n < credit => n = 0 \/ left = 0
             /\ n <= credit
             /\ distributed /\ (err \/ n < credit) => idle' \/ paused
<1> DEFINE m == IF credit < stored THEN credit ELSE stored
<1> USE DEF Numbers
<1>1. CASE /\ idle' = distributed /\ popped' = [NoPop EXCEPT !.err = TRUE] /\ UNCHANGED stored
  <2>1. popped' = [n |-> 0, left |-> 0, err |-> TRUE]
    BY <1>1 DEF NoPop
  <2>2. 0 \in 0 .. stored /\ 0 <= credit /\ stored' = stored - 0 /\ (distributed => idle')
    BY <1>1
  <2>3. QED
    BY <2>1, <2>2
<1>2. CASE paused /\ popped' = NoPop /\ UNCHANGED <<stored, idle>>
  <2>1. popped' = [n |-> 0, left |-> 0, err |-> FALSE]
    BY <1>2 DEF NoPop
  <2>2. 0 \in 0 .. stored /\ 0 <= credit /\ stored' = stored - 0 /\ paused
    BY <1>2
  <2>3. QED
    BY <2>1, <2>2
<1>3. CASE /\ ~paused /\ idle' = (distributed /\ m < credit) /\ stored' = stored - m
           /\ \E left \in 0 .. stored - m :
                (left = 0 => m = stored) /\ popped' = [n |-> m, left |-> left, err |-> FALSE]
  <2>1. PICK left \in 0 .. stored - m : popped' = [n |-> m, left |-> left, err |-> FALSE]
    BY <1>3
  <2>2. m \in 0 .. stored /\ m <= credit /\ left \in 0 .. stored /\ (m < credit => left = 0)
    OBVIOUS
  <2>3. stored' = stored - m /\ (distributed /\ m < credit => idle')
    BY <1>3
  <2>4. QED
    BY <2>1, <2>2, <2>3
<1>4. QED
  BY <1>1, <1>2, <1>3 DEF DequeueBatchWithAckIds

\* Every action leaves each flag a Boolean.
LEMMA FlagsStep ==
    ASSUME Flags, [Next]_vars
    PROVE  Flags'
<1> USE DEF Flags, binding, storage, hint, timer, worker, calls, loop, history
<1>1. CASE subscribe
  BY Zenon, <1>1 DEF subscribe
<1>2. CASE poke
  BY Zenon, <1>2 DEF poke
<1>3. CASE notifyToPullNextJobs
  BY Zenon, <1>3 DEF notifyToPullNextJobs
<1>4. CASE Add
  BY Zenon, <1>4 DEF Add
<1>5. CASE AddElsewhere
  BY Zenon, <1>5 DEF AddElsewhere
<1>6. CASE TakeElsewhere
  BY Zenon, <1>6 DEF TakeElsewhere
<1>7. CASE Requeue
  BY Zenon, <1>7 DEF Requeue
<1>8. CASE Announce
  BY Zenon, <1>8 DEF Announce
<1>9. CASE PauseQueue
  BY Zenon, <1>9 DEF PauseQueue
<1>10. CASE ResumeQueue
  BY Zenon, <1>10 DEF ResumeQueue
<1>11. CASE Pause
  BY Zenon, <1>11 DEF Pause
<1>12. CASE Resume
  BY Zenon, <1>12 DEF Resume
<1>13. CASE AddSource
  BY Zenon, <1>13 DEF AddSource
<1>14. CASE RemoveSource
  BY Zenon, <1>14 DEF RemoveSource
<1>15. CASE RunRest
  BY Zenon, <1>15 DEF RunRest
<1>16. CASE park
  BY Zenon, <1>16 DEF park
<1>17. CASE PurgeTopic
  BY Zenon, <1>17 DEF PurgeTopic
<1>18. CASE FinishJob
  BY Zenon, <1>18 DEF FinishJob, ArmIfDry, armResync, ready, subscribed
<1>19. ASSUME NEW c \in 1 .. MaxLimit, TunePool(c) PROVE Flags'
  BY Zenon, <1>19 DEF TunePool
<1>20. CASE ResyncFire
  BY Zenon, <1>20 DEF ResyncFire
<1>21. CASE ResyncClear
  BY Zenon, <1>21 DEF ResyncClear
<1>22. CASE ResyncActive
  BY Zenon, <1>22 DEF ResyncActive
<1>23. CASE ResyncHint
  BY Zenon, <1>23 DEF ResyncHint, ready
<1>24. CASE ResyncLen
  BY Zenon, <1>24 DEF ResyncLen, OneMore
<1>25. CASE ResyncArm
  BY Zenon, <1>25 DEF ResyncArm, armResync, subscribed
<1>26. CASE Wake
  BY Zenon, <1>26 DEF Wake
<1>27. CASE CreditCheck
  BY Zenon, <1>27 DEF CreditCheck, armResync, ready, subscribed
<1>28. CASE Reserve
  BY Zenon, <1>28 DEF Reserve
<1>29. CASE FetchPokes
  BY Zenon, <1>29 DEF FetchPokes
<1>30. CASE Pop
  BY Zenon, <1>30 DEF Pop, DequeueBatchWithAckIds, NoPop
<1>31. CASE Mark
  BY Zenon, <1>31 DEF Mark, ShowsDry, subscribed
<1>32. CASE Arm
  BY Zenon, <1>32 DEF Arm, armResync, subscribed
<1>33. CASE Emit
  BY Zenon, <1>33 DEF Emit, NoPop
<1>34. CASE Again
  BY Zenon, <1>34 DEF Again, ready
<1>35. CASE Classic
  BY Zenon, <1>35 DEF Classic, ArmIfDry, armResync, ready, pending, subscribed
<1>36. CASE processNextJob
  BY Zenon, <1>36 DEF processNextJob, ArmIfDry, armResync, ready, subscribed
<1>37. CASE UNCHANGED vars
  BY <1>37 DEF vars
<1>38. QED
  BY <1>1, <1>2, <1>3, <1>4, <1>5, <1>6, <1>7, <1>8, <1>9, <1>10, <1>11, <1>12, <1>13,
     <1>14, <1>15, <1>16, <1>17, <1>18, <1>19, <1>20, <1>21, <1>22, <1>23, <1>24, <1>25,
     <1>26, <1>27, <1>28, <1>29, <1>30, <1>31, <1>32, <1>33, <1>34, <1>35, <1>36, <1>37
     DEF Next, resync, EventLoop

\* Every action keeps every count within the items there are.
LEMMA CountsStep ==
    ASSUME Flags, Numbers, Counted, [Next]_vars
    PROVE  Numbers' /\ Counted'
<1> USE DEF Numbers, Counted, Items, binding, storage, hint, timer, worker, calls, loop, history
<1>1. CASE subscribe
  BY <1>1, CreditAssumption DEF subscribe
<1>2. CASE poke
  BY <1>2, CreditAssumption DEF poke
<1>3. CASE notifyToPullNextJobs
  BY <1>3, CreditAssumption DEF notifyToPullNextJobs
<1>4. CASE Add
  BY <1>4, CreditAssumption DEF Add
<1>5. CASE AddElsewhere
  BY <1>5, CreditAssumption DEF AddElsewhere
<1>6. CASE TakeElsewhere
  BY <1>6, CreditAssumption DEF TakeElsewhere
<1>7. CASE Requeue
  BY <1>7, CreditAssumption DEF Requeue
<1>8. CASE Announce
  BY <1>8, CreditAssumption DEF Announce
<1>9. CASE PauseQueue
  BY <1>9, CreditAssumption DEF PauseQueue
<1>10. CASE ResumeQueue
  BY <1>10, CreditAssumption DEF ResumeQueue
<1>11. CASE Pause
  BY <1>11, CreditAssumption DEF Pause
<1>12. CASE Resume
  BY <1>12, CreditAssumption DEF Resume
<1>13. CASE AddSource
  BY <1>13, CreditAssumption DEF AddSource
<1>14. CASE RemoveSource
  BY <1>14, CreditAssumption DEF RemoveSource
<1>15. CASE RunRest
  BY <1>15, CreditAssumption DEF RunRest
<1>16. CASE park
  BY <1>16, CreditAssumption DEF park
<1>17. CASE PurgeTopic
  BY <1>17, CreditAssumption DEF PurgeTopic
<1>18. CASE FinishJob
  BY <1>18, CreditAssumption DEF FinishJob, ArmIfDry, armResync, ready, subscribed
<1>19. ASSUME NEW c \in 1 .. MaxLimit, TunePool(c) PROVE Numbers' /\ Counted'
  BY <1>19, CreditAssumption DEF TunePool
<1>20. CASE ResyncFire
  BY <1>20, CreditAssumption DEF ResyncFire
<1>21. CASE ResyncClear
  BY <1>21, CreditAssumption DEF ResyncClear
<1>22. CASE ResyncActive
  BY <1>22, CreditAssumption DEF ResyncActive
<1>23. CASE ResyncHint
  BY <1>23, CreditAssumption DEF ResyncHint, ready
<1>24. CASE ResyncLen
  BY <1>24, CreditAssumption DEF ResyncLen, OneMore
<1>25. CASE ResyncArm
  BY <1>25, CreditAssumption DEF ResyncArm, armResync, subscribed
<1>26. CASE Wake
  BY <1>26, CreditAssumption DEF Wake
<1>27. CASE CreditCheck
  BY <1>27, CreditAssumption DEF CreditCheck, armResync, ready, subscribed
<1>28. CASE Reserve
  BY <1>28, CreditAssumption DEF Reserve
<1>29. CASE FetchPokes
  BY <1>29, CreditAssumption DEF FetchPokes
<1>30. CASE Pop
  <2>1. Flags /\ Numbers
    OBVIOUS
  <2>2. PICK n, left \in 0 .. stored, err \in BOOLEAN :
          /\ popped' = [n |-> n, left |-> left, err |-> err]
          /\ stored' = stored - n
          /\ err => n = 0
          /\ n < credit => n = 0 \/ left = 0
          /\ n <= credit
          /\ distributed /\ (err \/ n < credit) => idle' \/ paused
    BY <2>1, <1>30, PopOutcome DEF Pop
  <2>3. QED
    BY <1>30, <2>1, <2>2, CreditAssumption DEF Pop
<1>31. CASE Mark
  BY <1>31, CreditAssumption DEF Mark, ShowsDry, subscribed
<1>32. CASE Arm
  BY <1>32, CreditAssumption DEF Arm, armResync, subscribed
<1>33. CASE Emit
  <2>1. MaxItems \in Nat /\ MaxLimit \in Nat
    BY CreditAssumption
  <2>2. PICK k \in 0 .. popped.n : busy' = busy + k /\ unacked' = unacked + (popped.n - k)
    BY <1>33 DEF Emit
  <2>3. popped' = [n |-> 0, left |-> 0, err |-> FALSE]
    BY <1>33 DEF Emit, NoPop
  <2>4. /\ popped.n \in 0 .. MaxItems /\ popped.n + busy + unacked <= MaxItems
        /\ busy' + unacked' + popped'.n = busy + unacked + popped.n
        /\ busy' \in 0 .. MaxItems /\ unacked' \in 0 .. MaxItems
    BY <2>1, <2>2, <2>3
  <2>5. UNCHANGED <<stored, rest, parked>>
    BY <1>33 DEF Emit
  <2>6. Counted'
    <3>1. Items' = Items
      BY <2>2, <2>3, <2>5
    <3>2. popped'.n = 0
      BY <2>3
    <3>3. QED
      BY <3>1, <3>2
  <2>7. Numbers'
    BY <1>33, <2>1, <2>3, <2>4 DEF Emit
  <2>8. QED
    BY <2>6, <2>7
<1>34. CASE Again
  BY <1>34, CreditAssumption DEF Again, ready
<1>35. CASE Classic
  BY <1>35, CreditAssumption DEF Classic, ArmIfDry, armResync, ready, pending, subscribed
<1>36. CASE processNextJob
  BY <1>36, CreditAssumption DEF processNextJob, ArmIfDry, armResync, ready, subscribed
<1>37. CASE UNCHANGED vars
  BY <1>37 DEF vars
<1>38. QED
  BY <1>1, <1>2, <1>3, <1>4, <1>5, <1>6, <1>7, <1>8, <1>9, <1>10, <1>11, <1>12, <1>13,
     <1>14, <1>15, <1>16, <1>17, <1>18, <1>19, <1>20, <1>21, <1>22, <1>23, <1>24, <1>25,
     <1>26, <1>27, <1>28, <1>29, <1>30, <1>31, <1>32, <1>33, <1>34, <1>35, <1>36, <1>37
     DEF Next, resync, EventLoop

\* The parts of IInv about wake-ups.
Woken == HintHeard /\ ParkedHeard /\ DryIsTrue /\ SomeoneLooks

\* The wake-ups: each action keeps the signals and looks the hint relies on.
LEMMA WakeStep ==
    ASSUME IInv, [Next]_vars
    PROVE  Woken'
<1> USE DEF IInv, TypeOK, Counted, Woken, HintHeard, ParkedHeard, DryIsTrue, SomeoneLooks, Coming,
            Attentive, binding, storage, hint, timer, worker,
            calls, loop, history
<1>1. CASE subscribe
  BY <1>1 DEF subscribe
<1>2. CASE poke
  BY <1>2 DEF poke
<1>3. CASE notifyToPullNextJobs
  BY <1>3 DEF notifyToPullNextJobs
<1>4. CASE Add
  BY <1>4 DEF Add
<1>5. CASE AddElsewhere
  BY <1>5 DEF AddElsewhere
<1>6. CASE TakeElsewhere
  BY <1>6 DEF TakeElsewhere
<1>7. CASE Requeue
  BY <1>7 DEF Requeue
<1>8. CASE Announce
  BY <1>8 DEF Announce
<1>9. CASE PauseQueue
  BY <1>9 DEF PauseQueue
<1>10. CASE ResumeQueue
  BY <1>10 DEF ResumeQueue
<1>11. CASE Pause
  BY <1>11 DEF Pause
<1>12. CASE Resume
  BY <1>12 DEF Resume
<1>13. CASE AddSource
  BY <1>13 DEF AddSource
<1>14. CASE RemoveSource
  BY <1>14 DEF RemoveSource
<1>15. CASE RunRest
  BY <1>15 DEF RunRest
<1>16. CASE park
  BY <1>16 DEF park
<1>17. CASE PurgeTopic
  BY <1>17 DEF PurgeTopic
<1>18. CASE FinishJob
  BY <1>18 DEF FinishJob, ArmIfDry, armResync, ready, subscribed
<1>19. ASSUME NEW c \in 1 .. MaxLimit, TunePool(c) PROVE Woken'
  BY <1>19 DEF TunePool
<1>20. CASE ResyncFire
  BY <1>20 DEF ResyncFire
<1>21. CASE ResyncClear
  BY <1>21 DEF ResyncClear
<1>22. CASE ResyncActive
  BY <1>22 DEF ResyncActive
<1>23. CASE ResyncHint
  BY <1>23 DEF ResyncHint, ready
<1>24. CASE ResyncLen
  BY <1>24 DEF ResyncLen, OneMore
<1>25. CASE ResyncArm
  BY <1>25 DEF ResyncArm, armResync, subscribed
<1>26. CASE Wake
  BY <1>26 DEF Wake
<1>27. CASE CreditCheck
  BY <1>27 DEF CreditCheck, armResync, ready, subscribed
<1>28. CASE Reserve
  BY <1>28 DEF Reserve
<1>29. CASE FetchPokes
  BY <1>29 DEF FetchPokes
<1>30. CASE Pop
  <2>1. Flags /\ Numbers
    BY TypeParts DEF IInv
  <2>2. PICK n, left \in 0 .. stored, err \in BOOLEAN :
          /\ popped' = [n |-> n, left |-> left, err |-> err]
          /\ stored' = stored - n
          /\ err => n = 0
          /\ n < credit => n = 0 \/ left = 0
          /\ n <= credit
          /\ distributed /\ (err \/ n < credit) => idle' \/ paused
    BY <2>1, <1>30, PopOutcome DEF Pop
  <2>3. lp' = "mark" /\ ~news' /\ popped'.n = n /\ popped'.left = left /\ popped'.err = err
    BY <1>30, <2>2 DEF Pop
  <2>4. HintHeard' /\ ParkedHeard'
    BY <1>30, <2>3 DEF Pop
  <2>5. DryIsTrue'
    BY <1>30, <2>2, <2>3 DEF Pop
  <2>6. idle' => distributed
    BY <1>30 DEF Pop, DequeueBatchWithAckIds
  <2>7. SomeoneLooks'
    BY <1>30, <2>2, <2>3, <2>6 DEF Pop
  <2>8. QED
    BY <2>4, <2>5, <2>7
<1>31. CASE Mark
  BY <1>31 DEF Mark, ShowsDry, subscribed
<1>32. CASE Arm
  BY <1>32 DEF Arm, armResync, subscribed
<1>33. CASE Emit
  BY <1>33 DEF Emit, NoPop
<1>34. CASE Again
  BY <1>34 DEF Again, ready
<1>35. CASE Classic
  BY <1>35 DEF Classic, ArmIfDry, armResync, ready, pending, subscribed
<1>36. CASE processNextJob
  BY <1>36 DEF processNextJob, ArmIfDry, armResync, ready, subscribed
<1>37. CASE UNCHANGED vars
  BY <1>37 DEF vars
<1>38. QED
  BY <1>1, <1>2, <1>3, <1>4, <1>5, <1>6, <1>7, <1>8, <1>9, <1>10, <1>11, <1>12, <1>13,
     <1>14, <1>15, <1>16, <1>17, <1>18, <1>19, <1>20, <1>21, <1>22, <1>23, <1>24, <1>25,
     <1>26, <1>27, <1>28, <1>29, <1>30, <1>31, <1>32, <1>33, <1>34, <1>35, <1>36, <1>37
     DEF Next, resync, EventLoop

\* IInv holds in every reachable state.
THEOREM WakeInvariant == Spec => []IInv
<1>1. Init => IInv
  <2> SUFFICES ASSUME Init PROVE IInv
    OBVIOUS
  <2>1. Flags
    BY Zenon, CreditAssumption DEF Init, Flags
  <2>2. Numbers /\ Counted
    BY CreditAssumption DEF Init, NoPop, Numbers, Counted, Items
  <2>3. HintHeard /\ ParkedHeard /\ DryIsTrue /\ SomeoneLooks
    BY CreditAssumption DEF Init, NoPop, HintHeard, ParkedHeard, DryIsTrue, SomeoneLooks, Coming
  <2>4. QED
    BY <2>1, <2>2, <2>3, TypeParts DEF IInv
<1>2. IInv /\ [Next]_vars => IInv'
  BY TypeParts, FlagsStep, CountsStep, WakeStep DEF IInv, Woken
<1>3. QED
  BY <1>1, <1>2, PTL DEF Spec

\* "No wake-up is lost" (source.go:256), for every number of items, jobs, callers
\* and workers and every size of a pop, while a queue is bound and after: when the
\* loop rests although it could run a job, it has asked the storage since the last
\* poke, the hint says nothing is there, and an item stored since has an
\* announcement or a resync coming; short of an announcement or a probe that binding
\* missed, and of a pass for parked jobs, behind which a job's end signals unless
\* the jobs were purged.
THEOREM NoWakeUpLost == Spec => []PokesAreHeard
<1>1. IInv => PokesAreHeard
  BY DEF IInv, TypeOK, HintHeard, ParkedHeard, DryIsTrue, SomeoneLooks, Coming, PokesAreHeard,
     Resting, Attentive, ready
<1>2. QED
  BY <1>1, WakeInvariant, PTL
=============================================================================
