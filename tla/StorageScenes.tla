---------------------------- MODULE StorageScenes ----------------------------
(***************************************************************************)
(* The scenes of the storage guides (docs/src/components/ops): the crash   *)
(* test of one job (ack.ts), the keys of a Redis queue                     *)
(* (redisflow-model.ts, redisflow.ts), the rows of a SQLite queue          *)
(* (sqliteflow.ts) and the replay of a scrape (metrics.ts).                *)
(*                                                                         *)
(* One step is one press; a button that render has disabled or hidden      *)
(* cannot be pressed.  The texts are left out.                             *)
(***************************************************************************)
EXTENDS Naturals, Sequences, FiniteSets, SequencesExt, FiniteSetsExt

CONSTANTS
    Scenes,    \* the scenes that are played
    First,     \* the jobs of the Redis and the SQLite scene, in order (7, 8, 9, 10)
    Heartbeat, \* HEARTBEAT: a persistent queue's dead object is found after this
    DistBack,  \* DIST_BACK: a dead consumer of a distributed queue
    MaxT,      \* the slider's end
    MaxRuns,   \* bound: times a reader takes one job
    End        \* END of the replay, in its steps

VARIABLES
    scene, \* which scene is played
    s,     \* its state
    hist   \* history: jobs acknowledged, and how often a job was put back

vars == <<scene, s, hist>>

None == 0
Jobs == ToSet(First)
NoneOf == [j \in Jobs |-> 0]
Inc(f, j) == [f EXCEPT ![j] = @ + 1]

-----------------------------------------------------------------------------
(* redisflow-model.ts *)
Redis(mode) == [mode |-> mode, jobs |-> First, inflight |-> None, closedUnder |-> FALSE,
                crashed |-> FALSE, t |-> 0, returned |-> FALSE, runs |-> NoneOf]
threshold == IF s.mode = "dist" THEN DistBack ELSE Heartbeat
held   == s.inflight # None /\ ~s.closedUnder /\ ~s.returned
nacked == held \/ (s.crashed /\ s.inflight # None /\ ~s.returned)

RedisTake ==
    /\ scene = "redis" /\ s.inflight = None /\ s.jobs # <<>> /\ ~s.crashed
    /\ s.runs[Head(s.jobs)] < MaxRuns
    /\ s' = [s EXCEPT !.inflight = Head(s.jobs), !.jobs = Tail(@), !.runs = Inc(@, Head(s.jobs)),
                      !.returned = FALSE, !.closedUnder = FALSE]
    /\ UNCHANGED <<scene, hist>>

\* Acknowledge of an object that was closed returns false and changes no key.
RedisAck ==
    /\ scene = "redis" /\ s.inflight # None /\ ~s.crashed /\ ~s.returned
    /\ s' = [s EXCEPT !.inflight = None, !.closedUnder = FALSE]
    /\ hist' = IF s.closedUnder THEN hist ELSE [hist EXCEPT !.acked = @ \cup {s.inflight}]
    /\ UNCHANGED scene

\* What Close had put back, the dead process does not hold.
RedisKill ==
    /\ scene = "redis" /\ ~s.crashed
    /\ s' = [s EXCEPT !.crashed = TRUE, !.t = 0, !.inflight = IF s.closedUnder THEN None ELSE @,
                      !.closedUnder = FALSE]
    /\ UNCHANGED <<scene, hist>>

RedisClose ==
    /\ scene = "redis" /\ s.inflight # None /\ ~s.crashed /\ ~s.closedUnder /\ ~s.returned
    /\ s' = [s EXCEPT !.closedUnder = TRUE, !.jobs = <<s.inflight>> \o @]
    /\ hist' = [hist EXCEPT !.back = Inc(@, s.inflight)]
    /\ UNCHANGED scene

\* The slider, shown while a dead process holds a job: sweepIfDue.
RedisTime(t) ==
    LET due == s.crashed /\ s.inflight # None /\ ~s.returned /\ t >= threshold
    IN  /\ scene = "redis" /\ s.crashed /\ s.inflight # None
        /\ s' = IF due THEN [s EXCEPT !.t = t, !.returned = TRUE, !.jobs = <<s.inflight>> \o @,
                                      !.inflight = None, !.crashed = FALSE]
                ELSE [s EXCEPT !.t = t]
        /\ hist' = IF due THEN [hist EXCEPT !.back = Inc(@, s.inflight)] ELSE hist
        /\ UNCHANGED scene

-----------------------------------------------------------------------------
(* sqliteflow.ts: a row is its status, or gone *)
Sqlite == [rows |-> [j \in Jobs |-> "pending"], inflight |-> None, down |-> FALSE,
           keep |-> FALSE, runs |-> NoneOf]
Rows(status) == {j \in Jobs : s.rows[j] = status}
Pending == SelectSeq(First, LAMBDA j : s.rows[j] = "pending")

\* One statement turns the first pending row into processing.
SqliteTake ==
    /\ scene = "sqlite" /\ ~s.down /\ s.inflight = None /\ Pending # <<>>
    /\ s.runs[Head(Pending)] < MaxRuns
    /\ s' = [s EXCEPT !.rows[Head(Pending)] = "processing", !.inflight = Head(Pending),
                      !.runs = Inc(@, Head(Pending))]
    /\ UNCHANGED <<scene, hist>>

\* Acknowledge matches only a row that is processing.
SqliteAck ==
    LET j  == s.inflight
        ok == s.rows[j] = "processing"
    IN  /\ scene = "sqlite" /\ ~s.down /\ j # None
        /\ s' = [s EXCEPT !.inflight = None,
                          !.rows[j] = IF ~ok THEN @ ELSE IF s.keep THEN "completed" ELSE "gone"]
        /\ hist' = IF ok THEN [hist EXCEPT !.acked = @ \cup {j}] ELSE hist
        /\ UNCHANGED scene

SqliteKeep ==
    /\ scene = "sqlite"
    /\ s' = [s EXCEPT !.keep = ~@]
    /\ UNCHANGED <<scene, hist>>

SqliteKill ==
    /\ scene = "sqlite" /\ ~s.down
    /\ s' = [s EXCEPT !.down = TRUE]
    /\ UNCHANGED <<scene, hist>>

\* Opening the queue sets every processing row back.
reset(rows) == [j \in Jobs |-> IF rows[j] = "processing" THEN "pending" ELSE rows[j]]
PutBack == [hist EXCEPT !.back = [j \in Jobs |-> @[j] + (IF s.rows[j] = "processing" THEN 1 ELSE 0)]]

SqliteRestart ==
    /\ scene = "sqlite" /\ s.down
    /\ s' = [s EXCEPT !.down = FALSE, !.inflight = None, !.rows = reset(@)]
    /\ hist' = PutBack
    /\ UNCHANGED scene

\* A second process opens the queue on the same file.
SqliteSecond ==
    /\ scene = "sqlite" /\ (Rows("processing") # {} \/ s.inflight # None)
    /\ s' = [s EXCEPT !.rows = reset(@)]
    /\ hist' = PutBack
    /\ UNCHANGED scene

-----------------------------------------------------------------------------
(* ack.ts and ack-data.ts: one job at a stage of its way *)
Modes == {"memory", "redis", "sqlite", "own"}
Ack(mode) == [mode |-> mode, stage |-> 0, down |-> FALSE, crashStage |-> None, orphan |-> FALSE,
              lost |-> FALSE, othersLost |-> FALSE, started |-> 0]
persistent == s.mode # "memory"
last == IF persistent THEN 4 ELSE 3

AckStep ==
    /\ scene = "ack" /\ ~s.down /\ s.stage < last /\ ~s.orphan /\ ~s.lost
    /\ s.started < MaxRuns \/ s.stage # 1
    /\ s' = [s EXCEPT !.stage = @ + 1, !.started = IF s.stage = 1 THEN @ + 1 ELSE @]
    /\ UNCHANGED <<scene, hist>>

AckKill ==
    /\ scene = "ack" /\ ~s.down
    /\ s' = [s EXCEPT !.down = TRUE, !.crashStage = s.stage,
                      !.lost = IF persistent THEN @ ELSE s.stage < 3,
                      !.orphan = IF persistent THEN s.stage \in 1 .. 3 ELSE @]
    /\ UNCHANGED <<scene, hist>>

\* Only sqliteq hands the job out again as it opens the queue.
AckRestart ==
    /\ scene = "ack" /\ s.down
    /\ s' = CASE ~persistent -> [s EXCEPT !.down = FALSE, !.stage = 0, !.lost = TRUE, !.othersLost = TRUE]
              [] persistent /\ s.orphan /\ s.mode = "sqlite" ->
                   [s EXCEPT !.down = FALSE, !.orphan = FALSE, !.stage = 0]
              [] OTHER -> [s EXCEPT !.down = FALSE]
    /\ UNCHANGED <<scene, hist>>

\* The buttons for an orphan: redisq puts it back, an adapter of your own may or
\* may not.
AckWait ==
    /\ scene = "ack" /\ s.orphan /\ ~s.down /\ s.mode # "sqlite"
    /\ s' = [s EXCEPT !.orphan = FALSE, !.stage = 0]
    /\ UNCHANGED <<scene, hist>>
AckLose ==
    /\ scene = "ack" /\ s.orphan /\ ~s.down /\ s.mode = "own"
    /\ s' = [s EXCEPT !.orphan = FALSE, !.lost = TRUE, !.stage = 0]
    /\ UNCHANGED <<scene, hist>>

-----------------------------------------------------------------------------
(* metrics.ts: the replay, its slider and its Play button *)
Replay == [t |-> 2, timer |-> FALSE, label |-> "Play"]
stop(r) == [r EXCEPT !.timer = FALSE, !.label = IF r.t >= End THEN "Replay" ELSE "Play"]

MetricsSlide(t) ==
    /\ scene = "metrics"
    /\ s' = [stop(s) EXCEPT !.t = t]
    /\ UNCHANGED <<scene, hist>>
MetricsPlay ==
    /\ scene = "metrics"
    /\ s' = IF s.timer THEN stop(s)
            ELSE [t |-> IF s.t >= End THEN 0 ELSE s.t, timer |-> TRUE, label |-> "Pause"]
    /\ UNCHANGED <<scene, hist>>
MetricsTick ==
    /\ scene = "metrics" /\ s.timer
    /\ LET r == [s EXCEPT !.t = IF @ + 1 > End THEN End ELSE @ + 1]
       IN  s' = IF r.t >= End THEN stop(r) ELSE r
    /\ UNCHANGED <<scene, hist>>

-----------------------------------------------------------------------------
NoHist == [acked |-> {}, back |-> NoneOf]

\* The Reset button, and a tab.
Reset ==
    /\ \/ scene = "redis" /\ \E m \in {"persistent", "dist"} : s' = Redis(m)
       \/ scene = "sqlite" /\ s' = [Sqlite EXCEPT !.keep = s.keep]
       \/ scene = "ack" /\ \E m \in Modes : s' = Ack(m)
    /\ hist' = NoHist
    /\ UNCHANGED scene

Init ==
    /\ scene \in Scenes
    /\ s = CASE scene = "redis" -> Redis("persistent") [] scene = "sqlite" -> Sqlite
             [] scene = "ack" -> Ack("redis") [] scene = "metrics" -> Replay
    /\ hist = NoHist

Next ==
    \/ RedisTake \/ RedisAck \/ RedisKill \/ RedisClose \/ \E t \in 0 .. MaxT : RedisTime(t)
    \/ SqliteTake \/ SqliteAck \/ SqliteKeep \/ SqliteKill \/ SqliteRestart \/ SqliteSecond
    \/ AckStep \/ AckKill \/ AckRestart \/ AckWait \/ AckLose
    \/ (\E t \in 0 .. End : MetricsSlide(t)) \/ MetricsPlay \/ MetricsTick
    \/ Reset
Spec == Init /\ [][Next]_vars /\ WF_vars(MetricsTick)

-----------------------------------------------------------------------------
\* The stores of the scenes keep every job until it is acknowledged: each is in
\* the queue, in flight or acknowledged, and in one of them only, through crashes,
\* sweeps, a queue closed too early and a second process.
KeptUntilAcked ==
    CASE scene = "redis" ->
           \A j \in Jobs : Cardinality({p \in {"jobs", "nacked", "acked"} :
                               \/ p = "jobs" /\ j \in ToSet(s.jobs)
                               \/ p = "nacked" /\ nacked /\ s.inflight = j
                               \/ p = "acked" /\ j \in hist.acked}) = 1
      [] scene = "sqlite" -> \A j \in Jobs : (s.rows[j] \in {"gone", "completed"}) = (j \in hist.acked)
      [] scene = "ack" ->
           \* Storage loses it only where the reader says the adapter does; and only
           \* a job taken and not acknowledged is left over by a crash.
           /\ persistent /\ s.lost => s.mode = "own"
           /\ s.orphan => s.stage \in 1 .. 3 /\ persistent
      [] OTHER -> TRUE

\* A job starts again only after the storage put it back: at most one start more
\* than it was put back, and none after its acknowledgement.
RunsAgainOnlyIfBack ==
    (scene \in {"redis", "sqlite"}) /\ hist' # NoHist =>
        \A j \in Jobs : /\ s'.runs[j] <= hist'.back[j] + 1
                        /\ j \in hist.acked => s'.runs[j] <= s.runs[j]
=============================================================================
