----------------------------- MODULE StoreScene -----------------------------
(***************************************************************************)
(* The storage stage of the home page (docs/src/components/home/store.ts): *)
(* a worker that takes jobs from a queue in memory, in Redis or in SQLite, *)
(* an Add button, and a Restart button that kills the process.             *)
(*                                                                         *)
(* Everything that takes time is a timeline with a callback: a take, a     *)
(* job's run, an add, the pause before a refill, a restart.  A timeline is *)
(* in `live' until it ends, is stopped by settleAll, or never starts       *)
(* because the reader asked for reduced motion.  Where the squares fly is  *)
(* left out; when they arrive matters only to the drawing.                 *)
(*                                                                         *)
(* The handlers are written on the record of the closure's variables,      *)
(* since most of them call one another.                                    *)
(***************************************************************************)
EXTENDS Naturals, Sequences, SequencesExt, FiniteSets

CONSTANTS
    Show,     \* SHOW: squares a lane shows (5)
    Start,    \* START: jobs waiting when a tab opens (6)
    AddN,     \* jobs of one press of Add, and of a refill (5)
    Ids,      \* nextId wraps after this many (99)
    MaxWaits, \* bound: jobs waiting or about to be added by presses
    NoJob

VARIABLES
    st,       \* the closure of boot
    reduce    \* the reader asks for reduced motion

vars == <<st, reduce>>

Modes == {"memory", "redis", "sqlite"}
persistent(s) == s.mode # "memory"

\* What Op makes of v; v is evaluated once, however often Op uses it.
Then(v, Op(_)) == CHOOSE r \in {Op(x) : x \in {v}} : TRUE

\* A timeline: what it shows, its job, whether a take has the lane to itself,
\* and the generation it belongs to.
Timeline(kind, it, own, s) == [kind |-> kind, it |-> it, own |-> own, gen |-> s.gen]

newIds(s, n) == [k \in 1 .. n |-> ((s.nextId + k - 2) % Ids) + 1]
bumped(s, n) == ((s.nextId + n - 1) % Ids) + 1

-----------------------------------------------------------------------------
RECURSIVE play(_, _, _), callback(_, _), laneDone(_), step(_), take(_), addJobs(_), runJob(_, _)

\* play: with reduced motion, or with nothing on the timeline, its end comes now.
play(s, t, empty) ==
    IF reduce \/ empty THEN callback(s, t) ELSE [s EXCEPT !.live = @ \cup {t}]

\* What follows a timeline, unless a restart or a tab came first (gen).
callback(s, t) ==
    CASE t.gen # s.gen -> s
      [] t.gen = s.gen /\ t.kind = "take" ->
           Then(IF t.own THEN laneDone(s) ELSE s, LAMBDA x : runJob(x, t.it))
      [] t.gen = s.gen /\ t.kind = "run" ->
           Then([s EXCEPT !.inflight = SelectSeq(@, LAMBDA j : j # t.it),
                          !.running = NoJob], step)
      [] t.gen = s.gen /\ t.kind = "add" -> Then([s EXCEPT !.adding = FALSE], laneDone)
      [] t.gen = s.gen /\ t.kind = "refill" ->
           IF s.running = NoJob /\ s.waiting = <<>> /\ ~s.laneBusy
           THEN Then([s EXCEPT !.refilling = FALSE], addJobs)
           ELSE [s EXCEPT !.refilling = FALSE]
      [] t.gen = s.gen /\ t.kind = "restart" -> Then([s EXCEPT !.up = TRUE], step)

laneDone(s) ==
    IF s.queued > 0 THEN Then([s EXCEPT !.laneBusy = FALSE, !.queued = @ - 1], addJobs)
    ELSE Then([s EXCEPT !.laneBusy = FALSE], step)

\* take: the head of the queue goes to the worker; in a store its record goes
\* to the tray.  During an add the add keeps the lane.
take(s) ==
    LET it  == Head(s.waiting)
        on  == [s EXCEPT !.laneBusy = TRUE, !.waiting = Tail(@), !.running = it,
                         !.inflight = IF persistent(s) THEN Append(@, it) ELSE @]
    IN  Then(on, LAMBDA x : play(x, Timeline("take", it, ~s.laneBusy, s), FALSE))

\* runJob: with reduced motion the job stays on the ring.
runJob(s, it) == IF reduce THEN s ELSE play(s, Timeline("run", it, FALSE, s), FALSE)

\* addJobs, once the lane is free: the new squares fly in unless they all wait
\* past the lane's last slot; the worker, if free, takes a job beside them.
addNow(s) ==
    LET on == [s EXCEPT !.laneBusy = TRUE, !.adding = TRUE, !.nextId = bumped(s, AddN),
                        !.waiting = @ \o newIds(s, AddN)]
    IN  Then(Then(on, LAMBDA x : play(x, Timeline("add", NoJob, FALSE, s), Len(s.waiting) >= Show)),
             step)
addJobs(s) == IF s.laneBusy THEN [s EXCEPT !.queued = @ + 1] ELSE addNow(s)

\* step: what happens next on its own.
step(s) ==
    CASE ~s.up \/ s.running # NoJob \/ (s.laneBusy /\ ~s.adding) -> s
      [] OTHER ->
           CASE s.waiting # <<>> /\ (reduce \/ s.visible) -> take(s)
             [] s.waiting = <<>> /\ ~reduce /\ s.visible /\ ~s.laneBusy /\ ~s.refilling ->
                  play([s EXCEPT !.refilling = TRUE], Timeline("refill", NoJob, FALSE, s), FALSE)
             [] OTHER -> s

\* Mutant: the flag of a refill that was cut short stays.
settleKeepsRefill(s) == [s EXCEPT !.gen = 1 - @, !.live = {}, !.queued = 0, !.laneBusy = FALSE,
                                  !.adding = FALSE]

\* settleAll: a new generation; then every timeline but the run is taken to its
\* end, where its callback finds that it is of the old one.
settleAll(s) ==
    LET next == [s EXCEPT !.gen = 1 - @]
        ends == SetToSeq({t \in s.live : t.kind # "run"})
        over == FoldLeft(LAMBDA x, t : Then(x, LAMBDA y : callback(y, t)), next, ends)
    IN  [over EXCEPT !.live = {}, !.queued = 0, !.laneBusy = FALSE, !.adding = FALSE,
                     !.refilling = FALSE]

\* Mutant: the record that was in flight is lost with the process.
crashForgets(s) ==
    LET back == IF persistent(s) THEN s.waiting ELSE <<>>
    IN  Then([s EXCEPT !.up = FALSE, !.running = NoJob, !.waiting = back, !.inflight = <<>>],
             LAMBDA x : play(x, Timeline("restart", NoJob, FALSE, x), FALSE))

\* restart: the process dies; in memory its jobs die with it, in a store the
\* record that was in flight goes back to the front.
crash(s) ==
    LET back == IF persistent(s) THEN s.inflight \o s.waiting ELSE <<>>
    IN  Then([s EXCEPT !.up = FALSE, !.running = NoJob, !.waiting = back, !.inflight = <<>>],
             LAMBDA x : play(x, Timeline("restart", NoJob, FALSE, x), FALSE))
restart(s) == IF s.up THEN Then(settleAll(s), crash) ELSE s

fill(s, n) == [s EXCEPT !.waiting = @ \o newIds(s, n), !.nextId = bumped(s, n)]

\* open: a tab, or the other layout after a resize.
open(s, mode) ==
    LET clean(x) == fill([x EXCEPT !.mode = mode, !.waiting = <<>>, !.running = NoJob,
                                   !.inflight = <<>>, !.up = TRUE], Start)
    IN  Then(Then(settleAll(s), clean), step)

Closure == [mode |-> "memory", waiting |-> <<>>, running |-> NoJob, inflight |-> <<>>, up |-> TRUE,
            laneBusy |-> FALSE, adding |-> FALSE, queued |-> 0, refilling |-> FALSE,
            gen |-> 0, nextId |-> 1, visible |-> FALSE, live |-> {}]

-----------------------------------------------------------------------------
Init == reduce \in BOOLEAN /\ st = open(Closure, "memory")

RestartPress == st.up /\ st' = restart(st) /\ UNCHANGED reduce

AddPress ==
    /\ st.up
    /\ Len(st.waiting) + AddN * (st.queued + 1) <= MaxWaits
    /\ st' = addJobs(st)
    /\ UNCHANGED reduce

Tab(mode) == st' = open(st, mode) /\ UNCHANGED reduce

\* The ResizeObserver: a stage that gets narrow or wide starts again.
Resize == Tab(st.mode)

\* The IntersectionObserver: the timelines stop and go on with it.
Observe ==
    /\ st' = IF st.visible THEN [st EXCEPT !.visible = FALSE]
             ELSE Then([st EXCEPT !.visible = TRUE], step)
    /\ UNCHANGED reduce

\* A timeline of a stage in view comes to its end.
End(t) ==
    /\ st.visible
    /\ st' = callback([st EXCEPT !.live = @ \ {t}], t)
    /\ UNCHANGED reduce

Kinds == {"take", "run", "add", "refill", "restart"}
EndOf(kind) == \E t \in {x \in st.live : x.kind = kind} : End(t)

Next ==
    \/ RestartPress \/ AddPress \/ Observe \/ Resize
    \/ \E m \in Modes : Tab(m)
    \/ \E k \in Kinds : EndOf(k)

\* anime.js plays every timeline of a stage in view to its end.
Fairness == \A k \in Kinds : WF_vars(EndOf(k))
Spec == Init /\ [][Next]_vars /\ Fairness

-----------------------------------------------------------------------------
Live(kind) == {t \in st.live : t.kind = kind}

\* No flag of the stage is left behind by a timeline that is gone, and none is
\* missing for one that plays: laneBusy is an add or a take that has the lane,
\* adding an add, refilling a refill, not up a restart; a job on the way to the
\* ring or on it has exactly one timeline.  Whatever is pressed while it plays.
FlagsHonest ==
    /\ st.laneBusy = (Live("add") # {} \/ \E t \in Live("take") : t.own)
    /\ st.adding = (Live("add") # {})
    /\ st.refilling = (Live("refill") # {})
    /\ st.up = (Live("restart") = {})
    /\ Cardinality(Live("take") \cup Live("run"))
         = (IF st.running = NoJob \/ reduce THEN 0 ELSE 1)
    /\ \A t \in Live("take") \cup Live("run") : t.it = st.running
    /\ \A t \in st.live : t.gen = st.gen

\* In a store, a job taken is in flight until its ack, and nothing else is: what
\* a restart puts back is exactly the job that was running.
InFlightIsRunning ==
    persistent(st) => st.inflight = IF st.running = NoJob THEN <<>> ELSE <<st.running>>

Stored(s) == ToSet(s.waiting) \cup ToSet(s.inflight)

\* Redis and SQLite keep a job until the worker acknowledges it: within a tab,
\* a job that was added leaves the store only as its own run ends.  A job put
\* back by a restart is the first in line.
OnlyAckForgets ==
    persistent(st) /\ (\A m \in Modes : ~Tab(m)) =>
      /\ \/ Stored(st) \subseteq Stored(st')
         \/ EndOf("run") /\ Stored(st) \ Stored(st') = {st.running}
      /\ RestartPress => (\A j \in ToSet(st.inflight) : Head(st'.waiting) = j \/ st'.running = j)
=============================================================================
