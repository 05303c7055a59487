------------------------------- MODULE Guides -------------------------------
(***************************************************************************)
(* The guide scenes of the docs site: the frame clock they share           *)
(* (guides-b/scene.ts), the waiting scene with the wait calls on a         *)
(* timeline (waiting.ts), the concurrency and the idle scenes with their   *)
(* drawn pool (concurrency.ts, idle.ts, poolview.ts), all playing          *)
(* WorkerSim; and, as a fourth "scene", a caller that uses every method of *)
(* WorkerSim in any order, as sim.test.ts does.                            *)
(*                                                                         *)
(* One step here is one event of the browser: a frame, a press, a change   *)
(* of visibility.  An event runs to its end before the next, so every      *)
(* handler is one action.  A button is its handler and, because the click  *)
(* bubbles, the handler of the scene's root.                               *)
(***************************************************************************)
EXTENDS WorkerSim, FiniteSets

CONSTANTS
    Scenes,      \* the scenes that are played
    Dur,         \* steps a job takes
    StepTicks,   \* steps of one press of "Step 1 s"
    SettleMax,   \* iterations of settle
    Arrive,      \* steps between two jobs of the producer
    QueueCap,    \* the producer rests from this queue length on (60)
    ShowQueue,   \* squares drawn of the queue (16)
    ShowParked,  \* squares drawn of the parked jobs (12)
    StartJobs,   \* jobs the concurrency scene starts with (8)
    AddSizes,    \* jobs one press of its "Add" buttons adds (3 and 12)
    Limits,      \* positions of the limit sliders
    Ratios,      \* WithMinIdleWorkerRatio, 0: not set
    Expiry,      \* WithIdleWorkerExpiryDuration in steps
    MaxJobs,     \* bound: jobs given to one worker
    TestJobs,    \* bound: jobs a test adds
    MaxPresses   \* bound: presses of the reader

VARIABLES
    scene,    \* which scene is played
    reduce,   \* the reader asks for reduced motion
    clk,      \* the clock: paused, visible, and whether a frame is requested
    page,     \* what the scene's closure holds
    presses   \* presses so far

vars == <<scene, reduce, clk, page, presses>>

-----------------------------------------------------------------------------
(* The clock *)
Run(c) == IF c.raf \/ c.paused \/ ~c.visible THEN c ELSE [c EXCEPT !.raf = TRUE]
NewClock(slow) == Run([paused |-> slow, visible |-> TRUE, raf |-> FALSE])

-----------------------------------------------------------------------------
(* The waiting scene *)
Call(kind, at) == [kind |-> kind, at |-> at, armed |-> FALSE, err |-> FALSE, back |-> FALSE]
Never == 0   \* no pauseAt

\* The cases; the instants keep the order of the code's: the pause comes before
\* the calls, and both while job 1 runs.
Cases ==
    [pause     |-> << [pauseAt |-> 1, calls |-> <<Call("Wait", 2), Call("WaitUntilIdle", 2),
                                                  Call("WaitUntilPaused", 2)>>] >>,
     stop      |-> << [pauseAt |-> Never, calls |-> <<Call("StopAndWait", 1)>>],
                      [pauseAt |-> Never, calls |-> <<Call("WaitAndStop", 1)>>] >>,
     pauseWait |-> << [pauseAt |-> Never, calls |-> <<Call("PauseAndWait", 1)>>],
                      [pauseAt |-> Never, calls |-> <<Call("WaitAndPause", 1)>>] >>,
     initiated |-> << [pauseAt |-> Never, calls |-> <<Call("Wait", 1),
                                                      Call("WaitUntilIdle", 1)>>] >>]
Keys == DOMAIN Cases

\* Op, n times over.
RECURSIVE Times(_, _, _)
Times(n, Op(_), v) == IF n = 0 THEN v ELSE Then(Op(v), LAMBDA x : Times(n - 1, Op, x))

addOne(s)     == add(s, Dur, FALSE)
addMany(s, n) == Times(n, addOne, s)

build(key) ==
    LET three == addMany(New(1, key # "initiated"), 3)
        track(c) == [sim |-> three, now |-> 0, calls |-> c.calls, pauseAt |-> c.pauseAt,
                     paused |-> FALSE]
    IN  [k \in DOMAIN Cases[key] |-> track(Cases[key][k])]

\* arm: the call is made; the ones that act first do so now.
arm(t, k) ==
    LET c == t.calls[k]
        u == [t EXCEPT !.calls[k].armed = TRUE]
    IN  CASE c.kind = "StopAndWait"  -> [u EXCEPT !.calls[k].err = StopErr(t.sim), !.sim = stop(@)]
          [] c.kind = "PauseAndWait" -> [u EXCEPT !.calls[k].err = PauseErr(t.sim), !.sim = pause(@)]
          [] OTHER -> u

\* done: may the call return?
done(s, c) ==
    CASE c.kind \in {"Wait", "WaitAndStop", "WaitAndPause"} -> WaitDone(s)
      [] c.kind = "WaitUntilIdle"   -> WaitUntilIdleDone(s)
      [] c.kind = "WaitUntilPaused" -> WaitUntilPausedDone(s)
      [] c.kind = "StopAndWait"     -> c.err \/ WaitUntilStoppedDone(s)
      [] c.kind = "PauseAndWait"    -> c.err \/ WaitUntilPausedDone(s)

\* What done does besides: the calls that act last do so as they return.
acted(s, c) == CASE c.kind = "WaitAndStop"  -> stop(s)
                 [] c.kind = "WaitAndPause" -> pause(s)
                 [] OTHER -> s

callTurn(t, k) ==
    LET u == IF ~t.calls[k].armed /\ t.now >= t.calls[k].at THEN arm(t, k) ELSE t
        c == u.calls[k]
    IN  IF c.armed /\ ~c.back /\ done(u.sim, c)
        THEN [u EXCEPT !.calls[k].back = TRUE, !.sim = acted(@, c)]
        ELSE u
callTurns(t) == FoldLeft(LAMBDA u, k : Then(u, LAMBDA x : callTurn(x, k)), t,
                         [k \in DOMAIN t.calls |-> k])

\* The pause of the case that has one.
pauseTurn(t) ==
    IF t.pauseAt # Never /\ ~t.paused /\ t.now >= t.pauseAt
    THEN [t EXCEPT !.paused = TRUE, !.sim = pause(@)] ELSE t

stepTrack(t) ==
    Then(Then([t EXCEPT !.sim = step(@), !.now = Smaller(@ + 1, 2)], pauseTurn), callTurns)

stepOnce(ts) == [k \in DOMAIN ts |-> stepTrack(ts[k])]

canProgress(s) ==
    NumBusy(s) > 0 \/ (IsActive(s) /\ s.queue # <<>>) \/ s.status \in {"Pausing", "Stopping"}

\* settle: forward until nothing moves.
RECURSIVE settleTracks(_, _)
settleTracks(ts, n) ==
    LET open  == \E k \in DOMAIN ts : \E c \in ToSet(ts[k].calls) : ~c.armed
        still == ~open /\ \A k \in DOMAIN ts : ~canProgress(ts[k].sim)
    IN  IF n = 0 \/ still THEN ts ELSE Then(stepOnce(ts), LAMBDA x : settleTracks(x, n - 1))
Settled(ts) == Then(stepOnce(ts), LAMBDA x : settleTracks(x, SettleMax - 1))

load(key, c) ==
    [key |-> key, tracks |-> IF reduce \/ c.paused THEN Settled(build(key)) ELSE build(key)]

\* The root's click handler, after what the button itself did to the tracks.
RootClick(p, c) == IF c.paused THEN [p EXCEPT !.tracks = Settled(@)] ELSE p

-----------------------------------------------------------------------------
(* The drawn pool *)
Ends(q)  == <<Len(q), IF q = <<>> THEN 0 ELSE Head(q), IF q = <<>> THEN 0 ELSE Last(q)>>
Start(q) == <<Len(q), IF q = <<>> THEN 0 ELSE Head(q)>>
Squares(q)       == [jobs |-> SubSeq(q, 1, Smaller(Len(q), ShowQueue)),
                     more |-> IF Len(q) > ShowQueue THEN Len(q) - ShowQueue ELSE 0]
ParkedSquares(q) == SubSeq(q, 1, Smaller(Len(q), ShowParked))
BySlot(s)        == SetToSortSeq({g.slot : g \in Gors(s)}, LAMBDA a, b : a < b)

NoView == [qSig |-> <<>>, q |-> Squares(<<>>), pSig |-> <<>>, p |-> <<>>, blocks |-> <<>>]

\* drawBlocks: blocks of goroutines that are gone leave; a new one makes all of
\* them line up again.
drawBlocks(blocks, s) ==
    LET live == {g.slot : g \in Gors(s)}
    IN  IF live \subseteq ToSet(blocks)
        THEN SelectSeq(blocks, LAMBDA x : x \in live) ELSE BySlot(s)

\* update: the lists are drawn again only when their signature changed.
update(v, s) ==
    [qSig |-> Ends(s.queue), pSig |-> Start(s.parked),
     q |-> IF Ends(s.queue) = v.qSig THEN v.q ELSE Squares(s.queue),
     p |-> IF Start(s.parked) = v.pSig THEN v.p ELSE ParkedSquares(s.parked),
     blocks |-> drawBlocks(v.blocks, s)]

\* render of the concurrency and of the idle scene.
draw(p)   == [p EXCEPT !.view = update(@, p.sim)]
render(p) == Then(p, draw)

-----------------------------------------------------------------------------
(* The concurrency scene *)
Room(s, n) == Smaller(n, MaxJobs - Len(s.job))   \* the bound on jobs

\* The producer of one tick of n steps.
produce(p, n) ==
    LET acc == p.acc + n
        new == acc \div Arrive
    IN  IF ~p.producer \/ Len(p.sim.queue) >= QueueCap THEN p
        ELSE [p EXCEPT !.acc = acc % Arrive, !.sim = addMany(@, Room(@, new))]

concurrencyTick(p, n) ==
    render(Then([p EXCEPT !.sim = advance(@, n)], LAMBDA x : produce(x, n)))

concurrencyInit(slow) ==
    render([sim |-> advance(addMany(New(CHOOSE n \in Limits : n > 1, TRUE), StartJobs), 2),
            view |-> NoView, producer |-> ~slow, acc |-> 0])

-----------------------------------------------------------------------------
(* The idle scene *)
make(o) == [New(o.limit, TRUE) EXCEPT !.minPct = o.ratio, !.expiry = IF o.expiry THEN Expiry ELSE 0]

\* PoolView.reset: no signature, no block; the drawn lists wait for the update.
reset(v) == [v EXCEPT !.qSig = <<>>, !.pSig = <<>>, !.blocks = <<>>]

\* rebuild: a new worker, and a view that forgets the old one.
rebuild(p, o) == render([sim |-> make(o), opt |-> o, view |-> reset(p.view)])

idleInit == LET o == [limit |-> CHOOSE n \in Limits : n > 1, ratio |-> 0, expiry |-> FALSE]
            IN  render([sim |-> make(o), opt |-> o, view |-> NoView])

\* settle of scene.ts, as the idle scene calls it.
RECURSIVE settleIdle(_, _)
settleIdle(s, n) ==
    IF n = 0 \/ ~(Moving(s) \/ (s.expiry > 0 /\ Len(s.pool) > MinIdle(s)))
    THEN s ELSE Then(step(s), LAMBDA x : settleIdle(x, n - 1))

burst(p) ==
    LET full == addMany(p.sim, p.opt.limit)
    IN  render([p EXCEPT !.sim = IF reduce THEN Then(full, LAMBDA x : settleIdle(x, SettleMax)) ELSE full])

-----------------------------------------------------------------------------
(* Events *)
Init ==
    /\ scene \in Scenes /\ reduce \in BOOLEAN
    /\ clk = NewClock(reduce)
    /\ presses = 0
    /\ page = CASE scene = "waiting"     -> load("pause", clk)
                [] scene = "concurrency" -> concurrencyInit(reduce)
                [] scene = "idle"        -> idleInit
                [] scene = "tests"       -> [sim |-> New(1, ~reduce)]

\* A tick of n steps, in the scene that is played.
tick(n) ==
    page' = CASE scene = "waiting" ->
                   [page EXCEPT !.tracks = Times(n, stepOnce, @)]
              [] scene = "concurrency" -> concurrencyTick(page, n)
              [] scene = "idle"        -> render([page EXCEPT !.sim = advance(@, n)])

Frame ==
    /\ scene # "tests" /\ clk.raf
    /\ IF clk.paused \/ ~clk.visible
       THEN clk' = [clk EXCEPT !.raf = FALSE] /\ UNCHANGED page
       ELSE tick(1) /\ UNCHANGED clk
    /\ UNCHANGED <<scene, reduce, presses>>

\* The IntersectionObserver.
Observe ==
    /\ scene # "tests"
    /\ clk' = Run([clk EXCEPT !.visible = ~@])
    /\ UNCHANGED <<scene, reduce, page, presses>>

Press == scene # "tests" /\ presses < MaxPresses /\ presses' = presses + 1 /\ UNCHANGED <<scene, reduce>>

\* Pause or Play; the click reaches the root too.
PausePress ==
    /\ Press
    /\ clk' = Run([clk EXCEPT !.paused = ~@])
    /\ page' = CASE scene = "waiting"     -> RootClick(page, clk')
                 [] scene = "concurrency" -> render(page)
                 [] scene = "idle"        -> page

\* Step 1 s, shown only while the clock is paused; the click reaches the root too.
StepPress ==
    /\ Press /\ clk.paused
    /\ UNCHANGED clk
    /\ IF scene = "waiting"
       THEN page' = RootClick([page EXCEPT !.tracks = Times(StepTicks, stepOnce, @)], clk)
       ELSE tick(StepTicks)

\* The waiting scene's own buttons.
CaseTab(k) ==
    /\ Press /\ scene = "waiting"
    /\ page' = load(k, clk) /\ UNCHANGED clk

ResumePress ==
    /\ Press /\ scene = "waiting" /\ page.key = "pause"
    /\ page.tracks[1].sim.status \in {"Paused", "Pausing"}
    /\ page' = RootClick([page EXCEPT !.tracks[1].sim = resume(@)], clk)
    /\ clk' = Run(clk)

StartPress ==
    /\ Press /\ scene = "waiting" /\ page.key = "initiated"
    /\ page.tracks[1].sim.status = "Initiated"
    /\ page' = RootClick([page EXCEPT !.tracks[1].sim = start(@)], clk)
    /\ clk' = Run(clk)

ReplayPress ==
    /\ Press /\ scene = "waiting"
    /\ page' = RootClick(load(page.key, clk), clk)
    /\ clk' = Run(clk)

\* The concurrency scene's own controls.
tune(n) ==
    /\ Press /\ scene = "concurrency"
    /\ page' = render([page EXCEPT !.sim = tunePool(@, n)])
    /\ clk' = Run(clk)

AddPress(n) ==
    /\ Press /\ scene = "concurrency"
    /\ page' = render([page EXCEPT !.sim = addMany(@, Room(@, n))])
    /\ clk' = Run(clk)

ProducerPress ==
    /\ Press /\ scene = "concurrency"
    /\ page' = render([page EXCEPT !.producer = ~@])
    /\ clk' = Run(clk)

\* The idle scene's own controls.
Rebuild(o) ==
    /\ Press /\ scene = "idle"
    /\ o # page.opt
    /\ page' = rebuild(page, o)
    /\ UNCHANGED clk

BurstPress ==
    /\ Press /\ scene = "idle"
    /\ Len(page.sim.job) + page.opt.limit <= MaxJobs
    /\ page' = burst(page)
    /\ clk' = Run(clk)

\* Any call of WorkerSim.
Test(s) == scene = "tests" /\ page' = [page EXCEPT !.sim = s] /\ UNCHANGED <<scene, reduce, clk, presses>>
TestAdd    == /\ scene = "tests" /\ Len(page.sim.job) < TestJobs
              /\ \E watch \in BOOLEAN : Test(add(page.sim, 2, watch))
TestStart  == Test(start(page.sim))
TestStop   == Test(stop(page.sim))
TestPause  == Test(pause(page.sim))
TestResume == Test(resume(page.sim))
TestRestart == Test(restart(page.sim))
TestTune   == \E n \in {1, 2} : Test(tunePool(page.sim, n))
TestPurge  == Test(purge(page.sim))
TestCancel == Test(cancelUser(page.sim, "deadline"))
TestAdvance == Test(step(page.sim))

Next ==
    \/ Frame \/ Observe \/ PausePress \/ StepPress
    \/ \E k \in Keys : CaseTab(k)
    \/ ResumePress \/ StartPress \/ ReplayPress
    \/ \E n \in Limits : tune(n)
    \/ \E n \in AddSizes : AddPress(n)
    \/ ProducerPress
    \/ \E o \in [limit : {n \in Limits : n > 1}, ratio : Ratios, expiry : BOOLEAN] : Rebuild(o)
    \/ BurstPress
    \/ TestAdd \/ TestStart \/ TestStop \/ TestPause \/ TestResume \/ TestRestart
    \/ TestTune \/ TestPurge \/ TestCancel \/ TestAdvance

\* The browser gives a visible page its frames.
Fairness == WF_vars(Frame)
Spec == Init /\ [][Next]_vars /\ Fairness

-----------------------------------------------------------------------------
(* Properties *)
Sims == CASE scene = "waiting" -> {t.sim : t \in ToSet(page.tracks)}
          [] OTHER -> {page.sim}

Jobs(s, states) == {j \in DOMAIN s.job : s.job[j].state \in states}
Held(s)    == UNION {{g.batch[k] : k \in g.i + 1 .. Len(g.batch)} : g \in {x \in Gors(s) : x.busy}}
RunningNow(s) == {g.batch[g.i] : g \in {x \in Gors(s) : x.busy}}

\* Whatever calls come in whatever order, WorkerSim keeps its books: a live
\* goroutine is busy or in the pool, once, and a stopped worker has none; a job
\* that waits is in the queue, parked or held by one goroutine, in one of them;
\* parked jobs come before the queue and both are in order of arrival, which is
\* also what the signatures of PoolView rely on; curProcessing is what the busy
\* goroutines have taken.
SimSound ==
    \A s \in Sims :
        /\ IsInjective(s.pool)
        /\ ToSet(s.pool) = {g.slot : g \in {x \in Gors(s) : ~x.busy}}
        /\ s.status \in {"Initiated", "Stopped"} => s.gors = <<>>
        /\ ToSet(s.queue) \cup ToSet(s.parked) \cup Held(s) = Jobs(s, {"queued"})
        /\ (ToSet(s.queue) \cup ToSet(s.parked)) \cap Held(s) = {}
        /\ \A i, j \in 1 .. Waiting(s) : i < j => (s.parked \o s.queue)[i] < (s.parked \o s.queue)[j]
        /\ RunningNow(s) = Jobs(s, {"running"})
        /\ s.cur = FoldLeft(LAMBDA n, g : n + Len(g.batch), 0, s.gors)

\* Once the worker pauses or stops, by a call or by its context, no job starts
\* before it is active again.
HaltsHold ==
    scene = "tests" /\ IsHalting(page.sim) /\ ~IsActive(page.sim)'
      => RunningNow(page.sim)' \subseteq RunningNow(page.sim)

\* The hints under the waiting scene are true however the reader presses: what a
\* call leaves behind when it returns.
ReturnsAsHinted ==
    scene = "waiting" =>
      \A t \in ToSet(page.tracks) : \A c \in ToSet(t.calls) :
        LET over == Jobs(t.sim, {"done"})
        IN  c.back =>
              CASE c.kind = "StopAndWait"  -> over = {1} /\ t.sim.status = "Stopped"
                [] c.kind = "PauseAndWait" -> over = {1} /\ t.sim.status = "Paused"
                [] c.kind \in {"WaitAndStop", "WaitAndPause", "WaitUntilIdle"} -> over = 1 .. 3
                [] c.kind = "WaitUntilPaused" -> 1 \in over
                [] OTHER -> page.key = "pause" => 1 \in over

\* On a page whose clock runs for good every call returns, except WaitUntilIdle
\* on a worker the reader leaves paused or never starts.
ClockRuns == scene = "waiting" => clk.visible /\ ~clk.paused
WaitsReturn ==
    scene = "waiting" => \A t \in ToSet(page.tracks) : \A c \in ToSet(t.calls) :
        c.back \/ (c.kind = "WaitUntilIdle" /\ t.sim.status \in {"Paused", "Initiated"})

\* The drawn queue, parked jobs and goroutines are those of the worker after
\* every event, although a list with an unchanged signature is not drawn again.
ViewFresh ==
    scene \in {"concurrency", "idle"} =>
        /\ page.view.q = Squares(page.sim.queue)
        /\ page.view.p = ParkedSquares(page.sim.parked)
        /\ page.view.blocks = BySlot(page.sim)

\* With no timer, and with a timer once the sweeps are over, what the idle scene
\* says holds: after a burst the pool keeps the share of the limit, or one.
KeepsTheShare ==
    scene = "idle" /\ page.sim.job # <<>> /\ ~Moving(page.sim)
        => IF page.sim.expiry = 0 \/ (reduce /\ clk.paused)
           THEN Len(page.sim.pool) = MinIdle(page.sim)
           ELSE Len(page.sim.pool) >= MinIdle(page.sim)

\* A visible scene whose clock is not paused has its next frame coming.
ClockArmed == ~clk.paused /\ clk.visible => clk.raf
=============================================================================
