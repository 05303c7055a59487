# varmq in TLA+

varmq is an in-process message queue and worker pool for Go: producers add jobs to
queues, topics or external storage, and a worker with a bounded number of goroutines
runs them. Its repository also holds the documentation site, whose pages explain the
library with simulations of it written in TypeScript. This directory models the concurrent
core of the library and the interactive part of the site in TLA+, model-checks both with TLC
and proves the central facts about the core with TLAPS.

Paths below are relative to the repository root. One step of a model is one atomic
operation of the code (an atomic load, store, swap or CAS, a channel operation, a call
into storage) or one stretch under a mutex that touches nothing reached without it.

## 1. The system

| Component | State | Operations |
|---|---|---|
| Job (`job.go`) | status word, `ackRef`, wait group | markQueued, startProcessing, fail, succeed, Close, acknowledge, Wait |
| Worker status machine (`worker_state.go`, `worker_lifecycle.go`, `worker_wait.go`) | `status`, `curProcessing`, `w.mx`, the condition variable `w.waiters`, the context | Start, Stop, Pause, Resume, Restart, Wait, WaitUntil... |
| Event loop (`worker_eventloop.go`) | `eventLoopSignal`, `busyWorkers`, `dispatched` | goEventLoop, processNextJob, planBatch, fillBatch, reserve, finishJobs |
| Pool (`worker_pool.go`, `internal/pool`) | a lock-free stack of idle nodes, `alive`, concurrency | PopBack, PushNode, Prune, TunePool, freePoolNode, the serve loop |
| Parking (`worker_park.go`) | `parked`, `nParked`, `parkHeld`, `purgeState` | park, unpark, unheld, dropParked, purge |
| Queue pause (`internal/queues/pause.go`, `source.go`) | the paused-at time, hooks, refusals | Pause, Resume, notify, onResume |
| Queue handle (`queue.go`, `priority.go`) | storage and purge counter | Add, AddAll, Purge, Pause, Resume, Close |
| Sources (`source.go`, `source_manager.go`, `internal/helpers/manager.go`) | bound sources, strategy, cursors | bind, Next, Len, add, remove |
| Credit dispatch (`worker_credit.go`, `batchAckSource`) | the `ready` hint, its generation, the resync timer | fetch, poke, markDry, resync, dispatchCredit |
| Storage in memory (`internal/queues`, `internal/topics/log.go`) | segments, heap, ids in use | Enqueue, EnqueueOnce, Dequeue, Purge, cursors |
| Topics (`topic.go`), group jobs (`group_job.go`) | subscriptions; a shared counter and channel | Publish, Subscribe, Unsubscribe; Done, Close |
| Adapters (`persistent*.go`, `distributed*.go`) | none: storage lives elsewhere | Add, Purge, Close |
| Site: guides (`docs/src/components/guides-a`, `guides-b`, `learn`, `ops`) | a simulated worker, queue or store; its clock or timeouts; what is drawn | buttons, sliders, tabs, frames, timeouts |
| Site: home page (`docs/src/components/home/store.ts`, `docs/src/lib/heromap`, `docs/src/lib/story`) | a stage of timelines; discrete-event simulations of the pool and the stores; tracks of values over time; the tour's position | presses, timers, crash and restart, seek, scroll, wheel and keys |
| Site: benchmarks (`docs/src/components/bench`, `docs/scripts/bench-data.mjs`) | a state and a drawing per view, the address | filters, tabs, links, keys; the build of the data |
| Site: playground box (`docs/src/lib/go-play.ts`, `playground.ts`) | the program and the editor, a run, the output, shared tabs | edit, reset, run, open, copy; answers, deadlines, delays |
| Observation (`mux.go`, `instance.go`, `metrics.go`, `memory_inspector.go`, `contract/`) | counters | HTTP handlers, reports |

How they interact. `Add` enqueues into storage and then signals the event loop over a
channel that holds one signal. The loop, while the worker is active, a slot is free and
something is pending, plans a batch, reserves it (counts first, then checks the status),
takes jobs (parked ones first) and sends them to a pool goroutine. The goroutine starts
each job unless it was purged or closed meanwhile; before every job but the first it looks
for a halt of the worker or a pause of the queue, and parks the rest. When it is through it
frees its node, drops the count, and the one that drops it to zero takes `w.mx` to
complete a pause or go Idle and wake the waiters. Lifecycle methods move the same status
word, some of them outside `w.mx`. Purge moves a counter that every batch was stamped with,
drops what is parked, and empties the storage. Users hold job handles and may Close at any
time; a Close of a job from acknowledging storage reports to that storage first.

What is hard here: the status word is shared by CAS between callers, loop and
goroutines, most of them without the mutex; a signal channel that coalesces; counts read
before and used after others move them; batches split by repeated pauses; a purge counter
that races the fill; an ack that several closers may want and that storage may refuse; a
context whose cancellation may come before the worker is up. `PROJECT.json` lists each of
these at its line under "hazards", with the properties aimed at it.

The site is sequential, but its state is split between closures, timers and the page, and
the reader may press anything at any time: a timeline that ends after a restart, a redraw
that is skipped because a signature did not change, a wake-up dropped by a simulation that is
busy, a map that loads while the tour moves on, a share that ends in the middle of a run. Its
pages share nothing with each other.

## 2. The modules

| Module | Models | Checked by |
|---|---|---|
| `Job`, `MCJob` | one job and everybody who touches it: the producer in Add, the pool goroutine, a Purge, any number of users calling Close | runs `job_*` |
| `JobContract` | what a holder of a job may rely on | refined by `Job` |
| `JobProofs` | | TLAPS proofs about `Job`, the refinement included |
| `WorkerLifecycle`, `MCWorkerLifecycle` | status machine, event loop, batches, callers of all lifecycle methods, other consumers, the parent context | runs `lifecycle_*` |
| `WorkerLifecycleProofs` | | TLAPS proofs about `WorkerLifecycle` |
| `Dispatch`, `MCDispatch` | named jobs through storage, batch, parked list and goroutine, with worker and queue pauses, Purge and Close | runs `dispatch_*` |
| `DispatchProofs` | | TLAPS proofs about `Dispatch` |
| `TopicLog`, `MCTopicLog` | the log of chunks under topics and queues, its writers, cursors and subscriptions | run `topic_log` |
| `Fanout` | what a topic (or a queue) promises: every subscription is a bounded FIFO queue of its own | refined by `TopicLog` |
| `TopicLogProofs` | | TLAPS proofs about `TopicLog`, the refinement included |
| `Group`, `MCGroup` | AddAll into a FIFO or a priority queue, the id set, the group's counter and channel | run `group` |
| `Heap` | the array heap of the priority queue, as operators | used by `Group` |
| `HeapProofs` | | TLAPS proofs about `Heap` |
| `GroupProofs` | | TLAPS proofs about `Group`, over those about `Heap` |
| `Credit`, `MCCredit` | dispatch by credit from external storage that pops in batches | run `credit` |
| `CreditProofs` | | TLAPS proofs about `Credit` |
| `Pool`, `MCPool` | the lock-free stack of idle nodes and everybody who pushes and pops: event loop, goroutines, the remover of expired nodes, TunePool, Stop, Start | runs `pool`, `pool_tune` |
| `PoolProofs` | | TLAPS proofs about `Pool` |
| `WorkerSim` | the simulated worker of the guides (`guides-b/sim.ts`), as operators | used by `Guides` |
| `Guides` | the guides' clock and the waiting, concurrency and idle scenes; the scene "tests" makes the simulator's calls in any order | run `docs` |
| `QueueScenes` | the six scenes of `guides-a` | run `docs` |
| `StorageScenes` | ack, Redis, SQLite and metrics scenes of `ops` | run `docs` |
| `LearnPool` | the step-by-step pool of `learn/engine.ts` | run `docs` |
| `StoreScene` | the storage stage of the home page | run `docs` |
| `HeroPool`, `HeroStores` | the map's simulations of a worker and of two stores | run `docs` |
| `Score` | the tracks the map is scored on, and how the page plays them | run `docs` |
| `Story` | the tour of the home page and the map it moves | run `docs` |
| `BenchLib`, `Explorer` | the benchmark explorer: its pure part, and its page | run `docs` |
| `GoPlay` | the box that runs, shares and copies a program of the guides | run `docs` |
| `BenchData` | the build of the benchmark data from `go test` output | run `docs` |
| `BenchSample` | a small set of results for the explorer | constants of `docs` |
| `MCDocs` | a visit to one of the pages above | run `docs` |

The definitions keep the names of the code where there is one (`reserveCount`,
`startProcessing`, `FinCasIdle` for the CAS in `releaseWaiters`, ...); the "map" of
`PROJECT.json` gives the lines of each. The code has several typed copies of Add and AddAll
(plain, error, result; FIFO, priority) that differ only in what a job carries. Each model
takes one of them; the copies are spread over the maps of `Job`, `WorkerLifecycle`,
`Dispatch` and `Group`.

**Job.** `status`, `ackRef` and `wg` are the fields of `job`. `where` says whether the job
is in storage, `stale` whether a Purge moved the counter after the batch was stamped.
`hand[a]` is the ack an agent has swapped out and not reported. The kinds of storage are
`mem` (the queue's shared ack-less reference), `ack` (acknowledging: the storage may refuse
a report, at most `MaxRefusals` times) and `plain`. The retry loop of `job.transition` is
one step, because a lost CAS changes nothing. Results, errors and JSON are not modelled.
A job is never taken twice: a storage that hands a job out again after a visibility timeout
makes a new `job` value there.

**WorkerLifecycle.** Jobs are counted. `curProcessing` is compared only with zero, so it is
the set `counted` of batches it counts; likewise `busy` for `busyWorkers`. Each lifecycle
method is a chain of steps, one per load, CAS and critical section. Two readings of
`NumPending` that the code adds up without a lock appear as a nondeterministic choice in
`WaitPending`; the choice of planBatch between waiting for a busy worker and spawning
another, made from measured job times, is a nondeterministic choice in `LoopRest`.
`PauseAndWait`, `WaitAndPause`, `StopAndWait` and `WaitAndStop` are compositions of calls
that callers of the model make one after the other.

**Dispatch.** Jobs are numbers in the order they were added. A batch has a `stamp`: the
purge counter (`epoch`) when it was filled, and the number of its head in dispatch order
(`seq`). The parked list is a set, since `unpark` sorts it by `Seq`. `SetPaused`,
`NotifyRead` and `NotifyHook` are the three moments of a queue pause: the flag, the state
read under `notifyMu`, the worker's hook. `ScanClear`/`ScanEnd` are the two moments of
`unheld`. The lifecycle appears only as `halting`, which may be undone when no goroutine
holds a batch: that is `NothingRunsWhenHalted`, proved about `WorkerLifecycle`. The
concurrency is chosen in Init, up to the number of nodes. Two variables are history:
`reach` and `doomed` remember which jobs a Purge had in sight.

**TopicLog.** One step per atomic operation of `Log.Append` and `Cursor.Dequeue`: the load
of the tail, the claim of an offset, the link of a chunk, the hop, the write of a slot and
its ready flag. The chunks form a sequence in link order and a pointer is an index into it.
Init chooses between the two uses of the log: a topic, whose subscribers read, skip and leave, and
a queue (`consume`), whose one cursor takes what it reads and can be purged. A bounded log
takes `Log.mx` across the check and the claim. `Purge` waits until every claimed slot is
ready. `Close` of a topic makes its subscribers unsubscribe. `order`, the payloads by
offset, is history; the refinement mapping gives each subscription of `Fanout` the stretch
of `order` from its cursor's offset on.

**Group.** AddAll makes a group, then adds its items one by one; a refused item is closed
and skipped. The FIFO stores ids in shards, each with a lock that EnqueueOnce holds across
the Append and Purge takes in turn; the heap does everything under one lock. Append, Dequeue
and Purge of the FIFO's log are single steps, which `topic_log` justifies. The phases of a
member run from `new` over `stored`, `dequeued` (the id not yet freed), `taken` or `removed`
to `closing`, `last` (its Done took the count to zero, the channel is not closed yet) and
`end`. `stale` holds every job that was taken when a Purge moved the counter: the goroutine
may close or, had it looked before, run it (`Dispatch` has the exact order). Nobody reads
the channel of results, which is the worst case for its buffer. `raced` is history: it marks
the one race the code admits (`internal/queues/queue.go:163-164`, a Dequeue that frees an id
after a Purge and a new Add of it); `IdsMatchItems` lets an id be stored twice only then, and
lets no id leak even then. Ids the
user gives and generated ids are assumed to be different; if a generated id equalled a given
one, Dequeue of the one would free the other, since it frees the id of any item
(`internal/queues/queue.go:136-138`, `config.go:374-377`).

**Credit.** `dry` stands for `pokes = dryAt` and `fresh` for "no poke since this pass read
`pokes`": the code only compares the two counters. Goroutines on their way to `poke` and to
`notifyToPullNextJobs` are counted in `toPoke` and `toNotify`. The storage is external, and
modelled by the contract the source relies on: a pop hands out at most the credit, may fail,
may report what remains; items handed out and not acknowledged come back; a consumer
of a distributed queue is owed word of new items once a pop came back short or failed
(`idle`). A run starts when bind has signalled the loop. A distributed queue subscribes after
that (`subscribe`: the flag first, then the callback), so that its first pops may find
`subscribed` false. Beside the source there may be a topic: `rest` are the jobs of its last
batch that a busy node has not started, `parked` those a pause set aside. A lone source with
parked jobs is served by the classic loop, as one with other sources is. Three variables are
history: `news`, a poke came after the last storage call; `missed`, what binding missed since
then (the storage announced before there was a callback, or owes nothing to a hint that was
marked dry before `subscribed` was set); `pass`, whether the last pass of a lone source was a
classic one for parked jobs, and whether a Purge took these away under it.

**Pool.** Every load, swap and count of `PushNode`, `PopBack` and `Prune` is a step; popMx
is a variable, the nodes are `Elem` values that go round between stack, cache and hands, so
that a node taken out of the cache can be the one whose old goroutine has not read its Stop
yet. A job is a unit of the counters `queue` and `cur`. planBatch's decision is the code's,
over small numbers for the job cost (`Costs`), `spawnNanos` and `handoffGap`; a batch stores
any of the costs. The age of an idle node is free: Prune may find any node expired. The status
is active, stopping, stopped or starting; `WorkerLifecycle` has the rest.

**The pages.** Each module takes one page: its variables are the closure's, an action is one
event handler, frame or timeout with every call it makes. Handlers that call one another are
operators on the record of the closure's state. Texts, geometry and durations are left out.
- `Guides` over `WorkerSim`: one step of the simulator is one millisecond tick of `step`. A
  view remembers the signature it drew last, as `PoolView` does.
- `QueueScenes`: the pending timeouts of a scene are a sequence; a Reset empties it.
- `StoreScene`: a timeline is in `live` with the generation it was made in. With reduced
  motion it never plays and its callback comes at once.
- `HeroPool` and `HeroStores`: the plans' times are free, so a timer fires at any time after it
  was set; claims and pulls, which are set for the same instant, come before a crash. A plan
  the code refuses (`throw`) ends there.
- `StorageScenes`: one press a step; `hist` is history.
- `LearnPool`: `advance` one hand-off at a time; a frame may come up to `MaxLate` units after a
  batch has ended.
- `Score`: a builder makes up to `MaxCalls` calls (start, tween, stagger, set, move, place),
  `finish` pads the tracks and the timeline is built a slice of cues at a time. Then the player
  of `map.ts` seeks, plays over the loop's end and rewinds: `playhead` is the time of the
  timeline, `chains` its tweens by property, `drawn` what the page shows. `sought` is the score's
  own `seek`, which goes back to 0 and forward from there. anime.js is external, and does what
  the header of `score.ts` says of it: a frame forward draws the tweens it has reached, a frame
  back leaves what lies behind it as it was, a `set` that ends its chain may be passed over.
- `Story`: positions in half viewports; the map is loaded or not; the page may scroll on below.
- `Explorer`: per view a state and a drawing; `BenchLib` computes lanes, losses, legend,
  `-bench` pattern and hash. How Go matches a pattern is external (`Matches`, `Selects`).
- `GoPlay`: an action runs from one `await` to the next, so a share may end between any two of
  a run's. Requests may stall; deadlines and delays do not. A result is its events' delays.
- `BenchData`: each suite's README and then its files, line by line; rows of two groups come in
  any order, and the first that does not fit stops the build. Every group of a dataset links to a
  range of lines.
- `MCDocs` composes them as a choice: a visit is a behaviour of one page. Slot `vk` is
  variable k of that page's module.

## 3. The runs

Runs that pass:

| Run | Property | Instance |
|---|---|---|
| `job_races` | `ReleasedExactlyOnce`: of all racing Close calls one wins, and releases Wait after the close. `AckNeverLost`: an ack is in the job, in a hand or reported. `ReportsNotRepeated`: at most one Acknowledge and one Reject. `ImplementsContract`. `EventuallyReleased`: nobody Waits forever, unless the storage refused the worker's report | 2 users, every storage, 2 refusals, failing and succeeding runs; fair |
| `lifecycle_pause` | `NothingRunsWhenHalted`, `PausingHasFinisher`, `PauseErrorsDocumented`, `WaitDrains`: Wait returns on an active worker only when what was added before it has run | 2 batches, 2 callers, 2 jobs, a cancellable parent |
| `lifecycle_live` | `NoLostWakeup`, `HaltsComplete`: a Pause and a Stop complete. `NoMissedBroadcast` | 1 batch, 1 caller of every method, 2 jobs; fair |
| `dispatch_purge` | `ParkedInOrder`: Seq follows age, across splits and re-parks. `JobsInOnePlace`. `PurgeExact`: what a Purge had in sight does not start, and what was added after it is not closed by it. `StartsInOrder` at concurrency 1 | concurrency 1 or 2, 4 jobs, batches of up to 4, 1 Purge, 1 close |
| `dispatch_hold` | `HeldRemembered`: no interleaving of scans, parks and hooks forgets that a parked batch is held. `NoneForgotten`: no job waits for ever | 1 node, 2 jobs, 2 Pause/Resume calls of the queue under way at a time; fair |
| `topic_log` | `PositionsAgree`: chunk, index and offset of every cursor and writer name the same place. `ImplementsFanout`. `NobodyLeftBehind`: subscribers catch up, and a closed topic gets rid of them | 2 publishers, 2 subscribers, 2 payloads, chunks of 1, limits 0 and 1; fair |
| `group` | `IdsMatchItems`: an id is stored once and freed with its item. `TakesFirst`: Dequeue hands out the first by priority and age. `ChannelSound`: closed once, after the last, never short of room. `GroupsComplete` | 2 groups in a FIFO, unbounded and of capacity 1; a heap of 4 items and one of capacity 1; 2 ids, 2 shards, 2 takers, 1 Purge; fair |
| `credit` | `PokesAreHeard`: a resting loop has asked the storage since the last poke, and what is stored will be announced or looked for. `ItemsAreReached`: stored items get asked for. Both but for what binding a distributed queue misses, and for a Purge under a classic pass | 1 call on its way; a distributed queue of 1 item and 1 place; a persistent one of 2 items beside a topic with a job to park, 1 place; a persistent one of 1 item, 1 or 2 places, credit 2; fair |
| `pool` | `NodesAccounted`: a node is in one place and Len is off only by the pushes and pops under way. `OneServes`: a node in use has one goroutine, a Stop not yet read one more. `ExpiryKeepsOne`: with idle expiry the loop rests on a backlog only when somebody will notify it. `StoppedLeavesNone` | 3 nodes, 3 goroutines, 3 jobs, limits 1 and 3, 1 call of TunePool, Purge or Stop and any Start after it, with and without idle expiry |
| `docs` | see below | one page each |

The properties of `docs` are conjunctions over the pages, each conjunct with a comment in its
page's module.
- `JobsKept`: `SimSound`, `InFlightIsRunning`, `RingsSound`, `RecordsSound`, `WriteOrder`,
  `JobsOnce`, `KeptUntilAcked`, `PoolSound`.
- `NoneStuck`: `WakeNotLost`, `NoneStarved`, `WakeComes`, `NeverRefused`, `NoneLeftWaiting`,
  `KeepsTheShare`.
- `TimersMatch`: `TimersMatch` of the queue scenes, `FlagsHonest`, `ClockArmed`,
  `ButtonsSettle`.
- `ShowsItsState`: `ViewFresh`, `ReturnsAsHinted`, `PanelsFresh`, `OneShown`, `StoryAgrees`,
  `IntroRuns`, `OutputWhole`, `FocusKept`.
- `UrlKept`: the hash opens what is shown. `BenchExact`: `CommandExact`, `FiguresAgree`,
  `LinksExact`.
- `PlaysAsScored`: whichever way the map's page got to a time, it shows what the tracks say for
  it, as far as the tweens on a property went into the timeline in the order they play.
- `StepsKeep`: `OnlyAckForgets`, `RunsAgainOnlyIfBack`, `HaltsHold`.
- `AllEnds`: the map's simulations end with every job run or acknowledged, a crash or not; the
  guides' calls return once their clock keeps running; no run and no shared tab of the
  playground's box waits for ever.

Runs that find a disagreement between the code and what it says of itself (details and
quotations under "findings"):

| Run | What happens |
|---|---|
| `dispatch_hold_order` | A queue is paused when unpark looks and resumed when fillBatch looks: jobs in storage overtake parked ones. |
| `pool_tune` | TunePool to a smaller limit reads Len 0, which is not the minimum, and pops the node that the last goroutine has just put back, after planBatch has counted it. The loop finds no node, does not think another worth spawning, and sleeps on its backlog although nobody is busy. |

Other disagreements, each with what shows it:
- `Job` with users `TwoUsers`, storage `Acknowledging` and invariant `AtMostOneReport`: a Close
  passes its status check; the job starts and fails; the Close swaps the ack out between the
  load and the store of `fail` (`job.go:171-174`). Close acknowledges, the worker rejects,
  where `job.go:372` says "at most once".
- `WorkerLifecycle` with `StopOps` and `StopErrorsDocumented`: Stop's CAS from Running fails on
  an Idle worker, a batch makes it Running, the other CASes fail too (`worker_lifecycle.go:60`):
  ErrRunningWorker, and the worker goes on; `worker.go:189-193` documents only
  ErrNotRunningWorker.
- `WorkerLifecycle` with `StartOps` and `CancelStops`: Start launches the loop, the loop sees a
  cancelled context and stores Stopping, Start overwrites it with Idle
  (`worker_lifecycle.go:40-45`): an Idle worker that ignored the cancellation.
- `Credit` with `EveryItemIsReached`, for the first instance of `MCInstances`: a distributed
  queue is popped after bind has signalled (`source.go:477`) and before `subscribed` is set
  (`worker_binder.go:229`, `252`). A full pop that empties it is marked dry, as for a queue nobody
  announces (`source.go:332`), and the one resync it arms ends once `subscribed` is set: later
  items are neither announced nor polled for, where `source.go:256` says "No wake-up is lost".
- The same for the second instance: a lone source is served by the classic loop for its parked
  jobs (`worker_eventloop.go:30`), and a Purge takes these away. The loop finds the storage empty
  and rests with a hint above 0, so that no resync is armed and items of another process are
  not found, where `source_manager.go:142` says that a worker "still finds items no poke
  announced".
- Two Closes of a Finished job whose first report was refused: the second finds no ack and
  closes the job while the first is still in the storage call (`job.go:342` holds for a lone
  Close). Resume answers ErrWorkerPaused when the worker becomes Paused between its CAS and its
  status read (`worker_lifecycle.go:111`).
- `Score` with `SiblingsInOrder`: a `set` that falls inside the lag of a stagger is sorted after
  it, since `ordered` (`heromap/score.ts:316`) goes by the start of the first target, and goes into
  the timeline after a tween that plays after it; lines 9-11 say "Cues are added in time order,
  so the tweens on one property are siblings in the order they play". No page staggers yet.
- `QueueScenes` with scene `handle` and `FreeWorkerTakes`: `advance`
  (`guides-a/queue-handle.ts:108-121`) pulls before it drops the purged rest of a batch. The
  worker that is left free by that drop does not take a waiting job until the next press, where
  line 109 says "A worker that is free takes the waiting jobs into a batch". `NoneLeftWaiting`
  therefore speaks of that scene only until a Purge has reached a job already taken.
- Site, seen while modelling. `guides-b/waiting.ts:324-341`: the click that pauses the clock
  also reaches the handler of the scene, which settles every call of a paused scene: pausing
  moves the scene to its end, where `scene.ts:22-23` says "The pause button toggles it".
  `ops/metrics.ts`: the slider leaves the button with the label of
  the time before it. `bench/explorer.ts`: a hash that is not the explorer's leaves the view as
  it is. `heromap/stores.ts`: a wake on its way to a consumer that crashes makes the dead
  program pull, and a restart before the sweep can overfill the tray; the plans of the site do
  neither. `story`: while the map loads, a move back leaves the old caption lit. `lib/go-play.ts`:
  the link a share leaves while a run compiles is wiped by the run's first write.

Why the bounds are enough to meet the cases.
- `Job`: two closers besides the worker, the producer and the Purge are what a race for the
  ack needs; two refusals let a retry be refused too.
- `WorkerLifecycle`: two batches let one finish while the other is being reserved; two
  callers let each method meet every other half way.
- `Dispatch`: `MaxBatch` = 2 is the smallest batch that can be parked in part, and 4 jobs in
  one batch can be split twice and parked by two nodes. `MaxOwed` = 2 lets a Pause and a
  Resume of the queue be told in either order. `MaxCloses` bounds the jobs the user closes
  in between. `MaxJobs` is more than a batch holds in `dispatch_hold_order`, where order
  between storage and parked list matters.
- `TopicLog`: `Chunk` = 1 makes every append cross a chunk; two publishers race for the
  link; limits 0 and 1 are unbounded and full.
- `Group`: four items are the smallest heap in which `pop` compares two children and still
  has something to put in order afterwards; capacity 1 refuses; two ids in two shards let a
  Purge hold one lock while an add holds the other.
- `Credit`: Init chooses one of the `Instances`, which bound the items, the concurrency and
  whether a topic may be bound beside the queue. One item and one place make full pops that empty
  the queue, and empty ones; two places and a credit of two a short one with an item. Two items
  hold one that is stored beside a job of the topic that runs, is parked or is purged.
  `MaxCalls` = 1 lets every call be overtaken by the loop.
- `Pool`: three nodes let Prune keep one, unlink one below a kept one and meet a push at the
  head; limits 1 and 3 let TunePool remove two; costs 1 and 9 against `SpawnNanos` = 2 make
  another goroutine worth spawning and not. `MaxBatch` = 2 and `MaxJobs` = 3 leave a backlog
  beside a batch.
- `Score`: three calls at two starts overlap in every way that cuts a tween; the starts are a
  stagger's `Gap` apart, so that a `set` falls inside its lag; slices of three cues leave a rest;
  the times to seek to are the start, one inside the first tweens and one near the end.
- `docs`: every bound is a CONSTANT that `MCDocs` gives a value. Three to five jobs fill a
  queue of two, a batch and a parked rest; `MaxPresses` = 3 presses overlap in a guide;
  four jobs and one crash fill the tray of three slots; two plans in a row
  carry idle goroutines and the turn over; the tour has a step with two captions and one with
  one; four lines in two suites let two groups interleave; the explorer's sample has
  three views, ties, a missing cell and names that are prefixes of one another, and three events
  reach every pair of changes and a way back; four clicks let an edit, a run and two shares be
  under way at once, over results that fail, print nothing, print at once and then wait, and wait
  before they print.

Deadlock is checked in `topic_log` and `credit`. In the other runs it is not: with the
bounded jobs all used up and nobody calling, the system rests, and on a page a
plan or a choreography that is refused ends there.

Each property has a mutant in `PROJECT.json`: the model with one plausible slip (a missing
recheck, a plain store for a CAS, an ack not put back) on which TLC finds it violated. The
mutated definitions stand in the modules before the ones they replace, marked "Mutant".
A property made of several parts may have one for more than one part.

### Fairness

Weak fairness for every goroutine that is running: the Go scheduler runs each runnable
goroutine, and worker functions are assumed to return. Strong fairness for acquiring `w.mx`,
`parkMx`, `Log.mx` and `topic.mx`, since Go's mutex hands itself to a waiter it starved for
1 ms, and for the `ctx.Done()` arm of the loop's select, which picks at random among ready
cases. Nobody is assumed to add, call, cancel, pause, publish or purge anything; a call once
made goes on. Timers that are armed fire: the recheck timer of `waitForChange` and the resync
timer of `Credit`, whose storage also keeps its promise to announce. In `Group` the steps
that must go on cannot go on forever, so weak fairness of their disjunction is enough; so it is
in `Credit` for the calls on their way, and for the jobs. In
`docs` a page in view gets its frames (the browser's requestAnimationFrame), and the
simulations of the map fire every timer (their `run` loops until none is left), and the deadlines
and delays of the playground's box pass (an answer is not assumed); no reader is assumed to press
anything. The liveness of the store stage, the story and the first guide's pool is not part of
the run.

## 4. The proofs

Assumptions are the named ASSUMEs of `Job`, `WorkerLifecycle`, `Dispatch`, `TopicLog`, `Group`,
`Credit` and `Pool`: the roles are distinct, bounds are naturals, the sets of actors that are counted
are finite. The theorems hold for any number of users, batches, callers, jobs, refusals,
publishers, subscribers, ids, shards, items and pool nodes, any concurrency, batch size, chunk
size and capacity. Every bound of a model is a constant of its proof.

`JobProofs`.
- `JobTypeCorrect`, `JobReleasedExactlyOnce` rest on `CloseInv`. The property alone is not
  inductive: `Finish` is a plain store, and could overwrite Closed. `WorkerPosition` (the
  status is Processing exactly while the worker is inside a run) excludes it, `DoneIsClosed`
  ties the winner to the status.
- `JobAckNeverLost` adds `AckPosition` (who may hold an ack, by program counter) and
  `AckKept` (the property from the moment fillBatch lets the job through).
- `JobReportsNotRepeated` adds `OneOfEach`: an ack is in at most one of the job, the hands
  and the ledger, and so is a rejection; `NotYet` says that there is none of either before
  the worker sets the ack, and no rejection before a failing run stored its reason. The
  property counts only what is reported, so it does not see a second copy still in a hand.
- `JobAtMostOneReport` concludes, when the worker function cannot fail, that there is one
  report at most (the first of the other disagreements in section 3 shows why the condition is needed).
- `JobImplementsContract`: with `Phase` for the status and `wg` for waiting, every step is a
  step of `JobContract` or leaves it unchanged.

`WorkerLifecycleProofs`.
- `Structure` is the frame: types, which steps each kind of thread may be at (`Roles`),
  who holds `w.mx` by program counter (`Mutex`), the one batch being prepared
  (`Prepares`), the loop during Start (`Launch`), which batches are counted
  (`Counts`), and that a goroutine looking for its next job has one (`HasNext`).
- `LifecycleNothingRunsWhenHalted` adds `HaltInv`. A batch in flight on an Idle worker is
  possible for a moment: a finisher has moved Running to Idle and will move it back.
  `Flight` says that outside that window a batch in flight means Running, Pausing or
  Stopping; `AboutToPause` and `AboutToStore` say that whoever is one step from
  storing Paused or Stopped holds what keeps batches out.
- `LifecyclePausingHasFinisher`: a Pausing worker has a counted batch, a finisher on its way,
  or the Pause itself before its count; each action either keeps the witness or makes one.
- `LifecyclePauseErrorsDocumented` uses `PauseWindow`: a Pause that has failed its CAS from
  Idle cannot find the worker Idle or Running at its end, because only a holder of `w.mx`
  moves Running to Idle, and Pause holds it.

`DispatchProofs`. `DispatchInvariant` is `IInv`, and four properties follow from it:
`JobsAlwaysInOnePlace`, `ParkedAlwaysInOrder`, `PurgeAlwaysExact` and `HeldAlwaysRemembered`.
- `Shape` ties what the loop and the nodes hold to where they are.
- `Ordered` is the order of jobs seen from everywhere at once. `ParkedInOrder` compares parked
  batches only, but a batch in a node's hands will be parked and a batch in the buffer sent,
  so any two pieces of the queue (storage, buffer, batches in hands, parked batches) must be
  `Apart`: the one is before the other by its jobs and by its numbers, where a batch of n jobs
  takes n numbers. That is why `park` may number the rest of a batch from its head's
  number on: splitting a piece leaves the parts inside its interval.
- `NewLast` and `WaitingFresh` give that what waits was added and has not started; `NoneLost`
  that a queued job is in some piece; `Counted` that `nParked` is the number of parked jobs.
- `Reached` and `Doomed` are what a Purge leaves. `PurgeExact` speaks of states, and the job
  may reach them long after the Purge: `Doomed` says that until then it is found only in a
  batch stamped before it, and never past the node's check.
- `HeldKnown` says who is about to remember a held batch: a Pause or Resume that has not told
  the worker yet, the hook, or the holder of `parkMx`.

`TopicLogProofs`. `LogInvariant` is `LInv`, `PositionsAlwaysAgree` follows, and
`LogImplementsFanout` is the refinement: every step of the log is a step of `Fanout` or leaves
it unchanged. `Layout` says that the bases of the chunks are consecutive and the tail is not
behind the head; `Writers` that a slot between its claim and its ready flag has one owner;
`Locks` that a bounded writer is alone and has room until its claim; `Cursors` that chunk,
index and offset agree; `Contents` that a ready slot a reader may still reach holds what
was claimed at its offset. A reader's step is a step of `Fanout` because of the last two.

`HeapProofs`. `PushKeeps` and `PopKeeps`: for a heap of any size, push adds the entry and pop
removes the one that comes first, and both leave a heap with the other entries. `up` and
`down` are loops, written as recursive functions. Two facts stand in for the induction
theorems, whose operator parameters the provers cannot instantiate. `LoopDefined`: a loop has
a function that satisfies its equation, so the definitions define what they seem to. `Least`:
a set of naturals has a least element, so a claim about every round of a loop follows from
looking at the first round at which it would fail.

`GroupProofs`. `GroupInvariant` is `IInv`; `IdsAlwaysMatch`, `ChannelAlwaysSound` and the
action property `TakesAlwaysFirst` follow.
- `Adders`, `Known`, `Stored` and `Hands` are the frame: where an AddAll is, and that each
  member is in one place. `Sorted` is the order of the storage, the heap's from `HeapProofs`.
- `Counted` and `LastAlone`: the group's counter is the number of members that have not
  been counted off, so the one that takes it to zero finds all others at their end. `ChannelSound` alone
  is not inductive: it does not say that nobody else can still write or close.
- `Purging`: which shard locks the Purge holds, and that what has an id while it resets the
  set is in a shard it has left. `Holders`: an id has one holder at most and is in the
  set while it has one, short of the race that `raced` marks. `NoLeak`: an id in the set has a
  holder or is about to be reset, in any case.

`CreditProofs`. `WakeInvariant` is `IInv`, `NoWakeUpLost` the property `PokesAreHeard`. The
property speaks of a loop that rests. Its strengthening follows a poke to there. It has two
exceptions, needed as section 3 shows (`EveryItemIsReached`): `missed` (what binding
a distributed queue misses) and `pass` = "purged" (a Purge under a classic pass). `HintHeard`:
a loop that waits, or will wait whatever the hint says, has a poke, a signal or a sender of one
behind a hint that is set. `DryIsTrue`: the dry mark means no poke since the storage was asked and
nothing left then, also while a pass is between its answer and its mark. `SomeoneLooks`: an item
stored behind a dry mark will be noticed, by the announcement the storage owes or by the
resync. `ParkedHeard`: a loop that rests beside parked jobs has a running job or a signal to
come, and one that rests on a hint above 0 had a classic pass for parked jobs, whose end
signals. `Counted`: every item is in one place, so no count outgrows them.

`PoolProofs`. `PoolInvariant` is `IInv`; `Accounted` (`NodesAccounted`), `Served` (`OneServes`),
`ExpiryWakes` (`ExpiryKeepsOne`) and `StopsAll` (`StoppedLeavesNone`) follow. `IInv` was checked by TLC
on the instance of run `pool` before it was proved. None of the four is inductive alone: they
see a list, and a step sees one pointer of it.
- `Types`, `HandsFit`, `MutexHeld` and `CountFits` are the frame: which thread has a node and a
  batch in hand at which step, and who holds `popMx`.
- `Located(loc, r, n)` has two witnesses. `loc` gives each node one place, and each part of the
  state (cache, channels, hands, goroutines, pruned nodes) agrees with it. `r` ranks the nodes of
  the stack from 1 at the bottom to `n` at the head, and a link leads to the rank below. The
  rank stands in for induction along the list: every push, pop and unlinking changes
  it in a known way (`ChainPush`, `ChainPop`, `ChainDrop`), and `StackFacts` shows once that
  `From(head)`, the list as the properties read it, is the ranked one.
- `SeenStands` is why the swap of PopBack is right without a version count: the link it loaded
  still stands, because nobody else takes a node off while it holds `popMx`, and a push does not
  write a link inside the list. `WalkStands` is the same for Prune: the node it looks
  at and the one it kept last are in the list, one above the other, with more nodes below than it
  may remove.
- `LenFits`, `CurFits`, `QueueFits` and `BusyFits` say what the counters count. A sum of batches
  is the cardinality of a set of pairs (`Units`), so that moving a batch from the loop to a
  channel to a goroutine is a change of two summands.
- `StopFits` follows Stop to its end: from the moment Drain has read a zero processing count
  there is no batch anywhere (this needs `CurFits`), and the drained stack is empty when no pop
  finds a node. `StoppedLeavesNone` would not survive a goroutine that could still push.
- `ExpiryFits`: with idle expiry no TunePool removes nodes, and a worker that is up has a
  node in use, because Prune leaves the bottom ones. `WakeFits` is `ExpiryKeepsOne` from the
  step on at which the loop decides to rest, where it is not at its select yet. Without
  idle expiry it is false, which run `pool_tune` shows.

Only model-checked:
- everything under fairness (`EventuallyReleased`, `NoLostWakeup`, `HaltsComplete`,
  `NoneForgotten`, `NobodyLeftBehind`, `GroupsComplete`, `ItemsAreReached`, `AllEnds`):
  liveness and ENABLED are out of this prover's reach;
- `WaitDrains`, which sums over batches, `NoMissedBroadcast` and `StartsInOrder`;
- `PlaysAsScored`: sorting and searching sequences of any length needs induction over data;
- the pages: `Guides`, `WorkerSim`, `QueueScenes` and `StoreScene` use RECURSIVE operators, with
  which this prover loses its arithmetic, and the properties of the run are those of
  `MCDocs`, which reaches all pages. They show the library and are not part of it.

## 5. Not modelled

- Measured times: `Pool` takes any of a few costs, `WorkerLifecycle` chooses freely.
- Results, errors, JSON, names, metrics, HTTP formatting, instance reports.
- The storage behind persistent and distributed queues lives in other repositories; `Job`
  and `Credit` model it by its answers.
- Several sources per worker, what `NumPending` counts of a pop under way (`unspent`) and a
  Stop during one.
- Of the site: `heromap/choreo.ts`, `chapters.ts`, `render.ts` and `scene.ts`, `home/scenes.ts`
  and `mini.ts` place shapes and call the score with literal numbers; they keep no state of their
  own, and what they ask of the score and the simulations is covered by the free inputs of
  `Score`, `HeroPool` and `HeroStores`. Tables of text, Go highlighting, Markdown export and
  code folding are conversions of strings without state. Styles, Astro templates and the
  benchmark programs under `bench/` are not code of the system.

## 6. Plan

Done: the job, the lifecycle, batched dispatch, the log and its topics, credit dispatch,
AddAll with ids and priorities, the pool, the pages of the site; proofs about `Job`,
`WorkerLifecycle`, `Dispatch`, `TopicLog` with its refinement of `Fanout`, `Heap`, `Group`,
`Credit` and `Pool`. Next, in this order:

1. `Sources`: several sources, the strategies, add and remove while the loop picks (`HeroPool`
   has the strategies as the site shows them).
2. `Credit`, continued: `unspent` against `NumPending`, Stop during a pop.
