------------------------------- MODULE MCDocs -------------------------------
(***************************************************************************)
(* The pages of the documentation site for TLC.  A behaviour is a visit to *)
(* one page, chosen at first: the pages share nothing but the tab they are *)
(* opened in, so one set of variables serves them all.  Slot k is variable *)
(* k of the page's module, in the order it declares them; a page leaves    *)
(* the slots it has no use for alone.                                      *)
(***************************************************************************)
EXTENDS Explorer, BenchSample

CONSTANTS NoJob, NoCtx

VARIABLES page, v1, v2, v3, v4, v5, v6, v7, v8, v9, v10, v11, v12

slots == <<v1, v2, v3, v4, v5, v6, v7, v8, v9, v10, v11, v12>>
docVars == <<page, slots, vars>>
Off   == "off"

G == INSTANCE Guides WITH
        scene <- v1, reduce <- v2, clk <- v3, page <- v4, presses <- v5,
        Batch <- 3, Scenes <- {"waiting", "concurrency", "idle", "tests"}, Dur <- 3,
        StepTicks <- 2, SettleMax <- 30, Arrive <- 2, QueueCap <- 2, ShowQueue <- 1,
        ShowParked <- 1, StartJobs <- 2, AddSizes <- {2}, Limits <- {1, 2, 3}, Ratios <- {0, 50},
        Expiry <- 2, MaxJobs <- 4, TestJobs <- 3, MaxPresses <- 3

S == INSTANCE StoreScene WITH
        st <- v1, reduce <- v2,
        Show <- 2, Start <- 2, AddN <- 2, Ids <- 6, MaxWaits <- 4

P == INSTANCE HeroPool WITH
        pool <- v1, strategy <- v2, flags <- v3, wakes <- v4, runs <- v5, toLand <- v6,
        controls <- v7, plan <- v8, refused <- v9, passed <- v10,
        NumSources <- 2, Jobs <- {1, 2, 3}, rank <- (1 :> 1) @@ (2 :> 0) @@ (3 :> 1),
        ByPriority <- {2}, MaxLimit <- 2, MaxControls <- 2, Plans <- 2

D == INSTANCE HeroStores WITH
        kind <- v1, store <- v2, dones <- v3, acks <- v4, deaths <- v5, toLand <- v6,
        program <- v7, redis <- v8, taker <- v9, down <- v10, rows <- v11, acked <- v12,
        Slots <- 3, Jobs <- {1, 2, 3, 4}, Kinds <- {"sqlite", "redis"},
        Crew <- [sqlite |-> {"sqlite"}, redis |-> {"b", "c"}],
        Limit <- [sqlite |-> 2, b |-> 2, c |-> 1], NotifyOrder <- <<"b", "c">>

Q == INSTANCE QueueScenes WITH
        scene <- v1, s <- v2, timers <- v3, reduce <- v4,
        Scenes <- {"handle", "order", "picker", "compare", "wrap", "types"},
        Capacities <- {0, 2}, Priorities <- {1, 10}, StartLens <- <<2, 1, 1>>, MaxJobs <- 3

A == INSTANCE StorageScenes WITH
        scene <- v1, s <- v2, hist <- v3,
        Scenes <- {"redis", "sqlite", "ack", "metrics"}, First <- <<7, 8, 9>>, Heartbeat <- 2,
        DistBack <- 1, MaxT <- 3, MaxRuns <- 2, End <- 3

L == INSTANCE LearnPool WITH
        m <- v1,
        Limits <- {1, 2, 3}, JobTimes <- {1, 2}, Nanos <- 3, SpawnNanos <- 2, HandoffGap <- 8,
        MaxBatch <- 2, Adds <- {1, 3}, MaxLate <- 1, MaxJobs <- 5

C == INSTANCE Score WITH
        tracks <- v1, cues <- v2, finished <- v3, phase <- v4, timeline <- v5, chains <- v6,
        calls <- v7, playhead <- v8, drawn <- v9, base <- v10, clean <- v11,
        Declared <- {<<1, <<<<"opacity", <<<<0>>>>>>, <<"scale", <<<<0>>>>>>>>>>,
                     <<2, <<<<"opacity", <<<<0>>>>>>, <<"pos", <<<<0>>, <<0>>>>>>>>>>,
                     <<2, <<<<"opacity", <<<<1>>>>>>>>>>},
        Tweens <- {<<1, <<<<"opacity", <<<<1>>>>>>>>, <<>>>>,
                   <<1, <<<<"scale", <<<<2>>>>>>, <<"opacity", <<<<0>>>>>>>>,
                        <<<<"scale", <<<<1>>>>>>>>>>},
        Staggers <- {<<<<1, 2>>, "opacity", <<<<1>>>>>>},
        Sets <- {<<x, <<<<"opacity", <<<<0>>>>>>>>>> : x \in {1, 2}},
        Moves <- {<<2, <<<<<<1>>, <<0>>>>, <<<<1>>, <<1>>>>>>>>},
        Places <- {<<2, <<<<1>>, <<0>>>>>>},
        Starts <- {2, 4}, Duration <- 8, Gap <- 2, total <- 12, SLICE <- 3, MaxCalls <- 3,
        Times <- {0, 3, 11}

T == INSTANCE Story WITH
        s <- v1, reduce <- v2, bottom <- v3,
        Steps <- <<[from |-> 6, ms |-> 4, captions |-> <<1, 3>>],
                   [from |-> 3, ms |-> 3, captions |-> <<0>>]>>,
        Total <- 7, StaticAt <- 4, Bottoms <- {7, 8}

B == INSTANCE BenchData WITH
        inHand <- v1, phase <- v2, lines <- v3, rows <- v4, ds <- v5, datasets <- v6, runs <- v7,
        claimed <- v8,
        Suites <- <<<<8>>, <<4>>>>,
        Rows <- {[id |-> "g1", subject |-> x, cols |-> "rate", procs |-> 8] : x \in {"a", "b"}}
                \cup {[id |-> "g1", subject |-> "b", cols |-> "memory", procs |-> 8],
                      [id |-> "g2", subject |-> "a", cols |-> "rate", procs |-> 8],
                      [id |-> "g2", subject |-> "a", cols |-> "rate", procs |-> 4],
                      [id |-> "g3", subject |-> "a", cols |-> "rate", procs |-> 8]},
        Unexpected <- {"g3"}, Dates <- {"day 1", "day 2"}, Claims <- {{1, 3}, {2}}, MaxLines <- 4

R == INSTANCE GoPlay WITH
        box <- v1, run <- v2, btn <- v3, out <- v4, shares <- v5, copy <- v6, clicks <- v7,
        Edits <- {"original", "edited"}, MaxClicks <- 4,
        Results <- {[errors |-> TRUE, delays |-> <<>>]}
                   \cup {[errors |-> FALSE, delays |-> d] : d \in {<<>>, <<0, 1>>, <<1, 0, 1>>}}

NoExplorer ==
    states = Off /\ dom = Off /\ last = Off /\ ctl = Off /\ stops = Off /\ nav = Off /\ url = Off /\ events = Off

DocsInit ==
    \/ /\ page = "guides" /\ G!Init /\ NoExplorer
       /\ v6 = Off /\ v7 = Off /\ v8 = Off /\ v9 = Off /\ v10 = Off /\ v11 = Off /\ v12 = Off
    \/ /\ page = "store" /\ S!Init /\ NoExplorer
       /\ v3 = Off /\ v4 = Off /\ v5 = Off /\ v6 = Off /\ v7 = Off /\ v8 = Off /\ v9 = Off /\ v10 = Off /\ v11 = Off /\ v12 = Off
    \/ /\ page = "pool" /\ P!Init /\ NoExplorer
       /\ v11 = Off /\ v12 = Off
    \/ /\ page = "stores" /\ D!Init /\ NoExplorer
    \/ /\ page = "queues" /\ Q!Init /\ NoExplorer
       /\ v5 = Off /\ v6 = Off /\ v7 = Off /\ v8 = Off /\ v9 = Off /\ v10 = Off /\ v11 = Off /\ v12 = Off
    \/ /\ page = "storage" /\ A!Init /\ NoExplorer
       /\ v4 = Off /\ v5 = Off /\ v6 = Off /\ v7 = Off /\ v8 = Off /\ v9 = Off /\ v10 = Off /\ v11 = Off /\ v12 = Off
    \/ /\ page = "learn" /\ L!Init /\ NoExplorer
       /\ v2 = Off /\ v3 = Off /\ v4 = Off /\ v5 = Off /\ v6 = Off /\ v7 = Off /\ v8 = Off /\ v9 = Off /\ v10 = Off /\ v11 = Off /\ v12 = Off
    \/ /\ page = "score" /\ C!Init /\ NoExplorer
       /\ v12 = Off
    \/ /\ page = "story" /\ T!Init /\ NoExplorer
       /\ v4 = Off /\ v5 = Off /\ v6 = Off /\ v7 = Off /\ v8 = Off /\ v9 = Off /\ v10 = Off /\ v11 = Off /\ v12 = Off
    \/ /\ page = "bench" /\ B!Init /\ NoExplorer
       /\ v9 = Off /\ v10 = Off /\ v11 = Off /\ v12 = Off
    \/ /\ page = "play" /\ R!Init /\ NoExplorer
       /\ v8 = Off /\ v9 = Off /\ v10 = Off /\ v11 = Off /\ v12 = Off
    \/ /\ page = "explorer" /\ Init
       /\ v1 = Off /\ v2 = Off /\ v3 = Off /\ v4 = Off /\ v5 = Off /\ v6 = Off /\ v7 = Off /\ v8 = Off /\ v9 = Off /\ v10 = Off /\ v11 = Off /\ v12 = Off

DocsNext ==
    \/ page = "guides" /\ G!Next /\ UNCHANGED <<page, v6, v7, v8, v9, v10, v11, v12, vars>>
    \/ page = "store" /\ S!Next /\ UNCHANGED <<page, v3, v4, v5, v6, v7, v8, v9, v10, v11, v12, vars>>
    \/ page = "pool" /\ P!Next /\ UNCHANGED <<page, v11, v12, vars>>
    \/ page = "stores" /\ D!Next /\ UNCHANGED <<page, vars>>
    \/ page = "queues" /\ Q!Next /\ UNCHANGED <<page, v5, v6, v7, v8, v9, v10, v11, v12, vars>>
    \/ page = "storage" /\ A!Next /\ UNCHANGED <<page, v4, v5, v6, v7, v8, v9, v10, v11, v12, vars>>
    \/ page = "learn" /\ L!Next /\ UNCHANGED <<page, v2, v3, v4, v5, v6, v7, v8, v9, v10, v11, v12, vars>>
    \/ page = "score" /\ C!Next /\ UNCHANGED <<page, v12, vars>>
    \/ page = "story" /\ T!Next /\ UNCHANGED <<page, v4, v5, v6, v7, v8, v9, v10, v11, v12, vars>>
    \/ page = "bench" /\ B!Next /\ UNCHANGED <<page, v9, v10, v11, v12, vars>>
    \/ page = "play" /\ R!Next /\ UNCHANGED <<page, v8, v9, v10, v11, v12, vars>>
    \/ page = "explorer" /\ Next /\ UNCHANGED <<page, slots>>

\* The fairness of each page's own specification: the browser gives a page in view
\* its frames and fires its timeouts, the simulations run every timer.
Fairness ==
    /\ WF_docVars(page = "guides" /\ G!Frame /\ UNCHANGED <<page, v6, v7, v8, v9, v10, v11, v12, vars>>)
    /\ WF_docVars(page = "pool" /\ ~v9 /\ P!Timers /\ UNCHANGED <<page, v11, v12, vars>>)
    /\ WF_docVars(page = "stores" /\ ~v2.refused /\ D!Timers /\ UNCHANGED <<page, vars>>)
    /\ WF_docVars(page = "play" /\ R!Due /\ UNCHANGED <<page, v8, v9, v10, v11, v12, vars>>)

DocsSpec == DocsInit /\ [][DocsNext]_docVars /\ Fairness

-----------------------------------------------------------------------------
\* No scene loses, doubles or invents a job: in the guides' simulator, the store
\* stage, the map's pool and stores, the queue and storage scenes and the pool of
\* the first guide a job is in one place, a ring or a slot holds one job, and what
\* a crash puts back is what was running.
JobsKept ==
    /\ page = "guides"  => G!SimSound
    /\ page = "store"   => S!InFlightIsRunning
    /\ page = "pool"    => P!RingsSound
    /\ page = "stores"  => D!RecordsSound /\ D!WriteOrder
    /\ page = "queues"  => Q!JobsOnce
    /\ page = "storage" => A!KeptUntilAcked
    /\ page = "learn"   => L!PoolSound

\* A job that could be handed out has something on its way that will hand it out:
\* the wake-ups the simulations drop or spend are never the last ones; round robin
\* starves no source; and no idle worker leaves a job waiting in the scene of the two
\* queues, nor in that of the handle before Purge has reached a job already taken.
NoneStuck ==
    /\ page = "pool"   => P!WakeNotLost /\ P!NoneStarved
    /\ page = "stores" => D!WakeComes /\ D!NeverRefused
    /\ page = "queues" => Q!NoneLeftWaiting
    /\ page = "guides" => G!KeepsTheShare

\* The flags and the timers of a scene agree, whatever was pressed while they ran:
\* no flag waits for a timeout or a timeline that is gone, and no timeout of an
\* earlier round is left to act on the next one.
TimersMatch ==
    /\ page = "queues" => Q!TimersMatch
    /\ page = "store"  => S!FlagsHonest
    /\ page = "guides" => G!ClockArmed
    /\ page = "play"   => R!ButtonsSettle

\* What is on the page is what its state says, although each skips redraws: the
\* guides by a signature, the explorer by drawing only the panel that changed, the
\* tour by moving only what its position touches, the playground's box by clearing
\* its output only on the first write of a run.
ShowsItsState ==
    /\ page = "guides"   => G!ViewFresh /\ G!ReturnsAsHinted
    /\ page = "explorer" => PanelsFresh /\ OneShown
    /\ page = "story"    => T!StoryAgrees /\ T!IntroRuns
    /\ page = "play"     => R!OutputWhole /\ R!FocusKept

\* The hash the explorer writes opens the same view with the same filters.
UrlKept == page = "explorer" => UrlReopens

\* The `go test' command on show runs exactly the benchmarks on show, the figures
\* are of the rows they stand beside, and the build links each group of results
\* to exactly the lines of the file it came from.
BenchExact ==
    /\ page = "explorer" => CommandExact /\ FiguresAgree
    /\ page = "bench"    => B!LinksExact

\* Wherever the reader's seeks, the play and the rewinds have taken the map, it shows
\* the values its score's tracks have at that time.
PlaysAsScored == page = "score" => C!PlaysAsScored

\* No step may break these: in a store only an ack forgets a job, a job starts
\* again only after its storage put it back, and a halted simulation starts none.
StepsKeep ==
    [][/\ page = "store"   => S!OnlyAckForgets
       /\ page = "storage" => A!RunsAgainOnlyIfBack
       /\ page = "guides"  => G!HaltsHold]_docVars

\* The simulations end: every job of the map's pool is run unless the plan leaves
\* it paused or stopped, every job of a store is acknowledged although a program
\* crashed, and a guide's WaitUntil call returns once its clock keeps running; and no
\* run or shared tab of a guide waits for a playground that never answers.
AllEnds ==
    /\ <>[](page = "pool" => P!AllRun)
    /\ <>[](page = "stores" => D!AllAcked)
    /\ <>[](page = "play" => R!Settled)
    /\ <>[](page = "guides" => G!ClockRuns) => <>[](page = "guides" => G!WaitsReturn)
=============================================================================
