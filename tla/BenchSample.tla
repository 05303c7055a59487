---------------------------- MODULE BenchSample ----------------------------
(* A small set of benchmark results for the explorer: a pool suite on two    *)
(* machines, Redis's three tests, and the WAL suite.  Names that contain one *)
(* another (Loop10 and Loop10K, 100 and 100u), ties, baselines and groups    *)
(* that only one dataset has are all in it.                                  *)
EXTENDS Naturals, TLC

Row(x, a, b) == [subject |-> x, val |-> [rate |-> a, memory |-> b]]
PoolGroup(t, w, rows) == [key |-> [task |-> t, workers |-> w, shape |-> "1u"], rows |-> rows]
Wal(s, k, rows)  == [key |-> [scenario |-> s, ckpt |-> k], rows |-> rows]
WalRow(x, a, b)  == [subject |-> x, val |-> [rate |-> a, wal |-> b]]
LatRow(x, a)     == [subject |-> x, val |-> [p50 |-> a, p99 |-> a + 1, max |-> a + 2]]

TheViews == <<[id |-> "pool-all", suite |-> "pool", sources |-> <<"p8", "p4">>],
              [id |-> "redis", suite |-> "redis", sources |-> <<"redis">>],
              [id |-> "sqlite", suite |-> "sqlite", sources |-> <<"sqlite">>]>>

S8 == <<PoolGroup("Loop10", "1", <<Row("VarMQ", 5, 3), Row("Ants", 4, 3), Row("BufferedPool", 9, 1)>>),
        PoolGroup("Loop10", "100K", <<Row("VarMQ", 5, 3), Row("Ants", 6, 2), Row("BufferedPool", 2, 4)>>),
        PoolGroup("Loop10K", "1", <<Row("Ants", 7, 1), Row("VarMQ", 7, 2), Row("BufferedPool", 1, 9)>>)>>
S4 == <<S8[1], S8[3]>>
Rd == <<[key |-> [test |-> "durable", task |-> "Noop", workers |-> "10", instances |-> "1", shape |-> "1u"],
         rows |-> <<Row("VarMQ", 3, 3), Row("Asynq", 2, 5), Row("VarMQD", 3, 4)>>],
        [key |-> [test |-> "durable", task |-> "Sleep1ms", workers |-> "100", instances |-> "4", shape |-> "100u"],
         rows |-> <<Row("Asynq", 4, 5), Row("VarMQD", 3, 4)>>],
        [key |-> [test |-> "enqueue", shape |-> "1u"], rows |-> <<Row("VarMQ", 3, 3), Row("Asynq", 2, 5)>>],
        [key |-> [test |-> "latency", workers |-> "10", instances |-> "1", shape |-> "1K"],
         rows |-> <<LatRow("VarMQ", 3), LatRow("Asynq", 2)>>]>>
W  == <<Wal("Drain1Q", "1000", <<WalRow("VarMQ", 4, 4), WalRow("Goqite", 3, 4)>>),
        Wal("Drain1Q", "10000", <<WalRow("VarMQ", 3, 4), WalRow("Goqite", 3, 4)>>)>>
TheGroups == [p8 |-> S8, p4 |-> S4, redis |-> Rd, sqlite |-> W]

TheKinds == [VarMQ |-> "varmq", VarMQD |-> "varmq", Ants |-> "lib", Asynq |-> "lib",
             Goqite |-> "lib", BufferedPool |-> "baseline"]
TheNames == <<"Ants", "Asynq", "BufferedPool", "Goqite", "VarMQ", "VarMQD">>

TheSpelling ==
    [v \in {"Loop10", "Loop10K", "1", "100K", "1u", "100u", "1K", "Noop", "Sleep1ms", "10", "100", "4",
            "Drain1Q", "1000", "10000"} |->
        CASE v = "Loop10K" -> <<"Loop10", "K">>
          [] v = "100K"    -> <<"1", "00K">>
          [] v = "100u"    -> <<"10", "0u">>
          [] v = "100"     -> <<"10", "0">>
          [] v = "10000"   -> <<"1000", "0">>
          [] OTHER         -> <<v>>]

TheLinks == {"view" :> "redis" @@ "test" :> "latency",
             "task" :> "Loop10K" @@ "workers" :> "100K",
             "view" :> "redis" @@ "task" :> "Sleep1ms" @@ "instances" :> "4" @@ "workers" :> "7",
             "anchor" :> "method"}
=============================================================================
