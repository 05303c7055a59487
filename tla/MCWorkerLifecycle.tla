------------------------- MODULE MCWorkerLifecycle -------------------------
(* WorkerLifecycle for TLC: small sets of batches, callers and methods. *)
EXTENDS WorkerLifecycle, TLC

CONSTANTS b1, b2, c1, c2

OneBatch == {b1}
TwoBatches == {b1, b2}
OneCaller == {c1}
TwoCallers == {c1, c2}
Symmetric == Permutations({b1, b2}) \cup Permutations({c1, c2})

PauseOps == {"Pause", "Resume", "Wait"}
StopOps == {"Stop", "Start"}
StartOps == {"Start"}
AnyOp == AllOps
============================================================================
