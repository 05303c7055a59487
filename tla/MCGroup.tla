------------------------------ MODULE MCGroup ------------------------------
(* Group for TLC: two callers of AddAll on a FIFO; a heap of four items. *)
EXTENDS Group, TLC

CONSTANTS p1, p2, t1, t2, a, b

TwoProducers == {p1, p2}
TwoTakers    == {t1, t2}
TwoIds       == {a, b}
OwnShards    == a :> 1 @@ b :> 2

Setup(heap, capacity, n1, n2) ==
    [heap |-> heap, capacity |-> capacity, size |-> p1 :> n1 @@ p2 :> n2]

SmallSetups ==
    {Setup(FALSE, 0, 2, 1), Setup(FALSE, 1, 1, 1), Setup(TRUE, 0, 4, 0), Setup(TRUE, 1, 2, 0)}
=============================================================================
