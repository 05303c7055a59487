------------------------------ MODULE MCCredit ------------------------------
(***************************************************************************)
(* Credit for TLC: a distributed queue of one item; a persistent queue     *)
(* beside a topic, with a job of the topic that may be parked; and a       *)
(* persistent queue on a worker that is tuned.                             *)
(***************************************************************************)
EXTENDS Credit

Instance(d, alone, items, limits) ==
    [distributed |-> d, alone |-> alone, items |-> items, limits |-> limits]

MCInstances ==
    {Instance(TRUE, TRUE, 1, {1}),
     Instance(FALSE, FALSE, 2, {1}), Instance(FALSE, TRUE, 1, {1, 2})}
=============================================================================
