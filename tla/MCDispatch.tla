----------------------------- MODULE MCDispatch -----------------------------
(* Dispatch for TLC: one or two pool nodes, which are interchangeable. *)
EXTENDS Dispatch, TLC

CONSTANTS x1, x2

OneNode == {x1}
TwoNodes == {x1, x2}
Symmetric == Permutations({x1, x2})
=============================================================================
