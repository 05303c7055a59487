------------------------------ MODULE MCPool ------------------------------
(* Instances of Pool for TLC. *)
EXTENDS Pool, TLC

CONSTANTS e1, e2, e3, g1, g2, g3, c1
ThreeElems == {e1, e2, e3}
ThreeGoroutines == {g1, g2, g3}
OneCaller == {c1}

\* Elems and goroutines are interchangeable.
Symmetric == Permutations(ThreeElems) \cup Permutations(ThreeGoroutines)
============================================================================
