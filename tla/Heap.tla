-------------------------------- MODULE Heap --------------------------------
(***************************************************************************)
(* The binary min-heap under the priority queue (internal/queues/heap.go), *)
(* on sequences.  Positions count from 0, as in the code.                  *)
(***************************************************************************)
EXTENDS Naturals, Sequences

CONSTANT Entries   \* what a heap stores: records with prio and index, among others

\* Lower priority first, then lower insertion index.
before(a, b) == a.prio < b.prio \/ (a.prio = b.prio /\ a.index < b.index)

less(s, i, j) == before(s[i + 1], s[j + 1])
swap(s, i, j) == [s EXCEPT ![i + 1] = s[j + 1], ![j + 1] = s[i + 1]]

Parent(j) == IF j = 0 THEN 0 ELSE (j - 1) \div 2

up[j \in Nat] == [s \in {t \in Seq(Entries) : j < Len(t)} |->
    IF Parent(j) = j \/ ~less(s, j, Parent(j)) THEN s
    ELSE up[Parent(j)][swap(s, j, Parent(j))]]

\* Mutant of Child: the right child is never looked at.
LeftChild(s, i, n) == 2 * i + 1

\* The child of i among the first n that must pop first.
Child(s, i, n) ==
    LET j == 2 * i + 1 IN IF j + 1 < n /\ less(s, j + 1, j) THEN j + 1 ELSE j

down[i \in Nat] == [n \in Nat |-> [s \in {t \in Seq(Entries) : i < Len(t) /\ n <= Len(t)} |->
    IF 2 * i + 1 >= n \/ ~less(s, Child(s, i, n), i) THEN s
    ELSE down[Child(s, i, n)][n][swap(s, i, Child(s, i, n))]]]

push(s, x) == up[Len(s)][Append(s, x)]

\* The heap once its minimum, s[1], is gone.
pop(s) ==
    LET n == Len(s) - 1 IN SubSeq(down[0][n][swap(s, 0, n)], 1, n)
=============================================================================
