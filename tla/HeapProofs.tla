----------------------------- MODULE HeapProofs -----------------------------
(***************************************************************************)
(* The heap of any size is a heap: push and pop keep its entries, its      *)
(* order, and pop removes the entry that comes first.                      *)
(*                                                                         *)
(* up and down are loops written as recursive functions.  Two facts make   *)
(* them provable.  A loop has a function that satisfies its equation,      *)
(* whether it ends or not (LoopDefined), so the recursive definitions      *)
(* define what they seem to.  And a set of naturals has a least element    *)
(* (Least, from the well-foundedness of < that WellFoundedInduction        *)
(* states), so a claim about every round follows from the first round at   *)
(* which it would fail.                                                    *)
(***************************************************************************)
EXTENDS Heap, WellFoundedInduction, TLAPS

\* A set of naturals that is not empty has a least element: induction, as a fact
\* about sets.
LEMMA Least ==
    ASSUME NEW T \in SUBSET Nat, T # {}
    PROVE  \E m \in T : \A k \in T : m <= k
<1> DEFINE R == OpToRel(<, Nat)
<1>1. IsWellFoundedOn(R, Nat)
  BY NatLessThanWellFounded
<1>2. \A x, y \in Nat : <<y, x>> \in R <=> y < x
  BY DEF OpToRel
<1> HIDE DEF R
<1>3. PICK m \in T : \A k \in T : ~ (<<k, m>> \in R)
  BY <1>1, WFMin, Zenon
<1>4. \A k \in T : ~ (k < m)
  BY <1>2, <1>3, Zenon
<1>5. \A i, k \in Nat : ~ (k < i) => i <= k
  OBVIOUS
<1> QED BY <1>4, <1>5, Zenon

\* A loop over the states X that leaves at Ends and goes on at step[x] elsewhere,
\* and a function that is its result.
IsLoop(X, Ends, step)    == \A x \in X : x \notin Ends => step[x] \in X
Result(f, X, Ends, step) == \A x \in X : f[x] = IF x \in Ends THEN x ELSE f[step[x]]

\* Every loop has one.
LEMMA LoopDefined ==
    ASSUME NEW X, NEW Ends, NEW step, IsLoop(X, Ends, step)
    PROVE  \E f : Result(f, X, Ends, step)
<1> DEFINE Closed(C) == \A y \in C \ Ends : step[y] \in C
           Outcome(x) == {e \in X \cap Ends : \A C \in SUBSET X : x \in C /\ Closed(C) => e \in C}
           f == [x \in X |-> CHOOSE e : e \in Outcome(x)]
<1>1. ASSUME NEW x \in X, x \in Ends PROVE Outcome(x) = {x}
  <2>1. Closed({x}) /\ {x} \in SUBSET X
    BY <1>1
  <2> QED BY <1>1, <2>1
<1>2. ASSUME NEW x \in X, x \notin Ends PROVE Outcome(x) = Outcome(step[x])
  <2>1. step[x] \in X
    BY <1>2 DEF IsLoop
  <2>2. ASSUME NEW e \in Outcome(step[x]), NEW C \in SUBSET X, x \in C, Closed(C) PROVE e \in C
    BY <1>2, <2>2
  <2>3. ASSUME NEW e \in Outcome(x), NEW C \in SUBSET X, step[x] \in C, Closed(C) PROVE e \in C
    <3>1. Closed(C \cup {x}) /\ C \cup {x} \in SUBSET X
      BY <2>3
    <3>2. e \in C \cup {x} /\ e \in Ends
      BY <2>3, <3>1
    <3> QED BY <1>2, <3>2
  <2> HIDE DEF Closed
  <2> QED BY <2>1, <2>2, <2>3
<1> HIDE DEF Outcome
<1>3. ASSUME NEW x \in X PROVE f[x] = IF x \in Ends THEN x ELSE f[step[x]]
  <2>1. CASE x \in Ends
    <3>1. (CHOOSE e : e \in {x}) = x
      OBVIOUS
    <3> QED BY <1>1, <2>1, <3>1
  <2>2. CASE x \notin Ends
    BY <1>2, <2>2 DEF IsLoop
  <2> QED BY <2>1, <2>2
<1> HIDE DEF f
<1> QED BY <1>3 DEF Result

-----------------------------------------------------------------------------
(* Swaps *)

\* A parent is nearer the root.
LEMMA ParentIn ==
    /\ \A j \in Nat : Parent(j) \in Nat /\ Parent(j) <= j
    /\ \A j \in Nat : Parent(j) = j <=> j = 0
    /\ \A j \in Nat \ {0} : Parent(j) < j /\ (j = 2 * Parent(j) + 1 \/ j = 2 * Parent(j) + 2)
  BY DEF Parent

\* ... and so within the same bound.
LEMMA ParentBelow ==
    ASSUME NEW n \in Nat, NEW k \in 1 .. n - 1
    PROVE  Parent(k) \in 0 .. n - 1 /\ Parent(k) < k
<1>1. k \in Nat \ {0}
  OBVIOUS
<1>2. Parent(k) \in Nat /\ Parent(k) < k
  BY <1>1, ParentIn, Zenon
<1> QED BY <1>2

\* Parent is the inverse of the two children.
LEMMA ParentOf ==
    /\ \A i \in Nat : Parent(2 * i + 1) = i /\ Parent(2 * i + 2) = i
    /\ \A i \in Nat, k \in Nat \ {0} : Parent(k) = i => k = 2 * i + 1 \/ k = 2 * i + 2
<1>1. ASSUME NEW i \in Nat PROVE Parent(2 * i + 1) = i /\ Parent(2 * i + 2) = i
  BY DEF Parent
<1>2. ASSUME NEW i \in Nat, NEW k \in Nat \ {0}, Parent(k) = i
      PROVE  k = 2 * i + 1 \/ k = 2 * i + 2
  BY <1>2, ParentIn
<1> QED BY <1>1, <1>2

\* Two entries change places.
LEMMA SwapIn ==
    ASSUME NEW s \in Seq(Entries), NEW i \in Nat, NEW j \in Nat, i < Len(s), j < Len(s)
    PROVE  /\ swap(s, i, j) \in Seq(Entries)
           /\ Len(swap(s, i, j)) = Len(s)
           /\ \A k \in 1 .. Len(s) :
                swap(s, i, j)[k] = s[IF k = i + 1 THEN j + 1 ELSE IF k = j + 1 THEN i + 1 ELSE k]
<1>1. i + 1 \in 1 .. Len(s) /\ j + 1 \in 1 .. Len(s)
  OBVIOUS
<1> QED BY <1>1 DEF swap

\* ... by positions that count from 0.
LEMMA SwapAt ==
    ASSUME NEW s \in Seq(Entries), NEW i \in Nat, NEW j \in Nat, i < Len(s), j < Len(s), i # j
    PROVE  /\ swap(s, i, j)[i + 1] = s[j + 1] /\ swap(s, i, j)[j + 1] = s[i + 1]
           /\ \A k \in 0 .. Len(s) - 1 : k # i /\ k # j => swap(s, i, j)[k + 1] = s[k + 1]
<1> DEFINE u == swap(s, i, j)
<1>1. \A k \in 1 .. Len(s) :
        u[k] = s[IF k = i + 1 THEN j + 1 ELSE IF k = j + 1 THEN i + 1 ELSE k]
  BY SwapIn
<1> HIDE DEF u
<1>2. i + 1 \in 1 .. Len(s) /\ j + 1 \in 1 .. Len(s) /\ i + 1 # j + 1
  OBVIOUS
<1>3. u[i + 1] = s[j + 1] /\ u[j + 1] = s[i + 1]
  BY <1>1, <1>2
<1>4. ASSUME NEW k \in 0 .. Len(s) - 1, k # i, k # j PROVE u[k + 1] = s[k + 1]
  <2>1. k + 1 \in 1 .. Len(s) /\ k + 1 # i + 1 /\ k + 1 # j + 1
    BY <1>4
  <2> QED BY <1>1, <2>1
<1> QED BY <1>3, <1>4 DEF u

-----------------------------------------------------------------------------
(* The loops satisfy their equations *)

UpRest(f, j, s) ==
    IF Parent(j) = j \/ ~less(s, j, Parent(j)) THEN s
    ELSE f[Parent(j)][swap(s, j, Parent(j))]

\* up satisfies its equation.
LEMMA UpDefined ==
    ASSUME NEW j \in Nat, NEW s \in Seq(Entries), j < Len(s)
    PROVE  up[j][s] = UpRest(up, j, s)
<1> DEFINE S(i) == {t \in Seq(Entries) : i < Len(t)}
           X == {x \in Nat \X Seq(Entries) : x[1] < Len(x[2])}
           Ends == {x \in X : Parent(x[1]) = x[1] \/ ~less(x[2], x[1], Parent(x[1]))}
           step == [x \in X |-> <<Parent(x[1]), swap(x[2], x[1], Parent(x[1]))>>]
<1>1. \A x \in X : step[x] \in X
  <2> TAKE x \in X
  <2>1. x[1] \in Nat /\ x[2] \in Seq(Entries) /\ x[1] < Len(x[2])
    OBVIOUS
  <2>2. Parent(x[1]) \in Nat /\ Parent(x[1]) < Len(x[2])
    BY <2>1, ParentIn
  <2>3. swap(x[2], x[1], Parent(x[1])) \in Seq(Entries)
        /\ Len(swap(x[2], x[1], Parent(x[1]))) = Len(x[2])
    BY <2>1, <2>2, SwapIn
  <2> QED BY <2>2, <2>3
<1>2. PICK f : Result(f, X, Ends, step)
  <2>1. IsLoop(X, Ends, step)
    BY <1>1, Zenon DEF IsLoop
  <2> HIDE DEF X, Ends, step
  <2> QED BY <2>1, LoopDefined, Zenon
<1> DEFINE g == [i \in Nat |-> [t \in S(i) |-> f[<<i, t>>][2]]]
<1>3. ASSUME NEW i \in Nat, NEW t \in S(i)
      PROVE  g[i][t] = UpRest(g, i, t)
  <2>1. <<i, t>> \in X /\ g[i][t] = f[<<i, t>>][2]
    OBVIOUS
  <2>2. CASE Parent(i) = i \/ ~less(t, i, Parent(i))
    <3>1. <<i, t>> \in Ends
      BY <2>1, <2>2
    <3>2. f[<<i, t>>] = <<i, t>>
      BY <1>2, <2>1, <3>1, Zenon DEF Result
    <3>3. g[i][t] = t
      BY <2>1, <3>2
    <3> QED BY <2>2, <3>3 DEF UpRest
  <2>3. CASE ~(Parent(i) = i \/ ~less(t, i, Parent(i)))
    <3>1. <<i, t>> \notin Ends /\ step[<<i, t>>] = <<Parent(i), swap(t, i, Parent(i))>>
      BY <2>1, <2>3
    <3>2. f[<<i, t>>] = f[<<Parent(i), swap(t, i, Parent(i))>>]
      BY <1>2, <2>1, <3>1, Zenon DEF Result
    <3>3. <<Parent(i), swap(t, i, Parent(i))>> \in X
      BY <1>1, <2>1, <3>1, Zenon
    <3>4. Parent(i) \in Nat /\ swap(t, i, Parent(i)) \in S(Parent(i))
      BY <3>3
    <3>5. g[Parent(i)][swap(t, i, Parent(i))] = f[<<Parent(i), swap(t, i, Parent(i))>>][2]
      BY <3>4
    <3> QED BY <2>1, <2>3, <3>2, <3>5, Zenon DEF UpRest
  <2> QED BY <2>2, <2>3
<1>4. g = [i \in Nat |-> [t \in S(i) |-> UpRest(g, i, t)]]
  <2>1. \A i \in Nat : g[i] = [t \in S(i) |-> UpRest(g, i, t)]
    <3> TAKE i \in Nat
    <3>1. g[i] = [t \in S(i) |-> g[i][t]]
      OBVIOUS
    <3> HIDE DEF g, S
    <3> QED BY <1>3, <3>1
  <2>2. g = [i \in Nat |-> g[i]]
    OBVIOUS
  <2> HIDE DEF g, S
  <2> QED BY <2>1, <2>2
<1>5. up = [i \in Nat |-> [t \in S(i) |-> UpRest(up, i, t)]]
  <2> HIDE DEF g
  <2> QED BY <1>4 DEF up, UpRest
<1>6. up[j] = [t \in S(j) |-> UpRest(up, j, t)]
  <2> HIDE DEF S
  <2> QED BY <1>5, Zenon
<1>7. s \in S(j)
  OBVIOUS
<1> QED
  <2> HIDE DEF S
  <2> QED BY <1>6, <1>7, Zenon

DownRest(f, i, n, s) ==
    IF 2 * i + 1 >= n \/ ~less(s, Child(s, i, n), i) THEN s
    ELSE f[Child(s, i, n)][n][swap(s, i, Child(s, i, n))]

\* Child is one of the two children.
LEMMA ChildIn ==
    ASSUME NEW i \in Nat, NEW n \in Nat, NEW s, ~(2 * i + 1 >= n)
    PROVE  /\ Child(s, i, n) \in Nat /\ i < Child(s, i, n) /\ Child(s, i, n) < n
           /\ Child(s, i, n) = 2 * i + 1 \/ Child(s, i, n) = 2 * i + 2
  BY DEF Child

\* down satisfies its equation.
LEMMA DownDefined ==
    ASSUME NEW i \in Nat, NEW n \in Nat, NEW s \in Seq(Entries), i < Len(s), n <= Len(s)
    PROVE  down[i][n][s] = DownRest(down, i, n, s)
<1> DEFINE S(k, m) == {t \in Seq(Entries) : k < Len(t) /\ m <= Len(t)}
           X == {x \in Nat \X Nat \X Seq(Entries) : x[1] < Len(x[3]) /\ x[2] <= Len(x[3])}
           Next(k, m, t) == <<Child(t, k, m), m, swap(t, k, Child(t, k, m))>>
           Over(k, m, t) == 2 * k + 1 >= m \/ ~less(t, Child(t, k, m), k)
           Ends == {x \in X : Over(x[1], x[2], x[3])}
           step == [x \in X |-> Next(x[1], x[2], x[3])]
<1>1. ASSUME NEW x \in X, x \notin Ends PROVE step[x] \in X
  <2>1. /\ x[1] \in Nat /\ x[2] \in Nat /\ x[3] \in Seq(Entries)
        /\ x[1] < Len(x[3]) /\ x[2] <= Len(x[3])
    OBVIOUS
  <2>2. ~(2 * x[1] + 1 >= x[2])
    BY <1>1
  <2>3. Child(x[3], x[1], x[2]) \in Nat /\ Child(x[3], x[1], x[2]) < Len(x[3])
    BY <2>1, <2>2, ChildIn
  <2>4. swap(x[3], x[1], Child(x[3], x[1], x[2])) \in Seq(Entries)
        /\ Len(swap(x[3], x[1], Child(x[3], x[1], x[2]))) = Len(x[3])
    BY <2>1, <2>3, SwapIn
  <2> QED BY <2>1, <2>3, <2>4
<1>2. PICK f : Result(f, X, Ends, step)
  <2>1. IsLoop(X, Ends, step)
    BY <1>1, Zenon DEF IsLoop
  <2> HIDE DEF X, Ends, step
  <2> QED BY <2>1, LoopDefined, Zenon
<1> DEFINE g == [k \in Nat |-> [m \in Nat |-> [t \in S(k, m) |-> f[<<k, m, t>>][3]]]]
<1>3. ASSUME NEW k \in Nat, NEW m \in Nat, NEW t \in S(k, m)
      PROVE  g[k][m][t] = DownRest(g, k, m, t)
  <2>1. <<k, m, t>> \in X /\ g[k][m][t] = f[<<k, m, t>>][3]
    OBVIOUS
  <2>2. CASE Over(k, m, t)
    <3>1. <<k, m, t>> \in Ends
      BY <2>1, <2>2
    <3>2. f[<<k, m, t>>] = <<k, m, t>>
      BY <1>2, <2>1, <3>1, Zenon DEF Result
    <3>3. g[k][m][t] = t
      BY <2>1, <3>2
    <3> QED BY <2>2, <3>3 DEF DownRest
  <2>3. CASE ~Over(k, m, t)
    <3>1. <<k, m, t>> \notin Ends /\ step[<<k, m, t>>] = Next(k, m, t)
      BY <2>1, <2>3
    <3>2. f[<<k, m, t>>] = f[Next(k, m, t)]
      BY <1>2, <2>1, <3>1, Zenon DEF Result
    <3>3. Next(k, m, t) \in X
      BY <1>1, <2>1, <3>1, Zenon
    <3>4. Child(t, k, m) \in Nat /\ swap(t, k, Child(t, k, m)) \in S(Child(t, k, m), m)
      BY <3>3
    <3>5. g[Child(t, k, m)][m][swap(t, k, Child(t, k, m))] = f[Next(k, m, t)][3]
      BY <3>4
    <3> QED BY <2>1, <2>3, <3>2, <3>5, Zenon DEF DownRest
  <2> QED BY <2>2, <2>3
<1>4. g = [k \in Nat |-> [m \in Nat |-> [t \in S(k, m) |-> DownRest(g, k, m, t)]]]
  <2>1. ASSUME NEW k \in Nat, NEW m \in Nat
        PROVE  g[k][m] = [t \in S(k, m) |-> DownRest(g, k, m, t)]
    <3>1. g[k][m] = [t \in S(k, m) |-> g[k][m][t]]
      OBVIOUS
    <3> HIDE DEF g, S
    <3> QED BY <1>3, <3>1
  <2>2. ASSUME NEW k \in Nat
        PROVE  g[k] = [m \in Nat |-> [t \in S(k, m) |-> DownRest(g, k, m, t)]]
    <3>1. g[k] = [m \in Nat |-> g[k][m]]
      OBVIOUS
    <3> HIDE DEF g, S
    <3> QED BY <2>1, <3>1
  <2>3. g = [k \in Nat |-> g[k]]
    OBVIOUS
  <2> HIDE DEF g, S
  <2> QED BY <2>2, <2>3
<1>5. down = [k \in Nat |-> [m \in Nat |-> [t \in S(k, m) |-> DownRest(down, k, m, t)]]]
  <2> HIDE DEF g
  <2> QED BY <1>4 DEF down, DownRest
<1>6. down[i] = [m \in Nat |-> [t \in S(i, m) |-> DownRest(down, i, m, t)]]
  <2> HIDE DEF S
  <2> QED BY <1>5, Zenon
<1>7. down[i][n] = [t \in S(i, n) |-> DownRest(down, i, n, t)]
  <2> HIDE DEF S
  <2> QED BY <1>6, Zenon
<1>8. s \in S(i, n)
  OBVIOUS
<1> QED
  <2> HIDE DEF S
  <2> QED BY <1>7, <1>8, Zenon

-----------------------------------------------------------------------------
(* The loops lose no entry and bring none back twice *)

\* p rearranges 1 .. n.
Rearranges(p, n) ==
    /\ p \in [1 .. n -> 1 .. n]
    /\ \A i, k \in 1 .. n : p[i] = p[k] => i = k
    /\ \A k \in 1 .. n : \E i \in 1 .. n : p[i] = k

\* t is s with its first n entries in another order.
Permuted(s, t, n) ==
    /\ t \in Seq(Entries) /\ Len(t) = Len(s)
    /\ \E p : Rearranges(p, n) /\ \A i \in 1 .. n : t[i] = s[p[i]]
    /\ \A k \in 1 .. Len(s) : k > n => t[k] = s[k]

\* A sequence has its own entries.
LEMMA PermutedSame ==
    ASSUME NEW s \in Seq(Entries), NEW n \in Nat
    PROVE  Permuted(s, s, n)
<1> DEFINE p == [i \in 1 .. n |-> i]
<1>1. Rearranges(p, n) /\ \A i \in 1 .. n : s[i] = s[p[i]]
  BY DEF Rearranges
<1> HIDE DEF p
<1> QED BY <1>1 DEF Permuted

\* Entries that are kept twice are kept.
LEMMA PermutedTwice ==
    ASSUME NEW s \in Seq(Entries), NEW t, NEW u, NEW n \in Nat, n <= Len(s),
           Permuted(s, t, n), Permuted(t, u, n)
    PROVE  Permuted(s, u, n)
<1>1. PICK p : Rearranges(p, n) /\ \A i \in 1 .. n : t[i] = s[p[i]]
  BY DEF Permuted
<1>2. PICK q : Rearranges(q, n) /\ \A i \in 1 .. n : u[i] = t[q[i]]
  BY DEF Permuted
<1> DEFINE r == [i \in 1 .. n |-> p[q[i]]]
<1>3. \A i \in 1 .. n : q[i] \in 1 .. n /\ p[i] \in 1 .. n /\ r[i] = p[q[i]]
  BY <1>1, <1>2 DEF Rearranges
<1>4. Rearranges(r, n)
  <2>1. r \in [1 .. n -> 1 .. n]
    BY <1>3
  <2> HIDE DEF r
  <2>2. ASSUME NEW i \in 1 .. n, NEW k \in 1 .. n, r[i] = r[k] PROVE i = k
    <3>1. p[q[i]] = p[q[k]] /\ q[i] \in 1 .. n /\ q[k] \in 1 .. n
      BY <1>3, <2>2
    <3>2. q[i] = q[k]
      BY <1>1, <3>1, Zenon DEF Rearranges
    <3> QED BY <1>2, <3>2, Zenon DEF Rearranges
  <2>3. ASSUME NEW k \in 1 .. n PROVE \E i \in 1 .. n : r[i] = k
    <3>1. PICK h \in 1 .. n : p[h] = k
      BY <1>1, Zenon DEF Rearranges
    <3>2. PICK i \in 1 .. n : q[i] = h
      BY <1>2, Zenon DEF Rearranges
    <3> QED BY <1>3, <3>1, <3>2, Zenon
  <2> QED BY <2>1, <2>2, <2>3, Zenon DEF Rearranges
<1>5. ASSUME NEW i \in 1 .. n PROVE u[i] = s[r[i]]
  <2> HIDE DEF r
  <2>1. u[i] = t[q[i]] /\ t[q[i]] = s[p[q[i]]]
    BY <1>1, <1>2, <1>3, Zenon
  <2> QED BY <1>3, <2>1, Zenon
<1>6. u \in Seq(Entries) /\ Len(u) = Len(s) /\ \A k \in 1 .. Len(s) : k > n => u[k] = s[k]
  BY DEF Permuted
<1> HIDE DEF r
<1> QED BY <1>4, <1>5, <1>6, Zenon DEF Permuted

\* A swap keeps the entries.
LEMMA PermutedSwap ==
    ASSUME NEW s \in Seq(Entries), NEW n \in Nat, n <= Len(s),
           NEW i \in Nat, NEW j \in Nat, i < n, j < n
    PROVE  Permuted(s, swap(s, i, j), n)
<1> DEFINE p == [k \in 1 .. n |-> IF k = i + 1 THEN j + 1 ELSE IF k = j + 1 THEN i + 1 ELSE k]
<1>1. Rearranges(p, n)
  <2>1. p \in [1 .. n -> 1 .. n] /\ \A k \in 1 .. n : p[p[k]] = k
    OBVIOUS
  <2> HIDE DEF p
  <2> QED BY <2>1, Zenon DEF Rearranges
<1>2. /\ swap(s, i, j) \in Seq(Entries) /\ Len(swap(s, i, j)) = Len(s)
      /\ \A k \in 1 .. Len(s) :
           swap(s, i, j)[k] = s[IF k = i + 1 THEN j + 1 ELSE IF k = j + 1 THEN i + 1 ELSE k]
  BY SwapIn
<1>3. \A k \in 1 .. n : swap(s, i, j)[k] = s[p[k]]
  BY <1>2
<1>4. \A k \in 1 .. Len(s) : k > n => swap(s, i, j)[k] = s[k]
  BY <1>2
<1> HIDE DEF p
<1> QED BY <1>1, <1>2, <1>3, <1>4, Zenon DEF Permuted

\* up keeps the entries: by induction on the position.
LEMMA UpKeeps ==
    ASSUME NEW j \in Nat, NEW s \in Seq(Entries), j < Len(s)
    PROVE  Permuted(s, up[j][s], Len(s))
<1> DEFINE Bad(k) == \E t \in Seq(Entries) : k < Len(t) /\ ~Permuted(t, up[k][t], Len(t))
           T == {k \in Nat : Bad(k)}
<1> SUFFICES ASSUME T # {} PROVE FALSE
  OBVIOUS
<1>1. PICK m \in T : \A k \in T : m <= k
  <2> HIDE DEF Bad
  <2>1. T \in SUBSET Nat
    OBVIOUS
  <2> HIDE DEF T
  <2> QED BY <2>1, Least
<1>2. PICK t \in Seq(Entries) : m < Len(t) /\ ~Permuted(t, up[m][t], Len(t))
  OBVIOUS
<1>3. m \in Nat /\ Len(t) \in Nat
  OBVIOUS
<1>4. up[m][t] = UpRest(up, m, t)
  BY <1>2, <1>3, UpDefined
<1>5. CASE Parent(m) = m \/ ~less(t, m, Parent(m))
  BY <1>2, <1>3, <1>4, <1>5, PermutedSame DEF UpRest
<1>6. CASE ~(Parent(m) = m \/ ~less(t, m, Parent(m)))
  <2> DEFINE q == Parent(m)
             u == swap(t, m, q)
  <2>1. q \in Nat /\ q < m /\ q < Len(t)
    BY <1>2, <1>3, <1>6, ParentIn
  <2>2. u \in Seq(Entries) /\ Len(u) = Len(t) /\ Permuted(t, u, Len(t))
    BY <1>2, <1>3, <2>1, SwapIn, PermutedSwap
  <2>3. up[m][t] = up[q][u]
    BY <1>4, <1>6 DEF UpRest
  <2> HIDE DEF u
  <2>4. Permuted(u, up[q][u], Len(u))
    <3>1. q \notin T
      BY <1>1, <1>3, <2>1
    <3> QED BY <2>1, <2>2, <3>1
  <2> QED BY <1>2, <1>3, <2>2, <2>3, <2>4, PermutedTwice
<1> QED BY <1>5, <1>6

\* down keeps the first n entries: by induction on what is left below i.
LEMMA DownKeeps ==
    ASSUME NEW i \in Nat, NEW n \in Nat, NEW s \in Seq(Entries), i < Len(s), n <= Len(s)
    PROVE  Permuted(s, down[i][n][s], n)
<1> DEFINE Fails(k, t) == k < Len(t) /\ n <= Len(t) /\ ~Permuted(t, down[k][n][t], n)
           T == {m \in Nat : \E k \in Nat, t \in Seq(Entries) : n <= k + m /\ Fails(k, t)}
<1>1. SUFFICES ASSUME T # {} PROVE FALSE
  <2>1. n \notin T
    BY <1>1
  <2>2. n <= i + n
    OBVIOUS
  <2> QED BY <2>1, <2>2
<1>2. PICK m \in T : \A k \in T : m <= k
  <2> HIDE DEF Fails
  <2>1. T \in SUBSET Nat
    OBVIOUS
  <2> HIDE DEF T
  <2> QED BY <1>1, <2>1, Least
<1>3. PICK k \in Nat, t \in Seq(Entries) : n <= k + m /\ Fails(k, t)
  OBVIOUS
<1>4. m \in Nat /\ Len(t) \in Nat /\ k < Len(t) /\ n <= Len(t)
  BY <1>3
<1>5. down[k][n][t] = DownRest(down, k, n, t)
  BY <1>4, DownDefined
<1>6. CASE 2 * k + 1 >= n \/ ~less(t, Child(t, k, n), k)
  BY <1>3, <1>5, <1>6, PermutedSame DEF DownRest
<1>7. CASE ~(2 * k + 1 >= n \/ ~less(t, Child(t, k, n), k))
  <2> DEFINE c == Child(t, k, n)
             u == swap(t, k, c)
  <2>1. c \in Nat /\ k < c /\ c < n /\ c < Len(t) /\ k < n
    BY <1>4, <1>7, ChildIn
  <2>2. u \in Seq(Entries) /\ Len(u) = Len(t) /\ Permuted(t, u, n)
    BY <1>4, <2>1, SwapIn, PermutedSwap
  <2>3. down[k][n][t] = down[c][n][u]
    BY <1>5, <1>7 DEF DownRest
  <2> HIDE DEF c, u
  <2>4. Permuted(u, down[c][n][u], n)
    <3>1. m - 1 \in Nat /\ m - 1 \notin T /\ n <= c + (m - 1)
      <4>1. m - 1 \in Nat /\ ~(m <= m - 1) /\ n <= c + (m - 1)
        BY <1>3, <1>4, <2>1
      <4> HIDE DEF T
      <4> QED BY <1>2, <4>1, Zenon
    <3> QED BY <1>4, <2>1, <2>2, <3>1
  <2>5. Permuted(t, down[k][n][t], n)
    BY <1>4, <2>2, <2>3, <2>4, PermutedTwice
  <2> QED BY <1>3, <2>5
<1> QED BY <1>6, <1>7

-----------------------------------------------------------------------------
(* The loops restore the order *)

\* What less compares.
Keyed == \A e \in Entries : e.prio \in Nat /\ e.index \in Nat

\* less is a strict weak order.
LEMMA BeforeOrders ==
    ASSUME Keyed
    PROVE  /\ \A a, b \in Entries : before(a, b) => ~before(b, a)
           /\ \A a, b, c \in Entries : ~before(a, b) /\ ~before(b, c) => ~before(a, c)
  BY DEF Keyed, before

\* No entry of the first n comes before its parent.
HeapOrdered(s, n) == \A k \in 1 .. n - 1 : ~less(s, k, Parent(k))

\* ... but j may; its children do not come before its own parent.
OrderedBut(s, n, j) ==
    /\ \A k \in 1 .. n - 1 : k # j => ~less(s, k, Parent(k))
    /\ \A k \in 1 .. n - 1 : j > 0 /\ Parent(k) = j => ~less(s, k, Parent(j))

\* One round of up moves the exception to the parent.
LEMMA UpRound ==
    ASSUME Keyed, NEW s \in Seq(Entries), NEW j \in Nat, j < Len(s),
           Parent(j) # j, less(s, j, Parent(j)), OrderedBut(s, Len(s), j)
    PROVE  OrderedBut(swap(s, j, Parent(j)), Len(s), Parent(j))
<1> DEFINE q == Parent(j)
           u == swap(s, j, q)
           n == Len(s)
<1>n. n \in Nat
  OBVIOUS
<1>1. n \in Nat /\ q \in Nat /\ q < j /\ j > 0 /\ j \in 1 .. n - 1
  BY ParentIn
<1>2. \A k \in 0 .. n - 1 : s[k + 1] \in Entries
  OBVIOUS
<1>3. /\ u[j + 1] = s[q + 1] /\ u[q + 1] = s[j + 1]
      /\ \A k \in 0 .. n - 1 : k # j /\ k # q => u[k + 1] = s[k + 1]
  <2>1. q # j /\ q < Len(s)
    BY <1>1
  <2> HIDE DEF q
  <2> QED BY <1>1, <2>1, SwapAt, Zenon DEF u, n
<1>4. \A k \in 1 .. n - 1 : Parent(k) \in 0 .. n - 1 /\ Parent(k) < k
  BY <1>n, ParentBelow, Zenon
<1>o. /\ \A k \in 1 .. n - 1 : k # j => ~before(s[k + 1], s[Parent(k) + 1])
      /\ \A k \in 1 .. n - 1 : Parent(k) = j => ~before(s[k + 1], s[q + 1])
      /\ before(s[j + 1], s[q + 1])
  BY <1>1 DEF OrderedBut, less
<1> HIDE DEF u, n, q
<1>5. ASSUME NEW k \in 1 .. n - 1, k # q PROVE ~less(u, k, Parent(k))
  <2>1. CASE k = j
    BY <1>1, <1>2, <1>3, <2>1, BeforeOrders DEF less, q
  <2>2. CASE k # j /\ Parent(k) = j
    BY <1>1, <1>3, <1>5, <1>o, <2>2 DEF less
  <2>3. CASE k # j /\ Parent(k) = q
    <3>1. before(s[j + 1], s[q + 1]) /\ ~before(s[k + 1], s[q + 1])
      BY <1>o, <2>3
    <3>2. s[j + 1] \in Entries /\ s[q + 1] \in Entries /\ s[k + 1] \in Entries
      BY <1>1, <1>2
    <3>3. ~before(s[k + 1], s[j + 1])
      BY <3>1, <3>2, BeforeOrders
    <3> QED BY <1>1, <1>3, <1>5, <2>3, <3>3 DEF less
  <2>4. CASE k # j /\ Parent(k) # j /\ Parent(k) # q
    <3>1. u[k + 1] = s[k + 1] /\ u[Parent(k) + 1] = s[Parent(k) + 1]
      BY <1>3, <1>4, <1>5, <2>4
    <3>2. ~before(s[k + 1], s[Parent(k) + 1])
      BY <1>o, <2>4
    <3> QED BY <3>1, <3>2 DEF less
  <2> QED BY <2>1, <2>2, <2>3, <2>4
<1>6. ASSUME NEW k \in 1 .. n - 1, q > 0, Parent(k) = q PROVE ~less(u, k, Parent(q))
  <2>1. q \in 1 .. n - 1 /\ Parent(q) \in 0 .. n - 1 /\ Parent(q) < q /\ q < k
    BY <1>1, <1>4, <1>6
  <2>2. ~before(s[q + 1], s[Parent(q) + 1]) /\ u[Parent(q) + 1] = s[Parent(q) + 1]
    BY <1>1, <1>3, <1>o, <2>1
  <2>3. CASE k = j
    BY <1>3, <2>2, <2>3 DEF less
  <2>4. CASE k # j
    <3>1. ~before(s[k + 1], s[q + 1]) /\ u[k + 1] = s[k + 1]
      BY <1>3, <1>6, <1>o, <2>1, <2>4
    <3>2. s[k + 1] \in Entries /\ s[q + 1] \in Entries /\ s[Parent(q) + 1] \in Entries
      BY <1>2, <2>1
    <3>3. ~before(s[k + 1], s[Parent(q) + 1])
      BY <2>2, <3>1, <3>2, BeforeOrders
    <3> QED BY <2>2, <3>1, <3>3 DEF less
  <2> QED BY <2>3, <2>4
<1> QED BY <1>5, <1>6 DEF OrderedBut, u, q, n

\* up makes a heap of a sequence whose only exception is at j.
LEMMA UpOrders ==
    ASSUME Keyed, NEW j \in Nat, NEW s \in Seq(Entries), j < Len(s), OrderedBut(s, Len(s), j)
    PROVE  HeapOrdered(up[j][s], Len(s))
<1> DEFINE Fails(k, t) == k < Len(t) /\ OrderedBut(t, Len(t), k) /\ ~HeapOrdered(up[k][t], Len(t))
           T == {k \in Nat : \E t \in Seq(Entries) : Fails(k, t)}
<1> SUFFICES ASSUME T # {} PROVE FALSE
  OBVIOUS
<1>1. PICK m \in T : \A k \in T : m <= k
  <2> HIDE DEF Fails
  <2>1. T \in SUBSET Nat
    OBVIOUS
  <2> HIDE DEF T
  <2> QED BY <2>1, Least
<1>2. PICK t \in Seq(Entries) : Fails(m, t)
  OBVIOUS
<1>3. m \in Nat /\ Len(t) \in Nat /\ m < Len(t)
  BY <1>2
<1>4. up[m][t] = UpRest(up, m, t)
  BY <1>3, UpDefined
<1>5. CASE Parent(m) = m \/ ~less(t, m, Parent(m))
  <2>1. up[m][t] = t
    BY <1>4, <1>5 DEF UpRest
  <2>2. HeapOrdered(t, Len(t))
    BY <1>2, <1>3, <1>5, ParentIn DEF OrderedBut, HeapOrdered
  <2> QED BY <1>2, <2>1, <2>2
<1>6. CASE ~(Parent(m) = m \/ ~less(t, m, Parent(m)))
  <2> DEFINE q == Parent(m)
             u == swap(t, m, q)
  <2>1. q \in Nat /\ q < m /\ q < Len(t)
    BY <1>3, <1>6, ParentIn
  <2>2. u \in Seq(Entries) /\ Len(u) = Len(t)
    BY <1>3, <2>1, SwapIn
  <2>3. OrderedBut(u, Len(t), q)
    BY <1>2, <1>3, <1>6, UpRound
  <2>4. up[m][t] = up[q][u]
    BY <1>4, <1>6 DEF UpRest
  <2> HIDE DEF u, q
  <2>5. q \notin T
    <3>1. ~(m <= q)
      BY <1>3, <2>1
    <3> HIDE DEF T
    <3> QED BY <1>1, <3>1, Zenon
  <2> QED BY <1>2, <2>1, <2>2, <2>3, <2>4, <2>5
<1> QED BY <1>5, <1>6

\* No entry of the first n comes before its parent, but the children of i may.
OrderedBelow(s, n, i) ==
    /\ \A k \in 1 .. n - 1 : Parent(k) # i => ~less(s, k, Parent(k))
    /\ \A k \in 1 .. n - 1 : i > 0 /\ Parent(k) = i => ~less(s, k, Parent(i))

\* Child is the child that no other comes before.
LEMMA ChildFirst ==
    ASSUME Keyed, NEW s \in Seq(Entries), NEW n \in Nat, n <= Len(s), NEW i \in Nat,
           ~(2 * i + 1 >= n)
    PROVE  /\ Parent(Child(s, i, n)) = i
           /\ \A k \in 1 .. n - 1 : Parent(k) = i => ~less(s, k, Child(s, i, n))
<1> DEFINE c == Child(s, i, n)
<1>1. c \in Nat /\ i < c /\ c < n /\ (c = 2 * i + 1 \/ c = 2 * i + 2)
  BY ChildIn
<1>2. Parent(c) = i
  <2> HIDE DEF c
  <2> QED BY <1>1, ParentOf
<1>3. \A k \in 0 .. n - 1 : s[k + 1] \in Entries
  OBVIOUS
<1>4. ASSUME NEW k \in 1 .. n - 1, Parent(k) = i PROVE ~less(s, k, c)
  <2>1. k = 2 * i + 1 \/ k = 2 * i + 2
    BY <1>4, ParentOf
  <2>2. CASE k = c
    BY <1>3, <2>2, BeforeOrders DEF less
  <2>3. CASE k # c
    <3>1. CASE c = 2 * i + 1
      <4>1. k = 2 * i + 2 /\ k < n
        BY <2>1, <2>3, <3>1
      <4> QED BY <3>1, <4>1 DEF Child
    <3>2. CASE c = 2 * i + 2
      <4>1. k = 2 * i + 1
        BY <2>1, <2>3, <3>2
      <4>2. less(s, c, k)
        BY <3>2, <4>1 DEF Child
      <4>3. s[c + 1] \in Entries /\ s[k + 1] \in Entries
        BY <1>1, <1>3
      <4> HIDE DEF c
      <4> QED BY <4>2, <4>3, BeforeOrders DEF less
    <3> QED BY <1>1, <3>1, <3>2
  <2> QED BY <2>2, <2>3
<1> QED BY <1>2, <1>4

\* One round of down moves the exception to the child.
LEMMA DownRound ==
    ASSUME Keyed, NEW s \in Seq(Entries), NEW n \in Nat, n <= Len(s), NEW i \in Nat, i < Len(s),
           ~(2 * i + 1 >= n), less(s, Child(s, i, n), i), OrderedBelow(s, n, i)
    PROVE  OrderedBelow(swap(s, i, Child(s, i, n)), n, Child(s, i, n))
<1> DEFINE c == Child(s, i, n)
           u == swap(s, i, c)
<1>n. n \in Nat
  OBVIOUS
<1>1. c \in Nat /\ i < c /\ c < n /\ c \in 1 .. n - 1 /\ Parent(c) = i /\ c < Len(s)
  BY ChildIn, ChildFirst
<1>2. \A k \in 0 .. n - 1 : s[k + 1] \in Entries
  OBVIOUS
<1>3. /\ u[c + 1] = s[i + 1] /\ u[i + 1] = s[c + 1]
      /\ \A k \in 0 .. n - 1 : k # i /\ k # c => u[k + 1] = s[k + 1]
  <2>1. i # c /\ \A k \in 0 .. n - 1 : k \in 0 .. Len(s) - 1
    BY <1>1
  <2> HIDE DEF c
  <2>2. /\ u[i + 1] = s[c + 1] /\ u[c + 1] = s[i + 1]
        /\ \A k \in 0 .. Len(s) - 1 : k # i /\ k # c => u[k + 1] = s[k + 1]
    BY <1>1, <2>1, SwapAt, Zenon DEF u
  <2> HIDE DEF u
  <2> QED BY <2>1, <2>2, Zenon
<1>4. \A k \in 1 .. n - 1 : Parent(k) \in 0 .. n - 1 /\ Parent(k) < k
  BY <1>n, ParentBelow, Zenon
<1>o. /\ \A k \in 1 .. n - 1 : Parent(k) # i => ~before(s[k + 1], s[Parent(k) + 1])
      /\ \A k \in 1 .. n - 1 : i > 0 /\ Parent(k) = i => ~before(s[k + 1], s[Parent(i) + 1])
      /\ \A k \in 1 .. n - 1 : Parent(k) = i => ~before(s[k + 1], s[c + 1])
      /\ before(s[c + 1], s[i + 1])
  BY ChildFirst DEF OrderedBelow, less
<1> HIDE DEF u, c
<1>5. ASSUME NEW k \in 1 .. n - 1, Parent(k) # c PROVE ~less(u, k, Parent(k))
  <2>1. CASE k = c
    BY <1>1, <1>2, <1>3, <1>o, <2>1, BeforeOrders DEF less
  <2>2. CASE k # c /\ Parent(k) = i
    <3>1. k # i
      BY <1>4, <2>2
    <3> QED BY <1>3, <1>o, <2>2, <3>1 DEF less
  <2>3. CASE k = i
    <3>1. Parent(i) # i /\ Parent(i) # c /\ i > 0 /\ Parent(i) \in 0 .. n - 1
      BY <1>1, <1>4, <2>3
    <3>2. ~before(s[c + 1], s[Parent(i) + 1])
      BY <1>1, <1>o, <3>1
    <3> QED BY <1>3, <2>3, <3>1, <3>2 DEF less
  <2>4. CASE k # c /\ k # i /\ Parent(k) # i
    <3>1. u[k + 1] = s[k + 1] /\ u[Parent(k) + 1] = s[Parent(k) + 1]
      <4>1. k \in 0 .. n - 1 /\ Parent(k) \in 0 .. n - 1
        BY <1>4
      <4> QED BY <1>3, <1>5, <2>4, <4>1, Zenon
    <3> QED BY <1>o, <2>4, <3>1 DEF less
  <2> QED BY <2>1, <2>2, <2>3, <2>4
<1>6. ASSUME NEW k \in 1 .. n - 1, Parent(k) = c PROVE ~less(u, k, Parent(c))
  <2>1. k # i /\ k # c /\ Parent(k) # i
    BY <1>1, <1>4, <1>6
  <2>2. ~before(s[k + 1], s[c + 1])
    BY <1>6, <1>o, <2>1
  <2> QED BY <1>1, <1>3, <2>1, <2>2 DEF less
<1>7. OrderedBelow(u, n, c)
  BY <1>5, <1>6 DEF OrderedBelow
<1> QED BY <1>7 DEF u, c

\* down makes a heap of n entries whose only exception is below i.
LEMMA DownOrders ==
    ASSUME Keyed, NEW i \in Nat, NEW n \in Nat, NEW s \in Seq(Entries), i < Len(s), n <= Len(s),
           OrderedBelow(s, n, i)
    PROVE  HeapOrdered(down[i][n][s], n)
<1> DEFINE Fails(k, t) ==
               k < Len(t) /\ n <= Len(t) /\ OrderedBelow(t, n, k) /\ ~HeapOrdered(down[k][n][t], n)
           T == {m \in Nat : \E k \in Nat, t \in Seq(Entries) : n <= k + m /\ Fails(k, t)}
<1>1. SUFFICES ASSUME T # {} PROVE FALSE
  <2>1. n \notin T
    BY <1>1
  <2>2. n <= i + n
    OBVIOUS
  <2> QED BY <2>1, <2>2
<1>2. PICK m \in T : \A k \in T : m <= k
  <2> HIDE DEF Fails
  <2>1. T \in SUBSET Nat
    OBVIOUS
  <2> HIDE DEF T
  <2> QED BY <1>1, <2>1, Least
<1>3. PICK k \in Nat, t \in Seq(Entries) : n <= k + m /\ Fails(k, t)
  OBVIOUS
<1>4. m \in Nat /\ Len(t) \in Nat /\ k < Len(t) /\ n <= Len(t) /\ OrderedBelow(t, n, k)
  BY <1>3
<1>5. down[k][n][t] = DownRest(down, k, n, t)
  BY <1>4, DownDefined
<1>6. CASE 2 * k + 1 >= n \/ ~less(t, Child(t, k, n), k)
  <2>1. down[k][n][t] = t
    BY <1>5, <1>6 DEF DownRest
  <2>2. ASSUME NEW h \in 1 .. n - 1, Parent(h) = k PROVE ~less(t, h, k)
    <3>1. ~(2 * k + 1 >= n)
      <4>1. h \in Nat \ {0} /\ h < n
        OBVIOUS
      <4>2. h = 2 * k + 1 \/ h = 2 * k + 2
        BY <2>2, <4>1, ParentOf, Zenon
      <4> QED BY <4>1, <4>2
    <3>2. Child(t, k, n) \in Nat /\ Child(t, k, n) < n
      BY <3>1, ChildIn
    <3>3. ~less(t, h, Child(t, k, n)) /\ ~less(t, Child(t, k, n), k)
      BY <1>4, <1>6, <2>2, <3>1, ChildFirst
    <3>4. t[h + 1] \in Entries /\ t[k + 1] \in Entries /\ t[Child(t, k, n) + 1] \in Entries
      <4>1. \A g \in Nat : g < Len(t) => t[g + 1] \in Entries
        OBVIOUS
      <4>2. h \in Nat /\ h < Len(t) /\ Child(t, k, n) < Len(t)
        BY <1>4, <3>2
      <4> QED BY <1>4, <3>2, <4>1, <4>2, Zenon
    <3> QED BY <3>3, <3>4, BeforeOrders DEF less
  <2>3. HeapOrdered(t, n)
    BY <1>4, <2>2 DEF OrderedBelow, HeapOrdered
  <2> QED BY <1>3, <2>1, <2>3
<1>7. CASE ~(2 * k + 1 >= n \/ ~less(t, Child(t, k, n), k))
  <2> DEFINE c == Child(t, k, n)
             u == swap(t, k, c)
  <2>1. c \in Nat /\ k < c /\ c < n /\ c < Len(t) /\ k < n
    BY <1>4, <1>7, ChildIn
  <2>2. u \in Seq(Entries) /\ Len(u) = Len(t)
    BY <1>4, <2>1, SwapIn
  <2>3. OrderedBelow(u, n, c)
    BY <1>4, <1>7, DownRound
  <2>4. down[k][n][t] = down[c][n][u]
    BY <1>5, <1>7 DEF DownRest
  <2> HIDE DEF c, u
  <2>5. m - 1 \in Nat /\ m - 1 \notin T /\ n <= c + (m - 1)
    <3>1. m - 1 \in Nat /\ ~(m <= m - 1) /\ n <= c + (m - 1)
      BY <1>3, <1>4, <2>1
    <3> HIDE DEF T
    <3> QED BY <1>2, <3>1, Zenon
  <2> QED BY <1>3, <1>4, <2>1, <2>2, <2>3, <2>4, <2>5
<1> QED BY <1>6, <1>7

\* Nothing in a heap comes before its root.
LEMMA RootFirst ==
    ASSUME Keyed, NEW s \in Seq(Entries), HeapOrdered(s, Len(s)), NEW k \in 0 .. Len(s) - 1
    PROVE  ~less(s, k, 0)
<1> DEFINE T == {h \in 0 .. Len(s) - 1 : less(s, h, 0)}
<1> SUFFICES ASSUME T # {} PROVE FALSE
  OBVIOUS
<1>1. PICK m \in T : \A h \in T : m <= h
  <2>1. T \in SUBSET Nat
    OBVIOUS
  <2> HIDE DEF T
  <2> QED BY <2>1, Least
<1>2. m \in Nat /\ m \in 0 .. Len(s) - 1 /\ less(s, m, 0) /\ Len(s) \in Nat
  OBVIOUS
<1>3. \A h \in 0 .. Len(s) - 1 : s[h + 1] \in Entries
  OBVIOUS
<1>4. m # 0
  BY <1>2, <1>3, BeforeOrders DEF less
<1>5. /\ Parent(m) \in 0 .. Len(s) - 1 /\ Parent(m) < m
      /\ m \in 1 .. Len(s) - 1 /\ 0 \in 0 .. Len(s) - 1
  <2>1. Parent(m) \in Nat /\ Parent(m) < m
    BY <1>2, <1>4, ParentIn
  <2> QED BY <1>2, <1>4, <2>1
<1>6. ~less(s, m, Parent(m))
  BY <1>5 DEF HeapOrdered
<1>7. ~less(s, Parent(m), 0)
  <2>1. Parent(m) \notin T
    <3>1. ~(m <= Parent(m))
      BY <1>2, <1>5
    <3> HIDE DEF T
    <3> QED BY <1>1, <3>1, Zenon
  <2> QED BY <1>5, <2>1
<1>8. s[m + 1] \in Entries /\ s[Parent(m) + 1] \in Entries /\ s[0 + 1] \in Entries
  BY <1>2, <1>3, <1>5
<1> QED BY <1>2, <1>6, <1>7, <1>8, BeforeOrders DEF less

-----------------------------------------------------------------------------
(* push and pop *)

\* push (internal/queues/heap.go) keeps every entry and adds one, and keeps the
\* order, for a heap of any size.
THEOREM PushKeeps ==
    ASSUME NEW s \in Seq(Entries), NEW x \in Entries
    PROVE  /\ Permuted(Append(s, x), push(s, x), Len(s) + 1)
           /\ Keyed /\ HeapOrdered(s, Len(s)) => HeapOrdered(push(s, x), Len(s) + 1)
<1> DEFINE t == Append(s, x)
           n == Len(s)
<1>1. n \in Nat /\ t \in Seq(Entries) /\ Len(t) = n + 1 /\ \A k \in 1 .. n : t[k] = s[k]
  OBVIOUS
<1>2. push(s, x) = up[n][t]
  BY DEF push
<1> HIDE DEF t
<1>3. Permuted(t, up[n][t], n + 1)
  BY <1>1, UpKeeps
<1>4. ASSUME Keyed, HeapOrdered(s, n) PROVE HeapOrdered(up[n][t], n + 1)
  <2>1. \A k \in 1 .. n - 1 : Parent(k) \in 0 .. n - 1
    BY <1>1, ParentBelow, Zenon
  <2>2. \A k \in 1 .. n - 1 : ~less(t, k, Parent(k))
    BY <1>1, <1>4, <2>1 DEF HeapOrdered, less
  <2>3. \A k \in 1 .. n : Parent(k) # n
    BY ParentIn
  <2>4. OrderedBut(t, n + 1, n)
    BY <1>1, <2>2, <2>3 DEF OrderedBut
  <2> QED BY <1>1, <1>4, <2>4, UpOrders
<1> QED BY <1>2, <1>3, <1>4 DEF t

\* pop (internal/queues/heap.go) removes the first entry and keeps the others, and
\* keeps the order; in a heap nothing comes before the entry it removes.
THEOREM PopKeeps ==
    ASSUME NEW s \in Seq(Entries), s # <<>>
    PROVE  /\ Permuted(Tail(s), pop(s), Len(s) - 1)
           /\ Keyed /\ HeapOrdered(s, Len(s)) =>
                /\ HeapOrdered(pop(s), Len(s) - 1)
                /\ \A k \in 1 .. Len(s) : ~before(s[k], s[1])
<1> DEFINE n == Len(s) - 1
           u == swap(s, 0, n)
           d == down[0][n][u]
<1>1. n \in Nat /\ Len(s) = n + 1
  OBVIOUS
<1>2. /\ u \in Seq(Entries) /\ Len(u) = n + 1
      /\ \A k \in 1 .. n + 1 : u[k] = s[IF k = 1 THEN n + 1 ELSE IF k = n + 1 THEN 1 ELSE k]
  <2>1. 0 < Len(s) /\ n < Len(s) /\ 0 \in Nat /\ n \in Nat
    BY <1>1
  <2>2. /\ u \in Seq(Entries) /\ Len(u) = Len(s)
        /\ \A k \in 1 .. Len(s) :
             u[k] = s[IF k = 0 + 1 THEN n + 1 ELSE IF k = n + 1 THEN 0 + 1 ELSE k]
    BY <2>1, SwapIn, Zenon
  <2> HIDE DEF u, n
  <2> QED BY <1>1, <2>2
<1>3. pop(s) = SubSeq(d, 1, n)
  BY DEF pop
<1> HIDE DEF u
<1>4. Permuted(u, d, n)
  <2> HIDE DEF n
  <2>1. 0 \in Nat /\ 0 < Len(u) /\ n <= Len(u)
    BY <1>1, <1>2
  <2> QED BY <1>1, <1>2, <2>1, DownKeeps, Zenon
<1>5. d \in Seq(Entries) /\ Len(d) = n + 1
  BY <1>2, <1>4 DEF Permuted
<1> HIDE DEF d, n
<1>6. pop(s) \in Seq(Entries) /\ Len(pop(s)) = n /\ \A k \in 1 .. n : pop(s)[k] = d[k]
  BY <1>1, <1>3, <1>5
<1>7. Tail(s) \in Seq(Entries) /\ Len(Tail(s)) = n /\ \A k \in 1 .. n : Tail(s)[k] = s[k + 1]
  BY <1>1
<1>8. Permuted(Tail(s), pop(s), n)
  <2>1. PICK p : Rearranges(p, n) /\ \A i \in 1 .. n : d[i] = u[p[i]]
    BY <1>4 DEF Permuted
  <2> DEFINE q == [i \in 1 .. n |-> IF p[i] = 1 THEN n ELSE p[i] - 1]
  <2>2. \A i \in 1 .. n : p[i] \in 1 .. n
    BY <2>1 DEF Rearranges
  <2>3. q \in [1 .. n -> 1 .. n]
    BY <1>1, <2>2
  <2>4. ASSUME NEW i \in 1 .. n PROVE u[p[i]] = Tail(s)[q[i]]
    BY <1>1, <1>2, <1>7, <2>2
  <2>5. ASSUME NEW i \in 1 .. n, NEW k \in 1 .. n, q[i] = q[k] PROVE i = k
    <3>1. p[i] = p[k]
      BY <1>1, <2>2, <2>5
    <3> QED BY <2>1, <3>1, Zenon DEF Rearranges
  <2>6. ASSUME NEW k \in 1 .. n PROVE \E i \in 1 .. n : q[i] = k
    <3> DEFINE h == IF k = n THEN 1 ELSE k + 1
    <3>1. h \in 1 .. n
      BY <1>1
    <3>2. PICK i \in 1 .. n : p[i] = h
      BY <2>1, <3>1, Zenon DEF Rearranges
    <3>3. q[i] = k
      BY <1>1, <3>2
    <3> QED BY <3>3
  <2> HIDE DEF q
  <2>7. Rearranges(q, n)
    BY <2>3, <2>5, <2>6, Zenon DEF Rearranges
  <2>8. \A i \in 1 .. n : pop(s)[i] = Tail(s)[q[i]]
    BY <1>6, <2>1, <2>4
  <2>9. \A k \in 1 .. Len(Tail(s)) : k > n => pop(s)[k] = Tail(s)[k]
    BY <1>1, <1>7
  <2> QED BY <1>6, <1>7, <2>7, <2>8, <2>9, Zenon DEF Permuted
<1>9. ASSUME Keyed, HeapOrdered(s, n + 1) PROVE HeapOrdered(pop(s), n)
  <2>1. \A k \in 1 .. n - 1 : Parent(k) # 0 =>
          Parent(k) \in 1 .. n - 1 /\ ~less(s, k, Parent(k))
    <3>1. \A k \in 1 .. n - 1 : Parent(k) \in 0 .. n - 1
      BY <1>1, ParentBelow, Zenon
    <3>2. \A k \in 1 .. n - 1 : k \in 1 .. (n + 1) - 1
      BY <1>1
    <3> QED BY <1>1, <1>9, <3>1, <3>2 DEF HeapOrdered
  <2>2. \A k \in 1 .. n - 1 : u[k + 1] = s[k + 1]
    BY <1>1, <1>2
  <2>3. OrderedBelow(u, n, 0)
    BY <2>1, <2>2 DEF OrderedBelow, less
  <2>4. HeapOrdered(d, n)
    BY <1>1, <1>2, <1>9, <2>3, DownOrders DEF d
  <2>5. \A k \in 1 .. n - 1 : Parent(k) \in 0 .. n - 1
    BY <1>1, ParentBelow, Zenon
  <2>6. \A k \in 0 .. n - 1 : pop(s)[k + 1] = d[k + 1]
    BY <1>1, <1>6
  <2>7. \A k \in 1 .. n - 1 : k \in 0 .. n - 1
    BY <1>1
  <2> QED BY <2>4, <2>5, <2>6, <2>7, Zenon DEF HeapOrdered, less
<1>10. ASSUME Keyed, HeapOrdered(s, Len(s)), NEW k \in 1 .. Len(s) PROVE ~before(s[k], s[1])
  <2>1. k - 1 \in 0 .. Len(s) - 1 /\ (k - 1) + 1 = k
    BY <1>1
  <2>2. ~less(s, k - 1, 0)
    BY <1>10, <2>1, RootFirst
  <2> QED BY <2>1, <2>2 DEF less
<1> QED BY <1>1, <1>8, <1>9, <1>10 DEF n
=============================================================================
