----------------------------- MODULE PoolProofs -----------------------------
(***************************************************************************)
(* The pool's safety, for every set of list elements, goroutines and       *)
(* callers, every set of limits and every size of a batch: no idle worker  *)
(* is lost or handed out twice (NodesAccounted), a node in use has its one *)
(* goroutine (OneServes), a worker with the remover of expired nodes does  *)
(* not rest on a backlog (ExpiryKeepsOne), and a stopped one has no node   *)
(* but those about to be stopped (StoppedLeavesNone).                      *)
(*                                                                         *)
(* The stack is a list in shared memory, so the invariant IInv is about    *)
(* where each node is: a location per node that the whole state agrees     *)
(* with, and for the nodes in the stack a rank that falls by one along the *)
(* links.  What the counters say (the length, the jobs handed out, the busy*)
(* workers) is a cardinality over the places and steps that stand for it.  *)
(***************************************************************************)
EXTENDS Pool, FiniteSetTheorems, TLAPS

-----------------------------------------------------------------------------
(* The inductive invariant *)

\* What a channel holds: nothing, a Stop, or a batch by its size.
Payloads == {<<>>} \cup {<<n>> : n \in Nat}

WalkType == walk \in [e : Elems \cup {Nil}, left : Int, prev : Elems \cup {Nil}, dropped : SUBSET Elems]
Statuses == {"active", "stopping", "stopped", "starting"}
WorkerType == w \in [queue : Nat, signal : BOOLEAN, busy : Int, cur : Int, jobNanos : Nat,
                     concurrency : Limits, status : Statuses]
StackType == /\ head \in Elems \cup {Nil} /\ next \in [Elems -> Elems \cup {Nil}] /\ len \in Int
             /\ popMx \in Threads \cup {Nil} /\ cache \in SUBSET Elems
HandType == /\ node \in [Threads -> Elems \cup {Nil}] /\ at \in [Goroutines -> Elems \cup {Nil}]
            /\ seen \in [Threads -> (Elems \cup {Nil}) \X (Elems \cup {Nil})]
CountType == count \in [Threads -> Int] /\ alive \in Int
ChType == ch \in [Elems -> Payloads]
BoundType == expiry \in BOOLEAN /\ added \in 0..MaxJobs /\ called \in Nat

\* The steps of each thread.
PushSteps == {"push", "pushLoad", "pushCas"}
PopSteps == {"pop", "popCas", "popCount", "popped"}
GoSteps == {"dead", "serve", "run", "keep", "release", "finish", "notify"} \cup PushSteps
LoopSteps == {"select", "check", "planBusy", "planLen", "reserve", "admit", "fill", "undo", "send",
              "sendLast", "drain", "over"} \cup PushSteps \cup PopSteps
ReapSteps == {"free", "prune", "relink", "expire"}
CallSteps == {"free", "tune", "started"} \cup PushSteps \cup PopSteps

PcType == /\ pc \in [Threads -> GoSteps \cup LoopSteps \cup ReapSteps \cup CallSteps]
          /\ \A g \in Goroutines : pc[g] \in GoSteps
          /\ pc[Loop] \in LoopSteps /\ pc[Reaper] \in ReapSteps
          /\ \A c \in Callers : pc[c] \in CallSteps

\* The types, as strong as the steps keep them by themselves.
Types == StackType /\ ChType /\ PcType /\ HandType /\ CountType /\ WalkType /\ WorkerType /\ BoundType

\* A thread has a node in hand at these steps and at no others, but for "popped",
\* where PopBack may have found none.  A goroutine serves a node as long as it lives.
HoldSteps == {"popCount", "reserve", "admit", "fill", "send", "sendLast"} \cup PushSteps
HandsFit == /\ \A t \in Threads : /\ pc[t] \in HoldSteps => node[t] # Nil
                                  /\ pc[t] \notin HoldSteps \cup {"popped"} => node[t] = Nil
            /\ \A g \in Goroutines : pc[g] = "dead" <=> at[g] = Nil
            /\ pc[Reaper] = "free" => walk.dropped = {}

\* popMx has one holder, at these steps.
MutexHeld == /\ \A t \in Threads : pc[t] \in {"popCas", "popCount"} => popMx = t
             /\ pc[Reaper] \in {"prune", "relink"} => popMx = Reaper

\* The places a node can be in, and the place of each one.
Stacked == <<"stack">>
Cached == <<"cache">>
Pruned == <<"pruned">>
Sent == <<"sent">>
Hand(t) == <<"hand", t>>
Runs(g) == <<"runs", g>>
Places == {Stacked, Cached, Pruned, Sent} \cup {Hand(t) : t \in Threads} \cup {Runs(g) : g \in Goroutines}

Placed(loc) ==
    /\ loc \in [Elems -> Places]
    /\ \A e \in Elems : e \in cache <=> loc[e] = Cached
    /\ \A e \in Elems : e \in walk.dropped <=> loc[e] = Pruned
    /\ \A e \in Elems : ch[e] \notin {<<>>, <<Stop>>} <=> loc[e] = Sent
    /\ \A t \in Threads : \A e \in Elems : node[t] = e <=> loc[e] = Hand(t)
    /\ \A g \in Goroutines : \A e \in Elems : Owns(g, e) <=> loc[e] = Runs(g)

StackOf(loc) == {e \in Elems : loc[e] = Stacked}

\* A list of n nodes, the set S, that starts at h and follows nx: r counts each
\* node's distance to the end.
Chain(S, r, n, h, nx) ==
    /\ n \in Nat /\ S \in SUBSET Elems /\ r \in [Elems -> Nat]
    /\ \A e \in S : r[e] \in 1..n
    /\ \A i \in 1..n : \E e \in S : r[e] = i
    /\ \A e, f \in S : r[e] = r[f] => e = f
    /\ IF n = 0 THEN h = Nil ELSE h \in S /\ r[h] = n
    /\ \A e \in S : IF r[e] = 1 THEN nx[e] = Nil ELSE nx[e] \in S /\ r[nx[e]] = r[e] - 1

\* What PopBack loaded is still so for a node of the stack, under popMx.
SeenStands(loc) ==
    \A t \in Threads : pc[t] = "popCas" =>
        seen[t][1] \in Elems /\ loc[seen[t][1]] = Stacked /\ next[seen[t][1]] = seen[t][2]

\* Prune stands on a node of the stack below the one it kept last, and has more
\* nodes below it than it may still remove.
WalkStands(loc, r) ==
    /\ pc[Reaper] \in {"prune", "relink"} =>
         /\ walk.e # Nil => loc[walk.e] = Stacked
         /\ walk.prev # Nil => loc[walk.prev] = Stacked /\ next[walk.prev] = walk.e
         /\ walk.e # Nil /\ walk.left > 0 => r[walk.e] > walk.left
    /\ pc[Reaper] = "relink" => walk.e # Nil /\ walk.prev = Nil /\ walk.left > 0 /\ head # walk.e

\* A node is in use: in the stack, in someone's hands, sent or run.
InUse == {e \in Elems : e \notin cache /\ e \notin walk.dropped}

Located(loc, r, n) ==
    /\ Placed(loc) /\ Chain(StackOf(loc), r, n, head, next)
    /\ SeenStands(loc) /\ WalkStands(loc, r)

\* Len counts the stack, the pushes that are under way and the pop that has its node.
LenSteps == {"pushLoad", "pushCas", "popCount"}
Midway == {t \in Threads : pc[t] \in LenSteps}
LenFits == len = Cardinality(InStack) + Cardinality(Midway)

\* A loop or a goroutine that has a batch has a job at least; the loop's count
\* says Removing while it removes every node.
LoopCounts == {"admit", "fill", "send", "sendLast", "undo"} \cup PushSteps
RunSteps == {"run", "keep", "release", "finish"} \cup PushSteps
CountFits ==
    /\ pc[Loop] \in LoopCounts \cup {"reserve"} => count[Loop] >= 1
    /\ count[Loop] = Removing => pc[Loop] \in PopSteps
    /\ count[Loop] >= Removing
    /\ \A g \in Goroutines : pc[g] \in RunSteps => count[g] >= 1

\* Who has jobs that w.cur counts, and how many: the loop, a channel or a goroutine.
Amount == [o \in Elems \cup Threads |->
             IF o \in Elems THEN (IF ch[o] \in {<<>>, <<Stop>>} THEN 0 ELSE ch[o][1])
             ELSE IF o = Loop THEN (IF pc[o] \in LoopCounts THEN count[o] ELSE 0)
             ELSE IF o \in Goroutines /\ pc[o] \in RunSteps THEN count[o] ELSE 0]

\* ... and the ones of them that have not run yet.
Unrun == [o \in Elems \cup Threads |->
            IF o \in Elems THEN (IF ch[o] \in {<<>>, <<Stop>>} THEN 0 ELSE ch[o][1])
            ELSE IF o = Loop THEN (IF pc[o] \in {"send", "sendLast"} THEN count[o] ELSE 0)
            ELSE IF o \in Goroutines /\ pc[o] = "run" THEN count[o] ELSE 0]

\* A sum, as a number of pairs.
Units(f) == UNION {{o} \X (1..f[o]) : o \in DOMAIN f}

CurFits == w.cur = Cardinality(Units(Amount))
QueueFits == w.queue + Cardinality(Units(Unrun)) <= added

\* Who is counted by w.busy: the loop for the worker it reserved, a channel with
\* a batch, a goroutine until it releases.
BusySteps == {"run", "keep", "release"} \cup PushSteps
BusyOnes == {o \in Elems \cup Threads :
               \/ o \in Elems /\ ch[o] \notin {<<>>, <<Stop>>}
               \/ o = Loop /\ pc[o] \in LoopCounts
               \/ o \in Goroutines /\ pc[o] \in BusySteps}
BusyFits == /\ w.busy = Cardinality(BusyOnes) /\ w.busy <= Max(Limits)
            /\ count[Loop] # Removing /\ pc[Loop] \in {"planBusy", "planLen", "reserve"} \cup PopSteps
                 => w.busy < Max(Limits)

\* No batch is anywhere: what Drain waits for.
Quiet == /\ \A e \in Elems : ch[e] \in {<<>>, <<Stop>>}
         /\ \A g \in Goroutines : pc[g] \in {"dead", "serve", "notify"}
StartSteps == {"started"} \cup PushSteps
StopFits ==
    /\ pc[Loop] = "drain" \/ count[Loop] = Removing => w.status = "stopping"
    /\ count[Loop] = Removing => Quiet
    /\ count[Loop] = Removing /\ pc[Loop] = "popped" /\ node[Loop] = Nil => head = Nil
    /\ w.status = "stopped" => pc[Loop] = "over" /\ Quiet /\ head = Nil
    /\ \A c \in Callers : pc[c] \in StartSteps => w.status = "starting"
    /\ \A c, d \in Callers : pc[c] \in StartSteps /\ pc[d] \in StartSteps => c = d

\* With the remover of expired nodes no caller removes one, and a worker that
\* runs has a node in use.
ExpiryFits ==
    expiry => /\ \A c \in Callers : pc[c] \notin PopSteps \cup {"tune"}
              /\ w.status # "stopped" /\ count[Loop] # Removing => InUse # {}

\* Someone will wake the loop for the backlog, from the step on that decides to rest.
Out == \/ \E g \in Goroutines : Busy(g)
       \/ \E e \in Elems : ch[e] \notin {<<>>, <<Stop>>}
Rests == \/ pc[Loop] \in {"select", "undo"} \cup PushSteps
         \/ pc[Loop] = "popped" /\ node[Loop] = Nil /\ count[Loop] # Removing
WakeFits == Rests /\ ~w.signal /\ Active /\ w.queue > 0 /\ expiry => Out
-----------------------------------------------------------------------------
(* Lists *)

\* A node linked to the head is the new head.
LEMMA ChainPush ==
    ASSUME NEW S, NEW r, NEW n, NEW h, NEW nx, Chain(S, r, n, h, nx),
           NEW e \in Elems, e \notin S, nx[e] = h
    PROVE  Chain(S \cup {e}, [r EXCEPT ![e] = n + 1], n + 1, e, nx)
<1> DEFINE q == [r EXCEPT ![e] = n + 1]
<1>1. /\ n \in Nat /\ S \in SUBSET Elems /\ r \in [Elems -> Nat] /\ Nil \notin Elems
      /\ \A x \in S : r[x] \in 1..n
      /\ \A x, y \in S : r[x] = r[y] => x = y
      /\ IF n = 0 THEN h = Nil ELSE h \in S /\ r[h] = n
      /\ \A x \in S : IF r[x] = 1 THEN nx[x] = Nil ELSE nx[x] \in S /\ r[nx[x]] = r[x] - 1
  BY PoolAssumption DEF Chain
<1>2. q \in [Elems -> Nat] /\ q[e] = n + 1 /\ \A x \in Elems : x # e => q[x] = r[x]
  BY <1>1
<1>3. \A x \in S : x # e /\ x \in Elems /\ q[x] = r[x]
  BY <1>1, <1>2
<1> HIDE DEF q
<1>4. \A i \in 1..n : \E x \in S : r[x] = i
  BY DEF Chain
<1>5. \A i \in 1..(n + 1) : \E x \in S \cup {e} : q[x] = i
  <2> TAKE i \in 1..(n + 1)
  <2>1. CASE i = n + 1
    BY <2>1, <1>2
  <2>2. CASE i # n + 1
    BY <2>2, <1>1, <1>3, <1>4
  <2> QED BY <2>1, <2>2
<1>6. \A x \in S \cup {e} : q[x] \in 1..(n + 1)
  BY <1>1, <1>2, <1>3
<1>7. \A x, y \in S \cup {e} : q[x] = q[y] => x = y
  BY <1>1, <1>2, <1>3
<1>8. \A x \in S \cup {e} : IF q[x] = 1 THEN nx[x] = Nil ELSE nx[x] \in S \cup {e} /\ q[nx[x]] = q[x] - 1
  <2> TAKE x \in S \cup {e}
  <2>1. CASE x = e
    <3>1. CASE n = 0
      BY <3>1, <2>1, <1>1, <1>2
    <3>2. CASE n # 0
      BY <3>2, <2>1, <1>1, <1>2, <1>3
    <3> QED BY <3>1, <3>2
  <2>2. CASE x # e
    BY <2>2, <1>1, <1>3
  <2> QED BY <2>1, <2>2
<1>9. n + 1 \in Nat /\ n + 1 # 0 /\ S \cup {e} \in SUBSET Elems
  BY <1>1
<1> QED BY <1>2, <1>5, <1>6, <1>7, <1>8, <1>9, Zenon DEF Chain, q

\* The head's successor heads the rest.
LEMMA ChainPop ==
    ASSUME NEW S, NEW r, NEW n, NEW h, NEW nx, Chain(S, r, n, h, nx), h # Nil
    PROVE  Chain(S \ {h}, r, n - 1, nx[h], nx)
<1>1. /\ n \in Nat \ {0} /\ S \in SUBSET Elems /\ r \in [Elems -> Nat] /\ Nil \notin Elems
      /\ \A x \in S : r[x] \in 1..n
      /\ \A x, y \in S : r[x] = r[y] => x = y
      /\ h \in S /\ r[h] = n
      /\ \A x \in S : IF r[x] = 1 THEN nx[x] = Nil ELSE nx[x] \in S /\ r[nx[x]] = r[x] - 1
  BY PoolAssumption DEF Chain
<1>4. \A i \in 1..n : \E x \in S : r[x] = i
  BY DEF Chain
<1>2. n - 1 \in Nat /\ S \ {h} \in SUBSET Elems
  BY <1>1
<1>3. \A x \in S \ {h} : r[x] \in 1..(n - 1)
  BY <1>1
<1>5. \A i \in 1..(n - 1) : \E x \in S \ {h} : r[x] = i
  BY <1>1, <1>4
<1>6. IF n - 1 = 0 THEN nx[h] = Nil ELSE nx[h] \in S \ {h} /\ r[nx[h]] = n - 1
  BY <1>1
<1>7. \A x \in S \ {h} : IF r[x] = 1 THEN nx[x] = Nil ELSE nx[x] \in S \ {h} /\ r[nx[x]] = r[x] - 1
  BY <1>1
<1> QED BY <1>1, <1>2, <1>3, <1>5, <1>6, <1>7, Zenon DEF Chain

\* The ranks without e: those above it move down by one.
Without(r, S, e) == [x \in Elems |-> IF x \in S /\ r[x] > r[e] THEN r[x] - 1 ELSE r[x]]

\* A node is unlinked by writing its successor into the node above it.
LEMMA ChainDrop ==
    ASSUME NEW S, NEW r, NEW n, NEW h, NEW nx, Chain(S, r, n, h, nx),
           nx \in [Elems -> Elems \cup {Nil}],
           NEW p \in S, NEW e \in S, nx[p] = e
    PROVE  Chain(S \ {e}, Without(r, S, e), n - 1, h, [nx EXCEPT ![p] = nx[e]])
<1> DEFINE q == Without(r, S, e)
           my == [nx EXCEPT ![p] = nx[e]]
<1>1. /\ n \in Nat /\ S \in SUBSET Elems /\ r \in [Elems -> Nat] /\ Nil \notin Elems
      /\ \A x \in S : r[x] \in 1..n
      /\ \A x, y \in S : r[x] = r[y] => x = y
      /\ IF n = 0 THEN h = Nil ELSE h \in S /\ r[h] = n
      /\ \A x \in S : IF r[x] = 1 THEN nx[x] = Nil ELSE nx[x] \in S /\ r[nx[x]] = r[x] - 1
  BY PoolAssumption DEF Chain
<1>2. \A i \in 1..n : \E x \in S : r[x] = i
  BY DEF Chain
<1>3. /\ r[e] \in 1..n /\ r[p] = r[e] + 1 /\ p # e /\ n # 0 /\ h # e /\ h \in S /\ r[h] = n /\ n > r[e]
  BY <1>1
<1>4. q \in [Elems -> Nat] /\ \A x \in S \ {e} : q[x] = (IF r[x] > r[e] THEN r[x] - 1 ELSE r[x])
  BY <1>1, <1>3 DEF Without
<1>5. \A x \in S : x # p => my[x] = nx[x]
  BY <1>1
<1>6. my[p] = nx[e]
  BY <1>1
<1> HIDE DEF q, my
<1>7. \A x \in S \ {e} : r[x] # r[e]
  BY <1>1
<1>8. \A x \in S \ {e} : q[x] \in 1..(n - 1)
  BY <1>1, <1>3, <1>4, <1>7
<1>9. \A i \in 1..(n - 1) : \E x \in S \ {e} : q[x] = i
  <2> TAKE i \in 1..(n - 1)
  <2>1. CASE i < r[e]
    <3>1. PICK x \in S : r[x] = i
      BY <1>1, <1>2
    <3> QED BY <3>1, <2>1, <1>1, <1>3, <1>4
  <2>2. CASE i >= r[e]
    <3>1. i + 1 \in 1..n
      BY <1>1
    <3>2. PICK x \in S : r[x] = i + 1
      BY <3>1, <1>2
    <3>3. x \in S \ {e} /\ r[x] > r[e]
      BY <3>2, <2>2, <1>1, <1>3
    <3> QED BY <3>2, <3>3, <1>1, <1>4
  <2> QED BY <2>1, <2>2, <1>1, <1>3
<1>10. \A x, y \in S \ {e} : q[x] = q[y] => x = y
  BY <1>1, <1>3, <1>4, <1>7
<1>11. h \in S \ {e} /\ q[h] = n - 1 /\ n - 1 # 0 /\ n - 1 \in Nat /\ S \ {e} \in SUBSET Elems
  BY <1>1, <1>3, <1>4
<1>12. \A x \in S \ {e} : IF q[x] = 1 THEN my[x] = Nil ELSE my[x] \in S \ {e} /\ q[my[x]] = q[x] - 1
  <2> TAKE x \in S \ {e}
  <2>1. CASE x = p
    <3>1. q[x] = r[e]
      BY <2>1, <1>1, <1>3, <1>4
    <3>2. CASE r[e] = 1
      BY <3>1, <3>2, <2>1, <1>1, <1>6
    <3>3. CASE r[e] # 1
      <4>1. nx[e] \in S \ {e} /\ r[nx[e]] = r[e] - 1
        BY <3>3, <1>1, <1>3
      <4>2. q[nx[e]] = r[e] - 1
        BY <4>1, <1>1, <1>3, <1>4
      <4> QED BY <4>1, <4>2, <3>1, <3>3, <2>1, <1>6
    <3> QED BY <3>2, <3>3
  <2>2. CASE x # p
    <3>1. my[x] = nx[x] /\ nx[x] # e
      <4>1. CASE nx[x] = e
        BY <4>1, <2>2, <1>1, <1>3
      <4> QED BY <4>1, <2>2, <1>5
    <3>2. CASE r[x] = 1
      <4>1. q[x] = 1
        BY <3>2, <1>3, <1>4
      <4> QED BY <4>1, <3>1, <3>2, <1>1
    <3>3. CASE r[x] # 1
      <4>1. nx[x] \in S \ {e} /\ r[nx[x]] = r[x] - 1 /\ r[x] \in Nat /\ r[x] > 1
        BY <3>1, <3>3, <1>1
      <4>2. r[nx[x]] # r[e] /\ r[x] # r[e] /\ r[nx[x]] \in Nat /\ r[e] \in Nat
        BY <4>1, <1>7, <1>3
      <4>3. q[nx[x]] = (IF r[nx[x]] > r[e] THEN r[nx[x]] - 1 ELSE r[nx[x]])
            /\ q[x] = (IF r[x] > r[e] THEN r[x] - 1 ELSE r[x])
        BY <4>1, <1>4
      <4>4. q[nx[x]] = q[x] - 1 /\ q[x] # 1
        BY <4>1, <4>2, <4>3, <1>3
      <4> QED BY <4>1, <4>4, <3>1
    <3> QED BY <3>2, <3>3
  <2> QED BY <2>1, <2>2
<1> QED BY <1>1, <1>4, <1>8, <1>9, <1>10, <1>11, <1>12, Zenon DEF Chain, q, my

\* The link of a node outside the list is no matter to the list.
LEMMA ChainWrite ==
    ASSUME NEW S, NEW r, NEW n, NEW h, NEW nx, Chain(S, r, n, h, nx),
           nx \in [Elems -> Elems \cup {Nil}],
           NEW e \in Elems, e \notin S, NEW v
    PROVE  Chain(S, r, n, h, [nx EXCEPT ![e] = v])
<1> DEFINE my == [nx EXCEPT ![e] = v]
<1>1. S \in SUBSET Elems
  BY DEF Chain
<1>2. \A x \in S : my[x] = nx[x]
  BY <1>1
<1> HIDE DEF my
<1> QED BY <1>2 DEF Chain, my

\* Every node but the head has one above it.
LEMMA ChainAbove ==
    ASSUME NEW S, NEW r, NEW n, NEW h, NEW nx, Chain(S, r, n, h, nx),
           NEW e \in S, e # h
    PROVE  \E p \in S : nx[p] = e
<1>1. /\ n \in Nat /\ S \in SUBSET Elems /\ r \in [Elems -> Nat]
      /\ \A x \in S : r[x] \in 1..n
      /\ \A x, y \in S : r[x] = r[y] => x = y
      /\ IF n = 0 THEN h = Nil ELSE h \in S /\ r[h] = n
      /\ \A x \in S : IF r[x] = 1 THEN nx[x] = Nil ELSE nx[x] \in S /\ r[nx[x]] = r[x] - 1
      /\ \A i \in 1..n : \E x \in S : r[x] = i
  BY DEF Chain
<1>2. r[e] + 1 \in 1..n
  BY <1>1
<1>3. PICK p \in S : r[p] = r[e] + 1
  BY <1>1, <1>2
<1>4. nx[p] \in S /\ r[nx[p]] = r[e]
  BY <1>1, <1>3
<1> QED BY <1>1, <1>4

\* A set of naturals that is not empty has a least element.
LEMMA LeastOf ==
    ASSUME NEW T \in SUBSET Nat, T # {}
    PROVE  \E m \in T : \A k \in T : m <= k
<1> DEFINE R == OpToRel(<, Nat)
<1>1. IsWellFoundedOn(R, Nat)
  BY NatLessThanWellFounded
<1>2. \A x, y \in Nat : <<y, x>> \in R <=> y < x
  BY DEF OpToRel
<1> HIDE DEF R
<1>3. PICK m \in T : \A k \in T : ~ (<<k, m>> \in R)
  BY <1>1, WFMin, Zenon
<1>4. \A k \in T : ~ (k < m)
  BY <1>2, <1>3, Zenon
<1>5. \A i, k \in Nat : ~ (k < i) => i <= k
  OBVIOUS
<1> QED BY <1>4, <1>5, Zenon

\* A list of n nodes has n nodes.
LEMMA ChainCount ==
    ASSUME NEW S, NEW r, NEW n, NEW h, NEW nx, Chain(S, r, n, h, nx)
    PROVE  IsFiniteSet(S) /\ Cardinality(S) = n /\ n <= Cardinality(Elems) /\ Cardinality(Elems) \in Nat
<1>1. /\ n \in Nat /\ S \in SUBSET Elems /\ r \in [Elems -> Nat]
      /\ \A x \in S : r[x] \in 1..n
      /\ \A x, y \in S : r[x] = r[y] => x = y
      /\ \A i \in 1..n : \E x \in S : r[x] = i
  BY DEF Chain
<1> DEFINE f == [x \in S |-> r[x]]
<1>2. f \in Bijection(S, 1..n)
  <2>1. f \in [S -> 1..n]
    BY <1>1
  <2>2. \A x, y \in S : f[x] = f[y] => x = y
    BY <1>1
  <2>3. \A i \in 1..n : \E x \in S : f[x] = i
    BY <1>1
  <2> HIDE DEF f
  <2> QED BY <2>1, <2>2, <2>3 DEF Bijection, Injection, Surjection, IsInjective
<1>3. IsFiniteSet(S)
  <2>1. IsFiniteSet(Elems)
    BY PoolAssumption
  <2> QED BY <2>1, <1>1, FS_Subset, Zenon
<1>4. IsFiniteSet(1..n) /\ Cardinality(1..n) = n
  BY <1>1, FS_Interval
<1>5. ExistsBijection(S, 1..n)
  BY <1>2, Zenon DEF ExistsBijection
<1>6. Cardinality(1..n) = Cardinality(S)
  BY <1>3, <1>5, FS_Bijection, Zenon
<1>7. IsFiniteSet(Elems)
  BY PoolAssumption
<1>8. Cardinality(S) <= Cardinality(Elems) /\ Cardinality(Elems) \in Nat
  BY <1>1, <1>7, FS_Subset, FS_CardinalityType, Zenon
<1> QED BY <1>3, <1>4, <1>6, <1>8

\* One round of Down.
Further(nx, s) == IF s = <<>> \/ nx[s[Len(s)]] = Nil THEN s ELSE Append(s, nx[s[Len(s)]])
Begin(e) == IF e = Nil THEN <<>> ELSE <<e>>

\* The first m nodes of q, or all n.
Prefix(q, n, m) == [j \in 1..(IF m < n THEN m ELSE n) |-> q[j]]

\* One more step of Down reaches one more node of the list.
LEMMA PrefixFurther ==
    ASSUME NEW n \in Nat, NEW q \in [1..n -> Elems], NEW nx,
           \A i \in 1..n : nx[q[i]] = (IF i = n THEN Nil ELSE q[i + 1]),
           NEW m \in Nat
    PROVE  Prefix(q, n, m + 2) = Further(nx, Prefix(q, n, m + 1))
<1> DEFINE s == Prefix(q, n, m + 1)
           k == IF m + 1 < n THEN m + 1 ELSE n
<1>1. k \in Nat /\ k <= n /\ s \in [1..k -> Elems] /\ s \in Seq(Elems) /\ Len(s) = k
      /\ \A j \in 1..k : s[j] = q[j]
  BY DEF Prefix
<1>0. Nil \notin Elems
  BY PoolAssumption
<1>2. CASE n = 0
  <2>1. s = <<>> /\ Prefix(q, n, m + 2) = <<>>
    BY <1>2 DEF Prefix
  <2> HIDE DEF s
  <2> QED BY <2>1 DEF Further, s
<1>3. CASE n > 0 /\ m + 1 < n
  <2>1. k = m + 1 /\ k \in 1..n /\ k # n /\ k + 1 \in 1..n /\ s # <<>>
    BY <1>1, <1>3
  <2>2. s[Len(s)] = q[k] /\ nx[q[k]] = q[k + 1] /\ q[k + 1] \in Elems
    BY <1>1, <2>1
  <2>3. Prefix(q, n, m + 2) = Append(s, q[k + 1])
    <3>1. Prefix(q, n, m + 2) = [j \in 1..(k + 1) |-> q[j]]
      BY <1>1, <1>3, <2>1 DEF Prefix
    <3>2. Append(s, q[k + 1]) = [j \in 1..(k + 1) |-> IF j <= k THEN s[j] ELSE q[k + 1]]
      <4> HIDE DEF s, k
      <4> QED BY <1>1, <2>2
    <3> HIDE DEF s, k
    <3> QED BY <1>1, <3>1, <3>2, SMTT(30)
  <2> HIDE DEF s, k
  <2> QED BY <1>0, <2>1, <2>2, <2>3 DEF Further, s
<1>4. CASE n > 0 /\ ~(m + 1 < n)
  <2>1. k = n /\ s # <<>> /\ k \in 1..n
    BY <1>1, <1>4
  <2>2. nx[s[Len(s)]] = Nil
    BY <1>1, <2>1
  <2>3. Prefix(q, n, m + 2) = s
    BY <1>4 DEF Prefix
  <2> HIDE DEF s, k
  <2> QED BY <2>1, <2>2, <2>3 DEF Further, s
<1> QED BY <1>2, <1>3, <1>4

\* Down finds the list: its nodes in their order, and all of them.
LEMMA DownFinds ==
    ASSUME NEW S, NEW r, NEW n, NEW h, NEW nx, Chain(S, r, n, h, nx)
    PROVE  Len(Down(nx, h)) = n /\ {Down(nx, h)[i] : i \in DOMAIN Down(nx, h)} = S
<1> DEFINE q == [i \in 1..n |-> CHOOSE e \in S : r[e] = n + 1 - i]
           N == Cardinality(Elems)
           Body(f) == [i \in 0..N |-> IF i = 0 THEN Begin(h) ELSE Further(nx, f[i - 1])]
           g == [i \in 0..N |-> Prefix(q, n, i + 1)]
           f == CHOOSE f : f = Body(f)
<1>1. /\ n \in Nat /\ S \in SUBSET Elems /\ r \in [Elems -> Nat] /\ Nil \notin Elems
      /\ \A x \in S : r[x] \in 1..n
      /\ \A x, y \in S : r[x] = r[y] => x = y
      /\ \A i \in 1..n : \E x \in S : r[x] = i
      /\ IF n = 0 THEN h = Nil ELSE h \in S /\ r[h] = n
      /\ \A x \in S : IF r[x] = 1 THEN nx[x] = Nil ELSE nx[x] \in S /\ r[nx[x]] = r[x] - 1
  BY PoolAssumption DEF Chain
<1>2. n <= N /\ N \in Nat
  BY ChainCount, Zenon
<1>3. \A i \in 1..n : q[i] \in S /\ r[q[i]] = n + 1 - i
  <2> TAKE i \in 1..n
  <2>1. n + 1 - i \in 1..n
    BY <1>1
  <2>2. \E e \in S : r[e] = n + 1 - i
    BY <1>1, <2>1
  <2>3. q[i] = CHOOSE e \in S : r[e] = n + 1 - i
    OBVIOUS
  <2> HIDE DEF q
  <2> QED BY <2>2, <2>3
<1>4. q \in [1..n -> Elems]
  BY <1>1, <1>3
<1> HIDE DEF q, N
<1>5. \A i \in 1..n : nx[q[i]] = (IF i = n THEN Nil ELSE q[i + 1])
  <2> TAKE i \in 1..n
  <2>1. q[i] \in S /\ r[q[i]] = n + 1 - i
    BY <1>3
  <2>2. CASE i = n
    BY <2>1, <2>2, <1>1
  <2>3. CASE i # n
    <3>1. q[i + 1] \in S /\ r[q[i + 1]] = n - i
      BY <2>3, <1>1, <1>3
    <3>2. nx[q[i]] \in S /\ r[nx[q[i]]] = n - i
      BY <2>1, <2>3, <1>1
    <3> QED BY <3>1, <3>2, <2>3, <1>1
  <2> QED BY <2>2, <2>3
<1>6. Prefix(q, n, 1) = Begin(h)
  <2>1. CASE n = 0
    BY <2>1, <1>1 DEF Prefix, Begin
  <2>2. CASE n # 0
    <3>1. 1 \in 1..n /\ q[1] = h
      BY <2>2, <1>1, <1>3
    <3>2. Prefix(q, n, 1) = [j \in 1..1 |-> q[j]]
      BY <2>2, <1>1 DEF Prefix
    <3>3. h # Nil
      BY <2>2, <1>1
    <3> QED BY <3>1, <3>2, <3>3 DEF Begin
  <2> QED BY <2>1, <2>2
<1>7. \A m \in Nat : Prefix(q, n, m + 2) = Further(nx, Prefix(q, n, m + 1))
  <2>1. n \in Nat
    BY <1>1
  <2> QED BY <2>1, <1>4, <1>5, PrefixFurther, Zenon
<1>8. g = Body(g)
  <2>1. \A i \in 0..N : i # 0 => i - 1 \in 0..N /\ g[i - 1] = Prefix(q, n, i)
    BY <1>2
  <2>2. \A i \in 0..N : i # 0 => Prefix(q, n, i + 1) = Further(nx, Prefix(q, n, i))
    <3> TAKE i \in 0..N
    <3>1. CASE i # 0
      <4>1. i - 1 \in Nat /\ (i - 1) + 2 = i + 1 /\ (i - 1) + 1 = i
        BY <3>1, <1>2
      <4> QED BY <4>1, <1>7
    <3> QED BY <3>1
  <2>3. \A i \in 0..N : Prefix(q, n, i + 1) = (IF i = 0 THEN Begin(h) ELSE Further(nx, g[i - 1]))
    <3> TAKE i \in 0..N
    <3>1. CASE i = 0
      <4>1. i + 1 = 1
        BY <3>1
      <4> QED BY <4>1, <3>1, <1>6
    <3>2. CASE i # 0
      BY <3>2, <2>1, <2>2, Zenon
    <3> QED BY <3>1, <3>2
  <2> QED BY <2>3, Zenon
<1>9. f = Body(f)
  <2> HIDE DEF g, Body
  <2> QED BY <1>8, Zenon
<1> HIDE DEF f
<1>10. f[0] = Begin(h) /\ \A i \in 0..N : i # 0 => f[i] = Further(nx, f[i - 1])
  BY <1>2, <1>9
<1>11. \A i \in 0..N : f[i] = Prefix(q, n, i + 1)
  <2> DEFINE T == {i \in 0..N : f[i] # Prefix(q, n, i + 1)}
  <2>1. SUFFICES ASSUME T # {} PROVE FALSE
    OBVIOUS
  <2>2. T \in SUBSET Nat
    BY <1>2
  <2>3. PICK m \in T : \A k \in T : m <= k
    <3> HIDE DEF T
    <3> QED BY <2>1, <2>2, LeastOf
  <2>4. CASE m = 0
    BY <2>3, <2>4, <1>6, <1>10
  <2>5. CASE m # 0
    <3>1. m - 1 \in 0..N /\ m - 1 \notin T /\ m \in 0..N /\ m - 1 \in Nat
      BY <2>3, <2>5, <1>2
    <3>2. f[m - 1] = Prefix(q, n, (m - 1) + 1)
      BY <3>1
    <3>3. f[m] = Further(nx, Prefix(q, n, (m - 1) + 1))
      BY <3>1, <3>2, <2>5, <1>10, Zenon
    <3>4. f[m] = Prefix(q, n, (m - 1) + 2)
      BY <3>1, <3>3, <1>7, Zenon
    <3>5. (m - 1) + 2 = m + 1
      BY <3>1
    <3> QED BY <2>3, <3>4, <3>5
  <2> QED BY <2>4, <2>5
<1>12. Down(nx, h) = f[N]
  BY DEF Down, Further, Begin, f, N
<1>13. f[N] = Prefix(q, n, N + 1)
  BY <1>11, <1>2
<1>14. Prefix(q, n, N + 1) = q
  BY <1>1, <1>2, <1>4 DEF Prefix
<1>15. Down(nx, h) = q
  BY <1>12, <1>13, <1>14
<1>16. Len(q) = n /\ DOMAIN q = 1..n
  BY <1>1, <1>4
<1>17. ASSUME NEW x \in S PROVE \E i \in DOMAIN q : q[i] = x
  <2>1. n + 1 - r[x] \in 1..n
    BY <1>1
  <2>2. q[n + 1 - r[x]] \in S /\ r[q[n + 1 - r[x]]] = r[x]
    BY <2>1, <1>1, <1>3
  <2> QED BY <2>1, <2>2, <1>1, <1>16
<1> QED BY <1>3, <1>15, <1>16, <1>17

-----------------------------------------------------------------------------
(* Sums *)

Owners == Elems \cup Threads

\* The pairs of one owner are as many as its amount.
LEMMA UnitsOfOne ==
    ASSUME NEW o, NEW a \in Nat
    PROVE  IsFiniteSet({o} \X (1..a)) /\ Cardinality({o} \X (1..a)) = a
<1>1. IsFiniteSet(1..a) /\ Cardinality(1..a) = a
  BY FS_Interval
<1>2. IsFiniteSet({o}) /\ Cardinality({o}) = 1
  BY FS_Singleton, Zenon
<1>3. IsFiniteSet({o} \X (1..a)) /\ Cardinality({o} \X (1..a)) = Cardinality({o}) * Cardinality(1..a)
  BY <1>1, <1>2, FS_Product, Zenon
<1> QED BY <1>1, <1>2, <1>3

\* Elements and threads are finitely many.
LEMMA FiniteOwners ==
    IsFiniteSet(Owners) /\ IsFiniteSet(Threads)
<1>1. IsFiniteSet(Elems) /\ IsFiniteSet(Goroutines) /\ IsFiniteSet(Callers)
  BY PoolAssumption
<1>2. IsFiniteSet({Loop})
  BY FS_Singleton, Zenon
<1>3. IsFiniteSet({Loop} \cup {Reaper})
  BY <1>2, FS_AddElement, Zenon
<1>4. {Loop} \cup {Reaper} = {Loop, Reaper}
  OBVIOUS
<1>5. IsFiniteSet(Goroutines \cup Callers)
  BY <1>1, FS_Union, Zenon
<1>6. IsFiniteSet(Threads)
  BY <1>3, <1>4, <1>5, FS_Union, Zenon DEF Threads
<1> QED BY <1>1, <1>6, FS_Union, Zenon DEF Owners

\* The sum is a number.
LEMMA UnitsFinite ==
    ASSUME NEW f \in [Owners -> Nat]
    PROVE  IsFiniteSet(Units(f)) /\ Cardinality(Units(f)) \in Nat
<1> DEFINE F == [o \in Owners |-> {o} \X (1..f[o])]
           T == {F[o] : o \in Owners}
<1>1. IsFiniteSet(T)
  <2>1. F \in Surjection(Owners, T)
    BY DEF Surjection
  <2> HIDE DEF F, T
  <2> QED BY <2>1, FiniteOwners, FS_Surjection, Zenon
<1>2. \A A \in T : IsFiniteSet(A)
  <2>1. \A o \in Owners : IsFiniteSet({o} \X (1..f[o]))
    BY UnitsOfOne
  <2> QED BY <2>1, Zenon
<1>3. Units(f) = UNION T
  BY DEF Units
<1> HIDE DEF T, F
<1>4. IsFiniteSet(Units(f))
  BY <1>1, <1>2, <1>3, FS_UNION, Zenon
<1> QED BY <1>4, FS_CardinalityType, Zenon

\* A unit is an owner with one of its jobs.
LEMMA InUnits ==
    ASSUME NEW f \in [Owners -> Nat]
    PROVE  \A x : x \in Units(f) <=> \E o \in Owners : \E i \in 1..f[o] : x = <<o, i>>
BY DEF Units

\* One owner's amount changes, and the sum with it.
LEMMA UnitsChange ==
    ASSUME NEW f \in [Owners -> Nat], NEW o \in Owners, NEW a \in Nat
    PROVE  Cardinality(Units([f EXCEPT ![o] = a])) = Cardinality(Units(f)) - f[o] + a
<1> DEFINE g == [f EXCEPT ![o] = a]
           A == {o} \X (1..f[o])
           B == {o} \X (1..a)
           U == Units(f)
           V == Units(g)
<1>1. g \in [Owners -> Nat] /\ g[o] = a /\ \A p \in Owners : p # o => g[p] = f[p]
  OBVIOUS
<1> HIDE DEF g
<1>2. IsFiniteSet(U) /\ Cardinality(U) \in Nat
  BY UnitsFinite
<1>3. IsFiniteSet(A) /\ Cardinality(A) = f[o]
  BY UnitsOfOne
<1>4. IsFiniteSet(B) /\ Cardinality(B) = a
  BY UnitsOfOne
<1>5. \A x : x \in U <=> \E p \in Owners : \E i \in 1..f[p] : x = <<p, i>>
  BY InUnits, Zenon
<1>6. \A x : x \in V <=> \E p \in Owners : \E i \in 1..g[p] : x = <<p, i>>
  BY <1>1, InUnits, Zenon
<1>7. \A x : x \in A <=> \E i \in 1..f[o] : x = <<o, i>>
  OBVIOUS
<1>8. \A x : x \in B <=> \E i \in 1..a : x = <<o, i>>
  OBVIOUS
<1>9. \A p, i, q, j : <<p, i>> = <<q, j>> => p = q /\ i = j
  OBVIOUS
<1> HIDE DEF A, B, U, V
<1>10. U \cap A = A
  BY <1>5, <1>7, Zenon
<1>11. V = (U \ A) \cup B
  <2>1. ASSUME NEW x \in V PROVE x \in (U \ A) \cup B
    <3>1. PICK p \in Owners : \E i \in 1..g[p] : x = <<p, i>>
      BY <2>1, <1>6, Zenon
    <3>2. CASE p = o
      BY <3>1, <3>2, <1>1, <1>8, Zenon
    <3>3. CASE p # o
      <4>1. x \in U
        BY <3>1, <3>3, <1>1, <1>5, Zenon
      <4>2. x \notin A
        BY <3>1, <3>3, <1>7, <1>9, Zenon
      <4> QED BY <4>1, <4>2
    <3> QED BY <3>2, <3>3
  <2>2. ASSUME NEW x \in B PROVE x \in V
    BY <2>2, <1>1, <1>6, <1>8, Zenon
  <2>3. ASSUME NEW x \in U \ A PROVE x \in V
    <3>1. PICK p \in Owners : \E i \in 1..f[p] : x = <<p, i>>
      BY <2>3, <1>5, Zenon
    <3>2. p # o
      BY <3>1, <2>3, <1>7, Zenon
    <3> QED BY <3>1, <3>2, <1>1, <1>6, Zenon
  <2> QED BY <2>1, <2>2, <2>3
<1>12. (U \ A) \cap B = {}
  <2> SUFFICES ASSUME NEW x \in U \ A, x \in B PROVE FALSE
    OBVIOUS
  <2>1. PICK i \in 1..a : x = <<o, i>>
    BY <1>8, Zenon
  <2>2. PICK p \in Owners : \E j \in 1..f[p] : x = <<p, j>>
    BY <1>5, Zenon
  <2>3. p = o
    BY <2>1, <2>2, <1>9, Zenon
  <2> QED BY <2>2, <2>3, <1>7, Zenon
<1>13. IsFiniteSet(U \ A) /\ Cardinality(U \ A) = Cardinality(U) - Cardinality(U \cap A)
  BY <1>2, FS_Difference, Zenon
<1>14. Cardinality((U \ A) \cup B) = Cardinality(U \ A) + Cardinality(B) - Cardinality((U \ A) \cap B)
  BY <1>4, <1>13, FS_Union, Zenon
<1>15. Cardinality({}) = 0
  BY FS_EmptySet, Zenon
<1>16. Cardinality(V) = Cardinality(U) - f[o] + a
  <2>1. Cardinality(U \ A) = Cardinality(U) - f[o]
    BY <1>3, <1>10, <1>13, Zenon
  <2>2. Cardinality(V) = Cardinality(U \ A) + a - 0
    BY <1>4, <1>11, <1>12, <1>14, <1>15, Zenon
  <2>3. f[o] \in Nat
    OBVIOUS
  <2> QED BY <1>2, <2>1, <2>2, <2>3
<1> QED BY <1>16 DEF U, V, g

\* Two owners' amounts change.
LEMMA UnitsChangeTwo ==
    ASSUME NEW f \in [Owners -> Nat], NEW o \in Owners, NEW a \in Nat, NEW p \in Owners,
           NEW b \in Nat, o # p
    PROVE  Cardinality(Units([f EXCEPT ![o] = a, ![p] = b])) = Cardinality(Units(f)) - f[o] + a - f[p] + b
<1> DEFINE g == [f EXCEPT ![o] = a]
<1>1. g \in [Owners -> Nat] /\ g[p] = f[p] /\ [f EXCEPT ![o] = a, ![p] = b] = [g EXCEPT ![p] = b]
  OBVIOUS
<1>2. Cardinality(Units(g)) = Cardinality(Units(f)) - f[o] + a
  BY UnitsChange
<1>4. f[o] \in Nat /\ f[p] \in Nat /\ Cardinality(Units(f)) \in Nat
  BY UnitsFinite
<1> HIDE DEF g
<1>3. Cardinality(Units([g EXCEPT ![p] = b])) = Cardinality(Units(g)) - g[p] + b
  BY <1>1, UnitsChange, Zenon
<1> QED BY <1>1, <1>2, <1>3, <1>4

\* The sum is at least each of the amounts.
LEMMA UnitsBound ==
    ASSUME NEW f \in [Owners -> Nat], NEW o \in Owners
    PROVE  f[o] <= Cardinality(Units(f))
<1> DEFINE A == {o} \X (1..f[o])
           U == Units(f)
<1>1. IsFiniteSet(U)
  BY UnitsFinite
<1>2. Cardinality(A) = f[o]
  BY UnitsOfOne
<1>3. A \in SUBSET U
  BY InUnits
<1> HIDE DEF A, U
<1>4. Cardinality(A) <= Cardinality(U)
  BY <1>1, <1>3, FS_Subset, Zenon
<1> QED BY <1>2, <1>4 DEF U

-----------------------------------------------------------------------------
(* The larger and the smaller of two numbers, and the sizes made of them *)

\* Max and Min of two numbers.
LEMMA MaxOfTwo ==
    ASSUME NEW a \in Int, NEW b \in Int
    PROVE  /\ Max({a, b}) = (IF a >= b THEN a ELSE b)
           /\ Min({a, b}) = (IF a =< b THEN a ELSE b)
<1>1. \E x \in {a, b} : \A y \in {a, b} : x >= y
  BY DEF Max
<1>2. \E x \in {a, b} : \A y \in {a, b} : x =< y
  OBVIOUS
<1>3. Max({a, b}) \in {a, b} /\ \A y \in {a, b} : Max({a, b}) >= y
  BY <1>1, Zenon DEF Max
<1>4. Min({a, b}) \in {a, b} /\ \A y \in {a, b} : Min({a, b}) =< y
  BY <1>2, Zenon DEF Min
<1> QED BY <1>3, <1>4

\* There is a largest concurrency limit, and every limit is at least 1.
LEMMA LargestLimit ==
    Max(Limits) \in Limits /\ Max(Limits) \in Nat \ {0} /\ \A n \in Limits : n <= Max(Limits) /\ n \in Nat \ {0}
<1>1. Limits \in SUBSET (Nat \ {0}) /\ \E m \in Limits : \A n \in Limits : n <= m
  BY PoolAssumption
<1>2. \A m, n \in Nat : n <= m <=> m >= n
  OBVIOUS
<1>3. \E m \in Limits : \A n \in Limits : m >= n
  BY <1>1, <1>2
<1>4. Max(Limits) \in Limits /\ \A n \in Limits : Max(Limits) >= n
  BY <1>3, Zenon DEF Max
<1> QED BY <1>1, <1>2, <1>4

\* A minimum of idle workers is one at least.
LEMMA MinIdle ==
    ASSUME WorkerType
    PROVE  numMinIdleWorkers \in Nat \ {0}
<1>1. w.concurrency \in Nat /\ Ratio \in Nat
  BY LargestLimit, PoolAssumption DEF WorkerType
<1>2. w.concurrency * Ratio \in Nat
  BY <1>1
<1>3. (w.concurrency * Ratio) \div 100 \in Int
  BY <1>2
<1> HIDE DEF WorkerType
<1> QED BY <1>3, MaxOfTwo DEF numMinIdleWorkers

\* A batch is one job at least.
LEMMA BatchSize ==
    ASSUME WorkerType, CountType
    PROVE  Batch \in Nat \ {0}
<1>1. /\ MaxBatch \in Nat \ {0} /\ HandoffGap \in Nat /\ count[Loop] \in Int /\ alive \in Int
      /\ w.jobNanos \in Nat /\ w.concurrency \in Nat \ {0}
  BY LargestLimit, PoolAssumption DEF WorkerType, CountType, Threads
<1> DEFINE pending == count[Loop]
           shares == IF Grow THEN Min({w.concurrency, pending}) ELSE alive
           size == batchSize(pending, shares)
           budget == IF w.concurrency > 1 THEN batchBudget(w.jobNanos, alive) ELSE MaxBatch
<1>2. shares \in Int
  <2>1. w.concurrency \in Int /\ pending \in Int
    BY <1>1
  <2>2. Min({w.concurrency, pending}) = (IF w.concurrency =< pending THEN w.concurrency ELSE pending)
    BY <2>1, MaxOfTwo, Zenon
  <2> QED BY <2>1, <2>2, <1>1
<1>3. \A a, b \in Int : b >= 1 => a \div b \in Int
  OBVIOUS
<1>4. \A s \in Int : Max({s, 1}) \in Int /\ Max({s, 1}) >= 1
  BY MaxOfTwo
<1>5. \A a, b \in Int : b >= 1 => Max({1, Min({a, b})}) \in Nat \ {0}
  <2> TAKE a, b \in Int
  <2>1. Min({a, b}) \in Int
    BY MaxOfTwo
  <2> QED BY <2>1, MaxOfTwo
<1>6. size \in Nat \ {0}
  <2>1. Max({shares, 1}) \in Int /\ Max({shares, 1}) >= 1
    BY <1>2, <1>4, Zenon
  <2>2. pending \div Max({shares, 1}) \in Int
    BY <1>1, <1>3, <2>1
  <2>3. MaxBatch \in Int /\ MaxBatch >= 1
    BY <1>1
  <2> HIDE DEF pending, shares
  <2> QED BY <1>5, <2>2, <2>3, Zenon DEF batchSize
<1>7. budget \in Nat \ {0}
  <2>3. MaxBatch \in Int /\ MaxBatch >= 1
    BY <1>1
  <2>4. CASE w.jobNanos = 0
    BY <1>1, <2>4 DEF batchBudget
  <2>5. CASE w.jobNanos # 0
    <3>1. Max({alive, 1}) \in Int
      BY <1>1, <1>4
    <3>2. Max({alive, 1}) * HandoffGap \in Int
      BY <3>1, <1>1
    <3>3. Max({alive, 1}) * HandoffGap + w.jobNanos - 1 \in Int
      BY <3>2, <1>1
    <3>4. (Max({alive, 1}) * HandoffGap + w.jobNanos - 1) \div w.jobNanos \in Int
      BY <3>3, <2>5, <1>1
    <3>5. batchBudget(w.jobNanos, alive) \in Nat \ {0}
      BY <3>4, <2>3, <2>5, <1>5, Zenon DEF batchBudget
    <3> QED BY <3>5, <1>1
  <2> QED BY <2>4, <2>5
<1>8. Batch = Min({size, budget})
  BY DEF Batch
<1> HIDE DEF size, budget
<1>9. size \in Int /\ budget \in Int
  BY <1>6, <1>7
<1>10. Min({size, budget}) = (IF size =< budget THEN size ELSE budget)
  BY <1>9, MaxOfTwo, Zenon
<1> QED BY <1>6, <1>7, <1>8, <1>10

-----------------------------------------------------------------------------
(* Types *)

\* A thread is the loop, the reaper, a goroutine or a caller, and only one of them.
LEMMA ThreadKinds ==
    /\ Loop \in Threads /\ Reaper \in Threads /\ Loop # Reaper /\ Loop \notin Goroutines
    /\ Reaper \notin Goroutines /\ Loop \notin Callers /\ Reaper \notin Callers
    /\ \A g \in Goroutines : g \in Threads /\ g \notin Callers
    /\ \A c \in Callers : c \in Threads /\ c \notin Goroutines
    /\ \A t \in Threads : t \in Goroutines \/ t \in Callers \/ t = Loop \/ t = Reaper
    /\ \A t \in Threads : t \notin Elems /\ t # Nil
    /\ Nil \notin Elems
BY PoolAssumption DEF Threads, Loop, Reaper

\* Every thread stays at its steps.
LEMMA PcTypeKept ==
    ASSUME PcType, [Next]_vars
    PROVE  PcType'
<1> USE DEF stack, hands, bounds, Goto, Hold, At, PcType, GoSteps, LoopSteps, ReapSteps, CallSteps,
      PushSteps, PopSteps
<1>1. ASSUME NEW t \in Threads, PushCount(t) PROVE PcType'
  BY <1>1, ThreadKinds DEF PushCount
<1>2. ASSUME NEW t \in Threads, PushLoad(t) PROVE PcType'
  BY <1>2, ThreadKinds DEF PushLoad
<1>3. ASSUME NEW t \in Threads, PushCas(t) PROVE PcType'
  BY <1>3, ThreadKinds DEF PushCas, Pushed
<1>4. ASSUME NEW t \in Threads, PopLoad(t) PROVE PcType'
  BY <1>4, ThreadKinds DEF PopLoad
<1>5. ASSUME NEW t \in Threads, PopCas(t) PROVE PcType'
  BY <1>5, ThreadKinds DEF PopCas
<1>6. ASSUME NEW t \in Threads, PopCount(t) PROVE PcType'
  BY <1>6, ThreadKinds DEF PopCount
<1>7. CASE Select
  BY <1>7, ThreadKinds DEF Select
<1>8. CASE Check
  BY <1>8, ThreadKinds DEF Check
<1>9. CASE PlanBusy
  BY <1>9, ThreadKinds DEF PlanBusy
<1>10. CASE PlanLen
  BY <1>10, ThreadKinds DEF PlanLen
<1>11. CASE PlanNode
  BY <1>11, ThreadKinds DEF PlanNode, initPoolNode
<1>12. CASE Reserve
  BY <1>12, ThreadKinds DEF Reserve
<1>13. CASE Admit
  BY <1>13, ThreadKinds DEF Admit
<1>14. CASE Fill
  BY <1>14, ThreadKinds DEF Fill
<1>15. CASE Undo
  BY <1>15, ThreadKinds DEF Undo
<1>16. CASE Send
  BY <1>16, ThreadKinds DEF Send
<1>17. CASE Drain
  BY <1>17, ThreadKinds DEF Drain
<1>18. CASE RemoveAll
  BY <1>18, ThreadKinds DEF RemoveAll, StopAndPut
<1>19. ASSUME NEW g \in Goroutines, Serve(g) PROVE PcType'
  BY <1>19, ThreadKinds DEF Serve
<1>20. ASSUME NEW g \in Goroutines, RunBatch(g) PROVE PcType'
  BY <1>20, ThreadKinds DEF RunBatch
<1>21. ASSUME NEW g \in Goroutines, freePoolNode(g) PROVE PcType'
  BY <1>21, ThreadKinds DEF freePoolNode, StopAndPut
<1>22. ASSUME NEW g \in Goroutines, Release(g) PROVE PcType'
  BY <1>22, ThreadKinds DEF Release
<1>23. ASSUME NEW g \in Goroutines, finishJobs(g) PROVE PcType'
  BY <1>23, ThreadKinds DEF finishJobs
<1>24. ASSUME NEW g \in Goroutines, Notify(g) PROVE PcType'
  BY <1>24, ThreadKinds DEF Notify
<1>25. CASE Tick
  BY <1>25, ThreadKinds DEF Tick, NoWalk
<1>26. CASE Prune
  BY <1>26, ThreadKinds DEF Prune, Dropped
<1>27. CASE Relink
  BY <1>27, ThreadKinds DEF Relink, Dropped
<1>28. CASE PruneDone
  BY <1>28, ThreadKinds DEF PruneDone
<1>29. CASE Expire
  BY <1>29, ThreadKinds DEF Expire, StopAndPut, NoWalk
<1>30. CASE Add
  BY <1>30, ThreadKinds DEF Add
<1>31. CASE Purge
  BY <1>31, ThreadKinds DEF Purge
<1>32. ASSUME NEW c \in Callers, NEW m \in Limits, TunePool(c, m) PROVE PcType'
  BY <1>32, ThreadKinds DEF TunePool
<1>33. ASSUME NEW c \in Callers, TuneLen(c) PROVE PcType'
  BY <1>33, ThreadKinds DEF TuneLen
<1>34. ASSUME NEW c \in Callers, TuneNode(c) PROVE PcType'
  BY <1>34, ThreadKinds DEF TuneNode, StopAndPut
<1>35. ASSUME NEW c \in Callers, StopWorker(c) PROVE PcType'
  BY <1>35, ThreadKinds DEF StopWorker
<1>36. ASSUME NEW c \in Callers, Start(c) PROVE PcType'
  BY <1>36, ThreadKinds DEF Start, initPoolNode
<1>37. ASSUME NEW c \in Callers, Started(c) PROVE PcType'
  BY <1>37, ThreadKinds DEF Started
<1>38. CASE UNCHANGED vars
  BY <1>38 DEF vars
<1> QED
  BY <1>1, <1>2, <1>3, <1>4, <1>5, <1>6, <1>7, <1>8, <1>9, <1>10, <1>11, <1>12, <1>13, <1>14,
     <1>15, <1>16, <1>17, <1>18, <1>19, <1>20, <1>21, <1>22, <1>23, <1>24, <1>25, <1>26, <1>27,
     <1>28, <1>29, <1>30, <1>31, <1>32, <1>33, <1>34, <1>35, <1>36, <1>37, <1>38
     DEF Next, StackStep, LoopStep, GoStep, ReapStep, CallStep

\* Which actions change each part of the state.
WalkMoves == \/ UNCHANGED walk \/ Tick \/ Prune \/ Relink \/ Expire
LinksMoves == \/ UNCHANGED <<head, next>> \/ Prune \/ Relink
              \/ (\E t \in Threads : PushLoad(t) \/ PushCas(t) \/ PopCas(t))
LenMoves == \/ UNCHANGED len \/ Prune \/ Relink
            \/ (\E t \in Threads : PushCount(t) \/ PopCount(t))
PopMxMoves == \/ UNCHANGED popMx \/ Tick \/ PruneDone
              \/ (\E t \in Threads : PopLoad(t) \/ PopCount(t))
CacheMoves == \/ UNCHANGED cache \/ PlanNode \/ RemoveAll \/ Expire
              \/ (\E g \in Goroutines : freePoolNode(g))
              \/ (\E c \in Callers : TuneNode(c) \/ Start(c))
ChMoves == \/ UNCHANGED ch \/ Send \/ RemoveAll \/ Expire
           \/ (\E g \in Goroutines : Serve(g) \/ freePoolNode(g))
           \/ (\E c \in Callers : TuneNode(c))
NodeMoves == \/ UNCHANGED node \/ PlanNode \/ Send \/ RemoveAll
             \/ (\E t \in Threads : PushCas(t) \/ PopLoad(t) \/ PopCas(t))
             \/ (\E g \in Goroutines : freePoolNode(g))
             \/ (\E c \in Callers : TuneNode(c) \/ Start(c))
SeenMoves == \/ UNCHANGED seen \/ (\E t \in Threads : PopLoad(t) \/ PopCas(t))
AtMoves == \/ UNCHANGED at \/ PlanNode \/ (\E g \in Goroutines : Serve(g))
           \/ (\E c \in Callers : Start(c))
CountMoves == \/ UNCHANGED count \/ PlanBusy \/ PlanNode \/ Fill \/ Undo \/ Send \/ Drain
              \/ RemoveAll \/ (\E g \in Goroutines : Serve(g) \/ finishJobs(g))
              \/ (\E c \in Callers : TuneLen(c) \/ TuneNode(c) \/ \E n \in Limits : TunePool(c, n))
AliveMoves == \/ UNCHANGED alive \/ PlanBusy \/ PlanLen \/ PlanNode
WMoves == \/ UNCHANGED w \/ Select \/ Reserve \/ Fill \/ Undo \/ RemoveAll \/ Add \/ Purge
          \/ (\E g \in Goroutines : RunBatch(g) \/ Release(g) \/ finishJobs(g) \/ Notify(g))
          \/ (\E c \in Callers : StopWorker(c) \/ Start(c) \/ Started(c) \/ \E n \in Limits : TunePool(c, n))
BoundsMoves == \/ UNCHANGED bounds \/ Add \/ Purge
               \/ (\E c \in Callers : StopWorker(c) \/ \E n \in Limits : TunePool(c, n))

\* What each variable does in a step: the actions that write it, and no others.
LEMMA Frames ==
    ASSUME [Next]_vars
    PROVE  /\ WalkMoves /\ LinksMoves /\ LenMoves /\ PopMxMoves /\ CacheMoves /\ ChMoves /\ NodeMoves
           /\ SeenMoves /\ AtMoves /\ CountMoves /\ AliveMoves /\ WMoves /\ BoundsMoves
<1> DEFINE Moves == /\ WalkMoves /\ LinksMoves /\ LenMoves /\ PopMxMoves /\ CacheMoves /\ ChMoves
                    /\ NodeMoves /\ SeenMoves /\ AtMoves /\ CountMoves /\ AliveMoves /\ WMoves /\ BoundsMoves
<1> SUFFICES Moves
  OBVIOUS
<1> USE DEF stack, hands, bounds, WalkMoves, LinksMoves, LenMoves, PopMxMoves, CacheMoves,
      ChMoves, NodeMoves, SeenMoves, AtMoves, CountMoves, AliveMoves, WMoves, BoundsMoves
<1>1. ASSUME NEW t \in Threads, PushCount(t) PROVE Moves
  <2>1. UNCHANGED walk /\ UNCHANGED <<head, next>> /\ UNCHANGED popMx /\ UNCHANGED cache /\ UNCHANGED ch
        /\ UNCHANGED node /\ UNCHANGED seen /\ UNCHANGED at /\ UNCHANGED count /\ UNCHANGED alive /\ UNCHANGED w /\ UNCHANGED bounds
    BY <1>1 DEF PushCount
  <2> QED BY <2>1, <1>1, Zenon
<1>2. ASSUME NEW t \in Threads, PushLoad(t) PROVE Moves
  <2>1. UNCHANGED walk /\ UNCHANGED len /\ UNCHANGED popMx /\ UNCHANGED cache /\ UNCHANGED ch
        /\ UNCHANGED node /\ UNCHANGED seen /\ UNCHANGED at /\ UNCHANGED count /\ UNCHANGED alive /\ UNCHANGED w /\ UNCHANGED bounds
    BY <1>2 DEF PushLoad
  <2> QED BY <2>1, <1>2, Zenon
<1>3. ASSUME NEW t \in Threads, PushCas(t) PROVE Moves
  <2>1. UNCHANGED walk /\ UNCHANGED len /\ UNCHANGED popMx /\ UNCHANGED cache /\ UNCHANGED ch
        /\ UNCHANGED seen /\ UNCHANGED at /\ UNCHANGED count /\ UNCHANGED alive /\ UNCHANGED w /\ UNCHANGED bounds
    BY <1>3 DEF PushCas, Pushed
  <2> QED BY <2>1, <1>3, Zenon
<1>4. ASSUME NEW t \in Threads, PopLoad(t) PROVE Moves
  <2>1. UNCHANGED walk /\ UNCHANGED <<head, next>> /\ UNCHANGED len /\ UNCHANGED cache /\ UNCHANGED ch
        /\ UNCHANGED at /\ UNCHANGED count /\ UNCHANGED alive /\ UNCHANGED w /\ UNCHANGED bounds
    BY <1>4 DEF PopLoad
  <2> QED BY <2>1, <1>4, Zenon
<1>5. ASSUME NEW t \in Threads, PopCas(t) PROVE Moves
  <2>1. UNCHANGED walk /\ UNCHANGED len /\ UNCHANGED popMx /\ UNCHANGED cache /\ UNCHANGED ch
        /\ UNCHANGED at /\ UNCHANGED count /\ UNCHANGED alive /\ UNCHANGED w /\ UNCHANGED bounds
    BY <1>5 DEF PopCas
  <2> QED BY <2>1, <1>5, Zenon
<1>6. ASSUME NEW t \in Threads, PopCount(t) PROVE Moves
  <2>1. UNCHANGED walk /\ UNCHANGED <<head, next>> /\ UNCHANGED cache /\ UNCHANGED ch /\ UNCHANGED node
        /\ UNCHANGED seen /\ UNCHANGED at /\ UNCHANGED count /\ UNCHANGED alive /\ UNCHANGED w /\ UNCHANGED bounds
    BY <1>6 DEF PopCount
  <2> QED BY <2>1, <1>6, Zenon
<1>7. CASE Select
  <2>1. UNCHANGED walk /\ UNCHANGED <<head, next>> /\ UNCHANGED len /\ UNCHANGED popMx /\ UNCHANGED cache
        /\ UNCHANGED ch /\ UNCHANGED node /\ UNCHANGED seen /\ UNCHANGED at /\ UNCHANGED count /\ UNCHANGED alive /\ UNCHANGED bounds
    BY <1>7 DEF Select
  <2> QED BY <2>1, <1>7, Zenon
<1>8. CASE Check
  <2>1. UNCHANGED walk /\ UNCHANGED <<head, next>> /\ UNCHANGED len /\ UNCHANGED popMx /\ UNCHANGED cache
        /\ UNCHANGED ch /\ UNCHANGED node /\ UNCHANGED seen /\ UNCHANGED at /\ UNCHANGED count /\ UNCHANGED alive /\ UNCHANGED w /\ UNCHANGED bounds
    BY <1>8 DEF Check
  <2> QED BY <2>1, <1>8, Zenon
<1>9. CASE PlanBusy
  <2>1. UNCHANGED walk /\ UNCHANGED <<head, next>> /\ UNCHANGED len /\ UNCHANGED popMx /\ UNCHANGED cache
        /\ UNCHANGED ch /\ UNCHANGED node /\ UNCHANGED seen /\ UNCHANGED at /\ UNCHANGED w /\ UNCHANGED bounds
    BY <1>9 DEF PlanBusy
  <2> QED BY <2>1, <1>9, Zenon
<1>10. CASE PlanLen
  <2>1. UNCHANGED walk /\ UNCHANGED <<head, next>> /\ UNCHANGED len /\ UNCHANGED popMx /\ UNCHANGED cache
        /\ UNCHANGED ch /\ UNCHANGED node /\ UNCHANGED seen /\ UNCHANGED at /\ UNCHANGED count /\ UNCHANGED w /\ UNCHANGED bounds
    BY <1>10 DEF PlanLen
  <2> QED BY <2>1, <1>10, Zenon
<1>11. CASE PlanNode
  <2>1. UNCHANGED walk /\ UNCHANGED <<head, next>> /\ UNCHANGED len /\ UNCHANGED popMx /\ UNCHANGED ch
        /\ UNCHANGED seen /\ UNCHANGED w /\ UNCHANGED bounds
    BY <1>11 DEF PlanNode, initPoolNode
  <2> QED BY <2>1, <1>11, Zenon
<1>12. CASE Reserve
  <2>1. UNCHANGED walk /\ UNCHANGED <<head, next>> /\ UNCHANGED len /\ UNCHANGED popMx /\ UNCHANGED cache
        /\ UNCHANGED ch /\ UNCHANGED node /\ UNCHANGED seen /\ UNCHANGED at /\ UNCHANGED count /\ UNCHANGED alive /\ UNCHANGED bounds
    BY <1>12 DEF Reserve
  <2> QED BY <2>1, <1>12, Zenon
<1>13. CASE Admit
  <2>1. UNCHANGED walk /\ UNCHANGED <<head, next>> /\ UNCHANGED len /\ UNCHANGED popMx /\ UNCHANGED cache
        /\ UNCHANGED ch /\ UNCHANGED node /\ UNCHANGED seen /\ UNCHANGED at /\ UNCHANGED count /\ UNCHANGED alive /\ UNCHANGED w /\ UNCHANGED bounds
    BY <1>13 DEF Admit
  <2> QED BY <2>1, <1>13, Zenon
<1>14. CASE Fill
  <2>1. UNCHANGED walk /\ UNCHANGED <<head, next>> /\ UNCHANGED len /\ UNCHANGED popMx /\ UNCHANGED cache
        /\ UNCHANGED ch /\ UNCHANGED node /\ UNCHANGED seen /\ UNCHANGED at /\ UNCHANGED alive /\ UNCHANGED bounds
    BY <1>14 DEF Fill
  <2> QED BY <2>1, <1>14, Zenon
<1>15. CASE Undo
  <2>1. UNCHANGED walk /\ UNCHANGED <<head, next>> /\ UNCHANGED len /\ UNCHANGED popMx /\ UNCHANGED cache
        /\ UNCHANGED ch /\ UNCHANGED node /\ UNCHANGED seen /\ UNCHANGED at /\ UNCHANGED alive /\ UNCHANGED bounds
    BY <1>15 DEF Undo
  <2> QED BY <2>1, <1>15, Zenon
<1>16. CASE Send
  <2>1. UNCHANGED walk /\ UNCHANGED <<head, next>> /\ UNCHANGED len /\ UNCHANGED popMx /\ UNCHANGED cache
        /\ UNCHANGED seen /\ UNCHANGED at /\ UNCHANGED alive /\ UNCHANGED w /\ UNCHANGED bounds
    BY <1>16 DEF Send
  <2> QED BY <2>1, <1>16, Zenon
<1>17. CASE Drain
  <2>1. UNCHANGED walk /\ UNCHANGED <<head, next>> /\ UNCHANGED len /\ UNCHANGED popMx /\ UNCHANGED cache
        /\ UNCHANGED ch /\ UNCHANGED node /\ UNCHANGED seen /\ UNCHANGED at /\ UNCHANGED alive /\ UNCHANGED w /\ UNCHANGED bounds
    BY <1>17 DEF Drain
  <2> QED BY <2>1, <1>17, Zenon
<1>18. CASE RemoveAll
  <2>1. UNCHANGED walk /\ UNCHANGED <<head, next>> /\ UNCHANGED len /\ UNCHANGED popMx /\ UNCHANGED seen
        /\ UNCHANGED at /\ UNCHANGED alive /\ UNCHANGED bounds
    BY <1>18 DEF RemoveAll, StopAndPut
  <2> QED BY <2>1, <1>18, Zenon
<1>19. ASSUME NEW g \in Goroutines, Serve(g) PROVE Moves
  <2>1. UNCHANGED walk /\ UNCHANGED <<head, next>> /\ UNCHANGED len /\ UNCHANGED popMx /\ UNCHANGED cache
        /\ UNCHANGED node /\ UNCHANGED seen /\ UNCHANGED alive /\ UNCHANGED w /\ UNCHANGED bounds
    BY <1>19 DEF Serve
  <2> QED BY <2>1, <1>19, Zenon
<1>20. ASSUME NEW g \in Goroutines, RunBatch(g) PROVE Moves
  <2>1. UNCHANGED walk /\ UNCHANGED <<head, next>> /\ UNCHANGED len /\ UNCHANGED popMx /\ UNCHANGED cache
        /\ UNCHANGED ch /\ UNCHANGED node /\ UNCHANGED seen /\ UNCHANGED at /\ UNCHANGED count /\ UNCHANGED alive /\ UNCHANGED bounds
    BY <1>20 DEF RunBatch
  <2> QED BY <2>1, <1>20, Zenon
<1>21. ASSUME NEW g \in Goroutines, freePoolNode(g) PROVE Moves
  <2>1. UNCHANGED walk /\ UNCHANGED <<head, next>> /\ UNCHANGED len /\ UNCHANGED popMx /\ UNCHANGED seen
        /\ UNCHANGED at /\ UNCHANGED count /\ UNCHANGED alive /\ UNCHANGED w /\ UNCHANGED bounds
    BY <1>21 DEF freePoolNode, StopAndPut
  <2> QED BY <2>1, <1>21, Zenon
<1>22. ASSUME NEW g \in Goroutines, Release(g) PROVE Moves
  <2>1. UNCHANGED walk /\ UNCHANGED <<head, next>> /\ UNCHANGED len /\ UNCHANGED popMx /\ UNCHANGED cache
        /\ UNCHANGED ch /\ UNCHANGED node /\ UNCHANGED seen /\ UNCHANGED at /\ UNCHANGED count /\ UNCHANGED alive /\ UNCHANGED bounds
    BY <1>22 DEF Release
  <2> QED BY <2>1, <1>22, Zenon
<1>23. ASSUME NEW g \in Goroutines, finishJobs(g) PROVE Moves
  <2>1. UNCHANGED walk /\ UNCHANGED <<head, next>> /\ UNCHANGED len /\ UNCHANGED popMx /\ UNCHANGED cache
        /\ UNCHANGED ch /\ UNCHANGED node /\ UNCHANGED seen /\ UNCHANGED at /\ UNCHANGED alive /\ UNCHANGED bounds
    BY <1>23 DEF finishJobs
  <2> QED BY <2>1, <1>23, Zenon
<1>24. ASSUME NEW g \in Goroutines, Notify(g) PROVE Moves
  <2>1. UNCHANGED walk /\ UNCHANGED <<head, next>> /\ UNCHANGED len /\ UNCHANGED popMx /\ UNCHANGED cache
        /\ UNCHANGED ch /\ UNCHANGED node /\ UNCHANGED seen /\ UNCHANGED at /\ UNCHANGED count /\ UNCHANGED alive /\ UNCHANGED bounds
    BY <1>24 DEF Notify
  <2> QED BY <2>1, <1>24, Zenon
<1>25. CASE Tick
  <2>1. UNCHANGED <<head, next>> /\ UNCHANGED len /\ UNCHANGED cache /\ UNCHANGED ch /\ UNCHANGED node
        /\ UNCHANGED seen /\ UNCHANGED at /\ UNCHANGED count /\ UNCHANGED alive /\ UNCHANGED w /\ UNCHANGED bounds
    BY <1>25 DEF Tick, NoWalk
  <2> QED BY <2>1, <1>25, Zenon
<1>26. CASE Prune
  <2>1. UNCHANGED popMx /\ UNCHANGED cache /\ UNCHANGED ch /\ UNCHANGED node /\ UNCHANGED seen
        /\ UNCHANGED at /\ UNCHANGED count /\ UNCHANGED alive /\ UNCHANGED w /\ UNCHANGED bounds
    BY <1>26 DEF Prune, Dropped
  <2> QED BY <2>1, <1>26, Zenon
<1>27. CASE Relink
  <2>1. UNCHANGED popMx /\ UNCHANGED cache /\ UNCHANGED ch /\ UNCHANGED node /\ UNCHANGED seen
        /\ UNCHANGED at /\ UNCHANGED count /\ UNCHANGED alive /\ UNCHANGED w /\ UNCHANGED bounds
    BY <1>27 DEF Relink, Dropped
  <2> QED BY <2>1, <1>27, Zenon
<1>28. CASE PruneDone
  <2>1. UNCHANGED walk /\ UNCHANGED <<head, next>> /\ UNCHANGED len /\ UNCHANGED cache /\ UNCHANGED ch
        /\ UNCHANGED node /\ UNCHANGED seen /\ UNCHANGED at /\ UNCHANGED count /\ UNCHANGED alive /\ UNCHANGED w /\ UNCHANGED bounds
    BY <1>28 DEF PruneDone
  <2> QED BY <2>1, <1>28, Zenon
<1>29. CASE Expire
  <2>1. UNCHANGED <<head, next>> /\ UNCHANGED len /\ UNCHANGED popMx /\ UNCHANGED node /\ UNCHANGED seen
        /\ UNCHANGED at /\ UNCHANGED count /\ UNCHANGED alive /\ UNCHANGED w /\ UNCHANGED bounds
    BY <1>29 DEF Expire, StopAndPut, NoWalk
  <2> QED BY <2>1, <1>29, Zenon
<1>30. CASE Add
  <2>1. UNCHANGED walk /\ UNCHANGED <<head, next>> /\ UNCHANGED len /\ UNCHANGED popMx /\ UNCHANGED cache
        /\ UNCHANGED ch /\ UNCHANGED node /\ UNCHANGED seen /\ UNCHANGED at /\ UNCHANGED count /\ UNCHANGED alive
    BY <1>30 DEF Add
  <2> QED BY <2>1, <1>30, Zenon
<1>31. CASE Purge
  <2>1. UNCHANGED walk /\ UNCHANGED <<head, next>> /\ UNCHANGED len /\ UNCHANGED popMx /\ UNCHANGED cache
        /\ UNCHANGED ch /\ UNCHANGED node /\ UNCHANGED seen /\ UNCHANGED at /\ UNCHANGED count /\ UNCHANGED alive
    BY <1>31 DEF Purge
  <2> QED BY <2>1, <1>31, Zenon
<1>32. ASSUME NEW c \in Callers, NEW m \in Limits, TunePool(c, m) PROVE Moves
  <2>1. UNCHANGED walk /\ UNCHANGED <<head, next>> /\ UNCHANGED len /\ UNCHANGED popMx /\ UNCHANGED cache
        /\ UNCHANGED ch /\ UNCHANGED node /\ UNCHANGED seen /\ UNCHANGED at /\ UNCHANGED alive
    BY <1>32 DEF TunePool
  <2> QED BY <2>1, <1>32, Zenon
<1>33. ASSUME NEW c \in Callers, TuneLen(c) PROVE Moves
  <2>1. UNCHANGED walk /\ UNCHANGED <<head, next>> /\ UNCHANGED len /\ UNCHANGED popMx /\ UNCHANGED cache
        /\ UNCHANGED ch /\ UNCHANGED node /\ UNCHANGED seen /\ UNCHANGED at /\ UNCHANGED alive /\ UNCHANGED w /\ UNCHANGED bounds
    BY <1>33 DEF TuneLen
  <2> QED BY <2>1, <1>33, Zenon
<1>34. ASSUME NEW c \in Callers, TuneNode(c) PROVE Moves
  <2>1. UNCHANGED walk /\ UNCHANGED <<head, next>> /\ UNCHANGED len /\ UNCHANGED popMx /\ UNCHANGED seen
        /\ UNCHANGED at /\ UNCHANGED alive /\ UNCHANGED w /\ UNCHANGED bounds
    BY <1>34 DEF TuneNode, StopAndPut
  <2> QED BY <2>1, <1>34, Zenon
<1>35. ASSUME NEW c \in Callers, StopWorker(c) PROVE Moves
  <2>1. UNCHANGED walk /\ UNCHANGED <<head, next>> /\ UNCHANGED len /\ UNCHANGED popMx /\ UNCHANGED cache
        /\ UNCHANGED ch /\ UNCHANGED node /\ UNCHANGED seen /\ UNCHANGED at /\ UNCHANGED count /\ UNCHANGED alive
    BY <1>35 DEF StopWorker
  <2> QED BY <2>1, <1>35, Zenon
<1>36. ASSUME NEW c \in Callers, Start(c) PROVE Moves
  <2>1. UNCHANGED walk /\ UNCHANGED <<head, next>> /\ UNCHANGED len /\ UNCHANGED popMx /\ UNCHANGED ch
        /\ UNCHANGED seen /\ UNCHANGED count /\ UNCHANGED alive /\ UNCHANGED bounds
    BY <1>36 DEF Start, initPoolNode
  <2> QED BY <2>1, <1>36, Zenon
<1>37. ASSUME NEW c \in Callers, Started(c) PROVE Moves
  <2>1. UNCHANGED walk /\ UNCHANGED <<head, next>> /\ UNCHANGED len /\ UNCHANGED popMx /\ UNCHANGED cache
        /\ UNCHANGED ch /\ UNCHANGED node /\ UNCHANGED seen /\ UNCHANGED at /\ UNCHANGED count /\ UNCHANGED alive /\ UNCHANGED bounds
    BY <1>37 DEF Started
  <2> QED BY <2>1, <1>37, Zenon
<1>38. CASE UNCHANGED vars
  BY <1>38
     DEF vars, stack, hands, bounds, WalkMoves, LinksMoves, LenMoves, PopMxMoves, CacheMoves,
        ChMoves,
     NodeMoves, SeenMoves, AtMoves, CountMoves, AliveMoves, WMoves, BoundsMoves
<1> HIDE DEF Moves
<1> QED
  BY <1>1, <1>2, <1>3, <1>4, <1>5, <1>6, <1>7, <1>8, <1>9, <1>10, <1>11, <1>12, <1>13, <1>14,
     <1>15, <1>16, <1>17, <1>18, <1>19, <1>20, <1>21, <1>22, <1>23, <1>24, <1>25, <1>26, <1>27,
     <1>28, <1>29, <1>30, <1>31, <1>32, <1>33, <1>34, <1>35, <1>36, <1>37, <1>38
     DEF Next, StackStep, LoopStep, GoStep, ReapStep, CallStep

\* What is known of the stack: its nodes, how many they are, and the one above
\* the node that Prune lost from sight.
LEMMA StackFacts ==
    ASSUME NEW loc, NEW r, NEW n, Located(loc, r, n)
    PROVE  InStack = StackOf(loc) /\ Len(From(head)) = n /\ Cardinality(InStack) = n /\ n \in Nat
<1>1. Chain(StackOf(loc), r, n, head, next)
  BY DEF Located
<1>2. Len(Down(next, head)) = n /\ {Down(next, head)[i] : i \in DOMAIN Down(next, head)} = StackOf(loc)
  BY <1>1, DownFinds
<1>3. n = Cardinality(StackOf(loc))
  BY <1>1, ChainCount
<1>4. n \in Nat
  BY <1>1 DEF Chain
<1> QED BY <1>2, <1>3, <1>4, Zenon DEF InStack, From

\* Relink finds the node above the one that Prune removes.
LEMMA AboveFound ==
    ASSUME NEW loc, NEW r, NEW n, Located(loc, r, n), WalkType, pc[Reaper] = "relink"
    PROVE  /\ walk.e \in StackOf(loc) /\ Above(walk.e) \in StackOf(loc) /\ next[Above(walk.e)] = walk.e
           /\ walk.prev = Nil
<1>1. Chain(StackOf(loc), r, n, head, next)
  BY DEF Located
<1>2. walk.e \in StackOf(loc) /\ walk.e # head /\ walk.prev = Nil
  BY DEF Located, WalkStands, WalkType, StackOf
<1>3. \E p \in StackOf(loc) : next[p] = walk.e
  BY <1>1, <1>2, ChainAbove
<1>4. StackOf(loc) = {x \in Elems : \E i \in DOMAIN From(head) : From(head)[i] = x}
  <2>1. InStack = StackOf(loc)
    BY StackFacts, Zenon
  <2>2. StackOf(loc) \in SUBSET Elems
    BY DEF StackOf
  <2> QED BY <2>1, <2>2 DEF InStack
<1>5. Above(walk.e) = CHOOSE p \in StackOf(loc) : next[p] = walk.e
  BY <1>4, Zenon DEF Above
<1> QED BY <1>2, <1>3, <1>5, Zenon

\* The types of what the threads have in hand.
LEMMA HandTypeKept ==
    ASSUME Types, HandsFit, [Next]_vars
    PROVE  HandType'
<1> USE DEF stack, hands, bounds, Goto, Hold, At, Types, HandType, StackType, PcType, HandsFit,
      HoldSteps
<1>1. ASSUME NEW t \in Threads, PushCas(t) PROVE HandType'
  BY <1>1, ThreadKinds DEF PushCas, Pushed
<1>2. ASSUME NEW t \in Threads, PopLoad(t) PROVE HandType'
  BY <1>2, ThreadKinds DEF PopLoad
<1>3. ASSUME NEW t \in Threads, PopCas(t) PROVE HandType'
  BY <1>3, ThreadKinds DEF PopCas
<1>4. CASE PlanNode
  <2>1. CASE UNCHANGED <<node, at>> /\ UNCHANGED seen
    BY <2>1 DEF Types, HandType
  <2>2. ASSUME NEW e \in cache, NEW g \in Goroutines, initPoolNode(Loop, e, g),
               UNCHANGED seen PROVE HandType'
    BY <2>2, ThreadKinds DEF initPoolNode, Hold, Types, HandType, StackType
  <2> QED BY <1>4, <2>1, <2>2 DEF PlanNode
<1>5. CASE Send
  BY <1>5, ThreadKinds DEF Send
<1>6. CASE RemoveAll
  BY <1>6, ThreadKinds DEF RemoveAll, StopAndPut
<1>7. ASSUME NEW g \in Goroutines, freePoolNode(g) PROVE HandType'
  BY <1>7, ThreadKinds DEF freePoolNode, StopAndPut
<1>8. ASSUME NEW c \in Callers, TuneNode(c) PROVE HandType'
  BY <1>8, ThreadKinds DEF TuneNode, StopAndPut
<1>9. ASSUME NEW c \in Callers, Start(c) PROVE HandType'
  BY <1>9, ThreadKinds DEF Start, initPoolNode
<1>10. ASSUME NEW g \in Goroutines, Serve(g) PROVE HandType'
  BY <1>10, ThreadKinds DEF Serve
<1>11. CASE UNCHANGED <<node, seen, at>>
  BY <1>11
<1> QED
  BY <1>1, <1>2, <1>3, <1>4, <1>5, <1>6, <1>7, <1>8, <1>9, <1>10, <1>11, Frames
     DEF NodeMoves, SeenMoves, AtMoves

\* A channel gets a Stop or a batch.
LEMMA ChTypeKept ==
    ASSUME Types, CountFits, [Next]_vars
    PROVE  ChType'
<1> USE DEF stack, hands, bounds, Goto, Hold, At, Types, ChType, Payloads, CountType, Stop
<1>1. CASE Send
  <2>1. count[Loop] \in Nat
    BY <1>1, ThreadKinds DEF Send, CountFits, LoopCounts, Types, CountType
  <2>2. <<count[Loop]>> \in Payloads
    BY <2>1 DEF Payloads
  <2> HIDE DEF Payloads
  <2> QED BY <1>1, <2>2 DEF Send, Types, ChType
<1>2. CASE RemoveAll
  BY <1>2, ThreadKinds DEF RemoveAll, StopAndPut
<1>3. ASSUME NEW g \in Goroutines, Serve(g) PROVE ChType'
  BY <1>3, ThreadKinds DEF Serve
<1>4. ASSUME NEW g \in Goroutines, freePoolNode(g) PROVE ChType'
  BY <1>4, ThreadKinds, ZenonT(40) DEF freePoolNode, StopAndPut
<1>5. CASE Expire
  BY <1>5, ThreadKinds DEF Expire, StopAndPut, NoWalk
<1>6. ASSUME NEW c \in Callers, TuneNode(c) PROVE ChType'
  BY <1>6, ThreadKinds DEF TuneNode, StopAndPut
<1>7. CASE UNCHANGED ch
  BY <1>7
<1> QED
  BY <1>1, <1>2, <1>3, <1>4, <1>5, <1>6, <1>7, Frames DEF ChMoves

\* The types of the list, its length, its mutex and the cache.
LEMMA StackTypeKept ==
    ASSUME Types, HandsFit, NEW loc, NEW r, NEW n, Located(loc, r, n), [Next]_vars
    PROVE  StackType'
<1> USE DEF stack, hands, bounds, Goto, Hold, At, Types, HandType, StackType, HandsFit, HoldSteps,
      WalkType
<1>1. ASSUME NEW t \in Threads, PushLoad(t) PROVE StackType'
  BY <1>1, ThreadKinds DEF PushLoad
<1>2. ASSUME NEW t \in Threads, PushCas(t) PROVE StackType'
  BY <1>2, ThreadKinds DEF PushCas, Pushed
<1>3. ASSUME NEW t \in Threads, PopCas(t) PROVE StackType'
  BY <1>3, ThreadKinds DEF PopCas
<1>4. CASE Prune
  BY <1>4, ThreadKinds DEF Prune, Dropped
<1>5. CASE Relink
  <2>1. pc[Reaper] = "relink"
    BY <1>5 DEF Relink, At
  <2>2. WalkType
    BY DEF Types
  <2>3. walk.e \in Elems /\ Above(walk.e) \in Elems
    BY <2>1, <2>2, AboveFound DEF StackOf
  <2> QED BY <1>5, <2>3 DEF Relink, Types, StackType
<1>6. ASSUME NEW t \in Threads, PushCount(t) PROVE StackType'
  BY <1>6, ThreadKinds DEF PushCount
<1>7. ASSUME NEW t \in Threads, PopCount(t) PROVE StackType'
  BY <1>7, ThreadKinds DEF PopCount
<1>8. ASSUME NEW t \in Threads, PopLoad(t) PROVE StackType'
  BY <1>8, ThreadKinds DEF PopLoad
<1>9. CASE Tick
  BY <1>9, ThreadKinds DEF Tick, NoWalk
<1>10. CASE PruneDone
  BY <1>10, ThreadKinds DEF PruneDone
<1>11. CASE PlanNode
  BY <1>11, ThreadKinds DEF PlanNode, initPoolNode
<1>12. CASE RemoveAll
  BY <1>12, ThreadKinds DEF RemoveAll, StopAndPut
<1>13. ASSUME NEW g \in Goroutines, freePoolNode(g) PROVE StackType'
  BY <1>13, ThreadKinds DEF freePoolNode, StopAndPut
<1>14. CASE Expire
  BY <1>14, ThreadKinds DEF Expire, StopAndPut, NoWalk
<1>15. ASSUME NEW c \in Callers, TuneNode(c) PROVE StackType'
  BY <1>15, ThreadKinds DEF TuneNode, StopAndPut
<1>16. ASSUME NEW c \in Callers, Start(c) PROVE StackType'
  BY <1>16, ThreadKinds DEF Start, initPoolNode
<1>17. CASE UNCHANGED <<head, next, len, popMx, cache>>
  BY <1>17
<1> QED
  BY <1>1, <1>2, <1>3, <1>4, <1>5, <1>6, <1>7, <1>8, <1>9, <1>10, <1>11, <1>12, <1>13, <1>14,
     <1>15, <1>16, <1>17, Frames DEF LinksMoves, LenMoves, PopMxMoves, CacheMoves

\* The type of Prune's walk.
LEMMA WalkTypeKept ==
    ASSUME Types, NEW loc, NEW r, NEW n, Located(loc, r, n), [Next]_vars
    PROVE  WalkType'
<1> USE DEF stack, hands, bounds, Goto, Hold, At, Types, StackType, WalkType
<1>1. CASE Tick
  <2>1. Len(From(head)) \in Int
    BY StackFacts
  <2>2. numMinIdleWorkers \in Int
    BY MinIdle DEF Types
  <2>3. Len(From(head)) - numMinIdleWorkers \in Int
    BY <2>1, <2>2
  <2> QED BY <1>1, <2>3 DEF Tick, NoWalk, Types, StackType, WalkType
<1>2. CASE Prune
  <2>1. /\ walk.e \in Elems /\ walk.left \in Int /\ walk.dropped \in SUBSET Elems
        /\ walk.left - 1 \in Int /\ next[walk.e] \in Elems \cup {Nil}
        /\ walk.dropped \cup {walk.e} \in SUBSET Elems
    BY <1>2 DEF Prune, Types, StackType, WalkType
  <2>2. \/ walk' = [walk EXCEPT !.e = next[walk.e], !.left = walk.left - 1, !.prev = walk.e]
        \/ walk' = [walk EXCEPT !.e = next[walk.e], !.left = walk.left - 1, !.dropped = walk.dropped \cup {walk.e}]
        \/ UNCHANGED walk
    BY <1>2 DEF Prune, Dropped
  <2> QED BY <2>1, <2>2 DEF Types, WalkType
<1>3. CASE Relink
  <2>1. pc[Reaper] = "relink"
    BY <1>3 DEF Relink, At
  <2>2. WalkType
    BY DEF Types
  <2>3. walk.e \in Elems /\ Above(walk.e) \in Elems
    BY <2>1, <2>2, AboveFound DEF StackOf
  <2>4. /\ walk.left \in Int /\ walk.left - 1 \in Int /\ next[walk.e] \in Elems \cup {Nil}
        /\ walk.dropped \cup {walk.e} \in SUBSET Elems
    BY <2>3 DEF Types, StackType, WalkType
  <2>5. Dropped(walk) = [walk EXCEPT !.e = next[walk.e], !.left = walk.left - 1, !.dropped = walk.dropped \cup {walk.e}]
    BY DEF Dropped
  <2>6. Dropped(walk) \in [e : Elems \cup {Nil}, left : Int, prev : Elems \cup {Nil}, dropped : SUBSET Elems]
    BY <2>2, <2>4, <2>5 DEF WalkType
  <2> QED BY <1>3, <2>3, <2>6 DEF Relink, WalkType
<1>4. CASE Expire
  BY <1>4, ThreadKinds DEF Expire, StopAndPut, NoWalk
<1>5. CASE UNCHANGED walk
  BY <1>5
<1> QED
  BY <1>1, <1>2, <1>3, <1>4, <1>5, Frames DEF WalkMoves

\* The types of the counts.
LEMMA CountTypeKept ==
    ASSUME Types, HandsFit, [Next]_vars
    PROVE  CountType'
<1> USE DEF stack, hands, bounds, Goto, Hold, At, Types, CountType
<1>1. CASE PlanBusy
  BY <1>1, ThreadKinds DEF PlanBusy, WorkerType
<1>2. CASE PlanNode
  BY <1>2, ThreadKinds, BatchSize DEF PlanNode, initPoolNode
<1>3. CASE Fill
  <2>1. w.queue \in Nat /\ w.busy \in Int /\ w.cur \in Int /\ count[Loop] \in Int
    BY ThreadKinds DEF Types, WorkerType, CountType
  <2> DEFINE n == Min({w.queue, count[Loop]})
  <2>2. n = (IF w.queue =< count[Loop] THEN w.queue ELSE count[Loop])
    <3>1. w.queue \in Int
      BY <2>1
    <3> QED BY <2>1, <3>1, MaxOfTwo, Zenon
  <2>3. n \in Int /\ w.queue - n \in Nat /\ w.cur - (count[Loop] - n) \in Int
    BY <2>1, <2>2
  <2>4. count' = count \/ count' = [count EXCEPT ![Loop] = n]
    BY <1>3 DEF Fill
  <2> HIDE DEF n
  <2> QED BY <1>3, <2>3, <2>4 DEF Fill, Types, CountType
<1>4. CASE Undo
  BY <1>4, ThreadKinds DEF Undo
<1>5. CASE Send
  BY <1>5, ThreadKinds DEF Send
<1>6. CASE Drain
  BY <1>6, ThreadKinds DEF Drain, Removing
<1>7. CASE RemoveAll
  BY <1>7, ThreadKinds DEF RemoveAll, StopAndPut
<1>8. ASSUME NEW g \in Goroutines, Serve(g) PROVE CountType'
  BY <1>8, ThreadKinds DEF Serve, ChType, Payloads, HandType, HandsFit, Stop
<1>9. ASSUME NEW g \in Goroutines, finishJobs(g) PROVE CountType'
  BY <1>9, ThreadKinds DEF finishJobs
<1>10. ASSUME NEW c \in Callers, NEW m \in Limits, TunePool(c, m) PROVE CountType'
  BY <1>10, ThreadKinds, LargestLimit DEF TunePool, WorkerType
<1>11. ASSUME NEW c \in Callers, TuneLen(c) PROVE CountType'
  BY <1>11, ThreadKinds DEF TuneLen
<1>12. ASSUME NEW c \in Callers, TuneNode(c) PROVE CountType'
  BY <1>12, ThreadKinds DEF TuneNode, StopAndPut
<1>13. CASE PlanLen
  BY <1>13, ThreadKinds DEF PlanLen, StackType
<1>14. CASE UNCHANGED <<count, alive>>
  BY <1>14
<1> QED
  BY <1>1, <1>2, <1>3, <1>4, <1>5, <1>6, <1>7, <1>8, <1>9, <1>10, <1>11, <1>12, <1>13, <1>14,
     Frames DEF CountMoves, AliveMoves

\* The type of the worker's own fields.
LEMMA WorkerTypeKept ==
    ASSUME Types, [Next]_vars
    PROVE  WorkerType'
<1> USE DEF stack, hands, bounds, Goto, Hold, At, Types, WorkerType, CountType, Statuses
<1>1. CASE Select
  BY <1>1, ThreadKinds DEF Select
<1>2. CASE Reserve
  <2>1. w.queue \in Nat /\ w.busy \in Int /\ w.cur \in Int /\ w.jobNanos \in Nat
    BY DEF Types, WorkerType
  <2>2. count[Loop] \in Int
    BY ThreadKinds DEF Types, CountType
  <2>3. w' = [w EXCEPT !.busy = w.busy + 1, !.cur = w.cur + count[Loop]]
    BY <1>2 DEF Reserve
  <2>4. w.busy + 1 \in Int /\ w.cur + count[Loop] \in Int
    BY <2>1, <2>2
  <2> QED BY <2>3, <2>4 DEF Types, WorkerType
<1>3. CASE Fill
  <2>1. w.queue \in Nat /\ w.busy \in Int /\ w.cur \in Int /\ count[Loop] \in Int
    BY ThreadKinds DEF Types, WorkerType, CountType
  <2> DEFINE n == Min({w.queue, count[Loop]})
  <2>2. n = (IF w.queue =< count[Loop] THEN w.queue ELSE count[Loop])
    <3>1. w.queue \in Int
      BY <2>1
    <3> QED BY <2>1, <3>1, MaxOfTwo, Zenon
  <2>3. n \in Int /\ w.queue - n \in Nat /\ w.cur - (count[Loop] - n) \in Int
    BY <2>1, <2>2
  <2>4. w' = w \/ w' = [w EXCEPT !.queue = w.queue - n, !.cur = w.cur - (count[Loop] - n)]
    BY <1>3 DEF Fill
  <2> HIDE DEF n
  <2> QED BY <2>3, <2>4 DEF Types, WorkerType
<1>4. CASE Undo
  <2>1. w.queue \in Nat /\ w.busy \in Int /\ w.cur \in Int /\ w.jobNanos \in Nat
    BY DEF Types, WorkerType
  <2>2. count[Loop] \in Int
    BY ThreadKinds DEF Types, CountType
  <2>3. w' = [w EXCEPT !.busy = w.busy - 1, !.cur = w.cur - count[Loop]]
    BY <1>4 DEF Undo
  <2>4. w.busy - 1 \in Int /\ w.cur - count[Loop] \in Int
    BY <2>1, <2>2
  <2> QED BY <2>3, <2>4 DEF Types, WorkerType
<1>5. CASE RemoveAll
  BY <1>5, ThreadKinds DEF RemoveAll, StopAndPut
<1>6. ASSUME NEW g \in Goroutines, RunBatch(g) PROVE WorkerType'
  <2>1. w.queue \in Nat /\ w.busy \in Int /\ w.cur \in Int /\ w.jobNanos \in Nat
    BY DEF Types, WorkerType
  <2>2. PICK nanos \in Costs, rest \in 0..(count[g] - 1) :
          w' = [w EXCEPT !.jobNanos = nanos, !.queue = w.queue + rest]
    BY <1>6 DEF RunBatch
  <2>3. nanos \in Nat
    BY PoolAssumption
  <2>4. count[g] \in Int
    BY ThreadKinds DEF Types, CountType
  <2>5. w.queue + rest \in Nat
    BY <2>1, <2>4
  <2> QED BY <2>2, <2>3, <2>5 DEF Types, WorkerType
<1>7. ASSUME NEW g \in Goroutines, Release(g) PROVE WorkerType'
  BY <1>7, ThreadKinds DEF Release
<1>8. ASSUME NEW g \in Goroutines, finishJobs(g) PROVE WorkerType'
  BY <1>8, ThreadKinds DEF finishJobs
<1>9. ASSUME NEW g \in Goroutines, Notify(g) PROVE WorkerType'
  BY <1>9, ThreadKinds DEF Notify
<1>10. CASE Add
  <2>1. w.queue \in Nat /\ w.busy \in Int /\ w.cur \in Int /\ w.jobNanos \in Nat
    BY DEF Types, WorkerType
  <2>2. w' = [w EXCEPT !.queue = w.queue + 1, !.signal = TRUE] /\ w.queue + 1 \in Nat
    BY <1>10, <2>1 DEF Add
  <2> QED BY <2>2 DEF Types, WorkerType
<1>11. CASE Purge
  BY <1>11, ThreadKinds DEF Purge
<1>12. ASSUME NEW c \in Callers, NEW m \in Limits, TunePool(c, m) PROVE WorkerType'
  BY <1>12, ThreadKinds DEF TunePool
<1>13. ASSUME NEW c \in Callers, StopWorker(c) PROVE WorkerType'
  BY <1>13, ThreadKinds DEF StopWorker
<1>14. ASSUME NEW c \in Callers, Start(c) PROVE WorkerType'
  BY <1>14, ThreadKinds DEF Start, initPoolNode
<1>15. ASSUME NEW c \in Callers, Started(c) PROVE WorkerType'
  BY <1>15, ThreadKinds DEF Started
<1>16. CASE UNCHANGED w
  BY <1>16
<1> QED
  BY <1>1, <1>2, <1>3, <1>4, <1>5, <1>6, <1>7, <1>8, <1>9, <1>10, <1>11, <1>12, <1>13, <1>14,
     <1>15, <1>16, Frames DEF WMoves

\* The types of the bounds.
LEMMA BoundTypeKept ==
    ASSUME Types, [Next]_vars
    PROVE  BoundType'
<1> USE DEF stack, hands, bounds, Goto, Hold, At, Types, BoundType
<1>1. CASE Add
  BY <1>1, PoolAssumption DEF Add
<1>2. CASE Purge
  BY <1>2, PoolAssumption DEF Purge
<1>3. ASSUME NEW c \in Callers, NEW m \in Limits, TunePool(c, m) PROVE BoundType'
  BY <1>3, PoolAssumption DEF TunePool
<1>4. ASSUME NEW c \in Callers, StopWorker(c) PROVE BoundType'
  BY <1>4, PoolAssumption DEF StopWorker
<1>5. CASE UNCHANGED bounds
  BY <1>5 DEF Types, BoundType, bounds
<1> QED
  BY <1>1, <1>2, <1>3, <1>4, <1>5, Frames DEF BoundsMoves

\* Every type is kept.
LEMMA TypesKept ==
    ASSUME Types, HandsFit, CountFits, NEW loc, NEW r, NEW n, Located(loc, r, n), [Next]_vars
    PROVE  Types'
<1>1. PcType /\ PcType'
  BY PcTypeKept DEF Types
<1>2. HandType' /\ ChType' /\ CountType'
  BY HandTypeKept, ChTypeKept, CountTypeKept
<1>3. StackType' /\ WalkType'
  BY StackTypeKept, WalkTypeKept
<1>4. WorkerType' /\ BoundType'
  BY WorkerTypeKept, BoundTypeKept
<1> QED BY <1>1, <1>2, <1>3, <1>4 DEF Types

-----------------------------------------------------------------------------
(* Hands, the mutex and the counts *)

\* A node in hand goes with the step its thread is at.
LEMMA HandsFitKept ==
    ASSUME Types, HandsFit, NEW loc, NEW r, NEW n, Located(loc, r, n), [Next]_vars
    PROVE  HandsFit'
<1> USE DEF stack, hands, bounds, Goto, Hold, At, HandsFit, HoldSteps, GoSteps, LoopSteps, ReapSteps,
      CallSteps, PushSteps, PopSteps, Types, PcType, HandType, StackType, WalkType
<1>1. ASSUME NEW t \in Threads, PushCount(t) PROVE HandsFit'
  BY <1>1, ThreadKinds DEF PushCount
<1>2. ASSUME NEW t \in Threads, PushLoad(t) PROVE HandsFit'
  BY <1>2, ThreadKinds DEF PushLoad
<1>3. ASSUME NEW t \in Threads, PushCas(t) PROVE HandsFit'
  BY <1>3, ThreadKinds, SMTT(30) DEF PushCas, Pushed
<1>4. ASSUME NEW t \in Threads, PopLoad(t) PROVE HandsFit'
  BY <1>4, ThreadKinds DEF PopLoad
<1>5. ASSUME NEW t \in Threads, PopCas(t) PROVE HandsFit'
  BY <1>5, ThreadKinds DEF PopCas, Located, SeenStands
<1>6. ASSUME NEW t \in Threads, PopCount(t) PROVE HandsFit'
  BY <1>6, ThreadKinds DEF PopCount
<1>7. CASE Select
  BY <1>7, ThreadKinds, SMTT(30) DEF Select
<1>8. CASE Check
  BY <1>8, ThreadKinds DEF Check
<1>9. CASE PlanBusy
  BY <1>9, ThreadKinds DEF PlanBusy
<1>10. CASE PlanLen
  BY <1>10, ThreadKinds DEF PlanLen
<1>11. CASE PlanNode
  BY <1>11, ThreadKinds DEF PlanNode, initPoolNode
<1>12. CASE Reserve
  BY <1>12, ThreadKinds DEF Reserve
<1>13. CASE Admit
  BY <1>13, ThreadKinds DEF Admit
<1>14. CASE Fill
  BY <1>14, ThreadKinds DEF Fill
<1>15. CASE Undo
  BY <1>15, ThreadKinds DEF Undo
<1>16. CASE Send
  BY <1>16, ThreadKinds DEF Send
<1>17. CASE Drain
  BY <1>17, ThreadKinds DEF Drain
<1>18. CASE RemoveAll
  BY <1>18, ThreadKinds DEF RemoveAll, StopAndPut
<1>19. ASSUME NEW g \in Goroutines, Serve(g) PROVE HandsFit'
  <2>1. /\ node' = node /\ walk' = walk /\ \A t \in Threads : t # g => pc'[t] = pc[t]
        /\ node[g] = Nil /\ pc[g] = "serve"
        /\ \/ pc'[g] = "dead" /\ at' = [at EXCEPT ![g] = Nil]
           \/ pc'[g] = "run" /\ at' = at /\ at[g] # Nil
    BY <1>19, ThreadKinds DEF Serve, Goto, At, HandsFit, HoldSteps, PushSteps, Types, PcType
  <2>2. \A t \in Threads : /\ pc'[t] \in HoldSteps => node'[t] # Nil
                           /\ pc'[t] \notin HoldSteps \cup {"popped"} => node'[t] = Nil
    BY <2>1, ThreadKinds DEF HandsFit, HoldSteps, PushSteps
  <2>3. \A h \in Goroutines : pc'[h] = "dead" <=> at'[h] = Nil
    BY <2>1, ThreadKinds DEF HandsFit, Types, HandType
  <2>4. pc'[Reaper] = "free" => walk'.dropped = {}
    BY <2>1, ThreadKinds DEF HandsFit
  <2> QED BY <2>2, <2>3, <2>4, Zenon DEF HandsFit, HoldSteps, PushSteps
<1>20. ASSUME NEW g \in Goroutines, RunBatch(g) PROVE HandsFit'
  BY <1>20, ThreadKinds DEF RunBatch
<1>21. ASSUME NEW g \in Goroutines, freePoolNode(g) PROVE HandsFit'
  BY <1>21, ThreadKinds DEF freePoolNode, StopAndPut
<1>22. ASSUME NEW g \in Goroutines, Release(g) PROVE HandsFit'
  BY <1>22, ThreadKinds DEF Release
<1>23. ASSUME NEW g \in Goroutines, finishJobs(g) PROVE HandsFit'
  BY <1>23, ThreadKinds DEF finishJobs
<1>24. ASSUME NEW g \in Goroutines, Notify(g) PROVE HandsFit'
  BY <1>24, ThreadKinds DEF Notify
<1>25. CASE Tick
  BY <1>25, ThreadKinds DEF Tick, NoWalk
<1>26. CASE Prune
  BY <1>26, ThreadKinds DEF Prune, Dropped
<1>27. CASE Relink
  BY <1>27, ThreadKinds DEF Relink, Dropped
<1>28. CASE PruneDone
  BY <1>28, ThreadKinds DEF PruneDone
<1>29. CASE Expire
  BY <1>29, ThreadKinds, SMTT(30) DEF Expire, StopAndPut, NoWalk
<1>30. CASE Add
  BY <1>30, ThreadKinds DEF Add
<1>31. CASE Purge
  BY <1>31, ThreadKinds DEF Purge
<1>32. ASSUME NEW c \in Callers, NEW m \in Limits, TunePool(c, m) PROVE HandsFit'
  BY <1>32, ThreadKinds DEF TunePool
<1>33. ASSUME NEW c \in Callers, TuneLen(c) PROVE HandsFit'
  <2>1. /\ node' = node /\ walk' = walk /\ at' = at /\ \A t \in Threads : t # c => pc'[t] = pc[t]
        /\ node[c] = Nil /\ pc'[c] \in {"pop", "free"}
    BY <1>33, ThreadKinds DEF TuneLen, hands, Goto, At, HandsFit, HoldSteps, PushSteps, Types,
       PcType
  <2> QED BY <2>1, ThreadKinds DEF HandsFit, HoldSteps, PushSteps
<1>34. ASSUME NEW c \in Callers, TuneNode(c) PROVE HandsFit'
  BY <1>34, ThreadKinds DEF TuneNode, StopAndPut
<1>35. ASSUME NEW c \in Callers, StopWorker(c) PROVE HandsFit'
  BY <1>35, ThreadKinds DEF StopWorker
<1>36. ASSUME NEW c \in Callers, Start(c) PROVE HandsFit'
  <2>1. PICK e \in cache, g \in Goroutines :
          /\ initPoolNode(c, e, g)
          /\ pc' = [pc EXCEPT ![c] = "push", ![g] = "serve", ![Loop] = "select"]
    BY <1>36 DEF Start
  <2>2. /\ walk' = walk /\ node' = [node EXCEPT ![c] = e] /\ at' = [at EXCEPT ![g] = e]
        /\ pc[g] = "dead" /\ pc[Loop] = "over" /\ e \in Elems
    BY <1>36, <2>1 DEF Start, initPoolNode, Hold, At, Types, StackType
  <2>3. /\ pc'[c] = "push" /\ pc'[g] = "serve" /\ pc'[Loop] = "select"
        /\ \A t \in Threads : t \notin {c, g, Loop} => pc'[t] = pc[t]
    BY <2>1, ThreadKinds DEF Types, PcType
  <2>4. node'[c] = e /\ \A t \in Threads : t # c => node'[t] = node[t]
    BY <2>2, ThreadKinds DEF Types, HandType
  <2>5. at'[g] = e /\ \A h \in Goroutines : h # g => at'[h] = at[h]
    BY <2>2 DEF Types, HandType
  <2>6. node[g] = Nil /\ node[Loop] = Nil
    BY <2>2, ThreadKinds DEF HandsFit, HoldSteps, PushSteps
  <2>7. \A t \in Threads : /\ pc'[t] \in HoldSteps => node'[t] # Nil
                           /\ pc'[t] \notin HoldSteps \cup {"popped"} => node'[t] = Nil
    BY <2>2, <2>3, <2>4, <2>6, ThreadKinds DEF HandsFit, HoldSteps, PushSteps
  <2>8. \A h \in Goroutines : pc'[h] = "dead" <=> at'[h] = Nil
    BY <2>2, <2>3, <2>5, ThreadKinds DEF HandsFit
  <2>9. pc'[Reaper] = "free" => walk'.dropped = {}
    BY <2>2, <2>3, ThreadKinds DEF HandsFit
  <2> QED BY <2>7, <2>8, <2>9, Zenon DEF HandsFit, HoldSteps, PushSteps
<1>37. ASSUME NEW c \in Callers, Started(c) PROVE HandsFit'
  BY <1>37, ThreadKinds DEF Started
<1>38. CASE UNCHANGED vars
  BY <1>38 DEF vars
<1> QED
  BY <1>1, <1>2, <1>3, <1>4, <1>5, <1>6, <1>7, <1>8, <1>9, <1>10, <1>11, <1>12, <1>13, <1>14,
     <1>15, <1>16, <1>17, <1>18, <1>19, <1>20, <1>21, <1>22, <1>23, <1>24, <1>25, <1>26, <1>27,
     <1>28, <1>29, <1>30, <1>31, <1>32, <1>33, <1>34, <1>35, <1>36, <1>37, <1>38
     DEF Next, StackStep, LoopStep, GoStep, ReapStep, CallStep

\* Two removers never have popMx at once.
LEMMA MutexKept ==
    ASSUME Types, MutexHeld, [Next]_vars
    PROVE  MutexHeld'
<1> USE DEF stack, hands, bounds, Goto, Hold, At, MutexHeld, GoSteps, LoopSteps, ReapSteps, CallSteps,
      PushSteps, PopSteps, Types, PcType, StackType
<1>1. ASSUME NEW t \in Threads, PushCount(t) PROVE MutexHeld'
  BY <1>1, ThreadKinds DEF PushCount
<1>2. ASSUME NEW t \in Threads, PushLoad(t) PROVE MutexHeld'
  BY <1>2, ThreadKinds DEF PushLoad
<1>3. ASSUME NEW t \in Threads, PushCas(t) PROVE MutexHeld'
  BY <1>3, ThreadKinds DEF PushCas, Pushed
<1>4. ASSUME NEW t \in Threads, PopLoad(t) PROVE MutexHeld'
  BY <1>4, ThreadKinds DEF PopLoad
<1>5. ASSUME NEW t \in Threads, PopCas(t) PROVE MutexHeld'
  BY <1>5, ThreadKinds DEF PopCas
<1>6. ASSUME NEW t \in Threads, PopCount(t) PROVE MutexHeld'
  BY <1>6, ThreadKinds DEF PopCount
<1>7. CASE Select
  BY <1>7, ThreadKinds DEF Select
<1>8. CASE Check
  BY <1>8, ThreadKinds DEF Check
<1>9. CASE PlanBusy
  BY <1>9, ThreadKinds DEF PlanBusy
<1>10. CASE PlanLen
  BY <1>10, ThreadKinds DEF PlanLen
<1>11. CASE PlanNode
  BY <1>11, ThreadKinds DEF PlanNode, initPoolNode
<1>12. CASE Reserve
  BY <1>12, ThreadKinds DEF Reserve
<1>13. CASE Admit
  BY <1>13, ThreadKinds DEF Admit
<1>14. CASE Fill
  BY <1>14, ThreadKinds DEF Fill
<1>15. CASE Undo
  BY <1>15, ThreadKinds DEF Undo
<1>16. CASE Send
  BY <1>16, ThreadKinds DEF Send
<1>17. CASE Drain
  BY <1>17, ThreadKinds DEF Drain
<1>18. CASE RemoveAll
  BY <1>18, ThreadKinds DEF RemoveAll, StopAndPut
<1>19. ASSUME NEW g \in Goroutines, Serve(g) PROVE MutexHeld'
  BY <1>19, ThreadKinds DEF Serve
<1>20. ASSUME NEW g \in Goroutines, RunBatch(g) PROVE MutexHeld'
  BY <1>20, ThreadKinds DEF RunBatch
<1>21. ASSUME NEW g \in Goroutines, freePoolNode(g) PROVE MutexHeld'
  BY <1>21, ThreadKinds DEF freePoolNode, StopAndPut
<1>22. ASSUME NEW g \in Goroutines, Release(g) PROVE MutexHeld'
  BY <1>22, ThreadKinds DEF Release
<1>23. ASSUME NEW g \in Goroutines, finishJobs(g) PROVE MutexHeld'
  BY <1>23, ThreadKinds DEF finishJobs
<1>24. ASSUME NEW g \in Goroutines, Notify(g) PROVE MutexHeld'
  BY <1>24, ThreadKinds DEF Notify
<1>25. CASE Tick
  BY <1>25, ThreadKinds DEF Tick, NoWalk
<1>26. CASE Prune
  BY <1>26, ThreadKinds DEF Prune, Dropped
<1>27. CASE Relink
  BY <1>27, ThreadKinds DEF Relink, Dropped
<1>28. CASE PruneDone
  BY <1>28, ThreadKinds DEF PruneDone
<1>29. CASE Expire
  BY <1>29, ThreadKinds DEF Expire, StopAndPut, NoWalk
<1>30. CASE Add
  BY <1>30, ThreadKinds DEF Add
<1>31. CASE Purge
  BY <1>31, ThreadKinds DEF Purge
<1>32. ASSUME NEW c \in Callers, NEW m \in Limits, TunePool(c, m) PROVE MutexHeld'
  BY <1>32, ThreadKinds DEF TunePool
<1>33. ASSUME NEW c \in Callers, TuneLen(c) PROVE MutexHeld'
  BY <1>33, ThreadKinds DEF TuneLen
<1>34. ASSUME NEW c \in Callers, TuneNode(c) PROVE MutexHeld'
  BY <1>34, ThreadKinds DEF TuneNode, StopAndPut
<1>35. ASSUME NEW c \in Callers, StopWorker(c) PROVE MutexHeld'
  BY <1>35, ThreadKinds DEF StopWorker
<1>36. ASSUME NEW c \in Callers, Start(c) PROVE MutexHeld'
  BY <1>36, ThreadKinds DEF Start, initPoolNode
<1>37. ASSUME NEW c \in Callers, Started(c) PROVE MutexHeld'
  BY <1>37, ThreadKinds DEF Started
<1>38. CASE UNCHANGED vars
  BY <1>38 DEF vars
<1> QED
  BY <1>1, <1>2, <1>3, <1>4, <1>5, <1>6, <1>7, <1>8, <1>9, <1>10, <1>11, <1>12, <1>13, <1>14,
     <1>15, <1>16, <1>17, <1>18, <1>19, <1>20, <1>21, <1>22, <1>23, <1>24, <1>25, <1>26, <1>27,
     <1>28, <1>29, <1>30, <1>31, <1>32, <1>33, <1>34, <1>35, <1>36, <1>37, <1>38
     DEF Next, StackStep, LoopStep, GoStep, ReapStep, CallStep

\* A batch keeps its size.
LEMMA CountFitsKept ==
    ASSUME Types, CountFits, HandsFit, [Next]_vars
    PROVE  CountFits'
<1> USE DEF stack, hands, bounds, Goto, Hold, At, CountFits, LoopCounts, RunSteps, GoSteps, LoopSteps,
      ReapSteps, CallSteps, PushSteps, PopSteps, Types, PcType, CountType, Removing
<1>1. ASSUME NEW t \in Threads, PushCount(t) PROVE CountFits'
  BY <1>1, ThreadKinds DEF PushCount
<1>2. ASSUME NEW t \in Threads, PushLoad(t) PROVE CountFits'
  BY <1>2, ThreadKinds DEF PushLoad
<1>3. ASSUME NEW t \in Threads, PushCas(t) PROVE CountFits'
  BY <1>3, ThreadKinds DEF PushCas, Pushed
<1>4. ASSUME NEW t \in Threads, PopLoad(t) PROVE CountFits'
  BY <1>4, ThreadKinds DEF PopLoad
<1>5. ASSUME NEW t \in Threads, PopCas(t) PROVE CountFits'
  BY <1>5, ThreadKinds DEF PopCas
<1>6. ASSUME NEW t \in Threads, PopCount(t) PROVE CountFits'
  BY <1>6, ThreadKinds DEF PopCount
<1>7. CASE Select
  BY <1>7, ThreadKinds DEF Select
<1>8. CASE Check
  BY <1>8, ThreadKinds DEF Check
<1>9. CASE PlanBusy
  BY <1>9, ThreadKinds DEF PlanBusy, WorkerType
<1>10. CASE PlanLen
  BY <1>10, ThreadKinds DEF PlanLen
<1>11. CASE PlanNode
  <2>1. Batch \in Nat \ {0}
    BY BatchSize DEF Types
  <2>2. /\ count' = [count EXCEPT ![Loop] = Batch] \/ count' = count
        /\ (pc'[Loop] = "reserve" /\ count' = [count EXCEPT ![Loop] = Batch]) \/ pc'[Loop] = "select"
        /\ \A g \in Goroutines : pc'[g] = pc[g] \/ pc'[g] = "serve"
        /\ count[Loop] # Removing
    BY <1>11, ThreadKinds DEF PlanNode, Goto, Types, PcType
  <2>3. count[Loop] \in Int /\ count'[Loop] \in {Batch, count[Loop]} /\ \A g \in Goroutines : count'[g] = count[g]
    BY <2>2, ThreadKinds DEF Types, CountType
  <2>4. pc'[Loop] = "reserve" => count'[Loop] = Batch
    BY <2>2, ThreadKinds DEF Types, CountType
  <2> QED BY <2>1, <2>2, <2>3, <2>4 DEF CountFits, LoopCounts, RunSteps, PushSteps, PopSteps,
             Removing
<1>12. CASE Reserve
  BY <1>12, ThreadKinds DEF Reserve
<1>13. CASE Admit
  BY <1>13, ThreadKinds DEF Admit
<1>14. CASE Fill
  <2> DEFINE n == Min({w.queue, count[Loop]})
  <2>1. w.queue \in Int /\ count[Loop] \in Int /\ w.queue >= 0 /\ count[Loop] >= 1
    BY <1>14, ThreadKinds DEF Fill, At, CountFits, LoopCounts, Types, WorkerType, CountType
  <2>2. n = (IF w.queue =< count[Loop] THEN w.queue ELSE count[Loop])
    BY ONLY <2>1, MaxOfTwo, ZenonT(40)
  <2>3. /\ n \in Nat
        /\ n = 0 => pc'[Loop] = "push" /\ count' = count
        /\ n # 0 => pc'[Loop] \in {"send", "sendLast"} /\ count' = [count EXCEPT ![Loop] = n]
        /\ \A g \in Goroutines : pc'[g] = pc[g]
    <3>1. n \in Nat
      BY <2>1, <2>2
    <3> HIDE DEF n
    <3> QED BY <1>14, <3>1, ThreadKinds DEF Fill, Goto, Types, PcType, n
  <2> HIDE DEF n
  <2>4. /\ count'[Loop] >= 1 /\ count'[Loop] \in Int
        /\ \A g \in Goroutines : count'[g] = count[g]
    BY <2>1, <2>3, ThreadKinds DEF Types, CountType
  <2> QED BY <2>3, <2>4 DEF CountFits, LoopCounts, RunSteps, PushSteps, PopSteps, Removing
<1>15. CASE Undo
  BY <1>15, ThreadKinds DEF Undo
<1>16. CASE Send
  BY <1>16, ThreadKinds DEF Send
<1>17. CASE Drain
  BY <1>17, ThreadKinds DEF Drain
<1>18. CASE RemoveAll
  BY <1>18, ThreadKinds DEF RemoveAll, StopAndPut
<1>19. ASSUME NEW g \in Goroutines, Serve(g) PROVE CountFits'
  <2>1. at[g] \in Elems /\ ch[at[g]] \in Payloads
    BY <1>19 DEF Serve, At, HandsFit, Types, HandType, ChType
  <2>2. ch[at[g]] \notin {<<>>, <<Stop>>} => ch[at[g]][1] \in Nat /\ ch[at[g]][1] >= 1
    BY <2>1 DEF Payloads, Stop
  <2>3. /\ \/ pc'[g] = "dead" /\ count' = count
           \/ pc'[g] = "run" /\ count' = [count EXCEPT ![g] = ch[at[g]][1]] /\ ch[at[g]] \notin {<<>>, <<Stop>>}
        /\ \A t \in Threads : t # g => pc'[t] = pc[t]
    BY <1>19, ThreadKinds DEF Serve, Goto, Types, PcType
  <2>4. /\ \A t \in Threads : t # g => count'[t] = count[t]
        /\ pc'[g] = "run" => count'[g] >= 1
    BY <2>2, <2>3, ThreadKinds DEF Types, CountType
  <2> QED BY <2>3, <2>4, ThreadKinds DEF CountFits, LoopCounts, RunSteps, PushSteps, PopSteps,
             Removing
<1>20. ASSUME NEW g \in Goroutines, RunBatch(g) PROVE CountFits'
  BY <1>20, ThreadKinds DEF RunBatch
<1>21. ASSUME NEW g \in Goroutines, freePoolNode(g) PROVE CountFits'
  BY <1>21, ThreadKinds DEF freePoolNode, StopAndPut
<1>22. ASSUME NEW g \in Goroutines, Release(g) PROVE CountFits'
  BY <1>22, ThreadKinds DEF Release
<1>23. ASSUME NEW g \in Goroutines, finishJobs(g) PROVE CountFits'
  BY <1>23, ThreadKinds DEF finishJobs
<1>24. ASSUME NEW g \in Goroutines, Notify(g) PROVE CountFits'
  BY <1>24, ThreadKinds DEF Notify
<1>25. CASE Tick
  BY <1>25, ThreadKinds DEF Tick, NoWalk
<1>26. CASE Prune
  BY <1>26, ThreadKinds DEF Prune, Dropped
<1>27. CASE Relink
  BY <1>27, ThreadKinds DEF Relink, Dropped
<1>28. CASE PruneDone
  BY <1>28, ThreadKinds DEF PruneDone
<1>29. CASE Expire
  BY <1>29, ThreadKinds DEF Expire, StopAndPut, NoWalk
<1>30. CASE Add
  BY <1>30, ThreadKinds DEF Add
<1>31. CASE Purge
  BY <1>31, ThreadKinds DEF Purge
<1>32. ASSUME NEW c \in Callers, NEW m \in Limits, TunePool(c, m) PROVE CountFits'
  BY <1>32, ThreadKinds DEF TunePool
<1>33. ASSUME NEW c \in Callers, TuneLen(c) PROVE CountFits'
  BY <1>33, ThreadKinds DEF TuneLen
<1>34. ASSUME NEW c \in Callers, TuneNode(c) PROVE CountFits'
  BY <1>34, ThreadKinds DEF TuneNode, StopAndPut
<1>35. ASSUME NEW c \in Callers, StopWorker(c) PROVE CountFits'
  BY <1>35, ThreadKinds DEF StopWorker
<1>36. ASSUME NEW c \in Callers, Start(c) PROVE CountFits'
  BY <1>36, ThreadKinds DEF Start, initPoolNode
<1>37. ASSUME NEW c \in Callers, Started(c) PROVE CountFits'
  BY <1>37, ThreadKinds DEF Started
<1>38. CASE UNCHANGED vars
  BY <1>38 DEF vars
<1> QED
  BY <1>1, <1>2, <1>3, <1>4, <1>5, <1>6, <1>7, <1>8, <1>9, <1>10, <1>11, <1>12, <1>13, <1>14,
     <1>15, <1>16, <1>17, <1>18, <1>19, <1>20, <1>21, <1>22, <1>23, <1>24, <1>25, <1>26, <1>27,
     <1>28, <1>29, <1>30, <1>31, <1>32, <1>33, <1>34, <1>35, <1>36, <1>37, <1>38
     DEF Next, StackStep, LoopStep, GoStep, ReapStep, CallStep

-----------------------------------------------------------------------------
(* Every node has its place, and the stack is a list *)

\* No two places are one.
LEMMA PlacesDiffer ==
    /\ Stacked # Cached /\ Stacked # Pruned /\ Stacked # Sent /\ Cached # Pruned /\ Cached # Sent /\ Pruned # Sent
    /\ \A t : Hand(t) \notin {Stacked, Cached, Pruned, Sent} /\ Runs(t) \notin {Stacked, Cached, Pruned, Sent}
    /\ \A t, u : Hand(t) # Runs(u)
    /\ \A t, u : Hand(t) = Hand(u) => t = u
    /\ \A t, u : Runs(t) = Runs(u) => t = u
<1>1. \A a, b : <<a>> = <<b>> => a = b
  OBVIOUS
<1>2. \A a, b, c, d : <<a, b>> = <<c, d>> => a = c /\ b = d
  OBVIOUS
<1>3. \A a, b, c : <<a>> # <<b, c>>
  OBVIOUS
<1>4. Stacked # Cached /\ Stacked # Pruned /\ Stacked # Sent /\ Cached # Pruned /\ Cached # Sent /\ Pruned # Sent
  BY <1>1 DEF Stacked, Cached, Pruned, Sent
<1>5. \A t : Hand(t) \notin {Stacked, Cached, Pruned, Sent} /\ Runs(t) \notin {Stacked, Cached, Pruned, Sent}
  BY <1>3 DEF Stacked, Cached, Pruned, Sent, Hand, Runs
<1>6. \A t, u : Hand(t) # Runs(u)
  BY <1>2 DEF Hand, Runs
<1>7. \A t, u : Hand(t) = Hand(u) => t = u
  BY <1>2 DEF Hand
<1>8. \A t, u : Runs(t) = Runs(u) => t = u
  BY <1>2 DEF Runs
<1> QED BY <1>4, <1>5, <1>6, <1>7, <1>8, Zenon

\* The places, by name.
LEMMA PlacesAre ==
    /\ {Stacked, Cached, Pruned, Sent} \subseteq Places
    /\ \A t \in Threads : Hand(t) \in Places
    /\ \A g \in Goroutines : Runs(g) \in Places
BY DEF Places

\* A channel has a batch in it.
Loaded(e) == ch[e] \notin {<<>>, <<Stop>>}

\* Where the node e is, as the state tells it.
TellsOf(e, p) ==
    /\ e \in cache <=> p = Cached
    /\ e \in walk.dropped <=> p = Pruned
    /\ Loaded(e) <=> p = Sent
    /\ \A t \in Threads : node[t] = e <=> p = Hand(t)
    /\ \A g \in Goroutines : Owns(g, e) <=> p = Runs(g)

\* The state tells the same of e after the step.
SameOf(e) ==
    /\ e \in cache' <=> e \in cache
    /\ e \in walk'.dropped <=> e \in walk.dropped
    /\ Loaded(e)' <=> Loaded(e)
    /\ \A t \in Threads : node'[t] = e <=> node[t] = e
    /\ \A g \in Goroutines : Owns(g, e)' <=> Owns(g, e)

\* Placed, node by node.
LEMMA PlacedIs ==
    ASSUME NEW loc
    PROVE  Placed(loc) <=> loc \in [Elems -> Places] /\ \A e \in Elems : TellsOf(e, loc[e])
BY Zenon DEF Placed, TellsOf, Loaded

\* Placed after the step, node by node.
LEMMA PlacedNextIs ==
    ASSUME NEW loc
    PROVE  Placed(loc)' <=> loc \in [Elems -> Places] /\ \A e \in Elems : TellsOf(e, loc[e])'
BY Zenon DEF Placed, TellsOf, Loaded

\* What the state tells stands if it tells the same.
LEMMA SameTells ==
    ASSUME NEW e, NEW p, SameOf(e), TellsOf(e, p)
    PROVE  TellsOf(e, p)'
BY Zenon DEF SameOf, TellsOf

\* The reads that PopBack and Prune rely on stay where they are.
Steady ==
    /\ UNCHANGED seen /\ \A t \in Threads : pc'[t] = "popCas" => pc[t] = "popCas"
    /\ pc'[Reaper] \in {"prune", "relink"} => pc'[Reaper] = pc[Reaper]
    /\ walk'.e = walk.e /\ walk'.prev = walk.prev /\ walk'.left = walk.left

\* A step that moves no node.
LEMMA CalmStep ==
    ASSUME NEW loc, NEW r, NEW n, Located(loc, r, n),
           \A e \in Elems : SameOf(e), Steady, UNCHANGED <<head, next>>
    PROVE  Located(loc, r, n)'
<1>1. Placed(loc)'
  <2>1. loc \in [Elems -> Places] /\ \A e \in Elems : TellsOf(e, loc[e])
    BY PlacedIs DEF Located
  <2>2. \A e \in Elems : TellsOf(e, loc[e])'
    BY <2>1, SameTells
  <2> QED BY <2>1, <2>2, PlacedNextIs
<1>2. Chain(StackOf(loc), r, n, head, next)'
  BY DEF Located, Chain, StackOf
<1>3. SeenStands(loc)'
  BY DEF Located, SeenStands, Steady
<1>4. WalkStands(loc, r)'
  BY DEF Located, WalkStands, Steady
<1> QED BY <1>1, <1>2, <1>3, <1>4 DEF Located

\* A node gets a new place.
Moved(e, p) == /\ e \in Elems /\ p \in Places /\ TellsOf(e, p)'
               /\ \A x \in Elems \ {e} : SameOf(x)

\* A move of one node leaves every other in its place.
LEMMA MovedIsPlaced ==
    ASSUME NEW loc, NEW e, NEW p, Placed(loc), Moved(e, p)
    PROVE  Placed([loc EXCEPT ![e] = p])'
<1> DEFINE l == [loc EXCEPT ![e] = p]
<1>1. loc \in [Elems -> Places] /\ \A x \in Elems : TellsOf(x, loc[x])
  BY PlacedIs
<1>2. l \in [Elems -> Places] /\ l[e] = p /\ \A x \in Elems \ {e} : l[x] = loc[x]
  BY <1>1 DEF Moved
<1> HIDE DEF l
<1>3. \A x \in Elems \ {e} : TellsOf(x, loc[x])'
  BY <1>1, SameTells DEF Moved
<1>4. \A x \in Elems : TellsOf(x, l[x])'
  <2> TAKE x \in Elems
  <2>1. CASE x = e
    BY <2>1, <1>2 DEF Moved
  <2>2. CASE x # e
    <3>1. x \in Elems \ {e}
      BY <2>2
    <3>2. TellsOf(x, loc[x])' /\ l[x] = loc[x]
      BY <3>1, <1>2, <1>3, Zenon
    <3> QED BY <3>2
  <2> QED BY <2>1, <2>2
<1>5. Placed(l)'
  BY <1>2, <1>4, PlacedNextIs
<1> QED BY <1>5 DEF l

\* ... off the stack, from one place to another.
LEMMA MoveOff ==
    ASSUME NEW loc, NEW r, NEW n, Located(loc, r, n), NEW e, NEW p, Moved(e, p), Steady,
           UNCHANGED <<head, next>>,
           WalkType, loc[e] # Stacked, p # Stacked
    PROVE  Located([loc EXCEPT ![e] = p], r, n)'
<1> DEFINE l == [loc EXCEPT ![e] = p]
<1>1. Placed(l)'
  BY MovedIsPlaced DEF Located
<1>2. loc \in [Elems -> Places] /\ e \in Elems
  BY DEF Located, Placed, Moved
<1>3. StackOf(l) = StackOf(loc)
  BY <1>2 DEF StackOf
<1>4. \A x \in Elems : l[x] = Stacked <=> loc[x] = Stacked
  BY <1>2
<1> HIDE DEF l
<1>5. Chain(StackOf(l), r, n, head, next)'
  <2>1. Chain(StackOf(loc), r, n, head', next')
    BY DEF Located
  <2>2. Chain(StackOf(l), r, n, head', next')
    BY <2>1, <1>3
  <2> QED BY <2>2 DEF Chain, StackOf
<1>6. SeenStands(l)'
  BY <1>4 DEF Located, SeenStands, Steady
<1>7. WalkStands(l, r)'
  BY <1>4 DEF Located, WalkStands, Steady, WalkType
<1>8. Located(l, r, n)'
  BY <1>1, <1>5, <1>6, <1>7 DEF Located
<1> QED BY <1>8 DEF l

\* A step that moves no node.
Calm == (\A e \in Elems : SameOf(e)) /\ Steady /\ UNCHANGED <<head, next>>

\* The actions that move no node.
LEMMA CalmActions ==
    ASSUME Types
    PROVE  /\ \A t \in Threads : PushCount(t) \/ PopCount(t) => Calm
           /\ Select \/ Check \/ PlanBusy \/ PlanLen \/ Reserve \/ Admit \/ Fill \/ Undo \/ Drain => Calm
           /\ \A g \in Goroutines : RunBatch(g) \/ Release(g) \/ finishJobs(g) \/ Notify(g) => Calm
           /\ PruneDone \/ Add \/ Purge => Calm
           /\ \A c \in Callers : TuneLen(c) \/ StopWorker(c) \/ Started(c) => Calm
           /\ \A c \in Callers : \A m \in Limits : TunePool(c, m) => Calm
<1> DEFINE Frame == /\ UNCHANGED <<head, next, cache, ch, node, at, seen, walk>>
                    /\ \A t \in Threads : pc'[t] = "popCas" => pc[t] = "popCas"
                    /\ pc'[Reaper] \in {"prune", "relink"} => pc'[Reaper] = pc[Reaper]
                    /\ \A g \in Goroutines : pc'[g] \in {"run", "keep"} <=> pc[g] \in {"run", "keep"}
<1> USE DEF stack, hands, bounds, Goto, Hold, At, Types, PcType, GoSteps, LoopSteps, ReapSteps,
      CallSteps, PushSteps, PopSteps
<1>0. ASSUME Frame PROVE Calm
  BY <1>0 DEF Calm, SameOf, Steady, Owns, Loaded
<1>1. ASSUME NEW t \in Threads, PushCount(t) PROVE Calm
  <2>1. Frame
    BY <1>1, ThreadKinds DEF PushCount
  <2> QED BY <2>1, <1>0
<1>2. ASSUME NEW t \in Threads, PopCount(t) PROVE Calm
  <2>1. Frame
    BY <1>2, ThreadKinds DEF PopCount
  <2> QED BY <2>1, <1>0
<1>3. ASSUME Select PROVE Calm
  <2>1. Frame
    BY <1>3, ThreadKinds DEF Select
  <2> QED BY <2>1, <1>0
<1>4. ASSUME Check PROVE Calm
  <2>1. Frame
    BY <1>4, ThreadKinds DEF Check
  <2> QED BY <2>1, <1>0
<1>5. ASSUME PlanBusy PROVE Calm
  <2>1. Frame
    BY <1>5, ThreadKinds DEF PlanBusy
  <2> QED BY <2>1, <1>0
<1>6. ASSUME PlanLen PROVE Calm
  <2>1. Frame
    BY <1>6, ThreadKinds DEF PlanLen
  <2> QED BY <2>1, <1>0
<1>7. ASSUME Reserve PROVE Calm
  <2>1. Frame
    BY <1>7, ThreadKinds DEF Reserve
  <2> QED BY <2>1, <1>0
<1>8. ASSUME Admit PROVE Calm
  <2>1. Frame
    BY <1>8, ThreadKinds DEF Admit
  <2> QED BY <2>1, <1>0
<1>9. ASSUME Fill PROVE Calm
  <2>1. Frame
    BY <1>9, ThreadKinds DEF Fill
  <2> QED BY <2>1, <1>0
<1>10. ASSUME Undo PROVE Calm
  <2>1. Frame
    BY <1>10, ThreadKinds DEF Undo
  <2> QED BY <2>1, <1>0
<1>11. ASSUME Drain PROVE Calm
  <2>1. Frame
    BY <1>11, ThreadKinds DEF Drain
  <2> QED BY <2>1, <1>0
<1>12. ASSUME NEW g \in Goroutines, RunBatch(g) PROVE Calm
  <2>1. Frame
    BY <1>12, ThreadKinds DEF RunBatch
  <2> QED BY <2>1, <1>0
<1>13. ASSUME NEW g \in Goroutines, Release(g) PROVE Calm
  <2>1. Frame
    BY <1>13, ThreadKinds DEF Release
  <2> QED BY <2>1, <1>0
<1>14. ASSUME NEW g \in Goroutines, finishJobs(g) PROVE Calm
  <2>1. Frame
    BY <1>14, ThreadKinds DEF finishJobs
  <2> QED BY <2>1, <1>0
<1>15. ASSUME NEW g \in Goroutines, Notify(g) PROVE Calm
  <2>1. Frame
    BY <1>15, ThreadKinds DEF Notify
  <2> QED BY <2>1, <1>0
<1>16. ASSUME PruneDone PROVE Calm
  <2>1. Frame
    BY <1>16, ThreadKinds DEF PruneDone
  <2> QED BY <2>1, <1>0
<1>17. ASSUME Add PROVE Calm
  <2>1. Frame
    BY <1>17, ThreadKinds DEF Add
  <2> QED BY <2>1, <1>0
<1>18. ASSUME Purge PROVE Calm
  <2>1. Frame
    BY <1>18, ThreadKinds DEF Purge
  <2> QED BY <2>1, <1>0
<1>19. ASSUME NEW c \in Callers, NEW m \in Limits, TunePool(c, m) PROVE Calm
  <2>1. Frame
    BY <1>19, ThreadKinds DEF TunePool
  <2> QED BY <2>1, <1>0
<1>20. ASSUME NEW c \in Callers, TuneLen(c) PROVE Calm
  <2>1. Frame
    BY <1>20, ThreadKinds DEF TuneLen
  <2> QED BY <2>1, <1>0
<1>21. ASSUME NEW c \in Callers, StopWorker(c) PROVE Calm
  <2>1. Frame
    BY <1>21, ThreadKinds DEF StopWorker
  <2> QED BY <2>1, <1>0
<1>22. ASSUME NEW c \in Callers, Started(c) PROVE Calm
  <2>1. Frame
    BY <1>22, ThreadKinds DEF Started
  <2> QED BY <2>1, <1>0
<1> QED
  BY <1>1, <1>2, <1>3, <1>4, <1>5, <1>6, <1>7, <1>8, <1>9, <1>10, <1>11, <1>12, <1>13, <1>14,
     <1>15, <1>16, <1>17, <1>18, <1>19, <1>20, <1>21, <1>22, Zenon

\* A node that is found in one place is in no other.
Nowhere(e) == /\ e \notin cache /\ e \notin walk.dropped /\ ~Loaded(e)
NoHand(e) == \A t \in Threads : node[t] # e
NoRunner(e) == \A g \in Goroutines : ~Owns(g, e)

\* A node in one place is in no other.
LEMMA OnlyThere ==
    ASSUME NEW loc, Placed(loc), NEW e \in Elems
    PROVE  /\ loc[e] = Stacked => Nowhere(e) /\ NoHand(e) /\ NoRunner(e)
           /\ e \in cache => loc[e] # Stacked /\ e \notin walk.dropped /\ ~Loaded(e) /\ NoHand(e) /\ NoRunner(e)
           /\ e \in walk.dropped => loc[e] # Stacked /\ e \notin cache /\ ~Loaded(e) /\ NoHand(e) /\ NoRunner(e)
           /\ Loaded(e) => loc[e] # Stacked /\ e \notin cache /\ e \notin walk.dropped /\ NoHand(e) /\ NoRunner(e)
           /\ \A t \in Threads : node[t] = e =>
                loc[e] # Stacked /\ Nowhere(e) /\ NoRunner(e) /\ \A u \in Threads : node[u] = e => u = t
           /\ \A g \in Goroutines : Owns(g, e) =>
                loc[e] # Stacked /\ Nowhere(e) /\ NoHand(e) /\ \A h \in Goroutines : Owns(h, e) => h = g
<1> DEFINE p == loc[e]
<1>1. TellsOf(e, p)
  BY PlacedIs
<1>2. /\ e \in cache <=> p = Cached
      /\ e \in walk.dropped <=> p = Pruned
      /\ Loaded(e) <=> p = Sent
      /\ \A t \in Threads : node[t] = e <=> p = Hand(t)
      /\ \A g \in Goroutines : Owns(g, e) <=> p = Runs(g)
  BY <1>1, Zenon DEF TellsOf
<1> HIDE DEF p
<1>3. p = Stacked => Nowhere(e) /\ NoHand(e) /\ NoRunner(e)
  BY <1>2, PlacesDiffer, Zenon DEF Nowhere, NoHand, NoRunner
<1>4. e \in cache => p # Stacked /\ e \notin walk.dropped /\ ~Loaded(e) /\ NoHand(e) /\ NoRunner(e)
  BY <1>2, PlacesDiffer, Zenon DEF NoHand, NoRunner
<1>5. e \in walk.dropped => p # Stacked /\ e \notin cache /\ ~Loaded(e) /\ NoHand(e) /\ NoRunner(e)
  BY <1>2, PlacesDiffer, Zenon DEF NoHand, NoRunner
<1>6. Loaded(e) => p # Stacked /\ e \notin cache /\ e \notin walk.dropped /\ NoHand(e) /\ NoRunner(e)
  BY <1>2, PlacesDiffer, Zenon DEF NoHand, NoRunner
<1>7. ASSUME NEW t \in Threads, node[t] = e
      PROVE  p # Stacked /\ Nowhere(e) /\ NoRunner(e) /\ \A u \in Threads : node[u] = e => u = t
  <2>1. p = Hand(t)
    BY <1>2, <1>7, Zenon
  <2> QED BY <2>1, <1>2, PlacesDiffer, Zenon DEF Nowhere, NoRunner
<1>8. ASSUME NEW g \in Goroutines, Owns(g, e)
      PROVE  p # Stacked /\ Nowhere(e) /\ NoHand(e) /\ \A h \in Goroutines : Owns(h, e) => h = g
  <2>1. p = Runs(g)
    BY <1>2, <1>8, Zenon
  <2> QED BY <2>1, <1>2, PlacesDiffer, Zenon DEF Nowhere, NoHand
<1> QED BY <1>3, <1>4, <1>5, <1>6, <1>7, <1>8, Zenon DEF p

\* What the state tells of a node in each place.
LEMMA TellsNext ==
    ASSUME NEW e
    PROVE  /\ Nowhere(e)' /\ NoHand(e)' /\ NoRunner(e)' => TellsOf(e, Stacked)'
           /\ (e \in cache /\ e \notin walk.dropped /\ ~Loaded(e))' /\ NoHand(e)' /\ NoRunner(e)' => TellsOf(e, Cached)'
           /\ (e \notin cache /\ e \in walk.dropped /\ ~Loaded(e))' /\ NoHand(e)' /\ NoRunner(e)' => TellsOf(e, Pruned)'
           /\ (e \notin cache /\ e \notin walk.dropped /\ Loaded(e))' /\ NoHand(e)' /\ NoRunner(e)' => TellsOf(e, Sent)'
           /\ \A t \in Threads : Nowhere(e)' /\ NoRunner(e)' /\ (\A u \in Threads : node'[u] = e <=> u = t) => TellsOf(e, Hand(t))'
           /\ \A g \in Goroutines : Nowhere(e)' /\ NoHand(e)' /\ (\A h \in Goroutines : Owns(h, e)' <=> h = g) => TellsOf(e, Runs(g))'
<1>1. Nowhere(e)' /\ NoHand(e)' /\ NoRunner(e)' => TellsOf(e, Stacked)'
  BY PlacesDiffer, Zenon DEF TellsOf, Nowhere, NoHand, NoRunner
<1>2. (e \in cache /\ e \notin walk.dropped /\ ~Loaded(e))' /\ NoHand(e)' /\ NoRunner(e)' => TellsOf(e, Cached)'
  BY PlacesDiffer, Zenon DEF TellsOf, NoHand, NoRunner
<1>3. (e \notin cache /\ e \in walk.dropped /\ ~Loaded(e))' /\ NoHand(e)' /\ NoRunner(e)' => TellsOf(e, Pruned)'
  BY PlacesDiffer, Zenon DEF TellsOf, NoHand, NoRunner
<1>4. (e \notin cache /\ e \notin walk.dropped /\ Loaded(e))' /\ NoHand(e)' /\ NoRunner(e)' => TellsOf(e, Sent)'
  BY PlacesDiffer, Zenon DEF TellsOf, NoHand, NoRunner
<1>5. ASSUME NEW t \in Threads, Nowhere(e)', NoRunner(e)', \A u \in Threads : node'[u] = e <=> u = t
      PROVE  TellsOf(e, Hand(t))'
  BY <1>5, PlacesDiffer, Zenon DEF TellsOf, Nowhere, NoRunner
<1>6. ASSUME NEW g \in Goroutines, Nowhere(e)', NoHand(e)',
             \A h \in Goroutines : Owns(h, e)' <=> h = g
      PROVE  TellsOf(e, Runs(g))'
  BY <1>6, PlacesDiffer, Zenon DEF TellsOf, Nowhere, NoHand
<1> QED BY <1>1, <1>2, <1>3, <1>4, <1>5, <1>6, Zenon

\* A node changes hands, off the stack.
OffStack(loc, e, p) == Moved(e, p) /\ loc[e] # Stacked /\ p # Stacked /\ Steady /\ UNCHANGED <<head, next>>

\* Send puts the node in hand into its channel.
LEMMA SendMoves ==
    ASSUME Types, HandsFit, CountFits, NEW loc, Placed(loc), Send,
           NEW e, e = node[Loop]
    PROVE  OffStack(loc, e, Sent)
<1>1. e \in Elems /\ count[Loop] \in Nat /\ count[Loop] >= 1
  BY ThreadKinds DEF Send, HandsFit, HoldSteps, CountFits, LoopCounts, Types, HandType, CountType
<1>2. loc[e] # Stacked /\ Nowhere(e) /\ NoRunner(e) /\ \A u \in Threads : node[u] = e => u = Loop
  BY <1>1, OnlyThere, ThreadKinds
<1>3. /\ cache' = cache /\ walk' = walk /\ at' = at /\ seen' = seen /\ head' = head /\ next' = next
      /\ node' = [node EXCEPT ![Loop] = Nil] /\ ch' = [ch EXCEPT ![e] = <<count[Loop]>>]
      /\ pc'[Loop] \in {"check", "select"} /\ \A t \in Threads : t # Loop => pc'[t] = pc[t]
  BY ThreadKinds DEF Send, stack, Hold, Goto, Types, PcType
<1>4. ch'[e] = <<count[Loop]>> /\ \A x \in Elems \ {e} : ch'[x] = ch[x]
  BY <1>1, <1>3 DEF Types, ChType
<1>5. node'[Loop] = Nil /\ \A t \in Threads : t # Loop => node'[t] = node[t]
  BY <1>3, ThreadKinds DEF Types, HandType
<1>6. \A g \in Goroutines : \A x : Owns(g, x)' <=> Owns(g, x)
  BY <1>3, ThreadKinds DEF Owns
<1>7. Loaded(e)'
  BY <1>1, <1>4 DEF Loaded, Stop
<1>8. TellsOf(e, Sent)'
  <2>1. NoHand(e)'
    BY <1>1, <1>2, <1>5, ThreadKinds DEF NoHand
  <2>2. NoRunner(e)'
    BY <1>2, <1>6 DEF NoRunner
  <2>3. (e \notin cache /\ e \notin walk.dropped)'
    BY <1>2, <1>3 DEF Nowhere
  <2> QED BY <1>7, <2>1, <2>2, <2>3, TellsNext
<1>9. \A x \in Elems \ {e} : SameOf(x)
  <2> TAKE x \in Elems \ {e}
  <2>1. Loaded(x)' <=> Loaded(x)
    BY <1>4 DEF Loaded
  <2>2. \A t \in Threads : node'[t] = x <=> node[t] = x
    BY <1>5, ThreadKinds
  <2> QED BY <2>1, <2>2, <1>3, <1>6 DEF SameOf
<1>10. Steady
  BY <1>3, ThreadKinds DEF Steady
<1>11. Sent # Stacked /\ Sent \in Places
  BY PlacesDiffer, PlacesAre
<1> QED BY <1>1, <1>2, <1>3, <1>8, <1>9, <1>10, <1>11 DEF OffStack, Moved

\* A thread stops the node it has in hand, and caches it.
LEMMA PutMoves ==
    ASSUME Types, HandsFit, CountFits, NEW loc, Placed(loc), NEW t \in Threads, node[t] # Nil,
           StopAndPut(node[t]), Hold(t, Nil), UNCHANGED <<head, next, seen, at, walk>>,
           pc[t] = "popped", pc'[t] \in {"pop", "tune"}, \A u \in Threads : u # t => pc'[u] = pc[u],
           NEW e, e = node[t]
    PROVE  OffStack(loc, e, Cached)
<1>1. e \in Elems
  BY DEF Types, HandType
<1>2. loc[e] # Stacked /\ Nowhere(e) /\ NoRunner(e) /\ \A u \in Threads : node[u] = e => u = t
  BY <1>1, OnlyThere
<1>3. /\ cache' = cache \cup {e} /\ ch' = [ch EXCEPT ![e] = <<Stop>>]
      /\ node' = [node EXCEPT ![t] = Nil] /\ ch[e] = <<>>
  BY DEF StopAndPut, Hold
<1>4. ch'[e] = <<Stop>> /\ \A x \in Elems \ {e} : ch'[x] = ch[x]
  BY <1>1, <1>3 DEF Types, ChType
<1>5. node'[t] = Nil /\ \A u \in Threads : u # t => node'[u] = node[u]
  BY <1>3 DEF Types, HandType
<1>6. \A g \in Goroutines : \A x : Owns(g, x)' <=> Owns(g, x)
  BY ThreadKinds DEF Owns
<1>7. TellsOf(e, Cached)'
  <2>1. NoHand(e)'
    BY <1>1, <1>2, <1>5, ThreadKinds DEF NoHand
  <2>2. NoRunner(e)'
    BY <1>2, <1>6 DEF NoRunner
  <2>3. (e \in cache /\ e \notin walk.dropped /\ ~Loaded(e))'
    BY <1>2, <1>3, <1>4 DEF Nowhere, Loaded
  <2> QED BY <2>1, <2>2, <2>3, TellsNext
<1>8. \A x \in Elems \ {e} : SameOf(x)
  <2> TAKE x \in Elems \ {e}
  <2>1. Loaded(x)' <=> Loaded(x)
    BY <1>4 DEF Loaded
  <2>2. \A u \in Threads : node'[u] = x <=> node[u] = x
    BY <1>5, ThreadKinds
  <2> QED BY <2>1, <2>2, <1>3, <1>6 DEF SameOf
<1>9. Steady
  BY ThreadKinds DEF Steady
<1>10. Cached # Stacked /\ Cached \in Places
  BY PlacesDiffer, PlacesAre
<1> QED BY <1>1, <1>2, <1>7, <1>8, <1>9, <1>10 DEF OffStack, Moved

\* Serve takes the node from its channel, or finds a Stop and ends.
LEMMA ServeMoves ==
    ASSUME Types, HandsFit, CountFits, NEW loc, Placed(loc), NEW g \in Goroutines, Serve(g),
           NEW e, e = at[g]
    PROVE  Calm \/ OffStack(loc, e, Runs(g))
<1>1. e \in Elems /\ ch[e] # <<>>
  BY ThreadKinds DEF Serve, At, HandsFit, Types, HandType
<1>2. /\ cache' = cache /\ walk' = walk /\ seen' = seen /\ head' = head /\ next' = next /\ node' = node
      /\ ch' = [ch EXCEPT ![e] = <<>>] /\ pc[g] = "serve"
      /\ pc'[g] \in {"dead", "run"} /\ \A t \in Threads : t # g => pc'[t] = pc[t]
  BY ThreadKinds DEF Serve, stack, At, Goto, Types, PcType
<1>3. ch'[e] = <<>> /\ \A x \in Elems \ {e} : ch'[x] = ch[x]
  BY <1>1, <1>2 DEF Types, ChType
<1>4. Steady
  BY <1>2, ThreadKinds DEF Steady
<1>5. \A x \in Elems \ {e} : Loaded(x)' <=> Loaded(x)
  BY <1>3 DEF Loaded
<1>6. CASE ch[e] = <<Stop>>
  <2>1. pc'[g] = "dead" /\ at' = [at EXCEPT ![g] = Nil]
    BY <1>6, ThreadKinds DEF Serve, Goto, Types, PcType
  <2>2. \A x, h : h \in Goroutines => (Owns(h, x)' <=> Owns(h, x))
    BY <2>1, <1>2, ThreadKinds DEF Owns, Types, HandType
  <2>3. ~Loaded(e) /\ ~Loaded(e)'
    BY <1>6, <1>3 DEF Loaded
  <2>4. \A x \in Elems : SameOf(x)
    BY <2>2, <2>3, <1>2, <1>5 DEF SameOf
  <2> QED BY <2>4, <1>2, <1>4 DEF Calm
<1>7. CASE ch[e] # <<Stop>>
  <2>1. pc'[g] = "run" /\ at' = at
    BY <1>7, ThreadKinds DEF Serve, Goto, Types, PcType
  <2>2. Loaded(e)
    BY <1>1, <1>7 DEF Loaded
  <2>3. loc[e] # Stacked /\ e \notin cache /\ e \notin walk.dropped /\ NoHand(e) /\ NoRunner(e)
    BY <1>1, <2>2, OnlyThere
  <2>4. \A h \in Goroutines : Owns(h, e)' <=> h = g
    BY <2>1, <2>3, <1>2, ThreadKinds DEF Owns, NoRunner
  <2>5. \A x \in Elems \ {e} : \A h \in Goroutines : Owns(h, x)' <=> Owns(h, x)
    BY <2>1, <1>2, ThreadKinds DEF Owns
  <2>6. TellsOf(e, Runs(g))'
    <3>1. Nowhere(e)' /\ NoHand(e)'
      BY <2>3, <1>2, <1>3 DEF Nowhere, Loaded, NoHand
    <3> QED BY <3>1, <2>4, TellsNext
  <2>7. \A x \in Elems \ {e} : SameOf(x)
    BY <2>5, <1>2, <1>5 DEF SameOf
  <2>8. Runs(g) # Stacked /\ Runs(g) \in Places
    BY PlacesDiffer, PlacesAre
  <2> QED BY <2>3, <2>6, <2>7, <2>8, <1>1, <1>2, <1>4 DEF OffStack, Moved
<1> QED BY <1>6, <1>7

\* freePoolNode takes the node in hand, to push it, or stops and caches it.
LEMMA FreeMoves ==
    ASSUME Types, HandsFit, CountFits, NEW loc, Placed(loc), NEW g \in Goroutines, freePoolNode(g),
           NEW e, e = at[g]
    PROVE  OffStack(loc, e, Hand(g)) \/ OffStack(loc, e, Cached)
<1>1. e \in Elems /\ Owns(g, e)
  BY ThreadKinds DEF freePoolNode, At, HandsFit, Types, HandType, Owns
<1>2. loc[e] # Stacked /\ Nowhere(e) /\ NoHand(e) /\ \A h \in Goroutines : Owns(h, e) => h = g
  BY <1>1, OnlyThere
<1>3. /\ walk' = walk /\ seen' = seen /\ head' = head /\ next' = next /\ at' = at /\ pc[g] = "keep"
      /\ pc'[g] \in {"push", "release"} /\ \A t \in Threads : t # g => pc'[t] = pc[t]
  BY ThreadKinds DEF freePoolNode, stack, At, Goto, Types, PcType
<1>4. Steady
  BY <1>3, ThreadKinds DEF Steady
<1>5. NoRunner(e)'
  BY <1>2, <1>3, ThreadKinds DEF NoRunner, Owns
<1>6. \A x \in Elems \ {e} : \A h \in Goroutines : Owns(h, x)' <=> Owns(h, x)
  BY <1>3, ThreadKinds DEF Owns
<1>7. CASE Kept
  <2>1. UNCHANGED <<cache, ch>> /\ node' = [node EXCEPT ![g] = e]
    BY <1>7 DEF freePoolNode, Hold
  <2>2. node'[g] = e /\ \A t \in Threads : t # g => node'[t] = node[t]
    BY <2>1, ThreadKinds DEF Types, HandType
  <2>3. node[g] = Nil
    BY <1>3, ThreadKinds DEF HandsFit, HoldSteps, PushSteps
  <2>4. TellsOf(e, Hand(g))'
    <3>1. Nowhere(e)'
      BY <2>1, <1>2, <1>3 DEF Nowhere, Loaded
    <3>2. \A u \in Threads : node'[u] = e <=> u = g
      BY <2>2, <1>2 DEF NoHand
    <3> QED BY <3>1, <3>2, <1>5, TellsNext, ThreadKinds
  <2>5. \A x \in Elems \ {e} : SameOf(x)
    <3> TAKE x \in Elems \ {e}
    <3>1. \A u \in Threads : node'[u] = x <=> node[u] = x
      BY <2>2, <2>3, ThreadKinds
    <3> QED BY <3>1, <2>1, <1>3, <1>6 DEF SameOf, Loaded
  <2>6. Hand(g) # Stacked /\ Hand(g) \in Places
    BY PlacesDiffer, PlacesAre, ThreadKinds
  <2> QED BY <2>4, <2>5, <2>6, <1>1, <1>2, <1>3, <1>4 DEF OffStack, Moved
<1>8. CASE ~Kept
  <2>1. cache' = cache \cup {e} /\ ch' = [ch EXCEPT ![e] = <<Stop>>] /\ node' = node
    BY <1>8 DEF freePoolNode, StopAndPut
  <2>2. ch'[e] = <<Stop>> /\ \A x \in Elems \ {e} : ch'[x] = ch[x]
    BY <1>1, <2>1 DEF Types, ChType
  <2>3. TellsOf(e, Cached)'
    <3>1. NoHand(e)'
      BY <2>1, <1>2 DEF NoHand
    <3>2. (e \in cache /\ e \notin walk.dropped /\ ~Loaded(e))'
      BY <1>2, <1>3, <2>1, <2>2 DEF Nowhere, Loaded
    <3> QED BY <3>1, <3>2, <1>5, TellsNext
  <2>4. \A x \in Elems \ {e} : SameOf(x)
    BY <2>1, <2>2, <1>3, <1>6 DEF SameOf, Loaded
  <2>5. Cached # Stacked /\ Cached \in Places
    BY PlacesDiffer, PlacesAre
  <2> QED BY <2>3, <2>4, <2>5, <1>1, <1>2, <1>3, <1>4 DEF OffStack, Moved
<1> QED BY <1>7, <1>8

\* A cached node is made ready for a thread, with a goroutine to serve it.
LEMMA InitMoves ==
    ASSUME Types, HandsFit, CountFits, NEW loc, Placed(loc), NEW t \in Threads, NEW e,
           NEW g \in Goroutines, initPoolNode(t, e, g),
           UNCHANGED <<head, next, seen, ch, walk>>, node[t] = Nil, pc'[g] = "serve",
           pc'[t] \in {"reserve", "push"}, t \notin Goroutines, t # Reaper,
           \A u \in Threads : u = t \/ u = g \/ pc'[u] = pc[u] \/ (u = Loop /\ pc'[u] = "select")
    PROVE  OffStack(loc, e, Hand(t))
<1>1. /\ e \in Elems /\ e \in cache /\ pc[g] = "dead" /\ cache' = cache \ {e} /\ at' = [at EXCEPT ![g] = e]
      /\ node' = [node EXCEPT ![t] = e]
  BY DEF initPoolNode, At, Hold, Types, StackType
<1>2. loc[e] # Stacked /\ e \notin walk.dropped /\ ~Loaded(e) /\ NoHand(e) /\ NoRunner(e)
  BY <1>1, OnlyThere
<1>3. node'[t] = e /\ \A u \in Threads : u # t => node'[u] = node[u]
  BY <1>1 DEF Types, HandType
<1>4. \A h \in Goroutines : \A x : Owns(h, x)' <=> Owns(h, x)
  BY <1>1, ThreadKinds DEF Owns, Types, HandType
<1>5. TellsOf(e, Hand(t))'
  <2>1. Nowhere(e)' /\ NoRunner(e)'
    BY <1>1, <1>2, <1>4 DEF Nowhere, Loaded, NoRunner
  <2>2. \A u \in Threads : node'[u] = e <=> u = t
    BY <1>2, <1>3 DEF NoHand
  <2> QED BY <2>1, <2>2, TellsNext
<1>6. \A x \in Elems \ {e} : SameOf(x)
  <2> TAKE x \in Elems \ {e}
  <2>1. \A u \in Threads : node'[u] = x <=> node[u] = x
    BY <1>3, ThreadKinds
  <2> QED BY <2>1, <1>1, <1>4 DEF SameOf, Loaded
<1>7. Steady
  BY <1>1, ThreadKinds DEF Steady
<1>8. Hand(t) # Stacked /\ Hand(t) \in Places
  BY PlacesDiffer, PlacesAre
<1> QED BY <1>1, <1>2, <1>5, <1>6, <1>7, <1>8 DEF OffStack, Moved

\* Expire caches one of the pruned nodes, or is done.
LEMMA ExpireMoves ==
    ASSUME Types, HandsFit, CountFits, NEW loc, Placed(loc), Expire
    PROVE  \/ (\A e \in Elems : SameOf(e)) /\ pc'[Reaper] = "free"
           \/ \E e \in Elems : OffStack(loc, e, Cached)
<1>1. /\ pc[Reaper] = "expire" /\ seen' = seen /\ head' = head /\ next' = next /\ at' = at /\ node' = node
      /\ pc'[Reaper] \in {"free", "expire"} /\ \A t \in Threads : t # Reaper => pc'[t] = pc[t]
  BY ThreadKinds DEF Expire, stack, At, Goto, Types, PcType
<1>2. \A h \in Goroutines : \A x : Owns(h, x)' <=> Owns(h, x)
  BY <1>1, ThreadKinds DEF Owns
<1>3. CASE walk.dropped = {}
  <2>1. walk' = NoWalk /\ cache' = cache /\ ch' = ch /\ pc'[Reaper] = "free"
    BY <1>3, ThreadKinds DEF Expire, Goto, Types, PcType
  <2>2. walk'.dropped = {}
    BY <2>1 DEF NoWalk
  <2>3. \A e \in Elems : SameOf(e)
    BY <1>1, <1>2, <1>3, <2>1, <2>2 DEF SameOf, Loaded
  <2> QED BY <2>1, <2>3
<1>4. CASE walk.dropped # {}
  <2>1. PICK e \in walk.dropped : StopAndPut(e) /\ walk' = [walk EXCEPT !.dropped = @ \ {e}]
    BY <1>4 DEF Expire
  <2>2. e \in Elems
    BY DEF Types, WalkType
  <2>3. loc[e] # Stacked /\ e \notin cache /\ ~Loaded(e) /\ NoHand(e) /\ NoRunner(e)
    BY <2>1, <2>2, OnlyThere
  <2>4. /\ cache' = cache \cup {e} /\ ch'[e] = <<Stop>> /\ \A x \in Elems \ {e} : ch'[x] = ch[x]
    BY <2>1, <2>2 DEF StopAndPut, Types, ChType
  <2>5. walk'.dropped = walk.dropped \ {e} /\ walk'.e = walk.e /\ walk'.prev = walk.prev /\ walk'.left = walk.left
    BY <2>1 DEF Types, WalkType
  <2>6. TellsOf(e, Cached)'
    <3>1. NoHand(e)' /\ NoRunner(e)'
      BY <1>1, <1>2, <2>3 DEF NoHand, NoRunner
    <3>2. (e \in cache /\ e \notin walk.dropped /\ ~Loaded(e))'
      BY <2>4, <2>5 DEF Loaded
    <3> QED BY <3>1, <3>2, TellsNext
  <2>7. \A x \in Elems \ {e} : SameOf(x)
    BY <1>1, <1>2, <2>4, <2>5 DEF SameOf, Loaded
  <2>8. Steady
    BY <1>1, <2>5, ThreadKinds DEF Steady
  <2>9. Cached # Stacked /\ Cached \in Places
    BY PlacesDiffer, PlacesAre
  <2> QED BY <1>1, <2>2, <2>3, <2>6, <2>7, <2>8, <2>9 DEF OffStack, Moved
<1> QED BY <1>3, <1>4

\* The steps on the stack.
Relocated == \E l, q, m : Located(l, q, m)'

\* A node of the stack, by its place.
LEMMA InStackOf ==
    ASSUME NEW loc, NEW x
    PROVE  x \in StackOf(loc) <=> x \in Elems /\ loc[x] = Stacked
BY DEF StackOf

\* PushNode writes the link of a node that is not in the list yet.
LEMMA PushLoadKeeps ==
    ASSUME Types, HandsFit, MutexHeld, CountFits, NEW loc, NEW r, NEW n, Located(loc, r, n),
           NEW t \in Threads, PushLoad(t)
    PROVE  Relocated
<1> SUFFICES ASSUME NEW e, e = node[t] PROVE Located(loc, r, n)'
  BY Zenon DEF Relocated
<1>1. e \in Elems
  BY DEF PushLoad, At, HandsFit, HoldSteps, PushSteps, Types, HandType
<1>2. loc[e] # Stacked
  BY <1>1, OnlyThere DEF Located
<1>3. /\ next' = [next EXCEPT ![e] = head] /\ next \in [Elems -> Elems \cup {Nil}]
      /\ UNCHANGED <<head, cache, ch, node, seen, at, walk>>
      /\ pc[t] = "pushLoad" /\ pc'[t] = "pushCas" /\ \A u \in Threads : u # t => pc'[u] = pc[u]
  BY DEF PushLoad, Goto, At, hands, Types, PcType, StackType
<1>4. \A x \in Elems \ {e} : next'[x] = next[x]
  BY <1>3
<1>5. \A x \in Elems : SameOf(x)
  BY <1>3, ThreadKinds DEF SameOf, Owns, Loaded
<1>6. Placed(loc)'
  <2>1. loc \in [Elems -> Places] /\ \A x \in Elems : TellsOf(x, loc[x])
    BY PlacedIs DEF Located
  <2>2. \A x \in Elems : TellsOf(x, loc[x])'
    BY <2>1, <1>5, SameTells
  <2> QED BY <2>1, <2>2, PlacedNextIs
<1>7. Chain(StackOf(loc), r, n, head, next)'
  <2>1. Chain(StackOf(loc), r, n, head, next) /\ e \notin StackOf(loc)
    BY <1>2 DEF Located, StackOf
  <2>2. Chain(StackOf(loc), r, n, head, [next EXCEPT ![e] = head])
    BY <1>1, <1>3, <2>1, ChainWrite
  <2>3. Chain(StackOf(loc), r, n, head', next')
    BY <1>3, <2>2
  <2> QED BY <2>3 DEF Chain, StackOf
<1>8. SeenStands(loc)'
  BY <1>2, <1>3, <1>4 DEF Located, SeenStands
<1>9. WalkStands(loc, r)'
  BY <1>2, <1>3, <1>4, ThreadKinds DEF Located, WalkStands, Types, WalkType, PcType, ReapSteps
<1> QED BY <1>6, <1>7, <1>8, <1>9 DEF Located

\* The swap of PushNode links the node in, if the head is the one that it saw.
LEMMA PushCasKeeps ==
    ASSUME Types, HandsFit, MutexHeld, CountFits, NEW loc, NEW r, NEW n, Located(loc, r, n),
           NEW t \in Threads, PushCas(t)
    PROVE  Relocated
<1> SUFFICES ASSUME NEW e, e = node[t] PROVE Relocated
  OBVIOUS
<1>1. e \in Elems
  BY DEF PushCas, At, HandsFit, HoldSteps, PushSteps, Types, HandType
<1>2. loc[e] # Stacked /\ Nowhere(e) /\ NoRunner(e) /\ \A u \in Threads : node[u] = e => u = t
  BY <1>1, OnlyThere DEF Located
<1>3. /\ UNCHANGED <<next, cache, ch, seen, at, walk>>
      /\ pc[t] = "pushCas" /\ pc'[t] \in {"pushLoad", "undo", "release", "started"}
      /\ \A u \in Threads : u # t => pc'[u] = pc[u]
  BY ThreadKinds DEF PushCas, Pushed, Goto, At, Types, PcType
<1>4. \A g \in Goroutines : \A x : Owns(g, x)' <=> Owns(g, x)
  BY <1>3, ThreadKinds DEF Owns
<1>5. Steady
  BY <1>3, ThreadKinds DEF Steady, Types, PcType, ReapSteps
<1>6. CASE head # next[e]
  <2>1. UNCHANGED <<head, node>>
    BY <1>6 DEF PushCas
  <2>2. \A x \in Elems : SameOf(x)
    BY <1>3, <1>4, <2>1 DEF SameOf, Loaded
  <2>3. Located(loc, r, n)'
    BY <2>1, <2>2, <1>3, <1>5, CalmStep
  <2> QED BY <2>3, Zenon DEF Relocated
<1>7. CASE head = next[e]
  <2> DEFINE l == [loc EXCEPT ![e] = Stacked]
             q == [r EXCEPT ![e] = n + 1]
  <2>1. head' = e /\ node' = [node EXCEPT ![t] = Nil]
    BY <1>7 DEF PushCas, Hold
  <2>2. node'[t] = Nil /\ \A u \in Threads : u # t => node'[u] = node[u]
    BY <2>1 DEF Types, HandType
  <2>3. TellsOf(e, Stacked)'
    <3>1. Nowhere(e)' /\ NoRunner(e)'
      BY <1>2, <1>3, <1>4 DEF Nowhere, NoRunner, Loaded
    <3>2. NoHand(e)'
      BY <1>1, <1>2, <2>2, ThreadKinds DEF NoHand
    <3> QED BY <3>1, <3>2, TellsNext
  <2>4. \A x \in Elems \ {e} : SameOf(x)
    <3> TAKE x \in Elems \ {e}
    <3>1. \A u \in Threads : node'[u] = x <=> node[u] = x
      BY <2>2, ThreadKinds
    <3> QED BY <3>1, <1>3, <1>4 DEF SameOf, Loaded
  <2>5. Moved(e, Stacked)
    BY <1>1, <2>3, <2>4, PlacesAre DEF Moved
  <2>6. Placed(l)'
    BY <2>5, MovedIsPlaced DEF Located
  <2>7. loc \in [Elems -> Places] /\ r \in [Elems -> Nat] /\ n \in Nat
    BY DEF Located, Placed, Chain
  <2>8. /\ l[e] = Stacked /\ \A x \in Elems \ {e} : l[x] = loc[x]
        /\ q[e] = n + 1 /\ \A x \in Elems \ {e} : q[x] = r[x]
    BY <1>1, <2>7
  <2>9. StackOf(l) = StackOf(loc) \cup {e} /\ e \notin StackOf(loc)
    BY <1>1, <1>2, <2>7 DEF StackOf
  <2>10. Chain(StackOf(loc) \cup {e}, q, n + 1, e, next)
    BY <1>1, <1>7, <2>9, ChainPush DEF Located
  <2> HIDE DEF l, q
  <2>11. Chain(StackOf(l), q, n + 1, head, next)'
    <3>1. Chain(StackOf(l), q, n + 1, head', next')
      BY <1>3, <2>1, <2>9, <2>10
    <3> QED BY <3>1 DEF Chain, StackOf
  <2>12. SeenStands(l)'
    BY <1>2, <1>3, <1>5, <2>8 DEF Located, SeenStands, Steady
  <2>13. WalkStands(l, q)'
    BY <1>2, <1>3, <1>5, <2>1, <2>8, ThreadKinds DEF Located, WalkStands, Steady, Types, WalkType
  <2>14. Located(l, q, n + 1)'
    BY <2>6, <2>11, <2>12, <2>13 DEF Located
  <2> QED BY <2>14, Zenon DEF Relocated
<1> QED BY <1>6, <1>7

\* PopBack loads the head and its link, both of one list.
LEMMA PopLoadKeeps ==
    ASSUME Types, HandsFit, MutexHeld, CountFits, NEW loc, NEW r, NEW n, Located(loc, r, n),
           NEW t \in Threads, PopLoad(t)
    PROVE  Relocated
<1> SUFFICES Located(loc, r, n)'
  BY Zenon DEF Relocated
<1>1. node[t] = Nil
  BY DEF PopLoad, At, HandsFit, HoldSteps, PushSteps
<1>2. /\ UNCHANGED <<head, next, cache, ch, at, walk>> /\ node' = node
      /\ pc[t] = "pop" /\ pc'[t] \in {"popped", "popCas"} /\ \A u \in Threads : u # t => pc'[u] = pc[u]
  BY <1>1 DEF PopLoad, Goto, At, Hold, Types, PcType, HandType
<1>3. \A x \in Elems : SameOf(x)
  BY <1>2, ThreadKinds DEF SameOf, Owns, Loaded
<1>4. CASE head = Nil
  <2>1. UNCHANGED seen /\ pc'[t] = "popped"
    BY <1>4 DEF PopLoad, Goto, Types, PcType
  <2>2. Steady
    BY <1>2, <2>1, ThreadKinds DEF Steady
  <2> QED BY <1>2, <1>3, <2>2, CalmStep
<1>5. CASE head # Nil
  <2>1. seen' = [seen EXCEPT ![t] = <<head, next[head]>>]
    BY <1>5 DEF PopLoad
  <2>2. seen'[t] = <<head, next[head]>> /\ \A u \in Threads : u # t => seen'[u] = seen[u]
    BY <2>1 DEF Types, HandType
  <2>3. head \in Elems /\ loc[head] = Stacked
    BY <1>5 DEF Located, Chain, StackOf
  <2>4. SeenStands(loc)'
    BY <1>2, <2>2, <2>3 DEF Located, SeenStands
  <2>5. WalkStands(loc, r)'
    BY <1>2, ThreadKinds DEF Located, WalkStands, Types, PcType, ReapSteps
  <2>6. Placed(loc)'
    <3>1. loc \in [Elems -> Places] /\ \A x \in Elems : TellsOf(x, loc[x])
      BY PlacedIs DEF Located
    <3>2. \A x \in Elems : TellsOf(x, loc[x])'
      BY <3>1, <1>3, SameTells
    <3> QED BY <3>1, <3>2, PlacedNextIs
  <2>7. Chain(StackOf(loc), r, n, head, next)'
    BY <1>2 DEF Located, Chain, StackOf
  <2> QED BY <2>4, <2>5, <2>6, <2>7 DEF Located
<1> QED BY <1>4, <1>5

\* The swap of PopBack takes the head off: under popMx the link it loaded stands.
LEMMA PopCasKeeps ==
    ASSUME Types, HandsFit, MutexHeld, CountFits, NEW loc, NEW r, NEW n, Located(loc, r, n),
           NEW t \in Threads, PopCas(t)
    PROVE  Relocated
<1> SUFFICES ASSUME NEW e, e = head PROVE Relocated
  OBVIOUS
<1>1. /\ UNCHANGED <<next, cache, ch, at, walk>> /\ seen' = [seen EXCEPT ![t] = <<Nil, Nil>>]
      /\ pc[t] = "popCas" /\ pc'[t] \in {"pop", "popCount"} /\ \A u \in Threads : u # t => pc'[u] = pc[u]
  BY DEF PopCas, Goto, At, Types, PcType
<1>2. /\ popMx = t /\ t \in Threads /\ \A u \in Threads : u # t => pc[u] # "popCas"
  BY <1>1 DEF MutexHeld
<1>3. t # Reaper
  BY <1>1, ThreadKinds DEF Types, PcType, ReapSteps
<1>4. pc'[Reaper] \notin {"prune", "relink"}
  BY <1>1, <1>2, <1>3, ThreadKinds DEF MutexHeld
<1>5. \A g \in Goroutines : \A x : Owns(g, x)' <=> Owns(g, x)
  BY <1>1, ThreadKinds DEF Owns
<1>6. \A l : SeenStands(l)'
  BY <1>1, <1>2 DEF SeenStands
<1>7. \A l, q : WalkStands(l, q)'
  BY <1>4 DEF WalkStands
<1>8. seen[t][1] \in Elems /\ loc[seen[t][1]] = Stacked /\ next[seen[t][1]] = seen[t][2]
  BY <1>1 DEF Located, SeenStands
<1>9. node[t] = Nil
  BY <1>1 DEF HandsFit, HoldSteps, PushSteps
<1>10. CASE head # seen[t][1]
  <2>1. UNCHANGED <<head, node>>
    BY <1>10 DEF PopCas
  <2>2. \A x \in Elems : SameOf(x)
    BY <1>1, <1>5, <2>1 DEF SameOf, Loaded
  <2>3. Placed(loc)'
    <3>1. loc \in [Elems -> Places] /\ \A x \in Elems : TellsOf(x, loc[x])
      BY PlacedIs DEF Located
    <3>2. \A x \in Elems : TellsOf(x, loc[x])'
      BY <3>1, <2>2, SameTells
    <3> QED BY <3>1, <3>2, PlacedNextIs
  <2>4. Chain(StackOf(loc), r, n, head, next)'
    BY <1>1, <2>1 DEF Located, Chain, StackOf
  <2>5. Located(loc, r, n)'
    BY <2>3, <2>4, <1>6, <1>7 DEF Located
  <2> QED BY <2>5, Zenon DEF Relocated
<1>11. CASE head = seen[t][1]
  <2> DEFINE l == [loc EXCEPT ![e] = Hand(t)]
  <2>1. head' = next[e] /\ node' = [node EXCEPT ![t] = e] /\ e \in Elems /\ loc[e] = Stacked
    BY <1>8, <1>11 DEF PopCas, Hold
  <2>2. node'[t] = e /\ \A u \in Threads : u # t => node'[u] = node[u]
    BY <2>1 DEF Types, HandType
  <2>3. Nowhere(e) /\ NoHand(e) /\ NoRunner(e)
    BY <2>1, OnlyThere DEF Located
  <2>4. TellsOf(e, Hand(t))'
    <3>1. Nowhere(e)' /\ NoRunner(e)'
      BY <2>3, <1>1, <1>5 DEF Nowhere, NoRunner, Loaded
    <3>2. \A u \in Threads : node'[u] = e <=> u = t
      BY <2>2, <2>3 DEF NoHand
    <3> QED BY <3>1, <3>2, TellsNext
  <2>5. \A x \in Elems \ {e} : SameOf(x)
    <3> TAKE x \in Elems \ {e}
    <3>1. \A u \in Threads : node'[u] = x <=> node[u] = x
      BY <2>2, <1>9, ThreadKinds
    <3> QED BY <3>1, <1>1, <1>5 DEF SameOf, Loaded
  <2>6. Moved(e, Hand(t))
    BY <2>1, <2>4, <2>5, PlacesAre DEF Moved
  <2>7. Placed(l)'
    BY <2>6, MovedIsPlaced DEF Located
  <2>8. loc \in [Elems -> Places]
    BY DEF Located, Placed
  <2>9. StackOf(l) = StackOf(loc) \ {e}
    BY <2>1, <2>8, PlacesDiffer DEF StackOf
  <2>10. Chain(StackOf(loc) \ {e}, r, n - 1, next[e], next)
    <3>1. Chain(StackOf(loc), r, n, e, next) /\ e # Nil
      BY <2>1, ThreadKinds DEF Located
    <3> QED BY <3>1, ChainPop
  <2> HIDE DEF l
  <2>11. Chain(StackOf(l), r, n - 1, head, next)'
    <3>1. Chain(StackOf(l), r, n - 1, head', next')
      BY <1>1, <2>1, <2>9, <2>10
    <3> QED BY <3>1 DEF Chain, StackOf
  <2>12. Located(l, r, n - 1)'
    BY <2>7, <2>11, <1>6, <1>7 DEF Located
  <2> QED BY <2>12, Zenon DEF Relocated
<1> QED BY <1>10, <1>11

\* The tick starts the walk at the head, with fewer nodes to remove than there are.
LEMMA TickKeeps ==
    ASSUME Types, HandsFit, MutexHeld, CountFits, NEW loc, NEW r, NEW n, Located(loc, r, n), Tick
    PROVE  Relocated
<1> SUFFICES Located(loc, r, n)'
  BY Zenon DEF Relocated
<1>1. /\ UNCHANGED <<head, next, cache, ch, node, seen, at>> /\ pc[Reaper] = "free" /\ pc'[Reaper] = "prune"
      /\ \A t \in Threads : t # Reaper => pc'[t] = pc[t]
      /\ walk' = [NoWalk EXCEPT !.e = head, !.left = Len(From(head)) - numMinIdleWorkers]
  BY ThreadKinds DEF Tick, Goto, At, Types, PcType
<1>2. walk'.e = head /\ walk'.prev = Nil /\ walk'.dropped = {} /\ walk'.left = Len(From(head)) - numMinIdleWorkers
  BY <1>1 DEF NoWalk
<1>3. walk.dropped = {}
  BY <1>1 DEF HandsFit
<1>4. numMinIdleWorkers \in Nat \ {0}
  BY MinIdle DEF Types
<1>5. Len(From(head)) = n /\ n \in Nat
  BY StackFacts
<1>6. \A x \in Elems : SameOf(x)
  BY <1>1, <1>2, <1>3, ThreadKinds DEF SameOf, Owns, Loaded
<1>7. Placed(loc)'
  <2>1. loc \in [Elems -> Places] /\ \A x \in Elems : TellsOf(x, loc[x])
    BY PlacedIs DEF Located
  <2>2. \A x \in Elems : TellsOf(x, loc[x])'
    BY <2>1, <1>6, SameTells
  <2> QED BY <2>1, <2>2, PlacedNextIs
<1>8. Chain(StackOf(loc), r, n, head, next)'
  BY <1>1 DEF Located, Chain, StackOf
<1>9. SeenStands(loc)'
  BY <1>1, ThreadKinds DEF Located, SeenStands
<1>10. head # Nil => loc[head] = Stacked /\ r[head] = n
  BY DEF Located, Chain, StackOf
<1>11. WalkStands(loc, r)'
  <2>1. walk'.e # Nil => r[walk'.e] > walk'.left
    BY <1>2, <1>4, <1>5, <1>10
  <2> QED BY <2>1, <1>1, <1>2, <1>10 DEF WalkStands
<1> QED BY <1>7, <1>8, <1>9, <1>11 DEF Located

\* Under the remover's mutex nobody relies on a head it loaded.
Reaping == /\ pc[Reaper] \in {"prune", "relink"} /\ pc'[Reaper] \in {"prune", "relink"}
           /\ \A t \in Threads : t # Reaper => pc'[t] = pc[t]
           /\ UNCHANGED <<cache, ch, node, seen, at>>

\* While the reaper has popMx no PopBack is between its load and its swap.
LEMMA ReapingSees ==
    ASSUME MutexHeld, Reaping, NEW l
    PROVE  SeenStands(l)'
BY ThreadKinds DEF MutexHeld, Reaping, SeenStands

\* Prune takes a node of the stack off its list.
LEMMA DropMoves ==
    ASSUME Types, HandsFit, MutexHeld, CountFits, NEW loc, NEW r, NEW n, Located(loc, r, n),
           Reaping, NEW e \in StackOf(loc), walk'.dropped = walk.dropped \cup {e}
    PROVE  /\ Placed([loc EXCEPT ![e] = Pruned])'
           /\ StackOf([loc EXCEPT ![e] = Pruned]) = StackOf(loc) \ {e}
<1>1. e \in Elems /\ loc[e] = Stacked
  BY InStackOf
<1>2. Nowhere(e) /\ NoHand(e) /\ NoRunner(e)
  BY <1>1, OnlyThere DEF Located
<1>3. \A g \in Goroutines : \A x : Owns(g, x)' <=> Owns(g, x)
  BY ThreadKinds DEF Owns, Reaping
<1>4. TellsOf(e, Pruned)'
  <2>1. NoHand(e)' /\ NoRunner(e)'
    BY <1>2, <1>3 DEF NoHand, NoRunner, Reaping
  <2>2. (e \notin cache /\ e \in walk.dropped /\ ~Loaded(e))'
    BY <1>2 DEF Nowhere, Loaded, Reaping
  <2> QED BY <2>1, <2>2, TellsNext
<1>5. \A x \in Elems \ {e} : SameOf(x)
  BY <1>3 DEF SameOf, Loaded, Reaping
<1>6. Moved(e, Pruned)
  BY <1>1, <1>4, <1>5, PlacesAre DEF Moved
<1>7. loc \in [Elems -> Places]
  BY DEF Located, Placed
<1>8. StackOf([loc EXCEPT ![e] = Pruned]) = StackOf(loc) \ {e}
  BY <1>1, <1>7, PlacesDiffer DEF StackOf
<1> QED BY <1>6, <1>8, MovedIsPlaced DEF Located

\* ... from below p,
LEMMA DropBelow ==
    ASSUME Types, HandsFit, MutexHeld, CountFits, NEW loc, NEW r, NEW n, Located(loc, r, n),
           Reaping, NEW e, e = walk.e, e \in StackOf(loc), NEW p \in StackOf(loc), next[p] = e,
           head' = head, next' = [next EXCEPT ![p] = next[e]],
           walk'.e = next[e], walk'.prev = p, walk'.left = walk.left - 1, walk'.dropped = walk.dropped \cup {e},
           walk.left > 0, pc'[Reaper] = "prune"
    PROVE  Relocated
<1> DEFINE l == [loc EXCEPT ![e] = Pruned]
           q == Without(r, StackOf(loc), e)
           S == StackOf(loc)
<1>1. Placed(l)' /\ StackOf(l) = S \ {e}
  BY DropMoves
<1>2. Chain(S, r, n, head, next) /\ next \in [Elems -> Elems \cup {Nil}]
  BY DEF Located, Types, StackType
<1>3. Chain(S \ {e}, q, n - 1, head, [next EXCEPT ![p] = next[e]])
  BY <1>2, ChainDrop
<1>4. /\ r \in [Elems -> Nat] /\ S \in SUBSET Elems /\ n \in Nat
      /\ \A x \in S : r[x] \in 1..n
      /\ \A x \in S : IF r[x] = 1 THEN next[x] = Nil ELSE next[x] \in S /\ r[next[x]] = r[x] - 1
  BY <1>2 DEF Chain
<1>5. r[e] > walk.left /\ walk.left \in Int
  BY InStackOf, ThreadKinds DEF Located, WalkStands, Reaping, Types, WalkType
<1>6. next[e] # Nil => next[e] \in S \ {e} /\ r[next[e]] = r[e] - 1
  BY <1>4
<1>7. next[e] # Nil => q[next[e]] = r[e] - 1
  BY <1>4, <1>6 DEF Without
<1>8. p # e /\ p \in S \ {e}
  BY <1>4, ThreadKinds
<1>9. next'[p] = next[e]
  BY <1>2, <1>4
<1> HIDE DEF l, q, S
<1>10. Chain(StackOf(l), q, n - 1, head, next)'
  <2>1. Chain(StackOf(l), q, n - 1, head', next')
    BY <1>1, <1>3
  <2> QED BY <2>1 DEF Chain, StackOf
<1>11. next[e] # Nil => l[next[e]] = Stacked
  BY <1>1, <1>6, InStackOf
<1>12. l[p] = Stacked
  BY <1>1, <1>8, InStackOf
<1>13. next[e] # Nil => q[next[e]] > walk.left - 1
  BY <1>4, <1>5, <1>7 DEF S
<1>14. WalkStands(l, q)'
  BY <1>9, <1>11, <1>12, <1>13 DEF WalkStands
<1>15. SeenStands(l)'
  BY ReapingSees
<1>16. Located(l, q, n - 1)'
  BY <1>1, <1>10, <1>14, <1>15 DEF Located
<1> QED BY <1>16, Zenon DEF Relocated

\* ... or from the head.
LEMMA DropHead ==
    ASSUME Types, HandsFit, MutexHeld, CountFits, NEW loc, NEW r, NEW n, Located(loc, r, n),
           Reaping, NEW e, e = walk.e, e \in StackOf(loc), head = e, head' = next[e], next' = next,
           walk'.e = next[e], walk'.prev = Nil, walk'.left = walk.left - 1, walk'.dropped = walk.dropped \cup {e},
           walk.left > 0, pc'[Reaper] = "prune"
    PROVE  Relocated
<1> DEFINE l == [loc EXCEPT ![e] = Pruned]
           S == StackOf(loc)
<1>1. Placed(l)' /\ StackOf(l) = S \ {e}
  BY DropMoves
<1>2. Chain(S, r, n, head, next) /\ head # Nil
  BY InStackOf, ThreadKinds DEF Located
<1>3. Chain(S \ {head}, r, n - 1, next[head], next)
  BY <1>2, ChainPop
<1>4. /\ r \in [Elems -> Nat] /\ S \in SUBSET Elems /\ n \in Nat
      /\ \A x \in S : r[x] \in 1..n
      /\ \A x \in S : IF r[x] = 1 THEN next[x] = Nil ELSE next[x] \in S /\ r[next[x]] = r[x] - 1
  BY <1>2 DEF Chain
<1>5. r[e] > walk.left /\ walk.left \in Int
  BY InStackOf, ThreadKinds DEF Located, WalkStands, Reaping, Types, WalkType
<1>6. next[e] # Nil => next[e] \in S \ {e} /\ r[next[e]] = r[e] - 1
  BY <1>4
<1> HIDE DEF l, S
<1>7. Chain(StackOf(l), r, n - 1, head, next)'
  <2>1. Chain(StackOf(l), r, n - 1, head', next')
    BY <1>1, <1>3
  <2> QED BY <2>1 DEF Chain, StackOf
<1>8. next[e] # Nil => l[next[e]] = Stacked
  BY <1>1, <1>6, InStackOf
<1>9. next[e] # Nil => r[next[e]] > walk.left - 1
  BY <1>4, <1>5, <1>6 DEF S
<1>10. WalkStands(l, r)'
  BY <1>8, <1>9 DEF WalkStands
<1>11. SeenStands(l)'
  BY ReapingSees
<1>12. Located(l, r, n - 1)'
  BY <1>1, <1>7, <1>10, <1>11 DEF Located
<1> QED BY <1>12, Zenon DEF Relocated

\* The walk after Prune removed its node, field by field.
LEMMA DroppedIs ==
    ASSUME WalkType
    PROVE  /\ Dropped(walk).e = next[walk.e] /\ Dropped(walk).prev = walk.prev
           /\ Dropped(walk).left = walk.left - 1 /\ Dropped(walk).dropped = walk.dropped \cup {walk.e}
BY DEF Dropped, WalkType

\* Prune takes nodes of the list only, and walks on along it.
LEMMA PruneKeeps ==
    ASSUME Types, HandsFit, MutexHeld, CountFits, NEW loc, NEW r, NEW n, Located(loc, r, n), Prune
    PROVE  Relocated
<1> SUFFICES ASSUME NEW e, e = walk.e PROVE Relocated
  OBVIOUS
<1>1. /\ pc[Reaper] = "prune" /\ e # Nil /\ walk.left > 0 /\ UNCHANGED <<cache, ch, node, seen, at>>
      /\ pc'[Reaper] \in {"prune", "relink"} /\ \A t \in Threads : t # Reaper => pc'[t] = pc[t]
  BY ThreadKinds DEF Prune, Goto, At, Types, PcType
<1>2. Reaping
  BY <1>1 DEF Reaping
<1>3. e \in StackOf(loc) /\ e \in Elems /\ loc[e] = Stacked
  BY <1>1, InStackOf DEF Located, WalkStands, Types, WalkType
<1>4. walk.prev # Nil => walk.prev \in StackOf(loc) /\ next[walk.prev] = e
  BY <1>1, InStackOf DEF Located, WalkStands, Types, WalkType
<1>5. WalkType
  BY DEF Types
<1>6. CASE /\ walk' = [walk EXCEPT !.e = next[walk.e], !.left = @ - 1, !.prev = walk.e]
           /\ UNCHANGED <<head, next, len, pc>>
  <2>1. walk'.e = next[e] /\ walk'.left = walk.left - 1 /\ walk'.prev = e /\ walk'.dropped = walk.dropped
    BY <1>5, <1>6 DEF WalkType
  <2>2. \A x \in Elems : SameOf(x)
    BY <1>1, <1>6, <2>1 DEF SameOf, Owns, Loaded
  <2>3. Placed(loc)'
    <3>1. loc \in [Elems -> Places] /\ \A x \in Elems : TellsOf(x, loc[x])
      BY PlacedIs DEF Located
    <3>2. \A x \in Elems : TellsOf(x, loc[x])'
      BY <3>1, <2>2, SameTells
    <3> QED BY <3>1, <3>2, PlacedNextIs
  <2>4. Chain(StackOf(loc), r, n, head, next)
    BY DEF Located
  <2>5. Chain(StackOf(loc), r, n, head, next)'
    BY <1>6, <2>4 DEF Chain, StackOf
  <2>6. next[e] # Nil => next[e] \in StackOf(loc) /\ r[next[e]] = r[e] - 1
    BY <1>3, <2>4 DEF Chain
  <2>7. r[e] > walk.left /\ r[e] \in Nat /\ walk.left \in Int
    <3>1. r[e] \in Nat
      BY <1>3, <2>4 DEF Chain
    <3> QED BY <3>1, <1>1, <1>5 DEF Located, WalkStands, WalkType
  <2>8. next[e] # Nil => loc[next[e]] = Stacked /\ r[next[e]] > walk.left - 1
    BY <2>6, <2>7, InStackOf
  <2>9. WalkStands(loc, r)'
    BY <1>1, <1>3, <1>6, <2>1, <2>8 DEF WalkStands
  <2>10. SeenStands(loc)'
    BY <1>2, ReapingSees
  <2>11. Located(loc, r, n)'
    BY <2>3, <2>5, <2>9, <2>10 DEF Located
  <2> QED BY <2>11, Zenon DEF Relocated
<1>7. CASE /\ walk.prev # Nil
           /\ next' = [next EXCEPT ![walk.prev] = next[walk.e]] /\ len' = len - 1
           /\ walk' = Dropped(walk) /\ UNCHANGED <<head, pc>>
  <2> SUFFICES ASSUME NEW p, p = walk.prev PROVE Relocated
    OBVIOUS
  <2>1. walk'.e = next[e] /\ walk'.left = walk.left - 1 /\ walk'.prev = p /\ walk'.dropped = walk.dropped \cup {e}
    BY <1>5, <1>7, DroppedIs
  <2>2. p \in StackOf(loc) /\ next[p] = e /\ next' = [next EXCEPT ![p] = next[e]] /\ head' = head /\ pc'[Reaper] = "prune"
    BY <1>1, <1>4, <1>7
  <2> QED BY <1>1, <1>2, <1>3, <2>1, <2>2, DropBelow
<1>8. CASE /\ walk.prev = Nil /\ head = walk.e
           /\ head' = next[walk.e] /\ len' = len - 1
           /\ walk' = Dropped(walk) /\ UNCHANGED <<next, pc>>
  <2>1. walk'.e = next[e] /\ walk'.left = walk.left - 1 /\ walk'.prev = Nil /\ walk'.dropped = walk.dropped \cup {e}
    BY <1>5, <1>8, DroppedIs
  <2>2. head = e /\ head' = next[e] /\ next' = next /\ pc'[Reaper] = "prune"
    BY <1>1, <1>8
  <2> QED BY <1>1, <1>2, <1>3, <2>1, <2>2, DropHead
<1>9. CASE /\ walk.prev = Nil /\ head # walk.e
           /\ Goto(Reaper, "relink") /\ UNCHANGED <<head, next, len, walk>>
  <2>1. pc'[Reaper] = "relink"
    BY <1>9, ThreadKinds DEF Goto, Types, PcType
  <2>2. \A x \in Elems : SameOf(x)
    BY <1>1, <1>9, ThreadKinds DEF SameOf, Owns, Loaded
  <2>3. Placed(loc)'
    <3>1. loc \in [Elems -> Places] /\ \A x \in Elems : TellsOf(x, loc[x])
      BY PlacedIs DEF Located
    <3>2. \A x \in Elems : TellsOf(x, loc[x])'
      BY <3>1, <2>2, SameTells
    <3> QED BY <3>1, <3>2, PlacedNextIs
  <2>4. Chain(StackOf(loc), r, n, head, next)'
    BY <1>9 DEF Located, Chain, StackOf
  <2>5. WalkStands(loc, r)'
    BY <1>1, <1>9, <2>1 DEF Located, WalkStands
  <2>6. SeenStands(loc)'
    BY <1>2, ReapingSees
  <2>7. Located(loc, r, n)'
    BY <2>3, <2>4, <2>5, <2>6 DEF Located
  <2> QED BY <2>7, Zenon DEF Relocated
<1> QED BY <1>6, <1>7, <1>8, <1>9 DEF Prune

\* Relink does what Prune could not do at the head.
LEMMA RelinkKeeps ==
    ASSUME Types, HandsFit, MutexHeld, CountFits, NEW loc, NEW r, NEW n, Located(loc, r, n), Relink
    PROVE  Relocated
<1> SUFFICES ASSUME NEW e, e = walk.e, NEW p, p = Above(walk.e) PROVE Relocated
  OBVIOUS
<1>1. /\ pc[Reaper] = "relink" /\ UNCHANGED <<cache, ch, node, seen, at>> /\ head' = head
      /\ pc'[Reaper] = "prune" /\ \A t \in Threads : t # Reaper => pc'[t] = pc[t]
      /\ next' = [next EXCEPT ![p] = next[e]] /\ walk' = [Dropped(walk) EXCEPT !.prev = p]
  BY ThreadKinds DEF Relink, Goto, At, Types, PcType
<1>2. WalkType
  BY DEF Types
<1>3. e \in StackOf(loc) /\ p \in StackOf(loc) /\ next[p] = e
  BY <1>1, <1>2, AboveFound
<1>4. walk.left > 0
  BY <1>1 DEF Located, WalkStands
<1>5. walk'.e = next[e] /\ walk'.left = walk.left - 1 /\ walk'.prev = p /\ walk'.dropped = walk.dropped \cup {e}
  BY <1>1, <1>2 DEF Dropped, WalkType
<1>6. Reaping
  BY <1>1 DEF Reaping
<1> QED BY <1>1, <1>3, <1>4, <1>5, <1>6, DropBelow

\* Every step leaves each node in one place, and the stack a list.
LEMMA LocatedKept ==
    ASSUME Types, HandsFit, MutexHeld, CountFits, NEW loc, NEW r, NEW n, Located(loc, r, n),
           [Next]_vars
    PROVE  Relocated
<1>1. ASSUME Calm PROVE Relocated
  <2>1. Located(loc, r, n)'
    BY <1>1, CalmStep DEF Calm
  <2> QED BY <2>1, Zenon DEF Relocated
<1>2. ASSUME NEW e, NEW p, OffStack(loc, e, p) PROVE Relocated
  <2>1. Located([loc EXCEPT ![e] = p], r, n)'
    BY <1>2, MoveOff DEF OffStack, Types
  <2> QED BY <2>1, Zenon DEF Relocated
<1>3. Placed(loc)
  BY DEF Located
<1>4. ASSUME NEW t \in Threads, StackStep(t) PROVE Relocated
  <2>1. PushCount(t) \/ PopCount(t) => Calm
    BY CalmActions
  <2> QED BY <2>1, <1>1, <1>4, PushLoadKeeps, PushCasKeeps, PopLoadKeeps, PopCasKeeps DEF StackStep
<1>5. CASE PlanNode
  <2>1. /\ UNCHANGED <<head, next, ch, seen, walk>> /\ pc[Loop] = "popped"
    BY <1>5 DEF PlanNode, stack, At
  <2>2. CASE UNCHANGED <<cache, node, at>> /\ \E s \in {"reserve", "select"} : Goto(Loop, s)
    <3>1. pc'[Loop] \in {"reserve", "select"} /\ \A t \in Threads : t # Loop => pc'[t] = pc[t]
      BY <2>2, ThreadKinds DEF Goto, Types, PcType
    <3>2. Calm
      BY <2>1, <2>2, <3>1, ThreadKinds DEF Calm, SameOf, Steady, Owns, Loaded
    <3> QED BY <3>2, <1>1
  <2>3. ASSUME NEW e \in cache, NEW g \in Goroutines, initPoolNode(Loop, e, g), node[Loop] = Nil,
               pc' = [pc EXCEPT ![Loop] = "reserve", ![g] = "serve"]
        PROVE  Relocated
    <3>1. /\ pc'[Loop] = "reserve" /\ pc'[g] = "serve"
          /\ \A u \in Threads : u = Loop \/ u = g \/ pc'[u] = pc[u]
      BY <2>3, ThreadKinds DEF Types, PcType
    <3>2. OffStack(loc, e, Hand(Loop))
      BY <2>1, <2>3, <3>1, <1>3, InitMoves, ThreadKinds
    <3> QED BY <3>2, <1>2
  <2> QED BY <1>5, <2>2, <2>3 DEF PlanNode
<1>6. CASE Send
  <2> SUFFICES ASSUME NEW e, e = node[Loop] PROVE Relocated
    OBVIOUS
  <2>1. OffStack(loc, e, Sent)
    BY <1>3, <1>6, SendMoves
  <2> QED BY <2>1, <1>2
<1>7. CASE RemoveAll
  <2> SUFFICES ASSUME NEW e, e = node[Loop] PROVE Relocated
    OBVIOUS
  <2>1. /\ UNCHANGED <<head, next, seen, at, walk>> /\ pc[Loop] = "popped"
        /\ pc'[Loop] \in {"over", "pop"} /\ \A u \in Threads : u # Loop => pc'[u] = pc[u]
    BY <1>7, ThreadKinds DEF RemoveAll, stack, At, Goto, Types, PcType
  <2>2. CASE node[Loop] = Nil
    <3>1. UNCHANGED <<cache, ch, node>>
      BY <1>7, <2>2 DEF RemoveAll
    <3>2. Calm
      BY <2>1, <3>1, ThreadKinds DEF Calm, SameOf, Steady, Owns, Loaded
    <3> QED BY <3>2, <1>1
  <2>3. CASE node[Loop] # Nil
    <3>1. StopAndPut(node[Loop]) /\ Hold(Loop, Nil) /\ pc'[Loop] = "pop"
      BY <1>7, <2>3, ThreadKinds DEF RemoveAll, Goto, Types, PcType
    <3>2. OffStack(loc, e, Cached)
      BY <1>3, <2>1, <2>3, <3>1, PutMoves, ThreadKinds
    <3> QED BY <3>2, <1>2
  <2> QED BY <2>2, <2>3
<1>8. CASE LoopStep
  BY <1>1, <1>5, <1>6, <1>7, <1>8, CalmActions DEF LoopStep
<1>9. ASSUME NEW g \in Goroutines, GoStep(g) PROVE Relocated
  <2> SUFFICES ASSUME NEW e, e = at[g] PROVE Relocated
    OBVIOUS
  <2>1. CASE Serve(g)
    BY <1>1, <1>2, <1>3, <2>1, ServeMoves
  <2>2. CASE freePoolNode(g)
    BY <1>2, <1>3, <2>2, FreeMoves
  <2> QED BY <1>1, <1>9, <2>1, <2>2, CalmActions DEF GoStep
<1>10. CASE Expire
  <2>1. CASE (\A e \in Elems : SameOf(e)) /\ pc'[Reaper] = "free"
    <3>1. /\ UNCHANGED <<head, next, seen>> /\ \A t \in Threads : t # Reaper => pc'[t] = pc[t]
      BY <1>10, ThreadKinds DEF Expire, stack, Goto, Types, PcType
    <3>2. Placed(loc)'
      <4>1. loc \in [Elems -> Places] /\ \A x \in Elems : TellsOf(x, loc[x])
        BY PlacedIs DEF Located
      <4>2. \A x \in Elems : TellsOf(x, loc[x])'
        BY <4>1, <2>1, SameTells
      <4> QED BY <4>1, <4>2, PlacedNextIs
    <3>3. Chain(StackOf(loc), r, n, head, next)'
      BY <3>1 DEF Located, Chain, StackOf
    <3>4. SeenStands(loc)'
      BY <2>1, <3>1, ThreadKinds DEF Located, SeenStands
    <3>5. WalkStands(loc, r)'
      BY <2>1 DEF WalkStands
    <3>6. Located(loc, r, n)'
      BY <3>2, <3>3, <3>4, <3>5 DEF Located
    <3> QED BY <3>6, Zenon DEF Relocated
  <2> QED BY <1>2, <1>3, <1>10, <2>1, ExpireMoves
<1>11. CASE ReapStep \/ Tick
  BY <1>1, <1>10, <1>11, PruneKeeps, RelinkKeeps, TickKeeps, CalmActions DEF ReapStep
<1>12. ASSUME NEW c \in Callers, TuneNode(c) PROVE Relocated
  <2> SUFFICES ASSUME NEW e, e = node[c] PROVE Relocated
    OBVIOUS
  <2>1. /\ UNCHANGED <<head, next, seen, at, walk>> /\ pc[c] = "popped" /\ Hold(c, Nil)
        /\ pc'[c] \in {"free", "tune"} /\ \A u \in Threads : u # c => pc'[u] = pc[u]
    BY <1>12, ThreadKinds DEF TuneNode, stack, At, Goto, Types, PcType
  <2>2. CASE node[c] = Nil
    <3>1. UNCHANGED <<cache, ch, node>>
      BY <1>12, <2>1, <2>2, ThreadKinds DEF TuneNode, Hold, Types, HandType
    <3>2. Calm
      BY <2>1, <3>1, ThreadKinds DEF Calm, SameOf, Steady, Owns, Loaded
    <3> QED BY <3>2, <1>1
  <2>3. CASE node[c] # Nil
    <3>1. StopAndPut(node[c]) /\ pc'[c] = "tune"
      BY <1>12, <2>3, ThreadKinds DEF TuneNode, Goto, Types, PcType
    <3>2. OffStack(loc, e, Cached)
      BY <1>3, <2>1, <2>3, <3>1, PutMoves, ThreadKinds
    <3> QED BY <3>2, <1>2
  <2> QED BY <2>2, <2>3
<1>13. ASSUME NEW c \in Callers, Start(c) PROVE Relocated
  <2>1. PICK e \in cache, g \in Goroutines :
          /\ initPoolNode(c, e, g)
          /\ pc' = [pc EXCEPT ![c] = "push", ![g] = "serve", ![Loop] = "select"]
    BY <1>13 DEF Start
  <2>2. UNCHANGED <<head, next, seen, ch, walk>> /\ pc[c] = "free"
    BY <1>13 DEF Start, stack, At
  <2>3. node[c] = Nil
    BY <2>2, ThreadKinds DEF HandsFit, HoldSteps, PushSteps
  <2>4. /\ pc'[c] = "push" /\ pc'[g] = "serve"
        /\ \A u \in Threads : u = c \/ u = g \/ pc'[u] = pc[u] \/ (u = Loop /\ pc'[u] = "select")
    BY <2>1, ThreadKinds DEF Types, PcType
  <2>5. OffStack(loc, e, Hand(c))
    BY <1>3, <2>1, <2>2, <2>3, <2>4, InitMoves, ThreadKinds
  <2> QED BY <2>5, <1>2
<1>14. ASSUME NEW c \in Callers, CallStep(c) \/ StopWorker(c) \/ \E m \in Limits : TunePool(c, m)
       PROVE  Relocated
  BY <1>1, <1>12, <1>13, <1>14, CalmActions DEF CallStep
<1>15. CASE Add \/ Purge
  BY <1>1, <1>15, CalmActions
<1>16. CASE UNCHANGED vars
  <2>1. Calm
    BY <1>16 DEF vars, stack, hands, bounds, Calm, SameOf, Steady, Owns, Loaded
  <2> QED BY <2>1, <1>1
<1> QED BY <1>4, <1>8, <1>9, <1>11, <1>14, <1>15, <1>16 DEF Next

-----------------------------------------------------------------------------
(* Who serves a node *)

\* A node has finitely many servers.
LEMMA ServersFinite ==
    ASSUME NEW e
    PROVE  /\ IsFiniteSet(Servers(e)) /\ Cardinality(Servers(e)) \in Nat
           /\ IsFiniteSet(Servers(e))' /\ Cardinality(Servers(e))' \in Nat
<1>1. IsFiniteSet(Goroutines)
  BY PoolAssumption
<1>2. Servers(e) \subseteq Goroutines /\ Servers(e)' \subseteq Goroutines
  BY DEF Servers
<1>3. IsFiniteSet(Servers(e)) /\ IsFiniteSet(Servers(e)')
  BY <1>1, <1>2, FS_Subset, Zenon
<1> QED BY <1>3, FS_CardinalityType, Zenon

\* How many goroutines a node is to have.
Due(e) == (IF e \in cache THEN 0 ELSE 1) + (IF ch[e] = <<Stop>> THEN 1 ELSE 0)

\* OneServes, node by node.
LEMMA OneServesIs ==
    /\ OneServes <=> \A e \in Elems : Cardinality(Servers(e)) = Due(e)
    /\ OneServes' <=> \A e \in Elems : Cardinality(Servers(e))' = Due(e)'
BY Zenon DEF OneServes, Due

\* A node that is stopped and cached leaves its goroutine the Stop.
LEMMA PutServes ==
    ASSUME Types, OneServes, NEW x \in Elems, x \notin cache, StopAndPut(x), UNCHANGED at
    PROVE  OneServes'
<1>1. ASSUME NEW e \in Elems PROVE Cardinality(Servers(e))' = Due(e)'
  <2>1. Servers(e)' = Servers(e)
    BY DEF Servers
  <2>2. Due(e)' = Due(e)
    BY DEF Due, StopAndPut, Types, ChType
  <2> QED BY <2>1, <2>2, OneServesIs, Zenon
<1> QED BY <1>1, OneServesIs, Zenon

\* A node out of the cache gets a goroutine of its own.
LEMMA InitServes ==
    ASSUME Types, HandsFit, OneServes, NEW t \in Threads, NEW x, NEW g \in Goroutines,
           initPoolNode(t, x, g),
           UNCHANGED ch
    PROVE  OneServes'
<1>1. /\ x \in Elems /\ x \in cache /\ cache' = cache \ {x} /\ at' = [at EXCEPT ![g] = x]
      /\ at \in [Goroutines -> Elems \cup {Nil}] /\ at[g] = Nil /\ Nil \notin Elems
  BY PoolAssumption DEF initPoolNode, At, Types, StackType, HandType, HandsFit
<1>2. ASSUME NEW e \in Elems PROVE Cardinality(Servers(e))' = Due(e)'
  <2>1. CASE e = x
    <3>1. Servers(e)' = Servers(e) \cup {g} /\ g \notin Servers(e)
      BY <1>1, <2>1 DEF Servers
    <3>2. Cardinality(Servers(e)') = Cardinality(Servers(e)) + 1
      BY <3>1, ServersFinite, FS_AddElement, Zenon
    <3>3. Due(e) \in Nat /\ Due(e)' = Due(e) + 1
      BY <1>1, <2>1 DEF Due
    <3> QED BY <3>2, <3>3, OneServesIs
  <2>2. CASE e # x
    <3>1. Servers(e)' = Servers(e)
      BY <1>1, <2>2 DEF Servers
    <3>2. Due(e)' = Due(e)
      BY <1>1, <2>2 DEF Due
    <3> QED BY <3>1, <3>2, OneServesIs, Zenon
  <2> QED BY <2>1, <2>2
<1> QED BY <1>2, OneServesIs, Zenon

\* A goroutine that takes a Stop ends, and the Stop is gone.
LEMMA ServeServes ==
    ASSUME Types, HandsFit, OneServes, NEW g \in Goroutines, Serve(g)
    PROVE  OneServes'
<1> SUFFICES ASSUME NEW x, x = at[g], NEW e \in Elems PROVE Cardinality(Servers(e))' = Due(e)'
  BY OneServesIs, Zenon
<1>1. /\ x \in Elems /\ cache' = cache /\ ch' = [ch EXCEPT ![x] = <<>>] /\ ch \in [Elems -> Payloads]
      /\ at \in [Goroutines -> Elems \cup {Nil}] /\ Nil \notin Elems /\ ch[x] # <<>>
      /\ IF ch[x] = <<Stop>> THEN at' = [at EXCEPT ![g] = Nil] ELSE at' = at
  BY PoolAssumption, ThreadKinds DEF Serve, At, Types, StackType, HandType, HandsFit, ChType
<1>2. CASE e = x /\ ch[x] = <<Stop>>
  <2>1. Servers(e)' = Servers(e) \ {g} /\ g \in Servers(e)
    BY <1>1, <1>2 DEF Servers
  <2>2. Cardinality(Servers(e)') = Cardinality(Servers(e)) - 1
    BY <2>1, ServersFinite, FS_RemoveElement, Zenon
  <2>3. Due(e) \in Nat /\ Due(e)' = Due(e) - 1
    BY <1>1, <1>2 DEF Due
  <2> QED BY <2>2, <2>3, OneServesIs
<1>3. CASE ~(e = x /\ ch[x] = <<Stop>>)
  <2>1. Servers(e)' = Servers(e)
    BY <1>1, <1>3 DEF Servers
  <2>2. Due(e)' = Due(e)
    BY <1>1, <1>3 DEF Due
  <2> QED BY <2>1, <2>2, OneServesIs, Zenon
<1> QED BY <1>2, <1>3

\* A batch or a Stop in the channel changes nothing about who serves the node.
LEMMA SendServes ==
    ASSUME Types, HandsFit, CountFits, OneServes, Send
    PROVE  OneServes'
<1> SUFFICES ASSUME NEW x, x = node[Loop], NEW e \in Elems PROVE Cardinality(Servers(e))' = Due(e)'
  BY OneServesIs, Zenon
<1>1. /\ x \in Elems /\ cache' = cache /\ ch' = [ch EXCEPT ![x] = <<count[Loop]>>] /\ ch \in [Elems -> Payloads]
      /\ ch[x] = <<>> /\ at' = at /\ count[Loop] # Stop
  BY ThreadKinds DEF Send, Types, HandType, HandsFit, HoldSteps, ChType, CountFits, LoopCounts, Stop
<1>2. <<count[Loop]>> # <<Stop>>
  BY <1>1
<1>3. Servers(e)' = Servers(e)
  BY <1>1 DEF Servers
<1>4. Due(e)' = Due(e)
  BY <1>1, <1>2 DEF Due
<1> QED BY <1>3, <1>4, OneServesIs, Zenon

\* Every step leaves a node in use its goroutine, and a node out of use none that stays.
LEMMA OneServesKept ==
    ASSUME Types, HandsFit, CountFits, NEW loc, Placed(loc), OneServes, [Next]_vars
    PROVE  OneServes'
<1>1. ASSUME UNCHANGED <<cache, ch, at>> PROVE OneServes'
  BY <1>1, Zenon DEF OneServes, Servers
<1>2. CASE PlanNode
  <2>1. UNCHANGED ch
    BY <1>2 DEF PlanNode
  <2>2. CASE UNCHANGED <<cache, at>>
    BY <1>1, <2>1, <2>2
  <2>3. ASSUME NEW x \in cache, NEW g \in Goroutines, initPoolNode(Loop, x, g) PROVE OneServes'
    BY <2>1, <2>3, InitServes, ThreadKinds
  <2> QED BY <1>2, <2>2, <2>3 DEF PlanNode
<1>3. CASE RemoveAll
  <2> SUFFICES ASSUME NEW x, x = node[Loop] PROVE OneServes'
    OBVIOUS
  <2>1. UNCHANGED at
    BY <1>3 DEF RemoveAll
  <2>2. CASE UNCHANGED <<cache, ch>>
    BY <1>1, <2>1, <2>2
  <2>3. CASE x # Nil /\ StopAndPut(x)
    <3>1. x \in Elems /\ x \notin cache
      BY <2>3, OnlyThere, ThreadKinds DEF Types, HandType, Nowhere
    <3> QED BY <2>1, <2>3, <3>1, PutServes
  <2> QED BY <1>3, <2>2, <2>3 DEF RemoveAll
<1>4. CASE Expire
  <2>1. UNCHANGED at
    BY <1>4 DEF Expire
  <2>2. CASE UNCHANGED <<cache, ch>>
    BY <1>1, <2>1, <2>2
  <2>3. ASSUME NEW x \in walk.dropped, StopAndPut(x) PROVE OneServes'
    <3>1. x \in Elems /\ x \notin cache
      BY <2>3, OnlyThere DEF Types, WalkType
    <3> QED BY <2>1, <2>3, <3>1, PutServes
  <2> QED BY <1>4, <2>2, <2>3 DEF Expire
<1>5. ASSUME NEW g \in Goroutines, freePoolNode(g) PROVE OneServes'
  <2> SUFFICES ASSUME NEW x, x = at[g] PROVE OneServes'
    OBVIOUS
  <2>1. UNCHANGED at /\ x \in Elems /\ Owns(g, x)
    BY <1>5, ThreadKinds DEF freePoolNode, At, HandsFit, Types, HandType, Owns
  <2>2. CASE UNCHANGED <<cache, ch>>
    BY <1>1, <2>1, <2>2
  <2>3. CASE StopAndPut(x)
    <3>1. x \notin cache
      BY <2>1, OnlyThere DEF Nowhere
    <3> QED BY <2>1, <2>3, <3>1, PutServes
  <2> QED BY <1>5, <2>2, <2>3 DEF freePoolNode
<1>6. ASSUME NEW c \in Callers, TuneNode(c) PROVE OneServes'
  <2> SUFFICES ASSUME NEW x, x = node[c] PROVE OneServes'
    OBVIOUS
  <2>1. UNCHANGED at
    BY <1>6 DEF TuneNode
  <2>2. CASE UNCHANGED <<cache, ch>>
    BY <1>1, <2>1, <2>2
  <2>3. CASE x # Nil /\ StopAndPut(x)
    <3>1. x \in Elems /\ x \notin cache
      BY <2>3, OnlyThere, ThreadKinds DEF Types, HandType, Nowhere
    <3> QED BY <2>1, <2>3, <3>1, PutServes
  <2> QED BY <1>6, <2>2, <2>3 DEF TuneNode
<1>7. ASSUME NEW c \in Callers, Start(c) PROVE OneServes'
  <2>1. PICK x \in cache, g \in Goroutines : initPoolNode(c, x, g)
    BY <1>7 DEF Start
  <2>2. UNCHANGED ch
    BY <1>7 DEF Start
  <2> QED BY <2>1, <2>2, InitServes, ThreadKinds
<1> QED
  BY <1>1, <1>2, <1>3, <1>4, <1>5, <1>6, <1>7, ServeServes, SendServes, Frames
     DEF CacheMoves, ChMoves, AtMoves

-----------------------------------------------------------------------------
(* What Len counts *)

\* The stack after a step, from the list it then is.
LEMMA StackNext ==
    ASSUME NEW S, NEW q, NEW m, Chain(S, q, m, head', next')
    PROVE  InStack' = S /\ Cardinality(InStack)' = m
<1>1. {Down(next', head')[i] : i \in DOMAIN Down(next', head')} = S
  BY DownFinds
<1>2. Cardinality(S) = m
  BY ChainCount
<1> QED BY <1>1, <1>2, Zenon DEF InStack, From

\* Finitely many threads are amid a push or a pop.
LEMMA MidwayFinite ==
    /\ IsFiniteSet(Midway) /\ Cardinality(Midway) \in Nat
<1>1. Midway \subseteq Threads
  BY DEF Midway
<1>2. IsFiniteSet(Midway)
  BY <1>1, FiniteOwners, FS_Subset, Zenon
<1> QED BY <1>2, FS_CardinalityType, Zenon

\* A thread comes among the ones in the middle of a push or a pop, or leaves them.
MidwayMoves == \/ Midway' = Midway
               \/ (\E t \in Threads : PushCount(t) \/ PushCas(t) \/ PopCas(t) \/ PopCount(t))

\* Who is in the middle of a push or a pop changes with the steps of both alone.
LEMMA MidwayFrame ==
    ASSUME PcType, [Next]_vars
    PROVE  MidwayMoves
<1> USE DEF stack, hands, bounds, Goto, Hold, At, PcType, GoSteps, LoopSteps, ReapSteps, CallSteps,
      PushSteps, PopSteps, Midway, LenSteps, MidwayMoves
<1>1. ASSUME NEW t \in Threads, PushCount(t) PROVE MidwayMoves
  BY <1>1 DEF MidwayMoves
<1>2. ASSUME NEW t \in Threads, PushLoad(t) PROVE MidwayMoves
  BY <1>2, ThreadKinds DEF PushLoad
<1>3. ASSUME NEW t \in Threads, PushCas(t) PROVE MidwayMoves
  BY <1>3 DEF MidwayMoves
<1>4. ASSUME NEW t \in Threads, PopLoad(t) PROVE MidwayMoves
  BY <1>4, ThreadKinds DEF PopLoad
<1>5. ASSUME NEW t \in Threads, PopCas(t) PROVE MidwayMoves
  BY <1>5 DEF MidwayMoves
<1>6. ASSUME NEW t \in Threads, PopCount(t) PROVE MidwayMoves
  BY <1>6 DEF MidwayMoves
<1>7. CASE Select
  BY <1>7, ThreadKinds DEF Select
<1>8. CASE Check
  BY <1>8, ThreadKinds DEF Check
<1>9. CASE PlanBusy
  BY <1>9, ThreadKinds DEF PlanBusy
<1>10. CASE PlanLen
  BY <1>10, ThreadKinds DEF PlanLen
<1>11. CASE PlanNode
  BY <1>11, ThreadKinds DEF PlanNode, initPoolNode
<1>12. CASE Reserve
  BY <1>12, ThreadKinds DEF Reserve
<1>13. CASE Admit
  BY <1>13, ThreadKinds DEF Admit
<1>14. CASE Fill
  BY <1>14, ThreadKinds DEF Fill
<1>15. CASE Undo
  BY <1>15, ThreadKinds DEF Undo
<1>16. CASE Send
  BY <1>16, ThreadKinds DEF Send
<1>17. CASE Drain
  BY <1>17, ThreadKinds DEF Drain
<1>18. CASE RemoveAll
  BY <1>18, ThreadKinds DEF RemoveAll, StopAndPut
<1>19. ASSUME NEW g \in Goroutines, Serve(g) PROVE MidwayMoves
  BY <1>19, ThreadKinds DEF Serve
<1>20. ASSUME NEW g \in Goroutines, RunBatch(g) PROVE MidwayMoves
  BY <1>20, ThreadKinds DEF RunBatch
<1>21. ASSUME NEW g \in Goroutines, freePoolNode(g) PROVE MidwayMoves
  BY <1>21, ThreadKinds DEF freePoolNode, StopAndPut
<1>22. ASSUME NEW g \in Goroutines, Release(g) PROVE MidwayMoves
  BY <1>22, ThreadKinds DEF Release
<1>23. ASSUME NEW g \in Goroutines, finishJobs(g) PROVE MidwayMoves
  BY <1>23, ThreadKinds DEF finishJobs
<1>24. ASSUME NEW g \in Goroutines, Notify(g) PROVE MidwayMoves
  BY <1>24, ThreadKinds DEF Notify
<1>25. CASE Tick
  BY <1>25, ThreadKinds DEF Tick, NoWalk
<1>26. CASE Prune
  BY <1>26, ThreadKinds DEF Prune, Dropped
<1>27. CASE Relink
  BY <1>27, ThreadKinds DEF Relink, Dropped
<1>28. CASE PruneDone
  BY <1>28, ThreadKinds DEF PruneDone
<1>29. CASE Expire
  BY <1>29, ThreadKinds DEF Expire, StopAndPut, NoWalk
<1>30. CASE Add
  BY <1>30, ThreadKinds DEF Add
<1>31. CASE Purge
  BY <1>31, ThreadKinds DEF Purge
<1>32. ASSUME NEW c \in Callers, NEW m \in Limits, TunePool(c, m) PROVE MidwayMoves
  BY <1>32, ThreadKinds DEF TunePool
<1>33. ASSUME NEW c \in Callers, TuneLen(c) PROVE MidwayMoves
  BY <1>33, ThreadKinds DEF TuneLen
<1>34. ASSUME NEW c \in Callers, TuneNode(c) PROVE MidwayMoves
  BY <1>34, ThreadKinds DEF TuneNode, StopAndPut
<1>35. ASSUME NEW c \in Callers, StopWorker(c) PROVE MidwayMoves
  BY <1>35, ThreadKinds DEF StopWorker
<1>36. ASSUME NEW c \in Callers, Start(c) PROVE MidwayMoves
  BY <1>36, ThreadKinds DEF Start, initPoolNode
<1>37. ASSUME NEW c \in Callers, Started(c) PROVE MidwayMoves
  BY <1>37, ThreadKinds DEF Started
<1>38. CASE UNCHANGED vars
  BY <1>38 DEF vars, Midway, MidwayMoves
<1> QED
  BY <1>1, <1>2, <1>3, <1>4, <1>5, <1>6, <1>7, <1>8, <1>9, <1>10, <1>11, <1>12, <1>13, <1>14,
     <1>15, <1>16, <1>17, <1>18, <1>19, <1>20, <1>21, <1>22, <1>23, <1>24, <1>25, <1>26, <1>27,
     <1>28, <1>29, <1>30, <1>31, <1>32, <1>33, <1>34, <1>35, <1>36, <1>37, <1>38
     DEF Next, StackStep, LoopStep, GoStep, ReapStep, CallStep

\* Len counts the stack, and the pushes and the pop that are under way.
LEMMA LenFitsKept ==
    ASSUME Types, HandsFit, NEW loc, NEW r, NEW n, Located(loc, r, n), LenFits, [Next]_vars
    PROVE  LenFits'
<1> DEFINE k == Cardinality(Midway)
<1>1. /\ Chain(StackOf(loc), r, n, head, next) /\ len = n + k /\ n \in Nat /\ k \in Nat /\ len \in Int
      /\ next \in [Elems -> Elems \cup {Nil}]
  BY StackFacts, MidwayFinite DEF Located, LenFits, Types, StackType
<1>2. ASSUME UNCHANGED <<head, next>> PROVE Cardinality(InStack)' = n
  BY <1>1, <1>2, StackNext
<1>3. ASSUME NEW t \in Threads, pc[t] \in LenSteps, pc' = [pc EXCEPT ![t] = pc'[t]],
             pc'[t] \notin LenSteps
      PROVE  Cardinality(Midway)' = k - 1
  <2>1. t \in Midway /\ Midway' = Midway \ {t}
    BY <1>3 DEF Midway, Types, PcType
  <2> QED BY <2>1, MidwayFinite, FS_RemoveElement, Zenon
<1>4. ASSUME NEW t \in Threads, pc[t] \notin LenSteps, pc' = [pc EXCEPT ![t] = pc'[t]],
             pc'[t] \in LenSteps
      PROVE  Cardinality(Midway)' = k + 1
  <2>1. t \notin Midway /\ Midway' = Midway \cup {t}
    BY <1>4 DEF Midway, Types, PcType
  <2> QED BY <2>1, MidwayFinite, FS_AddElement, Zenon
<1>5. ASSUME NEW a, NEW b, Cardinality(InStack)' = a, Cardinality(Midway)' = b,
             len' = a + b PROVE LenFits'
  BY <1>5, Zenon DEF LenFits
<1> HIDE DEF k
<1>6. ASSUME NEW t \in Threads, PushCount(t) PROVE LenFits'
  <2>1. /\ pc[t] = "push" /\ pc' = [pc EXCEPT ![t] = "pushLoad"] /\ pc'[t] = "pushLoad"
        /\ UNCHANGED <<head, next>> /\ len' = len + 1
    BY <1>6 DEF PushCount, At, Goto, Types, PcType
  <2>2. Cardinality(Midway)' = k + 1 /\ Cardinality(InStack)' = n
    BY <1>2, <1>4, <2>1 DEF LenSteps
  <2> QED BY <1>1, <1>5, <2>1, <2>2
<1>7. ASSUME NEW t \in Threads, PopCount(t) PROVE LenFits'
  <2>1. /\ pc[t] = "popCount" /\ pc' = [pc EXCEPT ![t] = "popped"] /\ pc'[t] = "popped"
        /\ UNCHANGED <<head, next>> /\ len' = len - 1
    BY <1>7 DEF PopCount, At, Goto, Types, PcType
  <2>2. Cardinality(Midway)' = k - 1 /\ Cardinality(InStack)' = n
    BY <1>2, <1>3, <2>1 DEF LenSteps
  <2> QED BY <1>1, <1>5, <2>1, <2>2
<1>8. ASSUME NEW t \in Threads, PushCas(t) PROVE LenFits'
  <2> SUFFICES ASSUME NEW e, e = node[t] PROVE LenFits'
    OBVIOUS
  <2>1. pc[t] = "pushCas" /\ len' = len /\ next' = next /\ e \in Elems
    BY <1>8 DEF PushCas, At, HandsFit, HoldSteps, PushSteps, Types, HandType
  <2>2. CASE head = next[e]
    <3>1. pc' = [pc EXCEPT ![t] = Pushed(t)] /\ pc'[t] = Pushed(t) /\ Pushed(t) \notin LenSteps /\ head' = e
      BY <1>8, <2>2 DEF PushCas, Goto, Types, PcType, Pushed, LenSteps
    <3>2. e \notin StackOf(loc)
      BY <2>1, OnlyThere DEF Located, StackOf
    <3>3. Chain(StackOf(loc) \cup {e}, [r EXCEPT ![e] = n + 1], n + 1, e, next)
      BY <1>1, <2>1, <2>2, <3>2, ChainPush
    <3>4. Cardinality(InStack)' = n + 1
      BY <2>1, <3>1, <3>3, StackNext
    <3>5. Cardinality(Midway)' = k - 1
      BY <1>3, <2>1, <3>1 DEF LenSteps
    <3>6. len' = (n + 1) + (k - 1)
      BY <1>1, <2>1
    <3> QED BY <1>5, <3>4, <3>5, <3>6
  <2>3. CASE head # next[e]
    <3>1. Midway' = Midway /\ head' = head
      BY <1>8, <2>1, <2>3 DEF PushCas, Goto, Types, PcType, Midway, LenSteps
    <3>2. Cardinality(Midway)' = k /\ Cardinality(InStack)' = n
      BY <1>2, <2>1, <3>1 DEF k
    <3> QED BY <1>1, <1>5, <2>1, <3>2
  <2> QED BY <2>2, <2>3
<1>9. ASSUME NEW t \in Threads, PopCas(t) PROVE LenFits'
  <2>1. pc[t] = "popCas" /\ len' = len /\ next' = next
    BY <1>9 DEF PopCas, At
  <2>2. CASE head = seen[t][1]
    <3>1. pc' = [pc EXCEPT ![t] = "popCount"] /\ pc'[t] = "popCount" /\ head' = seen[t][2]
      BY <1>9, <2>2 DEF PopCas, Goto, Types, PcType
    <3>2. head \in Elems /\ head' = next[head]
      BY <2>1, <2>2, <3>1 DEF Located, SeenStands
    <3>3. Chain(StackOf(loc) \ {head}, r, n - 1, next[head], next)
      BY <1>1, <3>2, ChainPop, ThreadKinds
    <3>4. Cardinality(InStack)' = n - 1
      BY <2>1, <3>2, <3>3, StackNext
    <3>5. Cardinality(Midway)' = k + 1
      BY <1>4, <2>1, <3>1 DEF LenSteps
    <3>6. len' = (n - 1) + (k + 1)
      BY <1>1, <2>1
    <3> QED BY <1>5, <3>4, <3>5, <3>6
  <2>3. CASE head # seen[t][1]
    <3>1. Midway' = Midway /\ head' = head
      BY <1>9, <2>1, <2>3 DEF PopCas, Goto, Types, PcType, Midway, LenSteps
    <3>2. Cardinality(Midway)' = k /\ Cardinality(InStack)' = n
      BY <1>2, <2>1, <3>1 DEF k
    <3> QED BY <1>1, <1>5, <2>1, <3>2
  <2> QED BY <2>2, <2>3
<1>10. CASE Midway' = Midway
  <2>1. Cardinality(Midway)' = k
    BY <1>10 DEF k
  <2>2. ASSUME Cardinality(InStack)' = n, len' = len PROVE LenFits'
    BY <1>1, <1>5, <2>1, <2>2
  <2>3. ASSUME Cardinality(InStack)' = n - 1, len' = len - 1 PROVE LenFits'
    BY <1>1, <1>5, <2>1, <2>3
  <2>4. CASE Prune
    <3> SUFFICES ASSUME NEW e, e = walk.e PROVE LenFits'
      OBVIOUS
    <3>1. pc[Reaper] = "prune" /\ e \in Elems
      BY <2>4 DEF Prune, At, Types, WalkType
    <3>2. /\ e \in StackOf(loc)
          /\ walk.prev # Nil => walk.prev \in StackOf(loc) /\ next[walk.prev] = e
      BY <3>1, ThreadKinds DEF Located, WalkStands, StackOf, Types, WalkType
    <3>3. CASE UNCHANGED <<head, next, len>>
      BY <1>2, <2>2, <3>3
    <3>4. CASE walk.prev # Nil /\ head' = head /\ next' = [next EXCEPT ![walk.prev] = next[e]] /\ len' = len - 1
      <4>1. Chain(StackOf(loc) \ {e}, Without(r, StackOf(loc), e), n - 1, head, [next EXCEPT ![walk.prev] = next[e]])
        BY <1>1, <3>2, <3>4, ChainDrop
      <4>2. Cardinality(InStack)' = n - 1
        BY <3>4, <4>1, StackNext
      <4> QED BY <2>3, <3>4, <4>2
    <3>5. CASE head = e /\ head' = next[e] /\ next' = next /\ len' = len - 1
      <4>1. Chain(StackOf(loc) \ {e}, r, n - 1, next[e], next)
        BY <1>1, <3>1, <3>5, ChainPop, ThreadKinds
      <4>2. Cardinality(InStack)' = n - 1
        BY <3>5, <4>1, StackNext
      <4> QED BY <2>3, <3>5, <4>2
    <3> QED BY <2>4, <3>3, <3>4, <3>5 DEF Prune
  <2>5. CASE Relink
    <3> SUFFICES ASSUME NEW e, e = walk.e, NEW p, p = Above(walk.e) PROVE LenFits'
      OBVIOUS
    <3>1. pc[Reaper] = "relink" /\ head' = head /\ next' = [next EXCEPT ![p] = next[e]] /\ len' = len - 1
      BY <2>5 DEF Relink, At
    <3>2. e \in StackOf(loc) /\ p \in StackOf(loc) /\ next[p] = e
      BY <3>1, AboveFound DEF Types
    <3>3. Chain(StackOf(loc) \ {e}, Without(r, StackOf(loc), e), n - 1, head, [next EXCEPT ![p] = next[e]])
      BY <1>1, <3>2, ChainDrop
    <3>4. Cardinality(InStack)' = n - 1
      BY <3>1, <3>3, StackNext
    <3> QED BY <2>3, <3>1, <3>4
  <2>6. ASSUME NEW t \in Threads, PushLoad(t) PROVE LenFits'
    <3> SUFFICES ASSUME NEW e, e = node[t] PROVE LenFits'
      OBVIOUS
    <3>1. e \in Elems /\ head' = head /\ next' = [next EXCEPT ![e] = head] /\ len' = len
      BY <2>6 DEF PushLoad, At, HandsFit, HoldSteps, PushSteps, Types, HandType
    <3>2. e \notin StackOf(loc)
      BY <3>1, OnlyThere DEF Located, StackOf
    <3>3. Chain(StackOf(loc), r, n, head, [next EXCEPT ![e] = head])
      BY <1>1, <3>1, <3>2, ChainWrite
    <3>4. Cardinality(InStack)' = n
      BY <3>1, <3>3, StackNext
    <3> QED BY <2>2, <3>1, <3>4
  <2>7. CASE UNCHANGED <<head, next, len>>
    BY <1>2, <2>2, <2>7
  <2> QED BY <1>6, <1>7, <1>8, <1>9, <2>4, <2>5, <2>6, <2>7, Frames DEF LinksMoves, LenMoves
<1>11. MidwayMoves
  BY MidwayFrame DEF Types
<1> QED BY <1>6, <1>7, <1>8, <1>9, <1>10, <1>11 DEF MidwayMoves

-----------------------------------------------------------------------------
(* What the counters count *)

\* A step after which everyone has the jobs it had.
Even ==
    /\ \A e \in Elems : ch'[e] = ch[e] \/ (~Loaded(e) /\ ~Loaded(e)')
    /\ pc'[Loop] \in LoopCounts <=> pc[Loop] \in LoopCounts
    /\ pc'[Loop] \in {"send", "sendLast"} <=> pc[Loop] \in {"send", "sendLast"}
    /\ pc[Loop] \in LoopCounts => count'[Loop] = count[Loop]
    /\ \A g \in Goroutines : /\ pc'[g] \in RunSteps <=> pc[g] \in RunSteps
                             /\ pc'[g] \in BusySteps <=> pc[g] \in BusySteps
                             /\ pc'[g] = "run" <=> pc[g] = "run"
                             /\ pc[g] \in RunSteps => count'[g] = count[g]

\* The steps that move jobs.
LoadMoves == \/ Even \/ Reserve \/ Fill \/ Undo \/ Send
             \/ (\E g \in Goroutines : Serve(g) \/ RunBatch(g) \/ Release(g) \/ finishJobs(g))

\* Every other step leaves the jobs with whom they were.
LEMMA LoadFrame ==
    ASSUME Types, CountFits, [Next]_vars
    PROVE  LoadMoves
<1> USE DEF stack, hands, bounds, Goto, Hold, At, Even, LoadMoves, Loaded, LoopCounts, RunSteps,
      BusySteps, Types, PcType, ChType, CountType, GoSteps, LoopSteps, ReapSteps, CallSteps,
      PushSteps, PopSteps
<1>1. ASSUME NEW t \in Threads, PushCount(t) PROVE LoadMoves
  BY <1>1, ThreadKinds DEF PushCount
<1>2. ASSUME NEW t \in Threads, PushLoad(t) PROVE LoadMoves
  BY <1>2, ThreadKinds DEF PushLoad
<1>3. ASSUME NEW t \in Threads, PushCas(t) PROVE LoadMoves
  BY <1>3, ThreadKinds DEF PushCas, Pushed
<1>4. ASSUME NEW t \in Threads, PopLoad(t) PROVE LoadMoves
  BY <1>4, ThreadKinds DEF PopLoad
<1>5. ASSUME NEW t \in Threads, PopCas(t) PROVE LoadMoves
  BY <1>5, ThreadKinds DEF PopCas
<1>6. ASSUME NEW t \in Threads, PopCount(t) PROVE LoadMoves
  BY <1>6, ThreadKinds DEF PopCount
<1>7. CASE Select
  BY <1>7, ThreadKinds DEF Select
<1>8. CASE Check
  BY <1>8, ThreadKinds DEF Check
<1>9. CASE PlanBusy
  BY <1>9, ThreadKinds DEF PlanBusy
<1>10. CASE PlanLen
  BY <1>10, ThreadKinds DEF PlanLen
<1>11. CASE PlanNode
  BY <1>11, ThreadKinds DEF PlanNode, initPoolNode
<1>12. CASE Reserve
  BY <1>12 DEF LoadMoves
<1>13. CASE Admit
  BY <1>13, ThreadKinds DEF Admit
<1>14. CASE Fill
  BY <1>14 DEF LoadMoves
<1>15. CASE Undo
  BY <1>15 DEF LoadMoves
<1>16. CASE Send
  BY <1>16 DEF LoadMoves
<1>17. CASE Drain
  BY <1>17, ThreadKinds DEF Drain
<1>18. CASE RemoveAll
  <2>1. \A e \in Elems : ch'[e] = ch[e] \/ (~Loaded(e) /\ ~Loaded(e)')
    BY <1>18 DEF RemoveAll, StopAndPut, Loaded, Types, ChType
  <2>2. /\ pc[Loop] = "popped" /\ pc'[Loop] \in {"over", "pop"}
        /\ \A g \in Goroutines : pc'[g] = pc[g] /\ count'[g] = count[g]
    BY <1>18, ThreadKinds DEF RemoveAll, Goto, At, Types, PcType, CountType
  <2> QED BY <2>1, <2>2 DEF LoadMoves, Even, LoopCounts, PushSteps
<1>19. ASSUME NEW g \in Goroutines, Serve(g) PROVE LoadMoves
  BY <1>19 DEF LoadMoves
<1>20. ASSUME NEW g \in Goroutines, RunBatch(g) PROVE LoadMoves
  BY <1>20 DEF LoadMoves
<1>21. ASSUME NEW g \in Goroutines, freePoolNode(g) PROVE LoadMoves
  BY <1>21, ThreadKinds, ZenonT(40) DEF freePoolNode, StopAndPut
<1>22. ASSUME NEW g \in Goroutines, Release(g) PROVE LoadMoves
  BY <1>22 DEF LoadMoves
<1>23. ASSUME NEW g \in Goroutines, finishJobs(g) PROVE LoadMoves
  BY <1>23 DEF LoadMoves
<1>24. ASSUME NEW g \in Goroutines, Notify(g) PROVE LoadMoves
  BY <1>24, ThreadKinds DEF Notify
<1>25. CASE Tick
  BY <1>25, ThreadKinds DEF Tick, NoWalk
<1>26. CASE Prune
  BY <1>26, ThreadKinds DEF Prune, Dropped
<1>27. CASE Relink
  BY <1>27, ThreadKinds DEF Relink, Dropped
<1>28. CASE PruneDone
  BY <1>28, ThreadKinds DEF PruneDone
<1>29. CASE Expire
  BY <1>29, ThreadKinds DEF Expire, StopAndPut, NoWalk
<1>30. CASE Add
  BY <1>30, ThreadKinds DEF Add
<1>31. CASE Purge
  BY <1>31, ThreadKinds DEF Purge
<1>32. ASSUME NEW c \in Callers, NEW m \in Limits, TunePool(c, m) PROVE LoadMoves
  BY <1>32, ThreadKinds DEF TunePool
<1>33. ASSUME NEW c \in Callers, TuneLen(c) PROVE LoadMoves
  BY <1>33, ThreadKinds DEF TuneLen
<1>34. ASSUME NEW c \in Callers, TuneNode(c) PROVE LoadMoves
  BY <1>34, ThreadKinds, ZenonT(40) DEF TuneNode, StopAndPut
<1>35. ASSUME NEW c \in Callers, StopWorker(c) PROVE LoadMoves
  BY <1>35, ThreadKinds DEF StopWorker
<1>36. ASSUME NEW c \in Callers, Start(c) PROVE LoadMoves
  BY <1>36, ThreadKinds DEF Start, initPoolNode
<1>37. ASSUME NEW c \in Callers, Started(c) PROVE LoadMoves
  BY <1>37, ThreadKinds DEF Started
<1>38. CASE UNCHANGED vars
  BY <1>38 DEF vars, hands, Even, Loaded, LoadMoves
<1> QED
  BY <1>1, <1>2, <1>3, <1>4, <1>5, <1>6, <1>7, <1>8, <1>9, <1>10, <1>11, <1>12, <1>13, <1>14,
     <1>15, <1>16, <1>17, <1>18, <1>19, <1>20, <1>21, <1>22, <1>23, <1>24, <1>25, <1>26, <1>27,
     <1>28, <1>29, <1>30, <1>31, <1>32, <1>33, <1>34, <1>35, <1>36, <1>37, <1>38
     DEF Next, StackStep, LoopStep, GoStep, ReapStep, CallStep

\* Nobody owes less than no job.
LEMMA AmountTypes ==
    ASSUME Types, CountFits
    PROVE  Amount \in [Owners -> Nat] /\ Unrun \in [Owners -> Nat]
<1>1. ASSUME NEW o \in Owners PROVE Amount[o] \in Nat /\ Unrun[o] \in Nat
  <2>1. CASE o \in Elems
    <3>1. ch[o] \in Payloads
      BY <2>1 DEF Types, ChType
    <3>2. ch[o] \notin {<<>>, <<Stop>>} => ch[o][1] \in Nat
      BY <3>1 DEF Payloads
    <3> QED BY <2>1, <3>2 DEF Amount, Unrun, Owners
  <2>2. CASE o \in Threads /\ o \notin Elems
    <3>1. count[o] \in Int
      BY <2>2 DEF Types, CountType
    <3>2. /\ o = Loop /\ pc[o] \in LoopCounts => count[o] \in Nat
          /\ o \in Goroutines /\ pc[o] \in RunSteps => count[o] \in Nat
      BY <3>1 DEF CountFits
    <3>3. {"send", "sendLast"} \subseteq LoopCounts /\ "run" \in RunSteps
      BY DEF LoopCounts, RunSteps
    <3> QED BY <2>2, <3>2, <3>3 DEF Amount, Unrun, Owners
  <2> QED BY <2>1, <2>2 DEF Owners
<1>2. Amount = [o \in Owners |-> Amount[o]] /\ Unrun = [o \in Owners |-> Unrun[o]]
  BY DEF Amount, Unrun, Owners
<1> QED BY <1>1, <1>2

\* A step that is even leaves the sums.
LEMMA EvenLoads ==
    ASSUME Even
    PROVE  Amount' = Amount /\ Unrun' = Unrun /\ BusyOnes' = BusyOnes
<1>1. {"send", "sendLast"} \subseteq LoopCounts /\ "run" \in RunSteps
  BY DEF LoopCounts, RunSteps
<1>2. Amount' = Amount
  BY DEF Even, Amount, Loaded
<1>3. Unrun' = Unrun
  BY <1>1 DEF Even, Unrun, Loaded
<1>4. BusyOnes' = BusyOnes
  BY DEF Even, BusyOnes, Loaded
<1> QED BY <1>2, <1>3, <1>4

\* What Fill does, with the smaller of the two counts named.
LEMMA FillIs ==
    ASSUME Types, CountFits, Fill
    PROVE  /\ pc[Loop] = "fill" /\ UNCHANGED <<ch, added>> /\ \A g \in Goroutines : pc'[g] = pc[g] /\ count'[g] = count[g]
           /\ \/ pc'[Loop] = "push" /\ UNCHANGED <<w, count>>
              \/ \E n \in Nat \ {0} : /\ pc'[Loop] \in {"send", "sendLast"} /\ count'[Loop] = n
                                      /\ n <= w.queue /\ n <= count[Loop] /\ w'.queue = w.queue - n
                                      /\ w'.cur = w.cur - (count[Loop] - n) /\ w'.busy = w.busy
<1>1. w.queue \in Nat /\ w.queue \in Int /\ count[Loop] \in Int /\ w.cur \in Int /\ pc[Loop] = "fill"
  BY ThreadKinds DEF Types, WorkerType, CountType, Fill, At
<1>2. count[Loop] >= 1
  BY <1>1 DEF CountFits, LoopCounts
<1> DEFINE n == Min({w.queue, count[Loop]})
<1>3. n = (IF w.queue =< count[Loop] THEN w.queue ELSE count[Loop])
  BY <1>1, MaxOfTwo, Zenon
<1>4. n \in Nat /\ n <= w.queue /\ n <= count[Loop]
  BY <1>1, <1>2, <1>3
<1>5. \/ n = 0 /\ Goto(Loop, "push") /\ UNCHANGED <<w, count>>
      \/ /\ n # 0 /\ (Goto(Loop, "send") \/ Goto(Loop, "sendLast")) /\ count' = [count EXCEPT ![Loop] = n]
         /\ w' = [w EXCEPT !.queue = w.queue - n, !.cur = w.cur - (count[Loop] - n)]
  BY DEF Fill
<1> HIDE DEF n
<1>6. UNCHANGED <<ch, added>> /\ \A g \in Goroutines : pc'[g] = pc[g] /\ count'[g] = count[g]
  BY <1>5, ThreadKinds DEF Fill, Goto, bounds, Types, PcType, CountType
<1>7. CASE n = 0
  BY <1>1, <1>5, <1>6, <1>7, ThreadKinds DEF Goto, Types, PcType
<1>8. CASE n # 0
  <2>1. /\ pc'[Loop] \in {"send", "sendLast"} /\ count'[Loop] = n /\ w'.queue = w.queue - n
        /\ w'.cur = w.cur - (count[Loop] - n) /\ w'.busy = w.busy
    BY <1>5, <1>8, ThreadKinds DEF Goto, Types, PcType, CountType, WorkerType
  <2> QED BY <1>1, <1>4, <1>6, <1>8, <2>1
<1> QED BY <1>7, <1>8

\* What the steps do to the counters of the worker.
CurMoves == w'.cur = w.cur \/ Reserve \/ Fill \/ Undo \/ (\E g \in Goroutines : finishJobs(g))
BusyMoves == w'.busy = w.busy \/ Reserve \/ Undo \/ (\E g \in Goroutines : Release(g))
QueueMoves == (w'.queue = w.queue /\ added' = added) \/ Fill \/ Add \/ Purge \/ (\E g \in Goroutines : RunBatch(g))

\* Few steps change a counter.
LEMMA CounterFrame ==
    ASSUME Types, CountFits, [Next]_vars
    PROVE  CurMoves /\ BusyMoves /\ QueueMoves
<1> USE DEF stack, hands, bounds, Goto, Hold, At, Types, WorkerType, CurMoves, BusyMoves, QueueMoves
<1>1. ASSUME NEW t \in Threads, PushCount(t) PROVE CurMoves /\ BusyMoves /\ QueueMoves
  BY <1>1 DEF PushCount
<1>2. ASSUME NEW t \in Threads, PushLoad(t) PROVE CurMoves /\ BusyMoves /\ QueueMoves
  BY <1>2 DEF PushLoad
<1>3. ASSUME NEW t \in Threads, PushCas(t) PROVE CurMoves /\ BusyMoves /\ QueueMoves
  BY <1>3 DEF PushCas, Pushed
<1>4. ASSUME NEW t \in Threads, PopLoad(t) PROVE CurMoves /\ BusyMoves /\ QueueMoves
  BY <1>4 DEF PopLoad
<1>5. ASSUME NEW t \in Threads, PopCas(t) PROVE CurMoves /\ BusyMoves /\ QueueMoves
  BY <1>5 DEF PopCas
<1>6. ASSUME NEW t \in Threads, PopCount(t) PROVE CurMoves /\ BusyMoves /\ QueueMoves
  BY <1>6 DEF PopCount
<1>7. CASE Select
  BY <1>7 DEF Select
<1>8. CASE Check
  BY <1>8 DEF Check
<1>9. CASE PlanBusy
  BY <1>9 DEF PlanBusy
<1>10. CASE PlanLen
  BY <1>10 DEF PlanLen
<1>11. CASE PlanNode
  BY <1>11 DEF PlanNode, initPoolNode
<1>12. CASE Reserve
  BY <1>12 DEF Reserve
<1>13. CASE Admit
  BY <1>13 DEF Admit
<1>14. CASE Fill
  BY <1>14, FillIs, Zenon DEF CurMoves, BusyMoves, QueueMoves
<1>15. CASE Undo
  BY <1>15 DEF Undo
<1>16. CASE Send
  BY <1>16 DEF Send
<1>17. CASE Drain
  BY <1>17 DEF Drain
<1>18. CASE RemoveAll
  BY <1>18 DEF RemoveAll, StopAndPut
<1>19. ASSUME NEW g \in Goroutines, Serve(g) PROVE CurMoves /\ BusyMoves /\ QueueMoves
  BY <1>19 DEF Serve
<1>20. ASSUME NEW g \in Goroutines, RunBatch(g) PROVE CurMoves /\ BusyMoves /\ QueueMoves
  BY <1>20 DEF RunBatch, bounds, Types, WorkerType, CurMoves, BusyMoves, QueueMoves
<1>21. ASSUME NEW g \in Goroutines, freePoolNode(g) PROVE CurMoves /\ BusyMoves /\ QueueMoves
  BY <1>21 DEF freePoolNode, StopAndPut
<1>22. ASSUME NEW g \in Goroutines, Release(g) PROVE CurMoves /\ BusyMoves /\ QueueMoves
  BY <1>22 DEF Release
<1>23. ASSUME NEW g \in Goroutines, finishJobs(g) PROVE CurMoves /\ BusyMoves /\ QueueMoves
  BY <1>23 DEF finishJobs
<1>24. ASSUME NEW g \in Goroutines, Notify(g) PROVE CurMoves /\ BusyMoves /\ QueueMoves
  BY <1>24 DEF Notify
<1>25. CASE Tick
  BY <1>25 DEF Tick, NoWalk
<1>26. CASE Prune
  BY <1>26 DEF Prune, Dropped
<1>27. CASE Relink
  BY <1>27 DEF Relink, Dropped
<1>28. CASE PruneDone
  BY <1>28 DEF PruneDone
<1>29. CASE Expire
  BY <1>29 DEF Expire, StopAndPut, NoWalk
<1>30. CASE Add
  BY <1>30 DEF Add
<1>31. CASE Purge
  BY <1>31 DEF Purge
<1>32. ASSUME NEW c \in Callers, NEW m \in Limits,
              TunePool(c, m) PROVE CurMoves /\ BusyMoves /\ QueueMoves
  BY <1>32 DEF TunePool
<1>33. ASSUME NEW c \in Callers, TuneLen(c) PROVE CurMoves /\ BusyMoves /\ QueueMoves
  BY <1>33 DEF TuneLen
<1>34. ASSUME NEW c \in Callers, TuneNode(c) PROVE CurMoves /\ BusyMoves /\ QueueMoves
  BY <1>34 DEF TuneNode, StopAndPut
<1>35. ASSUME NEW c \in Callers, StopWorker(c) PROVE CurMoves /\ BusyMoves /\ QueueMoves
  BY <1>35 DEF StopWorker
<1>36. ASSUME NEW c \in Callers, Start(c) PROVE CurMoves /\ BusyMoves /\ QueueMoves
  BY <1>36 DEF Start, initPoolNode
<1>37. ASSUME NEW c \in Callers, Started(c) PROVE CurMoves /\ BusyMoves /\ QueueMoves
  BY <1>37 DEF Started
<1>38. CASE UNCHANGED vars
  BY <1>38 DEF vars, bounds, CurMoves, BusyMoves, QueueMoves
<1> QED
  BY <1>1, <1>2, <1>3, <1>4, <1>5, <1>6, <1>7, <1>8, <1>9, <1>10, <1>11, <1>12, <1>13, <1>14,
     <1>15, <1>16, <1>17, <1>18, <1>19, <1>20, <1>21, <1>22, <1>23, <1>24, <1>25, <1>26, <1>27,
     <1>28, <1>29, <1>30, <1>31, <1>32, <1>33, <1>34, <1>35, <1>36, <1>37, <1>38
     DEF Next, StackStep, LoopStep, GoStep, ReapStep, CallStep

\* The jobs change with one owner, and w.cur with them.
LEMMA AmountStep ==
    ASSUME Types, CountFits, CurFits, NEW o \in Owners, NEW a \in Nat,
           Amount' = [Amount EXCEPT ![o] = a],
           w'.cur = w.cur - Amount[o] + a
    PROVE  CurFits'
<1>1. Amount \in [Owners -> Nat]
  BY AmountTypes
<1>2. Cardinality(Units([Amount EXCEPT ![o] = a])) = Cardinality(Units(Amount)) - Amount[o] + a
  BY <1>1, UnitsChange
<1>3. CurFits <=> w.cur = Cardinality(Units(Amount))
  BY DEF CurFits
<1>4. CurFits' <=> w'.cur = Cardinality(Units(Amount'))
  BY DEF CurFits, Units
<1> QED BY <1>2, <1>3, <1>4

\* They pass from one owner to another, and w.cur stays.
LEMMA AmountMove ==
    ASSUME Types, CountFits, CurFits, NEW o \in Owners, NEW p \in Owners, o # p, Amount[p] = 0,
           Amount' = [Amount EXCEPT ![o] = 0, ![p] = Amount[o]], w'.cur = w.cur
    PROVE  CurFits'
<1>1. Amount \in [Owners -> Nat] /\ Amount[o] \in Nat /\ 0 \in Nat
  BY AmountTypes
<1>2. Cardinality(Units([Amount EXCEPT ![o] = 0, ![p] = Amount[o]]))
        = Cardinality(Units(Amount)) - Amount[o] + 0 - Amount[p] + Amount[o]
  BY <1>1, UnitsChangeTwo
<1>3. Cardinality(Units(Amount)) \in Nat
  BY <1>1, UnitsFinite
<1>4. Cardinality(Units([Amount EXCEPT ![o] = 0, ![p] = Amount[o]])) = Cardinality(Units(Amount))
  BY <1>1, <1>2, <1>3
<1>5. CurFits <=> w.cur = Cardinality(Units(Amount))
  BY DEF CurFits
<1>6. CurFits' <=> w'.cur = Cardinality(Units(Amount'))
  BY DEF CurFits, Units
<1> QED BY <1>4, <1>5, <1>6

\* What the steps that move jobs do to who has them.
LEMMA ReserveLoads ==
    ASSUME Types, CountFits, Reserve
    PROVE  /\ Amount' = [Amount EXCEPT ![Loop] = count[Loop]] /\ Amount[Loop] = 0 /\ count[Loop] \in Nat
           /\ Unrun' = Unrun /\ BusyOnes' = BusyOnes \cup {Loop} /\ Loop \notin BusyOnes
           /\ w'.cur = w.cur + count[Loop] /\ w'.busy = w.busy + 1
<1>1. /\ pc[Loop] = "reserve" /\ pc'[Loop] = "admit" /\ ch' = ch /\ count' = count
      /\ \A g \in Goroutines : pc'[g] = pc[g]
      /\ w'.cur = w.cur + count[Loop] /\ w'.busy = w.busy + 1 /\ count[Loop] \in Nat
  BY ThreadKinds DEF Reserve, At, Goto, hands, Types, PcType, WorkerType, CountFits, CountType
<1>2. Amount' = [Amount EXCEPT ![Loop] = count[Loop]] /\ Amount[Loop] = 0
  BY <1>1, ThreadKinds DEF Amount, LoopCounts, PushSteps
<1>3. Unrun' = Unrun
  BY <1>1, ThreadKinds DEF Unrun
<1>4. BusyOnes' = BusyOnes \cup {Loop} /\ Loop \notin BusyOnes
  BY <1>1, ThreadKinds DEF BusyOnes, LoopCounts, PushSteps
<1> QED BY <1>1, <1>2, <1>3, <1>4

\* Fill takes jobs of the queue for the ones it reserved, and gives back the rest.
LEMMA FillLoads ==
    ASSUME Types, CountFits, Fill
    PROVE  /\ BusyOnes' = BusyOnes /\ Amount[Loop] = count[Loop] /\ Unrun[Loop] = 0
           /\ \/ Amount' = Amount /\ Unrun' = Unrun /\ UNCHANGED <<w, added>>
              \/ \E n \in Nat \ {0} : /\ Amount' = [Amount EXCEPT ![Loop] = n] /\ Unrun' = [Unrun EXCEPT ![Loop] = n]
                                      /\ n <= w.queue /\ w'.queue = w.queue - n /\ added' = added
                                      /\ w'.cur = w.cur - (count[Loop] - n) /\ w'.busy = w.busy
<1>1. /\ pc[Loop] = "fill" /\ UNCHANGED <<ch, added>> /\ \A g \in Goroutines : pc'[g] = pc[g] /\ count'[g] = count[g]
      /\ pc'[Loop] \in {"push", "send", "sendLast"}
  BY FillIs
<1>2. BusyOnes' = BusyOnes
  BY <1>1, ThreadKinds DEF BusyOnes, LoopCounts, PushSteps
<1>3. Amount[Loop] = count[Loop] /\ Unrun[Loop] = 0
  BY <1>1, ThreadKinds DEF Amount, Unrun, LoopCounts
<1>4. CASE pc'[Loop] = "push" /\ UNCHANGED <<w, count>>
  <2>1. Amount' = Amount
    BY <1>1, <1>4, ThreadKinds DEF Amount, LoopCounts, PushSteps
  <2>2. Unrun' = Unrun
    BY <1>1, <1>4, ThreadKinds DEF Unrun
  <2> QED BY <1>1, <1>2, <1>3, <1>4, <2>1, <2>2
<1>5. ASSUME NEW n \in Nat \ {0}, pc'[Loop] \in {"send", "sendLast"}, count'[Loop] = n,
             n <= w.queue,
             w'.queue = w.queue - n, w'.cur = w.cur - (count[Loop] - n), w'.busy = w.busy
      PROVE  /\ Amount' = [Amount EXCEPT ![Loop] = n] /\ Unrun' = [Unrun EXCEPT ![Loop] = n]
             /\ n <= w.queue /\ w'.queue = w.queue - n /\ added' = added
             /\ w'.cur = w.cur - (count[Loop] - n) /\ w'.busy = w.busy
  <2>1. Amount' = [Amount EXCEPT ![Loop] = n]
    BY <1>1, <1>5, ThreadKinds DEF Amount, LoopCounts, PushSteps
  <2>2. Unrun' = [Unrun EXCEPT ![Loop] = n]
    BY <1>1, <1>5, ThreadKinds DEF Unrun
  <2> QED BY <1>1, <1>5, <2>1, <2>2
<1> QED BY <1>2, <1>3, <1>4, <1>5, FillIs

\* Undo gives back all that the loop reserved.
LEMMA UndoLoads ==
    ASSUME Types, CountFits, Undo
    PROVE  /\ Amount' = [Amount EXCEPT ![Loop] = 0] /\ Amount[Loop] = count[Loop]
           /\ Unrun' = Unrun /\ BusyOnes' = BusyOnes \ {Loop} /\ Loop \in BusyOnes
           /\ w'.cur = w.cur - count[Loop] /\ w'.busy = w.busy - 1
<1>1. /\ pc[Loop] = "undo" /\ pc'[Loop] = "select" /\ ch' = ch
      /\ \A g \in Goroutines : pc'[g] = pc[g] /\ count'[g] = count[g]
      /\ w'.cur = w.cur - count[Loop] /\ w'.busy = w.busy - 1
  BY ThreadKinds DEF Undo, At, Goto, Types, PcType, WorkerType, CountType
<1>2. Amount' = [Amount EXCEPT ![Loop] = 0] /\ Amount[Loop] = count[Loop]
  BY <1>1, ThreadKinds DEF Amount, LoopCounts, PushSteps
<1>3. Unrun' = Unrun
  BY <1>1, ThreadKinds DEF Unrun
<1>4. BusyOnes' = BusyOnes \ {Loop} /\ Loop \in BusyOnes
  BY <1>1, ThreadKinds DEF BusyOnes, LoopCounts, PushSteps
<1> QED BY <1>1, <1>2, <1>3, <1>4

\* Send hands the loop's batch to the channel.
LEMMA SendLoads ==
    ASSUME Types, HandsFit, CountFits, Send, NEW x, x = node[Loop]
    PROVE  /\ x \in Elems /\ count[Loop] \in Nat /\ x # Loop /\ Amount[x] = 0 /\ Amount[Loop] = count[Loop]
           /\ Amount' = [Amount EXCEPT ![Loop] = 0, ![x] = count[Loop]]
           /\ Unrun[x] = 0 /\ Unrun[Loop] = count[Loop]
           /\ Unrun' = [Unrun EXCEPT ![Loop] = 0, ![x] = count[Loop]]
           /\ BusyOnes' = (BusyOnes \ {Loop}) \cup {x} /\ Loop \in BusyOnes /\ x \notin BusyOnes
           /\ w' = w /\ added' = added
<1>1. /\ pc[Loop] \in {"send", "sendLast"} /\ pc'[Loop] \in {"check", "select"} /\ x \in Elems /\ x \notin Threads
      /\ ch' = [ch EXCEPT ![x] = <<count[Loop]>>] /\ ch[x] = <<>> /\ ch \in [Elems -> Payloads]
      /\ \A g \in Goroutines : pc'[g] = pc[g] /\ count'[g] = count[g]
      /\ w' = w /\ added' = added /\ count[Loop] \in Nat /\ count[Loop] # Stop
  BY ThreadKinds DEF Send, At, Goto, bounds, Types, PcType, ChType, HandType, HandsFit, HoldSteps,
     CountFits, LoopCounts, CountType, Stop
<1>2. <<count[Loop]>> # <<Stop>> /\ <<count[Loop]>> # <<>> /\ <<count[Loop]>>[1] = count[Loop]
  BY <1>1
<1>3. ch'[x] = <<count[Loop]>> /\ \A e \in Elems : e # x => ch'[e] = ch[e]
  BY <1>1
<1>4. Loop \in Threads /\ Loop \notin Elems /\ Loop \notin Goroutines /\ x \notin Goroutines
  BY <1>1, ThreadKinds
<1>5. Amount' = [Amount EXCEPT ![Loop] = 0, ![x] = count[Loop]] /\ Amount[x] = 0 /\ Amount[Loop] = count[Loop]
  <2>1. Amount[x] = 0 /\ Amount[Loop] = count[Loop] /\ Amount'[x] = count[Loop] /\ Amount'[Loop] = 0
    BY <1>1, <1>2, <1>3, <1>4 DEF Amount, LoopCounts, PushSteps
  <2>2. \A o \in Elems \cup Threads : o # Loop /\ o # x => Amount'[o] = Amount[o]
    BY <1>1, <1>3 DEF Amount
  <2>3. Amount = [o \in Elems \cup Threads |-> Amount[o]] /\ Amount' = [o \in Elems \cup Threads |-> Amount'[o]]
    BY DEF Amount
  <2> QED BY <1>1, <1>4, <2>1, <2>2, <2>3
<1>6. Unrun' = [Unrun EXCEPT ![Loop] = 0, ![x] = count[Loop]] /\ Unrun[x] = 0 /\ Unrun[Loop] = count[Loop]
  <2>1. Unrun[x] = 0 /\ Unrun[Loop] = count[Loop] /\ Unrun'[x] = count[Loop] /\ Unrun'[Loop] = 0
    BY <1>1, <1>2, <1>3, <1>4 DEF Unrun
  <2>2. \A o \in Elems \cup Threads : o # Loop /\ o # x => Unrun'[o] = Unrun[o]
    BY <1>1, <1>3 DEF Unrun
  <2>3. Unrun = [o \in Elems \cup Threads |-> Unrun[o]] /\ Unrun' = [o \in Elems \cup Threads |-> Unrun'[o]]
    BY DEF Unrun
  <2> QED BY <1>1, <1>4, <2>1, <2>2, <2>3
<1>7. BusyOnes' = (BusyOnes \ {Loop}) \cup {x} /\ Loop \in BusyOnes /\ x \notin BusyOnes
  <2>1. Loop \in BusyOnes /\ x \notin BusyOnes /\ Loop \notin BusyOnes' /\ x \in BusyOnes'
    BY <1>1, <1>2, <1>3, <1>4 DEF BusyOnes, LoopCounts, PushSteps
  <2>2. \A o \in Elems \cup Threads : o # Loop /\ o # x => (o \in BusyOnes' <=> o \in BusyOnes)
    BY <1>1, <1>3 DEF BusyOnes
  <2>3. BusyOnes \subseteq Elems \cup Threads /\ BusyOnes' \subseteq Elems \cup Threads
    BY DEF BusyOnes
  <2> QED BY <2>1, <2>2, <2>3
<1> QED BY <1>1, <1>4, <1>5, <1>6, <1>7

\* Serve hands the channel's batch to the goroutine.
LEMMA ServeLoads ==
    ASSUME Types, HandsFit, NEW g \in Goroutines, Serve(g), NEW x, x = at[g]
    PROVE  /\ x \in Elems /\ w' = w /\ added' = added
           /\ \/ Amount' = Amount /\ Unrun' = Unrun /\ BusyOnes' = BusyOnes
              \/ \E n \in Nat : /\ x # g /\ g \in Threads /\ Amount[x] = n /\ Amount[g] = 0 /\ Amount' = [Amount EXCEPT ![x] = 0, ![g] = n]
                                /\ Unrun[x] = n /\ Unrun[g] = 0 /\ Unrun' = [Unrun EXCEPT ![x] = 0, ![g] = n]
                                /\ BusyOnes' = (BusyOnes \ {x}) \cup {g} /\ x \in BusyOnes /\ g \notin BusyOnes
<1>1. /\ x \in Elems /\ w' = w /\ added' = added /\ pc[g] = "serve" /\ ch[x] # <<>> /\ ch[x] \in Payloads
      /\ ch' = [ch EXCEPT ![x] = <<>>] /\ ch \in [Elems -> Payloads] /\ pc'[Loop] = pc[Loop] /\ count'[Loop] = count[Loop]
      /\ \A h \in Goroutines : h # g => pc'[h] = pc[h] /\ count'[h] = count[h]
  BY ThreadKinds DEF Serve, At, Goto, bounds, Types, PcType, ChType, HandType, HandsFit, CountType
<1>2. ch'[x] = <<>> /\ \A e \in Elems : e # x => ch'[e] = ch[e]
  BY <1>1
<1>3. g \in Threads /\ g \notin Elems /\ g # Loop /\ Loop \notin Elems /\ x # g /\ x # Loop /\ x \notin Goroutines
  BY <1>1, ThreadKinds
<1>4. CASE ch[x] = <<Stop>>
  <2>1. pc'[g] = "dead"
    BY <1>1, <1>3, <1>4 DEF Serve, Goto, Types, PcType
  <2>2. Amount' = Amount
    BY <1>1, <1>2, <1>3, <1>4, <2>1 DEF Amount, RunSteps, PushSteps
  <2>3. Unrun' = Unrun
    BY <1>1, <1>2, <1>3, <1>4, <2>1 DEF Unrun
  <2>4. BusyOnes' = BusyOnes
    BY <1>1, <1>2, <1>3, <1>4, <2>1 DEF BusyOnes, BusySteps, PushSteps
  <2> QED BY <1>1, <2>2, <2>3, <2>4
<1>5. CASE ch[x] # <<Stop>>
  <2>1. pc'[g] = "run" /\ count'[g] = ch[x][1]
    BY <1>1, <1>3, <1>5 DEF Serve, Goto, Types, PcType, CountType
  <2>2. ch[x][1] \in Nat
    BY <1>1 DEF Payloads
  <2>3. Amount[x] = ch[x][1] /\ Amount[g] = 0 /\ Amount' = [Amount EXCEPT ![x] = 0, ![g] = ch[x][1]]
    <3>1. /\ Amount[x] = ch[x][1] /\ Amount[g] = 0 /\ Amount'[x] = 0 /\ Amount'[g] = ch[x][1]
      BY <1>1, <1>2, <1>3, <1>5, <2>1 DEF Amount, RunSteps, PushSteps
    <3>2. \A o \in Elems \cup Threads : o # g /\ o # x => Amount'[o] = Amount[o]
      BY <1>1, <1>2 DEF Amount
    <3>3. Amount = [o \in Elems \cup Threads |-> Amount[o]] /\ Amount' = [o \in Elems \cup Threads |-> Amount'[o]]
      BY DEF Amount
    <3> QED BY <1>1, <1>3, <3>1, <3>2, <3>3
  <2>4. Unrun[x] = ch[x][1] /\ Unrun[g] = 0 /\ Unrun' = [Unrun EXCEPT ![x] = 0, ![g] = ch[x][1]]
    <3>1. /\ Unrun[x] = ch[x][1] /\ Unrun[g] = 0 /\ Unrun'[x] = 0 /\ Unrun'[g] = ch[x][1]
      BY <1>1, <1>2, <1>3, <1>5, <2>1 DEF Unrun
    <3>2. \A o \in Elems \cup Threads : o # g /\ o # x => Unrun'[o] = Unrun[o]
      BY <1>1, <1>2 DEF Unrun
    <3>3. Unrun = [o \in Elems \cup Threads |-> Unrun[o]] /\ Unrun' = [o \in Elems \cup Threads |-> Unrun'[o]]
      BY DEF Unrun
    <3> QED BY <1>1, <1>3, <3>1, <3>2, <3>3
  <2>5. BusyOnes' = (BusyOnes \ {x}) \cup {g} /\ x \in BusyOnes /\ g \notin BusyOnes
    <3>1. x \in BusyOnes /\ g \notin BusyOnes /\ x \notin BusyOnes' /\ g \in BusyOnes'
      BY <1>1, <1>2, <1>3, <1>5, <2>1 DEF BusyOnes, BusySteps, PushSteps
    <3>2. \A o \in Elems \cup Threads : o # g /\ o # x => (o \in BusyOnes' <=> o \in BusyOnes)
      BY <1>1, <1>2 DEF BusyOnes
    <3>3. BusyOnes \subseteq Elems \cup Threads /\ BusyOnes' \subseteq Elems \cup Threads
      BY DEF BusyOnes
    <3> QED BY <3>1, <3>2, <3>3
  <2> QED BY <1>1, <1>3, <2>2, <2>3, <2>4, <2>5
<1> QED BY <1>4, <1>5

\* The run leaves the batch counted, and puts at most a part of it back in the queue.
LEMMA RunLoads ==
    ASSUME Types, NEW g \in Goroutines, RunBatch(g)
    PROVE  /\ Amount' = Amount /\ BusyOnes' = BusyOnes /\ Unrun[g] = count[g] /\ Unrun' = [Unrun EXCEPT ![g] = 0]
           /\ w'.cur = w.cur /\ w'.busy = w.busy /\ added' = added /\ w'.queue \in w.queue .. (w.queue + count[g] - 1)
<1>1. /\ pc[g] = "run" /\ pc'[g] = "keep" /\ ch' = ch /\ count' = count /\ pc'[Loop] = pc[Loop]
      /\ \A h \in Goroutines : h # g => pc'[h] = pc[h]
      /\ w'.cur = w.cur /\ w'.busy = w.busy /\ added' = added
  BY ThreadKinds DEF RunBatch, At, Goto, hands, bounds, Types, PcType, WorkerType
<1>2. g \in Threads /\ g \notin Elems /\ g # Loop
  BY ThreadKinds
<1>3. w'.queue \in w.queue .. (w.queue + count[g] - 1)
  <2>1. PICK nanos \in Costs, rest \in 0..(count[g] - 1) : w' = [w EXCEPT !.jobNanos = nanos, !.queue = w.queue + rest]
    BY DEF RunBatch
  <2>2. w'.queue = w.queue + rest
    BY <2>1 DEF Types, WorkerType
  <2>3. w.queue \in Int /\ count[g] \in Int
    BY <1>2 DEF Types, WorkerType, CountType
  <2> QED BY <2>2, <2>3
<1>4. Amount' = Amount
  BY <1>1, <1>2 DEF Amount, RunSteps
<1>5. Unrun[g] = count[g] /\ Unrun' = [Unrun EXCEPT ![g] = 0]
  BY <1>1, <1>2 DEF Unrun
<1>6. BusyOnes' = BusyOnes
  BY <1>1, <1>2 DEF BusyOnes, BusySteps
<1> QED BY <1>1, <1>3, <1>4, <1>5, <1>6

\* Release gives the worker back, and not the batch yet.
LEMMA ReleaseLoads ==
    ASSUME Types, NEW g \in Goroutines, Release(g)
    PROVE  /\ Amount' = Amount /\ Unrun' = Unrun /\ BusyOnes' = BusyOnes \ {g} /\ g \in BusyOnes
           /\ w'.cur = w.cur /\ w'.busy = w.busy - 1
<1>1. /\ pc[g] = "release" /\ pc'[g] = "finish" /\ ch' = ch /\ count' = count /\ pc'[Loop] = pc[Loop]
      /\ \A h \in Goroutines : h # g => pc'[h] = pc[h]
      /\ w'.cur = w.cur /\ w'.busy = w.busy - 1
  BY ThreadKinds DEF Release, At, Goto, hands, Types, PcType, WorkerType
<1>2. g \in Threads /\ g \notin Elems /\ g # Loop
  BY ThreadKinds
<1>3. Amount' = Amount
  BY <1>1, <1>2 DEF Amount, RunSteps
<1>4. Unrun' = Unrun
  BY <1>1, <1>2 DEF Unrun
<1>5. BusyOnes' = BusyOnes \ {g} /\ g \in BusyOnes
  BY <1>1, <1>2 DEF BusyOnes, BusySteps, PushSteps
<1> QED BY <1>1, <1>3, <1>4, <1>5

\* finishJobs gives back the batch.
LEMMA FinishLoads ==
    ASSUME Types, NEW g \in Goroutines, finishJobs(g)
    PROVE  /\ Amount' = [Amount EXCEPT ![g] = 0] /\ Amount[g] = count[g] /\ Unrun' = Unrun /\ BusyOnes' = BusyOnes
           /\ w'.cur = w.cur - count[g] /\ w'.busy = w.busy
<1>1. /\ pc[g] = "finish" /\ pc'[g] = "notify" /\ ch' = ch /\ pc'[Loop] = pc[Loop] /\ count'[Loop] = count[Loop]
      /\ \A h \in Goroutines : h # g => pc'[h] = pc[h] /\ count'[h] = count[h]
      /\ w'.cur = w.cur - count[g] /\ w'.busy = w.busy
  BY ThreadKinds DEF finishJobs, At, Goto, Types, PcType, WorkerType, CountType
<1>2. g \in Threads /\ g \notin Elems /\ g # Loop
  BY ThreadKinds
<1>3. Amount' = [Amount EXCEPT ![g] = 0] /\ Amount[g] = count[g]
  BY <1>1, <1>2 DEF Amount, RunSteps, PushSteps
<1>4. Unrun' = Unrun
  BY <1>1, <1>2 DEF Unrun
<1>5. BusyOnes' = BusyOnes
  BY <1>1, <1>2 DEF BusyOnes, BusySteps, PushSteps
<1> QED BY <1>1, <1>3, <1>4, <1>5

\* w.cur stays the number of jobs handed out.
LEMMA CurFitsKept ==
    ASSUME Types, HandsFit, CountFits, CurFits, [Next]_vars
    PROVE  CurFits'
<1>1. Loop \in Owners /\ Goroutines \subseteq Owners /\ Elems \subseteq Owners /\ w.cur \in Int
  BY ThreadKinds DEF Owners, Types, WorkerType
<1>2. Amount \in [Owners -> Nat]
  BY AmountTypes
<1>3. ASSUME Amount' = Amount, w'.cur = w.cur PROVE CurFits'
  BY <1>3, Zenon DEF CurFits, Units
<1>4. CASE Reserve
  <2>1. /\ Amount' = [Amount EXCEPT ![Loop] = count[Loop]] /\ count[Loop] \in Nat /\ Amount[Loop] = 0
        /\ w'.cur = w.cur + count[Loop]
    BY <1>4, ReserveLoads
  <2>2. w'.cur = w.cur - Amount[Loop] + count[Loop]
    BY <1>1, <2>1
  <2> QED BY <1>1, <2>1, <2>2, AmountStep
<1>5. CASE Fill
  <2>1. CASE Amount' = Amount /\ UNCHANGED w
    BY <1>3, <2>1
  <2>2. ASSUME NEW n \in Nat \ {0}, Amount' = [Amount EXCEPT ![Loop] = n],
               w'.cur = w.cur - (count[Loop] - n)
        PROVE  CurFits'
    <3>1. Amount[Loop] = count[Loop] /\ Amount[Loop] \in Nat /\ n \in Nat
      BY <1>1, <1>2, <1>5, FillLoads
    <3>2. w'.cur = w.cur - Amount[Loop] + n
      BY <1>1, <2>2, <3>1
    <3> QED BY <1>1, <2>2, <3>1, <3>2, AmountStep
  <2> QED BY <1>5, <2>1, <2>2, FillLoads
<1>6. CASE Undo
  <2>1. Amount' = [Amount EXCEPT ![Loop] = 0] /\ w'.cur = w.cur - Amount[Loop] /\ Amount[Loop] \in Nat
    BY <1>1, <1>2, <1>6, UndoLoads
  <2>2. w'.cur = w.cur - Amount[Loop] + 0
    BY <1>1, <2>1
  <2> QED BY <1>1, <2>1, <2>2, AmountStep
<1>7. ASSUME NEW g \in Goroutines, finishJobs(g) PROVE CurFits'
  <2>1. Amount' = [Amount EXCEPT ![g] = 0] /\ w'.cur = w.cur - Amount[g] /\ Amount[g] \in Nat
    BY <1>1, <1>2, <1>7, FinishLoads
  <2>2. w'.cur = w.cur - Amount[g] + 0
    BY <1>1, <2>1
  <2> QED BY <1>1, <2>1, <2>2, AmountStep
<1>8. CASE Send
  <2> SUFFICES ASSUME NEW x, x = node[Loop] PROVE CurFits'
    OBVIOUS
  <2>1. /\ x \in Elems /\ count[Loop] \in Nat /\ x # Loop /\ Amount[x] = 0 /\ Amount[Loop] = count[Loop]
        /\ Amount' = [Amount EXCEPT ![Loop] = 0, ![x] = count[Loop]] /\ w' = w
    BY <1>8, SendLoads
  <2>2. Loop \in Owners /\ x \in Owners /\ w'.cur = w.cur
    BY <1>1, <2>1
  <2>3. Amount' = [Amount EXCEPT ![Loop] = 0, ![x] = Amount[Loop]]
    BY <2>1
  <2> QED BY <2>1, <2>2, <2>3, AmountMove
<1>9. ASSUME NEW g \in Goroutines, Serve(g) PROVE CurFits'
  <2> SUFFICES ASSUME NEW x, x = at[g] PROVE CurFits'
    OBVIOUS
  <2>1. x \in Elems /\ w' = w
    BY <1>9, ServeLoads
  <2>2. CASE Amount' = Amount
    BY <1>3, <2>1, <2>2
  <2>3. ASSUME NEW n \in Nat, x # g, Amount[x] = n, Amount[g] = 0,
               Amount' = [Amount EXCEPT ![x] = 0, ![g] = n]
        PROVE  CurFits'
    <3>1. g \in Owners /\ x \in Owners /\ w'.cur = w.cur
      BY <1>1, <2>1
    <3>2. Amount' = [Amount EXCEPT ![x] = 0, ![g] = Amount[x]]
      BY <2>3
    <3> QED BY <2>3, <3>1, <3>2, AmountMove
  <2> QED BY <1>9, <2>2, <2>3, ServeLoads
<1>10. ASSUME NEW g \in Goroutines, RunBatch(g) \/ Release(g) PROVE CurFits'
  BY <1>3, <1>10, RunLoads, ReleaseLoads
<1>11. Even => Amount' = Amount
  BY EvenLoads
<1> QED BY <1>3, <1>4, <1>5, <1>6, <1>7, <1>8, <1>9, <1>10, <1>11, LoadFrame, CounterFrame
           DEF LoadMoves, CurMoves

\* The backlog and the jobs taken off it that have not run are at most the jobs added.
LEMMA QueueFitsKept ==
    ASSUME Types, HandsFit, CountFits, QueueFits, [Next]_vars
    PROVE  QueueFits'
<1> DEFINE u == Cardinality(Units(Unrun))
<1>1. Loop \in Owners /\ Goroutines \subseteq Owners /\ Elems \subseteq Owners /\ w.queue \in Nat /\ added \in Nat
  BY ThreadKinds, PoolAssumption DEF Owners, Types, WorkerType, BoundType
<1>2. Unrun \in [Owners -> Nat] /\ u \in Nat /\ w.queue + u <= added
  BY AmountTypes, UnitsFinite DEF QueueFits
<1>3. ASSUME NEW v, Cardinality(Units(Unrun')) = v, w'.queue + v <= added' PROVE QueueFits'
  BY <1>3, Zenon DEF QueueFits, Units
<1>4. ASSUME Unrun' = Unrun PROVE Cardinality(Units(Unrun')) = u
  BY <1>4
<1>5. ASSUME NEW o \in Owners, NEW a \in Nat, Unrun' = [Unrun EXCEPT ![o] = a]
      PROVE  Cardinality(Units(Unrun')) = u - Unrun[o] + a
  BY <1>2, <1>5, UnitsChange
<1> HIDE DEF u
<1>6. ASSUME NEW o \in Owners, NEW p \in Owners, NEW a \in Nat, o # p, Unrun[o] = a, Unrun[p] = 0,
             Unrun' = [Unrun EXCEPT ![o] = 0, ![p] = a], w' = w, added' = added
      PROVE  QueueFits'
  <2>1. Cardinality(Units(Unrun')) = u - Unrun[o] + 0 - Unrun[p] + a
    <3>1. Unrun \in [Owners -> Nat] /\ 0 \in Nat
      BY <1>2
    <3>2. Cardinality(Units([Unrun EXCEPT ![o] = 0, ![p] = a])) = Cardinality(Units(Unrun)) - Unrun[o] + 0 - Unrun[p] + a
      BY <3>1, <1>6, UnitsChangeTwo, ZenonT(40)
    <3> QED BY <1>6, <3>2 DEF u
  <2>2. Cardinality(Units(Unrun')) = u
    BY <1>2, <1>6, <2>1
  <2> QED BY <1>2, <1>3, <1>6, <2>2
<1>7. CASE Fill
  <2>1. CASE Unrun' = Unrun /\ UNCHANGED <<w, added>>
    BY <1>2, <1>3, <1>4, <2>1
  <2>2. ASSUME NEW n \in Nat \ {0}, Unrun' = [Unrun EXCEPT ![Loop] = n], w'.queue = w.queue - n,
               added' = added
        PROVE  QueueFits'
    <3>1. Unrun[Loop] = 0 /\ n \in Nat
      BY <1>7, FillLoads
    <3>2. Cardinality(Units(Unrun')) = u - Unrun[Loop] + n
      BY <1>1, <1>5, <2>2, <3>1
    <3>3. w'.queue + (u - Unrun[Loop] + n) <= added'
      BY <1>1, <1>2, <2>2, <3>1
    <3> QED BY <1>3, <3>2, <3>3
  <2> QED BY <1>7, <2>1, <2>2, FillLoads
<1>8. ASSUME NEW g \in Goroutines, RunBatch(g) PROVE QueueFits'
  <2>1. /\ Unrun[g] = count[g] /\ Unrun' = [Unrun EXCEPT ![g] = 0] /\ added' = added
        /\ w'.queue \in w.queue .. (w.queue + count[g] - 1) /\ Unrun[g] \in Nat
    BY <1>1, <1>2, <1>8, RunLoads
  <2>2. Cardinality(Units(Unrun')) = u - Unrun[g] + 0
    BY <1>1, <1>5, <2>1
  <2>3. w'.queue + (u - Unrun[g] + 0) <= added'
    BY <1>1, <1>2, <2>1
  <2> QED BY <1>3, <2>2, <2>3
<1>9. CASE Send
  <2> SUFFICES ASSUME NEW x, x = node[Loop] PROVE QueueFits'
    OBVIOUS
  <2>1. /\ x \in Elems /\ count[Loop] \in Nat /\ x # Loop /\ Unrun[x] = 0 /\ Unrun[Loop] = count[Loop]
        /\ Unrun' = [Unrun EXCEPT ![Loop] = 0, ![x] = count[Loop]] /\ w' = w /\ added' = added
    BY <1>9, SendLoads
  <2> QED BY <1>1, <1>6, <2>1
<1>10. ASSUME NEW g \in Goroutines, Serve(g) PROVE QueueFits'
  <2> SUFFICES ASSUME NEW x, x = at[g] PROVE QueueFits'
    OBVIOUS
  <2>1. x \in Elems /\ w' = w /\ added' = added
    BY <1>10, ServeLoads
  <2>2. CASE Unrun' = Unrun
    BY <1>2, <1>3, <1>4, <2>1, <2>2
  <2>3. ASSUME NEW n \in Nat, x # g, Unrun[x] = n, Unrun[g] = 0,
               Unrun' = [Unrun EXCEPT ![x] = 0, ![g] = n]
        PROVE  QueueFits'
    BY <1>1, <1>6, <2>1, <2>3
  <2> QED BY <1>10, <2>2, <2>3, ServeLoads
<1>11. CASE Unrun' = Unrun
  <2>1. Cardinality(Units(Unrun')) = u
    BY <1>4, <1>11
  <2>2. CASE w'.queue = w.queue /\ added' = added
    BY <1>2, <1>3, <2>1, <2>2
  <2>3. CASE Add
    <3>1. w'.queue = w.queue + 1 /\ added' = added + 1
      BY <2>3 DEF Add, Types, WorkerType
    <3>2. w'.queue + u <= added'
      BY <1>1, <1>2, <3>1
    <3> QED BY <1>3, <2>1, <3>2
  <2>4. CASE Purge
    <3>1. w'.queue = 0 /\ added' = added
      BY <2>4 DEF Purge, Types, WorkerType
    <3>2. w'.queue + u <= added'
      BY <1>1, <1>2, <3>1
    <3> QED BY <1>3, <2>1, <3>2
  <2> QED BY <1>7, <1>8, <2>2, <2>3, <2>4, CounterFrame DEF QueueMoves
<1>12. Even => Unrun' = Unrun
  BY EvenLoads
<1>13. Reserve => Unrun' = Unrun
  BY ReserveLoads
<1>14. Undo => Unrun' = Unrun
  BY UndoLoads
<1>15. ASSUME NEW g \in Goroutines, Release(g) \/ finishJobs(g) PROVE Unrun' = Unrun
  BY <1>15, ReleaseLoads, FinishLoads
<1> QED BY <1>7, <1>8, <1>9, <1>10, <1>11, <1>12, <1>13, <1>14, <1>15, LoadFrame DEF LoadMoves

\* Finitely many workers are busy.
LEMMA BusyFinite ==
    IsFiniteSet(BusyOnes) /\ Cardinality(BusyOnes) \in Nat
<1>1. BusyOnes \subseteq Owners
  BY DEF BusyOnes, Owners
<1>2. IsFiniteSet(BusyOnes)
  BY <1>1, FiniteOwners, FS_Subset, Zenon
<1> QED BY <1>2, FS_CardinalityType, Zenon

\* The loop plans a batch: it has seen room for one more worker.
PlanSteps == {"planBusy", "planLen", "reserve"} \cup PopSteps
Plans == count[Loop] # Removing /\ pc[Loop] \in PlanSteps
PlansOrChecks == Plans' => Plans \/ w.busy < Max(Limits)

\* A plan begins with the check that there is room.
LEMMA PlansFrame ==
    ASSUME Types, CountFits, [Next]_vars
    PROVE  PlansOrChecks
<1> USE DEF stack, hands, bounds, Goto, Hold, At, PlansOrChecks, Plans, PlanSteps, Types, PcType,
      CountType, GoSteps, LoopSteps, ReapSteps, CallSteps, PushSteps, PopSteps
<1>1. ASSUME NEW t \in Threads, PushCount(t) PROVE PlansOrChecks
  BY <1>1, ThreadKinds DEF PushCount
<1>2. ASSUME NEW t \in Threads, PushLoad(t) PROVE PlansOrChecks
  BY <1>2, ThreadKinds DEF PushLoad
<1>3. ASSUME NEW t \in Threads, PushCas(t) PROVE PlansOrChecks
  BY <1>3, ThreadKinds DEF PushCas, Pushed
<1>4. ASSUME NEW t \in Threads, PopLoad(t) PROVE PlansOrChecks
  BY <1>4, ThreadKinds DEF PopLoad
<1>5. ASSUME NEW t \in Threads, PopCas(t) PROVE PlansOrChecks
  BY <1>5, ThreadKinds DEF PopCas
<1>6. ASSUME NEW t \in Threads, PopCount(t) PROVE PlansOrChecks
  BY <1>6, ThreadKinds DEF PopCount
<1>7. CASE Select
  BY <1>7, ThreadKinds DEF Select
<1>8. CASE Check
  <2>1. w.busy \in Int /\ w.concurrency \in Limits /\ count' = count
    BY <1>8 DEF Types, WorkerType, Check, hands
  <2>2. w.concurrency \in Nat /\ Max(Limits) \in Nat /\ w.concurrency <= Max(Limits)
    BY <2>1, LargestLimit
  <2>3. pc'[Loop] = "select" \/ w.busy < w.concurrency
    BY <1>8, ThreadKinds DEF Check, Goto, Types, PcType
  <2> QED BY <2>1, <2>2, <2>3 DEF PlansOrChecks, Plans, PlanSteps, PopSteps
<1>9. CASE PlanBusy
  BY <1>9, ThreadKinds DEF PlanBusy, CountFits
<1>10. CASE PlanLen
  BY <1>10, ThreadKinds DEF PlanLen
<1>11. CASE PlanNode
  BY <1>11, ThreadKinds DEF PlanNode, initPoolNode
<1>12. CASE Reserve
  BY <1>12, ThreadKinds DEF Reserve
<1>13. CASE Admit
  BY <1>13, ThreadKinds DEF Admit
<1>14. CASE Fill
  BY <1>14, ThreadKinds DEF Fill
<1>15. CASE Undo
  BY <1>15, ThreadKinds DEF Undo
<1>16. CASE Send
  BY <1>16, ThreadKinds DEF Send
<1>17. CASE Drain
  BY <1>17, ThreadKinds DEF Drain
<1>18. CASE RemoveAll
  BY <1>18, ThreadKinds DEF RemoveAll, StopAndPut, Removing
<1>19. ASSUME NEW g \in Goroutines, Serve(g) PROVE PlansOrChecks
  BY <1>19, ThreadKinds DEF Serve
<1>20. ASSUME NEW g \in Goroutines, RunBatch(g) PROVE PlansOrChecks
  BY <1>20, ThreadKinds DEF RunBatch
<1>21. ASSUME NEW g \in Goroutines, freePoolNode(g) PROVE PlansOrChecks
  BY <1>21, ThreadKinds DEF freePoolNode, StopAndPut
<1>22. ASSUME NEW g \in Goroutines, Release(g) PROVE PlansOrChecks
  BY <1>22, ThreadKinds DEF Release
<1>23. ASSUME NEW g \in Goroutines, finishJobs(g) PROVE PlansOrChecks
  BY <1>23, ThreadKinds DEF finishJobs
<1>24. ASSUME NEW g \in Goroutines, Notify(g) PROVE PlansOrChecks
  BY <1>24, ThreadKinds DEF Notify
<1>25. CASE Tick
  BY <1>25, ThreadKinds DEF Tick, NoWalk
<1>26. CASE Prune
  BY <1>26, ThreadKinds DEF Prune, Dropped
<1>27. CASE Relink
  BY <1>27, ThreadKinds DEF Relink, Dropped
<1>28. CASE PruneDone
  BY <1>28, ThreadKinds DEF PruneDone
<1>29. CASE Expire
  BY <1>29, ThreadKinds DEF Expire, StopAndPut, NoWalk
<1>30. CASE Add
  BY <1>30, ThreadKinds DEF Add
<1>31. CASE Purge
  BY <1>31, ThreadKinds DEF Purge
<1>32. ASSUME NEW c \in Callers, NEW m \in Limits, TunePool(c, m) PROVE PlansOrChecks
  BY <1>32, ThreadKinds DEF TunePool
<1>33. ASSUME NEW c \in Callers, TuneLen(c) PROVE PlansOrChecks
  BY <1>33, ThreadKinds DEF TuneLen
<1>34. ASSUME NEW c \in Callers, TuneNode(c) PROVE PlansOrChecks
  BY <1>34, ThreadKinds DEF TuneNode, StopAndPut
<1>35. ASSUME NEW c \in Callers, StopWorker(c) PROVE PlansOrChecks
  BY <1>35, ThreadKinds DEF StopWorker
<1>36. ASSUME NEW c \in Callers, Start(c) PROVE PlansOrChecks
  BY <1>36, ThreadKinds DEF Start, initPoolNode
<1>37. ASSUME NEW c \in Callers, Started(c) PROVE PlansOrChecks
  BY <1>37, ThreadKinds DEF Started
<1>38. CASE UNCHANGED vars
  BY <1>38 DEF vars, hands, PlansOrChecks, Plans
<1> QED
  BY <1>1, <1>2, <1>3, <1>4, <1>5, <1>6, <1>7, <1>8, <1>9, <1>10, <1>11, <1>12, <1>13, <1>14,
     <1>15, <1>16, <1>17, <1>18, <1>19, <1>20, <1>21, <1>22, <1>23, <1>24, <1>25, <1>26, <1>27,
     <1>28, <1>29, <1>30, <1>31, <1>32, <1>33, <1>34, <1>35, <1>36, <1>37, <1>38
     DEF Next, StackStep, LoopStep, GoStep, ReapStep, CallStep

\* w.busy counts the reserved worker, the batches sent and the goroutines that
\* have not released theirs: never more than the largest limit.
LEMMA BusyFitsKept ==
    ASSUME Types, HandsFit, CountFits, BusyFits, [Next]_vars
    PROVE  BusyFits'
<1> DEFINE b == Cardinality(BusyOnes)
           M == Max(Limits)
<1>1. w.busy = b /\ b \in Nat /\ M \in Nat /\ b <= M /\ (Plans => b < M)
  BY BusyFinite, LargestLimit DEF BusyFits, Plans, PlanSteps
<1>2. PlansOrChecks
  BY PlansFrame
<1>3. ASSUME w'.busy <= b, w'.busy = Cardinality(BusyOnes)', w'.busy \in Int PROVE BusyFits'
  <2>1. w'.busy <= M /\ (Plans' => w'.busy < M)
    BY <1>1, <1>2, <1>3 DEF PlansOrChecks
  <2> QED BY <1>3, <2>1 DEF BusyFits, Plans, PlanSteps
<1>4. ASSUME NEW o, NEW p, o \in BusyOnes, p \notin BusyOnes, BusyOnes' = (BusyOnes \ {o}) \cup {p}
      PROVE  Cardinality(BusyOnes)' = b
  <2> DEFINE B == BusyOnes \ {o}
  <2>1. IsFiniteSet(B) /\ Cardinality(B) = b - 1
    BY <1>4, BusyFinite, FS_RemoveElement, Zenon
  <2>2. p \notin B
    BY <1>4
  <2>3. Cardinality(B \cup {p}) = Cardinality(B) + 1
    BY <2>1, <2>2, FS_AddElement, Zenon
  <2> QED BY <1>1, <1>4, <2>1, <2>3
<1>5. ASSUME NEW o, o \in BusyOnes, BusyOnes' = BusyOnes \ {o} PROVE Cardinality(BusyOnes)' = b - 1
  BY <1>5, BusyFinite, FS_RemoveElement, Zenon
<1>6. ASSUME BusyOnes' = BusyOnes PROVE Cardinality(BusyOnes)' = b
  BY <1>6
<1> HIDE DEF b, M
<1>7. CASE Reserve
  <2>1. BusyOnes' = BusyOnes \cup {Loop} /\ Loop \notin BusyOnes /\ w'.busy = w.busy + 1
    BY <1>7, ReserveLoads
  <2>2. Cardinality(BusyOnes)' = b + 1
    BY <2>1, BusyFinite, FS_AddElement, Zenon DEF b
  <2>3. Plans /\ ~Plans'
    <3>1. pc[Loop] = "reserve" /\ pc'[Loop] = "admit"
      BY <1>7, ThreadKinds DEF Reserve, At, Goto, Types, PcType
    <3>2. count[Loop] # Removing
      BY <3>1, ThreadKinds DEF CountFits, PopSteps
    <3> QED BY <3>1, <3>2 DEF Plans, PlanSteps, PopSteps
  <2>4. w'.busy = b + 1 /\ b + 1 <= M
    BY <1>1, <2>1, <2>3
  <2> QED BY <2>2, <2>3, <2>4 DEF BusyFits, Plans, PlanSteps, M
<1>8. CASE Undo
  <2>1. Cardinality(BusyOnes)' = b - 1 /\ w'.busy = w.busy - 1
    BY <1>5, <1>8, UndoLoads
  <2> QED BY <1>1, <1>3, <2>1
<1>9. ASSUME NEW g \in Goroutines, Release(g) PROVE BusyFits'
  <2>1. Cardinality(BusyOnes)' = b - 1 /\ w'.busy = w.busy - 1
    BY <1>5, <1>9, ReleaseLoads
  <2> QED BY <1>1, <1>3, <2>1
<1>10. CASE w'.busy = w.busy /\ Cardinality(BusyOnes)' = b
  BY <1>1, <1>3, <1>10
<1>11. CASE Send
  <2> SUFFICES ASSUME NEW x, x = node[Loop] PROVE BusyFits'
    OBVIOUS
  <2>1. BusyOnes' = (BusyOnes \ {Loop}) \cup {x} /\ Loop \in BusyOnes /\ x \notin BusyOnes /\ w' = w
    BY <1>11, SendLoads
  <2>2. Cardinality(BusyOnes)' = b
    BY <1>4, <2>1
  <2> QED BY <1>10, <2>1, <2>2
<1>12. ASSUME NEW g \in Goroutines, Serve(g) PROVE BusyFits'
  <2> SUFFICES ASSUME NEW x, x = at[g] PROVE BusyFits'
    OBVIOUS
  <2>1. w' = w /\ \/ BusyOnes' = BusyOnes
                  \/ BusyOnes' = (BusyOnes \ {x}) \cup {g} /\ x \in BusyOnes /\ g \notin BusyOnes
    BY <1>12, ServeLoads
  <2>2. Cardinality(BusyOnes)' = b
    BY <1>4, <1>6, <2>1
  <2> QED BY <1>10, <2>1, <2>2
<1>13. ASSUME BusyOnes' = BusyOnes PROVE BusyFits'
  <2>1. Cardinality(BusyOnes)' = b
    BY <1>6, <1>13
  <2> QED BY <1>7, <1>8, <1>9, <1>10, <2>1, CounterFrame DEF BusyMoves
<1>14. Even => BusyOnes' = BusyOnes
  BY EvenLoads
<1>15. Fill => BusyOnes' = BusyOnes
  BY FillLoads
<1>16. ASSUME NEW g \in Goroutines, RunBatch(g) \/ finishJobs(g) PROVE BusyOnes' = BusyOnes
  BY <1>16, RunLoads, FinishLoads
<1> QED BY <1>7, <1>8, <1>9, <1>11, <1>12, <1>13, <1>14, <1>15, <1>16, LoadFrame DEF LoadMoves

-----------------------------------------------------------------------------
(* Stop, and what it leaves *)

\* With the loop at the removal of the nodes, or gone, no batch comes up.
LEMMA QuietKept ==
    ASSUME Types, HandsFit, Quiet, pc[Loop] \in PopSteps \cup {"over"}, [Next]_vars
    PROVE  Quiet'
<1> USE DEF stack, hands, bounds, Goto, Hold, At, Quiet, Types, PcType, GoSteps, LoopSteps, ReapSteps,
      CallSteps, PushSteps, PopSteps, ChType
<1>1. ASSUME NEW t \in Threads, PushCount(t) PROVE Quiet'
  BY <1>1, ThreadKinds DEF PushCount
<1>2. ASSUME NEW t \in Threads, PushLoad(t) PROVE Quiet'
  BY <1>2, ThreadKinds DEF PushLoad
<1>3. ASSUME NEW t \in Threads, PushCas(t) PROVE Quiet'
  BY <1>3, ThreadKinds DEF PushCas, Pushed
<1>4. ASSUME NEW t \in Threads, PopLoad(t) PROVE Quiet'
  BY <1>4, ThreadKinds DEF PopLoad
<1>5. ASSUME NEW t \in Threads, PopCas(t) PROVE Quiet'
  BY <1>5, ThreadKinds DEF PopCas
<1>6. ASSUME NEW t \in Threads, PopCount(t) PROVE Quiet'
  BY <1>6, ThreadKinds DEF PopCount
<1>7. CASE Select
  BY <1>7, ThreadKinds DEF Select
<1>8. CASE Check
  BY <1>8, ThreadKinds DEF Check
<1>9. CASE PlanBusy
  BY <1>9, ThreadKinds DEF PlanBusy
<1>10. CASE PlanLen
  BY <1>10, ThreadKinds DEF PlanLen
<1>11. CASE PlanNode
  BY <1>11, ThreadKinds DEF PlanNode, initPoolNode
<1>12. CASE Reserve
  BY <1>12, ThreadKinds DEF Reserve
<1>13. CASE Admit
  BY <1>13, ThreadKinds DEF Admit
<1>14. CASE Fill
  BY <1>14, ThreadKinds DEF Fill
<1>15. CASE Undo
  BY <1>15, ThreadKinds DEF Undo
<1>16. CASE Send
  BY <1>16, ThreadKinds DEF Send
<1>17. CASE Drain
  BY <1>17, ThreadKinds DEF Drain
<1>18. CASE RemoveAll
  BY <1>18, ThreadKinds DEF RemoveAll, StopAndPut
<1>19. ASSUME NEW g \in Goroutines, Serve(g) PROVE Quiet'
  <2>1. at[g] \in Elems /\ ch[at[g]] # <<>>
    BY <1>19, ThreadKinds DEF Serve, At, HandsFit, Types, HandType
  <2>2. ch[at[g]] = <<Stop>>
    BY <2>1 DEF Quiet
  <2>3. ch' = [ch EXCEPT ![at[g]] = <<>>] /\ pc' = [pc EXCEPT ![g] = "dead"]
    BY <1>19, <2>2 DEF Serve, Goto
  <2> QED BY <2>3, ThreadKinds DEF Quiet, Types, PcType, ChType
<1>20. ASSUME NEW g \in Goroutines, RunBatch(g) PROVE Quiet'
  BY <1>20, ThreadKinds DEF RunBatch
<1>21. ASSUME NEW g \in Goroutines, freePoolNode(g) PROVE Quiet'
  BY <1>21, ThreadKinds DEF freePoolNode, StopAndPut
<1>22. ASSUME NEW g \in Goroutines, Release(g) PROVE Quiet'
  BY <1>22, ThreadKinds DEF Release
<1>23. ASSUME NEW g \in Goroutines, finishJobs(g) PROVE Quiet'
  BY <1>23, ThreadKinds DEF finishJobs
<1>24. ASSUME NEW g \in Goroutines, Notify(g) PROVE Quiet'
  BY <1>24, ThreadKinds DEF Notify
<1>25. CASE Tick
  BY <1>25, ThreadKinds DEF Tick, NoWalk
<1>26. CASE Prune
  BY <1>26, ThreadKinds DEF Prune, Dropped
<1>27. CASE Relink
  BY <1>27, ThreadKinds DEF Relink, Dropped
<1>28. CASE PruneDone
  BY <1>28, ThreadKinds DEF PruneDone
<1>29. CASE Expire
  BY <1>29, ThreadKinds DEF Expire, StopAndPut, NoWalk
<1>30. CASE Add
  BY <1>30, ThreadKinds DEF Add
<1>31. CASE Purge
  BY <1>31, ThreadKinds DEF Purge
<1>32. ASSUME NEW c \in Callers, NEW m \in Limits, TunePool(c, m) PROVE Quiet'
  BY <1>32, ThreadKinds DEF TunePool
<1>33. ASSUME NEW c \in Callers, TuneLen(c) PROVE Quiet'
  BY <1>33, ThreadKinds DEF TuneLen
<1>34. ASSUME NEW c \in Callers, TuneNode(c) PROVE Quiet'
  BY <1>34, ThreadKinds DEF TuneNode, StopAndPut
<1>35. ASSUME NEW c \in Callers, StopWorker(c) PROVE Quiet'
  BY <1>35, ThreadKinds DEF StopWorker
<1>36. ASSUME NEW c \in Callers, Start(c) PROVE Quiet'
  BY <1>36, ThreadKinds DEF Start, initPoolNode
<1>37. ASSUME NEW c \in Callers, Started(c) PROVE Quiet'
  BY <1>37, ThreadKinds DEF Started
<1>38. CASE UNCHANGED vars
  BY <1>38 DEF vars, Quiet
<1> QED
  BY <1>1, <1>2, <1>3, <1>4, <1>5, <1>6, <1>7, <1>8, <1>9, <1>10, <1>11, <1>12, <1>13, <1>14,
     <1>15, <1>16, <1>17, <1>18, <1>19, <1>20, <1>21, <1>22, <1>23, <1>24, <1>25, <1>26, <1>27,
     <1>28, <1>29, <1>30, <1>31, <1>32, <1>33, <1>34, <1>35, <1>36, <1>37, <1>38
     DEF Next, StackStep, LoopStep, GoStep, ReapStep, CallStep

\* An empty stack stays empty when nobody pushes.
LEMMA HeadStays ==
    ASSUME Types, HandsFit, NEW loc, NEW r, NEW n, Located(loc, r, n), Quiet, head = Nil,
           pc[Loop] \in PopSteps \cup {"over"}, \A c \in Callers : pc[c] \notin PushSteps, [Next]_vars
    PROVE  head' = Nil
<1>1. \A t \in Threads : pc[t] \notin PushSteps
  BY ThreadKinds DEF Quiet, PushSteps, PopSteps, Types, PcType, ReapSteps
<1>2. ASSUME NEW t \in Threads, PushLoad(t) \/ PushCas(t) PROVE FALSE
  BY <1>1, <1>2 DEF PushLoad, PushCas, At, PushSteps
<1>3. ASSUME NEW t \in Threads, PopCas(t) PROVE head' = Nil
  <2>1. seen[t][1] \in Elems
    BY <1>3 DEF PopCas, At, Located, SeenStands
  <2> QED BY <1>3, <2>1, ThreadKinds DEF PopCas
<1>4. CASE Prune
  BY <1>4 DEF Prune
<1>5. CASE Relink
  BY <1>5 DEF Relink
<1> QED BY <1>2, <1>3, <1>4, <1>5, Frames DEF LinksMoves

\* The parts of StopFits: the status the loop's and the callers' steps stand for ...
StatusFits ==
    /\ pc[Loop] = "drain" \/ count[Loop] = Removing => w.status = "stopping"
    /\ w.status = "stopped" => pc[Loop] = "over"
    /\ \A c \in Callers : pc[c] \in StartSteps => w.status = "starting"
    /\ \A c, d \in Callers : pc[c] \in StartSteps /\ pc[d] \in StartSteps => c = d

\* ... and what is left then.
LeftFits ==
    /\ count[Loop] = Removing => Quiet
    /\ count[Loop] = Removing /\ pc[Loop] = "popped" /\ node[Loop] = Nil => head = Nil
    /\ w.status = "stopped" => Quiet /\ head = Nil

\* StopFits in two halves.
LEMMA StopFitsIs ==
    /\ StopFits <=> StatusFits /\ LeftFits
    /\ StopFits' <=> StatusFits' /\ LeftFits'
BY Zenon DEF StopFits, StatusFits, LeftFits

\* The status changes only where the steps that stand for the old one are over.
LEMMA StatusFitsKept ==
    ASSUME Types, HandsFit, CountFits, StatusFits, [Next]_vars
    PROVE  StatusFits'
<1> USE DEF stack, hands, bounds, Goto, Hold, At, StatusFits, StartSteps, Types, PcType, GoSteps,
      LoopSteps, ReapSteps, CallSteps, PushSteps, PopSteps, CountType, WorkerType, CountFits,
      Active, Removing
<1>1. ASSUME NEW t \in Threads, PushCount(t) PROVE StatusFits'
  BY <1>1, ThreadKinds DEF PushCount
<1>2. ASSUME NEW t \in Threads, PushLoad(t) PROVE StatusFits'
  BY <1>2, ThreadKinds DEF PushLoad
<1>3. ASSUME NEW t \in Threads, PushCas(t) PROVE StatusFits'
  BY <1>3, ThreadKinds DEF PushCas, Pushed
<1>4. ASSUME NEW t \in Threads, PopLoad(t) PROVE StatusFits'
  BY <1>4, ThreadKinds DEF PopLoad
<1>5. ASSUME NEW t \in Threads, PopCas(t) PROVE StatusFits'
  BY <1>5, ThreadKinds DEF PopCas
<1>6. ASSUME NEW t \in Threads, PopCount(t) PROVE StatusFits'
  BY <1>6, ThreadKinds DEF PopCount
<1>7. CASE Select
  BY <1>7, ThreadKinds DEF Select
<1>8. CASE Check
  BY <1>8, ThreadKinds DEF Check
<1>9. CASE PlanBusy
  BY <1>9, ThreadKinds DEF PlanBusy
<1>10. CASE PlanLen
  BY <1>10, ThreadKinds DEF PlanLen
<1>11. CASE PlanNode
  BY <1>11, ThreadKinds, BatchSize DEF PlanNode, initPoolNode
<1>12. CASE Reserve
  BY <1>12, ThreadKinds DEF Reserve
<1>13. CASE Admit
  BY <1>13, ThreadKinds DEF Admit
<1>14. CASE Fill
  <2>1. w'.status = w.status /\ \A t \in Threads : t # Loop => pc'[t] = pc[t]
    BY <1>14 DEF Fill, Goto, Types, WorkerType, PcType
  <2>2. pc[Loop] = "fill" /\ pc'[Loop] \in {"push", "send", "sendLast"} /\ count'[Loop] >= 1
    <3>1. count[Loop] >= 1
      BY <1>14 DEF Fill, At, CountFits, LoopCounts
    <3> QED BY <1>14, <3>1, FillIs
  <2>3. count'[Loop] # Removing
    BY <2>2 DEF Removing
  <2> QED BY <2>1, <2>2, <2>3, ThreadKinds DEF StatusFits
<1>15. CASE Undo
  BY <1>15, ThreadKinds DEF Undo
<1>16. CASE Send
  BY <1>16, ThreadKinds DEF Send
<1>17. CASE Drain
  BY <1>17, ThreadKinds DEF Drain
<1>18. CASE RemoveAll
  BY <1>18, ThreadKinds DEF RemoveAll, StopAndPut
<1>19. ASSUME NEW g \in Goroutines, Serve(g) PROVE StatusFits'
  BY <1>19, ThreadKinds DEF Serve
<1>20. ASSUME NEW g \in Goroutines, RunBatch(g) PROVE StatusFits'
  <2>1. w'.status = w.status /\ count' = count
    BY <1>20 DEF RunBatch, hands, Types, WorkerType
  <2>2. \A t \in Threads : t \notin Goroutines => pc'[t] = pc[t]
    BY <1>20 DEF RunBatch, Goto, Types, PcType
  <2> QED BY <2>1, <2>2, ThreadKinds DEF StatusFits
<1>21. ASSUME NEW g \in Goroutines, freePoolNode(g) PROVE StatusFits'
  BY <1>21, ThreadKinds DEF freePoolNode, StopAndPut
<1>22. ASSUME NEW g \in Goroutines, Release(g) PROVE StatusFits'
  BY <1>22, ThreadKinds DEF Release
<1>23. ASSUME NEW g \in Goroutines, finishJobs(g) PROVE StatusFits'
  BY <1>23, ThreadKinds DEF finishJobs
<1>24. ASSUME NEW g \in Goroutines, Notify(g) PROVE StatusFits'
  BY <1>24, ThreadKinds DEF Notify
<1>25. CASE Tick
  BY <1>25, ThreadKinds DEF Tick, NoWalk
<1>26. CASE Prune
  BY <1>26, ThreadKinds DEF Prune, Dropped
<1>27. CASE Relink
  BY <1>27, ThreadKinds DEF Relink, Dropped
<1>28. CASE PruneDone
  BY <1>28, ThreadKinds DEF PruneDone
<1>29. CASE Expire
  BY <1>29, ThreadKinds DEF Expire, StopAndPut, NoWalk
<1>30. CASE Add
  BY <1>30, ThreadKinds DEF Add
<1>31. CASE Purge
  BY <1>31, ThreadKinds DEF Purge
<1>32. ASSUME NEW c \in Callers, NEW m \in Limits, TunePool(c, m) PROVE StatusFits'
  BY <1>32, ThreadKinds DEF TunePool
<1>33. ASSUME NEW c \in Callers, TuneLen(c) PROVE StatusFits'
  BY <1>33, ThreadKinds DEF TuneLen
<1>34. ASSUME NEW c \in Callers, TuneNode(c) PROVE StatusFits'
  BY <1>34, ThreadKinds DEF TuneNode, StopAndPut
<1>35. ASSUME NEW c \in Callers, StopWorker(c) PROVE StatusFits'
  BY <1>35, ThreadKinds DEF StopWorker
<1>36. ASSUME NEW c \in Callers, Start(c) PROVE StatusFits'
  BY <1>36, ThreadKinds DEF Start, initPoolNode
<1>37. ASSUME NEW c \in Callers, Started(c) PROVE StatusFits'
  BY <1>37, ThreadKinds DEF Started
<1>38. CASE UNCHANGED vars
  BY <1>38 DEF vars, hands, StatusFits
<1> QED
  BY <1>1, <1>2, <1>3, <1>4, <1>5, <1>6, <1>7, <1>8, <1>9, <1>10, <1>11, <1>12, <1>13, <1>14,
     <1>15, <1>16, <1>17, <1>18, <1>19, <1>20, <1>21, <1>22, <1>23, <1>24, <1>25, <1>26, <1>27,
     <1>28, <1>29, <1>30, <1>31, <1>32, <1>33, <1>34, <1>35, <1>36, <1>37, <1>38
     DEF Next, StackStep, LoopStep, GoStep, ReapStep, CallStep

\* Drain waits for w.cur, and w.cur counts every batch.
LEMMA DrainIsQuiet ==
    ASSUME Types, CountFits, CurFits, w.cur = 0
    PROVE  Quiet
<1>1. Amount \in [Owners -> Nat]
  BY AmountTypes
<1>2. ASSUME NEW o \in Owners PROVE Amount[o] = 0
  <2>1. Amount[o] <= 0
    BY <1>1, UnitsBound DEF CurFits
  <2> QED BY <1>1, <2>1
<1>3. ASSUME NEW e \in Elems PROVE ch[e] \in {<<>>, <<Stop>>}
  <2> SUFFICES ASSUME ch[e] \notin {<<>>, <<Stop>>} PROVE FALSE
    OBVIOUS
  <2>1. PICK n \in Nat : ch[e] = <<n>>
    BY DEF Types, ChType, Payloads
  <2>2. n # Stop
    BY <2>1
  <2>3. Amount[e] = n
    BY <2>1 DEF Amount
  <2>4. Amount[e] = 0
    BY <1>2 DEF Owners
  <2> QED BY <2>2, <2>3, <2>4 DEF Stop
<1>4. ASSUME NEW g \in Goroutines PROVE pc[g] \in {"dead", "serve", "notify"}
  <2>1. g \in Threads /\ g \notin Elems /\ g # Loop
    BY ThreadKinds
  <2>2. CASE pc[g] \in RunSteps
    <3>1. Amount[g] = count[g]
      BY <2>1, <2>2 DEF Amount
    <3>2. count[g] \in Int /\ count[g] >= 1 /\ Amount[g] = 0
      BY <1>2, <2>1, <2>2 DEF CountFits, Types, CountType, Owners
    <3> QED BY <3>1, <3>2
  <2>3. CASE pc[g] \notin RunSteps
    BY <2>3 DEF RunSteps, Types, PcType, GoSteps
  <2> QED BY <2>2, <2>3
<1> QED BY <1>3, <1>4 DEF Quiet

\* The loop comes back from a pop without a node only when it saw no head.
PoppedMoves ==
    pc'[Loop] = "popped" /\ node'[Loop] = Nil =>
       \/ pc[Loop] = "popped" /\ node[Loop] = Nil /\ count'[Loop] = count[Loop] /\ w'.queue >= w.queue
       \/ pc[Loop] = "popped" /\ node[Loop] = Nil /\ count'[Loop] = count[Loop] /\ Purge
       \/ pc[Loop] = "pop" /\ head = Nil /\ head' = head /\ count' = count /\ w' = w /\ ch' = ch
          /\ UNCHANGED <<cache, walk, expiry, at>> /\ node' = [node EXCEPT ![Loop] = Nil]
          /\ \A t \in Threads : t # Loop => pc'[t] = pc[t]

\* What the loop popped changes by its own steps alone.
LEMMA PoppedFrame ==
    ASSUME Types, HandsFit, [Next]_vars
    PROVE  PoppedMoves
<1> USE DEF stack, hands, bounds, Goto, Hold, At, PoppedMoves, HandsFit, HoldSteps, Types, PcType,
      GoSteps, LoopSteps, ReapSteps, CallSteps, PushSteps, PopSteps, HandType, CountType,
      WorkerType
<1>1. ASSUME NEW t \in Threads, PushCount(t) PROVE PoppedMoves
  BY <1>1, ThreadKinds DEF PushCount
<1>2. ASSUME NEW t \in Threads, PushLoad(t) PROVE PoppedMoves
  BY <1>2, ThreadKinds DEF PushLoad
<1>3. ASSUME NEW t \in Threads, PushCas(t) PROVE PoppedMoves
  BY <1>3, ThreadKinds DEF PushCas, Pushed
<1>4. ASSUME NEW t \in Threads, PopLoad(t) PROVE PoppedMoves
  <2>1. /\ UNCHANGED <<head, count, w, ch, cache, walk, expiry, at>> /\ node' = [node EXCEPT ![t] = Nil] /\ pc[t] = "pop"
        /\ \A u \in Threads : u # t => pc'[u] = pc[u]
        /\ pc'[t] = "popped" => head = Nil
    BY <1>4 DEF PopLoad, Goto, Hold, At, bounds, Types, PcType
  <2>2. w.queue \in Nat /\ w'.queue >= w.queue
    BY <2>1 DEF Types, WorkerType
  <2>3. CASE t = Loop
    BY <2>1, <2>3 DEF PoppedMoves
  <2>4. CASE t # Loop
    <3>1. pc'[Loop] = pc[Loop] /\ node'[Loop] = node[Loop]
      BY <2>1, <2>4, ThreadKinds DEF Types, HandType
    <3> QED BY <2>1, <2>2, <3>1 DEF PoppedMoves
  <2> QED BY <2>3, <2>4
<1>5. ASSUME NEW t \in Threads, PopCas(t) PROVE PoppedMoves
  BY <1>5, ThreadKinds DEF PopCas
<1>6. ASSUME NEW t \in Threads, PopCount(t) PROVE PoppedMoves
  BY <1>6, ThreadKinds DEF PopCount
<1>7. CASE Select
  BY <1>7, ThreadKinds DEF Select
<1>8. CASE Check
  BY <1>8, ThreadKinds DEF Check
<1>9. CASE PlanBusy
  BY <1>9, ThreadKinds DEF PlanBusy
<1>10. CASE PlanLen
  BY <1>10, ThreadKinds DEF PlanLen
<1>11. CASE PlanNode
  BY <1>11, ThreadKinds DEF PlanNode, initPoolNode
<1>12. CASE Reserve
  BY <1>12, ThreadKinds DEF Reserve
<1>13. CASE Admit
  BY <1>13, ThreadKinds DEF Admit
<1>14. CASE Fill
  <2>1. pc'[Loop] \in {"push", "send", "sendLast"}
    BY <1>14, ThreadKinds DEF Fill, Goto, Types, PcType
  <2> QED BY <2>1 DEF PoppedMoves
<1>15. CASE Undo
  BY <1>15, ThreadKinds DEF Undo
<1>16. CASE Send
  BY <1>16, ThreadKinds DEF Send
<1>17. CASE Drain
  BY <1>17, ThreadKinds DEF Drain
<1>18. CASE RemoveAll
  BY <1>18, ThreadKinds DEF RemoveAll, StopAndPut
<1>19. ASSUME NEW g \in Goroutines, Serve(g) PROVE PoppedMoves
  BY <1>19, ThreadKinds DEF Serve
<1>20. ASSUME NEW g \in Goroutines, RunBatch(g) PROVE PoppedMoves
  <2>1. pc'[Loop] = pc[Loop] /\ node' = node /\ count' = count /\ count[g] \in Int /\ w.queue \in Int
    BY <1>20, ThreadKinds DEF RunBatch, Goto, hands, Types, PcType, CountType, WorkerType
  <2>2. w'.queue >= w.queue
    <3>1. w'.queue \in w.queue .. (w.queue + count[g] - 1)
      BY <1>20, RunLoads
    <3> QED BY <2>1, <3>1
  <2> QED BY <2>1, <2>2 DEF PoppedMoves
<1>21. ASSUME NEW g \in Goroutines, freePoolNode(g) PROVE PoppedMoves
  BY <1>21, ThreadKinds DEF freePoolNode, StopAndPut
<1>22. ASSUME NEW g \in Goroutines, Release(g) PROVE PoppedMoves
  BY <1>22, ThreadKinds DEF Release
<1>23. ASSUME NEW g \in Goroutines, finishJobs(g) PROVE PoppedMoves
  BY <1>23, ThreadKinds DEF finishJobs
<1>24. ASSUME NEW g \in Goroutines, Notify(g) PROVE PoppedMoves
  BY <1>24, ThreadKinds DEF Notify
<1>25. CASE Tick
  BY <1>25, ThreadKinds DEF Tick, NoWalk
<1>26. CASE Prune
  BY <1>26, ThreadKinds DEF Prune, Dropped
<1>27. CASE Relink
  BY <1>27, ThreadKinds DEF Relink, Dropped
<1>28. CASE PruneDone
  BY <1>28, ThreadKinds DEF PruneDone
<1>29. CASE Expire
  BY <1>29, ThreadKinds DEF Expire, StopAndPut, NoWalk
<1>30. CASE Add
  BY <1>30, ThreadKinds DEF Add
<1>31. CASE Purge
  BY <1>31, ThreadKinds DEF Purge
<1>32. ASSUME NEW c \in Callers, NEW m \in Limits, TunePool(c, m) PROVE PoppedMoves
  BY <1>32, ThreadKinds DEF TunePool
<1>33. ASSUME NEW c \in Callers, TuneLen(c) PROVE PoppedMoves
  BY <1>33, ThreadKinds DEF TuneLen
<1>34. ASSUME NEW c \in Callers, TuneNode(c) PROVE PoppedMoves
  BY <1>34, ThreadKinds DEF TuneNode, StopAndPut
<1>35. ASSUME NEW c \in Callers, StopWorker(c) PROVE PoppedMoves
  BY <1>35, ThreadKinds DEF StopWorker
<1>36. ASSUME NEW c \in Callers, Start(c) PROVE PoppedMoves
  BY <1>36, ThreadKinds DEF Start, initPoolNode
<1>37. ASSUME NEW c \in Callers, Started(c) PROVE PoppedMoves
  BY <1>37, ThreadKinds DEF Started
<1>38. CASE UNCHANGED vars
  BY <1>38 DEF vars, hands, PoppedMoves, Types, WorkerType
<1> QED
  BY <1>1, <1>2, <1>3, <1>4, <1>5, <1>6, <1>7, <1>8, <1>9, <1>10, <1>11, <1>12, <1>13, <1>14,
     <1>15, <1>16, <1>17, <1>18, <1>19, <1>20, <1>21, <1>22, <1>23, <1>24, <1>25, <1>26, <1>27,
     <1>28, <1>29, <1>30, <1>31, <1>32, <1>33, <1>34, <1>35, <1>36, <1>37, <1>38
     DEF Next, StackStep, LoopStep, GoStep, ReapStep, CallStep

\* Nothing is left behind by the drain, and nothing comes after it.
LEMMA LeftFitsKept ==
    ASSUME Types, HandsFit, CountFits, NEW loc, NEW r, NEW n, Located(loc, r, n), CurFits,
           StopFits, [Next]_vars
    PROVE  LeftFits'
<1>1. StatusFits /\ LeftFits
  BY StopFitsIs
<1>2. count'[Loop] = Removing => count[Loop] = Removing \/ Drain
  <2>1. CASE PlanBusy
    BY <2>1, ThreadKinds DEF PlanBusy, Types, CountType, WorkerType, Removing
  <2>2. CASE PlanNode
    <3>1. Batch \in Nat \ {0}
      BY BatchSize DEF Types
    <3> QED BY <2>2, <3>1, ThreadKinds DEF PlanNode, Types, CountType, Removing
  <2>3. CASE Fill
    <3>1. count[Loop] >= 1
      BY <2>3 DEF Fill, At, CountFits, LoopCounts
    <3>2. count'[Loop] >= 1
      BY <2>3, <3>1, FillIs
    <3> QED BY <3>2 DEF Removing
  <2>4. CASE Undo \/ Send \/ RemoveAll
    BY <2>4, ThreadKinds DEF Undo, Send, RemoveAll, Types, CountType, Removing
  <2>5. ASSUME NEW g \in Goroutines, Serve(g) \/ finishJobs(g) PROVE count'[Loop] = count[Loop]
    BY <2>5, ThreadKinds DEF Serve, finishJobs, Types, CountType
  <2>6. ASSUME NEW c \in Callers, TuneLen(c) \/ TuneNode(c) PROVE count'[Loop] = count[Loop]
    BY <2>6, ThreadKinds DEF TuneLen, TuneNode, Types, CountType
  <2>7. ASSUME NEW c \in Callers, NEW m \in Limits, TunePool(c, m) PROVE count'[Loop] = count[Loop]
    BY <2>7, ThreadKinds DEF TunePool, Types, CountType
  <2> QED BY <2>1, <2>2, <2>3, <2>4, <2>5, <2>6, <2>7, Frames DEF CountMoves
<1>3. Drain => Quiet'
  <2>1. ASSUME Drain PROVE Quiet /\ ch' = ch /\ \A g \in Goroutines : pc'[g] = pc[g]
    BY <2>1, DrainIsQuiet, ThreadKinds DEF Drain, Goto, Types, PcType
  <2> QED BY <2>1 DEF Quiet
<1>4. w'.status = "stopped" => w.status = "stopped" \/ (RemoveAll /\ count[Loop] = Removing /\ node[Loop] = Nil /\ pc[Loop] = "popped")
  <2>1. CASE RemoveAll
    BY <2>1 DEF RemoveAll, At
  <2>2. CASE Select \/ Reserve \/ Undo \/ Add \/ Purge
    BY <2>2 DEF Select, Reserve, Undo, Add, Purge, Types, WorkerType
  <2>3. CASE Fill
    BY <2>3 DEF Fill, Types, WorkerType
  <2>4. ASSUME NEW g \in Goroutines,
               RunBatch(g) \/ Release(g) \/ finishJobs(g) \/ Notify(g) PROVE w'.status = w.status
    BY <2>4 DEF RunBatch, Release, finishJobs, Notify, Types, WorkerType
  <2>5. ASSUME NEW c \in Callers,
               StopWorker(c) \/ Start(c) \/ Started(c) PROVE w'.status # "stopped"
    BY <2>5 DEF StopWorker, Start, Started, Types, WorkerType
  <2>6. ASSUME NEW c \in Callers, NEW m \in Limits, TunePool(c, m) PROVE w'.status = w.status
    BY <2>6 DEF TunePool, Types, WorkerType
  <2> QED BY <2>1, <2>2, <2>3, <2>4, <2>5, <2>6, Frames DEF WMoves
<1>5. count[Loop] = Removing => Quiet' /\ pc[Loop] \in PopSteps /\ \A c \in Callers : pc[c] \notin PushSteps
  <2>1. count[Loop] = Removing => pc[Loop] \in PopSteps /\ Quiet /\ \A c \in Callers : pc[c] \notin PushSteps
    BY <1>1 DEF CountFits, LeftFits, StatusFits, StartSteps
  <2> QED BY <2>1, QuietKept
<1>6. w.status = "stopped" => Quiet' /\ head' = Nil
  <2>1. w.status = "stopped" => pc[Loop] = "over" /\ Quiet /\ head = Nil /\ \A c \in Callers : pc[c] \notin PushSteps
    BY <1>1 DEF LeftFits, StatusFits, StartSteps
  <2> QED BY <2>1, QuietKept, HeadStays
<1>7. count[Loop] = Removing /\ pc[Loop] = "popped" /\ node[Loop] = Nil => head' = Nil
  BY <1>1, <1>5, HeadStays DEF LeftFits
<1>8. count'[Loop] = Removing => Quiet'
  BY <1>2, <1>3, <1>5
<1>9. count'[Loop] = Removing /\ pc'[Loop] = "popped" /\ node'[Loop] = Nil => head' = Nil
  BY <1>7, PoppedFrame DEF PoppedMoves
<1>10. w'.status = "stopped" => Quiet' /\ head' = Nil
  BY <1>4, <1>5, <1>6, <1>7
<1> QED BY <1>8, <1>9, <1>10 DEF LeftFits

\* Stop: the loop drains and removes every node, and a stopped worker has none.
LEMMA StopFitsKept ==
    ASSUME Types, HandsFit, CountFits, NEW loc, NEW r, NEW n, Located(loc, r, n), CurFits,
           StopFits, [Next]_vars
    PROVE  StopFits'
BY StopFitsIs, StatusFitsKept, LeftFitsKept

-----------------------------------------------------------------------------
(* What the remover of expired nodes leaves *)

\* No caller removes nodes beside it.
NoneTunes == expiry => \A c \in Callers : pc[c] \notin PopSteps \cup {"tune"}

\* TunePool leaves the removal to it.
LEMMA NoneTunesKept ==
    ASSUME Types, NoneTunes, [Next]_vars
    PROVE  NoneTunes'
<1> USE DEF stack, hands, bounds, Goto, Hold, At, NoneTunes, Types, PcType, GoSteps, LoopSteps,
      ReapSteps, CallSteps, PushSteps, PopSteps
<1>1. ASSUME NEW t \in Threads, PushCount(t) PROVE NoneTunes'
  BY <1>1, ThreadKinds DEF PushCount
<1>2. ASSUME NEW t \in Threads, PushLoad(t) PROVE NoneTunes'
  BY <1>2, ThreadKinds DEF PushLoad
<1>3. ASSUME NEW t \in Threads, PushCas(t) PROVE NoneTunes'
  BY <1>3, ThreadKinds DEF PushCas, Pushed
<1>4. ASSUME NEW t \in Threads, PopLoad(t) PROVE NoneTunes'
  BY <1>4, ThreadKinds DEF PopLoad
<1>5. ASSUME NEW t \in Threads, PopCas(t) PROVE NoneTunes'
  BY <1>5, ThreadKinds DEF PopCas
<1>6. ASSUME NEW t \in Threads, PopCount(t) PROVE NoneTunes'
  BY <1>6, ThreadKinds DEF PopCount
<1>7. CASE Select
  BY <1>7, ThreadKinds DEF Select
<1>8. CASE Check
  BY <1>8, ThreadKinds DEF Check
<1>9. CASE PlanBusy
  BY <1>9, ThreadKinds DEF PlanBusy
<1>10. CASE PlanLen
  BY <1>10, ThreadKinds DEF PlanLen
<1>11. CASE PlanNode
  BY <1>11, ThreadKinds DEF PlanNode, initPoolNode
<1>12. CASE Reserve
  BY <1>12, ThreadKinds DEF Reserve
<1>13. CASE Admit
  BY <1>13, ThreadKinds DEF Admit
<1>14. CASE Fill
  BY <1>14, ThreadKinds DEF Fill
<1>15. CASE Undo
  BY <1>15, ThreadKinds DEF Undo
<1>16. CASE Send
  BY <1>16, ThreadKinds DEF Send
<1>17. CASE Drain
  BY <1>17, ThreadKinds DEF Drain
<1>18. CASE RemoveAll
  BY <1>18, ThreadKinds DEF RemoveAll, StopAndPut
<1>19. ASSUME NEW g \in Goroutines, Serve(g) PROVE NoneTunes'
  BY <1>19, ThreadKinds DEF Serve
<1>20. ASSUME NEW g \in Goroutines, RunBatch(g) PROVE NoneTunes'
  BY <1>20, ThreadKinds DEF RunBatch
<1>21. ASSUME NEW g \in Goroutines, freePoolNode(g) PROVE NoneTunes'
  BY <1>21, ThreadKinds DEF freePoolNode, StopAndPut
<1>22. ASSUME NEW g \in Goroutines, Release(g) PROVE NoneTunes'
  BY <1>22, ThreadKinds DEF Release
<1>23. ASSUME NEW g \in Goroutines, finishJobs(g) PROVE NoneTunes'
  BY <1>23, ThreadKinds DEF finishJobs
<1>24. ASSUME NEW g \in Goroutines, Notify(g) PROVE NoneTunes'
  BY <1>24, ThreadKinds DEF Notify
<1>25. CASE Tick
  BY <1>25, ThreadKinds DEF Tick, NoWalk
<1>26. CASE Prune
  BY <1>26, ThreadKinds DEF Prune, Dropped
<1>27. CASE Relink
  BY <1>27, ThreadKinds DEF Relink, Dropped
<1>28. CASE PruneDone
  BY <1>28, ThreadKinds DEF PruneDone
<1>29. CASE Expire
  BY <1>29, ThreadKinds DEF Expire, StopAndPut, NoWalk
<1>30. CASE Add
  BY <1>30, ThreadKinds DEF Add
<1>31. CASE Purge
  BY <1>31, ThreadKinds DEF Purge
<1>32. ASSUME NEW c \in Callers, NEW m \in Limits, TunePool(c, m) PROVE NoneTunes'
  BY <1>32, ThreadKinds DEF TunePool
<1>33. ASSUME NEW c \in Callers, TuneLen(c) PROVE NoneTunes'
  BY <1>33, ThreadKinds DEF TuneLen
<1>34. ASSUME NEW c \in Callers, TuneNode(c) PROVE NoneTunes'
  BY <1>34, ThreadKinds DEF TuneNode, StopAndPut
<1>35. ASSUME NEW c \in Callers, StopWorker(c) PROVE NoneTunes'
  BY <1>35, ThreadKinds DEF StopWorker
<1>36. ASSUME NEW c \in Callers, Start(c) PROVE NoneTunes'
  BY <1>36, ThreadKinds DEF Start, initPoolNode
<1>37. ASSUME NEW c \in Callers, Started(c) PROVE NoneTunes'
  BY <1>37, ThreadKinds DEF Started
<1>38. CASE UNCHANGED vars
  BY <1>38 DEF vars, bounds, NoneTunes
<1> QED
  BY <1>1, <1>2, <1>3, <1>4, <1>5, <1>6, <1>7, <1>8, <1>9, <1>10, <1>11, <1>12, <1>13, <1>14,
     <1>15, <1>16, <1>17, <1>18, <1>19, <1>20, <1>21, <1>22, <1>23, <1>24, <1>25, <1>26, <1>27,
     <1>28, <1>29, <1>30, <1>31, <1>32, <1>33, <1>34, <1>35, <1>36, <1>37, <1>38
     DEF Next, StackStep, LoopStep, GoStep, ReapStep, CallStep

\* A worker that is not stopped, and not at the removal of its nodes.
Up == w.status # "stopped" /\ count[Loop] # Removing

\* Only Start brings a stopped worker up.
LEMMA UpFrame ==
    ASSUME Types, CountFits, StatusFits, [Next]_vars
    PROVE  Up' => Up \/ \E c \in Callers : Start(c)
<1>1. count[Loop] = Removing => count'[Loop] = Removing \/ (RemoveAll /\ w'.status = "stopped")
  <2>1. CASE PlanBusy \/ PlanNode \/ Fill \/ Undo \/ Send
    BY <2>1 DEF PlanBusy, PlanNode, Fill, Undo, Send, At, CountFits, PopSteps
  <2>2. CASE Drain
    BY <2>2, ThreadKinds DEF Drain, Types, CountType
  <2>3. CASE RemoveAll
    BY <2>3 DEF RemoveAll, Types, WorkerType
  <2>4. ASSUME NEW g \in Goroutines, Serve(g) \/ finishJobs(g) PROVE count'[Loop] = count[Loop]
    BY <2>4, ThreadKinds DEF Serve, finishJobs, Types, CountType
  <2>5. ASSUME NEW c \in Callers, TuneLen(c) \/ TuneNode(c) PROVE count'[Loop] = count[Loop]
    BY <2>5, ThreadKinds DEF TuneLen, TuneNode, Types, CountType
  <2>6. ASSUME NEW c \in Callers, NEW m \in Limits, TunePool(c, m) PROVE count'[Loop] = count[Loop]
    BY <2>6, ThreadKinds DEF TunePool, Types, CountType
  <2> QED BY <2>1, <2>2, <2>3, <2>4, <2>5, <2>6, Frames DEF CountMoves
<1>2. w.status = "stopped" => w'.status = "stopped" \/ (\E c \in Callers : Start(c))
  <2>1. CASE Select \/ Reserve \/ Undo \/ Add \/ Purge \/ RemoveAll
    BY <2>1 DEF Select, Reserve, Undo, Add, Purge, RemoveAll, Types, WorkerType
  <2>2. CASE Fill
    BY <2>2 DEF Fill, Types, WorkerType
  <2>3. ASSUME NEW g \in Goroutines,
               RunBatch(g) \/ Release(g) \/ finishJobs(g) \/ Notify(g) PROVE w'.status = w.status
    BY <2>3 DEF RunBatch, Release, finishJobs, Notify, Types, WorkerType
  <2>4. ASSUME NEW c \in Callers, StopWorker(c) PROVE w.status = "active"
    BY <2>4 DEF StopWorker, Active
  <2>5. ASSUME NEW c \in Callers, NEW m \in Limits, TunePool(c, m) PROVE w'.status = w.status
    BY <2>5 DEF TunePool, Types, WorkerType
  <2>6. ASSUME NEW c \in Callers, Started(c) PROVE w.status = "starting"
    BY <2>6 DEF Started, At, StatusFits, StartSteps
  <2> QED BY <2>1, <2>2, <2>3, <2>4, <2>5, <2>6, Frames DEF WMoves
<1> QED BY <1>1, <1>2 DEF Up

\* The node below the one that Prune drops stays in use.
LEMMA BelowStays ==
    ASSUME Types, NEW loc, NEW r, NEW n, Located(loc, r, n), Prune \/ Relink
    PROVE  InUse' # {}
<1> SUFFICES ASSUME NEW e, e = walk.e PROVE InUse' # {}
  OBVIOUS
<1>1. /\ pc[Reaper] \in {"prune", "relink"} /\ e \in Elems /\ walk.left > 0 /\ cache' = cache
      /\ walk.left \in Int /\ walk.dropped \in SUBSET Elems
      /\ walk'.dropped \in {walk.dropped, walk.dropped \cup {e}}
  <2>1. CASE Prune
    BY <2>1 DEF Prune, Dropped, At, Types, WalkType
  <2>2. CASE Relink
    BY <2>2, ThreadKinds DEF Relink, Dropped, At, Types, WalkType, Located, WalkStands
  <2> QED BY <2>1, <2>2
<1>2. loc[e] = Stacked /\ r[e] > walk.left
  BY <1>1, ThreadKinds DEF Located, WalkStands
<1>3. next[e] \in StackOf(loc) /\ next[e] # e
  <2>1. e \in StackOf(loc) /\ Chain(StackOf(loc), r, n, head, next)
    BY <1>1, <1>2 DEF StackOf, Located
  <2>2. r[e] \in Nat /\ r[e] # 1
    BY <1>1, <1>2, <2>1 DEF Chain
  <2>3. next[e] \in StackOf(loc) /\ r[next[e]] = r[e] - 1
    BY <2>1, <2>2 DEF Chain
  <2> QED BY <2>2, <2>3
<1>4. next[e] \in Elems /\ loc[next[e]] = Stacked
  BY <1>3 DEF StackOf
<1>5. next[e] \notin cache /\ next[e] \notin walk.dropped
  BY <1>4, OnlyThere DEF Located, Nowhere
<1> QED BY <1>1, <1>3, <1>4, <1>5 DEF InUse

\* With the remover a worker that is up has a node in use: Prune stops short of
\* the last one and no goroutine gives its own up.
LEMMA ExpiryFitsKept ==
    ASSUME Types, HandsFit, CountFits, NEW loc, NEW r, NEW n, Located(loc, r, n), StopFits,
           ExpiryFits, [Next]_vars
    PROVE  ExpiryFits'
<1>1. NoneTunes /\ (expiry /\ Up => InUse # {})
  BY DEF ExpiryFits, NoneTunes, Up
<1>2. NoneTunes'
  BY <1>1, NoneTunesKept
<1>3. expiry' = expiry
  BY Frames DEF BoundsMoves, bounds, Add, Purge, StopWorker, TunePool
<1>4. ASSUME NEW e \in Elems, e \in cache, cache' = cache \ {e}, walk' = walk PROVE InUse' # {}
  <2>1. e \notin walk.dropped
    BY <1>4, OnlyThere DEF Located
  <2> QED BY <1>4, <2>1 DEF InUse
<1>5. ASSUME NEW c \in Callers, Start(c) PROVE InUse' # {}
  <2>1. PICK e \in cache, g \in Goroutines : initPoolNode(c, e, g)
    BY <1>5 DEF Start
  <2> QED BY <1>4, <1>5, <2>1 DEF Start, initPoolNode, Types, StackType
<1>6. ASSUME expiry, Up', Up PROVE InUse' # {}
  <2>1. PICK e \in Elems : e \notin cache /\ e \notin walk.dropped
    BY <1>1, <1>6 DEF InUse
  <2>2. ASSUME e \notin cache', e \notin walk'.dropped PROVE InUse' # {}
    BY <2>2 DEF InUse
  <2>3. CASE Prune \/ Relink
    BY <2>3, BelowStays
  <2>4. CASE Tick
    BY <2>1, <2>2, <2>4 DEF Tick, NoWalk
  <2>5. CASE Expire
    BY <2>1, <2>2, <2>5 DEF Expire, StopAndPut, NoWalk, Types, WalkType
  <2>6. CASE PlanNode
    BY <2>1, <2>2, <2>6 DEF PlanNode, initPoolNode
  <2>7. CASE RemoveAll
    <3>1. count[Loop] = Removing
      BY <2>7 DEF RemoveAll
    <3> QED BY <1>6, <3>1 DEF Up
  <2>8. ASSUME NEW g \in Goroutines, freePoolNode(g) PROVE InUse' # {}
    BY <1>6, <2>1, <2>2, <2>8 DEF freePoolNode, Kept
  <2>9. ASSUME NEW c \in Callers, TuneNode(c) PROVE FALSE
    BY <1>1, <1>6, <2>9 DEF TuneNode, At, NoneTunes, PopSteps
  <2>10. CASE UNCHANGED <<cache, walk>>
    BY <2>1, <2>2, <2>10
  <2> QED BY <1>5, <2>3, <2>4, <2>5, <2>6, <2>7, <2>8, <2>9, <2>10, Frames DEF WalkMoves, CacheMoves
<1>7. expiry' /\ Up' => InUse' # {}
  BY <1>3, <1>5, <1>6, UpFrame, StopFitsIs
<1> QED BY <1>2, <1>7 DEF ExpiryFits, NoneTunes, Up

-----------------------------------------------------------------------------
(* Who wakes the loop *)

\* The loop rests, or is about to, on a backlog that nobody told it of.
Idles == Rests /\ ~w.signal /\ Active /\ w.queue > 0
IdlesMoves == Idles' => Idles \/ Check \/ Send \/ (\E g \in Goroutines : RunBatch(g))
                        \/ (pc[Loop] = "pop" /\ head = Nil /\ count[Loop] # Removing /\ Active /\ UNCHANGED <<ch, w>>
                            /\ \A g \in Goroutines : pc'[g] = pc[g])

\* The steps after which it may come to that.
LEMMA IdlesFrame ==
    ASSUME Types, HandsFit, CountFits, [Next]_vars
    PROVE  IdlesMoves
<1> USE DEF stack, hands, bounds, Goto, Hold, At, IdlesMoves, Idles, Rests, Active, HandsFit, HoldSteps,
      Types, PcType, GoSteps, LoopSteps, ReapSteps, CallSteps, PushSteps, PopSteps, HandType,
      CountType, WorkerType
<1>1. ASSUME NEW t \in Threads, PushCount(t) PROVE IdlesMoves
  BY <1>1, ThreadKinds DEF PushCount
<1>2. ASSUME NEW t \in Threads, PushLoad(t) PROVE IdlesMoves
  BY <1>2, ThreadKinds DEF PushLoad
<1>3. ASSUME NEW t \in Threads, PushCas(t) PROVE IdlesMoves
  BY <1>3, ThreadKinds DEF PushCas, Pushed
<1>4. ASSUME NEW t \in Threads, PopLoad(t) PROVE IdlesMoves
  <2>1. /\ UNCHANGED <<count, w, ch>> /\ node' = [node EXCEPT ![t] = Nil] /\ pc[t] = "pop"
        /\ \A u \in Threads : u # t => pc'[u] = pc[u]
        /\ pc'[t] \in {"popped", "popCas"} /\ (pc'[t] = "popped" => head = Nil)
    BY <1>4 DEF PopLoad, Goto, Hold, At, Types, PcType
  <2>2. CASE t = Loop
    BY <2>1, <2>2, ThreadKinds DEF IdlesMoves, Idles, Rests, Active, PushSteps
  <2>3. CASE t # Loop
    <3>1. pc'[Loop] = pc[Loop] /\ node'[Loop] = node[Loop]
      BY <2>1, <2>3, ThreadKinds DEF Types, HandType
    <3> QED BY <2>1, <3>1 DEF IdlesMoves, Idles, Rests, Active
  <2> QED BY <2>2, <2>3
<1>5. ASSUME NEW t \in Threads, PopCas(t) PROVE IdlesMoves
  BY <1>5, ThreadKinds DEF PopCas
<1>6. ASSUME NEW t \in Threads, PopCount(t) PROVE IdlesMoves
  BY <1>6, ThreadKinds DEF PopCount
<1>7. CASE Select
  BY <1>7, ThreadKinds DEF Select
<1>8. CASE Check
  BY <1>8 DEF IdlesMoves
<1>9. CASE PlanBusy
  BY <1>9, ThreadKinds DEF PlanBusy
<1>10. CASE PlanLen
  BY <1>10, ThreadKinds DEF PlanLen
<1>11. CASE PlanNode
  BY <1>11, ThreadKinds DEF PlanNode, initPoolNode
<1>12. CASE Reserve
  BY <1>12, ThreadKinds DEF Reserve
<1>13. CASE Admit
  BY <1>13, ThreadKinds DEF Admit
<1>14. CASE Fill
  <2>1. w.queue \in Nat /\ count[Loop] \in Nat /\ count[Loop] >= 1
    BY <1>14, ThreadKinds DEF Fill, At, CountFits, LoopCounts, Types, CountType, WorkerType
  <2>2. CASE pc'[Loop] = "push" /\ UNCHANGED <<w, count>>
    <3>1. pc'[Loop] = "push" => Min({w.queue, count[Loop]}) = 0
      BY <1>14, ThreadKinds DEF Fill, Goto, Types, PcType
    <3>2. w.queue \in Int /\ count[Loop] \in Int
      BY <2>1
    <3>3. Min({w.queue, count[Loop]}) = (IF w.queue =< count[Loop] THEN w.queue ELSE count[Loop])
      BY <3>2, MaxOfTwo, ZenonT(40)
    <3>4. w'.queue = 0
      BY <2>1, <2>2, <3>1, <3>3
    <3> QED BY <3>4 DEF IdlesMoves, Idles
  <2>3. CASE pc'[Loop] \in {"send", "sendLast"}
    BY <2>3 DEF IdlesMoves, Idles, Rests, PushSteps
  <2> QED BY <1>14, <2>2, <2>3, FillIs
<1>15. CASE Undo
  BY <1>15, ThreadKinds DEF Undo
<1>16. CASE Send
  BY <1>16 DEF IdlesMoves
<1>17. CASE Drain
  BY <1>17, ThreadKinds DEF Drain
<1>18. CASE RemoveAll
  BY <1>18, ThreadKinds DEF RemoveAll, StopAndPut
<1>19. ASSUME NEW g \in Goroutines, Serve(g) PROVE IdlesMoves
  BY <1>19, ThreadKinds DEF Serve
<1>20. ASSUME NEW g \in Goroutines, RunBatch(g) PROVE IdlesMoves
  BY <1>20 DEF IdlesMoves
<1>21. ASSUME NEW g \in Goroutines, freePoolNode(g) PROVE IdlesMoves
  BY <1>21, ThreadKinds DEF freePoolNode, StopAndPut
<1>22. ASSUME NEW g \in Goroutines, Release(g) PROVE IdlesMoves
  BY <1>22, ThreadKinds DEF Release
<1>23. ASSUME NEW g \in Goroutines, finishJobs(g) PROVE IdlesMoves
  BY <1>23, ThreadKinds DEF finishJobs
<1>24. ASSUME NEW g \in Goroutines, Notify(g) PROVE IdlesMoves
  BY <1>24, ThreadKinds DEF Notify
<1>25. CASE Tick
  BY <1>25, ThreadKinds DEF Tick, NoWalk
<1>26. CASE Prune
  BY <1>26, ThreadKinds DEF Prune, Dropped
<1>27. CASE Relink
  BY <1>27, ThreadKinds DEF Relink, Dropped
<1>28. CASE PruneDone
  BY <1>28, ThreadKinds DEF PruneDone
<1>29. CASE Expire
  BY <1>29, ThreadKinds DEF Expire, StopAndPut, NoWalk
<1>30. CASE Add
  BY <1>30, ThreadKinds DEF Add
<1>31. CASE Purge
  BY <1>31, ThreadKinds DEF Purge
<1>32. ASSUME NEW c \in Callers, NEW m \in Limits, TunePool(c, m) PROVE IdlesMoves
  BY <1>32, ThreadKinds DEF TunePool
<1>33. ASSUME NEW c \in Callers, TuneLen(c) PROVE IdlesMoves
  BY <1>33, ThreadKinds DEF TuneLen
<1>34. ASSUME NEW c \in Callers, TuneNode(c) PROVE IdlesMoves
  BY <1>34, ThreadKinds DEF TuneNode, StopAndPut
<1>35. ASSUME NEW c \in Callers, StopWorker(c) PROVE IdlesMoves
  BY <1>35, ThreadKinds DEF StopWorker
<1>36. ASSUME NEW c \in Callers, Start(c) PROVE IdlesMoves
  BY <1>36, ThreadKinds DEF Start, initPoolNode
<1>37. ASSUME NEW c \in Callers, Started(c) PROVE IdlesMoves
  BY <1>37, ThreadKinds DEF Started
<1>38. CASE UNCHANGED vars
  BY <1>38 DEF vars, hands, IdlesMoves, Idles, Rests, Active
<1> QED
  BY <1>1, <1>2, <1>3, <1>4, <1>5, <1>6, <1>7, <1>8, <1>9, <1>10, <1>11, <1>12, <1>13, <1>14,
     <1>15, <1>16, <1>17, <1>18, <1>19, <1>20, <1>21, <1>22, <1>23, <1>24, <1>25, <1>26, <1>27,
     <1>28, <1>29, <1>30, <1>31, <1>32, <1>33, <1>34, <1>35, <1>36, <1>37, <1>38
     DEF Next, StackStep, LoopStep, GoStep, ReapStep, CallStep

\* A goroutine at work stays at it, and a batch in its channel.
StayOut == /\ \A g \in Goroutines : Busy(g) => Busy(g)'
           /\ \A e \in Elems : Loaded(e) => Loaded(e)'
OutMoves == StayOut \/ (\E g \in Goroutines : Serve(g) \/ Notify(g))

\* Only Serve and the end of a batch change who is out.
LEMMA OutFrame ==
    ASSUME Types, HandsFit, CountFits, [Next]_vars
    PROVE  OutMoves
<1> USE DEF stack, hands, bounds, Goto, Hold, At, OutMoves, StayOut, Busy, Loaded, Types, PcType,
      GoSteps, LoopSteps, ReapSteps, CallSteps, PushSteps, PopSteps, ChType
<1>1. ASSUME NEW t \in Threads, PushCount(t) PROVE OutMoves
  BY <1>1, ThreadKinds DEF PushCount
<1>2. ASSUME NEW t \in Threads, PushLoad(t) PROVE OutMoves
  BY <1>2, ThreadKinds DEF PushLoad
<1>3. ASSUME NEW t \in Threads, PushCas(t) PROVE OutMoves
  BY <1>3, ThreadKinds DEF PushCas, Pushed
<1>4. ASSUME NEW t \in Threads, PopLoad(t) PROVE OutMoves
  BY <1>4, ThreadKinds DEF PopLoad
<1>5. ASSUME NEW t \in Threads, PopCas(t) PROVE OutMoves
  BY <1>5, ThreadKinds DEF PopCas
<1>6. ASSUME NEW t \in Threads, PopCount(t) PROVE OutMoves
  BY <1>6, ThreadKinds DEF PopCount
<1>7. CASE Select
  BY <1>7, ThreadKinds DEF Select
<1>8. CASE Check
  BY <1>8, ThreadKinds DEF Check
<1>9. CASE PlanBusy
  BY <1>9, ThreadKinds DEF PlanBusy
<1>10. CASE PlanLen
  BY <1>10, ThreadKinds DEF PlanLen
<1>11. CASE PlanNode
  BY <1>11, ThreadKinds DEF PlanNode, initPoolNode
<1>12. CASE Reserve
  BY <1>12, ThreadKinds DEF Reserve
<1>13. CASE Admit
  BY <1>13, ThreadKinds DEF Admit
<1>14. CASE Fill
  BY <1>14, ThreadKinds DEF Fill
<1>15. CASE Undo
  BY <1>15, ThreadKinds DEF Undo
<1>16. CASE Send
  <2>1. ch' = [ch EXCEPT ![node[Loop]] = <<count[Loop]>>] /\ ch[node[Loop]] = <<>> /\ ch \in [Elems -> Payloads]
    BY <1>16 DEF Send, Types, ChType
  <2>2. \A g \in Goroutines : pc'[g] = pc[g]
    BY <1>16, ThreadKinds DEF Send, Goto, Types, PcType
  <2> QED BY <2>1, <2>2 DEF OutMoves, StayOut, Busy, Loaded
<1>17. CASE Drain
  BY <1>17, ThreadKinds DEF Drain
<1>18. CASE RemoveAll
  BY <1>18, ThreadKinds DEF RemoveAll, StopAndPut
<1>19. ASSUME NEW g \in Goroutines, Serve(g) PROVE OutMoves
  BY <1>19, Zenon DEF OutMoves
<1>20. ASSUME NEW g \in Goroutines, RunBatch(g) PROVE OutMoves
  BY <1>20, ThreadKinds DEF RunBatch
<1>21. ASSUME NEW g \in Goroutines, freePoolNode(g) PROVE OutMoves
  BY <1>21, ThreadKinds DEF freePoolNode, StopAndPut
<1>22. ASSUME NEW g \in Goroutines, Release(g) PROVE OutMoves
  BY <1>22, ThreadKinds DEF Release
<1>23. ASSUME NEW g \in Goroutines, finishJobs(g) PROVE OutMoves
  BY <1>23, ThreadKinds DEF finishJobs
<1>24. ASSUME NEW g \in Goroutines, Notify(g) PROVE OutMoves
  BY <1>24, Zenon DEF OutMoves
<1>25. CASE Tick
  BY <1>25, ThreadKinds DEF Tick, NoWalk
<1>26. CASE Prune
  BY <1>26, ThreadKinds DEF Prune, Dropped
<1>27. CASE Relink
  BY <1>27, ThreadKinds DEF Relink, Dropped
<1>28. CASE PruneDone
  BY <1>28, ThreadKinds DEF PruneDone
<1>29. CASE Expire
  BY <1>29, ThreadKinds DEF Expire, StopAndPut, NoWalk
<1>30. CASE Add
  BY <1>30, ThreadKinds DEF Add
<1>31. CASE Purge
  BY <1>31, ThreadKinds DEF Purge
<1>32. ASSUME NEW c \in Callers, NEW m \in Limits, TunePool(c, m) PROVE OutMoves
  BY <1>32, ThreadKinds DEF TunePool
<1>33. ASSUME NEW c \in Callers, TuneLen(c) PROVE OutMoves
  BY <1>33, ThreadKinds DEF TuneLen
<1>34. ASSUME NEW c \in Callers, TuneNode(c) PROVE OutMoves
  BY <1>34, ThreadKinds DEF TuneNode, StopAndPut
<1>35. ASSUME NEW c \in Callers, StopWorker(c) PROVE OutMoves
  BY <1>35, ThreadKinds DEF StopWorker
<1>36. ASSUME NEW c \in Callers, Start(c) PROVE OutMoves
  BY <1>36, ThreadKinds DEF Start, initPoolNode
<1>37. ASSUME NEW c \in Callers, Started(c) PROVE OutMoves
  BY <1>37, ThreadKinds DEF Started
<1>38. CASE UNCHANGED vars
  BY <1>38 DEF vars, OutMoves, StayOut, Busy, Loaded
<1> QED
  BY <1>1, <1>2, <1>3, <1>4, <1>5, <1>6, <1>7, <1>8, <1>9, <1>10, <1>11, <1>12, <1>13, <1>14,
     <1>15, <1>16, <1>17, <1>18, <1>19, <1>20, <1>21, <1>22, <1>23, <1>24, <1>25, <1>26, <1>27,
     <1>28, <1>29, <1>30, <1>31, <1>32, <1>33, <1>34, <1>35, <1>36, <1>37, <1>38
     DEF Next, StackStep, LoopStep, GoStep, ReapStep, CallStep

\* Out, with Loaded.
LEMMA OutIs ==
    /\ Out <=> (\E g \in Goroutines : Busy(g)) \/ (\E e \in Elems : Loaded(e))
    /\ Out' <=> (\E g \in Goroutines : Busy(g)') \/ (\E e \in Elems : Loaded(e)')
BY Zenon DEF Out, Loaded

\* Who is out comes back with a signal.
LEMMA OutKept ==
    ASSUME Types, HandsFit, CountFits, Out, [Next]_vars
    PROVE  Out' \/ w'.signal
<1>1. CASE StayOut
  BY <1>1, OutIs, Zenon DEF StayOut
<1>2. ASSUME NEW g \in Goroutines, Notify(g) PROVE w'.signal
  BY <1>2 DEF Notify, Types, WorkerType
<1>3. ASSUME NEW g \in Goroutines, Serve(g) PROVE Out'
  <2>1. /\ at[g] \in Elems /\ ch' = [ch EXCEPT ![at[g]] = <<>>] /\ ch \in [Elems -> Payloads] /\ pc[g] = "serve"
        /\ \A h \in Goroutines : h # g => pc'[h] = pc[h]
        /\ ch[at[g]] = <<Stop>> \/ pc'[g] = "run"
    BY <1>3, ThreadKinds DEF Serve, Goto, At, Types, ChType, PcType, HandType, HandsFit
  <2>2. CASE pc'[g] = "run"
    <3>1. Busy(g)'
      BY <2>2 DEF Busy
    <3> QED BY <3>1, OutIs, Zenon
  <2>3. CASE ch[at[g]] = <<Stop>>
    <3>1. \A h \in Goroutines : Busy(h) => Busy(h)'
      BY <2>1 DEF Busy
    <3>2. \A e \in Elems : Loaded(e) => Loaded(e)'
      BY <2>1, <2>3 DEF Loaded
    <3> QED BY <3>1, <3>2, OutIs, Zenon
  <2> QED BY <2>1, <2>2, <2>3
<1> QED BY <1>1, <1>2, <1>3, OutFrame DEF OutMoves

\* A pop that finds no head, with the remover: the node in use is out.
LEMMA NoHeadIsOut ==
    ASSUME Types, HandsFit, NEW loc, NEW r, NEW n, Located(loc, r, n), StopFits, ExpiryFits,
           expiry, Active,
           head = Nil, pc[Loop] = "pop", count[Loop] # Removing
    PROVE  Out
<1>1. PICK e \in Elems : e \notin cache /\ e \notin walk.dropped
  BY DEF ExpiryFits, Active, InUse
<1>2. loc[e] # Stacked
  <2>1. Chain(StackOf(loc), r, n, head, next)
    BY DEF Located
  <2>2. n = 0
    BY <2>1, ThreadKinds DEF Chain
  <2>3. e \notin StackOf(loc)
    BY <2>1, <2>2 DEF Chain
  <2> QED BY <2>3 DEF StackOf
<1>3. /\ loc[e] \in Places /\ (e \in cache <=> loc[e] = Cached) /\ (e \in walk.dropped <=> loc[e] = Pruned)
      /\ Loaded(e) <=> loc[e] = Sent
      /\ \A t \in Threads : node[t] = e <=> loc[e] = Hand(t)
      /\ \A g \in Goroutines : Owns(g, e) <=> loc[e] = Runs(g)
  BY DEF Located, Placed, Loaded
<1>4. Loaded(e) \/ (\E t \in Threads : node[t] = e) \/ (\E g \in Goroutines : Owns(g, e))
  BY <1>1, <1>2, <1>3, Zenon DEF Places
<1>5. ASSUME NEW g \in Goroutines, Owns(g, e) PROVE Out
  <2>1. Busy(g)
    BY <1>5 DEF Owns, Busy
  <2> QED BY <2>1, OutIs, Zenon
<1>6. ASSUME NEW t \in Threads, node[t] = e PROVE Out
  <2>1. pc[t] \in HoldSteps \cup {"popped"}
    BY <1>6, ThreadKinds DEF HandsFit
  <2>2. t \notin {Loop, Reaper}
    BY <2>1 DEF HoldSteps, PushSteps, Types, PcType, ReapSteps
  <2>3. CASE t \in Callers
    <3>1. pc[t] \notin PopSteps /\ pc[t] \notin StartSteps
      BY <2>3 DEF ExpiryFits, StopFits, Active
    <3>2. pc[t] \in CallSteps
      BY <2>3 DEF Types, PcType
    <3> QED BY <2>1, <3>1, <3>2 DEF HoldSteps, StartSteps, PushSteps, PopSteps, CallSteps
  <2>4. CASE t \in Goroutines
    <3>1. Busy(t)
      BY <2>1 DEF HoldSteps, PushSteps, Busy
    <3> QED BY <2>4, <3>1, OutIs, Zenon
  <2> QED BY <2>2, <2>3, <2>4, ThreadKinds
<1> QED BY <1>4, <1>5, <1>6, OutIs, Zenon

\* The loop finds no room for a worker: one is out.
LEMMA NoRoomIsOut ==
    ASSUME Types, BusyFits, pc[Loop] = "check", w.busy >= 1
    PROVE  Out
<1>1. BusyOnes # {}
  <2>1. Cardinality(BusyOnes) # 0
    BY DEF BusyFits
  <2> QED BY <2>1, FS_EmptySet, Zenon
<1>2. PICK o \in BusyOnes : TRUE
  BY <1>1
<1>3. \/ o \in Elems /\ Loaded(o)
      \/ o \in Goroutines /\ pc[o] \in BusySteps
  BY <1>2 DEF BusyOnes, Loaded, LoopCounts, PushSteps
<1>4. o \in Goroutines /\ pc[o] \in BusySteps => Busy(o)
  BY DEF BusySteps, PushSteps, Busy
<1> QED BY <1>3, <1>4, OutIs, Zenon

\* The loop never rests on a backlog with nobody to wake it.
LEMMA WakeFitsKept ==
    ASSUME Types, HandsFit, CountFits, NEW loc, NEW r, NEW n, Located(loc, r, n), BusyFits,
           StopFits, ExpiryFits,
           WakeFits, [Next]_vars
    PROVE  WakeFits'
<1>1. expiry' = expiry
  BY Frames DEF BoundsMoves, bounds, Add, Purge, StopWorker, TunePool
<1> SUFFICES ASSUME Idles', expiry PROVE Out'
  BY <1>1 DEF WakeFits, Idles
<1>2. ~w'.signal
  BY DEF Idles
<1>3. CASE Idles
  <2>1. Out
    BY <1>3 DEF WakeFits, Idles
  <2> QED BY <1>2, <2>1, OutKept
<1>4. CASE Check
  <2>1. /\ pc[Loop] = "check" /\ w' = w
    BY <1>4 DEF Check, At
  <2>2. Active /\ w.queue > 0
    BY <2>1 DEF Idles, Active
  <2>3. pc'[Loop] = (IF Active /\ w.busy < w.concurrency /\ w.queue > 0 THEN "planBusy" ELSE "select")
    BY <1>4, ThreadKinds DEF Check, Goto, Types, PcType
  <2>4. ~(w.busy < w.concurrency)
    BY <2>2, <2>3 DEF Idles, Rests, PushSteps
  <2>5. w.busy >= 1
    <3>1. w.concurrency \in Nat \ {0} /\ w.busy \in Int
      BY LargestLimit DEF Types, WorkerType
    <3> QED BY <2>4, <3>1
  <2> QED BY <1>2, <2>1, <2>5, NoRoomIsOut, OutKept
<1>5. CASE Send
  <2> SUFFICES ASSUME NEW x, x = node[Loop] PROVE Out'
    OBVIOUS
  <2>1. x \in Elems /\ x \in BusyOnes' /\ x \notin Threads
    BY <1>5, SendLoads, ThreadKinds
  <2>2. Loaded(x)'
    BY <2>1, ThreadKinds DEF BusyOnes, Loaded
  <2> QED BY <2>1, <2>2, OutIs, Zenon
<1>6. ASSUME NEW g \in Goroutines, RunBatch(g) PROVE Out'
  <2>1. pc'[g] = "keep"
    BY <1>6, ThreadKinds DEF RunBatch, Goto, Types, PcType
  <2>2. Busy(g)'
    BY <2>1 DEF Busy
  <2> QED BY <2>2, OutIs, Zenon
<1>7. CASE /\ pc[Loop] = "pop" /\ head = Nil /\ count[Loop] # Removing /\ Active
  BY <1>2, <1>7, NoHeadIsOut, OutKept
<1> QED BY <1>3, <1>4, <1>5, <1>6, <1>7, IdlesFrame DEF IdlesMoves

-----------------------------------------------------------------------------
(* The theorems *)

\* Every node is in one place, and the ones of the stack are its list.
Locatable == \E loc, r, n : Located(loc, r, n)

IInv == /\ Types /\ HandsFit /\ MutexHeld /\ CountFits /\ Locatable /\ OneServes /\ LenFits
        /\ CurFits /\ QueueFits /\ BusyFits /\ StopFits /\ ExpiryFits /\ WakeFits

\* A worker begins with one node on its stack and a goroutine that serves it.
LEMMA InitLocated ==
    ASSUME Init
    PROVE  Types /\ HandsFit /\ \E loc, r : Located(loc, r, 1)
<1>1. PICK e \in Elems, g \in Goroutines :
        /\ head = e /\ next = [x \in Elems |-> Nil] /\ len = 1 /\ popMx = Nil
        /\ cache = Elems \ {e} /\ ch = [x \in Elems |-> <<>>]
        /\ pc = [t \in Threads |-> IF t = g THEN "serve" ELSE IF t = Loop THEN "select"
                                   ELSE IF t \in Goroutines THEN "dead" ELSE "free"]
        /\ node = [t \in Threads |-> Nil] /\ seen = [t \in Threads |-> <<Nil, Nil>>]
        /\ at = [x \in Goroutines |-> IF x = g THEN e ELSE Nil]
        /\ count = [t \in Threads |-> 0] /\ alive = 0 /\ walk = NoWalk
        /\ w = [queue |-> 0, signal |-> TRUE, busy |-> 0, cur |-> 0, jobNanos |-> 0,
                concurrency |-> Max(Limits), status |-> "active"]
        /\ expiry \in Expiries /\ added = 0 /\ called = 0
  BY DEF Init
<1>2. Types
  <2>1. StackType /\ HandType /\ CountType /\ WalkType
    BY <1>1, ThreadKinds DEF StackType, HandType, CountType, WalkType, NoWalk
  <2>2. ChType /\ BoundType
    BY <1>1, PoolAssumption DEF ChType, Payloads, BoundType
  <2>3. WorkerType
    BY <1>1, LargestLimit DEF WorkerType, Statuses
  <2>4. PcType
    BY <1>1, ThreadKinds DEF PcType, GoSteps, LoopSteps, ReapSteps, CallSteps, PushSteps, PopSteps
  <2> QED BY <2>1, <2>2, <2>3, <2>4 DEF Types
<1>3. HandsFit
  BY <1>1, ThreadKinds DEF HandsFit, HoldSteps, PushSteps, NoWalk
<1> DEFINE loc == [x \in Elems |-> IF x = e THEN Stacked ELSE Cached]
           r == [x \in Elems |-> IF x = e THEN 1 ELSE 0]
<1>4. Placed(loc)
  <2>1. loc \in [Elems -> Places]
    BY PlacesAre
  <2>2. ASSUME NEW x \in Elems PROVE TellsOf(x, loc[x])
    <3>1. x \in cache <=> x # e
      BY <1>1
    <3>2. x \notin walk.dropped /\ ~Loaded(x) /\ \A t \in Threads : node[t] # x
      BY <1>1, ThreadKinds DEF NoWalk, Loaded
    <3>3. \A h \in Goroutines : ~Owns(h, x)
      BY <1>1, ThreadKinds DEF Owns
    <3>4. loc[x] = IF x = e THEN Stacked ELSE Cached
      OBVIOUS
    <3> QED BY <3>1, <3>2, <3>3, <3>4, PlacesDiffer, Zenon DEF TellsOf
  <2> QED BY <2>1, <2>2, PlacedIs
<1>5. StackOf(loc) = {e}
  BY PlacesDiffer DEF StackOf
<1>6. Chain({e}, r, 1, head, next)
  BY <1>1 DEF Chain
<1>7. SeenStands(loc) /\ WalkStands(loc, r)
  BY <1>1, ThreadKinds DEF SeenStands, WalkStands
<1>8. Located(loc, r, 1)
  BY <1>4, <1>5, <1>6, <1>7 DEF Located
<1> QED BY <1>2, <1>3, <1>8, Zenon

\* The sum of nothing is 0.
LEMMA NoUnits ==
    ASSUME NEW f \in [Owners -> Nat], \A o \in Owners : f[o] = 0
    PROVE  Cardinality(Units(f)) = 0
<1>1. Units(f) = {}
  BY DEF Units
<1> QED BY <1>1, FS_EmptySet, Zenon

\* Nothing is handed out in the first state.
LEMMA InitCounts ==
    ASSUME Init
    PROVE  MutexHeld /\ CountFits /\ OneServes /\ LenFits /\ CurFits /\ QueueFits /\ BusyFits
<1>0. Types /\ HandsFit /\ \E loc, r : Located(loc, r, 1)
  BY InitLocated
<1>1. PICK e \in Elems, g \in Goroutines :
        /\ len = 1 /\ popMx = Nil /\ cache = Elems \ {e} /\ ch = [x \in Elems |-> <<>>]
        /\ pc = [t \in Threads |-> IF t = g THEN "serve" ELSE IF t = Loop THEN "select"
                                   ELSE IF t \in Goroutines THEN "dead" ELSE "free"]
        /\ at = [x \in Goroutines |-> IF x = g THEN e ELSE Nil] /\ count = [t \in Threads |-> 0]
        /\ w = [queue |-> 0, signal |-> TRUE, busy |-> 0, cur |-> 0, jobNanos |-> 0,
                concurrency |-> Max(Limits), status |-> "active"] /\ added = 0
  BY DEF Init
<1>2. /\ pc[Loop] = "select" /\ pc[Reaper] = "free" /\ count[Loop] = 0
      /\ \A x \in Goroutines : pc[x] \in {"serve", "dead"}
      /\ \A c \in Callers : pc[c] = "free"
      /\ \A t \in Threads : pc[t] \in {"serve", "dead", "select", "free"}
  BY <1>1, ThreadKinds
<1>3. MutexHeld
  BY <1>2 DEF MutexHeld
<1>4. CountFits
  BY <1>2 DEF CountFits, LoopCounts, RunSteps, PushSteps, Removing
<1>5. OneServes
  <2>1. ASSUME NEW x \in Elems PROVE Cardinality(Servers(x)) = Due(x)
    <3>1. CASE x = e
      <4>1. Servers(x) = {g}
        BY <1>1, <3>1, ThreadKinds DEF Servers
      <4>2. Due(x) = 1
        BY <1>1, <3>1 DEF Due
      <4> QED BY <4>1, <4>2, FS_Singleton, Zenon
    <3>2. CASE x # e
      <4>1. Servers(x) = {}
        BY <1>1, <3>2, ThreadKinds DEF Servers
      <4>2. Due(x) = 0
        BY <1>1, <3>2 DEF Due
      <4> QED BY <4>1, <4>2, FS_EmptySet, Zenon
    <3> QED BY <3>1, <3>2
  <2> QED BY <2>1, OneServesIs, Zenon
<1>6. LenFits
  <2>1. Midway = {}
    BY <1>2 DEF Midway, LenSteps
  <2>2. Cardinality(Midway) = 0
    BY <2>1, FS_EmptySet, Zenon
  <2>3. Cardinality(InStack) = 1
    BY <1>0, StackFacts
  <2> QED BY <1>1, <2>2, <2>3 DEF LenFits
<1>7. Amount \in [Owners -> Nat] /\ Unrun \in [Owners -> Nat]
  BY <1>0, <1>4, AmountTypes
<1>8. \A o \in Owners : Amount[o] = 0 /\ Unrun[o] = 0
  BY <1>1, <1>2 DEF Owners, Amount, Unrun, LoopCounts, RunSteps, PushSteps
<1>9. Cardinality(Units(Amount)) = 0 /\ Cardinality(Units(Unrun)) = 0
  BY <1>7, <1>8, NoUnits
<1>10. CurFits /\ QueueFits
  BY <1>1, <1>9 DEF CurFits, QueueFits
<1>11. BusyFits
  <2>1. BusyOnes = {}
    BY <1>1, <1>2 DEF BusyOnes, LoopCounts, BusySteps, PushSteps
  <2>2. Cardinality(BusyOnes) = 0
    BY <2>1, FS_EmptySet, Zenon
  <2> QED BY <1>1, <1>2, <2>2, LargestLimit DEF BusyFits, PopSteps
<1> QED BY <1>3, <1>4, <1>5, <1>6, <1>10, <1>11

\* The invariant holds in the first state.
LEMMA InitInv ==
    ASSUME Init
    PROVE  IInv
<1>1. Types /\ HandsFit /\ Locatable
  BY InitLocated, Zenon DEF Locatable
<1>2. PICK e \in Elems, g \in Goroutines :
        /\ cache = Elems \ {e} /\ walk = NoWalk /\ count = [t \in Threads |-> 0]
        /\ pc = [t \in Threads |-> IF t = g THEN "serve" ELSE IF t = Loop THEN "select"
                                   ELSE IF t \in Goroutines THEN "dead" ELSE "free"]
        /\ w = [queue |-> 0, signal |-> TRUE, busy |-> 0, cur |-> 0, jobNanos |-> 0,
                concurrency |-> Max(Limits), status |-> "active"]
  BY DEF Init
<1>3. /\ pc[Loop] = "select" /\ count[Loop] = 0 /\ \A c \in Callers : pc[c] = "free"
      /\ w.status = "active" /\ w.queue = 0
  BY <1>2, ThreadKinds
<1>4. StopFits
  BY <1>3 DEF StopFits, StartSteps, PushSteps, Removing
<1>5. ExpiryFits
  BY <1>2, <1>3 DEF ExpiryFits, InUse, NoWalk, PopSteps
<1>6. WakeFits
  BY <1>3 DEF WakeFits
<1> QED BY <1>1, <1>4, <1>5, <1>6, InitCounts DEF IInv

\* Every step keeps the invariant.
LEMMA NextInv ==
    ASSUME IInv, [Next]_vars
    PROVE  IInv'
<1>1. PICK loc, r, n : Located(loc, r, n)
  BY DEF IInv, Locatable
<1>2. /\ Types /\ HandsFit /\ MutexHeld /\ CountFits /\ OneServes /\ LenFits
      /\ CurFits /\ QueueFits /\ BusyFits /\ StopFits /\ ExpiryFits /\ WakeFits /\ Placed(loc)
  BY <1>1 DEF IInv, Located
<1>3. Types' /\ HandsFit' /\ MutexHeld' /\ CountFits'
  BY <1>1, <1>2, TypesKept, HandsFitKept, MutexKept, CountFitsKept
<1>4. Locatable'
  <2>1. Relocated
    BY <1>1, <1>2, LocatedKept
  <2> QED BY <2>1, Zenon DEF Relocated, Locatable
<1>5. OneServes' /\ LenFits'
  BY <1>1, <1>2, OneServesKept, LenFitsKept
<1>6. CurFits' /\ QueueFits' /\ BusyFits'
  BY <1>2, CurFitsKept, QueueFitsKept, BusyFitsKept
<1>7. StopFits' /\ ExpiryFits'
  BY <1>1, <1>2, StopFitsKept, ExpiryFitsKept
<1>8. WakeFits'
  BY <1>1, <1>2, WakeFitsKept
<1> QED BY <1>3, <1>4, <1>5, <1>6, <1>7, <1>8 DEF IInv

\* Who is in the middle of a push or a pop has a node in hand, off the stack, and
\* no two have the same: Len never passes the number of nodes.
LEMMA LenBound ==
    ASSUME Types, HandsFit, NEW loc, NEW r, NEW n, Located(loc, r, n), LenFits
    PROVE  len \in 0..Cardinality(Elems)
<1> DEFINE f == [t \in Midway |-> node[t]]
           N == {node[t] : t \in Midway}
<1>1. \A t \in Midway : t \in Threads /\ node[t] \in Elems
  BY DEF Midway, LenSteps, HandsFit, HoldSteps, PushSteps, Types, HandType
<1>2. \A t \in Midway : loc[node[t]] = Hand(t)
  BY <1>1 DEF Located, Placed
<1>3. \A t, u \in Midway : node[t] = node[u] => t = u
  BY <1>2, PlacesDiffer
<1>4. f \in Bijection(Midway, N)
  <2>1. f \in Surjection(Midway, N)
    BY DEF Surjection
  <2>2. f \in Injection(Midway, N)
    BY <1>3 DEF Injection, IsInjective
  <2> QED BY <2>1, <2>2 DEF Bijection
<1>5. IsFiniteSet(N) /\ Cardinality(N) = Cardinality(Midway)
  <2>1. ExistsBijection(Midway, N)
    BY <1>4, Zenon DEF ExistsBijection
  <2> HIDE DEF N
  <2> QED BY <2>1, MidwayFinite, FS_Bijection, Zenon
<1>6. N \cap InStack = {} /\ N \cup InStack \in SUBSET Elems
  <2>1. InStack = StackOf(loc)
    BY StackFacts
  <2>2. ASSUME NEW t \in Midway PROVE node[t] \notin StackOf(loc)
    BY <1>2, PlacesDiffer DEF StackOf
  <2> QED BY <1>1, <2>1, <2>2 DEF StackOf
<1> HIDE DEF N, f
<1>7. IsFiniteSet(InStack) /\ IsFiniteSet(Elems) /\ Cardinality(Elems) \in Nat
  <2>1. InStack \in SUBSET Elems /\ IsFiniteSet(Elems)
    BY <1>6, PoolAssumption
  <2> QED BY <2>1, FS_Subset, FS_CardinalityType, Zenon
<1>8. Cardinality(N \cup InStack) = Cardinality(N) + Cardinality(InStack) - Cardinality(N \cap InStack)
  BY <1>5, <1>7, FS_Union, Zenon
<1>9. Cardinality(N \cap InStack) = 0
  BY <1>6, FS_EmptySet, Zenon
<1>10. Cardinality(N \cup InStack) <= Cardinality(Elems)
  BY <1>6, <1>7, FS_Subset, Zenon
<1>11. Cardinality(InStack) \in Nat /\ Cardinality(Midway) \in Nat
  BY StackFacts, MidwayFinite
<1> QED BY <1>5, <1>7, <1>8, <1>9, <1>10, <1>11 DEF LenFits

\* The place of a node, as NodesAccounted lists the places.
LEMMA OnePlace ==
    ASSUME NEW loc, NEW r, NEW n, Located(loc, r, n), NEW e \in Elems
    PROVE  {p \in {<<"stack">>} : e \in InStack} \cup {p \in {<<"cache">>} : e \in cache}
           \cup {p \in {<<"pruned">>} : e \in walk.dropped}
           \cup {p \in {<<"sent">>} : ch[e] \notin {<<>>, <<Stop>>}}
           \cup {<<"hand", t>> : t \in {t \in Threads : node[t] = e}}
           \cup {<<"runs", g>> : g \in {g \in Goroutines : Owns(g, e)}} = {loc[e]}
<1>1. e \in InStack <=> loc[e] = Stacked
  BY StackFacts DEF StackOf
<1>2. /\ loc[e] \in Places /\ (e \in cache <=> loc[e] = Cached) /\ (e \in walk.dropped <=> loc[e] = Pruned)
      /\ (ch[e] \notin {<<>>, <<Stop>>}) <=> loc[e] = Sent
      /\ \A t \in Threads : node[t] = e <=> loc[e] = Hand(t)
      /\ \A g \in Goroutines : Owns(g, e) <=> loc[e] = Runs(g)
  BY DEF Located, Placed
<1>3. {p \in {<<"stack">>} : e \in InStack} = {p \in {loc[e]} : p = Stacked}
  BY <1>1 DEF Stacked
<1>4. {p \in {<<"cache">>} : e \in cache} = {p \in {loc[e]} : p = Cached}
  BY <1>2 DEF Cached
<1>5. {p \in {<<"pruned">>} : e \in walk.dropped} = {p \in {loc[e]} : p = Pruned}
  BY <1>2 DEF Pruned
<1>6. {p \in {<<"sent">>} : ch[e] \notin {<<>>, <<Stop>>}} = {p \in {loc[e]} : p = Sent}
  BY <1>2 DEF Sent
<1>7. {<<"hand", t>> : t \in {t \in Threads : node[t] = e}} = {p \in {loc[e]} : \E t \in Threads : p = Hand(t)}
  BY <1>2 DEF Hand
<1>8. {<<"runs", g>> : g \in {g \in Goroutines : Owns(g, e)}} = {p \in {loc[e]} : \E g \in Goroutines : p = Runs(g)}
  BY <1>2 DEF Runs
<1>9. \/ loc[e] \in {Stacked, Cached, Pruned, Sent}
      \/ \E t \in Threads : loc[e] = Hand(t)
      \/ \E g \in Goroutines : loc[e] = Runs(g)
  BY <1>2 DEF Places
<1> QED BY <1>3, <1>4, <1>5, <1>6, <1>7, <1>8, <1>9

\* The invariant gives NodesAccounted.
LEMMA AccountedHolds ==
    ASSUME IInv
    PROVE  NodesAccounted
<1>1. PICK loc, r, n : Located(loc, r, n)
  BY DEF IInv, Locatable
<1>2. Types /\ HandsFit /\ LenFits /\ CurFits /\ QueueFits /\ BusyFits /\ CountFits
  BY DEF IInv
<1>3. TypeOK
  <2>1. len \in 0..Cardinality(Elems)
    BY <1>1, <1>2, LenBound
  <2>2. ASSUME NEW e \in Elems PROVE Len(ch[e]) <= 1
    <3>1. ch[e] = <<>> \/ \E k \in Nat : ch[e] = <<k>>
      BY <1>2 DEF Types, ChType, Payloads
    <3>2. Len(<<>>) = 0
      OBVIOUS
    <3>3. ASSUME NEW k \in Nat PROVE Len(<<k>>) = 1
      OBVIOUS
    <3>4. ch[e] = <<>> => Len(ch[e]) <= 1
      BY <3>2
    <3>5. ASSUME NEW k \in Nat, ch[e] = <<k>> PROVE Len(ch[e]) <= 1
      BY <3>3, <3>5
    <3> QED BY <3>1, <3>4, <3>5
  <2>3. Amount \in [Owners -> Nat] /\ Unrun \in [Owners -> Nat]
    BY <1>2, AmountTypes
  <2>4. Cardinality(Units(Amount)) \in Nat /\ Cardinality(Units(Unrun)) \in Nat
    BY <2>3, UnitsFinite
  <2>5. w.queue \in 0..MaxJobs
    <3>1. w.queue \in Nat /\ added \in 0..MaxJobs /\ MaxJobs \in Nat
      BY <1>2, PoolAssumption DEF Types, WorkerType, BoundType
    <3> QED BY <1>2, <2>4, <3>1 DEF QueueFits
  <2>6. w.busy \in 0..Max(Limits) /\ w.cur >= 0
    BY <1>2, <2>4, BusyFinite, LargestLimit DEF BusyFits, CurFits
  <2> QED BY <1>2, <2>1, <2>2, <2>5, <2>6 DEF TypeOK, Types, StackType, HandType
<1>4. Len(From(head)) = Cardinality(InStack)
  BY <1>1, StackFacts
<1>5. ASSUME NEW e \in Elems
      PROVE  Cardinality({p \in {<<"stack">>} : e \in InStack} \cup {p \in {<<"cache">>} : e \in cache}
                         \cup {p \in {<<"pruned">>} : e \in walk.dropped}
                         \cup {p \in {<<"sent">>} : ch[e] \notin {<<>>, <<Stop>>}}
                         \cup {<<"hand", t>> : t \in {t \in Threads : node[t] = e}}
                         \cup {<<"runs", g>> : g \in {g \in Goroutines : Owns(g, e)}}) = 1
  <2>1. Cardinality({loc[e]}) = 1
    BY FS_Singleton, Zenon
  <2> QED BY <1>1, <2>1, OnePlace
<1>6. len = Cardinality(InStack) + Cardinality({t \in Threads : pc[t] \in {"pushLoad", "pushCas", "popCount"}})
  BY <1>2 DEF LenFits, Midway, LenSteps
<1> QED BY <1>3, <1>4, <1>5, <1>6, Zenon DEF NodesAccounted

\* The invariant gives ExpiryKeepsOne.
LEMMA WokenHolds ==
    ASSUME IInv
    PROVE  ExpiryKeepsOne
<1>1. WakeFits
  BY DEF IInv
<1> QED BY <1>1, Zenon DEF WakeFits, ExpiryKeepsOne, OneComesBack, Rests, Out, At

\* The invariant gives StoppedLeavesNone.
LEMMA StoppedHolds ==
    ASSUME IInv
    PROVE  StoppedLeavesNone
<1>1. PICK loc, r, n : Located(loc, r, n)
  BY DEF IInv, Locatable
<1>2. Types /\ HandsFit /\ StopFits
  BY DEF IInv
<1> SUFFICES ASSUME w.status = "stopped", NEW e \in Elems, e \notin cache, e \notin walk.dropped
             PROVE  \E c \in Callers : node[c] = e
  BY DEF StoppedLeavesNone
<1>3. pc[Loop] = "over" /\ Quiet /\ head = Nil
  BY <1>2 DEF StopFits
<1>4. loc[e] # Stacked
  <2>1. Chain(StackOf(loc), r, n, head, next)
    BY <1>1 DEF Located
  <2>2. n = 0
    BY <1>3, <2>1, ThreadKinds DEF Chain
  <2>3. e \notin StackOf(loc)
    BY <2>1, <2>2 DEF Chain
  <2> QED BY <2>3 DEF StackOf
<1>5. ~Loaded(e) /\ \A g \in Goroutines : ~Owns(g, e)
  BY <1>3 DEF Quiet, Loaded, Owns
<1>6. /\ loc[e] \in Places /\ (e \in cache <=> loc[e] = Cached) /\ (e \in walk.dropped <=> loc[e] = Pruned)
      /\ Loaded(e) <=> loc[e] = Sent
      /\ \A t \in Threads : node[t] = e <=> loc[e] = Hand(t)
      /\ \A g \in Goroutines : Owns(g, e) <=> loc[e] = Runs(g)
  BY <1>1 DEF Located, Placed, Loaded
<1>7. PICK t \in Threads : node[t] = e
  BY <1>4, <1>5, <1>6, Zenon DEF Places
<1>8. pc[t] \in HoldSteps \cup {"popped"}
  BY <1>2, <1>7, ThreadKinds DEF HandsFit
<1>9. t \notin {Loop, Reaper}
  BY <1>2, <1>3, <1>8 DEF HoldSteps, PushSteps, Types, PcType, ReapSteps
<1>10. t \notin Goroutines
  BY <1>3, <1>8 DEF Quiet, HoldSteps, PushSteps
<1> QED BY <1>7, <1>9, <1>10, ThreadKinds

\* Spec => []IInv: where every node is, whom it is served by, and what the pool's
\* and the worker's counters stand for, whatever the event loop, the goroutines,
\* the remover and the callers do (pool.go, worker_pool.go, worker_eventloop.go).
THEOREM PoolInvariant == Spec => []IInv
BY InitInv, NextInv, PTL DEF Spec

\* Spec => []NodesAccounted: every node of the pool is in one place, whoever
\* pushes, pops and prunes at once, no push or swap loses one or brings one back
\* twice, and Len is high only by the pushes and the pop under way (pool.go).
THEOREM Accounted == Spec => []NodesAccounted
BY PoolInvariant, AccountedHolds, PTL

\* Spec => []OneServes: a node in use has one goroutine, and every Stop still in
\* a channel has one more to take it, for any number of nodes that come out of
\* the cache before their old goroutine has ended (worker_pool.go, node.go).
THEOREM Served == Spec => []OneServes
<1>1. IInv => OneServes
  BY DEF IInv
<1> QED BY <1>1, PoolInvariant, PTL

\* Spec => []ExpiryKeepsOne: with the remover of expired nodes the event loop
\* never rests on a backlog without a goroutine that will notify it
\* (worker_eventloop.go).
THEOREM ExpiryWakes == Spec => []ExpiryKeepsOne
BY PoolInvariant, WokenHolds, PTL

\* Spec => []StoppedLeavesNone: a stopped worker has no node but the ones a
\* TunePool or the remover is about to stop (worker_pool.go).
THEOREM StopsAll == Spec => []StoppedLeavesNone
BY PoolInvariant, StoppedHolds, PTL

=============================================================================
