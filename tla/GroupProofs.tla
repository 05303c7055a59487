----------------------------- MODULE GroupProofs -----------------------------
(***************************************************************************)
(* For any callers, workers, ids and sizes of groups: the id set follows   *)
(* the items (IdsMatchItems), the channel of a group is closed once and    *)
(* has room (ChannelSound), and a Dequeue takes the first (TakesFirst).    *)
(***************************************************************************)
EXTENDS Group, FiniteSetTheorems, TLAPS

H == INSTANCE HeapProofs WITH Entries <- Entry

Positions == DOMAIN items

\* An AddAll goes through its items in order.  The one it is at is new until it
\* is stored or refused, and so are those after it; an id that it stores is in
\* the set, under a lock it holds.
AdderAt(p) ==
    /\ pc[p] = "ready" => at[p] = 0 /\ pending[p] = 0 /\ buffered[p] = 0 /\ ~shut[p]
    /\ pc[p] \notin {"ready", "end"} => at[p] \in 1 .. conf.size[p]
    /\ pc[p] \in {"add", "lock", "append"} => phase[Current(p)] = "new"
    /\ \A i \in 1 .. MaxItems : i > at[p] => phase[<<p, i>>] = "new"
    /\ pc[p] \in {"lock", "append", "unlock"} => id[p] \in Ids /\ ~conf.heap /\ idsOn
    /\ pc[p] \in {"append", "unlock"} => lock[Shard[id[p]]] = p
    /\ pc[p] = "append" => id[p] \in ids

Adders == \A p \in Producers : AdderAt(p)

\* A job that is no longer new is a member of a group.
Known == \A j \in Jobs : phase[j] # "new" => j[2] <= conf.size[j[1]] /\ pc[j[1]] # "ready"

\* The items are the stored jobs, each once.
Stored ==
    /\ \A i \in Positions :
         /\ phase[items[i].job] = "stored" /\ items[i].index < count
         /\ ~conf.heap => items[i].prio = 0 /\ (items[i].id # None => idsOn)
    /\ \A i, k \in Positions : i # k => items[i].job # items[k].job /\ items[i].index # items[k].index

\* The FIFO's are in the order of their insertion, the heap's in that of a heap.
Sorted ==
    /\ ~conf.heap => \A i, k \in Positions : i < k => items[i].index < items[k].index
    /\ conf.heap => H!HeapOrdered(items, Len(items))

\* A worker between the two halves of a Dequeue.
Hands ==
    /\ \A t \in Takers : hand[t] # None =>
         phase[hand[t].job] = "dequeued" /\ hand[t].id \in Ids /\ ~conf.heap
    /\ \A t, u \in Takers : t # u /\ hand[t] # None /\ hand[u] # None => hand[t].job # hand[u].job

\* The counter is the members that are not counted off ...
Counted == \A p \in Producers : pc[p] # "ready" =>
    pending[p] = Cardinality({j \in Members(p) : phase[j] \notin {"last", "end"}})

\* ... so the one that is the last finds all others at their end.
LastAlone == \A p \in Producers : \A j, k \in Members(p) :
    phase[j] = "last" /\ k # j => phase[k] = "end"

\* A Purge of the FIFO takes every lock, empties the log, and resets the id set
\* one shard at a time: what is added meanwhile is in a shard it has left.
Purging ==
    /\ ppc \in {"none", "take", "close"} => turn = 1
    /\ ppc \in {"lock", "reset"} => ~conf.heap
    /\ ppc = "lock" => \A k \in 1 .. NumShards : k < turn => lock[k] = "purge"
    /\ ppc = "take" /\ ~conf.heap => \A k \in 1 .. NumShards : lock[k] = "purge"
    /\ ppc = "reset" =>
         /\ \A k \in 1 .. NumShards : k >= turn => lock[k] = "purge"
         /\ \A i \in Positions : items[i].id # None => Shard[items[i].id] < turn
         /\ ~raced => \A t \in Takers : hand[t] # None => Shard[hand[t].id] < turn

\* Short of the race, an id has one holder, and is in the set while it has: the
\* item stored under it, the worker that is to free it or the add under way.
Holders ==
    ~raced =>
      /\ \A i \in Positions : items[i].id # None => items[i].id \in ids
      /\ \A t \in Takers : hand[t] # None => hand[t].id \in ids
      /\ \A i, k \in Positions : i # k /\ items[i].id = items[k].id => items[i].id = None
      /\ \A i \in Positions, t \in Takers : hand[t] # None => items[i].id # hand[t].id
      /\ \A i \in Positions, p \in Producers : At(p, "append") => items[i].id # id[p]
      /\ \A t, u \in Takers : t # u /\ hand[t] # None /\ hand[u] # None => hand[t].id # hand[u].id
      /\ \A t \in Takers, p \in Producers : hand[t] # None /\ At(p, "append") => hand[t].id # id[p]

NoLeak == \A x \in ids :
    \/ \E i \in Positions : items[i].id = x
    \/ \E p \in Producers : At(p, "append") /\ id[p] = x
    \/ \E t \in Takers : hand[t] # None /\ hand[t].id = x
    \/ ppc = "reset" /\ Shard[x] >= turn

IInv ==
    /\ TypeOK /\ Adders /\ Known /\ Stored /\ Sorted /\ Hands
    /\ Counted /\ LastAlone /\ ChannelSound
    /\ Purging /\ Holders /\ NoLeak

(***************************************************************************)
(* What is stored: adding an entry, taking the first                       *)
(***************************************************************************)
\* t has the entries of s and e.
Adds(s, t, e) ==
    /\ t \in Seq(Entry) /\ Len(t) = Len(s) + 1
    /\ \A i \in DOMAIN t : t[i] = e \/ \E k \in DOMAIN s : t[i] = s[k]
    /\ \A i, k \in DOMAIN t : i # k =>
         \/ t[i] = e /\ \E l \in DOMAIN s : t[k] = s[l]
         \/ t[k] = e /\ \E m \in DOMAIN s : t[i] = s[m]
         \/ \E m, l \in DOMAIN s : m # l /\ t[i] = s[m] /\ t[k] = s[l]
    /\ \E i \in DOMAIN t : t[i] = e
    /\ \A k \in DOMAIN s : \E i \in DOMAIN t : t[i] = s[k]

\* t has the entries of s but the first.
Takes(s, t) ==
    /\ t \in Seq(Entry) /\ Len(t) = Len(s) - 1
    /\ \A i, k \in DOMAIN t : i # k =>
         \E m, l \in DOMAIN s : m # l /\ m # 1 /\ l # 1 /\ t[i] = s[m] /\ t[k] = s[l]
    /\ \A i \in DOMAIN t : \E k \in DOMAIN s : k # 1 /\ t[i] = s[k]
    /\ \A k \in DOMAIN s : k # 1 => \E i \in DOMAIN t : t[i] = s[k]

\* The heap of Group is the heap of HeapProofs.
LEMMA HeapSame ==
    /\ \A s, e : H!push(s, e) = push(s, e)
    /\ \A s : H!pop(s) = pop(s)
    /\ \A a, b : H!before(a, b) = before(a, b)
<1>1. H!up = up
  BY DEF up, H!up, less, H!less, before, H!before, Parent, H!Parent, swap, H!swap
<1>2. H!down = down
  BY DEF down, H!down, Child, H!Child, less, H!less, before, H!before, swap, H!swap
<1>3. \A s, e : H!push(s, e) = push(s, e)
  BY <1>1 DEF push, H!push
<1>4. \A s : H!pop(s) = pop(s)
  BY <1>2 DEF pop, H!pop, swap, H!swap
<1>5. \A a, b : H!before(a, b) = before(a, b)
  BY DEF before, H!before
<1> QED BY <1>3, <1>4, <1>5

\* A rearrangement of Append(s, e) adds e to s.
LEMMA PermutedAdds ==
    ASSUME NEW s \in Seq(Entry), NEW e \in Entry, NEW t, H!Permuted(Append(s, e), t, Len(s) + 1)
    PROVE  Adds(s, t, e)
<1> DEFINE n == Len(s)
           a == Append(s, e)
<1>1. n \in Nat /\ a \in Seq(Entry) /\ Len(a) = n + 1 /\ a[n + 1] = e
      /\ DOMAIN s = 1 .. n /\ \A k \in DOMAIN s : a[k] = s[k]
  OBVIOUS
<1> HIDE DEF a
<1>2. t \in Seq(Entry) /\ Len(t) = n + 1 /\ DOMAIN t = 1 .. n + 1
  BY <1>1 DEF H!Permuted, a
<1>3. PICK p : H!Rearranges(p, n + 1) /\ \A i \in 1 .. n + 1 : t[i] = a[p[i]]
  BY DEF H!Permuted, a
<1>4. /\ \A i \in DOMAIN t : p[i] \in 1 .. n + 1
      /\ \A i, k \in DOMAIN t : p[i] = p[k] => i = k
      /\ \A k \in 1 .. n + 1 : \E i \in DOMAIN t : p[i] = k
  BY <1>2, <1>3 DEF H!Rearranges
<1> HIDE DEF n
<1>5. \A k \in 1 .. n + 1 : k = n + 1 \/ k \in DOMAIN s
  BY <1>1
<1>6. n + 1 \in 1 .. n + 1 /\ \A k \in DOMAIN s : k \in 1 .. n + 1
  BY <1>1
<1>7. \A i \in DOMAIN t : (p[i] = n + 1 /\ t[i] = e) \/ (p[i] \in DOMAIN s /\ t[i] = s[p[i]])
  BY <1>1, <1>2, <1>3, <1>4, <1>5
<1>8. ASSUME NEW i \in DOMAIN t, NEW k \in DOMAIN t, i # k
      PROVE  \/ t[i] = e /\ \E l \in DOMAIN s : t[k] = s[l]
             \/ t[k] = e /\ \E m \in DOMAIN s : t[i] = s[m]
             \/ \E m, l \in DOMAIN s : m # l /\ t[i] = s[m] /\ t[k] = s[l]
  <2>1. p[i] # p[k]
    BY <1>4, <1>8, Zenon
  <2> QED BY <1>7, <2>1
<1>9. \E i \in DOMAIN t : t[i] = e
  <2>1. PICK i \in DOMAIN t : p[i] = n + 1
    BY <1>4, <1>6, Zenon
  <2>2. t[i] = a[n + 1]
    BY <1>2, <1>3, <2>1, Zenon
  <2> QED BY <1>1, <2>2
<1>10. ASSUME NEW k \in DOMAIN s PROVE \E i \in DOMAIN t : t[i] = s[k]
  <2>1. PICK i \in DOMAIN t : p[i] = k
    BY <1>4, <1>6, Zenon
  <2>2. t[i] = a[k]
    BY <1>2, <1>3, <2>1, Zenon
  <2> QED BY <1>1, <2>2
<1> QED BY <1>2, <1>7, <1>8, <1>9, <1>10 DEF Adds, n

\* A rearrangement of Tail(s) takes the first of s.
LEMMA PermutedTakes ==
    ASSUME NEW s \in Seq(Entry), s # <<>>, NEW t, H!Permuted(Tail(s), t, Len(s) - 1)
    PROVE  Takes(s, t)
<1> DEFINE n == Len(s) - 1
           a == Tail(s)
<1>1. n \in Nat /\ a \in Seq(Entry) /\ Len(a) = n /\ DOMAIN s = 1 .. n + 1
      /\ \A k \in 1 .. n : a[k] = s[k + 1]
  OBVIOUS
<1> HIDE DEF a
<1>2. t \in Seq(Entry) /\ Len(t) = n /\ DOMAIN t = 1 .. n
  BY <1>1 DEF H!Permuted, a
<1>3. PICK p : H!Rearranges(p, n) /\ \A i \in 1 .. n : t[i] = a[p[i]]
  BY DEF H!Permuted, a
<1>4. /\ \A i \in DOMAIN t : p[i] \in 1 .. n
      /\ \A i, k \in DOMAIN t : p[i] = p[k] => i = k
      /\ \A k \in 1 .. n : \E i \in DOMAIN t : p[i] = k
  BY <1>2, <1>3 DEF H!Rearranges
<1> HIDE DEF n
<1>5. ASSUME NEW i \in DOMAIN t
      PROVE  p[i] + 1 \in DOMAIN s /\ p[i] + 1 # 1 /\ t[i] = s[p[i] + 1]
  <2>1. p[i] \in 1 .. n
    BY <1>4
  <2>2. t[i] = a[p[i]]
    BY <1>2, <1>3, Zenon
  <2>3. a[p[i]] = s[p[i] + 1]
    BY <1>1, <2>1
  <2> QED BY <1>1, <2>1, <2>2, <2>3
<1>6. ASSUME NEW i \in DOMAIN t, NEW k \in DOMAIN t, i # k
      PROVE  \E m, l \in DOMAIN s : m # l /\ m # 1 /\ l # 1 /\ t[i] = s[m] /\ t[k] = s[l]
  <2>1. p[i] # p[k]
    BY <1>4, <1>6, Zenon
  <2>2. p[i] + 1 # p[k] + 1
    BY <1>1, <1>4, <2>1
  <2> QED BY <1>5, <2>2
<1>7. ASSUME NEW k \in DOMAIN s, k # 1 PROVE \E i \in DOMAIN t : t[i] = s[k]
  <2>1. k - 1 \in 1 .. n /\ (k - 1) + 1 = k
    BY <1>1, <1>7
  <2>2. PICK i \in DOMAIN t : p[i] = k - 1
    BY <1>4, <2>1
  <2> QED BY <1>5, <2>1, <2>2
<1>8. Len(t) = Len(s) - 1
  BY <1>2 DEF n
<1> QED BY <1>2, <1>5, <1>6, <1>7, <1>8 DEF Takes

\* What the heap compares are naturals.
LEMMA KeyedEntries == H!Keyed
  BY DEF H!Keyed, Entry

\* Store adds an entry for the item at hand, wherever the heap puts it.
LEMMA StoreEffect ==
    ASSUME TypeOK, Sorted, NEW p \in Producers, at[p] \in 1 .. MaxItems,
           NEW x \in Ids \cup {None}, NEW n \in Nat, Store(p, x, n)
    PROVE  \E e \in Entry :
             /\ e.job = Current(p) /\ e.id = x /\ e.prio = n /\ e.index = count
             /\ Adds(items, items', e)
             /\ conf.heap => H!HeapOrdered(items', Len(items'))
             /\ ~conf.heap => items' = Append(items, e)
<1> DEFINE e == [job |-> Current(p), id |-> x, prio |-> n, index |-> count]
<1>1. items \in Seq(Entry) /\ count \in Nat
  BY DEF TypeOK
<1>2. e \in Entry
  BY <1>1 DEF Entry, Jobs, Current
<1>3. e.job = Current(p) /\ e.id = x /\ e.prio = n /\ e.index = count
  OBVIOUS
<1>4. items' = IF conf.heap THEN push(items, e) ELSE Append(items, e)
  BY DEF Store
<1> HIDE DEF e
<1>5. CASE conf.heap
  <2>1. H!Permuted(Append(items, e), push(items, e), Len(items) + 1)
        /\ (H!Keyed /\ H!HeapOrdered(items, Len(items))
              => H!HeapOrdered(push(items, e), Len(items) + 1))
    BY <1>1, <1>2, HeapSame, H!PushKeeps
  <2>2. Adds(items, items', e)
    BY <1>1, <1>2, <1>4, <1>5, <2>1, PermutedAdds
  <2>3. Len(items') = Len(items) + 1
    BY <2>2 DEF Adds
  <2>4. H!HeapOrdered(items', Len(items'))
    BY <1>4, <1>5, <2>1, <2>3, KeyedEntries DEF Sorted
  <2> QED BY <1>2, <1>3, <1>5, <2>2, <2>4
<1>6. CASE ~conf.heap
  <2>1. Append(items, e) \in Seq(Entry) /\ Len(items) + 1 \in Nat
    BY <1>1, <1>2
  <2>2. H!Permuted(Append(items, e), Append(items, e), Len(items) + 1)
    BY <2>1, H!PermutedSame
  <2>3. Adds(items, items', e)
    BY <1>1, <1>2, <1>4, <1>6, <2>2, PermutedAdds
  <2> QED BY <1>2, <1>3, <1>4, <1>6, <2>3
<1> QED BY <1>5, <1>6

\* Dequeue takes the first, before which nothing comes.
LEMMA TakeEffect ==
    ASSUME TypeOK, Stored, Sorted, NEW t \in Takers, Dequeue(t)
    PROVE  /\ items \in Seq(Entry) /\ 1 \in DOMAIN items /\ Head(items) = items[1]
           /\ items[1] \in Entry
           /\ Takes(items, items')
           /\ conf.heap => H!HeapOrdered(items', Len(items'))
           /\ ~conf.heap => items' = Tail(items)
           /\ \A k \in DOMAIN items : k # 1 => before(items[1], items[k])
<1>1. items \in Seq(Entry) /\ items # <<>>
  BY DEF TypeOK, Dequeue
<1>2. 1 \in DOMAIN items /\ Head(items) = items[1] /\ items[1] \in Entry
      /\ DOMAIN items = 1 .. Len(items)
  BY <1>1
<1>3. items' = IF conf.heap THEN pop(items) ELSE Tail(items)
  BY DEF Dequeue
<1>4. ASSUME NEW k \in DOMAIN items PROVE items[k].prio \in Nat /\ items[k].index \in Nat
  <2>1. items[k] \in Entry
    BY <1>1
  <2> QED BY <2>1 DEF Entry
<1>5. CASE conf.heap
  <2>1. /\ H!Permuted(Tail(items), pop(items), Len(items) - 1)
        /\ H!Keyed /\ H!HeapOrdered(items, Len(items)) =>
             /\ H!HeapOrdered(pop(items), Len(items) - 1)
             /\ \A k \in 1 .. Len(items) : ~H!before(items[k], items[1])
    BY <1>1, HeapSame, H!PopKeeps
  <2>2. Takes(items, items')
    BY <1>1, <1>3, <1>5, <2>1, PermutedTakes
  <2>3. Len(items') = Len(items) - 1
    BY <2>2 DEF Takes
  <2>4. H!HeapOrdered(items', Len(items')) /\ \A k \in DOMAIN items : ~before(items[k], items[1])
    BY <1>2, <1>3, <1>5, <2>1, <2>3, KeyedEntries, HeapSame DEF Sorted
  <2>5. ASSUME NEW k \in DOMAIN items, k # 1 PROVE before(items[1], items[k])
    <3>1. items[1].index # items[k].index /\ ~before(items[k], items[1])
      BY <1>2, <2>4, <2>5 DEF Stored, Positions
    <3> QED BY <1>2, <1>4, <3>1 DEF before
  <2> QED BY <1>1, <1>2, <1>5, <2>2, <2>4, <2>5
<1>6. CASE ~conf.heap
  <2>1. Tail(items) \in Seq(Entry) /\ Len(items) - 1 \in Nat
    BY <1>1
  <2>2. H!Permuted(Tail(items), Tail(items), Len(items) - 1)
    BY <2>1, H!PermutedSame
  <2>3. Takes(items, items')
    BY <1>1, <1>3, <1>6, <2>2, PermutedTakes
  <2>4. ASSUME NEW k \in DOMAIN items, k # 1 PROVE before(items[1], items[k])
    <3>1. 1 < k
      BY <1>2, <2>4
    <3>2. items[1].index < items[k].index /\ items[1].prio = 0 /\ items[k].prio = 0
      BY <1>2, <1>6, <3>1 DEF Stored, Sorted, Positions
    <3> QED BY <3>2 DEF before
  <2> QED BY <1>1, <1>2, <1>3, <1>6, <2>3, <2>4
<1> QED BY <1>5, <1>6

(***************************************************************************)
(* What a step does to the jobs                                            *)
(***************************************************************************)
LEMMA ConfType ==
    ASSUME conf \in Setups
    PROVE  /\ conf.heap \in BOOLEAN /\ conf.capacity \in Nat
           /\ \A p \in Producers : conf.size[p] \in Nat /\ conf.size[p] <= MaxItems
  BY GroupAssumption

\* The members of a group are as many as the items of its AddAll.
LEMMA MembersType ==
    ASSUME conf \in Setups, NEW p \in Producers
    PROVE  /\ Members(p) \subseteq Jobs
           /\ IsFiniteSet(Members(p)) /\ Cardinality(Members(p)) = conf.size[p]
           /\ \A j \in Jobs : j \in Members(p) <=> j[1] = p /\ j[2] <= conf.size[p]
<1> DEFINE n == conf.size[p]
<1>1. n \in Nat /\ n <= MaxItems /\ MaxItems \in Nat
  BY ConfType, GroupAssumption
<1>2. IsFiniteSet(1 .. n) /\ Cardinality(1 .. n) = n
  <2> HIDE DEF n
  <2>1. 1 \in Int /\ n \in Int
    BY <1>1
  <2>2. IsFiniteSet(1 .. n) /\ Cardinality(1 .. n) = IF 1 > n THEN 0 ELSE n - 1 + 1
    BY <2>1, FS_Interval, Zenon
  <2>3. (IF 1 > n THEN 0 ELSE n - 1 + 1) = n
    BY <1>1
  <2> QED BY <2>2, <2>3
<1>3. IsFiniteSet({p}) /\ Cardinality({p}) = 1
  BY FS_Singleton
<1>4. IsFiniteSet({p} \X (1 .. n)) /\ Cardinality({p} \X (1 .. n)) = 1 * n
  <2> HIDE DEF n
  <2>1. IsFiniteSet(1 .. n) /\ IsFiniteSet({p})
    BY <1>2, <1>3
  <2>2. /\ IsFiniteSet({p} \X (1 .. n))
        /\ Cardinality({p} \X (1 .. n)) = Cardinality({p}) * Cardinality(1 .. n)
    BY <2>1, FS_Product, Zenon
  <2> QED BY <1>2, <1>3, <2>2
<1>5. Members(p) = {p} \X (1 .. n)
  BY DEF Members
<1>6. Members(p) \subseteq Jobs /\ \A j \in Jobs : j \in Members(p) <=> j[1] = p /\ j[2] <= n
  BY <1>1, <1>5 DEF Jobs
<1> QED BY <1>1, <1>4, <1>5, <1>6

\* The members that are not counted off, and those that may have sent.
Left(p) == {j \in Members(p) : phase[j] \notin {"last", "end"}}
Over(p) == {j \in Members(p) : phase[j] \in {"closing", "last", "end"}}

\* Job j, of a group under way, goes from one of the phases "from" to "to".
Moves(j, from, to) ==
    /\ j \in Jobs /\ j[2] <= conf.size[j[1]] /\ pc[j[1]] # "ready"
    /\ phase[j] \in from
    /\ phase' = [phase EXCEPT ![j] = to]

Inside == {"new", "stored", "dequeued", "taken", "removed"}

\* The kinds of steps, as a group sees them.
Aside    == phase' = phase /\ UNCHANGED groups
Onward(j) ==
    /\ \/ Moves(j, {"new"}, "stored") \/ Moves(j, {"stored"}, "dequeued")
       \/ Moves(j, {"stored", "dequeued"}, "taken")
    /\ UNCHANGED groups
Ends(j) ==
    /\ Moves(j, {"new", "taken", "removed"}, "closing")
    /\ UNCHANGED <<pending, shut>>
    /\ buffered' = buffered \/ (phase[j] = "taken" /\ buffered' = [buffered EXCEPT ![j[1]] = @ + 1])
Emptied ==
    /\ phase' = [j \in Jobs |-> IF phase[j] = "stored" THEN "removed" ELSE phase[j]]
    /\ UNCHANGED groups

\* No group begins.
NoStart == conf' = conf /\ \A p \in Producers : pc'[p] = "ready" <=> pc[p] = "ready"

GroupKind ==
    \/ \E p \in Producers : AddAll(p)
    \/ /\ NoStart
       /\ \/ Aside \/ Emptied
          \/ \E j \in Jobs : Onward(j) \/ Ends(j) \/ Done(j) \/ CloseResponse(j)

\* A single move changes one group's sets by one job.
LEMMA MoveCounts ==
    ASSUME TypeOK, conf' = conf, NEW j \in Jobs, j[2] <= conf.size[j[1]], NEW v,
           phase' = [phase EXCEPT ![j] = v]
    PROVE  /\ j[1] \in Producers /\ j \in Members(j[1])
           /\ \A p \in Producers : p # j[1] => Left(p)' = Left(p) /\ Over(p)' = Over(p)
           /\ Left(j[1])' = IF v \in {"last", "end"} THEN Left(j[1]) \ {j} ELSE Left(j[1]) \cup {j}
           /\ Over(j[1])' = IF v \in {"closing", "last", "end"} THEN Over(j[1]) \cup {j}
                                                             ELSE Over(j[1]) \ {j}
<1>1. j[1] \in Producers
  BY DEF Jobs
<1>2. \A p \in Producers : Members(p)' = Members(p)
  BY DEF Members
<1>3. conf \in Setups /\ phase \in [Jobs -> {"new", "stored", "dequeued", "taken", "removed",
                                            "closing", "last", "end"}]
  BY DEF TypeOK
<1>4. /\ \A p \in Producers : Members(p) \subseteq Jobs
      /\ \A p \in Producers : j \in Members(p) <=> j[1] = p
  <2>1. ASSUME NEW p \in Producers PROVE Members(p) \subseteq Jobs /\ (j \in Members(p) <=> j[1] = p)
    BY <1>3, MembersType
  <2> QED BY <2>1
<1>5. \A k \in Jobs : phase'[k] = IF k = j THEN v ELSE phase[k]
  BY <1>3
<1>6. ASSUME NEW p \in Producers
      PROVE  /\ Left(p)' = {k \in Members(p) : phase'[k] \notin {"last", "end"}}
             /\ Over(p)' = {k \in Members(p) : phase'[k] \in {"closing", "last", "end"}}
  BY <1>2 DEF Left, Over
<1>7. ASSUME NEW p \in Producers, p # j[1] PROVE Left(p)' = Left(p) /\ Over(p)' = Over(p)
  BY <1>4, <1>5, <1>6, <1>7 DEF Left, Over
<1>8. j \in Members(j[1])
  BY <1>1, <1>4
<1>9. Left(j[1])' = IF v \in {"last", "end"} THEN Left(j[1]) \ {j} ELSE Left(j[1]) \cup {j}
  BY <1>1, <1>4, <1>5, <1>6, <1>8 DEF Left
<1>10. Over(j[1])' = IF v \in {"closing", "last", "end"} THEN Over(j[1]) \cup {j} ELSE Over(j[1]) \ {j}
  BY <1>1, <1>4, <1>5, <1>6, <1>8 DEF Over
<1> QED BY <1>1, <1>7, <1>8, <1>9, <1>10

\* Every step is of one of the kinds.
LEMMA Kinds ==
    ASSUME IInv, [Next]_vars
    PROVE  GroupKind
<1> USE DEF store, idset, adders, groups, purge
<1>a. /\ conf \in Setups /\ items \in Seq(Entry)
      /\ pc \in [Producers -> {"ready", "add", "lock", "append", "unlock", "refused", "end"}]
      /\ at \in [Producers -> 0 .. MaxItems + 1]
      /\ hand \in [Takers -> Entry \cup {None}] /\ removed \in Seq(Jobs)
      /\ buffered \in [Producers -> Nat]
      /\ phase \in [Jobs -> {"new", "stored", "dequeued", "taken", "removed", "closing",
                             "last", "end"}]
  BY DEF IInv, TypeOK
<1>b. \A p \in Producers : conf.size[p] \in Nat /\ conf.size[p] <= MaxItems /\ MaxItems \in Nat
  BY <1>a, ConfType, GroupAssumption
<1>c. ASSUME NEW p \in Producers, pc[p] \in {"add", "lock", "append"}
      PROVE  /\ Current(p) \in Jobs /\ Current(p)[1] = p /\ Current(p)[2] <= conf.size[p]
             /\ phase[Current(p)] = "new" /\ at[p] \in 1 .. MaxItems
  <2>1. AdderAt(p)
    BY DEF IInv, Adders
  <2>2. at[p] \in 1 .. conf.size[p] /\ phase[Current(p)] = "new"
    BY <1>c, <2>1 DEF AdderAt
  <2>3. at[p] \in 1 .. MaxItems /\ at[p] <= conf.size[p]
    BY <1>b, <2>2
  <2> QED BY <2>2, <2>3 DEF Current, Jobs
<1>d. ASSUME NEW j \in Jobs, phase[j] # "new"
      PROVE  j[2] <= conf.size[j[1]] /\ pc[j[1]] # "ready"
  BY <1>d DEF IInv, Known
<1>e. ASSUME NEW p \in Producers, pc[p] \in {"add", "lock", "append"}, Refuse(p), conf' = conf,
             UNCHANGED groups
      PROVE  GroupKind
  <2>1. NoStart
    BY <1>a, <1>e DEF Refuse, NoStart
  <2>2. Ends(Current(p))
    BY <1>c, <1>e DEF Refuse, Ends, Moves
  <2> QED BY <1>c, <1>e, <2>1, <2>2 DEF GroupKind
<1>f. ASSUME NEW p \in Producers, pc[p] \in {"add", "append"}, NEW x, NEW n, Store(p, x, n),
             conf' = conf, UNCHANGED groups, \A q \in Producers : pc'[q] = "ready" <=> pc[q] = "ready"
      PROVE  GroupKind
  <2>1. NoStart
    BY <1>f DEF NoStart
  <2>2. Onward(Current(p))
    BY <1>c, <1>f DEF Store, Onward, Moves
  <2> QED BY <1>c, <1>f, <2>1, <2>2 DEF GroupKind
<1>g. ASSUME NEW j \in Jobs, phase[j] # "new", conf' = conf, pc' = pc, Onward(j) \/ Ends(j)
      PROVE  GroupKind
  BY <1>g DEF GroupKind, NoStart
<1>h. ASSUME conf' = conf, Aside, \A q \in Producers : pc'[q] = "ready" <=> pc[q] = "ready"
      PROVE  GroupKind
  BY <1>h DEF GroupKind, NoStart
<1>1. ASSUME NEW p \in Producers, AddAll(p) PROVE GroupKind
  BY <1>1 DEF GroupKind
<1>2. ASSUME NEW p \in Producers, Refused(p) PROVE GroupKind
  BY <1>2, <1>a, <1>h DEF Refused, Item, At, Aside
<1>3. ASSUME NEW p \in Producers, EnqueueOnceLock(p) PROVE GroupKind
  <2>1. CASE id[p] \in ids
    BY <1>3, <1>e, <2>1 DEF EnqueueOnceLock, At
  <2>2. CASE id[p] \notin ids
    BY <1>3, <1>a, <1>h, <2>2 DEF EnqueueOnceLock, At, Aside
  <2> QED BY <2>1, <2>2
<1>4. ASSUME NEW p \in Producers, EnqueueOnceAppend(p) PROVE GroupKind
  <2>1. CASE closed \/ Full
    BY <1>4, <1>e, <2>1 DEF EnqueueOnceAppend, At
  <2>2. CASE ~(closed \/ Full)
    <3>1. Store(p, id[p], 0) /\ \A q \in Producers : pc'[q] = "ready" <=> pc[q] = "ready"
      BY <1>4, <1>a, <2>2 DEF EnqueueOnceAppend, At
    <3> QED BY <1>4, <1>f, <3>1 DEF EnqueueOnceAppend, At
  <2> QED BY <2>1, <2>2
<1>5. ASSUME NEW p \in Producers, EnqueueOnceUnlock(p) PROVE GroupKind
  BY <1>5, <1>a, <1>h DEF EnqueueOnceUnlock, Item, At, Aside
<1>6. ASSUME NEW p \in Producers, NEW x \in Ids, EnqueueOnceOn(p, x) PROVE GroupKind
  BY <1>6, <1>a, <1>h DEF EnqueueOnceOn, At, Aside
<1>7. ASSUME NEW p \in Producers, NEW n, Enqueue(p, n) PROVE GroupKind
  <2>1. CASE closed \/ Full
    BY <1>7, <1>e, <2>1 DEF Enqueue, At
  <2>2. CASE ~(closed \/ Full)
    <3>1. Store(p, None, n) /\ \A q \in Producers : pc'[q] = "ready" <=> pc[q] = "ready"
      BY <1>7, <1>a, <2>2 DEF Enqueue, At, Item
    <3> QED BY <1>7, <1>f, <3>1 DEF Enqueue, At
  <2> QED BY <2>1, <2>2
<1>8. ASSUME NEW p \in Producers, NEW x \in Ids, NEW n, EnqueueOnceHeap(p, x, n) PROVE GroupKind
  <2>1. CASE closed \/ Full \/ x \in ids
    BY <1>8, <1>e, <2>1 DEF EnqueueOnceHeap, At
  <2>2. CASE ~(closed \/ Full \/ x \in ids)
    <3>1. Store(p, x, n) /\ \A q \in Producers : pc'[q] = "ready" <=> pc[q] = "ready"
      BY <1>8, <1>a, <2>2 DEF EnqueueOnceHeap, At, Item
    <3> QED BY <1>8, <1>f, <3>1 DEF EnqueueOnceHeap, At
  <2> QED BY <2>1, <2>2
<1>9. ASSUME NEW t \in Takers, Dequeue(t) PROVE GroupKind
  <2> DEFINE j == items[1].job
  <2>1. 1 \in DOMAIN items /\ Head(items) = items[1] /\ items[1] \in Entry
    BY <1>9, TakeEffect DEF IInv
  <2>2. j \in Jobs /\ phase[j] = "stored"
    BY <2>1 DEF IInv, Stored, Positions, Entry
  <2>3. phase' = [phase EXCEPT ![j] = "dequeued"] \/ phase' = [phase EXCEPT ![j] = "taken"]
    BY <1>9, <2>1 DEF Dequeue
  <2>4. conf' = conf /\ pc' = pc /\ UNCHANGED groups
    BY <1>9 DEF Dequeue
  <2> HIDE DEF j
  <2>5. Onward(j)
    BY <1>d, <2>2, <2>3, <2>4 DEF Onward, Moves
  <2> QED BY <1>g, <2>2, <2>4, <2>5
<1>10. ASSUME NEW t \in Takers, FreeId(t) PROVE GroupKind
  <2> DEFINE j == hand[t].job
  <2>1. j \in Jobs /\ phase[j] = "dequeued"
    BY <1>10, <1>a DEF FreeId, IInv, Hands, Entry
  <2>2. phase' = [phase EXCEPT ![j] = "taken"] /\ conf' = conf /\ pc' = pc /\ UNCHANGED groups
    BY <1>10 DEF FreeId
  <2> HIDE DEF j
  <2>3. Onward(j)
    BY <1>d, <2>1, <2>2 DEF Onward, Moves
  <2> QED BY <1>g, <2>1, <2>2, <2>3
<1>11. ASSUME NEW j \in Jobs, CloseStale(j) PROVE GroupKind
  BY <1>11, <1>d, <1>g DEF CloseStale, Ends, Moves
<1>12. ASSUME NEW j \in Jobs, Run(j) PROVE GroupKind
  <2>1. phase[j] = "taken" /\ phase' = [phase EXCEPT ![j] = "closing"]
        /\ conf' = conf /\ pc' = pc /\ UNCHANGED <<pending, shut>>
    BY <1>12 DEF Run
  <2>2. buffered' = buffered \/ buffered' = [buffered EXCEPT ![j[1]] = @ + 1]
    <3>1. PICK n \in {0, 1} : buffered' = [buffered EXCEPT ![j[1]] = @ + n]
      BY <1>12 DEF Run
    <3>2. [buffered EXCEPT ![j[1]] = @ + 0] = buffered
      BY <1>a DEF Jobs
    <3> QED BY <3>1, <3>2
  <2>3. Ends(j)
    BY <1>d, <2>1, <2>2 DEF Ends, Moves
  <2> QED BY <1>g, <2>1, <2>3
<1>13. ASSUME NEW j \in Jobs, Done(j) PROVE GroupKind
  BY <1>13 DEF GroupKind, NoStart, Done
<1>14. ASSUME NEW j \in Jobs, CloseResponse(j) PROVE GroupKind
  BY <1>14 DEF GroupKind, NoStart, CloseResponse
<1>15. ASSUME PurgeBump PROVE GroupKind
  BY <1>15, <1>h DEF PurgeBump, Aside
<1>16. ASSUME PurgeLock PROVE GroupKind
  BY <1>16, <1>h DEF PurgeLock, Aside
<1>17. ASSUME PurgeTake PROVE GroupKind
  BY <1>17 DEF PurgeTake, GroupKind, NoStart, Emptied
<1>18. ASSUME PurgeReset PROVE GroupKind
  BY <1>18, <1>h DEF PurgeReset, Aside
<1>19. ASSUME PurgeClose PROVE GroupKind
  <2> DEFINE j == Head(removed)
  <2>1. j \in Jobs /\ conf' = conf /\ pc' = pc /\ UNCHANGED groups
    BY <1>19, <1>a DEF PurgeClose
  <2>2. CASE phase[j] = "removed" /\ phase' = [phase EXCEPT ![j] = "closing"]
    <3> HIDE DEF j
    <3>1. Ends(j)
      BY <1>d, <2>1, <2>2 DEF Ends, Moves
    <3> QED BY <1>g, <2>1, <2>2, <3>1
  <2>3. CASE phase' = phase
    BY <1>h, <2>1, <2>3 DEF Aside
  <2> QED BY <1>19, <2>2, <2>3 DEF PurgeClose
<1>20. ASSUME PurgeEnd PROVE GroupKind
  BY <1>20, <1>h DEF PurgeEnd, Aside
<1>21. ASSUME Close PROVE GroupKind
  BY <1>21, <1>h DEF Close, Aside
<1>22. ASSUME UNCHANGED vars PROVE GroupKind
  BY <1>22, <1>h DEF vars, Aside
<1> QED
  BY <1>1, <1>2, <1>3, <1>4, <1>5, <1>6, <1>7, <1>8, <1>9, <1>10, <1>11, <1>12, <1>13, <1>14,
     <1>15, <1>16, <1>17, <1>18, <1>19, <1>20, <1>21, <1>22
     DEF Next, AddStep, JobStep, PurgeStep

(***************************************************************************)
(* The groups: Known, Counted, LastAlone, ChannelSound                     *)
(***************************************************************************)
Phases == {"new", "stored", "dequeued", "taken", "removed", "closing", "last", "end"}

Others(j) == {k \in Members(j[1]) : k # j}

\* What the groups say, over the sets of jobs.
Groups ==
    /\ \A j \in Jobs : phase[j] # "new" => j[2] <= conf.size[j[1]] /\ pc[j[1]] # "ready"
    /\ \A p \in Producers : pc[p] # "ready" => pending[p] = Cardinality(Left(p))
    /\ \A p \in Producers : pc[p] # "ready" => buffered[p] <= Cardinality(Over(p))
    /\ \A p \in Producers : pc[p] # "ready" /\ shut[p] => \A j \in Members(p) : phase[j] = "end"
    /\ \A p \in Producers : \A j, k \in Members(p) : phase[j] = "last" /\ k # j => phase[k] = "end"

LEMMA GroupsSame == Groups <=> Known /\ Counted /\ LastAlone /\ ChannelSound
  BY DEF Groups, Known, Counted, LastAlone, ChannelSound, Left, Over, At

\* Parts of a finite group are finite.
LEMMA PartsFinite ==
    ASSUME conf \in Setups, NEW p \in Producers
    PROVE  /\ IsFiniteSet(Left(p)) /\ Cardinality(Left(p)) \in Nat
           /\ IsFiniteSet(Over(p)) /\ Cardinality(Over(p)) \in Nat
           /\ Cardinality(Left(p)) <= conf.size[p] /\ Cardinality(Over(p)) <= conf.size[p]
<1>1. IsFiniteSet(Members(p)) /\ Cardinality(Members(p)) = conf.size[p]
  BY MembersType
<1>2. Left(p) \in SUBSET Members(p) /\ Over(p) \in SUBSET Members(p)
  BY DEF Left, Over
<1>3. IsFiniteSet(Left(p)) /\ Cardinality(Left(p)) <= conf.size[p]
  BY <1>1, <1>2, FS_Subset
<1>4. IsFiniteSet(Over(p)) /\ Cardinality(Over(p)) <= conf.size[p]
  BY <1>1, <1>2, FS_Subset
<1> QED BY <1>3, <1>4, FS_CardinalityType

\* One job goes on to v: its group must still add up, the others do.
LEMMA MoveKeeps ==
    ASSUME TypeOK, Groups, NoStart, NEW j \in Jobs, j[2] <= conf.size[j[1]], pc[j[1]] # "ready",
           NEW v, v # "new", phase[j] # "end", phase' = [phase EXCEPT ![j] = v],
           v = "last" => \A k \in Others(j) : phase[k] = "end",
           \A p \in Producers : p # j[1] =>
             pending'[p] = pending[p] /\ buffered'[p] = buffered[p] /\ shut'[p] = shut[p],
           pending'[j[1]] = Cardinality(Left(j[1])'),
           buffered'[j[1]] <= Cardinality(Over(j[1])'),
           shut'[j[1]] => v = "end" /\ \A k \in Others(j) : phase[k] = "end"
    PROVE  Groups'
<1>1. conf' = conf /\ \A p \in Producers : pc'[p] = "ready" <=> pc[p] = "ready"
  BY DEF NoStart
<1>2. /\ j[1] \in Producers /\ j \in Members(j[1])
      /\ \A p \in Producers : p # j[1] => Left(p)' = Left(p) /\ Over(p)' = Over(p)
  BY <1>1, MoveCounts
<1>3. conf \in Setups /\ phase \in [Jobs -> Phases]
  BY DEF TypeOK, Phases
<1>4. \A k \in Jobs : phase'[k] = IF k = j THEN v ELSE phase[k]
  BY <1>3
<1>5. \A p \in Producers : /\ Members(p)' = Members(p) /\ Members(p) \subseteq Jobs
                           /\ j \in Members(p) <=> p = j[1]
  <2>1. ASSUME NEW p \in Producers
        PROVE  /\ Members(p)' = Members(p) /\ Members(p) \subseteq Jobs
               /\ j \in Members(p) <=> p = j[1]
    <3>1. Members(p) \subseteq Jobs /\ (j \in Members(p) <=> j[1] = p /\ j[2] <= conf.size[p])
      BY <1>3, MembersType
    <3> QED BY <1>1, <3>1 DEF Members
  <2> QED BY <2>1
<1>6. \A k \in Jobs : phase'[k] # "new" => k[2] <= conf'.size[k[1]] /\ pc'[k[1]] # "ready"
  <2> SUFFICES ASSUME NEW k \in Jobs, phase'[k] # "new"
               PROVE  k[2] <= conf.size[k[1]] /\ pc[k[1]] # "ready" /\ k[1] \in Producers
    BY <1>1
  <2>1. k[1] \in Producers
    BY DEF Jobs
  <2> QED BY <1>4, <2>1 DEF Groups
<1>7. ASSUME NEW p \in Producers, pc'[p] # "ready" PROVE pending'[p] = Cardinality(Left(p)')
  <2>1. CASE p = j[1]
    BY <2>1
  <2>2. CASE p # j[1]
    <3>1. pending[p] = Cardinality(Left(p)) /\ pending'[p] = pending[p] /\ Left(p)' = Left(p)
      BY <1>1, <1>2, <1>7, <2>2 DEF Groups
    <3> QED BY <3>1
  <2> QED BY <2>1, <2>2
<1>8. ASSUME NEW p \in Producers, pc'[p] # "ready" PROVE buffered'[p] <= Cardinality(Over(p)')
  <2>1. CASE p = j[1]
    BY <2>1
  <2>2. CASE p # j[1]
    <3>1. buffered[p] <= Cardinality(Over(p)) /\ buffered'[p] = buffered[p] /\ Over(p)' = Over(p)
      BY <1>1, <1>2, <1>8, <2>2 DEF Groups
    <3> QED BY <3>1
  <2> QED BY <2>1, <2>2
<1>9. ASSUME NEW p \in Producers, pc'[p] # "ready", shut'[p], NEW k \in Members(p)
      PROVE  phase'[k] = "end"
  <2>1. k \in Jobs
    BY <1>5
  <2>2. CASE p = j[1]
    BY <1>4, <1>9, <2>1, <2>2 DEF Others
  <2>3. CASE p # j[1]
    <3>1. k # j /\ shut[p]
      BY <1>5, <1>9, <2>3
    <3>2. phase[k] = "end"
      BY <1>1, <1>9, <3>1 DEF Groups
    <3> QED BY <1>4, <2>1, <3>1, <3>2
  <2> QED BY <2>2, <2>3
<1>10. ASSUME NEW p \in Producers, NEW h \in Members(p), NEW k \in Members(p),
              phase'[h] = "last", k # h
       PROVE  phase'[k] = "end"
  <2>1. h \in Jobs /\ k \in Jobs
    BY <1>5
  <2>2. CASE h = j
    <3>1. v = "last" /\ p = j[1] /\ k \in Others(j)
      BY <1>4, <1>5, <1>10, <2>1, <2>2 DEF Others
    <3> QED BY <1>4, <1>10, <2>1, <2>2, <3>1
  <2>3. CASE h # j
    <3>1. phase[h] = "last"
      BY <1>4, <1>10, <2>1, <2>3
    <3>2. phase[k] = "end"
      BY <1>10, <3>1 DEF Groups
    <3> QED BY <1>4, <2>1, <3>2
  <2> QED BY <2>2, <2>3
<1>11. \A p \in Producers : pc'[p] # "ready" /\ shut'[p] => \A k \in Members(p)' : phase'[k] = "end"
  BY <1>5, <1>9
<1>12. \A p \in Producers : \A h, k \in Members(p)' : phase'[h] = "last" /\ k # h => phase'[k] = "end"
  BY <1>5, <1>10
<1> QED BY <1>6, <1>7, <1>8, <1>11, <1>12 DEF Groups

\* Steps that move no job keep the groups, and so does a Purge that empties the queue.
LEMMA StillKeeps ==
    ASSUME TypeOK, Groups, NoStart, Aside \/ Emptied
    PROVE  Groups'
<1>1. conf' = conf /\ (\A p \in Producers : pc'[p] = "ready" <=> pc[p] = "ready")
      /\ pending' = pending /\ buffered' = buffered /\ shut' = shut
  BY DEF NoStart, Aside, Emptied, groups
<1>2. phase \in [Jobs -> Phases] /\ conf \in Setups
  BY DEF TypeOK, Phases
<1>3. \A k \in Jobs : /\ phase'[k] = phase[k] \/ (phase[k] = "stored" /\ phase'[k] = "removed")
  BY <1>2 DEF Aside, Emptied
<1>4. ASSUME NEW p \in Producers PROVE Members(p)' = Members(p) /\ Members(p) \subseteq Jobs
  BY <1>1, <1>2, MembersType DEF Members
<1>5. ASSUME NEW p \in Producers PROVE Left(p)' = Left(p) /\ Over(p)' = Over(p)
  BY <1>3, <1>4 DEF Left, Over
<1>6. \A k \in Jobs : phase'[k] # "new" => k[2] <= conf'.size[k[1]] /\ pc'[k[1]] # "ready"
  <2> SUFFICES ASSUME NEW k \in Jobs, phase'[k] # "new"
               PROVE  k[2] <= conf.size[k[1]] /\ pc[k[1]] # "ready" /\ k[1] \in Producers
    BY <1>1
  <2>1. k[1] \in Producers
    BY DEF Jobs
  <2> QED BY <1>3, <2>1 DEF Groups
<1>7. \A p \in Producers : pc'[p] # "ready" => pending'[p] = Cardinality(Left(p)')
  BY <1>1, <1>5 DEF Groups
<1>8. \A p \in Producers : pc'[p] # "ready" => buffered'[p] <= Cardinality(Over(p)')
  BY <1>1, <1>5 DEF Groups
<1>9. \A p \in Producers : pc'[p] # "ready" /\ shut'[p] => \A k \in Members(p)' : phase'[k] = "end"
  <2> SUFFICES ASSUME NEW p \in Producers, pc'[p] # "ready", shut'[p], NEW k \in Members(p)'
               PROVE  phase'[k] = "end"
    OBVIOUS
  <2>1. k \in Members(p) /\ k \in Jobs
    BY <1>4
  <2>2. phase[k] = "end"
    BY <1>1, <2>1 DEF Groups
  <2> QED BY <1>3, <2>1, <2>2
<1>10. \A p \in Producers : \A h, k \in Members(p)' : phase'[h] = "last" /\ k # h => phase'[k] = "end"
  <2> SUFFICES ASSUME NEW p \in Producers, NEW h \in Members(p)', NEW k \in Members(p)',
                      phase'[h] = "last", k # h
               PROVE  phase'[k] = "end"
    OBVIOUS
  <2>1. k \in Members(p) /\ k \in Jobs /\ h \in Members(p) /\ h \in Jobs
    BY <1>4
  <2>2. phase[h] = "last"
    BY <1>3, <2>1
  <2>3. phase[k] = "end"
    BY <2>1, <2>2 DEF Groups
  <2> QED BY <1>3, <2>1, <2>3
<1> QED BY <1>6, <1>7, <1>8, <1>9, <1>10 DEF Groups

\* A group begins with all its members new, and an empty one is over at once.
LEMMA StartKeeps ==
    ASSUME TypeOK, Groups, NEW p \in Producers, AdderAt(p), AddAll(p)
    PROVE  Groups'
<1> USE DEF store, idset, purge
<1>1. /\ conf' = conf /\ phase' = phase /\ buffered' = buffered
      /\ pending' = [pending EXCEPT ![p] = conf.size[p]]
      /\ shut' = [shut EXCEPT ![p] = conf.size[p] = 0]
      /\ pc' = [pc EXCEPT ![p] = IF 1 > conf.size[p] THEN "end" ELSE "add"]
  BY DEF AddAll, newGroup, Item
<1>2. /\ conf \in Setups /\ phase \in [Jobs -> Phases] /\ pending \in [Producers -> Nat]
      /\ shut \in [Producers -> BOOLEAN] /\ pc \in [Producers -> {"ready", "add", "lock", "append",
                                                          "unlock", "refused", "end"}]
  BY DEF TypeOK, Phases
<1>3. /\ pc[p] = "ready" /\ at[p] = 0 /\ buffered[p] = 0
      /\ \A i \in 1 .. MaxItems : phase[<<p, i>>] = "new"
  <2>1. pc[p] = "ready" /\ at[p] = 0 /\ buffered[p] = 0
    BY DEF AddAll, At, AdderAt
  <2>2. \A i \in 1 .. MaxItems : i > at[p] => phase[<<p, i>>] = "new"
    BY DEF AdderAt
  <2> QED BY <2>1, <2>2
<1>4. /\ pc'[p] # "ready" /\ pending'[p] = conf.size[p] /\ shut'[p] = (conf.size[p] = 0)
  BY <1>1, <1>2
<1>5. \A q \in Producers : q # p => pc'[q] = pc[q] /\ pending'[q] = pending[q] /\ shut'[q] = shut[q]
  BY <1>1, <1>2
<1>6. \A q \in Producers : Members(q)' = Members(q) /\ Left(q)' = Left(q) /\ Over(q)' = Over(q)
  BY <1>1 DEF Members, Left, Over
<1>7. \A j \in Members(p) : phase[j] = "new"
  <2>1. conf.size[p] \in Nat /\ conf.size[p] <= MaxItems /\ MaxItems \in Nat
    BY <1>2, ConfType, GroupAssumption
  <2>2. \A i \in 1 .. conf.size[p] : phase[<<p, i>>] = "new"
    BY <1>3, <2>1
  <2> QED BY <2>2 DEF Members
<1>8. Left(p) = Members(p) /\ Cardinality(Members(p)) = conf.size[p]
  BY <1>2, <1>7, MembersType DEF Left
<1>9. \A j \in Jobs : phase'[j] # "new" => j[2] <= conf'.size[j[1]] /\ pc'[j[1]] # "ready"
  <2> SUFFICES ASSUME NEW j \in Jobs, phase[j] # "new"
               PROVE  j[2] <= conf.size[j[1]] /\ pc'[j[1]] # "ready"
    BY <1>1
  <2>1. j[1] \in Producers /\ j[2] <= conf.size[j[1]] /\ pc[j[1]] # "ready"
    BY DEF Groups, Jobs
  <2> QED BY <1>4, <1>5, <2>1
<1>10. \A q \in Producers : pc'[q] # "ready" => pending'[q] = Cardinality(Left(q)')
  BY <1>4, <1>5, <1>6, <1>8 DEF Groups
<1>11. \A q \in Producers : pc'[q] # "ready" => buffered'[q] <= Cardinality(Over(q)')
  <2> SUFFICES ASSUME NEW q \in Producers, pc'[q] # "ready"
               PROVE  buffered[q] <= Cardinality(Over(q))
    BY <1>1, <1>6
  <2>1. CASE q = p
    BY <1>2, <1>3, <2>1, PartsFinite
  <2>2. CASE q # p
    BY <1>5, <2>2 DEF Groups
  <2> QED BY <2>1, <2>2
<1>12. \A q \in Producers : pc'[q] # "ready" /\ shut'[q] => \A j \in Members(q)' : phase'[j] = "end"
  <2> SUFFICES ASSUME NEW q \in Producers, pc'[q] # "ready", shut'[q], NEW j \in Members(q)
               PROVE  phase[j] = "end"
    BY <1>1, <1>6
  <2>1. CASE q = p
    <3>1. conf.size[p] = 0
      BY <1>4, <2>1
    <3>2. Members(p) = {}
      BY <3>1 DEF Members
    <3> QED BY <2>1, <3>2
  <2>2. CASE q # p
    BY <1>5, <2>2 DEF Groups
  <2> QED BY <2>1, <2>2
<1>13. \A q \in Producers : \A h, k \in Members(q)' : phase'[h] = "last" /\ k # h => phase'[k] = "end"
  BY <1>1, <1>6 DEF Groups
<1> QED BY <1>9, <1>10, <1>11, <1>12, <1>13 DEF Groups

\* Done takes one off its group's counter, and only the last member finds it at 1.
LEMMA DoneKeeps ==
    ASSUME TypeOK, Groups, NoStart, NEW j \in Jobs, Done(j)
    PROVE  Groups'
<1> DEFINE p == j[1]
<1>1. /\ phase[j] = "closing" /\ conf' = conf /\ buffered' = buffered /\ shut' = shut
      /\ pending' = [pending EXCEPT ![p] = IF pending[p] = 0 THEN 0 ELSE pending[p] - 1]
      /\ phase' = [phase EXCEPT ![j] = IF pending[p] = 1 THEN "last" ELSE "end"]
  BY DEF Done
<1> DEFINE v == IF pending[p] = 1 THEN "last" ELSE "end"
<1>2. p \in Producers /\ j[2] <= conf.size[p] /\ pc[p] # "ready"
  BY <1>1 DEF Groups, Jobs
<1>3. conf \in Setups /\ pending \in [Producers -> Nat]
  BY DEF TypeOK
<1>4. /\ j \in Members(p) /\ Left(p)' = Left(p) \ {j} /\ Over(p)' = Over(p) \cup {j}
  BY <1>1, <1>2, MoveCounts
<1>5. j \in Left(p) /\ j \in Over(p)
  BY <1>1, <1>4 DEF Left, Over
<1>6. IsFiniteSet(Left(p)) /\ Cardinality(Left(p)) \in Nat /\ pending[p] = Cardinality(Left(p))
  BY <1>2, <1>3, PartsFinite DEF Groups
<1>7. Cardinality(Left(p) \ {j}) = Cardinality(Left(p)) - 1 /\ pending[p] # 0
  <2>1. Cardinality(Left(p) \ {j}) = Cardinality(Left(p)) - 1 /\ IsFiniteSet(Left(p) \ {j})
    BY <1>5, <1>6, FS_RemoveElement
  <2>2. Cardinality(Left(p) \ {j}) \in Nat
    BY <2>1, FS_CardinalityType
  <2> QED BY <1>6, <2>1, <2>2
<1>8. pending'[p] = Cardinality(Left(p)')
  BY <1>1, <1>2, <1>3, <1>4, <1>6, <1>7
<1>9. buffered'[p] <= Cardinality(Over(p)')
  <2>1. Over(p)' = Over(p)
    BY <1>4, <1>5
  <2> QED BY <1>1, <1>2, <2>1 DEF Groups
<1>10. \A q \in Producers : q # p =>
         pending'[q] = pending[q] /\ buffered'[q] = buffered[q] /\ shut'[q] = shut[q]
  BY <1>1, <1>3
<1>11. \A k \in Others(j) : phase[k] # "last"
  BY <1>1, <1>2, <1>4 DEF Groups, Others
<1>12. v = "last" => \A k \in Others(j) : phase[k] = "end"
  <2> SUFFICES ASSUME pending[p] = 1, NEW k \in Others(j) PROVE phase[k] = "end"
    OBVIOUS
  <2>1. Cardinality(Left(p) \ {j}) = 0 /\ IsFiniteSet(Left(p) \ {j})
    BY <1>6, <1>7, FS_RemoveElement
  <2>2. Left(p) \ {j} = {}
    BY <2>1, FS_EmptySet
  <2>3. k \in Members(p) /\ k \notin Left(p)
    BY <2>2 DEF Others
  <2> QED BY <1>11, <2>3 DEF Left
<1>13. ~shut'[p]
  BY <1>1, <1>2, <1>4 DEF Groups
<1>14. v # "new" /\ phase[j] # "end"
  BY <1>1
<1>15. phase' = [phase EXCEPT ![j] = v]
  BY <1>1
<1> HIDE DEF v
<1> QED BY <1>2, <1>8, <1>9, <1>10, <1>12, <1>13, <1>14, <1>15, MoveKeeps

\* The last member closes the channel when all the others are at their end.
LEMMA CloseKeeps ==
    ASSUME TypeOK, Groups, NoStart, NEW j \in Jobs, CloseResponse(j)
    PROVE  Groups'
<1> DEFINE p == j[1]
<1>1. /\ phase[j] = "last" /\ conf' = conf /\ buffered' = buffered /\ pending' = pending
      /\ shut' = [shut EXCEPT ![p] = TRUE]
      /\ phase' = [phase EXCEPT ![j] = "end"]
  BY DEF CloseResponse
<1>2. p \in Producers /\ j[2] <= conf.size[p] /\ pc[p] # "ready"
  BY <1>1 DEF Groups, Jobs
<1>3. /\ j \in Members(p) /\ Left(p)' = Left(p) \ {j} /\ Over(p)' = Over(p) \cup {j}
  BY <1>1, <1>2, MoveCounts
<1>4. Left(p)' = Left(p) /\ Over(p)' = Over(p)
  BY <1>1, <1>3 DEF Left, Over
<1>5. pending'[p] = Cardinality(Left(p)') /\ buffered'[p] <= Cardinality(Over(p)')
  BY <1>1, <1>2, <1>4 DEF Groups
<1>6. \A q \in Producers : q # p =>
         pending'[q] = pending[q] /\ buffered'[q] = buffered[q] /\ shut'[q] = shut[q]
  BY <1>1 DEF TypeOK
<1>7. \A k \in Others(j) : phase[k] = "end"
  BY <1>1, <1>2, <1>3 DEF Groups, Others
<1> QED BY <1>1, <1>2, <1>5, <1>6, <1>7, MoveKeeps

\* A member that goes on before its Close, and one whose Close begins.
LEMMA OnwardKeeps ==
    ASSUME TypeOK, Groups, NoStart, NEW j \in Jobs, Onward(j) \/ Ends(j)
    PROVE  Groups'
<1> DEFINE p == j[1]
<1>1. PICK v \in {"stored", "dequeued", "taken", "closing"} : phase' = [phase EXCEPT ![j] = v]
      /\ (v = "closing" <=> Ends(j) /\ ~Onward(j))
  <2>1. CASE Onward(j)
    BY <2>1 DEF Onward, Moves
  <2>2. CASE ~Onward(j)
    BY <2>2 DEF Ends, Moves
  <2> QED BY <2>1, <2>2
<1>2. /\ j[2] <= conf.size[p] /\ pc[p] # "ready" /\ phase[j] \in Inside
      /\ pending' = pending /\ shut' = shut
  BY DEF Onward, Ends, Moves, Inside, groups
<1>3. p \in Producers /\ conf' = conf /\ conf \in Setups
  BY DEF Jobs, NoStart, TypeOK
<1>4. /\ j \in Members(p) /\ Left(p)' = Left(p) \cup {j}
      /\ Over(p)' = IF v = "closing" THEN Over(p) \cup {j} ELSE Over(p) \ {j}
  BY <1>1, <1>2, <1>3, MoveCounts
<1>5. j \in Left(p) /\ j \notin Over(p)
  BY <1>2, <1>4 DEF Left, Over, Inside
<1>6. pending'[p] = Cardinality(Left(p)')
  <2>1. Left(p)' = Left(p)
    BY <1>4, <1>5
  <2> QED BY <1>2, <1>3, <2>1 DEF Groups
<1>7. IsFiniteSet(Over(p)) /\ Cardinality(Over(p)) \in Nat /\ buffered[p] <= Cardinality(Over(p))
      /\ buffered \in [Producers -> Nat]
  BY <1>2, <1>3, PartsFinite DEF Groups, TypeOK
<1>8. buffered'[p] <= Cardinality(Over(p)')
  <2>1. CASE v = "closing"
    <3>1. Cardinality(Over(p)') = Cardinality(Over(p)) + 1
      BY <1>4, <1>5, <1>7, <2>1, FS_AddElement
    <3>2. buffered' = buffered \/ buffered' = [buffered EXCEPT ![p] = buffered[p] + 1]
      BY <1>1, <2>1 DEF Ends
    <3>3. buffered'[p] <= buffered[p] + 1
      BY <1>3, <1>7, <3>2
    <3>4. buffered'[p] \in Nat /\ buffered[p] \in Nat
      BY <1>3, <1>7, <3>2
    <3> QED BY <1>7, <3>1, <3>3, <3>4
  <2>2. CASE v # "closing"
    <3>1. Over(p)' = Over(p) /\ buffered' = buffered
      BY <1>1, <1>4, <1>5, <2>2 DEF Onward, groups
    <3> QED BY <1>7, <3>1
  <2> QED BY <2>1, <2>2
<1>9. \A q \in Producers : q # p =>
        pending'[q] = pending[q] /\ buffered'[q] = buffered[q] /\ shut'[q] = shut[q]
  <2>1. buffered' = buffered \/ buffered' = [buffered EXCEPT ![p] = buffered[p] + 1]
    BY DEF Onward, Ends, groups
  <2> QED BY <1>2, <1>7, <2>1
<1>10. ~shut'[p] /\ phase[j] # "end"
  BY <1>2, <1>3, <1>4 DEF Groups, Inside
<1>11. v # "new" /\ v # "last"
  OBVIOUS
<1> QED BY <1>1, <1>2, <1>6, <1>8, <1>9, <1>10, <1>11, MoveKeeps

\* The groups are kept, whatever the step.
LEMMA GroupsKept ==
    ASSUME IInv, [Next]_vars
    PROVE  Groups'
<1>1. TypeOK /\ Groups /\ Adders
  BY GroupsSame DEF IInv
<1>2. GroupKind
  BY Kinds
<1>3. ASSUME NEW p \in Producers, AddAll(p) PROVE Groups'
  BY <1>1, <1>3, StartKeeps DEF Adders
<1>4. ASSUME NoStart, Aside \/ Emptied PROVE Groups'
  BY <1>1, <1>4, StillKeeps
<1>5. ASSUME NoStart, NEW j \in Jobs, Onward(j) \/ Ends(j) PROVE Groups'
  BY <1>1, <1>5, OnwardKeeps
<1>6. ASSUME NoStart, NEW j \in Jobs, Done(j) PROVE Groups'
  BY <1>1, <1>6, DoneKeeps
<1>7. ASSUME NoStart, NEW j \in Jobs, CloseResponse(j) PROVE Groups'
  BY <1>1, <1>7, CloseKeeps
<1> QED BY <1>2, <1>3, <1>4, <1>5, <1>6, <1>7 DEF GroupKind

(***************************************************************************)
(* Types                                                                   *)
(***************************************************************************)
Steps == {"ready", "add", "lock", "append", "unlock", "refused", "end"}

TypeSets ==
    /\ conf \in Setups
    /\ items \in Seq(Entry) /\ count \in Nat /\ ids \subseteq Ids
    /\ lock \in [1 .. NumShards -> Producers \cup {"purge", None}]
    /\ pc \in [Producers -> Steps] /\ at \in [Producers -> 0 .. MaxItems + 1]
    /\ id \in [Producers -> Ids \cup {None}] /\ hand \in [Takers -> Entry \cup {None}]
    /\ phase \in [Jobs -> Phases] /\ stale \subseteq Jobs
    /\ pending \in [Producers -> Nat] /\ buffered \in [Producers -> Nat]
    /\ ppc \in {"none", "lock", "take", "reset", "close"}
    /\ turn \in 1 .. NumShards /\ removed \in Seq(Jobs) /\ purges \in 0 .. MaxPurges

TypeFlags ==
    /\ closed \in BOOLEAN /\ idsOn \in BOOLEAN /\ raced \in BOOLEAN
    /\ shut \in [Producers -> BOOLEAN]

Bounds == \A p \in Producers : pending[p] <= conf.size[p] /\ buffered[p] <= conf.size[p]

LEMMA TypeSplit == TypeOK <=> TypeSets /\ TypeFlags /\ Bounds
  BY DEF TypeOK, TypeSets, TypeFlags, Bounds, Steps, Phases

\* Where an AddAll is, when it is under way.
LEMMA AdderThere ==
    ASSUME IInv, NEW p \in Producers, pc[p] \notin {"ready", "end"}
    PROVE  /\ at[p] \in 1 .. MaxItems /\ at[p] <= conf.size[p] /\ at[p] + 1 \in 0 .. MaxItems + 1
           /\ Current(p) \in Jobs /\ Current(p)[1] = p /\ Current(p)[2] = at[p]
           /\ pc[p] \in {"add", "lock", "append"} => phase[Current(p)] = "new"
           /\ pc[p] \in {"lock", "append", "unlock"} => id[p] \in Ids /\ Shard[id[p]] \in 1 .. NumShards
                                                     /\ ~conf.heap /\ idsOn
<1>1. AdderAt(p) /\ conf \in Setups
  BY DEF IInv, Adders, TypeOK
<1>2. conf.size[p] \in Nat /\ conf.size[p] <= MaxItems /\ MaxItems \in Nat
  BY <1>1, ConfType, GroupAssumption
<1>3. at[p] \in 1 .. conf.size[p]
  BY <1>1 DEF AdderAt
<1>4. at[p] \in 1 .. MaxItems /\ at[p] <= conf.size[p] /\ at[p] + 1 \in 0 .. MaxItems + 1
  BY <1>2, <1>3
<1>5. Current(p) \in Jobs /\ Current(p)[1] = p /\ Current(p)[2] = at[p]
  BY <1>4 DEF Current, Jobs
<1>6. pc[p] \in {"add", "lock", "append"} => phase[Current(p)] = "new"
  BY <1>1 DEF AdderAt
<1>7. pc[p] \in {"lock", "append", "unlock"} => id[p] \in Ids /\ Shard[id[p]] \in 1 .. NumShards
                                             /\ ~conf.heap /\ idsOn
  BY <1>1, GroupAssumption DEF AdderAt
<1> QED BY <1>4, <1>5, <1>6, <1>7

LEMMA ItemType ==
    ASSUME TypeSets, NEW p \in Producers, NEW i \in 0 .. MaxItems + 1, Item(p, i)
    PROVE  /\ pc' \in [Producers -> Steps] /\ at' \in [Producers -> 0 .. MaxItems + 1]
           /\ id' \in [Producers -> Ids \cup {None}]
  BY DEF TypeSets, Item, Steps

LEMMA RefuseType ==
    ASSUME TypeSets, NEW p \in Producers, Refuse(p)
    PROVE  /\ pc' \in [Producers -> Steps] /\ at' \in [Producers -> 0 .. MaxItems + 1]
           /\ id' \in [Producers -> Ids \cup {None}] /\ phase' \in [Jobs -> Phases]
  BY DEF TypeSets, Refuse, Steps, Phases

LEMMA StoreType ==
    ASSUME IInv, NEW p \in Producers, pc[p] \in {"add", "append"},
           NEW x \in Ids \cup {None}, NEW n \in Nat, Store(p, x, n)
    PROVE  items' \in Seq(Entry) /\ count' \in Nat /\ phase' \in [Jobs -> Phases]
<1>1. TypeOK /\ Sorted /\ at[p] \in 1 .. MaxItems
  BY AdderThere DEF IInv
<1>2. items' \in Seq(Entry)
  BY <1>1, StoreEffect DEF Adds
<1>3. count' = count + 1 /\ phase' = [phase EXCEPT ![Current(p)] = "stored"]
  BY DEF Store
<1>4. count \in Nat /\ phase \in [Jobs -> Phases]
  BY <1>1 DEF TypeOK, Phases
<1>5. "stored" \in Phases
  BY DEF Phases
<1>6. phase' \in [Jobs -> Phases]
  BY <1>3, <1>4, <1>5
<1>7. count' \in Nat
  BY <1>3, <1>4
<1> QED BY <1>2, <1>6, <1>7

\* The priorities an AddAll gives its items.
Prios == IF conf.heap THEN Priorities ELSE {0}

LEMMA PriosNat == \A n \in Prios : n \in Nat
  BY GroupAssumption DEF Prios

LEMMA TypeSetsKept ==
    ASSUME IInv, [Next]_vars
    PROVE  TypeSets'
<1> USE DEF store, idset, adders, groups, purge
<1>a. TypeOK /\ TypeSets
  BY TypeSplit DEF IInv
<1>1. ASSUME NEW p \in Producers, AddAll(p) PROVE TypeSets'
  <2>1. 1 \in 0 .. MaxItems + 1 /\ conf.size[p] \in Nat
    BY <1>a, ConfType, GroupAssumption DEF TypeSets
  <2>2. /\ pc' \in [Producers -> Steps] /\ at' \in [Producers -> 0 .. MaxItems + 1]
        /\ id' \in [Producers -> Ids \cup {None}]
    BY <1>1, <1>a, <2>1, ItemType DEF AddAll
  <2> QED BY <1>1, <1>a, <2>1, <2>2 DEF AddAll, newGroup, TypeSets
<1>2. ASSUME NEW p \in Producers, Refused(p) PROVE TypeSets'
  <2>1. at[p] + 1 \in 0 .. MaxItems + 1
    BY <1>2, AdderThere DEF Refused, At
  <2>2. /\ pc' \in [Producers -> Steps] /\ at' \in [Producers -> 0 .. MaxItems + 1]
        /\ id' \in [Producers -> Ids \cup {None}]
    BY <1>2, <1>a, <2>1, ItemType DEF Refused
  <2> QED BY <1>2, <1>a, <2>2 DEF Refused, TypeSets
<1>3. ASSUME NEW p \in Producers, EnqueueOnceLock(p) PROVE TypeSets'
  <2>1. CASE id[p] \in ids
    <3>1. Refuse(p)
      BY <1>3, <2>1 DEF EnqueueOnceLock
    <3> QED BY <1>3, <1>a, <2>1, <3>1, RefuseType DEF EnqueueOnceLock, TypeSets
  <2>2. CASE id[p] \notin ids
    <3>1. id[p] \in Ids
      BY <1>3, AdderThere DEF EnqueueOnceLock, At
    <3>2. ids' \subseteq Ids
      BY <1>3, <1>a, <2>2, <3>1 DEF EnqueueOnceLock, TypeSets
    <3>3. lock' \in [1 .. NumShards -> Producers \cup {"purge", None}]
      BY <1>3, <1>a, <2>2 DEF EnqueueOnceLock, TypeSets
    <3>4. pc' \in [Producers -> Steps]
      BY <1>3, <1>a, <2>2 DEF EnqueueOnceLock, TypeSets, Steps
    <3> QED BY <1>3, <1>a, <2>2, <3>2, <3>3, <3>4 DEF EnqueueOnceLock, TypeSets
  <2> QED BY <2>1, <2>2
<1>4. ASSUME NEW p \in Producers, EnqueueOnceAppend(p) PROVE TypeSets'
  <2>1. CASE closed \/ Full
    <3>1. Refuse(p)
      BY <1>4, <2>1 DEF EnqueueOnceAppend
    <3> QED BY <1>4, <1>a, <2>1, <3>1, RefuseType DEF EnqueueOnceAppend, TypeSets
  <2>2. CASE ~(closed \/ Full)
    <3>1. id[p] \in Ids \cup {None} /\ Store(p, id[p], 0) /\ pc[p] = "append"
      BY <1>4, <2>2, AdderThere DEF EnqueueOnceAppend, At
    <3>2. items' \in Seq(Entry) /\ count' \in Nat /\ phase' \in [Jobs -> Phases]
      BY <3>1, StoreType
    <3> QED BY <1>4, <1>a, <2>2, <3>2 DEF EnqueueOnceAppend, TypeSets, Steps
  <2> QED BY <2>1, <2>2
<1>5. ASSUME NEW p \in Producers, EnqueueOnceUnlock(p) PROVE TypeSets'
  <2>1. at[p] + 1 \in 0 .. MaxItems + 1
    BY <1>5, AdderThere DEF EnqueueOnceUnlock, At
  <2>2. /\ pc' \in [Producers -> Steps] /\ at' \in [Producers -> 0 .. MaxItems + 1]
        /\ id' \in [Producers -> Ids \cup {None}]
    BY <1>5, <1>a, <2>1, ItemType DEF EnqueueOnceUnlock
  <2> QED BY <1>5, <1>a, <2>2 DEF EnqueueOnceUnlock, TypeSets
<1>6. ASSUME NEW p \in Producers, NEW x \in Ids, EnqueueOnceOn(p, x) PROVE TypeSets'
  BY <1>6, <1>a DEF EnqueueOnceOn, TypeSets, Steps
<1>7. ASSUME NEW p \in Producers, NEW n \in Prios, Enqueue(p, n) PROVE TypeSets'
  <2>1. CASE closed \/ Full
    <3>1. Refuse(p)
      BY <1>7, <2>1 DEF Enqueue
    <3> QED BY <1>7, <1>a, <2>1, <3>1, RefuseType DEF Enqueue, TypeSets
  <2>2. CASE ~(closed \/ Full)
    <3>1. Store(p, None, n) /\ Item(p, at[p] + 1) /\ pc[p] = "add" /\ n \in Nat
          /\ at[p] + 1 \in 0 .. MaxItems + 1
      BY <1>7, <2>2, AdderThere, PriosNat DEF Enqueue, At
    <3>2. items' \in Seq(Entry) /\ count' \in Nat /\ phase' \in [Jobs -> Phases]
      BY <3>1, StoreType
    <3>3. /\ pc' \in [Producers -> Steps] /\ at' \in [Producers -> 0 .. MaxItems + 1]
          /\ id' \in [Producers -> Ids \cup {None}]
      BY <1>a, <3>1, ItemType
    <3> QED BY <1>7, <1>a, <3>2, <3>3 DEF Enqueue, TypeSets
  <2> QED BY <2>1, <2>2
<1>8. ASSUME NEW p \in Producers, NEW x \in Ids, NEW n \in Prios, EnqueueOnceHeap(p, x, n)
      PROVE  TypeSets'
  <2>1. CASE closed \/ Full \/ x \in ids
    <3>1. Refuse(p)
      BY <1>8, <2>1 DEF EnqueueOnceHeap
    <3> QED BY <1>8, <1>a, <2>1, <3>1, RefuseType DEF EnqueueOnceHeap, TypeSets
  <2>2. CASE ~(closed \/ Full \/ x \in ids)
    <3>1. Store(p, x, n) /\ Item(p, at[p] + 1) /\ pc[p] = "add" /\ n \in Nat
          /\ at[p] + 1 \in 0 .. MaxItems + 1
      BY <1>8, <2>2, AdderThere, PriosNat DEF EnqueueOnceHeap, At
    <3>2. items' \in Seq(Entry) /\ count' \in Nat /\ phase' \in [Jobs -> Phases]
      BY <3>1, StoreType
    <3>3. /\ pc' \in [Producers -> Steps] /\ at' \in [Producers -> 0 .. MaxItems + 1]
          /\ id' \in [Producers -> Ids \cup {None}]
      BY <1>a, <3>1, ItemType
    <3>4. ids' = ids \cup {x} /\ x \in Ids
      BY <1>8, <2>2 DEF EnqueueOnceHeap
    <3> QED BY <1>8, <1>a, <3>2, <3>3, <3>4 DEF EnqueueOnceHeap, TypeSets
  <2> QED BY <2>1, <2>2
<1>9. ASSUME NEW t \in Takers, Dequeue(t) PROVE TypeSets'
  <2>1. Head(items) \in Entry /\ items' \in Seq(Entry)
    BY <1>9, TakeEffect DEF IInv, Takes
  <2> QED BY <1>9, <1>a, <2>1 DEF Dequeue, TypeSets, Phases
<1>10. ASSUME NEW t \in Takers, FreeId(t) PROVE TypeSets'
  BY <1>10, <1>a DEF FreeId, TypeSets, Phases
<1>11. ASSUME NEW j \in Jobs, CloseStale(j) PROVE TypeSets'
  BY <1>11, <1>a DEF CloseStale, TypeSets, Phases
<1>12. ASSUME NEW j \in Jobs, Run(j) PROVE TypeSets'
  <2>1. PICK n \in {0, 1} : buffered' = [buffered EXCEPT ![j[1]] = @ + n]
    BY <1>12 DEF Run
  <2>2. buffered' \in [Producers -> Nat]
    <3>1. j[1] \in Producers /\ buffered \in [Producers -> Nat]
      BY <1>a DEF Jobs, TypeSets
    <3>2. buffered[j[1]] + n \in Nat
      BY <3>1
    <3> QED BY <2>1, <3>1, <3>2
  <2> QED BY <1>12, <1>a, <2>2 DEF Run, TypeSets, Phases
<1>13. ASSUME NEW j \in Jobs, Done(j) PROVE TypeSets'
  <2>1. pending' \in [Producers -> Nat]
    <3>1. j[1] \in Producers /\ pending \in [Producers -> Nat]
      BY <1>a DEF Jobs, TypeSets
    <3>2. (IF pending[j[1]] = 0 THEN 0 ELSE pending[j[1]] - 1) \in Nat
      BY <3>1
    <3> QED BY <1>13, <3>1, <3>2 DEF Done
  <2> QED BY <1>13, <1>a, <2>1 DEF Done, TypeSets, Phases
<1>14. ASSUME NEW j \in Jobs, CloseResponse(j) PROVE TypeSets'
  BY <1>14, <1>a DEF CloseResponse, TypeSets, Phases
<1>15. ASSUME PurgeBump PROVE TypeSets'
  <2>1. purges' \in 0 .. MaxPurges
    BY <1>15, <1>a, GroupAssumption DEF PurgeBump, TypeSets
  <2> QED BY <1>15, <1>a, <2>1 DEF PurgeBump, TypeSets
<1>16. ASSUME PurgeLock PROVE TypeSets'
  <2>1. turn' \in 1 .. NumShards /\ ppc' \in {"lock", "take"}
    BY <1>16, <1>a, GroupAssumption DEF PurgeLock, Turn, TypeSets
  <2> QED BY <1>16, <1>a, <2>1 DEF PurgeLock, TypeSets
<1>17. ASSUME PurgeTake PROVE TypeSets'
  <2>1. removed' \in Seq(Jobs)
    <3>1. ASSUME NEW i \in 1 .. Len(items) PROVE items[i].job \in Jobs
      <4>1. items[i] \in Entry
        BY <1>a DEF TypeSets
      <4> QED BY <4>1 DEF Entry
    <3>2. Len(items) \in Nat
      BY <1>a DEF TypeSets
    <3> QED BY <1>17, <3>1, <3>2 DEF PurgeTake
  <2> QED BY <1>17, <1>a, <2>1 DEF PurgeTake, TypeSets, Phases
<1>18. ASSUME PurgeReset PROVE TypeSets'
  <2>1. turn' \in 1 .. NumShards /\ ppc' \in {"reset", "close"}
    BY <1>18, <1>a, GroupAssumption DEF PurgeReset, Turn, TypeSets
  <2> QED BY <1>18, <1>a, <2>1 DEF PurgeReset, TypeSets
<1>19. ASSUME PurgeClose PROVE TypeSets'
  <2>1. removed' \in Seq(Jobs) /\ phase' \in [Jobs -> Phases]
    <3>1. removed \in Seq(Jobs) /\ removed # <<>> /\ phase \in [Jobs -> Phases]
      BY <1>19, <1>a DEF PurgeClose, TypeSets
    <3>2. Head(removed) \in Jobs /\ Tail(removed) \in Seq(Jobs) /\ "closing" \in Phases
      BY <3>1 DEF Phases
    <3>3. CASE phase' = [phase EXCEPT ![Head(removed)] = "closing"] /\ removed' = removed
      BY <3>1, <3>2, <3>3
    <3>4. CASE phase' = phase /\ removed' = Tail(removed)
      BY <3>1, <3>2, <3>4
    <3> QED BY <1>19, <3>3, <3>4 DEF PurgeClose
  <2> QED BY <1>19, <1>a, <2>1 DEF PurgeClose, TypeSets
<1>20. ASSUME PurgeEnd PROVE TypeSets'
  BY <1>20, <1>a DEF PurgeEnd, TypeSets
<1>21. ASSUME Close PROVE TypeSets'
  BY <1>21, <1>a DEF Close, TypeSets
<1>22. ASSUME UNCHANGED vars PROVE TypeSets'
  BY <1>22, <1>a DEF vars, TypeSets
<1> QED
  BY <1>1, <1>2, <1>3, <1>4, <1>5, <1>6, <1>7, <1>8, <1>9, <1>10, <1>11, <1>12, <1>13, <1>14,
     <1>15, <1>16, <1>17, <1>18, <1>19, <1>20, <1>21, <1>22
     DEF Next, AddStep, JobStep, PurgeStep, Prios

LEMMA TypeFlagsKept ==
    ASSUME IInv, [Next]_vars
    PROVE  TypeFlags'
<1> USE DEF store, idset, adders, groups, purge
<1>a. TypeFlags
  BY TypeSplit DEF IInv
<1>b. ASSUME closed' = closed, idsOn' = idsOn, raced' = raced, shut' = shut PROVE TypeFlags'
  BY <1>a, <1>b DEF TypeFlags
<1>1. ASSUME NEW p \in Producers, AddAll(p) PROVE TypeFlags'
  <2>1. /\ shut' = [shut EXCEPT ![p] = conf.size[p] = 0] /\ closed' = closed /\ idsOn' = idsOn
        /\ raced' = raced
    BY <1>1 DEF AddAll, newGroup
  <2>2. (conf.size[p] = 0) \in BOOLEAN
    OBVIOUS
  <2>3. shut' \in [Producers -> BOOLEAN]
    BY <1>a, <2>1, <2>2, Zenon DEF TypeFlags
  <2> QED BY <1>a, <2>1, <2>3, Zenon DEF TypeFlags
<1>2. ASSUME NEW p \in Producers, Refused(p) PROVE TypeFlags'
  BY <1>2, <1>b DEF Refused
<1>3. ASSUME NEW p \in Producers, EnqueueOnceLock(p) PROVE TypeFlags'
  BY <1>3, <1>b DEF EnqueueOnceLock
<1>4. ASSUME NEW p \in Producers, EnqueueOnceAppend(p) PROVE TypeFlags'
  BY <1>4, <1>b DEF EnqueueOnceAppend, Store
<1>5. ASSUME NEW p \in Producers, EnqueueOnceUnlock(p) PROVE TypeFlags'
  BY <1>5, <1>b DEF EnqueueOnceUnlock
<1>6. ASSUME NEW p \in Producers, NEW x \in Ids, EnqueueOnceOn(p, x) PROVE TypeFlags'
  <2>1. idsOn' = TRUE /\ closed' = closed /\ raced' = raced /\ shut' = shut
    BY <1>6 DEF EnqueueOnceOn
  <2> QED BY <1>a, <2>1, Zenon DEF TypeFlags
<1>7. ASSUME NEW p \in Producers, NEW n \in Prios, Enqueue(p, n) PROVE TypeFlags'
  BY <1>7, <1>b DEF Enqueue, Store
<1>8. ASSUME NEW p \in Producers, NEW x \in Ids, NEW n \in Prios, EnqueueOnceHeap(p, x, n)
      PROVE  TypeFlags'
  BY <1>8, <1>b DEF EnqueueOnceHeap, Store
<1>9. ASSUME NEW t \in Takers, Dequeue(t) PROVE TypeFlags'
  BY <1>9, <1>b DEF Dequeue
<1>10. ASSUME NEW t \in Takers, FreeId(t) PROVE TypeFlags'
  BY <1>10, <1>b DEF FreeId
<1>11. ASSUME NEW j \in Jobs, CloseStale(j) PROVE TypeFlags'
  BY <1>11, <1>b DEF CloseStale
<1>12. ASSUME NEW j \in Jobs, Run(j) PROVE TypeFlags'
  BY <1>12, <1>b DEF Run
<1>13. ASSUME NEW j \in Jobs, Done(j) PROVE TypeFlags'
  BY <1>13, <1>b DEF Done
<1>14. ASSUME NEW j \in Jobs, CloseResponse(j) PROVE TypeFlags'
  <2>1. shut' = [shut EXCEPT ![j[1]] = TRUE] /\ closed' = closed /\ idsOn' = idsOn /\ raced' = raced
    BY <1>14 DEF CloseResponse
  <2>2. shut' \in [Producers -> BOOLEAN]
    BY <1>a, <2>1, Zenon DEF TypeFlags
  <2> QED BY <1>a, <2>1, <2>2, Zenon DEF TypeFlags
<1>15. ASSUME PurgeBump PROVE TypeFlags'
  BY <1>15, <1>b DEF PurgeBump
<1>16. ASSUME PurgeLock PROVE TypeFlags'
  BY <1>16, <1>b DEF PurgeLock
<1>17. ASSUME PurgeTake PROVE TypeFlags'
  <2>1. closed' = closed /\ idsOn' = idsOn /\ shut' = shut
    BY <1>17 DEF PurgeTake
  <2>2. raced' \in BOOLEAN
    BY <1>17, Zenon DEF PurgeTake
  <2> QED BY <1>a, <2>1, <2>2, Zenon DEF TypeFlags
<1>18. ASSUME PurgeReset PROVE TypeFlags'
  BY <1>18, <1>b DEF PurgeReset
<1>19. ASSUME PurgeClose PROVE TypeFlags'
  BY <1>19, <1>b DEF PurgeClose
<1>20. ASSUME PurgeEnd PROVE TypeFlags'
  BY <1>20, <1>b DEF PurgeEnd
<1>21. ASSUME Close PROVE TypeFlags'
  <2>1. closed' = TRUE /\ idsOn' = idsOn /\ raced' = raced /\ shut' = shut
    BY <1>21 DEF Close
  <2> QED BY <1>a, <2>1, Zenon DEF TypeFlags
<1>22. ASSUME UNCHANGED vars PROVE TypeFlags'
  BY <1>22, <1>b DEF vars
<1> QED
  BY <1>1, <1>2, <1>3, <1>4, <1>5, <1>6, <1>7, <1>8, <1>9, <1>10, <1>11, <1>12, <1>13, <1>14,
     <1>15, <1>16, <1>17, <1>18, <1>19, <1>20, <1>21, <1>22
     DEF Next, AddStep, JobStep, PurgeStep, Prios

(***************************************************************************)
(* AddAll                                                                  *)
(***************************************************************************)
\* A step of another that leaves its new items, its lock and its id alone.
LEMMA AdderKept ==
    ASSUME NEW q \in Producers, AdderAt(q), conf' = conf,
           pc'[q] = pc[q], at'[q] = at[q], id'[q] = id[q], idsOn => idsOn',
           pc[q] = "ready" =>
             pending'[q] = pending[q] /\ buffered'[q] = buffered[q] /\ shut'[q] = shut[q],
           \A i \in 1 .. MaxItems : phase[<<q, i>>] = "new" => phase'[<<q, i>>] = "new",
           pc[q] \notin {"ready", "end"} => at[q] \in 1 .. MaxItems,
           pc[q] \in {"append", "unlock"} => lock'[Shard[id[q]]] = lock[Shard[id[q]]],
           pc[q] = "append" /\ id[q] \in ids => id[q] \in ids'
    PROVE  AdderAt(q)'
<1>1. pc'[q] = "ready" => at'[q] = 0 /\ pending'[q] = 0 /\ buffered'[q] = 0 /\ ~shut'[q]
  BY DEF AdderAt
<1>2. pc'[q] \notin {"ready", "end"} => at'[q] \in 1 .. conf'.size[q]
  BY DEF AdderAt
<1>3. pc'[q] \in {"add", "lock", "append"} => phase'[<<q, at'[q]>>] = "new"
  BY DEF AdderAt, Current
<1>4. \A i \in 1 .. MaxItems : i > at'[q] => phase'[<<q, i>>] = "new"
  BY DEF AdderAt
<1>5. pc'[q] \in {"lock", "append", "unlock"} => id'[q] \in Ids /\ ~conf'.heap /\ idsOn'
  BY DEF AdderAt
<1>6. pc'[q] \in {"append", "unlock"} => lock'[Shard[id'[q]]] = q
  BY DEF AdderAt
<1>7. pc'[q] = "append" => id'[q] \in ids'
  BY DEF AdderAt
<1> QED BY <1>1, <1>2, <1>3, <1>4, <1>5, <1>6, <1>7 DEF AdderAt, Current

\* On to the next item: those after it are new.
LEMMA AdderOn ==
    ASSUME TypeSets, NEW p \in Producers, at[p] + 1 \in 0 .. MaxItems + 1, Item(p, at[p] + 1),
           conf' = conf, \A i \in 1 .. MaxItems : i > at[p] => phase'[<<p, i>>] = "new"
    PROVE  AdderAt(p)'
<1>1. /\ pc'[p] = (IF at[p] + 1 > conf.size[p] THEN "end" ELSE "add") /\ at'[p] = at[p] + 1
      /\ id'[p] = None /\ at[p] \in Nat /\ conf \in Setups
  BY DEF Item, TypeSets
<1>2. conf.size[p] \in Nat /\ conf.size[p] <= MaxItems /\ MaxItems \in Nat
  BY <1>1, ConfType, GroupAssumption
<1>3. pc'[p] = "add" => at'[p] \in 1 .. conf.size[p] /\ at'[p] \in 1 .. MaxItems
  BY <1>1, <1>2
<1>4. \A i \in 1 .. MaxItems : i > at'[p] => phase'[<<p, i>>] = "new"
  BY <1>1, <1>2
<1>5. pc'[p] = "add" => phase'[<<p, at'[p]>>] = "new"
  <2>1. SUFFICES ASSUME pc'[p] = "add" PROVE at'[p] \in 1 .. MaxItems /\ at'[p] > at[p]
    OBVIOUS
  <2> QED BY <1>1, <1>3, <2>1
<1>6. pc'[p] \in {"end", "add"}
  BY <1>1
<1> QED BY <1>3, <1>4, <1>5, <1>6 DEF AdderAt, Current

LEMMA AdderRefused ==
    ASSUME TypeSets, NEW p \in Producers, at[p] \in 1 .. conf.size[p], Refuse(p),
           conf' = conf, \A i \in 1 .. MaxItems : i > at[p] => phase'[<<p, i>>] = "new"
    PROVE  AdderAt(p)'
  BY DEF Refuse, TypeSets, AdderAt, Current

\* A move of the item at hand leaves the others' and the later ones.
LEMMA HandMoves ==
    ASSUME TypeSets, NEW p \in Producers, NEW v, phase' = [phase EXCEPT ![Current(p)] = v]
    PROVE  \A q \in Producers : \A i \in 1 .. MaxItems :
             q # p \/ i # at[p] => phase'[<<q, i>>] = phase[<<q, i>>]
<1>1. SUFFICES ASSUME NEW q \in Producers, NEW i \in 1 .. MaxItems, q # p \/ i # at[p]
               PROVE  phase'[<<q, i>>] = phase[<<q, i>>]
  OBVIOUS
<1>2. <<q, i>> \in Jobs /\ <<q, i>> # Current(p)
  BY <1>1 DEF Jobs, Current
<1> QED BY <1>2 DEF TypeSets

\* A move of a job that is not new leaves the new ones.
LEMMA LateMoves ==
    ASSUME TypeSets, NEW j, phase[j] # "new", NEW v, phase' = [phase EXCEPT ![j] = v]
    PROVE  \A q \in Producers : \A i \in 1 .. MaxItems :
             phase[<<q, i>>] = "new" => phase'[<<q, i>>] = "new"
<1>1. SUFFICES ASSUME NEW q \in Producers, NEW i \in 1 .. MaxItems, phase[<<q, i>>] = "new"
               PROVE  phase'[<<q, i>>] = "new"
  OBVIOUS
<1>2. <<q, i>> \in Jobs /\ <<q, i>> # j
  BY <1>1 DEF Jobs
<1> QED BY <1>1, <1>2 DEF TypeSets

\* What the AddAll of q relies on, and a step of another leaves it.
Leaves(q) ==
    /\ pc'[q] = pc[q] /\ at'[q] = at[q] /\ id'[q] = id[q]
    /\ pc[q] = "ready" =>
         pending'[q] = pending[q] /\ buffered'[q] = buffered[q] /\ shut'[q] = shut[q]
    /\ \A i \in 1 .. MaxItems : phase[<<q, i>>] = "new" => phase'[<<q, i>>] = "new"
    /\ pc[q] \in {"append", "unlock"} => lock'[Shard[id[q]]] = lock[Shard[id[q]]]
    /\ pc[q] = "append" /\ id[q] \in ids => id[q] \in ids'

LEMMA LeavesKeeps ==
    ASSUME IInv, NEW q \in Producers, Leaves(q), conf' = conf, idsOn => idsOn'
    PROVE  AdderAt(q)'
<1>1. AdderAt(q) /\ (pc[q] \notin {"ready", "end"} => at[q] \in 1 .. MaxItems)
  BY AdderThere DEF IInv, Adders
<1> QED BY <1>1, AdderKept DEF Leaves

\* Locks are held by one at a time.
LEMMA LocksApart ==
    ASSUME IInv, NEW q \in Producers, pc[q] \in {"append", "unlock"}
    PROVE  /\ lock[Shard[id[q]]] = q /\ q # None /\ q # "purge"
           /\ \A p \in Producers : p # q /\ pc[p] \in {"append", "unlock"} =>
                Shard[id[p]] # Shard[id[q]] /\ id[p] # id[q]
<1>1. \A p \in Producers : pc[p] \in {"append", "unlock"} => lock[Shard[id[p]]] = p
  BY DEF IInv, Adders, AdderAt
<1> QED BY <1>1, GroupAssumption

\* The steps of one AddAll.
LEMMA AddersOwn ==
    ASSUME IInv, NEW p \in Producers, AddAll(p) \/ AddStep(p)
    PROVE  Adders'
<1> USE DEF store, idset, adders, groups, purge
<1>a. TypeSets /\ AdderAt(p)
  BY TypeSplit DEF IInv, Adders
<1>b. pc \in [Producers -> Steps] /\ at \in [Producers -> 0 .. MaxItems + 1]
      /\ id \in [Producers -> Ids \cup {None}] /\ pending \in [Producers -> Nat]
      /\ lock \in [1 .. NumShards -> Producers \cup {"purge", None}]
  BY <1>a DEF TypeSets
<1>c. \A i \in 1 .. MaxItems : i > at[p] => phase[<<p, i>>] = "new"
  BY <1>a DEF AdderAt
<1>d. ASSUME conf' = conf, idsOn => idsOn', AdderAt(p)', \A q \in Producers : q # p => Leaves(q)
      PROVE  Adders'
  BY <1>d, LeavesKeeps DEF Adders
\* Another's lock and id, in a step that gives back none but those of p.
<1>e. ASSUME NEW q \in Producers, q # p, UNCHANGED <<pending, buffered, shut>>,
             pc'[q] = pc[q], at'[q] = at[q], id'[q] = id[q],
             \A i \in 1 .. MaxItems : phase'[<<q, i>>] = phase[<<q, i>>],
             pc[q] \in {"append", "unlock"} => lock'[Shard[id[q]]] = lock[Shard[id[q]]],
             pc[q] = "append" /\ id[q] \in ids => id[q] \in ids'
      PROVE  Leaves(q)
  BY <1>e DEF Leaves
<1>1. CASE AddAll(p)
  <2>1. at[p] = 0 /\ Item(p, 1) /\ conf' = conf /\ phase' = phase /\ buffered' = buffered
        /\ idsOn' = idsOn /\ lock' = lock /\ ids' = ids
        /\ pending' = [pending EXCEPT ![p] = conf.size[p]]
        /\ shut' = [shut EXCEPT ![p] = conf.size[p] = 0]
    BY <1>1, <1>a DEF AddAll, At, AdderAt, newGroup
  <2>2. at[p] + 1 = 1 /\ at[p] + 1 \in 0 .. MaxItems + 1
    BY <2>1, GroupAssumption
  <2>3. AdderAt(p)'
    BY <1>a, <1>c, <2>1, <2>2, AdderOn
  <2>4. ASSUME NEW q \in Producers, q # p PROVE Leaves(q)
    <3>1. pc'[q] = pc[q] /\ at'[q] = at[q] /\ id'[q] = id[q]
      BY <1>b, <2>1, <2>4 DEF Item
    <3>2. pending'[q] = pending[q] /\ shut'[q] = shut[q]
      BY <1>a, <2>1, <2>4 DEF TypeSets, IInv, TypeOK
    <3> QED BY <2>1, <3>1, <3>2 DEF Leaves
  <2> QED BY <1>d, <2>1, <2>3, <2>4
<1>2. CASE Refused(p)
  <2>1. at[p] + 1 \in 0 .. MaxItems + 1 /\ Item(p, at[p] + 1)
        /\ UNCHANGED <<conf, phase, idsOn, lock, ids, pending, buffered, shut>>
    BY <1>2, AdderThere DEF Refused, At
  <2>2. AdderAt(p)'
    BY <1>a, <1>c, <2>1, AdderOn
  <2>3. ASSUME NEW q \in Producers, q # p PROVE Leaves(q)
    <3>1. pc'[q] = pc[q] /\ at'[q] = at[q] /\ id'[q] = id[q]
      BY <1>b, <2>1, <2>3 DEF Item
    <3> QED BY <1>e, <2>1, <2>3, <3>1
  <2> QED BY <1>d, <2>1, <2>2, <2>3
\* A refused item: the lock and the id, if it had them, are given back.
<1>f. ASSUME pc[p] \in {"add", "lock", "append"}, Refuse(p), idsOn' = idsOn,
             UNCHANGED <<conf, pending, buffered, shut>>,
             \/ lock' = lock /\ ids' = ids
             \/ /\ pc[p] = "append" /\ lock' = [lock EXCEPT ![Shard[id[p]]] = None]
                /\ ids' = ids \ {id[p]}
      PROVE  Adders'
  <2>1. phase' = [phase EXCEPT ![Current(p)] = "closing"]
    BY <1>f DEF Refuse
  <2>2. \A q \in Producers : \A i \in 1 .. MaxItems :
          q # p \/ i # at[p] => phase'[<<q, i>>] = phase[<<q, i>>]
    BY <1>a, <2>1, HandMoves
  <2>3. at[p] \in 1 .. conf.size[p] /\ at[p] \in Nat
    BY <1>a, <1>b, <1>f DEF AdderAt
  <2>4. \A i \in 1 .. MaxItems : i > at[p] => phase'[<<p, i>>] = "new"
    BY <1>c, <2>2, <2>3
  <2>5. AdderAt(p)'
    BY <1>a, <1>f, <2>3, <2>4, AdderRefused
  <2>6. ASSUME NEW q \in Producers, q # p PROVE Leaves(q)
    <3>1. pc'[q] = pc[q] /\ at'[q] = at[q] /\ id'[q] = id[q]
      BY <1>b, <1>f, <2>6 DEF Refuse
    <3>2. pc[q] \in {"append", "unlock"} => lock'[Shard[id[q]]] = lock[Shard[id[q]]]
      <4>1. SUFFICES ASSUME pc[q] \in {"append", "unlock"}, pc[p] = "append",
                            lock' = [lock EXCEPT ![Shard[id[p]]] = None]
                     PROVE  lock'[Shard[id[q]]] = lock[Shard[id[q]]]
        BY <1>f
      <4>2. Shard[id[p]] # Shard[id[q]]
        BY <2>6, <4>1, LocksApart
      <4>3. Shard[id[q]] \in 1 .. NumShards
        BY <4>1, AdderThere
      <4> QED BY <1>b, <4>1, <4>2, <4>3
    <3>3. pc[q] = "append" /\ id[q] \in ids => id[q] \in ids'
      BY <1>f, <2>6, LocksApart
    <3> QED BY <1>e, <1>f, <2>2, <2>6, <3>1, <3>2, <3>3
  <2> QED BY <1>d, <1>f, <2>5, <2>6
\* An item that is stored at once.
<1>g. ASSUME pc[p] = "add", NEW x, NEW n, Store(p, x, n), Item(p, at[p] + 1), idsOn' = idsOn,
             UNCHANGED <<conf, pending, buffered, shut, lock>>, ids' = ids \/ ids' = ids \cup {x}
      PROVE  Adders'
  <2>1. phase' = [phase EXCEPT ![Current(p)] = "stored"]
    BY <1>g DEF Store
  <2>2. \A q \in Producers : \A i \in 1 .. MaxItems :
          q # p \/ i # at[p] => phase'[<<q, i>>] = phase[<<q, i>>]
    BY <1>a, <2>1, HandMoves
  <2>3. at[p] + 1 \in 0 .. MaxItems + 1 /\ at[p] \in Nat
    <3>1. at[p] \in 1 .. MaxItems /\ at[p] + 1 \in 0 .. MaxItems + 1
      BY <1>g, AdderThere
    <3> QED BY <3>1
  <2>4. \A i \in 1 .. MaxItems : i > at[p] => phase'[<<p, i>>] = "new"
    BY <1>c, <2>2, <2>3
  <2>5. AdderAt(p)'
    BY <1>a, <1>g, <2>3, <2>4, AdderOn
  <2>6. ASSUME NEW q \in Producers, q # p PROVE Leaves(q)
    <3>1. pc'[q] = pc[q] /\ at'[q] = at[q] /\ id'[q] = id[q]
      BY <1>b, <1>g, <2>6 DEF Item
    <3> QED BY <1>e, <1>g, <2>2, <2>6, <3>1
  <2> QED BY <1>d, <1>g, <2>5, <2>6
<1>3. CASE EnqueueOnceLock(p)
  <2>1. CASE id[p] \in ids
    BY <1>3, <1>f, <2>1 DEF EnqueueOnceLock, At
  <2>2. CASE id[p] \notin ids
    <3>1. /\ lock[Shard[id[p]]] = None /\ ids' = ids \cup {id[p]}
          /\ lock' = [lock EXCEPT ![Shard[id[p]]] = p]
          /\ pc' = [pc EXCEPT ![p] = "append"] /\ pc[p] = "lock"
          /\ UNCHANGED <<at, id, phase, conf, idsOn, pending, buffered, shut>>
      BY <1>3, <2>2 DEF EnqueueOnceLock, At
    <3>2. lock'[Shard[id[p]]] = p /\ pc'[p] = "append"
      BY <1>b, <3>1, AdderThere
    <3>3. AdderAt(p)'
      BY <1>a, <3>1, <3>2 DEF AdderAt, Current
    <3>4. ASSUME NEW q \in Producers, q # p PROVE Leaves(q)
      <4>1. pc[q] \in {"append", "unlock"} => lock'[Shard[id[q]]] = lock[Shard[id[q]]]
        BY <1>b, <3>1, <3>4, LocksApart
      <4> QED BY <1>b, <1>e, <3>1, <3>4, <4>1
    <3> QED BY <1>d, <3>1, <3>3, <3>4
  <2> QED BY <2>1, <2>2
<1>4. CASE EnqueueOnceAppend(p)
  <2>1. CASE closed \/ Full
    BY <1>4, <1>f, <2>1 DEF EnqueueOnceAppend, At
  <2>2. CASE ~(closed \/ Full)
    <3>1. /\ Store(p, id[p], 0) /\ pc' = [pc EXCEPT ![p] = "unlock"] /\ pc[p] = "append"
          /\ UNCHANGED <<at, id, lock, ids, conf, idsOn, pending, buffered, shut>>
      BY <1>4, <2>2 DEF EnqueueOnceAppend, At
    <3>2. phase' = [phase EXCEPT ![Current(p)] = "stored"]
      BY <3>1 DEF Store
    <3>3. \A q \in Producers : \A i \in 1 .. MaxItems :
            q # p \/ i # at[p] => phase'[<<q, i>>] = phase[<<q, i>>]
      BY <1>a, <3>2, HandMoves
    <3>4. \A i \in 1 .. MaxItems : i > at[p] => phase'[<<p, i>>] = "new"
      BY <1>b, <1>c, <3>3
    <3>5. pc'[p] = "unlock"
      BY <1>b, <3>1
    <3>6. AdderAt(p)'
      BY <1>a, <3>1, <3>4, <3>5 DEF AdderAt
    <3>7. ASSUME NEW q \in Producers, q # p PROVE Leaves(q)
      BY <1>b, <1>e, <3>1, <3>3, <3>7
    <3> QED BY <1>d, <3>1, <3>6, <3>7
  <2> QED BY <2>1, <2>2
<1>5. CASE EnqueueOnceUnlock(p)
  <2>1. /\ at[p] + 1 \in 0 .. MaxItems + 1 /\ Item(p, at[p] + 1) /\ pc[p] = "unlock"
        /\ lock' = [lock EXCEPT ![Shard[id[p]]] = None]
        /\ UNCHANGED <<conf, phase, idsOn, ids, pending, buffered, shut>>
    BY <1>5, AdderThere DEF EnqueueOnceUnlock, At
  <2>2. AdderAt(p)'
    BY <1>a, <1>c, <2>1, AdderOn
  <2>3. ASSUME NEW q \in Producers, q # p PROVE Leaves(q)
    <3>1. pc'[q] = pc[q] /\ at'[q] = at[q] /\ id'[q] = id[q]
      BY <1>b, <2>1, <2>3 DEF Item
    <3>2. pc[q] \in {"append", "unlock"} => lock'[Shard[id[q]]] = lock[Shard[id[q]]]
      BY <1>b, <2>1, <2>3, LocksApart
    <3> QED BY <1>e, <2>1, <2>3, <3>1, <3>2
  <2> QED BY <1>d, <2>1, <2>2, <2>3
<1>6. ASSUME NEW x \in Ids, EnqueueOnceOn(p, x) PROVE Adders'
  <2>1. /\ pc[p] = "add" /\ ~conf.heap /\ id' = [id EXCEPT ![p] = x] /\ idsOn' = TRUE
        /\ pc' = [pc EXCEPT ![p] = "lock"]
        /\ UNCHANGED <<conf, at, phase, ids, lock, pending, buffered, shut>>
    BY <1>6 DEF EnqueueOnceOn, At
  <2>2. pc'[p] = "lock" /\ id'[p] = x
    BY <1>b, <2>1
  <2>3. AdderAt(p)'
    BY <1>a, <2>1, <2>2 DEF AdderAt, Current
  <2>4. ASSUME NEW q \in Producers, q # p PROVE Leaves(q)
    BY <1>b, <1>e, <2>1, <2>4
  <2> QED BY <1>d, <2>1, <2>3, <2>4
<1>7. ASSUME NEW n \in Prios, Enqueue(p, n) PROVE Adders'
  <2>1. CASE closed \/ Full
    BY <1>7, <1>f, <2>1 DEF Enqueue, At
  <2>2. CASE ~(closed \/ Full)
    BY <1>7, <1>g, <2>2 DEF Enqueue, At
  <2> QED BY <2>1, <2>2
<1>8. ASSUME NEW x \in Ids, NEW n \in Prios, EnqueueOnceHeap(p, x, n) PROVE Adders'
  <2>1. CASE closed \/ Full \/ x \in ids
    BY <1>8, <1>f, <2>1 DEF EnqueueOnceHeap, At
  <2>2. CASE ~(closed \/ Full \/ x \in ids)
    BY <1>8, <1>g, <2>2 DEF EnqueueOnceHeap, At
  <2> QED BY <2>1, <2>2
<1> QED
  BY <1>1, <1>2, <1>3, <1>4, <1>5, <1>6, <1>7, <1>8 DEF AddStep, Prios

LEMMA AddersKept ==
    ASSUME IInv, [Next]_vars
    PROVE  Adders'
<1> USE DEF store, idset, adders, groups, purge
<1>a. TypeSets /\ Hands /\ Stored /\ Purging /\ Known
  BY TypeSplit DEF IInv
<1>b. /\ lock \in [1 .. NumShards -> Producers \cup {"purge", None}]
      /\ phase \in [Jobs -> Phases] /\ turn \in 1 .. NumShards
      /\ pending \in [Producers -> Nat] /\ buffered \in [Producers -> Nat]
  BY <1>a DEF TypeSets
\* A step of nobody's AddAll.
<1>c. ASSUME UNCHANGED <<conf, pc, at, id, idsOn>>,
             \A q \in Producers : pc[q] = "ready" =>
               pending'[q] = pending[q] /\ buffered'[q] = buffered[q] /\ shut'[q] = shut[q],
             \A q \in Producers : \A i \in 1 .. MaxItems :
               phase[<<q, i>>] = "new" => phase'[<<q, i>>] = "new",
             \A q \in Producers : pc[q] \in {"append", "unlock"} =>
               lock'[Shard[id[q]]] = lock[Shard[id[q]]],
             \A q \in Producers : pc[q] = "append" /\ id[q] \in ids => id[q] \in ids'
      PROVE  Adders'
  <2>1. ASSUME NEW q \in Producers PROVE Leaves(q)
    BY <1>c DEF Leaves
  <2> QED BY <1>c, <2>1, LeavesKeeps DEF Adders
<1>d. \A q \in Producers : pc[q] = "append" => ~conf.heap
  BY AdderThere
<1>e. \A q \in Producers : pc[q] \in {"append", "unlock"} =>
        lock[Shard[id[q]]] \notin {None, "purge"} /\ Shard[id[q]] \in 1 .. NumShards
  BY LocksApart, AdderThere
<1>f. ASSUME NEW j \in Jobs, phase[j] # "new" PROVE j[1] \in Producers /\ pc[j[1]] # "ready"
  BY <1>a, <1>f DEF Known, Jobs
<1>1. ASSUME NEW p \in Producers, AddAll(p) \/ AddStep(p) PROVE Adders'
  BY <1>1, AddersOwn
<1>9. ASSUME NEW t \in Takers, Dequeue(t) PROVE Adders'
  <2>1. /\ 1 \in DOMAIN items /\ Head(items) = items[1] /\ phase[items[1].job] = "stored"
    BY <1>9, TakeEffect DEF IInv, Stored, Positions
  <2>2. /\ UNCHANGED <<conf, pc, at, id, idsOn, lock, pending, buffered, shut>>
        /\ conf.heap \/ ids' = ids
        /\ \E v : phase' = [phase EXCEPT ![items[1].job] = v]
    BY <1>9, <2>1 DEF Dequeue
  <2>3. \A q \in Producers : \A i \in 1 .. MaxItems :
          phase[<<q, i>>] = "new" => phase'[<<q, i>>] = "new"
    BY <1>a, <2>1, <2>2, LateMoves
  <2> QED BY <1>c, <1>d, <2>2, <2>3
<1>10. ASSUME NEW t \in Takers, FreeId(t) PROVE Adders'
  <2>1. /\ UNCHANGED <<conf, pc, at, id, idsOn, lock, pending, buffered, shut>>
        /\ hand[t] # None /\ lock[Shard[hand[t].id]] = None /\ ids' = ids \ {hand[t].id}
        /\ phase' = [phase EXCEPT ![hand[t].job] = "taken"]
    BY <1>10 DEF FreeId
  <2>2. phase[hand[t].job] = "dequeued"
    BY <1>a, <2>1 DEF Hands
  <2>3. \A q \in Producers : \A i \in 1 .. MaxItems :
          phase[<<q, i>>] = "new" => phase'[<<q, i>>] = "new"
    BY <1>a, <2>1, <2>2, LateMoves
  <2>4. \A q \in Producers : pc[q] = "append" => id[q] # hand[t].id
    BY <1>e, <2>1
  <2> QED BY <1>c, <2>1, <2>3, <2>4
<1>11. ASSUME NEW j \in Jobs, CloseStale(j) PROVE Adders'
  <2>1. /\ UNCHANGED <<conf, pc, at, id, idsOn, lock, ids, pending, buffered, shut>>
        /\ phase[j] = "taken" /\ phase' = [phase EXCEPT ![j] = "closing"]
    BY <1>11 DEF CloseStale
  <2>2. \A q \in Producers : \A i \in 1 .. MaxItems :
          phase[<<q, i>>] = "new" => phase'[<<q, i>>] = "new"
    BY <1>a, <2>1, LateMoves
  <2> QED BY <1>c, <2>1, <2>2
<1>12. ASSUME NEW j \in Jobs, Run(j) PROVE Adders'
  <2>1. /\ UNCHANGED <<conf, pc, at, id, idsOn, lock, ids, pending, shut>>
        /\ phase[j] = "taken" /\ phase' = [phase EXCEPT ![j] = "closing"]
        /\ \E n : buffered' = [buffered EXCEPT ![j[1]] = n]
    BY <1>12 DEF Run
  <2>2. \A q \in Producers : \A i \in 1 .. MaxItems :
          phase[<<q, i>>] = "new" => phase'[<<q, i>>] = "new"
    BY <1>a, <2>1, LateMoves
  <2>3. \A q \in Producers : pc[q] = "ready" => buffered'[q] = buffered[q]
    BY <1>b, <1>f, <2>1
  <2> QED BY <1>c, <2>1, <2>2, <2>3
<1>13. ASSUME NEW j \in Jobs, Done(j) PROVE Adders'
  <2>1. /\ UNCHANGED <<conf, pc, at, id, idsOn, lock, ids, buffered, shut>>
        /\ phase[j] = "closing" /\ \E v : phase' = [phase EXCEPT ![j] = v]
        /\ \E n : pending' = [pending EXCEPT ![j[1]] = n]
    BY <1>13 DEF Done
  <2>2. \A q \in Producers : \A i \in 1 .. MaxItems :
          phase[<<q, i>>] = "new" => phase'[<<q, i>>] = "new"
    BY <1>a, <2>1, LateMoves
  <2>3. \A q \in Producers : pc[q] = "ready" => pending'[q] = pending[q]
    BY <1>b, <1>f, <2>1
  <2> QED BY <1>c, <2>1, <2>2, <2>3
<1>14. ASSUME NEW j \in Jobs, CloseResponse(j) PROVE Adders'
  <2>1. /\ UNCHANGED <<conf, pc, at, id, idsOn, lock, ids, pending, buffered>>
        /\ phase[j] = "last" /\ phase' = [phase EXCEPT ![j] = "end"]
        /\ shut' = [shut EXCEPT ![j[1]] = TRUE]
    BY <1>14 DEF CloseResponse
  <2>2. \A q \in Producers : \A i \in 1 .. MaxItems :
          phase[<<q, i>>] = "new" => phase'[<<q, i>>] = "new"
    BY <1>a, <2>1, LateMoves
  <2>3. \A q \in Producers : pc[q] = "ready" => shut'[q] = shut[q]
    BY <1>f, <2>1 DEF IInv, TypeOK
  <2> QED BY <1>c, <2>1, <2>2, <2>3
<1>15. ASSUME PurgeBump PROVE Adders'
  BY <1>15, <1>c DEF PurgeBump
<1>16. ASSUME PurgeLock PROVE Adders'
  <2>1. /\ UNCHANGED <<conf, pc, at, id, idsOn, ids, phase, pending, buffered, shut>>
        /\ lock[turn] = None /\ lock' = [lock EXCEPT ![turn] = "purge"]
    BY <1>16 DEF PurgeLock
  <2>2. \A q \in Producers : pc[q] \in {"append", "unlock"} =>
          lock'[Shard[id[q]]] = lock[Shard[id[q]]]
    BY <1>b, <1>e, <2>1
  <2> QED BY <1>c, <2>1, <2>2
<1>17. ASSUME PurgeTake PROVE Adders'
  <2>1. /\ UNCHANGED <<conf, pc, at, id, idsOn, lock, pending, buffered, shut>>
        /\ conf.heap \/ ids' = ids
        /\ phase' = [j \in Jobs |-> IF phase[j] = "stored" THEN "removed" ELSE phase[j]]
    BY <1>17 DEF PurgeTake
  <2>2. \A q \in Producers : \A i \in 1 .. MaxItems :
          phase[<<q, i>>] = "new" => phase'[<<q, i>>] = "new"
    BY <2>1 DEF Jobs
  <2> QED BY <1>c, <1>d, <2>1, <2>2
<1>18. ASSUME PurgeReset PROVE Adders'
  <2>1. /\ UNCHANGED <<conf, pc, at, id, idsOn, phase, pending, buffered, shut>>
        /\ ppc = "reset" /\ lock' = [lock EXCEPT ![turn] = None]
        /\ ids' = {x \in ids : Shard[x] # turn}
    BY <1>18 DEF PurgeReset
  <2>2. lock[turn] = "purge"
    BY <1>a, <1>b, <2>1 DEF Purging
  <2>3. \A q \in Producers : pc[q] \in {"append", "unlock"} => Shard[id[q]] # turn
    BY <1>e, <2>2
  <2>4. \A q \in Producers : pc[q] \in {"append", "unlock"} =>
          lock'[Shard[id[q]]] = lock[Shard[id[q]]]
    BY <1>b, <1>e, <2>1, <2>3
  <2> QED BY <1>c, <2>1, <2>3, <2>4
<1>19. ASSUME PurgeClose PROVE Adders'
  <2>1. /\ UNCHANGED <<conf, pc, at, id, idsOn, lock, ids, pending, buffered, shut>>
        /\ \/ phase[Head(removed)] = "removed" /\ phase' = [phase EXCEPT ![Head(removed)] = "closing"]
           \/ phase' = phase
    BY <1>19 DEF PurgeClose
  <2>2. \A q \in Producers : \A i \in 1 .. MaxItems :
          phase[<<q, i>>] = "new" => phase'[<<q, i>>] = "new"
    BY <1>a, <2>1, LateMoves
  <2> QED BY <1>c, <2>1, <2>2
<1>20. ASSUME PurgeEnd PROVE Adders'
  BY <1>20, <1>c DEF PurgeEnd
<1>21. ASSUME Close PROVE Adders'
  BY <1>21, <1>c DEF Close
<1>22. ASSUME UNCHANGED vars PROVE Adders'
  BY <1>22, <1>c DEF vars
<1> QED
  BY <1>1, <1>9, <1>10, <1>11, <1>12, <1>13, <1>14, <1>15, <1>16, <1>17, <1>18, <1>19, <1>20,
     <1>21, <1>22 DEF Next, JobStep, PurgeStep

LEMMA BoundsKept ==
    ASSUME IInv, [Next]_vars
    PROVE  Bounds'
<1>1. TypeSets' /\ Groups' /\ Adders'
  BY TypeSetsKept, GroupsKept, AddersKept
<1>2. conf' = conf /\ conf \in Setups
  <2>1. GroupKind /\ conf \in Setups
    BY Kinds DEF IInv, TypeOK
  <2> QED BY <2>1 DEF GroupKind, NoStart, AddAll
<1>3. SUFFICES ASSUME NEW p \in Producers
               PROVE  pending'[p] <= conf.size[p] /\ buffered'[p] <= conf.size[p]
  BY <1>2 DEF Bounds
<1>4. IsFiniteSet(Members(p)) /\ Cardinality(Members(p)) = conf.size[p] /\ conf.size[p] \in Nat
  BY <1>2, MembersType, ConfType
<1>5. CASE pc'[p] = "ready"
  <2>1. pending'[p] = 0 /\ buffered'[p] = 0
    BY <1>1, <1>5 DEF Adders, AdderAt
  <2> QED BY <1>4, <2>1
<1>6. CASE pc'[p] # "ready"
  <2>1. pending'[p] = Cardinality(Left(p)') /\ buffered'[p] <= Cardinality(Over(p)')
    BY <1>1, <1>6 DEF Groups
  <2>2. Left(p)' \in SUBSET Members(p) /\ Over(p)' \in SUBSET Members(p)
    BY <1>2 DEF Left, Over, Members
  <2>3. IsFiniteSet(Left(p)') /\ Cardinality(Left(p)') <= conf.size[p]
    BY <1>4, <2>2, FS_Subset
  <2>4. IsFiniteSet(Over(p)') /\ Cardinality(Over(p)') <= conf.size[p]
    BY <1>4, <2>2, FS_Subset
  <2>5. Cardinality(Left(p)') \in Nat /\ Cardinality(Over(p)') \in Nat /\ buffered'[p] \in Nat
    BY <1>1, <2>3, <2>4, FS_CardinalityType DEF TypeSets
  <2> QED BY <1>4, <2>1, <2>3, <2>4, <2>5
<1> QED BY <1>5, <1>6

(***************************************************************************)
(* The items and the workers' hands: Stored, Sorted, Hands                 *)
(***************************************************************************)
\* The effect of Store on what is stored, of an item that was new.
Storing(p, x, n) ==
    /\ pc[p] \in {"add", "append"} /\ x \in Ids \cup {None} /\ n \in Nat /\ Store(p, x, n)
    /\ ~conf.heap => n = 0 /\ (x # None => idsOn /\ pc[p] = "append" /\ x = id[p])
    /\ UNCHANGED <<conf, idsOn, lock, hand, ppc, turn, raced>>

\* Nothing stored or in a hand moves.
Quiet ==
    /\ UNCHANGED <<conf, items, count, hand>> /\ (idsOn => idsOn')
    /\ \/ phase' = phase
       \/ \E j \in Jobs, v \in Phases :
            phase[j] \notin {"stored", "dequeued"} /\ phase' = [phase EXCEPT ![j] = v]

LEMMA ItemsTyped ==
    ASSUME TypeOK
    PROVE  /\ DOMAIN items = 1 .. Len(items) /\ Len(items) \in Nat
           /\ \A i \in Positions : /\ items[i] \in Entry /\ items[i].job \in Jobs
                                   /\ items[i].id \in Ids \cup {None}
                                   /\ items[i].index \in Nat /\ items[i].prio \in Nat
           /\ \A t \in Takers : hand[t] # None =>
                hand[t] \in Entry /\ hand[t].job \in Jobs /\ hand[t].id \in Ids \cup {None}
<1>1. items \in Seq(Entry) /\ hand \in [Takers -> Entry \cup {None}]
  BY DEF TypeOK
<1>2. DOMAIN items = 1 .. Len(items) /\ Len(items) \in Nat /\ \A i \in Positions : items[i] \in Entry
  BY <1>1 DEF Positions
<1>3. \A e \in Entry : /\ e.job \in Jobs /\ e.id \in Ids \cup {None}
                       /\ e.index \in Nat /\ e.prio \in Nat
  BY DEF Entry
<1>4. \A t \in Takers : hand[t] # None => hand[t] \in Entry
  BY <1>1
<1> QED BY <1>2, <1>3, <1>4

LEMMA QuietItems ==
    ASSUME IInv, Quiet
    PROVE  Stored' /\ Sorted' /\ Hands'
<1>1. TypeOK /\ Stored /\ Sorted /\ Hands /\ phase \in [Jobs -> Phases]
  BY TypeSplit DEF IInv, TypeSets
<1>2. \A j \in Jobs : phase[j] \in {"stored", "dequeued"} => phase'[j] = phase[j]
  BY <1>1 DEF Quiet
<1>3. /\ \A i \in Positions : items[i].job \in Jobs
      /\ \A t \in Takers : hand[t] # None => hand[t].job \in Jobs
  BY <1>1, ItemsTyped
<1>4. UNCHANGED <<conf, items, count, hand>> /\ Positions' = Positions /\ (idsOn => idsOn')
  BY DEF Quiet, Positions
<1>5. Stored'
  BY <1>1, <1>2, <1>3, <1>4 DEF Stored
<1>6. Sorted'
  BY <1>1, <1>4 DEF Sorted
<1>7. Hands'
  BY <1>1, <1>2, <1>3, <1>4 DEF Hands
<1> QED BY <1>5, <1>6, <1>7

LEMMA StoringItems ==
    ASSUME IInv, NEW p \in Producers, NEW x, NEW n, Storing(p, x, n)
    PROVE  /\ Stored' /\ Sorted' /\ Hands'
           /\ \E e \in Entry : Adds(items, items', e) /\ e.id = x
<1> DEFINE c == Current(p)
<1>1. TypeOK /\ Stored /\ Sorted /\ Hands /\ phase \in [Jobs -> Phases] /\ count \in Nat
      /\ TypeSets
  BY TypeSplit DEF IInv, TypeSets
<1>2. at[p] \in 1 .. MaxItems /\ c \in Jobs /\ phase[c] = "new"
  BY AdderThere DEF Storing
<1>3. /\ x \in Ids \cup {None} /\ n \in Nat /\ Store(p, x, n) /\ conf' = conf /\ idsOn' = idsOn
      /\ hand' = hand /\ (~conf.heap => n = 0 /\ (x # None => idsOn))
  BY DEF Storing
<1>4. PICK e \in Entry :
        /\ e.job = c /\ e.id = x /\ e.prio = n /\ e.index = count
        /\ Adds(items, items', e)
        /\ conf.heap => H!HeapOrdered(items', Len(items'))
        /\ ~conf.heap => items' = Append(items, e)
  BY <1>1, <1>2, <1>3, StoreEffect
<1>5. count' = count + 1 /\ phase' = [phase EXCEPT ![c] = "stored"]
  BY <1>3 DEF Store
<1> HIDE DEF c
<1>6. phase'[c] = "stored" /\ \A j \in Jobs : j # c => phase'[j] = phase[j]
  BY <1>1, <1>2, <1>5
<1>7. \A i \in DOMAIN items : /\ items[i].job \in Jobs /\ items[i].job # c
                              /\ phase[items[i].job] = "stored"
                              /\ items[i].index \in Nat /\ items[i].index < count
                              /\ ~conf.heap => items[i].prio = 0 /\ (items[i].id # None => idsOn)
  BY <1>1, <1>2, ItemsTyped DEF Stored, Positions
<1>8. \A i, k \in DOMAIN items : i # k => items[i].job # items[k].job /\ items[i].index # items[k].index
  BY <1>1 DEF Stored, Positions
\* Each of the items, and each two.
<1>9. \A i \in DOMAIN items' : items'[i] = e \/ \E k \in DOMAIN items : items'[i] = items[k]
  BY <1>4 DEF Adds
<1>10. \A i, k \in DOMAIN items' : i # k =>
         \/ items'[i] = e /\ \E l \in DOMAIN items : items'[k] = items[l]
         \/ items'[k] = e /\ \E m \in DOMAIN items : items'[i] = items[m]
         \/ \E m, l \in DOMAIN items : m # l /\ items'[i] = items[m] /\ items'[k] = items[l]
  BY <1>4 DEF Adds
<1>11. ASSUME NEW i \in DOMAIN items'
       PROVE  /\ phase'[items'[i].job] = "stored" /\ items'[i].index < count'
              /\ ~conf'.heap => items'[i].prio = 0 /\ (items'[i].id # None => idsOn')
  <2>1. CASE items'[i] = e
    BY <1>1, <1>3, <1>4, <1>5, <1>6, <2>1
  <2>2. ASSUME NEW k \in DOMAIN items, items'[i] = items[k]
        PROVE  /\ phase'[items'[i].job] = "stored" /\ items'[i].index < count'
               /\ ~conf'.heap => items'[i].prio = 0 /\ (items'[i].id # None => idsOn')
    BY <1>1, <1>3, <1>5, <1>6, <1>7, <2>2
  <2> QED BY <1>9, <2>1, <2>2
<1>12. \A k \in DOMAIN items : e.job # items[k].job /\ e.index # items[k].index
  BY <1>1, <1>4, <1>7
<1>13. ASSUME NEW i \in DOMAIN items', NEW k \in DOMAIN items', i # k
       PROVE  items'[i].job # items'[k].job /\ items'[i].index # items'[k].index
  BY <1>8, <1>10, <1>12, <1>13
<1>14. Stored'
  BY <1>11, <1>13 DEF Stored, Positions
<1>15. Sorted'
  <2>1. CASE conf.heap
    BY <1>3, <1>4, <2>1 DEF Sorted
  <2>2. CASE ~conf.heap
    <3>1. items' = Append(items, e) /\ items \in Seq(Entry)
      BY <1>1, <1>4, <2>2 DEF TypeOK
    <3>2. ASSUME NEW i \in DOMAIN items', NEW k \in DOMAIN items', i < k
          PROVE  items'[i].index < items'[k].index
      <4>1. DOMAIN items' = 1 .. Len(items) + 1 /\ DOMAIN items = 1 .. Len(items) /\ Len(items) \in Nat
        BY <3>1
      <4>2. i \in DOMAIN items /\ items'[i] = items[i]
        BY <3>1, <3>2, <4>1
      <4>3. CASE k \in DOMAIN items
        <5>1. items'[k] = items[k]
          BY <3>1, <4>3
        <5> QED BY <1>1, <2>2, <3>2, <4>2, <4>3, <5>1 DEF Sorted, Positions
      <4>4. CASE k \notin DOMAIN items
        <5>1. items'[k] = e
          BY <3>1, <4>1, <4>4
        <5> QED BY <1>4, <1>7, <4>2, <5>1
      <4> QED BY <4>3, <4>4
    <3> QED BY <1>3, <2>2, <3>2 DEF Sorted, Positions
  <2> QED BY <2>1, <2>2
<1>16. Hands'
  <2>1. \A t \in Takers : hand[t] # None => hand[t].job \in Jobs
    BY <1>1, ItemsTyped
  <2>2. \A t \in Takers : hand[t] # None => hand[t].job # c
    BY <1>1, <1>2 DEF Hands
  <2> QED BY <1>1, <1>3, <1>6, <2>1, <2>2 DEF Hands
<1> QED BY <1>4, <1>14, <1>15, <1>16

LEMMA TakingItems ==
    ASSUME IInv, NEW t \in Takers, Dequeue(t)
    PROVE  Stored' /\ Sorted' /\ Hands'
<1> USE DEF idset, adders, groups, purge
<1> DEFINE c == items[1].job
<1>1. TypeOK /\ Stored /\ Sorted /\ Hands /\ phase \in [Jobs -> Phases]
  BY TypeSplit DEF IInv, TypeSets
<1>2. /\ items \in Seq(Entry) /\ 1 \in DOMAIN items /\ Head(items) = items[1]
      /\ Takes(items, items')
      /\ conf.heap => H!HeapOrdered(items', Len(items'))
      /\ ~conf.heap => items' = Tail(items)
  BY <1>1, TakeEffect
<1>3. conf' = conf /\ count' = count /\ idsOn' = idsOn /\ hand[t] = None
  BY DEF Dequeue
<1>4. \/ /\ hand' = [hand EXCEPT ![t] = items[1]] /\ phase' = [phase EXCEPT ![c] = "dequeued"]
         /\ ~conf.heap /\ items[1].id # None
      \/ hand' = hand /\ phase' = [phase EXCEPT ![c] = "taken"]
  BY <1>2 DEF Dequeue
<1>5. c \in Jobs /\ phase[c] = "stored" /\ items[1] # None /\ items[1].id \in Ids \cup {None}
  <2>1. c \in Jobs /\ phase[c] = "stored" /\ items[1].id \in Ids \cup {None}
    BY <1>1, <1>2, ItemsTyped DEF Stored, Positions, TypeOK
  <2>2. items[1] # None
    <3>1. items[1] \in Entry
      BY <1>2
    <3> QED BY <3>1, GroupAssumption
  <2> QED BY <2>1, <2>2
<1> HIDE DEF c
<1>6. \A j \in Jobs : j # c => phase'[j] = phase[j]
  BY <1>1, <1>4
<1>7. \A i \in DOMAIN items : /\ items[i].job \in Jobs /\ phase[items[i].job] = "stored"
                              /\ i # 1 => items[i].job # c
                              /\ items[i].index < count
                              /\ ~conf.heap => items[i].prio = 0 /\ (items[i].id # None => idsOn)
  BY <1>1, <1>2, ItemsTyped DEF Stored, Positions, c
<1>8. \A i, k \in DOMAIN items : i # k => items[i].job # items[k].job /\ items[i].index # items[k].index
  BY <1>1 DEF Stored, Positions
<1>9. \A i \in DOMAIN items' : \E k \in DOMAIN items : k # 1 /\ items'[i] = items[k]
  BY <1>2 DEF Takes
<1>10. \A i, k \in DOMAIN items' : i # k =>
         \E m, l \in DOMAIN items : m # l /\ m # 1 /\ l # 1 /\ items'[i] = items[m] /\ items'[k] = items[l]
  BY <1>2 DEF Takes
<1>11. Stored'
  <2>1. ASSUME NEW i \in DOMAIN items'
        PROVE  /\ phase'[items'[i].job] = "stored" /\ items'[i].index < count'
               /\ ~conf'.heap => items'[i].prio = 0 /\ (items'[i].id # None => idsOn')
    <3>1. PICK k \in DOMAIN items : k # 1 /\ items'[i] = items[k]
      BY <1>9
    <3> QED BY <1>3, <1>6, <1>7, <3>1
  <2>2. ASSUME NEW i \in DOMAIN items', NEW k \in DOMAIN items', i # k
        PROVE  items'[i].job # items'[k].job /\ items'[i].index # items'[k].index
    BY <1>8, <1>10, <2>2
  <2> QED BY <2>1, <2>2 DEF Stored, Positions
<1>12. Sorted'
  <2>1. CASE conf.heap
    BY <1>2, <1>3, <2>1 DEF Sorted
  <2>2. CASE ~conf.heap
    <3>1. items' = Tail(items) /\ items \in Seq(Entry) /\ Len(items) \in Nat /\ Len(items) >= 1
      BY <1>2, <2>2
    <3>2. ASSUME NEW i \in DOMAIN items', NEW k \in DOMAIN items', i < k
          PROVE  items'[i].index < items'[k].index
      <4>1. DOMAIN items' = 1 .. Len(items) - 1 /\ DOMAIN items = 1 .. Len(items)
        BY <3>1
      <4>2. /\ i + 1 \in DOMAIN items /\ k + 1 \in DOMAIN items /\ i + 1 < k + 1
            /\ items'[i] = items[i + 1] /\ items'[k] = items[k + 1]
        BY <3>1, <3>2, <4>1
      <4> QED BY <1>1, <2>2, <4>2 DEF Sorted, Positions
    <3> QED BY <1>3, <2>2, <3>2 DEF Sorted, Positions
  <2> QED BY <2>1, <2>2
<1>13. Hands'
  <2>1. \A u \in Takers : hand[u] # None =>
          /\ hand[u].job \in Jobs /\ hand[u].job # c /\ phase[hand[u].job] = "dequeued"
          /\ hand[u].id \in Ids /\ ~conf.heap
    BY <1>1, <1>5, ItemsTyped DEF Hands
  <2>2. CASE hand' = hand
    BY <1>1, <1>3, <1>6, <2>1, <2>2 DEF Hands
  <2>3. CASE /\ hand' = [hand EXCEPT ![t] = items[1]] /\ phase' = [phase EXCEPT ![c] = "dequeued"]
             /\ ~conf.heap /\ items[1].id # None
    <3>1. /\ hand'[t] = items[1] /\ phase'[c] = "dequeued" /\ items[1].id \in Ids
          /\ \A u \in Takers : u # t => hand'[u] = hand[u]
      BY <1>1, <1>5, <2>3 DEF TypeOK
    <3>2. items[1].job = c
      BY DEF c
    <3> QED BY <1>1, <1>3, <1>6, <2>1, <2>3, <3>1, <3>2 DEF Hands
  <2> QED BY <1>4, <2>2, <2>3
<1> QED BY <1>11, <1>12, <1>13

LEMMA FreeingItems ==
    ASSUME IInv, NEW t \in Takers, FreeId(t)
    PROVE  Stored' /\ Sorted' /\ Hands'
<1> USE DEF store, idset, adders, groups, purge
<1> DEFINE c == hand[t].job
<1>1. TypeOK /\ Stored /\ Sorted /\ Hands /\ phase \in [Jobs -> Phases]
      /\ hand \in [Takers -> Entry \cup {None}]
  BY TypeSplit DEF IInv, TypeSets
<1>2. /\ UNCHANGED <<conf, items, count, idsOn>> /\ hand[t] # None
      /\ hand' = [hand EXCEPT ![t] = None] /\ phase' = [phase EXCEPT ![c] = "taken"]
  BY DEF FreeId
<1>3. c \in Jobs /\ phase[c] = "dequeued"
  BY <1>1, <1>2, ItemsTyped DEF Hands
<1>4. \A u \in Takers : u # t /\ hand[u] # None => hand[u].job \in Jobs /\ hand[u].job # c
  BY <1>1, <1>2, ItemsTyped DEF Hands
<1> HIDE DEF c
<1>5. \A j \in Jobs : j # c => phase'[j] = phase[j]
  BY <1>1, <1>2
<1>6. \A i \in Positions : items[i].job \in Jobs /\ items[i].job # c
  BY <1>1, <1>3, ItemsTyped DEF Stored
<1>7. Positions' = Positions
  BY <1>2 DEF Positions
<1>8. Stored'
  BY <1>1, <1>2, <1>5, <1>6, <1>7 DEF Stored
<1>9. Sorted'
  BY <1>1, <1>2, <1>7 DEF Sorted
<1>10. hand'[t] = None /\ \A u \in Takers : u # t => hand'[u] = hand[u]
  BY <1>1, <1>2
<1>11. Hands'
  BY <1>1, <1>2, <1>4, <1>5, <1>10 DEF Hands
<1> QED BY <1>8, <1>9, <1>11

LEMMA PurgingItems ==
    ASSUME IInv, PurgeTake
    PROVE  Stored' /\ Sorted' /\ Hands'
<1> USE DEF adders, groups
<1>1. TypeOK /\ Hands /\ phase \in [Jobs -> Phases]
  BY TypeSplit DEF IInv, TypeSets
<1>2. /\ items' = <<>> /\ conf' = conf /\ hand' = hand
      /\ phase' = [j \in Jobs |-> IF phase[j] = "stored" THEN "removed" ELSE phase[j]]
  BY DEF PurgeTake
<1>3. DOMAIN items' = {} /\ Len(items') = 0
  BY <1>2
<1>4. Stored'
  BY <1>3 DEF Stored, Positions
<1>5. Sorted'
  BY <1>3 DEF Sorted, Positions, H!HeapOrdered
<1>6. \A t \in Takers : hand[t] # None => hand[t].job \in Jobs
  BY <1>1, ItemsTyped
<1>7. Hands'
  BY <1>1, <1>2, <1>6 DEF Hands
<1> QED BY <1>4, <1>5, <1>7

\* The steps that store.
LEMMA StoringSteps ==
    ASSUME IInv, NEW p \in Producers
    PROVE  /\ \A n \in Prios : Enqueue(p, n) =>
                (~(closed \/ Full) => Storing(p, None, n) /\ Item(p, at[p] + 1) /\ ids' = ids)
           /\ \A n \in Prios, x \in Ids : EnqueueOnceHeap(p, x, n) =>
                (~(closed \/ Full \/ x \in ids) =>
                   Storing(p, x, n) /\ Item(p, at[p] + 1) /\ ids' = ids \cup {x} /\ conf.heap)
           /\ EnqueueOnceAppend(p) =>
                (~(closed \/ Full) => Storing(p, id[p], 0) /\ pc[p] = "append"
                   /\ pc' = [pc EXCEPT ![p] = "unlock"] /\ id' = id /\ ids' = ids)
<1> USE DEF idset, adders, groups, purge
<1>1. ASSUME NEW n \in Prios, Enqueue(p, n), ~(closed \/ Full)
      PROVE  Storing(p, None, n) /\ Item(p, at[p] + 1) /\ ids' = ids
  <2>1. n \in Nat /\ (~conf.heap => n = 0)
    BY PriosNat DEF Prios
  <2> QED BY <1>1, <2>1 DEF Enqueue, At, Storing
<1>2. ASSUME NEW n \in Prios, NEW x \in Ids, EnqueueOnceHeap(p, x, n),
             ~(closed \/ Full \/ x \in ids)
      PROVE  Storing(p, x, n) /\ Item(p, at[p] + 1) /\ ids' = ids \cup {x} /\ conf.heap
  <2>1. n \in Nat
    BY PriosNat
  <2> QED BY <1>2, <2>1 DEF EnqueueOnceHeap, At, Storing
<1>3. ASSUME EnqueueOnceAppend(p), ~(closed \/ Full)
      PROVE  Storing(p, id[p], 0) /\ pc[p] = "append" /\ pc' = [pc EXCEPT ![p] = "unlock"]
             /\ id' = id /\ ids' = ids
  <2>1. pc[p] = "append" /\ id[p] \in Ids /\ idsOn
    BY <1>3, AdderThere DEF EnqueueOnceAppend, At
  <2> QED BY <1>3, <2>1 DEF EnqueueOnceAppend, At, Storing
<1> QED BY <1>1, <1>2, <1>3

\* The steps that refuse an item.
LEMMA RefusingQuiet ==
    ASSUME IInv, NEW p \in Producers, pc[p] \in {"add", "lock", "append"}, Refuse(p),
           UNCHANGED <<conf, items, count, hand, idsOn>>
    PROVE  Quiet
<1>1. /\ Current(p) \in Jobs /\ phase[Current(p)] = "new"
      /\ phase' = [phase EXCEPT ![Current(p)] = "closing"]
  BY AdderThere DEF Refuse
<1>2. "closing" \in Phases
  BY DEF Phases
<1> QED BY <1>1, <1>2 DEF Quiet

LEMMA ItemsKept ==
    ASSUME IInv, [Next]_vars
    PROVE  Stored' /\ Sorted' /\ Hands'
<1> USE DEF store, idset, adders, groups, purge
<1> DEFINE Goal == Stored' /\ Sorted' /\ Hands'
<1>q. Quiet => Goal
  BY QuietItems
<1>s. \A p \in Producers : \A x, n : Storing(p, x, n) => Goal
  BY StoringItems
<1> HIDE DEF Goal
<1>1. ASSUME NEW p \in Producers, AddAll(p) PROVE Goal
  BY <1>1, <1>q DEF AddAll, Quiet
<1>2. ASSUME NEW p \in Producers, Refused(p) PROVE Goal
  BY <1>2, <1>q DEF Refused, Quiet
<1>3. ASSUME NEW p \in Producers, EnqueueOnceLock(p) PROVE Goal
  <2>1. CASE id[p] \in ids
    BY <1>3, <1>q, <2>1, RefusingQuiet DEF EnqueueOnceLock, At
  <2>2. CASE id[p] \notin ids
    BY <1>3, <1>q, <2>2 DEF EnqueueOnceLock, Quiet
  <2> QED BY <2>1, <2>2
<1>4. ASSUME NEW p \in Producers, EnqueueOnceAppend(p) PROVE Goal
  <2>1. CASE closed \/ Full
    BY <1>4, <1>q, <2>1, RefusingQuiet DEF EnqueueOnceAppend, At
  <2>2. CASE ~(closed \/ Full)
    BY <1>4, <1>s, <2>2, StoringSteps
  <2> QED BY <2>1, <2>2
<1>5. ASSUME NEW p \in Producers, EnqueueOnceUnlock(p) PROVE Goal
  BY <1>5, <1>q DEF EnqueueOnceUnlock, Quiet
<1>6. ASSUME NEW p \in Producers, NEW x \in Ids, EnqueueOnceOn(p, x) PROVE Goal
  BY <1>6, <1>q DEF EnqueueOnceOn, Quiet
<1>7. ASSUME NEW p \in Producers, NEW n \in Prios, Enqueue(p, n) PROVE Goal
  <2>1. CASE closed \/ Full
    BY <1>7, <1>q, <2>1, RefusingQuiet DEF Enqueue, At
  <2>2. CASE ~(closed \/ Full)
    BY <1>7, <1>s, <2>2, StoringSteps
  <2> QED BY <2>1, <2>2
<1>8. ASSUME NEW p \in Producers, NEW x \in Ids, NEW n \in Prios, EnqueueOnceHeap(p, x, n)
      PROVE  Goal
  <2>1. CASE closed \/ Full \/ x \in ids
    BY <1>8, <1>q, <2>1, RefusingQuiet DEF EnqueueOnceHeap, At
  <2>2. CASE ~(closed \/ Full \/ x \in ids)
    BY <1>8, <1>s, <2>2, StoringSteps
  <2> QED BY <2>1, <2>2
<1>9. ASSUME NEW t \in Takers, Dequeue(t) PROVE Goal
  BY <1>9, TakingItems DEF Goal
<1>10. ASSUME NEW t \in Takers, FreeId(t) PROVE Goal
  BY <1>10, FreeingItems DEF Goal
<1>11. ASSUME NEW j \in Jobs, CloseStale(j) PROVE Goal
  BY <1>11, <1>q DEF CloseStale, Quiet, Phases
<1>12. ASSUME NEW j \in Jobs, Run(j) PROVE Goal
  BY <1>12, <1>q DEF Run, Quiet, Phases
<1>13. ASSUME NEW j \in Jobs, Done(j) PROVE Goal
  BY <1>13, <1>q DEF Done, Quiet, Phases
<1>14. ASSUME NEW j \in Jobs, CloseResponse(j) PROVE Goal
  BY <1>14, <1>q DEF CloseResponse, Quiet, Phases
<1>15. ASSUME PurgeBump PROVE Goal
  BY <1>15, <1>q DEF PurgeBump, Quiet
<1>16. ASSUME PurgeLock PROVE Goal
  BY <1>16, <1>q DEF PurgeLock, Quiet
<1>17. ASSUME PurgeTake PROVE Goal
  BY <1>17, PurgingItems DEF Goal
<1>18. ASSUME PurgeReset PROVE Goal
  BY <1>18, <1>q DEF PurgeReset, Quiet
<1>19. ASSUME PurgeClose PROVE Goal
  <2>1. Head(removed) \in Jobs /\ "closing" \in Phases
    BY <1>19 DEF PurgeClose, Phases, IInv, TypeOK
  <2> QED BY <1>19, <1>q, <2>1 DEF PurgeClose, Quiet
<1>20. ASSUME PurgeEnd PROVE Goal
  BY <1>20, <1>q DEF PurgeEnd, Quiet
<1>21. ASSUME Close PROVE Goal
  BY <1>21, <1>q DEF Close, Quiet
<1>22. ASSUME UNCHANGED vars PROVE Goal
  BY <1>22, <1>q DEF vars, Quiet
<1>23. Goal
  BY <1>1, <1>2, <1>3, <1>4, <1>5, <1>6, <1>7, <1>8, <1>9, <1>10, <1>11, <1>12, <1>13, <1>14,
     <1>15, <1>16, <1>17, <1>18, <1>19, <1>20, <1>21, <1>22
     DEF Next, AddStep, JobStep, PurgeStep, Prios
<1> QED BY <1>23 DEF Goal

(***************************************************************************)
(* The id set and the shards' locks: Purging, Holders, NoLeak              *)
(***************************************************************************)
\* Neither ids nor their holders change.
Calm ==
    /\ UNCHANGED <<conf, items, ids, hand, raced>>
    /\ \A p \in Producers : /\ pc'[p] = "append" <=> pc[p] = "append"
                            /\ pc[p] = "append" => id'[p] = id[p]

LEMMA CalmIds ==
    ASSUME IInv, Calm, ppc = "reset" => ppc' = "reset" /\ turn' = turn
    PROVE  Holders' /\ NoLeak'
<1>1. Holders /\ NoLeak /\ Positions' = Positions /\ UNCHANGED <<items, ids, hand, raced>>
  BY DEF IInv, Calm, Positions
<1>2. \A p \in Producers : /\ pc'[p] = "append" <=> pc[p] = "append"
                           /\ pc[p] = "append" => id'[p] = id[p]
  BY DEF Calm
<1>3. Holders'
  BY <1>1, <1>2 DEF Holders, At
<1>4. NoLeak'
  <2> SUFFICES ASSUME NEW x \in ids
               PROVE  \/ \E i \in Positions : items[i].id = x
                      \/ \E p \in Producers : pc'[p] = "append" /\ id'[p] = x
                      \/ \E t \in Takers : hand[t] # None /\ hand[t].id = x
                      \/ ppc' = "reset" /\ Shard[x] >= turn'
    BY <1>1 DEF NoLeak, At
  <2> QED BY <1>1, <1>2 DEF NoLeak, At
<1> QED BY <1>3, <1>4

\* The Purge is left where it is, with its locks.
LEMMA CalmPurge ==
    ASSUME IInv, UNCHANGED <<conf, ppc, turn, raced>>,
           \A k \in 1 .. NumShards : lock[k] = "purge" => lock'[k] = "purge",
           ppc = "reset" =>
             /\ \A i \in Positions' : items'[i].id # None => Shard[items'[i].id] < turn
             /\ ~raced => \A t \in Takers : hand'[t] # None => Shard[hand'[t].id] < turn
    PROVE  Purging'
  BY DEF IInv, Purging

\* The same, of a step that stores and takes nothing.
LEMMA CalmPurge2 ==
    ASSUME IInv, UNCHANGED <<conf, items, hand, ppc, turn, raced>>,
           \A k \in 1 .. NumShards : lock[k] = "purge" => lock'[k] = "purge"
    PROVE  Purging'
<1>1. Purging /\ Positions' = Positions
  BY DEF IInv, Positions
<1>2. ppc = "reset" =>
        /\ \A i \in Positions' : items'[i].id # None => Shard[items'[i].id] < turn
        /\ ~raced => \A t \in Takers : hand'[t] # None => Shard[hand'[t].id] < turn
  BY <1>1 DEF Purging
<1> QED BY <1>2, CalmPurge

\* An AddAll takes a lock that is free and gives back its own.
LEMMA PurgeLocksKept ==
    ASSUME IInv, NEW p \in Producers, pc[p] \in {"lock", "append", "unlock"},
           \/ lock' = lock
           \/ lock[Shard[id[p]]] = None /\ lock' = [lock EXCEPT ![Shard[id[p]]] = p]
           \/ pc[p] # "lock" /\ lock' = [lock EXCEPT ![Shard[id[p]]] = None]
    PROVE  \A k \in 1 .. NumShards : lock[k] = "purge" => lock'[k] = "purge"
<1>1. lock[Shard[id[p]]] # "purge" \/ lock' = lock
  BY LocksApart, GroupAssumption
<1>2. lock \in [1 .. NumShards -> Producers \cup {"purge", None}]
  BY DEF IInv, TypeOK
<1> QED BY <1>1, <1>2

\* Storing an item: its id, if any, is one nobody else holds.
LEMMA StoringIds ==
    ASSUME IInv, NEW p \in Producers, NEW x, NEW n, Storing(p, x, n),
           ~conf.heap => ids' = ids, conf.heap /\ x = None => ids' = ids,
           conf.heap /\ x # None => x \notin ids /\ ids' = ids \cup {x},
           \A q \in Producers : q # p => pc'[q] = pc[q] /\ id'[q] = id[q],
           pc'[p] # "append", pc[p] = "append" => x = id[p]
    PROVE  Purging' /\ Holders' /\ NoLeak'
<1>1. TypeOK /\ Purging /\ Holders /\ NoLeak /\ Hands
  BY DEF IInv
<1>2. PICK e \in Entry : Adds(items, items', e) /\ e.id = x
  BY StoringItems
<1>3. /\ UNCHANGED <<conf, hand, lock, ppc, turn, raced>> /\ pc[p] \in {"add", "append"}
      /\ x \in Ids \cup {None}
      /\ ~conf.heap /\ x # None => pc[p] = "append" /\ x = id[p]
  BY DEF Storing
<1>4. /\ \A i \in Positions' : items'[i].id = x \/ \E k \in Positions : items'[i] = items[k]
      /\ \A i, k \in Positions' : i # k =>
           \/ items'[i].id = x /\ \E l \in Positions : items'[k] = items[l]
           \/ items'[k].id = x /\ \E m \in Positions : items'[i] = items[m]
           \/ \E m, l \in Positions : m # l /\ items'[i] = items[m] /\ items'[k] = items[l]
      /\ \E i \in Positions' : items'[i].id = x
      /\ \A k \in Positions : \E i \in Positions' : items'[i] = items[k]
  BY <1>2 DEF Adds, Positions
\* The lock of the id keeps the Purge and the others away.
<1>5. pc[p] = "append" => /\ id[p] \in Ids /\ ~conf.heap /\ lock[Shard[id[p]]] = p /\ p # "purge"
                          /\ id[p] \in ids /\ Shard[id[p]] \in 1 .. NumShards
  BY LocksApart, AdderThere DEF IInv, Adders, AdderAt
<1>6. \A q \in Producers : q # p /\ pc[q] = "append" =>
        ~conf.heap /\ id[q] \in Ids /\ (pc[p] = "append" => id[q] # id[p])
  BY LocksApart, AdderThere
<1>7. \A q \in Producers : pc'[q] = "append" => q # p /\ pc[q] = "append" /\ id'[q] = id[q]
  OBVIOUS
<1>8. x # None /\ ~conf.heap => x = id[p] /\ pc[p] = "append"
  BY <1>3
<1>9. None \notin Ids
  BY GroupAssumption
<1>10. Purging'
  <2>1. ASSUME ppc = "reset", NEW i \in Positions', items'[i].id # None
        PROVE  Shard[items'[i].id] < turn
    <3>1. ~conf.heap
      BY <1>1, <2>1 DEF Purging
    <3>2. CASE items'[i].id = x
      <4>1. pc[p] = "append" /\ x = id[p]
        BY <1>8, <2>1, <3>1, <3>2
      <4>2. lock[Shard[x]] # "purge" /\ Shard[x] \in 1 .. NumShards
        BY <1>5, <4>1
      <4>3. ~(Shard[x] >= turn)
        BY <1>1, <2>1, <4>2 DEF Purging
      <4>4. Shard[x] \in Nat /\ turn \in Nat
        BY <1>1, <4>2 DEF TypeOK
      <4> QED BY <3>2, <4>3, <4>4
    <3>3. ASSUME NEW k \in Positions, items'[i] = items[k] PROVE Shard[items'[i].id] < turn
      BY <1>1, <2>1, <3>3 DEF Purging
    <3> QED BY <1>4, <3>2, <3>3
  <2>2. ppc = "reset" /\ ~raced => \A t \in Takers : hand'[t] # None => Shard[hand'[t].id] < turn
    BY <1>1, <1>3 DEF Purging
  <2> QED BY <1>3, <2>1, <2>2, CalmPurge
<1>11. Holders'
  <2> SUFFICES ASSUME ~raced PROVE Holders'
    BY <1>3 DEF Holders
  <2>1. /\ \A i \in Positions : items[i].id # None => items[i].id \in ids
        /\ \A t \in Takers : hand[t] # None => hand[t].id \in ids
        /\ \A i, k \in Positions : i # k /\ items[i].id = items[k].id => items[i].id = None
        /\ \A i \in Positions, t \in Takers : hand[t] # None => items[i].id # hand[t].id
        /\ \A i \in Positions, q \in Producers : pc[q] = "append" => items[i].id # id[q]
        /\ \A t, u \in Takers : t # u /\ hand[t] # None /\ hand[u] # None => hand[t].id # hand[u].id
        /\ \A t \in Takers, q \in Producers : hand[t] # None /\ pc[q] = "append" => hand[t].id # id[q]
    BY <1>1 DEF Holders, At
  <2>2. \A t \in Takers : hand[t] # None => ~conf.heap /\ hand[t].id \in Ids
    BY <1>1 DEF Hands
  <2>3. \A y \in ids : y \in ids'
    BY <1>3
  <2>4. x # None => x \in ids'
    BY <1>5, <1>8
  <2>5. \A k \in Positions : x # None => items[k].id # x
    <3>1. CASE conf.heap
      BY <2>1, <3>1
    <3>2. CASE ~conf.heap
      BY <1>8, <2>1, <3>2
    <3> QED BY <3>1, <3>2
  <2>6. \A i \in Positions' : items'[i].id # None => items'[i].id \in ids'
    BY <1>4, <2>1, <2>3, <2>4
  <2>7. \A t \in Takers : hand'[t] # None => hand'[t].id \in ids'
    BY <1>3, <2>1, <2>3
  <2>8. \A i, k \in Positions' : i # k /\ items'[i].id = items'[k].id => items'[i].id = None
    BY <1>4, <2>1, <2>5
  <2>9. \A t \in Takers : hand[t] # None => x # hand[t].id
    BY <1>8, <1>9, <2>1, <2>2
  <2>10. \A i \in Positions', t \in Takers : hand'[t] # None => items'[i].id # hand'[t].id
    BY <1>3, <1>4, <2>1, <2>9
  <2>11. \A q \in Producers : pc'[q] = "append" => x # id'[q]
    BY <1>6, <1>7, <1>8, <1>9
  <2>12. \A i \in Positions', q \in Producers : pc'[q] = "append" => items'[i].id # id'[q]
    BY <1>4, <1>7, <2>1, <2>11
  <2>13. \A t \in Takers, q \in Producers : hand'[t] # None /\ pc'[q] = "append" => hand'[t].id # id'[q]
    BY <1>3, <1>7, <2>1
  <2>14. \A t, u \in Takers : t # u /\ hand'[t] # None /\ hand'[u] # None => hand'[t].id # hand'[u].id
    BY <1>3, <2>1
  <2> QED BY <2>6, <2>7, <2>8, <2>10, <2>12, <2>13, <2>14 DEF Holders, At
<1>12. NoLeak'
  <2> SUFFICES ASSUME NEW y \in ids'
               PROVE  \/ \E i \in Positions' : items'[i].id = y
                      \/ \E q \in Producers : pc'[q] = "append" /\ id'[q] = y
                      \/ \E t \in Takers : hand'[t] # None /\ hand'[t].id = y
                      \/ ppc' = "reset" /\ Shard[y] >= turn'
    BY DEF NoLeak, At
  <2>1. CASE y = x
    BY <1>4, <2>1
  <2>2. CASE y # x
    <3>1. y \in ids
      BY <1>3, <2>2
    <3>2. \/ \E i \in Positions : items[i].id = y
          \/ \E q \in Producers : pc[q] = "append" /\ id[q] = y
          \/ \E t \in Takers : hand[t] # None /\ hand[t].id = y
          \/ ppc = "reset" /\ Shard[y] >= turn
      BY <1>1, <3>1 DEF NoLeak, At
    <3>3. ASSUME NEW q \in Producers, pc[q] = "append", id[q] = y
          PROVE  pc'[q] = "append" /\ id'[q] = y
      <4>1. q # p
        BY <2>2, <3>3
      <4> QED BY <3>3, <4>1
    <3> QED BY <1>3, <1>4, <3>2, <3>3
  <2> QED BY <2>1, <2>2
<1> QED BY <1>10, <1>11, <1>12

\* A Dequeue of the heap frees the id; of the FIFO, it has the id in its hand.
LEMMA TakingIds ==
    ASSUME IInv, NEW t \in Takers, Dequeue(t)
    PROVE  Purging' /\ Holders' /\ NoLeak'
<1> USE DEF idset, adders, groups, purge
<1>1. TypeOK /\ Purging /\ Holders /\ NoLeak /\ Hands /\ Stored
  BY DEF IInv
<1>2. /\ 1 \in Positions /\ Head(items) = items[1] /\ items[1] \in Entry /\ Takes(items, items')
  BY <1>1, TakeEffect DEF IInv, Positions
<1>3. /\ UNCHANGED <<conf, pc, id, idsOn, lock, ppc, turn, raced>> /\ hand[t] = None
      /\ ids' = IF conf.heap THEN ids \ {items[1].id} ELSE ids
      /\ IF ~conf.heap /\ idsOn /\ items[1].id # None
           THEN hand' = [hand EXCEPT ![t] = items[1]] ELSE hand' = hand
  BY <1>2 DEF Dequeue
<1>4. items[1].id \in Ids \cup {None} /\ items[1] # None /\ hand \in [Takers -> Entry \cup {None}]
      /\ None \notin Ids
  BY <1>1, <1>2, ItemsTyped, GroupAssumption DEF TypeOK
<1>5. /\ \A i \in Positions' : \E k \in Positions : k # 1 /\ items'[i] = items[k]
      /\ \A i, k \in Positions' : i # k =>
           \E m, l \in Positions : m # l /\ m # 1 /\ l # 1 /\ items'[i] = items[m] /\ items'[k] = items[l]
      /\ \A k \in Positions : k # 1 => \E i \in Positions' : items'[i] = items[k]
  BY <1>2 DEF Takes, Positions
<1>6. \A u \in Takers : \/ hand'[u] = hand[u]
                        \/ u = t /\ hand'[u] = items[1] /\ items[1].id # None /\ ~conf.heap
  BY <1>3, <1>4
<1>7. \A u \in Takers : hand[u] # None => ~conf.heap /\ hand'[u] = hand[u]
  BY <1>1, <1>3, <1>6 DEF Hands
<1>8. Purging'
  <2>1. ASSUME ppc = "reset", NEW i \in Positions', items'[i].id # None
        PROVE  Shard[items'[i].id] < turn
    BY <1>1, <1>5, <2>1 DEF Purging
  <2>2. ASSUME ppc = "reset", ~raced, NEW u \in Takers, hand'[u] # None
        PROVE  Shard[hand'[u].id] < turn
    BY <1>1, <1>2, <1>6, <2>2 DEF Purging
  <2> QED BY <1>3, <2>1, <2>2, CalmPurge
<1>9. Holders'
  <2> SUFFICES ASSUME ~raced PROVE Holders'
    BY <1>3 DEF Holders
  <2>1. /\ \A i \in Positions : items[i].id # None => items[i].id \in ids
        /\ \A u \in Takers : hand[u] # None => hand[u].id \in ids
        /\ \A i, k \in Positions : i # k /\ items[i].id = items[k].id => items[i].id = None
        /\ \A i \in Positions, u \in Takers : hand[u] # None => items[i].id # hand[u].id
        /\ \A i \in Positions, q \in Producers : pc[q] = "append" => items[i].id # id[q]
        /\ \A v, u \in Takers : v # u /\ hand[v] # None /\ hand[u] # None => hand[v].id # hand[u].id
        /\ \A u \in Takers, q \in Producers : hand[u] # None /\ pc[q] = "append" => hand[u].id # id[q]
    BY <1>1 DEF Holders, At
  <2>2. \A i \in Positions' : items'[i].id # None => items'[i].id \in ids'
    <3> SUFFICES ASSUME NEW i \in Positions', items'[i].id # None PROVE items'[i].id \in ids'
      OBVIOUS
    <3>1. PICK k \in Positions : k # 1 /\ items'[i] = items[k]
      BY <1>5
    <3>2. items[k].id \in ids /\ items[k].id # items[1].id
      BY <1>2, <2>1, <3>1
    <3> QED BY <1>3, <3>1, <3>2
  <2>3. \A u \in Takers : hand'[u] # None => hand'[u].id \in ids'
    BY <1>2, <1>3, <1>6, <1>7, <2>1
  <2>4. \A i, k \in Positions' : i # k /\ items'[i].id = items'[k].id => items'[i].id = None
    <3> SUFFICES ASSUME NEW i \in Positions', NEW k \in Positions', i # k, items'[i].id = items'[k].id
                 PROVE  items'[i].id = None
      OBVIOUS
    <3>1. PICK m \in Positions : \E l \in Positions :
            m # l /\ items'[i] = items[m] /\ items'[k] = items[l]
      BY <1>5
    <3> QED BY <2>1, <3>1
  <2>5. \A i \in Positions', u \in Takers : hand'[u] # None => items'[i].id # hand'[u].id
    <3> SUFFICES ASSUME NEW i \in Positions', NEW u \in Takers, hand'[u] # None
                 PROVE  items'[i].id # hand'[u].id
      OBVIOUS
    <3>1. PICK k \in Positions : k # 1 /\ items'[i] = items[k]
      BY <1>5
    <3> QED BY <1>2, <1>6, <2>1, <3>1
  <2>6. \A i \in Positions', q \in Producers : pc[q] = "append" => items'[i].id # id[q]
    BY <1>5, <2>1
  <2>7. \A v, u \in Takers : v # u /\ hand'[v] # None /\ hand'[u] # None => hand'[v].id # hand'[u].id
    <3> SUFFICES ASSUME NEW v \in Takers, NEW u \in Takers, v # u, hand'[v] # None, hand'[u] # None
                 PROVE  hand'[v].id # hand'[u].id
      OBVIOUS
    <3> QED BY <1>2, <1>6, <2>1
  <2>8. \A u \in Takers, q \in Producers : hand'[u] # None /\ pc[q] = "append" => hand'[u].id # id[q]
    BY <1>2, <1>6, <2>1
  <2> QED BY <1>3, <2>2, <2>3, <2>4, <2>5, <2>6, <2>7, <2>8 DEF Holders, At
<1>10. NoLeak'
  <2> SUFFICES ASSUME NEW y \in ids'
               PROVE  \/ \E i \in Positions' : items'[i].id = y
                      \/ \E q \in Producers : pc'[q] = "append" /\ id'[q] = y
                      \/ \E u \in Takers : hand'[u] # None /\ hand'[u].id = y
                      \/ ppc' = "reset" /\ Shard[y] >= turn'
    BY DEF NoLeak, At
  <2>1. y \in ids /\ (conf.heap => y # items[1].id) /\ y # None
    BY <1>1, <1>3, <1>4 DEF TypeOK
  <2>2. \/ \E i \in Positions : items[i].id = y
        \/ \E q \in Producers : pc[q] = "append" /\ id[q] = y
        \/ \E u \in Takers : hand[u] # None /\ hand[u].id = y
        \/ ppc = "reset" /\ Shard[y] >= turn
    BY <1>1, <2>1 DEF NoLeak, At
  <2>3. CASE items[1].id = y
    <3>1. ~conf.heap /\ idsOn /\ items[1].id # None
      BY <1>1, <1>2, <2>1, <2>3 DEF Stored
    <3>2. hand'[t] = items[1]
      BY <1>3, <1>4, <3>1
    <3> QED BY <1>4, <2>3, <3>2
  <2>4. ASSUME NEW i \in Positions, items[i].id = y, i # 1 PROVE \E k \in Positions' : items'[k].id = y
    BY <1>5, <2>4
  <2>5. ASSUME NEW u \in Takers, hand[u] # None, hand[u].id = y
        PROVE  hand'[u] # None /\ hand'[u].id = y
    BY <1>7, <2>5
  <2> QED BY <1>3, <2>2, <2>3, <2>4, <2>5
<1> QED BY <1>8, <1>9, <1>10

\* The second half of the FIFO's Dequeue.
LEMMA FreeingIds ==
    ASSUME IInv, NEW t \in Takers, FreeId(t)
    PROVE  Purging' /\ Holders' /\ NoLeak'
<1> USE DEF store, idset, adders, groups, purge
<1>1. TypeOK /\ Purging /\ Holders /\ NoLeak /\ Hands
  BY DEF IInv
<1>2. /\ UNCHANGED <<conf, items, pc, id, idsOn, lock, ppc, turn, raced>> /\ hand[t] # None
      /\ ids' = ids \ {hand[t].id} /\ hand' = [hand EXCEPT ![t] = None] /\ Positions' = Positions
  BY DEF FreeId, Positions
<1>3. hand'[t] = None /\ \A u \in Takers : u # t => hand'[u] = hand[u]
  BY <1>1, <1>2 DEF TypeOK
<1>4. \A u \in Takers : hand'[u] # None => u # t /\ hand'[u] = hand[u]
  BY <1>3
<1>5. Purging'
  <2>1. ppc = "reset" =>
          /\ \A i \in Positions' : items'[i].id # None => Shard[items'[i].id] < turn
          /\ ~raced => \A u \in Takers : hand'[u] # None => Shard[hand'[u].id] < turn
    BY <1>1, <1>2, <1>4 DEF Purging
  <2> QED BY <1>2, <2>1, CalmPurge
<1>6. Holders'
  BY <1>1, <1>2, <1>4 DEF Holders, At
<1>7. NoLeak'
  <2> SUFFICES ASSUME NEW y \in ids, y # hand[t].id
               PROVE  \/ \E i \in Positions : items[i].id = y
                      \/ \E q \in Producers : pc[q] = "append" /\ id[q] = y
                      \/ \E u \in Takers : hand'[u] # None /\ hand'[u].id = y
                      \/ ppc = "reset" /\ Shard[y] >= turn
    BY <1>2 DEF NoLeak, At
  <2>1. ASSUME NEW u \in Takers, hand[u] # None, hand[u].id = y
        PROVE  hand'[u] # None /\ hand'[u].id = y
    BY <1>3, <2>1
  <2> QED BY <1>1, <2>1 DEF NoLeak, At
<1> QED BY <1>5, <1>6, <1>7

\* EnqueueOnce puts the id in: it was not there, so nobody holds it.
LEMMA LockingIds ==
    ASSUME IInv, NEW p \in Producers, EnqueueOnceLock(p), id[p] \notin ids
    PROVE  Purging' /\ Holders' /\ NoLeak'
<1> USE DEF store, idset, groups, purge
<1>1. TypeOK /\ Purging /\ Holders /\ NoLeak /\ Hands
  BY DEF IInv
<1>2. /\ UNCHANGED <<conf, items, hand, id, ppc, turn, raced>> /\ Positions' = Positions
      /\ pc[p] = "lock" /\ lock[Shard[id[p]]] = None /\ ids' = ids \cup {id[p]}
      /\ lock' = [lock EXCEPT ![Shard[id[p]]] = p] /\ pc' = [pc EXCEPT ![p] = "append"]
  BY DEF EnqueueOnceLock, At, Positions
<1>3. id[p] \in Ids /\ None \notin Ids
  BY <1>2, AdderThere, GroupAssumption
<1>4. pc'[p] = "append" /\ \A q \in Producers : q # p => pc'[q] = pc[q]
  BY <1>1, <1>2 DEF TypeOK
<1>5. Purging'
  BY <1>2, PurgeLocksKept, CalmPurge2
<1>6. Holders'
  <2> SUFFICES ASSUME ~raced PROVE Holders'
    BY <1>2 DEF Holders
  <2>1. /\ \A i \in Positions : items[i].id # id[p]
        /\ \A u \in Takers : hand[u] # None => hand[u].id # id[p]
    BY <1>1, <1>3 DEF Holders
  <2>2. /\ \A i \in Positions, q \in Producers : pc'[q] = "append" => items[i].id # id[q]
        /\ \A u \in Takers, q \in Producers : hand[u] # None /\ pc'[q] = "append" => hand[u].id # id[q]
    BY <1>1, <1>4, <2>1 DEF Holders, At
  <2>3. /\ \A i \in Positions : items[i].id # None => items[i].id \in ids'
        /\ \A u \in Takers : hand[u] # None => hand[u].id \in ids'
    BY <1>1, <1>2 DEF Holders
  <2> QED BY <1>1, <1>2, <2>2, <2>3 DEF Holders, At
<1>7. NoLeak'
  <2> SUFFICES ASSUME NEW y \in ids'
               PROVE  \/ \E i \in Positions : items[i].id = y
                      \/ \E q \in Producers : pc'[q] = "append" /\ id[q] = y
                      \/ \E u \in Takers : hand[u] # None /\ hand[u].id = y
                      \/ ppc = "reset" /\ Shard[y] >= turn
    BY <1>2 DEF NoLeak, At
  <2>1. CASE y = id[p]
    BY <1>4, <2>1
  <2>2. CASE y # id[p]
    BY <1>1, <1>2, <1>4, <2>2 DEF NoLeak, At
  <2> QED BY <2>1, <2>2
<1> QED BY <1>5, <1>6, <1>7

\* ... and takes it out again when the Append is refused.
LEMMA RefusingIds ==
    ASSUME IInv, NEW p \in Producers, EnqueueOnceAppend(p), closed \/ Full
    PROVE  Purging' /\ Holders' /\ NoLeak'
<1> USE DEF store, idset, groups, purge
<1>1. TypeOK /\ Purging /\ Holders /\ NoLeak /\ Hands
  BY DEF IInv
<1>2. /\ UNCHANGED <<conf, items, hand, ppc, turn, raced>> /\ Positions' = Positions
      /\ pc[p] = "append" /\ ids' = ids \ {id[p]}
      /\ lock' = [lock EXCEPT ![Shard[id[p]]] = None] /\ pc' = [pc EXCEPT ![p] = "refused"]
      /\ id' = [id EXCEPT ![p] = None]
  BY DEF EnqueueOnceAppend, Refuse, At, Positions
<1>3. pc'[p] = "refused" /\ \A q \in Producers : q # p => pc'[q] = pc[q] /\ id'[q] = id[q]
  BY <1>1, <1>2 DEF TypeOK
<1>4. \A q \in Producers : pc'[q] = "append" => q # p /\ pc[q] = "append" /\ id'[q] = id[q]
  BY <1>3
<1>5. Purging'
  BY <1>2, PurgeLocksKept, CalmPurge2
<1>6. Holders'
  <2> SUFFICES ASSUME ~raced PROVE Holders'
    BY <1>2 DEF Holders
  <2>1. /\ \A i \in Positions : items[i].id # None => items[i].id \in ids'
        /\ \A u \in Takers : hand[u] # None => hand[u].id \in ids'
    BY <1>1, <1>2 DEF Holders, At
  <2> QED BY <1>1, <1>2, <1>4, <2>1 DEF Holders, At
<1>7. NoLeak'
  <2> SUFFICES ASSUME NEW y \in ids, y # id[p]
               PROVE  \/ \E i \in Positions : items[i].id = y
                      \/ \E q \in Producers : pc'[q] = "append" /\ id'[q] = y
                      \/ \E u \in Takers : hand[u] # None /\ hand[u].id = y
                      \/ ppc = "reset" /\ Shard[y] >= turn
    BY <1>2 DEF NoLeak, At
  <2>1. ASSUME NEW q \in Producers, pc[q] = "append", id[q] = y
        PROVE  pc'[q] = "append" /\ id'[q] = y
    BY <1>3, <2>1
  <2> QED BY <1>1, <2>1 DEF NoLeak, At
<1> QED BY <1>5, <1>6, <1>7

\* Purge empties the queue under all the locks: what it finds in a hand then
\* is the race; short of it, no id of the set has a holder left but its own reset.
LEMMA EmptyingIds ==
    ASSUME IInv, PurgeTake
    PROVE  Purging' /\ Holders' /\ NoLeak'
<1> USE DEF adders, groups
<1>1. TypeOK /\ Purging /\ Holders /\ NoLeak /\ Hands
  BY DEF IInv
<1>2. /\ UNCHANGED <<conf, hand, pc, id, lock, turn>> /\ ppc = "take" /\ items' = <<>>
      /\ ids' = (IF conf.heap THEN {} ELSE ids)
      /\ ppc' = (IF conf.heap THEN "close" ELSE "reset")
      /\ raced' = (raced \/ \E t \in Takers : hand[t] # None)
  BY DEF PurgeTake
<1>3. Positions' = {} /\ turn = 1
  BY <1>1, <1>2 DEF Positions, Purging
<1>4. ~raced' => ~raced /\ \A t \in Takers : hand[t] = None
  BY <1>2
<1>5. ~conf.heap => \A q \in Producers : pc[q] # "append"
  <2> SUFFICES ASSUME ~conf.heap, NEW q \in Producers, pc[q] = "append" PROVE FALSE
    OBVIOUS
  <2>1. lock[Shard[id[q]]] = q /\ q # "purge" /\ Shard[id[q]] \in 1 .. NumShards
    BY LocksApart, AdderThere
  <2> QED BY <1>1, <1>2, <2>1 DEF Purging
<1>6. Purging'
  BY <1>1, <1>2, <1>3, <1>4 DEF Purging
<1>7. Holders'
  BY <1>2, <1>3, <1>4 DEF Holders, At
<1>8. NoLeak'
  <2> SUFFICES ASSUME NEW y \in ids, ~conf.heap PROVE ppc' = "reset" /\ Shard[y] >= turn'
    BY <1>2 DEF NoLeak
  <2>1. y \in Ids
    BY <1>1 DEF TypeOK
  <2>2. Shard[y] \in 1 .. NumShards /\ NumShards \in Nat
    BY <2>1, GroupAssumption
  <2> QED BY <1>2, <1>3, <2>2
<1> QED BY <1>6, <1>7, <1>8

\* Purge resets the id set one shard at a time.
LEMMA ResettingIds ==
    ASSUME IInv, PurgeReset
    PROVE  Purging' /\ Holders' /\ NoLeak'
<1> USE DEF store, adders, groups
<1>1. TypeOK /\ Purging /\ Holders /\ NoLeak /\ Hands
  BY DEF IInv
<1>2. /\ UNCHANGED <<conf, items, hand, pc, id, raced>> /\ ppc = "reset"
      /\ ids' = {x \in ids : Shard[x] # turn} /\ lock' = [lock EXCEPT ![turn] = None]
      /\ IF turn < NumShards THEN turn' = turn + 1 /\ ppc' = "reset" ELSE turn' = 1 /\ ppc' = "close"
      /\ Positions' = Positions
  BY DEF PurgeReset, Turn, Positions
<1>3. /\ turn \in 1 .. NumShards /\ NumShards \in Nat /\ ids \subseteq Ids
      /\ lock \in [1 .. NumShards -> Producers \cup {"purge", None}]
      /\ \A x \in Ids : Shard[x] \in 1 .. NumShards
  BY <1>1, GroupAssumption DEF TypeOK
<1>4. /\ \A i \in Positions : items[i].id # None => items[i].id \in Ids
      /\ \A t \in Takers : hand[t] # None => hand[t].id \in Ids
  BY <1>1, ItemsTyped DEF Hands
<1>5. /\ \A i \in Positions : items[i].id # None => Shard[items[i].id] < turn
      /\ ~raced => \A t \in Takers : hand[t] # None => Shard[hand[t].id] < turn
      /\ \A k \in 1 .. NumShards : k >= turn => lock[k] = "purge"
      /\ ~conf.heap
  BY <1>1, <1>2 DEF Purging
<1>6. /\ \A i \in Positions : items[i].id # None => Shard[items[i].id] # turn
      /\ ~raced => \A t \in Takers : hand[t] # None => Shard[hand[t].id] # turn
  BY <1>3, <1>5
<1>7. Purging'
  <2>1. CASE turn < NumShards
    <3>1. turn' = turn + 1 /\ ppc' = "reset"
      BY <1>2, <2>1
    <3>2. \A k \in 1 .. NumShards : k >= turn' => lock'[k] = "purge"
      BY <1>2, <1>3, <1>5, <3>1
    <3>3. /\ \A i \in Positions : items[i].id # None => Shard[items[i].id] < turn'
          /\ ~raced => \A t \in Takers : hand[t] # None => Shard[hand[t].id] < turn'
      BY <1>3, <1>4, <1>5, <3>1
    <3> QED BY <1>2, <1>5, <3>1, <3>2, <3>3 DEF Purging
  <2>2. CASE ~(turn < NumShards)
    BY <1>2, <2>2 DEF Purging
  <2> QED BY <2>1, <2>2
<1>8. Holders'
  <2> SUFFICES ASSUME ~raced PROVE Holders'
    BY <1>2 DEF Holders
  <2>1. /\ \A i \in Positions : items[i].id # None => items[i].id \in ids'
        /\ \A u \in Takers : hand[u] # None => hand[u].id \in ids'
    BY <1>1, <1>2, <1>6 DEF Holders
  <2> QED BY <1>1, <1>2, <2>1 DEF Holders, At
<1>9. NoLeak'
  <2> SUFFICES ASSUME NEW y \in ids, Shard[y] # turn
               PROVE  \/ \E i \in Positions : items[i].id = y
                      \/ \E q \in Producers : pc[q] = "append" /\ id[q] = y
                      \/ \E u \in Takers : hand[u] # None /\ hand[u].id = y
                      \/ ppc' = "reset" /\ Shard[y] >= turn'
    BY <1>2 DEF NoLeak, At
  <2>1. Shard[y] >= turn => ppc' = "reset" /\ Shard[y] >= turn'
    BY <1>2, <1>3
  <2> QED BY <1>1, <2>1 DEF NoLeak, At
<1> QED BY <1>7, <1>8, <1>9

LEMMA IdsKept ==
    ASSUME IInv, [Next]_vars
    PROVE  Purging' /\ Holders' /\ NoLeak'
<1> USE DEF store, idset, adders, groups, purge
<1> DEFINE Goal == Purging' /\ Holders' /\ NoLeak'
<1>a. TypeOK /\ Purging
  BY DEF IInv
<1>b. pc \in [Producers -> Steps] /\ id \in [Producers -> Ids \cup {None}]
      /\ lock \in [1 .. NumShards -> Producers \cup {"purge", None}]
      /\ turn \in 1 .. NumShards /\ NumShards \in Nat
  BY <1>a, GroupAssumption DEF TypeOK, Steps
<1>c. ASSUME Calm, UNCHANGED <<ppc, turn>>,
             \A k \in 1 .. NumShards : lock[k] = "purge" => lock'[k] = "purge"
      PROVE  Goal
  <2>1. Holders' /\ NoLeak'
    BY <1>c, CalmIds
  <2>2. Purging'
    BY <1>c, CalmPurge2 DEF Calm
  <2> QED BY <2>1, <2>2
<1>d. ASSUME Calm, ppc # "reset", Purging' PROVE Goal
  BY <1>d, CalmIds
<1> HIDE DEF Goal
<1>1. ASSUME NEW p \in Producers, AddAll(p) PROVE Goal
  <2>1. Calm
    BY <1>1, <1>b DEF AddAll, At, Item, Calm
  <2> QED BY <1>1, <1>c, <2>1 DEF AddAll
<1>2. ASSUME NEW p \in Producers, Refused(p) PROVE Goal
  <2>1. Calm
    BY <1>2, <1>b DEF Refused, At, Item, Calm
  <2> QED BY <1>2, <1>c, <2>1 DEF Refused
<1>3. ASSUME NEW p \in Producers, EnqueueOnceLock(p) PROVE Goal
  <2>1. CASE id[p] \in ids
    <3>1. Calm
      BY <1>3, <1>b, <2>1 DEF EnqueueOnceLock, At, Refuse, Calm
    <3> QED BY <1>3, <1>c, <2>1, <3>1 DEF EnqueueOnceLock
  <2>2. CASE id[p] \notin ids
    BY <1>3, <2>2, LockingIds DEF Goal
  <2> QED BY <2>1, <2>2
<1>4. ASSUME NEW p \in Producers, EnqueueOnceAppend(p) PROVE Goal
  <2>1. CASE closed \/ Full
    BY <1>4, <2>1, RefusingIds DEF Goal
  <2>2. CASE ~(closed \/ Full)
    <3>1. Storing(p, id[p], 0) /\ pc[p] = "append"
          /\ pc' = [pc EXCEPT ![p] = "unlock"] /\ id' = id /\ ids' = ids
      BY <1>4, <2>2, StoringSteps
    <3>2. /\ ~conf.heap /\ pc'[p] = "unlock"
          /\ \A q \in Producers : q # p => pc'[q] = pc[q] /\ id'[q] = id[q]
      BY <1>b, <3>1, AdderThere
    <3> QED BY <3>1, <3>2, StoringIds DEF Goal
  <2> QED BY <2>1, <2>2
<1>5. ASSUME NEW p \in Producers, EnqueueOnceUnlock(p) PROVE Goal
  <2>1. Calm
    BY <1>5, <1>b DEF EnqueueOnceUnlock, At, Item, Calm
  <2>2. \A k \in 1 .. NumShards : lock[k] = "purge" => lock'[k] = "purge"
    BY <1>5, PurgeLocksKept DEF EnqueueOnceUnlock, At
  <2> QED BY <1>5, <1>c, <2>1, <2>2 DEF EnqueueOnceUnlock
<1>6. ASSUME NEW p \in Producers, NEW x \in Ids, EnqueueOnceOn(p, x) PROVE Goal
  <2>1. Calm
    BY <1>6, <1>b DEF EnqueueOnceOn, At, Calm
  <2> QED BY <1>6, <1>c, <2>1 DEF EnqueueOnceOn
<1>7. ASSUME NEW p \in Producers, NEW n \in Prios, Enqueue(p, n) PROVE Goal
  <2>1. CASE closed \/ Full
    <3>1. Calm
      BY <1>7, <1>b, <2>1 DEF Enqueue, At, Refuse, Calm
    <3> QED BY <1>7, <1>c, <2>1, <3>1 DEF Enqueue
  <2>2. CASE ~(closed \/ Full)
    <3>1. Storing(p, None, n) /\ Item(p, at[p] + 1) /\ ids' = ids /\ pc[p] = "add"
      BY <1>7, <2>2, StoringSteps DEF Enqueue, At
    <3>2. pc'[p] # "append" /\ \A q \in Producers : q # p => pc'[q] = pc[q] /\ id'[q] = id[q]
      BY <1>b, <3>1 DEF Item
    <3> QED BY <3>1, <3>2, StoringIds DEF Goal
  <2> QED BY <2>1, <2>2
<1>8. ASSUME NEW p \in Producers, NEW x \in Ids, NEW n \in Prios, EnqueueOnceHeap(p, x, n)
      PROVE  Goal
  <2>1. CASE closed \/ Full \/ x \in ids
    <3>1. Calm
      BY <1>8, <1>b, <2>1 DEF EnqueueOnceHeap, At, Refuse, Calm
    <3> QED BY <1>8, <1>c, <2>1, <3>1 DEF EnqueueOnceHeap
  <2>2. CASE ~(closed \/ Full \/ x \in ids)
    <3>1. Storing(p, x, n) /\ Item(p, at[p] + 1) /\ ids' = ids \cup {x} /\ conf.heap /\ pc[p] = "add"
      BY <1>8, <2>2, StoringSteps DEF EnqueueOnceHeap, At
    <3>2. pc'[p] # "append" /\ \A q \in Producers : q # p => pc'[q] = pc[q] /\ id'[q] = id[q]
      BY <1>b, <3>1 DEF Item
    <3>3. x # None
      BY GroupAssumption
    <3> QED BY <2>2, <3>1, <3>2, <3>3, StoringIds DEF Goal
  <2> QED BY <2>1, <2>2
<1>9. ASSUME NEW t \in Takers, Dequeue(t) PROVE Goal
  BY <1>9, TakingIds DEF Goal
<1>10. ASSUME NEW t \in Takers, FreeId(t) PROVE Goal
  BY <1>10, FreeingIds DEF Goal
<1>11. ASSUME NEW j \in Jobs, CloseStale(j) PROVE Goal
  BY <1>11, <1>c DEF CloseStale, Calm
<1>12. ASSUME NEW j \in Jobs, Run(j) PROVE Goal
  BY <1>12, <1>c DEF Run, Calm
<1>13. ASSUME NEW j \in Jobs, Done(j) PROVE Goal
  BY <1>13, <1>c DEF Done, Calm
<1>14. ASSUME NEW j \in Jobs, CloseResponse(j) PROVE Goal
  BY <1>14, <1>c DEF CloseResponse, Calm
<1>15. ASSUME PurgeBump PROVE Goal
  <2>1. /\ Calm /\ ppc = "none" /\ turn' = turn /\ conf' = conf
        /\ ppc' = IF conf.heap THEN "take" ELSE "lock"
    BY <1>15 DEF PurgeBump, Calm
  <2>2. turn = 1
    BY <1>a, <2>1 DEF Purging
  <2>3. Purging'
    BY <2>1, <2>2 DEF Purging
  <2> QED BY <1>d, <2>1, <2>3
<1>16. ASSUME PurgeLock PROVE Goal
  <2>1. /\ Calm /\ ppc = "lock" /\ conf' = conf /\ lock' = [lock EXCEPT ![turn] = "purge"]
        /\ IF turn < NumShards THEN turn' = turn + 1 /\ ppc' = "lock" ELSE turn' = 1 /\ ppc' = "take"
    BY <1>16 DEF PurgeLock, Turn, Calm
  <2>2. ~conf.heap /\ \A k \in 1 .. NumShards : k < turn => lock[k] = "purge"
    BY <1>a, <2>1 DEF Purging
  <2>3. \A k \in 1 .. NumShards : k <= turn => lock'[k] = "purge"
    BY <1>b, <2>1, <2>2
  <2>4. CASE turn < NumShards
    <3>1. \A k \in 1 .. NumShards : k < turn' => lock'[k] = "purge"
      BY <1>b, <2>1, <2>3, <2>4
    <3>2. Purging'
      BY <2>1, <2>2, <2>4, <3>1 DEF Purging
    <3> QED BY <1>d, <2>1, <3>2
  <2>5. CASE ~(turn < NumShards)
    <3>1. \A k \in 1 .. NumShards : lock'[k] = "purge"
      BY <1>b, <2>3, <2>5
    <3>2. Purging'
      BY <2>1, <2>5, <3>1 DEF Purging
    <3> QED BY <1>d, <2>1, <3>2
  <2> QED BY <2>4, <2>5
<1>17. ASSUME PurgeTake PROVE Goal
  BY <1>17, EmptyingIds DEF Goal
<1>18. ASSUME PurgeReset PROVE Goal
  BY <1>18, ResettingIds DEF Goal
<1>19. ASSUME PurgeClose PROVE Goal
  BY <1>19, <1>c DEF PurgeClose, Calm
<1>20. ASSUME PurgeEnd PROVE Goal
  <2>1. Calm /\ ppc = "close" /\ turn' = turn /\ ppc' = "none"
    BY <1>20 DEF PurgeEnd, Calm
  <2>2. turn = 1
    BY <1>a, <2>1 DEF Purging
  <2>3. Purging'
    BY <2>1, <2>2 DEF Purging
  <2> QED BY <1>d, <2>1, <2>3
<1>21. ASSUME Close PROVE Goal
  BY <1>21, <1>c DEF Close, Calm
<1>22. ASSUME UNCHANGED vars PROVE Goal
  BY <1>22, <1>c DEF vars, Calm
<1>23. Goal
  BY <1>1, <1>2, <1>3, <1>4, <1>5, <1>6, <1>7, <1>8, <1>9, <1>10, <1>11, <1>12, <1>13, <1>14,
     <1>15, <1>16, <1>17, <1>18, <1>19, <1>20, <1>21, <1>22
     DEF Next, AddStep, JobStep, PurgeStep, Prios
<1> QED BY <1>23 DEF Goal

(***************************************************************************)
(* The theorems                                                            *)
(***************************************************************************)
LEMMA InitHolds ==
    ASSUME Init
    PROVE  IInv
<1>1. TypeSets
  <2>1. NumShards \in Nat \ {0} /\ MaxItems \in Nat /\ MaxPurges \in Nat
    BY GroupAssumption
  <2> QED BY <2>1 DEF Init, TypeSets, Steps, Phases
<1>2. TypeFlags
  BY DEF Init, TypeFlags
<1>3. Bounds
  BY ConfType DEF Init, Bounds
<1>4. Positions = {} /\ Len(items) = 0
  BY DEF Init, Positions
<1>5. \A j \in Jobs : phase[j] = "new"
  BY DEF Init
<1>6. Adders
  <2> SUFFICES ASSUME NEW p \in Producers PROVE AdderAt(p)
    BY DEF Adders
  <2>1. \A i \in 1 .. MaxItems : <<p, i>> \in Jobs
    BY DEF Jobs
  <2>2. \A i \in 1 .. MaxItems : phase[<<p, i>>] = "new"
    BY <1>5, <2>1
  <2>3. pc[p] = "ready" /\ at[p] = 0 /\ pending[p] = 0 /\ buffered[p] = 0 /\ ~shut[p]
    BY DEF Init
  <2> QED BY <2>2, <2>3 DEF AdderAt
<1>7. Known /\ Counted /\ ChannelSound
  BY <1>5 DEF Init, Known, Counted, ChannelSound, At
<1>8. LastAlone
  <2> SUFFICES ASSUME NEW p \in Producers, NEW j \in Members(p) PROVE phase[j] # "last"
    BY DEF LastAlone
  <2>1. j \in Jobs
    BY MembersType DEF Init
  <2> QED BY <1>5, <2>1
<1>9. Stored /\ Sorted
  BY <1>4 DEF Stored, Sorted, H!HeapOrdered
<1>10. \A t \in Takers : hand[t] = None
  BY DEF Init
<1>11. Hands
  BY <1>10 DEF Hands
<1>12. Purging
  BY DEF Init, Purging
<1>13. Holders
  BY <1>4, <1>10 DEF Holders
<1>14. NoLeak
  BY DEF Init, NoLeak
<1> QED BY <1>1, <1>2, <1>3, <1>6, <1>7, <1>8, <1>9, <1>11, <1>12, <1>13, <1>14, TypeSplit DEF IInv

\* What the theorems rest on: an AddAll holds the lock of the id it is storing,
\* the items are the stored jobs in the order of the queue, a group's counter is
\* its members that are not counted off, and, short of the race of a Purge with
\* a Dequeue, an id has one holder.
THEOREM GroupInvariant == Spec => []IInv
<1>1. Init => IInv
  BY InitHolds
<1>2. IInv /\ [Next]_vars => IInv'
  <2> SUFFICES ASSUME IInv, [Next]_vars PROVE IInv'
    OBVIOUS
  <2>1. TypeSets' /\ TypeFlags' /\ Bounds'
    BY TypeSetsKept, TypeFlagsKept, BoundsKept
  <2>2. TypeOK'
    BY <2>1 DEF TypeOK, TypeSets, TypeFlags, Bounds, Steps, Phases
  <2>3. Groups'
    BY GroupsKept
  <2>4. Known' /\ Counted' /\ LastAlone' /\ ChannelSound'
    BY <2>3 DEF Groups, Known, Counted, LastAlone, ChannelSound, Left, Over, At
  <2> QED BY <2>2, <2>4, AddersKept, ItemsKept, IdsKept DEF IInv
<1> QED BY <1>1, <1>2, PTL DEF Spec

\* EnqueueOnce, Dequeue and Purge keep the id set: no two stored items share an
\* id but for the race queue.go admits, and no id leaks.
THEOREM IdsAlwaysMatch == Spec => []IdsMatchItems
<1>1. IInv => IdsMatchItems
  <2> SUFFICES ASSUME IInv PROVE IdsMatchItems
    OBVIOUS
  <2>1. TypeOK /\ Holders /\ NoLeak
    BY DEF IInv
  <2> QED BY <2>1 DEF IdsMatchItems, Holders, NoLeak, Positions
<1> QED BY <1>1, GroupInvariant, PTL

\* WgCounter and the Close of a group: its channel is closed after the last
\* member is through, and has room for whoever may still send.
THEOREM ChannelAlwaysSound == Spec => []ChannelSound
<1>1. IInv => ChannelSound
  BY DEF IInv
<1> QED BY <1>1, GroupInvariant, PTL

\* Dequeue of either queue hands out what comes before all others stored.
THEOREM TakesAlwaysFirst == Spec => TakesFirst
<1> USE DEF store, idset, adders, groups, purge
<1> DEFINE First == \A i \in DOMAIN items : phase[items[i].job] = "stored"
                        /\ phase'[items[i].job] \in {"dequeued", "taken"} =>
                      \A k \in DOMAIN items : k # i => before(items[i], items[k])
<1>1. IInv /\ [Next]_vars => [First]_vars
  <2> SUFFICES ASSUME IInv, Next PROVE First
    OBVIOUS
  <2>a. TypeOK /\ Stored /\ Hands /\ phase \in [Jobs -> Phases]
    BY TypeSplit DEF IInv, TypeSets
  <2>b. \A i \in DOMAIN items : items[i].job \in Jobs
    BY <2>a, ItemsTyped DEF Positions
  <2>1. ASSUME NEW t \in Takers, Dequeue(t) PROVE First
    <3>1. /\ 1 \in DOMAIN items /\ Head(items) = items[1]
          /\ \A k \in DOMAIN items : k # 1 => before(items[1], items[k])
      BY <2>1, TakeEffect DEF IInv
    <3>2. \E v : phase' = [phase EXCEPT ![items[1].job] = v]
      BY <2>1, <3>1 DEF Dequeue
    <3>3. \A i \in DOMAIN items : i # 1 => items[i].job # items[1].job
      BY <2>a, <3>1 DEF Stored, Positions
    <3>4. \A i \in DOMAIN items : i # 1 => phase'[items[i].job] = phase[items[i].job]
      BY <2>a, <2>b, <3>2, <3>3
    <3> QED BY <3>1, <3>4
  \* No other step takes a stored job.
  <2>2. ASSUME \A j \in Jobs : phase[j] = "stored" => phase'[j] \notin {"dequeued", "taken"}
        PROVE  First
    BY <2>b, <2>2
  <2> HIDE DEF First
  <2>3. ASSUME NEW j \in Jobs, NEW v, phase' = [phase EXCEPT ![j] = v], phase[j] # "stored"
        PROVE  First
    BY <2>2, <2>3, <2>a
  <2>4. ASSUME phase' = phase PROVE First
    BY <2>2, <2>4
  <2>5. ASSUME NEW p \in Producers, pc[p] \in {"add", "lock", "append"}, NEW v,
               phase' = [phase EXCEPT ![Current(p)] = v]
        PROVE  First
    <3>1. Current(p) \in Jobs /\ phase[Current(p)] = "new"
      BY <2>5, AdderThere
    <3> QED BY <2>3, <2>5, <3>1
  <2>6. ASSUME NEW p \in Producers, AddAll(p) \/ AddStep(p) PROVE First
    <3>1. CASE AddAll(p) \/ Refused(p) \/ EnqueueOnceUnlock(p) \/ \E x \in Ids : EnqueueOnceOn(p, x)
      BY <2>4, <3>1 DEF AddAll, Refused, EnqueueOnceUnlock, EnqueueOnceOn
    <3>2. CASE EnqueueOnceLock(p)
      BY <2>4, <2>5, <3>2 DEF EnqueueOnceLock, Refuse, At
    <3>3. CASE EnqueueOnceAppend(p)
      BY <2>5, <3>3 DEF EnqueueOnceAppend, Refuse, Store, At
    <3>4. ASSUME NEW n, Enqueue(p, n) PROVE First
      BY <2>5, <3>4 DEF Enqueue, Refuse, Store, At
    <3>5. ASSUME NEW n, NEW x, EnqueueOnceHeap(p, x, n) PROVE First
      BY <2>5, <3>5 DEF EnqueueOnceHeap, Refuse, Store, At
    <3> QED BY <2>6, <3>1, <3>2, <3>3, <3>4, <3>5 DEF AddStep
  <2>7. ASSUME NEW t \in Takers, FreeId(t) PROVE First
    <3>1. hand[t].job \in Jobs /\ phase[hand[t].job] = "dequeued"
      BY <2>7, <2>a, ItemsTyped DEF FreeId, Hands
    <3> QED BY <2>3, <2>7, <3>1 DEF FreeId
  <2>8. ASSUME NEW j \in Jobs, JobStep(j) PROVE First
    BY <2>3, <2>8 DEF JobStep, CloseStale, Run, Done, CloseResponse
  <2>9. CASE PurgeTake
    BY <2>2, <2>9 DEF PurgeTake
  <2>10. CASE PurgeClose
    <3>1. Head(removed) \in Jobs
      BY <2>10 DEF PurgeClose, IInv, TypeOK
    <3> QED BY <2>3, <2>4, <2>10, <3>1 DEF PurgeClose
  <2>11. CASE PurgeBump \/ PurgeLock \/ PurgeReset \/ PurgeEnd \/ Close
    BY <2>4, <2>11 DEF PurgeBump, PurgeLock, PurgeReset, PurgeEnd, Close
  <2> QED BY <2>1, <2>6, <2>7, <2>8, <2>9, <2>10, <2>11 DEF Next, PurgeStep
<1> QED BY <1>1, GroupInvariant, PTL DEF Spec, TakesFirst
=============================================================================
