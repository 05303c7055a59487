-------------------------------- MODULE Group --------------------------------
(***************************************************************************)
(* AddAll: groups of jobs go into one in-memory queue, FIFO or by          *)
(* priority, which may be full or closed and refuses an id it holds.       *)
(* Workers take, run and close the members, a Purge closes the ones it     *)
(* finds; the last member to close closes the group's channel of results.  *)
(* (A worker without results or errors has groups without that channel,    *)
(* which end in the same way.)                                             *)
(*                                                                         *)
(* Append, Dequeue and Purge of the FIFO's log are one step each, which    *)
(* TopicLog shows them to be.  Pauses and batches are Dispatch's part: a   *)
(* worker that is free takes what is stored.                               *)
(***************************************************************************)
EXTENDS Naturals, Sequences, FiniteSets

CONSTANTS
    Producers,   \* callers of AddAll
    Takers,      \* event loops of the workers bound to the queue
    Ids,         \* ids that items are given
    NumShards,   \* locks of the id set (64 in the code)
    Shard,       \* the hash: which lock an id has
    Priorities,  \* priorities of items
    MaxItems,    \* bound: items of one AddAll
    Setups,      \* heap or FIFO, capacity (0: unlimited), items of each AddAll
    MaxPurges,   \* bound: calls of Purge
    None         \* no id, no job, nobody

Jobs  == Producers \X (1 .. MaxItems)
Entry == [job : Jobs, id : Ids \cup {None}, prio : Nat, index : Nat]

ASSUME GroupAssumption ==
    /\ NumShards \in Nat \ {0} /\ Shard \in [Ids -> 1 .. NumShards]
    /\ Priorities \subseteq Nat /\ MaxItems \in Nat /\ MaxPurges \in Nat
    /\ Setups \subseteq [heap : BOOLEAN, capacity : Nat, size : [Producers -> 0 .. MaxItems]]
    /\ None \notin Ids \cup Jobs \cup Producers \cup Entry \cup {"purge"}
    /\ "purge" \notin Producers

INSTANCE Heap WITH Entries <- Entry

VARIABLES
    conf,      \* the setup; fixed
    items,     \* what is stored
    count,     \* insertionCount of the heap; how many were stored
    closed,    \* the queue is closed
    ids,       \* the id set
    idsOn,     \* Queue.idsOn
    lock,      \* who holds each shard's lock: a producer, "purge" or None
    pc,        \* each producer's next step
    at,        \* the item it is at
    id,        \* the id it is storing under a shard's lock
    hand,      \* the entry each taker has dequeued and not freed the id of
    phase,     \* how far each job is
    stale,     \* jobs taken before a Purge moved the counter
    pending,   \* each group's WgCounter
    buffered,  \* messages in each group's channel, which nobody reads
    shut,      \* is each group's channel closed?
    ppc,       \* Purge's next step
    turn,      \* the shard a Purge is at
    removed,   \* what a Purge took and has not closed
    purges,    \* calls of Purge so far
    raced      \* history: a Purge emptied the queue while a Dequeue had an id to free

store  == <<items, count, closed>>
idset  == <<ids, idsOn, lock>>
adders == <<pc, at, id>>
groups == <<pending, buffered, shut>>
purge  == <<ppc, turn, removed, purges, raced>>
vars   == <<conf, store, idset, adders, hand, phase, stale, groups, purge>>

Members(p) == {p} \X (1 .. conf.size[p])

TypeOK ==
    /\ conf \in Setups
    /\ items \in Seq(Entry) /\ count \in Nat /\ closed \in BOOLEAN
    /\ ids \subseteq Ids /\ idsOn \in BOOLEAN
    /\ lock \in [1 .. NumShards -> Producers \cup {"purge", None}]
    /\ pc \in [Producers -> {"ready", "add", "lock", "append", "unlock", "refused", "end"}]
    /\ at \in [Producers -> 0 .. MaxItems + 1]
    /\ id \in [Producers -> Ids \cup {None}]
    /\ hand \in [Takers -> Entry \cup {None}]
    /\ phase \in [Jobs -> {"new", "stored", "dequeued", "taken", "removed", "closing",
                           "last", "end"}]
    /\ stale \subseteq Jobs
    /\ pending \in [Producers -> Nat] /\ buffered \in [Producers -> Nat]
    /\ \A p \in Producers : pending[p] <= conf.size[p] /\ buffered[p] <= conf.size[p]
    /\ shut \in [Producers -> BOOLEAN]
    /\ ppc \in {"none", "lock", "take", "reset", "close"}
    /\ turn \in 1 .. NumShards /\ removed \in Seq(Jobs) /\ purges \in 0 .. MaxPurges
    /\ raced \in BOOLEAN

Init ==
    /\ conf \in Setups
    /\ items = <<>> /\ count = 0 /\ closed = FALSE
    /\ ids = {} /\ idsOn = FALSE /\ lock = [k \in 1 .. NumShards |-> None]
    /\ pc = [p \in Producers |-> "ready"]
    /\ at = [p \in Producers |-> 0]
    /\ id = [p \in Producers |-> None]
    /\ hand = [t \in Takers |-> None]
    /\ phase = [j \in Jobs |-> "new"] /\ stale = {}
    /\ pending = [p \in Producers |-> 0]
    /\ buffered = [p \in Producers |-> 0]
    /\ shut = [p \in Producers |-> FALSE]
    /\ ppc = "none" /\ turn = 1 /\ removed = <<>> /\ purges = 0 /\ raced = FALSE

(***************************************************************************)
(* AddAll                                                                  *)
(***************************************************************************)
At(p, step) == pc[p] = step
Current(p)  == <<p, at[p]>>
Full        == conf.capacity > 0 /\ Len(items) >= conf.capacity

\* On to item i, or the end.
Item(p, i) ==
    /\ pc' = [pc EXCEPT ![p] = IF i > conf.size[p] THEN "end" ELSE "add"]
    /\ at' = [at EXCEPT ![p] = i]
    /\ id' = [id EXCEPT ![p] = None]

\* Nobody would close the channel of an empty group.
newGroup(p) ==
    /\ pending' = [pending EXCEPT ![p] = conf.size[p]]
    /\ shut' = [shut EXCEPT ![p] = conf.size[p] = 0]
    /\ UNCHANGED buffered

AddAll(p) ==
    /\ At(p, "ready")
    /\ newGroup(p)
    /\ Item(p, 1)
    /\ UNCHANGED <<conf, store, idset, hand, phase, stale, purge>>

\* Mutant of Refuse: the refused job is skipped, not closed.
Skip(p) == Item(p, at[p] + 1) /\ UNCHANGED phase

\* The job is closed before the next item.
Refuse(p) ==
    /\ phase' = [phase EXCEPT ![Current(p)] = "closing"]
    /\ pc' = [pc EXCEPT ![p] = "refused"]
    /\ id' = [id EXCEPT ![p] = None]
    /\ UNCHANGED at

Refused(p) ==
    /\ At(p, "refused") /\ phase[Current(p)] = "end"
    /\ Item(p, at[p] + 1)
    /\ UNCHANGED <<conf, store, idset, hand, phase, stale, groups, purge>>

Store(p, x, n) ==
    LET e == [job |-> Current(p), id |-> x, prio |-> n, index |-> count] IN
    /\ items' = IF conf.heap THEN push(items, e) ELSE Append(items, e)
    /\ count' = count + 1
    /\ phase' = [phase EXCEPT ![Current(p)] = "stored"]
    /\ UNCHANGED closed

\* Of an item without an id.
Enqueue(p, n) ==
    /\ At(p, "add")
    /\ IF closed \/ Full THEN Refuse(p) /\ UNCHANGED store
                        ELSE Store(p, None, n) /\ Item(p, at[p] + 1)
    /\ UNCHANGED <<conf, idset, hand, stale, groups, purge>>

\* The heap checks the id under the same lock.
EnqueueOnceHeap(p, x, n) ==
    /\ At(p, "add") /\ conf.heap
    /\ IF closed \/ Full \/ x \in ids
         THEN Refuse(p) /\ UNCHANGED <<store, ids>>
         ELSE /\ Store(p, x, n)
              /\ ids' = ids \cup {x}
              /\ Item(p, at[p] + 1)
    /\ UNCHANGED <<conf, idsOn, lock, hand, stale, groups, purge>>

\* EnqueueOnce of the FIFO: idsOn, the shard's lock, the id, the Append.
EnqueueOnceOn(p, x) ==
    /\ At(p, "add") /\ ~conf.heap
    /\ id' = [id EXCEPT ![p] = x]
    /\ idsOn' = TRUE
    /\ pc' = [pc EXCEPT ![p] = "lock"]
    /\ UNCHANGED <<conf, store, ids, lock, at, hand, phase, stale, groups, purge>>

EnqueueOnceLock(p) ==
    LET k == Shard[id[p]] IN
    /\ At(p, "lock") /\ lock[k] = None
    /\ IF id[p] \in ids
         THEN Refuse(p) /\ UNCHANGED <<ids, lock>>
         ELSE /\ ids' = ids \cup {id[p]}
              /\ lock' = [lock EXCEPT ![k] = p]
              /\ pc' = [pc EXCEPT ![p] = "append"]
              /\ UNCHANGED <<at, id, phase>>
    /\ UNCHANGED <<conf, store, idsOn, hand, stale, groups, purge>>

\* Mutant of EnqueueOnceAppend: a refused item keeps its id.
AppendKeepsId(p) ==
    /\ At(p, "append")
    /\ IF closed \/ Full
         THEN /\ lock' = [lock EXCEPT ![Shard[id[p]]] = None]
              /\ Refuse(p)
              /\ UNCHANGED <<store, ids>>
         ELSE /\ Store(p, id[p], 0)
              /\ pc' = [pc EXCEPT ![p] = "unlock"]
              /\ UNCHANGED <<ids, lock, at, id>>
    /\ UNCHANGED <<conf, idsOn, hand, stale, groups, purge>>

EnqueueOnceAppend(p) ==
    /\ At(p, "append")
    /\ IF closed \/ Full
         THEN /\ ids' = ids \ {id[p]}
              /\ lock' = [lock EXCEPT ![Shard[id[p]]] = None]
              /\ Refuse(p)
              /\ UNCHANGED store
         ELSE /\ Store(p, id[p], 0)
              /\ pc' = [pc EXCEPT ![p] = "unlock"]
              /\ UNCHANGED <<ids, lock, at, id>>
    /\ UNCHANGED <<conf, idsOn, hand, stale, groups, purge>>

EnqueueOnceUnlock(p) ==
    /\ At(p, "unlock")
    /\ lock' = [lock EXCEPT ![Shard[id[p]]] = None]
    /\ Item(p, at[p] + 1)
    /\ UNCHANGED <<conf, store, ids, idsOn, hand, phase, stale, groups, purge>>

AddStep(p) ==
    \/ Refused(p) \/ EnqueueOnceLock(p) \/ EnqueueOnceAppend(p) \/ EnqueueOnceUnlock(p)
    \/ \E x \in Ids : EnqueueOnceOn(p, x)
    \/ \E n \in IF conf.heap THEN Priorities ELSE {0} :
         Enqueue(p, n) \/ \E x \in Ids : EnqueueOnceHeap(p, x, n)

(***************************************************************************)
(* A worker takes, runs and closes                                         *)
(***************************************************************************)
\* The heap frees the id under its lock, the FIFO after the item is gone.
Dequeue(t) ==
    LET e == Head(items) IN
    /\ hand[t] = None /\ items # <<>>
    /\ items' = IF conf.heap THEN pop(items) ELSE Tail(items)
    /\ ids' = IF conf.heap THEN ids \ {e.id} ELSE ids
    /\ IF ~conf.heap /\ idsOn /\ e.id # None
         THEN /\ hand' = [hand EXCEPT ![t] = e]
              /\ phase' = [phase EXCEPT ![e.job] = "dequeued"]
         ELSE /\ phase' = [phase EXCEPT ![e.job] = "taken"]
              /\ UNCHANGED hand
    /\ UNCHANGED <<conf, count, closed, idsOn, lock, adders, stale, groups, purge>>

FreeId(t) ==
    /\ hand[t] # None /\ lock[Shard[hand[t].id]] = None
    /\ ids' = ids \ {hand[t].id}
    /\ phase' = [phase EXCEPT ![hand[t].job] = "taken"]
    /\ hand' = [hand EXCEPT ![t] = None]
    /\ UNCHANGED <<conf, store, idsOn, lock, adders, stale, groups, purge>>

\* A stale job is closed, unless it was stamped only after the Purge.
CloseStale(j) ==
    /\ phase[j] = "taken" /\ j \in stale
    /\ phase' = [phase EXCEPT ![j] = "closing"]
    /\ stale' = stale \ {j}
    /\ UNCHANGED <<conf, store, idset, adders, hand, groups, purge>>

\* The worker function: a result or an error goes into the group's channel, or,
\* of an error worker without error, nothing.
Run(j) ==
    /\ phase[j] = "taken"
    /\ phase' = [phase EXCEPT ![j] = "closing"]
    /\ stale' = stale \ {j}
    /\ \E n \in {0, 1} : buffered' = [buffered EXCEPT ![j[1]] = @ + n]
    /\ UNCHANGED <<conf, store, idset, adders, hand, pending, shut, purge>>

\* Mutant of Done: every Close closes the channel.
DoneClosesAlways(j) ==
    /\ phase[j] = "closing"
    /\ pending' = [pending EXCEPT ![j[1]] = IF @ = 0 THEN 0 ELSE @ - 1]
    /\ phase' = [phase EXCEPT ![j] = "last"]
    /\ UNCHANGED <<conf, store, idset, adders, hand, stale, buffered, shut, purge>>

\* WgCounter.Done, by whoever closes the job: only one Done takes 1 to 0.
Done(j) ==
    /\ phase[j] = "closing"
    /\ pending' = [pending EXCEPT ![j[1]] = IF @ = 0 THEN 0 ELSE @ - 1]
    /\ phase' = [phase EXCEPT ![j] = IF pending[j[1]] = 1 THEN "last" ELSE "end"]
    /\ UNCHANGED <<conf, store, idset, adders, hand, stale, buffered, shut, purge>>

CloseResponse(j) ==
    /\ phase[j] = "last"
    /\ shut' = [shut EXCEPT ![j[1]] = TRUE]
    /\ phase' = [phase EXCEPT ![j] = "end"]
    /\ UNCHANGED <<conf, store, idset, adders, hand, stale, pending, buffered, purge>>

JobStep(j) == CloseStale(j) \/ Run(j) \/ Done(j) \/ CloseResponse(j)

(***************************************************************************)
(* Purge and Close of the queue                                            *)
(***************************************************************************)
\* Only the FIFO's workers take batches that Purge must reach.
PurgeBump ==
    /\ ppc = "none" /\ purges < MaxPurges
    /\ purges' = purges + 1
    /\ stale' = IF conf.heap THEN stale ELSE {j \in Jobs : phase[j] = "taken"}
    /\ ppc' = IF conf.heap THEN "take" ELSE "lock"
    /\ UNCHANGED <<conf, store, idset, adders, hand, phase, groups, turn, removed, raced>>

\* Once around the shards, from the first.
Turn(from, then) ==
    IF turn < NumShards THEN turn' = turn + 1 /\ ppc' = from
                        ELSE turn' = 1 /\ ppc' = then

\* Mutant of PurgeLock: the log's own lock is taken to be enough.
PurgeUnlocked ==
    /\ ppc = "lock"
    /\ Turn("lock", "take")
    /\ UNCHANGED <<conf, store, idset, adders, hand, phase, stale, groups, removed, purges, raced>>

PurgeLock ==
    /\ ppc = "lock" /\ lock[turn] = None
    /\ lock' = [lock EXCEPT ![turn] = "purge"]
    /\ Turn("lock", "take")
    /\ UNCHANGED <<conf, store, ids, idsOn, adders, hand, phase, stale, groups, removed, purges,
                   raced>>

PurgeTake ==
    /\ ppc = "take"
    /\ items' = <<>>
    /\ removed' = [i \in 1 .. Len(items) |-> items[i].job]
    /\ phase' = [j \in Jobs |-> IF phase[j] = "stored" THEN "removed" ELSE phase[j]]
    /\ ids' = IF conf.heap THEN {} ELSE ids
    /\ ppc' = IF conf.heap THEN "close" ELSE "reset"
    /\ raced' = (raced \/ \E t \in Takers : hand[t] # None)
    /\ UNCHANGED <<conf, count, closed, idsOn, lock, adders, hand, stale, groups, turn, purges>>

PurgeReset ==
    /\ ppc = "reset"
    /\ ids' = {x \in ids : Shard[x] # turn}
    /\ lock' = [lock EXCEPT ![turn] = None]
    /\ Turn("reset", "close")
    /\ UNCHANGED <<conf, store, idsOn, adders, hand, phase, stale, groups, removed, purges, raced>>

\* The jobs it removed are closed, one after the other.
PurgeClose ==
    /\ ppc = "close" /\ removed # <<>>
    /\ \/ /\ phase[Head(removed)] = "removed"
          /\ phase' = [phase EXCEPT ![Head(removed)] = "closing"]
          /\ UNCHANGED removed
       \/ /\ phase[Head(removed)] = "end"
          /\ removed' = Tail(removed)
          /\ UNCHANGED phase
    /\ UNCHANGED <<conf, store, idset, adders, hand, stale, groups, ppc, turn, purges, raced>>

PurgeEnd ==
    /\ ppc = "close" /\ removed = <<>>
    /\ ppc' = "none"
    /\ UNCHANGED <<conf, store, idset, adders, hand, phase, stale, groups, turn, removed, purges,
                   raced>>

PurgeStep == PurgeLock \/ PurgeTake \/ PurgeReset \/ PurgeClose \/ PurgeEnd

Close ==
    /\ ~closed
    /\ closed' = TRUE
    /\ UNCHANGED <<conf, items, count, idset, adders, hand, phase, stale, groups, purge>>

(***************************************************************************)
(* The specification                                                       *)
(***************************************************************************)
Next ==
    \/ \E p \in Producers : AddAll(p) \/ AddStep(p)
    \/ \E t \in Takers : Dequeue(t) \/ FreeId(t)
    \/ \E j \in Jobs : JobStep(j)
    \/ PurgeBump \/ PurgeStep \/ Close

\* A call once made goes on, workers take and jobs end.  No step of these can
\* go on for ever, so that some of them is taken is enough.  Nobody has to add,
\* purge or close.
Progress ==
    \/ \E p \in Producers : AddStep(p)
    \/ \E t \in Takers : Dequeue(t) \/ FreeId(t)
    \/ \E j \in Jobs : JobStep(j)
    \/ PurgeStep

Spec     == Init /\ [][Next]_vars
FairSpec == Spec /\ WF_vars(Progress)

(***************************************************************************)
(* Properties                                                              *)
(***************************************************************************)
\* The id set follows the items.  "unless an item with the same id is in the
\* queue": no two stored items share an id, but for the race of a Purge with a
\* Dequeue that queue.go admits.  "no id leaks": an id that is refused belongs to
\* a stored item, to an add under way, to a Dequeue that will free it or to a
\* Purge that will.
IdsMatchItems ==
    /\ TypeOK
    /\ ~raced => \A i, k \in DOMAIN items : items[i].id = items[k].id /\ i # k => items[i].id = None
    /\ \A x \in ids :
         \/ \E i \in DOMAIN items : items[i].id = x
         \/ \E p \in Producers : At(p, "append") /\ id[p] = x
         \/ \E t \in Takers : hand[t] # None /\ hand[t].id = x
         \/ ppc = "reset" /\ Shard[x] >= turn

\* Dequeue hands out the stored item of the lowest priority, the oldest of
\* those, whatever adds and takes came before.
TakesFirst ==
    [][\A i \in DOMAIN items : phase[items[i].job] = "stored"
           /\ phase'[items[i].job] \in {"dequeued", "taken"} =>
         \A k \in DOMAIN items : k # i => before(items[i], items[k])]_vars

\* The channel of a group is closed once, after its last member is through, so
\* nobody sends to a closed channel, and it has room for everyone who may still
\* send, so no worker blocks on a group that nobody reads.
ChannelSound ==
    \A p \in Producers : ~At(p, "ready") =>
      /\ shut[p] => \A j \in Members(p) : phase[j] = "end"
      /\ buffered[p] <= Cardinality({j \in Members(p) : phase[j] \in {"closing", "last", "end"}})

\* Every group comes to its end: refused, purged or run, its members are counted
\* off and its channel is closed.
GroupsComplete ==
    []<>(\A p \in Producers : At(p, "ready") \/ (pending[p] = 0 /\ shut[p]))
=============================================================================
