------------------------------ MODULE TopicLog ------------------------------
(***************************************************************************)
(* The log of linked chunks under topics and in-memory queues              *)
(* (internal/topics/log.go), read by cursors without a lock shared with    *)
(* the writers, and the topic around it (topic.go).                        *)
(*                                                                         *)
(* Init chooses between the two uses.  A topic has a cursor per            *)
(* subscription, opened and closed under t.mx, which a Publish holds for   *)
(* reading.  A queue has one consuming cursor from the start and no such   *)
(* lock.                                                                   *)
(***************************************************************************)
EXTENDS Naturals, Sequences

CONSTANTS
    Publishers,   \* goroutines in Publish or Enqueue
    Subs,         \* workers that may subscribe
    Owner,        \* the one that reads the queue
    Chunk,        \* chunkCapacity: slots in a chunk (1024 in the code)
    Limits,       \* WithTopicCapacity or WithQueueCapacity, 0: unbounded
    MaxPayloads,  \* bound: payloads published
    None          \* nobody holds the lock

Payloads == 1 .. MaxPayloads
Zero     == 0     \* the zero value in a slot not written, or cleared

ASSUME TopicLogAssumption ==
    /\ Owner \in Subs
    /\ Chunk \in Nat \ {0} /\ Limits \subseteq Nat /\ MaxPayloads \in Nat
    /\ None \notin Publishers \cup Subs

VARIABLES
    consume,  \* a queue's log: its only cursor clears the slots it reads
    limit,    \* Log.limit, set when the topic or the queue is made
    closed,   \* topic.closed, or Log.closed of a queue
    tmx,      \* the Unsubscribe that holds topic.mx for writing, or None
    lmx,      \* the bounded Append that holds Log.mx, or None
    chunks,   \* the chain, oldest first; next of the last one is nil
    tail,     \* Log.tail, an index into chunks; 0 is nil
    head,     \* Log.head: offsets ever claimed
    pc,       \* each publisher's next step
    item,     \* the payload it appends
    at,       \* the chunk it has reached (t in Append)
    off,      \* the offset it claimed (o in Append)
    open,     \* the subscriptions whose cursor is open
    cpc,      \* who holds a cursor's lock, by its next step; "free"
    chunk,    \* Cursor.chunk
    idx,      \* Cursor.idx; may run past the chunk
    offset,   \* Cursor.offset
    snap,     \* what the holder of the cursor's lock loaded
    signal,   \* the subscriber's worker was told to look
    got,      \* what the last Dequeue or Purge of a cursor returned
    made,     \* payloads handed to Publish so far
    order     \* history: the payloads in the order of their offsets

pvars == <<pc, item, at, off>>
cvars == <<cpc, chunk, idx, offset, snap, got>>
how   == <<consume, limit>>
vars  == <<how, closed, tmx, lmx, chunks, tail, head, pvars, open, cvars, signal,
           made, order>>

newChunk(base) == [base  |-> base,
                   data  |-> [i \in 0 .. Chunk - 1 |-> Zero],
                   ready |-> [i \in 0 .. Chunk - 1 |-> FALSE]]

end(ch) == chunks[ch].base + Chunk

TypeOK ==
    /\ consume \in BOOLEAN /\ limit \in Limits /\ closed \in BOOLEAN
    /\ tmx \in Subs \cup {None} /\ lmx \in Publishers \cup {None}
    /\ chunks \in Seq([base  : Nat,
                       data  : [0 .. Chunk - 1 -> Payloads \cup {Zero}],
                       ready : [0 .. Chunk - 1 -> BOOLEAN]])
    /\ tail \in 0 .. Len(chunks) /\ head \in Nat
    /\ pc \in [Publishers -> {"ready", "lock", "load", "tail", "claim", "place", "alloc",
                              "publish", "notify"}]
    /\ item \in [Publishers -> Payloads \cup {Zero}]
    /\ at \in [Publishers -> Nat] /\ off \in [Publishers -> Nat]
    /\ open \subseteq Subs
    /\ cpc \in [Subs -> {"free", "look", "miss", "seek", "purge"}]
    /\ chunk \in [Subs -> Nat] /\ idx \in [Subs -> Nat] /\ offset \in [Subs -> Nat]
    /\ snap \in [Subs -> Nat]
    /\ signal \in [Subs -> BOOLEAN]
    /\ got \in [Subs -> Seq(Payloads \cup {Zero})]
    /\ made \in 0 .. MaxPayloads
    /\ order \in Seq(Payloads)

\* NewTopic, or NewQueue: its log has the one cursor, and so a first chunk.
Init ==
    /\ consume \in BOOLEAN /\ limit \in Limits
    /\ closed = FALSE /\ tmx = None /\ lmx = None
    /\ chunks = IF consume THEN <<newChunk(0)>> ELSE <<>>
    /\ tail = Len(chunks) /\ head = 0
    /\ pc = [p \in Publishers |-> "ready"]
    /\ item = [p \in Publishers |-> Zero]
    /\ at = [p \in Publishers |-> 0] /\ off = [p \in Publishers |-> 0]
    /\ open = IF consume THEN {Owner} ELSE {}
    /\ cpc = [s \in Subs |-> "free"]
    /\ chunk = [s \in Subs |-> IF consume /\ s = Owner THEN 1 ELSE 0]
    /\ idx = [s \in Subs |-> 0] /\ offset = [s \in Subs |-> 0] /\ snap = [s \in Subs |-> 0]
    /\ signal = [s \in Subs |-> FALSE]
    /\ got = [s \in Subs |-> <<>>]
    /\ made = 0 /\ order = <<>>

(***************************************************************************)
(* Publish and Append                                                      *)
(***************************************************************************)
At(p, step)   == pc[p] = step
Goto(p, step) == pc' = [pc EXCEPT ![p] = step]

\* Append returns: what it knew is forgotten, Log.mx is released.
Return(p, step) ==
    /\ pc' = [pc EXCEPT ![p] = step]
    /\ item' = [item EXCEPT ![p] = Zero]
    /\ at' = [at EXCEPT ![p] = 0] /\ off' = [off EXCEPT ![p] = 0]
    /\ lmx' = IF lmx = p THEN None ELSE lmx

\* A topic's publisher takes t.mx for reading and stops at a closed topic.
PublishStart(p) ==
    /\ At(p, "ready") /\ made < MaxPayloads
    /\ ~consume => tmx = None /\ ~closed
    /\ made' = made + 1
    /\ item' = [item EXCEPT ![p] = made + 1]
    /\ Goto(p, IF limit = 0 THEN "load" ELSE "lock")
    /\ UNCHANGED <<how, closed, tmx, lmx, chunks, tail, head, at, off, open, cvars, signal,
                   order>>

\* full: offsets only grow, so reading them at once refuses no more than the
\* code may.
full == limit # 0 /\ \E s \in open : head - offset[s] >= limit

\* Mutant of AppendLock: one too many.
LockLate(p) ==
    /\ At(p, "lock") /\ lmx = None
    /\ IF open = {} \/ closed \/ \E s \in open : head - offset[s] > limit
         THEN Return(p, "ready")
         ELSE lmx' = p /\ Goto(p, "load") /\ UNCHANGED <<item, at, off>>
    /\ UNCHANGED <<how, closed, tmx, chunks, tail, head, open, cvars, signal, made, order>>

\* A bounded Append holds Log.mx from the check to its return.
AppendLock(p) ==
    /\ At(p, "lock") /\ lmx = None
    /\ IF open = {} \/ closed \/ full
         THEN Return(p, "ready")
         ELSE lmx' = p /\ Goto(p, "load") /\ UNCHANGED <<item, at, off>>
    /\ UNCHANGED <<how, closed, tmx, chunks, tail, head, open, cvars, signal, made, order>>

\* Nobody reads, or the log is closed: nothing is stored.
AppendLoad(p) ==
    /\ At(p, "load")
    /\ IF open = {} \/ closed
         THEN Return(p, "ready")
         ELSE Goto(p, "tail") /\ UNCHANGED <<item, at, off, lmx>>
    /\ UNCHANGED <<how, closed, tmx, chunks, tail, head, open, cvars, signal, made, order>>

\* tail is loaded before the claim ...
AppendTail(p) ==
    /\ At(p, "tail")
    /\ at' = [at EXCEPT ![p] = tail]
    /\ Goto(p, "claim")
    /\ UNCHANGED <<how, closed, tmx, lmx, chunks, tail, head, item, off, open, cvars, signal,
                   made, order>>

\* ... head.Add(1), which fixes the payload's place.
AppendClaim(p) ==
    /\ At(p, "claim")
    /\ off' = [off EXCEPT ![p] = head]
    /\ head' = head + 1
    /\ order' = Append(order, item[p])
    /\ Goto(p, "place")
    /\ UNCHANGED <<how, closed, tmx, lmx, chunks, tail, item, at, open, cvars, signal, made>>

\* Past the end, and no next chunk: allocate one.  Who yields to another that
\* is linking it first comes here later, or finds it linked.
AppendEnd(p) ==
    /\ At(p, "place")
    /\ off[p] >= end(at[p]) /\ at[p] = Len(chunks)
    /\ Goto(p, "alloc")
    /\ UNCHANGED <<how, closed, tmx, lmx, chunks, tail, head, item, at, off, open, cvars,
                   signal, made, order>>

\* next.CompareAndSwap(nil, ...): a loser drops its spare.
AppendLink(p) ==
    /\ At(p, "alloc")
    /\ chunks' = IF at[p] = Len(chunks) THEN Append(chunks, newChunk(end(at[p]))) ELSE chunks
    /\ Goto(p, "place")
    /\ UNCHANGED <<how, closed, tmx, lmx, tail, head, item, at, off, open, cvars, signal,
                   made, order>>

\* Past the end, and a next chunk: move on, and tail with it if it is here.
AppendHop(p) ==
    /\ At(p, "place")
    /\ off[p] >= end(at[p]) /\ at[p] < Len(chunks)
    /\ tail' = IF tail = at[p] THEN at[p] + 1 ELSE tail
    /\ at' = [at EXCEPT ![p] = @ + 1]
    /\ UNCHANGED <<how, closed, tmx, lmx, chunks, head, pc, item, off, open, cvars, signal,
                   made, order>>

Slot(p) == off[p] - chunks[at[p]].base

AppendWrite(p) ==
    /\ At(p, "place") /\ off[p] < end(at[p])
    /\ chunks' = [chunks EXCEPT ![at[p]].data[Slot(p)] = item[p]]
    /\ Goto(p, "publish")
    /\ UNCHANGED <<how, closed, tmx, lmx, tail, head, item, at, off, open, cvars, signal,
                   made, order>>

\* The ready flag: readers may read the slot from here on.
AppendPublish(p) ==
    /\ At(p, "publish")
    /\ chunks' = [chunks EXCEPT ![at[p]].ready[Slot(p)] = TRUE]
    /\ Return(p, "notify")
    /\ UNCHANGED <<how, closed, tmx, tail, head, open, cvars, signal, made, order>>

\* Mutant of PublishNotify: an earlier signal is taken to be enough.
NotifyOneOnly(p) ==
    /\ At(p, "notify")
    /\ signal' = IF \E s \in Subs : signal[s] THEN signal
                  ELSE [s \in Subs |-> s \in open]
    /\ Goto(p, "ready")
    /\ UNCHANGED <<how, closed, tmx, lmx, chunks, tail, head, item, at, off, open, cvars,
                   made, order>>

\* Every subscriber's worker is told; then t.mx is released.
PublishNotify(p) ==
    /\ At(p, "notify")
    /\ signal' = [s \in Subs |-> signal[s] \/ s \in open]
    /\ Goto(p, "ready")
    /\ UNCHANGED <<how, closed, tmx, lmx, chunks, tail, head, item, at, off, open, cvars,
                   made, order>>

PublishStep(p) ==
    \/ AppendLock(p) \/ AppendLoad(p) \/ AppendTail(p) \/ AppendClaim(p) \/ AppendEnd(p)
    \/ AppendLink(p) \/ AppendHop(p) \/ AppendWrite(p) \/ AppendPublish(p) \/ PublishNotify(p)

(***************************************************************************)
(* A cursor: Dequeue and Purge, one at a time under the cursor's lock      *)
(***************************************************************************)
Hold(s, from, to) == cpc[s] = from /\ cpc' = [cpc EXCEPT ![s] = to]

rest == <<how, closed, tmx, lmx, tail, head, pvars, open, made, order>>

\* The worker was told: it reads until there is nothing.
Dequeue(s) ==
    /\ s \in open /\ signal[s]
    /\ Hold(s, "free", "look")
    /\ UNCHANGED <<rest, chunks, chunk, idx, offset, snap, signal, got>>

\* Off the end of the chunk, with a next one.
DequeueHop(s) ==
    /\ cpc[s] = "look"
    /\ idx[s] >= Chunk /\ chunk[s] < Len(chunks)
    /\ chunk' = [chunk EXCEPT ![s] = @ + 1]
    /\ idx' = [idx EXCEPT ![s] = @ - Chunk]
    /\ UNCHANGED <<rest, chunks, cpc, offset, snap, signal, got>>

\* No next chunk, or the slot is not ready: is the offset claimed at all?
DequeueMiss(s) ==
    /\ Hold(s, "look", "miss")
    /\ IF idx[s] >= Chunk THEN chunk[s] = Len(chunks) ELSE ~chunks[chunk[s]].ready[idx[s]]
    /\ UNCHANGED <<rest, chunks, chunk, idx, offset, snap, signal, got>>

\* Claimed: its writer is on its way, look again.  If not, there is nothing.
DequeueClaimed(s) ==
    /\ Hold(s, "miss", IF offset[s] < head THEN "look" ELSE "free")
    /\ signal' = [signal EXCEPT ![s] = offset[s] < head]
    /\ UNCHANGED <<rest, chunks, chunk, idx, offset, snap, got>>

\* A ready slot is read, cleared by a consumer, and the cursor moves.
DequeueRead(s) ==
    /\ Hold(s, "look", "free")
    /\ idx[s] < Chunk /\ chunks[chunk[s]].ready[idx[s]]
    /\ got' = [got EXCEPT ![s] = <<chunks[chunk[s]].data[idx[s]]>>]
    /\ chunks' = IF consume THEN [chunks EXCEPT ![chunk[s]].data[idx[s]] = Zero] ELSE chunks
    /\ idx' = [idx EXCEPT ![s] = @ + 1]
    /\ offset' = [offset EXCEPT ![s] = @ + 1]
    /\ UNCHANGED <<rest, chunk, snap, signal>>

\* Purge of a subscription, seekHead: tail before head ...
SeekTail(s) ==
    /\ s \in open /\ ~consume
    /\ Hold(s, "free", "seek")
    /\ snap' = [snap EXCEPT ![s] = tail]
    /\ UNCHANGED <<rest, chunks, chunk, idx, offset, signal, got>>

\* Mutant of SeekHead: the position is taken in the newest chunk.
SeekNewest(s) ==
    /\ Hold(s, "seek", "free")
    /\ chunk' = [chunk EXCEPT ![s] = Len(chunks)]
    /\ idx' = [idx EXCEPT ![s] = 0]
    /\ offset' = [offset EXCEPT ![s] = head]
    /\ snap' = [snap EXCEPT ![s] = 0]
    /\ got' = [got EXCEPT ![s] = <<>>]
    /\ UNCHANGED <<rest, chunks, signal>>

\* ... so that the head is in that chunk or beyond it.
SeekHead(s) ==
    /\ Hold(s, "seek", "free")
    /\ chunk' = [chunk EXCEPT ![s] = snap[s]]
    /\ idx' = [idx EXCEPT ![s] = head - chunks[snap[s]].base]
    /\ offset' = [offset EXCEPT ![s] = head]
    /\ snap' = [snap EXCEPT ![s] = 0]
    /\ got' = [got EXCEPT ![s] = <<>>]
    /\ UNCHANGED <<rest, chunks, signal>>

\* Purge of a queue: what is claimed by now ...
PurgeEnd(s) ==
    /\ s \in open /\ consume
    /\ Hold(s, "free", "purge")
    /\ snap' = [snap EXCEPT ![s] = head]
    /\ UNCHANGED <<rest, chunks, chunk, idx, offset, signal, got>>

\* Where an offset is, once its chunk is linked.
ChunkOf(o) == CHOOSE ch \in 1 .. Len(chunks) : chunks[ch].base <= o /\ o < end(ch)
SlotOf(o)  == o - chunks[ChunkOf(o)].base

Ready(o) == /\ \E ch \in 1 .. Len(chunks) : chunks[ch].base <= o /\ o < end(ch)
            /\ chunks[ChunkOf(o)].ready[SlotOf(o)]

\* ... is returned and cleared when all of it is ready; each waits for that.
PurgeTake(s) ==
    LET taken == {o \in offset[s] .. snap[s] : o < snap[s]} IN
    /\ Hold(s, "purge", "free")
    /\ \A o \in taken : Ready(o)
    /\ got' = [got EXCEPT ![s] = [i \in 1 .. snap[s] - offset[s] |->
                 LET o == offset[s] + i - 1 IN chunks[ChunkOf(o)].data[SlotOf(o)]]]
    /\ chunks' = [ch \in DOMAIN chunks |->
         [chunks[ch] EXCEPT !.data = [i \in 0 .. Chunk - 1 |->
            IF chunks[ch].base + i \in taken THEN Zero ELSE @[i]]]]
    /\ IF taken = {} THEN UNCHANGED <<chunk, idx>>
       ELSE LET ch == ChunkOf(snap[s] - 1) IN
            /\ chunk' = [chunk EXCEPT ![s] = ch]
            /\ idx' = [idx EXCEPT ![s] = snap[s] - chunks[ch].base]
    /\ offset' = [offset EXCEPT ![s] = snap[s]]
    /\ snap' = [snap EXCEPT ![s] = 0]
    /\ UNCHANGED <<rest, signal>>

CursorStep(s) ==
    \/ Dequeue(s) \/ DequeueHop(s) \/ DequeueMiss(s) \/ DequeueClaimed(s) \/ DequeueRead(s)
    \/ SeekHead(s) \/ PurgeTake(s)

(***************************************************************************)
(* Subscribe, Unsubscribe and Close                                        *)
(***************************************************************************)
\* No Publish holds t.mx for reading, no Unsubscribe for writing.
TopicFree == ~consume /\ tmx = None /\ \A p \in Publishers : At(p, "ready")

\* Mutant of Subscribe: a closed topic still takes subscribers.
SubscribeAnyway(s) ==
    /\ TopicFree /\ s \notin open
    /\ chunks' = IF tail = 0 THEN <<newChunk(head)>> ELSE chunks
    /\ tail' = IF tail = 0 THEN 1 ELSE tail
    /\ open' = open \cup {s}
    /\ chunk' = [chunk EXCEPT ![s] = tail']
    /\ idx' = [idx EXCEPT ![s] = head - chunks'[tail'].base]
    /\ offset' = [offset EXCEPT ![s] = head]
    /\ got' = [got EXCEPT ![s] = <<>>]
    /\ UNCHANGED <<how, closed, tmx, lmx, head, pvars, cpc, snap, signal, made, order>>

\* A new cursor at the head, which no Publish can move meanwhile; a closed
\* topic closes it again at once.
Subscribe(s) ==
    /\ TopicFree /\ s \notin open
    /\ chunks' = IF tail = 0 THEN <<newChunk(head)>> ELSE chunks
    /\ tail' = IF tail = 0 THEN 1 ELSE tail
    /\ IF closed THEN UNCHANGED <<open, chunk, idx, offset, got>>
       ELSE /\ open' = open \cup {s}
            /\ chunk' = [chunk EXCEPT ![s] = tail']
            /\ idx' = [idx EXCEPT ![s] = head - chunks'[tail'].base]
            /\ offset' = [offset EXCEPT ![s] = head]
            /\ got' = [got EXCEPT ![s] = <<>>]
    /\ UNCHANGED <<how, closed, tmx, lmx, head, pvars, cpc, snap, signal, made, order>>

\* Unsubscribe holds t.mx while it waits for the cursor's lock.
UnsubscribeLock(s) ==
    /\ TopicFree /\ s \in open
    /\ tmx' = s
    /\ UNCHANGED <<how, closed, lmx, chunks, tail, head, pvars, open, cvars, signal, made,
                   order>>

UnsubscribeClose(s) ==
    /\ tmx = s /\ cpc[s] = "free"
    /\ tmx' = None
    /\ open' = open \ {s}
    /\ chunk' = [chunk EXCEPT ![s] = 0]
    /\ idx' = [idx EXCEPT ![s] = 0]
    /\ offset' = [offset EXCEPT ![s] = 0]
    /\ signal' = [signal EXCEPT ![s] = FALSE]
    /\ UNCHANGED <<how, closed, lmx, chunks, tail, head, pvars, cpc, snap, got, made, order>>

\* Close of a topic, which then unsubscribes everybody, or of a queue.
Close ==
    /\ ~closed /\ (consume \/ TopicFree)
    /\ closed' = TRUE
    /\ UNCHANGED <<how, tmx, lmx, chunks, tail, head, pvars, open, cvars, signal, made, order>>

Next ==
    \/ \E p \in Publishers : PublishStart(p) \/ PublishStep(p)
    \/ \E s \in Subs : CursorStep(s) \/ SeekTail(s) \/ PurgeEnd(s)
    \/ \E s \in Subs : Subscribe(s) \/ UnsubscribeLock(s) \/ UnsubscribeClose(s)
    \/ Close

\* A call once made goes on, and a worker that was told looks; a lock is not
\* starved.  Nobody has to publish, purge, subscribe, unsubscribe or close, but
\* a closed topic unsubscribes everybody.
Fairness ==
    /\ \A p \in Publishers : SF_vars(PublishStep(p))
    /\ \A s \in Subs : /\ WF_vars(CursorStep(s))
                       /\ SF_vars(UnsubscribeClose(s) \/ (closed /\ UnsubscribeLock(s)))

Spec     == Init /\ [][Next]_vars
FairSpec == Spec /\ Fairness

(***************************************************************************)
(* Properties                                                              *)
(***************************************************************************)
\* seekHead's "tail.base <= head": a cursor's chunk, counted from its base, is
\* exactly where its offset says, however far the tail lags behind the head; and
\* a writer never goes past the chunk its offset belongs to.
PositionsAgree ==
    /\ TypeOK
    /\ \A s \in open : chunks[chunk[s]].base + idx[s] = offset[s] /\ offset[s] <= head
    /\ \A p \in Publishers : pc[p] \in {"place", "alloc", "publish"}
                               => chunks[at[p]].base <= off[p]
    /\ tail # 0 => chunks[tail].base <= head

\* Every cursor is a FIFO queue of its own: no payload is skipped, read twice,
\* read before it is written or kept from one subscriber, a Purge drops (and,
\* of a queue, returns) exactly what lies before some point, and with a
\* capacity the slowest never has more unread.
Unread == [s \in Subs |-> IF s \in open THEN SubSeq(order, offset[s] + 1, head) ELSE <<>>]

FIFO == INSTANCE Fanout WITH subscribed <- open, unread <- Unread, returns <- consume

ImplementsFanout == FIFO!FSpec

\* A subscriber that stays reads everything: again and again it has caught up,
\* or it is gone.  And a closed topic gets rid of its subscribers: no Unsubscribe
\* waits forever for a cursor whose reader waits for a Publish that waits for the
\* Unsubscribe.
NobodyLeftBehind ==
    /\ \A s \in Subs : []<>(s \notin open \/ offset[s] = head)
    /\ []<>(~closed \/ consume \/ open = {})
=============================================================================
