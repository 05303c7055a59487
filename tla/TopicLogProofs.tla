--------------------------- MODULE TopicLogProofs ---------------------------
(***************************************************************************)
(* The log of chunks is a FIFO queue for each of its cursors:              *)
(* PositionsAgree and the refinement of Fanout, for any number of          *)
(* publishers, subscribers and payloads, any size of a chunk and any       *)
(* capacity.                                                               *)
(***************************************************************************)
EXTENDS TopicLog, SequenceTheorems, TLAPS

Chain == 1 .. Len(chunks)
Slots == 0 .. Chunk - 1

\* The chunks follow each other, and tail is not behind the head.
Layout ==
    /\ tail = 0 => Len(chunks) = 0
    /\ \A i, k \in Chain : i < k => chunks[i].base + Chunk <= chunks[k].base
    /\ \A i \in Chain : i + 1 \in Chain => chunks[i + 1].base = chunks[i].base + Chunk
    /\ tail # 0 => chunks[tail].base <= head
    /\ \A i \in Chain, k \in Slots : chunks[i].ready[k] => chunks[i].base + k < head

Placing == {"place", "alloc", "publish"}

\* A writer between its claim and its ready flag owns the slot of its offset:
\* nobody else claimed it, and no reader may look.
WriterAt(p) ==
    /\ pc[p] \in {"tail", "claim"} \cup Placing => open # {}
    /\ pc[p] \in {"lock", "load", "tail", "claim"} => item[p] \in Payloads
    /\ pc[p] = "claim" => at[p] \in Chain /\ chunks[at[p]].base <= head
    /\ pc[p] \in Placing =>
         /\ at[p] \in Chain /\ chunks[at[p]].base <= off[p] /\ off[p] < head
         /\ order[off[p] + 1] = item[p] /\ item[p] \in Payloads
         /\ \A i \in Chain, k \in Slots : chunks[i].ready[k] => chunks[i].base + k # off[p]
    /\ pc[p] = "publish" => off[p] < end(at[p]) /\ chunks[at[p]].data[Slot(p)] = item[p]

Writers ==
    /\ \A p \in Publishers : WriterAt(p)
    /\ \A p, q \in Publishers : pc[p] \in Placing /\ pc[q] \in Placing /\ p # q => off[p] # off[q]

\* While a Publish is under way nobody leaves; a bounded one is alone, and there
\* is room for its payload.
Locks ==
    /\ consume => tmx = None /\ open = {Owner}
    /\ tmx # None => tmx \in open /\ \A p \in Publishers : pc[p] = "ready"
    /\ \A p \in Publishers : limit # 0 /\ pc[p] \in {"load", "tail", "claim"} \cup Placing => lmx = p
    /\ \A p \in Publishers : limit # 0 /\ pc[p] \in {"load", "tail", "claim"} =>
         \A s \in open : head < offset[s] + limit

\* A cursor's chunk and index are where its offset is, and what its holder
\* loaded is not behind.
CursorAt(s) ==
    /\ s \in open => /\ chunk[s] \in Chain /\ chunks[chunk[s]].base + idx[s] = offset[s]
                     /\ offset[s] <= head
    /\ cpc[s] # "free" => s \in open
    /\ cpc[s] = "seek" => ~consume /\ snap[s] \in Chain /\ chunks[snap[s]].base <= head
    /\ cpc[s] = "purge" => consume /\ offset[s] <= snap[s] /\ snap[s] <= head

Cursors == \A s \in Subs : CursorAt(s)

\* A slot that a reader may still read holds what was claimed at its offset.
Contents ==
    /\ Len(order) = head
    /\ \A i \in Chain, k \in Slots :
         chunks[i].ready[k] /\ (consume => offset[Owner] <= chunks[i].base + k)
           => chunks[i].data[k] = order[chunks[i].base + k + 1]

LInv == TypeOK /\ Layout /\ Writers /\ Locks /\ Cursors /\ Contents

ChunkSet == [base  : Nat,
             data  : [Slots -> Payloads \cup {Zero}],
             ready : [Slots -> BOOLEAN]]

(***************************************************************************)
(* What the updates of the chain do                                        *)
(***************************************************************************)
\* Replacing one element of a sequence.
LEMMA Replace ==
    ASSUME NEW S, NEW c \in Seq(S), NEW a \in 1 .. Len(c), NEW e \in S,
           NEW d, d = [c EXCEPT ![a] = e]
    PROVE  /\ d \in Seq(S) /\ Len(d) = Len(c)
           /\ \A i \in 1 .. Len(c) : d[i] = IF i = a THEN e ELSE c[i]
OBVIOUS

\* d is c with slot k of chunk a written, or made ready.
DataSet(c, d, a, k, v) ==
    /\ d \in Seq(ChunkSet) /\ Len(d) = Len(c) /\ d[a].data[k] = v
    /\ \A i \in 1 .. Len(c) :
         /\ d[i].base = c[i].base /\ d[i].ready = c[i].ready
         /\ \A j \in Slots : i # a \/ j # k => d[i].data[j] = c[i].data[j]

ReadySet(c, d, a, k) ==
    /\ d \in Seq(ChunkSet) /\ Len(d) = Len(c)
    /\ \A i \in 1 .. Len(c) :
         /\ d[i].base = c[i].base /\ d[i].data = c[i].data
         /\ \A j \in Slots : d[i].ready[j] <=> (i = a /\ j = k) \/ c[i].ready[j]

\* d is c with an empty chunk behind it.
Linked(c, d, b) ==
    /\ d \in Seq(ChunkSet) /\ Len(d) = Len(c) + 1
    /\ \A i \in 1 .. Len(c) : d[i] = c[i]
    /\ d[Len(c) + 1].base = b /\ \A j \in Slots : ~d[Len(c) + 1].ready[j]

\* Writing a slot changes that slot's data only.
LEMMA SetData ==
    ASSUME NEW c \in Seq(ChunkSet), NEW a \in 1 .. Len(c), NEW k \in Slots,
           NEW v \in Payloads \cup {Zero}
    PROVE  \A d : d = [c EXCEPT ![a].data[k] = v] => DataSet(c, d, a, k, v)
<1> DEFINE new == [c[a].data EXCEPT ![k] = v]
           e   == [c[a] EXCEPT !.data = new]
<1>1. c[a] \in ChunkSet
  OBVIOUS
<1>2. new \in [Slots -> Payloads \cup {Zero}]
      /\ \A j \in Slots : new[j] = IF j = k THEN v ELSE c[a].data[j]
  BY <1>1 DEF ChunkSet
<1> HIDE DEF new
<1>3. e \in ChunkSet /\ e.base = c[a].base /\ e.ready = c[a].ready /\ e.data = new
  BY <1>1, <1>2 DEF ChunkSet
<1>4. [c EXCEPT ![a].data[k] = v] = [c EXCEPT ![a] = e]
  BY DEF new
<1> HIDE DEF e
<1>5. SUFFICES ASSUME NEW d, d = [c EXCEPT ![a].data[k] = v]
               PROVE  DataSet(c, d, a, k, v)
  OBVIOUS
<1>6. d = [c EXCEPT ![a] = e]
  BY <1>4, <1>5, Zenon
<1>7. d \in Seq(ChunkSet) /\ Len(d) = Len(c) /\ \A i \in 1 .. Len(c) : d[i] = IF i = a THEN e ELSE c[i]
  BY <1>3, <1>6, Replace
<1>8. ASSUME NEW i \in 1 .. Len(c), i # a PROVE d[i] = c[i]
  BY <1>7, <1>8
<1>9. d[a] = e
  BY <1>7
<1>10. QED
  BY <1>2, <1>3, <1>7, <1>8, <1>9 DEF DataSet

\* A ready flag changes nothing else.
LEMMA SetReady ==
    ASSUME NEW c \in Seq(ChunkSet), NEW a \in 1 .. Len(c), NEW k \in Slots
    PROVE  \A d : d = [c EXCEPT ![a].ready[k] = TRUE] => ReadySet(c, d, a, k)
<1> DEFINE new == [c[a].ready EXCEPT ![k] = TRUE]
           e   == [c[a] EXCEPT !.ready = new]
<1>1. c[a] \in ChunkSet
  OBVIOUS
<1>2. new \in [Slots -> BOOLEAN] /\ \A j \in Slots : new[j] <=> j = k \/ c[a].ready[j]
  BY <1>1, Zenon DEF ChunkSet
<1> HIDE DEF new
<1>3. e \in ChunkSet /\ e.base = c[a].base /\ e.data = c[a].data /\ e.ready = new
  BY <1>1, <1>2 DEF ChunkSet
<1>4. [c EXCEPT ![a].ready[k] = TRUE] = [c EXCEPT ![a] = e]
  BY DEF new
<1> HIDE DEF e
<1>5. SUFFICES ASSUME NEW d, d = [c EXCEPT ![a].ready[k] = TRUE]
               PROVE  ReadySet(c, d, a, k)
  OBVIOUS
<1>6. d = [c EXCEPT ![a] = e]
  BY <1>4, <1>5, Zenon
<1>7. d \in Seq(ChunkSet) /\ Len(d) = Len(c) /\ \A i \in 1 .. Len(c) : d[i] = IF i = a THEN e ELSE c[i]
  BY <1>3, <1>6, Replace
<1>8. ASSUME NEW i \in 1 .. Len(c), i # a PROVE d[i] = c[i]
  BY <1>7, <1>8
<1>9. d[a] = e
  BY <1>7
<1>10. QED
  BY <1>2, <1>3, <1>7, <1>8, <1>9 DEF ReadySet

\* A chunk linked at the end is empty and leaves the others alone.
LEMMA LinkChunk ==
    ASSUME NEW c \in Seq(ChunkSet), NEW b \in Nat
    PROVE  \A d : d = Append(c, newChunk(b)) => Linked(c, d, b)
BY DEF ChunkSet, newChunk, Slots, Linked

(***************************************************************************)
(* What each action that changes the chain does to it                      *)
(***************************************************************************)
\* The chain is a sequence of chunks.
LEMMA ChainType == TypeOK => chunks \in Seq(ChunkSet) /\ Chain = 1 .. Len(chunks)
BY DEF TypeOK, ChunkSet, Slots, Chain

\* The types of a chunk of the chain.
LEMMA ChunkType ==
    ASSUME NEW c \in Seq(ChunkSet), NEW i \in 1 .. Len(c)
    PROVE  /\ c[i].base \in Nat
           /\ c[i].data \in [Slots -> Payloads \cup {Zero}]
           /\ c[i].ready \in [Slots -> BOOLEAN]
<1>1. c[i] \in ChunkSet
  OBVIOUS
<1>2. QED
  BY <1>1 DEF ChunkSet

\* A chunk is linked behind the last one, by one writer.
LEMMA LinkEffect ==
    ASSUME LInv, NEW p \in Publishers, AppendLink(p)
    PROVE  \/ chunks' = chunks
           \/ /\ chunks' \in Seq(ChunkSet) /\ Len(chunks) \in Chain
              /\ Len(chunks') = Len(chunks) + 1
              /\ \A i \in Chain : chunks'[i] = chunks[i]
              /\ chunks'[Len(chunks) + 1].base = chunks[Len(chunks)].base + Chunk
              /\ \A k \in Slots : ~chunks'[Len(chunks) + 1].ready[k]
<1>1. CASE at[p] # Len(chunks)
  BY <1>1 DEF AppendLink
<1>2. CASE at[p] = Len(chunks)
  <2>1. chunks \in Seq(ChunkSet) /\ Chain = 1 .. Len(chunks)
    BY ChainType DEF LInv
  <2>2. at[p] \in Chain
    BY DEF AppendLink, At, LInv, Writers, WriterAt, Placing
  <2>3. chunks[at[p]].base + Chunk \in Nat
    BY <2>1, <2>2, ChunkType, TopicLogAssumption
  <2>4. chunks' = Append(chunks, newChunk(chunks[at[p]].base + Chunk))
    BY <1>2 DEF AppendLink, end
  <2>5. Linked(chunks, chunks', chunks[at[p]].base + Chunk)
    BY <2>1, <2>3, <2>4, LinkChunk
  <2>6. QED
    BY <1>2, <2>1, <2>2, <2>5 DEF Linked
<1>3. QED
  BY <1>1, <1>2

\* A writer's own slot, which is in its chunk.
LEMMA OwnSlot ==
    ASSUME LInv, NEW p \in Publishers, pc[p] \in Placing, off[p] < end(at[p])
    PROVE  at[p] \in Chain /\ Slot(p) \in Slots /\ chunks[at[p]].base + Slot(p) = off[p]
<1>1. chunks \in Seq(ChunkSet) /\ Chain = 1 .. Len(chunks)
  BY ChainType DEF LInv
<1>2. at[p] \in Chain /\ chunks[at[p]].base <= off[p] /\ off[p] \in Nat
  BY DEF LInv, TypeOK, Writers, WriterAt
<1>3. chunks[at[p]].base \in Nat
  BY <1>1, <1>2, ChunkType
<1>4. QED
  BY <1>2, <1>3, TopicLogAssumption DEF Slot, Slots, end

\* A writer that stores its payload changes the data of its own slot alone.
LEMMA WriteEffect ==
    ASSUME LInv, NEW p \in Publishers, AppendWrite(p)
    PROVE  /\ chunks' \in Seq(ChunkSet) /\ Len(chunks') = Len(chunks)
           /\ at[p] \in Chain /\ Slot(p) \in Slots /\ chunks[at[p]].base + Slot(p) = off[p]
           /\ chunks'[at[p]].data[Slot(p)] = item[p]
           /\ \A i \in Chain :
                /\ chunks'[i].base = chunks[i].base /\ chunks'[i].ready = chunks[i].ready
                /\ \A k \in Slots : i # at[p] \/ k # Slot(p)
                                      => chunks'[i].data[k] = chunks[i].data[k]
<1>1. chunks \in Seq(ChunkSet) /\ Chain = 1 .. Len(chunks)
  BY ChainType DEF LInv
<1>2. pc[p] \in Placing /\ off[p] < end(at[p])
  BY DEF AppendWrite, At, Placing
<1>3. at[p] \in Chain /\ Slot(p) \in Slots /\ chunks[at[p]].base + Slot(p) = off[p]
  BY <1>2, OwnSlot
<1>4. item[p] \in Payloads
  BY <1>2 DEF LInv, Writers, WriterAt
<1>5. chunks' = [chunks EXCEPT ![at[p]].data[Slot(p)] = item[p]]
  BY DEF AppendWrite
<1>6. DataSet(chunks, chunks', at[p], Slot(p), item[p])
  BY <1>1, <1>3, <1>4, <1>5, SetData
<1>7. QED
  BY <1>1, <1>3, <1>6 DEF DataSet

\* A writer that publishes raises the ready flag of its own slot alone.
LEMMA PublishEffect ==
    ASSUME LInv, NEW p \in Publishers, AppendPublish(p)
    PROVE  /\ chunks' \in Seq(ChunkSet) /\ Len(chunks') = Len(chunks)
           /\ at[p] \in Chain /\ Slot(p) \in Slots /\ chunks[at[p]].base + Slot(p) = off[p]
           /\ \A i \in Chain :
                /\ chunks'[i].base = chunks[i].base /\ chunks'[i].data = chunks[i].data
                /\ \A k \in Slots : chunks'[i].ready[k]
                                      <=> (i = at[p] /\ k = Slot(p)) \/ chunks[i].ready[k]
<1>1. chunks \in Seq(ChunkSet) /\ Chain = 1 .. Len(chunks)
  BY ChainType DEF LInv
<1>2. pc[p] \in Placing /\ off[p] < end(at[p])
  BY DEF AppendPublish, At, Placing, LInv, Writers, WriterAt
<1>3. at[p] \in Chain /\ Slot(p) \in Slots /\ chunks[at[p]].base + Slot(p) = off[p]
  BY <1>2, OwnSlot
<1>4. chunks' = [chunks EXCEPT ![at[p]].ready[Slot(p)] = TRUE]
  BY DEF AppendPublish
<1>5. ReadySet(chunks, chunks', at[p], Slot(p))
  BY <1>1, <1>3, <1>4, SetReady
<1>6. QED
  BY <1>1, <1>3, <1>5 DEF ReadySet

\* A reader reads the slot of its offset; a consumer clears it.
LEMMA ReadEffect ==
    ASSUME LInv, NEW s \in Subs, DequeueRead(s)
    PROVE  /\ chunks' \in Seq(ChunkSet) /\ Len(chunks') = Len(chunks)
           /\ s \in open /\ chunk[s] \in Chain /\ idx[s] \in Slots
           /\ chunks[chunk[s]].ready[idx[s]] /\ chunks[chunk[s]].base + idx[s] = offset[s]
           /\ offset[s] < head
           /\ \A i \in Chain :
                /\ chunks'[i].base = chunks[i].base /\ chunks'[i].ready = chunks[i].ready
                /\ \A k \in Slots : ~consume \/ i # chunk[s] \/ k # idx[s]
                                      => chunks'[i].data[k] = chunks[i].data[k]
<1>1. chunks \in Seq(ChunkSet) /\ Chain = 1 .. Len(chunks)
  BY ChainType DEF LInv
<1>2. s \in open
  BY DEF DequeueRead, Hold, LInv, Cursors, CursorAt
<1>3. chunk[s] \in Chain /\ chunks[chunk[s]].base + idx[s] = offset[s]
  BY <1>2 DEF LInv, Cursors, CursorAt
<1>4. idx[s] \in Slots
  <2>1. idx[s] \in Nat
    BY DEF LInv, TypeOK
  <2>2. idx[s] < Chunk
    BY DEF DequeueRead
  <2> QED BY <2>1, <2>2, TopicLogAssumption DEF Slots
<1>5. chunks[chunk[s]].ready[idx[s]]
  BY DEF DequeueRead
<1>6. offset[s] < head
  BY <1>3, <1>4, <1>5 DEF LInv, Layout
<1> DEFINE Others == \A i \in Chain :
              /\ chunks'[i].base = chunks[i].base /\ chunks'[i].ready = chunks[i].ready
              /\ \A k \in Slots : ~consume \/ i # chunk[s] \/ k # idx[s]
                                    => chunks'[i].data[k] = chunks[i].data[k]
<1>7. ASSUME ~consume
      PROVE  chunks' \in Seq(ChunkSet) /\ Len(chunks') = Len(chunks) /\ Others
  BY <1>1, <1>7 DEF DequeueRead
<1>8. ASSUME consume
      PROVE  chunks' \in Seq(ChunkSet) /\ Len(chunks') = Len(chunks) /\ Others
  <2>1. chunks' = [chunks EXCEPT ![chunk[s]].data[idx[s]] = Zero]
    BY <1>8 DEF DequeueRead
  <2>2. DataSet(chunks, chunks', chunk[s], idx[s], Zero)
    BY <1>1, <1>3, <1>4, <2>1, SetData
  <2>3. QED
    BY <1>1, <1>8, <2>2 DEF DataSet
<1>9. QED
  BY <1>2, <1>3, <1>4, <1>5, <1>6, <1>7, <1>8

\* Where a ready offset is.
LEMMA Located ==
    ASSUME LInv, NEW o \in Nat, Ready(o)
    PROVE  /\ ChunkOf(o) \in Chain /\ SlotOf(o) \in Slots
           /\ chunks[ChunkOf(o)].base + SlotOf(o) = o
           /\ chunks[ChunkOf(o)].ready[SlotOf(o)]
<1>1. chunks \in Seq(ChunkSet) /\ Chain = 1 .. Len(chunks)
  BY ChainType DEF LInv
<1>2. PICK c \in 1 .. Len(chunks) : chunks[c].base <= o /\ o < chunks[c].base + Chunk
  BY DEF Ready, end
<1>3. ChunkOf(o) \in 1 .. Len(chunks)
      /\ chunks[ChunkOf(o)].base <= o /\ o < chunks[ChunkOf(o)].base + Chunk
  BY <1>2, Zenon DEF ChunkOf, end
<1>4. chunks[ChunkOf(o)].base \in Nat
  BY <1>1, <1>3, ChunkType
<1>5. SlotOf(o) \in Slots /\ chunks[ChunkOf(o)].base + SlotOf(o) = o
  BY <1>3, <1>4, TopicLogAssumption DEF SlotOf, Slots
<1>6. QED
  BY <1>1, <1>3, <1>5 DEF Ready

\* What a Purge of a queue takes.
Taken(s) == {o \in offset[s] .. snap[s] : o < snap[s]}

\* A Purge of a queue takes ready slots, and resets the data of no other slot.
LEMMA PurgeEffect ==
    ASSUME LInv, NEW s \in Subs, PurgeTake(s)
    PROVE  /\ chunks' \in Seq(ChunkSet) /\ Len(chunks') = Len(chunks)
           /\ \A i \in Chain :
                /\ chunks'[i].base = chunks[i].base /\ chunks'[i].ready = chunks[i].ready
                /\ \A k \in Slots : chunks[i].base + k \notin Taken(s)
                                      => chunks'[i].data[k] = chunks[i].data[k]
           /\ \A o \in Taken(s) : Ready(o)
           /\ s \in open /\ consume /\ s = Owner
           /\ offset[s] <= snap[s] /\ snap[s] <= head
<1>1. chunks \in Seq(ChunkSet) /\ Chain = 1 .. Len(chunks)
  BY ChainType DEF LInv
<1>2. s \in open /\ consume /\ s = Owner /\ offset[s] <= snap[s] /\ snap[s] <= head
  BY DEF PurgeTake, Hold, LInv, Cursors, CursorAt, Locks
<1>3. \A o \in Taken(s) : Ready(o)
  BY DEF PurgeTake, Taken
<1> DEFINE wiped(i) == [k \in Slots |-> IF chunks[i].base + k \in Taken(s) THEN Zero
                                          ELSE chunks[i].data[k]]
           new(i)   == [chunks[i] EXCEPT !.data = wiped(i)]
<1>4. chunks' = [i \in 1 .. Len(chunks) |-> new(i)]
  <2>1. DOMAIN chunks = 1 .. Len(chunks)
    BY <1>1
  <2>2. chunks' = [i \in DOMAIN chunks |-> new(i)]
    BY DEF PurgeTake, Taken, Slots
  <2>3. QED
    BY <2>1, <2>2, Zenon
<1>5. ASSUME NEW i \in 1 .. Len(chunks)
      PROVE  /\ new(i) \in ChunkSet /\ new(i).base = chunks[i].base
             /\ new(i).ready = chunks[i].ready /\ new(i).data = wiped(i)
  <2>1. chunks[i] \in ChunkSet
    BY <1>1
  <2>2. wiped(i) \in [Slots -> Payloads \cup {Zero}]
    BY <2>1 DEF ChunkSet
  <2> HIDE DEF wiped
  <2>3. QED
    BY <2>1, <2>2 DEF ChunkSet
<1>6. ASSUME NEW i \in 1 .. Len(chunks), NEW k \in Slots, chunks[i].base + k \notin Taken(s)
      PROVE  wiped(i)[k] = chunks[i].data[k]
  BY <1>6
<1> HIDE DEF wiped, new
<1>7. chunks' \in Seq(ChunkSet) /\ Len(chunks') = Len(chunks)
      /\ \A i \in 1 .. Len(chunks) : chunks'[i] = new(i)
  BY <1>1, <1>4, <1>5
<1>8. QED
  BY <1>1, <1>2, <1>3, <1>5, <1>6, <1>7

\* The first Subscribe makes the first chunk.
LEMMA SubscribeEffect ==
    ASSUME LInv, NEW s \in Subs, Subscribe(s)
    PROVE  /\ chunks' \in Seq(ChunkSet) /\ tail' \in 1 .. Len(chunks')
           /\ chunks'[tail'].base <= head
           /\ \/ tail # 0 /\ UNCHANGED <<chunks, tail>>
              \/ /\ tail = 0 /\ Len(chunks) = 0 /\ Len(chunks') = 1 /\ tail' = 1
                 /\ chunks'[1].base = head /\ \A k \in Slots : ~chunks'[1].ready[k]
<1>1. chunks \in Seq(ChunkSet) /\ Chain = 1 .. Len(chunks)
  BY ChainType DEF LInv
<1>2. tail \in 0 .. Len(chunks) /\ head \in Nat
  BY DEF LInv, TypeOK
<1>3. CASE tail # 0
  BY <1>1, <1>2, <1>3 DEF Subscribe, LInv, Layout
<1>4. CASE tail = 0
  <2>1. chunks = <<>> /\ tail' = 1 /\ chunks' = <<newChunk(head)>>
    BY <1>1, <1>4 DEF Subscribe, LInv, Layout
  <2>2. chunks' = Append(chunks, newChunk(head)) /\ Len(chunks) = 0
    BY <2>1
  <2>3. /\ chunks' \in Seq(ChunkSet) /\ Len(chunks') = Len(chunks) + 1
        /\ chunks'[Len(chunks) + 1].base = head
        /\ \A k \in Slots : ~chunks'[Len(chunks) + 1].ready[k]
    <3>1. Linked(chunks, chunks', head)
      BY <1>1, <1>2, <2>2, LinkChunk
    <3>2. QED
      BY <3>1 DEF Linked
  <2>4. QED
    BY <1>2, <1>4, <2>1, <2>2, <2>3
<1>5. QED
  BY <1>3, <1>4

(***************************************************************************)
(* Types                                                                   *)
(***************************************************************************)
\* TypeOK in parts: the flags, the log, the writers and the readers.
Flags ==
    consume \in BOOLEAN /\ closed \in BOOLEAN /\ signal \in [Subs -> BOOLEAN]

LogType ==
    /\ chunks \in Seq(ChunkSet)
    /\ tail \in 0 .. Len(chunks) /\ head \in Nat
    /\ order \in Seq(Payloads)

WriterType ==
    /\ limit \in Limits /\ lmx \in Publishers \cup {None}
    /\ pc \in [Publishers -> {"ready", "lock", "load", "tail", "claim", "place", "alloc",
                              "publish", "notify"}]
    /\ item \in [Publishers -> Payloads \cup {Zero}]
    /\ at \in [Publishers -> Nat] /\ off \in [Publishers -> Nat]
    /\ made \in 0 .. MaxPayloads

ReaderType ==
    /\ tmx \in Subs \cup {None} /\ open \subseteq Subs
    /\ cpc \in [Subs -> {"free", "look", "miss", "seek", "purge"}]
    /\ chunk \in [Subs -> Nat] /\ idx \in [Subs -> Nat] /\ offset \in [Subs -> Nat]
    /\ snap \in [Subs -> Nat]

GotType == got \in [Subs -> Seq(Payloads \cup {Zero})]

\* The parts make up TypeOK, before and after a step.
LEMMA TypeParts ==
    /\ TypeOK <=> Flags /\ LogType /\ WriterType /\ ReaderType /\ GotType
    /\ TypeOK' <=> Flags' /\ LogType' /\ WriterType' /\ ReaderType' /\ GotType'
BY Zenon DEF TypeOK, Flags, LogType, WriterType, ReaderType, GotType, ChunkSet, Slots

\* Every action leaves each flag a Boolean.
LEMMA FlagsStep ==
    ASSUME Flags, [Next]_vars
    PROVE  Flags'
<1> USE DEF Flags, how, rest
<1>1. ASSUME NEW p \in Publishers, PublishStart(p) PROVE Flags'
  BY <1>1, Zenon DEF PublishStart
<1>2. ASSUME NEW p \in Publishers, AppendLock(p) PROVE Flags'
  BY <1>2, Zenon DEF AppendLock
<1>3. ASSUME NEW p \in Publishers, AppendLoad(p) PROVE Flags'
  BY <1>3, Zenon DEF AppendLoad
<1>4. ASSUME NEW p \in Publishers, AppendTail(p) PROVE Flags'
  BY <1>4, Zenon DEF AppendTail
<1>5. ASSUME NEW p \in Publishers, AppendClaim(p) PROVE Flags'
  BY <1>5, Zenon DEF AppendClaim
<1>6. ASSUME NEW p \in Publishers, AppendEnd(p) PROVE Flags'
  BY <1>6, Zenon DEF AppendEnd
<1>7. ASSUME NEW p \in Publishers, AppendLink(p) PROVE Flags'
  BY <1>7, Zenon DEF AppendLink
<1>8. ASSUME NEW p \in Publishers, AppendHop(p) PROVE Flags'
  BY <1>8, Zenon DEF AppendHop
<1>9. ASSUME NEW p \in Publishers, AppendWrite(p) PROVE Flags'
  BY <1>9, Zenon DEF AppendWrite
<1>10. ASSUME NEW p \in Publishers, AppendPublish(p) PROVE Flags'
  BY <1>10, Zenon DEF AppendPublish
<1>11. ASSUME NEW p \in Publishers, PublishNotify(p) PROVE Flags'
  BY <1>11, Zenon DEF PublishNotify
<1>12. ASSUME NEW s \in Subs, Dequeue(s) PROVE Flags'
  BY <1>12, Zenon DEF Dequeue
<1>13. ASSUME NEW s \in Subs, DequeueHop(s) PROVE Flags'
  BY <1>13, Zenon DEF DequeueHop
<1>14. ASSUME NEW s \in Subs, DequeueMiss(s) PROVE Flags'
  BY <1>14, Zenon DEF DequeueMiss
<1>15. ASSUME NEW s \in Subs, DequeueClaimed(s) PROVE Flags'
  <2>1. signal' = [signal EXCEPT ![s] = offset[s] < head] /\ UNCHANGED <<consume, closed>>
    BY <1>15 DEF DequeueClaimed
  <2>2. (offset[s] < head) \in BOOLEAN
    OBVIOUS
  <2>3. QED
    BY <2>1, <2>2, Zenon
<1>16. ASSUME NEW s \in Subs, DequeueRead(s) PROVE Flags'
  BY <1>16, Zenon DEF DequeueRead
<1>17. ASSUME NEW s \in Subs, SeekHead(s) PROVE Flags'
  BY <1>17, Zenon DEF SeekHead
<1>18. ASSUME NEW s \in Subs, PurgeTake(s) PROVE Flags'
  BY <1>18, Zenon DEF PurgeTake
<1>19. ASSUME NEW s \in Subs, SeekTail(s) PROVE Flags'
  BY <1>19, Zenon DEF SeekTail
<1>20. ASSUME NEW s \in Subs, PurgeEnd(s) PROVE Flags'
  BY <1>20, Zenon DEF PurgeEnd
<1>21. ASSUME NEW s \in Subs, Subscribe(s) PROVE Flags'
  BY <1>21, Zenon DEF Subscribe
<1>22. ASSUME NEW s \in Subs, UnsubscribeLock(s) PROVE Flags'
  BY <1>22, Zenon DEF UnsubscribeLock
<1>23. ASSUME NEW s \in Subs, UnsubscribeClose(s) PROVE Flags'
  BY <1>23, Zenon DEF UnsubscribeClose
<1>24. CASE Close
  BY <1>24, Zenon DEF Close
<1>25. CASE UNCHANGED vars
  BY <1>25 DEF vars
<1>26. QED
  BY <1>1, <1>2, <1>3, <1>4, <1>5, <1>6, <1>7, <1>8, <1>9, <1>10, <1>11, <1>12, <1>13,
     <1>14, <1>15, <1>16, <1>17, <1>18, <1>19, <1>20, <1>21, <1>22, <1>23, <1>24, <1>25
     DEF Next, PublishStep, CursorStep

\* A writer that returns leaves its values within their types.
LEMMA ReturnType ==
    ASSUME WriterType, NEW p \in Publishers, NEW step \in {"ready", "notify"}, Return(p, step),
           UNCHANGED <<how, made>>
    PROVE  WriterType'
BY DEF WriterType, Return, how

\* Every action leaves the writers within their types.
LEMMA WriterTypeStep ==
    ASSUME LogType, WriterType, [Next]_vars
    PROVE  WriterType'
<1> USE TopicLogAssumption DEF LogType, WriterType, how, rest, pvars, Payloads
<1>1. ASSUME NEW p \in Publishers, PublishStart(p) PROVE WriterType'
  BY <1>1 DEF PublishStart, At, Goto
<1>2. ASSUME NEW p \in Publishers, AppendLock(p) PROVE WriterType'
  <2>1. CASE Return(p, "ready")
    BY <1>2, <2>1, ReturnType DEF AppendLock
  <2>2. CASE ~Return(p, "ready")
    BY <1>2, <2>2 DEF AppendLock, Goto
  <2>3. QED
    BY <2>1, <2>2
<1>3. ASSUME NEW p \in Publishers, AppendLoad(p) PROVE WriterType'
  <2>1. CASE Return(p, "ready")
    BY <1>3, <2>1, ReturnType DEF AppendLoad
  <2>2. CASE ~Return(p, "ready")
    BY <1>3, <2>2 DEF AppendLoad, Goto
  <2>3. QED
    BY <2>1, <2>2
<1>4. ASSUME NEW p \in Publishers, AppendTail(p) PROVE WriterType'
  BY <1>4 DEF AppendTail, At, Goto
<1>5. ASSUME NEW p \in Publishers, AppendClaim(p) PROVE WriterType'
  BY <1>5 DEF AppendClaim, At, Goto
<1>6. ASSUME NEW p \in Publishers, AppendEnd(p) PROVE WriterType'
  BY <1>6 DEF AppendEnd, At, Goto, end
<1>7. ASSUME NEW p \in Publishers, AppendLink(p) PROVE WriterType'
  BY <1>7 DEF AppendLink, At, Goto
<1>8. ASSUME NEW p \in Publishers, AppendHop(p) PROVE WriterType'
  BY <1>8 DEF AppendHop, At
<1>9. ASSUME NEW p \in Publishers, AppendWrite(p) PROVE WriterType'
  BY <1>9 DEF AppendWrite, At, Goto
<1>10. ASSUME NEW p \in Publishers, AppendPublish(p) PROVE WriterType'
  BY <1>10 DEF AppendPublish, At, Return
<1>11. ASSUME NEW p \in Publishers, PublishNotify(p) PROVE WriterType'
  BY <1>11 DEF PublishNotify, At, Goto
<1>12. ASSUME NEW s \in Subs, Dequeue(s) PROVE WriterType'
  BY <1>12 DEF Dequeue, Hold
<1>13. ASSUME NEW s \in Subs, DequeueHop(s) PROVE WriterType'
  BY <1>13 DEF DequeueHop
<1>14. ASSUME NEW s \in Subs, DequeueMiss(s) PROVE WriterType'
  BY <1>14 DEF DequeueMiss, Hold
<1>15. ASSUME NEW s \in Subs, DequeueClaimed(s) PROVE WriterType'
  BY <1>15 DEF DequeueClaimed, Hold
<1>16. ASSUME NEW s \in Subs, DequeueRead(s) PROVE WriterType'
  BY <1>16 DEF DequeueRead, Hold
<1>17. ASSUME NEW s \in Subs, SeekHead(s) PROVE WriterType'
  BY <1>17 DEF SeekHead, Hold
<1>18. ASSUME NEW s \in Subs, PurgeTake(s) PROVE WriterType'
  BY <1>18 DEF PurgeTake, Hold
<1>19. ASSUME NEW s \in Subs, SeekTail(s) PROVE WriterType'
  BY <1>19 DEF SeekTail, Hold
<1>20. ASSUME NEW s \in Subs, PurgeEnd(s) PROVE WriterType'
  BY <1>20 DEF PurgeEnd, Hold
<1>21. ASSUME NEW s \in Subs, Subscribe(s) PROVE WriterType'
  BY <1>21 DEF Subscribe, TopicFree, At
<1>22. ASSUME NEW s \in Subs, UnsubscribeLock(s) PROVE WriterType'
  BY <1>22 DEF UnsubscribeLock, TopicFree, At
<1>23. ASSUME NEW s \in Subs, UnsubscribeClose(s) PROVE WriterType'
  BY <1>23 DEF UnsubscribeClose
<1>24. CASE Close
  BY <1>24 DEF Close
<1>25. CASE UNCHANGED vars
  BY <1>25 DEF vars
<1>26. QED
  BY <1>1, <1>2, <1>3, <1>4, <1>5, <1>6, <1>7, <1>8, <1>9, <1>10, <1>11, <1>12, <1>13,
     <1>14, <1>15, <1>16, <1>17, <1>18, <1>19, <1>20, <1>21, <1>22, <1>23, <1>24, <1>25
     DEF Next, PublishStep, CursorStep

\* Every action leaves the log within its type.
LEMMA LogTypeStep ==
    ASSUME LInv, [Next]_vars
    PROVE  LogType'
<1> USE DEF LogType, how, rest
<1>a. LogType /\ WriterType /\ ReaderType
  BY TypeParts DEF LInv
<1>1. ASSUME NEW p \in Publishers, PublishStart(p) PROVE LogType'
  BY <1>1, <1>a DEF PublishStart
<1>2. ASSUME NEW p \in Publishers, AppendLock(p) PROVE LogType'
  BY <1>2, <1>a DEF AppendLock
<1>3. ASSUME NEW p \in Publishers, AppendLoad(p) PROVE LogType'
  BY <1>3, <1>a DEF AppendLoad
<1>4. ASSUME NEW p \in Publishers, AppendTail(p) PROVE LogType'
  BY <1>4, <1>a DEF AppendTail
<1>5. ASSUME NEW p \in Publishers, AppendClaim(p) PROVE LogType'
  <2>1. item[p] \in Payloads
    BY <1>5 DEF AppendClaim, At, LInv, Writers, WriterAt
  <2>2. QED
    BY <1>5, <1>a, <2>1 DEF AppendClaim
<1>6. ASSUME NEW p \in Publishers, AppendEnd(p) PROVE LogType'
  BY <1>6, <1>a DEF AppendEnd
<1>7. ASSUME NEW p \in Publishers, AppendLink(p) PROVE LogType'
  BY <1>7, <1>a, LinkEffect DEF AppendLink
<1>8. ASSUME NEW p \in Publishers, AppendHop(p) PROVE LogType'
  BY <1>8, <1>a DEF AppendHop, WriterType
<1>9. ASSUME NEW p \in Publishers, AppendWrite(p) PROVE LogType'
  BY <1>9, <1>a, WriteEffect DEF AppendWrite
<1>10. ASSUME NEW p \in Publishers, AppendPublish(p) PROVE LogType'
  BY <1>10, <1>a, PublishEffect DEF AppendPublish
<1>11. ASSUME NEW p \in Publishers, PublishNotify(p) PROVE LogType'
  BY <1>11, <1>a DEF PublishNotify
<1>12. ASSUME NEW s \in Subs, Dequeue(s) PROVE LogType'
  BY <1>12, <1>a DEF Dequeue
<1>13. ASSUME NEW s \in Subs, DequeueHop(s) PROVE LogType'
  BY <1>13, <1>a DEF DequeueHop
<1>14. ASSUME NEW s \in Subs, DequeueMiss(s) PROVE LogType'
  BY <1>14, <1>a DEF DequeueMiss
<1>15. ASSUME NEW s \in Subs, DequeueClaimed(s) PROVE LogType'
  BY <1>15, <1>a DEF DequeueClaimed
<1>16. ASSUME NEW s \in Subs, DequeueRead(s) PROVE LogType'
  BY <1>16, <1>a, ReadEffect DEF DequeueRead
<1>17. ASSUME NEW s \in Subs, SeekHead(s) PROVE LogType'
  BY <1>17, <1>a DEF SeekHead
<1>18. ASSUME NEW s \in Subs, PurgeTake(s) PROVE LogType'
  BY <1>18, <1>a, PurgeEffect DEF PurgeTake
<1>19. ASSUME NEW s \in Subs, SeekTail(s) PROVE LogType'
  BY <1>19, <1>a DEF SeekTail
<1>20. ASSUME NEW s \in Subs, PurgeEnd(s) PROVE LogType'
  BY <1>20, <1>a DEF PurgeEnd
<1>21. ASSUME NEW s \in Subs, Subscribe(s) PROVE LogType'
  BY <1>21, <1>a, SubscribeEffect DEF Subscribe
<1>22. ASSUME NEW s \in Subs, UnsubscribeLock(s) PROVE LogType'
  BY <1>22, <1>a DEF UnsubscribeLock
<1>23. ASSUME NEW s \in Subs, UnsubscribeClose(s) PROVE LogType'
  BY <1>23, <1>a DEF UnsubscribeClose
<1>24. CASE Close
  BY <1>24, <1>a DEF Close
<1>25. CASE UNCHANGED vars
  BY <1>25, <1>a DEF vars
<1>26. QED
  BY <1>1, <1>2, <1>3, <1>4, <1>5, <1>6, <1>7, <1>8, <1>9, <1>10, <1>11, <1>12, <1>13,
     <1>14, <1>15, <1>16, <1>17, <1>18, <1>19, <1>20, <1>21, <1>22, <1>23, <1>24, <1>25
     DEF Next, PublishStep, CursorStep

\* Every action leaves the readers within their types.
LEMMA ReaderTypeStep ==
    ASSUME LInv, [Next]_vars
    PROVE  ReaderType'
<1> USE DEF ReaderType, how, rest, cvars
<1>a. LogType /\ ReaderType
  BY TypeParts DEF LInv
<1>1. ASSUME NEW p \in Publishers, PublishStart(p) PROVE ReaderType'
  BY <1>1, <1>a DEF PublishStart, At, Goto
<1>2. ASSUME NEW p \in Publishers, AppendLock(p) PROVE ReaderType'
  BY <1>2, <1>a DEF AppendLock, At, Goto, Return, full
<1>3. ASSUME NEW p \in Publishers, AppendLoad(p) PROVE ReaderType'
  BY <1>3, <1>a DEF AppendLoad, At, Goto, Return
<1>4. ASSUME NEW p \in Publishers, AppendTail(p) PROVE ReaderType'
  BY <1>4, <1>a DEF AppendTail, At, Goto
<1>5. ASSUME NEW p \in Publishers, AppendClaim(p) PROVE ReaderType'
  BY <1>5, <1>a DEF AppendClaim, At, Goto
<1>6. ASSUME NEW p \in Publishers, AppendEnd(p) PROVE ReaderType'
  BY <1>6, <1>a DEF AppendEnd, At, Goto, end
<1>7. ASSUME NEW p \in Publishers, AppendLink(p) PROVE ReaderType'
  BY <1>7, <1>a DEF AppendLink, At, Goto
<1>8. ASSUME NEW p \in Publishers, AppendHop(p) PROVE ReaderType'
  BY <1>8, <1>a DEF AppendHop, At
<1>9. ASSUME NEW p \in Publishers, AppendWrite(p) PROVE ReaderType'
  BY <1>9, <1>a DEF AppendWrite, At, Goto
<1>10. ASSUME NEW p \in Publishers, AppendPublish(p) PROVE ReaderType'
  BY <1>10, <1>a DEF AppendPublish, At, Return
<1>11. ASSUME NEW p \in Publishers, PublishNotify(p) PROVE ReaderType'
  BY <1>11, <1>a DEF PublishNotify, At, Goto
<1>12. ASSUME NEW s \in Subs, Dequeue(s) PROVE ReaderType'
  BY <1>12, <1>a DEF Dequeue, Hold
<1>13. ASSUME NEW s \in Subs, DequeueHop(s) PROVE ReaderType'
  <2>1. idx[s] - Chunk \in Nat /\ chunk[s] + 1 \in Nat
    BY <1>13, <1>a, TopicLogAssumption, SMTT(30) DEF DequeueHop
  <2>2. QED
    BY <1>13, <1>a, <2>1 DEF DequeueHop
<1>14. ASSUME NEW s \in Subs, DequeueMiss(s) PROVE ReaderType'
  BY <1>14, <1>a DEF DequeueMiss, Hold
<1>15. ASSUME NEW s \in Subs, DequeueClaimed(s) PROVE ReaderType'
  BY <1>15, <1>a DEF DequeueClaimed, Hold
<1>16. ASSUME NEW s \in Subs, DequeueRead(s) PROVE ReaderType'
  BY <1>16, <1>a DEF DequeueRead, Hold
<1>17. ASSUME NEW s \in Subs, SeekHead(s) PROVE ReaderType'
  <2>1. snap[s] \in Chain /\ chunks[snap[s]].base <= head
    BY <1>17 DEF SeekHead, Hold, LInv, Cursors, CursorAt
  <2>2. chunks[snap[s]].base \in Nat
    BY <1>a, <2>1, ChunkType DEF LogType, Chain
  <2>3. head - chunks[snap[s]].base \in Nat
    <3>1. head \in Nat
      BY <1>a DEF LogType
    <3> QED BY <2>1, <2>2, <3>1
  <2>4. QED
    BY <1>17, <1>a, <2>1, <2>3 DEF SeekHead, Hold, LogType, Chain
<1>18. ASSUME NEW s \in Subs, PurgeTake(s) PROVE ReaderType'
  <2>1. CASE Taken(s) = {}
    BY <1>18, <1>a, <2>1 DEF PurgeTake, Hold, Taken
  <2>2. CASE Taken(s) # {}
    <3>1. snap[s] \in Nat /\ offset[s] \in Nat /\ snap[s] - 1 \in Taken(s)
      BY <1>a, <2>2 DEF Taken
    <3>2. /\ ChunkOf(snap[s] - 1) \in Chain /\ SlotOf(snap[s] - 1) \in Slots
          /\ chunks[ChunkOf(snap[s] - 1)].base + SlotOf(snap[s] - 1) = snap[s] - 1
      BY <1>18, <3>1, PurgeEffect, Located DEF Taken
    <3>3. chunks[ChunkOf(snap[s] - 1)].base \in Nat
      BY <1>a, <3>2, ChunkType DEF LogType, Chain
    <3>4. snap[s] - chunks[ChunkOf(snap[s] - 1)].base \in Nat /\ ChunkOf(snap[s] - 1) \in Nat
      BY <3>1, <3>2, <3>3, TopicLogAssumption DEF Slots, Chain
    <3>5. QED
      BY <1>18, <1>a, <2>2, <3>1, <3>4 DEF PurgeTake, Hold, Taken
  <2>3. QED
    BY <2>1, <2>2
<1>19. ASSUME NEW s \in Subs, SeekTail(s) PROVE ReaderType'
  BY <1>19, <1>a DEF SeekTail, Hold, LogType
<1>20. ASSUME NEW s \in Subs, PurgeEnd(s) PROVE ReaderType'
  BY <1>20, <1>a DEF PurgeEnd, Hold, LogType
<1>21. ASSUME NEW s \in Subs, Subscribe(s) PROVE ReaderType'
  <2>1. chunks'[tail'].base \in Nat /\ chunks'[tail'].base <= head /\ tail' \in Nat
    BY <1>21, SubscribeEffect, ChunkType
  <2>2. head \in Nat /\ head - chunks'[tail'].base \in Nat
    <3>1. head \in Nat
      BY <1>a DEF LogType
    <3> QED BY <2>1, <3>1
  <2>3. UNCHANGED <<tmx, cpc, snap>>
    BY <1>21 DEF Subscribe
  <2>4. CASE closed
    BY <1>21, <1>a, <2>3, <2>4 DEF Subscribe
  <2>5. CASE ~closed
    <3>1. open' = open \cup {s} /\ chunk' = [chunk EXCEPT ![s] = tail']
          /\ idx' = [idx EXCEPT ![s] = head - chunks'[tail'].base]
          /\ offset' = [offset EXCEPT ![s] = head]
      BY <1>21, <2>5 DEF Subscribe
    <3> QED BY <1>a, <2>1, <2>2, <2>3, <3>1
  <2>6. QED
    BY <2>4, <2>5
<1>22. ASSUME NEW s \in Subs, UnsubscribeLock(s) PROVE ReaderType'
  BY <1>22, <1>a DEF UnsubscribeLock, TopicFree, At
<1>23. ASSUME NEW s \in Subs, UnsubscribeClose(s) PROVE ReaderType'
  BY <1>23, <1>a DEF UnsubscribeClose
<1>24. CASE Close
  BY <1>24, <1>a DEF Close
<1>25. CASE UNCHANGED vars
  BY <1>25, <1>a DEF vars
<1>26. QED
  BY <1>1, <1>2, <1>3, <1>4, <1>5, <1>6, <1>7, <1>8, <1>9, <1>10, <1>11, <1>12, <1>13,
     <1>14, <1>15, <1>16, <1>17, <1>18, <1>19, <1>20, <1>21, <1>22, <1>23, <1>24, <1>25
     DEF Next, PublishStep, CursorStep

\* Every action leaves what was read within its type.
LEMMA GotTypeStep ==
    ASSUME LInv, [Next]_vars
    PROVE  GotType'
<1> USE DEF GotType, how, rest, cvars
<1>a. LogType /\ ReaderType /\ GotType
  BY TypeParts DEF LInv
<1>1. ASSUME NEW p \in Publishers, PublishStart(p) PROVE GotType'
  BY <1>1, <1>a DEF PublishStart
<1>2. ASSUME NEW p \in Publishers, AppendLock(p) PROVE GotType'
  BY <1>2, <1>a DEF AppendLock
<1>3. ASSUME NEW p \in Publishers, AppendLoad(p) PROVE GotType'
  BY <1>3, <1>a DEF AppendLoad
<1>4. ASSUME NEW p \in Publishers, AppendTail(p) PROVE GotType'
  BY <1>4, <1>a DEF AppendTail
<1>5. ASSUME NEW p \in Publishers, AppendClaim(p) PROVE GotType'
  BY <1>5, <1>a DEF AppendClaim
<1>6. ASSUME NEW p \in Publishers, AppendEnd(p) PROVE GotType'
  BY <1>6, <1>a DEF AppendEnd
<1>7. ASSUME NEW p \in Publishers, AppendLink(p) PROVE GotType'
  BY <1>7, <1>a DEF AppendLink
<1>8. ASSUME NEW p \in Publishers, AppendHop(p) PROVE GotType'
  BY <1>8, <1>a DEF AppendHop
<1>9. ASSUME NEW p \in Publishers, AppendWrite(p) PROVE GotType'
  BY <1>9, <1>a DEF AppendWrite
<1>10. ASSUME NEW p \in Publishers, AppendPublish(p) PROVE GotType'
  BY <1>10, <1>a DEF AppendPublish
<1>11. ASSUME NEW p \in Publishers, PublishNotify(p) PROVE GotType'
  BY <1>11, <1>a DEF PublishNotify
<1>12. ASSUME NEW s \in Subs, Dequeue(s) PROVE GotType'
  BY <1>12, <1>a DEF Dequeue
<1>13. ASSUME NEW s \in Subs, DequeueHop(s) PROVE GotType'
  BY <1>13, <1>a DEF DequeueHop
<1>14. ASSUME NEW s \in Subs, DequeueMiss(s) PROVE GotType'
  BY <1>14, <1>a DEF DequeueMiss
<1>15. ASSUME NEW s \in Subs, DequeueClaimed(s) PROVE GotType'
  BY <1>15, <1>a DEF DequeueClaimed
<1>16. ASSUME NEW s \in Subs, DequeueRead(s) PROVE GotType'
  <2>1. chunk[s] \in Chain /\ idx[s] \in Slots
    BY <1>16, ReadEffect
  <2>2. chunks[chunk[s]].data[idx[s]] \in Payloads \cup {Zero}
    BY <1>a, <2>1, ChunkType DEF LogType, Chain
  <2>3. QED
    BY <1>16, <1>a, <2>2 DEF DequeueRead
<1>17. ASSUME NEW s \in Subs, SeekHead(s) PROVE GotType'
  BY <1>17, <1>a DEF SeekHead
<1>18. ASSUME NEW s \in Subs, PurgeTake(s) PROVE GotType'
  <2> DEFINE pos(i) == offset[s] + i - 1
             seq == [i \in 1 .. snap[s] - offset[s] |-> chunks[ChunkOf(pos(i))].data[SlotOf(pos(i))]]
  <2>1. snap[s] \in Nat /\ offset[s] \in Nat /\ snap[s] - offset[s] \in Nat
    BY <1>18, <1>a, PurgeEffect DEF ReaderType
  <2>2. ASSUME NEW i \in 1 .. snap[s] - offset[s]
        PROVE  chunks[ChunkOf(pos(i))].data[SlotOf(pos(i))] \in Payloads \cup {Zero}
    <3>1. pos(i) \in Nat /\ pos(i) \in Taken(s)
      BY <2>1 DEF Taken
    <3>2. ChunkOf(pos(i)) \in Chain /\ SlotOf(pos(i)) \in Slots
      BY <1>18, <3>1, PurgeEffect, Located
    <3>3. QED
      BY <1>a, <3>2, ChunkType DEF LogType, Chain
  <2>3. seq \in Seq(Payloads \cup {Zero})
    BY <2>1, <2>2
  <2>4. got' = [got EXCEPT ![s] = seq]
    BY <1>18 DEF PurgeTake
  <2>5. QED
    BY <1>a, <2>3, <2>4
<1>19. ASSUME NEW s \in Subs, SeekTail(s) PROVE GotType'
  BY <1>19, <1>a DEF SeekTail
<1>20. ASSUME NEW s \in Subs, PurgeEnd(s) PROVE GotType'
  BY <1>20, <1>a DEF PurgeEnd
<1>21. ASSUME NEW s \in Subs, Subscribe(s) PROVE GotType'
  <2>1. got' = got \/ got' = [got EXCEPT ![s] = <<>>]
    BY <1>21 DEF Subscribe
  <2>2. <<>> \in Seq(Payloads \cup {Zero})
    OBVIOUS
  <2>3. QED
    BY <1>a, <2>1, <2>2
<1>22. ASSUME NEW s \in Subs, UnsubscribeLock(s) PROVE GotType'
  BY <1>22, <1>a DEF UnsubscribeLock
<1>23. ASSUME NEW s \in Subs, UnsubscribeClose(s) PROVE GotType'
  BY <1>23, <1>a DEF UnsubscribeClose
<1>24. CASE Close
  BY <1>24, <1>a DEF Close
<1>25. CASE UNCHANGED vars
  BY <1>25, <1>a DEF vars
<1>26. QED
  BY <1>1, <1>2, <1>3, <1>4, <1>5, <1>6, <1>7, <1>8, <1>9, <1>10, <1>11, <1>12, <1>13,
     <1>14, <1>15, <1>16, <1>17, <1>18, <1>19, <1>20, <1>21, <1>22, <1>23, <1>24, <1>25
     DEF Next, PublishStep, CursorStep

\* Every action keeps the types.
LEMMA TypeStep ==
    ASSUME LInv, [Next]_vars
    PROVE  TypeOK'
<1>1. Flags /\ LogType /\ WriterType
  BY TypeParts DEF LInv
<1>2. QED
  BY <1>1, TypeParts, FlagsStep, LogTypeStep, WriterTypeStep, ReaderTypeStep, GotTypeStep

(***************************************************************************)
(* The chain                                                               *)
(***************************************************************************)
\* Chunks are not moved and the head does not go back.
Grows ==
    /\ chunks' \in Seq(ChunkSet) /\ head <= head'
    /\ \A i \in Chain : i \in 1 .. Len(chunks') /\ chunks'[i].base = chunks[i].base

\* No action moves a chunk or the head back.
LEMMA ChainGrows ==
    ASSUME LInv, [Next]_vars
    PROVE  Grows
<1> USE DEF Grows, how, rest
<1>a. LogType /\ Chain = 1 .. Len(chunks)
  BY TypeParts DEF LInv, Chain
<1> USE DEF LogType
<1>1. ASSUME NEW p \in Publishers, PublishStart(p) PROVE Grows
  BY <1>1, <1>a DEF PublishStart
<1>2. ASSUME NEW p \in Publishers, AppendLock(p) PROVE Grows
  BY <1>2, <1>a DEF AppendLock
<1>3. ASSUME NEW p \in Publishers, AppendLoad(p) PROVE Grows
  BY <1>3, <1>a DEF AppendLoad
<1>4. ASSUME NEW p \in Publishers, AppendTail(p) PROVE Grows
  BY <1>4, <1>a DEF AppendTail
<1>5. ASSUME NEW p \in Publishers, AppendClaim(p) PROVE Grows
  BY <1>5, <1>a DEF AppendClaim
<1>6. ASSUME NEW p \in Publishers, AppendEnd(p) PROVE Grows
  BY <1>6, <1>a DEF AppendEnd
<1>7. ASSUME NEW p \in Publishers, AppendLink(p) PROVE Grows
  BY <1>7, <1>a, LinkEffect DEF AppendLink
<1>8. ASSUME NEW p \in Publishers, AppendHop(p) PROVE Grows
  BY <1>8, <1>a DEF AppendHop
<1>9. ASSUME NEW p \in Publishers, AppendWrite(p) PROVE Grows
  <2>1. head' = head
    BY <1>9 DEF AppendWrite
  <2>2. QED
    BY <1>9, <1>a, <2>1, WriteEffect
<1>10. ASSUME NEW p \in Publishers, AppendPublish(p) PROVE Grows
  <2>1. head' = head
    BY <1>10 DEF AppendPublish
  <2>2. QED
    BY <1>10, <1>a, <2>1, PublishEffect
<1>11. ASSUME NEW p \in Publishers, PublishNotify(p) PROVE Grows
  BY <1>11, <1>a DEF PublishNotify
<1>12. ASSUME NEW s \in Subs, Dequeue(s) PROVE Grows
  BY <1>12, <1>a DEF Dequeue
<1>13. ASSUME NEW s \in Subs, DequeueHop(s) PROVE Grows
  BY <1>13, <1>a DEF DequeueHop
<1>14. ASSUME NEW s \in Subs, DequeueMiss(s) PROVE Grows
  BY <1>14, <1>a DEF DequeueMiss
<1>15. ASSUME NEW s \in Subs, DequeueClaimed(s) PROVE Grows
  BY <1>15, <1>a DEF DequeueClaimed
<1>16. ASSUME NEW s \in Subs, DequeueRead(s) PROVE Grows
  <2>1. head' = head
    BY <1>16 DEF DequeueRead
  <2>2. QED
    BY <1>16, <1>a, <2>1, ReadEffect
<1>17. ASSUME NEW s \in Subs, SeekHead(s) PROVE Grows
  BY <1>17, <1>a DEF SeekHead
<1>18. ASSUME NEW s \in Subs, PurgeTake(s) PROVE Grows
  <2>1. head' = head
    BY <1>18 DEF PurgeTake
  <2>2. QED
    BY <1>18, <1>a, <2>1, PurgeEffect
<1>19. ASSUME NEW s \in Subs, SeekTail(s) PROVE Grows
  BY <1>19, <1>a DEF SeekTail
<1>20. ASSUME NEW s \in Subs, PurgeEnd(s) PROVE Grows
  BY <1>20, <1>a DEF PurgeEnd
<1>21. ASSUME NEW s \in Subs, Subscribe(s) PROVE Grows
  BY <1>21, <1>a, SubscribeEffect DEF Subscribe
<1>22. ASSUME NEW s \in Subs, UnsubscribeLock(s) PROVE Grows
  BY <1>22, <1>a DEF UnsubscribeLock
<1>23. ASSUME NEW s \in Subs, UnsubscribeClose(s) PROVE Grows
  BY <1>23, <1>a DEF UnsubscribeClose
<1>24. CASE Close
  BY <1>24, <1>a DEF Close
<1>25. CASE UNCHANGED vars
  BY <1>25, <1>a DEF vars
<1>26. QED
  BY <1>1, <1>2, <1>3, <1>4, <1>5, <1>6, <1>7, <1>8, <1>9, <1>10, <1>11, <1>12, <1>13,
     <1>14, <1>15, <1>16, <1>17, <1>18, <1>19, <1>20, <1>21, <1>22, <1>23, <1>24, <1>25
     DEF Next, PublishStep, CursorStep

\* Only bases and ready flags count for the layout.
LEMMA SameLayout ==
    ASSUME Layout, LogType, LogType', UNCHANGED <<tail, head>>, Chain' = Chain,
           \A i \in Chain : chunks'[i].base = chunks[i].base /\ chunks'[i].ready = chunks[i].ready
    PROVE  Layout'
<1>1. Len(chunks') = Len(chunks) /\ Chain = 1 .. Len(chunks) /\ tail \in 0 .. Len(chunks)
  BY DEF Chain, LogType
<1>2. tail # 0 => tail \in Chain
  BY <1>1
<1>3. QED
  BY <1>1, <1>2 DEF Layout

\* Every action keeps the layout of the chain.
LEMMA LayoutStep ==
    ASSUME LInv, [Next]_vars
    PROVE  Layout'
<1> USE DEF Layout, how, rest
<1>a. LogType /\ Layout /\ Chain = 1 .. Len(chunks) /\ Chain' = 1 .. Len(chunks')
  BY TypeParts DEF LInv, Chain
<1>b. LogType'
  BY LogTypeStep
<1>c. ASSUME UNCHANGED <<chunks, tail, head>> PROVE Layout'
  BY <1>a, <1>c DEF Chain
<1>d. \A i \in Chain : chunks[i].base \in Nat
  BY <1>a, ChunkType DEF LogType
<1>1. ASSUME NEW p \in Publishers, PublishStart(p) PROVE Layout'
  BY <1>1, <1>c DEF PublishStart
<1>2. ASSUME NEW p \in Publishers, AppendLock(p) PROVE Layout'
  BY <1>2, <1>c DEF AppendLock
<1>3. ASSUME NEW p \in Publishers, AppendLoad(p) PROVE Layout'
  BY <1>3, <1>c DEF AppendLoad
<1>4. ASSUME NEW p \in Publishers, AppendTail(p) PROVE Layout'
  BY <1>4, <1>c DEF AppendTail
<1>5. ASSUME NEW p \in Publishers, AppendClaim(p) PROVE Layout'
  BY <1>5, <1>a, <1>d DEF AppendClaim, LogType, Slots
<1>6. ASSUME NEW p \in Publishers, AppendEnd(p) PROVE Layout'
  BY <1>6, <1>c DEF AppendEnd
<1>7. ASSUME NEW p \in Publishers, AppendLink(p) PROVE Layout'
  <2>1. CASE chunks' = chunks
    BY <1>7, <1>c, <2>1 DEF AppendLink
  <2>2. CASE chunks' # chunks
    <3> DEFINE n == Len(chunks)
    <3>1. /\ n \in Chain /\ Chain' = 1 .. n + 1 /\ n \in Nat
          /\ \A i \in Chain : chunks'[i] = chunks[i]
          /\ chunks'[n + 1].base = chunks[n].base + Chunk
          /\ \A k \in Slots : ~chunks'[n + 1].ready[k]
      BY <1>7, <1>a, <2>2, LinkEffect
    <3>2. UNCHANGED <<tail, head>> /\ tail \in 0 .. n
      BY <1>7, <1>a DEF AppendLink, LogType
    <3> HIDE DEF n
    <3>3. \A i, k \in Chain' : i < k => chunks'[i].base + Chunk <= chunks'[k].base
      <4>1. \A i \in Chain : i # n => chunks[i].base + Chunk <= chunks[n].base
        BY <1>a, <3>1 DEF n
      <4>2. ASSUME NEW i \in Chain', NEW k \in Chain', i < k
            PROVE  chunks'[i].base + Chunk <= chunks'[k].base
        <5>1. CASE k \in Chain
          BY <1>a, <3>1, <4>2, <5>1
        <5>2. CASE k = n + 1
          <6>1. i \in Chain /\ chunks'[i].base = chunks[i].base
            BY <1>a, <3>1, <4>2, <5>2 DEF n
          <6>2. QED
            BY <1>d, <3>1, <4>1, <5>2, <6>1, TopicLogAssumption
        <5>3. QED
          BY <1>a, <3>1, <5>1, <5>2 DEF n
      <4>3. QED
        BY <4>2
    <3>4. \A i \in Chain' : i + 1 \in Chain' => chunks'[i + 1].base = chunks'[i].base + Chunk
      BY <1>a, <3>1
    <3>5. \A i \in Chain', k \in Slots : chunks'[i].ready[k] => chunks'[i].base + k < head'
      BY <1>a, <3>1, <3>2
    <3>6. tail # 0 => tail \in Chain /\ chunks'[tail].base = chunks[tail].base
      BY <1>a, <3>1, <3>2 DEF n
    <3>7. tail # 0
      BY <1>a, <3>1 DEF n, LogType
    <3>8. QED
      BY <1>a, <3>2, <3>3, <3>4, <3>5, <3>6, <3>7
  <2>3. QED
    BY <2>1, <2>2
<1>8. ASSUME NEW p \in Publishers, AppendHop(p) PROVE Layout'
  <2>1. at[p] \in Chain /\ off[p] < head /\ off[p] >= end(at[p]) /\ at[p] < Len(chunks)
        /\ UNCHANGED <<chunks, head>>
    <3>1. pc[p] \in Placing /\ WriterAt(p)
      BY <1>8 DEF AppendHop, At, LInv, Writers, Placing
    <3>2. off[p] >= end(at[p]) /\ at[p] < Len(chunks) /\ UNCHANGED <<chunks, head>>
      BY <1>8 DEF AppendHop
    <3> QED BY <3>1, <3>2 DEF WriterAt
  <2>2. at[p] + 1 \in Chain /\ chunks[at[p] + 1].base = chunks[at[p]].base + Chunk
    <3>1. Len(chunks) \in Nat
      BY <1>a DEF LogType
    <3>2. at[p] + 1 \in Chain
      BY <1>a, <2>1, <3>1
    <3> QED BY <1>a, <2>1, <3>2
  <2>3. chunks[at[p] + 1].base <= head
    <3>1. off[p] \in Nat /\ head \in Nat /\ chunks[at[p]].base \in Nat /\ Chunk \in Nat
      BY <1>a, <1>d, <2>1, TypeParts, TopicLogAssumption DEF LInv, WriterType, LogType
    <3>2. QED
      BY <2>1, <2>2, <3>1 DEF end
  <2>4. tail' = tail \/ tail' = at[p] + 1
    BY <1>8 DEF AppendHop
  <2>5. Len(chunks) # 0
    BY <1>a, <2>1
  <2>6. QED
    BY <1>a, <2>1, <2>2, <2>3, <2>4, <2>5
<1>9. ASSUME NEW p \in Publishers, AppendWrite(p) PROVE Layout'
  <2>1. UNCHANGED <<tail, head>> /\ Chain' = Chain
        /\ \A i \in Chain : chunks'[i].base = chunks[i].base /\ chunks'[i].ready = chunks[i].ready
    BY <1>9, <1>a, WriteEffect DEF AppendWrite
  <2>2. QED
    BY <1>a, <1>b, <2>1, SameLayout
<1>10. ASSUME NEW p \in Publishers, AppendPublish(p) PROVE Layout'
  <2>1. UNCHANGED <<tail, head>> /\ Chain' = Chain
        /\ \A i \in Chain : chunks'[i].base = chunks[i].base
    BY <1>10, <1>a, PublishEffect DEF AppendPublish
  <2>2. off[p] < head
    BY <1>10 DEF AppendPublish, At, LInv, Writers, WriterAt, Placing
  <2>3. \A i \in Chain, k \in Slots : chunks'[i].ready[k] => chunks'[i].base + k < head
    BY <1>10, <1>a, <2>1, <2>2, PublishEffect
  <2>4. Len(chunks') = Len(chunks) /\ tail \in 0 .. Len(chunks)
    BY <1>10, <1>a, PublishEffect DEF LogType
  <2>5. tail # 0 => tail \in Chain
    BY <1>a, <2>4
  <2>6. QED
    BY <1>a, <2>1, <2>3, <2>4, <2>5
<1>11. ASSUME NEW p \in Publishers, PublishNotify(p) PROVE Layout'
  BY <1>11, <1>c DEF PublishNotify
<1>12. ASSUME NEW s \in Subs, Dequeue(s) PROVE Layout'
  BY <1>12, <1>c DEF Dequeue
<1>13. ASSUME NEW s \in Subs, DequeueHop(s) PROVE Layout'
  BY <1>13, <1>c DEF DequeueHop
<1>14. ASSUME NEW s \in Subs, DequeueMiss(s) PROVE Layout'
  BY <1>14, <1>c DEF DequeueMiss
<1>15. ASSUME NEW s \in Subs, DequeueClaimed(s) PROVE Layout'
  BY <1>15, <1>c DEF DequeueClaimed
<1>16. ASSUME NEW s \in Subs, DequeueRead(s) PROVE Layout'
  <2>1. UNCHANGED <<tail, head>> /\ Chain' = Chain
        /\ \A i \in Chain : chunks'[i].base = chunks[i].base /\ chunks'[i].ready = chunks[i].ready
    BY <1>16, <1>a, ReadEffect DEF DequeueRead
  <2>2. QED
    BY <1>a, <1>b, <2>1, SameLayout
<1>17. ASSUME NEW s \in Subs, SeekHead(s) PROVE Layout'
  BY <1>17, <1>c DEF SeekHead
<1>18. ASSUME NEW s \in Subs, PurgeTake(s) PROVE Layout'
  <2>1. UNCHANGED <<tail, head>> /\ Chain' = Chain
        /\ \A i \in Chain : chunks'[i].base = chunks[i].base /\ chunks'[i].ready = chunks[i].ready
    BY <1>18, <1>a, PurgeEffect DEF PurgeTake
  <2>2. QED
    BY <1>a, <1>b, <2>1, SameLayout
<1>19. ASSUME NEW s \in Subs, SeekTail(s) PROVE Layout'
  BY <1>19, <1>c DEF SeekTail
<1>20. ASSUME NEW s \in Subs, PurgeEnd(s) PROVE Layout'
  BY <1>20, <1>c DEF PurgeEnd
<1>21. ASSUME NEW s \in Subs, Subscribe(s) PROVE Layout'
  <2>1. CASE tail # 0
    BY <1>21, <1>c, <2>1, SubscribeEffect DEF Subscribe
  <2>2. CASE tail = 0
    <3>1. Chain' = {1} /\ tail' = 1 /\ chunks'[1].base = head /\ head' = head
          /\ \A k \in Slots : ~chunks'[1].ready[k]
      BY <1>21, <1>a, <2>2, SubscribeEffect DEF Subscribe
    <3>2. QED
      BY <1>a, <3>1 DEF LogType
  <2>3. QED
    BY <2>1, <2>2
<1>22. ASSUME NEW s \in Subs, UnsubscribeLock(s) PROVE Layout'
  BY <1>22, <1>c DEF UnsubscribeLock
<1>23. ASSUME NEW s \in Subs, UnsubscribeClose(s) PROVE Layout'
  BY <1>23, <1>c DEF UnsubscribeClose
<1>24. CASE Close
  BY <1>24, <1>c DEF Close
<1>25. CASE UNCHANGED vars
  BY <1>25, <1>c DEF vars
<1>26. QED
  BY <1>1, <1>2, <1>3, <1>4, <1>5, <1>6, <1>7, <1>8, <1>9, <1>10, <1>11, <1>12, <1>13,
     <1>14, <1>15, <1>16, <1>17, <1>18, <1>19, <1>20, <1>21, <1>22, <1>23, <1>24, <1>25
     DEF Next, PublishStep, CursorStep

(***************************************************************************)
(* Locks                                                                   *)
(***************************************************************************)
\* Nobody leaves a Publish under way, and a bounded one has room.
LEMMA LocksStep ==
    ASSUME LInv, [Next]_vars
    PROVE  Locks'
<1> USE DEF Locks, Placing, how, rest, pvars, cvars
<1>a. Flags /\ LogType /\ WriterType /\ ReaderType /\ Locks
  BY TypeParts DEF LInv
<1> USE <1>a DEF WriterType, ReaderType
<1>n. limit \in Nat /\ head \in Nat /\ \A r \in open : r \in Subs /\ offset[r] \in Nat
  BY TopicLogAssumption DEF LogType
<1>b. ASSUME NEW s \in Subs, NEW o \in Nat, o >= offset[s], offset' = [offset EXCEPT ![s] = o],
             UNCHANGED <<consume, limit, tmx, lmx, pc, open, head>>
      PROVE  Locks'
  <2>1. \A r \in open : offset[r] <= offset'[r] /\ offset'[r] \in Nat
    BY <1>b
  <2>2. \A p \in Publishers : limit # 0 /\ pc[p] \in {"load", "tail", "claim"} =>
          \A r \in open : head < offset'[r] + limit
    BY <1>n, <2>1
  <2>3. QED
    BY <1>b, <2>2
<1>1. ASSUME NEW p \in Publishers, PublishStart(p) PROVE Locks'
  BY <1>1 DEF PublishStart, At, Goto
<1>2. ASSUME NEW p \in Publishers, AppendLock(p) PROVE Locks'
  <2>1. CASE open = {} \/ closed \/ full
    BY <1>2, <2>1 DEF AppendLock, At, Return
  <2>2. CASE ~(open = {} \/ closed \/ full)
    <3>1. lmx = None /\ lmx' = p /\ pc' = [pc EXCEPT ![p] = "load"] /\ pc[p] = "lock"
          /\ UNCHANGED <<consume, limit, tmx, open, head, offset>>
      BY <1>2, <2>2 DEF AppendLock, At, Goto
    <3>2. limit # 0 => \A s \in open : head < offset[s] + limit
      BY <1>n, <2>2 DEF full
    <3>3. \A q \in Publishers : limit # 0 => pc[q] \notin {"load", "tail", "claim"} \cup Placing
      BY <3>1, TopicLogAssumption
    <3>4. QED
      BY <3>1, <3>2, <3>3
  <2>3. QED
    BY <2>1, <2>2
<1>3. ASSUME NEW p \in Publishers, AppendLoad(p) PROVE Locks'
  BY <1>3 DEF AppendLoad, At, Goto, Return
<1>4. ASSUME NEW p \in Publishers, AppendTail(p) PROVE Locks'
  BY <1>4 DEF AppendTail, At, Goto
<1>5. ASSUME NEW p \in Publishers, AppendClaim(p) PROVE Locks'
  BY <1>5 DEF AppendClaim, At, Goto
<1>6. ASSUME NEW p \in Publishers, AppendEnd(p) PROVE Locks'
  BY <1>6 DEF AppendEnd, At, Goto, end
<1>7. ASSUME NEW p \in Publishers, AppendLink(p) PROVE Locks'
  BY <1>7 DEF AppendLink, At, Goto
<1>8. ASSUME NEW p \in Publishers, AppendHop(p) PROVE Locks'
  BY <1>8 DEF AppendHop, At
<1>9. ASSUME NEW p \in Publishers, AppendWrite(p) PROVE Locks'
  BY <1>9 DEF AppendWrite, At, Goto
<1>10. ASSUME NEW p \in Publishers, AppendPublish(p) PROVE Locks'
  BY <1>10 DEF AppendPublish, At, Return
<1>11. ASSUME NEW p \in Publishers, PublishNotify(p) PROVE Locks'
  BY <1>11 DEF PublishNotify, At, Goto
<1>12. ASSUME NEW s \in Subs, Dequeue(s) PROVE Locks'
  BY <1>12 DEF Dequeue, Hold
<1>13. ASSUME NEW s \in Subs, DequeueHop(s) PROVE Locks'
  BY <1>13 DEF DequeueHop
<1>14. ASSUME NEW s \in Subs, DequeueMiss(s) PROVE Locks'
  BY <1>14 DEF DequeueMiss, Hold
<1>15. ASSUME NEW s \in Subs, DequeueClaimed(s) PROVE Locks'
  BY <1>15 DEF DequeueClaimed, Hold
<1>16. ASSUME NEW s \in Subs, DequeueRead(s) PROVE Locks'
  <2>1. offset' = [offset EXCEPT ![s] = offset[s] + 1] /\ offset[s] + 1 \in Nat
        /\ offset[s] + 1 >= offset[s] /\ UNCHANGED <<consume, limit, tmx, lmx, pc, open, head>>
    BY <1>16 DEF DequeueRead
  <2>2. QED
    BY <1>b, <2>1
<1>17. ASSUME NEW s \in Subs, SeekHead(s) PROVE Locks'
  <2>1. offset[s] <= head
    BY <1>17 DEF SeekHead, Hold, LInv, Cursors, CursorAt
  <2>2. QED
    BY <1>17, <1>b, <2>1 DEF SeekHead, Hold, LogType
<1>18. ASSUME NEW s \in Subs, PurgeTake(s) PROVE Locks'
  BY <1>18, <1>b, PurgeEffect DEF PurgeTake, Hold
<1>19. ASSUME NEW s \in Subs, SeekTail(s) PROVE Locks'
  BY <1>19 DEF SeekTail, Hold
<1>20. ASSUME NEW s \in Subs, PurgeEnd(s) PROVE Locks'
  BY <1>20 DEF PurgeEnd, Hold
<1>21. ASSUME NEW s \in Subs, Subscribe(s) PROVE Locks'
  BY <1>21 DEF Subscribe, TopicFree, At
<1>22. ASSUME NEW s \in Subs, UnsubscribeLock(s) PROVE Locks'
  BY <1>22 DEF UnsubscribeLock, TopicFree, At
<1>23. ASSUME NEW s \in Subs, UnsubscribeClose(s) PROVE Locks'
  <2>1. \A p \in Publishers : pc[p] = "ready"
    BY <1>23, TopicLogAssumption DEF UnsubscribeClose
  <2>2. ~consume
    BY <1>23, TopicLogAssumption DEF UnsubscribeClose
  <2>3. UNCHANGED <<consume, limit, pc, head>> /\ tmx' = None
    BY <1>23 DEF UnsubscribeClose
  <2>4. QED
    BY <2>1, <2>2, <2>3
<1>24. CASE Close
  BY <1>24 DEF Close
<1>25. CASE UNCHANGED vars
  BY <1>25 DEF vars
<1>26. QED
  BY <1>1, <1>2, <1>3, <1>4, <1>5, <1>6, <1>7, <1>8, <1>9, <1>10, <1>11, <1>12, <1>13,
     <1>14, <1>15, <1>16, <1>17, <1>18, <1>19, <1>20, <1>21, <1>22, <1>23, <1>24, <1>25
     DEF Next, PublishStep, CursorStep

(***************************************************************************)
(* Readers                                                                 *)
(***************************************************************************)
\* Every cursor stays where its offset says.
LEMMA CursorsStep ==
    ASSUME LInv, [Next]_vars
    PROVE  Cursors'
<1>a. LogType /\ ReaderType /\ Cursors /\ Layout /\ Chain = 1 .. Len(chunks)
  BY TypeParts DEF LInv, Chain
<1>b. LogType' /\ ReaderType' /\ Chain' = 1 .. Len(chunks')
  BY LogTypeStep, ReaderTypeStep DEF Chain
<1>c. /\ head <= head' /\ head \in Nat /\ head' \in Nat
      /\ \A i \in Chain : /\ i \in Chain' /\ chunks'[i].base = chunks[i].base
                          /\ chunks[i].base \in Nat
  BY <1>a, <1>b, ChainGrows, ChunkType DEF LogType, Grows
<1>d. ASSUME NEW r \in Subs, consume' = consume, r \in open' <=> r \in open, cpc'[r] = cpc[r],
             chunk'[r] = chunk[r], idx'[r] = idx[r], offset'[r] = offset[r], snap'[r] = snap[r]
      PROVE  CursorAt(r)'
  <2>1. CursorAt(r) /\ offset[r] \in Nat /\ snap[r] \in Nat
    BY <1>a DEF Cursors, ReaderType
  <2>2. QED
    BY <1>c, <1>d, <2>1 DEF CursorAt
<1>e. ASSUME UNCHANGED <<consume, open, cpc, chunk, idx, offset, snap>> PROVE Cursors'
  BY <1>d, <1>e DEF Cursors
<1>f. ASSUME NEW s \in Subs, \A r \in Subs : r # s => CursorAt(r)', CursorAt(s)' PROVE Cursors'
  BY <1>f DEF Cursors
<1> USE DEF how, rest, cvars
<1>1. ASSUME NEW p \in Publishers, PublishStart(p) PROVE Cursors'
  BY <1>1, <1>e DEF PublishStart
<1>2. ASSUME NEW p \in Publishers, AppendLock(p) PROVE Cursors'
  BY <1>2, <1>e DEF AppendLock
<1>3. ASSUME NEW p \in Publishers, AppendLoad(p) PROVE Cursors'
  BY <1>3, <1>e DEF AppendLoad
<1>4. ASSUME NEW p \in Publishers, AppendTail(p) PROVE Cursors'
  BY <1>4, <1>e DEF AppendTail
<1>5. ASSUME NEW p \in Publishers, AppendClaim(p) PROVE Cursors'
  BY <1>5, <1>e DEF AppendClaim
<1>6. ASSUME NEW p \in Publishers, AppendEnd(p) PROVE Cursors'
  BY <1>6, <1>e DEF AppendEnd
<1>7. ASSUME NEW p \in Publishers, AppendLink(p) PROVE Cursors'
  BY <1>7, <1>e DEF AppendLink
<1>8. ASSUME NEW p \in Publishers, AppendHop(p) PROVE Cursors'
  BY <1>8, <1>e DEF AppendHop
<1>9. ASSUME NEW p \in Publishers, AppendWrite(p) PROVE Cursors'
  BY <1>9, <1>e DEF AppendWrite
<1>10. ASSUME NEW p \in Publishers, AppendPublish(p) PROVE Cursors'
  BY <1>10, <1>e DEF AppendPublish
<1>11. ASSUME NEW p \in Publishers, PublishNotify(p) PROVE Cursors'
  BY <1>11, <1>e DEF PublishNotify
<1>12. ASSUME NEW s \in Subs, Dequeue(s) PROVE Cursors'
  <2>1. CursorAt(s)'
    BY <1>12, <1>a, <1>c DEF Dequeue, Hold, Cursors, CursorAt, ReaderType
  <2>2. \A r \in Subs : r # s => CursorAt(r)'
    BY <1>12, <1>a, <1>d DEF Dequeue, Hold, ReaderType
  <2>3. QED
    BY <1>f, <2>1, <2>2
<1>13. ASSUME NEW s \in Subs, DequeueHop(s) PROVE Cursors'
  <2>1. s \in open /\ chunk[s] \in Chain /\ chunks[chunk[s]].base + idx[s] = offset[s]
        /\ chunk[s] + 1 \in Chain
    BY <1>13, <1>a, SMTT(30) DEF DequeueHop, Cursors, CursorAt, LogType, ReaderType
  <2>2. chunks[chunk[s] + 1].base = chunks[chunk[s]].base + Chunk
    BY <1>a, <2>1 DEF Layout
  <2>3. chunks[chunk[s] + 1].base + (idx[s] - Chunk) = offset[s]
    <3>1. idx[s] \in Nat /\ Chunk \in Nat /\ chunks[chunk[s]].base \in Nat
      BY <1>a, <1>c, <2>1, TopicLogAssumption DEF ReaderType
    <3>2. QED
      BY <2>1, <2>2, <3>1
  <2>4. CursorAt(s)'
    BY <1>13, <1>a, <1>c, <2>1, <2>3 DEF DequeueHop, Cursors, CursorAt, ReaderType
  <2>5. \A r \in Subs : r # s => CursorAt(r)'
    BY <1>13, <1>a, <1>d DEF DequeueHop, ReaderType
  <2>6. QED
    BY <1>f, <2>4, <2>5
<1>14. ASSUME NEW s \in Subs, DequeueMiss(s) PROVE Cursors'
  <2>1. CursorAt(s)'
    BY <1>14, <1>a, <1>c DEF DequeueMiss, Hold, Cursors, CursorAt, ReaderType
  <2>2. \A r \in Subs : r # s => CursorAt(r)'
    BY <1>14, <1>a, <1>d DEF DequeueMiss, Hold, ReaderType
  <2>3. QED
    BY <1>f, <2>1, <2>2
<1>15. ASSUME NEW s \in Subs, DequeueClaimed(s) PROVE Cursors'
  <2>1. CursorAt(s)'
    BY <1>15, <1>a, <1>c DEF DequeueClaimed, Hold, Cursors, CursorAt, ReaderType
  <2>2. \A r \in Subs : r # s => CursorAt(r)'
    BY <1>15, <1>a, <1>d DEF DequeueClaimed, Hold, ReaderType
  <2>3. QED
    BY <1>f, <2>1, <2>2
<1>16. ASSUME NEW s \in Subs, DequeueRead(s) PROVE Cursors'
  <2>1. offset[s] < head /\ s \in open /\ chunk[s] \in Chain
        /\ chunks[chunk[s]].base + idx[s] = offset[s]
    BY <1>16, ReadEffect
  <2>2. offset' = [offset EXCEPT ![s] = @ + 1] /\ idx' = [idx EXCEPT ![s] = @ + 1]
        /\ cpc' = [cpc EXCEPT ![s] = "free"] /\ UNCHANGED <<consume, head, open, chunk, snap>>
    BY <1>16 DEF DequeueRead, Hold
  <2>3. CursorAt(s)'
    BY <1>a, <1>c, <2>1, <2>2, SMTT(30) DEF CursorAt, ReaderType
  <2>4. \A r \in Subs : r # s => CursorAt(r)'
    BY <1>a, <1>d, <2>2 DEF ReaderType
  <2>5. QED
    BY <1>f, <2>3, <2>4
<1>17. ASSUME NEW s \in Subs, SeekHead(s) PROVE Cursors'
  <2>1. snap[s] \in Chain /\ chunks[snap[s]].base <= head
    BY <1>17, <1>a DEF SeekHead, Hold, Cursors, CursorAt
  <2>2. chunks[snap[s]].base + (head - chunks[snap[s]].base) = head
    BY <1>c, <2>1
  <2>3. CursorAt(s)'
    BY <1>17, <1>a, <1>c, <2>1, <2>2 DEF SeekHead, Hold, CursorAt, ReaderType
  <2>4. \A r \in Subs : r # s => CursorAt(r)'
    BY <1>17, <1>a, <1>d DEF SeekHead, Hold, ReaderType
  <2>5. QED
    BY <1>f, <2>3, <2>4
<1>18. ASSUME NEW s \in Subs, PurgeTake(s) PROVE Cursors'
  <2>1. s \in open /\ offset[s] <= snap[s] /\ snap[s] <= head
    BY <1>18, PurgeEffect
  <2>2. chunk'[s] \in Chain /\ chunks[chunk'[s]].base + idx'[s] = snap[s]
    <3>1. CASE Taken(s) = {}
      <4>1. offset[s] = snap[s]
        <5>1. offset[s] \in Nat /\ snap[s] \in Nat /\ offset[s] \notin Taken(s)
          BY <1>a, <3>1 DEF ReaderType
        <5>2. QED
          BY <2>1, <5>1 DEF Taken
      <4>2. QED
        BY <1>18, <1>a, <2>1, <3>1, <4>1 DEF PurgeTake, Taken, Cursors, CursorAt
    <3>2. CASE Taken(s) # {}
      <4> DEFINE c == ChunkOf(snap[s] - 1)
      <4>1. snap[s] \in Nat /\ snap[s] - 1 \in Nat /\ snap[s] - 1 \in Taken(s)
        BY <1>a, <3>2 DEF Taken, ReaderType
      <4>2. c \in Chain
        BY <1>18, <4>1, PurgeEffect, Located
      <4>3. chunk'[s] = c /\ idx'[s] = snap[s] - chunks[c].base
        BY <1>18, <1>a, <3>2 DEF PurgeTake, Taken, ReaderType
      <4> HIDE DEF c
      <4>4. QED
        BY <1>c, <4>1, <4>2, <4>3
    <3>3. QED
      BY <3>1, <3>2
  <2>3. offset' = [offset EXCEPT ![s] = snap[s]] /\ cpc' = [cpc EXCEPT ![s] = "free"]
        /\ snap' = [snap EXCEPT ![s] = 0] /\ UNCHANGED <<consume, head, open>>
    BY <1>18 DEF PurgeTake, Hold
  <2>4. \A r \in Subs : r # s => chunk'[r] = chunk[r] /\ idx'[r] = idx[r]
    BY <1>18, <1>a DEF PurgeTake, ReaderType
  <2>5. CursorAt(s)'
    BY <1>a, <1>c, <2>1, <2>2, <2>3 DEF CursorAt, ReaderType
  <2>6. \A r \in Subs : r # s => CursorAt(r)'
    BY <1>a, <1>d, <2>3, <2>4 DEF ReaderType
  <2>7. QED
    BY <1>f, <2>5, <2>6
<1>19. ASSUME NEW s \in Subs, SeekTail(s) PROVE Cursors'
  <2>1. tail \in Chain /\ chunks[tail].base <= head
    <3>1. Len(chunks) # 0
      BY <1>19, <1>a DEF SeekTail, Cursors, CursorAt, LogType
    <3>2. QED
      BY <1>a, <3>1 DEF Layout, LogType
  <2>2. CursorAt(s)'
    BY <1>19, <1>a, <1>c, <2>1 DEF SeekTail, Hold, Cursors, CursorAt, ReaderType
  <2>3. \A r \in Subs : r # s => CursorAt(r)'
    BY <1>19, <1>a, <1>d DEF SeekTail, Hold, ReaderType
  <2>4. QED
    BY <1>f, <2>2, <2>3
<1>20. ASSUME NEW s \in Subs, PurgeEnd(s) PROVE Cursors'
  <2>1. CursorAt(s)'
    BY <1>20, <1>a, <1>c DEF PurgeEnd, Hold, Cursors, CursorAt, ReaderType
  <2>2. \A r \in Subs : r # s => CursorAt(r)'
    BY <1>20, <1>a, <1>d DEF PurgeEnd, Hold, ReaderType
  <2>3. QED
    BY <1>f, <2>1, <2>2
<1>21. ASSUME NEW s \in Subs, Subscribe(s) PROVE Cursors'
  <2>1. tail' \in Chain' /\ chunks'[tail'].base <= head /\ head' = head
    BY <1>21, <1>b, SubscribeEffect DEF Subscribe
  <2>2. chunks'[tail'].base + (head - chunks'[tail'].base) = head
    <3>1. chunks'[tail'].base \in Nat
      BY <1>b, <2>1, ChunkType DEF LogType
    <3>2. QED
      BY <1>c, <2>1, <3>1
  <2>3. CASE closed
    BY <1>21, <1>e, <2>3 DEF Subscribe
  <2>4. CASE ~closed
    <3>1. /\ open' = open \cup {s} /\ chunk' = [chunk EXCEPT ![s] = tail']
          /\ idx' = [idx EXCEPT ![s] = head - chunks'[tail'].base]
          /\ offset' = [offset EXCEPT ![s] = head]
          /\ UNCHANGED <<consume, cpc, snap>>
      BY <1>21, <2>4 DEF Subscribe
    <3>2. cpc[s] = "free"
      BY <1>21, <1>a DEF Subscribe, Cursors, CursorAt
    <3>3. CursorAt(s)'
      BY <1>a, <1>c, <2>1, <2>2, <3>1, <3>2 DEF CursorAt, ReaderType
    <3>4. \A r \in Subs : r # s => CursorAt(r)'
      BY <1>a, <1>d, <3>1 DEF ReaderType
    <3>5. QED
      BY <1>f, <3>3, <3>4
  <2>5. QED
    BY <2>3, <2>4
<1>22. ASSUME NEW s \in Subs, UnsubscribeLock(s) PROVE Cursors'
  BY <1>22, <1>e DEF UnsubscribeLock
<1>23. ASSUME NEW s \in Subs, UnsubscribeClose(s) PROVE Cursors'
  <2>1. CursorAt(s)'
    BY <1>23, <1>a, <1>c DEF UnsubscribeClose, Cursors, CursorAt, ReaderType
  <2>2. \A r \in Subs : r # s => CursorAt(r)'
    BY <1>23, <1>a, <1>d DEF UnsubscribeClose, ReaderType
  <2>3. QED
    BY <1>f, <2>1, <2>2
<1>24. CASE Close
  BY <1>24, <1>e DEF Close
<1>25. CASE UNCHANGED vars
  BY <1>25, <1>e DEF vars
<1>26. QED
  BY <1>1, <1>2, <1>3, <1>4, <1>5, <1>6, <1>7, <1>8, <1>9, <1>10, <1>11, <1>12, <1>13,
     <1>14, <1>15, <1>16, <1>17, <1>18, <1>19, <1>20, <1>21, <1>22, <1>23, <1>24, <1>25
     DEF Next, PublishStep, CursorStep

(***************************************************************************)
(* Writers                                                                 *)
(***************************************************************************)
\* Every writer keeps its slot to itself.
LEMMA WritersStep ==
    ASSUME LInv, [Next]_vars
    PROVE  Writers'
<1> DEFINE Apart == \A p, q \in Publishers :
              pc[p] \in Placing /\ pc[q] \in Placing /\ p # q => off[p] # off[q]
           NotReady(q) == \A i \in Chain', k \in Slots :
              chunks'[i].ready[k] => chunks'[i].base + k # off[q]
           SameData(q) == chunks'[at[q]].data[Slot(q)] = chunks[at[q]].data[Slot(q)]
           Left(q) == pc'[q] = pc[q] /\ item'[q] = item[q] /\ at'[q] = at[q] /\ off'[q] = off[q]
<1>a. /\ LogType /\ WriterType /\ ReaderType /\ Locks /\ Layout /\ Cursors /\ Contents
      /\ Chain = 1 .. Len(chunks)
  BY TypeParts DEF LInv, Chain
<1>b. Apart /\ \A q \in Publishers : WriterAt(q)
  BY DEF LInv, Writers
<1>c. /\ head <= head' /\ head \in Nat /\ head' \in Nat
      /\ \A i \in Chain : /\ i \in Chain' /\ chunks'[i].base = chunks[i].base
                          /\ chunks[i].base \in Nat
  BY <1>a, LogTypeStep, ChainGrows, ChunkType DEF LogType, Grows, Chain
<1>d. ASSUME NEW q \in Publishers, Left(q), open # {} => open' # {},
             order' = order \/ \E x : order' = Append(order, x),
             pc[q] \in Placing => NotReady(q),
             pc[q] = "publish" => SameData(q)
      PROVE  WriterAt(q)'
  <2>1. WriterAt(q) /\ off[q] \in Nat
    BY <1>a, <1>b DEF WriterType
  <2>2. pc[q] \in Placing => order'[off[q] + 1] = order[off[q] + 1]
    BY <1>a, <1>c, <1>d, <2>1, SMTT(30) DEF WriterAt, LogType, Contents
  <2>3. at[q] \in Chain => end(at[q])' = end(at[q]) /\ Slot(q)' = Slot(q)
    BY <1>c, <1>d DEF end, Slot
  <2>4. QED
    BY <1>c, <1>d, <2>1, <2>2, <2>3 DEF WriterAt, Placing
<1>e. ASSUME NEW q \in Publishers, Left(q), open # {} => open' # {},
             order' = order \/ \E x : order' = Append(order, x), chunks' = chunks
      PROVE  WriterAt(q)'
  <2>1. (pc[q] \in Placing => NotReady(q)) /\ SameData(q)
    BY <1>a, <1>b, <1>e DEF WriterAt, Chain
  <2>2. QED
    BY <1>d, <1>e, <2>1
<1>f. ASSUME \A q \in Publishers : pc'[q] \in Placing => pc[q] \in Placing /\ off'[q] = off[q]
      PROVE  Apart'
  BY <1>b, <1>f
<1>g. ASSUME UNCHANGED <<chunks, pvars, open, order>> PROVE Writers'
  BY <1>e, <1>f, <1>g DEF Writers, pvars
<1>h. ASSUME NEW p \in Publishers, UNCHANGED <<chunks, open, order>>, WriterAt(p)',
             pc'[p] \in Placing => pc[p] \in Placing /\ off'[p] = off[p],
             \A q \in Publishers : q # p => Left(q)
      PROVE  Writers'
  BY <1>e, <1>f, <1>h DEF Writers
<1> HIDE DEF Left, NotReady, SameData, Apart
<1>i. ASSUME NEW p \in Publishers, NEW x, pc' = [pc EXCEPT ![p] = x],
             item' = item \/ \E y : item' = [item EXCEPT ![p] = y],
             at' = at \/ \E y : at' = [at EXCEPT ![p] = y],
             off' = off \/ \E y : off' = [off EXCEPT ![p] = y]
      PROVE  \A q \in Publishers : q # p => Left(q)
  BY <1>a, <1>i DEF WriterType, Left
<1> USE DEF how, rest
<1>1. ASSUME NEW p \in Publishers, PublishStart(p) PROVE Writers'
  <2>1. \A q \in Publishers : q # p => Left(q)
    BY <1>1, <1>i DEF PublishStart, Goto, Payloads
  <2>2. WriterAt(p)'
    BY <1>1, <1>a, <1>b, <1>c, TopicLogAssumption
       DEF PublishStart, At, Goto, Payloads, WriterAt, WriterType, Placing
  <2>3. UNCHANGED <<chunks, open, order>>
        /\ (pc'[p] \in Placing => pc[p] \in Placing /\ off'[p] = off[p])
    BY <1>1, <1>a DEF PublishStart, At, Goto, Payloads, WriterType, Placing
  <2>4. QED
    BY <1>h, <2>1, <2>2, <2>3
<1>2. ASSUME NEW p \in Publishers, AppendLock(p) PROVE Writers'
  <2>1. \A q \in Publishers : q # p => Left(q)
    BY <1>2, <1>i DEF AppendLock, Goto, Return
  <2>2. WriterAt(p)'
    BY <1>2, <1>a, <1>b, <1>c DEF AppendLock, At, Goto, Return, WriterAt, WriterType, Placing
  <2>3. UNCHANGED <<chunks, open, order>>
        /\ (pc'[p] \in Placing => pc[p] \in Placing /\ off'[p] = off[p])
    BY <1>2, <1>a DEF AppendLock, At, Goto, Return, WriterType, Placing
  <2>4. QED
    BY <1>h, <2>1, <2>2, <2>3
<1>3. ASSUME NEW p \in Publishers, AppendLoad(p) PROVE Writers'
  <2>1. \A q \in Publishers : q # p => Left(q)
    BY <1>3, <1>i DEF AppendLoad, Goto, Return
  <2>2. WriterAt(p)'
    BY <1>3, <1>a, <1>b, <1>c DEF AppendLoad, At, Goto, Return, WriterAt, WriterType, Placing
  <2>3. UNCHANGED <<chunks, open, order>>
        /\ (pc'[p] \in Placing => pc[p] \in Placing /\ off'[p] = off[p])
    BY <1>3, <1>a DEF AppendLoad, At, Goto, Return, WriterType, Placing
  <2>4. QED
    BY <1>h, <2>1, <2>2, <2>3
<1>4. ASSUME NEW p \in Publishers, AppendTail(p) PROVE Writers'
  <2>0. tail \in Chain /\ chunks[tail].base <= head
    <3>1. PICK s \in open : TRUE
      BY <1>4, <1>b DEF AppendTail, At, WriterAt
    <3>2. chunk[s] \in Chain
      BY <1>a DEF Cursors, CursorAt, ReaderType
    <3>3. QED
      BY <1>a, <3>2 DEF Layout, LogType
  <2>1. \A q \in Publishers : q # p => Left(q)
    BY <1>4, <1>i DEF AppendTail, Goto
  <2>2. WriterAt(p)'
    BY <1>4, <1>a, <1>b, <1>c, <2>0 DEF AppendTail, At, Goto, WriterAt, WriterType, Placing
  <2>3. UNCHANGED <<chunks, open, order>>
        /\ (pc'[p] \in Placing => pc[p] \in Placing /\ off'[p] = off[p])
    BY <1>4, <1>a DEF AppendTail, At, Goto, WriterType, Placing
  <2>4. QED
    BY <1>h, <2>1, <2>2, <2>3
<1>5. ASSUME NEW p \in Publishers, AppendClaim(p) PROVE Writers'
  <2>1. \A q \in Publishers : q # p => Left(q)
    BY <1>5, <1>i DEF AppendClaim, Goto
  <2>2. /\ pc[p] = "claim" /\ pc' = [pc EXCEPT ![p] = "place"] /\ off' = [off EXCEPT ![p] = head]
        /\ order' = Append(order, item[p]) /\ head' = head + 1
        /\ UNCHANGED <<chunks, open, item, at>>
    BY <1>5 DEF AppendClaim, At, Goto
  <2>3. \A q \in Publishers : q # p => WriterAt(q)'
    BY <1>e, <2>1, <2>2
  <2>4. WriterAt(p) /\ item[p] \in Payloads /\ order'[head + 1] = item[p]
    BY <1>a, <1>b, <2>2 DEF WriterAt, LogType, Contents
  <2>5. \A i \in Chain, k \in Slots : chunks[i].ready[k] => chunks[i].base + k # head
    BY <1>a, <1>c DEF Layout, Slots
  <2>6. WriterAt(p)'
    <3>1. /\ pc'[p] = "place" /\ off'[p] = head /\ at'[p] = at[p] /\ item'[p] = item[p]
          /\ at[p] \in Chain /\ chunks[at[p]].base <= head /\ open # {} /\ Chain' = Chain
      BY <1>a, <2>2, <2>4 DEF WriterAt, WriterType, Chain
    <3>2. /\ at'[p] \in Chain' /\ chunks'[at'[p]].base <= off'[p] /\ off'[p] < head'
          /\ order'[off'[p] + 1] = item'[p] /\ item'[p] \in Payloads
      <4>1. head' = head + 1 /\ UNCHANGED chunks
        BY <2>2
      <4>2. item[p] \in Payloads /\ order'[head + 1] = item[p]
        BY <2>4
      <4>3. QED
        BY <1>c, <3>1, <4>1, <4>2
    <3>3. \A i \in Chain', k \in Slots : chunks'[i].ready[k] => chunks'[i].base + k # off'[p]
      BY <2>2, <2>5, <3>1
    <3>4. QED
      BY <2>2, <3>1, <3>2, <3>3 DEF WriterAt
  <2>7. \A q \in Publishers : pc[q] \in Placing => off[q] # head
    BY <1>a, <1>b, <1>c DEF WriterAt, WriterType
  <2>8. Apart'
    BY <1>a, <1>b, <2>1, <2>2, <2>7 DEF Apart, Left, WriterType
  <2>9. QED
    BY <2>3, <2>6, <2>8 DEF Writers, Apart
<1>6. ASSUME NEW p \in Publishers, AppendEnd(p) PROVE Writers'
  <2>1. \A q \in Publishers : q # p => Left(q)
    BY <1>6, <1>i DEF AppendEnd, Goto
  <2>2. /\ pc[p] = "place" /\ pc' = [pc EXCEPT ![p] = "alloc"]
        /\ UNCHANGED <<chunks, open, item, at, off, order, head>>
    BY <1>6 DEF AppendEnd, At, Goto
  <2>3. pc'[p] = "alloc" /\ WriterAt(p) /\ Chain' = Chain
    BY <1>a, <1>b, <2>2 DEF WriterType, Chain
  <2>4. WriterAt(p)'
    BY <2>2, <2>3 DEF WriterAt, Placing
  <2>5. QED
    BY <1>h, <2>1, <2>2, <2>4 DEF Placing
<1>7. ASSUME NEW p \in Publishers, AppendLink(p) PROVE Writers'
  <2>1. \A q \in Publishers : q # p => Left(q)
    BY <1>7, <1>i DEF AppendLink, Goto
  <2>2. /\ pc[p] = "alloc" /\ pc' = [pc EXCEPT ![p] = "place"]
        /\ UNCHANGED <<open, item, at, off, order, head>>
    BY <1>7 DEF AppendLink, At, Goto
  <2>3. \A i \in Chain : chunks'[i] = chunks[i]
    BY <1>7, <1>a, LinkEffect
  <2>4. \A i \in Chain' : i \in Chain \/ \A k \in Slots : ~chunks'[i].ready[k]
    BY <1>7, <1>a, LinkEffect DEF Chain
  <2>5. \A q \in Publishers : pc[q] \in Placing => NotReady(q) /\ SameData(q)
    BY <1>b, <2>3, <2>4 DEF WriterAt, NotReady, SameData
  <2>6. \A q \in Publishers : q # p => WriterAt(q)'
    BY <1>d, <2>1, <2>2, <2>5 DEF Placing
  <2>7. WriterAt(p) /\ NotReady(p) /\ pc'[p] = "place"
    BY <1>a, <1>b, <2>2, <2>5 DEF Placing, WriterType
  <2>8. WriterAt(p)'
    BY <1>c, <2>2, <2>7 DEF WriterAt, Placing, NotReady
  <2>9. Apart'
    BY <1>a, <1>f, <2>2 DEF WriterType, Placing, Apart
  <2>10. QED
    BY <2>6, <2>8, <2>9 DEF Writers, Apart
<1>8. ASSUME NEW p \in Publishers, AppendHop(p) PROVE Writers'
  <2>1. \A q \in Publishers : q # p => Left(q)
    BY <1>8, <1>a DEF AppendHop, Left, WriterType
  <2>2. WriterAt(p) /\ pc[p] = "place" /\ at[p] \in Chain /\ at[p] + 1 \in Chain /\ off[p] \in Nat
        /\ off[p] >= chunks[at[p]].base + Chunk
    BY <1>8, <1>a, <1>b DEF AppendHop, At, WriterAt, Placing, WriterType, LogType, end
  <2>3. chunks[at[p] + 1].base <= off[p]
    BY <1>a, <2>2 DEF Layout
  <2>4. UNCHANGED <<chunks, open, order, pc, item, off, head>> /\ at' = [at EXCEPT ![p] = @ + 1]
    BY <1>8 DEF AppendHop
  <2>5. WriterAt(p)'
    BY <1>a, <2>2, <2>3, <2>4 DEF WriterAt, WriterType, Placing, Chain
  <2>6. QED
    BY <1>h, <2>1, <2>2, <2>4, <2>5
<1>9. ASSUME NEW p \in Publishers, AppendWrite(p) PROVE Writers'
  <2>1. \A q \in Publishers : q # p => Left(q)
    BY <1>9, <1>i DEF AppendWrite, Goto
  <2>2. /\ pc[p] = "place" /\ pc' = [pc EXCEPT ![p] = "publish"] /\ off[p] < end(at[p])
        /\ UNCHANGED <<open, item, at, off, order, head>>
    BY <1>9 DEF AppendWrite, At, Goto
  <2>3. Chain' = Chain /\ \A i \in Chain : chunks'[i].ready = chunks[i].ready
    BY <1>9, <1>a, WriteEffect DEF Chain
  <2>4. \A q \in Publishers : pc[q] \in Placing => NotReady(q)
    BY <1>b, <1>c, <2>3 DEF WriterAt, NotReady
  <2>5. ASSUME NEW q \in Publishers, q # p, pc[q] = "publish" PROVE SameData(q)
    <3>1. at[q] \in Chain /\ Slot(q) \in Slots /\ chunks[at[q]].base + Slot(q) = off[q]
      BY <1>b, <2>5, OwnSlot DEF WriterAt, Placing
    <3>2. off[q] # off[p]
      BY <1>b, <2>2, <2>5 DEF Apart, Placing
    <3>3. QED
      BY <1>9, <3>1, <3>2, WriteEffect DEF SameData
  <2>6. \A q \in Publishers : q # p => WriterAt(q)'
    BY <1>d, <2>1, <2>2, <2>4, <2>5
  <2>7. WriterAt(p) /\ NotReady(p) /\ pc'[p] = "publish"
    BY <1>a, <1>b, <2>2, <2>4 DEF Placing, WriterType
  <2>8. at[p] \in Chain /\ chunks'[at[p]].data[Slot(p)] = item[p]
    BY <1>9, WriteEffect
  <2>9. end(at[p])' = end(at[p]) /\ Slot(p)' = Slot(p)
    BY <1>c, <2>2, <2>8 DEF end, Slot
  <2>10. WriterAt(p)'
    BY <1>c, <2>2, <2>7, <2>8, <2>9 DEF WriterAt, Placing, NotReady
  <2>11. Apart'
    BY <1>a, <1>f, <2>2 DEF WriterType, Placing, Apart
  <2>12. QED
    BY <2>6, <2>10, <2>11 DEF Writers, Apart
<1>10. ASSUME NEW p \in Publishers, AppendPublish(p) PROVE Writers'
  <2>1. \A q \in Publishers : q # p => Left(q)
    BY <1>10, <1>i DEF AppendPublish, Return
  <2>2. /\ pc[p] = "publish" /\ pc' = [pc EXCEPT ![p] = "notify"] /\ UNCHANGED <<open, order>>
    BY <1>10 DEF AppendPublish, At, Return
  <2>3. /\ Chain' = Chain /\ chunks[at[p]].base + Slot(p) = off[p]
        /\ \A i \in Chain : /\ chunks'[i].data = chunks[i].data
                            /\ \A k \in Slots : chunks'[i].ready[k] =>
                                 chunks[i].ready[k] \/ chunks[i].base + k = off[p]
    BY <1>10, <1>a, PublishEffect DEF Chain
  <2>4. ASSUME NEW q \in Publishers, q # p, pc[q] \in Placing PROVE NotReady(q) /\ SameData(q)
    <3>1. off[q] # off[p] /\ WriterAt(q) /\ at[q] \in Chain
      BY <1>b, <2>2, <2>4 DEF Apart, Placing, WriterAt
    <3>2. QED
      BY <1>c, <2>3, <2>4, <3>1 DEF WriterAt, NotReady, SameData
  <2>5. \A q \in Publishers : q # p => WriterAt(q)'
    BY <1>d, <2>1, <2>2, <2>4 DEF Placing
  <2>6. WriterAt(p)'
    BY <1>a, <2>2 DEF WriterAt, Placing, WriterType
  <2>7. \A q \in Publishers : pc'[q] \in Placing => pc[q] \in Placing /\ off'[q] = off[q]
    BY <1>a, <2>1, <2>2 DEF WriterType, Placing, Left
  <2>8. QED
    BY <1>f, <2>5, <2>6, <2>7 DEF Writers, Apart
<1>11. ASSUME NEW p \in Publishers, PublishNotify(p) PROVE Writers'
  <2>1. \A q \in Publishers : q # p => Left(q)
    BY <1>11, <1>i DEF PublishNotify, Goto
  <2>2. WriterAt(p)'
    BY <1>11, <1>a, <1>b, <1>c DEF PublishNotify, At, Goto, WriterAt, WriterType, Placing
  <2>3. UNCHANGED <<chunks, open, order>>
        /\ (pc'[p] \in Placing => pc[p] \in Placing /\ off'[p] = off[p])
    BY <1>11, <1>a DEF PublishNotify, At, Goto, WriterType, Placing
  <2>4. QED
    BY <1>h, <2>1, <2>2, <2>3
<1>12. ASSUME NEW s \in Subs, Dequeue(s) PROVE Writers'
  BY <1>12, <1>g DEF Dequeue, pvars
<1>13. ASSUME NEW s \in Subs, DequeueHop(s) PROVE Writers'
  BY <1>13, <1>g DEF DequeueHop, pvars
<1>14. ASSUME NEW s \in Subs, DequeueMiss(s) PROVE Writers'
  BY <1>14, <1>g DEF DequeueMiss, pvars
<1>15. ASSUME NEW s \in Subs, DequeueClaimed(s) PROVE Writers'
  BY <1>15, <1>g DEF DequeueClaimed, pvars
<1>16. ASSUME NEW s \in Subs, DequeueRead(s) PROVE Writers'
  <2>1. UNCHANGED <<pc, item, at, off, open, order>>
    BY <1>16 DEF DequeueRead, pvars
  <2>2. Chain' = Chain /\ \A i \in Chain : chunks'[i].ready = chunks[i].ready
    BY <1>16, <1>a, ReadEffect DEF Chain
  <2>3. \A q \in Publishers : Left(q) /\ (pc[q] \in Placing => NotReady(q))
    BY <1>b, <1>c, <2>1, <2>2 DEF WriterAt, NotReady, Left
  <2>4. ASSUME NEW q \in Publishers, pc[q] = "publish" PROVE SameData(q)
    <3>1. /\ at[q] \in Chain /\ Slot(q) \in Slots /\ chunks[at[q]].base + Slot(q) = off[q]
          /\ ~chunks[at[q]].ready[Slot(q)]
      BY <1>b, <2>4, OwnSlot DEF WriterAt, Placing
    <3>2. QED
      BY <1>16, <3>1, ReadEffect DEF SameData
  <2>5. \A q \in Publishers : WriterAt(q)'
    BY <1>d, <2>1, <2>3, <2>4
  <2>6. QED
    BY <1>f, <2>1, <2>5 DEF Writers, Apart
<1>17. ASSUME NEW s \in Subs, SeekHead(s) PROVE Writers'
  BY <1>17, <1>g DEF SeekHead, pvars
<1>18. ASSUME NEW s \in Subs, PurgeTake(s) PROVE Writers'
  <2>1. UNCHANGED <<pc, item, at, off, open, order>>
    BY <1>18 DEF PurgeTake, pvars
  <2>2. Chain' = Chain /\ \A i \in Chain : chunks'[i].ready = chunks[i].ready
    BY <1>18, <1>a, PurgeEffect DEF Chain
  <2>3. \A q \in Publishers : Left(q) /\ (pc[q] \in Placing => NotReady(q))
    BY <1>b, <1>c, <2>1, <2>2 DEF WriterAt, NotReady, Left
  <2>4. ASSUME NEW q \in Publishers, pc[q] = "publish" PROVE SameData(q)
    <3>1. /\ at[q] \in Chain /\ Slot(q) \in Slots /\ chunks[at[q]].base + Slot(q) = off[q]
          /\ \A i \in Chain, k \in Slots : chunks[i].ready[k] => chunks[i].base + k # off[q]
      BY <1>b, <2>4, OwnSlot DEF WriterAt, Placing
    <3>2. off[q] \notin Taken(s)
      <4>1. off[q] \in Nat
        BY <1>a DEF WriterType
      <4>2. Ready(off[q]) => FALSE
        BY <3>1, <4>1, Located
      <4>3. QED
        BY <1>18, <4>2, PurgeEffect
    <3>3. QED
      BY <1>18, <3>1, <3>2, PurgeEffect DEF SameData
  <2>5. \A q \in Publishers : WriterAt(q)'
    BY <1>d, <2>1, <2>3, <2>4
  <2>6. QED
    BY <1>f, <2>1, <2>5 DEF Writers, Apart
<1>19. ASSUME NEW s \in Subs, SeekTail(s) PROVE Writers'
  BY <1>19, <1>g DEF SeekTail, pvars
<1>20. ASSUME NEW s \in Subs, PurgeEnd(s) PROVE Writers'
  BY <1>20, <1>g DEF PurgeEnd, pvars
<1>21. ASSUME NEW s \in Subs, Subscribe(s) PROVE Writers'
  <2>1. UNCHANGED <<pc, item, at, off, order>> /\ \A q \in Publishers : pc[q] = "ready"
    BY <1>21 DEF Subscribe, pvars, TopicFree, At
  <2>2. QED
    BY <2>1 DEF Writers, WriterAt, Placing
<1>22. ASSUME NEW s \in Subs, UnsubscribeLock(s) PROVE Writers'
  BY <1>22, <1>g DEF UnsubscribeLock, pvars
<1>23. ASSUME NEW s \in Subs, UnsubscribeClose(s) PROVE Writers'
  <2>1. UNCHANGED <<pc, item, at, off, order>> /\ \A q \in Publishers : pc[q] = "ready"
    BY <1>23, <1>a, TopicLogAssumption DEF UnsubscribeClose, pvars, Locks
  <2>2. QED
    BY <2>1 DEF Writers, WriterAt, Placing
<1>24. CASE Close
  BY <1>24, <1>g DEF Close, pvars
<1>25. CASE UNCHANGED vars
  BY <1>25, <1>g DEF vars
<1>26. QED
  BY <1>1, <1>2, <1>3, <1>4, <1>5, <1>6, <1>7, <1>8, <1>9, <1>10, <1>11, <1>12, <1>13,
     <1>14, <1>15, <1>16, <1>17, <1>18, <1>19, <1>20, <1>21, <1>22, <1>23, <1>24, <1>25
     DEF Next, PublishStep, CursorStep

(***************************************************************************)
(* Contents                                                                *)
(***************************************************************************)
\* What may still be read is what was claimed.
LEMMA ContentsStep ==
    ASSUME LInv, [Next]_vars
    PROVE  Contents'
<1> DEFINE Unspoiled(i, k) ==
             chunks[i].ready[k] /\ (consume => offset[Owner] <= chunks[i].base + k)
               => chunks[i].data[k] = order[chunks[i].base + k + 1]
<1>a. /\ LogType /\ WriterType /\ ReaderType /\ Locks /\ Layout /\ Cursors /\ Contents
      /\ Chain = 1 .. Len(chunks)
  BY TypeParts DEF LInv, Chain
<1>b. Len(order) = head /\ \A i \in Chain, k \in Slots : Unspoiled(i, k)
  BY <1>a DEF Contents
<1>c. /\ head \in Nat /\ Owner \in Subs /\ offset[Owner] \in Nat
      /\ \A i \in Chain : /\ i \in Chain' /\ chunks'[i].base = chunks[i].base
                          /\ chunks[i].base \in Nat
  BY <1>a, LogTypeStep, ChainGrows, ChunkType, TopicLogAssumption
     DEF LogType, ReaderType, Grows, Chain
<1>d. ASSUME UNCHANGED <<consume, chunks, head, offset, order>> PROVE Contents'
  BY <1>a, <1>d DEF Contents, Chain
<1>e. ASSUME UNCHANGED <<consume, chunks, head, order>>, ~consume PROVE Contents'
  BY <1>a, <1>e DEF Contents, Chain
<1> USE DEF how, rest, cvars
<1>1. ASSUME NEW p \in Publishers, PublishStart(p) PROVE Contents'
  BY <1>1, <1>d DEF PublishStart
<1>2. ASSUME NEW p \in Publishers, AppendLock(p) PROVE Contents'
  BY <1>2, <1>d DEF AppendLock
<1>3. ASSUME NEW p \in Publishers, AppendLoad(p) PROVE Contents'
  BY <1>3, <1>d DEF AppendLoad
<1>4. ASSUME NEW p \in Publishers, AppendTail(p) PROVE Contents'
  BY <1>4, <1>d DEF AppendTail
<1>5. ASSUME NEW p \in Publishers, AppendClaim(p) PROVE Contents'
  <2>1. /\ UNCHANGED <<consume, chunks, offset>> /\ head' = head + 1
        /\ order' = Append(order, item[p]) /\ item[p] \in Payloads
    BY <1>5 DEF AppendClaim, At, LInv, Writers, WriterAt
  <2>2. Len(order') = head' /\ \A o \in 1 .. head : order'[o] = order[o]
    BY <1>a, <1>b, <2>1 DEF LogType
  <2>3. \A i \in Chain, k \in Slots : chunks[i].ready[k] => chunks[i].base + k + 1 \in 1 .. head
    BY <1>a, <1>c, TopicLogAssumption DEF Layout, Slots
  <2>4. QED
    BY <1>b, <2>1, <2>2, <2>3 DEF Contents, Chain
<1>6. ASSUME NEW p \in Publishers, AppendEnd(p) PROVE Contents'
  BY <1>6, <1>d DEF AppendEnd
<1>7. ASSUME NEW p \in Publishers, AppendLink(p) PROVE Contents'
  <2>1. UNCHANGED <<consume, offset, head, order>>
    BY <1>7 DEF AppendLink
  <2>2. /\ \A i \in Chain : chunks'[i] = chunks[i]
        /\ \A i \in Chain' : i \in Chain \/ \A k \in Slots : ~chunks'[i].ready[k]
    BY <1>7, <1>a, LinkEffect DEF Chain
  <2>3. QED
    BY <1>b, <2>1, <2>2 DEF Contents
<1>8. ASSUME NEW p \in Publishers, AppendHop(p) PROVE Contents'
  BY <1>8, <1>d DEF AppendHop
<1>9. ASSUME NEW p \in Publishers, AppendWrite(p) PROVE Contents'
  <2>1. UNCHANGED <<consume, offset, head, order>>
    BY <1>9 DEF AppendWrite
  <2>2. ~chunks[at[p]].ready[Slot(p)]
    <3>1. WriterAt(p) /\ pc[p] = "place"
      BY <1>9 DEF AppendWrite, At, LInv, Writers
    <3>2. at[p] \in Chain /\ Slot(p) \in Slots /\ chunks[at[p]].base + Slot(p) = off[p]
      BY <1>9, WriteEffect
    <3>3. QED
      BY <3>1, <3>2 DEF WriterAt, Placing
  <2>3. /\ Chain' = Chain
        /\ \A i \in Chain : /\ chunks'[i].base = chunks[i].base
                            /\ chunks'[i].ready = chunks[i].ready
                            /\ \A k \in Slots : chunks[i].ready[k]
                                                  => chunks'[i].data[k] = chunks[i].data[k]
    BY <1>9, <1>a, <2>2, WriteEffect DEF Chain
  <2>4. QED
    BY <1>b, <2>1, <2>3 DEF Contents
<1>10. ASSUME NEW p \in Publishers, AppendPublish(p) PROVE Contents'
  <2>1. UNCHANGED <<consume, offset, head, order>>
    BY <1>10 DEF AppendPublish
  <2>2. chunks[at[p]].data[Slot(p)] = item[p] /\ item[p] = order[off[p] + 1]
    BY <1>10 DEF AppendPublish, At, LInv, Writers, WriterAt, Placing
  <2>3. /\ Chain' = Chain /\ chunks[at[p]].base + Slot(p) = off[p]
        /\ \A i \in Chain :
             /\ chunks'[i].base = chunks[i].base /\ chunks'[i].data = chunks[i].data
             /\ \A k \in Slots : chunks'[i].ready[k]
                                   => (i = at[p] /\ k = Slot(p)) \/ chunks[i].ready[k]
    BY <1>10, <1>a, PublishEffect DEF Chain
  <2>4. ASSUME NEW i \in Chain, NEW k \in Slots PROVE Unspoiled(i, k)'
    <3>1. CASE i = at[p] /\ k = Slot(p)
      BY <2>1, <2>2, <2>3, <3>1
    <3>2. CASE ~(i = at[p] /\ k = Slot(p))
      BY <1>b, <2>1, <2>3, <3>2
    <3>3. QED
      BY <3>1, <3>2
  <2>5. QED
    BY <1>b, <2>1, <2>3, <2>4 DEF Contents
<1>11. ASSUME NEW p \in Publishers, PublishNotify(p) PROVE Contents'
  BY <1>11, <1>d DEF PublishNotify
<1>12. ASSUME NEW s \in Subs, Dequeue(s) PROVE Contents'
  BY <1>12, <1>d DEF Dequeue
<1>13. ASSUME NEW s \in Subs, DequeueHop(s) PROVE Contents'
  BY <1>13, <1>d DEF DequeueHop
<1>14. ASSUME NEW s \in Subs, DequeueMiss(s) PROVE Contents'
  BY <1>14, <1>d DEF DequeueMiss
<1>15. ASSUME NEW s \in Subs, DequeueClaimed(s) PROVE Contents'
  BY <1>15, <1>d DEF DequeueClaimed
<1>16. ASSUME NEW s \in Subs, DequeueRead(s) PROVE Contents'
  <2>1. UNCHANGED <<consume, head, order>> /\ offset' = [offset EXCEPT ![s] = @ + 1]
    BY <1>16 DEF DequeueRead
  <2>2. Chain' = Chain /\ (consume => s = Owner)
    BY <1>16, <1>a, ReadEffect DEF Chain, Locks
  <2>3. ASSUME NEW i \in Chain, NEW k \in Slots PROVE Unspoiled(i, k)'
    <3>1. chunks'[i].base = chunks[i].base /\ chunks'[i].ready = chunks[i].ready
      BY <1>16, ReadEffect
    <3>2. CASE ~consume \/ i # chunk[s] \/ k # idx[s]
      <4>1. chunks'[i].data[k] = chunks[i].data[k]
        BY <1>16, <3>2, ReadEffect
      <4>2. consume => offset[Owner] <= offset'[Owner] /\ offset'[Owner] \in Nat
        BY <1>a, <1>c, <2>1, <2>2 DEF ReaderType
      <4>3. chunks[i].base + k \in Nat
        BY <1>c, TopicLogAssumption DEF Slots
      <4>4. QED
        BY <1>b, <1>c, <2>1, <3>1, <4>1, <4>2, <4>3
    <3>3. CASE consume /\ i = chunk[s] /\ k = idx[s]
      <4>1. offset'[Owner] = offset[Owner] + 1 /\ chunks[i].base + k = offset[Owner]
        BY <1>16, <1>a, <1>c, <2>1, <2>2, <3>3, ReadEffect DEF ReaderType
      <4>2. QED
        BY <1>c, <2>1, <3>1, <3>3, <4>1
    <3>4. QED
      BY <3>2, <3>3
  <2>4. QED
    BY <1>b, <2>1, <2>2, <2>3 DEF Contents
<1>17. ASSUME NEW s \in Subs, SeekHead(s) PROVE Contents'
  BY <1>17, <1>a, <1>e DEF SeekHead, Hold, Cursors, CursorAt
<1>18. ASSUME NEW s \in Subs, PurgeTake(s) PROVE Contents'
  <2>1. UNCHANGED <<consume, head, order>> /\ offset' = [offset EXCEPT ![s] = snap[s]]
    BY <1>18 DEF PurgeTake
  <2>2. Chain' = Chain /\ consume /\ s = Owner
    BY <1>18, <1>a, PurgeEffect DEF Chain
  <2>3. offset'[Owner] = snap[s] /\ snap[s] \in Nat /\ offset[s] <= snap[s]
    BY <1>18, <1>a, <2>1, <2>2, PurgeEffect DEF ReaderType
  <2>4. ASSUME NEW i \in Chain, NEW k \in Slots, offset'[Owner] <= chunks[i].base + k
        PROVE  /\ chunks'[i].data[k] = chunks[i].data[k]
               /\ offset[Owner] <= chunks[i].base + k
    <3>1. chunks[i].base + k \in Nat
      BY <1>c, TopicLogAssumption DEF Slots
    <3>2. chunks[i].base + k \notin Taken(s)
      BY <2>3, <2>4, <3>1 DEF Taken
    <3>3. QED
      BY <1>18, <1>c, <2>2, <2>3, <2>4, <3>1, <3>2, PurgeEffect
  <2>5. \A i \in Chain : chunks'[i].base = chunks[i].base /\ chunks'[i].ready = chunks[i].ready
    BY <1>18, PurgeEffect
  <2>6. QED
    BY <1>b, <2>1, <2>2, <2>4, <2>5 DEF Contents
<1>19. ASSUME NEW s \in Subs, SeekTail(s) PROVE Contents'
  BY <1>19, <1>d DEF SeekTail
<1>20. ASSUME NEW s \in Subs, PurgeEnd(s) PROVE Contents'
  BY <1>20, <1>d DEF PurgeEnd
<1>21. ASSUME NEW s \in Subs, Subscribe(s) PROVE Contents'
  <2>1. UNCHANGED <<consume, head, order>> /\ ~consume
    BY <1>21 DEF Subscribe, TopicFree
  <2>2. CASE tail # 0
    BY <1>21, <1>e, <2>1, <2>2, SubscribeEffect
  <2>3. CASE tail = 0
    BY <1>21, <1>b, <2>1, <2>3, SubscribeEffect DEF Contents, Chain
  <2>4. QED
    BY <2>2, <2>3
<1>22. ASSUME NEW s \in Subs, UnsubscribeLock(s) PROVE Contents'
  BY <1>22, <1>d DEF UnsubscribeLock
<1>23. ASSUME NEW s \in Subs, UnsubscribeClose(s) PROVE Contents'
  <2>1. ~consume
    BY <1>23, <1>a, TopicLogAssumption DEF UnsubscribeClose, Locks
  <2>2. QED
    BY <1>23, <1>e, <2>1 DEF UnsubscribeClose
<1>24. CASE Close
  BY <1>24, <1>d DEF Close
<1>25. CASE UNCHANGED vars
  BY <1>25, <1>d DEF vars
<1>26. QED
  BY <1>1, <1>2, <1>3, <1>4, <1>5, <1>6, <1>7, <1>8, <1>9, <1>10, <1>11, <1>12, <1>13,
     <1>14, <1>15, <1>16, <1>17, <1>18, <1>19, <1>20, <1>21, <1>22, <1>23, <1>24, <1>25
     DEF Next, PublishStep, CursorStep

(***************************************************************************)
(* The invariant and PositionsAgree                                        *)
(***************************************************************************)
\* LInv holds in every reachable state.
THEOREM LogInvariant == Spec => []LInv
<1>1. Init => LInv
  <2> SUFFICES ASSUME Init PROVE LInv
    OBVIOUS
  <2> DEFINE first == newChunk(0)
  <2>1. first \in ChunkSet /\ first.base = 0 /\ \A k \in Slots : ~first.ready[k]
    BY DEF newChunk, ChunkSet, Slots
  <2> HIDE DEF first
  <2>2. /\ chunks \in Seq(ChunkSet) /\ Len(chunks) = (IF consume THEN 1 ELSE 0)
        /\ \A i \in Chain : i = 1 /\ consume /\ chunks[i] = first
    BY <2>1 DEF Init, first, Chain
  <2>3. Flags
    BY Zenon DEF Init, Flags
  <2>4. LogType /\ WriterType /\ GotType
    BY <2>2, TopicLogAssumption DEF Init, LogType, WriterType, GotType
  <2>5. ReaderType
    BY <2>2, TopicLogAssumption DEF Init, ReaderType
  <2>6. Layout
    BY <2>1, <2>2 DEF Init, Layout, Chain
  <2>7. Writers /\ Contents
    BY <2>1, <2>2 DEF Init, Writers, WriterAt, Contents, Placing
  <2>8. Locks
    BY DEF Init, Locks, Placing
  <2>9. Cursors
    BY <2>1, <2>2 DEF Init, Cursors, CursorAt, Chain
  <2>10. QED
    BY <2>3, <2>4, <2>5, <2>6, <2>7, <2>8, <2>9, TypeParts DEF LInv
<1>2. LInv /\ [Next]_vars => LInv'
  BY TypeStep, LayoutStep, LocksStep, CursorsStep, WritersStep, ContentsStep DEF LInv
<1>3. QED
  BY <1>1, <1>2, PTL DEF Spec

\* A cursor's chunk and index are where its offset says, a writer never goes past
\* the chunk of its offset and tail.base <= head (seekHead's "tail.base <= head"),
\* for any number of publishers, subscribers, payloads and slots in a chunk.
THEOREM PositionsAlwaysAgree == Spec => []PositionsAgree
<1>1. LInv => PositionsAgree
  <2> SUFFICES ASSUME LInv PROVE PositionsAgree
    OBVIOUS
  <2>1. TypeOK /\ open \subseteq Subs
    BY DEF LInv, TypeOK
  <2>2. QED
    BY <2>1 DEF LInv, Layout, Writers, WriterAt, Placing, Cursors, CursorAt, PositionsAgree
<1>2. QED
  BY <1>1, LogInvariant, PTL

(***************************************************************************)
(* Suffixes of a sequence                                                  *)
(***************************************************************************)
From(q, o) == SubSeq(q, o + 1, Len(q))

\* The elements after the first o.
LEMMA SuffixElements ==
    ASSUME NEW S, NEW q \in Seq(S), NEW o \in 0 .. Len(q)
    PROVE  /\ From(q, o) \in Seq(S) /\ Len(From(q, o)) = Len(q) - o
           /\ \A i \in 1 .. Len(q) - o : From(q, o)[i] = q[o + i]
<1>1. Len(q) \in Nat /\ o + 1 \in Int /\ \A i \in o + 1 .. Len(q) : q[i] \in S
  OBVIOUS
<1>2. /\ From(q, o) \in Seq(S)
      /\ Len(From(q, o)) = IF o + 1 <= Len(q) THEN Len(q) - (o + 1) + 1 ELSE 0
      /\ \A i \in 1 .. Len(q) - (o + 1) + 1 : From(q, o)[i] = q[o + 1 + i - 1]
  BY <1>1, SubSeqProperties DEF From
<1>3. QED
  BY <1>1, <1>2, SMTT(30)

\* An appended element is the last one of every suffix.
LEMMA SuffixAppend ==
    ASSUME NEW S, NEW q \in Seq(S), NEW o \in 0 .. Len(q), NEW x \in S
    PROVE  From(Append(q, x), o) = Append(From(q, o), x)
<1> DEFINE r == Append(q, x)
<1>1. r \in Seq(S) /\ Len(r) = Len(q) + 1 /\ r[Len(q) + 1] = x
      /\ \A i \in 1 .. Len(q) : r[i] = q[i]
  OBVIOUS
<1> HIDE DEF r
<1>2. Len(q) \in Nat /\ o \in 0 .. Len(r)
  BY <1>1
<1>3. /\ From(r, o) \in Seq(S) /\ Len(From(r, o)) = Len(r) - o
      /\ \A i \in 1 .. Len(r) - o : From(r, o)[i] = r[o + i]
  BY <1>1, <1>2, SuffixElements
<1> DEFINE u == From(q, o)
<1>4. u \in Seq(S) /\ Len(u) = Len(q) - o /\ \A i \in 1 .. Len(q) - o : u[i] = q[o + i]
  BY SuffixElements
<1> HIDE DEF u
<1>5. /\ Append(u, x) \in Seq(S) /\ Len(Append(u, x)) = Len(u) + 1
      /\ \A i \in 1 .. Len(u) : Append(u, x)[i] = u[i]
      /\ Append(u, x)[Len(u) + 1] = x
  BY <1>4
<1>6. ASSUME NEW i \in 1 .. Len(r) - o PROVE From(r, o)[i] = Append(u, x)[i]
  <2>1. CASE i = Len(u) + 1
    BY <1>1, <1>2, <1>3, <1>4, <1>5, <2>1, SMTT(30)
  <2>2. CASE i \in 1 .. Len(u)
    <3>1. o + i \in 1 .. Len(q) /\ i \in 1 .. Len(q) - o
      BY <1>2, <1>4, <2>2
    <3>2. QED
      BY <1>1, <1>3, <1>4, <1>5, <2>2, <3>1
  <2>3. Len(r) = Len(q) + 1 /\ Len(u) = Len(q) - o
    BY <1>1, <1>4
  <2>4. i = Len(u) + 1 \/ i \in 1 .. Len(u)
    BY <1>2, <2>3
  <2>5. QED
    BY <2>1, <2>2, <2>4
<1>7. Len(From(r, o)) = Len(Append(u, x))
  BY <1>1, <1>2, <1>3, <1>4, <1>5
<1>8. From(r, o) = Append(u, x)
  BY <1>3, <1>5, <1>6, <1>7, SeqEqual
<1>9. QED
  BY <1>8 DEF r, u

\* A suffix of a suffix.
LEMMA SuffixDrop ==
    ASSUME NEW S, NEW q \in Seq(S), NEW o \in 0 .. Len(q), NEW k \in 0 .. Len(q) - o
    PROVE  From(From(q, o), k) = From(q, o + k)
<1> DEFINE u == From(q, o)
<1>1. u \in Seq(S) /\ Len(u) = Len(q) - o /\ \A i \in 1 .. Len(q) - o : u[i] = q[o + i]
  BY SuffixElements
<1> HIDE DEF u
<1>2. Len(q) \in Nat /\ k \in 0 .. Len(u) /\ o + k \in 0 .. Len(q)
  BY <1>1
<1>3. /\ From(u, k) \in Seq(S) /\ Len(From(u, k)) = Len(u) - k
      /\ \A i \in 1 .. Len(u) - k : From(u, k)[i] = u[k + i]
  <2>1. u \in Seq(S) /\ k \in 0 .. Len(u)
    BY <1>1, <1>2, Zenon
  <2> QED BY <2>1, SuffixElements, Zenon
<1>4. /\ From(q, o + k) \in Seq(S) /\ Len(From(q, o + k)) = Len(q) - (o + k)
      /\ \A i \in 1 .. Len(q) - (o + k) : From(q, o + k)[i] = q[o + k + i]
  <2>1. q \in Seq(S) /\ o + k \in 0 .. Len(q)
    BY <1>2, Zenon
  <2> QED BY <2>1, SuffixElements, Zenon
<1>5. Len(From(u, k)) = Len(From(q, o + k))
  <2>1. /\ Len(u) = Len(q) - o /\ Len(From(u, k)) = Len(u) - k
        /\ Len(From(q, o + k)) = Len(q) - (o + k)
    BY <1>1, <1>3, <1>4
  <2>2. QED
    BY <1>2, <2>1
<1>6. ASSUME NEW i \in 1 .. Len(From(u, k)) PROVE From(u, k)[i] = From(q, o + k)[i]
  <2>1. i \in 1 .. Len(u) - k /\ k + i \in 1 .. Len(q) - o /\ i \in 1 .. Len(q) - (o + k)
        /\ o + (k + i) = o + k + i
    <3>1. Len(q) \in Nat /\ o \in Nat /\ k \in Nat /\ Len(u) = Len(q) - o /\ k <= Len(u)
          /\ Len(From(u, k)) = Len(u) - k
      BY <1>1, <1>2, <1>3
    <3> HIDE DEF u
    <3> QED BY <1>6, <3>1
  <2>2. From(u, k)[i] = u[k + i] /\ u[k + i] = q[o + (k + i)]
        /\ From(q, o + k)[i] = q[o + k + i]
    BY <1>1, <1>3, <1>4, <2>1, Zenon
  <2>3. QED
    BY <2>1, <2>2, Zenon
<1>7. QED
  BY <1>3, <1>4, <1>5, <1>6, SeqEqual DEF u

(***************************************************************************)
(* The refinement of Fanout                                                *)
(***************************************************************************)
\* What a cursor has not read is the suffix of the claimed payloads behind its
\* offset.
Suffixes ==
    /\ order \in Seq(Payloads) /\ open \subseteq Subs
    /\ \A s \in open : offset[s] \in 0 .. Len(order)
    /\ Unread = [s \in Subs |-> IF s \in open THEN From(order, offset[s]) ELSE <<>>]

\* The refinement mapping, in terms of suffixes, in this state and in the next.
LEMMA UnreadSuffix ==
    /\ LInv => Suffixes
    /\ LInv' => Suffixes'
<1>1. LInv => Suffixes
  <2> SUFFICES ASSUME LInv PROVE Suffixes
    OBVIOUS
  <2>1. order \in Seq(Payloads) /\ open \subseteq Subs /\ head = Len(order) /\ head \in Nat
        /\ offset \in [Subs -> Nat]
    BY DEF LInv, TypeOK, Contents
  <2>2. \A s \in open : offset[s] \in 0 .. Len(order)
    BY <2>1 DEF LInv, Cursors, CursorAt
  <2>3. Unread = [s \in Subs |-> IF s \in open THEN From(order, offset[s]) ELSE <<>>]
    BY <2>1, Zenon DEF Unread, From
  <2>4. QED
    BY <2>1, <2>2, <2>3 DEF Suffixes
<1>2. LInv' => Suffixes'
  <2> SUFFICES ASSUME LInv' PROVE Suffixes'
    OBVIOUS
  <2>1. order' \in Seq(Payloads) /\ open' \subseteq Subs /\ head' = Len(order') /\ head' \in Nat
        /\ offset' \in [Subs -> Nat]
    BY DEF LInv, TypeOK, Contents
  <2>2. \A s \in open' : offset'[s] \in 0 .. Len(order')
    BY <2>1 DEF LInv, Cursors, CursorAt
  <2>3. Unread' = [s \in Subs |-> IF s \in open' THEN From(order', offset'[s]) ELSE <<>>]
    BY <2>1, Zenon DEF Unread, From
  <2>4. QED
    BY <2>1, <2>2, <2>3 DEF Suffixes
<1>3. QED
  BY <1>1, <1>2

\* A claim publishes to every subscription, and none is full.
LEMMA ClaimPublishes ==
    ASSUME LInv, LInv', NEW p \in Publishers, AppendClaim(p)
    PROVE  FIFO!Publish(item[p]) /\ item[p] \in Payloads
<1>1. Suffixes /\ Suffixes'
  BY UnreadSuffix
<1>2. /\ pc[p] = "claim" /\ order' = Append(order, item[p]) /\ UNCHANGED <<offset, open>>
      /\ UNCHANGED <<limit, consume, open, got>>
  BY DEF AppendClaim, At, cvars, how
<1>3. item[p] \in Payloads /\ open # {}
  BY <1>2 DEF LInv, Writers, WriterAt
<1>4. ~FIFO!Full
  <2>1. limit # 0 => \A s \in open : head < offset[s] + limit
    BY <1>2 DEF LInv, Locks
  <2>2. head \in Nat /\ limit \in Nat /\ head = Len(order)
    BY TopicLogAssumption DEF LInv, TypeOK, Contents
  <2>3. \A s \in open : Unread[s] = From(order, offset[s])
    BY <1>1 DEF Suffixes
  <2>4. \A s \in open : Len(Unread[s]) = Len(order) - offset[s] /\ offset[s] \in Nat
    BY <1>1, <2>3, SuffixElements DEF Suffixes
  <2>5. QED
    BY <2>1, <2>2, <2>4 DEF FIFO!Full
<1>5. Unread' = [s \in Subs |-> IF s \in open THEN Append(Unread[s], item[p]) ELSE <<>>]
  <2>1. \A s \in open : From(order', offset[s]) = Append(From(order, offset[s]), item[p])
    BY <1>1, <1>2, <1>3, SuffixAppend DEF Suffixes
  <2>2. Unread' = [s \in Subs |-> IF s \in open THEN From(order', offset[s]) ELSE <<>>]
    BY <1>1, <1>2, Zenon DEF Suffixes
  <2>3. \A s \in open : Unread[s] = From(order, offset[s])
    BY <1>1 DEF Suffixes
  <2>4. QED
    BY <2>1, <2>2, <2>3, Zenon
<1>6. QED
  BY <1>2, <1>3, <1>4, <1>5 DEF FIFO!Publish

\* A read returns the oldest unread payload.
LEMMA ReadReceives ==
    ASSUME LInv, LInv', NEW s \in Subs, DequeueRead(s)
    PROVE  FIFO!Receive(s)
<1>1. Suffixes /\ Suffixes'
  BY UnreadSuffix
<1>2. /\ offset' = [offset EXCEPT ![s] = @ + 1]
      /\ got' = [got EXCEPT ![s] = <<chunks[chunk[s]].data[idx[s]]>>]
      /\ UNCHANGED <<limit, consume, open, order>>
  BY DEF DequeueRead, rest, how
<1>3. /\ s \in open /\ chunk[s] \in Chain /\ idx[s] \in Slots
      /\ chunks[chunk[s]].ready[idx[s]] /\ chunks[chunk[s]].base + idx[s] = offset[s]
      /\ offset[s] < head
  BY ReadEffect
<1>4. chunks[chunk[s]].data[idx[s]] = order[offset[s] + 1]
  <2>1. consume => offset[Owner] <= chunks[chunk[s]].base + idx[s]
    <3>1. consume => s = Owner
      BY <1>3 DEF LInv, Locks
    <3>2. offset[s] \in Nat
      BY DEF LInv, TypeOK
    <3>3. QED
      BY <1>3, <3>1, <3>2
  <2>2. QED
    BY <1>3, <2>1 DEF LInv, Contents
<1>5. /\ head = Len(order) /\ offset \in [Subs -> Nat] /\ order \in Seq(Payloads)
      /\ offset[s] \in 0 .. Len(order) /\ Len(order) \in Nat
  BY <1>1, <1>3 DEF LInv, TypeOK, Contents, Suffixes
<1> DEFINE u == From(order, offset[s])
<1>6. Unread[s] = u
  BY <1>1, <1>3 DEF Suffixes
<1>7. u # <<>> /\ Head(u) = order[offset[s] + 1] /\ Tail(u) = From(order, offset[s] + 1)
  <2>1. u \in Seq(Payloads) /\ Len(u) > 0
    BY <1>3, <1>5, SuffixElements
  <2>2. offset[s] + 1 \in 1 .. Len(order) /\ Len(order) \in offset[s] + 1 .. Len(order)
    BY <1>3, <1>5
  <2>3. /\ Head(SubSeq(order, offset[s] + 1, Len(order))) = order[offset[s] + 1]
        /\ Tail(SubSeq(order, offset[s] + 1, Len(order)))
             = SubSeq(order, (offset[s] + 1) + 1, Len(order))
    BY <1>5, <2>2, HeadTailOfSubSeq
  <2>4. u # <<>>
    BY <2>1
  <2>5. QED
    BY <2>3, <2>4 DEF From
<1> HIDE DEF u
<1>8. Unread' = [Unread EXCEPT ![s] = Tail(u)]
  <2>1. offset'[s] = offset[s] + 1 /\ \A r \in Subs : r # s => offset'[r] = offset[r]
    BY <1>2, <1>5
  <2>2. Unread' = [r \in Subs |-> IF r \in open THEN From(order, offset'[r]) ELSE <<>>]
    <3>1. order' = order /\ open' = open
      BY <1>2
    <3>2. QED
      BY <1>1, <3>1, Zenon DEF Suffixes
  <2>3. Unread = [r \in Subs |-> IF r \in open THEN From(order, offset[r]) ELSE <<>>]
    BY <1>1 DEF Suffixes
  <2>4. ASSUME NEW r \in Subs PROVE Unread'[r] = [Unread EXCEPT ![s] = Tail(u)][r]
    <3>1. CASE r = s
      BY <1>3, <1>7, <2>1, <2>2, <2>3, <3>1
    <3>2. CASE r # s
      BY <2>1, <2>2, <2>3, <3>2
    <3>3. QED
      BY <3>1, <3>2
  <2>5. QED
    BY <2>2, <2>3, <2>4
<1>9. QED
  BY <1>2, <1>3, <1>4, <1>6, <1>7, <1>8 DEF FIFO!Receive

\* A cursor that moves on from its offset has dropped the oldest payloads.
LEMMA MoveDrops ==
    ASSUME Suffixes, Suffixes', NEW s \in open, NEW to \in offset[s] .. Len(order),
           offset \in [Subs -> Nat], offset' = [offset EXCEPT ![s] = to],
           order' = order, open' = open
    PROVE  /\ to - offset[s] \in 0 .. Len(Unread[s])
           /\ Unread' = [Unread EXCEPT ![s] = SubSeq(@, to - offset[s] + 1, Len(@))]
<1> DEFINE k == to - offset[s]
<1>1. s \in Subs /\ order \in Seq(Payloads) /\ offset[s] \in 0 .. Len(order) /\ Len(order) \in Nat
  BY DEF Suffixes
<1>2. k \in 0 .. Len(order) - offset[s] /\ offset[s] + k = to
  BY <1>1
<1>3. Unread[s] = From(order, offset[s])
  BY <1>1 DEF Suffixes
<1>4. Len(Unread[s]) = Len(order) - offset[s]
  BY <1>1, <1>3, SuffixElements
<1>5. SubSeq(Unread[s], k + 1, Len(Unread[s])) = From(order, to)
  <2>1. From(From(order, offset[s]), k) = From(order, offset[s] + k)
    BY <1>1, <1>2, SuffixDrop
  <2>2. SubSeq(Unread[s], k + 1, Len(Unread[s])) = From(From(order, offset[s]), k)
    BY <1>3 DEF From
  <2>3. QED
    BY <1>2, <2>1, <2>2
<1> HIDE DEF k
<1>6. offset'[s] = to /\ \A r \in Subs : r # s => offset'[r] = offset[r]
  BY <1>1
<1>7. Unread' = [r \in Subs |-> IF r \in open THEN From(order, offset'[r]) ELSE <<>>]
  BY Zenon DEF Suffixes
<1>8. Unread = [r \in Subs |-> IF r \in open THEN From(order, offset[r]) ELSE <<>>]
  BY DEF Suffixes
<1> DEFINE new == [Unread EXCEPT ![s] = SubSeq(@, k + 1, Len(@))]
<1>9. ASSUME NEW r \in Subs PROVE Unread'[r] = new[r]
  <2>1. CASE r = s
    BY <1>1, <1>5, <1>6, <1>7, <1>8, <2>1
  <2>2. CASE r # s
    BY <1>6, <1>7, <1>8, <2>2
  <2>3. QED
    BY <2>1, <2>2
<1>10. Unread' = new
  BY <1>7, <1>8, <1>9
<1>11. QED
  BY <1>2, <1>4, <1>10 DEF k

\* A subscription's Purge drops all of it.
LEMMA SeekPurges ==
    ASSUME LInv, LInv', NEW s \in Subs, SeekHead(s)
    PROVE  \E k \in 0 .. Len(Unread[s]) : FIFO!Purge(s, k)
<1>1. Suffixes /\ Suffixes'
  BY UnreadSuffix
<1>2. /\ offset' = [offset EXCEPT ![s] = head] /\ got' = [got EXCEPT ![s] = <<>>]
      /\ UNCHANGED <<limit, consume>> /\ open' = open /\ order' = order
  BY DEF SeekHead, rest, how
<1>3. s \in open /\ ~consume /\ offset[s] <= head
  BY DEF SeekHead, Hold, LInv, Cursors, CursorAt
<1>4. offset \in [Subs -> Nat] /\ head \in offset[s] .. Len(order)
  BY <1>3 DEF LInv, TypeOK, Contents
<1> DEFINE k == head - offset[s]
<1>5. k \in 0 .. Len(Unread[s]) /\ Unread' = [Unread EXCEPT ![s] = SubSeq(@, k + 1, Len(@))]
  BY <1>1, <1>2, <1>3, <1>4, MoveDrops
<1>6. FIFO!Purge(s, k)
  BY <1>2, <1>3, <1>5 DEF FIFO!Purge
<1>7. QED
  BY <1>5, <1>6

\* A queue's Purge returns what it drops, in order.
LEMMA TakePurges ==
    ASSUME LInv, LInv', NEW s \in Subs, PurgeTake(s)
    PROVE  \E k \in 0 .. Len(Unread[s]) : FIFO!Purge(s, k)
<1> DEFINE k == snap[s] - offset[s]
           pos(i) == offset[s] + i - 1
           seq == [i \in 1 .. k |-> chunks[ChunkOf(pos(i))].data[SlotOf(pos(i))]]
<1>1. Suffixes /\ Suffixes'
  BY UnreadSuffix
<1>2. /\ offset' = [offset EXCEPT ![s] = snap[s]] /\ got' = [got EXCEPT ![s] = seq]
      /\ UNCHANGED <<limit, consume>> /\ open' = open /\ order' = order
  BY DEF PurgeTake, rest, how
<1>3. s \in open /\ consume /\ s = Owner /\ offset[s] <= snap[s] /\ snap[s] <= head
  BY PurgeEffect
<1>a. /\ offset \in [Subs -> Nat] /\ snap \in [Subs -> Nat] /\ order \in Seq(Payloads)
      /\ head = Len(order) /\ head \in Nat
  BY DEF LInv, TypeOK, Contents
<1>b. offset[s] \in Nat /\ snap[s] \in Nat
  BY <1>a
<1>4. /\ snap[s] \in offset[s] .. Len(order) /\ k \in Nat /\ offset[s] \in 0 .. Len(order)
      /\ Len(order) \in Nat
  BY <1>3, <1>a, <1>b
<1>5. k \in 0 .. Len(Unread[s]) /\ Unread' = [Unread EXCEPT ![s] = SubSeq(@, k + 1, Len(@))]
  BY <1>1, <1>2, <1>3, <1>4, <1>a, MoveDrops
<1>6. ASSUME NEW i \in 1 .. k PROVE seq[i] = order[offset[s] + i]
  <2>1. pos(i) \in Nat /\ pos(i) \in Taken(s) /\ pos(i) + 1 = offset[s] + i /\ offset[s] <= pos(i)
    BY <1>4, <1>b DEF Taken
  <2> HIDE DEF pos
  <2>2. /\ ChunkOf(pos(i)) \in Chain /\ SlotOf(pos(i)) \in Slots
        /\ chunks[ChunkOf(pos(i))].base + SlotOf(pos(i)) = pos(i)
        /\ chunks[ChunkOf(pos(i))].ready[SlotOf(pos(i))]
    BY <2>1, PurgeEffect, Located
  <2>3. chunks[ChunkOf(pos(i))].data[SlotOf(pos(i))] = order[pos(i) + 1]
    BY <1>3, <2>1, <2>2 DEF LInv, Contents
  <2>4. QED
    BY <2>1, <2>3
<1> HIDE DEF seq
<1>7. seq = SubSeq(Unread[s], 1, k)
  <2>1. Unread[s] = From(order, offset[s])
    BY <1>1, <1>3 DEF Suffixes
  <2>2. /\ Unread[s] \in Seq(Payloads) /\ Len(Unread[s]) = Len(order) - offset[s]
        /\ \A i \in 1 .. Len(order) - offset[s] : Unread[s][i] = order[offset[s] + i]
    <3>1. /\ From(order, offset[s]) \in Seq(Payloads)
          /\ Len(From(order, offset[s])) = Len(order) - offset[s]
          /\ \A i \in 1 .. Len(order) - offset[s] : From(order, offset[s])[i] = order[offset[s] + i]
      BY <1>4, <1>a, SuffixElements
    <3>2. QED
      BY <2>1, <3>1
  <2>3. SubSeq(Unread[s], 1, k) = [i \in 1 .. k |-> Unread[s][i]]
    BY <1>4, <1>5, <2>2
  <2>4. \A i \in 1 .. k : Unread[s][i] = order[offset[s] + i]
    <3>1. \A i \in 1 .. k : i \in 1 .. Len(order) - offset[s]
      BY <1>4, <1>b
    <3>2. QED
      BY <2>2, <3>1
  <2> HIDE DEF k
  <2>5. \A i \in 1 .. k : seq[i] = Unread[s][i]
    BY <1>6, <2>4
  <2>6. QED
    BY <2>3, <2>5 DEF seq
<1> HIDE DEF k
<1>8. FIFO!Purge(s, k)
  BY <1>2, <1>3, <1>5, <1>7 DEF FIFO!Purge
<1>9. QED
  BY <1>5, <1>8

\* A new subscription has nothing unread.
LEMMA SubscribeJoins ==
    ASSUME LInv, LInv', NEW s \in Subs, Subscribe(s), ~closed
    PROVE  FIFO!Join(s)
<1>1. Suffixes /\ Suffixes'
  BY UnreadSuffix
<1>2. /\ s \notin open /\ open' = open \cup {s} /\ offset' = [offset EXCEPT ![s] = head]
      /\ got' = [got EXCEPT ![s] = <<>>] /\ UNCHANGED <<limit, consume>> /\ order' = order
  BY DEF Subscribe, how
<1>3. offset \in [Subs -> Nat] /\ head = Len(order) /\ order \in Seq(Payloads) /\ head \in Nat
  BY DEF LInv, TypeOK, Contents
<1>4. From(order, head) = <<>>
  BY <1>3, SubSeqEmpty DEF From
<1>5. offset'[s] = head /\ \A r \in Subs : r # s => offset'[r] = offset[r]
  BY <1>2, <1>3
<1>6. Unread' = [r \in Subs |-> IF r \in open' THEN From(order, offset'[r]) ELSE <<>>]
  BY <1>1, <1>2 DEF Suffixes
<1>7. Unread = [r \in Subs |-> IF r \in open THEN From(order, offset[r]) ELSE <<>>]
  BY <1>1 DEF Suffixes
<1>8. ASSUME NEW r \in Subs PROVE Unread'[r] = Unread[r]
  <2>1. CASE r = s
    BY <1>2, <1>4, <1>5, <1>6, <1>7, <2>1
  <2>2. CASE r # s
    BY <1>2, <1>5, <1>6, <1>7, <2>2
  <2>3. QED
    BY <2>1, <2>2
<1>9. Unread' = Unread
  BY <1>6, <1>7, <1>8
<1>10. QED
  BY <1>2, <1>9 DEF FIFO!Join

\* A subscription that ends drops what it has not read.
LEMMA UnsubscribeLeaves ==
    ASSUME LInv, LInv', NEW s \in Subs, UnsubscribeClose(s)
    PROVE  FIFO!Leave(s)
<1>1. Suffixes /\ Suffixes'
  BY UnreadSuffix
<1>2. /\ tmx = s /\ open' = open \ {s} /\ offset' = [offset EXCEPT ![s] = 0]
      /\ UNCHANGED <<limit, consume, got>> /\ order' = order
  BY DEF UnsubscribeClose, how
<1>3. offset \in [Subs -> Nat] /\ s \in open
  BY <1>2, TopicLogAssumption DEF LInv, TypeOK, Locks
<1>4. \A r \in Subs : r # s => offset'[r] = offset[r]
  BY <1>2, <1>3
<1>5. Unread' = [r \in Subs |-> IF r \in open' THEN From(order, offset'[r]) ELSE <<>>]
  BY <1>1, <1>2 DEF Suffixes
<1>6. Unread = [r \in Subs |-> IF r \in open THEN From(order, offset[r]) ELSE <<>>]
  BY <1>1 DEF Suffixes
<1> DEFINE new == [Unread EXCEPT ![s] = <<>>]
<1>7. ASSUME NEW r \in Subs PROVE Unread'[r] = new[r]
  <2>1. CASE r = s
    BY <1>2, <1>5, <1>6, <2>1
  <2>2. CASE r # s
    BY <1>2, <1>4, <1>5, <1>6, <2>2
  <2>3. QED
    BY <2>1, <2>2
<1>8. Unread' = new
  BY <1>5, <1>6, <1>7
<1>9. QED
  BY <1>2, <1>3, <1>8 DEF FIFO!Leave

\* Every step of the log is a step of the FIFO queues, or changes none of them.
LEMMA FanoutStep ==
    ASSUME LInv, LInv', [Next]_vars
    PROVE  [FIFO!FNext]_(FIFO!fvars)
<1>a. ASSUME UNCHANGED <<limit, consume, open, offset, head, order, got>>
      PROVE  UNCHANGED FIFO!fvars
  BY <1>a DEF FIFO!fvars, Unread
<1> USE DEF how, rest, cvars
<1>1. ASSUME NEW p \in Publishers, PublishStart(p) PROVE [FIFO!FNext]_(FIFO!fvars)
  BY <1>1, <1>a DEF PublishStart
<1>2. ASSUME NEW p \in Publishers, AppendLock(p) PROVE [FIFO!FNext]_(FIFO!fvars)
  BY <1>2, <1>a DEF AppendLock
<1>3. ASSUME NEW p \in Publishers, AppendLoad(p) PROVE [FIFO!FNext]_(FIFO!fvars)
  BY <1>3, <1>a DEF AppendLoad
<1>4. ASSUME NEW p \in Publishers, AppendTail(p) PROVE [FIFO!FNext]_(FIFO!fvars)
  BY <1>4, <1>a DEF AppendTail
<1>5. ASSUME NEW p \in Publishers, AppendClaim(p) PROVE [FIFO!FNext]_(FIFO!fvars)
  BY <1>5, ClaimPublishes DEF FIFO!FNext
<1>6. ASSUME NEW p \in Publishers, AppendEnd(p) PROVE [FIFO!FNext]_(FIFO!fvars)
  BY <1>6, <1>a DEF AppendEnd
<1>7. ASSUME NEW p \in Publishers, AppendLink(p) PROVE [FIFO!FNext]_(FIFO!fvars)
  BY <1>7, <1>a DEF AppendLink
<1>8. ASSUME NEW p \in Publishers, AppendHop(p) PROVE [FIFO!FNext]_(FIFO!fvars)
  BY <1>8, <1>a DEF AppendHop
<1>9. ASSUME NEW p \in Publishers, AppendWrite(p) PROVE [FIFO!FNext]_(FIFO!fvars)
  BY <1>9, <1>a DEF AppendWrite
<1>10. ASSUME NEW p \in Publishers, AppendPublish(p) PROVE [FIFO!FNext]_(FIFO!fvars)
  BY <1>10, <1>a DEF AppendPublish
<1>11. ASSUME NEW p \in Publishers, PublishNotify(p) PROVE [FIFO!FNext]_(FIFO!fvars)
  BY <1>11, <1>a DEF PublishNotify
<1>12. ASSUME NEW s \in Subs, Dequeue(s) PROVE [FIFO!FNext]_(FIFO!fvars)
  BY <1>12, <1>a DEF Dequeue
<1>13. ASSUME NEW s \in Subs, DequeueHop(s) PROVE [FIFO!FNext]_(FIFO!fvars)
  BY <1>13, <1>a DEF DequeueHop
<1>14. ASSUME NEW s \in Subs, DequeueMiss(s) PROVE [FIFO!FNext]_(FIFO!fvars)
  BY <1>14, <1>a DEF DequeueMiss
<1>15. ASSUME NEW s \in Subs, DequeueClaimed(s) PROVE [FIFO!FNext]_(FIFO!fvars)
  BY <1>15, <1>a DEF DequeueClaimed
<1>16. ASSUME NEW s \in Subs, DequeueRead(s) PROVE [FIFO!FNext]_(FIFO!fvars)
  BY <1>16, ReadReceives DEF FIFO!FNext
<1>17. ASSUME NEW s \in Subs, SeekHead(s) PROVE [FIFO!FNext]_(FIFO!fvars)
  BY <1>17, SeekPurges DEF FIFO!FNext
<1>18. ASSUME NEW s \in Subs, PurgeTake(s) PROVE [FIFO!FNext]_(FIFO!fvars)
  BY <1>18, TakePurges DEF FIFO!FNext
<1>19. ASSUME NEW s \in Subs, SeekTail(s) PROVE [FIFO!FNext]_(FIFO!fvars)
  BY <1>19, <1>a DEF SeekTail
<1>20. ASSUME NEW s \in Subs, PurgeEnd(s) PROVE [FIFO!FNext]_(FIFO!fvars)
  BY <1>20, <1>a DEF PurgeEnd
<1>21. ASSUME NEW s \in Subs, Subscribe(s) PROVE [FIFO!FNext]_(FIFO!fvars)
  <2>1. CASE closed
    BY <1>21, <1>a, <2>1 DEF Subscribe
  <2>2. CASE ~closed
    BY <1>21, <2>2, SubscribeJoins DEF FIFO!FNext
  <2>3. QED
    BY <2>1, <2>2
<1>22. ASSUME NEW s \in Subs, UnsubscribeLock(s) PROVE [FIFO!FNext]_(FIFO!fvars)
  BY <1>22, <1>a DEF UnsubscribeLock
<1>23. ASSUME NEW s \in Subs, UnsubscribeClose(s) PROVE [FIFO!FNext]_(FIFO!fvars)
  BY <1>23, UnsubscribeLeaves DEF FIFO!FNext
<1>24. CASE Close
  BY <1>24, <1>a DEF Close
<1>25. CASE UNCHANGED vars
  BY <1>25, <1>a DEF vars
<1>26. QED
  BY <1>1, <1>2, <1>3, <1>4, <1>5, <1>6, <1>7, <1>8, <1>9, <1>10, <1>11, <1>12, <1>13,
     <1>14, <1>15, <1>16, <1>17, <1>18, <1>19, <1>20, <1>21, <1>22, <1>23, <1>24, <1>25
     DEF Next, PublishStep, CursorStep

\* The lock-free log of chunks implements Fanout: each subscription is a FIFO queue
\* of its own to which a payload goes at its claim, a read returns the oldest
\* unread payload, a Purge drops a prefix (and, of a queue, returns exactly it)
\* and a capacity bounds the slowest, whatever the interleaving and whatever the
\* numbers of publishers, subscribers, payloads and slots of a chunk.
THEOREM LogImplementsFanout == Spec => ImplementsFanout
<1>1. Init => FIFO!FInit
  <2> SUFFICES ASSUME Init PROVE FIFO!FInit
    OBVIOUS
  <2>1. limit \in Nat
    BY TopicLogAssumption DEF Init
  <2>2. consume \in BOOLEAN
    BY Zenon DEF Init
  <2>3. open \in SUBSET Subs /\ got = [s \in Subs |-> <<>>]
    BY TopicLogAssumption DEF Init
  <2>4. Unread = [s \in Subs |-> <<>>]
    <3>1. order = <<>> /\ head = 0 /\ \A s \in Subs : offset[s] = 0
      BY DEF Init
    <3>2. SubSeq(<<>>, 0 + 1, 0) = <<>>
      BY SubSeqEmpty
    <3>3. QED
      BY <3>1, <3>2 DEF Unread
  <2>5. QED
    BY <2>1, <2>2, <2>3, <2>4 DEF FIFO!FInit
<1>2. LInv /\ LInv' /\ [Next]_vars => [FIFO!FNext]_(FIFO!fvars)
  BY FanoutStep
<1>3. QED
  BY <1>1, <1>2, LogInvariant, PTL DEF Spec, ImplementsFanout, FIFO!FSpec
=============================================================================
