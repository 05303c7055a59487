--------------------------- MODULE DispatchProofs ---------------------------
(***************************************************************************)
(* The way of a job through the worker, for every number of jobs, nodes,   *)
(* closes, purges and every size of a batch: no job is lost or doubled,    *)
(* parked jobs keep their order, a Purge closes exactly what was there,    *)
(* and a held batch is remembered.                                         *)
(***************************************************************************)
EXTENDS Dispatch, FiniteSetTheorems, TLAPS

(***************************************************************************)
(* The inductive invariant                                                 *)
(***************************************************************************)
\* What the steps of the loop and of the nodes say about what they hold.
Shape ==
    /\ node # None <=> lpc \in {"unpark", "fill", "stamp"}
    /\ node # None => room > 0
    /\ lpc \notin {"fill", "stamp"} => buf = <<>>
    /\ parkMx = "loop" => lpc = "scan"
    /\ \A x \in Nodes : npc[x] = "taken" <=> x = node
    /\ \A x \in Nodes : batch[x] = <<>> <=> npc[x] \in {"idle", "taken"}

Rising(s) == \A i, k \in DOMAIN s : i < k => s[i] < s[k]
Below(s, t) == \A i \in DOMAIN s, k \in DOMAIN t : s[i] < t[k]

\* Of two pieces, the jobs s numbered from p on and t from q on, one comes
\* before the other: by its numbers and by its jobs.
Apart(s, p, t, q) == \/ p + Len(s) <= q /\ Below(s, t)
                     \/ q + Len(t) <= p /\ Below(t, s)

\* A piece that was dispatched: numbered below d, and older than the jobs f of
\* the buffer and the jobs t of the storage.
Sent(s, p, f, t, d) == Rising(s) /\ Below(s, f) /\ Below(s, t) /\ p + Len(s) <= d

\* Jobs keep the order of the queue: in every piece and between any two.
Ordered ==
    /\ Rising(storage) /\ Rising(buf) /\ Below(buf, storage)
    /\ \A x \in Nodes : Sent(batch[x], stamp[x].seq, buf, storage, dispatched)
    /\ \A b \in parked : Sent(b.jobs, b.stamp.seq, buf, storage, dispatched)
    /\ \A x, y \in Nodes : x # y => Apart(batch[x], stamp[x].seq, batch[y], stamp[y].seq)
    /\ \A b, c \in parked : b # c => Apart(b.jobs, b.stamp.seq, c.jobs, c.stamp.seq)
    /\ \A x \in Nodes, b \in parked : Apart(batch[x], stamp[x].seq, b.jobs, b.stamp.seq)

\* Jobs are added in the order of their numbers.
NewLast == \A i, k \in Jobs : i < k /\ state[i] = "new" => state[k] = "new"

\* What waits has not started; what runs is the head of its batch.
Unstarted == {"queued", "closed", "purged"}
Fresh(q) == \A i \in DOMAIN q : state[q[i]] \in Unstarted
WaitingFresh ==
    /\ Fresh(storage) /\ Fresh(buf)
    /\ \A b \in parked : Fresh(b.jobs)
    /\ \A x \in Nodes : \A i \in DOMAIN batch[x] :
         state[batch[x][i]] \in IF i = 1 /\ npc[x] = "run" THEN {"running"} ELSE Unstarted

Has(q, j) == \E i \in DOMAIN q : q[i] = j
Found(j) == \/ Has(storage, j) \/ Has(buf, j)
            \/ \E x \in Nodes : Has(batch[x], j)
            \/ \E b \in parked : Has(b.jobs, j)
NoneLost == \A j \in Jobs : state[j] = "queued" => Found(j)

\* nParked counts the parked jobs.
Slots(batches) == UNION {{b} \X DOMAIN b.jobs : b \in batches}
Counted == IsFiniteSet(Slots(parked)) /\ nParked = NumJobs(parked)

\* A batch is stamped with a generation that was; one that a whole Purge passed
\* by holds only jobs this Purge reached.
Reached ==
    /\ \A x \in Nodes : stamp[x].epoch <= gen
    /\ \A b \in parked : b.stamp.epoch <= gen
    /\ ppc = "none" =>
         /\ \A j \in Jobs : state[j] = "purged" => j \in reach
         /\ \A x \in Nodes : stamp[x].epoch # gen => \A i \in DOMAIN batch[x] : batch[x][i] \in reach
         /\ \A b \in parked : b.stamp.epoch # gen => \A i \in DOMAIN b.jobs : b.jobs[i] \in reach

\* A job that was stamped before a Purge began is found only in stale batches,
\* and not past the check of its node.
Doomed ==
    \A j \in doomed :
      /\ state[j] \in Unstarted
      /\ ~Has(storage, j) /\ ~Has(buf, j)
      /\ \A b \in parked : Has(b.jobs, j) => b.stamp.epoch # gen
      /\ \A x \in Nodes : \A i \in DOMAIN batch[x] :
           batch[x][i] = j => stamp[x].epoch # gen /\ (i = 1 => npc[x] = "stale")

\* A held batch is remembered, or somebody is about to remember it.
HeldKnown ==
    /\ paused /\ parked # {} => parkHeld \/ owed > 0 \/ notify # "none" \/ parkMx # None
    /\ notify = "resumed" /\ paused => owed > 0

IInv == /\ TypeOK /\ Shape /\ Ordered /\ NewLast /\ WaitingFresh /\ NoneLost
        /\ Counted /\ Reached /\ Doomed /\ HeldKnown

(***************************************************************************)
(* Sequences of jobs                                                       *)
(***************************************************************************)
LEMMA JobsNat == Jobs \subseteq Nat
BY DispatchAssumption DEF Jobs

\* A sequence of jobs that is not empty has a first job.
LEMMA FirstJob ==
    ASSUME NEW s \in Seq(Jobs), s # <<>>
    PROVE  /\ Len(s) \in Nat /\ Len(s) > 0
           /\ 1 \in DOMAIN s /\ s[1] \in Jobs /\ s[1] \in Nat
           /\ Has(s, s[1])
<1>1. Len(s) \in Nat /\ DOMAIN s = 1 .. Len(s) /\ Len(s) > 0
  OBVIOUS
<1>2. 1 \in DOMAIN s
  BY <1>1
<1>3. s[1] \in Jobs
  BY <1>2
<1> QED BY <1>1, <1>2, <1>3, JobsNat DEF Has

\* t, numbered from q on, is a part of s, numbered from p on.
Part(t, q, s, p) ==
    \E a \in Nat : /\ q = p + a /\ a + Len(t) <= Len(s)
                   /\ \A i \in 1 .. Len(t) : t[i] = s[a + i]

\* A part of a piece stands to the other pieces as the piece does.
LEMMA PartOf ==
    ASSUME NEW s \in Seq(Jobs), NEW t \in Seq(Jobs), NEW p \in Nat, NEW q \in Nat,
           Part(t, q, s, p)
    PROVE  /\ Rising(s) => Rising(t)
           /\ q + Len(t) <= p + Len(s) /\ p <= q
           /\ \A u \in Seq(Jobs) : (Below(s, u) => Below(t, u)) /\ (Below(u, s) => Below(u, t))
           /\ \A j : Has(t, j) => Has(s, j)
<1>1. PICK a \in Nat : /\ q = p + a /\ a + Len(t) <= Len(s)
                       /\ \A i \in 1 .. Len(t) : t[i] = s[a + i]
  BY DEF Part
<1>2. \A i \in DOMAIN t : a + i \in DOMAIN s /\ t[i] = s[a + i]
  BY <1>1
<1>3. Rising(s) => Rising(t)
  BY <1>2 DEF Rising
<1>4. \A u \in Seq(Jobs) : (Below(s, u) => Below(t, u)) /\ (Below(u, s) => Below(u, t))
  BY <1>2 DEF Below
<1>5. \A j : Has(t, j) => Has(s, j)
  BY <1>2 DEF Has
<1> QED BY <1>1, <1>3, <1>4, <1>5

\* What is apart from a piece is apart from its parts.
LEMMA PartApart ==
    ASSUME NEW s \in Seq(Jobs), NEW t \in Seq(Jobs), NEW p \in Nat, NEW q \in Nat,
           Part(t, q, s, p), NEW u \in Seq(Jobs), NEW r \in Nat, Apart(s, p, u, r)
    PROVE  Apart(t, q, u, r)
BY PartOf DEF Apart

\* Being apart is symmetric, and nothing is apart from everything.
LEMMA ApartSym == ASSUME NEW s, NEW p, NEW t, NEW q, Apart(s, p, t, q) PROVE Apart(t, q, s, p)
BY DEF Apart

\* Nothing is apart from everything.
LEMMA ApartEmpty == ASSUME NEW s \in Seq(Jobs), NEW p \in Nat PROVE Apart(<<>>, 0, s, p)
BY DEF Apart, Below

\* Tail is a part.
LEMMA TailPart ==
    ASSUME NEW s \in Seq(Jobs), s # <<>>, NEW p \in Nat
    PROVE  /\ Tail(s) \in Seq(Jobs) /\ Part(Tail(s), p + 1, s, p)
           /\ Len(s) > 0 /\ Len(Tail(s)) = Len(s) - 1
           /\ Head(s) = s[1] /\ Head(s) \in Jobs
           /\ \A i \in 1 .. Len(s) - 1 : Tail(s)[i] = s[i + 1]
<1>1. /\ Tail(s) \in Seq(Jobs) /\ Len(s) > 0 /\ Len(Tail(s)) = Len(s) - 1
      /\ Head(s) = s[1] /\ Head(s) \in Jobs
      /\ \A i \in 1 .. Len(s) - 1 : Tail(s)[i] = s[i + 1]
  OBVIOUS
<1>2. Part(Tail(s), p + 1, s, p)
  <2>1. \A i \in 1 .. Len(Tail(s)) : Tail(s)[i] = s[1 + i]
    BY <1>1
  <2> QED BY <1>1, <2>1 DEF Part
<1> QED BY <1>1, <1>2

\* The two parts of a piece that is cut after k jobs.
CutInto(t, u, s, k, p) ==
    /\ t \in Seq(Jobs) /\ Len(t) = k /\ Part(t, p, s, p)
    /\ u \in Seq(Jobs) /\ Len(u) = Len(s) - k /\ Part(u, p + k, s, p)
    /\ Rising(s) => Apart(t, p, u, p + k)
    /\ \A j : Has(s, j) => Has(t, j) \/ Has(u, j)

\* SubSeq cuts a piece in two, as unpark does.
LEMMA Cut ==
    ASSUME NEW s \in Seq(Jobs), NEW k \in 1 .. Len(s), NEW p \in Nat
    PROVE  \A t, u : t = SubSeq(s, 1, k) /\ u = SubSeq(s, k + 1, Len(s)) => CutInto(t, u, s, k, p)
<1> SUFFICES ASSUME NEW t, NEW u, t = SubSeq(s, 1, k), u = SubSeq(s, k + 1, Len(s))
             PROVE  CutInto(t, u, s, k, p)
  OBVIOUS
<1>1. t \in Seq(Jobs) /\ Len(t) = k /\ \A i \in 1 .. k : t[i] = s[i]
  OBVIOUS
<1>2. u \in Seq(Jobs) /\ Len(u) = Len(s) - k /\ \A i \in 1 .. Len(s) - k : u[i] = s[k + i]
  OBVIOUS
<1>3. Part(t, p, s, p)
  <2>1. p = p + 0 /\ 0 + Len(t) <= Len(s) /\ \A i \in 1 .. Len(t) : t[i] = s[0 + i]
    BY <1>1
  <2> QED BY <2>1 DEF Part
<1>4. Part(u, p + k, s, p)
  BY <1>2 DEF Part
<1>5. Rising(s) => Below(t, u)
  BY <1>1, <1>2 DEF Rising, Below
<1>6. \A j : Has(s, j) => Has(t, j) \/ Has(u, j)
  <2> SUFFICES ASSUME NEW j, NEW i \in DOMAIN s, s[i] = j PROVE Has(t, j) \/ Has(u, j)
    BY DEF Has
  <2>1. CASE i <= k
    BY <1>1, <2>1 DEF Has
  <2>2. CASE i > k
    <3>1. i - k \in DOMAIN u /\ u[i - k] = j
      BY <1>2, <2>2
    <3> QED BY <3>1 DEF Has
  <2> QED BY <2>1, <2>2
<1>7. Rising(s) => Apart(t, p, u, p + k)
  <2>1. p + Len(t) <= p + k
    BY <1>1
  <2> QED BY <1>5, <2>1, Zenon DEF Apart
<1> QED BY <1>1, <1>2, <1>3, <1>4, <1>6, <1>7, Zenon DEF CutInto

(***************************************************************************)
(* Steps that move no job                                                  *)
(***************************************************************************)
\* The jobs, where they are, and what a Purge goes by.
moved == <<state, storage, buf, batch, stamp, npc, node, room, parked, nParked, dispatched,
           first, gen, ppc, reach, doomed, concurrency>>

\* Flags, counters and the loop's own way.
Quiet ==
    \/ Halt \/ Unhalt \/ SetPaused(TRUE) \/ SetPaused(FALSE) \/ NotifyRead \/ NotifyHook \/ Ask
    \/ ScanClear("loop") \/ ScanEnd("loop") \/ ScanClear("other") \/ ScanEnd("other")
    \/ LoopSignal \/ LoopCheck \/ LoopLen \/ LoopNoBatch \/ LoopUnparkNone \/ LoopFilled

\* Steps of a node or of the loop that change only where they are.
Marks ==
    \/ \E x \in Nodes, k \in 1 .. MaxBatch : LoopPlan(x, k)
    \/ LoopGiveBack
    \/ \E x \in Nodes : NodeFresh(x) \/ NodeHalt(x)

Moves ==
    \/ \E j \in Jobs : Add(j) \/ CloseJob(j)
    \/ PurgeBump \/ PurgeDrop \/ PurgeStorage
    \/ LoopUnpark \/ LoopTake \/ LoopStamp
    \/ \E x \in Nodes : NodeStale(x) \/ NodePark(x) \/ NodeSkip(x) \/ NodeStart(x) \/ NodeRan(x)

\* Every action is of one of the three kinds.
LEMMA Kinds == Next => Quiet \/ Marks \/ Moves
BY Zenon DEF Next, Quiet, Marks, Moves, Notify, OtherScan, Purge, LoopStep, NodeStep

\* Quiet steps move nothing.
LEMMA QuietMoves == Quiet => UNCHANGED moved
BY Zenon DEF Quiet, moved, Halt, Unhalt, SetPaused, NotifyRead, NotifyHook, Ask, ScanClear, ScanEnd,
   LoopSignal, LoopCheck, LoopLen, LoopNoBatch, LoopUnparkNone, LoopFilled,
   qvars, wvars, lvars, nvars, kvars, pvars

(***************************************************************************)
(* Types                                                                   *)
(***************************************************************************)
Flags ==
    /\ paused \in BOOLEAN /\ halting \in BOOLEAN /\ signal \in BOOLEAN
    /\ parkHeld \in BOOLEAN /\ asked \in BOOLEAN
    /\ first \in [Nodes -> BOOLEAN]

Pieces ==
    /\ storage \in Seq(Jobs) /\ buf \in Seq(Jobs)
    /\ batch \in [Nodes -> Seq(Jobs)]
    /\ stamp \in [Nodes -> Stamps]
    /\ parked \subseteq [jobs : Seq(Jobs) \ {<<>>}, stamp : Stamps]

Marked ==
    /\ concurrency \in 1 .. Cardinality(Nodes)
    /\ state \in [Jobs -> {"new", "queued", "running", "done", "closed", "purged"}]
    /\ owed \in 0 .. MaxOwed
    /\ notify \in {"none", "paused", "resumed"}
    /\ lpc \in {"select", "check", "scan", "len", "plan", "unpark", "fill", "stamp"}
    /\ node \in Nodes \cup {None}
    /\ room \in 0 .. MaxBatch
    /\ n \in Nat /\ dispatched \in Nat
    /\ npc \in [Nodes -> {"idle", "taken", "stale", "halt", "park", "start", "run"}]
    /\ parkMx \in {"loop", "other", None}
    /\ gen \in 0 .. MaxPurges
    /\ ppc \in {"none", "drop", "storage"}
    /\ reach \subseteq Jobs /\ doomed \subseteq Jobs

\* The parts make up TypeOK, before and after a step.
LEMMA TypeParts ==
    /\ TypeOK <=> Flags /\ Pieces /\ Marked /\ nParked \in Nat
    /\ TypeOK' <=> Flags' /\ Pieces' /\ Marked' /\ nParked' \in Nat
BY Zenon DEF TypeOK, Flags, Pieces, Marked

\* The flags keep their types.
LEMMA FlagsStep == Flags /\ [Next]_vars => Flags'
<1> SUFFICES ASSUME Flags, [Next]_vars PROVE Flags'
  OBVIOUS
<1>1. CASE UNCHANGED vars
  BY <1>1, Zenon DEF vars, Flags, qvars, wvars, lvars, nvars, kvars, pvars
<1>2. CASE Quiet
  BY <1>2, Zenon DEF Flags, Quiet, Halt, Unhalt, SetPaused, NotifyRead, NotifyHook, Ask, ScanClear, ScanEnd,
     LoopSignal, LoopCheck, LoopLen, LoopNoBatch, LoopUnparkNone, LoopFilled, Held,
     qvars, wvars, lvars, nvars, kvars, pvars
<1>3. CASE Marks
  BY <1>3, Zenon DEF Flags, Marks, LoopPlan, LoopGiveBack, NodeFresh, NodeHalt,
     qvars, wvars, lvars, nvars, kvars, pvars
<1>4. CASE Moves
  <2> USE DEF Flags, qvars, wvars, lvars, nvars, kvars, pvars
  <2>1. CASE \E j \in Jobs : Add(j) \/ CloseJob(j)
    BY <2>1, Zenon DEF Add, CloseJob
  <2>2. CASE PurgeBump \/ PurgeDrop \/ PurgeStorage
    BY <2>2, Zenon DEF PurgeBump, PurgeDrop, PurgeStorage
  <2>3. CASE LoopUnpark \/ LoopTake \/ LoopStamp
    BY <2>3, Zenon DEF LoopUnpark, UnparkFrom, LoopTake, LoopStamp, SendBatch
  <2>4. ASSUME NEW x \in Nodes, NodeStale(x) \/ NodeSkip(x) \/ NodeRan(x)
        PROVE  Flags'
    BY <2>4, Zenon DEF NodeStale, NodeSkip, NodeRan, NextInBatch
  <2>5. ASSUME NEW x \in Nodes, NodePark(x) \/ NodeStart(x)
        PROVE  Flags'
    BY <2>5, Zenon DEF NodePark, ParkStale, ParkBatch, NodeStart, Held
  <2> QED BY <1>4, <2>1, <2>2, <2>3, <2>4, <2>5 DEF Moves
<1> QED BY <1>1, <1>2, <1>3, <1>4, Kinds

\* Oldest is one of the parked batches.
LEMMA OldestParked == ASSUME Pieces, parked # {} PROVE Oldest \in parked
<1> DEFINE seqs == {b.stamp.seq : b \in parked}
<1>1. \A b \in parked : b.stamp.seq \in Nat
  BY DEF Pieces, Stamps
<1>2. seqs \subseteq Nat /\ seqs # {}
  BY <1>1
<1> DEFINE R == OpToRel(<, Nat)
<1>3. \A p, q \in Nat : p < q => <<p, q>> \in R
  BY DEF OpToRel
<1>4. PICK m \in seqs : \A q \in seqs : ~(<<q, m>> \in R)
  BY <1>2, NatLessThanWellFounded, WFMin
<1> HIDE DEF R
<1>5. PICK b \in parked : b.stamp.seq = m
  BY <1>4
<1>6. \A c \in parked : b.stamp.seq <= c.stamp.seq
  <2> SUFFICES ASSUME NEW c \in parked, c.stamp.seq < b.stamp.seq PROVE FALSE
    BY <1>1
  <2> QED BY <1>1, <1>3, <1>4, <1>5
<1> QED BY <1>6 DEF Oldest

\* Every piece that a batch is made of has its types.
LEMMA PieceTypes ==
    /\ Pieces => /\ \A b \in parked : /\ b.jobs \in Seq(Jobs) /\ b.jobs # <<>>
                                      /\ b.stamp.seq \in Nat /\ b.stamp.epoch \in Nat
                 /\ \A x \in Nodes : /\ batch[x] \in Seq(Jobs)
                                     /\ stamp[x].seq \in Nat /\ stamp[x].epoch \in Nat
    /\ Pieces' => /\ \A b \in parked' : /\ b.jobs \in Seq(Jobs) /\ b.jobs # <<>>
                                        /\ b.stamp.seq \in Nat /\ b.stamp.epoch \in Nat
                  /\ \A x \in Nodes : /\ batch'[x] \in Seq(Jobs)
                                      /\ stamp'[x].seq \in Nat /\ stamp'[x].epoch \in Nat
BY DEF Pieces, Stamps

\* unpark: the first k jobs of a parked batch go to the node, and the rest, if
\* any, stays parked.
LEMMA Unparks ==
    ASSUME Pieces, Marked, Shape, LoopUnpark
    PROVE  \E b \in parked : \E k \in 1 .. Len(b.jobs) :
             /\ parked' = (parked \ {b}) \cup IF k < Len(b.jobs) THEN {Rest(b, k)} ELSE {}
             /\ nParked' = nParked - k
             /\ node \in Nodes
             /\ batch' = [batch EXCEPT ![node] = SubSeq(b.jobs, 1, k)]
             /\ stamp' = [stamp EXCEPT ![node] = b.stamp]
<1> DEFINE b == Oldest
           k == Min({room, Len(b.jobs)})
<1>1. b \in parked
  BY OldestParked DEF LoopUnpark
<1>2. node \in Nodes /\ room \in Nat /\ room > 0
  BY DispatchAssumption DEF LoopUnpark, Shape, Marked
<1>3. b \in [jobs : Seq(Jobs) \ {<<>>}, stamp : Stamps]
  BY <1>1 DEF Pieces
<1>4. Len(b.jobs) \in Nat /\ Len(b.jobs) > 0
  BY <1>3
<1>5. k \in 1 .. Len(b.jobs)
  BY <1>2, <1>4 DEF Min
<1>6. LoopUnpark => UnparkFrom(b, k)
  BY DEF LoopUnpark
<1> HIDE DEF b, k
<1> QED BY <1>1, <1>2, <1>5, <1>6 DEF UnparkFrom, SendBatch

\* What unpark leaves parked is a batch: the jobs not taken, numbered on from
\* where it was cut, of the same Epoch.
LEMMA RestTypes ==
    ASSUME Pieces, NEW b \in parked, NEW k \in 1 .. Len(b.jobs), k < Len(b.jobs)
    PROVE  /\ Rest(b, k) \in [jobs : Seq(Jobs) \ {<<>>}, stamp : Stamps]
           /\ Rest(b, k).jobs = SubSeq(b.jobs, k + 1, Len(b.jobs))
           /\ Rest(b, k).stamp.seq = b.stamp.seq + k
           /\ Rest(b, k).stamp.epoch = b.stamp.epoch
<1>1. b.jobs \in Seq(Jobs) /\ b.stamp \in Stamps
  BY DEF Pieces
<1>2. SubSeq(b.jobs, k + 1, Len(b.jobs)) \in Seq(Jobs) \ {<<>>}
  <2> DEFINE u == SubSeq(b.jobs, k + 1, Len(b.jobs))
  <2>1. u \in Seq(Jobs) /\ Len(u) = Len(b.jobs) - k
    BY <1>1
  <2>2. Len(u) > 0
    BY <1>1, <2>1
  <2> HIDE DEF u
  <2>3. u # <<>>
    BY <2>2
  <2> QED BY <2>1, <2>3 DEF u
<1>3. Later(b.stamp, k) \in Stamps
  BY <1>1 DEF Later, Stamps
<1> QED BY <1>1, <1>2, <1>3 DEF Rest, Later, Stamps

\* A node whose batch is under way has a job to deal with, and when it is dealt
\* with the rest of the batch goes on under its own number.
Going(x) == npc[x] \in {"stale", "halt", "park", "start", "run"}

\* NextInBatch: the head goes, the rest of the batch keeps its Epoch and is
\* numbered from one further on; an emptied batch forgets its stamp.
LEMMA Advances ==
    ASSUME Pieces, Shape, NEW x \in Nodes, Going(x), NextInBatch(x)
    PROVE  /\ batch[x] \in Seq(Jobs) /\ batch[x] # <<>>
           /\ \A y \in Nodes : y # x => batch'[y] = batch[y] /\ stamp'[y] = stamp[y]
           /\ batch' \in [Nodes -> Seq(Jobs)] /\ batch'[x] = Tail(batch[x])
           /\ stamp' \in [Nodes -> Stamps]
           /\ \/ Len(batch[x]) = 1 /\ stamp'[x] = NoStamp
              \/ /\ Len(batch[x]) > 1 /\ stamp'[x].seq = stamp[x].seq + 1
                 /\ stamp'[x].epoch = stamp[x].epoch
<1>1. batch[x] \in Seq(Jobs) /\ batch[x] # <<>> /\ stamp[x] \in Stamps
  BY DEF Pieces, Shape, Going
<1>2. Tail(batch[x]) \in Seq(Jobs)
  BY <1>1
<1>3. \A L \in Nat : L > 0 => L > 1 \/ L = 1
  OBVIOUS
<1>4. Len(batch[x]) \in Nat /\ Len(batch[x]) > 0
  BY <1>1
<1> DEFINE then == Later(stamp[x], 1)
           more == Len(batch[x]) > 1
<1>5. stamp' = [stamp EXCEPT ![x] = IF more THEN then ELSE NoStamp]
  BY Zenon DEF NextInBatch
<1>6. /\ then \in Stamps /\ NoStamp \in Stamps
      /\ then.seq = stamp[x].seq + 1 /\ then.epoch = stamp[x].epoch
  BY <1>1 DEF Later, Stamps, NoStamp
<1>7. /\ more => Len(batch[x]) > 1
      /\ ~more => Len(batch[x]) = 1
  BY <1>3, <1>4, Zenon
<1> HIDE DEF then, more
<1>8. /\ stamp' \in [Nodes -> Stamps] /\ stamp'[x] = IF more THEN then ELSE NoStamp
      /\ \A y \in Nodes : y # x => stamp'[y] = stamp[y]
  BY <1>6, <1>5 DEF Pieces
<1>9. /\ batch' \in [Nodes -> Seq(Jobs)] /\ batch'[x] = Tail(batch[x])
      /\ \A y \in Nodes : y # x => batch'[y] = batch[y]
  BY <1>2 DEF NextInBatch, Pieces
<1> QED BY <1>1, <1>6, <1>8, <1>9, <1>7

\* The sequences and stamps keep their types.
LEMMA PiecesStep == Pieces /\ Marked /\ Shape /\ [Next]_vars => Pieces'
<1> SUFFICES ASSUME Pieces, Marked, Shape, [Next]_vars PROVE Pieces'
  OBVIOUS
<1>1. CASE UNCHANGED <<storage, buf, batch, stamp, parked>>
  BY <1>1 DEF Pieces
<1>2. CASE UNCHANGED vars \/ Quiet
  BY <1>1, <1>2, QuietMoves, Zenon DEF vars, moved, qvars, wvars, lvars, nvars, kvars, pvars
<1>3. CASE Marks
  BY <1>1, <1>3, Zenon DEF Marks, LoopPlan, LoopGiveBack, NodeFresh, NodeHalt,
     qvars, wvars, lvars, nvars, kvars, pvars
<1>4. ASSUME NEW j \in Jobs, Add(j) PROVE Pieces'
  <2>1. Append(storage, j) \in Seq(Jobs)
    BY DEF Pieces
  <2> QED BY <1>4, <2>1 DEF Pieces, Add, lvars, nvars, kvars
<1>5. ASSUME NEW j \in Jobs, CloseJob(j) PROVE Pieces'
  BY <1>1, <1>5, Zenon DEF CloseJob, qvars, lvars, nvars, kvars
<1>6. CASE PurgeBump
  BY <1>1, <1>6, Zenon DEF PurgeBump, qvars, lvars, nvars, kvars
<1>7. CASE PurgeDrop \/ PurgeStorage
  <2>1. <<>> \in Seq(Jobs)
    OBVIOUS
  <2> QED BY <1>7, <2>1, Zenon DEF PurgeDrop, PurgeStorage, Pieces, qvars, lvars, nvars, kvars
<1>8. CASE LoopUnpark
  <2>1. PICK b \in parked : \E k \in 1 .. Len(b.jobs) :
             /\ parked' = (parked \ {b}) \cup IF k < Len(b.jobs) THEN {Rest(b, k)} ELSE {}
             /\ nParked' = nParked - k
             /\ node \in Nodes
             /\ batch' = [batch EXCEPT ![node] = SubSeq(b.jobs, 1, k)]
             /\ stamp' = [stamp EXCEPT ![node] = b.stamp]
    BY <1>8, Unparks
  <2>2. PICK k \in 1 .. Len(b.jobs) :
             /\ parked' = (parked \ {b}) \cup IF k < Len(b.jobs) THEN {Rest(b, k)} ELSE {}
             /\ node \in Nodes
             /\ batch' = [batch EXCEPT ![node] = SubSeq(b.jobs, 1, k)]
             /\ stamp' = [stamp EXCEPT ![node] = b.stamp]
    BY <2>1
  <2>3. b.jobs \in Seq(Jobs) /\ b.stamp \in Stamps
    BY DEF Pieces
  <2>4. SubSeq(b.jobs, 1, k) \in Seq(Jobs)
    BY <2>3
  <2>5. batch' \in [Nodes -> Seq(Jobs)] /\ stamp' \in [Nodes -> Stamps]
    BY <2>2, <2>3, <2>4 DEF Pieces
  <2>6. parked' \subseteq [jobs : Seq(Jobs) \ {<<>>}, stamp : Stamps]
    BY <2>2, RestTypes, Zenon DEF Pieces
  <2> QED BY <1>8, <2>5, <2>6 DEF LoopUnpark, Pieces, qvars
<1>9. CASE LoopTake
  <2>1. Tail(storage) \in Seq(Jobs) /\ Append(buf, Head(storage)) \in Seq(Jobs)
    BY <1>9 DEF LoopTake, Pieces
  <2> QED BY <1>9, <2>1 DEF LoopTake, Pieces, nvars, kvars
<1>10. CASE LoopStamp
  <2>1. [epoch |-> gen, seq |-> dispatched] \in Stamps
    BY DispatchAssumption DEF Marked, Stamps
  <2>2. /\ batch' = [batch EXCEPT ![node] = buf] /\ buf' = <<>>
        /\ stamp' = [stamp EXCEPT ![node] = [epoch |-> gen, seq |-> dispatched]]
        /\ UNCHANGED <<storage, parked>>
    BY <1>10 DEF LoopStamp, SendBatch, qvars, kvars
  <2>3. buf' \in Seq(Jobs)
    BY <2>2
  <2>4. batch' \in [Nodes -> Seq(Jobs)] /\ stamp' \in [Nodes -> Stamps]
    BY <2>1, <2>2 DEF Pieces
  <2> QED BY <2>2, <2>3, <2>4 DEF Pieces
<1>11. ASSUME NEW x \in Nodes, NodeStale(x) \/ NodeSkip(x) \/ NodeRan(x) PROVE Pieces'
  <2>1. Going(x) /\ NextInBatch(x) /\ UNCHANGED <<storage, buf, parked>>
    BY <1>11, Zenon DEF NodeStale, NodeSkip, NodeRan, Going, qvars, lvars, kvars
  <2>2. batch' \in [Nodes -> Seq(Jobs)] /\ stamp' \in [Nodes -> Stamps]
    BY <2>1, Advances
  <2> QED BY <2>1, <2>2 DEF Pieces
<1>12. ASSUME NEW x \in Nodes, NodePark(x) PROVE Pieces'
  <2>1. batch[x] \in Seq(Jobs) \ {<<>>} /\ stamp[x] \in Stamps
    BY <1>12 DEF NodePark, Shape, Pieces
  <2>2. parked' \subseteq [jobs : Seq(Jobs) \ {<<>>}, stamp : Stamps]
    BY <1>12, <2>1 DEF NodePark, ParkStale, ParkBatch, Pieces
  <2>3. NoStamp \in Stamps
    BY DEF NoStamp, Stamps
  <2> QED BY <1>12, <2>2, <2>3 DEF NodePark, Pieces, qvars, lvars
<1>13. ASSUME NEW x \in Nodes, NodeStart(x) PROVE Pieces'
  BY <1>1, <1>13, Zenon DEF NodeStart, qvars, lvars, kvars
<1> QED BY <1>2, <1>3, <1>4, <1>5, <1>6, <1>7, <1>8, <1>9, <1>10, <1>11, <1>12, <1>13,
        Kinds, Zenon DEF Moves

\* A Purge leaves every job in a state.
LEMMA PurgedTypes ==
    ASSUME Marked, NEW js
    PROVE  /\ Purged(js) \in [Jobs -> {"new", "queued", "running", "done", "closed", "purged"}]
           /\ \A j \in Jobs : Purged(js)[j] = IF j \in js /\ state[j] = "queued" THEN "purged"
                                              ELSE state[j]
BY DEF Purged, Marked

\* What PurgeBump finds stamped.
Passed(x) == IF npc[x] = "stale" \/ batch[x] = <<>> THEN batch[x] ELSE Tail(batch[x])
Stamped == JobsOf(parked) \cup UNION {Range(Passed(x)) : x \in {y \in Nodes : npc[y] # "taken"}}

\* PurgeBump dooms jobs.
LEMMA StampedTypes ==
    ASSUME Pieces
    PROVE  /\ \A x \in Nodes : Passed(x) \in Seq(Jobs)
           /\ Stamped \subseteq Jobs
           /\ PurgeBump => doomed' = doomed \cup Stamped
<1>1. \A x \in Nodes : Passed(x) \in Seq(Jobs)
  BY DEF Pieces, Passed
<1>2. \A q \in Seq(Jobs) : Range(q) \subseteq Jobs
  BY DEF Range
<1>3. \A b \in parked : b.jobs \in Seq(Jobs)
  BY DEF Pieces
<1>4. Stamped \subseteq Jobs
  BY <1>1, <1>2, <1>3, Zenon DEF Stamped, JobsOf
<1>5. PurgeBump => doomed' = doomed \cup Stamped
  BY Zenon DEF PurgeBump, Stamped, Passed
<1> QED BY <1>1, <1>4, <1>5

\* States, places in the code and counters keep their types.
LEMMA MarkedStep == Pieces /\ Marked /\ nParked \in Nat /\ Shape /\ [Next]_vars => Marked'
<1> SUFFICES ASSUME Pieces, Marked, Shape, [Next]_vars, nParked \in Nat PROVE Marked'
  OBVIOUS
<1> USE DEF Marked
<1>1. CASE UNCHANGED vars
  BY <1>1 DEF vars, qvars, wvars, lvars, nvars, kvars, pvars
<1>2. CASE Quiet
  <2> USE DEF qvars, wvars, lvars, nvars, kvars, pvars
  <2>1. CASE Halt \/ Unhalt \/ Ask \/ LoopSignal \/ LoopNoBatch \/ LoopUnparkNone \/ LoopFilled
    BY <2>1 DEF Halt, Unhalt, Ask, LoopSignal, LoopNoBatch, LoopUnparkNone, LoopFilled
  <2>2. CASE SetPaused(TRUE) \/ SetPaused(FALSE) \/ NotifyRead \/ NotifyHook
    <3>1. /\ owed' \in {owed, owed + 1, owed - 1} /\ owed' \in 0 .. MaxOwed
          /\ notify' \in {"none", "paused", "resumed"}
      <4>1. CASE SetPaused(TRUE) \/ SetPaused(FALSE)
        <5>1. owed < MaxOwed /\ owed' = owed + 1 /\ UNCHANGED notify
          BY <4>1, Zenon DEF SetPaused
        <5> QED BY <5>1, DispatchAssumption
      <4>2. CASE NotifyRead
        <5>1. owed > 0 /\ owed' = owed - 1 /\ notify' \in {"none", "paused", "resumed"}
          BY <4>2 DEF NotifyRead
        <5> QED BY <5>1, DispatchAssumption
      <4>3. CASE NotifyHook
        BY <4>3 DEF NotifyHook
      <4> QED BY <2>2, <4>1, <4>2, <4>3
    <3>2. UNCHANGED <<moved, lvars, parkMx>>
      BY <2>2, Zenon DEF moved, SetPaused, NotifyRead, NotifyHook
    <3> QED BY <3>1, <3>2 DEF moved
  <2>3. CASE ScanClear("loop") \/ ScanClear("other") \/ ScanEnd("loop") \/ ScanEnd("other")
    BY <2>3 DEF ScanClear, ScanEnd
  <2>4. CASE LoopCheck \/ LoopLen
    BY <2>4 DEF LoopCheck, LoopLen
  <2> QED BY <1>2, <2>1, <2>2, <2>3, <2>4 DEF Quiet
<1>3. CASE Marks
  BY <1>3, DispatchAssumption DEF Marks, LoopPlan, LoopGiveBack, NodeFresh, NodeHalt,
     qvars, wvars, lvars, nvars, kvars, pvars
<1>4. ASSUME NEW j \in Jobs, Add(j) \/ CloseJob(j) PROVE Marked'
  BY <1>4 DEF Add, CloseJob, qvars, wvars, lvars, nvars, kvars, pvars
<1>5. CASE PurgeBump
  <2>1. doomed' \subseteq Jobs
    BY <1>5, StampedTypes
  <2>2. gen' \in 0 .. MaxPurges /\ ppc' \in {"none", "drop", "storage"} /\ UNCHANGED reach
    BY <1>5, DispatchAssumption DEF PurgeBump
  <2> QED BY <1>5, <2>1, <2>2 DEF PurgeBump, qvars, wvars, lvars, nvars, kvars
<1>6. CASE PurgeDrop
  BY <1>6, PurgedTypes DEF PurgeDrop, qvars, wvars, lvars, nvars, kvars
<1>7. CASE PurgeStorage
  BY <1>7, PurgedTypes DEF PurgeStorage, wvars, lvars, nvars, kvars
<1>8. CASE LoopUnpark
  <2>1. /\ node' = None /\ room' = 0 /\ lpc' = "check" /\ npc' = [npc EXCEPT ![node] = "stale"]
        /\ UNCHANGED <<state, owed, notify, wvars, n, dispatched, parkMx, pvars>>
    BY <1>8, Zenon DEF LoopUnpark, UnparkFrom, SendBatch, qvars
  <2>2. npc' \in [Nodes -> {"idle", "taken", "stale", "halt", "park", "start", "run"}]
    BY <2>1
  <2>3. 0 \in 0 .. MaxBatch
    BY DispatchAssumption
  <2> QED BY <2>1, <2>2, <2>3, Zenon DEF wvars, pvars
<1>9. CASE LoopTake
  BY <1>9 DEF LoopTake, wvars, nvars, kvars, pvars
<1>10. CASE LoopStamp
  <2>1. dispatched' \in Nat
    BY <1>10 DEF LoopStamp, Pieces
  <2>2. /\ node' = None /\ room' = 0 /\ lpc' \in {"check", "select"}
        /\ npc' = [npc EXCEPT ![node] = "stale"]
        /\ UNCHANGED <<state, owed, notify, wvars, n, parkMx, pvars>>
    BY <1>10 DEF LoopStamp, SendBatch, qvars, kvars
  <2>3. npc' \in [Nodes -> {"idle", "taken", "stale", "halt", "park", "start", "run"}]
    BY <2>2
  <2>4. 0 \in 0 .. MaxBatch
    BY DispatchAssumption
  <2> QED BY <2>1, <2>2, <2>3, <2>4, Zenon DEF wvars, pvars
<1>11. ASSUME NEW x \in Nodes, NodeStale(x) \/ NodeSkip(x) \/ NodeRan(x) PROVE Marked'
  <2>1. npc' \in [Nodes -> {"idle", "taken", "stale", "halt", "park", "start", "run"}]
    BY <1>11 DEF NodeStale, NodeSkip, NodeRan, NextInBatch
  <2>2. state' \in [Jobs -> {"new", "queued", "running", "done", "closed", "purged"}]
    <3>1. CASE NodeStale(x)
      BY <3>1, PurgedTypes DEF NodeStale
    <3>2. CASE NodeSkip(x) \/ NodeRan(x)
      BY <3>2 DEF NodeSkip, NodeRan
    <3> QED BY <1>11, <3>1, <3>2
  <2>3. UNCHANGED <<qvars, wvars, lvars, kvars, pvars>>
    BY <1>11 DEF NodeStale, NodeSkip, NodeRan
  <2> QED BY <2>1, <2>2, <2>3 DEF qvars, wvars, lvars, kvars, pvars
<1>12. ASSUME NEW x \in Nodes, NodePark(x) PROVE Marked'
  <2>1. state' \in [Jobs -> {"new", "queued", "running", "done", "closed", "purged"}]
    BY <1>12, PurgedTypes DEF NodePark, ParkStale, ParkBatch
  <2> QED BY <1>12, <2>1 DEF NodePark, qvars, wvars, lvars, pvars
<1>13. ASSUME NEW x \in Nodes, NodeStart(x) PROVE Marked'
  BY <1>13 DEF NodeStart, qvars, wvars, lvars, kvars, pvars
<1> HIDE DEF Marked
<1> QED BY <1>1, <1>2, <1>3, <1>4, <1>5, <1>6, <1>7, <1>8, <1>9, <1>10, <1>11, <1>12, <1>13,
        Kinds, Zenon DEF Moves

(***************************************************************************)
(* Where the loop and the nodes are                                        *)
(***************************************************************************)
LEMMA ShapeStep == Pieces /\ Marked /\ Shape /\ [Next]_vars => Shape'
<1> SUFFICES ASSUME Pieces, Marked, Shape, [Next]_vars PROVE Shape'
  OBVIOUS
<1> USE DEF Shape
<1>1. CASE UNCHANGED vars
  BY <1>1 DEF vars, lvars, nvars, kvars
<1>2. CASE Quiet
  <2>1. UNCHANGED <<node, room, buf, npc, batch>>
    BY <1>2, QuietMoves, Zenon DEF moved
  <2>2. /\ node # None <=> lpc' \in {"unpark", "fill", "stamp"}
        /\ lpc' \notin {"fill", "stamp"} => buf = <<>>
    <3> USE DEF lvars
    <3>1. CASE Halt \/ Unhalt \/ Ask \/ SetPaused(TRUE) \/ SetPaused(FALSE) \/ NotifyRead \/ NotifyHook
               \/ ScanClear("loop") \/ ScanClear("other")
      BY <3>1 DEF Halt, Unhalt, Ask, SetPaused, NotifyRead, NotifyHook, ScanClear
    <3>2. CASE ScanEnd("loop") \/ ScanEnd("other")
      BY <3>2 DEF ScanEnd
    <3>3. CASE LoopSignal \/ LoopCheck \/ LoopLen \/ LoopNoBatch \/ LoopUnparkNone \/ LoopFilled
      BY <3>3 DEF LoopSignal, LoopCheck, LoopLen, LoopNoBatch, LoopUnparkNone, LoopFilled
    <3> QED BY <1>2, <3>1, <3>2, <3>3 DEF Quiet
  <2>3. parkMx' = "loop" => lpc' = "scan"
    <3> USE DEF lvars, kvars
    <3>1. CASE Halt \/ Unhalt \/ Ask \/ SetPaused(TRUE) \/ SetPaused(FALSE) \/ NotifyRead \/ NotifyHook
      BY <3>1 DEF Halt, Unhalt, Ask, SetPaused, NotifyRead, NotifyHook
    <3>2. CASE ScanClear("loop") \/ ScanClear("other") \/ ScanEnd("loop") \/ ScanEnd("other")
      BY <3>2, DispatchAssumption DEF ScanClear, ScanEnd
    <3>3. CASE LoopSignal \/ LoopCheck \/ LoopLen \/ LoopNoBatch \/ LoopUnparkNone \/ LoopFilled
      BY <3>3 DEF LoopSignal, LoopCheck, LoopLen, LoopNoBatch, LoopUnparkNone, LoopFilled
    <3> QED BY <1>2, <3>1, <3>2, <3>3 DEF Quiet
  <2> QED BY <2>1, <2>2, <2>3
<1>3. ASSUME NEW x \in Nodes, NEW k \in 1 .. MaxBatch, LoopPlan(x, k) PROVE Shape'
  BY <1>3, DispatchAssumption DEF LoopPlan, kvars, Marked
<1>4. CASE LoopGiveBack
  BY <1>4, DispatchAssumption DEF LoopGiveBack, kvars, Marked
<1>5. ASSUME NEW x \in Nodes, NodeFresh(x) \/ NodeHalt(x) PROVE Shape'
  BY <1>5, DispatchAssumption DEF NodeFresh, NodeHalt, lvars, kvars, Marked
<1>6. ASSUME NEW j \in Jobs, Add(j) \/ CloseJob(j) PROVE Shape'
  BY <1>6 DEF Add, CloseJob, lvars, nvars, kvars
<1>7. CASE PurgeBump \/ PurgeDrop \/ PurgeStorage
  BY <1>7 DEF PurgeBump, PurgeDrop, PurgeStorage, lvars, nvars, kvars
<1>8. CASE LoopUnpark
  <2>1. PICK b \in parked : \E k \in 1 .. Len(b.jobs) :
             /\ node \in Nodes
             /\ batch' = [batch EXCEPT ![node] = SubSeq(b.jobs, 1, k)]
    BY <1>8, Unparks
  <2>2. PICK k \in 1 .. Len(b.jobs) :
             /\ node \in Nodes
             /\ batch' = [batch EXCEPT ![node] = SubSeq(b.jobs, 1, k)]
    BY <2>1
  <2>3. b.jobs \in Seq(Jobs)
    BY PieceTypes
  <2>4. Len(SubSeq(b.jobs, 1, k)) = k
    BY <2>3
  <2>5. SubSeq(b.jobs, 1, k) # <<>>
    BY <2>4
  <2>6. /\ lpc = "unpark" /\ lpc' = "check" /\ npc' = [npc EXCEPT ![node] = "stale"]
        /\ node' = None /\ room' = 0 /\ UNCHANGED <<buf, parkMx>>
    BY <1>8 DEF LoopUnpark, UnparkFrom, SendBatch
  <2> QED BY <2>2, <2>5, <2>6, DispatchAssumption DEF Marked, Pieces
<1>9. CASE LoopTake
  BY <1>9 DEF LoopTake, nvars, kvars
<1>10. CASE LoopStamp
  <2>1. /\ lpc = "stamp" /\ lpc' \in {"check", "select"} /\ npc' = [npc EXCEPT ![node] = "stale"]
        /\ batch' = [batch EXCEPT ![node] = buf] /\ buf # <<>>
        /\ node' = None /\ room' = 0 /\ buf' = <<>> /\ UNCHANGED parkMx
    BY <1>10 DEF LoopStamp, SendBatch, kvars
  <2> QED BY <2>1, DispatchAssumption DEF Marked, Pieces
<1>11. ASSUME NEW x \in Nodes, NodeStale(x) \/ NodeSkip(x) \/ NodeRan(x) PROVE Shape'
  <2>1. Going(x) /\ NextInBatch(x) /\ UNCHANGED <<lvars, kvars>>
    BY <1>11, Zenon DEF NodeStale, NodeSkip, NodeRan, Going
  <2>2. batch[x] \in Seq(Jobs) /\ batch[x] # <<>>
    BY <2>1, Advances
  <2>3. Tail(batch[x]) = <<>> <=> ~(Len(batch[x]) > 1)
    <3>1. \A t \in Seq(Jobs) : t = <<>> <=> Len(t) = 0
      OBVIOUS
    <3>2. Tail(batch[x]) \in Seq(Jobs) /\ Len(Tail(batch[x])) = Len(batch[x]) - 1
      BY <2>2
    <3>3. Len(batch[x]) \in Nat /\ Len(batch[x]) > 0
      BY <2>2
    <3>4. Len(batch[x]) - 1 = 0 <=> ~(Len(batch[x]) > 1)
      <4>1. \A L \in Nat : L > 0 => (L - 1 = 0 <=> ~(L > 1))
        OBVIOUS
      <4> QED BY <3>3, <4>1, Zenon
    <3> QED BY <3>1, <3>2, <3>4, Zenon
  <2>4. /\ batch' = [batch EXCEPT ![x] = Tail(batch[x])]
        /\ npc' = [npc EXCEPT ![x] = IF Len(batch[x]) > 1 THEN "stale" ELSE "idle"]
    BY <2>1, Zenon DEF NextInBatch
  <2>5. \A y \in Nodes : batch'[y] = <<>> <=> npc'[y] \in {"idle", "taken"}
    BY <2>3, <2>4 DEF Marked, Pieces
  <2>6. \A y \in Nodes : npc'[y] = "taken" <=> y = node
    BY <2>1, <2>4 DEF Going, Marked
  <2> QED BY <2>1, <2>5, <2>6 DEF lvars, kvars
<1>12. ASSUME NEW x \in Nodes, NodePark(x) PROVE Shape'
  BY <1>12, DispatchAssumption DEF NodePark, lvars, Marked, Pieces
<1>13. ASSUME NEW x \in Nodes, NodeStart(x) PROVE Shape'
  BY <1>13 DEF NodeStart, lvars, kvars, Marked
<1> HIDE DEF Shape
<1> QED BY <1>1, <1>2, <1>3, <1>4, <1>5, <1>6, <1>7, <1>8, <1>9, <1>10, <1>11, <1>12, <1>13,
        Kinds, Zenon DEF Moves, Marks

(***************************************************************************)
(* The parked batches: their count, and whether one is held                *)
(***************************************************************************)
\* A batch comes to the parked ones with all its slots, and goes with them.
LEMMA SlotsOf ==
    ASSUME NEW P, NEW b, b.jobs \in Seq(Jobs), IsFiniteSet(Slots(P))
    PROVE  /\ b \notin P => /\ IsFiniteSet(Slots(P \cup {b}))
                            /\ NumJobs(P \cup {b}) = NumJobs(P) + Len(b.jobs)
           /\ b \in P => /\ IsFiniteSet(Slots(P \ {b}))
                         /\ NumJobs(P \ {b}) = NumJobs(P) - Len(b.jobs)
           /\ NumJobs(P) \in Nat
<1> DEFINE own == {b} \X DOMAIN b.jobs
<1>1. DOMAIN b.jobs = 1 .. Len(b.jobs) /\ Len(b.jobs) \in Nat
  OBVIOUS
<1>2. IsFiniteSet(1 .. Len(b.jobs)) /\ Cardinality(1 .. Len(b.jobs)) = Len(b.jobs)
  <2>1. \A L \in Nat : IsFiniteSet(1 .. L) /\ Cardinality(1 .. L) = L
    BY FS_Interval
  <2> QED BY <1>1, <2>1, Zenon
<1>3. IsFiniteSet(own) /\ Cardinality(own) = Len(b.jobs)
  <2>1. IsFiniteSet({b}) /\ Cardinality({b}) = 1
    BY FS_Singleton
  <2>2. IsFiniteSet(own) /\ Cardinality(own) = Cardinality({b}) * Len(b.jobs)
    BY <1>1, <1>2, <2>1, FS_Product, Zenon
  <2>3. \A L \in Nat : 1 * L = L
    OBVIOUS
  <2> QED BY <1>1, <2>1, <2>2, <2>3, Zenon
<1>4. Slots(P \cup {b}) = Slots(P) \cup own
  BY Zenon DEF Slots
<1>5. b \in P => Slots(P) = Slots(P \ {b}) \cup own
  BY Zenon DEF Slots
<1>6. Slots(P \ {b}) \cap own = {}
  <2>1. \A p \in Slots(P \ {b}) : p[1] # b
    BY DEF Slots
  <2>2. \A p \in own : p[1] = b
    OBVIOUS
  <2> QED BY <2>1, <2>2, Zenon
<1>7. b \notin P => P \ {b} = P
  BY Zenon
<1>8. Cardinality({}) = 0
  BY FS_EmptySet
<1>9. NumJobs(P) = Cardinality(Slots(P)) /\ NumJobs(P \ {b}) = Cardinality(Slots(P \ {b}))
      /\ NumJobs(P \cup {b}) = Cardinality(Slots(P \cup {b}))
  BY DEF NumJobs, Slots
<1>10. NumJobs(P) \in Nat
  BY <1>9, FS_CardinalityType
<1> HIDE DEF own
<1>11. ASSUME b \notin P
       PROVE  /\ IsFiniteSet(Slots(P \cup {b}))
              /\ NumJobs(P \cup {b}) = NumJobs(P) + Len(b.jobs)
  <2>1. Slots(P) \cap own = {}
    BY <1>6, <1>7, <1>11, Zenon
  <2>2. /\ IsFiniteSet(Slots(P) \cup own)
        /\ Cardinality(Slots(P) \cup own) = Cardinality(Slots(P)) + Cardinality(own) - Cardinality({})
    BY <1>3, <2>1, FS_Union
  <2>3. \A i, k \in Nat : i + k - 0 = i + k
    OBVIOUS
  <2> QED BY <1>1, <1>3, <1>4, <1>8, <1>9, <1>10, <2>2, <2>3, Zenon
<1>12. ASSUME b \in P
       PROVE  /\ IsFiniteSet(Slots(P \ {b}))
              /\ NumJobs(P \ {b}) = NumJobs(P) - Len(b.jobs)
  <2> DEFINE Q == Slots(P \ {b})
  <2>1. Slots(P) = Q \cup own /\ Q \cap own = {}
    BY <1>5, <1>6, <1>12, Zenon
  <2>2. NumJobs(P \ {b}) = Cardinality(Q)
    BY <1>9
  <2> HIDE DEF Q
  <2>3. IsFiniteSet(Q)
    BY <2>1, FS_Subset
  <2>4. Cardinality(Q) \in Nat
    BY <2>3, FS_CardinalityType
  <2>5. Cardinality(Q \cup own) = Cardinality(Q) + Cardinality(own) - Cardinality({})
    BY <1>3, <2>1, <2>3, FS_Union
  <2>6. Cardinality(Slots(P)) = Cardinality(Q) + Len(b.jobs)
    BY <1>1, <1>3, <1>8, <2>1, <2>4, <2>5
  <2> QED BY <1>1, <1>9, <2>2, <2>3, <2>4, <2>6 DEF Q
<1> QED BY <1>10, <1>11, <1>12, Zenon

\* A batch that is dealt with is nowhere else: no other piece has its jobs.
LEMMA NotParked ==
    ASSUME Pieces, Ordered, NEW x \in Nodes, batch[x] # <<>>, NEW b \in parked
    PROVE  b.jobs # batch[x]
<1>1. /\ batch[x] \in Seq(Jobs) /\ b.jobs \in Seq(Jobs)
      /\ stamp[x].seq \in Nat /\ b.stamp.seq \in Nat
  BY PieceTypes
<1>2. Apart(batch[x], stamp[x].seq, b.jobs, b.stamp.seq)
  BY DEF Ordered
<1>3. 1 \in DOMAIN batch[x] /\ batch[x][1] \in Nat
  BY <1>1, FirstJob
<1>4. ~Below(batch[x], batch[x])
  BY <1>3 DEF Below
<1> QED BY <1>2, <1>4 DEF Apart

\* What unpark leaves of a batch is not parked already: jobs are in one batch.
LEMMA RestNotParked ==
    ASSUME Pieces, Ordered, NEW b \in parked, NEW k \in 1 .. Len(b.jobs), k < Len(b.jobs),
           NEW c \in parked, c # b
    PROVE  c # Rest(b, k)
<1> SUFFICES ASSUME c = Rest(b, k) PROVE FALSE
  OBVIOUS
<1>1. /\ b.jobs \in Seq(Jobs) /\ c.jobs \in Seq(Jobs) /\ c.jobs # <<>>
      /\ b.stamp.seq \in Nat /\ c.stamp.seq \in Nat
  BY PieceTypes
<1>2. Apart(c.jobs, c.stamp.seq, b.jobs, b.stamp.seq)
  BY DEF Ordered
<1>3. c.jobs = SubSeq(b.jobs, k + 1, Len(b.jobs))
  BY RestTypes
<1>4. \A p \in Nat : Part(c.jobs, p + k, b.jobs, p)
  <2>1. \A p \in Nat : CutInto(SubSeq(b.jobs, 1, k), c.jobs, b.jobs, k, p)
    BY <1>1, <1>3, Cut
  <2> QED BY <2>1, Zenon DEF CutInto
<1>5. Has(b.jobs, c.jobs[1])
  <2>1. Part(c.jobs, 0 + k, b.jobs, 0) /\ 0 + k \in Nat
    BY <1>1, <1>4, SMTT(30)
  <2>2. Has(c.jobs, c.jobs[1])
    BY <1>1, FirstJob
  <2>3. \A j : Has(c.jobs, j) => Has(b.jobs, j)
    BY <1>1, <2>1, PartOf
  <2> QED BY <2>2, <2>3
<1>6. 1 \in DOMAIN c.jobs /\ c.jobs[1] \in Nat
  BY <1>1, FirstJob
<1> QED BY <1>2, <1>5, <1>6 DEF Apart, Below, Has

\* nParked goes on counting the parked jobs, whatever is parked, split or
\* dropped.
LEMMA CountedStep ==
    Pieces /\ Marked /\ Shape /\ Ordered /\ Counted /\ [Next]_vars => Counted' /\ nParked' \in Nat
<1> SUFFICES ASSUME Pieces, Marked, Shape, Ordered, Counted, [Next]_vars
             PROVE  Counted' /\ nParked' \in Nat
  OBVIOUS
<1>1. nParked \in Nat
  BY FS_CardinalityType DEF Counted, NumJobs, Slots
<1>2. CASE UNCHANGED <<parked, nParked>>
  BY <1>1, <1>2 DEF Counted, Slots, NumJobs
<1>3. CASE PurgeDrop
  <2>1. nParked' = nParked - NumJobs(parked) /\ parked' = {}
    BY <1>3, Zenon DEF PurgeDrop
  <2>2. Slots({}) = {}
    BY Zenon DEF Slots
  <2>3. IsFiniteSet(Slots({})) /\ NumJobs({}) = 0
    BY <2>2, FS_EmptySet DEF NumJobs, Slots
  <2>4. nParked - nParked = 0
    BY <1>1
  <2> QED BY <2>1, <2>3, <2>4 DEF Counted, NumJobs, Slots
<1>4. CASE LoopUnpark
  <2>1. PICK b \in parked : \E k \in 1 .. Len(b.jobs) :
             /\ parked' = (parked \ {b}) \cup IF k < Len(b.jobs) THEN {Rest(b, k)} ELSE {}
             /\ nParked' = nParked - k
    BY <1>4, Unparks
  <2>2. PICK k \in 1 .. Len(b.jobs) :
             /\ parked' = (parked \ {b}) \cup IF k < Len(b.jobs) THEN {Rest(b, k)} ELSE {}
             /\ nParked' = nParked - k
    BY <2>1
  <2> DEFINE P == parked \ {b}
  <2>3. b.jobs \in Seq(Jobs)
    BY PieceTypes
  <2>4. Len(b.jobs) \in Nat
    BY <2>3
  <2>5. IsFiniteSet(Slots(P)) /\ NumJobs(P) = nParked - Len(b.jobs) /\ NumJobs(P) \in Nat
    BY <2>3, SlotsOf, Zenon DEF Counted
  <2>6. CASE k < Len(b.jobs)
    <3>1. Rest(b, k).jobs \in Seq(Jobs) /\ Len(Rest(b, k).jobs) = Len(b.jobs) - k
      <4>1. \A u : u = SubSeq(b.jobs, k + 1, Len(b.jobs)) => u \in Seq(Jobs) /\ Len(u) = Len(b.jobs) - k
        BY <2>3
      <4> QED BY <2>6, <4>1, RestTypes, Zenon
    <3>2. Rest(b, k) \notin P
      BY <2>6, RestNotParked
    <3>3. /\ IsFiniteSet(Slots(P \cup {Rest(b, k)}))
          /\ NumJobs(P \cup {Rest(b, k)}) = NumJobs(P) + Len(Rest(b, k).jobs)
      BY <2>5, <3>1, <3>2, SlotsOf, Zenon
    <3>4. parked' = P \cup {Rest(b, k)}
      BY <2>2, <2>6
    <3>5. NumJobs(P) + Len(Rest(b, k).jobs) = nParked - k /\ nParked - k \in Nat
      BY <1>1, <2>4, <2>5, <2>6, <3>1
    <3> QED BY <2>2, <3>3, <3>4, <3>5 DEF Counted, NumJobs, Slots
  <2>7. CASE ~(k < Len(b.jobs))
    <3>1. k = Len(b.jobs) /\ parked' = P
      BY <2>2, <2>4, <2>7
    <3> QED BY <2>2, <2>5, <3>1 DEF Counted, NumJobs, Slots
  <2> QED BY <2>6, <2>7
<1>5. ASSUME NEW x \in Nodes, NodePark(x) PROVE Counted' /\ nParked' \in Nat
  <2>1. CASE ParkStale(x)
    BY <1>2, <2>1 DEF ParkStale
  <2>2. CASE ParkBatch(x)
    <3> DEFINE b == [jobs |-> batch[x], stamp |-> stamp[x]]
    <3>1. batch[x] \in Seq(Jobs) /\ batch[x] # <<>>
      BY <1>5, PieceTypes DEF NodePark, Shape
    <3>2. b.jobs = batch[x]
      OBVIOUS
    <3>3. b \notin parked
      BY <3>1, <3>2, NotParked
    <3>4. parked' = parked \cup {b} /\ nParked' = nParked + Len(batch[x])
      BY <2>2 DEF ParkBatch
    <3>5. Len(batch[x]) \in Nat
      BY <3>1
    <3> HIDE DEF b
    <3>6. IsFiniteSet(Slots(parked \cup {b})) /\ NumJobs(parked \cup {b}) = nParked + Len(batch[x])
      BY <3>1, <3>2, <3>3, SlotsOf, Zenon DEF Counted
    <3>7. nParked + Len(batch[x]) \in Nat
      BY <1>1, <3>5
    <3> QED BY <3>4, <3>6, <3>7 DEF Counted, NumJobs, Slots
  <2> QED BY <1>5, <2>1, <2>2 DEF NodePark
<1>6. CASE UNCHANGED vars \/ Quiet \/ Marks
  BY <1>2, <1>6, QuietMoves, Zenon DEF vars, moved, Marks, LoopPlan, LoopGiveBack, NodeFresh,
     NodeHalt, kvars
<1>7. CASE (\E j \in Jobs : Add(j) \/ CloseJob(j)) \/ PurgeBump \/ PurgeStorage \/ LoopTake \/ LoopStamp
  BY <1>2, <1>7, Zenon DEF Add, CloseJob, PurgeBump, PurgeStorage, LoopTake, LoopStamp, kvars
<1>8. CASE \E x \in Nodes : NodeStale(x) \/ NodeSkip(x) \/ NodeStart(x) \/ NodeRan(x)
  BY <1>2, <1>8, Zenon DEF NodeStale, NodeSkip, NodeStart, NodeRan, kvars
<1> QED BY <1>3, <1>4, <1>5, <1>6, <1>7, <1>8, Kinds, Zenon DEF Moves

\* HeldKnown reads only what these change.
held == <<paused, owed, notify, parkHeld, parkMx, parked>>

\* Every step keeps a held batch remembered, or leaves somebody who will.
LEMMA HeldStep == Flags /\ Marked /\ HeldKnown /\ [Next]_vars => HeldKnown'
<1> SUFFICES ASSUME Flags, Marked, HeldKnown, [Next]_vars PROVE HeldKnown'
  OBVIOUS
<1>1. CASE UNCHANGED held
  BY <1>1, Zenon DEF held, HeldKnown
<1>2. CASE SetPaused(TRUE) \/ SetPaused(FALSE)
  <2>1. owed' = owed + 1
    BY <1>2, Zenon DEF SetPaused
  <2>2. owed \in Nat
    BY DispatchAssumption DEF Marked
  <2>3. owed' > 0
    BY <2>1, <2>2
  <2> QED BY <1>2, <2>3, Zenon DEF SetPaused, HeldKnown, kvars
<1>3. CASE NotifyRead
  BY <1>3, Zenon DEF NotifyRead, HeldKnown, kvars
<1>4. CASE NotifyHook
  <2>1. notify = "paused" \/ notify = "resumed"
    BY <1>4 DEF NotifyHook, Marked
  <2> QED BY <1>4, <2>1, Zenon DEF NotifyHook, HeldKnown, kvars
<1>5. CASE ScanClear("loop") \/ ScanClear("other")
  <2>1. parkMx' # None /\ UNCHANGED <<paused, owed, notify, parked>>
    BY <1>5, DispatchAssumption, Zenon DEF ScanClear, qvars, kvars
  <2> QED BY <2>1, Zenon DEF HeldKnown
<1>6. CASE ScanEnd("loop") \/ ScanEnd("other")
  <2>1. /\ parkHeld' = (parkHeld \/ (paused /\ parked # {}))
        /\ UNCHANGED <<paused, owed, notify, parked>>
    BY <1>6, Zenon DEF ScanEnd, Held, qvars
  <2> QED BY <2>1, Zenon DEF HeldKnown
<1>7. CASE PurgeDrop
  BY <1>7, Zenon DEF PurgeDrop, HeldKnown, qvars, kvars
<1>8. CASE LoopUnpark
  BY <1>8, Zenon DEF LoopUnpark, Held, HeldKnown, qvars
<1>9. ASSUME NEW x \in Nodes, NodePark(x) PROVE HeldKnown'
  <2>1. UNCHANGED <<paused, owed, notify, parkMx>>
    BY <1>9, Zenon DEF NodePark, qvars
  <2>2. (parkHeld' = (parkHeld \/ paused)) \/ UNCHANGED <<parked, parkHeld>>
    BY <1>9, Zenon DEF NodePark, ParkStale, ParkBatch, Held
  <2> QED BY <2>1, <2>2, Zenon DEF HeldKnown
<1>10. CASE UNCHANGED vars \/ Halt \/ Unhalt \/ Ask
  BY <1>1, <1>10, Zenon DEF held, vars, Halt, Unhalt, Ask, qvars, kvars
<1>11. CASE Marks \/ LoopSignal \/ LoopCheck \/ LoopLen \/ LoopNoBatch \/ LoopUnparkNone \/ LoopFilled
  BY <1>1, <1>11, Zenon DEF held, Marks, LoopPlan, LoopGiveBack, NodeFresh, NodeHalt, LoopSignal, LoopCheck,
     LoopLen, LoopNoBatch, LoopUnparkNone, LoopFilled, qvars, kvars
<1>12. CASE (\E j \in Jobs : Add(j) \/ CloseJob(j)) \/ PurgeBump \/ PurgeStorage \/ LoopTake \/ LoopStamp
  BY <1>1, <1>12, Zenon DEF held, Add, CloseJob, PurgeBump, PurgeStorage, LoopTake, LoopStamp, qvars, kvars
<1>13. CASE \E x \in Nodes : NodeStale(x) \/ NodeSkip(x) \/ NodeStart(x) \/ NodeRan(x)
  BY <1>1, <1>13, Zenon DEF held, NodeStale, NodeSkip, NodeStart, NodeRan, qvars, kvars
<1> QED BY <1>2, <1>3, <1>4, <1>5, <1>6, <1>7, <1>8, <1>9, <1>10, <1>11, <1>12, <1>13, Kinds, Zenon
        DEF Moves, Quiet

(***************************************************************************)
(* The order of the jobs                                                   *)
(***************************************************************************)
LEMMA PartRefl == ASSUME NEW s \in Seq(Jobs), NEW p \in Nat PROVE Part(s, p, s, p)
<1>1. p = p + 0 /\ 0 + Len(s) <= Len(s) /\ \A i \in 1 .. Len(s) : s[i] = s[0 + i]
  OBVIOUS
<1> QED BY <1>1 DEF Part

\* Jobs only go: every piece that is left is a part of what it was, or empty.
Thinned(x) == \/ batch'[x] = <<>> /\ stamp'[x].seq = 0
              \/ Part(batch'[x], stamp'[x].seq, batch[x], stamp[x].seq)

\* Steps by which jobs only go keep the order.
LEMMA OrderedThin ==
    ASSUME Pieces, Pieces', Marked, Ordered, UNCHANGED <<buf, dispatched>>,
           \E q \in Nat : Part(storage', q, storage, 0),
           \A x \in Nodes : Thinned(x),
           parked' \subseteq parked
    PROVE  Ordered'
<1>1. dispatched \in Nat /\ storage \in Seq(Jobs) /\ storage' \in Seq(Jobs) /\ buf \in Seq(Jobs)
  BY DEF Pieces, Marked
<1>2. /\ \A x \in Nodes : /\ batch[x] \in Seq(Jobs) /\ stamp[x].seq \in Nat
                          /\ batch'[x] \in Seq(Jobs) /\ stamp'[x].seq \in Nat
      /\ \A b \in parked : b.jobs \in Seq(Jobs) /\ b.stamp.seq \in Nat
  BY PieceTypes
<1>3. /\ Rising(storage) => Rising(storage')
      /\ \A u \in Seq(Jobs) : Below(u, storage) => Below(u, storage')
  BY <1>1, PartOf
<1>4. \A s \in Seq(Jobs), p \in Nat : Sent(s, p, buf, storage, dispatched)
         => Sent(s, p, buf', storage', dispatched')
  BY <1>1, <1>3 DEF Sent
<1>5. Rising(storage') /\ Rising(buf') /\ Below(buf', storage')
  BY <1>1, <1>3 DEF Ordered
<1>6. ASSUME NEW x \in Nodes
      PROVE  /\ Sent(batch'[x], stamp'[x].seq, buf', storage', dispatched')
             /\ \A u \in Seq(Jobs), r \in Nat :
                  Apart(batch[x], stamp[x].seq, u, r) => Apart(batch'[x], stamp'[x].seq, u, r)
  <2>1. CASE batch'[x] = <<>> /\ stamp'[x].seq = 0
    <3>1. Sent(<<>>, 0, buf', storage', dispatched')
      BY <1>1 DEF Sent, Rising, Below
    <3> QED BY <1>2, <2>1, <3>1, ApartEmpty
  <2>2. CASE Part(batch'[x], stamp'[x].seq, batch[x], stamp[x].seq)
    <3>1. Sent(batch[x], stamp[x].seq, buf', storage', dispatched')
      BY <1>2, <1>4 DEF Ordered
    <3>2. Sent(batch'[x], stamp'[x].seq, buf', storage', dispatched')
      <4>1. /\ Rising(batch[x]) => Rising(batch'[x])
            /\ stamp'[x].seq + Len(batch'[x]) <= stamp[x].seq + Len(batch[x])
            /\ \A u \in Seq(Jobs) : Below(batch[x], u) => Below(batch'[x], u)
        BY <1>2, <2>2, PartOf
      <4>2. Len(batch[x]) \in Nat /\ Len(batch'[x]) \in Nat
        BY <1>2
      <4> QED BY <1>1, <1>2, <3>1, <4>1, <4>2, SMTT(30) DEF Sent
    <3>3. \A u \in Seq(Jobs), r \in Nat :
                  Apart(batch[x], stamp[x].seq, u, r) => Apart(batch'[x], stamp'[x].seq, u, r)
      BY <1>2, <2>2, PartApart
    <3> QED BY <3>2, <3>3
  <2> QED BY <2>1, <2>2 DEF Thinned
<1>7. \A b \in parked' : Sent(b.jobs, b.stamp.seq, buf', storage', dispatched')
  BY <1>2, <1>4 DEF Ordered
<1>8. \A x, y \in Nodes : x # y => Apart(batch'[x], stamp'[x].seq, batch'[y], stamp'[y].seq)
  <2> SUFFICES ASSUME NEW x \in Nodes, NEW y \in Nodes, x # y
               PROVE  Apart(batch'[x], stamp'[x].seq, batch'[y], stamp'[y].seq)
    OBVIOUS
  <2>1. Apart(batch[x], stamp[x].seq, batch[y], stamp[y].seq)
    BY DEF Ordered
  <2>2. Apart(batch'[x], stamp'[x].seq, batch[y], stamp[y].seq)
    BY <1>2, <1>6, <2>1
  <2>3. Apart(batch[y], stamp[y].seq, batch'[x], stamp'[x].seq)
    BY <2>2, ApartSym
  <2>4. Apart(batch'[y], stamp'[y].seq, batch'[x], stamp'[x].seq)
    BY <1>2, <1>6, <2>3
  <2> QED BY <2>4, ApartSym
<1>9. \A b, c \in parked' : b # c => Apart(b.jobs, b.stamp.seq, c.jobs, c.stamp.seq)
  BY DEF Ordered
<1>10. \A x \in Nodes, b \in parked' : Apart(batch'[x], stamp'[x].seq, b.jobs, b.stamp.seq)
  BY <1>2, <1>6 DEF Ordered
<1> QED BY <1>5, <1>6, <1>7, <1>8, <1>9, <1>10 DEF Ordered

\* A job that is added now is younger than every job that is somewhere.
LEMMA AddedLast ==
    ASSUME Pieces, Marked, NewLast, WaitingFresh, NEW j \in Jobs, state[j] = "new"
    PROVE  /\ \A i \in DOMAIN storage : storage[i] < j
           /\ \A i \in DOMAIN buf : buf[i] < j
           /\ \A x \in Nodes : \A i \in DOMAIN batch[x] : batch[x][i] < j
           /\ \A b \in parked : \A i \in DOMAIN b.jobs : b.jobs[i] < j
<1>1. \A k \in Jobs : state[k] # "new" => k < j
  BY JobsNat DEF NewLast
<1>2. \A s \in Seq(Jobs) : \A i \in DOMAIN s : s[i] \in Jobs
  OBVIOUS
<1>3. ASSUME NEW s \in Seq(Jobs), Fresh(s) PROVE \A i \in DOMAIN s : s[i] < j
  BY <1>1, <1>2, <1>3 DEF Fresh, Unstarted
<1>4. ASSUME NEW x \in Nodes, NEW i \in DOMAIN batch[x] PROVE batch[x][i] < j
  <2>1. batch[x][i] \in Jobs
    BY <1>2, PieceTypes
  <2>2. state[batch[x][i]] # "new"
    BY DEF WaitingFresh, Unstarted
  <2> QED BY <1>1, <2>1, <2>2
<1>5. Fresh(storage) /\ Fresh(buf) /\ \A b \in parked : Fresh(b.jobs)
  BY DEF WaitingFresh
<1> QED BY <1>3, <1>4, <1>5, PieceTypes DEF Pieces

\* What an Append leaves as it was, and what it adds.
Grown(t, s, j) ==
    /\ t \in Seq(Jobs)
    /\ Rising(s) /\ (\A i \in DOMAIN s : s[i] < j) => Rising(t)
    /\ \A u \in Seq(Jobs) : Below(u, s) /\ (\A i \in DOMAIN u : u[i] < j) => Below(u, t)
    /\ \A u \in Seq(Jobs) : Below(s, u) /\ (\A i \in DOMAIN u : j < u[i]) => Below(t, u)
    /\ \A k : Has(t, k) <=> Has(s, k) \/ k = j

\* Append grows a sequence at its end.
LEMMA Appends ==
    ASSUME NEW s \in Seq(Jobs), NEW j \in Jobs
    PROVE  \A t : t = Append(s, j) => Grown(t, s, j)
<1> SUFFICES ASSUME NEW t, t = Append(s, j) PROVE Grown(t, s, j)
  OBVIOUS
<1>1. /\ t \in Seq(Jobs) /\ Len(t) = Len(s) + 1 /\ t[Len(s) + 1] = j
      /\ \A i \in 1 .. Len(s) : t[i] = s[i]
  OBVIOUS
<1>2. /\ DOMAIN s = 1 .. Len(s) /\ DOMAIN t = 1 .. Len(s) + 1 /\ Len(s) \in Nat
  BY <1>1
<1>3. \A i \in DOMAIN t : (i \in DOMAIN s /\ t[i] = s[i]) \/ (i = Len(s) + 1 /\ t[i] = j)
  BY <1>1, <1>2
<1>4. Rising(s) /\ (\A i \in DOMAIN s : s[i] < j) => Rising(t)
  BY <1>2, <1>3 DEF Rising
<1>5. \A u \in Seq(Jobs) : Below(u, s) /\ (\A i \in DOMAIN u : u[i] < j) => Below(u, t)
  BY <1>3 DEF Below
<1>6. \A u \in Seq(Jobs) : Below(s, u) /\ (\A i \in DOMAIN u : j < u[i]) => Below(t, u)
  BY <1>3 DEF Below
<1>7. \A k : Has(t, k) <=> Has(s, k) \/ k = j
  <2>1. \A i \in DOMAIN s : i \in DOMAIN t /\ t[i] = s[i]
    BY <1>1, <1>2
  <2>2. Len(s) + 1 \in DOMAIN t /\ t[Len(s) + 1] = j
    BY <1>1, <1>2
  <2> QED BY <1>3, <2>1, <2>2 DEF Has
<1> QED BY <1>1, <1>4, <1>5, <1>6, <1>7 DEF Grown

\* If all batches stay where they are, Ordered is about the rest.
LEMMA OrderedRest ==
    ASSUME Pieces, Marked, Ordered, UNCHANGED <<batch, stamp, parked, dispatched>>,
           Rising(storage'), Rising(buf'), Below(buf', storage'),
           \A s \in Seq(Jobs) :
             Rising(s) /\ Below(s, buf) /\ Below(s, storage)
               /\ ((\E x \in Nodes : s = batch[x]) \/ (\E b \in parked : s = b.jobs))
                 => Below(s, buf') /\ Below(s, storage')
    PROVE  Ordered'
<1>1. \A x \in Nodes : Sent(batch[x], stamp[x].seq, buf', storage', dispatched)
  BY PieceTypes DEF Ordered, Sent
<1>2. \A b \in parked : Sent(b.jobs, b.stamp.seq, buf', storage', dispatched)
  BY PieceTypes DEF Ordered, Sent
<1> QED BY <1>1, <1>2, Zenon DEF Ordered

\* Queue.Add keeps the order: the new job is the youngest.
LEMMA OrderedAdd ==
    ASSUME Pieces, Marked, Ordered, NewLast, WaitingFresh, NEW j \in Jobs, Add(j)
    PROVE  Ordered'
<1>1. storage' = Append(storage, j) /\ UNCHANGED <<buf, batch, stamp, parked, dispatched>>
  BY DEF Add, lvars, nvars, kvars
<1>2. state[j] = "new"
  BY DEF Add
<1>3. storage \in Seq(Jobs) /\ buf \in Seq(Jobs)
  BY DEF Pieces
<1>4. /\ Rising(storage) /\ (\A i \in DOMAIN storage : storage[i] < j) => Rising(storage')
      /\ \A u \in Seq(Jobs) : Below(u, storage) /\ (\A i \in DOMAIN u : u[i] < j) => Below(u, storage')
  <2>1. Grown(storage', storage, j)
    BY <1>1, <1>3, Appends
  <2> QED BY <2>1, Zenon DEF Grown
<1>5. Rising(storage') /\ Rising(buf') /\ Below(buf', storage')
  BY <1>1, <1>2, <1>3, <1>4, AddedLast DEF Ordered
<1>6. \A s \in Seq(Jobs) :
             Rising(s) /\ Below(s, buf) /\ Below(s, storage)
               /\ ((\E x \in Nodes : s = batch[x]) \/ (\E b \in parked : s = b.jobs))
                 => Below(s, buf') /\ Below(s, storage')
  BY <1>1, <1>2, <1>4, AddedLast
<1> QED BY <1>1, <1>5, <1>6, OrderedRest

\* Dequeue keeps the order: the oldest job of the storage is the youngest of
\* the buffer.
LEMMA OrderedTake == ASSUME Pieces, Marked, Ordered, LoopTake PROVE Ordered'
<1> DEFINE j == Head(storage)
<1>1. /\ storage # <<>> /\ storage' = Tail(storage) /\ buf' \in {buf, Append(buf, j)}
      /\ UNCHANGED <<batch, stamp, parked, dispatched>>
  BY DEF LoopTake, nvars, kvars
<1>2. storage \in Seq(Jobs) /\ buf \in Seq(Jobs)
  BY DEF Pieces
<1>3. /\ storage' \in Seq(Jobs) /\ Part(storage', 0 + 1, storage, 0) /\ 1 \in DOMAIN storage
      /\ j = storage[1] /\ j \in Jobs /\ Len(storage') = Len(storage) - 1 /\ Len(storage) \in Nat
      /\ \A i \in 1 .. Len(storage) - 1 : storage'[i] = storage[i + 1]
  BY <1>1, <1>2, TailPart, FirstJob
<1> HIDE DEF j
<1>4. /\ Rising(storage')
      /\ \A u \in Seq(Jobs) : Below(u, storage) => Below(u, storage')
  BY <1>2, <1>3, PartOf DEF Ordered
<1>5. \A i \in DOMAIN storage' : j < storage'[i]
  <2>1. DOMAIN storage' = 1 .. Len(storage) - 1 /\ DOMAIN storage = 1 .. Len(storage)
    BY <1>2, <1>3
  <2> QED BY <1>3, <2>1 DEF Ordered, Rising
<1>6. \A u \in Seq(Jobs) : Below(u, storage) => \A i \in DOMAIN u : u[i] < j
  BY <1>3 DEF Below
<1>7. /\ Rising(buf') /\ Below(buf', storage')
      /\ \A u \in Seq(Jobs) : Below(u, buf) /\ Below(u, storage) => Below(u, buf')
  <2>1. CASE buf' = buf
    BY <1>2, <1>4, <2>1 DEF Ordered
  <2>2. CASE buf' = Append(buf, j)
    <3>1. \A i \in DOMAIN buf : buf[i] < j
      BY <1>2, <1>6 DEF Ordered
    <3>2. Below(buf, storage')
      BY <1>2, <1>4 DEF Ordered
    <3>3. Rising(buf)
      BY DEF Ordered
    <3>4. /\ Rising(buf) /\ (\A i \in DOMAIN buf : buf[i] < j) => Rising(buf')
          /\ \A u \in Seq(Jobs) : Below(u, buf) /\ (\A i \in DOMAIN u : u[i] < j) => Below(u, buf')
          /\ \A u \in Seq(Jobs) : Below(buf, u) /\ (\A i \in DOMAIN u : j < u[i]) => Below(buf', u)
      <4>1. Grown(buf', buf, j)
        BY <1>2, <1>3, <2>2, Appends
      <4> QED BY <4>1, Zenon DEF Grown
    <3> QED BY <1>3, <1>5, <1>6, <3>1, <3>2, <3>3, <3>4
  <2> QED BY <1>1, <2>1, <2>2
<1> QED BY <1>1, <1>4, <1>7, OrderedRest

\* unpark keeps the order: both parts of the batch stand to the others as it
\* did.
LEMMA OrderedUnpark ==
    ASSUME Pieces, Pieces', Marked, Shape, Ordered, LoopUnpark
    PROVE  Ordered'
<1>1. PICK b \in parked : \E k \in 1 .. Len(b.jobs) :
           /\ parked' = (parked \ {b}) \cup IF k < Len(b.jobs) THEN {Rest(b, k)} ELSE {}
           /\ node \in Nodes
           /\ batch' = [batch EXCEPT ![node] = SubSeq(b.jobs, 1, k)]
           /\ stamp' = [stamp EXCEPT ![node] = b.stamp]
  BY Unparks
<1>2. PICK k \in 1 .. Len(b.jobs) :
           /\ parked' = (parked \ {b}) \cup IF k < Len(b.jobs) THEN {Rest(b, k)} ELSE {}
           /\ node \in Nodes
           /\ batch' = [batch EXCEPT ![node] = SubSeq(b.jobs, 1, k)]
           /\ stamp' = [stamp EXCEPT ![node] = b.stamp]
  BY <1>1
<1> DEFINE t == SubSeq(b.jobs, 1, k)
           u == SubSeq(b.jobs, k + 1, Len(b.jobs))
           p == b.stamp.seq
<1>3. /\ b.jobs \in Seq(Jobs) /\ p \in Nat /\ k \in Nat /\ p + k \in Nat
      /\ storage \in Seq(Jobs) /\ buf \in Seq(Jobs) /\ dispatched \in Nat
  BY PieceTypes, SMTT(30) DEF Pieces, Marked
<1>4. /\ t \in Seq(Jobs) /\ Part(t, p, b.jobs, p)
      /\ u \in Seq(Jobs) /\ Part(u, p + k, b.jobs, p)
      /\ Rising(b.jobs) => Apart(t, p, u, p + k)
  <2>1. CutInto(t, u, b.jobs, k, p)
    BY <1>3, Cut
  <2> QED BY <2>1, Zenon DEF CutInto
<1>5. /\ batch'[node] = t /\ stamp'[node].seq = p
      /\ \A x \in Nodes : x # node => batch'[x] = batch[x] /\ stamp'[x] = stamp[x]
  BY <1>2 DEF Pieces
<1>6. UNCHANGED <<storage, buf, dispatched>>
  BY DEF LoopUnpark, qvars
<1>7. \A c \in parked' : (c \in parked /\ c # b) \/ (c.jobs = u /\ c.stamp.seq = p + k)
  <2>1. k < Len(b.jobs) => Rest(b, k).jobs = u /\ Rest(b, k).stamp.seq = p + k
    BY RestTypes
  <2> QED BY <1>2, <2>1, Zenon
<1>8. \A c, d \in parked' : c # d =>
        \/ c \in parked /\ c # b /\ d \in parked /\ d # b
        \/ c \in parked /\ c # b /\ d.jobs = u /\ d.stamp.seq = p + k
        \/ d \in parked /\ d # b /\ c.jobs = u /\ c.stamp.seq = p + k
  <2>1. k < Len(b.jobs) => Rest(b, k).jobs = u /\ Rest(b, k).stamp.seq = p + k
    BY RestTypes
  <2> QED BY <1>2, <2>1, Zenon
<1>9. /\ \A x \in Nodes : batch[x] \in Seq(Jobs) /\ stamp[x].seq \in Nat
      /\ \A c \in parked : c.jobs \in Seq(Jobs) /\ c.stamp.seq \in Nat
  BY PieceTypes
<1> HIDE DEF t, u, p
<1>10. /\ \A v \in Seq(Jobs), r \in Nat :
            Apart(b.jobs, p, v, r) => Apart(t, p, v, r) /\ Apart(u, p + k, v, r)
       /\ \A v \in Seq(Jobs), r \in Nat : Apart(v, r, b.jobs, p) => Apart(v, r, u, p + k)
  BY <1>3, <1>4, PartApart, ApartSym
<1>11. Sent(b.jobs, p, buf, storage, dispatched)
  BY DEF Ordered, p
<1>12. Sent(t, p, buf, storage, dispatched) /\ Sent(u, p + k, buf, storage, dispatched)
  <2>1. \A s \in Seq(Jobs), q \in Nat :
          Part(s, q, b.jobs, p) => Sent(s, q, buf, storage, dispatched)
    <3> SUFFICES ASSUME NEW s \in Seq(Jobs), NEW q \in Nat, Part(s, q, b.jobs, p)
                 PROVE  Sent(s, q, buf, storage, dispatched)
      OBVIOUS
    <3>1. /\ Rising(b.jobs) => Rising(s)
          /\ q + Len(s) <= p + Len(b.jobs)
          /\ Below(b.jobs, buf) => Below(s, buf)
          /\ Below(b.jobs, storage) => Below(s, storage)
      BY <1>3, PartOf
    <3>2. Len(s) \in Nat /\ Len(b.jobs) \in Nat
      BY <1>3
    <3> QED BY <1>3, <1>11, <3>1, <3>2 DEF Sent
  <2> QED BY <1>3, <1>4, <2>1
<1>13. \A x \in Nodes : Sent(batch'[x], stamp'[x].seq, buf', storage', dispatched')
  BY <1>5, <1>6, <1>12 DEF Ordered
<1>14. \A c \in parked' : Sent(c.jobs, c.stamp.seq, buf', storage', dispatched')
  BY <1>6, <1>7, <1>12 DEF Ordered
<1>15. \A x, y \in Nodes : x # y => Apart(batch'[x], stamp'[x].seq, batch'[y], stamp'[y].seq)
  <2>1. \A x \in Nodes : Apart(t, p, batch[x], stamp[x].seq)
    <3>1. \A x \in Nodes : Apart(b.jobs, p, batch[x], stamp[x].seq)
      BY ApartSym DEF Ordered, p
    <3> QED BY <1>9, <1>10, <3>1
  <2>2. \A x \in Nodes : Apart(batch[x], stamp[x].seq, t, p)
    BY <2>1, ApartSym
  <2> QED BY <1>5, <2>1, <2>2 DEF Ordered
<1>16. \A c, d \in parked' : c # d => Apart(c.jobs, c.stamp.seq, d.jobs, d.stamp.seq)
  <2>1. \A c \in parked : c # b => /\ Apart(c.jobs, c.stamp.seq, u, p + k)
                                   /\ Apart(u, p + k, c.jobs, c.stamp.seq)
    BY <1>9, <1>10 DEF Ordered, p
  <2> QED BY <1>8, <2>1 DEF Ordered
<1>17. \A x \in Nodes, c \in parked' : Apart(batch'[x], stamp'[x].seq, c.jobs, c.stamp.seq)
  <2> SUFFICES ASSUME NEW x \in Nodes, NEW c \in parked'
               PROVE  Apart(batch'[x], stamp'[x].seq, c.jobs, c.stamp.seq)
    OBVIOUS
  <2>1. CASE x = node /\ c \in parked /\ c # b
    <3>1. Apart(b.jobs, p, c.jobs, c.stamp.seq)
      BY <2>1 DEF Ordered, p
    <3> QED BY <1>5, <1>9, <1>10, <2>1, <3>1
  <2>2. CASE x = node /\ c.jobs = u /\ c.stamp.seq = p + k
    <3>1. Apart(t, p, u, p + k)
      BY <1>4, <1>11 DEF Sent
    <3> QED BY <1>5, <2>2, <3>1
  <2>3. CASE x # node /\ c \in parked /\ c # b
    BY <1>5, <2>3 DEF Ordered
  <2>4. CASE x # node /\ c.jobs = u /\ c.stamp.seq = p + k
    <3>1. Apart(batch[x], stamp[x].seq, b.jobs, p)
      BY DEF Ordered, p
    <3> QED BY <1>5, <1>9, <1>10, <2>4, <3>1
  <2> QED BY <1>7, <2>1, <2>2, <2>3, <2>4
<1>18. Rising(storage') /\ Rising(buf') /\ Below(buf', storage')
  BY <1>6 DEF Ordered
<1> QED BY <1>13, <1>14, <1>15, <1>16, <1>17, <1>18 DEF Ordered

\* A new batch is numbered after every other, and its jobs are younger.
LEMMA OrderedStamp ==
    ASSUME Pieces, Marked, Shape, Ordered, LoopStamp
    PROVE  Ordered'
<1>1. /\ batch' = [batch EXCEPT ![node] = buf] /\ buf' = <<>>
      /\ stamp' = [stamp EXCEPT ![node] = [epoch |-> gen, seq |-> dispatched]]
      /\ dispatched' = dispatched + Len(buf)
      /\ UNCHANGED <<storage, parked>> /\ node \in Nodes
  BY DEF LoopStamp, SendBatch, qvars, kvars, Shape, Marked
<1>2. /\ storage \in Seq(Jobs) /\ buf \in Seq(Jobs) /\ dispatched \in Nat /\ Len(buf) \in Nat
      /\ dispatched' \in Nat /\ dispatched <= dispatched'
  BY <1>1 DEF Pieces, Marked
<1>3. /\ \A x \in Nodes : batch[x] \in Seq(Jobs) /\ stamp[x].seq \in Nat
      /\ \A c \in parked : c.jobs \in Seq(Jobs) /\ c.stamp.seq \in Nat
  BY PieceTypes
<1>4. /\ batch'[node] = buf /\ stamp'[node].seq = dispatched
      /\ \A x \in Nodes : x # node => batch'[x] = batch[x] /\ stamp'[x] = stamp[x]
  BY <1>1 DEF Pieces
<1>5. \A s \in Seq(Jobs) : Below(s, buf')
  BY <1>1 DEF Below
<1>6. \A s \in Seq(Jobs), p \in Nat :
        Sent(s, p, buf, storage, dispatched) => /\ Sent(s, p, buf', storage', dispatched')
                                                /\ Apart(s, p, buf, dispatched)
                                                /\ Apart(buf, dispatched, s, p)
  <2> SUFFICES ASSUME NEW s \in Seq(Jobs), NEW p \in Nat, Sent(s, p, buf, storage, dispatched)
               PROVE  Sent(s, p, buf', storage', dispatched') /\ Apart(s, p, buf, dispatched)
    BY ApartSym
  <2>1. Len(s) \in Nat
    OBVIOUS
  <2>2. p + Len(s) <= dispatched'
    BY <1>2, <2>1 DEF Sent
  <2> QED BY <1>1, <1>5, <2>2 DEF Sent, Apart
<1>7. Sent(buf, dispatched, buf', storage', dispatched')
  BY <1>1, <1>2, <1>5 DEF Sent, Ordered
<1>8. Rising(storage') /\ Rising(buf') /\ Below(buf', storage')
  BY <1>1 DEF Ordered, Rising, Below
<1>9. \A x \in Nodes : Sent(batch'[x], stamp'[x].seq, buf', storage', dispatched')
  BY <1>3, <1>4, <1>6, <1>7 DEF Ordered
<1>10. \A b \in parked' : Sent(b.jobs, b.stamp.seq, buf', storage', dispatched')
  BY <1>1, <1>3, <1>6 DEF Ordered
<1>11. \A x, y \in Nodes : x # y => Apart(batch'[x], stamp'[x].seq, batch'[y], stamp'[y].seq)
  BY <1>3, <1>4, <1>6 DEF Ordered
<1>12. \A b, c \in parked' : b # c => Apart(b.jobs, b.stamp.seq, c.jobs, c.stamp.seq)
  BY <1>1 DEF Ordered
<1>13. \A x \in Nodes, b \in parked' : Apart(batch'[x], stamp'[x].seq, b.jobs, b.stamp.seq)
  BY <1>1, <1>3, <1>4, <1>6 DEF Ordered
<1> QED BY <1>8, <1>9, <1>10, <1>11, <1>12, <1>13 DEF Ordered

\* park keeps the order: the batch takes its number along.
LEMMA OrderedPark ==
    ASSUME Pieces, Pieces', Marked, Ordered, NEW x \in Nodes, NodePark(x)
    PROVE  Ordered'
<1>1. /\ batch' = [batch EXCEPT ![x] = <<>>] /\ stamp' = [stamp EXCEPT ![x] = NoStamp]
      /\ UNCHANGED <<storage, buf, dispatched>>
  BY DEF NodePark, qvars, lvars
<1>2. /\ batch'[x] = <<>> /\ stamp'[x].seq = 0
      /\ \A y \in Nodes : y # x => batch'[y] = batch[y] /\ stamp'[y] = stamp[y]
  BY <1>1 DEF Pieces, NoStamp
<1>3. /\ \A y \in Nodes : batch[y] \in Seq(Jobs) /\ stamp[y].seq \in Nat
      /\ storage \in Seq(Jobs) /\ dispatched \in Nat
  BY PieceTypes DEF Pieces, Marked
<1>4. \A y \in Nodes : Thinned(y)
  BY <1>2, <1>3, PartRefl DEF Thinned
<1>5. CASE ParkStale(x)
  <2>1. parked' = parked
    BY <1>5 DEF ParkStale
  <2>2. Part(storage', 0, storage, 0)
    BY <1>1, <1>3, PartRefl
  <2> QED BY <1>1, <1>4, <2>1, <2>2, OrderedThin
<1>6. CASE ParkBatch(x)
  <2> DEFINE b == [jobs |-> batch[x], stamp |-> stamp[x]]
  <2>1. parked' = parked \cup {b} /\ b.jobs = batch[x] /\ b.stamp.seq = stamp[x].seq
    BY <1>6 DEF ParkBatch
  <2> HIDE DEF b
  <2>2. \A c \in parked : c.jobs \in Seq(Jobs) /\ c.stamp.seq \in Nat
    BY PieceTypes
  <2>3. Sent(<<>>, 0, buf, storage, dispatched)
    BY <1>3 DEF Sent, Rising, Below
  <2>4. \A y \in Nodes : Sent(batch'[y], stamp'[y].seq, buf', storage', dispatched')
    BY <1>1, <1>2, <2>3 DEF Ordered
  <2>5. \A c \in parked' : Sent(c.jobs, c.stamp.seq, buf', storage', dispatched')
    BY <1>1, <2>1 DEF Ordered
  <2>6. \A c \in parked : Apart(b.jobs, b.stamp.seq, c.jobs, c.stamp.seq)
    BY <2>1 DEF Ordered
  <2>7. \A c, d \in parked' : c # d => Apart(c.jobs, c.stamp.seq, d.jobs, d.stamp.seq)
    <3>1. \A c \in parked : Apart(c.jobs, c.stamp.seq, b.jobs, b.stamp.seq)
      BY <2>6, ApartSym
    <3> QED BY <2>1, <2>6, <3>1 DEF Ordered
  <2>8. \A s \in Seq(Jobs), p \in Nat : Apart(<<>>, 0, s, p) /\ Apart(s, p, <<>>, 0)
    BY ApartEmpty, ApartSym
  <2>9. \A y, z \in Nodes : y # z => Apart(batch'[y], stamp'[y].seq, batch'[z], stamp'[z].seq)
    BY <1>2, <1>3, <2>8 DEF Ordered
  <2>10. \A y \in Nodes, c \in parked' : Apart(batch'[y], stamp'[y].seq, c.jobs, c.stamp.seq)
    BY <1>2, <1>3, <2>1, <2>2, <2>8 DEF Ordered
  <2>11. Rising(storage') /\ Rising(buf') /\ Below(buf', storage')
    BY <1>1 DEF Ordered
  <2> QED BY <2>4, <2>5, <2>7, <2>9, <2>10, <2>11 DEF Ordered
<1> QED BY <1>5, <1>6 DEF NodePark

\* The head of a batch goes, the rest keeps its numbers.
LEMMA AdvanceThins ==
    ASSUME Pieces, Shape, NEW x \in Nodes, Going(x), NextInBatch(x)
    PROVE  \A y \in Nodes : Thinned(y)
<1>1. \A y \in Nodes : batch[y] \in Seq(Jobs) /\ stamp[y].seq \in Nat
  BY PieceTypes
<1>2. \A y \in Nodes : y # x => Thinned(y)
  BY <1>1, Advances, PartRefl DEF Thinned
<1>3. batch[x] # <<>> /\ batch'[x] = Tail(batch[x])
  BY Advances
<1>4. /\ Part(Tail(batch[x]), stamp[x].seq + 1, batch[x], stamp[x].seq)
      /\ Tail(batch[x]) \in Seq(Jobs) /\ Len(Tail(batch[x])) = Len(batch[x]) - 1
  BY <1>1, <1>3, TailPart
<1>5. CASE Len(batch[x]) = 1 /\ stamp'[x] = NoStamp
  <2>1. \A t \in Seq(Jobs) : Len(t) = 0 => t = <<>>
    OBVIOUS
  <2>2. Len(Tail(batch[x])) = 0
    BY <1>4, <1>5
  <2>3. batch'[x] = <<>>
    BY <1>3, <1>4, <2>1, <2>2, Zenon
  <2>4. stamp'[x].seq = 0
    BY <1>5 DEF NoStamp
  <2> QED BY <1>2, <2>3, <2>4, Zenon DEF Thinned
<1>6. CASE stamp'[x].seq = stamp[x].seq + 1
  BY <1>2, <1>3, <1>4, <1>6 DEF Thinned
<1> QED BY <1>5, <1>6, Advances

\* Every step keeps the order of the jobs.
LEMMA OrderedStep ==
    ASSUME Pieces, Pieces', Marked, Shape, Ordered, NewLast, WaitingFresh, [Next]_vars
    PROVE  Ordered'
<1>1. CASE UNCHANGED <<storage, buf, batch, stamp, parked, dispatched>>
  BY <1>1, Zenon DEF Ordered
<1>2. CASE UNCHANGED vars \/ Quiet \/ Marks
  BY <1>1, <1>2, QuietMoves, Zenon DEF vars, moved, Marks, LoopPlan, LoopGiveBack, NodeFresh, NodeHalt,
     qvars, lvars, nvars, kvars
<1>3. CASE (\E j \in Jobs : CloseJob(j)) \/ PurgeBump \/ \E x \in Nodes : NodeStart(x)
  BY <1>1, <1>3, Zenon DEF CloseJob, PurgeBump, NodeStart, qvars, lvars, nvars, kvars
<1>4. /\ Part(storage, 0, storage, 0) /\ Part(<<>>, 0, storage, 0)
      /\ \A x \in Nodes : Part(batch[x], stamp[x].seq, batch[x], stamp[x].seq)
  <2>1. storage \in Seq(Jobs) /\ \A x \in Nodes : batch[x] \in Seq(Jobs) /\ stamp[x].seq \in Nat
    BY PieceTypes DEF Pieces
  <2>2. Part(<<>>, 0, storage, 0)
    <3>1. 0 = 0 + 0 /\ 0 + Len(<<>>) <= Len(storage) /\ \A i \in 1 .. Len(<<>>) : <<>>[i] = storage[0 + i]
      BY <2>1
    <3> QED BY <3>1 DEF Part
  <2> QED BY <2>1, <2>2, PartRefl
<1>5. CASE PurgeDrop \/ PurgeStorage
  <2>1. /\ UNCHANGED <<buf, dispatched, batch, stamp>>
        /\ parked' \subseteq parked /\ storage' \in {storage, <<>>}
    BY <1>5 DEF PurgeDrop, PurgeStorage, qvars, lvars, nvars, kvars
  <2> QED BY <1>4, <2>1, OrderedThin DEF Thinned
<1>6. ASSUME NEW x \in Nodes, NodeStale(x) \/ NodeSkip(x) \/ NodeRan(x) PROVE Ordered'
  <2>1. Going(x) /\ NextInBatch(x) /\ UNCHANGED <<storage, buf, dispatched, parked>>
    BY <1>6, Zenon DEF NodeStale, NodeSkip, NodeRan, Going, qvars, lvars, kvars
  <2> QED BY <1>4, <2>1, AdvanceThins, OrderedThin
<1> QED BY <1>2, <1>3, <1>5, <1>6, OrderedAdd, OrderedTake, OrderedUnpark, OrderedStamp, OrderedPark,
        Kinds, Zenon DEF Moves

(***************************************************************************)
(* One place for a job                                                     *)
(***************************************************************************)
\* Jobs that are ordered are different.
LEMMA BelowDiffers ==
    ASSUME NEW s \in Seq(Jobs), NEW t \in Seq(Jobs), Below(s, t) \/ Below(t, s),
           NEW j, Has(s, j)
    PROVE  ~Has(t, j)
<1>1. PICK i \in DOMAIN s : s[i] = j
  BY DEF Has
<1>2. j \in Nat
  <2>1. s[i] \in Jobs
    OBVIOUS
  <2> QED BY <1>1, <2>1, JobsNat, Zenon
<1> QED BY <1>1, <1>2 DEF Below, Has

\* A job is in a rising sequence once.
LEMMA RisingOnce ==
    ASSUME NEW s \in Seq(Jobs), Rising(s), NEW i \in DOMAIN s, NEW k \in DOMAIN s, s[i] = s[k]
    PROVE  i = k
<1>1. s[i] \in Nat /\ s[k] \in Nat /\ i \in Nat /\ k \in Nat
  <2>1. s[i] \in Jobs /\ s[k] \in Jobs /\ i \in Nat /\ k \in Nat
    OBVIOUS
  <2> QED BY <2>1, JobsNat, Zenon
<1>2. ~(i < k) /\ ~(k < i)
  BY <1>1 DEF Rising
<1> QED BY <1>1, <1>2

\* A job of a batch is nowhere else.
LEMMA OneInBatch ==
    ASSUME Pieces, Ordered, NEW x \in Nodes, NEW j, Has(batch[x], j)
    PROVE  /\ ~Has(storage, j) /\ ~Has(buf, j)
           /\ \A y \in Nodes : y # x => ~Has(batch[y], j)
           /\ \A b \in parked : ~Has(b.jobs, j)
           /\ \A i, k \in DOMAIN batch[x] : batch[x][i] = batch[x][k] => i = k
<1>1. /\ storage \in Seq(Jobs) /\ buf \in Seq(Jobs)
      /\ \A y \in Nodes : batch[y] \in Seq(Jobs)
      /\ \A b \in parked : b.jobs \in Seq(Jobs)
  BY PieceTypes DEF Pieces
<1>2. Below(batch[x], storage) /\ Below(batch[x], buf) /\ Rising(batch[x])
  BY DEF Ordered, Sent
<1>3. \A y \in Nodes : y # x => Below(batch[x], batch[y]) \/ Below(batch[y], batch[x])
  BY DEF Ordered, Apart
<1>4. \A b \in parked : Below(batch[x], b.jobs) \/ Below(b.jobs, batch[x])
  BY DEF Ordered, Apart
<1> QED BY <1>1, <1>2, <1>3, <1>4, BelowDiffers, RisingOnce

\* So is a job of a parked batch.
LEMMA OneInParked ==
    ASSUME Pieces, Ordered, NEW b \in parked, NEW j, Has(b.jobs, j)
    PROVE  /\ ~Has(storage, j) /\ ~Has(buf, j)
           /\ \A x \in Nodes : ~Has(batch[x], j)
           /\ \A c \in parked : c # b => ~Has(c.jobs, j)
           /\ \A i, k \in DOMAIN b.jobs : b.jobs[i] = b.jobs[k] => i = k
<1>1. /\ storage \in Seq(Jobs) /\ buf \in Seq(Jobs)
      /\ \A y \in Nodes : batch[y] \in Seq(Jobs)
      /\ \A c \in parked : c.jobs \in Seq(Jobs)
  BY PieceTypes DEF Pieces
<1>2. Below(b.jobs, storage) /\ Below(b.jobs, buf) /\ Rising(b.jobs)
  BY DEF Ordered, Sent
<1>3. \A c \in parked : c # b => Below(b.jobs, c.jobs) \/ Below(c.jobs, b.jobs)
  BY DEF Ordered, Apart
<1>4. \A x \in Nodes : Below(b.jobs, batch[x]) \/ Below(batch[x], b.jobs)
  BY DEF Ordered, Apart
<1> QED BY <1>1, <1>2, <1>3, <1>4, BelowDiffers, RisingOnce

\* A step changes the state of the jobs of js, to one of to.
Turns(js, to) == \A j \in Jobs : state'[j] = state[j] \/ (j \in js /\ state'[j] \in to)

\* What each action that changes a state changes.
LEMMA Turnings ==
    ASSUME Pieces, Marked
    PROVE  /\ \A j \in Jobs : Add(j) => Turns({j}, {"queued"}) /\ state'[j] = "queued" /\ state[j] = "new"
           /\ \A j \in Jobs : CloseJob(j) => /\ Turns({j}, {"closed"}) /\ state[j] = "queued"
                                             /\ state'[j] = "closed"
           /\ \A x \in Nodes : NodeStart(x) => /\ Turns({Head(batch[x])}, {"running"})
                                               /\ state[Head(batch[x])] = "queued"
           /\ \A x \in Nodes : NodeRan(x) => Turns({Head(batch[x])}, {"done"})
BY DEF Marked, Turns, Add, CloseJob, NodeStart, NodeRan

\* Purge closes only Queued jobs, and all of those it is given.
LEMMA Purges ==
    ASSUME Marked, NEW js, state' = Purged(js)
    PROVE  /\ Turns(js, {"purged"})
           /\ \A j \in Jobs : state'[j] # state[j] => state[j] = "queued"
           /\ \A j \in Jobs : j \in js => state'[j] # "queued"
           /\ \A j \in Jobs : (state'[j] = "new" <=> state[j] = "new")
                              /\ (state'[j] = "running" <=> state[j] = "running")
                              /\ (state[j] \in Unstarted => state'[j] \in Unstarted)
BY PurgedTypes DEF Turns, Unstarted

\* Every step keeps it that the jobs not added yet are the last.
LEMMA NewLastStep ==
    ASSUME Pieces, Marked, Shape, NewLast, WaitingFresh, [Next]_vars
    PROVE  NewLast'
<1>1. CASE \A j \in Jobs : state'[j] = "new" <=> state[j] = "new"
  BY <1>1 DEF NewLast
<1>2. CASE UNCHANGED state
  BY <1>1, <1>2
<1>3. CASE UNCHANGED vars \/ Quiet \/ Marks
  BY <1>2, <1>3, QuietMoves, Zenon DEF vars, moved, Marks, LoopPlan, LoopGiveBack, NodeFresh, NodeHalt
<1>4. ASSUME NEW j \in Jobs, Add(j) PROVE NewLast'
  <2>1. /\ \A i \in 1 .. j - 1 : state[i] # "new"
        /\ state[j] = "new" /\ state' = [state EXCEPT ![j] = "queued"]
    BY <1>4 DEF Add
  <2>2. \A i \in Jobs : i < j => state[i] # "new"
    BY <2>1, DispatchAssumption DEF Jobs
  <2>3. \A i \in Jobs : state'[i] = IF i = j THEN "queued" ELSE state[i]
    BY <2>1 DEF Marked
  <2>4. \A i, k \in Jobs : i < k /\ state'[i] = "new" => state'[k] = "new"
    <3> SUFFICES ASSUME NEW i \in Jobs, NEW k \in Jobs, i < k, state'[i] = "new"
                 PROVE  state'[k] = "new"
      OBVIOUS
    <3>1. state[i] = "new" /\ i # j
      BY <2>3
    <3>2. ~(i < j)
      BY <2>2, <3>1
    <3>3. j < k
      BY <3>1, <3>2, JobsNat
    <3>4. state[k] = "new" /\ k # j
      BY <2>1, <3>3, JobsNat DEF NewLast
    <3> QED BY <2>3, <3>4
  <2> QED BY <2>4 DEF NewLast
<1>5. ASSUME NEW j \in Jobs, CloseJob(j) PROVE NewLast'
  BY <1>1, <1>5, Turnings DEF Turns
<1>6. CASE PurgeBump \/ LoopUnpark \/ LoopTake \/ LoopStamp \/ \E x \in Nodes : NodeSkip(x)
  BY <1>2, <1>6, Zenon DEF PurgeBump, LoopUnpark, LoopTake, LoopStamp, NodeSkip
<1>7. ASSUME NEW js, state' = Purged(js) PROVE NewLast'
  BY <1>1, <1>7, Purges
<1>8. CASE PurgeDrop \/ PurgeStorage \/ \E x \in Nodes : NodeStale(x)
  BY <1>7, <1>8, Zenon DEF PurgeDrop, PurgeStorage, NodeStale
<1>9. ASSUME NEW x \in Nodes, NodePark(x) PROVE NewLast'
  BY <1>2, <1>7, <1>9, Zenon DEF NodePark, ParkStale, ParkBatch
<1>10. ASSUME NEW x \in Nodes, NodeStart(x) PROVE NewLast'
  BY <1>1, <1>10, Turnings DEF Turns
<1>11. ASSUME NEW x \in Nodes, NodeRan(x) PROVE NewLast'
  <2>1. npc[x] = "run" /\ batch[x] \in Seq(Jobs) /\ batch[x] # <<>>
    BY <1>11, PieceTypes DEF NodeRan, Shape
  <2>2. Head(batch[x]) = batch[x][1] /\ 1 \in DOMAIN batch[x]
    BY <2>1, FirstJob
  <2>3. state[Head(batch[x])] = "running"
    BY <2>1, <2>2 DEF WaitingFresh
  <2> QED BY <1>1, <1>11, <2>3, Turnings DEF Turns
<1> QED BY <1>3, <1>4, <1>5, <1>6, <1>8, <1>9, <1>10, <1>11, Kinds, Zenon DEF Moves

\* The jobs of a batch or of what waits have not started before a step; they
\* have not after it, if it starts none of them.
LEMMA FreshStays ==
    ASSUME \A j \in Jobs : state[j] \in Unstarted => state'[j] \in Unstarted
    PROVE  \A s \in Seq(Jobs) : Fresh(s) => \A i \in DOMAIN s : state'[s[i]] \in Unstarted
<1>1. \A s \in Seq(Jobs) : \A i \in DOMAIN s : s[i] \in Jobs
  OBVIOUS
<1> QED BY <1>1 DEF Fresh

\* A part of what has not started has not.
LEMMA FreshPart ==
    ASSUME NEW s \in Seq(Jobs), NEW t \in Seq(Jobs), NEW p \in Nat, NEW q \in Nat,
           Part(t, q, s, p), Fresh(s)
    PROVE  Fresh(t)
<1>1. \A j : Has(t, j) => Has(s, j)
  BY PartOf
<1>2. \A j : Has(s, j) => state[j] \in Unstarted
  BY DEF Fresh, Has
<1>3. \A i \in DOMAIN t : Has(t, t[i])
  BY DEF Has
<1> QED BY <1>1, <1>2, <1>3, Zenon DEF Fresh

\* What a node has in its batch, when it may be running the first of them.
Batched(x) == \A i \in DOMAIN batch[x] :
                state[batch[x][i]] \in IF i = 1 /\ npc[x] = "run" THEN {"running"} ELSE Unstarted

\* A batch that does not move, of jobs that do not start.
LEMMA BatchStays ==
    ASSUME Pieces, NEW x \in Nodes, Batched(x), batch'[x] = batch[x],
           npc'[x] = "run" <=> npc[x] = "run",
           \A j \in Jobs : Has(batch[x], j) =>
             /\ state[j] \in Unstarted => state'[j] \in Unstarted
             /\ state[j] = "running" => state'[j] = "running"
    PROVE  Batched(x)'
<1>1. \A i \in DOMAIN batch[x] : batch[x][i] \in Jobs /\ Has(batch[x], batch[x][i])
  <2>1. batch[x] \in Seq(Jobs)
    BY PieceTypes
  <2>2. \A i \in DOMAIN batch[x] : batch[x][i] \in Jobs
    BY <2>1
  <2> QED BY <2>2 DEF Has
<1> QED BY <1>1 DEF Batched

\* An empty batch has nothing to say.
LEMMA BatchEmpty == ASSUME NEW x \in Nodes, batch'[x] = <<>> PROVE Batched(x)'
BY DEF Batched

\* The four conditions that make up WaitingFresh.
LEMMA WaitingParts ==
    /\ WaitingFresh <=> /\ Fresh(storage) /\ Fresh(buf)
                        /\ \A b \in parked : Fresh(b.jobs)
                        /\ \A x \in Nodes : Batched(x)
    /\ WaitingFresh' <=> /\ Fresh(storage)' /\ Fresh(buf)'
                         /\ \A b \in parked' : \A i \in DOMAIN b.jobs : state'[b.jobs[i]] \in Unstarted
                         /\ \A x \in Nodes : Batched(x)'
BY Zenon DEF WaitingFresh, Batched, Fresh

\* Nothing moves.
LEMMA WaitingStays ==
    ASSUME Pieces, WaitingFresh, UNCHANGED <<storage, buf, batch, parked>>,
           \A x \in Nodes : batch[x] # <<>> => (npc'[x] = "run" <=> npc[x] = "run"),
           \A j \in Jobs : /\ state[j] \in Unstarted => state'[j] \in Unstarted
                           /\ state[j] = "running" => state'[j] = "running"
    PROVE  WaitingFresh'
<1>1. /\ storage \in Seq(Jobs) /\ buf \in Seq(Jobs) /\ \A b \in parked : b.jobs \in Seq(Jobs)
  BY PieceTypes DEF Pieces
<1>2. \A s \in Seq(Jobs) : Fresh(s) => \A i \in DOMAIN s : state'[s[i]] \in Unstarted
  BY FreshStays
<1>3. Fresh(storage)' /\ Fresh(buf)'
  BY <1>1, <1>2, WaitingParts DEF Fresh
<1>4. \A b \in parked' : \A i \in DOMAIN b.jobs : state'[b.jobs[i]] \in Unstarted
  BY <1>1, <1>2, WaitingParts
<1>5. ASSUME NEW x \in Nodes PROVE Batched(x)'
  <2>1. CASE batch[x] = <<>>
    BY <2>1, BatchEmpty
  <2>2. CASE batch[x] # <<>>
    BY <2>2, BatchStays, WaitingParts
  <2> QED BY <2>1, <2>2
<1> QED BY <1>3, <1>4, <1>5, WaitingParts

\* No step lets a job that waits somewhere be started elsewhere.
LEMMA WaitingStep ==
    ASSUME Pieces, Pieces', Marked, Shape, Ordered, NewLast, WaitingFresh, [Next]_vars
    PROVE  WaitingFresh'
<1>1. /\ storage \in Seq(Jobs) /\ buf \in Seq(Jobs)
      /\ \A b \in parked : b.jobs \in Seq(Jobs)
      /\ \A x \in Nodes : batch[x] \in Seq(Jobs) /\ stamp[x].seq \in Nat
  BY PieceTypes DEF Pieces
<1>2. /\ Fresh(storage) /\ Fresh(buf) /\ (\A b \in parked : Fresh(b.jobs)) /\ \A x \in Nodes : Batched(x)
  BY WaitingParts
<1>3. CASE UNCHANGED <<state, storage, buf, batch, npc, parked>>
  BY <1>3, WaitingStays
<1>4. CASE UNCHANGED vars \/ Quiet \/ PurgeBump
  BY <1>3, <1>4, QuietMoves, Zenon DEF vars, moved, PurgeBump, qvars, lvars, nvars, kvars
<1>5. CASE Marks
  <2>1. UNCHANGED <<state, storage, buf, batch, parked>>
    BY <1>5, Zenon DEF Marks, LoopPlan, LoopGiveBack, NodeFresh, NodeHalt, qvars, lvars, kvars
  <2>2. \A x \in Nodes : npc'[x] = "run" <=> npc[x] = "run"
    <3>1. ASSUME NEW x \in Nodes, NEW k \in 1 .. MaxBatch, LoopPlan(x, k)
          PROVE  \A y \in Nodes : npc'[y] = "run" <=> npc[y] = "run"
      BY <3>1 DEF LoopPlan, Marked
    <3>2. CASE LoopGiveBack
      BY <3>2, DispatchAssumption DEF LoopGiveBack, Marked, Shape
    <3>3. ASSUME NEW x \in Nodes, NodeFresh(x) \/ NodeHalt(x)
          PROVE  \A y \in Nodes : npc'[y] = "run" <=> npc[y] = "run"
      BY <3>3 DEF NodeFresh, NodeHalt, Marked
    <3> QED BY <1>5, <3>1, <3>2, <3>3, Zenon DEF Marks
  <2> QED BY <2>1, <2>2, WaitingStays
<1>6. ASSUME NEW j \in Jobs, Add(j) PROVE WaitingFresh'
  <2>1. /\ storage' = Append(storage, j) /\ UNCHANGED <<buf, batch, npc, parked>>
    BY <1>6 DEF Add, lvars, nvars, kvars
  <2>2. Turns({j}, {"queued"}) /\ state'[j] = "queued" /\ state[j] = "new"
    BY <1>6, Turnings
  <2>3. \A k \in Jobs : /\ state[k] \in Unstarted => state'[k] \in Unstarted
                        /\ state[k] = "running" => state'[k] = "running"
    BY <2>2 DEF Turns, Unstarted
  <2>4. \A s \in Seq(Jobs) : Fresh(s) => \A i \in DOMAIN s : state'[s[i]] \in Unstarted
    BY <2>3, FreshStays
  <2>5. Fresh(storage)'
    <3>1. Grown(storage', storage, j)
      BY <1>1, <2>1, Appends
    <3>2. \A i \in DOMAIN storage' : Has(storage, storage'[i]) \/ storage'[i] = j
      BY <3>1 DEF Grown, Has
    <3>3. \A k : Has(storage, k) => state'[k] \in Unstarted
      BY <1>1, <1>2, <2>4 DEF Has
    <3> QED BY <2>2, <3>2, <3>3 DEF Fresh, Unstarted
  <2>6. Fresh(buf)' /\ \A b \in parked' : \A i \in DOMAIN b.jobs : state'[b.jobs[i]] \in Unstarted
    BY <1>1, <1>2, <2>1, <2>4 DEF Fresh
  <2>7. \A x \in Nodes : Batched(x)'
    BY <1>2, <2>1, <2>3, BatchStays
  <2> QED BY <2>5, <2>6, <2>7, WaitingParts
<1>7. ASSUME NEW j \in Jobs, CloseJob(j) PROVE WaitingFresh'
  <2>1. UNCHANGED <<storage, buf, batch, npc, parked>>
    BY <1>7 DEF CloseJob, qvars, lvars, nvars, kvars
  <2>2. Turns({j}, {"closed"}) /\ state[j] = "queued"
    BY <1>7, Turnings
  <2> QED BY <2>1, <2>2, WaitingStays DEF Turns, Unstarted
<1>8. CASE PurgeDrop \/ PurgeStorage
  <2>1. PICK js : state' = Purged(js)
    BY <1>8 DEF PurgeDrop, PurgeStorage
  <2>2. /\ UNCHANGED <<buf, batch, npc>> /\ parked' \subseteq parked /\ storage' \in {storage, <<>>}
    BY <1>8 DEF PurgeDrop, PurgeStorage, qvars, lvars, nvars, kvars
  <2>3. \A j \in Jobs : /\ state[j] \in Unstarted => state'[j] \in Unstarted
                        /\ state[j] = "running" => state'[j] = "running"
    BY <2>1, Purges
  <2>4. \A s \in Seq(Jobs) : Fresh(s) => \A i \in DOMAIN s : state'[s[i]] \in Unstarted
    BY <2>3, FreshStays
  <2>5. Fresh(storage)' /\ Fresh(buf)'
    BY <1>1, <1>2, <2>2, <2>4 DEF Fresh
  <2>6. \A b \in parked' : \A i \in DOMAIN b.jobs : state'[b.jobs[i]] \in Unstarted
    BY <1>1, <1>2, <2>2, <2>4
  <2>7. \A x \in Nodes : Batched(x)'
    BY <1>2, <2>2, <2>3, BatchStays
  <2> QED BY <2>5, <2>6, <2>7, WaitingParts
<1>9. CASE LoopUnpark
  <2>1. PICK b \in parked : \E k \in 1 .. Len(b.jobs) :
             /\ parked' = (parked \ {b}) \cup IF k < Len(b.jobs) THEN {Rest(b, k)} ELSE {}
             /\ node \in Nodes
             /\ batch' = [batch EXCEPT ![node] = SubSeq(b.jobs, 1, k)]
    BY <1>9, Unparks
  <2>2. PICK k \in 1 .. Len(b.jobs) :
             /\ parked' = (parked \ {b}) \cup IF k < Len(b.jobs) THEN {Rest(b, k)} ELSE {}
             /\ node \in Nodes
             /\ batch' = [batch EXCEPT ![node] = SubSeq(b.jobs, 1, k)]
    BY <2>1
  <2> DEFINE t == SubSeq(b.jobs, 1, k)
             u == SubSeq(b.jobs, k + 1, Len(b.jobs))
  <2>3. UNCHANGED <<state, storage, buf>> /\ npc' = [npc EXCEPT ![node] = "stale"]
    BY <1>9 DEF LoopUnpark, UnparkFrom, SendBatch, qvars
  <2>4. CutInto(t, u, b.jobs, k, 0)
    BY <1>1, Cut
  <2>5. batch'[node] = t /\ npc'[node] = "stale"
        /\ \A x \in Nodes : x # node => batch'[x] = batch[x] /\ npc'[x] = npc[x]
    BY <2>2, <2>3 DEF Pieces, Marked
  <2>6. \A c \in parked' : c \in parked \/ c.jobs = u
    BY <2>2, RestTypes, Zenon
  <2> HIDE DEF t, u
  <2>7. Fresh(t) /\ Fresh(u)
    <3>1. k \in Nat /\ 0 + k \in Nat
      OBVIOUS
    <3> QED BY <1>1, <1>2, <2>4, <3>1, FreshPart DEF CutInto
  <2>8. Fresh(storage)' /\ Fresh(buf)'
    BY <1>2, <2>3 DEF Fresh
  <2>9. \A c \in parked' : \A i \in DOMAIN c.jobs : state'[c.jobs[i]] \in Unstarted
    BY <1>2, <2>3, <2>6, <2>7 DEF Fresh
  <2>10. \A x \in Nodes : Batched(x)'
    BY <1>2, <2>3, <2>5, <2>7 DEF Batched, Fresh
  <2> QED BY <2>8, <2>9, <2>10, WaitingParts
<1>10. CASE LoopTake
  <2>1. /\ storage # <<>> /\ storage' = Tail(storage) /\ buf' \in {buf, Append(buf, Head(storage))}
        /\ UNCHANGED <<state, batch, npc, parked>>
    BY <1>10 DEF LoopTake, nvars, kvars
  <2>2. /\ Tail(storage) \in Seq(Jobs) /\ Part(Tail(storage), 0 + 1, storage, 0) /\ 0 + 1 \in Nat
        /\ Head(storage) = storage[1] /\ Head(storage) \in Jobs /\ 1 \in DOMAIN storage
    BY <1>1, <2>1, TailPart, FirstJob
  <2>3. Fresh(Tail(storage))
    BY <1>1, <1>2, <2>2, FreshPart
  <2>4. Fresh(buf)'
    <3>1. CASE buf' = buf
      BY <1>2, <2>1, <3>1 DEF Fresh
    <3>2. CASE buf' = Append(buf, Head(storage))
      <4>1. Grown(buf', buf, Head(storage))
        BY <1>1, <2>2, <3>2, Appends
      <4>2. \A i \in DOMAIN buf' : Has(buf, buf'[i]) \/ buf'[i] = Head(storage)
        BY <4>1 DEF Grown, Has
      <4>3. state[Head(storage)] \in Unstarted
        BY <1>2, <2>2 DEF Fresh
      <4> QED BY <1>2, <2>1, <4>2, <4>3 DEF Fresh, Has
    <3> QED BY <2>1, <3>1, <3>2
  <2>5. \A x \in Nodes : Batched(x)'
    BY <1>2, <2>1 DEF Batched
  <2> QED BY <1>2, <2>1, <2>3, <2>4, <2>5, WaitingParts DEF Fresh
<1>11. CASE LoopStamp
  <2>1. /\ batch' = [batch EXCEPT ![node] = buf] /\ buf' = <<>> /\ npc' = [npc EXCEPT ![node] = "stale"]
        /\ UNCHANGED <<state, storage, parked>> /\ node \in Nodes
    BY <1>11 DEF LoopStamp, SendBatch, qvars, kvars, Shape, Marked
  <2>2. /\ batch'[node] = buf /\ npc'[node] = "stale"
        /\ \A x \in Nodes : x # node => batch'[x] = batch[x] /\ npc'[x] = npc[x]
    BY <2>1 DEF Pieces, Marked
  <2>3. \A x \in Nodes : Batched(x)'
    BY <1>2, <2>1, <2>2 DEF Batched, Fresh
  <2> QED BY <1>2, <2>1, <2>3, WaitingParts DEF Fresh
<1>12. ASSUME NEW x \in Nodes, NodePark(x) PROVE WaitingFresh'
  <2>1. /\ batch' = [batch EXCEPT ![x] = <<>>] /\ npc' = [npc EXCEPT ![x] = "idle"]
        /\ UNCHANGED <<storage, buf>> /\ npc[x] = "park"
    BY <1>12 DEF NodePark, qvars, lvars
  <2>2. /\ batch'[x] = <<>> /\ \A y \in Nodes : y # x => batch'[y] = batch[y] /\ npc'[y] = npc[y]
    BY <2>1 DEF Pieces, Marked
  <2>3. state' = state \/ \E js : state' = Purged(js)
    BY <1>12 DEF NodePark, ParkStale, ParkBatch
  <2>4. \A j \in Jobs : /\ state[j] \in Unstarted => state'[j] \in Unstarted
                        /\ state[j] = "running" => state'[j] = "running"
    BY <2>3, Purges
  <2>5. \A s \in Seq(Jobs) : Fresh(s) => \A i \in DOMAIN s : state'[s[i]] \in Unstarted
    BY <2>4, FreshStays
  <2>6. \A b \in parked' : b \in parked \/ b.jobs = batch[x]
    BY <1>12 DEF NodePark, ParkStale, ParkBatch
  <2>7. Fresh(batch[x])
    BY <1>2, <2>1 DEF Batched, Fresh
  <2>8. Fresh(storage)' /\ Fresh(buf)'
    BY <1>1, <1>2, <2>1, <2>5 DEF Fresh
  <2>9. \A b \in parked' : \A i \in DOMAIN b.jobs : state'[b.jobs[i]] \in Unstarted
    BY <1>1, <1>2, <2>5, <2>6, <2>7
  <2>10. \A y \in Nodes : Batched(y)'
    BY <1>2, <2>2, <2>4, BatchEmpty, BatchStays
  <2> QED BY <2>8, <2>9, <2>10, WaitingParts
<1>13. ASSUME NEW x \in Nodes, NodeStale(x) \/ NodeSkip(x) \/ NodeRan(x) \/ NodeStart(x) PROVE WaitingFresh'
  <2> DEFINE h == Head(batch[x])
  <2>1. Going(x) /\ UNCHANGED <<storage, buf, parked>>
    BY <1>13, Zenon DEF NodeStale, NodeSkip, NodeRan, NodeStart, Going, qvars, lvars, kvars
  <2>2. batch[x] # <<>>
    BY <2>1 DEF Shape, Going
  <2>3. /\ h = batch[x][1] /\ h \in Jobs /\ Has(batch[x], h) /\ 1 \in DOMAIN batch[x]
    BY <1>1, <2>2, FirstJob
  <2>4. \A j \in Jobs : j # h => state'[j] = state[j]
    <3>1. CASE NodeStale(x)
      BY <3>1, Purges DEF NodeStale, Turns
    <3>2. CASE NodeRan(x) \/ NodeStart(x)
      BY <3>2, Turnings DEF Turns
    <3>3. CASE NodeSkip(x)
      BY <3>3 DEF NodeSkip
    <3> QED BY <1>13, <3>1, <3>2, <3>3
  <2> HIDE DEF h
  <2>5. /\ ~Has(storage, h) /\ ~Has(buf, h)
        /\ \A y \in Nodes : y # x => ~Has(batch[y], h)
        /\ \A b \in parked : ~Has(b.jobs, h)
        /\ \A i, k \in DOMAIN batch[x] : batch[x][i] = batch[x][k] => i = k
    BY <2>3, OneInBatch
  <2>6. \A s \in Seq(Jobs) : Fresh(s) /\ ~Has(s, h) => \A i \in DOMAIN s : state'[s[i]] \in Unstarted
    <3>1. \A s \in Seq(Jobs) : \A i \in DOMAIN s : s[i] \in Jobs
      OBVIOUS
    <3> QED BY <2>4, <3>1 DEF Fresh, Has
  <2>7. Fresh(storage)' /\ Fresh(buf)'
    BY <1>1, <1>2, <2>1, <2>5, <2>6 DEF Fresh
  <2>8. \A b \in parked' : \A i \in DOMAIN b.jobs : state'[b.jobs[i]] \in Unstarted
    BY <1>1, <1>2, <2>1, <2>5, <2>6
  <2>9. ASSUME NEW y \in Nodes, y # x PROVE Batched(y)'
    <3>1. batch'[y] = batch[y] /\ npc'[y] = npc[y]
      BY <1>13, <2>9 DEF NodeStale, NodeSkip, NodeRan, NodeStart, NextInBatch, Pieces, Marked
    <3>2. \A j \in Jobs : Has(batch[y], j) => state'[j] = state[j]
      BY <2>4, <2>5, <2>9
    <3> QED BY <1>2, <3>1, <3>2, BatchStays
  <2>10. Batched(x)'
    <3>1. \A i \in DOMAIN batch[x] : batch[x][i] \in Jobs
      BY <1>1
    <3>2. \A i \in DOMAIN batch[x] : i # 1 => state'[batch[x][i]] \in Unstarted
      BY <1>2, <2>3, <2>4, <2>5, <3>1 DEF Batched
    <3>3. CASE NodeStart(x)
      <4>1. batch' = batch /\ state'[h] = "running" /\ npc'[x] = "run"
        BY <2>3, <3>3 DEF NodeStart, Marked, h
      <4> QED BY <2>3, <3>2, <4>1 DEF Batched
    <3>4. CASE NodeStale(x) \/ NodeSkip(x) \/ NodeRan(x)
      <4>1. NextInBatch(x)
        BY <3>4 DEF NodeStale, NodeSkip, NodeRan
      <4>2. batch'[x] = Tail(batch[x])
        BY <2>1, <4>1, Advances
      <4>3. npc'[x] # "run"
        BY <4>1 DEF NextInBatch, Marked
      <4>4. /\ Tail(batch[x]) \in Seq(Jobs) /\ Len(Tail(batch[x])) = Len(batch[x]) - 1
            /\ \A i \in 1 .. Len(batch[x]) - 1 : Tail(batch[x])[i] = batch[x][i + 1]
        BY <1>1, <2>2, TailPart
      <4>5. \A i \in DOMAIN Tail(batch[x]) : /\ i + 1 \in DOMAIN batch[x] /\ i + 1 # 1
                                             /\ Tail(batch[x])[i] = batch[x][i + 1]
        BY <1>1, <4>4
      <4> QED BY <3>2, <4>2, <4>3, <4>5 DEF Batched
    <3> QED BY <1>13, <3>3, <3>4
  <2> QED BY <2>7, <2>8, <2>9, <2>10, WaitingParts
<1> QED BY <1>4, <1>5, <1>6, <1>7, <1>8, <1>9, <1>10, <1>11, <1>12, <1>13,
        Kinds, Zenon DEF Moves

(***************************************************************************)
(* No job is lost                                                          *)
(***************************************************************************)
\* When the head of a sequence goes, only the head goes.
LEMMA TailHas ==
    ASSUME NEW s \in Seq(Jobs), s # <<>>
    PROVE  /\ \A j : Has(s, j) => j = Head(s) \/ Has(Tail(s), j)
           /\ \A j : Has(Tail(s), j) => Has(s, j)
<1>1. /\ Tail(s) \in Seq(Jobs) /\ Len(Tail(s)) = Len(s) - 1 /\ Head(s) = s[1]
      /\ \A i \in 1 .. Len(s) - 1 : Tail(s)[i] = s[i + 1]
  BY TailPart
<1>2. Len(s) \in Nat /\ DOMAIN s = 1 .. Len(s) /\ DOMAIN Tail(s) = 1 .. Len(s) - 1
  BY <1>1
<1>3. \A i \in DOMAIN s : i = 1 \/ (i - 1 \in DOMAIN Tail(s) /\ Tail(s)[i - 1] = s[i])
  BY <1>1, <1>2
<1>4. \A i \in DOMAIN Tail(s) : i + 1 \in DOMAIN s /\ Tail(s)[i] = s[i + 1]
  BY <1>1, <1>2
<1> QED BY <1>1, <1>3, <1>4, SMTT(30) DEF Has

\* Range says where jobs are.
LEMMA RangeHas ==
    /\ \A s, j : j \in Range(s) <=> Has(s, j)
    /\ \A j : j \in JobsOf(parked) <=> \E b \in parked : Has(b.jobs, j)
<1>1. \A s, j : j \in Range(s) <=> Has(s, j)
  BY DEF Range, Has
<1> QED BY <1>1, Zenon DEF JobsOf

\* No step loses a Queued job.
LEMMA NoneLostStep ==
    ASSUME Pieces, Pieces', Marked, Shape, NoneLost, [Next]_vars
    PROVE  NoneLost'
<1>1. /\ storage \in Seq(Jobs) /\ buf \in Seq(Jobs)
      /\ \A b \in parked : b.jobs \in Seq(Jobs)
      /\ \A x \in Nodes : batch[x] \in Seq(Jobs)
  BY PieceTypes DEF Pieces
<1>2. CASE UNCHANGED <<state, storage, buf, batch, parked>>
  BY <1>2, Zenon DEF NoneLost, Found
<1>3. CASE UNCHANGED vars \/ Quiet \/ Marks \/ PurgeBump
  BY <1>2, <1>3, QuietMoves, Zenon DEF vars, moved, PurgeBump, Marks, LoopPlan, LoopGiveBack, NodeFresh,
     NodeHalt, qvars, lvars, nvars, kvars
<1>4. ASSUME NEW j \in Jobs, Add(j) PROVE NoneLost'
  <2>1. storage' = Append(storage, j) /\ UNCHANGED <<buf, batch, parked>>
    BY <1>4 DEF Add, lvars, nvars, kvars
  <2>2. \A k : Has(storage', k) <=> Has(storage, k) \/ k = j
    <3>1. Grown(storage', storage, j)
      BY <1>1, <2>1, Appends
    <3> QED BY <3>1, Zenon DEF Grown
  <2>3. \A k \in Jobs : state'[k] = "queued" => k = j \/ state[k] = "queued"
    BY <1>4, Turnings DEF Turns
  <2> QED BY <2>1, <2>2, <2>3, Zenon DEF NoneLost, Found
<1>5. ASSUME NEW j \in Jobs, CloseJob(j) PROVE NoneLost'
  <2>1. UNCHANGED <<storage, buf, batch, parked>>
    BY <1>5 DEF CloseJob, qvars, lvars, nvars, kvars
  <2>2. \A k \in Jobs : state'[k] = "queued" => state[k] = "queued"
    BY <1>5, Turnings DEF Turns
  <2> QED BY <2>1, <2>2, Zenon DEF NoneLost, Found
<1>6. ASSUME NEW js, state' = Purged(js)
      PROVE  \A k \in Jobs : state'[k] = "queued" => state[k] = "queued" /\ k \notin js
  BY <1>6, Purges DEF Turns
<1>7. CASE PurgeDrop
  <2>1. UNCHANGED <<storage, buf, batch>> /\ state' = Purged(JobsOf(parked))
    BY <1>7 DEF PurgeDrop, qvars, lvars, nvars
  <2> QED BY <1>6, <2>1, RangeHas, Zenon DEF NoneLost, Found
<1>8. CASE PurgeStorage
  <2>1. UNCHANGED <<parked, buf, batch>> /\ state' = Purged(Range(storage))
    BY <1>8 DEF PurgeStorage, kvars, lvars, nvars
  <2>2. \A j : j \in Range(storage) <=> Has(storage, j)
    BY RangeHas
  <2>3. \A j \in Jobs : state'[j] = "queued" => state[j] = "queued" /\ ~Has(storage, j)
    BY <1>6, <2>1, <2>2, Zenon
  <2> QED BY <2>1, <2>3, Zenon DEF NoneLost, Found
<1>9. CASE LoopUnpark
  <2>1. PICK b \in parked : \E k \in 1 .. Len(b.jobs) :
             /\ parked' = (parked \ {b}) \cup IF k < Len(b.jobs) THEN {Rest(b, k)} ELSE {}
             /\ node \in Nodes
             /\ batch' = [batch EXCEPT ![node] = SubSeq(b.jobs, 1, k)]
    BY <1>9, Unparks
  <2>2. PICK k \in 1 .. Len(b.jobs) :
             /\ parked' = (parked \ {b}) \cup IF k < Len(b.jobs) THEN {Rest(b, k)} ELSE {}
             /\ node \in Nodes
             /\ batch' = [batch EXCEPT ![node] = SubSeq(b.jobs, 1, k)]
    BY <2>1
  <2> DEFINE t == SubSeq(b.jobs, 1, k)
             u == SubSeq(b.jobs, k + 1, Len(b.jobs))
  <2>3. UNCHANGED <<state, storage, buf>> /\ npc[node] = "taken"
    BY <1>9, <2>2 DEF LoopUnpark, qvars, Shape
  <2>4. CutInto(t, u, b.jobs, k, 0)
    BY <1>1, Cut
  <2>5. /\ batch'[node] = t /\ batch[node] = <<>>
        /\ \A x \in Nodes : x # node => batch'[x] = batch[x]
    BY <2>2, <2>3 DEF Pieces, Shape
  <2>6. k < Len(b.jobs) => Rest(b, k).jobs = u
    BY RestTypes
  <2>7. k = Len(b.jobs) => \A j : ~Has(u, j)
    BY <1>1, <2>4 DEF CutInto, Has
  <2>8. k < Len(b.jobs) \/ k = Len(b.jobs)
    BY <1>1
  <2> HIDE DEF t, u
  <2>9. \A c \in parked : c # b => c \in parked'
    BY <2>2, Zenon
  <2>10. \A j : Has(b.jobs, j) => Has(batch'[node], j) \/ \E c \in parked' : Has(c.jobs, j)
    <3>1. \A j : Has(b.jobs, j) => Has(t, j) \/ Has(u, j)
      BY <2>4, Zenon DEF CutInto
    <3>2. CASE k < Len(b.jobs)
      <4>1. Rest(b, k) \in parked'
        BY <2>2, <3>2, Zenon
      <4> QED BY <2>5, <2>6, <3>1, <3>2, <4>1, Zenon
    <3>3. CASE k = Len(b.jobs)
      BY <2>5, <2>7, <3>1, <3>3, Zenon
    <3> QED BY <2>8, <3>2, <3>3
  <2>11. \A j : ~Has(batch[node], j)
    BY <2>5 DEF Has
  <2>12. \A j : Found(j) => Found(j)'
    BY <2>2, <2>3, <2>5, <2>9, <2>10, <2>11, Zenon DEF Found
  <2> QED BY <2>3, <2>12, Zenon DEF NoneLost
<1>10. CASE LoopTake
  <2>1. /\ storage # <<>> /\ storage' = Tail(storage)
        /\ state[Head(storage)] = "queued" => buf' = Append(buf, Head(storage))
        /\ buf' \in {buf, Append(buf, Head(storage))}
        /\ UNCHANGED <<state, batch, parked>>
    BY <1>10 DEF LoopTake, nvars, kvars
  <2>2. Head(storage) \in Jobs
    BY <1>1, <2>1, TailPart
  <2>3. \A j : Has(storage, j) => j = Head(storage) \/ Has(storage', j)
    BY <1>1, <2>1, TailHas
  <2>4. \A j : Has(Append(buf, Head(storage)), j) <=> Has(buf, j) \/ j = Head(storage)
    <3>1. \A t : t = Append(buf, Head(storage)) => Grown(t, buf, Head(storage))
      BY <1>1, <2>2, Appends
    <3> QED BY <3>1, Zenon DEF Grown
  <2>5. \A j : Has(buf, j) => Has(buf', j)
    BY <2>1, <2>4
  <2>6. ASSUME NEW j \in Jobs, state[j] = "queued", Found(j) PROVE Found(j)'
    BY <2>1, <2>3, <2>4, <2>5, <2>6, Zenon DEF Found
  <2> QED BY <2>1, <2>6, Zenon DEF NoneLost
<1>11. CASE LoopStamp
  <2>1. /\ batch' = [batch EXCEPT ![node] = buf]
        /\ UNCHANGED <<state, storage, parked>> /\ node \in Nodes /\ batch[node] = <<>>
    BY <1>11, DispatchAssumption DEF LoopStamp, SendBatch, qvars, kvars, Shape, Marked
  <2>2. batch'[node] = buf /\ \A x \in Nodes : x # node => batch'[x] = batch[x]
    BY <2>1 DEF Pieces
  <2>3. \A j : ~Has(batch[node], j)
    BY <2>1 DEF Has
  <2> QED BY <2>1, <2>2, <2>3, Zenon DEF NoneLost, Found
<1>12. ASSUME NEW x \in Nodes, NodePark(x) PROVE NoneLost'
  <2>1. UNCHANGED <<storage, buf>> /\ \A y \in Nodes : y # x => batch'[y] = batch[y]
    BY <1>12 DEF NodePark, qvars, lvars, Pieces
  <2>2. CASE ParkStale(x)
    <3>1. state' = Purged(Range(batch[x])) /\ UNCHANGED parked
      BY <2>2 DEF ParkStale
    <3> QED BY <1>6, <2>1, <3>1, RangeHas, Zenon DEF NoneLost, Found
  <2>3. CASE ParkBatch(x)
    <3> DEFINE b == [jobs |-> batch[x], stamp |-> stamp[x]]
    <3>1. state' = state /\ b \in parked' /\ b.jobs = batch[x] /\ parked \subseteq parked'
      BY <2>3 DEF ParkBatch
    <3> HIDE DEF b
    <3> QED BY <2>1, <3>1, Zenon DEF NoneLost, Found
  <2> QED BY <1>12, <2>2, <2>3 DEF NodePark
<1>13. ASSUME NEW x \in Nodes, NodeStale(x) \/ NodeSkip(x) \/ NodeRan(x) PROVE NoneLost'
  <2>1. Going(x) /\ NextInBatch(x) /\ UNCHANGED <<storage, buf, parked>>
    BY <1>13, Zenon DEF NodeStale, NodeSkip, NodeRan, Going, qvars, lvars, kvars
  <2>2. /\ batch[x] # <<>> /\ batch'[x] = Tail(batch[x])
        /\ \A y \in Nodes : y # x => batch'[y] = batch[y]
    BY <2>1, Advances
  <2>3. \A j : Has(batch[x], j) => j = Head(batch[x]) \/ Has(batch'[x], j)
    BY <1>1, <2>2, TailHas
  <2>4. Head(batch[x]) \in Jobs
    BY <1>1, <2>2, TailPart
  <2>5. \A k \in Jobs : state'[k] = "queued" => state[k] = "queued" /\ k # Head(batch[x])
    <3>1. CASE NodeStale(x)
      BY <1>6, <3>1, Zenon DEF NodeStale
    <3>2. CASE NodeSkip(x)
      BY <3>2 DEF NodeSkip
    <3>3. CASE NodeRan(x)
      BY <2>4, <3>3 DEF NodeRan, Marked
    <3> QED BY <1>13, <3>1, <3>2, <3>3
  <2> QED BY <2>1, <2>2, <2>3, <2>5, Zenon DEF NoneLost, Found
<1>14. ASSUME NEW x \in Nodes, NodeStart(x) PROVE NoneLost'
  <2>1. UNCHANGED <<storage, buf, batch, parked>>
    BY <1>14 DEF NodeStart, qvars, lvars, kvars
  <2>2. \A k \in Jobs : state'[k] = "queued" => state[k] = "queued"
    BY <1>14, Turnings DEF Turns
  <2> QED BY <2>1, <2>2, Zenon DEF NoneLost, Found
<1> QED BY <1>3, <1>4, <1>5, <1>7, <1>8, <1>9, <1>10, <1>11, <1>12, <1>13, <1>14, Kinds, Zenon DEF Moves

(***************************************************************************)
(* What a Purge reaches                                                    *)
(***************************************************************************)
\* A batch, s stamped with e, that a whole Purge passed by holds only what it reached.
Passes(s, e, g, r) == e # g => \A i \in DOMAIN s : s[i] \in r

\* Reached in terms of Passes, before and after a step.
LEMMA ReachedParts ==
    /\ Reached <=> /\ \A x \in Nodes : stamp[x].epoch <= gen
                   /\ \A b \in parked : b.stamp.epoch <= gen
                   /\ ppc = "none" =>
                        /\ \A j \in Jobs : state[j] = "purged" => j \in reach
                        /\ \A x \in Nodes : Passes(batch[x], stamp[x].epoch, gen, reach)
                        /\ \A b \in parked : Passes(b.jobs, b.stamp.epoch, gen, reach)
    /\ Reached' <=> /\ \A x \in Nodes : stamp'[x].epoch <= gen'
                    /\ \A b \in parked' : b.stamp.epoch <= gen'
                    /\ ppc' = "none" =>
                         /\ \A j \in Jobs : state'[j] = "purged" => j \in reach'
                         /\ \A x \in Nodes : Passes(batch'[x], stamp'[x].epoch, gen', reach')
                         /\ \A b \in parked' : Passes(b.jobs, b.stamp.epoch, gen', reach')
BY Zenon DEF Reached, Passes

\* What holds of a batch holds of its parts.
LEMMA PartPasses ==
    ASSUME NEW s \in Seq(Jobs), NEW t \in Seq(Jobs), NEW p \in Nat, NEW q \in Nat, Part(t, q, s, p),
           NEW e, NEW g, NEW r, Passes(s, e, g, r)
    PROVE  Passes(t, e, g, r)
<1>1. \A j : Has(t, j) => Has(s, j)
  BY PartOf
<1>2. \A i \in DOMAIN t : Has(t, t[i])
  BY DEF Has
<1>3. e # g => \A j : Has(s, j) => j \in r
  BY DEF Passes, Has
<1> QED BY <1>1, <1>2, <1>3, Zenon DEF Passes

\* An empty batch holds only jobs a Purge reached.
LEMMA EmptyPasses == \A e, g, r : Passes(<<>>, e, g, r)
BY DEF Passes

\* Every step keeps it that stale batches hold only what a Purge reached.
LEMMA ReachedStep ==
    ASSUME Pieces, Pieces', Marked, Shape, WaitingFresh, Reached, [Next]_vars
    PROVE  Reached'
<1>1. /\ \A b \in parked : /\ b.jobs \in Seq(Jobs) /\ b.stamp.seq \in Nat /\ b.stamp.epoch \in Nat
                           /\ b.stamp.epoch <= gen
      /\ \A x \in Nodes : /\ batch[x] \in Seq(Jobs) /\ stamp[x].seq \in Nat /\ stamp[x].epoch \in Nat
                          /\ stamp[x].epoch <= gen
      /\ gen \in Nat
  BY PieceTypes, DispatchAssumption DEF Reached, Marked
<1>2. ppc = "none" =>
        /\ \A j \in Jobs : state[j] = "purged" => j \in reach
        /\ \A x \in Nodes : Passes(batch[x], stamp[x].epoch, gen, reach)
        /\ \A b \in parked : Passes(b.jobs, b.stamp.epoch, gen, reach)
  BY ReachedParts, Zenon
<1>3. CASE /\ UNCHANGED <<batch, stamp, parked, gen, ppc, reach>>
           /\ \A j \in Jobs : state'[j] = "purged" => state[j] = "purged"
  BY <1>1, <1>2, <1>3, ReachedParts, Zenon
<1>4. CASE UNCHANGED vars \/ Quiet \/ Marks \/ LoopTake
  BY <1>3, <1>4, QuietMoves, Zenon DEF vars, moved, Marks, LoopPlan, LoopGiveBack, NodeFresh, NodeHalt,
     LoopTake, qvars, lvars, nvars, kvars, pvars
<1>5. ASSUME NEW j \in Jobs, Add(j) \/ CloseJob(j) PROVE Reached'
  <2>1. UNCHANGED <<batch, stamp, parked, gen, ppc, reach>>
    BY <1>5, Zenon DEF Add, CloseJob, nvars, kvars, pvars
  <2>2. \A k \in Jobs : state'[k] = "purged" => state[k] = "purged"
    BY <1>5, Turnings DEF Turns
  <2> QED BY <1>3, <2>1, <2>2
<1>6. ASSUME NEW x \in Nodes, NodeStart(x) PROVE Reached'
  <2>1. UNCHANGED <<batch, stamp, parked, gen, ppc, reach>>
    BY <1>6, Zenon DEF NodeStart, kvars, pvars
  <2>2. \A k \in Jobs : state'[k] = "purged" => state[k] = "purged"
    BY <1>6, Turnings DEF Turns
  <2> QED BY <1>3, <2>1, <2>2
<1>7. CASE PurgeBump
  <2>1. ppc' # "none" /\ gen' = gen + 1 /\ UNCHANGED <<stamp, parked>>
    BY <1>7 DEF PurgeBump, nvars, kvars
  <2>2. /\ \A x \in Nodes : stamp'[x].epoch <= gen'
        /\ \A b \in parked' : b.stamp.epoch <= gen'
    BY <1>1, <2>1
  <2> QED BY <2>1, <2>2, ReachedParts, Zenon
<1>8. CASE PurgeDrop
  <2>1. ppc' # "none" /\ parked' = {} /\ UNCHANGED <<gen, stamp>>
    BY <1>8 DEF PurgeDrop, nvars
  <2> QED BY <1>1, <2>1, ReachedParts, Zenon
<1>9. CASE PurgeStorage
  <2>1. /\ reach' = {j \in Jobs : state[j] # "new"}
        /\ UNCHANGED <<batch, stamp, parked, gen>>
        /\ state' = Purged(Range(storage))
    BY <1>9 DEF PurgeStorage, nvars, kvars
  <2>2. \A j \in Jobs : state'[j] = "purged" => j \in reach'
    BY <2>1, Purges DEF Turns
  <2>3. \A b \in parked : \A i \in DOMAIN b.jobs : b.jobs[i] \in reach'
    <3>1. \A s \in Seq(Jobs) : \A i \in DOMAIN s : s[i] \in Jobs
      OBVIOUS
    <3> QED BY <1>1, <2>1, <3>1 DEF WaitingFresh, Fresh, Unstarted
  <2>4. \A x \in Nodes : \A i \in DOMAIN batch[x] : batch[x][i] \in reach'
    <3>1. \A s \in Seq(Jobs) : \A i \in DOMAIN s : s[i] \in Jobs
      OBVIOUS
    <3> QED BY <1>1, <2>1, <3>1 DEF WaitingFresh, Unstarted
  <2> QED BY <1>1, <2>1, <2>2, <2>3, <2>4, ReachedParts DEF Passes
<1>10. CASE LoopUnpark
  <2>1. PICK b \in parked : \E k \in 1 .. Len(b.jobs) :
             /\ parked' = (parked \ {b}) \cup IF k < Len(b.jobs) THEN {Rest(b, k)} ELSE {}
             /\ node \in Nodes
             /\ batch' = [batch EXCEPT ![node] = SubSeq(b.jobs, 1, k)]
             /\ stamp' = [stamp EXCEPT ![node] = b.stamp]
    BY <1>10, Unparks
  <2>2. PICK k \in 1 .. Len(b.jobs) :
             /\ parked' = (parked \ {b}) \cup IF k < Len(b.jobs) THEN {Rest(b, k)} ELSE {}
             /\ node \in Nodes
             /\ batch' = [batch EXCEPT ![node] = SubSeq(b.jobs, 1, k)]
             /\ stamp' = [stamp EXCEPT ![node] = b.stamp]
    BY <2>1
  <2> DEFINE t == SubSeq(b.jobs, 1, k)
             u == SubSeq(b.jobs, k + 1, Len(b.jobs))
  <2>3. UNCHANGED <<state, gen, ppc, reach>>
    BY <1>10 DEF LoopUnpark, pvars
  <2>4. CutInto(t, u, b.jobs, k, 0)
    BY <1>1, Cut
  <2>5. /\ batch'[node] = t /\ stamp'[node] = b.stamp
        /\ \A x \in Nodes : x # node => batch'[x] = batch[x] /\ stamp'[x] = stamp[x]
    BY <2>2 DEF Pieces
  <2>6. \A c \in parked' : c \in parked \/ (c.jobs = u /\ c.stamp.epoch = b.stamp.epoch)
    BY <2>2, RestTypes, Zenon
  <2> HIDE DEF t, u
  <2>7. \A g, r : Passes(b.jobs, b.stamp.epoch, g, r) => /\ Passes(t, b.stamp.epoch, g, r)
                                                         /\ Passes(u, b.stamp.epoch, g, r)
    <3>1. k \in Nat /\ 0 + k \in Nat
      OBVIOUS
    <3> QED BY <1>1, <2>4, <3>1, PartPasses DEF CutInto
  <2>8. /\ \A x \in Nodes : stamp'[x].epoch <= gen
        /\ \A c \in parked' : c.stamp.epoch <= gen
    BY <1>1, <2>5, <2>6, Zenon
  <2>9. ppc = "none" => /\ \A x \in Nodes : Passes(batch'[x], stamp'[x].epoch, gen, reach)
                        /\ \A c \in parked' : Passes(c.jobs, c.stamp.epoch, gen, reach)
    BY <1>2, <2>5, <2>6, <2>7, Zenon
  <2> QED BY <1>2, <2>3, <2>8, <2>9, ReachedParts, Zenon
<1>11. CASE LoopStamp
  <2>1. /\ batch' = [batch EXCEPT ![node] = buf]
        /\ stamp' = [stamp EXCEPT ![node] = [epoch |-> gen, seq |-> dispatched]]
        /\ UNCHANGED <<state, parked, gen, ppc, reach>>
    BY <1>11 DEF LoopStamp, SendBatch, kvars, pvars
  <2>2. node \in Nodes
    BY <1>11 DEF LoopStamp, Shape, Marked
  <2>3. /\ batch'[node] = buf /\ stamp'[node].epoch = gen
        /\ \A x \in Nodes : x # node => batch'[x] = batch[x] /\ stamp'[x] = stamp[x]
    BY <2>1, <2>2 DEF Pieces
  <2>4. gen <= gen /\ Passes(buf, gen, gen, reach)
    BY <1>1 DEF Passes
  <2> QED BY <1>1, <1>2, <2>1, <2>3, <2>4, ReachedParts, Zenon
<1>12. ASSUME NEW js, state' = Purged(js), ppc = "none" => js \subseteq reach
       PROVE  ppc = "none" => \A j \in Jobs : state'[j] = "purged" => j \in reach
  BY <1>2, <1>12, Purges DEF Turns
<1>13. ASSUME NEW x \in Nodes, NodePark(x) PROVE Reached'
  <2>1. /\ batch' = [batch EXCEPT ![x] = <<>>] /\ stamp' = [stamp EXCEPT ![x] = NoStamp]
        /\ UNCHANGED <<gen, ppc, reach>>
    BY <1>13 DEF NodePark, pvars
  <2>2. /\ batch'[x] = <<>> /\ stamp'[x].epoch = 0
        /\ \A y \in Nodes : y # x => batch'[y] = batch[y] /\ stamp'[y] = stamp[y]
    BY <2>1 DEF Pieces, NoStamp
  <2>3. 0 <= gen
    BY <1>1
  <2>4. /\ \A y \in Nodes : stamp'[y].epoch <= gen
        /\ ppc = "none" => \A y \in Nodes : Passes(batch'[y], stamp'[y].epoch, gen, reach)
    BY <1>1, <1>2, <2>2, <2>3, EmptyPasses, Zenon
  <2>5. CASE ParkStale(x)
    <3>1. /\ stamp[x].epoch # gen /\ state' = Purged(Range(batch[x])) /\ UNCHANGED parked
      BY <2>5 DEF ParkStale, Stale
    <3>2. ppc = "none" => Range(batch[x]) \subseteq reach
      BY <1>2, <3>1 DEF Passes, Range
    <3>3. ppc = "none" => \A j \in Jobs : state'[j] = "purged" => j \in reach
      BY <1>12, <3>1, <3>2, Zenon
    <3>4. ppc = "none" => \A b \in parked' : Passes(b.jobs, b.stamp.epoch, gen, reach)
      BY <1>2, <3>1, Zenon
    <3> QED BY <1>1, <2>1, <2>4, <3>1, <3>3, <3>4, ReachedParts, Zenon
  <2>6. CASE ParkBatch(x)
    <3> DEFINE b == [jobs |-> batch[x], stamp |-> stamp[x]]
    <3>1. state' = state /\ parked' = parked \cup {b} /\ b.jobs = batch[x] /\ b.stamp = stamp[x]
      BY <2>6 DEF ParkBatch
    <3> HIDE DEF b
    <3>2. ppc = "none" => \A c \in parked' : Passes(c.jobs, c.stamp.epoch, gen, reach)
      BY <1>2, <3>1, Zenon
    <3>3. \A c \in parked' : c.stamp.epoch <= gen
      BY <1>1, <3>1, Zenon
    <3> QED BY <1>2, <2>1, <2>4, <3>1, <3>2, <3>3, ReachedParts, Zenon
  <2> QED BY <1>13, <2>5, <2>6 DEF NodePark
<1>14. ASSUME NEW x \in Nodes, NodeStale(x) \/ NodeSkip(x) \/ NodeRan(x) PROVE Reached'
  <2>1. Going(x) /\ NextInBatch(x) /\ UNCHANGED <<gen, ppc, reach, parked>>
    BY <1>14, Zenon DEF NodeStale, NodeSkip, NodeRan, Going, kvars, pvars
  <2>2. /\ batch[x] # <<>> /\ batch'[x] = Tail(batch[x])
        /\ stamp'[x].epoch = 0 \/ stamp'[x].epoch = stamp[x].epoch
        /\ Len(batch[x]) = 1 \/ stamp'[x].epoch = stamp[x].epoch
        /\ \A y \in Nodes : y # x => batch'[y] = batch[y] /\ stamp'[y] = stamp[y]
    BY <2>1, Advances DEF NoStamp
  <2>3. stamp'[x].epoch <= gen
    BY <1>1, <2>2
  <2>4. ppc = "none" => Passes(batch'[x], stamp'[x].epoch, gen, reach)
    <3>1. /\ Part(Tail(batch[x]), 0 + 1, batch[x], 0) /\ Tail(batch[x]) \in Seq(Jobs) /\ 0 + 1 \in Nat
          /\ Len(Tail(batch[x])) = Len(batch[x]) - 1
      <4>1. \A s \in Seq(Jobs) : s # <<>> =>
              /\ Part(Tail(s), 0 + 1, s, 0) /\ Tail(s) \in Seq(Jobs) /\ 0 + 1 \in Nat
              /\ Len(Tail(s)) = Len(s) - 1
        BY TailPart
      <4> QED BY <1>1, <2>2, <4>1, Zenon
    <3>2. Len(batch[x]) = 1 => batch'[x] = <<>>
      <4>1. \A s \in Seq(Jobs) : Len(s) = 0 => s = <<>>
        OBVIOUS
      <4>2. Len(batch[x]) = 1 => Len(Tail(batch[x])) = 0
        BY <3>1
      <4> QED BY <2>2, <3>1, <4>1, <4>2, Zenon
    <3>3. \A e, g, r : Passes(batch[x], e, g, r) => Passes(batch'[x], e, g, r)
      <4>1. \A s, t \in Seq(Jobs) : Part(t, 0 + 1, s, 0) =>
              \A e, g, r : Passes(s, e, g, r) => Passes(t, e, g, r)
        BY PartPasses
      <4> QED BY <1>1, <2>2, <3>1, <4>1, Zenon
    <3> QED BY <1>2, <2>2, <3>2, <3>3, EmptyPasses, Zenon
  <2>5. ppc = "none" => \A j \in Jobs : state'[j] = "purged" => j \in reach
    <3>1. CASE NodeStale(x)
      <4>1. stamp[x].epoch # gen /\ state' = Purged({Head(batch[x])})
        BY <3>1 DEF NodeStale, Stale
      <4>2. Head(batch[x]) = batch[x][1] /\ 1 \in DOMAIN batch[x]
        BY <1>1, <2>2, FirstJob
      <4>3. ppc = "none" => {Head(batch[x])} \subseteq reach
        BY <1>2, <4>1, <4>2 DEF Passes
      <4> QED BY <1>12, <4>1, <4>3, Zenon
    <3>2. CASE NodeSkip(x)
      BY <1>2, <3>2 DEF NodeSkip
    <3>3. CASE NodeRan(x)
      BY <1>2, <3>3, Turnings DEF Turns
    <3> QED BY <1>14, <3>1, <3>2, <3>3
  <2> QED BY <1>1, <1>2, <2>1, <2>2, <2>3, <2>4, <2>5, ReachedParts, Zenon
<1> QED BY <1>4, <1>5, <1>6, <1>7, <1>8, <1>9, <1>10, <1>11, <1>13, <1>14, Kinds, Zenon DEF Moves

(***************************************************************************)
(* What a Purge finds stamped does not start                               *)
(***************************************************************************)
\* j may be among the jobs s of a node at p only if the batch, stamped with e, is stale
\* and the node has not looked at j.
At(s, e, p, g, j) == \A i \in DOMAIN s : s[i] = j => e # g /\ (i = 1 => p = "stale")

Barred(j) ==
    /\ state[j] \in Unstarted
    /\ ~Has(storage, j) /\ ~Has(buf, j)
    /\ \A b \in parked : Has(b.jobs, j) => b.stamp.epoch # gen
    /\ \A x \in Nodes : At(batch[x], stamp[x].epoch, npc[x], gen, j)

\* Doomed job by job, before and after a step.
LEMMA BarredParts == (Doomed <=> \A j \in doomed : Barred(j)) /\ (Doomed' <=> \A j \in doomed' : Barred(j)')
BY Zenon DEF Doomed, Barred, At

\* What At says in the cases that occur.
LEMMA AtFacts ==
    /\ \A s, e, p, g, j : ~Has(s, j) => At(s, e, p, g, j)
    /\ \A s, e, g, j : e # g => At(s, e, "stale", g, j)
    /\ \A s, e, p, g, j : At(s, e, p, g, j) /\ Has(s, j) => e # g
    /\ \A s, e, p, q, g, j : At(s, e, p, g, j) /\ (p = q \/ q = "stale") => At(s, e, q, g, j)
    /\ \A e, p, g, j : At(<<>>, e, p, g, j)
BY DEF At, Has

\* A step starts no job that is barred.
LEMMA BarredState ==
    ASSUME Pieces, Marked, Shape, WaitingFresh, [Next]_vars, NEW j \in Jobs, Barred(j)
    PROVE  state'[j] \in Unstarted
<1>1. state[j] \in Unstarted
  BY DEF Barred
<1>2. CASE UNCHANGED state
  BY <1>1, <1>2
<1>3. CASE UNCHANGED vars \/ Quiet \/ Marks
  BY <1>2, <1>3, QuietMoves, Zenon DEF vars, moved, Marks, LoopPlan, LoopGiveBack, NodeFresh, NodeHalt
<1>4. CASE PurgeBump \/ LoopUnpark \/ LoopTake \/ LoopStamp \/ \E x \in Nodes : NodeSkip(x)
  BY <1>2, <1>4, Zenon DEF PurgeBump, LoopUnpark, LoopTake, LoopStamp, NodeSkip
<1>5. ASSUME NEW k \in Jobs, Add(k) \/ CloseJob(k) PROVE state'[j] \in Unstarted
  BY <1>1, <1>5, Turnings DEF Turns, Unstarted
<1>6. ASSUME NEW js, state' = Purged(js) PROVE state'[j] \in Unstarted
  BY <1>1, <1>6, Purges
<1>7. CASE PurgeDrop \/ PurgeStorage \/ \E x \in Nodes : NodeStale(x)
  BY <1>6, <1>7, Zenon DEF PurgeDrop, PurgeStorage, NodeStale
<1>8. ASSUME NEW x \in Nodes, NodePark(x) PROVE state'[j] \in Unstarted
  BY <1>2, <1>6, <1>8, Zenon DEF NodePark, ParkStale, ParkBatch
<1>9. ASSUME NEW x \in Nodes, NodeStart(x) \/ NodeRan(x) PROVE state'[j] \in Unstarted
  <2>1. npc[x] # "stale" /\ batch[x] \in Seq(Jobs) /\ batch[x] # <<>>
    BY <1>9, PieceTypes DEF NodeStart, NodeRan, Shape
  <2>2. Head(batch[x]) = batch[x][1] /\ 1 \in DOMAIN batch[x]
    BY <2>1, FirstJob
  <2>3. j # Head(batch[x])
    BY <2>1, <2>2 DEF Barred, At
  <2> QED BY <1>1, <1>9, <2>3, Turnings DEF Turns
<1> QED BY <1>3, <1>4, <1>5, <1>7, <1>8, <1>9, Kinds, Zenon DEF Moves

\* What a Purge finds stamped is barred by it.
LEMMA BumpBars ==
    ASSUME Pieces, Marked, Shape, Ordered, WaitingFresh, Reached, PurgeBump,
           NEW j \in Jobs, Barred(j) \/ j \in Stamped
    PROVE  Barred(j)'
<1>1. gen' = gen + 1 /\ UNCHANGED <<state, storage, buf, batch, stamp, npc, parked>>
  BY DEF PurgeBump, qvars, lvars, nvars, kvars
<1>2. /\ \A b \in parked : b.stamp.epoch # gen'
      /\ \A x \in Nodes : stamp[x].epoch # gen'
  <2>1. \A e \in Nat, g \in Nat : e <= g => e # g + 1
    OBVIOUS
  <2>2. gen \in Nat
    BY DispatchAssumption DEF Marked
  <2> QED BY <1>1, <2>1, <2>2, PieceTypes DEF Reached
<1>3. CASE Barred(j)
  BY <1>1, <1>2, <1>3 DEF Barred, At
<1>4. CASE j \in JobsOf(parked)
  <2>1. PICK b \in parked : Has(b.jobs, j)
    BY <1>4, RangeHas
  <2>2. ~Has(storage, j) /\ ~Has(buf, j) /\ \A x \in Nodes : ~Has(batch[x], j)
    BY <2>1, OneInParked
  <2>3. state[j] \in Unstarted
    BY <2>1 DEF WaitingFresh, Fresh, Has
  <2> QED BY <1>1, <1>2, <2>2, <2>3, AtFacts, Zenon DEF Barred
<1>5. ASSUME NEW x \in Nodes, j \in Range(Passed(x)) PROVE Barred(j)'
  <2>1. Has(Passed(x), j) /\ batch[x] \in Seq(Jobs)
    BY <1>5, RangeHas, PieceTypes
  <2>2. PICK i \in DOMAIN batch[x] : batch[x][i] = j /\ (npc[x] = "stale" \/ i # 1)
    <3>1. CASE npc[x] = "stale" \/ batch[x] = <<>>
      BY <2>1, <3>1 DEF Passed, Has
    <3>2. CASE ~(npc[x] = "stale" \/ batch[x] = <<>>)
      <4>1. PICK k \in DOMAIN Tail(batch[x]) : Tail(batch[x])[k] = j
        BY <2>1, <3>2 DEF Passed, Has
      <4>2. /\ Tail(batch[x]) \in Seq(Jobs) /\ Len(Tail(batch[x])) = Len(batch[x]) - 1
            /\ \A l \in 1 .. Len(batch[x]) - 1 : Tail(batch[x])[l] = batch[x][l + 1]
        BY <2>1, <3>2, TailPart
      <4>3. k \in 1 .. Len(batch[x]) - 1 /\ Len(batch[x]) \in Nat
        BY <2>1, <4>2
      <4>4. k + 1 \in DOMAIN batch[x] /\ batch[x][k + 1] = j /\ k + 1 # 1
        BY <2>1, <4>1, <4>2, <4>3
      <4> QED BY <4>4
    <3> QED BY <3>1, <3>2
  <2>3. Has(batch[x], j)
    BY <2>2 DEF Has
  <2>4. /\ ~Has(storage, j) /\ ~Has(buf, j)
        /\ \A y \in Nodes : y # x => ~Has(batch[y], j)
        /\ \A b \in parked : ~Has(b.jobs, j)
        /\ \A k \in DOMAIN batch[x] : batch[x][k] = j => k = i
    BY <2>2, <2>3, OneInBatch
  <2>5. state[j] \in Unstarted
    BY <2>2 DEF WaitingFresh
  <2>6. At(batch[x], stamp[x].epoch, npc[x], gen', j)
    BY <1>2, <2>2, <2>4 DEF At
  <2> QED BY <1>1, <1>2, <2>4, <2>5, <2>6, AtFacts, Zenon DEF Barred
<1> QED BY <1>3, <1>4, <1>5, Zenon DEF Stamped

\* No step lets a doomed job past the check of its stamp.
LEMMA DoomedStep ==
    ASSUME Pieces, Pieces', Marked, Shape, Ordered, WaitingFresh, Reached, Doomed, [Next]_vars
    PROVE  Doomed'
<1>1. CASE PurgeBump
  <2>1. doomed' = doomed \cup Stamped /\ Stamped \subseteq Jobs /\ doomed \subseteq Jobs
    BY <1>1, StampedTypes DEF Marked
  <2>2. \A j \in doomed' : Barred(j)'
    BY <1>1, <2>1, BumpBars, BarredParts
  <2> QED BY <2>2, BarredParts, Zenon
<1> SUFFICES ASSUME ~PurgeBump PROVE Doomed'
  BY <1>1
<1>2. doomed' = doomed
  <2>1. CASE UNCHANGED vars \/ Quiet \/ Marks
    BY <2>1, QuietMoves, Zenon DEF vars, moved, Marks, LoopPlan, LoopGiveBack, NodeFresh, NodeHalt, pvars
  <2>2. CASE Moves
    BY <2>2, Zenon DEF Moves, Add, CloseJob, PurgeDrop, PurgeStorage, LoopUnpark, LoopTake, LoopStamp,
       NodeStale, NodePark, NodeSkip, NodeStart, NodeRan, pvars
  <2> QED BY <2>1, <2>2, Kinds
<1> SUFFICES ASSUME NEW j \in doomed PROVE Barred(j)'
  BY <1>2, BarredParts, Zenon
<1>3. /\ Barred(j) /\ j \in Jobs
      /\ ~Has(storage, j) /\ ~Has(buf, j)
      /\ \A b \in parked : Has(b.jobs, j) => b.stamp.epoch # gen
      /\ \A x \in Nodes : At(batch[x], stamp[x].epoch, npc[x], gen, j)
  BY BarredParts, Zenon DEF Barred, Marked
<1>4. state'[j] \in Unstarted
  BY <1>3, BarredState
<1>5. CASE UNCHANGED <<storage, buf, batch, stamp, npc, parked, gen>>
  BY <1>3, <1>4, <1>5, Zenon DEF Barred
<1>6. CASE UNCHANGED vars \/ Quiet \/ \E k \in Jobs : CloseJob(k)
  BY <1>5, <1>6, QuietMoves, Zenon DEF vars, moved, CloseJob, qvars, lvars, nvars, kvars, pvars
<1>7. CASE /\ UNCHANGED <<storage, buf, parked, gen>>
           /\ \A x \in Nodes : At(batch'[x], stamp'[x].epoch, npc'[x], gen, j)
  BY <1>3, <1>4, <1>7, Zenon DEF Barred
<1>8. /\ \A b \in parked : b.jobs \in Seq(Jobs)
      /\ \A x \in Nodes : batch[x] \in Seq(Jobs)
      /\ storage \in Seq(Jobs) /\ buf \in Seq(Jobs)
  BY PieceTypes DEF Pieces
<1>9. ASSUME NEW x \in Nodes, NEW q, npc' = [npc EXCEPT ![x] = q],
             UNCHANGED <<batch, stamp, storage, buf, parked, gen>>,
             At(batch[x], stamp[x].epoch, q, gen, j)
      PROVE  Barred(j)'
  <2>1. npc'[x] = q /\ \A y \in Nodes : y # x => npc'[y] = npc[y]
    BY <1>9 DEF Marked
  <2> QED BY <1>3, <1>7, <1>9, <2>1, Zenon
<1>10. CASE Marks
  <2>1. UNCHANGED <<batch, stamp, storage, buf, parked, gen>>
    BY <1>10, Zenon DEF Marks, LoopPlan, LoopGiveBack, NodeFresh, NodeHalt, qvars, lvars, kvars, pvars
  <2>2. ASSUME NEW x \in Nodes, NEW k \in 1 .. MaxBatch, LoopPlan(x, k) PROVE Barred(j)'
    <3>1. npc' = [npc EXCEPT ![x] = "taken"] /\ batch[x] = <<>>
      BY <2>2 DEF LoopPlan, Shape
    <3>2. \A q : At(batch[x], stamp[x].epoch, q, gen, j)
      BY <3>1 DEF At
    <3> QED BY <1>9, <2>1, <3>1, <3>2, Zenon
  <2>3. CASE LoopGiveBack
    <3>1. npc' = [npc EXCEPT ![node] = "idle"] /\ node \in Nodes /\ batch[node] = <<>>
      BY <2>3, DispatchAssumption DEF LoopGiveBack, Shape, Marked
    <3>2. \A q : At(batch[node], stamp[node].epoch, q, gen, j)
      BY <3>1 DEF At
    <3> QED BY <1>9, <2>1, <3>1, <3>2, Zenon
  <2>4. ASSUME NEW x \in Nodes, NodeFresh(x) PROVE Barred(j)'
    <3>1. npc' = [npc EXCEPT ![x] = "halt"] /\ stamp[x].epoch = gen
      BY <2>4 DEF NodeFresh, Stale
    <3>2. ~Has(batch[x], j)
      BY <1>3, <3>1, AtFacts, Zenon
    <3> QED BY <1>9, <2>1, <3>1, <3>2, AtFacts, Zenon
  <2>5. ASSUME NEW x \in Nodes, NodeHalt(x) PROVE Barred(j)'
    <3>1. \E q : npc' = [npc EXCEPT ![x] = q]
      BY <2>5, Zenon DEF NodeHalt
    <3>2. npc[x] = "halt"
      BY <2>5, Zenon DEF NodeHalt
    <3>3. \A q : At(batch[x], stamp[x].epoch, q, gen, j)
      BY <1>3, <3>2 DEF At
    <3> QED BY <1>9, <2>1, <3>1, <3>3, Zenon
  <2> QED BY <1>10, <2>2, <2>3, <2>4, <2>5, Zenon DEF Marks
<1>11. ASSUME NEW k \in Jobs, Add(k) PROVE Barred(j)'
  <2>1. /\ storage' = Append(storage, k) /\ state[k] = "new"
        /\ UNCHANGED <<buf, batch, stamp, npc, parked, gen>>
    BY <1>11 DEF Add, lvars, nvars, kvars, pvars
  <2>2. Grown(storage', storage, k)
    BY <1>8, <2>1, Appends
  <2>3. j # k
    BY <1>3, <2>1 DEF Barred, Unstarted
  <2>4. ~Has(storage', j)
    BY <1>3, <2>2, <2>3, Zenon DEF Grown
  <2> QED BY <1>3, <1>4, <2>1, <2>4, Zenon DEF Barred
<1>12. CASE PurgeDrop \/ PurgeStorage
  <2>1. /\ UNCHANGED <<buf, batch, stamp, npc, gen>> /\ parked' \subseteq parked
        /\ storage' \in {storage, <<>>}
    BY <1>12 DEF PurgeDrop, PurgeStorage, qvars, lvars, nvars, kvars
  <2>2. ~Has(storage', j)
    BY <1>3, <2>1 DEF Has
  <2> QED BY <1>3, <1>4, <2>1, <2>2, Zenon DEF Barred
<1>13. CASE LoopUnpark
  <2>1. PICK b \in parked : \E k \in 1 .. Len(b.jobs) :
             /\ parked' = (parked \ {b}) \cup IF k < Len(b.jobs) THEN {Rest(b, k)} ELSE {}
             /\ node \in Nodes
             /\ batch' = [batch EXCEPT ![node] = SubSeq(b.jobs, 1, k)]
             /\ stamp' = [stamp EXCEPT ![node] = b.stamp]
    BY <1>13, Unparks
  <2>2. PICK k \in 1 .. Len(b.jobs) :
             /\ parked' = (parked \ {b}) \cup IF k < Len(b.jobs) THEN {Rest(b, k)} ELSE {}
             /\ node \in Nodes
             /\ batch' = [batch EXCEPT ![node] = SubSeq(b.jobs, 1, k)]
             /\ stamp' = [stamp EXCEPT ![node] = b.stamp]
    BY <2>1
  <2> DEFINE t == SubSeq(b.jobs, 1, k)
             u == SubSeq(b.jobs, k + 1, Len(b.jobs))
  <2>3. UNCHANGED <<storage, buf, gen>> /\ npc' = [npc EXCEPT ![node] = "stale"]
    BY <1>13 DEF LoopUnpark, UnparkFrom, SendBatch, pvars, qvars
  <2>4. CutInto(t, u, b.jobs, k, 0)
    BY <1>8, Cut
  <2>5. /\ batch'[node] = t /\ stamp'[node] = b.stamp /\ npc'[node] = "stale"
        /\ \A x \in Nodes : x # node => batch'[x] = batch[x] /\ stamp'[x] = stamp[x] /\ npc'[x] = npc[x]
    BY <2>2, <2>3 DEF Pieces, Marked
  <2>6. \A c \in parked' : c \in parked \/ (c.jobs = u /\ c.stamp.epoch = b.stamp.epoch)
    BY <2>2, RestTypes, Zenon
  <2> HIDE DEF t, u
  <2>7. (Has(t, j) => Has(b.jobs, j)) /\ (Has(u, j) => Has(b.jobs, j))
    <3>1. k \in Nat /\ 0 + k \in Nat
      OBVIOUS
    <3> QED BY <1>8, <2>4, <3>1, PartOf DEF CutInto
  <2>8. \A x \in Nodes : At(batch'[x], stamp'[x].epoch, npc'[x], gen, j)
    <3>1. At(t, b.stamp.epoch, "stale", gen, j)
      BY <1>3, <2>7, AtFacts
    <3> QED BY <1>3, <2>5, <3>1, Zenon
  <2>9. \A c \in parked' : Has(c.jobs, j) => c.stamp.epoch # gen
    BY <1>3, <2>6, <2>7, Zenon
  <2> QED BY <1>3, <1>4, <2>3, <2>8, <2>9, Zenon DEF Barred
<1>14. CASE LoopTake
  <2>1. /\ storage # <<>> /\ storage' = Tail(storage) /\ buf' \in {buf, Append(buf, Head(storage))}
        /\ UNCHANGED <<batch, stamp, npc, parked, gen>>
    BY <1>14 DEF LoopTake, nvars, kvars, pvars
  <2>2. Head(storage) \in Jobs /\ Has(storage, Head(storage))
    BY <1>8, <2>1, TailPart, FirstJob
  <2>3. ~Has(storage', j)
    BY <1>3, <1>8, <2>1, TailHas
  <2>4. \A s : s = Append(buf, Head(storage)) => ~Has(s, j)
    <3>1. \A s : s = Append(buf, Head(storage)) => Grown(s, buf, Head(storage))
      BY <1>8, <2>2, Appends
    <3> QED BY <1>3, <2>2, <3>1, Zenon DEF Grown
  <2>5. ~Has(buf', j)
    BY <1>3, <2>1, <2>4
  <2> QED BY <1>3, <1>4, <2>1, <2>3, <2>5, Zenon DEF Barred
<1>15. CASE LoopStamp
  <2>1. /\ batch' = [batch EXCEPT ![node] = buf] /\ buf' = <<>> /\ npc' = [npc EXCEPT ![node] = "stale"]
        /\ stamp' = [stamp EXCEPT ![node] = [epoch |-> gen, seq |-> dispatched]]
        /\ UNCHANGED <<storage, parked, gen>> /\ node \in Nodes
    BY <1>15 DEF LoopStamp, SendBatch, qvars, kvars, pvars, Shape, Marked
  <2>2. /\ batch'[node] = buf
        /\ \A x \in Nodes : x # node => batch'[x] = batch[x] /\ stamp'[x] = stamp[x] /\ npc'[x] = npc[x]
    BY <2>1 DEF Pieces, Marked
  <2>3. \A x \in Nodes : At(batch'[x], stamp'[x].epoch, npc'[x], gen, j)
    BY <1>3, <2>2, AtFacts, Zenon
  <2>4. ~Has(buf', j)
    BY <2>1 DEF Has
  <2> QED BY <1>3, <1>4, <2>1, <2>3, <2>4, Zenon DEF Barred
<1>16. ASSUME NEW x \in Nodes, NodePark(x) PROVE Barred(j)'
  <2>1. /\ batch' = [batch EXCEPT ![x] = <<>>] /\ stamp' = [stamp EXCEPT ![x] = NoStamp]
        /\ npc' = [npc EXCEPT ![x] = "idle"] /\ UNCHANGED <<storage, buf, gen>>
    BY <1>16 DEF NodePark, qvars, lvars, pvars
  <2>2. /\ batch'[x] = <<>>
        /\ \A y \in Nodes : y # x => batch'[y] = batch[y] /\ stamp'[y] = stamp[y] /\ npc'[y] = npc[y]
    BY <2>1 DEF Pieces, Marked
  <2>3. \A y \in Nodes : At(batch'[y], stamp'[y].epoch, npc'[y], gen, j)
    <3>1. At(batch'[x], stamp'[x].epoch, npc'[x], gen, j)
      BY <2>2 DEF At
    <3> QED BY <1>3, <2>2, <3>1, Zenon
  <2>4. \A b \in parked' : b \in parked \/ (b.jobs = batch[x] /\ stamp[x].epoch = gen)
    BY <1>16 DEF NodePark, ParkStale, ParkBatch, Stale
  <2>5. \A b \in parked' : Has(b.jobs, j) => b.stamp.epoch # gen
    BY <1>3, <2>4, AtFacts, Zenon
  <2> QED BY <1>3, <1>4, <2>1, <2>3, <2>5, Zenon DEF Barred
<1>17. ASSUME NEW x \in Nodes, NodeStale(x) \/ NodeSkip(x) \/ NodeRan(x) PROVE Barred(j)'
  <2>1. Going(x) /\ NextInBatch(x) /\ UNCHANGED <<storage, buf, parked, gen>>
    BY <1>17, Zenon DEF NodeStale, NodeSkip, NodeRan, Going, qvars, lvars, kvars, pvars
  <2>2. /\ batch[x] # <<>> /\ batch'[x] = Tail(batch[x])
        /\ Len(batch[x]) = 1 \/ (Len(batch[x]) > 1 /\ stamp'[x].epoch = stamp[x].epoch)
        /\ \A y \in Nodes : y # x => batch'[y] = batch[y] /\ stamp'[y] = stamp[y]
    BY <2>1, Advances
  <2>3. /\ \A y \in Nodes : y # x => npc'[y] = npc[y]
        /\ Len(batch[x]) > 1 => npc'[x] = "stale"
    BY <2>1, Zenon DEF NextInBatch, Marked
  <2>4. At(batch'[x], stamp'[x].epoch, npc'[x], gen, j)
    <3>1. CASE Len(batch[x]) = 1
      <4>1. Tail(batch[x]) \in Seq(Jobs) /\ Len(Tail(batch[x])) = 0
        BY <1>8, <2>2, <3>1, TailPart
      <4>2. DOMAIN batch'[x] = {}
        <5>1. \A s \in Seq(Jobs) : Len(s) = 0 => DOMAIN s = {}
          OBVIOUS
        <5> QED BY <2>2, <4>1, <5>1, Zenon
      <4> QED BY <4>2 DEF At
    <3>2. CASE Len(batch[x]) > 1 /\ stamp'[x].epoch = stamp[x].epoch
      <4>1. Has(batch'[x], j) => Has(batch[x], j)
        BY <1>8, <2>2, TailHas
      <4>2. Has(batch[x], j) => stamp'[x].epoch # gen
        BY <1>3, <3>2, AtFacts, Zenon
      <4>3. npc'[x] = "stale"
        BY <2>3, <3>2, Zenon
      <4> QED BY <4>1, <4>2, <4>3 DEF At, Has
    <3> QED BY <2>2, <3>1, <3>2
  <2> QED BY <1>3, <1>7, <2>1, <2>2, <2>3, <2>4, Zenon
<1>18. ASSUME NEW x \in Nodes, NodeStart(x) PROVE Barred(j)'
  <2>1. /\ UNCHANGED <<batch, stamp, storage, buf, parked, gen>> /\ npc[x] = "start"
        /\ npc' = [npc EXCEPT ![x] = "run"]
    BY <1>18 DEF NodeStart, qvars, lvars, kvars, pvars
  <2>2. \A q : At(batch[x], stamp[x].epoch, q, gen, j)
    BY <1>3, <2>1 DEF At
  <2> QED BY <1>9, <2>1, <2>2, Zenon
<1> QED BY <1>6, <1>10, <1>11, <1>12, <1>13, <1>14, <1>15, <1>16, <1>17, <1>18, Kinds, Zenon DEF Moves

(***************************************************************************)
(* The invariant is one                                                    *)
(***************************************************************************)
\* The invariant holds at the start ...
LEMMA InitIInv == Init => IInv
<1> SUFFICES ASSUME Init PROVE IInv
  OBVIOUS
<1>1. /\ <<>> \in Seq(Jobs) /\ DOMAIN <<>> = {} /\ Len(<<>>) = 0
  OBVIOUS
<1>2. /\ \A x \in Nodes : batch[x] = <<>> /\ stamp[x] = NoStamp /\ npc[x] = "idle"
      /\ storage = <<>> /\ buf = <<>> /\ parked = {}
  BY DEF Init
<1>3. \A j : ~Has(<<>>, j)
  BY <1>1 DEF Has
<1>4. TypeOK
  <2>1. NoStamp \in Stamps
    BY DEF NoStamp, Stamps
  <2>2. Flags
    BY Zenon DEF Init, Flags
  <2>3. Pieces
    BY <1>1, <2>1 DEF Init, Pieces
  <2>4. Marked /\ nParked \in Nat
    BY DispatchAssumption DEF Init, Marked
  <2> QED BY <2>2, <2>3, <2>4, TypeParts, Zenon
<1>5. Shape
  BY <1>2, DispatchAssumption DEF Init, Shape
<1>6. Ordered
  <2>1. Rising(<<>>) /\ Below(<<>>, <<>>)
    BY <1>1 DEF Rising, Below
  <2>2. Sent(<<>>, 0, <<>>, <<>>, 0) /\ Apart(<<>>, 0, <<>>, 0)
    BY <1>1, <2>1 DEF Sent, Apart
  <2>3. NoStamp.seq = 0 /\ dispatched = 0
    BY DEF NoStamp, Init
  <2> QED BY <1>2, <2>1, <2>2, <2>3 DEF Ordered
<1>7. NewLast /\ NoneLost /\ HeldKnown
  BY DEF Init, NewLast, NoneLost, HeldKnown
<1>8. WaitingFresh
  BY <1>1, <1>2 DEF WaitingFresh, Fresh
<1>9. Counted
  <2>1. Slots(parked) = {}
    BY <1>2, Zenon DEF Slots
  <2> QED BY <2>1, FS_EmptySet DEF Counted, NumJobs, Slots, Init
<1>10. Reached
  <2>1. NoStamp.epoch <= gen
    BY DEF NoStamp, Init
  <2>2. \A j \in Jobs : state[j] # "purged"
    BY DEF Init
  <2> QED BY <1>1, <1>2, <2>1, <2>2 DEF Reached
<1>11. Doomed
  BY DEF Init, Doomed
<1> QED BY <1>4, <1>5, <1>6, <1>7, <1>8, <1>9, <1>10, <1>11 DEF IInv

\* ... and every step keeps it.
LEMMA NextIInv == IInv /\ [Next]_vars => IInv'
<1> SUFFICES ASSUME IInv, [Next]_vars PROVE IInv'
  OBVIOUS
<1>1. /\ Flags /\ Pieces /\ Marked /\ nParked \in Nat
      /\ Shape /\ Ordered /\ NewLast /\ WaitingFresh /\ NoneLost
      /\ Counted /\ Reached /\ Doomed /\ HeldKnown
  BY TypeParts, Zenon DEF IInv
<1>2. Flags' /\ Pieces' /\ Marked' /\ Shape' /\ Counted' /\ nParked' \in Nat /\ HeldKnown'
  BY <1>1, FlagsStep, PiecesStep, MarkedStep, ShapeStep, CountedStep, HeldStep
<1>3. Ordered' /\ NewLast' /\ WaitingFresh' /\ NoneLost'
  BY <1>1, <1>2, OrderedStep, NewLastStep, WaitingStep, NoneLostStep
<1>4. Reached' /\ Doomed'
  BY <1>1, <1>2, ReachedStep, DoomedStep
<1> QED BY <1>2, <1>3, <1>4, TypeParts, Zenon DEF IInv

(***************************************************************************)
(* What the invariant gives                                                *)
(***************************************************************************)
\* A job of the storage, or of the buffer, is nowhere else.
LEMMA OneInQueue ==
    ASSUME Pieces, Ordered, NEW j
    PROVE  /\ Has(storage, j) => /\ ~Has(buf, j)
                                 /\ \A i, k \in DOMAIN storage : storage[i] = storage[k] => i = k
           /\ Has(buf, j) => \A i, k \in DOMAIN buf : buf[i] = buf[k] => i = k
           /\ Has(storage, j) \/ Has(buf, j) => /\ \A x \in Nodes : ~Has(batch[x], j)
                                                /\ \A b \in parked : ~Has(b.jobs, j)
<1>1. /\ storage \in Seq(Jobs) /\ buf \in Seq(Jobs)
      /\ Rising(storage) /\ Rising(buf) /\ Below(buf, storage)
  BY DEF Pieces, Ordered
<1>2. Has(storage, j) => ~Has(buf, j)
  BY <1>1, BelowDiffers
<1>3. /\ \A i, k \in DOMAIN storage : storage[i] = storage[k] => i = k
      /\ \A i, k \in DOMAIN buf : buf[i] = buf[k] => i = k
  BY <1>1, RisingOnce
<1>4. Has(storage, j) \/ Has(buf, j) => /\ \A x \in Nodes : ~Has(batch[x], j)
                                        /\ \A b \in parked : ~Has(b.jobs, j)
  BY OneInBatch, OneInParked
<1> QED BY <1>2, <1>3, <1>4

\* The indices at which j is found in q.
Spots(q, j) == {i \in DOMAIN q : q[i] = j}

\* A job that is not there has no spot, a job that is there once has one.
LEMMA SpotsOf ==
    /\ \A q, j : ~Has(q, j) => Spots(q, j) = {}
    /\ \A q, j : Has(q, j) /\ (\A i, k \in DOMAIN q : q[i] = q[k] => i = k) => \E i : Spots(q, j) = {i}
<1>1. \A q, j : ~Has(q, j) => Spots(q, j) = {}
  BY DEF Spots, Has
<1>2. ASSUME NEW q, NEW j, Has(q, j), \A i, k \in DOMAIN q : q[i] = q[k] => i = k
      PROVE  \E i : Spots(q, j) = {i}
  <2>1. PICK i \in DOMAIN q : q[i] = j
    BY <1>2 DEF Has
  <2>2. Spots(q, j) = {i}
    BY <1>2, <2>1 DEF Spots
  <2> QED BY <2>2
<1> QED BY <1>1, <1>2

\* Places, in terms of spots.
LEMMA PlacesOf ==
    ASSUME NEW j
    PROVE  Places(j) = ({<<"storage">>} \X Spots(storage, j)) \cup ({<<"buf">>} \X Spots(buf, j))
                         \cup (UNION {{<<"node", x>>} \X Spots(Waiting(x), j) : x \in Nodes})
                         \cup (UNION {{<<"parked", b>>} \X Spots(b.jobs, j) : b \in parked})
BY Zenon DEF Places, Spots

\* What a node has not started: jobs of its batch that have not started.
LEMMA WaitingJobs ==
    ASSUME Pieces, Shape, Ordered, WaitingFresh, NEW x \in Nodes
    PROVE  /\ \A j : Has(Waiting(x), j) => Has(batch[x], j) /\ state[j] \in Unstarted
           /\ \A j : Has(batch[x], j) /\ state[j] \in Unstarted => Has(Waiting(x), j)
           /\ \A i, k \in DOMAIN Waiting(x) : Waiting(x)[i] = Waiting(x)[k] => i = k
<1>1. batch[x] \in Seq(Jobs) /\ stamp[x].seq \in Nat /\ Rising(batch[x])
  BY PieceTypes DEF Ordered, Sent
<1>2. \A i \in DOMAIN batch[x] :
        state[batch[x][i]] \in IF i = 1 /\ npc[x] = "run" THEN {"running"} ELSE Unstarted
  BY DEF WaitingFresh
<1>3. CASE npc[x] = "run"
  <2>1. batch[x] # <<>> /\ Waiting(x) = Tail(batch[x])
    BY <1>3 DEF Shape, Waiting
  <2> DEFINE t == Tail(batch[x])
  <2>2. /\ t \in Seq(Jobs) /\ Len(t) = Len(batch[x]) - 1 /\ Head(batch[x]) = batch[x][1]
        /\ \A i \in 1 .. Len(batch[x]) - 1 : t[i] = batch[x][i + 1]
        /\ 1 \in DOMAIN batch[x]
    BY <1>1, <2>1, TailPart, FirstJob
  <2>3. Rising(t)
    <3>1. Part(t, 0 + 1, batch[x], 0) /\ 0 + 1 \in Nat
      BY <1>1, <2>1, TailPart
    <3> QED BY <1>1, <2>2, <3>1, PartOf
  <2>4. /\ \A j : Has(batch[x], j) => j = Head(batch[x]) \/ Has(t, j)
        /\ \A j : Has(t, j) => Has(batch[x], j)
    BY <1>1, <2>1, TailHas
  <2>5. \A i \in DOMAIN t : i + 1 \in DOMAIN batch[x] /\ i + 1 # 1 /\ t[i] = batch[x][i + 1]
    BY <1>1, <2>2
  <2> HIDE DEF t
  <2>6. \A j : Has(t, j) => state[j] \in Unstarted
    BY <1>2, <2>5 DEF Has
  <2>7. state[Head(batch[x])] \notin Unstarted
    BY <1>2, <1>3, <2>2 DEF Unstarted
  <2>8. \A i, k \in DOMAIN t : t[i] = t[k] => i = k
    BY <2>2, <2>3, RisingOnce
  <2>9. Waiting(x) = t
    BY <2>1 DEF t
  <2> QED BY <2>4, <2>6, <2>7, <2>8, <2>9, Zenon
<1>4. CASE npc[x] # "run"
  <2>1. Waiting(x) = batch[x]
    BY <1>4 DEF Waiting
  <2>2. \A j : Has(batch[x], j) => state[j] \in Unstarted
    BY <1>2, <1>4 DEF Has
  <2>3. \A i, k \in DOMAIN batch[x] : batch[x][i] = batch[x][k] => i = k
    BY <1>1, RisingOnce
  <2> QED BY <2>1, <2>2, <2>3, Zenon
<1> QED BY <1>3, <1>4

\* Order makes places unique, and NoneLost says that there is one.
LEMMA OnePlace == IInv => JobsInOnePlace
<1> SUFFICES ASSUME IInv PROVE JobsInOnePlace
  OBVIOUS
<1>1. Pieces /\ Shape /\ Ordered /\ WaitingFresh /\ NoneLost /\ TypeOK
  BY TypeParts, Zenon DEF IInv
<1>2. ASSUME NEW j \in Jobs, state[j] \in {"new", "running", "done"} PROVE Places(j) = {}
  <2>1. state[j] \notin Unstarted
    BY <1>2 DEF Unstarted
  <2>2. ~Has(storage, j) /\ ~Has(buf, j) /\ \A b \in parked : ~Has(b.jobs, j)
    BY <1>1, <2>1 DEF WaitingFresh, Fresh, Has
  <2>3. \A x \in Nodes : ~Has(Waiting(x), j)
    BY <1>1, <2>1, WaitingJobs
  <2>4. /\ Spots(storage, j) = {} /\ Spots(buf, j) = {}
        /\ (\A b \in parked : Spots(b.jobs, j) = {}) /\ \A x \in Nodes : Spots(Waiting(x), j) = {}
    BY <2>2, <2>3, SpotsOf, Zenon
  <2> QED BY <2>4, PlacesOf
<1>3. ASSUME NEW j \in Jobs, state[j] = "queued" PROVE \E p : Places(j) = {p}
  <2>1. Found(j) /\ state[j] \in Unstarted
    BY <1>1, <1>3 DEF NoneLost, Unstarted
  <2>2. \A x \in Nodes : ~Has(batch[x], j) => ~Has(Waiting(x), j)
    BY <1>1, WaitingJobs
  <2>3. CASE Has(storage, j)
    <3>1. PICK i : Spots(storage, j) = {i}
      BY <1>1, <2>3, OneInQueue, SpotsOf, Zenon
    <3>2. /\ Spots(buf, j) = {} /\ (\A b \in parked : Spots(b.jobs, j) = {})
          /\ \A x \in Nodes : Spots(Waiting(x), j) = {}
      BY <1>1, <2>2, <2>3, OneInQueue, SpotsOf, Zenon
    <3>3. /\ UNION {{<<"node", x>>} \X Spots(Waiting(x), j) : x \in Nodes} = {}
          /\ UNION {{<<"parked", b>>} \X Spots(b.jobs, j) : b \in parked} = {}
      BY <3>2
    <3>4. {<<"storage">>} \X {i} = {<<<<"storage">>, i>>}
      OBVIOUS
    <3>5. Places(j) = {<<<<"storage">>, i>>}
      BY <3>1, <3>2, <3>3, <3>4, PlacesOf
    <3> QED BY <3>5
  <2>4. CASE Has(buf, j)
    <3>1. PICK i : Spots(buf, j) = {i}
      BY <1>1, <2>4, OneInQueue, SpotsOf, Zenon
    <3>2. /\ Spots(storage, j) = {} /\ (\A b \in parked : Spots(b.jobs, j) = {})
          /\ \A x \in Nodes : Spots(Waiting(x), j) = {}
      BY <1>1, <2>2, <2>4, OneInQueue, SpotsOf, Zenon
    <3>3. Places(j) = {<<<<"buf">>, i>>}
      BY <3>1, <3>2, PlacesOf
    <3> QED BY <3>3
  <2>5. ASSUME NEW x \in Nodes, Has(batch[x], j) PROVE \E p : Places(j) = {p}
    <3>1. PICK i : Spots(Waiting(x), j) = {i}
      BY <1>1, <2>1, <2>5, WaitingJobs, SpotsOf, Zenon
    <3>2. /\ Spots(storage, j) = {} /\ Spots(buf, j) = {} /\ (\A b \in parked : Spots(b.jobs, j) = {})
          /\ \A y \in Nodes : y # x => Spots(Waiting(y), j) = {}
      BY <1>1, <2>2, <2>5, OneInBatch, SpotsOf, Zenon
    <3>3. /\ UNION {{<<"node", y>>} \X Spots(Waiting(y), j) : y \in Nodes} = {<<<<"node", x>>, i>>}
          /\ UNION {{<<"parked", b>>} \X Spots(b.jobs, j) : b \in parked} = {}
      BY <3>1, <3>2
    <3>4. Places(j) = {<<<<"node", x>>, i>>}
      BY <3>2, <3>3, PlacesOf
    <3> QED BY <3>4
  <2>6. ASSUME NEW d \in parked, Has(d.jobs, j) PROVE \E p : Places(j) = {p}
    <3>1. PICK i : Spots(d.jobs, j) = {i}
      BY <1>1, <2>6, OneInParked, SpotsOf, Zenon
    <3>2. /\ Spots(storage, j) = {} /\ Spots(buf, j) = {}
          /\ (\A b \in parked : b # d => Spots(b.jobs, j) = {})
          /\ \A x \in Nodes : Spots(Waiting(x), j) = {}
      BY <1>1, <2>2, <2>6, OneInParked, SpotsOf, Zenon
    <3>3. /\ UNION {{<<"node", x>>} \X Spots(Waiting(x), j) : x \in Nodes} = {}
          /\ UNION {{<<"parked", b>>} \X Spots(b.jobs, j) : b \in parked} = {<<<<"parked", d>>, i>>}
      BY <3>1, <3>2
    <3>4. Places(j) = {<<<<"parked", d>>, i>>}
      BY <3>2, <3>3, PlacesOf
    <3> QED BY <3>4
  <2> QED BY <2>1, <2>3, <2>4, <2>5, <2>6, Zenon DEF Found
<1>4. \A p : Cardinality({p}) = 1
  BY FS_Singleton
<1> QED BY <1>1, <1>2, <1>3, <1>4 DEF JobsInOnePlace

\* Pieces that are apart are ordered by their jobs as by their numbers.
LEMMA InOrder == IInv => ParkedInOrder
<1> SUFFICES ASSUME IInv, NEW b \in parked, NEW c \in parked, b # c, b.stamp.seq <= c.stamp.seq
             PROVE  \A i \in Range(b.jobs), j \in Range(c.jobs) : i < j
  BY DEF ParkedInOrder
<1>1. Pieces /\ Ordered
  BY TypeParts, Zenon DEF IInv
<1>2. /\ b.jobs \in Seq(Jobs) /\ c.jobs \in Seq(Jobs) /\ c.jobs # <<>>
      /\ b.stamp.seq \in Nat /\ c.stamp.seq \in Nat
  BY <1>1, PieceTypes
<1>3. Len(c.jobs) \in Nat /\ Len(c.jobs) > 0
  BY <1>2, FirstJob
<1>4. Apart(b.jobs, b.stamp.seq, c.jobs, c.stamp.seq)
  BY <1>1 DEF Ordered
<1>5. Below(b.jobs, c.jobs)
  BY <1>2, <1>3, <1>4 DEF Apart
<1> QED BY <1>5 DEF Below, Range

\* Doomed and Reached are what PurgeExact says.
LEMMA Exact == IInv => PurgeExact
BY DEF IInv, TypeOK, Doomed, Reached, Unstarted, PurgeExact

\* With nobody about to remember it, a held batch is remembered.
LEMMA Remembered == IInv => HeldRemembered
<1> SUFFICES ASSUME IInv, paused, parked # {}, owed = 0, notify = "none", parkMx = None
             PROVE  parkHeld
  BY Zenon DEF HeldRemembered
<1>1. ~(owed > 0)
  OBVIOUS
<1> QED BY <1>1, Zenon DEF IInv, HeldKnown

(***************************************************************************)
(* The theorems                                                            *)
(***************************************************************************)
\* The invariant that all of the below rest on holds in every state of the worker and its queue.
THEOREM DispatchInvariant == Spec => []IInv
BY InitIInv, NextIInv, PTL DEF Spec

\* No job is lost and none is handed out twice: for every number of jobs, nodes,
\* purges and pauses a Queued job waits in exactly one place, be it the storage,
\* the loop's buffer, a node's batch or a parked batch (park and unpark move and
\* split the batches between them), and a job that has started waits nowhere.
THEOREM JobsAlwaysInOnePlace == Spec => []JobsInOnePlace
BY DispatchInvariant, OnePlace, PTL

\* unpark may go by the Seq of the batches: the parked batch with the lower number
\* always holds the older jobs, though batches are split and parked again.
THEOREM ParkedAlwaysInOrder == Spec => []ParkedInOrder
BY DispatchInvariant, InOrder, PTL

\* Purge is exact: what was stamped before its counter moved never starts, and
\* only jobs that were added before a Purge returned are closed as purged.
THEOREM PurgeAlwaysExact == Spec => []PurgeExact
BY DispatchInvariant, Exact, PTL

\* Once a queue's Pause has told the worker, its parked jobs are remembered as
\* held, though unheld clears the flag before it scans and anyone may scan.
THEOREM HeldAlwaysRemembered == Spec => []HeldRemembered
BY DispatchInvariant, Remembered, PTL
=============================================================================
