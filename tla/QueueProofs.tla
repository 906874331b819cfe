---------------------------- MODULE QueueProofs ----------------------------
(***************************************************************************)
(* The queue of the mpsc channel, for every set of senders, capacity and   *)
(* number of messages, as long as no position wraps: try_dequeue does not  *)
(* mask the sequence number it waits for, so that beyond the last position *)
(* neither the sequence numbers nor the messages keep their order (run     *)
(* pipe_wrap).                                                             *)
(***************************************************************************)
EXTENDS PipeProofs

\* The number of messages there are to send.
Last == Cardinality(Senders) * MaxMsgs

\* No position wraps, nor the sequence number of the lap after it.
NoWrap == IsFiniteSet(Senders) /\ Last + MAX_CAPACITY <= PosMod

Enq == enqueue_pos.pos
Deq == dequeue_pos.pos

\* The first position whose slot is in use: the receiver has moved the head
\* when it has yet to give the slot to the next lap.
First == IF at[Rx] = "store_lap" THEN Deq - 1 ELSE Deq

\* A sender has taken position p and has yet to store into its slot.
Storing(p) == \E s \in Senders : at[s] = "store_slot" /\ seen[s].pos = p

\* The messages that were given a position.
Taken ==
  {m \in Senders \X (1 .. MaxMsgs) :
     m[2] <= sent[m[1]] + (IF at[m[1]] = "store_slot" THEN 1 ELSE 0)}

\* The head never passes the tail, and the tail counts the messages.
PosInv ==
  /\ Deq <= Enq /\ Enq = Cardinality(Taken)
  /\ at[Rx] = "store_lap" => Deq > 0

\* The lap of slots from the first position in use: a committed slot has the
\* successor of its position, the others the position they wait for.
SlotInv ==
  \A p \in First .. First + MAX_CAPACITY - 1 :
    queue[Slot(p)].seq = IF p < Enq /\ ~Storing(p) THEN p + 1 ELSE p

\* A sender past the compare-exchange has a position of its own between head
\* and tail; one before it has a tail that may be old, but its slot is never
\* behind that.
SenderInv ==
  /\ \A s \in Senders : at[s] = "store_slot" => Deq <= seen[s].pos /\ seen[s].pos < Enq
  /\ \A s, t \in Senders :
       at[s] = "store_slot" /\ at[t] = "store_slot" /\ seen[s].pos = seen[t].pos => s = t
  /\ \A s \in Senders : at[s] \in {"load_slot", "cas_tail"} =>
       seen[s].pos <= Enq /\ seen[s].pos <= queue[Slot(seen[s].pos)].seq

\* Only the receiver moves the head, so what it loaded is never old.
RxInv ==
  /\ at[Rx] \in {"load_slot_rx", "cas_head"} => seen[Rx].pos = Deq
  /\ at[Rx] = "store_lap" => seen[Rx].pos = Deq - 1
  /\ at[Rx] \in {"cas_head", "store_lap"} =>
       /\ seen[Rx].seq = seen[Rx].pos + 1
       /\ queue[Slot(seen[Rx].pos)].seq = seen[Rx].seq
       /\ queue[Slot(seen[Rx].pos)].idx = seen[Rx].idx
  /\ at[Rx] = "read" => idx[Rx] = seen[Rx].idx

\* The positions with an index in their slot.
Stored == {p \in First .. Enq - 1 : ~Storing(p)}

\* Nobody shares an index.
OwnInv ==
  /\ \A p \in Procs : idx[p] \notin indices
  /\ \A p, q \in Procs : idx[p] = idx[q] /\ idx[p] # NoIndex => p = q
  /\ \A p \in Stored :
       /\ queue[Slot(p)].idx \notin indices
       /\ \A q \in Procs : idx[q] # queue[Slot(p)].idx
       /\ \A q \in Stored : queue[Slot(p)].idx = queue[Slot(q)].idx => p = q

\* No index is lost while the channel is open.
FullInv ==
  ~enqueue_pos.closed =>
    \A i \in Indices : \/ i \in indices
                       \/ \E p \in Procs : idx[p] = i
                       \/ \E p \in Stored : queue[Slot(p)].idx = i

\* The inductive invariant of the queue.
QInv ==
  AInv /\ PosInv /\ SlotInv /\ SenderInv /\ RxInv /\ OwnInv /\ FullInv /\ NoPanic

-----------------------------------------------------------------------------
\* Arithmetic.

LEMMA DivMod ==
  \A p \in Nat : /\ p = MAX_CAPACITY * (p \div MAX_CAPACITY) + Slot(p)
                 /\ p \div MAX_CAPACITY \in Nat
                 /\ Slot(p) \in 0 .. MAX_CAPACITY - 1
BY PipeAssumption DEF Slot

LEMMA LapGrows ==
  \A a, b \in Nat : a < b => MAX_CAPACITY * a + MAX_CAPACITY <= MAX_CAPACITY * b
BY PipeAssumption

LEMMA DivModUnique ==
  ASSUME NEW a \in Nat, NEW b \in Nat,
         NEW r \in 0 .. MAX_CAPACITY - 1, NEW t \in 0 .. MAX_CAPACITY - 1,
         MAX_CAPACITY * a + r = MAX_CAPACITY * b + t
  PROVE  r = t
<1>1. ~(a < b)
  <2>1. a < b => MAX_CAPACITY * a + MAX_CAPACITY <= MAX_CAPACITY * b
    BY LapGrows
  <2> QED
    BY PipeAssumption
<1>2. ~(b < a)
  <2>1. b < a => MAX_CAPACITY * b + MAX_CAPACITY <= MAX_CAPACITY * a
    BY LapGrows
  <2> QED
    BY PipeAssumption
<1> QED
  BY PipeAssumption

\* A slot serves the same position of every lap.
LEMMA SlotNextLap == \A p \in Nat : Slot(p + MAX_CAPACITY) = Slot(p)
<1> TAKE p \in Nat
<1>1. /\ p = MAX_CAPACITY * (p \div MAX_CAPACITY) + Slot(p)
      /\ p \div MAX_CAPACITY \in Nat /\ Slot(p) \in 0 .. MAX_CAPACITY - 1
  BY DivMod
<1> DEFINE q == p + MAX_CAPACITY
<1>2. /\ q = MAX_CAPACITY * (q \div MAX_CAPACITY) + Slot(q)
      /\ q \div MAX_CAPACITY \in Nat /\ Slot(q) \in 0 .. MAX_CAPACITY - 1
  <2>1. q \in Nat
    BY PipeAssumption
  <2> QED
    BY <2>1, DivMod
<1>3. q = MAX_CAPACITY * (p \div MAX_CAPACITY + 1) + Slot(p)
  BY <1>1, PipeAssumption
<1> QED
  BY <1>1, <1>2, <1>3, DivModUnique

\* The positions of a lap have different slots.
LEMMA SlotsDiffer ==
  ASSUME NEW p \in Nat, NEW q \in Nat, p # q,
         p < q + MAX_CAPACITY, q < p + MAX_CAPACITY
  PROVE  Slot(p) # Slot(q)
<1>1. ASSUME NEW u \in Nat, NEW v \in Nat, u < v, v < u + MAX_CAPACITY
      PROVE  Slot(u) # Slot(v)
  <2> SUFFICES ASSUME Slot(u) = Slot(v) PROVE FALSE
    OBVIOUS
  <2> DEFINE a == u \div MAX_CAPACITY
             b == v \div MAX_CAPACITY
  <2>1. /\ u = MAX_CAPACITY * a + Slot(u) /\ v = MAX_CAPACITY * b + Slot(v)
        /\ a \in Nat /\ b \in Nat /\ Slot(u) \in 0 .. MAX_CAPACITY - 1
    BY DivMod
  <2> HIDE DEF a, b
  <2>2. /\ MAX_CAPACITY * a < MAX_CAPACITY * b
        /\ MAX_CAPACITY * b < MAX_CAPACITY * a + MAX_CAPACITY
    BY <1>1, <2>1, PipeAssumption
  <2>3. a < b => MAX_CAPACITY * a + MAX_CAPACITY <= MAX_CAPACITY * b
    BY <2>1, LapGrows
  <2>4. b <= a => MAX_CAPACITY * b <= MAX_CAPACITY * a
    BY <2>1, PipeAssumption
  <2> QED
    BY <2>1, <2>2, PipeAssumption
<1> QED
  BY <1>1

\* A position that fits its bits is not changed by the addition.
LEMMA PosAddSmall ==
  ASSUME NEW p \in Nat, NEW n \in Nat, p + n < PosMod
  PROVE  PosAdd(p, n) = p + n
BY PipeAssumption DEF PosAdd

\* The types, unfolded.
LEMMA QTypes ==
  ASSUME AInv
  PROVE  /\ Enq \in Nat /\ Deq \in Nat /\ Enq < PosMod /\ Deq < PosMod
         /\ queue \in [Slots -> SlotValues]
         /\ \A k \in Slots : queue[k].seq \in Nat /\ queue[k].idx \in Indices
         /\ indices \subseteq Indices
         /\ idx \in [Procs -> Indices \cup {NoIndex}]
         /\ at \in [Procs -> Labels]
         /\ seen \in [Procs -> [pos : Positions, closed : BOOLEAN,
                                seq : Positions, idx : Indices]]
         /\ \A p \in Procs : seen[p].pos \in Nat /\ seen[p].idx \in Indices
         /\ sent \in [Senders -> 0 .. MaxMsgs]
<1>1. TypeOK
  BY DEF AInv
<1>2. Enq \in Nat /\ Deq \in Nat /\ Enq < PosMod /\ Deq < PosMod
  BY <1>1, PosTypes, PipeAssumption DEF Enq, Deq, Positions
<1>3. \A k \in Slots : queue[k].seq \in Nat /\ queue[k].idx \in Indices
  BY <1>1, SlotTypes
<1>4. \A p \in Procs : seen[p].pos \in Nat /\ seen[p].idx \in Indices
  BY <1>1, SeenTypes
<1> QED
  BY <1>1, <1>2, <1>3, <1>4 DEF TypeOK

\* The first position is a natural number, at most the head.
LEMMA FirstType ==
  ASSUME AInv, PosInv
  PROVE  First \in Nat /\ First <= Deq /\ Deq <= First + 1 /\ First <= Enq
BY QTypes DEF First, PosInv

-----------------------------------------------------------------------------
\* There is room for whoever owns an index: each position in use and each
\* sender on its way to one have an index of their own.

\* The sender that took position p.
StoringSender(p) == CHOOSE s \in Senders : at[s] = "store_slot" /\ seen[s].pos = p

\* The index of the message that was given position p.
IndexOf(p) == IF Storing(p) THEN idx[StoringSender(p)] ELSE queue[Slot(p)].idx

LEMMA StoringSenderIs ==
  ASSUME NEW p, Storing(p)
  PROVE  /\ StoringSender(p) \in Senders
         /\ at[StoringSender(p)] = "store_slot" /\ seen[StoringSender(p)].pos = p
BY DEF Storing, StoringSender

LEMMA IndexOfType ==
  ASSUME QInv, NEW p \in First .. Enq - 1
  PROVE  IndexOf(p) \in Indices
<1>1. CASE Storing(p)
  <2>1. StoringSender(p) \in Senders /\ at[StoringSender(p)] = "store_slot"
    BY <1>1, StoringSenderIs
  <2>2. idx[StoringSender(p)] # NoIndex
    BY <2>1 DEF QInv, AInv, HoldInv, Holding
  <2> QED
    BY <1>1, <2>1, <2>2, QTypes DEF QInv, IndexOf, Procs, Handles
<1>2. CASE ~Storing(p)
  <2>1. p \in Nat
    BY FirstType DEF QInv
  <2> QED
    BY <1>2, <2>1, QTypes, SlotType DEF QInv, IndexOf
<1> QED
  BY <1>1, <1>2

LEMMA IndexOfDiffers ==
  ASSUME QInv, NEW p \in First .. Enq - 1, NEW q \in First .. Enq - 1,
         IndexOf(p) = IndexOf(q)
  PROVE  p = q
<1>1. \A r \in First .. Enq - 1 : ~Storing(r) => r \in Stored
  BY DEF Stored
<1>2. \A r \in First .. Enq - 1 : Storing(r) =>
        LET s == StoringSender(r)
        IN  s \in Senders /\ s \in Procs /\ seen[s].pos = r /\ idx[s] # NoIndex
  BY StoringSenderIs DEF QInv, AInv, HoldInv, Holding, Procs, Handles
<1>3. CASE Storing(p) /\ Storing(q)
  BY <1>2, <1>3 DEF QInv, OwnInv, IndexOf
<1>4. CASE Storing(p) /\ ~Storing(q)
  BY <1>1, <1>2 DEF QInv, OwnInv, IndexOf
<1>5. CASE ~Storing(p) /\ Storing(q)
  BY <1>1, <1>2 DEF QInv, OwnInv, IndexOf
<1>6. CASE ~Storing(p) /\ ~Storing(q)
  BY <1>1, <1>6 DEF QInv, OwnInv, IndexOf
<1> QED
  BY <1>3, <1>4, <1>5, <1>6

LEMMA IndexIsFree ==
  ASSUME QInv, NEW p \in First .. Enq - 1, NEW s \in Senders,
         at[s] \in Holding \ {"store_slot"}
  PROVE  IndexOf(p) # idx[s] /\ idx[s] \in Indices
<1>1. s \in Procs /\ idx[s] # NoIndex
  BY DEF QInv, AInv, HoldInv, Procs, Handles
<1>2. CASE Storing(p)
  <2>1. StoringSender(p) \in Senders /\ at[StoringSender(p)] = "store_slot"
    BY <1>2, StoringSenderIs
  <2> QED
    BY <1>1, <1>2, <2>1, QTypes DEF QInv, OwnInv, IndexOf, Procs, Handles
<1>3. CASE ~Storing(p)
  BY <1>1, <1>3, QTypes DEF QInv, OwnInv, Stored, IndexOf
<1> QED
  BY <1>2, <1>3

LEMMA Room ==
  ASSUME QInv
  PROVE  /\ Enq <= First + capacity
         /\ \A s \in Senders : at[s] \in Holding \ {"store_slot"} => Enq < First + capacity
<1>1. First \in Nat /\ Enq \in Nat /\ capacity \in Nat /\ First <= Enq
  BY FirstType, QTypes, PipeAssumption DEF QInv
<1>2. IsFiniteSet(Indices) /\ Cardinality(Indices) = capacity
  BY FS_Interval, PipeAssumption DEF Indices
<1>3. Enq <= First + capacity
  <2> DEFINE P == First .. Enq - 1
             f == [p \in P |-> IndexOf(p)]
  <2>1. f \in Injection(P, Indices)
    BY IndexOfType, IndexOfDiffers DEF Injection, IsInjective
  <2>2. Cardinality(P) <= Cardinality(Indices)
    BY <1>2, <2>1, FS_Injection
  <2>3. Cardinality(P) = IF First > Enq - 1 THEN 0 ELSE (Enq - 1) - First + 1
    BY <1>1, FS_Interval
  <2> QED
    BY <1>1, <1>2, <2>2, <2>3
<1>4. ASSUME NEW s \in Senders, at[s] \in Holding \ {"store_slot"}
      PROVE  Enq < First + capacity
  <2> DEFINE P == First .. Enq
             f == [p \in P |-> IF p = Enq THEN idx[s] ELSE IndexOf(p)]
  <2>1. idx[s] \in Indices
    BY <1>4, QTypes DEF QInv, AInv, HoldInv, Procs, Handles
  <2>2. \A p \in P : p # Enq => p \in First .. Enq - 1
    BY <1>1
  <2>3. f \in Injection(P, Indices)
    BY <1>4, <2>1, <2>2, IndexOfType, IndexOfDiffers, IndexIsFree
       DEF Injection, IsInjective
  <2>4. Cardinality(P) <= Cardinality(Indices)
    BY <1>2, <2>3, FS_Injection
  <2>5. Cardinality(P) = IF First > Enq THEN 0 ELSE Enq - First + 1
    BY <1>1, FS_Interval
  <2> QED
    BY <1>1, <1>2, <2>4, <2>5
<1> QED
  BY <1>3, <1>4

\* The tail is at most the number of messages: as long as there is one to send,
\* no position wraps.
LEMMA TakenType ==
  ASSUME NoWrap, NEW T, T \subseteq Senders \X (1 .. MaxMsgs)
  PROVE  IsFiniteSet(T) /\ Cardinality(T) \in Nat /\ Cardinality(T) + MAX_CAPACITY <= PosMod
<1>1. IsFiniteSet(1 .. MaxMsgs) /\ Cardinality(1 .. MaxMsgs) = MaxMsgs
  BY FS_Interval, PipeAssumption
<1>2. /\ IsFiniteSet(Senders \X (1 .. MaxMsgs))
      /\ Cardinality(Senders \X (1 .. MaxMsgs)) = Last
  BY <1>1, FS_Product DEF NoWrap, Last
<1>3. IsFiniteSet(T) /\ Cardinality(T) <= Last
  BY <1>2, FS_Subset
<1>4. Cardinality(T) \in Nat /\ Last \in Nat
  BY <1>2, <1>3, FS_CardinalityType
<1> QED
  BY <1>3, <1>4, PipeAssumption DEF NoWrap

LEMMA EnqBound ==
  ASSUME NoWrap, PosInv
  PROVE  Enq \in Nat /\ Enq + MAX_CAPACITY <= PosMod
<1>1. Taken \subseteq Senders \X (1 .. MaxMsgs)
  BY DEF Taken
<1> QED
  BY <1>1, TakenType DEF PosInv

-----------------------------------------------------------------------------
\* The steps that leave the queue alone.

\* No handle enters or leaves a place the invariant speaks of.
QueueLabelsKept ==
  /\ \A s \in Senders :
       /\ at'[s] = "store_slot" <=> at[s] = "store_slot"
       /\ at'[s] \in {"load_slot", "cas_tail"} => at[s] \in {"load_slot", "cas_tail"}
  /\ at'[Rx] = "store_lap" <=> at[Rx] = "store_lap"
  /\ at'[Rx] \in {"load_slot_rx", "cas_head", "read"} => at'[Rx] = at[Rx]
  /\ \A p \in Procs : at'[p] = "panic" => at[p] = "panic"

\* The sender that WaitQueue wakes is one that waits.
LEMMA FirstWaiter ==
  ASSUME QInv, prod_wait.waiters # <<>>
  PROVE  /\ Head(prod_wait.waiters) \in Senders
         /\ at[Head(prod_wait.waiters)] = "waiting"
<1> DEFINE w == prod_wait.waiters
<1>1. w \in Seq(Senders) /\ \A j \in 1 .. Len(w) : w[j] \in Senders
  BY WaiterTypes DEF QInv, AInv
<1>2. 1 \in 1 .. Len(w) /\ Head(w) = w[1]
  OBVIOUS
<1> QED
  BY <1>1 DEF QInv, AInv, WaiterInv

LEMMA QueueFrame ==
  ASSUME QInv, QueueLabelsKept, Enq' = Enq, Deq' = Deq,
         UNCHANGED <<queue, seen, sent>>, at'[Rx] = "read" => idx'[Rx] = idx[Rx]
  PROVE  /\ First' = First /\ Stored' = Stored
         /\ \A p : Storing(p)' <=> Storing(p)
         /\ PosInv' /\ SlotInv' /\ SenderInv' /\ RxInv' /\ NoPanic'
<1>1. First' = First
  BY DEF First, QueueLabelsKept
<1>2. \A p : Storing(p)' <=> Storing(p)
  BY DEF Storing, QueueLabelsKept
<1>3. Stored' = Stored
  BY <1>1, <1>2 DEF Stored
<1>4. PosInv'
  <2>1. Taken' = Taken
    BY DEF Taken, QueueLabelsKept
  <2> QED
    BY <2>1 DEF QInv, PosInv, QueueLabelsKept
<1>5. SlotInv'
  BY <1>1, <1>2 DEF QInv, SlotInv
<1>6. SenderInv'
  BY DEF QInv, SenderInv, QueueLabelsKept
<1>7. RxInv'
  BY DEF QInv, RxInv, QueueLabelsKept
<1>8. NoPanic'
  BY DEF QInv, NoPanic, QueueLabelsKept
<1> QED
  BY <1>1, <1>2, <1>3, <1>4, <1>5, <1>6, <1>7, <1>8

LEMMA Frame ==
  ASSUME QInv, AInv', QueueLabelsKept, Enq' = Enq, Deq' = Deq,
         UNCHANGED <<queue, seen, sent, idx, indices>>,
         enqueue_pos.closed => enqueue_pos'.closed
  PROVE  QInv'
<1>1. Stored' = Stored /\ PosInv' /\ SlotInv' /\ SenderInv' /\ RxInv' /\ NoPanic'
  BY QueueFrame
<1>2. OwnInv' /\ FullInv'
  BY <1>1 DEF QInv, OwnInv, FullInv
<1> QED
  BY <1>1, <1>2 DEF QInv

LEMMA FrameTypes ==
  ASSUME QInv
  PROVE  /\ at \in [Procs -> Labels]
         /\ enqueue_pos \in [pos : Positions, closed : BOOLEAN]
         /\ dequeue_pos \in [pos : Positions, closed : BOOLEAN]
BY DEF QInv, AInv, TypeOK

LEMMA NewSenderQueue ==
  ASSUME NEW h \in Handles, NEW s \in Senders, QInv, AInv', NewSender(h, s)
  PROVE  QInv'
<1>1. QueueLabelsKept
  BY DEF QueueLabelsKept, NewSender, Goto
<1>2. /\ Enq' = Enq /\ Deq' = Deq
      /\ UNCHANGED <<queue, seen, sent, idx, indices>>
      /\ enqueue_pos.closed => enqueue_pos'.closed
  BY DEF NewSender, Enq, Deq, queueVars, elemVars, countVars
<1> QED
  BY <1>1, <1>2, Frame

LEMMA DropTxQueue ==
  ASSUME NEW h \in Handles, QInv, AInv', DropTx(h)
  PROVE  QInv'
<1>1. QueueLabelsKept
  BY DEF QueueLabelsKept, DropTx, Free, Goto
<1>2. /\ Enq' = Enq /\ Deq' = Deq
      /\ UNCHANGED <<queue, seen, sent, idx, indices>>
      /\ enqueue_pos.closed => enqueue_pos'.closed
  BY DEF DropTx, Enq, Deq, queueVars, elemVars, countVars
<1> QED
  BY <1>1, <1>2, Frame

LEMMA DropRxQueue ==
  ASSUME QInv, AInv', DropRx
  PROVE  QInv'
<1>1. QueueLabelsKept
  BY DEF QueueLabelsKept, DropRx, Goto
<1>2. /\ Enq' = Enq /\ Deq' = Deq
      /\ UNCHANGED <<queue, seen, sent, idx, indices>>
      /\ enqueue_pos.closed => enqueue_pos'.closed
  BY DEF DropRx, Enq, Deq, queueVars, elemVars, countVars
<1> QED
  BY <1>1, <1>2, Frame

LEMMA SetErroringQueue ==
  ASSUME NEW p \in Procs, QInv, AInv', SetErroring(p)
  PROVE  QInv'
<1>1. QueueLabelsKept
  BY DEF QueueLabelsKept, SetErroring, Free, Goto
<1>2. /\ Enq' = Enq /\ Deq' = Deq
      /\ UNCHANGED <<queue, seen, sent, idx, indices>>
      /\ enqueue_pos.closed => enqueue_pos'.closed
  BY DEF SetErroring, Enq, Deq, queueVars, elemVars, countVars
<1> QED
  BY <1>1, <1>2, Frame

LEMMA WriteErrorQueue ==
  ASSUME NEW p \in Procs, QInv, AInv', WriteError(p)
  PROVE  QInv'
<1>1. QueueLabelsKept
  BY DEF QueueLabelsKept, WriteError, Goto
<1>2. /\ Enq' = Enq /\ Deq' = Deq
      /\ UNCHANGED <<queue, seen, sent, idx, indices>>
      /\ enqueue_pos.closed => enqueue_pos'.closed
  BY DEF WriteError, Enq, Deq, queueVars, elemVars, countVars
<1> QED
  BY <1>1, <1>2, Frame

LEMMA SetErroredQueue ==
  ASSUME NEW p \in Procs, QInv, AInv', SetErrored(p)
  PROVE  QInv'
<1>1. QueueLabelsKept
  BY DEF QueueLabelsKept, SetErrored, Goto
<1>2. /\ Enq' = Enq /\ Deq' = Deq
      /\ UNCHANGED <<queue, seen, sent, idx, indices>>
      /\ enqueue_pos.closed => enqueue_pos'.closed
  BY DEF SetErrored, Enq, Deq, queueVars, elemVars, countVars
<1> QED
  BY <1>1, <1>2, Frame

LEMMA CloseEnqueueQueue ==
  ASSUME NEW p \in Procs, QInv, AInv', CloseEnqueue(p)
  PROVE  QInv'
<1>1. QueueLabelsKept
  BY DEF QueueLabelsKept, CloseEnqueue, Goto, Then
<1>2. /\ Enq' = Enq /\ Deq' = Deq
      /\ UNCHANGED <<queue, seen, sent, idx, indices>>
      /\ enqueue_pos.closed => enqueue_pos'.closed
  BY DEF CloseEnqueue, Enq, Deq, elemVars, countVars
<1> QED
  BY <1>1, <1>2, Frame

LEMMA CloseProdQueue ==
  ASSUME NEW p \in Procs, QInv, AInv', CloseProd(p)
  PROVE  QInv'
<1>1. QueueLabelsKept
  BY DEF QueueLabelsKept, CloseProd, Then, Procs, Handles
<1>2. /\ Enq' = Enq /\ Deq' = Deq
      /\ UNCHANGED <<queue, seen, sent, idx, indices>>
      /\ enqueue_pos.closed => enqueue_pos'.closed
  BY DEF CloseProd, Enq, Deq, queueVars, elemVars, countVars
<1> QED
  BY <1>1, <1>2, Frame

LEMMA CloseDequeueQueue ==
  ASSUME NEW p \in Procs, QInv, AInv', CloseDequeue(p)
  PROVE  QInv'
<1>1. QueueLabelsKept
  BY DEF QueueLabelsKept, CloseDequeue, Goto, Then
<1>2. /\ Enq' = Enq /\ Deq' = Deq
      /\ UNCHANGED <<queue, seen, sent, idx, indices>>
      /\ enqueue_pos.closed => enqueue_pos'.closed
  BY DEF CloseDequeue, Enq, Deq, elemVars, countVars
<1> QED
  BY <1>1, <1>2, Frame

LEMMA CloseConsQueue ==
  ASSUME NEW p \in Procs, QInv, AInv', CloseCons(p)
  PROVE  QInv'
<1>1. QueueLabelsKept
  BY FrameTypes DEF QueueLabelsKept, CloseCons, Woken, Then, Procs, Handles
<1>2. /\ Enq' = Enq /\ Deq' = Deq
      /\ UNCHANGED <<queue, seen, sent, idx, indices>>
      /\ enqueue_pos.closed => enqueue_pos'.closed
  BY DEF CloseCons, Enq, Deq, queueVars, elemVars, countVars
<1> QED
  BY <1>1, <1>2, Frame

LEMMA CloseReasonQueue ==
  ASSUME NEW p \in Senders \cup {Rx}, QInv, AInv', CloseReason(p)
  PROVE  QInv'
<1>1. QueueLabelsKept
  BY DEF QueueLabelsKept, CloseReason, Goto
<1>2. /\ Enq' = Enq /\ Deq' = Deq
      /\ UNCHANGED <<queue, seen, sent, idx, indices>>
      /\ enqueue_pos.closed => enqueue_pos'.closed
  BY DEF CloseReason, Enq, Deq, queueVars, elemVars, countVars
<1> QED
  BY <1>1, <1>2, Frame

LEMMA TryReserveQueue ==
  ASSUME NEW s \in Senders, QInv, AInv', TryReserve(s)
  PROVE  QInv'
<1>1. QueueLabelsKept
  BY DEF QueueLabelsKept, TryReserve, Goto
<1>2. /\ Enq' = Enq /\ Deq' = Deq
      /\ UNCHANGED <<queue, seen, sent, idx, indices>>
      /\ enqueue_pos.closed => enqueue_pos'.closed
  BY DEF TryReserve, Enq, Deq, queueVars, elemVars, countVars
<1> QED
  BY <1>1, <1>2, Frame

LEMMA FullQueue ==
  ASSUME NEW s \in Senders, QInv, AInv', Full(s)
  PROVE  QInv'
<1>1. QueueLabelsKept
  BY FrameTypes DEF QueueLabelsKept, Full, Goto, Procs, Handles
<1>2. /\ Enq' = Enq /\ Deq' = Deq
      /\ UNCHANGED <<queue, seen, sent, idx, indices>>
      /\ enqueue_pos.closed => enqueue_pos'.closed
  BY DEF Full, Enq, Deq, queueVars, elemVars, countVars
<1> QED
  BY <1>1, <1>2, Frame

LEMMA WaitQueue ==
  ASSUME NEW s \in Senders, QInv, AInv', Wait(s)
  PROVE  QInv'
<1>1. QueueLabelsKept
  BY FrameTypes DEF QueueLabelsKept, Wait, Goto, Procs, Handles
<1>2. /\ Enq' = Enq /\ Deq' = Deq
      /\ UNCHANGED <<queue, seen, sent, idx, indices>>
      /\ enqueue_pos.closed => enqueue_pos'.closed
  BY DEF Wait, Enq, Deq, queueVars, elemVars, countVars
<1> QED
  BY <1>1, <1>2, Frame

LEMMA WriteCellQueue ==
  ASSUME NEW s \in Senders, QInv, AInv', WriteCell(s)
  PROVE  QInv'
<1>1. QueueLabelsKept
  BY DEF QueueLabelsKept, WriteCell, Goto
<1>2. /\ Enq' = Enq /\ Deq' = Deq
      /\ UNCHANGED <<queue, seen, sent, idx, indices>>
      /\ enqueue_pos.closed => enqueue_pos'.closed
  BY DEF WriteCell, Enq, Deq, queueVars, countVars
<1> QED
  BY <1>1, <1>2, Frame

LEMMA DropPermitQueue ==
  ASSUME NEW s \in Senders, QInv, AInv', DropPermit(s)
  PROVE  QInv'
<1>1. QueueLabelsKept
  BY DEF QueueLabelsKept, DropPermit, Goto
<1>2. /\ Enq' = Enq /\ Deq' = Deq
      /\ UNCHANGED <<queue, seen, sent, idx, indices>>
      /\ enqueue_pos.closed => enqueue_pos'.closed
  BY DEF DropPermit, Enq, Deq, queueVars, elemVars, countVars
<1> QED
  BY <1>1, <1>2, Frame

LEMMA UncommitWakeQueue ==
  ASSUME NEW p \in Senders \cup {Rx}, QInv, AInv', UncommitWake(p)
  PROVE  QInv'
<1>1. QueueLabelsKept
  BY FrameTypes, FirstWaiter
     DEF QueueLabelsKept, UncommitWake, WakeProd, Goto, Procs, Handles
<1>2. /\ Enq' = Enq /\ Deq' = Deq
      /\ UNCHANGED <<queue, seen, sent, idx, indices>>
      /\ enqueue_pos.closed => enqueue_pos'.closed
  BY DEF UncommitWake, Enq, Deq, queueVars, elemVars, countVars
<1> QED
  BY <1>1, <1>2, Frame

LEMMA WakeConsQueue ==
  ASSUME NEW s \in Senders, QInv, AInv', WakeCons(s)
  PROVE  QInv'
<1>1. QueueLabelsKept
  BY FrameTypes DEF QueueLabelsKept, WakeCons, Woken, Procs, Handles
<1>2. /\ Enq' = Enq /\ Deq' = Deq
      /\ UNCHANGED <<queue, seen, sent, idx, indices>>
      /\ enqueue_pos.closed => enqueue_pos'.closed
  BY DEF WakeCons, Enq, Deq, queueVars, elemVars, countVars
<1> QED
  BY <1>1, <1>2, Frame

LEMMA ReadCellQueue ==
  ASSUME QInv, AInv', ReadCell
  PROVE  QInv'
<1>1. QueueLabelsKept
  BY DEF QueueLabelsKept, ReadCell, Goto
<1>2. /\ Enq' = Enq /\ Deq' = Deq
      /\ UNCHANGED <<queue, seen, sent, idx, indices>>
      /\ enqueue_pos.closed => enqueue_pos'.closed
  BY DEF ReadCell, Enq, Deq, queueVars
<1> QED
  BY <1>1, <1>2, Frame

LEMMA PollWaitQueue ==
  ASSUME QInv, AInv', PollWait
  PROVE  QInv'
<1>1. QueueLabelsKept
  BY DEF QueueLabelsKept, PollWait, Goto
<1>2. /\ Enq' = Enq /\ Deq' = Deq
      /\ UNCHANGED <<queue, seen, sent, idx, indices>>
      /\ enqueue_pos.closed => enqueue_pos'.closed
  BY DEF PollWait, Enq, Deq, queueVars, elemVars, countVars
<1> QED
  BY <1>1, <1>2, Frame

-----------------------------------------------------------------------------
\* The steps of the queue.

LEMMA AllocateQueue ==
  ASSUME NEW s \in Senders, QInv, AInv', Allocate(s)
  PROVE  QInv'
<1>1. PICK i \in indices : indices' = indices \ {i} /\ idx' = [idx EXCEPT ![s] = i]
  BY DEF Allocate
<1>2. at' = [at EXCEPT ![s] = "permit"] /\ at[s] = "allocate" /\ s \in Procs /\ s # Rx
  BY PipeAssumption DEF Allocate, Goto, Procs, Handles
<1>3. /\ Stored' = Stored /\ UNCHANGED queue
      /\ PosInv' /\ SlotInv' /\ SenderInv' /\ RxInv' /\ NoPanic'
  <2>1. QueueLabelsKept
    BY <1>2 DEF QueueLabelsKept
  <2> QED
    BY <1>2, <2>1, QueueFrame DEF Allocate, Enq, Deq, queueVars, countVars
<1>4. OwnInv'
  BY <1>1, <1>3 DEF QInv, OwnInv
<1>5. FullInv'
  <2>1. ~enqueue_pos.closed' => ~enqueue_pos.closed
    BY DEF Allocate, queueVars
  <2>2. idx[s] = NoIndex /\ NoIndex \notin Indices
    BY <1>2, ZeroTypes DEF QInv, AInv, HoldInv, Holding
  <2> QED
    BY <1>1, <1>2, <1>3, <2>1, <2>2, QTypes DEF QInv, FullInv
<1> QED
  BY <1>5, <1>3, <1>4 DEF QInv

LEMMA UncommitQueue ==
  ASSUME NEW p \in Senders \cup {Rx}, QInv, AInv', Uncommit(p)
  PROVE  QInv'
<1>1. /\ at[p] = "uncommit" /\ at' = [at EXCEPT ![p] = "wake_prod"]
      /\ indices' = indices \cup {idx[p]} /\ idx' = [idx EXCEPT ![p] = NoIndex]
      /\ p \in Procs
  BY DEF Uncommit, Goto, Procs, Handles
<1>2. idx[p] # NoIndex /\ NoIndex \notin Indices
  BY <1>1, ZeroTypes DEF QInv, AInv, HoldInv, Holding
<1>3. /\ Stored' = Stored /\ UNCHANGED queue
      /\ PosInv' /\ SlotInv' /\ SenderInv' /\ RxInv' /\ NoPanic'
  <2>1. QueueLabelsKept
    BY <1>1 DEF QueueLabelsKept
  <2>2. at'[Rx] = "read" => idx'[Rx] = idx[Rx]
    BY <1>1
  <2> QED
    BY <2>1, <2>2, QueueFrame DEF Uncommit, Enq, Deq, queueVars, countVars
<1>4. OwnInv'
  <2>1. \A q \in Procs : idx'[q] = IF q = p THEN NoIndex ELSE idx[q]
    BY <1>1, QTypes DEF QInv
  <2>2. \A q \in Stored : queue[Slot(q)].idx \in Indices
    BY QTypes, SlotType, FirstType DEF QInv, Stored
  <2>3. \A q \in Procs : idx'[q] \notin indices'
    BY <1>1, <1>2, QTypes DEF QInv, OwnInv
  <2>4. \A q \in Stored : /\ queue[Slot(q)].idx \notin indices'
                          /\ \A r \in Procs : idx'[r] # queue[Slot(q)].idx
    BY <1>1, <1>2, <2>2 DEF QInv, OwnInv
  <2>5. \A q, r \in Procs : idx'[q] = idx'[r] /\ idx'[q] # NoIndex => q = r
    BY <2>1 DEF QInv, OwnInv
  <2>6. \A q, r \in Stored : queue[Slot(q)].idx = queue[Slot(r)].idx => q = r
    BY DEF QInv, OwnInv
  <2> QED
    BY <1>3, <2>3, <2>4, <2>5, <2>6 DEF OwnInv
<1>5. FullInv'
  <2>1. ~enqueue_pos.closed' => ~enqueue_pos.closed
    BY DEF Uncommit, queueVars
  <2> QED
    BY <1>1, <1>3, <2>1 DEF QInv, FullInv
<1> QED
  BY <1>5, <1>3, <1>4 DEF QInv

LEMMA GotTailQueue ==
  ASSUME NEW s \in Senders, QInv, AInv', at[s] \in {"load_tail", "cas_tail"},
         GotTail(s), UNCHANGED <<queueVars, elemVars, countVars>>
  PROVE  QInv'
<1>1. /\ \E l \in {"reason", "load_slot"} : at' = [at EXCEPT ![s] = l]
      /\ s \in Procs /\ s # Rx
  BY PipeAssumption DEF GotTail, Goto, Procs, Handles
<1>2. /\ Enq' = Enq /\ Deq' = Deq
      /\ UNCHANGED <<queue, sent, indices>>
  BY DEF Enq, Deq, queueVars, elemVars, countVars
<1>3. /\ seen'[s].pos = Enq /\ \A p \in Procs \ {s} : seen'[p] = seen[p]
      /\ idx' \in {idx, [idx EXCEPT ![s] = NoIndex]}
  BY <1>1, QTypes DEF QInv, GotTail, Enq
<1>4. First' = First
  BY <1>1, <1>2 DEF First
<1>5. \A p : Storing(p)' <=> Storing(p)
  BY <1>1, <1>3 DEF Storing, Procs, Handles
<1>6. PosInv'
  <2>1. Taken' = Taken
    BY <1>1, <1>2 DEF Taken
  <2> QED
    BY <1>1, <1>2, <2>1 DEF QInv, PosInv
<1>7. SlotInv'
  BY <1>2, <1>4, <1>5 DEF QInv, SlotInv
<1>8. Enq <= queue[Slot(Enq)].seq
  <2>1. Enq \in First .. First + MAX_CAPACITY - 1
    BY Room, FirstType, QTypes, PipeAssumption DEF QInv, Holding
  <2> QED
    BY <2>1 DEF QInv, SlotInv
<1>9. SenderInv'
  BY <1>1, <1>2, <1>3, <1>8, QTypes DEF QInv, SenderInv, Procs, Handles
<1>10. RxInv'
  BY <1>1, <1>2, <1>3, QTypes DEF QInv, RxInv, Procs
<1>11. OwnInv'
  <2>1. Stored' = Stored
    BY <1>2, <1>4, <1>5 DEF Stored
  <2>2. NoIndex \notin Indices
    BY ZeroTypes
  <2>3. \A p \in Stored : queue[Slot(p)].idx \in Indices
    BY QTypes, SlotType, FirstType DEF QInv, Stored
  <2>4. \A q \in Procs : idx'[q] \in {idx[q], NoIndex}
    BY <1>3, QTypes DEF QInv
  <2>5. NoIndex \notin indices
    BY <2>2, QTypes DEF QInv
  <2> QED
    BY <1>2, <2>1, <2>2, <2>3, <2>4, <2>5 DEF QInv, OwnInv
<1>12. NoPanic'
  BY <1>1 DEF QInv, NoPanic
<1>13. FullInv'
  <2>1. Stored' = Stored
    BY <1>2, <1>4, <1>5 DEF Stored
  <2>2. ~enqueue_pos.closed' => ~enqueue_pos.closed /\ idx' = idx
    BY DEF GotTail, queueVars
  <2> QED
    BY <1>2, <2>1, <2>2 DEF QInv, FullInv
<1> QED
  BY <1>13, <1>6, <1>7, <1>9, <1>10, <1>11, <1>12 DEF QInv

LEMMA LoadSlotQueue ==
  ASSUME NEW s \in Senders, QInv, AInv', LoadSlot(s)
  PROVE  QInv'
<1>1. /\ at[s] = "load_slot" /\ s \in Procs /\ s # Rx
      /\ Enq' = Enq /\ Deq' = Deq
      /\ UNCHANGED <<queue, seen, sent, idx, indices>>
      /\ enqueue_pos.closed => enqueue_pos'.closed
  BY PipeAssumption
     DEF LoadSlot, Procs, Handles, Enq, Deq, queueVars, elemVars, countVars
<1>2. /\ queue[Slot(seen[s].pos)].seq \in Nat /\ seen[s].pos \in Nat
      /\ ~(queue[Slot(seen[s].pos)].seq < seen[s].pos)
  BY <1>1, QTypes, SlotType DEF QInv, SenderInv
<1>3. \E l \in {"cas_tail", "load_tail"} : at' = [at EXCEPT ![s] = l]
  <2> DEFINE seq == queue[Slot(seen[s].pos)].seq
             lbl == CASE seq < seen[s].pos -> "panic"
                      [] seq = seen[s].pos -> "cas_tail"
                      [] seq > seen[s].pos -> "load_tail"
  <2>1. lbl \in {"cas_tail", "load_tail"}
    BY <1>2
  <2>2. at' = [at EXCEPT ![s] = lbl]
    BY DEF LoadSlot, Goto
  <2> QED
    BY <2>1, <2>2
<1>4. QueueLabelsKept
  BY <1>1, <1>3 DEF QueueLabelsKept
<1> QED
  BY <1>1, <1>4, Frame

\* The tail moves on by one: there is a message left, so it does not wrap.
LEMMA TailMoves ==
  ASSUME NoWrap, NEW s \in Senders, QInv, CasTail(s)
  PROVE  Enq' = Enq + 1 /\ Cardinality(Taken') = Enq + 1
<1>1. /\ at[s] = "cas_tail" /\ at' = [at EXCEPT ![s] = "store_slot"]
      /\ s \in Procs /\ s # Rx /\ seen[s].pos = Enq
      /\ Deq' = Deq /\ UNCHANGED <<queue, sent, seen, indices, idx>>
  BY PipeAssumption
     DEF CasTail, SeenEnqueue, Goto, Procs, Handles, Enq, Deq, elemVars,
         countVars
<1>2. sent[s] \in 0 .. MaxMsgs /\ sent[s] < MaxMsgs
  BY <1>1, QTypes DEF QInv, AInv, HoldInv, Holding
<1>3. Taken' = Taken \cup {<<s, sent[s] + 1>>} /\ <<s, sent[s] + 1>> \notin Taken
  <2>1. \A t \in Senders, k \in 1 .. MaxMsgs :
          <<t, k>> \in Taken <=> k <= sent[t] + (IF at[t] = "store_slot" THEN 1 ELSE 0)
    BY DEF Taken
  <2>2. \A t \in Senders, k \in 1 .. MaxMsgs :
          <<t, k>> \in Taken' <=> k <= sent[t] + (IF at'[t] = "store_slot" THEN 1 ELSE 0)
    BY <1>1 DEF Taken
  <2>3. \A t \in Senders : at'[t] = IF t = s THEN "store_slot" ELSE at[t]
    BY <1>1, QTypes DEF QInv
  <2>4. \A t \in Senders, k \in 1 .. MaxMsgs :
          <<t, k>> \in Taken' <=> <<t, k>> \in Taken \/ (t = s /\ k = sent[s] + 1)
    <3> TAKE t \in Senders, k \in 1 .. MaxMsgs
    <3>1. sent[t] \in Nat /\ k \in Nat
      BY QTypes DEF QInv
    <3>2. CASE t = s
      BY <2>1, <2>2, <2>3, <3>1
    <3>3. CASE t # s
      BY <2>1, <2>2, <2>3, <3>3
    <3> QED
      BY <3>2, <3>3
  <2>5. /\ Taken \subseteq Senders \X (1 .. MaxMsgs)
        /\ Taken' \subseteq Senders \X (1 .. MaxMsgs)
    BY DEF Taken
  <2>6. sent[s] + 1 \in 1 .. MaxMsgs /\ <<s, sent[s] + 1>> \notin Taken
    BY <1>1, <1>2, <2>1, PipeAssumption
  <2> QED
    BY <2>4, <2>5, <2>6
<1>4. Cardinality(Taken') = Enq + 1 /\ Enq + 1 + MAX_CAPACITY <= PosMod
  <2>1. /\ Taken \subseteq Senders \X (1 .. MaxMsgs)
        /\ Taken' \subseteq Senders \X (1 .. MaxMsgs)
    BY DEF Taken
  <2>2. IsFiniteSet(Taken) /\ Cardinality(Taken') + MAX_CAPACITY <= PosMod
    BY <2>1, TakenType
  <2>3. Cardinality(Taken') = Cardinality(Taken) + 1
    BY <1>3, <2>2, FS_AddElement
  <2> QED
    BY <2>2, <2>3 DEF QInv, PosInv
<1>5. Enq' = Enq + 1
  <2>1. enqueue_pos' = [enqueue_pos EXCEPT !.pos = PosAdd(@, 1)]
    BY DEF CasTail
  <2>2. PosAdd(Enq, 1) = Enq + 1
    BY <1>4, QTypes, PosAddSmall, PipeAssumption DEF QInv
  <2>3. enqueue_pos \in [pos : Positions, closed : BOOLEAN]
    BY DEF QInv, AInv, TypeOK
  <2> QED
    BY <2>1, <2>2 DEF Enq
<1> QED
  BY <1>4, <1>5

LEMMA CasTailQueue ==
  ASSUME NoWrap, NEW s \in Senders, QInv, AInv', CasTail(s)
  PROVE  QInv'
<1>1. /\ at[s] = "cas_tail" /\ at' = [at EXCEPT ![s] = "store_slot"]
      /\ s \in Procs /\ s # Rx /\ seen[s].pos = Enq
      /\ Deq' = Deq /\ UNCHANGED <<queue, sent, seen, indices, idx>>
  BY PipeAssumption
     DEF CasTail, SeenEnqueue, Goto, Procs, Handles, Enq, Deq, elemVars,
         countVars
<1>2. Enq' = Enq + 1 /\ Cardinality(Taken') = Enq + 1
  BY TailMoves
<1>3. First' = First
  BY <1>1 DEF First
<1>4. \A p : Storing(p)' <=> Storing(p) \/ p = Enq
  BY <1>1, QTypes DEF QInv, Storing
<1>5. PosInv'
  BY <1>1, <1>2, QTypes DEF QInv, PosInv
<1>6. SlotInv'
  BY <1>1, <1>2, <1>3, <1>4, FirstType, QTypes DEF QInv, SlotInv
<1>7. SenderInv'
  BY <1>1, <1>2, QTypes DEF QInv, PosInv, SenderInv, Procs, Handles
<1>8. RxInv'
  BY <1>1 DEF QInv, RxInv
<1>9. OwnInv'
  <2>1. Stored' = Stored
    BY <1>2, <1>3, <1>4, FirstType, QTypes DEF QInv, Stored
  <2> QED
    BY <1>1, <2>1 DEF QInv, OwnInv
<1>10. NoPanic'
  BY <1>1 DEF QInv, NoPanic
<1>11. FullInv'
  <2>1. Stored' = Stored
    BY <1>2, <1>3, <1>4, FirstType, QTypes DEF QInv, Stored
  <2>2. enqueue_pos'.closed = enqueue_pos.closed
    BY DEF CasTail
  <2> QED
    BY <1>1, <2>1, <2>2 DEF QInv, FullInv
<1> QED
  BY <1>11, <1>5, <1>6, <1>7, <1>8, <1>9, <1>10 DEF QInv

LEMMA StoreSlotQueue ==
  ASSUME NoWrap, NEW s \in Senders, QInv, AInv', StoreSlot(s)
  PROVE  QInv'
<1> DEFINE p0 == seen[s].pos
<1>1. /\ at[s] = "store_slot" /\ at' = [at EXCEPT ![s] = "wake_cons"]
      /\ s \in Procs /\ s # Rx /\ idx' = [idx EXCEPT ![s] = NoIndex]
      /\ Enq' = Enq /\ Deq' = Deq /\ UNCHANGED <<seen, indices>>
  BY PipeAssumption DEF StoreSlot, Goto, Procs, Handles, Enq, Deq, elemVars
<1>2. /\ p0 \in Nat /\ Deq <= p0 /\ p0 < Enq /\ Storing(p0) /\ Slot(p0) \in Slots
      /\ p0 \in First .. First + MAX_CAPACITY - 1
  <2>1. p0 \in Nat /\ Deq <= p0 /\ p0 < Enq /\ Storing(p0)
    BY <1>1, QTypes DEF QInv, SenderInv, Storing
  <2> QED
    BY <2>1, SlotType, Room, FirstType, QTypes, PipeAssumption DEF QInv
<1>3. /\ idx[s] \in Indices /\ NoIndex \notin Indices
  BY <1>1, QTypes, ZeroTypes DEF QInv, AInv, HoldInv, Holding
<1>4. /\ queue'[Slot(p0)].seq = p0 + 1 /\ queue'[Slot(p0)].idx = idx[s]
      /\ \A k \in Slots : k # Slot(p0) => queue'[k] = queue[k]
  <2>1. PosAdd(p0, 1) = p0 + 1
    BY <1>2, QTypes, PosAddSmall, PipeAssumption DEF QInv
  <2>2. queue' = [queue EXCEPT ![Slot(p0)] = [seq |-> p0 + 1, idx |-> idx[s]]]
    BY <2>1 DEF StoreSlot
  <2> HIDE DEF p0
  <2> QED
    BY <1>2, <2>2, QTypes DEF QInv
<1> HIDE DEF p0
<1>5. First' = First
  BY <1>1 DEF First
<1>6. \A p : Storing(p)' <=> Storing(p) /\ p # p0
  BY <1>1, QTypes DEF QInv, SenderInv, Storing, p0
<1>7. \A p \in First .. First + MAX_CAPACITY - 1 :
        p # p0 => Slot(p) \in Slots /\ queue'[Slot(p)] = queue[Slot(p)]
  BY <1>2, <1>4, SlotsDiffer, SlotType, FirstType, PipeAssumption DEF QInv
<1>8. PosInv'
  <2>1. \A t \in Senders :
          sent'[t] + (IF at'[t] = "store_slot" THEN 1 ELSE 0)
            = sent[t] + (IF at[t] = "store_slot" THEN 1 ELSE 0)
    BY <1>1, QTypes DEF QInv, StoreSlot
  <2>2. Taken' = Taken
    BY <2>1 DEF Taken
  <2> QED
    BY <1>1, <2>2 DEF QInv, PosInv
<1>9. SlotInv'
  BY <1>1, <1>2, <1>4, <1>5, <1>6, <1>7 DEF QInv, SlotInv
<1>10. SenderInv'
  <2>1. queue[Slot(p0)].seq = p0
    BY <1>2 DEF QInv, SlotInv
  <2>2. \A k \in Slots : queue[k].seq <= queue'[k].seq
    BY <1>4, <2>1, QTypes DEF QInv
  <2>3. \A t \in Senders : /\ at'[t] # "wake_cons" => at'[t] = at[t]
                           /\ seen[t].pos \in Nat /\ Slot(seen[t].pos) \in Slots
    BY <1>1, QTypes, SlotType DEF QInv, Procs, Handles
  <2>4. \A t \in Senders : at'[t] \in {"load_slot", "cas_tail"} =>
          seen[t].pos <= Enq /\ seen[t].pos <= queue'[Slot(seen[t].pos)].seq
    <3> TAKE t \in Senders
    <3> HAVE at'[t] \in {"load_slot", "cas_tail"}
    <3> DEFINE k == Slot(seen[t].pos)
    <3>1. at[t] \in {"load_slot", "cas_tail"}
      BY <2>3
    <3>2. /\ seen[t].pos <= Enq /\ seen[t].pos <= queue[k].seq /\ k \in Slots
          /\ seen[t].pos \in Nat /\ queue[k].seq <= queue'[k].seq
      BY <2>2, <2>3 DEF QInv, SenderInv
    <3>3. queue[k].seq \in Nat /\ queue'[k].seq \in Nat
      BY <1>2, <1>4, <3>2, QTypes DEF QInv
    <3> QED
      BY <3>2, <3>3
  <2> QED
    BY <1>1, <2>4 DEF QInv, SenderInv
<1>11. RxInv'
  <2>1. at'[Rx] = at[Rx] /\ idx'[Rx] = idx[Rx]
    BY <1>1
  <2>2. at[Rx] \in {"cas_head", "store_lap"} =>
          seen[Rx].pos \in First .. First + MAX_CAPACITY - 1 /\ seen[Rx].pos # p0
    BY <1>2, FirstType, PipeAssumption DEF QInv, RxInv, SlotInv, First
  <2> QED
    BY <1>1, <1>7, <2>2 DEF QInv, RxInv
<1>12. Stored' = Stored \cup {p0} /\ p0 \notin Stored
  BY <1>1, <1>2, <1>5, <1>6, QTypes DEF QInv, Stored
<1>13. \A q \in Stored : /\ queue'[Slot(q)].idx = queue[Slot(q)].idx
                        /\ queue[Slot(q)].idx \in Indices
  <2>1. \A q \in Stored : q \in First .. First + MAX_CAPACITY - 1 /\ q # p0
    BY <1>12, Room, FirstType, QTypes, PipeAssumption DEF QInv, Stored
  <2> QED
    BY <1>7, <2>1, QTypes DEF QInv
<1>14. OwnInv'
  <2>1. \A q \in Procs : idx'[q] = IF q = s THEN NoIndex ELSE idx[q]
    BY <1>1, QTypes DEF QInv
  <2>2. \A q \in Procs : idx'[q] \notin indices'
    BY <1>1, <1>3, QTypes DEF QInv, OwnInv
  <2>3. \A q, r \in Procs : idx'[q] = idx'[r] /\ idx'[q] # NoIndex => q = r
    BY <2>1 DEF QInv, OwnInv
  <2>4. \A q \in Stored' : /\ queue'[Slot(q)].idx \notin indices'
                           /\ \A r \in Procs : idx'[r] # queue'[Slot(q)].idx
    BY <1>1, <1>3, <1>4, <1>12, <1>13, <2>1 DEF QInv, OwnInv
  <2>5. \A q, r \in Stored' :
          queue'[Slot(q)].idx = queue'[Slot(r)].idx => q = r
    BY <1>1, <1>4, <1>12, <1>13 DEF QInv, OwnInv
  <2> QED
    BY <2>2, <2>3, <2>4, <2>5 DEF OwnInv
<1>15. NoPanic'
  BY <1>1 DEF QInv, NoPanic
<1>16. FullInv'
  <2>1. ~enqueue_pos.closed' => ~enqueue_pos.closed
    BY DEF StoreSlot
  <2>2. \A q \in Procs : idx'[q] = IF q = s THEN NoIndex ELSE idx[q]
    BY <1>1, QTypes DEF QInv
  <2> QED
    BY <1>1, <1>4, <1>12, <1>13, <2>1 DEF QInv, FullInv
<1> QED
  BY <1>16, <1>8, <1>9, <1>10, <1>11, <1>14, <1>15 DEF QInv

LEMMA GotHeadQueue ==
  ASSUME QInv, AInv', at[Rx] \in {"idle", "cas_head"}, GotHead,
         UNCHANGED <<queueVars, elemVars, idx, countVars>>
  PROVE  QInv'
<1>1. /\ at' = [at EXCEPT ![Rx] = "load_slot_rx"] /\ Rx \notin Senders
      /\ Enq' = Enq /\ Deq' = Deq /\ UNCHANGED <<queue, sent, indices, idx>>
  BY PipeAssumption DEF GotHead, Goto, Enq, Deq, queueVars, elemVars, countVars
<1>2. seen'[Rx].pos = Deq /\ \A s \in Senders : seen'[s] = seen[s] /\ at'[s] = at[s]
  BY <1>1, QTypes DEF QInv, GotHead, Deq, Procs
<1>3. First' = First /\ \A p : Storing(p)' <=> Storing(p)
  BY <1>1, <1>2 DEF First, Storing
<1>4. PosInv'
  <2>1. Taken' = Taken
    BY <1>1 DEF Taken
  <2> QED
    BY <1>1, <2>1 DEF QInv, PosInv
<1>5. SlotInv' /\ SenderInv'
  BY <1>1, <1>2, <1>3 DEF QInv, SlotInv, SenderInv
<1>6. RxInv'
  BY <1>1, <1>2, QTypes DEF QInv, RxInv, Procs
<1>7. OwnInv'
  <2>1. Stored' = Stored
    BY <1>1, <1>3 DEF Stored
  <2> QED
    BY <1>1, <2>1 DEF QInv, OwnInv
<1>8. NoPanic'
  BY <1>1 DEF QInv, NoPanic
<1>9. FullInv'
  <2>1. Stored' = Stored
    BY <1>1, <1>3 DEF Stored
  <2>2. enqueue_pos'.closed = enqueue_pos.closed
    BY DEF queueVars
  <2> QED
    BY <1>1, <2>1, <2>2 DEF QInv, FullInv
<1> QED
  BY <1>9, <1>4, <1>5, <1>6, <1>7, <1>8 DEF QInv

LEMMA LoadSlotRxQueue ==
  ASSUME QInv, AInv', LoadSlotRx
  PROVE  QInv'
<1> DEFINE slot == queue[Slot(seen[Rx].pos)]
<1>1. /\ at[Rx] = "load_slot_rx" /\ Rx \notin Senders /\ Rx \in Procs
      /\ Enq' = Enq /\ Deq' = Deq /\ UNCHANGED <<queue, sent, indices, idx>>
  BY PipeAssumption
     DEF LoadSlotRx, Procs, Enq, Deq, queueVars, elemVars, countVars
<1>2. /\ seen'[Rx].pos = seen[Rx].pos /\ seen'[Rx].seq = slot.seq
      /\ seen'[Rx].idx = slot.idx /\ \A s \in Senders : seen'[s] = seen[s]
  BY <1>1, QTypes DEF QInv, LoadSlotRx, Procs, Handles
<1>3. PICK l \in {"reason", "poll_wait", "cas_head", "idle"} :
        /\ at' = [at EXCEPT ![Rx] = l]
        /\ l = "cas_head" => slot.seq = seen[Rx].pos + 1
  <2> DEFINE ready == ReadySeq(seen[Rx].pos)
             lbl == CASE slot.seq < ready /\ seen[Rx].closed -> "reason"
                      [] slot.seq < ready /\ ~seen[Rx].closed -> "poll_wait"
                      [] slot.seq = ready -> "cas_head"
                      [] slot.seq > ready -> "idle"
  <2>1. slot.seq \in Nat /\ ready \in Nat /\ ready = seen[Rx].pos + 1
    BY <1>1, QTypes, SlotType DEF QInv, ReadySeq
  <2>2. lbl \in {"reason", "poll_wait", "cas_head", "idle"}
    BY <2>1
  <2>3. lbl = "cas_head" => slot.seq = ready
    BY <2>1
  <2>4. at' = [at EXCEPT ![Rx] = lbl]
    BY DEF LoadSlotRx, Goto
  <2> HIDE DEF lbl
  <2> QED
    BY <2>1, <2>2, <2>3, <2>4
<1>4. /\ First' = First /\ \A p : Storing(p)' <=> Storing(p)
      /\ \A s \in Senders : at'[s] = at[s]
  BY <1>1, <1>2, <1>3 DEF First, Storing
<1>5. PosInv'
  <2>1. Taken' = Taken
    BY <1>1, <1>4 DEF Taken
  <2> QED
    BY <1>1, <1>3, <2>1 DEF QInv, PosInv
<1>6. SlotInv' /\ SenderInv'
  BY <1>1, <1>2, <1>4 DEF QInv, SlotInv, SenderInv
<1>7. RxInv'
  BY <1>1, <1>2, <1>3 DEF QInv, RxInv
<1>8. OwnInv'
  <2>1. Stored' = Stored
    BY <1>1, <1>4 DEF Stored
  <2> QED
    BY <1>1, <2>1 DEF QInv, OwnInv
<1>9. NoPanic'
  BY <1>3 DEF QInv, NoPanic
<1>10. FullInv'
  <2>1. Stored' = Stored
    BY <1>1, <1>4 DEF Stored
  <2>2. enqueue_pos'.closed = enqueue_pos.closed
    BY DEF LoadSlotRx, queueVars
  <2> QED
    BY <1>1, <2>1, <2>2 DEF QInv, FullInv
<1> QED
  BY <1>10, <1>5, <1>6, <1>7, <1>8, <1>9 DEF QInv

\* A slot that has the successor of the head has a committed index.
LEMMA HeadIsStored ==
  ASSUME QInv, First = Deq, queue[Slot(Deq)].seq = Deq + 1
  PROVE  Deq < Enq /\ ~Storing(Deq) /\ Deq \in Stored
<1>1. Deq \in First .. First + MAX_CAPACITY - 1
  BY QTypes, PipeAssumption DEF QInv
<1>2. Deq < Enq /\ ~Storing(Deq)
  BY <1>1 DEF QInv, SlotInv
<1> QED
  BY <1>2, QTypes DEF QInv, Stored

LEMMA CasHeadQueue ==
  ASSUME NoWrap, QInv, AInv', CasHead
  PROVE  QInv'
<1>1. /\ at[Rx] = "cas_head" /\ at' = [at EXCEPT ![Rx] = "store_lap"]
      /\ Rx \notin Senders /\ Rx \in Procs /\ Enq' = Enq
      /\ UNCHANGED <<queue, seen, sent, indices, idx>>
  BY PipeAssumption DEF CasHead, Goto, Procs, Enq, elemVars, countVars
<1>2. Deq < Enq /\ ~Storing(Deq)
  BY <1>1, HeadIsStored DEF QInv, RxInv, First
<1>3. Deq' = Deq + 1
  <2>1. PosAdd(Deq, 1) = Deq + 1
    BY <1>2, QTypes, PosAddSmall, PipeAssumption DEF QInv
  <2>2. dequeue_pos \in [pos : Positions, closed : BOOLEAN]
    BY DEF QInv, AInv, TypeOK
  <2> QED
    BY <2>1 DEF CasHead, Deq
<1>4. /\ First' = First /\ \A p : Storing(p)' <=> Storing(p)
      /\ \A s \in Senders : at'[s] = at[s]
  <2>1. First' = First
    BY <1>1, <1>3, QTypes DEF QInv, First
  <2>2. \A s \in Senders : at'[s] = at[s]
    BY <1>1
  <2> QED
    BY <1>1, <2>1 DEF Storing
<1>5. PosInv'
  <2>1. Taken' = Taken
    BY <1>1 DEF Taken
  <2> QED
    BY <1>1, <1>2, <1>3, <2>1, QTypes DEF QInv, PosInv
<1>6. SlotInv'
  BY <1>1, <1>4 DEF QInv, SlotInv
<1>7. SenderInv'
  <2>1. \A s \in Senders : at[s] = "store_slot" => Deq + 1 <= seen[s].pos
    <3> TAKE s \in Senders
    <3> HAVE at[s] = "store_slot"
    <3>1. seen[s].pos # Deq /\ Deq <= seen[s].pos
      BY <1>2 DEF QInv, SenderInv, Storing
    <3>2. seen[s].pos \in Nat /\ Deq \in Nat
      BY QTypes DEF QInv, Procs, Handles
    <3> QED
      BY <3>1, <3>2
  <2> QED
    BY <1>1, <1>3, <2>1 DEF QInv, SenderInv
<1>8. RxInv'
  BY <1>1, <1>3, QTypes DEF QInv, RxInv
<1>9. OwnInv'
  <2>1. Stored' = Stored
    BY <1>1, <1>4 DEF Stored
  <2> QED
    BY <1>1, <2>1 DEF QInv, OwnInv
<1>10. NoPanic'
  BY <1>1 DEF QInv, NoPanic
<1>11. FullInv'
  <2>1. Stored' = Stored
    BY <1>1, <1>4 DEF Stored
  <2>2. enqueue_pos'.closed = enqueue_pos.closed
    BY DEF CasHead
  <2> QED
    BY <1>1, <2>1, <2>2 DEF QInv, FullInv
<1> QED
  BY <1>11, <1>5, <1>6, <1>7, <1>8, <1>9, <1>10 DEF QInv

\* A slot is given to the next lap, with its index taken out.
LEMMA NextLap ==
  ASSUME NoWrap, QInv, Enq' = Enq, Deq' \in Nat, UNCHANGED seen,
         First < Enq, ~Storing(First), First' = First + 1,
         \A p : Storing(p)' <=> Storing(p),
         \A s \in Senders : at'[s] = at[s],
         queue' = [queue EXCEPT ![Slot(First)].seq = PosAdd(First + 1, LAP_ONE)]
  PROVE  /\ SlotInv'
         /\ Deq' <= First + 1 => SenderInv'
         /\ Stored' = Stored \ {First} /\ First \in Stored
         /\ \A p \in Stored' : /\ queue'[Slot(p)].idx = queue[Slot(p)].idx
                               /\ queue[Slot(p)].idx \in Indices
<1>1. First \in Nat /\ First + MAX_CAPACITY <= PosMod - 1 /\ Slot(First) \in Slots
  BY FirstType, EnqBound, SlotType, PipeAssumption DEF QInv
<1>2. PosAdd(First + 1, LAP_ONE) = First + MAX_CAPACITY
  <2>1. LAP_ONE \in Nat /\ First + 1 \in Nat /\ (First + 1) + LAP_ONE = First + MAX_CAPACITY
    BY <1>1, PipeAssumption DEF LAP_ONE
  <2>2. (First + 1) + LAP_ONE < PosMod
    BY <1>1, <2>1, PipeAssumption
  <2> QED
    BY <2>1, <2>2, PosAddSmall
<1>3. /\ queue'[Slot(First)].seq = First + MAX_CAPACITY
      /\ \A k \in Slots : /\ queue'[k].idx = queue[k].idx
                          /\ k # Slot(First) => queue'[k].seq = queue[k].seq
  BY <1>1, <1>2, QTypes DEF QInv
<1>4. \A p \in First + 1 .. First + MAX_CAPACITY - 1 :
        Slot(p) \in Slots /\ Slot(p) # Slot(First)
  <2> TAKE p \in First + 1 .. First + MAX_CAPACITY - 1
  <2>1. p \in Nat /\ p # First /\ p < First + MAX_CAPACITY /\ First < p + MAX_CAPACITY
    BY <1>1, PipeAssumption
  <2> QED
    BY <1>1, <2>1, SlotsDiffer, SlotType
<1>5. Slot(First + MAX_CAPACITY) = Slot(First)
  BY <1>1, SlotNextLap
<1>6. SlotInv'
  <2> SUFFICES ASSUME NEW p \in First + 1 .. First + MAX_CAPACITY
               PROVE  queue'[Slot(p)].seq = IF p < Enq /\ ~Storing(p) THEN p + 1 ELSE p
    BY <1>1, PipeAssumption DEF SlotInv
  <2>1. CASE p = First + MAX_CAPACITY
    BY <1>1, <1>3, <1>5, <2>1, Room, QTypes, PipeAssumption DEF QInv
  <2>2. CASE p # First + MAX_CAPACITY
    BY <1>1, <1>4, <2>2, PipeAssumption DEF QInv, SlotInv
  <2> QED
    BY <2>1, <2>2
<1>7. ASSUME Deq' <= First + 1 PROVE SenderInv'
  <2>1. queue[Slot(First)].seq = First + 1
    BY <1>1, PipeAssumption DEF QInv, SlotInv
  <2>2. \A k \in Slots : /\ queue[k].seq <= queue'[k].seq
                         /\ queue[k].seq \in Nat /\ queue'[k].seq \in Nat
    BY <1>1, <1>3, <2>1, QTypes, PipeAssumption DEF QInv
  <2>3. \A t \in Senders : seen[t].pos \in Nat /\ Slot(seen[t].pos) \in Slots
    BY QTypes, SlotType DEF QInv, Procs, Handles
  <2>4. \A t \in Senders : at'[t] \in {"load_slot", "cas_tail"} =>
          seen[t].pos <= Enq /\ seen[t].pos <= queue'[Slot(seen[t].pos)].seq
    <3> TAKE t \in Senders
    <3> HAVE at'[t] \in {"load_slot", "cas_tail"}
    <3> DEFINE k == Slot(seen[t].pos)
    <3>1. seen[t].pos <= Enq /\ seen[t].pos <= queue[k].seq
      BY DEF QInv, SenderInv
    <3> QED
      BY <2>2, <2>3, <3>1
  <2>5. \A t \in Senders : at'[t] = "store_slot" => Deq' <= seen[t].pos /\ seen[t].pos < Enq
    <3> TAKE t \in Senders
    <3> HAVE at'[t] = "store_slot"
    <3>1. seen[t].pos # First /\ Deq <= seen[t].pos /\ seen[t].pos < Enq
      BY DEF QInv, SenderInv, Storing
    <3>2. First <= Deq /\ Deq \in Nat /\ Enq \in Nat
      BY FirstType, QTypes DEF QInv
    <3> QED
      BY <1>1, <1>7, <2>3, <3>1, <3>2
  <2> QED
    BY <2>4, <2>5 DEF QInv, SenderInv
<1>8. Stored' = Stored \ {First} /\ First \in Stored
  <2>1. First \in Nat /\ Enq \in Nat /\ First < Enq
    BY <1>1, QTypes DEF QInv
  <2>2. /\ First \in First .. Enq - 1
        /\ \A p : p \in First + 1 .. Enq - 1 <=> (p \in First .. Enq - 1 /\ p # First)
    BY <2>1
  <2> QED
    BY <2>2 DEF Stored
<1>9. \A p \in Stored' : /\ queue'[Slot(p)].idx = queue[Slot(p)].idx
                         /\ queue[Slot(p)].idx \in Indices
  <2>1. \A p \in Stored' : p \in Nat
    BY <1>1 DEF Stored
  <2> QED
    BY <2>1, QTypes, SlotType DEF QInv
<1> QED
  BY <1>6, <1>7, <1>8, <1>9

LEMMA StoreLapQueue ==
  ASSUME NoWrap, QInv, AInv', StoreLap
  PROVE  QInv'
<1>1. /\ at[Rx] = "store_lap" /\ at' = [at EXCEPT ![Rx] = "read"]
      /\ Rx \notin Senders /\ Rx \in Procs /\ Enq' = Enq /\ Deq' = Deq
      /\ idx' = [idx EXCEPT ![Rx] = seen[Rx].idx]
      /\ UNCHANGED <<seen, sent, indices>>
  BY PipeAssumption DEF StoreLap, Goto, Procs, Enq, Deq, elemVars, countVars
<1>2. /\ First = Deq - 1 /\ First' = First + 1 /\ First < Enq /\ ~Storing(First)
      /\ seen[Rx].pos = First /\ seen[Rx].seq = First + 1
      /\ seen[Rx].idx = queue[Slot(First)].idx
  BY <1>1, QTypes DEF QInv, First, PosInv, RxInv, SenderInv, Storing
<1>3. /\ \A s \in Senders : at'[s] = at[s]
      /\ \A p : Storing(p)' <=> Storing(p)
  BY <1>1 DEF Storing
<1>4. /\ SlotInv' /\ SenderInv' /\ Stored' = Stored \ {First} /\ First \in Stored
      /\ \A p \in Stored' : /\ queue'[Slot(p)].idx = queue[Slot(p)].idx
                            /\ queue[Slot(p)].idx \in Indices
  <2>1. queue' = [queue EXCEPT ![Slot(First)].seq = PosAdd(First + 1, LAP_ONE)]
    BY <1>2 DEF StoreLap
  <2>2. Deq' <= First + 1 /\ Deq' \in Nat
    BY <1>1, <1>2, QTypes DEF QInv
  <2> QED
    BY <1>1, <1>2, <1>3, <2>1, <2>2, NextLap
<1>5. PosInv'
  <2>1. Taken' = Taken
    BY <1>1 DEF Taken
  <2> QED
    BY <1>1, <2>1 DEF QInv, PosInv
<1>6. RxInv'
  BY <1>1, QTypes DEF QInv, RxInv
<1>7. OwnInv'
  <2>1. \A q \in Procs : idx'[q] = IF q = Rx THEN queue[Slot(First)].idx ELSE idx[q]
    BY <1>1, <1>2, QTypes DEF QInv
  <2>2. \A q \in Procs : idx'[q] \notin indices'
    BY <1>1, <1>4, <2>1 DEF QInv, OwnInv
  <2>3. \A q, r \in Procs : idx'[q] = idx'[r] /\ idx'[q] # NoIndex => q = r
    BY <1>4, <2>1 DEF QInv, OwnInv
  <2>4. \A q \in Stored' : /\ queue'[Slot(q)].idx \notin indices'
                           /\ \A r \in Procs : idx'[r] # queue'[Slot(q)].idx
    BY <1>1, <1>4, <2>1 DEF QInv, OwnInv
  <2>5. \A q, r \in Stored' :
          queue'[Slot(q)].idx = queue'[Slot(r)].idx => q = r
    BY <1>4 DEF QInv, OwnInv
  <2> QED
    BY <2>2, <2>3, <2>4, <2>5 DEF OwnInv
<1>8. NoPanic'
  BY <1>1 DEF QInv, NoPanic
<1>9. FullInv'
  <2>1. ~enqueue_pos.closed' => ~enqueue_pos.closed
    BY DEF StoreLap
  <2>2. idx[Rx] = NoIndex /\ NoIndex \notin Indices
    BY <1>1, ZeroTypes DEF QInv, AInv, HoldInv
  <2>3. \A q \in Procs : idx'[q] = IF q = Rx THEN queue[Slot(First)].idx ELSE idx[q]
    BY <1>1, <1>2, QTypes DEF QInv
  <2> QED
    BY <1>1, <1>4, <2>1, <2>2, <2>3 DEF QInv, FullInv
<1> QED
  BY <1>9, <1>4, <1>5, <1>6, <1>7, <1>8 DEF QInv

LEMMA ReclaimQueue ==
  ASSUME NoWrap, QInv, AInv', Reclaim
  PROVE  QInv'
<1>1. /\ Enq' = Enq /\ UNCHANGED <<at, seen, sent, idx>>
      /\ at[Rx] \in {"absent", "dropped"} /\ First = Deq
      /\ \A s \in Senders : at[s] \in {"absent", "dropped"}
      /\ queue[Slot(Deq)].seq = Deq + 1
  BY DEF Reclaim, AllGone, HeadReady, ReadySeq, Enq, Deq, First, countVars,
         Procs, Handles
<1>2. Deq < Enq /\ ~Storing(Deq)
  BY <1>1, HeadIsStored
<1>3. Deq' = Deq + 1 /\ First' = First + 1
  <2>1. PosAdd(Deq, 1) = Deq + 1
    BY <1>2, QTypes, PosAddSmall, PipeAssumption DEF QInv
  <2>2. dequeue_pos \in [pos : Positions, closed : BOOLEAN]
    BY DEF QInv, AInv, TypeOK
  <2>3. Deq' = Deq + 1
    BY <2>1 DEF Reclaim, Deq
  <2> QED
    BY <1>1, <2>3 DEF First
<1>4. \A p : Storing(p)' <=> Storing(p)
  BY <1>1 DEF Storing
<1>5. /\ SlotInv' /\ SenderInv' /\ Stored' = Stored \ {Deq} /\ Deq \in Stored
      /\ \A p \in Stored' : /\ queue'[Slot(p)].idx = queue[Slot(p)].idx
                            /\ queue[Slot(p)].idx \in Indices
  <2>1. queue' = [queue EXCEPT ![Slot(First)].seq = PosAdd(First + 1, LAP_ONE)]
    BY <1>1 DEF Reclaim, Deq
  <2>2. Deq' <= First + 1 /\ Deq' \in Nat
    BY <1>1, <1>3, QTypes DEF QInv
  <2> QED
    BY <1>1, <1>2, <1>3, <1>4, <2>1, <2>2, NextLap
<1>6. PosInv'
  <2>1. Taken' = Taken
    BY <1>1 DEF Taken
  <2> QED
    BY <1>1, <1>2, <1>3, <2>1, QTypes DEF QInv, PosInv
<1>7. RxInv'
  BY <1>1 DEF RxInv
<1>8. OwnInv'
  <2>1. indices' = indices \cup {queue[Slot(Deq)].idx}
    BY DEF Reclaim, Deq
  <2> QED
    BY <1>1, <1>5, <2>1 DEF QInv, OwnInv
<1>9. NoPanic'
  BY <1>1 DEF QInv, NoPanic
<1>10. FullInv'
  <2>1. indices' = indices \cup {queue[Slot(Deq)].idx} /\ enqueue_pos' = enqueue_pos
    BY DEF Reclaim, Deq
  <2> QED
    BY <1>1, <1>5, <2>1 DEF QInv, FullInv
<1> QED
  BY <1>10, <1>5, <1>6, <1>7, <1>8, <1>9 DEF QInv

-----------------------------------------------------------------------------
LEMMA InitQueue == ASSUME Init, NoWrap PROVE QInv
<1>1. AInv
  BY InitKeeps
<1>2. /\ Enq = 0 /\ Deq = 0 /\ First = 0 /\ \A p : ~Storing(p)
      /\ Stored = {}
  <2>1. Enq = 0 /\ Deq = 0 /\ First = 0
    BY DEF Init, Enq, Deq, First, Procs
  <2>2. \A p : ~Storing(p)
    BY DEF Init, Storing, Procs, Handles
  <2> QED
    BY <2>1, <2>2 DEF Stored
<1>3. PosInv
  <2>1. Taken = {}
    BY DEF Init, Taken, Procs, Handles
  <2>2. Cardinality(Taken) = 0
    BY <2>1, FS_EmptySet
  <2> QED
    BY <1>2, <2>2 DEF Init, PosInv, Procs
<1>4. SlotInv
  <2>1. \A p \in 0 .. MAX_CAPACITY - 1 : Slot(p) = p
    BY PipeAssumption DEF Slot
  <2> QED
    BY <1>2, <2>1, PipeAssumption DEF Init, SlotInv, Slots
<1>5. SenderInv /\ RxInv /\ NoPanic
  BY DEF Init, SenderInv, RxInv, NoPanic, Procs, Handles
<1>6. OwnInv
  BY <1>2, ZeroTypes DEF Init, OwnInv
<1>7. FullInv
  BY DEF Init, FullInv
<1> QED
  BY <1>1, <1>3, <1>4, <1>5, <1>6, <1>7 DEF QInv

LEMMA NextQueue == ASSUME NoWrap, QInv, [Next]_vars PROVE QInv'
<1> USE DEF QInv
<1>1. AInv'
  BY NextKeeps
<1>2. CASE UNCHANGED vars
  <2>1. /\ Enq' = Enq /\ Deq' = Deq
        /\ UNCHANGED <<at, queue, seen, sent, idx, indices, enqueue_pos>>
    BY <1>2 DEF vars, queueVars, elemVars, countVars, Enq, Deq
  <2> QED
    BY <1>1, <2>1, Frame DEF QueueLabelsKept
<1>3. ASSUME NEW p \in Procs, SetErroring(p) \/ CloseStep(p) PROVE QInv'
  BY <1>1, <1>3, SetErroringQueue, WriteErrorQueue, SetErroredQueue,
     CloseEnqueueQueue, CloseProdQueue, CloseDequeueQueue, CloseConsQueue
     DEF CloseStep
<1>4. ASSUME NEW s \in Senders, TryReserve(s) \/ DropPermit(s) \/ SenderStep(s)
      PROVE  QInv'
  <2>1. CASE LoadTail(s) \/ CasTailFails(s)
    BY <1>1, <2>1, GotTailQueue DEF LoadTail, CasTailFails
  <2> QED
    BY <1>1, <1>4, <2>1, TryReserveQueue, AllocateQueue, FullQueue, WaitQueue,
       WriteCellQueue, DropPermitQueue, UncommitQueue, UncommitWakeQueue,
       LoadSlotQueue, CasTailQueue, StoreSlotQueue, WakeConsQueue,
       CloseReasonQueue DEF SenderStep
<1>5. CASE RxStep
  <2>1. CASE LoadHead \/ CasHeadFails
    BY <1>1, <2>1, GotHeadQueue DEF LoadHead, CasHeadFails
  <2> QED
    BY <1>1, <1>5, <2>1, LoadSlotRxQueue, CasHeadQueue, StoreLapQueue,
       ReadCellQueue, UncommitQueue, UncommitWakeQueue, PollWaitQueue,
       CloseReasonQueue DEF RxStep
<1> QED
  BY <1>1, <1>2, <1>3, <1>4, <1>5, NewSenderQueue, DropTxQueue, DropRxQueue,
     ReclaimQueue DEF Next

LEMMA QueueInvariance == ASSUME NoWrap PROVE Spec => []QInv
<1>1. Init => QInv
  BY InitQueue
<1>2. QInv /\ [Next]_vars => QInv'
  BY NextQueue
<1> QED
  BY <1>1, <1>2, PTL DEF Spec

\* commit_send never reaches its unreachable!: whoever has reserved an index
\* finds that the slot of the tail it loaded is free or already past it, however
\* long it slept with that tail and whatever the other senders, the receiver and
\* the closes did meanwhile.
THEOREM CommitNeverPanics == ASSUME NoWrap PROVE Spec => []NoPanic
<1>1. QInv => NoPanic
  BY DEF QInv
<1> QED
  BY <1>1, QueueInvariance, PTL

-----------------------------------------------------------------------------
\* What OwnInv and FullInv say of the owners that IndexOwnership counts.

LEMMA CommittedIsStored ==
  ASSUME NoWrap, QInv, NEW k \in Slots
  PROVE  Committed(k) <=> \E p \in Deq .. Enq - 1 : p \in Stored /\ Slot(p) = k
<1>1. Deq \in Nat /\ Enq \in Nat /\ Deq <= Enq /\ Enq < PosMod /\ PosMod \in Nat
  BY QTypes, PipeAssumption DEF QInv, PosInv
<1>2. (Enq - Deq) % PosMod = Enq - Deq
  BY <1>1
<1>3. \A d \in 0 .. Enq - Deq - 1 :
        /\ PosAdd(Deq, d) = Deq + d /\ PosAdd(Deq + d, 1) = Deq + d + 1
        /\ Deq + d \in Deq .. Enq - 1
  <2> TAKE d \in 0 .. Enq - Deq - 1
  <2>1. d \in Nat /\ Deq + d \in Nat /\ Deq + d < PosMod /\ (Deq + d) + 1 < PosMod
    BY <1>1
  <2> QED
    BY <1>1, PosAddSmall
<1>4. \A p \in Deq .. Enq - 1 : p \in Stored <=> queue[Slot(p)].seq = p + 1
  <2> TAKE p \in Deq .. Enq - 1
  <2>1. p \in First .. Enq - 1 /\ p \in First .. First + MAX_CAPACITY - 1
    BY <1>1, FirstType, Room, PipeAssumption DEF QInv
  <2>2. queue[Slot(p)].seq = IF p < Enq /\ ~Storing(p) THEN p + 1 ELSE p
    BY <2>1 DEF QInv, SlotInv
  <2> QED
    BY <1>1, <2>1, <2>2 DEF Stored
<1>5. Committed(k) <=>
        \E d \in 0 .. Enq - Deq - 1 : Slot(Deq + d) = k /\ queue[k].seq = Deq + d + 1
  BY <1>2, <1>3 DEF Committed, Enq, Deq
<1>6. ASSUME NEW p \in Deq .. Enq - 1 PROVE p - Deq \in 0 .. Enq - Deq - 1 /\ Deq + (p - Deq) = p
  BY <1>1
<1>7. ASSUME Committed(k) PROVE \E p \in Deq .. Enq - 1 : p \in Stored /\ Slot(p) = k
  <2>1. PICK d \in 0 .. Enq - Deq - 1 : Slot(Deq + d) = k /\ queue[k].seq = Deq + d + 1
    BY <1>5, <1>7
  <2> QED
    BY <1>3, <1>4, <2>1
<1>8. ASSUME NEW p \in Deq .. Enq - 1, p \in Stored, Slot(p) = k PROVE Committed(k)
  BY <1>4, <1>5, <1>6, <1>8
<1> QED
  BY <1>7, <1>8

LEMMA AtMostOne ==
  ASSUME NEW S, \A x, y \in S : x = y
  PROVE  \/ S = {} /\ Cardinality(S) = 0
         \/ S # {} /\ Cardinality(S) = 1
<1>1. CASE S = {}
  BY <1>1, FS_EmptySet
<1>2. CASE S # {}
  <2>1. PICK x \in S : TRUE
    BY <1>2
  <2>2. S = {x}
    OBVIOUS
  <2> QED
    BY FS_Singleton
<1> QED
  BY <1>1, <1>2

LEMMA OwnershipHolds == ASSUME NoWrap, QInv PROVE IndexOwnership
<1> SUFFICES ASSUME NEW i \in Indices
             PROVE  OwnerCount(i) <= 1 /\ (enqueue_pos.closed \/ OwnerCount(i) = 1)
  BY DEF IndexOwnership
<1> DEFINE A == {p \in Procs : Owns(p, i)}
           B == {k \in Slots : Committed(k) /\ queue[k].idx = i}
<1>1. Deq \in Nat /\ Enq \in Nat /\ First \in Nat /\ Deq <= Enq /\ i # NoIndex
  BY QTypes, FirstType, ZeroTypes DEF QInv, PosInv
<1>2. at[Rx] = "store_lap" =>
        First \in Stored /\ First < Deq /\ seen[Rx].idx = queue[Slot(First)].idx
  <2> HAVE at[Rx] = "store_lap"
  <2>1. First = Deq - 1 /\ seen[Rx].idx = queue[Slot(First)].idx
    BY DEF QInv, First, RxInv
  <2>2. ~Storing(First)
    BY <1>1, <2>1 DEF QInv, SenderInv, Storing
  <2> QED
    BY <1>1, <2>1, <2>2 DEF Stored
<1>3. \A k \in B : \E p \in Stored : p \in Deq .. Enq - 1 /\ Slot(p) = k /\ queue[Slot(p)].idx = i
  BY CommittedIsStored
<1>4. \A p \in A : \/ p \in Procs /\ idx[p] = i
                   \/ p = Rx /\ at[Rx] = "store_lap" /\ queue[Slot(First)].idx = i
  BY <1>2 DEF Owns
<1>5. \A p, q \in A : p = q
  BY <1>1, <1>2, <1>4 DEF QInv, OwnInv
<1>6. \A j, k \in B : j = k
  BY <1>3 DEF QInv, OwnInv
<1>7. A # {} => B = {} /\ i \notin indices
  <2> SUFFICES ASSUME NEW p \in A PROVE B = {} /\ i \notin indices
    OBVIOUS
  <2>1. CASE p \in Procs /\ idx[p] = i
    BY <1>3, <2>1 DEF QInv, OwnInv
  <2>2. CASE p = Rx /\ at[Rx] = "store_lap" /\ queue[Slot(First)].idx = i
    <3>1. \A q \in Stored : queue[Slot(q)].idx = i => q = First
      BY <1>2, <2>2 DEF QInv, OwnInv
    <3>2. First \notin Deq .. Enq - 1
      BY <1>1, <1>2, <2>2
    <3> QED
      BY <1>2, <1>3, <2>2, <3>2 DEF QInv, OwnInv
  <2> QED
    BY <1>4, <2>1, <2>2
<1>8. B # {} => i \notin indices
  BY <1>3 DEF QInv, OwnInv
<1>9. ~enqueue_pos.closed => i \in indices \/ A # {} \/ B # {}
  <2> SUFFICES ASSUME ~enqueue_pos.closed, i \notin indices, NEW p \in Stored,
                      queue[Slot(p)].idx = i
               PROVE  A # {} \/ B # {}
    BY DEF QInv, FullInv, Owns
  <2>1. CASE p \in Deq .. Enq - 1
    <3>1. Slot(p) \in Slots /\ Committed(Slot(p))
      BY <1>1, <2>1, SlotType, CommittedIsStored
    <3> QED
      BY <3>1
  <2>2. CASE p \notin Deq .. Enq - 1
    <3>1. at[Rx] = "store_lap" /\ p = First
      BY <1>1, <2>2 DEF Stored, First
    <3>2. Owns(Rx, i) /\ Rx \in Procs
      BY <1>2, <3>1 DEF Owns, Procs
    <3> QED
      BY <3>2
  <2> QED
    BY <2>1, <2>2
<1>10. OwnerCount(i) = (IF i \in indices THEN 1 ELSE 0) + Cardinality(A) + Cardinality(B)
  BY DEF OwnerCount
<1>11. /\ (A = {} /\ Cardinality(A) = 0) \/ (A # {} /\ Cardinality(A) = 1)
       /\ (B = {} /\ Cardinality(B) = 0) \/ (B # {} /\ Cardinality(B) = 1)
  BY <1>5, <1>6, AtMostOne
<1> HIDE DEF A, B
<1> QED
  BY <1>7, <1>8, <1>9, <1>10, <1>11

\* No element cell has two owners: an index is free, or in the hands of one
\* Permit or of the receiver, or committed to one slot; and none is lost while
\* the channel is open.  This is what makes the unsynchronized accesses to the
\* cells sound, for every number of senders and every capacity.
THEOREM IndexOwnershipIsUnique == ASSUME NoWrap PROVE Spec => []IndexOwnership
<1>1. QInv => IndexOwnership
  BY OwnershipHolds
<1> QED
  BY <1>1, QueueInvariance, PTL

=============================================================================
