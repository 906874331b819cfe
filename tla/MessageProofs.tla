--------------------------- MODULE MessageProofs ---------------------------
(***************************************************************************)
(* The messages of the mpsc channel: none is lost, repeated or reordered,  *)
(* none is left where nobody wakes the receiver, and Disconnected comes    *)
(* last.  As in QueueProofs, no position wraps.                            *)
(***************************************************************************)
EXTENDS QueueProofs, SequenceTheorems

\* The first position whose message has yet to be read.
Start == IF at[Rx] \in {"store_lap", "read"} THEN Deq - 1 ELSE Deq

\* The index and the message of a position: in the hands of the receiver, of
\* the sender that has taken the position, or in the slot.
PendIdx(p) == IF p < First THEN idx[Rx] ELSE IndexOf(p)
MsgAt(p) == cells[PendIdx(p)]

\* The messages of s that were given a position.
SentBy(s) == sent[s] + (IF at[s] = "store_slot" THEN 1 ELSE 0)

\* A sender whose element is in its cell.
Writing == Holding \ {"permit", "uncommit"}

\* A handle that will never send again.
Over == {"absent", "dropped", "close_cons"}

\* What the cells of the indices outside the queue hold.
CellInv ==
  /\ \A s \in Senders : at[s] \in Writing => cells[idx[s]] = [src |-> s, n |-> sent[s] + 1]
  /\ \A i \in indices : cells[i] = Uninit
  /\ \A p \in Procs : at[p] \in {"permit", "uncommit"} => cells[idx[p]] = Uninit

\* The pending messages are those sent and not received, in their order.
OrderInv ==
  /\ \A s \in Senders : got[s] <= SentBy(s)
  /\ \A p \in Start .. Enq - 1 :
       /\ MsgAt(p).src \in Senders
       /\ got[MsgAt(p).src] < MsgAt(p).n /\ MsgAt(p).n <= SentBy(MsgAt(p).src)
  /\ \A p, q \in Start .. Enq - 1 :
       p < q /\ MsgAt(p).src = MsgAt(q).src => MsgAt(p).n < MsgAt(q).n
  /\ ~RxGone => \A s \in Senders, n \in 1 .. MaxMsgs :
       got[s] < n /\ n <= SentBy(s) =>
         \E p \in Start .. Enq - 1 : MsgAt(p) = [src |-> s, n |-> n]

\* A message that is in a cell is pending, or in the hands of its sender, or
\* that of a commit that failed on a closed channel.
LeftInv ==
  \A i \in Indices : cells[i] # Uninit =>
    \/ \E p \in Start .. Enq - 1 : PendIdx(p) = i
    \/ LET s == cells[i].src
       IN  /\ s \in Senders /\ cells[i].n = sent[s] + 1
           /\ \/ idx[s] = i
              \/ enqueue_pos.closed /\ at[s] \notin Holding \cup {"allocate"}

\* When the receiver goes to sleep on a committed message, somebody is about to
\* wake it or has done so.
WakeInv ==
  at[Rx] \in {"poll_wait", "parked"} /\ Deq < Enq /\ ~Storing(Deq) =>
    \/ \E s \in Senders : at[s] = "wake_cons"
    \/ at[Rx] = "poll_wait" /\ cons_wait.woken

\* A receiver that is told Disconnected has dequeued the last message there
\* will be.
EndInv ==
  /\ at[Rx] = "load_slot_rx" /\ seen[Rx].closed => dequeue_pos.closed
  /\ (at[Rx] = "reason" /\ ~state.errored) \/ at[Rx] = "ended" =>
       Deq = Enq /\ \A h \in Handles : at[h] \in Over

\* The inductive invariant.
MInv == QInv /\ CellInv /\ OrderInv /\ LeftInv /\ WakeInv /\ EndInv

-----------------------------------------------------------------------------
LEMMA MTypes ==
  ASSUME QInv
  PROVE  /\ Enq \in Nat /\ Deq \in Nat /\ First \in Nat /\ Start \in Int
         /\ Deq <= Enq /\ First <= Deq /\ Start <= First /\ First <= Start + 1
         /\ \A p \in Start .. Enq - 1 : p < First => p = Start /\ at[Rx] = "read"
         /\ at[Rx] # "read" => Start = First
         /\ at \in [Procs -> Labels]
         /\ idx \in [Procs -> Indices \cup {NoIndex}]
         /\ cells \in [Indices -> [src : Handles, n : 0 .. MaxMsgs]]
         /\ \A i \in Indices : cells[i].n \in Nat
         /\ sent \in [Senders -> 0 .. MaxMsgs] /\ got \in [Senders -> 0 .. MaxMsgs]
         /\ \A s \in Senders : s \in Procs /\ s # Rx /\ SentBy(s) \in Nat
         /\ Rx \in Procs
<1>1. TypeOK /\ AInv /\ PosInv
  BY DEF QInv, AInv
<1>2. /\ Enq \in Nat /\ Deq \in Nat /\ First \in Nat /\ Start \in Int
      /\ Deq <= Enq /\ First <= Deq /\ Start <= First /\ First <= Start + 1
      /\ at[Rx] # "read" => Start = First
  BY <1>1, QTypes DEF PosInv, Start, First
<1>3. \A p \in Start .. Enq - 1 : p < First => p = Start /\ at[Rx] = "read"
  BY <1>2
<1>4. cells \in [Indices -> [src : Handles, n : 0 .. MaxMsgs]]
  BY <1>1 DEF TypeOK
<1>5. \A i \in Indices : cells[i].n \in Nat
  BY <1>4
<1>6. sent \in [Senders -> 0 .. MaxMsgs] /\ got \in [Senders -> 0 .. MaxMsgs]
  BY <1>1 DEF TypeOK
<1>7. \A s \in Senders : s \in Procs /\ s # Rx /\ SentBy(s) \in Nat
  BY <1>6, PipeAssumption DEF SentBy, Procs, Handles
<1> QED
  BY <1>1, <1>2, <1>7 DEF TypeOK, Procs

\* The index of a position that a sender has taken is that of its Permit.
LEMMA IndexOfStoring ==
  ASSUME SenderInv, NEW s \in Senders, NEW p, at[s] = "store_slot", seen[s].pos = p
  PROVE  IndexOf(p) = idx[s] /\ Storing(p)
<1>1. Storing(p)
  BY DEF Storing
<1>2. StoringSender(p) = s
  BY <1>1, StoringSenderIs DEF SenderInv
<1> QED
  BY <1>1, <1>2 DEF IndexOf

LEMMA IndexOfStoringNext ==
  ASSUME SenderInv', NEW s \in Senders, NEW p, at'[s] = "store_slot", seen'[s].pos = p
  PROVE  IndexOf(p)' = idx'[s] /\ Storing(p)'
<1>1. Storing(p)'
  BY DEF Storing
<1>2. /\ StoringSender(p)' \in Senders
      /\ at'[StoringSender(p)'] = "store_slot" /\ seen'[StoringSender(p)'].pos = p
  BY DEF StoringSender
<1>3. StoringSender(p)' = s
  BY <1>2 DEF SenderInv
<1> QED
  BY <1>1, <1>3 DEF IndexOf

LEMMA PendType ==
  ASSUME QInv, NEW p \in Start .. Enq - 1
  PROVE  PendIdx(p) \in Indices
<1>1. CASE p < First
  BY <1>1, MTypes DEF QInv, AInv, HoldInv, PendIdx
<1>2. CASE ~(p < First)
  <2>1. p \in First .. Enq - 1
    BY <1>2, MTypes
  <2> QED
    BY <1>2, <2>1, IndexOfType DEF PendIdx
<1> QED
  BY <1>1, <1>2

\* The index of a pending message is owned by nobody but the sender that took
\* the position or the receiver that reads it.
LEMMA PendOwner ==
  ASSUME QInv, NEW p \in Start .. Enq - 1
  PROVE  /\ PendIdx(p) \notin indices
         /\ \A q \in Procs : idx[q] = PendIdx(p) => at[q] \in {"store_slot", "read"}
         /\ idx[Rx] = PendIdx(p) => p < First
<1>1. PendIdx(p) \in Indices /\ NoIndex \notin Indices
  BY PendType, ZeroTypes
<1>2. CASE p < First
  BY <1>1, <1>2, MTypes DEF QInv, OwnInv, PendIdx
<1>3. CASE ~(p < First)
  <2>1. p \in First .. Enq - 1
    BY <1>3, MTypes
  <2>2. CASE Storing(p)
    <3>1. PICK s \in Senders : at[s] = "store_slot" /\ seen[s].pos = p
      BY <2>2 DEF Storing
    <3>2. PendIdx(p) = idx[s]
      BY <1>3, <3>1, IndexOfStoring DEF PendIdx, QInv
    <3> QED
      BY <1>1, <3>1, <3>2, MTypes DEF QInv, OwnInv
  <2>3. CASE ~Storing(p)
    <3>1. p \in Stored /\ PendIdx(p) = queue[Slot(p)].idx
      BY <1>3, <2>1, <2>3 DEF Stored, PendIdx, IndexOf
    <3> QED
      BY <3>1, MTypes DEF QInv, OwnInv
  <2> QED
    BY <2>2, <2>3
<1> QED
  BY <1>2, <1>3

LEMMA PendDiffers ==
  ASSUME QInv, NEW p \in Start .. Enq - 1, NEW q \in Start .. Enq - 1,
         PendIdx(p) = PendIdx(q)
  PROVE  p = q
<1>1. CASE p < First /\ q < First
  BY <1>1, MTypes
<1>2. CASE p < First /\ ~(q < First)
  <2>1. PendIdx(q) = idx[Rx]
    BY <1>2 DEF PendIdx
  <2> QED
    BY <1>2, <2>1, PendOwner
<1>3. CASE ~(p < First) /\ q < First
  <2>1. PendIdx(p) = idx[Rx]
    BY <1>3 DEF PendIdx
  <2> QED
    BY <1>3, <2>1, PendOwner
<1>4. CASE ~(p < First) /\ ~(q < First)
  <2>1. p \in First .. Enq - 1 /\ q \in First .. Enq - 1
    BY <1>4, MTypes
  <2> QED
    BY <1>4, <2>1, IndexOfDiffers DEF PendIdx
<1> QED
  BY <1>1, <1>2, <1>3, <1>4

-----------------------------------------------------------------------------
\* What the abstract channel's variables are.

Messages == [src : Handles, n : 0 .. MaxMsgs]

LEMMA MessageAtIs ==
  ASSUME MInv, NEW p \in Deq .. Enq - 1
  PROVE  MessageAt(p) = MsgAt(p) /\ MsgAt(p) \in Messages
<1> USE DEF MInv
<1>1. p \in Start .. Enq - 1 /\ ~(p < First)
  BY MTypes
<1>2. MsgAt(p) = cells[IndexOf(p)] /\ MsgAt(p) \in Messages
  BY PendType, MTypes DEF MsgAt, PendIdx, Messages
<1>3. CASE Storing(p)
  <2> DEFINE s == StoringSender(p)
  <2>1. s \in Senders /\ at[s] = "store_slot"
    BY <1>3, StoringSenderIs
  <2>2. MessageAt(p) = [src |-> s, n |-> sent[s] + 1]
    BY <1>3 DEF MessageAt, Storing, StoringSender
  <2>3. cells[idx[s]] = [src |-> s, n |-> sent[s] + 1]
    BY <2>1 DEF CellInv, Writing, Holding
  <2> QED
    BY <1>2, <1>3, <2>2, <2>3 DEF IndexOf
<1>4. CASE ~Storing(p)
  BY <1>2, <1>4 DEF IndexOf, MessageAt, Storing
<1> QED
  BY <1>3, <1>4

\* The FIFO holds the messages between head and tail.
LEMMA ChanBufIs ==
  MInv => /\ chanBuf \in Seq(Messages) /\ Len(chanBuf) = Enq - Deq
          /\ \A p \in Deq .. Enq - 1 : chanBuf[p - Deq + 1] = MsgAt(p)
<1> HAVE MInv
<1>1. Deq \in Nat /\ Enq \in Nat /\ Deq <= Enq /\ Enq < PosMod /\ PosMod \in Nat
  BY MTypes, QTypes, PipeAssumption DEF MInv, QInv
<1>2. (Enq - Deq) % PosMod = Enq - Deq
  BY <1>1
<1>3. \A k \in 1 .. Enq - Deq : /\ PosAdd(Deq, k - 1) = Deq + (k - 1)
                                /\ Deq + (k - 1) \in Deq .. Enq - 1
  <2> TAKE k \in 1 .. Enq - Deq
  <2>1. k - 1 \in Nat /\ Deq + (k - 1) < PosMod /\ Deq + (k - 1) \in Deq .. Enq - 1
    BY <1>1
  <2> QED
    BY <1>1, PosAddSmall
<1>4. chanBuf = [k \in 1 .. Enq - Deq |-> MessageAt(PosAdd(Deq, k - 1))]
  BY <1>2 DEF chanBuf, Enq, Deq
<1>5. \A k \in 1 .. Enq - Deq : chanBuf[k] = MsgAt(Deq + (k - 1)) /\ chanBuf[k] \in Messages
  BY <1>3, <1>4, MessageAtIs
<1>6. chanBuf \in [1 .. Enq - Deq -> Messages]
  BY <1>4, <1>5
<1>7. chanBuf \in Seq(Messages) /\ Len(chanBuf) = Enq - Deq
  BY <1>1, <1>6
<1>8. \A p \in Deq .. Enq - 1 : p - Deq + 1 \in 1 .. Enq - Deq /\ Deq + ((p - Deq + 1) - 1) = p
  BY <1>1
<1> QED
  BY <1>5, <1>7, <1>8

\* The message the receiver has dequeued counts as received.
LEMMA ChanGotIs ==
  MInv => chanGot = IF at[Rx] \in {"store_lap", "read"}
                    THEN [s \in Senders |-> IF s = MsgAt(Start).src THEN MsgAt(Start).n
                                            ELSE got[s]]
                    ELSE got
<1> HAVE MInv
<1> USE DEF MInv
<1>1. at[Rx] = "read" => PendIdx(Start) = seen[Rx].idx
  BY MTypes DEF PendIdx, Start, First, QInv, RxInv
<1>2. at[Rx] = "store_lap" => PendIdx(Start) = seen[Rx].idx
  <2> HAVE at[Rx] = "store_lap"
  <2>1. First = Deq - 1 /\ Start = First
    BY DEF First, Start
  <2>2. ~Storing(First) /\ ~(Start < First)
    BY <2>1, MTypes DEF QInv, SenderInv, Storing
  <2> QED
    BY <2>1, <2>2 DEF PendIdx, IndexOf, QInv, RxInv
<1> QED
  BY <1>1, <1>2 DEF chanGot, MsgAt

LEMMA ChanBufKept ==
  ASSUME MInv, MInv', Enq' = Enq, Deq' = Deq,
         \A p \in Deq .. Enq - 1 : MsgAt(p)' = MsgAt(p)
  PROVE  chanBuf' = chanBuf
<1>1. /\ chanBuf \in Seq(Messages) /\ Len(chanBuf) = Enq - Deq
      /\ \A p \in Deq .. Enq - 1 : chanBuf[p - Deq + 1] = MsgAt(p)
  BY ChanBufIs
<1>2. (/\ chanBuf \in Seq(Messages) /\ Len(chanBuf) = Enq - Deq
       /\ \A p \in Deq .. Enq - 1 : chanBuf[p - Deq + 1] = MsgAt(p))'
  BY ChanBufIs, PTL
<1>3. Deq \in Nat /\ Enq \in Nat
  BY MTypes DEF MInv
<1>4. \A i \in 1 .. Enq - Deq : chanBuf'[i] = chanBuf[i]
  <2> TAKE i \in 1 .. Enq - Deq
  <2>1. PICK p \in Deq .. Enq - 1 : p - Deq + 1 = i
    <3>1. Deq + i - 1 \in Deq .. Enq - 1 /\ (Deq + i - 1) - Deq + 1 = i
      BY <1>3
    <3> QED
      BY <1>3
  <2>2. chanBuf[i] = MsgAt(p)
    BY <1>1, <2>1
  <2>3. chanBuf'[i] = MsgAt(p)'
    BY <1>2, <2>1
  <2> QED
    BY <2>2, <2>3
<1>5. Messages' = Messages
  OBVIOUS
<1> QED
  BY <1>1, <1>2, <1>4

\* The abstract channel's messages and counts stay.
ChanKept == UNCHANGED <<chanBuf, chanSent, chanGot>>

LEMMA ChanFrame ==
  ASSUME MInv, MInv', Enq' = Enq, Deq' = Deq, Start' = Start, got' = got,
         at'[Rx] \in {"store_lap", "read"} <=> at[Rx] \in {"store_lap", "read"},
         \A p \in Start .. Enq - 1 : MsgAt(p)' = MsgAt(p),
         \A s \in Senders : SentBy(s)' = SentBy(s)
  PROVE  ChanKept
<1>1. Deq \in Nat /\ Enq \in Nat /\ Start \in Int /\ Start <= Deq
  BY MTypes DEF MInv
<1>2. chanBuf' = chanBuf
  BY <1>1, ChanBufKept
<1>3. chanSent' = chanSent
  BY DEF chanSent, SentBy
<1>4. chanGot' = chanGot
  <2>1. chanGot = IF at[Rx] \in {"store_lap", "read"}
                  THEN [s \in Senders |-> IF s = MsgAt(Start).src THEN MsgAt(Start).n
                                          ELSE got[s]]
                  ELSE got
    BY ChanGotIs
  <2>2. (chanGot = IF at[Rx] \in {"store_lap", "read"}
                   THEN [s \in Senders |-> IF s = MsgAt(Start).src THEN MsgAt(Start).n
                                           ELSE got[s]]
                   ELSE got)'
    BY ChanGotIs, PTL
  <2>3. at[Rx] \in {"store_lap", "read"} => MsgAt(Start)' = MsgAt(Start)
    <3> HAVE at[Rx] \in {"store_lap", "read"}
    <3>1. PICK p \in Int : p = Start
      BY <1>1
    <3>2. p \in Start .. Enq - 1
      BY <3>1, MTypes DEF MInv, Start
    <3>3. MsgAt(p)' = MsgAt(p)
      BY <3>2
    <3>4. MsgAt(Start)' = MsgAt(p)'
      BY <3>1
    <3> QED
      BY <3>1, <3>3
  <2> QED
    BY <2>1, <2>2, <2>3
<1> QED
  BY <1>2, <1>3, <1>4 DEF ChanKept

-----------------------------------------------------------------------------
\* What each part of the invariant depends on.

\* A step that moves no position, and no message into or out of one.
PositionsKept ==
  /\ Enq' = Enq /\ Deq' = Deq /\ UNCHANGED <<queue, sent>>
  /\ \A s \in Senders : /\ at'[s] = "store_slot" <=> at[s] = "store_slot"
                        /\ at[s] = "store_slot" => seen'[s].pos = seen[s].pos
  /\ at'[Rx] = "store_lap" <=> at[Rx] = "store_lap"
  /\ at'[Rx] = "read" <=> at[Rx] = "read"
  /\ \A q \in Procs : at[q] \in {"store_slot", "read"} => idx'[q] = idx[q]

LEMMA PendFrame ==
  ASSUME QInv, QInv', PositionsKept
  PROVE  /\ Start' = Start /\ First' = First
         /\ \A p : Storing(p)' <=> Storing(p)
         /\ \A p \in Start .. Enq - 1 : PendIdx(p)' = PendIdx(p)
         /\ \A s \in Senders : SentBy(s)' = SentBy(s)
<1>1. First' = First
  BY DEF First, PositionsKept
<1>2. \A p : Storing(p)' <=> Storing(p)
  BY DEF Storing, PositionsKept
<1>3. Start' = Start
  BY DEF Start, PositionsKept
<1>4. \A s \in Senders : SentBy(s)' = SentBy(s)
  BY DEF SentBy, PositionsKept
<1>5. ASSUME NEW p \in Start .. Enq - 1 PROVE PendIdx(p)' = PendIdx(p)
  <2>1. CASE p < First
    BY <1>1, <2>1, MTypes DEF PendIdx, PositionsKept
  <2>2. CASE ~(p < First) /\ Storing(p)
    <3>1. PICK s \in Senders : at[s] = "store_slot" /\ seen[s].pos = p
      BY <2>2 DEF Storing
    <3>2. IndexOf(p) = idx[s]
      BY <3>1, IndexOfStoring DEF QInv
    <3>3. IndexOf(p)' = idx'[s]
      BY <3>1, IndexOfStoringNext DEF QInv, PositionsKept
    <3> QED
      BY <1>1, <3>1, <3>2, <3>3, MTypes DEF PendIdx, PositionsKept
  <2>3. CASE ~(p < First) /\ ~Storing(p)
    BY <1>1, <1>2, <2>3 DEF PendIdx, IndexOf, PositionsKept
  <2> QED
    BY <2>1, <2>2, <2>3
<1> QED
  BY <1>1, <1>2, <1>3, <1>4, <1>5

LEMMA CellFrame ==
  ASSUME CellInv, UNCHANGED <<cells, indices, sent>>,
         \A s \in Senders : at'[s] \in Writing => at[s] \in Writing /\ idx'[s] = idx[s],
         \A p \in Procs : at'[p] \in {"permit", "uncommit"} =>
           at[p] \in {"permit", "uncommit"} /\ idx'[p] = idx[p]
  PROVE  CellInv'
BY DEF CellInv

LEMMA OrderFrame ==
  ASSUME OrderInv, Start' = Start, Enq' = Enq, got' = got, RxGone => RxGone',
         \A p \in Start .. Enq - 1 : MsgAt(p)' = MsgAt(p),
         \A s \in Senders : SentBy(s)' = SentBy(s)
  PROVE  OrderInv'
BY DEF OrderInv

LEMMA LeftFrame ==
  ASSUME LeftInv, Start' = Start, Enq' = Enq, UNCHANGED <<cells, sent>>,
         enqueue_pos.closed => enqueue_pos'.closed,
         \A s \in Senders : idx'[s] = idx[s],
         \A p \in Start .. Enq - 1 : PendIdx(p)' = PendIdx(p),
         \A s \in Senders : at'[s] \in Holding \cup {"allocate"} =>
           at[s] \in Holding \cup {"allocate"} \/ ~enqueue_pos.closed
  PROVE  LeftInv'
BY DEF LeftInv

LEMMA WakeFrame ==
  ASSUME WakeInv, Enq' = Enq, Deq' = Deq, Storing(Deq)' <=> Storing(Deq),
         at'[Rx] \in {"poll_wait", "parked"} => at'[Rx] = at[Rx],
         \A s \in Senders : at[s] = "wake_cons" => at'[s] = "wake_cons",
         cons_wait.woken => cons_wait'.woken
  PROVE  WakeInv'
BY DEF WakeInv

LEMMA EndFrame ==
  ASSUME EndInv, Enq' = Enq, Deq' = Deq,
         at'[Rx] \in {"load_slot_rx", "reason", "ended"} => at'[Rx] = at[Rx],
         at'[Rx] = "load_slot_rx" => seen'[Rx] = seen[Rx],
         dequeue_pos.closed => dequeue_pos'.closed,
         state.errored => state'.errored,
         \A h \in Handles : at[h] \in Over => at'[h] \in Over
  PROVE  EndInv'
BY DEF EndInv

\* The labels the parts speak of.
MessageLabelsKept ==
  /\ QueueLabelsKept
  /\ at'[Rx] = "read" <=> at[Rx] = "read"
  /\ \A s \in Senders :
       /\ at'[s] \in Writing => at[s] \in Writing
       /\ at'[s] \in Holding \cup {"allocate"} =>
            at[s] \in Holding \cup {"allocate"} \/ ~enqueue_pos.closed
       /\ at[s] = "wake_cons" => at'[s] = "wake_cons"
  /\ \A p \in Procs : at'[p] \in {"permit", "uncommit"} => at[p] \in {"permit", "uncommit"}
  /\ \A h \in Handles : at[h] \in Over => at'[h] \in Over
  /\ at'[Rx] \in {"load_slot_rx", "poll_wait", "parked", "reason", "ended"} =>
       at'[Rx] = at[Rx]
  /\ RxGone => RxGone'

LEMMA MessageFrame ==
  ASSUME MInv, QInv', MessageLabelsKept, Enq' = Enq, Deq' = Deq,
         UNCHANGED <<queue, seen, sent, idx, indices, cells, got>>,
         enqueue_pos.closed => enqueue_pos'.closed,
         dequeue_pos.closed => dequeue_pos'.closed,
         state.errored => state'.errored, cons_wait.woken => cons_wait'.woken
  PROVE  MInv' /\ ChanKept
<1> USE DEF MInv, MessageLabelsKept
<1>1. PositionsKept
  BY DEF PositionsKept, QueueLabelsKept
<1>2. /\ Start' = Start /\ \A p : Storing(p)' <=> Storing(p)
      /\ \A p \in Start .. Enq - 1 : PendIdx(p)' = PendIdx(p)
      /\ \A s \in Senders : SentBy(s)' = SentBy(s)
  BY <1>1, PendFrame
<1>3. CellInv'
  BY CellFrame
<1>4. \A p \in Start .. Enq - 1 : MsgAt(p)' = MsgAt(p)
  BY <1>2 DEF MsgAt
<1>5. OrderInv'
  BY <1>2, <1>4, OrderFrame
<1>6. LeftInv'
  BY <1>2, LeftFrame
<1>7. WakeInv'
  BY <1>2, WakeFrame
<1>8. EndInv'
  BY EndFrame
<1>9. MInv'
  BY <1>3, <1>5, <1>6, <1>7, <1>8
<1>10. ChanKept
  BY <1>2, <1>4, <1>9, ChanFrame DEF QueueLabelsKept
<1> QED
  BY <1>9, <1>10

-----------------------------------------------------------------------------
\* The steps that leave the messages alone.

LEMMA MessageFrameTypes ==
  ASSUME MInv
  PROVE  /\ at \in [Procs -> Labels] /\ Rx \notin Handles /\ Senders \subseteq Handles
         /\ enqueue_pos \in [pos : Positions, closed : BOOLEAN]
         /\ dequeue_pos \in [pos : Positions, closed : BOOLEAN]
         /\ state \in [tx : Nat, erroring : BOOLEAN, errored : BOOLEAN]
         /\ cons_wait \in [woken : BOOLEAN, closed : BOOLEAN]
         /\ at[Rx] # "waiting"
BY PipeAssumption
   DEF MInv, QInv, AInv, TypeOK, Handles, PlaceInv, RxLabels, ErrLabels

LEMMA DropTxMessages ==
  ASSUME NEW h \in Handles, MInv, QInv', DropTx(h)
  PROVE  MInv' /\ ChanKept
<1>1. QueueLabelsKept
  BY DEF QueueLabelsKept, DropTx, Free, Goto
<1>2. MessageLabelsKept
  BY <1>1
     DEF MessageLabelsKept, Writing, Holding, Over, RxGone, DropTx, Free, Goto
<1>3. /\ Enq' = Enq /\ Deq' = Deq
      /\ UNCHANGED <<queue, seen, sent, idx, indices, cells, got>>
      /\ enqueue_pos.closed => enqueue_pos'.closed
      /\ dequeue_pos.closed => dequeue_pos'.closed
      /\ state.errored => state'.errored
      /\ cons_wait.woken => cons_wait'.woken
  BY DEF DropTx, Enq, Deq, queueVars, elemVars, waitVars, countVars
<1> QED
  BY <1>2, <1>3, MessageFrame

LEMMA DropRxMessages ==
  ASSUME MInv, QInv', DropRx
  PROVE  MInv' /\ ChanKept
<1>1. QueueLabelsKept
  BY DEF QueueLabelsKept, DropRx, Goto
<1>2. MessageLabelsKept
  BY MessageFrameTypes, <1>1 DEF MessageLabelsKept, RxGone, DropRx, Goto
<1>3. /\ Enq' = Enq /\ Deq' = Deq
      /\ UNCHANGED <<queue, seen, sent, idx, indices, cells, got>>
      /\ enqueue_pos.closed => enqueue_pos'.closed
      /\ dequeue_pos.closed => dequeue_pos'.closed
      /\ state.errored => state'.errored
      /\ cons_wait.woken => cons_wait'.woken
  BY DEF DropRx, Enq, Deq, queueVars, elemVars, closeVars, waitVars, countVars
<1> QED
  BY <1>2, <1>3, MessageFrame

LEMMA SetErroringMessages ==
  ASSUME NEW p \in Procs, MInv, QInv', SetErroring(p)
  PROVE  MInv' /\ ChanKept
<1>1. QueueLabelsKept
  BY DEF QueueLabelsKept, SetErroring, Free, Goto
<1>2. MessageLabelsKept
  BY <1>1
     DEF MessageLabelsKept, Writing, Holding, Over, RxGone, SetErroring, Free,
         Goto
<1>3. /\ Enq' = Enq /\ Deq' = Deq
      /\ UNCHANGED <<queue, seen, sent, idx, indices, cells, got>>
      /\ enqueue_pos.closed => enqueue_pos'.closed
      /\ dequeue_pos.closed => dequeue_pos'.closed
      /\ state.errored => state'.errored
      /\ cons_wait.woken => cons_wait'.woken
  BY DEF SetErroring, Enq, Deq, queueVars, elemVars, waitVars, countVars
<1> QED
  BY <1>2, <1>3, MessageFrame

LEMMA WriteErrorMessages ==
  ASSUME NEW p \in Procs, MInv, QInv', WriteError(p)
  PROVE  MInv' /\ ChanKept
<1>1. QueueLabelsKept
  BY DEF QueueLabelsKept, WriteError, Goto
<1>2. MessageLabelsKept
  BY <1>1
     DEF MessageLabelsKept, Writing, Holding, Over, RxGone, WriteError, Goto
<1>3. /\ Enq' = Enq /\ Deq' = Deq
      /\ UNCHANGED <<queue, seen, sent, idx, indices, cells, got>>
      /\ enqueue_pos.closed => enqueue_pos'.closed
      /\ dequeue_pos.closed => dequeue_pos'.closed
      /\ state.errored => state'.errored
      /\ cons_wait.woken => cons_wait'.woken
  BY DEF WriteError, Enq, Deq, queueVars, elemVars, waitVars, countVars
<1> QED
  BY <1>2, <1>3, MessageFrame

LEMMA SetErroredMessages ==
  ASSUME NEW p \in Procs, MInv, QInv', SetErrored(p)
  PROVE  MInv' /\ ChanKept
<1>1. QueueLabelsKept
  BY DEF QueueLabelsKept, SetErrored, Goto
<1>2. MessageLabelsKept
  BY <1>1
     DEF MessageLabelsKept, Writing, Holding, Over, RxGone, SetErrored, Goto
<1>3. /\ Enq' = Enq /\ Deq' = Deq
      /\ UNCHANGED <<queue, seen, sent, idx, indices, cells, got>>
      /\ enqueue_pos.closed => enqueue_pos'.closed
      /\ dequeue_pos.closed => dequeue_pos'.closed
      /\ state.errored => state'.errored
      /\ cons_wait.woken => cons_wait'.woken
  BY DEF SetErrored, Enq, Deq, queueVars, elemVars, waitVars, countVars
<1> QED
  BY <1>2, <1>3, MessageFrame

LEMMA CloseEnqueueMessages ==
  ASSUME NEW p \in Procs, MInv, QInv', CloseEnqueue(p)
  PROVE  MInv' /\ ChanKept
<1>1. QueueLabelsKept
  BY DEF QueueLabelsKept, CloseEnqueue, Goto, Then
<1>2. MessageLabelsKept
  BY <1>1
     DEF MessageLabelsKept, Writing, Holding, Over, RxGone, CloseEnqueue, Goto,
         Then
<1>3. /\ Enq' = Enq /\ Deq' = Deq
      /\ UNCHANGED <<queue, seen, sent, idx, indices, cells, got>>
      /\ enqueue_pos.closed => enqueue_pos'.closed
      /\ dequeue_pos.closed => dequeue_pos'.closed
      /\ state.errored => state'.errored
      /\ cons_wait.woken => cons_wait'.woken
  BY DEF CloseEnqueue, Enq, Deq, elemVars, closeVars, waitVars, countVars
<1> QED
  BY <1>2, <1>3, MessageFrame

LEMMA CloseProdMessages ==
  ASSUME NEW p \in Procs, MInv, QInv', CloseProd(p)
  PROVE  MInv' /\ ChanKept
<1>1. QueueLabelsKept
  BY MessageFrameTypes DEF QueueLabelsKept, CloseProd, Then, Procs
<1>2. MessageLabelsKept
  BY MessageFrameTypes, <1>1
     DEF MessageLabelsKept, Writing, Holding, Over, RxGone, CloseProd, Then,
         Procs
<1>3. /\ Enq' = Enq /\ Deq' = Deq
      /\ UNCHANGED <<queue, seen, sent, idx, indices, cells, got>>
      /\ enqueue_pos.closed => enqueue_pos'.closed
      /\ dequeue_pos.closed => dequeue_pos'.closed
      /\ state.errored => state'.errored
      /\ cons_wait.woken => cons_wait'.woken
  BY DEF CloseProd, Enq, Deq, queueVars, elemVars, closeVars, countVars
<1> QED
  BY <1>2, <1>3, MessageFrame

LEMMA CloseDequeueMessages ==
  ASSUME NEW p \in Procs, MInv, QInv', CloseDequeue(p)
  PROVE  MInv' /\ ChanKept
<1>1. QueueLabelsKept
  BY DEF QueueLabelsKept, CloseDequeue, Goto, Then
<1>2. MessageLabelsKept
  BY <1>1
     DEF MessageLabelsKept, Writing, Holding, Over, RxGone, CloseDequeue, Goto,
         Then
<1>3. /\ Enq' = Enq /\ Deq' = Deq
      /\ UNCHANGED <<queue, seen, sent, idx, indices, cells, got>>
      /\ enqueue_pos.closed => enqueue_pos'.closed
      /\ dequeue_pos.closed => dequeue_pos'.closed
      /\ state.errored => state'.errored
      /\ cons_wait.woken => cons_wait'.woken
  BY DEF CloseDequeue, Enq, Deq, elemVars, closeVars, waitVars, countVars
<1> QED
  BY <1>2, <1>3, MessageFrame

LEMMA CloseConsMessages ==
  ASSUME NEW p \in Procs, MInv, QInv', CloseCons(p)
  PROVE  MInv' /\ ChanKept
<1>1. QueueLabelsKept
  BY MessageFrameTypes DEF QueueLabelsKept, CloseCons, Woken, Then, Procs
<1>2. MessageLabelsKept
  BY MessageFrameTypes, <1>1
     DEF MessageLabelsKept, Writing, Holding, Over, RxGone, CloseCons, Woken,
         Then, Procs
<1>3. /\ Enq' = Enq /\ Deq' = Deq
      /\ UNCHANGED <<queue, seen, sent, idx, indices, cells, got>>
      /\ enqueue_pos.closed => enqueue_pos'.closed
      /\ dequeue_pos.closed => dequeue_pos'.closed
      /\ state.errored => state'.errored
      /\ cons_wait.woken => cons_wait'.woken
  BY DEF CloseCons, Enq, Deq, queueVars, elemVars, closeVars, countVars
<1> QED
  BY <1>2, <1>3, MessageFrame

LEMMA CloseReasonTxMessages ==
  ASSUME NEW s \in Senders, MInv, QInv', CloseReason(s)
  PROVE  MInv' /\ ChanKept
<1>1. QueueLabelsKept
  BY DEF QueueLabelsKept, CloseReason, Goto
<1>2. MessageLabelsKept
  BY PipeAssumption, <1>1
     DEF MessageLabelsKept, Writing, Holding, Over, RxGone, CloseReason, Goto
<1>3. /\ Enq' = Enq /\ Deq' = Deq
      /\ UNCHANGED <<queue, seen, sent, idx, indices, cells, got>>
      /\ enqueue_pos.closed => enqueue_pos'.closed
      /\ dequeue_pos.closed => dequeue_pos'.closed
      /\ state.errored => state'.errored
      /\ cons_wait.woken => cons_wait'.woken
  BY DEF CloseReason, Enq, Deq, queueVars, elemVars, closeVars, waitVars,
         countVars
<1> QED
  BY <1>2, <1>3, MessageFrame

LEMMA TryReserveMessages ==
  ASSUME NEW s \in Senders, MInv, QInv', TryReserve(s)
  PROVE  MInv' /\ ChanKept
<1>1. QueueLabelsKept
  BY DEF QueueLabelsKept, TryReserve, Goto
<1>2. MessageLabelsKept
  BY PipeAssumption, <1>1
     DEF MessageLabelsKept, Writing, Holding, Over, RxGone, TryReserve, Goto
<1>3. /\ Enq' = Enq /\ Deq' = Deq
      /\ UNCHANGED <<queue, seen, sent, idx, indices, cells, got>>
      /\ enqueue_pos.closed => enqueue_pos'.closed
      /\ dequeue_pos.closed => dequeue_pos'.closed
      /\ state.errored => state'.errored
      /\ cons_wait.woken => cons_wait'.woken
  BY DEF TryReserve, Enq, Deq, queueVars, elemVars, closeVars, waitVars,
         countVars
<1> QED
  BY <1>2, <1>3, MessageFrame

LEMMA FullMessages ==
  ASSUME NEW s \in Senders, MInv, QInv', Full(s)
  PROVE  MInv' /\ ChanKept
<1>1. QueueLabelsKept
  BY MessageFrameTypes DEF QueueLabelsKept, Full, Goto, Procs
<1>2. MessageLabelsKept
  BY MessageFrameTypes, <1>1
     DEF MessageLabelsKept, Writing, Holding, Over, RxGone, Full, Goto, Procs
<1>3. /\ Enq' = Enq /\ Deq' = Deq
      /\ UNCHANGED <<queue, seen, sent, idx, indices, cells, got>>
      /\ enqueue_pos.closed => enqueue_pos'.closed
      /\ dequeue_pos.closed => dequeue_pos'.closed
      /\ state.errored => state'.errored
      /\ cons_wait.woken => cons_wait'.woken
  BY DEF Full, Enq, Deq, queueVars, elemVars, closeVars, waitVars, countVars
<1> QED
  BY <1>2, <1>3, MessageFrame

LEMMA WaitMessages ==
  ASSUME NEW s \in Senders, MInv, QInv', Wait(s)
  PROVE  MInv' /\ ChanKept
<1>1. QueueLabelsKept
  BY MessageFrameTypes DEF QueueLabelsKept, Wait, Goto, Procs
<1>2. MessageLabelsKept
  BY MessageFrameTypes, <1>1
     DEF MessageLabelsKept, Writing, Holding, Over, RxGone, Wait, Goto, Procs
<1>3. /\ Enq' = Enq /\ Deq' = Deq
      /\ UNCHANGED <<queue, seen, sent, idx, indices, cells, got>>
      /\ enqueue_pos.closed => enqueue_pos'.closed
      /\ dequeue_pos.closed => dequeue_pos'.closed
      /\ state.errored => state'.errored
      /\ cons_wait.woken => cons_wait'.woken
  BY DEF Wait, Enq, Deq, queueVars, elemVars, closeVars, countVars
<1> QED
  BY <1>2, <1>3, MessageFrame

LEMMA DropPermitMessages ==
  ASSUME NEW s \in Senders, MInv, QInv', DropPermit(s)
  PROVE  MInv' /\ ChanKept
<1>1. QueueLabelsKept
  BY DEF QueueLabelsKept, DropPermit, Goto
<1>2. MessageLabelsKept
  BY <1>1
     DEF MessageLabelsKept, Writing, Holding, Over, RxGone, DropPermit, Goto
<1>3. /\ Enq' = Enq /\ Deq' = Deq
      /\ UNCHANGED <<queue, seen, sent, idx, indices, cells, got>>
      /\ enqueue_pos.closed => enqueue_pos'.closed
      /\ dequeue_pos.closed => dequeue_pos'.closed
      /\ state.errored => state'.errored
      /\ cons_wait.woken => cons_wait'.woken
  BY DEF DropPermit, Enq, Deq, queueVars, elemVars, closeVars, waitVars,
         countVars
<1> QED
  BY <1>2, <1>3, MessageFrame

LEMMA UncommitWakeMessages ==
  ASSUME NEW p \in Senders \cup {Rx}, MInv, QInv', UncommitWake(p)
  PROVE  MInv' /\ ChanKept
<1>1. QueueLabelsKept
  BY MessageFrameTypes, FirstWaiter
     DEF MInv, QueueLabelsKept, UncommitWake, WakeProd, Goto, Procs
<1>2. MessageLabelsKept
  BY MessageFrameTypes, <1>1, FirstWaiter
     DEF MInv, MessageLabelsKept, Writing, Holding, Over, RxGone, UncommitWake,
         WakeProd, Goto, Procs
<1>3. /\ Enq' = Enq /\ Deq' = Deq
      /\ UNCHANGED <<queue, seen, sent, idx, indices, cells, got>>
      /\ enqueue_pos.closed => enqueue_pos'.closed
      /\ dequeue_pos.closed => dequeue_pos'.closed
      /\ state.errored => state'.errored
      /\ cons_wait.woken => cons_wait'.woken
  BY DEF UncommitWake, Enq, Deq, queueVars, elemVars, closeVars, countVars
<1> QED
  BY <1>2, <1>3, MessageFrame

LEMMA UnusedIndex ==
  ASSUME QInv, NEW p \in Procs, at[p] \in {"permit", "uncommit"}
  PROVE  idx[p] \in Indices
<1>1. p # Root
  BY DEF QInv, AInv, PlaceInv, RootLive, ErrLabels, Gone
<1>2. p = Rx => at[p] = "uncommit"
  BY DEF QInv, AInv, PlaceInv, RxLabels, ErrLabels
<1> QED
  BY <1>1, <1>2, MTypes DEF QInv, AInv, HoldInv, Holding, Procs, Handles

LEMMA NewSenderMessages ==
  ASSUME NEW h \in Handles, NEW s \in Senders, MInv, QInv', NewSender(h, s)
  PROVE  MInv' /\ ChanKept
<1> USE DEF MInv
<1>1. /\ at[s] = "absent" /\ at[h] \in Free /\ at' = [at EXCEPT ![s] = "idle"]
      /\ at \in [Procs -> Labels] /\ s \in Procs /\ s # Rx
      /\ \A t \in Senders : at'[t] = IF t = s THEN "idle" ELSE at[t]
      /\ at'[Rx] = at[Rx]
      /\ UNCHANGED <<queueVars, elemVars, cons_wait, idx, seen, countVars>>
      /\ state'.errored = state.errored
  BY MTypes DEF NewSender, Goto, waitVars
<1>2. PositionsKept
  BY <1>1 DEF PositionsKept, Enq, Deq, queueVars, countVars
<1>3. /\ Start' = Start /\ Enq' = Enq /\ Deq' = Deq
      /\ \A p : Storing(p)' <=> Storing(p)
      /\ \A p \in Start .. Enq - 1 : PendIdx(p)' = PendIdx(p)
      /\ \A p \in Start .. Enq - 1 : MsgAt(p)' = MsgAt(p)
      /\ \A t \in Senders : SentBy(t)' = SentBy(t)
  BY <1>1, <1>2, PendFrame DEF PositionsKept, MsgAt, elemVars
<1>4. CellInv'
  BY <1>1, CellFrame DEF elemVars, countVars, Writing, Holding
<1>5. OrderInv'
  BY <1>1, <1>3, OrderFrame DEF countVars, RxGone
<1>6. LeftInv'
  BY <1>1, <1>3, LeftFrame DEF elemVars, countVars, queueVars, Holding
<1>7. WakeInv'
  BY <1>1, <1>3, WakeFrame
<1>8. EndInv'
  <2>1. at[h] \notin Over
    BY <1>1 DEF Free, Over
  <2> QED
    BY <1>1, <2>1 DEF EndInv, queueVars
<1>9. MInv'
  BY <1>4, <1>5, <1>6, <1>7, <1>8
<1>10. ChanKept
  BY <1>1, <1>3, <1>9, ChanFrame DEF countVars
<1> QED
  BY <1>9, <1>10

LEMMA CloseReasonRxMessages ==
  ASSUME MInv, QInv', CloseReason(Rx)
  PROVE  MInv' /\ ChanKept
<1> USE DEF MInv
<1>1. /\ at[Rx] = "reason"
      /\ \A t \in Handles : at'[t] = at[t]
      /\ at'[Rx] = IF state.errored THEN "ended_error" ELSE "ended"
      /\ UNCHANGED <<queueVars, elemVars, state, cons_wait, idx, seen, countVars>>
  BY MTypes, PipeAssumption DEF CloseReason, Goto, Handles, waitVars, closeVars
<1>2. PositionsKept
  BY <1>1 DEF PositionsKept, Enq, Deq, queueVars, countVars, Handles
<1>3. /\ Start' = Start /\ Enq' = Enq /\ Deq' = Deq
      /\ \A p : Storing(p)' <=> Storing(p)
      /\ \A p \in Start .. Enq - 1 : PendIdx(p)' = PendIdx(p)
      /\ \A p \in Start .. Enq - 1 : MsgAt(p)' = MsgAt(p)
      /\ \A t \in Senders : SentBy(t)' = SentBy(t)
  BY <1>1, <1>2, PendFrame DEF PositionsKept, MsgAt, elemVars
<1>4. CellInv'
  BY <1>1, CellFrame DEF elemVars, countVars, Handles, Procs
<1>5. OrderInv'
  BY <1>1, <1>3, OrderFrame DEF countVars, RxGone
<1>6. LeftInv'
  BY <1>1, <1>3, LeftFrame DEF elemVars, countVars, queueVars, Handles
<1>7. WakeInv'
  BY <1>1, <1>3, WakeFrame DEF Handles
<1>8. EndInv'
  BY <1>1, <1>3 DEF EndInv
<1>9. MInv'
  BY <1>4, <1>5, <1>6, <1>7, <1>8
<1>10. ChanKept
  BY <1>1, <1>3, <1>9, ChanFrame DEF countVars
<1> QED
  BY <1>9, <1>10

LEMMA WriteCellMessages ==
  ASSUME NEW s \in Senders, MInv, QInv', WriteCell(s)
  PROVE  MInv' /\ ChanKept
<1> USE DEF MInv
<1>1. /\ at[s] = "permit" /\ s \in Procs /\ s # Rx
      /\ \A t \in Procs : at'[t] = IF t = s THEN "load_tail" ELSE at[t]
      /\ UNCHANGED <<queueVars, indices, closeVars, waitVars, idx, seen, countVars>>
  BY MTypes DEF WriteCell, Goto
<1>2. PositionsKept
  BY <1>1, MTypes DEF PositionsKept, Enq, Deq, queueVars, countVars
<1>3. /\ Start' = Start /\ Enq' = Enq /\ Deq' = Deq
      /\ \A p : Storing(p)' <=> Storing(p)
      /\ \A p \in Start .. Enq - 1 : PendIdx(p)' = PendIdx(p)
      /\ \A t \in Senders : SentBy(t)' = SentBy(t)
  BY <1>2, PendFrame DEF PositionsKept
<1>4. /\ idx[s] \in Indices /\ idx[s] \notin indices
      /\ \A q \in Procs : idx[q] = idx[s] => q = s
  BY <1>1, MTypes DEF QInv, AInv, HoldInv, Holding, OwnInv
<1>5. \A i \in Indices : cells'[i] =
        IF i = idx[s] THEN [src |-> s, n |-> sent[s] + 1] ELSE cells[i]
  BY MTypes DEF WriteCell
<1>6. CellInv'
  <2>1. \A t \in Senders : at'[t] \in Writing => cells'[idx[t]] = [src |-> t, n |-> sent[t] + 1]
    <3> TAKE t \in Senders
    <3> HAVE at'[t] \in Writing
    <3>1. t # s => at[t] \in Writing /\ idx[t] \in Indices
      BY <1>1, MTypes DEF QInv, AInv, HoldInv, Writing
    <3> QED
      BY <1>4, <1>5, <3>1, MTypes DEF CellInv
  <2>2. \A i \in indices : cells'[i] = Uninit
    BY <1>4, <1>5, QTypes DEF CellInv, QInv
  <2>3. \A p \in Procs : at'[p] \in {"permit", "uncommit"} => cells'[idx[p]] = Uninit
    <3> TAKE p \in Procs
    <3> HAVE at'[p] \in {"permit", "uncommit"}
    <3>1. p # s /\ at[p] \in {"permit", "uncommit"}
      BY <1>1
    <3>2. idx[p] \in Indices
      BY <3>1, UnusedIndex
    <3> QED
      BY <1>4, <1>5, <3>1, <3>2 DEF CellInv
  <2> QED
    BY <1>1, <2>1, <2>2, <2>3 DEF CellInv, countVars
<1>7. \A p \in Start .. Enq - 1 : MsgAt(p)' = MsgAt(p)
  BY <1>1, <1>3, <1>5, PendOwner, PendType DEF MsgAt
<1>8. OrderInv'
  BY <1>1, <1>3, <1>7, OrderFrame, MTypes DEF countVars, RxGone
<1>9. LeftInv'
  <2> SUFFICES ASSUME NEW i \in Indices, cells'[i] # Uninit
               PROVE  \/ \E p \in Start .. Enq - 1 : PendIdx(p) = i
                      \/ /\ cells'[i].src \in Senders
                         /\ cells'[i].n = sent[cells'[i].src] + 1
                         /\ \/ idx[cells'[i].src] = i
                            \/ /\ enqueue_pos.closed
                               /\ at'[cells'[i].src] \notin Holding \cup {"allocate"}
    BY <1>1, <1>3 DEF LeftInv, queueVars, countVars
  <2>1. CASE i = idx[s]
    BY <1>5, <2>1
  <2>2. CASE i # idx[s]
    BY <1>1, <1>5 DEF LeftInv, Holding, Procs, Handles
  <2> QED
    BY <2>1, <2>2
<1>10. WakeInv'
  BY <1>1, <1>3, WakeFrame, MTypes DEF waitVars
<1>11. EndInv'
  BY <1>1, <1>3, EndFrame DEF Over, queueVars, closeVars, Procs
<1>12. MInv'
  BY <1>6, <1>8, <1>9, <1>10, <1>11
<1>13. ChanKept
  BY <1>1, <1>3, <1>7, <1>12, ChanFrame, MTypes DEF countVars
<1> QED
  BY <1>12, <1>13

LEMMA WakeConsMessages ==
  ASSUME NEW s \in Senders, MInv, QInv', WakeCons(s)
  PROVE  MInv' /\ ChanKept
<1> USE DEF MInv
<1>1. /\ at[s] = "wake_cons" /\ s \in Procs /\ s # Rx
      /\ \A t \in Handles : at'[t] = IF t = s THEN "idle" ELSE at[t]
      /\ at'[Rx] = IF at[Rx] = "parked" THEN "idle" ELSE at[Rx]
      /\ cons_wait'.woken = TRUE
      /\ UNCHANGED <<queueVars, elemVars, state, idx, seen, countVars>>
  BY PipeAssumption
     DEF WakeCons, Woken, closeVars, Procs, Handles, QInv, AInv, TypeOK
<1>2. PositionsKept
  BY <1>1 DEF PositionsKept, Enq, Deq, queueVars, countVars, Handles
<1>3. /\ Start' = Start /\ Enq' = Enq /\ Deq' = Deq
      /\ \A p : Storing(p)' <=> Storing(p)
      /\ \A p \in Start .. Enq - 1 : PendIdx(p)' = PendIdx(p)
      /\ \A p \in Start .. Enq - 1 : MsgAt(p)' = MsgAt(p)
      /\ \A t \in Senders : SentBy(t)' = SentBy(t)
  BY <1>1, <1>2, PendFrame DEF PositionsKept, MsgAt, elemVars
<1>4. CellInv'
  BY <1>1, CellFrame DEF elemVars, countVars, Handles, Procs, Writing, Holding
<1>5. OrderInv'
  BY <1>1, <1>3, OrderFrame DEF countVars, RxGone
<1>6. LeftInv'
  BY <1>1, <1>3, LeftFrame DEF elemVars, countVars, queueVars, Handles, Holding
<1>7. WakeInv'
  BY <1>1 DEF WakeInv
<1>8. EndInv'
  BY <1>1, <1>3, EndFrame DEF Over, queueVars
<1>9. MInv'
  BY <1>4, <1>5, <1>6, <1>7, <1>8
<1>10. ChanKept
  BY <1>1, <1>3, <1>9, ChanFrame DEF countVars
<1> QED
  BY <1>9, <1>10

LEMMA PollWaitMessages ==
  ASSUME MInv, QInv', PollWait
  PROVE  MInv' /\ ChanKept
<1> USE DEF MInv
<1>1. /\ at[Rx] = "poll_wait" /\ at'[Rx] \in {"idle", "parked"}
      /\ \A t \in Handles : at'[t] = at[t]
      /\ at'[Rx] = "parked" => ~cons_wait.woken
      /\ UNCHANGED <<queueVars, elemVars, state, idx, seen, countVars>>
  BY MTypes, PipeAssumption DEF PollWait, Goto, closeVars, Handles
<1>2. PositionsKept
  BY <1>1 DEF PositionsKept, Enq, Deq, queueVars, countVars, Handles
<1>3. /\ Start' = Start /\ Enq' = Enq /\ Deq' = Deq
      /\ \A p : Storing(p)' <=> Storing(p)
      /\ \A p \in Start .. Enq - 1 : PendIdx(p)' = PendIdx(p)
      /\ \A p \in Start .. Enq - 1 : MsgAt(p)' = MsgAt(p)
      /\ \A t \in Senders : SentBy(t)' = SentBy(t)
  BY <1>1, <1>2, PendFrame DEF PositionsKept, MsgAt, elemVars
<1>4. CellInv'
  BY <1>1, CellFrame DEF elemVars, countVars, Handles, Procs
<1>5. OrderInv'
  BY <1>1, <1>3, OrderFrame DEF countVars, RxGone
<1>6. LeftInv'
  BY <1>1, <1>3, LeftFrame DEF elemVars, countVars, queueVars, Handles
<1>7. WakeInv'
  BY <1>1, <1>3 DEF WakeInv, Handles
<1>8. EndInv'
  BY <1>1, <1>3, EndFrame DEF queueVars
<1>9. MInv'
  BY <1>4, <1>5, <1>6, <1>7, <1>8
<1>10. ChanKept
  BY <1>1, <1>3, <1>9, ChanFrame DEF countVars
<1> QED
  BY <1>9, <1>10

LEMMA AllocateMessages ==
  ASSUME NEW s \in Senders, MInv, QInv', Allocate(s)
  PROVE  MInv' /\ ChanKept
<1> USE DEF MInv
<1>1. /\ at[s] = "allocate" /\ s \in Procs /\ s # Rx
      /\ \A t \in Procs : at'[t] = IF t = s THEN "permit" ELSE at[t]
      /\ UNCHANGED <<queueVars, cells, closeVars, waitVars, seen, countVars>>
  BY MTypes DEF Allocate, Goto
<1>2. PICK i \in indices : /\ indices' = indices \ {i}
                           /\ \A t \in Procs : idx'[t] = IF t = s THEN i ELSE idx[t]
  BY MTypes DEF Allocate
<1>3. idx[s] = NoIndex /\ NoIndex \notin Indices
  BY <1>1, ZeroTypes DEF QInv, AInv, HoldInv, Holding
<1>4. PositionsKept
  BY <1>1, <1>2, MTypes DEF PositionsKept, Enq, Deq, queueVars, countVars
<1>5. /\ Start' = Start /\ Enq' = Enq /\ Deq' = Deq
      /\ \A p : Storing(p)' <=> Storing(p)
      /\ \A p \in Start .. Enq - 1 : PendIdx(p)' = PendIdx(p)
      /\ \A p \in Start .. Enq - 1 : MsgAt(p)' = MsgAt(p)
      /\ \A t \in Senders : SentBy(t)' = SentBy(t)
  BY <1>1, <1>4, PendFrame DEF PositionsKept, MsgAt
<1>6. CellInv'
  BY <1>1, <1>2, MTypes DEF CellInv, countVars, Writing
<1>7. OrderInv'
  BY <1>1, <1>5, OrderFrame, MTypes DEF countVars, RxGone
<1>8. LeftInv'
  <2>1. \A t \in Senders : t # s =>
          idx'[t] = idx[t] /\ at'[t] = at[t]
    BY <1>1, <1>2, MTypes
  <2> QED
    BY <1>1, <1>3, <1>5, <2>1 DEF LeftInv, queueVars, countVars
<1>9. WakeInv'
  BY <1>1, <1>5, WakeFrame, MTypes DEF waitVars
<1>10. EndInv'
  BY <1>1, <1>5, EndFrame DEF Over, queueVars, closeVars, Procs
<1>11. MInv'
  BY <1>6, <1>7, <1>8, <1>9, <1>10
<1>12. ChanKept
  BY <1>1, <1>5, <1>11, ChanFrame, MTypes DEF countVars
<1> QED
  BY <1>11, <1>12

LEMMA UncommitMessages ==
  ASSUME NEW r \in Senders \cup {Rx}, MInv, QInv', Uncommit(r)
  PROVE  MInv' /\ ChanKept
<1> USE DEF MInv
<1>1. /\ at[r] = "uncommit" /\ r \in Procs
      /\ \A t \in Procs : at'[t] = IF t = r THEN "wake_prod" ELSE at[t]
      /\ \A t \in Procs : idx'[t] = IF t = r THEN NoIndex ELSE idx[t]
      /\ indices' = indices \cup {idx[r]}
      /\ UNCHANGED <<queueVars, cells, closeVars, waitVars, seen, countVars>>
  BY MTypes DEF Uncommit, Goto
<1>2. cells[idx[r]] = Uninit
  BY <1>1 DEF CellInv
<1>3. PositionsKept
  BY <1>1, MTypes DEF PositionsKept, Enq, Deq, queueVars, countVars
<1>4. /\ Start' = Start /\ Enq' = Enq /\ Deq' = Deq
      /\ \A p : Storing(p)' <=> Storing(p)
      /\ \A p \in Start .. Enq - 1 : PendIdx(p)' = PendIdx(p)
      /\ \A p \in Start .. Enq - 1 : MsgAt(p)' = MsgAt(p)
      /\ \A t \in Senders : SentBy(t)' = SentBy(t)
  BY <1>1, <1>3, PendFrame DEF PositionsKept, MsgAt
<1>5. CellInv'
  BY <1>1, MTypes DEF CellInv, countVars, Writing, Holding
<1>6. OrderInv'
  BY <1>1, <1>4, OrderFrame, MTypes DEF countVars, RxGone
<1>7. LeftInv'
  <2>1. \A t \in Senders : t # r => idx'[t] = idx[t] /\ at'[t] = at[t]
    BY <1>1, MTypes
  <2>2. at[r] \in Holding
    BY <1>1 DEF Holding
  <2> QED
    BY <1>1, <1>2, <1>4, <2>1, <2>2 DEF LeftInv, queueVars, countVars
<1>8. WakeInv'
  BY <1>1, <1>4, WakeFrame, MTypes DEF waitVars
<1>9. EndInv'
  BY <1>1, <1>4, EndFrame DEF Over, queueVars, closeVars, Procs
<1>10. MInv'
  BY <1>5, <1>6, <1>7, <1>8, <1>9
<1>11. ChanKept
  BY <1>1, <1>4, <1>10, ChanFrame, MTypes DEF countVars
<1> QED
  BY <1>10, <1>11

LEMMA GotTailMessages ==
  ASSUME NEW s \in Senders, MInv, QInv', at[s] \in {"load_tail", "cas_tail"},
         GotTail(s), UNCHANGED <<queueVars, elemVars, closeVars, waitVars, countVars>>
  PROVE  MInv' /\ ChanKept
<1> USE DEF MInv
<1>1. /\ s \in Procs /\ s # Rx
      /\ \A t \in Procs : t # s => seen'[t] = seen[t] /\ at'[t] = at[t] /\ idx'[t] = idx[t]
      /\ at'[s] = IF enqueue_pos.closed THEN "reason" ELSE "load_slot"
      /\ ~enqueue_pos.closed => idx'[s] = idx[s]
  BY MTypes DEF GotTail, Goto
<1>2. PositionsKept
  BY <1>1, MTypes DEF PositionsKept, Enq, Deq, queueVars, countVars
<1>3. /\ Start' = Start /\ Enq' = Enq /\ Deq' = Deq
      /\ \A p : Storing(p)' <=> Storing(p)
      /\ \A p \in Start .. Enq - 1 : PendIdx(p)' = PendIdx(p)
      /\ \A p \in Start .. Enq - 1 : MsgAt(p)' = MsgAt(p)
      /\ \A t \in Senders : SentBy(t)' = SentBy(t)
  BY <1>2, PendFrame DEF PositionsKept, MsgAt, elemVars
<1>4. CellInv'
  <2>1. \A t \in Senders : at'[t] \in Writing => at[t] \in Writing /\ idx'[t] = idx[t]
    BY <1>1, MTypes DEF Writing, Holding
  <2>2. \A p \in Procs : at'[p] \in {"permit", "uncommit"} =>
          at[p] \in {"permit", "uncommit"} /\ idx'[p] = idx[p]
    BY <1>1
  <2> QED
    BY <2>1, <2>2, CellFrame DEF elemVars, countVars
<1>5. OrderInv'
  BY <1>1, <1>3, OrderFrame, MTypes DEF countVars, RxGone
<1>6. LeftInv'
  <2>1. \A t \in Senders : t # s => idx'[t] = idx[t] /\ at'[t] = at[t]
    BY <1>1, MTypes
  <2>2. UNCHANGED <<cells, sent, enqueue_pos>>
    BY DEF elemVars, countVars, queueVars
  <2>3. CASE enqueue_pos.closed
    <3>1. at'[s] \notin Holding \cup {"allocate"}
      BY <1>1, <2>3 DEF Holding
    <3> QED
      BY <1>3, <2>1, <2>2, <2>3, <3>1 DEF LeftInv
  <2>4. CASE ~enqueue_pos.closed
    <3>1. \A t \in Senders : idx'[t] = idx[t]
      BY <1>1, <2>1, <2>4
    <3> QED
      BY <1>3, <2>2, <2>4, <3>1, LeftFrame
  <2> QED
    BY <2>3, <2>4
<1>7. WakeInv'
  BY <1>1, <1>3, WakeFrame, MTypes DEF waitVars
<1>8. EndInv'
  BY <1>1, <1>3, EndFrame DEF Over, queueVars, closeVars, Procs
<1>9. MInv'
  BY <1>4, <1>5, <1>6, <1>7, <1>8
<1>10. ChanKept
  BY <1>1, <1>3, <1>9, ChanFrame, MTypes DEF countVars
<1> QED
  BY <1>9, <1>10

LEMMA GotHeadMessages ==
  ASSUME MInv, QInv', at[Rx] \in {"idle", "cas_head"}, GotHead,
         UNCHANGED <<queueVars, elemVars, closeVars, waitVars, idx, countVars>>
  PROVE  MInv' /\ ChanKept
<1> USE DEF MInv
<1>1. /\ \A t \in Handles : seen'[t] = seen[t] /\ at'[t] = at[t]
      /\ at'[Rx] = "load_slot_rx" /\ seen'[Rx].closed = dequeue_pos.closed
  BY MTypes, QTypes, PipeAssumption DEF GotHead, Goto, QInv, Handles
<1>2. PositionsKept
  BY <1>1 DEF PositionsKept, Enq, Deq, queueVars, countVars, Handles
<1>3. /\ Start' = Start /\ Enq' = Enq /\ Deq' = Deq
      /\ \A p : Storing(p)' <=> Storing(p)
      /\ \A p \in Start .. Enq - 1 : PendIdx(p)' = PendIdx(p)
      /\ \A p \in Start .. Enq - 1 : MsgAt(p)' = MsgAt(p)
      /\ \A t \in Senders : SentBy(t)' = SentBy(t)
  BY <1>2, PendFrame DEF PositionsKept, MsgAt, elemVars
<1>4. CellInv'
  BY <1>1, CellFrame DEF elemVars, countVars, Handles, Procs
<1>5. OrderInv'
  BY <1>3, OrderFrame DEF countVars, RxGone
<1>6. LeftInv'
  BY <1>1, <1>3, LeftFrame DEF elemVars, countVars, queueVars, Handles
<1>7. WakeInv'
  BY <1>1 DEF WakeInv
<1>8. EndInv'
  BY <1>1 DEF EndInv, queueVars
<1>9. MInv'
  BY <1>4, <1>5, <1>6, <1>7, <1>8
<1>10. ChanKept
  BY <1>1, <1>3, <1>9, ChanFrame DEF countVars
<1> QED
  BY <1>9, <1>10

LEMMA LoadSlotRxMessages ==
  ASSUME MInv, QInv', LoadSlotRx
  PROVE  MInv' /\ ChanKept
<1> USE DEF MInv
<1> DEFINE slot == queue[Slot(seen[Rx].pos)]
<1>1. /\ at[Rx] = "load_slot_rx" /\ seen[Rx].pos = Deq
      /\ \A t \in Handles : seen'[t] = seen[t] /\ at'[t] = at[t]
      /\ UNCHANGED <<queueVars, elemVars, closeVars, waitVars, idx, countVars>>
  BY QTypes, PipeAssumption DEF LoadSlotRx, Goto, QInv, RxInv, Procs, Handles
<1>2. /\ at'[Rx] \in {"reason", "poll_wait", "cas_head", "idle"}
      /\ at'[Rx] \in {"reason", "poll_wait"} => slot.seq < Deq + 1
      /\ at'[Rx] = "reason" => seen[Rx].closed
  <2> DEFINE ready == ReadySeq(seen[Rx].pos)
             lbl == CASE slot.seq < ready /\ seen[Rx].closed -> "reason"
                      [] slot.seq < ready /\ ~seen[Rx].closed -> "poll_wait"
                      [] slot.seq = ready -> "cas_head"
                      [] slot.seq > ready -> "idle"
  <2>1. slot.seq \in Nat /\ ready \in Nat /\ ready = Deq + 1 /\ Rx \in Procs
    BY <1>1, QTypes, SlotType DEF QInv, ReadySeq, Procs
  <2>2. lbl \in {"reason", "poll_wait", "cas_head", "idle"}
    BY <2>1
  <2>3. lbl \in {"reason", "poll_wait"} => slot.seq < ready
    BY <2>1
  <2>4. lbl = "reason" => seen[Rx].closed
    BY <2>1
  <2>5. at' = [at EXCEPT ![Rx] = lbl]
    BY DEF LoadSlotRx, Goto
  <2> HIDE DEF lbl
  <2>6. at'[Rx] = lbl
    BY <2>5, MTypes
  <2> QED
    BY <2>1, <2>2, <2>3, <2>4, <2>6
<1>3. at'[Rx] \in {"reason", "poll_wait"} => ~(Deq < Enq /\ ~Storing(Deq))
  <2>1. First = Deq /\ Deq \in First .. First + MAX_CAPACITY - 1
    BY <1>1, MTypes, PipeAssumption DEF First
  <2>2. Deq < Enq /\ ~Storing(Deq) => slot.seq = Deq + 1
    BY <1>1, <2>1 DEF QInv, SlotInv
  <2> QED
    BY <1>2, <2>2, MTypes
<1>4. PositionsKept
  BY <1>1, <1>2 DEF PositionsKept, Enq, Deq, queueVars, countVars, Handles
<1>5. /\ Start' = Start /\ Enq' = Enq /\ Deq' = Deq
      /\ \A p : Storing(p)' <=> Storing(p)
      /\ \A p \in Start .. Enq - 1 : PendIdx(p)' = PendIdx(p)
      /\ \A p \in Start .. Enq - 1 : MsgAt(p)' = MsgAt(p)
      /\ \A t \in Senders : SentBy(t)' = SentBy(t)
  BY <1>1, <1>4, PendFrame DEF PositionsKept, MsgAt, elemVars
<1>6. CellInv'
  BY <1>1, <1>2, CellFrame DEF elemVars, countVars, Handles, Procs
<1>7. OrderInv'
  BY <1>1, <1>5, OrderFrame DEF countVars, RxGone
<1>8. LeftInv'
  BY <1>1, <1>5, LeftFrame DEF elemVars, countVars, queueVars, Handles
<1>9. WakeInv'
  BY <1>2, <1>3, <1>5 DEF WakeInv
<1>10. EndInv'
  <2> SUFFICES ASSUME at'[Rx] = "reason", ~state'.errored
               PROVE  Deq = Enq /\ \A h \in Handles : at'[h] \in Over
    BY <1>2, <1>5 DEF EndInv
  <2>1. dequeue_pos.closed /\ ~state.errored
    BY <1>1, <1>2 DEF EndInv, closeVars
  <2>2. \A h \in Handles : at[h] \in Over
    BY <2>1 DEF QInv, AInv, CloseInv, Over
  <2>3. ~Storing(Deq)
    BY <2>2 DEF Storing, Over, Handles
  <2>4. \A h \in Handles : at'[h] \in Over
    BY <1>1, <2>2
  <2>5. ~(Deq < Enq) /\ Deq <= Enq /\ Deq \in Nat /\ Enq \in Nat
    BY <1>3, <2>3, MTypes
  <2> QED
    BY <2>4, <2>5
<1>11. MInv'
  BY <1>6, <1>7, <1>8, <1>9, <1>10
<1>12. ChanKept
  BY <1>1, <1>2, <1>5, <1>11, ChanFrame DEF countVars
<1> QED
  BY <1>11, <1>12

LEMMA LoadSlotMessages ==
  ASSUME NEW s \in Senders, MInv, QInv', LoadSlot(s)
  PROVE  MInv' /\ ChanKept
<1> USE DEF MInv
<1>1. /\ at[s] = "load_slot" /\ s \in Procs /\ s # Rx
      /\ \A t \in Procs : t # s => at'[t] = at[t]
      /\ UNCHANGED <<queueVars, elemVars, closeVars, waitVars, idx, seen, countVars>>
  BY MTypes DEF LoadSlot, Goto
<1>2. at'[s] \in {"panic", "cas_tail", "load_tail"}
  <2> DEFINE seq == queue[Slot(seen[s].pos)].seq
             lbl == CASE seq < seen[s].pos -> "panic"
                      [] seq = seen[s].pos -> "cas_tail"
                      [] seq > seen[s].pos -> "load_tail"
  <2>1. seq \in Nat /\ seen[s].pos \in Nat
    BY <1>1, QTypes, SlotType DEF QInv
  <2>2. lbl \in {"panic", "cas_tail", "load_tail"}
    BY <2>1
  <2>3. at' = [at EXCEPT ![s] = lbl]
    BY DEF LoadSlot, Goto
  <2> HIDE DEF lbl
  <2> QED
    BY <2>2, <2>3, MTypes
<1>3. at'[s] # "panic"
  BY <1>1 DEF QInv, NoPanic
<1>4. QueueLabelsKept
  BY <1>1, <1>2, <1>3, MTypes DEF QueueLabelsKept
<1>5. MessageLabelsKept
  BY <1>1, <1>2, <1>4, MTypes
     DEF MessageLabelsKept, Writing, Holding, Over, RxGone, Procs
<1>6. Enq' = Enq /\ Deq' = Deq
  BY <1>1 DEF Enq, Deq, queueVars
<1> QED
  BY <1>1, <1>5, <1>6, MessageFrame
     DEF queueVars, elemVars, closeVars, waitVars, countVars

-----------------------------------------------------------------------------
\* The steps that move a message.

LEMMA CasTailMessages ==
  ASSUME NEW s \in Senders, MInv, QInv', Enq' = Enq + 1, CasTail(s)
  PROVE  /\ MInv' /\ Start' = Start /\ Deq' = Deq
         /\ \A p \in Start .. Enq - 1 : MsgAt(p)' = MsgAt(p)
         /\ \A e \in {Enq} : MsgAt(e)' = [src |-> s, n |-> sent[s] + 1]
         /\ \A t \in Senders : SentBy(t)' = IF t = s THEN sent[s] + 1 ELSE SentBy(t)
<1> USE DEF MInv
<1>1. PICK e \in Nat : e = Enq
  BY MTypes
<1>2. /\ at[s] = "cas_tail" /\ s \in Procs /\ s # Rx /\ seen[s].pos = Enq
      /\ \A t \in Procs : at'[t] = IF t = s THEN "store_slot" ELSE at[t]
      /\ Deq' = Deq /\ enqueue_pos'.closed = enqueue_pos.closed
      /\ UNCHANGED <<dequeue_pos, queue, elemVars, closeVars, waitVars, idx, seen,
                     countVars>>
  BY MTypes DEF CasTail, SeenEnqueue, Goto, Enq, Deq
<1>3. /\ First' = First /\ Start' = Start
      /\ Start \in Int /\ First \in Nat /\ Enq \in Nat /\ First <= Enq /\ Start <= First
  BY <1>2, MTypes DEF First, Start
<1>4. \A p : Storing(p)' <=> Storing(p) \/ p = Enq
  BY <1>2, MTypes DEF Storing
<1>5. cells[idx[s]] = [src |-> s, n |-> sent[s] + 1] /\ sent[s] \in Nat
  BY <1>2, MTypes DEF CellInv, Writing, Holding
<1>6. \A t \in Senders : SentBy(t)' = IF t = s THEN sent[s] + 1 ELSE SentBy(t)
  BY <1>2, MTypes DEF SentBy, countVars
<1>7. SentBy(s) = sent[s]
  BY <1>2, MTypes DEF SentBy
<1>8. \A p \in Start .. Enq - 1 : PendIdx(p)' = PendIdx(p)
  <2> TAKE p \in Start .. Enq - 1
  <2>1. p # Enq /\ p \in Int
    OBVIOUS
  <2>2. CASE p < First
    BY <1>2, <1>3, <2>2 DEF PendIdx
  <2>3. CASE ~(p < First) /\ Storing(p)
    <3>1. PICK t \in Senders : at[t] = "store_slot" /\ seen[t].pos = p
      BY <2>3 DEF Storing
    <3>2. at'[t] = "store_slot" /\ seen'[t].pos = p
      BY <1>2, <3>1, MTypes
    <3>3. IndexOf(p) = idx[t] /\ IndexOf(p)' = idx'[t]
      BY <3>1, <3>2, IndexOfStoring, IndexOfStoringNext DEF QInv
    <3> QED
      BY <1>2, <1>3, <3>3 DEF PendIdx
  <2>4. CASE ~(p < First) /\ ~Storing(p)
    BY <1>2, <1>3, <1>4, <2>4 DEF PendIdx, IndexOf
  <2> QED
    BY <2>2, <2>3, <2>4
<1>9. PendIdx(e)' = idx[s]
  <2>1. IndexOf(e)' = idx'[s]
    <3>1. at'[s] = "store_slot" /\ seen'[s].pos = e
      BY <1>1, <1>2
    <3> QED
      BY <3>1, IndexOfStoringNext DEF QInv
  <2>2. ~(e < First')
    BY <1>1, <1>3
  <2> QED
    BY <1>2, <2>1, <2>2 DEF PendIdx
<1>10. /\ MsgAt(e)' = [src |-> s, n |-> sent[s] + 1]
      /\ \A p \in Start .. Enq - 1 : MsgAt(p)' = MsgAt(p)
  BY <1>2, <1>5, <1>8, <1>9 DEF MsgAt, elemVars
<1>11. \A p \in Start .. Enq' - 1 : p \in Start .. Enq - 1 \/ p = e
  BY <1>1
<1>12. /\ e \in Start .. Enq' - 1
       /\ \A p \in Start .. Enq - 1 : p \in Start .. Enq' - 1
  BY <1>1, <1>3
<1>13. CellInv'
  BY <1>2, CellFrame, MTypes DEF elemVars, countVars, Writing, Holding
<1>14. OrderInv'
  <2>1. \A t \in Senders : got[t] \in Nat /\ SentBy(t) \in Nat
    BY MTypes
  <2>2. \A t \in Senders : got[t] <= SentBy(t)'
    BY <1>6, <1>7, <2>1 DEF OrderInv
  <2>3. \A p \in Start .. Enq - 1 :
          /\ MsgAt(p).src \in Senders /\ MsgAt(p).n \in Nat
          /\ got[MsgAt(p).src] < MsgAt(p).n /\ MsgAt(p).n <= SentBy(MsgAt(p).src)
    BY PendType, MTypes DEF OrderInv, MsgAt
  <2>4. \A p \in Start .. Enq' - 1 :
          \E t \in Senders : /\ MsgAt(p)'.src = t /\ got[t] < MsgAt(p)'.n
                             /\ MsgAt(p)'.n <= SentBy(t)'
    <3> TAKE p \in Start .. Enq' - 1
    <3>1. CASE p = e
      <4>1. got[s] <= sent[s]
        BY <1>7 DEF OrderInv
      <4> QED
        BY <1>5, <1>6, <1>10, <2>1, <3>1, <4>1
    <3>2. CASE p \in Start .. Enq - 1
      <4>1. PICK t \in Senders : t = MsgAt(p).src
        BY <2>3, <3>2
      <4>2. SentBy(t) <= SentBy(t)'
        BY <1>6, <1>7, <2>1
      <4>3. SentBy(t)' \in Nat /\ SentBy(t) \in Nat
        BY <1>5, <1>6, <2>1
      <4> QED
        BY <1>10, <2>3, <3>2, <4>1, <4>2, <4>3
    <3> QED
      BY <1>11, <3>1, <3>2
  <2>5. \A p, q \in Start .. Enq' - 1 :
          p < q /\ MsgAt(p)'.src = MsgAt(q)'.src => MsgAt(p)'.n < MsgAt(q)'.n
    <3> TAKE p, q \in Start .. Enq' - 1
    <3> HAVE p < q /\ MsgAt(p)'.src = MsgAt(q)'.src
    <3>1. p \in Start .. Enq - 1
      BY <1>1
    <3>2. CASE q = e
      BY <1>5, <1>7, <1>10, <2>3, <3>1, <3>2
    <3>3. CASE q \in Start .. Enq - 1
      BY <1>10, <3>1, <3>3 DEF OrderInv
    <3> QED
      BY <1>11, <3>2, <3>3
  <2>6. ASSUME ~RxGone', NEW t \in Senders, NEW n \in 1 .. MaxMsgs,
               got[t] < n, n <= SentBy(t)'
        PROVE  \E p \in Start .. Enq' - 1 : MsgAt(p)' = [src |-> t, n |-> n]
    <3>1. CASE t = s /\ n = sent[s] + 1
      BY <1>10, <1>12, <3>1
    <3>2. CASE ~(t = s /\ n = sent[s] + 1)
      <4>1. n <= SentBy(t)
        BY <1>5, <1>6, <1>7, <2>6, <3>2
      <4>2. ~RxGone
        BY <1>2, <2>6, MTypes DEF RxGone
      <4>3. PICK p \in Start .. Enq - 1 : MsgAt(p) = [src |-> t, n |-> n]
        BY <2>6, <4>1, <4>2 DEF OrderInv
      <4> QED
        BY <1>10, <1>12, <4>3
    <3> QED
      BY <3>1, <3>2
  <2> QED
    BY <1>2, <1>3, <2>2, <2>4, <2>5, <2>6 DEF OrderInv, countVars
<1>15. LeftInv'
  <2>1. \A t \in Senders : at'[t] \in Holding \cup {"allocate"} =>
          at[t] \in Holding \cup {"allocate"}
    BY <1>2, MTypes DEF Holding
  <2> QED
    BY <1>2, <1>3, <1>8, <2>1 DEF LeftInv, elemVars, countVars
<1>16. WakeInv'
  <2> SUFFICES ASSUME at'[Rx] \in {"poll_wait", "parked"}, Deq < Enq', ~Storing(Deq)'
               PROVE  \/ \E t \in Senders : at'[t] = "wake_cons"
                      \/ at'[Rx] = "poll_wait" /\ cons_wait.woken
    BY <1>2 DEF WakeInv, waitVars
  <2>1. Deq < Enq /\ ~Storing(Deq)
    <3>1. PICK d \in Nat : d = Deq
      BY MTypes
    <3>2. ~Storing(d)'
      BY <1>2, <3>1
    <3>3. ~Storing(d) /\ d # Enq
      BY <1>4, <3>2
    <3> QED
      BY <1>3, <3>1, <3>3
  <2> QED
    BY <1>2, <2>1, MTypes DEF WakeInv
<1>17. EndInv'
  <2>1. s \in Handles /\ at[s] \notin Over
    BY <1>2 DEF Handles, Over
  <2>2. ~((at[Rx] = "reason" /\ ~state.errored) \/ at[Rx] = "ended")
    BY <2>1 DEF EndInv
  <2> QED
    BY <1>2, <2>2, MTypes DEF EndInv, closeVars
<1>18. MInv'
  BY <1>13, <1>14, <1>15, <1>16, <1>17
<1>19. \A p \in {Enq} : MsgAt(p)' = [src |-> s, n |-> sent[s] + 1]
  BY <1>1, <1>10
<1> QED
  BY <1>2, <1>3, <1>6, <1>10, <1>18, <1>19

LEMMA StoreSlotMessages ==
  ASSUME NEW s \in Senders, MInv, QInv', StoreSlot(s)
  PROVE  MInv' /\ ChanKept
<1> USE DEF MInv
<1> DEFINE pos == seen[s].pos
<1>1. /\ at[s] = "store_slot" /\ s \in Procs /\ s # Rx
      /\ \A t \in Procs : at'[t] = IF t = s THEN "wake_cons" ELSE at[t]
      /\ \A t \in Procs : idx'[t] = IF t = s THEN NoIndex ELSE idx[t]
      /\ Deq' = Deq /\ Enq' = Enq
      /\ UNCHANGED <<enqueue_pos, dequeue_pos, elemVars, closeVars, waitVars, seen, got>>
  BY MTypes DEF StoreSlot, Goto, Enq, Deq
<1>2. \A t \in Senders : sent'[t] = IF t = s THEN sent[s] + 1 ELSE sent[t]
  BY MTypes DEF StoreSlot
<1>3. First' = First /\ Start' = Start
  BY <1>1, MTypes DEF First, Start
<1>4. \A p : Storing(p)' <=> Storing(p) /\ p # pos
  <2>1. \A t \in Senders : at[t] = "store_slot" /\ seen[t].pos = pos => t = s
    BY <1>1 DEF QInv, SenderInv
  <2> QED
    BY <1>1, <2>1, MTypes DEF Storing
<1>5. /\ pos \in First .. Enq - 1 /\ pos \in Start .. Enq - 1 /\ pos \in Nat
      /\ IndexOf(pos) = idx[s]
  <2>1. pos \in Nat
    BY <1>1, QTypes DEF QInv
  <2>2. Deq <= pos /\ pos < Enq
    BY <1>1 DEF QInv, SenderInv
  <2>3. IndexOf(pos) = idx[s]
    BY <1>1, IndexOfStoring DEF QInv
  <2> QED
    BY <2>1, <2>2, <2>3, MTypes
<1>6. \A k \in Slots : queue'[k] =
        IF k = Slot(pos) THEN [seq |-> PosAdd(pos, 1), idx |-> idx[s]] ELSE queue[k]
  BY QTypes DEF QInv, StoreSlot
<1>7. \A p \in First .. Enq - 1 : Slot(p) \in Slots /\ (p # pos => Slot(p) # Slot(pos))
  <2> TAKE p \in First .. Enq - 1
  <2>1. p \in Nat
    BY MTypes
  <2>2. p < pos + MAX_CAPACITY /\ pos < p + MAX_CAPACITY
    BY <1>5, Room, MTypes, PipeAssumption
  <2> QED
    BY <1>5, <2>1, <2>2, SlotsDiffer, SlotType
<1>8. \A p \in Start .. Enq - 1 : PendIdx(p)' = PendIdx(p)
  <2> TAKE p \in Start .. Enq - 1
  <2>1. CASE p < First
    BY <1>1, <1>3, <2>1, MTypes DEF PendIdx
  <2>2. CASE ~(p < First)
    <3>1. p \in First .. Enq - 1
      BY <2>2, MTypes
    <3>2. PendIdx(p) = IndexOf(p) /\ PendIdx(p)' = IndexOf(p)'
      BY <1>3, <2>2 DEF PendIdx
    <3>3. CASE p = pos
      <4>1. IndexOf(p)' = queue'[Slot(pos)].idx
        BY <1>4, <3>3 DEF IndexOf
      <4> QED
        BY <1>5, <1>6, <1>7, <3>2, <3>3, <4>1
    <3>4. CASE p # pos /\ Storing(p)
      <4>1. PICK t \in Senders : at[t] = "store_slot" /\ seen[t].pos = p
        BY <3>4 DEF Storing
      <4>2. at'[t] = "store_slot" /\ seen'[t].pos = p /\ idx'[t] = idx[t]
        BY <1>1, <3>4, <4>1, MTypes
      <4>3. IndexOf(p) = idx[t] /\ IndexOf(p)' = idx'[t]
        BY <4>1, <4>2, IndexOfStoring, IndexOfStoringNext DEF QInv
      <4> QED
        BY <3>2, <4>2, <4>3
    <3>5. CASE p # pos /\ ~Storing(p)
      BY <1>4, <1>6, <1>7, <3>1, <3>2, <3>5 DEF IndexOf
    <3> QED
      BY <3>3, <3>4, <3>5
  <2> QED
    BY <2>1, <2>2
<1>9. \A t \in Senders : SentBy(t)' = SentBy(t)
  BY <1>1, <1>2, MTypes DEF SentBy
<1>10. PendIdx(pos) = idx[s]
  <2>1. ~(pos < First)
    BY <1>5, MTypes
  <2> QED
    BY <1>5, <2>1 DEF PendIdx
<1>11. CellInv'
  <2>1. \A t \in Senders : at'[t] \in Writing =>
          at[t] \in Writing /\ sent'[t] = sent[t] /\ idx'[t] = idx[t]
    BY <1>1, <1>2, MTypes DEF Writing, Holding
  <2>2. \A p \in Procs : at'[p] \in {"permit", "uncommit"} =>
          at[p] \in {"permit", "uncommit"} /\ idx'[p] = idx[p]
    BY <1>1
  <2> QED
    BY <1>1, <2>1 DEF CellInv, elemVars
<1>12. \A p \in Start .. Enq - 1 : MsgAt(p)' = MsgAt(p)
  BY <1>1, <1>8 DEF MsgAt, elemVars
<1>13. OrderInv'
  BY <1>1, <1>3, <1>9, <1>12, OrderFrame, MTypes DEF RxGone
<1>14. LeftInv'
  <2> SUFFICES ASSUME NEW i \in Indices, cells[i] # Uninit,
                      ~\E p \in Start .. Enq - 1 : PendIdx(p) = i
               PROVE  /\ cells[i].src \in Senders
                      /\ cells[i].n = sent'[cells[i].src] + 1
                      /\ \/ idx'[cells[i].src] = i
                         \/ /\ enqueue_pos.closed
                            /\ at'[cells[i].src] \notin Holding \cup {"allocate"}
    BY <1>1, <1>3, <1>8 DEF LeftInv, elemVars
  <2> DEFINE t == cells[i].src
  <2>1. /\ t \in Senders /\ cells[i].n = sent[t] + 1
        /\ idx[t] = i \/ (enqueue_pos.closed /\ at[t] \notin Holding \cup {"allocate"})
    BY DEF LeftInv
  <2>2. t # s
    BY <1>1, <1>5, <1>10, <2>1 DEF Holding
  <2> QED
    BY <1>1, <1>2, <2>1, <2>2, MTypes
<1>15. WakeInv'
  BY <1>1 DEF WakeInv
<1>16. EndInv'
  <2>1. s \in Handles /\ at[s] \notin Over
    BY <1>1 DEF Handles, Over
  <2>2. ~((at[Rx] = "reason" /\ ~state.errored) \/ at[Rx] = "ended")
    BY <2>1 DEF EndInv
  <2> QED
    BY <1>1, <2>2, MTypes DEF EndInv, closeVars
<1>17. MInv'
  BY <1>11, <1>13, <1>14, <1>15, <1>16
<1>18. ChanKept
  BY <1>1, <1>3, <1>9, <1>12, <1>17, ChanFrame, MTypes
<1> QED
  BY <1>17, <1>18

LEMMA CasHeadMessages ==
  ASSUME MInv, QInv', Deq' = Deq + 1, CasHead
  PROVE  /\ MInv' /\ Start' = Start /\ Enq' = Enq
         /\ \A p \in Start .. Enq - 1 : MsgAt(p)' = MsgAt(p)
         /\ \A t \in Senders : SentBy(t)' = SentBy(t)
<1> USE DEF MInv
<1>1. /\ at[Rx] = "cas_head" /\ at'[Rx] = "store_lap"
      /\ \A t \in Handles : at'[t] = at[t]
      /\ Enq' = Enq
      /\ UNCHANGED <<enqueue_pos, queue, elemVars, closeVars, waitVars, idx, seen,
                     countVars>>
  BY MTypes, PipeAssumption DEF CasHead, Goto, Enq, Handles
<1>2. First' = First /\ Start' = Start
  BY <1>1, MTypes DEF First, Start
<1>3. \A p : Storing(p)' <=> Storing(p)
  BY <1>1 DEF Storing, Handles
<1>4. \A p \in Start .. Enq - 1 : PendIdx(p)' = PendIdx(p)
  <2> TAKE p \in Start .. Enq - 1
  <2>1. CASE p < First
    BY <1>1, <1>2, <2>1 DEF PendIdx
  <2>2. CASE ~(p < First) /\ Storing(p)
    <3>1. PICK t \in Senders : at[t] = "store_slot" /\ seen[t].pos = p
      BY <2>2 DEF Storing
    <3>2. at'[t] = "store_slot" /\ seen'[t].pos = p
      BY <1>1, <3>1 DEF Handles
    <3>3. IndexOf(p) = idx[t] /\ IndexOf(p)' = idx'[t]
      BY <3>1, <3>2, IndexOfStoring, IndexOfStoringNext DEF QInv
    <3> QED
      BY <1>1, <1>2, <3>3 DEF PendIdx
  <2>3. CASE ~(p < First) /\ ~Storing(p)
    BY <1>1, <1>2, <1>3, <2>3 DEF PendIdx, IndexOf
  <2> QED
    BY <2>1, <2>2, <2>3
<1>5. /\ \A t \in Senders : SentBy(t)' = SentBy(t)
      /\ \A p \in Start .. Enq - 1 : MsgAt(p)' = MsgAt(p)
  BY <1>1, <1>4 DEF SentBy, MsgAt, elemVars, countVars, Handles
<1>6. CellInv'
  BY <1>1, CellFrame DEF elemVars, countVars, Handles, Procs
<1>7. OrderInv'
  BY <1>1, <1>2, <1>5, OrderFrame DEF countVars, RxGone
<1>8. LeftInv'
  BY <1>1, <1>2, <1>4, LeftFrame DEF elemVars, countVars, Handles
<1>9. WakeInv' /\ EndInv'
  BY <1>1 DEF WakeInv, EndInv
<1>10. MInv'
  BY <1>6, <1>7, <1>8, <1>9
<1> QED
  BY <1>1, <1>2, <1>5, <1>10

LEMMA StoreLapMessages ==
  ASSUME MInv, QInv', StoreLap
  PROVE  MInv' /\ ChanKept
<1> USE DEF MInv
<1>1. /\ at[Rx] = "store_lap" /\ at'[Rx] = "read" /\ Rx \in Procs
      /\ \A t \in Handles : at'[t] = at[t] /\ idx'[t] = idx[t]
      /\ idx'[Rx] = seen[Rx].idx
      /\ Enq' = Enq /\ Deq' = Deq
      /\ UNCHANGED <<enqueue_pos, dequeue_pos, elemVars, closeVars, waitVars, seen,
                     countVars>>
  BY MTypes, PipeAssumption DEF StoreLap, Goto, Enq, Deq, Handles
<1>2. /\ First = Deq - 1 /\ First' = Deq /\ Start = First /\ Start' = Start
      /\ seen[Rx].idx = queue[Slot(First)].idx /\ ~Storing(First)
  <2>1. First = Deq - 1 /\ First' = Deq /\ Start = First /\ Start' = Start
    BY <1>1 DEF First, Start
  <2>2. seen[Rx].idx = queue[Slot(First)].idx
    BY <1>1, <2>1 DEF QInv, RxInv
  <2>3. ~Storing(First)
    BY <2>1, MTypes DEF QInv, SenderInv, Storing
  <2> QED
    BY <2>1, <2>2, <2>3
<1>3. \A p : Storing(p)' <=> Storing(p)
  BY <1>1 DEF Storing, Handles
<1>4. \A k \in Slots : queue'[k].idx = queue[k].idx
  BY DEF StoreLap
<1>5. \A p \in Start .. Enq - 1 : PendIdx(p)' = PendIdx(p)
  <2> TAKE p \in Start .. Enq - 1
  <2>1. ~(p < First) /\ PendIdx(p) = IndexOf(p) /\ Slot(p) \in Slots
    BY <1>2, MTypes, SlotType DEF PendIdx
  <2>2. CASE p = First
    <3>1. p < First'
      BY <1>2, <2>2, MTypes
    <3>2. PendIdx(p)' = idx'[Rx]
      BY <3>1 DEF PendIdx
    <3> QED
      BY <1>1, <1>2, <2>1, <2>2, <3>2 DEF IndexOf
  <2>3. CASE p # First /\ Storing(p)
    <3>1. PICK t \in Senders : at[t] = "store_slot" /\ seen[t].pos = p
      BY <2>3 DEF Storing
    <3>2. at'[t] = "store_slot" /\ seen'[t].pos = p /\ idx'[t] = idx[t]
      BY <1>1, <3>1 DEF Handles
    <3>3. IndexOf(p) = idx[t] /\ IndexOf(p)' = idx'[t]
      BY <3>1, <3>2, IndexOfStoring, IndexOfStoringNext DEF QInv
    <3>4. ~(p < First')
      BY <1>2, <2>3, MTypes
    <3> QED
      BY <2>1, <3>2, <3>3, <3>4 DEF PendIdx
  <2>4. CASE p # First /\ ~Storing(p)
    <3>1. ~(p < First')
      BY <1>2, <2>4, MTypes
    <3> QED
      BY <1>3, <1>4, <2>1, <2>4, <3>1 DEF PendIdx, IndexOf
  <2> QED
    BY <2>2, <2>3, <2>4
<1>6. /\ \A t \in Senders : SentBy(t)' = SentBy(t)
      /\ \A p \in Start .. Enq - 1 : MsgAt(p)' = MsgAt(p)
  BY <1>1, <1>5 DEF SentBy, MsgAt, elemVars, countVars, Handles
<1>7. CellInv'
  BY <1>1, CellFrame DEF elemVars, countVars, Handles, Procs
<1>8. OrderInv'
  BY <1>1, <1>2, <1>6, OrderFrame DEF countVars, RxGone
<1>9. LeftInv'
  BY <1>1, <1>2, <1>5, LeftFrame DEF elemVars, countVars, Handles
<1>10. WakeInv' /\ EndInv'
  BY <1>1 DEF WakeInv, EndInv
<1>11. MInv'
  BY <1>7, <1>8, <1>9, <1>10
<1>12. ChanKept
  BY <1>1, <1>2, <1>6, <1>11, ChanFrame DEF countVars
<1> QED
  BY <1>11, <1>12

\* The first pending message is moved out of its cell.
LEMMA FirstLeaves ==
  ASSUME MInv, Start < Enq, Start' = Start + 1, Enq' = Enq,
         cells' = [cells EXCEPT ![PendIdx(Start)] = Uninit],
         UNCHANGED <<enqueue_pos, sent>>,
         \A t \in Senders : at'[t] = at[t] /\ idx'[t] = idx[t],
         \A p \in Start + 1 .. Enq - 1 : PendIdx(p)' = PendIdx(p)
  PROVE  /\ LeftInv'
         /\ Start \in Start .. Enq - 1 /\ PendIdx(Start) \in Indices
         /\ \A i \in Indices : i # PendIdx(Start) => cells'[i] = cells[i]
         /\ cells'[PendIdx(Start)] = Uninit
         /\ \A p \in Start + 1 .. Enq - 1 :
              p \in Start .. Enq - 1 /\ p # Start /\ MsgAt(p)' = MsgAt(p)
         /\ \A p \in Start .. Enq - 1 : p = Start \/ p \in Start + 1 .. Enq - 1
<1> USE DEF MInv
<1>1. /\ Start \in Start .. Enq - 1
      /\ \A p \in Start + 1 .. Enq - 1 : p \in Start .. Enq - 1 /\ p # Start
      /\ \A p \in Start .. Enq - 1 : p = Start \/ p \in Start + 1 .. Enq - 1
  <2>1. Start \in Int /\ Enq \in Nat
    BY MTypes
  <2> QED
    BY <2>1
<1>2. PendIdx(Start) \in Indices
  BY <1>1, PendType
<1>3. \A i \in Indices : cells'[i] = IF i = PendIdx(Start) THEN Uninit ELSE cells[i]
  BY MTypes
<1>4. \A p \in Start + 1 .. Enq - 1 : PendIdx(p) # PendIdx(Start) /\ PendIdx(p) \in Indices
  BY <1>1, PendDiffers, PendType
<1>5. \A p \in Start + 1 .. Enq - 1 : MsgAt(p)' = MsgAt(p)
  BY <1>4 DEF MsgAt
<1>6. LeftInv'
  <2> SUFFICES ASSUME NEW i \in Indices, cells'[i] # Uninit,
                      ~\E p \in Start + 1 .. Enq - 1 : PendIdx(p) = i
               PROVE  /\ cells[i].src \in Senders
                      /\ cells[i].n = sent[cells[i].src] + 1
                      /\ \/ idx[cells[i].src] = i
                         \/ /\ enqueue_pos.closed
                            /\ at[cells[i].src] \notin Holding \cup {"allocate"}
    BY DEF LeftInv
  <2>1. cells[i] # Uninit /\ i # PendIdx(Start)
    BY <1>3
  <2>2. ~\E p \in Start .. Enq - 1 : PendIdx(p) = i
    BY <1>1, <2>1
  <2> QED
    BY <2>2 DEF LeftInv
<1> QED
  BY <1>1, <1>2, <1>3, <1>5, <1>6

LEMMA ReadCellMessages ==
  ASSUME MInv, QInv', ReadCell
  PROVE  MInv' /\ ChanKept
<1> USE DEF MInv
<1> DEFINE msg == MsgAt(Start)
<1>1. /\ at[Rx] = "read" /\ at'[Rx] = "uncommit" /\ Rx \in Procs
      /\ \A t \in Handles : at'[t] = at[t]
      /\ Enq' = Enq /\ Deq' = Deq
      /\ UNCHANGED <<queueVars, indices, closeVars, waitVars, idx, seen, sent>>
  BY MTypes, PipeAssumption DEF ReadCell, Goto, Enq, Deq, Handles, queueVars
<1>2. /\ Start = Deq - 1 /\ First = Deq /\ First' = Deq /\ Start' = Start + 1
      /\ Start < Enq /\ Start \in Int /\ Enq \in Nat
  BY <1>1, MTypes DEF First, Start
<1>3. PendIdx(Start) = idx[Rx]
  BY <1>2, MTypes DEF PendIdx
<1>4. \A p : Storing(p)' <=> Storing(p)
  BY <1>1 DEF Storing, Handles
<1>5. \A p \in Start + 1 .. Enq - 1 : PendIdx(p)' = PendIdx(p)
  <2> TAKE p \in Start + 1 .. Enq - 1
  <2>1. ~(p < First)
    BY MTypes
  <2>2. CASE Storing(p)
    <3>1. PICK t \in Senders : at[t] = "store_slot" /\ seen[t].pos = p
      BY <2>2 DEF Storing
    <3>2. at'[t] = "store_slot" /\ seen'[t].pos = p
      BY <1>1, <3>1 DEF Handles
    <3>3. IndexOf(p) = idx[t] /\ IndexOf(p)' = idx'[t]
      BY <3>1, <3>2, IndexOfStoring, IndexOfStoringNext DEF QInv
    <3> QED
      BY <1>1, <1>2, <3>3 DEF PendIdx
  <2>3. CASE ~Storing(p)
    BY <1>1, <1>2, <1>4, <2>3 DEF PendIdx, IndexOf, queueVars
  <2> QED
    BY <2>2, <2>3
<1>6. /\ LeftInv'
      /\ Start \in Start .. Enq - 1 /\ PendIdx(Start) \in Indices
      /\ \A i \in Indices : i # PendIdx(Start) => cells'[i] = cells[i]
      /\ cells'[PendIdx(Start)] = Uninit
      /\ \A p \in Start + 1 .. Enq - 1 :
           p \in Start .. Enq - 1 /\ p # Start /\ MsgAt(p)' = MsgAt(p)
      /\ \A p \in Start .. Enq - 1 : p = Start \/ p \in Start + 1 .. Enq - 1
  <2>1. cells' = [cells EXCEPT ![PendIdx(Start)] = Uninit]
    BY <1>3 DEF ReadCell
  <2>2. \A t \in Senders : at'[t] = at[t] /\ idx'[t] = idx[t]
    BY <1>1 DEF Handles
  <2>3. UNCHANGED <<enqueue_pos, sent>>
    BY <1>1 DEF queueVars
  <2> QED
    BY <1>1, <1>2, <1>5, <2>1, <2>2, <2>3, FirstLeaves
<1>7. \A t \in Senders : got'[t] = IF t = msg.src THEN msg.n ELSE got[t]
  BY <1>3 DEF ReadCell, MsgAt
<1>8. /\ msg.src \in Senders /\ msg.n \in Nat
      /\ got[msg.src] < msg.n /\ msg.n <= SentBy(msg.src)
  BY <1>6, MTypes DEF OrderInv, MsgAt
<1>9. \A t \in Senders : SentBy(t)' = SentBy(t)
  BY <1>1 DEF SentBy, Handles
<1>10. CellInv'
  <2>1. \A q \in Procs : q # Rx => idx[q] # PendIdx(Start)
    BY <1>3, <1>6, MTypes, ZeroTypes DEF QInv, OwnInv
  <2>2. PendIdx(Start) \notin indices
    BY <1>6, PendOwner
  <2>3. \A t \in Senders : at[t] \in Writing => cells'[idx[t]] = [src |-> t, n |-> sent[t] + 1]
    <3> TAKE t \in Senders
    <3> HAVE at[t] \in Writing
    <3>1. idx[t] \in Indices
      BY MTypes DEF QInv, AInv, HoldInv, Writing
    <3> QED
      BY <1>6, <2>1, <3>1, MTypes DEF CellInv
  <2>4. \A i \in indices : cells'[i] = Uninit
    BY <1>6, QTypes DEF QInv, CellInv
  <2>5. \A p \in Procs : at'[p] \in {"permit", "uncommit"} => cells'[idx[p]] = Uninit
    <3> TAKE p \in Procs
    <3> HAVE at'[p] \in {"permit", "uncommit"}
    <3>1. p # Rx => at[p] \in {"permit", "uncommit"} /\ idx[p] \in Indices
      BY <1>1, UnusedIndex DEF Procs
    <3> QED
      BY <1>3, <1>6, <3>1 DEF CellInv
  <2> QED
    BY <1>1, <2>3, <2>4, <2>5 DEF CellInv, Handles
<1>11. OrderInv'
  <2> HIDE DEF msg
  <2>1. \A t \in Senders : /\ got[t] \in Nat /\ SentBy(t) \in Nat /\ got'[t] \in Nat
                           /\ got[t] <= got'[t] /\ got'[t] <= SentBy(t)
    BY <1>7, <1>8, MTypes DEF OrderInv
  <2>2. \A p \in Start + 1 .. Enq - 1 :
          /\ MsgAt(p).src \in Senders /\ MsgAt(p).n \in Nat
          /\ got[MsgAt(p).src] < MsgAt(p).n /\ MsgAt(p).n <= SentBy(MsgAt(p).src)
    BY PendType, MTypes DEF OrderInv, MsgAt
  <2>3. \A p \in Start + 1 .. Enq - 1 : MsgAt(p).src = msg.src => msg.n < MsgAt(p).n
    <3> TAKE p \in Start + 1 .. Enq - 1
    <3>1. Start < p
      BY <1>2
    <3> QED
      BY <1>6 DEF OrderInv, msg
  <2>4. \A p \in Start + 1 .. Enq - 1 : got'[MsgAt(p).src] < MsgAt(p).n
    BY <1>7, <2>2, <2>3
  <2>5. \A p, q \in Start + 1 .. Enq - 1 :
          p < q /\ MsgAt(p).src = MsgAt(q).src => MsgAt(p).n < MsgAt(q).n
    BY <1>6 DEF OrderInv
  <2>6. ASSUME NEW t \in Senders, NEW n \in 1 .. MaxMsgs, got'[t] < n, n <= SentBy(t)
        PROVE  \E p \in Start + 1 .. Enq - 1 : MsgAt(p) = [src |-> t, n |-> n]
    <3>1. got[t] < n
      BY <2>1, <2>6
    <3>2. ~RxGone
      BY <1>1 DEF RxGone
    <3>3. PICK p \in Start .. Enq - 1 : MsgAt(p) = [src |-> t, n |-> n]
      BY <2>6, <3>1, <3>2 DEF OrderInv
    <3>4. p # Start
      <4>1. ASSUME p = Start PROVE FALSE
        <5>1. msg.src = t /\ msg.n = n
          BY <3>3, <4>1 DEF msg
        <5>2. got'[t] = n
          BY <1>7, <5>1
        <5> QED
          BY <2>6, <5>2
      <4> QED
        BY <4>1
    <3> QED
      BY <1>6, <3>3, <3>4
  <2>7. \A p \in Start + 1 .. Enq - 1 : MsgAt(p)' = MsgAt(p)
    BY <1>6
  <2>8. \A t \in Senders : (got[t] <= SentBy(t))'
    BY <1>9, <2>1
  <2>9. \A p \in Start + 1 .. Enq - 1 :
         (/\ MsgAt(p).src \in Senders
          /\ got[MsgAt(p).src] < MsgAt(p).n /\ MsgAt(p).n <= SentBy(MsgAt(p).src))'
    <3> TAKE p \in Start + 1 .. Enq - 1
    <3>1. PICK t \in Senders : t = MsgAt(p).src
      BY <2>2
    <3> QED
      BY <1>9, <2>2, <2>4, <2>7
  <2>10. \A p, q \in Start + 1 .. Enq - 1 :
          (p < q /\ MsgAt(p).src = MsgAt(q).src => MsgAt(p).n < MsgAt(q).n)'
    BY <2>5, <2>7
  <2>11. \A t \in Senders, n \in 1 .. MaxMsgs :
           (got[t] < n /\ n <= SentBy(t))' =>
              \E p \in Start + 1 .. Enq - 1 : MsgAt(p)' = [src |-> t, n |-> n]
    BY <1>9, <2>6, <2>7
  <2> QED
    BY <1>1, <1>2, <2>8, <2>9, <2>10, <2>11 DEF OrderInv
<1>12. WakeInv' /\ EndInv'
  BY <1>1 DEF WakeInv, EndInv
<1>13. MInv'
  BY <1>6, <1>10, <1>11, <1>12
<1>14. chanSent' = chanSent
  BY <1>1 DEF chanSent, Handles
<1>15. chanGot' = chanGot
  BY <1>1, <1>3, ChanGotIs DEF chanGot, ReadCell, MsgAt
<1>16. chanBuf' = chanBuf
  <2>1. Start + 1 = Deq
    BY <1>2, MTypes
  <2>2. \A p \in Deq .. Enq - 1 : MsgAt(p)' = MsgAt(p)
    BY <1>6, <2>1
  <2> QED
    BY <1>1, <1>13, <2>2, ChanBufKept
<1> QED
  BY <1>13, <1>14, <1>15, <1>16 DEF ChanKept

LEMMA ReclaimMessages ==
  ASSUME MInv, QInv', Deq' = Deq + 1, Reclaim
  PROVE  /\ MInv' /\ Enq' = Enq
         /\ \A p \in Deq + 1 .. Enq - 1 : MsgAt(p)' = MsgAt(p)
<1> USE DEF MInv
<1>1. /\ \A t \in Procs : at[t] \in {"absent", "dropped"}
      /\ queue[Slot(Deq)].seq = Deq + 1
      /\ Enq' = Enq
      /\ UNCHANGED <<enqueue_pos, closeVars, waitVars, at, idx, seen, countVars>>
  BY DEF Reclaim, AllGone, HeadReady, ReadySeq, Enq, Deq
<1>2. /\ First = Deq /\ Start = Deq /\ First' = Deq + 1 /\ Start' = Deq + 1
      /\ Deq \in Nat /\ Enq \in Nat
  BY <1>1, MTypes DEF First, Start
<1>3. Deq < Enq /\ ~Storing(Deq)
  BY <1>1, <1>2, HeadIsStored
<1>4. \A p : ~Storing(p) /\ ~Storing(p)'
  BY <1>1, MTypes DEF Storing
<1>5. PendIdx(Start) = queue[Slot(Deq)].idx
  BY <1>2, <1>4 DEF PendIdx, IndexOf
<1>6. \A p \in Start + 1 .. Enq - 1 : PendIdx(p)' = PendIdx(p)
  <2> TAKE p \in Start + 1 .. Enq - 1
  <2>1. ~(p < First) /\ ~(p < First') /\ p \in Nat
    BY <1>2
  <2>2. \A k \in Slots : queue'[k].idx = queue[k].idx
    BY DEF Reclaim
  <2>3. queue'[Slot(p)].idx = queue[Slot(p)].idx
    BY <2>1, <2>2, SlotType
  <2> QED
    BY <1>4, <2>1, <2>3 DEF PendIdx, IndexOf
<1>7. /\ LeftInv'
      /\ Start \in Start .. Enq - 1 /\ PendIdx(Start) \in Indices
      /\ \A i \in Indices : i # PendIdx(Start) => cells'[i] = cells[i]
      /\ cells'[PendIdx(Start)] = Uninit
      /\ \A p \in Start + 1 .. Enq - 1 :
           p \in Start .. Enq - 1 /\ p # Start /\ MsgAt(p)' = MsgAt(p)
  <2>1. cells' = [cells EXCEPT ![PendIdx(Start)] = Uninit]
    BY <1>5 DEF Reclaim, Deq
  <2>2. \A t \in Senders : at'[t] = at[t] /\ idx'[t] = idx[t]
    BY <1>1
  <2>3. UNCHANGED <<enqueue_pos, sent>>
    BY <1>1 DEF countVars
  <2>4. Start < Enq /\ Start' = Start + 1
    BY <1>2, <1>3
  <2> QED
    BY <1>1, <1>6, <2>1, <2>3, <2>4, FirstLeaves
<1>8. CellInv'
  <2>1. indices' = indices \cup {PendIdx(Start)}
    BY <1>5 DEF Reclaim, Deq
  <2>2. \A i \in indices' : cells'[i] = Uninit
    BY <1>7, <2>1, QTypes DEF QInv, CellInv
  <2> QED
    BY <1>1, <2>2, MTypes DEF CellInv, Writing, Holding
<1>9. OrderInv'
  <2>1. RxGone'
    <3>1. at[Rx] \in {"absent", "dropped"} /\ at[Rx] \in RxLabels /\ UNCHANGED at
      BY <1>1, MTypes DEF QInv, AInv, PlaceInv
    <3> QED
      BY <3>1 DEF RxGone, RxLabels, ErrLabels
  <2>2. \A t \in Senders : SentBy(t)' = SentBy(t)
    BY <1>1 DEF SentBy, countVars
  <2>3. \A p \in Start + 1 .. Enq - 1 :
         (/\ MsgAt(p).src \in Senders
          /\ got[MsgAt(p).src] < MsgAt(p).n /\ MsgAt(p).n <= SentBy(MsgAt(p).src))'
    <3> TAKE p \in Start + 1 .. Enq - 1
    <3>1. PICK t \in Senders : /\ t = MsgAt(p).src /\ got[t] < MsgAt(p).n
                               /\ MsgAt(p).n <= SentBy(t)
      BY <1>7 DEF OrderInv
    <3> QED
      BY <1>1, <1>7, <2>2, <3>1 DEF countVars
  <2>4. \A p, q \in Start + 1 .. Enq - 1 :
          (p < q /\ MsgAt(p).src = MsgAt(q).src => MsgAt(p).n < MsgAt(q).n)'
    BY <1>7 DEF OrderInv
  <2>5. \A t \in Senders : (got[t] <= SentBy(t))'
    BY <1>1, <2>2 DEF OrderInv, countVars
  <2> QED
    BY <1>1, <1>2, <2>1, <2>3, <2>4, <2>5 DEF OrderInv
<1>10. WakeInv' /\ EndInv'
  BY <1>1, MTypes DEF WakeInv, EndInv
<1>11. MInv'
  BY <1>7, <1>8, <1>9, <1>10
<1> QED
  BY <1>1, <1>2, <1>7, <1>11

LEMMA InitMessages == ASSUME NoWrap, Init PROVE MInv
<1>1. QInv
  BY InitQueue
<1>2. /\ Enq = 0 /\ Start = 0 /\ at[Rx] = "idle"
      /\ \A s \in Senders : at[s] = "absent"
  BY MTypes, <1>1 DEF Init, Enq
<1>3. CellInv
  BY <1>2 DEF Init, CellInv, Writing, Holding
<1>4. OrderInv
  BY <1>2 DEF Init, OrderInv, SentBy
<1>5. LeftInv
  BY DEF Init, LeftInv
<1>6. WakeInv /\ EndInv
  BY <1>2 DEF WakeInv, EndInv
<1> QED
  BY <1>1, <1>3, <1>4, <1>5, <1>6 DEF MInv

LEMMA HeadMoves ==
  ASSUME NoWrap, MInv, CasHead \/ Reclaim
  PROVE  Deq' = Deq + 1
<1> USE DEF MInv
<1>1. queue[Slot(Deq)].seq = Deq + 1 /\ First = Deq
  <2>1. CASE CasHead
    BY <2>1 DEF CasHead, QInv, RxInv, First
  <2>2. CASE Reclaim
    BY <2>2, MTypes DEF Reclaim, AllGone, HeadReady, ReadySeq, Deq, First
  <2> QED
    BY <2>1, <2>2
<1>2. Deq < Enq
  BY <1>1, HeadIsStored
<1>3. PosAdd(Deq, 1) = Deq + 1
  BY <1>2, QTypes, PosAddSmall, PipeAssumption DEF QInv
<1>4. dequeue_pos \in [pos : Positions, closed : BOOLEAN]
  BY DEF QInv, AInv, TypeOK
<1> QED
  BY <1>3, <1>4 DEF CasHead, Reclaim, Deq

LEMMA NextMessages == ASSUME NoWrap, MInv, [Next]_vars PROVE MInv'
<1>1. QInv'
  BY NextQueue DEF MInv
<1>2. CASE UNCHANGED vars
  <2>1. /\ Enq' = Enq /\ Deq' = Deq
        /\ UNCHANGED <<at, queue, seen, sent, idx, indices, cells, got,
                       enqueue_pos, dequeue_pos, state, cons_wait>>
    BY <1>2
       DEF vars, queueVars, elemVars, countVars, closeVars, waitVars, Enq, Deq
  <2>2. MessageLabelsKept
    BY <2>1 DEF MessageLabelsKept, QueueLabelsKept, RxGone
  <2> QED
    BY <1>1, <2>1, <2>2, MessageFrame
<1>3. ASSUME NEW p \in Procs, SetErroring(p) \/ CloseStep(p) PROVE MInv'
  BY <1>1, <1>3, SetErroringMessages, WriteErrorMessages, SetErroredMessages,
     CloseEnqueueMessages, CloseProdMessages, CloseDequeueMessages,
     CloseConsMessages DEF CloseStep
<1>4. ASSUME NEW s \in Senders, TryReserve(s) \/ DropPermit(s) \/ SenderStep(s)
      PROVE  MInv'
  <2>1. CASE LoadTail(s) \/ CasTailFails(s)
    BY <1>1, <2>1, GotTailMessages DEF LoadTail, CasTailFails
  <2>2. CASE CasTail(s)
    BY <1>1, <2>2, TailMoves, CasTailMessages DEF MInv
  <2> QED
    BY <1>1, <1>4, <2>1, <2>2, TryReserveMessages, AllocateMessages,
       FullMessages, WaitMessages, WriteCellMessages, DropPermitMessages,
       UncommitMessages, UncommitWakeMessages, LoadSlotMessages,
       StoreSlotMessages, WakeConsMessages, CloseReasonTxMessages DEF SenderStep
<1>5. CASE RxStep
  <2>1. CASE LoadHead \/ CasHeadFails
    BY <1>1, <2>1, GotHeadMessages DEF LoadHead, CasHeadFails
  <2>2. CASE CasHead
    BY <1>1, <2>2, HeadMoves, CasHeadMessages
  <2> QED
    BY <1>1, <1>5, <2>1, <2>2, LoadSlotRxMessages, StoreLapMessages,
       ReadCellMessages, UncommitMessages, UncommitWakeMessages,
       PollWaitMessages, CloseReasonRxMessages DEF RxStep
<1>6. CASE Reclaim
  BY <1>1, <1>6, HeadMoves, ReclaimMessages
<1> QED
  BY <1>1, <1>2, <1>3, <1>4, <1>5, <1>6, NewSenderMessages, DropTxMessages,
     DropRxMessages DEF Next

LEMMA MessageInvariance == ASSUME NoWrap PROVE Spec => []MInv
<1>1. Init => MInv
  BY InitMessages
<1>2. MInv /\ [Next]_vars => MInv'
  BY NextMessages
<1> QED
  BY <1>1, <1>2, PTL DEF Spec

-----------------------------------------------------------------------------
\* The receiver reads the messages of each sender in the order it sent them,
\* none lost, none twice, and never a cell nobody wrote: for every number of
\* senders, however their reservations and commits interleave, whatever the
\* capacity and however often the queue laps.
THEOREM MessagesComeInOrder == ASSUME NoWrap PROVE Spec => []NextInOrder
<1>1. ASSUME MInv PROVE NextInOrder
  <2> USE <1>1 DEF MInv
  <2> SUFFICES ASSUME at[Rx] = "read"
               PROVE  MsgAt(Start).src \in Senders /\ MsgAt(Start).n = got[MsgAt(Start).src] + 1
    <3>1. at[Rx] = "read" => PendIdx(Start) = idx[Rx]
      BY MTypes DEF PendIdx, First, Start
    <3> QED
      BY <3>1 DEF NextInOrder, MsgAt
  <2> DEFINE msg == MsgAt(Start)
             s == msg.src
  <2>1. Start \in Int /\ Enq \in Nat /\ Start < Enq
    BY MTypes DEF Start
  <2>2. Start \in Start .. Enq - 1
    BY <2>1
  <2>3. /\ s \in Senders /\ msg.n \in Nat /\ got[s] \in Nat /\ SentBy(s) \in Nat
        /\ got[s] < msg.n /\ msg.n <= SentBy(s) /\ msg.n <= MaxMsgs
    <3>1. msg \in [src : Handles, n : 0 .. MaxMsgs]
      BY <2>2, PendType, MTypes DEF MsgAt
    <3>2. s \in Senders /\ got[s] < msg.n /\ msg.n <= SentBy(s)
      BY <2>2 DEF OrderInv
    <3>3. msg.n \in Nat /\ msg.n <= MaxMsgs
      BY <3>1
    <3>4. got[s] \in Nat /\ SentBy(s) \in Nat
      BY <3>2, MTypes
    <3> QED
      BY <3>2, <3>3, <3>4
  <2> HIDE DEF msg
  <2>4. ASSUME got[s] + 1 < msg.n PROVE FALSE
    <3>1. /\ got[s] + 1 \in 1 .. MaxMsgs /\ got[s] < got[s] + 1
          /\ got[s] + 1 <= SentBy(s)
      BY <2>3, PipeAssumption
    <3>2. ~RxGone
      BY DEF RxGone
    <3>3. PICK p \in Start .. Enq - 1 : MsgAt(p) = [src |-> s, n |-> got[s] + 1]
      BY <2>3, <3>1, <3>2 DEF OrderInv
    <3>4. CASE p = Start
      <4>1. msg.n = got[s] + 1
        BY <3>3, <3>4 DEF msg
      <4> QED
        BY <2>3, <2>4, <4>1
    <3>5. CASE p # Start
      <4>1. Start < p
        BY <2>1, <3>5
      <4>2. MsgAt(p).src = MsgAt(Start).src /\ MsgAt(p).n = got[s] + 1
        BY <3>3 DEF msg
      <4>3. msg.n < got[s] + 1
        BY <2>2, <4>1, <4>2 DEF OrderInv, msg
      <4> QED
        BY <2>3, <4>3
    <3> QED
      BY <3>4, <3>5
  <2> QED
    BY <2>3, <2>4 DEF msg
<1> QED
  BY <1>1, MessageInvariance, PTL

\* When nothing is pending, everything that was given a position was received.
LEMMA NothingPending ==
  ASSUME MInv, Start = Enq, ~RxGone,
         \A s \in Senders : at[s] # "store_slot"
  PROVE  \A s \in Senders : got[s] = sent[s]
<1> TAKE s \in Senders
<1>1. SentBy(s) = sent[s] /\ sent[s] \in 0 .. MaxMsgs /\ got[s] \in 0 .. MaxMsgs
  BY MTypes DEF MInv, SentBy
<1>2. got[s] <= sent[s]
  BY <1>1 DEF MInv, OrderInv
<1>3. ASSUME got[s] < sent[s] PROVE FALSE
  <2>1. sent[s] \in 1 .. MaxMsgs /\ sent[s] <= SentBy(s)
    BY <1>1, <1>3
  <2>2. \E p \in Start .. Enq - 1 : MsgAt(p) = [src |-> s, n |-> sent[s]]
    BY <1>3, <2>1 DEF MInv, OrderInv
  <2>3. Enq \in Nat
    BY MTypes DEF MInv
  <2> QED
    BY <2>2, <2>3
<1> QED
  BY <1>1, <1>2, <1>3

\* A receiver that parks has received everything, unless a sender is still
\* inside the commit_send that will wake it: the check of the slot, the store of
\* the waker and the commit may interleave in any way.
THEOREM NoMessageIsStranded == ASSUME NoWrap PROVE Spec => []NothingStranded
<1>1. ASSUME MInv PROVE NothingStranded
  <2> USE <1>1
  <2> SUFFICES ASSUME at[Rx] = "parked",
                      \A s \in Senders : at[s] \notin {"store_slot", "wake_cons"}
               PROVE  \A s \in Senders : got[s] = sent[s]
    BY DEF NothingStranded
  <2>1. ~Storing(Deq)
    BY DEF Storing
  <2>2. Start = Enq
    <3>1. ~(Deq < Enq)
      BY <2>1 DEF MInv, WakeInv
    <3>2. Deq \in Nat /\ Enq \in Nat /\ Deq <= Enq
      BY MTypes DEF MInv
    <3> QED
      BY <3>1, <3>2 DEF Start
  <2>3. ~RxGone
    BY DEF RxGone
  <2> QED
    BY <2>2, <2>3, NothingPending
<1> QED
  BY <1>1, MessageInvariance, PTL

\* A receiver that is told Disconnected will miss nothing: every handle is gone
\* and every message was received, though the last handles may have been
\* dropped while the receiver was between its load of CLOSED and of the slot.
THEOREM DisconnectedComesLast == ASSUME NoWrap PROVE Spec => []DisconnectedIsFinal
<1>1. ASSUME MInv PROVE DisconnectedIsFinal
  <2> USE <1>1
  <2> SUFFICES ASSUME at[Rx] = "ended"
               PROVE  /\ \A s \in Senders : got[s] = sent[s]
                      /\ \A h \in Handles : at[h] \in Over
    BY DEF DisconnectedIsFinal, Over
  <2>1. Deq = Enq /\ \A h \in Handles : at[h] \in Over
    BY DEF MInv, EndInv
  <2>2. Start = Enq /\ ~RxGone /\ \A s \in Senders : at[s] # "store_slot"
    BY <2>1 DEF Start, RxGone, Over, Handles
  <2> QED
    BY <2>1, <2>2, NothingPending
<1> QED
  BY <1>1, MessageInvariance, PTL

\* The drop of the channel leaves no committed message behind in its cell: what
\* is still there is the message of a commit that failed on a closed channel.
THEOREM CommittedIsNotLeft == ASSUME NoWrap PROVE Spec => []NothingLeft
<1>1. ASSUME MInv PROVE NothingLeft
  <2> USE <1>1
  <2> SUFFICES ASSUME AllGone, ~HeadReady, NEW i \in Indices, cells[i] # Uninit
               PROVE  cells[i].n > sent[cells[i].src]
    BY DEF NothingLeft
  <2>1. \A p \in Procs : at[p] \in {"absent", "dropped"}
    BY DEF AllGone
  <2>2. ~Storing(Deq) /\ Start = Deq /\ First = Deq
    BY <2>1, MTypes DEF MInv, Storing, Start
  <2>3. Deq \in Nat /\ Enq \in Nat /\ Deq <= Enq
    BY MTypes DEF MInv
  <2>4. Deq = Enq
    <3>1. Deq \in First .. First + MAX_CAPACITY - 1
      BY <2>2, <2>3, PipeAssumption
    <3>2. Deq < Enq => queue[Slot(Deq)].seq = Deq + 1
      BY <2>2, <3>1 DEF MInv, QInv, SlotInv
    <3> QED
      BY <2>3, <3>2 DEF HeadReady, ReadySeq, Deq
  <2>5. ~\E p \in Start .. Enq - 1 : PendIdx(p) = i
    BY <2>2, <2>3, <2>4
  <2>6. cells[i].src \in Senders /\ cells[i].n = sent[cells[i].src] + 1
    BY <2>5 DEF MInv, LeftInv
  <2>7. sent[cells[i].src] \in Nat
    BY <2>6, MTypes DEF MInv
  <2> QED
    BY <2>6, <2>7
<1> QED
  BY <1>1, MessageInvariance, PTL

-----------------------------------------------------------------------------
\* The refinement.  The compare-exchange of the tail is the FIFO's Send, that of
\* the head its Recv, and in SharedState::drop its Discard.

\* The receiver has not left and was not told the end.
Receiving == ~RxGone /\ at[Rx] \notin {"ended", "ended_error"}

LEMMA ChanRxIs ==
  /\ Receiving => chanRx = "receiving"
  /\ RxGone => chanRx = "left"
  /\ at[Rx] = "ended" => chanRx = "disconnected"
  /\ at[Rx] = "ended_error" => chanRx = "error"
BY DEF chanRx, Receiving, RxGone

LEMMA ChanRxIsNext ==
  /\ Receiving' => chanRx' = "receiving"
  /\ RxGone' => chanRx' = "left"
  /\ at'[Rx] = "ended" => chanRx' = "disconnected"
  /\ at'[Rx] = "ended_error" => chanRx' = "error"
BY DEF chanRx, Receiving, RxGone

LEMMA ChanRxKept ==
  ASSUME at'[Rx] = at[Rx] \/ (RxGone /\ RxGone') \/ (Receiving /\ Receiving')
  PROVE  chanRx' = chanRx
<1>1. CASE at'[Rx] = at[Rx]
  BY <1>1 DEF chanRx
<1>2. CASE (RxGone /\ RxGone') \/ (Receiving /\ Receiving')
  BY <1>2, ChanRxIs, ChanRxIsNext
<1> QED
  BY <1>1, <1>2

\* As long as a handle is counted, the sender count is not zero.
LEMMA CountIs ==
  ASSUME AInv
  PROVE  /\ state.tx \in Nat
         /\ state.tx = 0 <=> Live = {}
<1>1. IsFiniteSet(Live) /\ Cardinality(Live) = state.tx
  BY DEF AInv, LiveInv
<1>2. state.tx \in Nat
  BY DEF AInv, TypeOK
<1> QED
  BY <1>1, <1>2, FS_EmptySet

\* A step that changes nothing of the abstract channel.
ChanStutter ==
  /\ ChanKept /\ chanRx' = chanRx
  /\ enqueue_pos'.closed = enqueue_pos.closed
  /\ state'.tx > 0 <=> state.tx > 0
  /\ state'.erroring = state.erroring

LEMMA StutterIsStutter == ChanStutter => UNCHANGED Chan!vars
BY DEF ChanStutter, ChanKept, Chan!vars

\* The steps of the channel's closing.
LEMMA CloseChannel ==
  ASSUME MInv, MInv', NEW p \in Procs, ChanKept, SetErroring(p) \/ CloseStep(p)
  PROVE  [Chan!Next]_(Chan!vars)
<1>1. AInv /\ TypeOK /\ PlaceInv /\ CloseInv /\ at \in [Procs -> Labels] /\ Rx \in Procs
  BY DEF MInv, QInv, AInv, TypeOK, Procs
<1>2. CASE SetErroring(p)
  <2>1. chanRx' = chanRx
    <3>1. at'[Rx] = at[Rx] \/ (at[Rx] \in Free /\ at'[Rx] = "write_error")
      BY <1>2 DEF SetErroring, Goto
    <3>2. at[Rx] \in Free /\ at'[Rx] = "write_error" => Receiving /\ Receiving'
      BY DEF Free, Receiving, RxGone
    <3> QED
      BY <3>1, <3>2, ChanRxKept
  <2>2. /\ ~state.erroring /\ state'.erroring /\ state'.tx = state.tx
        /\ UNCHANGED enqueue_pos
    BY <1>2 DEF SetErroring, queueVars
  <2>3. Chan!Fail
    BY <2>1, <2>2 DEF Chan!Fail, ChanKept
  <2> QED
    BY <2>3 DEF Chan!Next
<1>3. CASE CloseEnqueue(p)
  <2>1. /\ enqueue_pos'.closed /\ UNCHANGED state
        /\ RxGone \/ state.erroring
    BY <1>1, <1>3
       DEF CloseEnqueue, closeVars, CloseInv, TypeOK, PlaceInv, ErrLabels,
           RxGone, SenderLive, RootLive, Holding, Gone, Procs, Handles
  <2>2. chanRx' = chanRx
    <3>1. \/ at'[Rx] = at[Rx]
          \/ at[Rx] = "close_rx" /\ at'[Rx] = "close_prod"
          \/ at[Rx] = "err_close_rx" /\ at'[Rx] = "err_close_prod"
      BY <1>3, ThenFacts DEF CloseEnqueue, Goto
    <3> QED
      BY <3>1, ChanRxKept DEF Receiving, RxGone
  <2>3. RxGone => chanRx = "left"
    BY ChanRxIs
  <2>4. CASE enqueue_pos.closed
    <3>1. ChanStutter
      BY <2>1, <2>2, <2>4 DEF ChanStutter
    <3> QED
      BY <3>1, StutterIsStutter
  <2>5. CASE ~enqueue_pos.closed
    <3>1. Chan!Close
      BY <2>1, <2>2, <2>3, <2>5 DEF Chan!Close, ChanKept
    <3> QED
      BY <3>1 DEF Chan!Next
  <2> QED
    BY <2>4, <2>5
<1>4. CASE WriteError(p) \/ SetErrored(p) \/ CloseProd(p) \/ CloseDequeue(p) \/ CloseCons(p)
  <2>1. /\ UNCHANGED enqueue_pos
        /\ state'.tx = state.tx /\ state'.erroring = state.erroring
    BY <1>1, <1>4
       DEF WriteError, SetErrored, CloseProd, CloseDequeue, CloseCons,
           queueVars, closeVars, TypeOK
  <2>2. \/ at'[Rx] = at[Rx] \/ (RxGone /\ RxGone') \/ (Receiving /\ Receiving')
    <3>1. CASE WriteError(p) \/ SetErrored(p)
      BY <1>1, <3>1 DEF WriteError, SetErrored, Goto, Receiving, RxGone
    <3>2. CASE CloseProd(p)
      BY <1>1, <3>2, ThenFacts DEF CloseProd, Receiving, RxGone
    <3>3. CASE CloseDequeue(p)
      BY <3>3, ThenFacts DEF CloseDequeue, Goto, Receiving, RxGone
    <3>4. CASE CloseCons(p)
      <4>1. p # Rx => at'[Rx] = IF at[Rx] = "parked" THEN "idle" ELSE at[Rx]
        BY <1>1, <3>4 DEF CloseCons, Woken
      <4>2. p = Rx => at[Rx] = "err_close_cons" /\ at'[Rx] = "idle"
        BY <1>1, <3>4, ThenFacts
           DEF CloseCons, Woken, PlaceInv, RxLabels, ErrLabels
      <4> QED
        BY <4>1, <4>2 DEF Receiving, RxGone
    <3> QED
      BY <1>4, <3>1, <3>2, <3>3, <3>4
  <2>3. ChanStutter
    BY <2>1, <2>2, ChanRxKept DEF ChanStutter
  <2> QED
    BY <2>3, StutterIsStutter
<1> QED
  BY <1>2, <1>3, <1>4 DEF CloseStep

LEMMA HandleChannel ==
  ASSUME MInv, MInv', ChanKept,
         \/ \E h \in Handles, s \in Senders : NewSender(h, s)
         \/ \E h \in Handles : DropTx(h)
         \/ DropRx
  PROVE  [Chan!Next]_(Chan!vars)
<1>1. AInv /\ TypeOK /\ at \in [Procs -> Labels] /\ Rx \in Procs /\ Rx \notin Handles
  BY PipeAssumption DEF MInv, QInv, AInv, TypeOK, Procs, Handles
<1>2. ASSUME NEW h \in Handles, at[h] \in Free PROVE state.tx > 0
  <2>1. h \in Live
    BY <1>2 DEF Live, Free, Gone
  <2> QED
    BY <1>1, <2>1, CountIs
<1>3. ASSUME NEW h \in Handles, NEW s \in Senders, NewSender(h, s)
      PROVE  [Chan!Next]_(Chan!vars)
  <2>1. /\ UNCHANGED enqueue_pos /\ state'.tx = state.tx + 1
        /\ state'.erroring = state.erroring /\ at'[Rx] = at[Rx]
    BY <1>1, <1>3 DEF NewSender, Goto, queueVars, Handles
  <2>2. state.tx > 0 /\ state.tx \in Nat
    BY <1>1, <1>2, <1>3, CountIs DEF NewSender
  <2>3. ChanStutter
    BY <2>1, <2>2, ChanRxKept DEF ChanStutter
  <2> QED
    BY <2>3, StutterIsStutter
<1>4. ASSUME NEW h \in Handles, DropTx(h) PROVE [Chan!Next]_(Chan!vars)
  <2>1. /\ UNCHANGED enqueue_pos /\ state'.tx = state.tx - 1
        /\ state'.erroring = state.erroring /\ at'[Rx] = at[Rx]
    BY <1>1, <1>4 DEF DropTx, Goto, queueVars
  <2>2. state.tx > 0 /\ state.tx \in Nat /\ chanRx' = chanRx
    BY <1>1, <1>2, <1>4, <2>1, CountIs, ChanRxKept DEF DropTx
  <2>3. CASE state.tx = 1
    <3>1. Chan!Hang
      BY <2>1, <2>2, <2>3 DEF Chan!Hang, ChanKept
    <3> QED
      BY <3>1 DEF Chan!Next
  <2>4. CASE state.tx # 1
    <3>1. ChanStutter
      BY <2>1, <2>2, <2>4 DEF ChanStutter
    <3> QED
      BY <3>1, StutterIsStutter
  <2> QED
    BY <2>3, <2>4
<1>5. CASE DropRx
  <2>1. UNCHANGED <<enqueue_pos, state>> /\ ~RxGone /\ RxGone'
    BY <1>1, <1>5 DEF DropRx, Goto, queueVars, closeVars, RxGone
  <2>2. chanRx # "left" /\ chanRx' = "left"
    BY <2>1, ChanRxIs, ChanRxIsNext DEF Receiving
  <2>3. Chan!Leave
    BY <2>1, <2>2 DEF Chan!Leave, ChanKept
  <2> QED
    BY <2>3 DEF Chan!Next
<1> QED
  BY <1>3, <1>4, <1>5

\* A sender before and after the compare-exchange of the tail.
LEMMA SenderChannel ==
  ASSUME MInv, MInv', NEW s \in Senders, ChanKept, ~CasTail(s),
         TryReserve(s) \/ DropPermit(s) \/ SenderStep(s)
  PROVE  UNCHANGED Chan!vars
<1>1. /\ at \in [Procs -> Labels] /\ at[Rx] \in RxLabels
      /\ Rx \in Procs /\ s # Rx /\ s \in Procs
  <2>1. QInv /\ at[Rx] \in RxLabels
    BY DEF MInv, QInv, AInv, PlaceInv
  <2> QED
    BY <2>1, MTypes
<1>2. UNCHANGED <<enqueue_pos, state>>
  BY DEF TryReserve, DropPermit, SenderStep, Allocate, Full, Wait, WriteCell,
         Uncommit, UncommitWake, LoadTail, LoadSlot, CasTailFails, StoreSlot,
         WakeCons, CloseReason, queueVars, closeVars
<1>3. at'[Rx] = at[Rx] \/ (Receiving /\ Receiving')
  <2>1. CASE UncommitWake(s)
    <3>1. prod_wait.waiters # <<>> => Head(prod_wait.waiters) \in Senders
      BY FirstWaiter DEF MInv
    <3> QED
      BY <1>1, <2>1, <3>1, PipeAssumption DEF UncommitWake, WakeProd, Goto
  <2>2. CASE WakeCons(s)
    BY <1>1, <2>2 DEF WakeCons, Woken, Receiving, RxGone
  <2>3. CASE ~UncommitWake(s) /\ ~WakeCons(s)
    BY <1>1, <2>3
       DEF TryReserve, DropPermit, SenderStep, Allocate, Full, Wait, WriteCell,
           Uncommit, LoadTail, LoadSlot, CasTailFails, GotTail, StoreSlot,
           CloseReason, Goto
  <2> QED
    BY <2>1, <2>2, <2>3
<1>4. ChanStutter
  BY <1>2, <1>3, ChanRxKept DEF ChanStutter
<1> QED
  BY <1>4, StutterIsStutter

\* The receiver before and after the compare-exchange of the head.
LEMMA ReceiverChannel ==
  ASSUME MInv, MInv', ChanKept, ~CasHead, ~CloseReason(Rx), RxStep
  PROVE  UNCHANGED Chan!vars
<1>1. at \in [Procs -> Labels] /\ Rx \in Procs
  BY DEF MInv, QInv, AInv, TypeOK, Procs
<1>2. UNCHANGED <<enqueue_pos, state>>
  BY DEF RxStep, LoadHead, LoadSlotRx, CasHeadFails, StoreLap, ReadCell,
         Uncommit, UncommitWake, PollWait, queueVars, closeVars
<1>3. Receiving /\ Receiving'
  <2>1. CASE UncommitWake(Rx)
    <3>1. prod_wait.waiters # <<>> => Head(prod_wait.waiters) \in Senders
      BY FirstWaiter DEF MInv
    <3>2. at[Rx] = "wake_prod" /\ at'[Rx] = "idle"
      BY <1>1, <2>1 DEF UncommitWake, WakeProd, Goto
    <3> QED
      BY <3>2 DEF Receiving, RxGone
  <2>2. CASE LoadSlotRx
    <3>1. at[Rx] = "load_slot_rx" /\ at'[Rx] \in {"reason", "poll_wait", "cas_head", "idle"}
      <4> DEFINE slot == queue[Slot(seen[Rx].pos)]
                 ready == ReadySeq(seen[Rx].pos)
                 lbl == CASE slot.seq < ready /\ seen[Rx].closed -> "reason"
                          [] slot.seq < ready /\ ~seen[Rx].closed -> "poll_wait"
                          [] slot.seq = ready -> "cas_head"
                          [] slot.seq > ready -> "idle"
      <4>1. slot.seq \in Nat /\ ready \in Nat
        BY <1>1, QTypes, SlotType DEF MInv, QInv, ReadySeq
      <4>2. lbl \in {"reason", "poll_wait", "cas_head", "idle"}
        BY <4>1
      <4>3. at' = [at EXCEPT ![Rx] = lbl]
        BY <2>2 DEF LoadSlotRx, Goto
      <4> HIDE DEF lbl
      <4> QED
        BY <1>1, <2>2, <4>2, <4>3 DEF LoadSlotRx
    <3> QED
      BY <3>1 DEF Receiving, RxGone
  <2>3. CASE ~UncommitWake(Rx) /\ ~LoadSlotRx
    BY <1>1, <2>3
       DEF RxStep, LoadHead, CasHeadFails, GotHead, StoreLap, ReadCell,
           Uncommit, PollWait, Goto, Receiving, RxGone
  <2> QED
    BY <2>1, <2>2, <2>3
<1>4. ChanStutter
  BY <1>2, <1>3, ChanRxKept DEF ChanStutter
<1> QED
  BY <1>4, StutterIsStutter

\* The end the receiver is told of.
LEMMA EndChannel ==
  ASSUME MInv, MInv', ChanKept, CloseReason(Rx)
  PROVE  Chan!End
<1>1. /\ at[Rx] = "reason" /\ UNCHANGED <<enqueue_pos, state>>
      /\ at'[Rx] = IF state.errored THEN "ended_error" ELSE "ended"
  BY MTypes DEF CloseReason, Goto, queueVars, closeVars, MInv
<1>2. chanRx = "receiving"
  BY <1>1, ChanRxIs DEF Receiving, RxGone
<1>3. CASE state.errored
  <2>1. state.erroring
    BY <1>3 DEF MInv, QInv, AInv, CloseInv
  <2>2. chanRx' = "error"
    BY <1>1, <1>3, ChanRxIsNext
  <2> QED
    BY <1>1, <1>2, <2>1, <2>2 DEF Chan!End, ChanKept
<1>4. CASE ~state.errored
  <2>1. Deq = Enq /\ \A h \in Handles : at[h] \in Over
    BY <1>1, <1>4 DEF MInv, EndInv
  <2>2. Live = {}
    BY <2>1 DEF Live, Over, Gone
  <2>3. ~(state.tx > 0)
    BY <2>2, CountIs DEF MInv, QInv
  <2>4. chanBuf = << >>
    <3>1. chanBuf \in Seq(Messages) /\ Len(chanBuf) = Enq - Deq /\ Enq \in Nat
      BY ChanBufIs, MTypes DEF MInv
    <3>2. Len(chanBuf) = 0
      BY <2>1, <3>1
    <3> QED
      BY <3>2
  <2>5. chanRx' = "disconnected"
    BY <1>1, <1>4, ChanRxIsNext
  <2> QED
    BY <1>1, <1>2, <2>3, <2>4, <2>5 DEF Chan!End, ChanKept
<1> QED
  BY <1>3, <1>4

\* The tail moves: the message enters the FIFO, which has room for it.
LEMMA SendChannel ==
  ASSUME NoWrap, MInv, QInv', NEW s \in Senders, CasTail(s)
  PROVE  Chan!Send(s)
<1>1. Enq' = Enq + 1
  BY TailMoves DEF MInv
<1>2. /\ MInv' /\ Start' = Start /\ Deq' = Deq
      /\ \A p \in Start .. Enq - 1 : MsgAt(p)' = MsgAt(p)
      /\ \A e \in {Enq} : MsgAt(e)' = [src |-> s, n |-> sent[s] + 1]
      /\ \A t \in Senders : SentBy(t)' = IF t = s THEN sent[s] + 1 ELSE SentBy(t)
  BY <1>1, CasTailMessages
<1>3. /\ at[s] = "cas_tail" /\ s \in Procs /\ s # Rx /\ at'[Rx] = at[Rx]
      /\ enqueue_pos'.closed = enqueue_pos.closed /\ ~enqueue_pos.closed
      /\ UNCHANGED <<state, cells, seen, got>>
  <2>1. at[s] = "cas_tail" /\ enqueue_pos.closed = seen[s].closed
    BY DEF CasTail, SeenEnqueue
  <2>2. ~seen[s].closed
    BY <2>1 DEF MInv, QInv, AInv, HoldInv
  <2> QED
    BY <2>1, <2>2, MTypes
       DEF CasTail, Goto, elemVars, closeVars, countVars, MInv, QInv, AInv,
           TypeOK
<1>4. state.tx > 0
  <2>1. s \in Live
    BY <1>3 DEF Live, Gone, Handles
  <2> QED
    BY <2>1, CountIs DEF MInv, QInv
<1>5. /\ Enq \in Nat /\ Deq \in Nat /\ Deq <= Enq /\ Start \in Int /\ Start <= Deq
      /\ Enq - Deq < capacity /\ sent[s] \in Nat
  <2>1. Enq < First + capacity /\ First <= Deq /\ First \in Nat /\ capacity \in Nat
    BY <1>3, Room, MTypes, PipeAssumption DEF MInv, Holding
  <2> QED
    BY <2>1, MTypes DEF MInv
<1>6. /\ chanBuf \in Seq(Messages) /\ Len(chanBuf) = Enq - Deq
      /\ \A p \in Deq .. Enq - 1 : chanBuf[p - Deq + 1] = MsgAt(p)
  BY ChanBufIs
<1>7. (/\ chanBuf \in Seq(Messages) /\ Len(chanBuf) = Enq - Deq
       /\ \A p \in Deq .. Enq - 1 : chanBuf[p - Deq + 1] = MsgAt(p))'
  BY <1>2, ChanBufIs, PTL
<1> DEFINE msg == [src |-> s, n |-> sent[s] + 1]
           new == Append(chanBuf, msg)
<1>8. chanSent[s] = sent[s] /\ chanSent' = [chanSent EXCEPT ![s] = sent[s] + 1]
  <2>1. /\ chanSent = [t \in Senders |-> SentBy(t)]
        /\ chanSent' = [t \in Senders |-> SentBy(t)']
    BY DEF chanSent, SentBy
  <2>2. SentBy(s) = sent[s]
    BY <1>3, <1>5 DEF SentBy
  <2> QED
    BY <1>2, <2>1, <2>2
<1>9. chanBuf' = new
  <2>1. PICK e \in Nat : e = Enq
    BY <1>5
  <2>2. e \in Deq .. Enq' - 1 /\ e - Deq + 1 = Enq' - Deq
    BY <1>1, <1>5, <2>1
  <2>3. chanBuf'[e - Deq + 1] = msg
    <3>1. chanBuf'[e - Deq + 1] = MsgAt(e)'
      BY <1>2, <1>7, <2>2
    <3> QED
      BY <1>2, <2>1, <3>1
  <2>4. msg \in Messages
    <3>1. chanBuf'[e - Deq + 1] \in Messages
      <4>1. /\ chanBuf' \in Seq(Messages) /\ Len(chanBuf') = Enq' - Deq
            /\ e - Deq + 1 \in 1 .. Enq' - Deq
        BY <1>1, <1>2, <1>5, <1>7, <2>1
      <4> QED
        BY <4>1
    <3> QED
      BY <2>3, <3>1
  <2>5. /\ new \in Seq(Messages) /\ Len(new) = Enq' - Deq
        /\ \A i \in 1 .. Enq - Deq : new[i] = chanBuf[i]
        /\ new[Enq' - Deq] = msg
    <3>1. Len(chanBuf) + 1 = Enq' - Deq
      BY <1>1, <1>5, <1>6
    <3> QED
      BY <1>6, <2>4, <3>1
  <2>6. \A i \in 1 .. Enq' - Deq : chanBuf'[i] = new[i]
    <3> HIDE DEF new, msg
    <3> TAKE i \in 1 .. Enq' - Deq
    <3>1. CASE i = Enq' - Deq
      BY <2>2, <2>3, <2>5, <3>1
    <3>2. CASE i # Enq' - Deq
      <4>1. PICK p \in Deq .. Enq - 1 : p - Deq + 1 = i
        <5>1. Deq + i - 1 \in Deq .. Enq - 1 /\ (Deq + i - 1) - Deq + 1 = i
          BY <1>1, <1>5, <3>2
        <5> QED
          BY <5>1
      <4>2. p \in Start .. Enq - 1 /\ p \in Deq .. Enq' - 1 /\ i \in 1 .. Enq - Deq
        BY <1>1, <1>5, <4>1
      <4>3. chanBuf[i] = MsgAt(p) /\ MsgAt(p)' = MsgAt(p)
        BY <1>2, <1>6, <4>1, <4>2
      <4>4. chanBuf'[i] = MsgAt(p)'
        BY <1>2, <1>7, <4>1, <4>2
      <4> QED
        BY <2>5, <4>2, <4>3, <4>4
    <3> QED
      BY <3>1, <3>2
  <2>7. chanBuf' \in Seq(Messages) /\ Len(chanBuf') = Enq' - Deq
    BY <1>2, <1>7
  <2> HIDE DEF new
  <2> QED
    BY <2>5, <2>6, <2>7
<1>10. chanGot' = chanGot
  BY <1>3 DEF chanGot
<1>11. chanRx' = chanRx
  BY <1>3, ChanRxKept
<1> QED
  BY <1>3, <1>4, <1>5, <1>6, <1>8, <1>9, <1>10, <1>11 DEF Chan!Send

\* The head moves: the first message leaves the FIFO.
LEMMA FirstIsTaken ==
  ASSUME MInv, MInv', Enq' = Enq, Deq' = Deq + 1,
         \A p \in Deq + 1 .. Enq - 1 : MsgAt(p)' = MsgAt(p)
  PROVE  chanBuf # << >> /\ chanBuf' = Tail(chanBuf) /\ Head(chanBuf) = MsgAt(Deq)
<1>1. /\ chanBuf \in Seq(Messages) /\ Len(chanBuf) = Enq - Deq
      /\ \A p \in Deq .. Enq - 1 : chanBuf[p - Deq + 1] = MsgAt(p)
  BY ChanBufIs
<1>2. (/\ chanBuf \in Seq(Messages) /\ Len(chanBuf) = Enq - Deq
       /\ \A p \in Deq .. Enq - 1 : chanBuf[p - Deq + 1] = MsgAt(p))'
  BY ChanBufIs, PTL
<1>3. Deq \in Nat /\ Enq \in Nat /\ Deq < Enq
  <2>1. Deq' <= Enq' /\ Deq \in Nat /\ Enq \in Nat
    BY MTypes DEF MInv, QInv, PosInv
  <2> QED
    BY <2>1
<1>4. chanBuf # << >>
  BY <1>1, <1>3
<1>5. /\ Head(chanBuf) = chanBuf[1] /\ Tail(chanBuf) \in Seq(Messages)
      /\ Len(Tail(chanBuf)) = Enq - Deq - 1
      /\ \A i \in 1 .. Enq - Deq - 1 : Tail(chanBuf)[i] = chanBuf[i + 1]
  BY <1>1, <1>3
<1>6. Head(chanBuf) = MsgAt(Deq)
  <2>1. Deq \in Deq .. Enq - 1 /\ Deq - Deq + 1 = 1
    BY <1>3
  <2> QED
    BY <1>1, <2>1
<1>7. \A i \in 1 .. Enq - Deq - 1 : chanBuf'[i] = Tail(chanBuf)[i]
  <2> TAKE i \in 1 .. Enq - Deq - 1
  <2>1. PICK p \in Deq + 1 .. Enq - 1 : p - Deq = i
    <3>1. Deq + i \in Deq + 1 .. Enq - 1 /\ (Deq + i) - Deq = i
      BY <1>3
    <3> QED
      BY <3>1
  <2>2. /\ p \in Deq .. Enq - 1 /\ p - Deq + 1 = i + 1
        /\ p \in Deq' .. Enq' - 1 /\ p - Deq' + 1 = i
    BY <1>3, <2>1
  <2>3. chanBuf[i + 1] = MsgAt(p)
    BY <1>1, <2>2
  <2>4. chanBuf'[i] = MsgAt(p)'
    BY <1>2, <2>2
  <2> QED
    BY <1>5, <2>3, <2>4
<1>8. chanBuf' \in Seq(Messages) /\ Len(chanBuf') = Enq - Deq - 1
  BY <1>2, <1>3
<1>9. chanBuf' = Tail(chanBuf)
  BY <1>5, <1>7, <1>8
<1> QED
  BY <1>4, <1>6, <1>9

LEMMA RecvChannel ==
  ASSUME NoWrap, MInv, QInv', CasHead
  PROVE  Chan!Recv
<1>1. Deq' = Deq + 1
  BY HeadMoves
<1>2. /\ MInv' /\ Start' = Start /\ Enq' = Enq
      /\ \A p \in Start .. Enq - 1 : MsgAt(p)' = MsgAt(p)
      /\ \A t \in Senders : SentBy(t)' = SentBy(t)
  BY <1>1, CasHeadMessages
<1>3. /\ at[Rx] = "cas_head" /\ at'[Rx] = "store_lap"
      /\ UNCHANGED <<enqueue_pos, state, cells, got, seen>>
  BY MTypes DEF CasHead, Goto, MInv, elemVars, closeVars, countVars
<1>4. Start = Deq /\ Deq \in Nat /\ Enq \in Nat /\ Deq < Enq
  <2>1. Deq' <= Enq' /\ Deq \in Nat /\ Enq \in Nat
    BY MTypes DEF MInv, QInv, PosInv
  <2> QED
    BY <1>1, <1>2, <2>1 DEF Start
<1>5. chanBuf # << >> /\ chanBuf' = Tail(chanBuf) /\ Head(chanBuf) = MsgAt(Deq)
  <2>1. \A p \in Deq + 1 .. Enq - 1 : p \in Start .. Enq - 1
    BY <1>4
  <2>2. \A p \in Deq + 1 .. Enq - 1 : MsgAt(p)' = MsgAt(p)
    BY <1>2, <2>1
  <2> QED
    BY <1>1, <1>2, <2>2, FirstIsTaken
<1>6. chanGot = got /\ MsgAt(Deq).src \in Senders
  <2>1. Deq \in Start .. Enq - 1
    BY <1>4
  <2> QED
    BY <1>3, <2>1 DEF chanGot, MInv, OrderInv
<1>7. chanGot' = [t \in Senders |-> IF t = MsgAt(Deq).src THEN MsgAt(Deq).n ELSE got[t]]
  <2>1. seen[Rx].idx = PendIdx(Deq)
    <3>1. First = Deq /\ ~(Deq < First)
      BY <1>3, <1>4 DEF First
    <3>2. queue[Slot(Deq)].seq = Deq + 1 /\ seen[Rx].idx = queue[Slot(Deq)].idx
      BY <1>3 DEF MInv, QInv, RxInv
    <3>3. ~Storing(Deq)
      BY <3>1, <3>2, HeadIsStored DEF MInv
    <3> QED
      BY <3>1, <3>2, <3>3 DEF PendIdx, IndexOf
  <2> QED
    BY <1>3, <2>1 DEF chanGot, MsgAt
<1>8. chanGot' = [chanGot EXCEPT ![Head(chanBuf).src] = Head(chanBuf).n]
  <2>1. got \in [Senders -> 0 .. MaxMsgs]
    BY MTypes DEF MInv
  <2> QED
    BY <1>5, <1>6, <1>7, <2>1
<1>9. chanSent' = chanSent
  BY <1>2 DEF chanSent, SentBy
<1>10. chanRx = "receiving" /\ chanRx' = "receiving"
  BY <1>3, ChanRxIs, ChanRxIsNext DEF Receiving, RxGone
<1> QED
  BY <1>3, <1>5, <1>8, <1>9, <1>10 DEF Chan!Recv

LEMMA DiscardChannel ==
  ASSUME NoWrap, MInv, QInv', Reclaim
  PROVE  Chan!Discard
<1>1. Deq' = Deq + 1
  BY HeadMoves
<1>2. /\ MInv' /\ Enq' = Enq
      /\ \A p \in Deq + 1 .. Enq - 1 : MsgAt(p)' = MsgAt(p)
  BY <1>1, ReclaimMessages
<1>3. /\ \A p \in Procs : at[p] \in {"absent", "dropped"}
      /\ UNCHANGED <<enqueue_pos, state, at, sent, got>>
  BY DEF Reclaim, AllGone, closeVars, countVars
<1>4. chanBuf # << >> /\ chanBuf' = Tail(chanBuf)
  BY <1>1, <1>2, FirstIsTaken
<1>5. ~(state.tx > 0)
  <2>1. Live = {}
    BY <1>3 DEF Live, Gone, Procs
  <2> QED
    BY <2>1, CountIs DEF MInv, QInv
<1>6. RxGone
  BY <1>3 DEF RxGone, Procs, QInv, AInv, PlaceInv, RxLabels, ErrLabels
<1>7. chanRx = "left" /\ chanRx' = chanRx
  BY <1>3, <1>6, ChanRxIs, ChanRxKept
<1>8. chanGot' = chanGot /\ chanSent' = chanSent
  BY <1>3, <1>6 DEF chanGot, chanSent, RxGone
<1> QED
  BY <1>3, <1>4, <1>5, <1>7, <1>8 DEF Chan!Discard

LEMMA InitChannel == ASSUME NoWrap, Init PROVE Chan!Init
<1>1. MInv
  BY InitMessages
<1>2. Enq = 0 /\ Deq = 0 /\ at[Rx] = "idle" /\ \A s \in Senders : at[s] = "absent"
  BY PipeAssumption DEF Init, Enq, Deq, Procs, Handles
<1>3. chanBuf = << >>
  <2>1. chanBuf \in Seq(Messages) /\ Len(chanBuf) = 0
    BY <1>1, <1>2, ChanBufIs
  <2> QED
    BY <2>1
<1>4. chanRx = "receiving"
  BY <1>2, ChanRxIs DEF Receiving, RxGone
<1>5. ~enqueue_pos.closed /\ state.tx > 0 /\ ~state.erroring
  BY DEF Init
<1>6. chanGot = [s \in Senders |-> 0]
  BY <1>2 DEF Init, chanGot
<1>7. chanSent = [s \in Senders |-> 0]
  <2>1. \A s \in Senders : sent[s] + (IF at[s] = "store_slot" THEN 1 ELSE 0) = 0
    BY <1>2 DEF Init
  <2> QED
    BY <2>1 DEF chanSent
<1> QED
  BY <1>3, <1>4, <1>5, <1>6, <1>7 DEF Chan!Init

LEMMA NextChannel ==
  ASSUME NoWrap, MInv, [Next]_vars
  PROVE  [Chan!Next]_(Chan!vars)
<1>1. MInv' /\ QInv'
  BY NextMessages DEF MInv
<1>2. CASE UNCHANGED vars
  <2>1. UNCHANGED <<chanBuf, chanSent, chanGot, chanRx, enqueue_pos, state>>
    BY <1>2
       DEF vars, queueVars, elemVars, closeVars, countVars, chanBuf, chanSent,
           chanGot, chanRx, MessageAt
  <2> QED
    BY <2>1 DEF Chan!vars
<1>3. ASSUME NEW p \in Procs, SetErroring(p) \/ CloseStep(p)
      PROVE  [Chan!Next]_(Chan!vars)
  <2>1. ChanKept
    BY <1>1, <1>3, SetErroringMessages, WriteErrorMessages, SetErroredMessages,
       CloseEnqueueMessages, CloseProdMessages, CloseDequeueMessages,
       CloseConsMessages DEF CloseStep
  <2> QED
    BY <1>1, <1>3, <2>1, CloseChannel
<1>4. ASSUME NEW s \in Senders, TryReserve(s) \/ DropPermit(s) \/ SenderStep(s)
      PROVE  [Chan!Next]_(Chan!vars)
  <2>1. CASE CasTail(s)
    <3>1. Chan!Send(s)
      BY <1>1, <2>1, SendChannel
    <3> QED
      BY <3>1 DEF Chan!Next
  <2>2. CASE ~CasTail(s)
    <3>1. LoadTail(s) \/ CasTailFails(s) => ChanKept
      BY <1>1, GotTailMessages DEF LoadTail, CasTailFails
    <3>2. ChanKept
      BY <1>1, <1>4, <2>2, <3>1, TryReserveMessages, AllocateMessages,
         FullMessages, WaitMessages, WriteCellMessages, DropPermitMessages,
         UncommitMessages, UncommitWakeMessages, LoadSlotMessages,
         StoreSlotMessages, WakeConsMessages, CloseReasonTxMessages
         DEF SenderStep
    <3> QED
      BY <1>1, <1>4, <2>2, <3>2, SenderChannel
  <2> QED
    BY <2>1, <2>2
<1>5. CASE RxStep
  <2>1. CASE CasHead
    <3>1. Chan!Recv
      BY <1>1, <2>1, RecvChannel
    <3> QED
      BY <3>1 DEF Chan!Next
  <2>2. CASE CloseReason(Rx)
    <3>1. Chan!End
      BY <1>1, <2>2, CloseReasonRxMessages, EndChannel
    <3> QED
      BY <3>1 DEF Chan!Next
  <2>3. CASE ~CasHead /\ ~CloseReason(Rx)
    <3>1. LoadHead \/ CasHeadFails => ChanKept
      BY <1>1, GotHeadMessages DEF LoadHead, CasHeadFails
    <3>2. ChanKept
      BY <1>1, <1>5, <2>3, <3>1, LoadSlotRxMessages, StoreLapMessages,
         ReadCellMessages, UncommitMessages, UncommitWakeMessages,
         PollWaitMessages DEF RxStep
    <3> QED
      BY <1>1, <1>5, <2>3, <3>2, ReceiverChannel
  <2> QED
    BY <2>1, <2>2, <2>3
<1>6. CASE Reclaim
  <2>1. Chan!Discard
    BY <1>1, <1>6, DiscardChannel
  <2> QED
    BY <2>1 DEF Chan!Next
<1>7. CASE \/ \E h \in Handles, s \in Senders : NewSender(h, s)
           \/ \E h \in Handles : DropTx(h)
           \/ DropRx
  <2>1. ChanKept
    BY <1>1, <1>7, NewSenderMessages, DropTxMessages, DropRxMessages
  <2> QED
    BY <1>1, <1>7, <2>1, HandleChannel
<1> QED
  BY <1>2, <1>3, <1>4, <1>5, <1>6, <1>7 DEF Next

\* The channel implements the bounded FIFO of Channel: every access of
\* commit_send, try_dequeue, the drops and close_with_error is a step of the
\* FIFO or leaves it alone, for every number of senders and every capacity.
THEOREM QueueImplementsChannel == ASSUME NoWrap PROVE Spec => ImplementsChannel
<1>1. Init => Chan!Init
  BY InitChannel
<1>2. MInv /\ [Next]_vars => [Chan!Next]_(Chan!vars)
  BY NextChannel
<1> QED
  BY <1>1, <1>2, MessageInvariance, PTL DEF Spec, ImplementsChannel, Chan!Spec

=============================================================================
