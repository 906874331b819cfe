---------------------------- MODULE PipeProofs ----------------------------
(***************************************************************************)
(* The mpsc channel, for every set of senders, capacity, width of the      *)
(* positions and number of messages: the types, the handles, the closing   *)
(* of the channel and the wakeups of waiting senders.  What needs the      *)
(* positions not to wrap is in QueueProofs.                                *)
(***************************************************************************)
EXTENDS TrickyPipe, FiniteSetTheorems, TLAPS

ErrLabels ==
  {"write_error", "set_errored", "err_close_rx", "err_close_prod",
   "err_close_tx", "err_close_cons"}

\* A handle that is still counted, of a sender or of the TrickyPipe.
RootLive == {"idle"} \cup ErrLabels

\* A sender that owns an index.
Holding ==
  {"permit", "uncommit", "load_tail", "load_slot", "cas_tail", "store_slot",
   "panic"}

SenderLive ==
  RootLive \cup Holding \cup
    {"failed", "errored", "reason", "reserve", "allocate", "wait", "waiting",
     "wake_prod", "wake_cons"}

RxLabels ==
  {"idle", "load_slot_rx", "cas_head", "store_lap", "read", "uncommit",
   "wake_prod", "poll_wait", "parked", "reason", "ended", "ended_error",
   "close_rx", "close_prod", "dropped"} \cup ErrLabels

\* A handle that is gone, or going.
Gone == {"dropped", "close_tx", "close_cons"}

\* Each handle is at an access of its own code.
PlaceInv ==
  /\ \A s \in Senders : at[s] \in SenderLive \cup Gone \cup {"absent"}
  /\ at[Root] \in RootLive \cup Gone
  /\ at[Rx] \in RxLabels

\* The waiters of prod_wait are the senders that wait, each once.
WaiterInv ==
  \A j, k \in 1 .. Len(prod_wait.waiters) :
    /\ at[prod_wait.waiters[j]] = "waiting"
    /\ prod_wait.waiters[j] = prod_wait.waiters[k] => j = k

\* Who owns an index; a sender that has one has a message to send, and found the
\* channel open when it loaded the tail.
HoldInv ==
  /\ \A s \in Senders : idx[s] # NoIndex <=> at[s] \in Holding
  /\ idx[Root] = NoIndex
  /\ idx[Rx] # NoIndex <=> at[Rx] \in {"read", "uncommit"}
  /\ \A s \in Senders : at[s] \in Holding \cup {"allocate"} => sent[s] < MaxMsgs
  /\ \A s \in Senders : at[s] \in {"load_slot", "cas_tail"} => ~seen[s].closed

\* The handles that are counted.
Live == {h \in Handles : at[h] \notin Gone \cup {"absent"}}

\* The sender count is the number of handles; the last one, and no other,
\* closes the channel.
LiveInv ==
  /\ IsFiniteSet(Live) /\ Cardinality(Live) = state.tx
  /\ \A h \in Handles : at[h] \in {"close_tx", "close_cons"} =>
       /\ Live = {}
       /\ \A g \in Handles : at[g] \in {"close_tx", "close_cons"} => g = h

\* What the CLOSED bits and the error bits tell.
CloseInv ==
  /\ (\E p \in Procs : at[p] = "set_errored") \/ state.errored => error
  /\ (\E p \in Procs : at[p] \in {"write_error", "set_errored"}) \/ state.errored =>
       state.erroring
  /\ \A p \in Procs :
       at[p] \in {"err_close_rx", "err_close_prod", "err_close_tx", "err_close_cons"}
         => state.errored
  /\ enqueue_pos.closed \/ prod_wait.closed => RxGone \/ state.errored
  /\ \A s \in Senders : at[s] = "reason" => RxGone \/ state.errored
  /\ dequeue_pos.closed =>
       state.errored \/ \A h \in Handles : at[h] \in {"absent", "dropped", "close_cons"}

\* The inductive invariant of this part.
AInv ==
  TypeOK /\ PlaceInv /\ WaiterInv /\ HoldInv /\ LiveInv /\ CloseInv /\ ReasonIsTrue

-----------------------------------------------------------------------------
\* Facts about the constants and the types.

LEMMA LabelFacts ==
  /\ {"absent", "failed", "dropped", "panic"} \subseteq Labels
  /\ SenderLive \cup Gone \cup RxLabels \subseteq Labels
BY DEF Labels, Then, SenderLive, Gone, RxLabels, RootLive, ErrLabels, Holding

LEMMA ThenFacts ==
  /\ Then["close_rx"] = "close_prod" /\ Then["close_prod"] = "dropped"
  /\ Then["close_tx"] = "close_cons" /\ Then["close_cons"] = "dropped"
  /\ Then["err_close_rx"] = "err_close_prod"
  /\ Then["err_close_prod"] = "err_close_tx"
  /\ Then["err_close_tx"] = "err_close_cons"
  /\ Then["err_close_cons"] = "idle"
BY DEF Then

LEMMA SlotType == \A k \in Nat : Slot(k) \in Slots
BY PipeAssumption DEF Slot, Slots

LEMMA PosAddType == \A k, n \in Nat : PosAdd(k, n) \in Positions
BY PipeAssumption DEF PosAdd, Positions

LEMMA WaiterTypes ==
  ASSUME TypeOK
  PROVE  /\ prod_wait.waiters \in Seq(Senders)
         /\ \A j \in 1 .. Len(prod_wait.waiters) : prod_wait.waiters[j] \in Senders
BY DEF TypeOK

\* A waiter stays one until it is woken or the queue is closed.
LEMMA WaitersKept ==
  ASSUME TypeOK, WaiterInv, prod_wait'.waiters = prod_wait.waiters,
         \A w \in Senders : at[w] = "waiting" => at'[w] = "waiting"
  PROVE  WaiterInv'
BY WaiterTypes DEF WaiterInv

LEMMA SeenTypes ==
  ASSUME TypeOK, NEW p \in Procs
  PROVE  /\ seen[p].pos \in Positions /\ seen[p].pos \in Nat
         /\ seen[p].seq \in Positions /\ seen[p].seq \in Nat
         /\ seen[p].idx \in Indices /\ Slot(seen[p].pos) \in Slots
<1>1. /\ seen[p] \in [pos : Positions, closed : BOOLEAN, seq : Positions,
                      idx : Indices]
      /\ Positions \subseteq Nat
  BY DEF TypeOK, Positions
<1>2. /\ seen[p].pos \in Positions /\ seen[p].seq \in Positions
      /\ seen[p].idx \in Indices
  BY <1>1
<1> QED
  BY <1>1, SlotType

LEMMA SlotTypes ==
  ASSUME TypeOK, NEW k \in Slots
  PROVE  /\ queue[k] \in SlotValues
         /\ queue[k].seq \in Positions /\ queue[k].seq \in Nat
         /\ queue[k].idx \in Indices
<1>1. queue[k] \in SlotValues /\ Positions \subseteq Nat
  BY DEF TypeOK, Positions
<1> QED
  BY <1>1 DEF SlotValues

LEMMA PosTypes ==
  ASSUME TypeOK
  PROVE  /\ enqueue_pos.pos \in Positions /\ enqueue_pos.pos \in Nat
         /\ dequeue_pos.pos \in Positions /\ dequeue_pos.pos \in Nat
         /\ Slot(dequeue_pos.pos) \in Slots
         /\ PosAdd(enqueue_pos.pos, 1) \in Positions
         /\ PosAdd(dequeue_pos.pos, 1) \in Positions
<1>1. Positions \subseteq Nat
  BY DEF Positions
<1>2. enqueue_pos.pos \in Positions /\ dequeue_pos.pos \in Positions
  BY DEF TypeOK
<1> QED
  BY <1>1, <1>2, SlotType, PosAddType

\* The first position, slot and index, and the lap a slot moves by.
LEMMA ZeroTypes ==
  0 \in Positions /\ 0 \in Indices /\ LAP_ONE \in Nat /\ NoIndex \notin Indices
BY PipeAssumption DEF Positions, Indices, LAP_ONE, NoIndex

LEMMA UninitType == Uninit \in [src : Handles, n : 0 .. MaxMsgs]
BY PipeAssumption DEF Uninit, Handles

LEMMA NewSenderKeeps ==
  ASSUME NEW h \in Handles, NEW s \in Senders, AInv, NewSender(h, s)
  PROVE  AInv'
<1>1. /\ TypeOK /\ PlaceInv /\ WaiterInv /\ HoldInv
      /\ LiveInv /\ CloseInv /\ ReasonIsTrue
  BY DEF AInv
<1>2. at \in [Procs -> Labels]
  BY <1>1 DEF TypeOK
<1>3. PlaceInv'
  BY PipeAssumption, <1>1 DEF NewSender, Goto, PlaceInv, RootLive, SenderLive
<1>4. at' \in [Procs -> Labels]
  BY <1>2, LabelFacts DEF NewSender, Goto, Procs, Handles, RootLive, SenderLive
<1>5. state \in [tx : Nat, erroring : BOOLEAN, errored : BOOLEAN]
  BY <1>1 DEF TypeOK
<1>6. state' \in [tx : Nat, erroring : BOOLEAN, errored : BOOLEAN]
  BY <1>5 DEF NewSender
<1>7. TypeOK'
  BY <1>1, <1>4, <1>6
     DEF NewSender, Handles, queueVars, elemVars, waitVars, countVars, TypeOK
<1>8. \A w \in Senders : at[w] = "waiting" => at'[w] = "waiting"
  BY DEF NewSender, Goto
<1>9. WaiterInv'
  BY <1>1, <1>8, WaitersKept DEF NewSender, waitVars
<1>10. HoldInv'
  BY <1>1 DEF NewSender, Goto, countVars, HoldInv, Holding
<1>11. Live' = Live \cup {s}
  BY <1>2 DEF NewSender, Goto, Procs, Handles, Live, Gone
<1>12. LiveInv'
  <2>1. s \notin Live /\ h \in Live
    BY DEF NewSender, Free, Live, Gone
  <2>2. IsFiniteSet(Live) /\ Cardinality(Live) = state.tx
    BY <1>1 DEF LiveInv
  <2>3. IsFiniteSet(Live') /\ Cardinality(Live') = state'.tx
    BY <2>1, <2>2, <1>1, <1>11, FS_AddElement DEF NewSender, TypeOK
  <2>4. \A g \in Handles : at'[g] \notin {"close_tx", "close_cons"}
    BY <2>1, <1>1 DEF NewSender, LiveInv, Goto
  <2> QED
    BY <2>3, <2>4 DEF LiveInv
<1>13. CloseInv'
  BY <1>1 DEF NewSender, Free, Goto, queueVars, waitVars, CloseInv, RxGone
<1>14. ReasonIsTrue'
  BY <1>1 DEF NewSender, Goto, ReasonIsTrue, RxGone
<1> QED
  BY <1>7, <1>3, <1>9, <1>10, <1>12, <1>13, <1>14 DEF AInv

LEMMA DropTxKeeps ==
  ASSUME NEW h \in Handles, AInv, DropTx(h)
  PROVE  AInv'
<1>1. /\ TypeOK /\ PlaceInv /\ WaiterInv /\ HoldInv
      /\ LiveInv /\ CloseInv /\ ReasonIsTrue
  BY DEF AInv
<1>2. at \in [Procs -> Labels]
  BY <1>1 DEF TypeOK
<1>3. h \in Live
  BY DEF DropTx, Free, Live, Gone
<1>4. /\ IsFiniteSet(Live \ {h}) /\ Cardinality(Live \ {h}) = state.tx - 1
      /\ state.tx \in Nat /\ state.tx - 1 \in Nat
  <2>1. IsFiniteSet(Live) /\ Cardinality(Live) = state.tx
    BY <1>1 DEF LiveInv
  <2>2. /\ IsFiniteSet(Live \ {h}) /\ Cardinality(Live \ {h}) = state.tx - 1
        /\ Cardinality(Live \ {h}) \in Nat
    BY <2>1, <1>3, FS_RemoveElement, FS_CardinalityType
  <2> QED
    BY <2>2, <1>1 DEF TypeOK
<1>5. PlaceInv'
  BY PipeAssumption, <1>1 DEF DropTx, Goto, Handles, PlaceInv, Gone
<1>6. at' \in [Procs -> Labels]
  BY <1>2, LabelFacts DEF DropTx, Goto, Procs, Gone
<1>7. state \in [tx : Nat, erroring : BOOLEAN, errored : BOOLEAN]
  BY <1>1 DEF TypeOK
<1>8. state' \in [tx : Nat, erroring : BOOLEAN, errored : BOOLEAN]
  BY <1>7, <1>4 DEF DropTx
<1>9. TypeOK'
  BY <1>1, <1>6, <1>8
     DEF DropTx, queueVars, elemVars, waitVars, countVars, TypeOK
<1>10. \A w \in Senders : at[w] = "waiting" => at'[w] = "waiting"
  BY DEF DropTx, Free, Goto
<1>11. WaiterInv'
  BY <1>1, <1>10, WaitersKept DEF DropTx, waitVars
<1>12. HoldInv'
  BY <1>1 DEF DropTx, Free, Goto, countVars, HoldInv, Holding
<1>13. Live' = Live \ {h}
  BY <1>2 DEF DropTx, Goto, Procs, Live, Gone
<1>14. LiveInv'
  <2>1. IsFiniteSet(Live') /\ Cardinality(Live') = state'.tx
    BY <1>4, <1>13 DEF DropTx
  <2>2. \A g \in Handles \ {h} : at'[g] \notin {"close_tx", "close_cons"}
    BY <1>3, <1>1 DEF DropTx, LiveInv, Goto
  <2>3. at'[h] \in {"close_tx", "close_cons"} => state.tx = 1
    BY <1>2 DEF DropTx, LastTx, Goto, Procs
  <2>4. state.tx = 1 => Live' = {}
    BY <1>4, <1>13, FS_EmptySet
  <2> QED
    BY <2>1, <2>2, <2>3, <2>4 DEF LiveInv
<1>15. CloseInv'
  BY <1>1 DEF DropTx, Free, Goto, queueVars, waitVars, CloseInv, RxGone
<1>16. ReasonIsTrue'
  BY <1>1 DEF DropTx, Free, Goto, ReasonIsTrue, RxGone
<1> QED
  BY <1>9, <1>5, <1>11, <1>12, <1>14, <1>15, <1>16 DEF AInv

LEMMA DropRxKeeps ==
  ASSUME AInv, DropRx
  PROVE  AInv'
<1>1. /\ TypeOK /\ PlaceInv /\ WaiterInv /\ HoldInv
      /\ LiveInv /\ CloseInv /\ ReasonIsTrue
  BY DEF AInv
<1>2. at \in [Procs -> Labels]
  BY <1>1 DEF TypeOK
<1>3. PlaceInv'
  BY PipeAssumption, <1>1 DEF DropRx, Goto, PlaceInv, RxLabels
<1>4. at' \in [Procs -> Labels]
  BY <1>2, LabelFacts DEF DropRx, Goto, Procs, RxLabels
<1>5. TypeOK'
  BY <1>1, <1>4
     DEF DropRx, queueVars, elemVars, closeVars, waitVars, countVars, TypeOK
<1>6. \A w \in Senders : at[w] = "waiting" => at'[w] = "waiting"
  BY DEF DropRx, Goto
<1>7. WaiterInv'
  BY <1>1, <1>6, WaitersKept DEF DropRx, waitVars
<1>8. HoldInv'
  BY PipeAssumption, <1>1 DEF DropRx, Goto, countVars, HoldInv
<1>9. Live' = Live
  BY PipeAssumption DEF DropRx, Goto, Handles, Live
<1>10. LiveInv'
  BY <1>1, <1>9 DEF DropRx, Goto, closeVars, LiveInv
<1>11. CloseInv'
  BY <1>1, <1>2 DEF DropRx, Goto, Procs, queueVars, closeVars, CloseInv, RxGone
<1>12. ReasonIsTrue'
  BY <1>1 DEF DropRx, Goto, closeVars, ReasonIsTrue, RxGone
<1> QED
  BY <1>5, <1>3, <1>7, <1>8, <1>10, <1>11, <1>12 DEF AInv

LEMMA SetErroringKeeps ==
  ASSUME NEW p \in Procs, AInv, SetErroring(p)
  PROVE  AInv'
<1>1. /\ TypeOK /\ PlaceInv /\ WaiterInv /\ HoldInv
      /\ LiveInv /\ CloseInv /\ ReasonIsTrue
  BY DEF AInv
<1>2. at \in [Procs -> Labels]
  BY <1>1 DEF TypeOK
<1>3. PlaceInv'
  BY <1>1
     DEF SetErroring, Goto, PlaceInv, ErrLabels, RootLive, SenderLive, RxLabels
<1>4. at' \in [Procs -> Labels]
  BY <1>2, LabelFacts DEF SetErroring, Goto, ErrLabels, RootLive, SenderLive
<1>5. state \in [tx : Nat, erroring : BOOLEAN, errored : BOOLEAN]
  BY <1>1 DEF TypeOK
<1>6. state' \in [tx : Nat, erroring : BOOLEAN, errored : BOOLEAN]
  BY <1>5 DEF SetErroring
<1>7. TypeOK'
  BY <1>1, <1>4, <1>6
     DEF SetErroring, queueVars, elemVars, waitVars, countVars, TypeOK
<1>8. \A w \in Senders : at[w] = "waiting" => at'[w] = "waiting"
  BY DEF SetErroring, Free, Goto
<1>9. WaiterInv'
  BY <1>1, <1>8, WaitersKept DEF SetErroring, waitVars
<1>10. HoldInv'
  BY <1>1 DEF SetErroring, Free, Goto, countVars, HoldInv, Holding
<1>11. Live' = Live
  BY DEF SetErroring, Free, Goto, Live, Gone
<1>12. LiveInv'
  BY <1>1, <1>11 DEF SetErroring, Goto, LiveInv
<1>13. CloseInv'
  BY <1>1 DEF SetErroring, Free, Goto, queueVars, waitVars, CloseInv, RxGone
<1>14. ReasonIsTrue'
  BY <1>1 DEF SetErroring, Free, Goto, ReasonIsTrue, RxGone
<1> QED
  BY <1>7, <1>3, <1>9, <1>10, <1>12, <1>13, <1>14 DEF AInv

LEMMA WriteErrorKeeps ==
  ASSUME NEW p \in Procs, AInv, WriteError(p)
  PROVE  AInv'
<1>1. /\ TypeOK /\ PlaceInv /\ WaiterInv /\ HoldInv
      /\ LiveInv /\ CloseInv /\ ReasonIsTrue
  BY DEF AInv
<1>2. at \in [Procs -> Labels]
  BY <1>1 DEF TypeOK
<1>3. PlaceInv'
  BY <1>1
     DEF WriteError, Goto, PlaceInv, ErrLabels, RootLive, SenderLive, RxLabels
<1>4. at' \in [Procs -> Labels]
  BY <1>2, LabelFacts DEF WriteError, Goto, ErrLabels, RootLive, SenderLive
<1>5. error \in BOOLEAN
  BY <1>1 DEF TypeOK
<1>6. error' \in BOOLEAN
  BY DEF WriteError
<1>7. TypeOK'
  BY <1>1, <1>4 DEF WriteError, queueVars, elemVars, waitVars, countVars, TypeOK
<1>8. \A w \in Senders : at[w] = "waiting" => at'[w] = "waiting"
  BY DEF WriteError, Goto
<1>9. WaiterInv'
  BY <1>1, <1>8, WaitersKept DEF WriteError, waitVars
<1>10. HoldInv'
  BY <1>1 DEF WriteError, Goto, countVars, HoldInv, Holding
<1>11. Live' = Live
  BY DEF WriteError, Goto, Live, Gone
<1>12. LiveInv'
  BY <1>1, <1>11 DEF WriteError, Goto, LiveInv
<1>13. CloseInv'
  BY <1>1 DEF WriteError, Goto, queueVars, waitVars, CloseInv, RxGone
<1>14. ReasonIsTrue'
  BY <1>1 DEF WriteError, Goto, ReasonIsTrue, RxGone
<1> QED
  BY <1>7, <1>3, <1>9, <1>10, <1>12, <1>13, <1>14 DEF AInv

LEMMA SetErroredKeeps ==
  ASSUME NEW p \in Procs, AInv, SetErrored(p)
  PROVE  AInv'
<1>1. /\ TypeOK /\ PlaceInv /\ WaiterInv /\ HoldInv
      /\ LiveInv /\ CloseInv /\ ReasonIsTrue
  BY DEF AInv
<1>2. at \in [Procs -> Labels]
  BY <1>1 DEF TypeOK
<1>3. PlaceInv'
  BY <1>1
     DEF SetErrored, Goto, PlaceInv, ErrLabels, RootLive, SenderLive, RxLabels
<1>4. at' \in [Procs -> Labels]
  BY <1>2, LabelFacts DEF SetErrored, Goto, ErrLabels, RootLive, SenderLive
<1>5. state \in [tx : Nat, erroring : BOOLEAN, errored : BOOLEAN]
  BY <1>1 DEF TypeOK
<1>6. state' \in [tx : Nat, erroring : BOOLEAN, errored : BOOLEAN]
  BY <1>5 DEF SetErrored
<1>7. TypeOK'
  BY <1>1, <1>4, <1>6
     DEF SetErrored, queueVars, elemVars, waitVars, countVars, TypeOK
<1>8. \A w \in Senders : at[w] = "waiting" => at'[w] = "waiting"
  BY DEF SetErrored, Goto
<1>9. WaiterInv'
  BY <1>1, <1>8, WaitersKept DEF SetErrored, waitVars
<1>10. HoldInv'
  BY <1>1 DEF SetErrored, Goto, countVars, HoldInv, Holding
<1>11. Live' = Live
  BY DEF SetErrored, Goto, Live, Gone
<1>12. LiveInv'
  BY <1>1, <1>11 DEF SetErrored, Goto, LiveInv
<1>13. CloseInv'
  BY <1>1 DEF SetErrored, CloseInv
<1>14. ReasonIsTrue'
  BY <1>1 DEF SetErrored, Goto, ReasonIsTrue, RxGone
<1> QED
  BY <1>7, <1>3, <1>9, <1>10, <1>12, <1>13, <1>14 DEF AInv

LEMMA CloseEnqueueKeeps ==
  ASSUME NEW p \in Procs, AInv, CloseEnqueue(p)
  PROVE  AInv'
<1>1. /\ TypeOK /\ PlaceInv /\ WaiterInv /\ HoldInv
      /\ LiveInv /\ CloseInv /\ ReasonIsTrue
  BY DEF AInv
<1>2. at \in [Procs -> Labels]
  BY <1>1 DEF TypeOK
<1>3. \/ at[p] = "close_rx" /\ at' = [at EXCEPT ![p] = "close_prod"]
      \/ at[p] = "err_close_rx" /\ at' = [at EXCEPT ![p] = "err_close_prod"]
  <2> DEFINE l == Then[at[p]]
  <2>1. /\ at[p] = "close_rx" => l = "close_prod"
        /\ at[p] = "err_close_rx" => l = "err_close_prod"
    BY ThenFacts
  <2>2. at[p] \in {"close_rx", "err_close_rx"} /\ at' = [at EXCEPT ![p] = l]
    BY DEF CloseEnqueue, Goto
  <2> HIDE DEF l
  <2> QED
    BY <2>1, <2>2
<1>4. PlaceInv'
  BY <1>1, <1>3
     DEF CloseEnqueue, Goto, PlaceInv, ErrLabels, RootLive, Holding, SenderLive,
         RxLabels, Gone
<1>5. at' \in [Procs -> Labels]
  BY <1>2, LabelFacts, <1>3 DEF ErrLabels, RxLabels
<1>6. enqueue_pos \in [pos : Positions, closed : BOOLEAN]
  BY <1>1 DEF TypeOK
<1>7. enqueue_pos' \in [pos : Positions, closed : BOOLEAN]
  BY <1>6 DEF CloseEnqueue
<1>8. TypeOK'
  BY <1>1, <1>5, <1>7
     DEF CloseEnqueue, elemVars, closeVars, waitVars, countVars, TypeOK
<1>9. \A w \in Senders : at[w] = "waiting" => at'[w] = "waiting"
  BY DEF CloseEnqueue, Goto
<1>10. WaiterInv'
  BY <1>1, <1>9, WaitersKept DEF CloseEnqueue, waitVars
<1>11. HoldInv'
  BY <1>1, <1>3 DEF CloseEnqueue, Goto, countVars, HoldInv, Holding
<1>12. Live' = Live
  BY <1>3 DEF CloseEnqueue, Goto, Live, Gone
<1>13. LiveInv'
  BY <1>1, <1>12, <1>3 DEF CloseEnqueue, Goto, closeVars, LiveInv
<1>14. CloseInv'
  BY <1>1, <1>2, <1>3
     DEF CloseEnqueue, Procs, Handles, closeVars, CloseInv, RxGone, PlaceInv,
         ErrLabels, RootLive, Holding, SenderLive, Gone
<1>15. ReasonIsTrue'
  BY <1>1, <1>3 DEF CloseEnqueue, Goto, closeVars, ReasonIsTrue, RxGone
<1> QED
  BY <1>8, <1>4, <1>10, <1>11, <1>13, <1>14, <1>15 DEF AInv

LEMMA CloseProdKeeps ==
  ASSUME NEW p \in Procs, AInv, CloseProd(p)
  PROVE  AInv'
<1>1. /\ TypeOK /\ PlaceInv /\ WaiterInv /\ HoldInv
      /\ LiveInv /\ CloseInv /\ ReasonIsTrue
  BY DEF AInv
<1>2. at \in [Procs -> Labels]
  BY <1>1 DEF TypeOK
<1>3. \/ at[p] = "close_prod" /\ at'[p] = "dropped"
      \/ at[p] = "err_close_prod" /\ at'[p] = "err_close_tx"
  <2> DEFINE l == Then[at[p]]
  <2>1. /\ at[p] = "close_prod" => l = "dropped"
        /\ at[p] = "err_close_prod" => l = "err_close_tx"
    BY ThenFacts
  <2>2. at[p] \in {"close_prod", "err_close_prod"} /\ at'[p] = l
    BY DEF CloseProd
  <2> HIDE DEF l
  <2> QED
    BY <2>1, <2>2
<1>4. \A q \in Procs \ {p} :
        at'[q] = IF at[q] = "waiting" THEN "reason" ELSE at[q]
  BY DEF CloseProd
<1>5. /\ prod_wait' = [waiters |-> <<>>, stored |-> FALSE, closed |-> TRUE]
      /\ UNCHANGED <<queueVars, elemVars, closeVars, cons_wait, idx, seen, countVars>>
      /\ at' = [q \in Procs |-> at'[q]]
  BY DEF CloseProd
<1>6. PlaceInv'
  BY <1>1, <1>3, <1>4
     DEF Procs, Handles, PlaceInv, ErrLabels, RootLive, SenderLive, RxLabels,
         Gone
<1>7. at' \in [Procs -> Labels]
  BY <1>2, LabelFacts, <1>3, <1>4, <1>5 DEF ErrLabels, RootLive, SenderLive
<1>8. prod_wait \in [waiters : Seq(Senders), stored : BOOLEAN, closed : BOOLEAN]
  BY <1>1 DEF TypeOK
<1>9. prod_wait' \in [waiters : Seq(Senders), stored : BOOLEAN, closed : BOOLEAN]
  BY <1>5
<1>10. TypeOK'
  BY <1>1, <1>7, <1>5 DEF queueVars, elemVars, closeVars, countVars, TypeOK
<1>11. WaiterInv'
  BY <1>5 DEF WaiterInv
<1>12. HoldInv'
  BY <1>1, <1>3, <1>4, <1>5 DEF Procs, Handles, countVars, HoldInv, Holding
<1>13. Live' = Live
  BY <1>1, <1>3, <1>4
     DEF Procs, Handles, Live, PlaceInv, ErrLabels, RootLive, Holding,
         SenderLive, Gone
<1>14. LiveInv'
  BY <1>1, <1>13, <1>3, <1>4, <1>5 DEF Procs, closeVars, LiveInv
<1>15. CloseInv'
  BY <1>1, <1>3, <1>4, <1>5
     DEF Procs, Handles, queueVars, closeVars, CloseInv, RxGone, PlaceInv,
         ErrLabels, RootLive, Holding, SenderLive, Gone
<1>16. ReasonIsTrue'
  BY <1>1, <1>3, <1>4, <1>5 DEF Procs, Handles, closeVars, ReasonIsTrue, RxGone
<1> QED
  BY <1>10, <1>6, <1>11, <1>12, <1>14, <1>15, <1>16 DEF AInv

LEMMA CloseDequeueKeeps ==
  ASSUME NEW p \in Procs, AInv, CloseDequeue(p)
  PROVE  AInv'
<1>1. /\ TypeOK /\ PlaceInv /\ WaiterInv /\ HoldInv
      /\ LiveInv /\ CloseInv /\ ReasonIsTrue
  BY DEF AInv
<1>2. at \in [Procs -> Labels]
  BY <1>1 DEF TypeOK
<1>3. \/ at[p] = "close_tx" /\ at' = [at EXCEPT ![p] = "close_cons"]
      \/ at[p] = "err_close_tx" /\ at' = [at EXCEPT ![p] = "err_close_cons"]
  <2> DEFINE l == Then[at[p]]
  <2>1. /\ at[p] = "close_tx" => l = "close_cons"
        /\ at[p] = "err_close_tx" => l = "err_close_cons"
    BY ThenFacts
  <2>2. at[p] \in {"close_tx", "err_close_tx"} /\ at' = [at EXCEPT ![p] = l]
    BY DEF CloseDequeue, Goto
  <2> HIDE DEF l
  <2> QED
    BY <2>1, <2>2
<1>4. PlaceInv'
  BY <1>1, <1>3
     DEF CloseDequeue, Goto, PlaceInv, ErrLabels, RootLive, SenderLive,
         RxLabels, Gone
<1>5. at' \in [Procs -> Labels]
  BY <1>2, LabelFacts, <1>3 DEF ErrLabels, RootLive, SenderLive, Gone
<1>6. dequeue_pos \in [pos : Positions, closed : BOOLEAN]
  BY <1>1 DEF TypeOK
<1>7. dequeue_pos' \in [pos : Positions, closed : BOOLEAN]
  BY <1>6 DEF CloseDequeue
<1>8. TypeOK'
  BY <1>1, <1>5, <1>7
     DEF CloseDequeue, elemVars, closeVars, waitVars, countVars, TypeOK
<1>9. \A w \in Senders : at[w] = "waiting" => at'[w] = "waiting"
  BY DEF CloseDequeue, Goto
<1>10. WaiterInv'
  BY <1>1, <1>9, WaitersKept DEF CloseDequeue, waitVars
<1>11. HoldInv'
  BY <1>1, <1>3 DEF CloseDequeue, Goto, countVars, HoldInv, Holding
<1>12. Live' = Live
  BY <1>3 DEF CloseDequeue, Goto, Live, Gone
<1>13. LiveInv'
  BY <1>1, <1>12, <1>3 DEF CloseDequeue, Goto, closeVars, LiveInv
<1>14. CloseInv'
  BY <1>1, <1>2, <1>3
     DEF CloseDequeue, Goto, Procs, closeVars, waitVars, CloseInv, RxGone,
         PlaceInv, LiveInv, Live, ErrLabels, RxLabels, Gone
<1>15. ReasonIsTrue'
  BY <1>1, <1>3 DEF CloseDequeue, Goto, closeVars, ReasonIsTrue, RxGone
<1> QED
  BY <1>8, <1>4, <1>10, <1>11, <1>13, <1>14, <1>15 DEF AInv

LEMMA CloseConsKeeps ==
  ASSUME NEW p \in Procs, AInv, CloseCons(p)
  PROVE  AInv'
<1>1. /\ TypeOK /\ PlaceInv /\ WaiterInv /\ HoldInv
      /\ LiveInv /\ CloseInv /\ ReasonIsTrue
  BY DEF AInv
<1>2. at \in [Procs -> Labels]
  BY <1>1 DEF TypeOK
<1>3. \/ at[p] = "close_cons" /\ at'[p] = "dropped"
      \/ at[p] = "err_close_cons" /\ at'[p] = "idle"
  <2> DEFINE l == Then[at[p]]
  <2>1. /\ at[p] = "close_cons" => l = "dropped"
        /\ at[p] = "err_close_cons" => l = "idle"
    BY ThenFacts
  <2>2. at[p] \in {"close_cons", "err_close_cons"} /\ at'[p] = l
    BY <1>2 DEF CloseCons, Woken
  <2> HIDE DEF l
  <2> QED
    BY <2>1, <2>2
<1>4. /\ at' = [q \in Procs |-> at'[q]]
      /\ \A q \in Procs \ {p} :
           at'[q] = at[q] \/ (q = Rx /\ at[q] = "parked" /\ at'[q] = "idle")
  <2> DEFINE a == [at EXCEPT ![p] = Then[at[p]]]
  <2>1. a \in [Procs -> Labels \cup {Then[at[p]]}] /\ \A q \in Procs \ {p} : a[q] = at[q]
    BY <1>2
  <2>2. at' = IF a[Rx] = "parked" THEN [a EXCEPT ![Rx] = "idle"] ELSE a
    BY DEF CloseCons, Woken
  <2> HIDE DEF a
  <2>3. /\ at' = [q \in Procs |-> at'[q]]
        /\ \A q \in Procs :
             at'[q] = a[q] \/ (q = Rx /\ a[q] = "parked" /\ at'[q] = "idle")
    BY <2>1, <2>2
  <2> QED
    BY <2>1, <2>3
<1>5. /\ cons_wait' = [woken |-> TRUE, closed |-> TRUE]
      /\ UNCHANGED <<queueVars, elemVars, closeVars, prod_wait, idx, seen, countVars>>
  BY DEF CloseCons
<1>6. PlaceInv'
  BY <1>1, <1>3, <1>4
     DEF Procs, Handles, PlaceInv, RootLive, SenderLive, RxLabels, Gone
<1>7. at' \in [Procs -> Labels]
  BY <1>2, LabelFacts, <1>3, <1>4 DEF RootLive, SenderLive
<1>8. cons_wait \in [woken : BOOLEAN, closed : BOOLEAN]
  BY <1>1 DEF TypeOK
<1>9. cons_wait' \in [woken : BOOLEAN, closed : BOOLEAN]
  BY <1>5
<1>10. TypeOK'
  BY <1>1, <1>7, <1>5 DEF queueVars, elemVars, closeVars, countVars, TypeOK
<1>11. \A w \in Senders : at[w] = "waiting" => at'[w] = "waiting"
  BY <1>3, <1>4 DEF Procs, Handles
<1>12. WaiterInv'
  BY <1>1, <1>11, WaitersKept, <1>5
<1>13. HoldInv'
  BY <1>1, <1>3, <1>4, <1>5 DEF Procs, Handles, countVars, HoldInv, Holding
<1>14. Live' = Live
  BY <1>3, <1>4 DEF Procs, Live, Gone
<1>15. LiveInv'
  BY <1>1, <1>14, <1>3, <1>4, <1>5 DEF Procs, closeVars, LiveInv
<1>16. CloseInv'
  BY <1>1, <1>3, <1>4, <1>5
     DEF Procs, Handles, queueVars, closeVars, CloseInv, RxGone
<1>17. ReasonIsTrue'
  BY <1>1, <1>3, <1>4, <1>5 DEF Procs, Handles, closeVars, ReasonIsTrue, RxGone
<1> QED
  BY <1>10, <1>6, <1>12, <1>13, <1>15, <1>16, <1>17 DEF AInv

LEMMA CloseReasonKeeps ==
  ASSUME NEW p \in Senders \cup {Rx}, AInv, CloseReason(p)
  PROVE  AInv'
<1>1. /\ TypeOK /\ PlaceInv /\ WaiterInv /\ HoldInv
      /\ LiveInv /\ CloseInv /\ ReasonIsTrue
  BY DEF AInv
<1>2. at \in [Procs -> Labels]
  BY <1>1 DEF TypeOK
<1>3. PlaceInv'
  BY PipeAssumption, <1>1 DEF CloseReason, Goto, PlaceInv, SenderLive, RxLabels
<1>4. at' \in [Procs -> Labels]
  BY <1>2, LabelFacts
     DEF CloseReason, Goto, Procs, Handles, SenderLive, RxLabels
<1>5. TypeOK'
  BY <1>1, <1>4
     DEF CloseReason, queueVars, elemVars, closeVars, waitVars, countVars,
         TypeOK
<1>6. \A w \in Senders : at[w] = "waiting" => at'[w] = "waiting"
  BY DEF CloseReason, Goto
<1>7. WaiterInv'
  BY <1>1, <1>6, WaitersKept DEF CloseReason, waitVars
<1>8. HoldInv'
  BY <1>1 DEF CloseReason, Goto, countVars, HoldInv, Holding
<1>9. Live' = Live
  BY DEF CloseReason, Goto, Live, Gone
<1>10. LiveInv'
  BY <1>1, <1>9 DEF CloseReason, Goto, closeVars, LiveInv
<1>11. CloseInv'
  BY <1>1
     DEF CloseReason, Goto, queueVars, closeVars, waitVars, CloseInv, RxGone
<1>12. ReasonIsTrue'
  BY <1>1 DEF CloseReason, Goto, closeVars, ReasonIsTrue, CloseInv, RxGone
<1> QED
  BY <1>5, <1>3, <1>7, <1>8, <1>10, <1>11, <1>12 DEF AInv

LEMMA TryReserveKeeps ==
  ASSUME NEW s \in Senders, AInv, TryReserve(s)
  PROVE  AInv'
<1>1. /\ TypeOK /\ PlaceInv /\ WaiterInv /\ HoldInv
      /\ LiveInv /\ CloseInv /\ ReasonIsTrue
  BY DEF AInv
<1>2. at \in [Procs -> Labels]
  BY <1>1 DEF TypeOK
<1>3. PlaceInv'
  BY PipeAssumption, <1>1 DEF TryReserve, Goto, PlaceInv, SenderLive
<1>4. at' \in [Procs -> Labels]
  BY <1>2, LabelFacts DEF TryReserve, Goto, Procs, Handles, SenderLive
<1>5. TypeOK'
  BY <1>1, <1>4
     DEF TryReserve, queueVars, elemVars, closeVars, waitVars, countVars, TypeOK
<1>6. \A w \in Senders : at[w] = "waiting" => at'[w] = "waiting"
  BY DEF TryReserve, Goto
<1>7. WaiterInv'
  BY <1>1, <1>6, WaitersKept DEF TryReserve, waitVars
<1>8. HoldInv'
  BY <1>1 DEF TryReserve, Goto, countVars, HoldInv, Holding
<1>9. Live' = Live
  BY DEF TryReserve, Goto, Live, Gone
<1>10. LiveInv'
  BY <1>1, <1>9 DEF TryReserve, Goto, closeVars, LiveInv
<1>11. CloseInv'
  BY <1>1 DEF TryReserve, Goto, queueVars, closeVars, waitVars, CloseInv, RxGone
<1>12. ReasonIsTrue'
  BY <1>1 DEF TryReserve, Goto, closeVars, ReasonIsTrue, RxGone
<1> QED
  BY <1>5, <1>3, <1>7, <1>8, <1>10, <1>11, <1>12 DEF AInv

LEMMA AllocateKeeps ==
  ASSUME NEW s \in Senders, AInv, Allocate(s)
  PROVE  AInv'
<1>1. /\ TypeOK /\ PlaceInv /\ WaiterInv /\ HoldInv
      /\ LiveInv /\ CloseInv /\ ReasonIsTrue
  BY DEF AInv
<1>2. at \in [Procs -> Labels]
  BY <1>1 DEF TypeOK
<1>3. PlaceInv'
  BY PipeAssumption, <1>1 DEF Allocate, Goto, PlaceInv, Holding, SenderLive
<1>4. at' \in [Procs -> Labels]
  BY <1>2, LabelFacts DEF Allocate, Goto, Procs, Handles, Holding, SenderLive
<1>5. indices \subseteq Indices
  BY <1>1 DEF TypeOK
<1>6. indices' \subseteq Indices
  BY <1>5 DEF Allocate
<1>7. idx \in [Procs -> Indices \cup {NoIndex}]
  BY <1>1 DEF TypeOK
<1>8. idx' \in [Procs -> Indices \cup {NoIndex}]
  BY <1>7, <1>5 DEF Allocate, Procs, Handles
<1>9. TypeOK'
  BY <1>1, <1>4, <1>8
     DEF Allocate, Handles, queueVars, closeVars, waitVars, countVars, TypeOK
<1>10. \A w \in Senders : at[w] = "waiting" => at'[w] = "waiting"
  BY DEF Allocate, Goto
<1>11. WaiterInv'
  BY <1>1, <1>10, WaitersKept DEF Allocate, waitVars
<1>12. HoldInv'
  BY PipeAssumption, <1>1
     DEF Allocate, Goto, Handles, countVars, HoldInv, Holding, TypeOK, Indices,
         NoIndex
<1>13. Live' = Live
  BY DEF Allocate, Goto, Live, Gone
<1>14. LiveInv'
  BY <1>1, <1>13 DEF Allocate, Goto, closeVars, LiveInv
<1>15. CloseInv'
  BY <1>1 DEF Allocate, Goto, queueVars, closeVars, waitVars, CloseInv, RxGone
<1>16. ReasonIsTrue'
  BY <1>1 DEF Allocate, Goto, closeVars, ReasonIsTrue, RxGone
<1> QED
  BY <1>9, <1>3, <1>11, <1>12, <1>14, <1>15, <1>16 DEF AInv

LEMMA FullKeeps ==
  ASSUME NEW s \in Senders, AInv, Full(s)
  PROVE  AInv'
<1>1. /\ TypeOK /\ PlaceInv /\ WaiterInv /\ HoldInv
      /\ LiveInv /\ CloseInv /\ ReasonIsTrue
  BY DEF AInv
<1>2. at \in [Procs -> Labels]
  BY <1>1 DEF TypeOK
<1>3. PICK l \in {"wait", "idle"} : at[s] = "allocate" /\ at' = [at EXCEPT ![s] = l]
  BY DEF Full, Goto
<1>4. UNCHANGED <<queueVars, elemVars, closeVars, waitVars, idx, seen, countVars>>
  BY DEF Full
<1>5. PlaceInv'
  BY PipeAssumption, <1>1, <1>3 DEF PlaceInv, RootLive, SenderLive
<1>6. at' \in [Procs -> Labels]
  BY <1>2, LabelFacts, <1>3 DEF Procs, Handles, RootLive, SenderLive
<1>7. TypeOK'
  BY <1>1, <1>6, <1>4
     DEF queueVars, elemVars, closeVars, waitVars, countVars, TypeOK
<1>8. \A w \in Senders : at[w] = "waiting" => at'[w] = "waiting"
  BY <1>3
<1>9. WaiterInv'
  BY <1>1, <1>8, WaitersKept, <1>4 DEF waitVars
<1>10. HoldInv'
  BY <1>1, <1>3, <1>4 DEF countVars, HoldInv, Holding
<1>11. Live' = Live
  BY <1>3 DEF Live, Gone
<1>12. LiveInv'
  BY <1>1, <1>11, <1>3, <1>4 DEF closeVars, LiveInv
<1>13. CloseInv'
  BY <1>1, <1>3, <1>4 DEF queueVars, closeVars, waitVars, CloseInv, RxGone
<1>14. ReasonIsTrue'
  BY <1>1, <1>3, <1>4 DEF closeVars, ReasonIsTrue, RxGone
<1> QED
  BY <1>7, <1>5, <1>9, <1>10, <1>12, <1>13, <1>14 DEF AInv

LEMMA WaitReadyKeeps ==
  ASSUME NEW s \in Senders, AInv, Wait(s), prod_wait.closed \/ prod_wait.stored
  PROVE  AInv'
<1>1. /\ TypeOK /\ PlaceInv /\ WaiterInv /\ HoldInv
      /\ LiveInv /\ CloseInv /\ ReasonIsTrue
  BY DEF AInv
<1>2. at \in [Procs -> Labels]
  BY <1>1 DEF TypeOK
<1>3. PICK l \in {"reason", "reserve"} :
        /\ at[s] = "wait" /\ at' = [at EXCEPT ![s] = l]
        /\ l = "reason" => prod_wait.closed
  BY DEF Wait, Goto
<1>4. /\ prod_wait' = [prod_wait EXCEPT !.stored = FALSE]
      /\ UNCHANGED <<queueVars, elemVars, closeVars, cons_wait, idx, seen, countVars>>
  BY DEF Wait
<1>5. prod_wait'.waiters = prod_wait.waiters /\ prod_wait'.closed = prod_wait.closed
  BY <1>4
<1>6. PlaceInv'
  BY PipeAssumption, <1>1, <1>3 DEF PlaceInv, SenderLive
<1>7. at' \in [Procs -> Labels]
  BY <1>2, LabelFacts, <1>3 DEF Procs, Handles, SenderLive
<1>8. prod_wait \in [waiters : Seq(Senders), stored : BOOLEAN, closed : BOOLEAN]
  BY <1>1 DEF TypeOK
<1>9. prod_wait' \in [waiters : Seq(Senders), stored : BOOLEAN, closed : BOOLEAN]
  BY <1>8, <1>4
<1>10. TypeOK'
  BY <1>1, <1>7, <1>9, <1>4
     DEF queueVars, elemVars, closeVars, countVars, TypeOK
<1>11. \A w \in Senders : at[w] = "waiting" => at'[w] = "waiting"
  BY <1>3
<1>12. WaiterInv'
  BY <1>1, <1>11, WaitersKept, <1>4
<1>13. HoldInv'
  BY <1>1, <1>3, <1>4 DEF countVars, HoldInv, Holding
<1>14. Live' = Live
  BY <1>3 DEF Live, Gone
<1>15. LiveInv'
  BY <1>1, <1>14, <1>3, <1>4 DEF closeVars, LiveInv
<1>16. CloseInv'
  BY <1>1, <1>3, <1>4 DEF queueVars, closeVars, CloseInv, RxGone
<1>17. ReasonIsTrue'
  BY <1>1, <1>3, <1>4 DEF closeVars, ReasonIsTrue, RxGone
<1> QED
  BY <1>10, <1>6, <1>12, <1>13, <1>15, <1>16, <1>17 DEF AInv

LEMMA WaitParksKeeps ==
  ASSUME NEW s \in Senders, AInv, Wait(s), ~(prod_wait.closed \/ prod_wait.stored)
  PROVE  AInv'
<1>1. /\ TypeOK /\ PlaceInv /\ WaiterInv /\ HoldInv
      /\ LiveInv /\ CloseInv /\ ReasonIsTrue
  BY DEF AInv
<1>2. at \in [Procs -> Labels]
  BY <1>1 DEF TypeOK
<1>3. at[s] = "wait" /\ at' = [at EXCEPT ![s] = "waiting"]
  BY DEF Wait, Goto
<1>4. /\ prod_wait' = [prod_wait EXCEPT !.waiters = Append(@, s)]
      /\ UNCHANGED <<queueVars, elemVars, closeVars, cons_wait, idx, seen, countVars>>
  BY DEF Wait
<1>5. prod_wait'.waiters = Append(prod_wait.waiters, s) /\ prod_wait'.closed = prod_wait.closed
  BY <1>4
<1>6. PlaceInv'
  BY PipeAssumption, <1>1, <1>3 DEF PlaceInv, SenderLive
<1>7. at' \in [Procs -> Labels]
  BY <1>2, LabelFacts, <1>3 DEF Procs, Handles, SenderLive
<1>8. prod_wait \in [waiters : Seq(Senders), stored : BOOLEAN, closed : BOOLEAN]
  BY <1>1 DEF TypeOK
<1>9. prod_wait' \in [waiters : Seq(Senders), stored : BOOLEAN, closed : BOOLEAN]
  <2>1. Append(prod_wait.waiters, s) \in Seq(Senders)
    BY <1>1, WaiterTypes
  <2> QED
    BY <1>8, <1>4, <2>1
<1>10. TypeOK'
  BY <1>1, <1>7, <1>9, <1>4
     DEF Handles, queueVars, elemVars, closeVars, countVars, TypeOK
<1>11. WaiterInv'
  <2> DEFINE w == prod_wait.waiters
  <2>1. w \in Seq(Senders) /\ \A j \in 1 .. Len(w) : w[j] \in Senders /\ w[j] # s
    BY <1>1, <1>3, WaiterTypes DEF WaiterInv
  <2>2. /\ Len(w') = Len(w) + 1 /\ w'[Len(w) + 1] = s
        /\ \A j \in 1 .. Len(w) : w'[j] = w[j]
    BY <1>5
  <2>3. \A j \in 1 .. Len(w') : at'[w'[j]] = "waiting"
    BY <2>2, <1>1, <1>3, <1>2 DEF WaiterInv, Procs, Handles
  <2>4. \A j, k \in 1 .. Len(w) : w[j] = w[k] => j = k
    BY <1>1 DEF WaiterInv
  <2>5. \A j, k \in 1 .. Len(w') : w'[j] = w'[k] => j = k
    <3>1. Len(w) \in Nat
      BY <2>1
    <3> DEFINE n == Len(w)  v == w'
    <3>2. /\ n \in Nat /\ Len(v) = n + 1 /\ v[n + 1] = s
          /\ \A j \in 1 .. n : v[j] = w[j] /\ v[j] # s
          /\ \A j, k \in 1 .. n : w[j] = w[k] => j = k
      BY <2>1, <2>2, <2>4, <3>1
    <3> HIDE DEF n, v, w
    <3>3. \A j \in 1 .. n + 1 : j = n + 1 \/ j \in 1 .. n
      BY <3>2
    <3>4. \A j, k \in 1 .. Len(v) : v[j] = v[k] => j = k
      BY <3>2, <3>3
    <3> QED BY <3>4 DEF v, w
  <2> QED
    BY <2>3, <2>5 DEF WaiterInv
<1>12. HoldInv'
  BY <1>1, <1>3, <1>4 DEF countVars, HoldInv, Holding
<1>13. Live' = Live
  BY <1>3 DEF Live, Gone
<1>14. LiveInv'
  BY <1>1, <1>13, <1>3, <1>4 DEF closeVars, LiveInv
<1>15. CloseInv'
  BY <1>1, <1>3, <1>4 DEF queueVars, closeVars, CloseInv, RxGone
<1>16. ReasonIsTrue'
  BY <1>1, <1>3, <1>4 DEF closeVars, ReasonIsTrue, RxGone
<1> QED
  BY <1>10, <1>6, <1>11, <1>12, <1>14, <1>15, <1>16 DEF AInv

LEMMA WriteCellKeeps ==
  ASSUME NEW s \in Senders, AInv, WriteCell(s)
  PROVE  AInv'
<1>1. /\ TypeOK /\ PlaceInv /\ WaiterInv /\ HoldInv
      /\ LiveInv /\ CloseInv /\ ReasonIsTrue
  BY DEF AInv
<1>2. at \in [Procs -> Labels]
  BY <1>1 DEF TypeOK
<1>3. PlaceInv'
  BY PipeAssumption, <1>1 DEF WriteCell, Goto, PlaceInv, Holding, SenderLive
<1>4. at' \in [Procs -> Labels]
  BY <1>2, LabelFacts DEF WriteCell, Goto, Procs, Handles, Holding, SenderLive
<1>5. cells \in [Indices -> [src : Handles, n : 0 .. MaxMsgs]]
  BY <1>1 DEF TypeOK
<1>6. cells' \in [Indices -> [src : Handles, n : 0 .. MaxMsgs]]
  <2>1. idx[s] \in Indices /\ sent[s] \in 0 .. MaxMsgs /\ sent[s] < MaxMsgs
    BY <1>1 DEF WriteCell, TypeOK, HoldInv, Holding, Procs, Handles
  <2>2. [src |-> s, n |-> sent[s] + 1] \in [src : Handles, n : 0 .. MaxMsgs]
    BY <2>1, PipeAssumption DEF Handles
  <2> QED
    BY <2>1, <2>2, <1>5 DEF WriteCell
<1>7. TypeOK'
  BY <1>1, <1>4, <1>6
     DEF WriteCell, Handles, queueVars, closeVars, waitVars, countVars, TypeOK
<1>8. \A w \in Senders : at[w] = "waiting" => at'[w] = "waiting"
  BY DEF WriteCell, Goto
<1>9. WaiterInv'
  BY <1>1, <1>8, WaitersKept DEF WriteCell, waitVars
<1>10. HoldInv'
  BY <1>1 DEF WriteCell, Goto, countVars, HoldInv, Holding
<1>11. Live' = Live
  BY DEF WriteCell, Goto, Live, Gone
<1>12. LiveInv'
  BY <1>1, <1>11 DEF WriteCell, Goto, closeVars, LiveInv
<1>13. CloseInv'
  BY <1>1 DEF WriteCell, Goto, queueVars, closeVars, waitVars, CloseInv, RxGone
<1>14. ReasonIsTrue'
  BY <1>1 DEF WriteCell, Goto, closeVars, ReasonIsTrue, RxGone
<1> QED
  BY <1>7, <1>3, <1>9, <1>10, <1>12, <1>13, <1>14 DEF AInv

LEMMA DropPermitKeeps ==
  ASSUME NEW s \in Senders, AInv, DropPermit(s)
  PROVE  AInv'
<1>1. /\ TypeOK /\ PlaceInv /\ WaiterInv /\ HoldInv
      /\ LiveInv /\ CloseInv /\ ReasonIsTrue
  BY DEF AInv
<1>2. at \in [Procs -> Labels]
  BY <1>1 DEF TypeOK
<1>3. PlaceInv'
  BY PipeAssumption, <1>1 DEF DropPermit, Goto, PlaceInv, Holding, SenderLive
<1>4. at' \in [Procs -> Labels]
  BY <1>2, LabelFacts DEF DropPermit, Goto, Procs, Handles, Holding, SenderLive
<1>5. TypeOK'
  BY <1>1, <1>4
     DEF DropPermit, queueVars, elemVars, closeVars, waitVars, countVars, TypeOK
<1>6. \A w \in Senders : at[w] = "waiting" => at'[w] = "waiting"
  BY DEF DropPermit, Goto
<1>7. WaiterInv'
  BY <1>1, <1>6, WaitersKept DEF DropPermit, waitVars
<1>8. HoldInv'
  BY <1>1 DEF DropPermit, Goto, countVars, HoldInv, Holding
<1>9. Live' = Live
  BY DEF DropPermit, Goto, Live, Gone
<1>10. LiveInv'
  BY <1>1, <1>9 DEF DropPermit, Goto, closeVars, LiveInv
<1>11. CloseInv'
  BY <1>1 DEF DropPermit, Goto, queueVars, closeVars, waitVars, CloseInv, RxGone
<1>12. ReasonIsTrue'
  BY <1>1 DEF DropPermit, Goto, closeVars, ReasonIsTrue, RxGone
<1> QED
  BY <1>5, <1>3, <1>7, <1>8, <1>10, <1>11, <1>12 DEF AInv

LEMMA UncommitKeeps ==
  ASSUME NEW p \in Senders \cup {Rx}, AInv, Uncommit(p)
  PROVE  AInv'
<1>1. /\ TypeOK /\ PlaceInv /\ WaiterInv /\ HoldInv
      /\ LiveInv /\ CloseInv /\ ReasonIsTrue
  BY DEF AInv
<1>2. at \in [Procs -> Labels]
  BY <1>1 DEF TypeOK
<1>3. idx[p] \in Indices
  BY <1>1 DEF Uncommit, Procs, Handles, HoldInv, Holding, TypeOK
<1>4. PlaceInv'
  BY PipeAssumption, <1>1 DEF Uncommit, Goto, PlaceInv, SenderLive, RxLabels
<1>5. at' \in [Procs -> Labels]
  BY <1>2, LabelFacts DEF Uncommit, Goto, Procs, Handles, SenderLive
<1>6. indices \subseteq Indices
  BY <1>1 DEF TypeOK
<1>7. indices' \subseteq Indices
  BY <1>6, <1>3 DEF Uncommit
<1>8. idx \in [Procs -> Indices \cup {NoIndex}]
  BY <1>1 DEF TypeOK
<1>9. idx' \in [Procs -> Indices \cup {NoIndex}]
  BY <1>8 DEF Uncommit, Procs, Handles
<1>10. TypeOK'
  BY <1>1, <1>5, <1>7, <1>9
     DEF Uncommit, queueVars, closeVars, waitVars, countVars, TypeOK
<1>11. \A w \in Senders : at[w] = "waiting" => at'[w] = "waiting"
  BY DEF Uncommit, Goto
<1>12. WaiterInv'
  BY <1>1, <1>11, WaitersKept DEF Uncommit, waitVars
<1>13. HoldInv'
  BY <1>1, <1>2, <1>8 DEF Uncommit, Goto, countVars, HoldInv, Holding
<1>14. Live' = Live
  BY DEF Uncommit, Goto, Live, Gone
<1>15. LiveInv'
  BY <1>1, <1>14 DEF Uncommit, Goto, closeVars, LiveInv
<1>16. CloseInv'
  BY <1>1 DEF Uncommit, Goto, queueVars, closeVars, waitVars, CloseInv, RxGone
<1>17. ReasonIsTrue'
  BY <1>1 DEF Uncommit, Goto, closeVars, ReasonIsTrue, RxGone
<1> QED
  BY <1>10, <1>4, <1>12, <1>13, <1>15, <1>16, <1>17 DEF AInv

LEMMA WakeNobodyKeeps ==
  ASSUME NEW p \in Senders \cup {Rx}, AInv, UncommitWake(p), prod_wait.waiters = <<>>
  PROVE  AInv'
<1>1. /\ TypeOK /\ PlaceInv /\ WaiterInv /\ HoldInv
      /\ LiveInv /\ CloseInv /\ ReasonIsTrue
  BY DEF AInv
<1>2. at \in [Procs -> Labels]
  BY <1>1 DEF TypeOK
<1>3. at[p] = "wake_prod" /\ at' = [at EXCEPT ![p] = "idle"]
  BY DEF UncommitWake, WakeProd, Goto
<1>4. /\ prod_wait' = [prod_wait EXCEPT !.stored = ~prod_wait.closed]
      /\ UNCHANGED <<queueVars, elemVars, closeVars, cons_wait, idx, seen, countVars>>
  BY DEF UncommitWake, WakeProd
<1>5. prod_wait'.waiters = prod_wait.waiters /\ prod_wait'.closed = prod_wait.closed
  BY <1>4
<1>6. PlaceInv'
  BY <1>1, <1>3 DEF PlaceInv, RootLive, SenderLive, RxLabels
<1>7. at' \in [Procs -> Labels]
  BY <1>2, LabelFacts, <1>3 DEF Procs, Handles, RootLive, SenderLive
<1>8. prod_wait \in [waiters : Seq(Senders), stored : BOOLEAN, closed : BOOLEAN]
  BY <1>1 DEF TypeOK
<1>9. prod_wait' \in [waiters : Seq(Senders), stored : BOOLEAN, closed : BOOLEAN]
  BY <1>8, <1>4
<1>10. TypeOK'
  BY <1>1, <1>7, <1>4 DEF queueVars, elemVars, closeVars, countVars, TypeOK
<1>11. \A w \in Senders : at[w] = "waiting" => at'[w] = "waiting"
  BY <1>3
<1>12. WaiterInv'
  BY <1>1, <1>11, WaitersKept, <1>4
<1>13. HoldInv'
  BY <1>1, <1>3, <1>4 DEF countVars, HoldInv, Holding
<1>14. Live' = Live
  BY <1>3 DEF Live, Gone
<1>15. LiveInv'
  BY <1>1, <1>14, <1>3, <1>4 DEF closeVars, LiveInv
<1>16. CloseInv'
  BY <1>1, <1>3, <1>4 DEF queueVars, closeVars, CloseInv, RxGone
<1>17. ReasonIsTrue'
  BY <1>1, <1>3, <1>4 DEF closeVars, ReasonIsTrue, RxGone
<1> QED
  BY <1>10, <1>6, <1>12, <1>13, <1>15, <1>16, <1>17 DEF AInv

LEMMA WakeSenderKeeps ==
  ASSUME NEW p \in Senders \cup {Rx}, AInv, UncommitWake(p), prod_wait.waiters # <<>>,
         NEW w, w = Head(prod_wait.waiters)
  PROVE  AInv'
<1>1. /\ TypeOK /\ PlaceInv /\ WaiterInv /\ HoldInv
      /\ LiveInv /\ CloseInv /\ ReasonIsTrue
  BY DEF AInv
<1>2. at \in [Procs -> Labels]
  BY <1>1 DEF TypeOK
<1>3. w \in Senders /\ w = prod_wait.waiters[1] /\ at[w] = "waiting"
  <2>1. /\ prod_wait.waiters \in Seq(Senders)
        /\ \A j \in 1 .. Len(prod_wait.waiters) : prod_wait.waiters[j] \in Senders
    BY <1>1, WaiterTypes
  <2>2. 1 \in 1 .. Len(prod_wait.waiters) /\ w = prod_wait.waiters[1]
    OBVIOUS
  <2> QED
    BY <2>1, <1>1 DEF WaiterInv
<1>4. at[p] = "wake_prod" /\ at' = [at EXCEPT ![p] = "idle", ![w] = "reserve"]
  BY DEF UncommitWake, WakeProd
<1>5. /\ prod_wait' = [prod_wait EXCEPT !.waiters = Tail(@)]
      /\ UNCHANGED <<queueVars, elemVars, closeVars, cons_wait, idx, seen, countVars>>
  BY DEF UncommitWake, WakeProd
<1>6. prod_wait'.waiters = Tail(prod_wait.waiters) /\ prod_wait'.closed = prod_wait.closed
  BY <1>5
<1>7. PlaceInv'
  BY PipeAssumption, <1>1, <1>2, <1>3, <1>4
     DEF Procs, Handles, PlaceInv, RootLive, SenderLive, RxLabels
<1>8. at' \in [Procs -> Labels]
  BY <1>2, LabelFacts, <1>3, <1>4 DEF Procs, Handles, RootLive, SenderLive
<1>9. prod_wait \in [waiters : Seq(Senders), stored : BOOLEAN, closed : BOOLEAN]
  BY <1>1 DEF TypeOK
<1>10. prod_wait' \in [waiters : Seq(Senders), stored : BOOLEAN, closed : BOOLEAN]
  <2>1. Tail(prod_wait.waiters) \in Seq(Senders)
    BY <1>1, WaiterTypes
  <2> QED
    BY <1>9, <1>5, <2>1
<1>11. TypeOK'
  BY <1>1, <1>8, <1>10, <1>5
     DEF queueVars, elemVars, closeVars, countVars, TypeOK
<1>12. WaiterInv'
  <2> DEFINE q == prod_wait.waiters
  <2>1. q \in Seq(Senders) /\ q # <<>> /\ \A j \in 1 .. Len(q) : q[j] \in Senders
    BY <1>1, WaiterTypes
  <2>2. /\ Len(q') = Len(q) - 1
        /\ \A j \in 1 .. Len(q') : j + 1 \in 1 .. Len(q) /\ q'[j] = q[j + 1]
    BY <1>6
  <2> HIDE DEF q
  <2>3. \A j, k \in 1 .. Len(q) : at[q[j]] = "waiting" /\ (q[j] = q[k] => j = k)
    BY <1>1 DEF q, WaiterInv
  <2>4. w = q[1] /\ 1 \in 1 .. Len(q) /\ Len(q) \in Nat
    BY DEF q
  <2>5. \A j \in 1 .. Len(q') : q'[j] # w /\ q'[j] # p
    BY <2>2, <2>3, <2>4, <1>4
  <2>6. \A j \in 1 .. Len(q') : at'[q'[j]] = "waiting"
    BY <2>1, <2>2, <2>5, <2>3, <1>4, <1>2 DEF Procs, Handles
  <2>7. \A j, k \in 1 .. Len(q') : q'[j] = q'[k] => j = k
    BY <2>2, <2>3
  <2> QED
    BY <2>6, <2>7 DEF q, WaiterInv
<1>13. HoldInv'
  BY <1>1, <1>2, <1>3, <1>4, <1>5
     DEF Procs, Handles, countVars, HoldInv, Holding
<1>14. Live' = Live
  BY <1>2, <1>3, <1>4 DEF Procs, Live, Gone
<1>15. LiveInv'
  BY <1>1, <1>2, <1>14, <1>4, <1>5 DEF Procs, closeVars, LiveInv
<1>16. CloseInv'
  <2>1. \A q \in Procs : at'[q] = IF q = w THEN "reserve" ELSE
                                  IF q = p THEN "idle" ELSE at[q]
    BY <1>2, <1>4
  <2>2. at'[Rx] = "idle" \/ at'[Rx] = at[Rx]
    BY <1>3, <2>1, PipeAssumption DEF Procs
  <2>3. RxGone => at'[Rx] = at[Rx]
    BY <1>3, <1>4, <2>1 DEF Procs, RxGone
  <2>4. UNCHANGED <<enqueue_pos, dequeue_pos, state, error>> /\ (RxGone' <=> RxGone)
    BY <1>5, <2>2, <2>3 DEF RxGone, queueVars, closeVars
  <2>5. \A q \in Procs : at'[q] \in ErrLabels \cup {"reason"} => at'[q] = at[q]
    BY <2>1 DEF ErrLabels
  <2>6. \E h \in Handles : at[h] \notin {"absent", "dropped", "close_cons"}
    BY <1>3 DEF Handles
  <2> QED
    BY <1>1, <1>6, <2>4, <2>5, <2>6 DEF CloseInv, ErrLabels, Procs, Handles
<1>17. ReasonIsTrue'
  BY <1>1, <1>2, <1>3, <1>4, <1>5
     DEF Procs, Handles, closeVars, ReasonIsTrue, RxGone
<1> QED
  BY <1>11, <1>7, <1>12, <1>13, <1>15, <1>16, <1>17 DEF AInv

LEMMA GotTailKeeps ==
  ASSUME NEW s \in Senders, AInv, at[s] \in {"load_tail", "cas_tail"}, GotTail(s),
         UNCHANGED <<queueVars, elemVars, closeVars, waitVars, countVars>>
  PROVE  AInv'
<1>1. /\ TypeOK /\ PlaceInv /\ WaiterInv /\ HoldInv
      /\ LiveInv /\ CloseInv /\ ReasonIsTrue
  BY DEF AInv
<1>2. at \in [Procs -> Labels]
  BY <1>1 DEF TypeOK
<1>3. PlaceInv'
  BY PipeAssumption, <1>1 DEF GotTail, Goto, PlaceInv, Holding, SenderLive
<1>4. at' \in [Procs -> Labels]
  BY <1>2, LabelFacts DEF GotTail, Goto, Procs, Handles, Holding, SenderLive
<1>5. idx \in [Procs -> Indices \cup {NoIndex}]
  BY <1>1 DEF TypeOK
<1>6. idx' \in [Procs -> Indices \cup {NoIndex}]
  BY <1>5 DEF GotTail, Procs, Handles
<1>7. seen \in [Procs -> [pos : Positions, closed : BOOLEAN, seq : Positions,
                        idx : Indices]]
  BY <1>1 DEF TypeOK
<1>8. seen' \in [Procs -> [pos : Positions, closed : BOOLEAN, seq : Positions,
                        idx : Indices]]
  <2>1. [pos |-> enqueue_pos.pos, closed |-> enqueue_pos.closed, seq |-> 0, idx |-> 0]
          \in [pos : Positions, closed : BOOLEAN, seq : Positions, idx : Indices]
    BY <1>1, ZeroTypes DEF TypeOK
  <2> QED
    BY <2>1, <1>7 DEF GotTail
<1>9. TypeOK'
  BY <1>1, <1>4, <1>6, <1>8
     DEF queueVars, elemVars, closeVars, waitVars, countVars, TypeOK
<1>10. \A w \in Senders : at[w] = "waiting" => at'[w] = "waiting"
  BY DEF GotTail, Goto
<1>11. WaiterInv'
  BY <1>1, <1>10, WaitersKept DEF waitVars
<1>12. HoldInv'
  <2>1. \A t \in Procs \ {s} : at'[t] = at[t] /\ idx'[t] = idx[t] /\ seen'[t] = seen[t]
    BY DEF GotTail, Goto
  <2>2. /\ at'[s] = IF enqueue_pos.closed THEN "reason" ELSE "load_slot"
        /\ idx'[s] = IF enqueue_pos.closed THEN NoIndex ELSE idx[s]
        /\ seen'[s].closed = enqueue_pos.closed
    BY <1>2, <1>5, <1>7 DEF GotTail, Goto, Procs, Handles
  <2>3. Root \in Procs \ {s} /\ Rx \in Procs \ {s} /\ Senders \subseteq Procs
    BY PipeAssumption DEF Procs, Handles
  <2> QED
    BY <1>1, <2>1, <2>2, <2>3 DEF HoldInv, Holding, countVars
<1>13. Live' = Live
  BY DEF GotTail, Goto, Live, Gone
<1>14. LiveInv'
  BY <1>1, <1>13 DEF GotTail, Goto, closeVars, LiveInv
<1>15. CloseInv'
  BY <1>1 DEF GotTail, Goto, queueVars, closeVars, waitVars, CloseInv, RxGone
<1>16. ReasonIsTrue'
  BY <1>1 DEF GotTail, Goto, closeVars, ReasonIsTrue, RxGone
<1> QED
  BY <1>9, <1>3, <1>11, <1>12, <1>14, <1>15, <1>16 DEF AInv

LEMMA LoadSlotGoes ==
  ASSUME NEW s \in Senders, TypeOK, LoadSlot(s)
  PROVE  \E l \in {"panic", "cas_tail", "load_tail"} :
           at[s] = "load_slot" /\ at' = [at EXCEPT ![s] = l]
<1> DEFINE seq == queue[Slot(seen[s].pos)].seq
           lbl == CASE seq < seen[s].pos -> "panic"
                    [] seq = seen[s].pos -> "cas_tail"
                    [] seq > seen[s].pos -> "load_tail"
<1>1. seq \in Nat /\ seen[s].pos \in Nat
  BY SeenTypes, SlotTypes DEF Procs, Handles
<1>2. lbl \in {"panic", "cas_tail", "load_tail"}
  BY <1>1
<1>3. at[s] = "load_slot" /\ at' = [at EXCEPT ![s] = lbl]
  BY DEF LoadSlot, Goto
<1> QED
  BY <1>2, <1>3

LEMMA LoadSlotKeeps ==
  ASSUME NEW s \in Senders, AInv, LoadSlot(s)
  PROVE  AInv'
<1>1. /\ TypeOK /\ PlaceInv /\ WaiterInv /\ HoldInv
      /\ LiveInv /\ CloseInv /\ ReasonIsTrue
  BY DEF AInv
<1>2. at \in [Procs -> Labels]
  BY <1>1 DEF TypeOK
<1>3. PICK l \in {"panic", "cas_tail", "load_tail"} :
        at[s] = "load_slot" /\ at' = [at EXCEPT ![s] = l]
  BY <1>1, LoadSlotGoes
<1>4. UNCHANGED <<queueVars, elemVars, closeVars, waitVars, idx, seen, countVars>>
  BY DEF LoadSlot
<1>5. PlaceInv'
  BY PipeAssumption, <1>1, <1>3 DEF PlaceInv, Holding, SenderLive
<1>6. at' \in [Procs -> Labels]
  BY <1>2, LabelFacts, <1>3 DEF Procs, Handles, Holding, SenderLive
<1>7. TypeOK'
  BY <1>1, <1>6, <1>4
     DEF queueVars, elemVars, closeVars, waitVars, countVars, TypeOK
<1>8. \A w \in Senders : at[w] = "waiting" => at'[w] = "waiting"
  BY <1>3
<1>9. WaiterInv'
  BY <1>1, <1>8, WaitersKept, <1>4 DEF waitVars
<1>10. HoldInv'
  BY <1>1, <1>3, <1>4 DEF countVars, HoldInv, Holding
<1>11. Live' = Live
  BY <1>3 DEF Live, Gone
<1>12. LiveInv'
  BY <1>1, <1>11, <1>3, <1>4 DEF closeVars, LiveInv
<1>13. CloseInv'
  BY <1>1, <1>3, <1>4 DEF queueVars, closeVars, waitVars, CloseInv, RxGone
<1>14. ReasonIsTrue'
  BY <1>1, <1>3, <1>4 DEF closeVars, ReasonIsTrue, RxGone
<1> QED
  BY <1>7, <1>5, <1>9, <1>10, <1>12, <1>13, <1>14 DEF AInv

LEMMA CasTailKeeps ==
  ASSUME NEW s \in Senders, AInv, CasTail(s)
  PROVE  AInv'
<1>1. /\ TypeOK /\ PlaceInv /\ WaiterInv /\ HoldInv
      /\ LiveInv /\ CloseInv /\ ReasonIsTrue
  BY DEF AInv
<1>2. at \in [Procs -> Labels]
  BY <1>1 DEF TypeOK
<1>3. PlaceInv'
  BY PipeAssumption, <1>1 DEF CasTail, Goto, PlaceInv, Holding, SenderLive
<1>4. at' \in [Procs -> Labels]
  BY <1>2, LabelFacts DEF CasTail, Goto, Procs, Handles, Holding, SenderLive
<1>5. enqueue_pos \in [pos : Positions, closed : BOOLEAN]
  BY <1>1 DEF TypeOK
<1>6. enqueue_pos' \in [pos : Positions, closed : BOOLEAN]
  BY <1>5, <1>1, PosTypes DEF CasTail
<1>7. TypeOK'
  BY <1>1, <1>4, <1>6
     DEF CasTail, elemVars, closeVars, waitVars, countVars, TypeOK
<1>8. \A w \in Senders : at[w] = "waiting" => at'[w] = "waiting"
  BY DEF CasTail, Goto
<1>9. WaiterInv'
  BY <1>1, <1>8, WaitersKept DEF CasTail, waitVars
<1>10. HoldInv'
  BY <1>1 DEF CasTail, Goto, countVars, HoldInv, Holding
<1>11. Live' = Live
  BY DEF CasTail, Goto, Live, Gone
<1>12. LiveInv'
  BY <1>1, <1>11 DEF CasTail, Goto, closeVars, LiveInv
<1>13. CloseInv'
  BY <1>1 DEF CasTail, Goto, closeVars, waitVars, CloseInv, RxGone
<1>14. ReasonIsTrue'
  BY <1>1 DEF CasTail, Goto, closeVars, ReasonIsTrue, RxGone
<1> QED
  BY <1>7, <1>3, <1>9, <1>10, <1>12, <1>13, <1>14 DEF AInv

LEMMA StoreSlotKeeps ==
  ASSUME NEW s \in Senders, AInv, StoreSlot(s)
  PROVE  AInv'
<1>1. /\ TypeOK /\ PlaceInv /\ WaiterInv /\ HoldInv
      /\ LiveInv /\ CloseInv /\ ReasonIsTrue
  BY DEF AInv
<1>2. at \in [Procs -> Labels]
  BY <1>1 DEF TypeOK
<1>3. idx[s] \in Indices /\ sent[s] \in 0 .. MaxMsgs /\ sent[s] < MaxMsgs
  BY <1>1 DEF StoreSlot, Procs, Handles, HoldInv, Holding, TypeOK
<1>4. PlaceInv'
  BY PipeAssumption, <1>1 DEF StoreSlot, Goto, PlaceInv, SenderLive
<1>5. at' \in [Procs -> Labels]
  BY <1>2, LabelFacts DEF StoreSlot, Goto, Procs, Handles, SenderLive
<1>6. queue \in [Slots -> SlotValues]
  BY <1>1 DEF TypeOK
<1>7. queue' \in [Slots -> SlotValues]
  <2>1. [seq |-> PosAdd(seen[s].pos, 1), idx |-> idx[s]] \in SlotValues
    BY <1>3, <1>1, SeenTypes, PosAddType DEF SlotValues, Procs, Handles
  <2> QED
    BY <2>1, <1>6 DEF StoreSlot
<1>8. idx \in [Procs -> Indices \cup {NoIndex}]
  BY <1>1 DEF TypeOK
<1>9. idx' \in [Procs -> Indices \cup {NoIndex}]
  BY <1>8 DEF StoreSlot, Procs, Handles
<1>10. sent \in [Senders -> 0 .. MaxMsgs]
  BY <1>1 DEF TypeOK
<1>11. sent' \in [Senders -> 0 .. MaxMsgs]
  BY <1>10, <1>3, PipeAssumption DEF StoreSlot
<1>12. TypeOK'
  BY <1>1, <1>5, <1>7, <1>9, <1>11
     DEF StoreSlot, elemVars, closeVars, waitVars, TypeOK
<1>13. \A w \in Senders : at[w] = "waiting" => at'[w] = "waiting"
  BY DEF StoreSlot, Goto
<1>14. WaiterInv'
  BY <1>1, <1>13, WaitersKept DEF StoreSlot, waitVars
<1>15. HoldInv'
  BY <1>1, <1>2, <1>8 DEF StoreSlot, Goto, Procs, Handles, HoldInv, Holding
<1>16. Live' = Live
  BY DEF StoreSlot, Goto, Live, Gone
<1>17. LiveInv'
  BY <1>1, <1>16 DEF StoreSlot, Goto, closeVars, LiveInv
<1>18. CloseInv'
  BY <1>1 DEF StoreSlot, Goto, closeVars, waitVars, CloseInv, RxGone
<1>19. ReasonIsTrue'
  BY <1>1 DEF StoreSlot, Goto, closeVars, ReasonIsTrue, RxGone
<1> QED
  BY <1>12, <1>4, <1>14, <1>15, <1>17, <1>18, <1>19 DEF AInv

LEMMA WakeConsKeeps ==
  ASSUME NEW s \in Senders, AInv, WakeCons(s)
  PROVE  AInv'
<1>1. /\ TypeOK /\ PlaceInv /\ WaiterInv /\ HoldInv
      /\ LiveInv /\ CloseInv /\ ReasonIsTrue
  BY DEF AInv
<1>2. at \in [Procs -> Labels]
  BY <1>1 DEF TypeOK
<1>3. at[s] = "wake_cons" /\ at'[s] = "idle"
  BY <1>2 DEF WakeCons, Woken, Procs, Handles
<1>4. /\ at' = [q \in Procs |-> at'[q]]
      /\ \A q \in Procs \ {s} :
           at'[q] = at[q] \/ (q = Rx /\ at[q] = "parked" /\ at'[q] = "idle")
  <2> DEFINE a == [at EXCEPT ![s] = "idle"]
  <2>1. a \in [Procs -> Labels \cup {"idle"}] /\ \A q \in Procs \ {s} : a[q] = at[q]
    BY <1>2
  <2>2. at' = IF a[Rx] = "parked" THEN [a EXCEPT ![Rx] = "idle"] ELSE a
    BY DEF WakeCons, Woken
  <2> HIDE DEF a
  <2>3. /\ at' = [q \in Procs |-> at'[q]]
        /\ \A q \in Procs :
             at'[q] = a[q] \/ (q = Rx /\ a[q] = "parked" /\ at'[q] = "idle")
    BY <2>1, <2>2
  <2> QED
    BY <2>1, <2>3
<1>5. /\ cons_wait' = [cons_wait EXCEPT !.woken = TRUE]
      /\ UNCHANGED <<queueVars, elemVars, closeVars, prod_wait, idx, seen, countVars>>
  BY DEF WakeCons
<1>6. PlaceInv'
  BY <1>1, <1>3, <1>4
     DEF Procs, Handles, PlaceInv, RootLive, SenderLive, RxLabels
<1>7. at' \in [Procs -> Labels]
  BY <1>2, LabelFacts, <1>3, <1>4 DEF RootLive, SenderLive
<1>8. cons_wait \in [woken : BOOLEAN, closed : BOOLEAN]
  BY <1>1 DEF TypeOK
<1>9. cons_wait' \in [woken : BOOLEAN, closed : BOOLEAN]
  BY <1>8, <1>5
<1>10. TypeOK'
  BY <1>1, <1>7, <1>9, <1>5
     DEF queueVars, elemVars, closeVars, countVars, TypeOK
<1>11. \A w \in Senders : at[w] = "waiting" => at'[w] = "waiting"
  BY <1>3, <1>4 DEF Procs, Handles
<1>12. WaiterInv'
  BY <1>1, <1>11, WaitersKept, <1>5
<1>13. HoldInv'
  BY <1>1, <1>3, <1>4, <1>5 DEF Procs, Handles, countVars, HoldInv, Holding
<1>14. Live' = Live
  BY <1>3, <1>4 DEF Procs, Live, Gone
<1>15. LiveInv'
  BY <1>1, <1>14, <1>3, <1>4, <1>5 DEF Procs, closeVars, LiveInv
<1>16. CloseInv'
  BY <1>1, <1>3, <1>4, <1>5
     DEF Procs, Handles, queueVars, closeVars, CloseInv, RxGone
<1>17. ReasonIsTrue'
  BY <1>1, <1>3, <1>4, <1>5 DEF Procs, Handles, closeVars, ReasonIsTrue, RxGone
<1> QED
  BY <1>10, <1>6, <1>12, <1>13, <1>15, <1>16, <1>17 DEF AInv

LEMMA GotHeadKeeps ==
  ASSUME AInv, at[Rx] \in {"idle", "cas_head"}, GotHead,
         UNCHANGED <<queueVars, elemVars, closeVars, waitVars, idx, countVars>>
  PROVE  AInv'
<1>1. /\ TypeOK /\ PlaceInv /\ WaiterInv /\ HoldInv
      /\ LiveInv /\ CloseInv /\ ReasonIsTrue
  BY DEF AInv
<1>2. at \in [Procs -> Labels]
  BY <1>1 DEF TypeOK
<1>3. PlaceInv'
  BY PipeAssumption, <1>1 DEF GotHead, Goto, PlaceInv, RxLabels
<1>4. at' \in [Procs -> Labels]
  BY <1>2, LabelFacts DEF GotHead, Goto, Procs, RxLabels
<1>5. seen \in [Procs -> [pos : Positions, closed : BOOLEAN, seq : Positions,
                        idx : Indices]]
  BY <1>1 DEF TypeOK
<1>6. seen' \in [Procs -> [pos : Positions, closed : BOOLEAN, seq : Positions,
                        idx : Indices]]
  <2>1. [pos |-> dequeue_pos.pos, closed |-> dequeue_pos.closed, seq |-> 0, idx |-> 0]
          \in [pos : Positions, closed : BOOLEAN, seq : Positions, idx : Indices]
    BY <1>1, ZeroTypes DEF TypeOK
  <2> QED
    BY <2>1, <1>5 DEF GotHead
<1>7. TypeOK'
  BY <1>1, <1>4, <1>6
     DEF queueVars, elemVars, closeVars, waitVars, countVars, TypeOK
<1>8. \A w \in Senders : at[w] = "waiting" => at'[w] = "waiting"
  BY DEF GotHead, Goto
<1>9. WaiterInv'
  BY <1>1, <1>8, WaitersKept DEF waitVars
<1>10. HoldInv'
  BY PipeAssumption, <1>1 DEF GotHead, Goto, countVars, HoldInv
<1>11. Live' = Live
  BY PipeAssumption DEF GotHead, Goto, Handles, Live
<1>12. LiveInv'
  BY <1>1, <1>11 DEF GotHead, Goto, closeVars, LiveInv
<1>13. CloseInv'
  BY <1>1 DEF GotHead, Goto, queueVars, closeVars, waitVars, CloseInv, RxGone
<1>14. ReasonIsTrue'
  BY <1>1 DEF GotHead, Goto, closeVars, ReasonIsTrue, RxGone
<1> QED
  BY <1>7, <1>3, <1>9, <1>10, <1>12, <1>13, <1>14 DEF AInv

LEMMA LoadSlotRxGoes ==
  ASSUME TypeOK, LoadSlotRx
  PROVE  \E l \in {"reason", "poll_wait", "cas_head", "idle"} :
           at[Rx] = "load_slot_rx" /\ at' = [at EXCEPT ![Rx] = l]
<1> DEFINE ready == ReadySeq(seen[Rx].pos)
           seq == queue[Slot(seen[Rx].pos)].seq
           lbl == CASE seq < ready /\ seen[Rx].closed -> "reason"
                    [] seq < ready /\ ~seen[Rx].closed -> "poll_wait"
                    [] seq = ready -> "cas_head"
                    [] seq > ready -> "idle"
<1>1. seq \in Nat /\ ready \in Nat
  BY SeenTypes, SlotTypes DEF Procs, ReadySeq
<1>2. lbl \in {"reason", "poll_wait", "cas_head", "idle"}
  BY <1>1
<1>3. at[Rx] = "load_slot_rx" /\ at' = [at EXCEPT ![Rx] = lbl]
  BY DEF LoadSlotRx, Goto
<1> QED
  BY <1>2, <1>3

LEMMA LoadSlotRxKeeps ==
  ASSUME AInv, LoadSlotRx
  PROVE  AInv'
<1>1. /\ TypeOK /\ PlaceInv /\ WaiterInv /\ HoldInv
      /\ LiveInv /\ CloseInv /\ ReasonIsTrue
  BY DEF AInv
<1>2. at \in [Procs -> Labels]
  BY <1>1 DEF TypeOK
<1>3. /\ queue[Slot(seen[Rx].pos)] \in SlotValues
      /\ queue[Slot(seen[Rx].pos)].seq \in Nat /\ ReadySeq(seen[Rx].pos) \in Nat
  BY <1>1, SeenTypes, SlotTypes DEF Procs, ReadySeq
<1>4. PICK l \in {"reason", "poll_wait", "cas_head", "idle"} :
        at[Rx] = "load_slot_rx" /\ at' = [at EXCEPT ![Rx] = l]
  BY <1>1, LoadSlotRxGoes
<1>5. seen' = [seen EXCEPT ![Rx].seq = queue[Slot(seen[Rx].pos)].seq,
                             ![Rx].idx = queue[Slot(seen[Rx].pos)].idx]
  BY DEF LoadSlotRx
<1>6. UNCHANGED <<queueVars, elemVars, closeVars, waitVars, idx, countVars>>
  BY DEF LoadSlotRx
<1>7. PlaceInv'
  BY PipeAssumption, <1>1, <1>4 DEF PlaceInv, RxLabels
<1>8. at' \in [Procs -> Labels]
  BY <1>2, LabelFacts, <1>4 DEF Procs, RxLabels
<1>9. seen \in [Procs -> [pos : Positions, closed : BOOLEAN, seq : Positions,
                        idx : Indices]]
  BY <1>1 DEF TypeOK
<1>10. seen' \in [Procs -> [pos : Positions, closed : BOOLEAN, seq : Positions,
                         idx : Indices]]
  BY <1>9, <1>3, <1>5 DEF Procs, SlotValues
<1>11. TypeOK'
  BY <1>1, <1>8, <1>10, <1>6
     DEF queueVars, elemVars, closeVars, waitVars, countVars, TypeOK
<1>12. \A w \in Senders : at[w] = "waiting" => at'[w] = "waiting"
  BY <1>4
<1>13. WaiterInv'
  BY <1>1, <1>12, WaitersKept, <1>6 DEF waitVars
<1>14. HoldInv'
  <2>1. \A t \in Handles : at'[t] = at[t] /\ seen'[t] = seen[t]
    BY <1>4, <1>5, <1>9, PipeAssumption DEF Procs, Handles
  <2>2. at'[Rx] \in {"reason", "poll_wait", "cas_head", "idle"}
    BY <1>2, <1>4 DEF Procs
  <2> QED
    BY <1>1, <1>4, <1>6, <2>1 DEF HoldInv, Handles, countVars
<1>15. Live' = Live
  BY <1>4 DEF Live, Gone
<1>16. LiveInv'
  BY <1>1, <1>15, <1>4, <1>6 DEF closeVars, LiveInv
<1>17. CloseInv'
  BY PipeAssumption, <1>1, <1>4, <1>6
     DEF queueVars, closeVars, waitVars, CloseInv, RxGone
<1>18. ReasonIsTrue'
  BY <1>1, <1>4, <1>6 DEF closeVars, ReasonIsTrue, RxGone
<1> QED
  BY <1>11, <1>7, <1>13, <1>14, <1>16, <1>17, <1>18 DEF AInv

LEMMA CasHeadKeeps ==
  ASSUME AInv, CasHead
  PROVE  AInv'
<1>1. /\ TypeOK /\ PlaceInv /\ WaiterInv /\ HoldInv
      /\ LiveInv /\ CloseInv /\ ReasonIsTrue
  BY DEF AInv
<1>2. at \in [Procs -> Labels]
  BY <1>1 DEF TypeOK
<1>3. PlaceInv'
  BY PipeAssumption, <1>1 DEF CasHead, Goto, PlaceInv, RxLabels
<1>4. at' \in [Procs -> Labels]
  BY <1>2, LabelFacts DEF CasHead, Goto, Procs, RxLabels
<1>5. dequeue_pos \in [pos : Positions, closed : BOOLEAN]
  BY <1>1 DEF TypeOK
<1>6. dequeue_pos' \in [pos : Positions, closed : BOOLEAN]
  BY <1>5, <1>1, PosTypes DEF CasHead
<1>7. TypeOK'
  BY <1>1, <1>4, <1>6
     DEF CasHead, elemVars, closeVars, waitVars, countVars, TypeOK
<1>8. \A w \in Senders : at[w] = "waiting" => at'[w] = "waiting"
  BY DEF CasHead, Goto
<1>9. WaiterInv'
  BY <1>1, <1>8, WaitersKept DEF CasHead, waitVars
<1>10. HoldInv'
  BY PipeAssumption, <1>1 DEF CasHead, Goto, countVars, HoldInv
<1>11. Live' = Live
  BY PipeAssumption DEF CasHead, Goto, Handles, Live
<1>12. LiveInv'
  BY <1>1, <1>11 DEF CasHead, Goto, closeVars, LiveInv
<1>13. CloseInv'
  BY <1>1 DEF CasHead, Goto, closeVars, waitVars, CloseInv, RxGone
<1>14. ReasonIsTrue'
  BY <1>1 DEF CasHead, Goto, closeVars, ReasonIsTrue, RxGone
<1> QED
  BY <1>7, <1>3, <1>9, <1>10, <1>12, <1>13, <1>14 DEF AInv

LEMMA StoreLapKeeps ==
  ASSUME AInv, StoreLap
  PROVE  AInv'
<1>1. /\ TypeOK /\ PlaceInv /\ WaiterInv /\ HoldInv
      /\ LiveInv /\ CloseInv /\ ReasonIsTrue
  BY DEF AInv
<1>2. at \in [Procs -> Labels]
  BY <1>1 DEF TypeOK
<1>3. PlaceInv'
  BY PipeAssumption, <1>1 DEF StoreLap, Goto, PlaceInv, RxLabels
<1>4. at' \in [Procs -> Labels]
  BY <1>2, LabelFacts DEF StoreLap, Goto, Procs, RxLabels
<1>5. queue \in [Slots -> SlotValues]
  BY <1>1 DEF TypeOK
<1>6. queue' \in [Slots -> SlotValues]
  <2>1. PosAdd(seen[Rx].seq, LAP_ONE) \in Positions /\ Slot(seen[Rx].pos) \in Slots
    BY <1>1, SeenTypes, PosAddType, ZeroTypes DEF Procs
  <2> QED
    BY <2>1, <1>5 DEF StoreLap, SlotValues
<1>7. idx \in [Procs -> Indices \cup {NoIndex}]
  BY <1>1 DEF TypeOK
<1>8. idx' \in [Procs -> Indices \cup {NoIndex}]
  BY <1>7, <1>1, SeenTypes DEF StoreLap, Procs
<1>9. TypeOK'
  BY <1>1, <1>4, <1>6, <1>8
     DEF StoreLap, elemVars, closeVars, waitVars, countVars, TypeOK
<1>10. \A w \in Senders : at[w] = "waiting" => at'[w] = "waiting"
  BY DEF StoreLap, Goto
<1>11. WaiterInv'
  BY <1>1, <1>10, WaitersKept DEF StoreLap, waitVars
<1>12. HoldInv'
  BY PipeAssumption, <1>1
     DEF StoreLap, Goto, Handles, countVars, HoldInv, Holding, TypeOK, Indices,
         NoIndex
<1>13. Live' = Live
  BY PipeAssumption DEF StoreLap, Goto, Handles, Live
<1>14. LiveInv'
  BY <1>1, <1>13 DEF StoreLap, Goto, closeVars, LiveInv
<1>15. CloseInv'
  BY <1>1 DEF StoreLap, Goto, closeVars, waitVars, CloseInv, RxGone
<1>16. ReasonIsTrue'
  BY <1>1 DEF StoreLap, Goto, closeVars, ReasonIsTrue, RxGone
<1> QED
  BY <1>9, <1>3, <1>11, <1>12, <1>14, <1>15, <1>16 DEF AInv

LEMMA ReadCellKeeps ==
  ASSUME AInv, ReadCell
  PROVE  AInv'
<1>1. /\ TypeOK /\ PlaceInv /\ WaiterInv /\ HoldInv
      /\ LiveInv /\ CloseInv /\ ReasonIsTrue
  BY DEF AInv
<1>2. at \in [Procs -> Labels]
  BY <1>1 DEF TypeOK
<1>3. idx[Rx] \in Indices
  BY <1>1 DEF ReadCell, Procs, HoldInv, TypeOK
<1>4. PlaceInv'
  BY PipeAssumption, <1>1 DEF ReadCell, Goto, PlaceInv, RxLabels
<1>5. at' \in [Procs -> Labels]
  BY <1>2, LabelFacts DEF ReadCell, Goto, Procs, Holding, SenderLive
<1>6. cells \in [Indices -> [src : Handles, n : 0 .. MaxMsgs]]
  BY <1>1 DEF TypeOK
<1>7. cells' \in [Indices -> [src : Handles, n : 0 .. MaxMsgs]]
  BY <1>6, <1>3, UninitType DEF ReadCell
<1>8. got \in [Senders -> 0 .. MaxMsgs]
  BY <1>1 DEF TypeOK
<1>9. got' \in [Senders -> 0 .. MaxMsgs]
  BY <1>3, <1>1 DEF ReadCell, TypeOK
<1>10. TypeOK'
  BY <1>1, <1>5, <1>7 DEF ReadCell, queueVars, closeVars, waitVars, TypeOK
<1>11. \A w \in Senders : at[w] = "waiting" => at'[w] = "waiting"
  BY DEF ReadCell, Goto
<1>12. WaiterInv'
  BY <1>1, <1>11, WaitersKept DEF ReadCell, waitVars
<1>13. HoldInv'
  BY PipeAssumption, <1>1 DEF ReadCell, Goto, HoldInv
<1>14. Live' = Live
  BY PipeAssumption DEF ReadCell, Goto, Handles, Live
<1>15. LiveInv'
  BY <1>1, <1>14 DEF ReadCell, Goto, closeVars, LiveInv
<1>16. CloseInv'
  BY <1>1 DEF ReadCell, Goto, queueVars, closeVars, waitVars, CloseInv, RxGone
<1>17. ReasonIsTrue'
  BY <1>1 DEF ReadCell, Goto, closeVars, ReasonIsTrue, RxGone
<1> QED
  BY <1>10, <1>4, <1>12, <1>13, <1>15, <1>16, <1>17 DEF AInv

LEMMA PollWaitKeeps ==
  ASSUME AInv, PollWait
  PROVE  AInv'
<1>1. /\ TypeOK /\ PlaceInv /\ WaiterInv /\ HoldInv
      /\ LiveInv /\ CloseInv /\ ReasonIsTrue
  BY DEF AInv
<1>2. at \in [Procs -> Labels]
  BY <1>1 DEF TypeOK
<1>3. PlaceInv'
  BY PipeAssumption, <1>1 DEF PollWait, Goto, PlaceInv, RxLabels
<1>4. at' \in [Procs -> Labels]
  BY <1>2, LabelFacts DEF PollWait, Goto, Procs, RxLabels
<1>5. cons_wait \in [woken : BOOLEAN, closed : BOOLEAN]
  BY <1>1 DEF TypeOK
<1>6. cons_wait' \in [woken : BOOLEAN, closed : BOOLEAN]
  BY <1>5 DEF PollWait
<1>7. TypeOK'
  BY <1>1, <1>4, <1>6
     DEF PollWait, queueVars, elemVars, closeVars, countVars, TypeOK
<1>8. \A w \in Senders : at[w] = "waiting" => at'[w] = "waiting"
  BY DEF PollWait, Goto
<1>9. WaiterInv'
  BY <1>1, <1>8, WaitersKept DEF PollWait
<1>10. HoldInv'
  BY PipeAssumption, <1>1 DEF PollWait, Goto, countVars, HoldInv
<1>11. Live' = Live
  BY PipeAssumption DEF PollWait, Goto, Handles, Live
<1>12. LiveInv'
  BY <1>1, <1>11 DEF PollWait, Goto, closeVars, LiveInv
<1>13. CloseInv'
  BY <1>1 DEF PollWait, Goto, queueVars, closeVars, CloseInv, RxGone
<1>14. ReasonIsTrue'
  BY <1>1 DEF PollWait, Goto, closeVars, ReasonIsTrue, RxGone
<1> QED
  BY <1>7, <1>3, <1>9, <1>10, <1>12, <1>13, <1>14 DEF AInv

LEMMA ReclaimKeeps ==
  ASSUME AInv, Reclaim
  PROVE  AInv'
<1>1. /\ TypeOK /\ PlaceInv /\ WaiterInv /\ HoldInv
      /\ LiveInv /\ CloseInv /\ ReasonIsTrue
  BY DEF AInv
<1>2. at \in [Procs -> Labels]
  BY <1>1 DEF TypeOK
<1>3. /\ Slot(dequeue_pos.pos) \in Slots
      /\ queue[Slot(dequeue_pos.pos)].idx \in Indices
      /\ PosAdd(queue[Slot(dequeue_pos.pos)].seq, LAP_ONE) \in Positions
  BY <1>1, PosTypes, SlotTypes, PosAddType, ZeroTypes
<1>4. PlaceInv'
  BY <1>1 DEF Reclaim, PlaceInv
<1>5. at' \in [Procs -> Labels]
  BY <1>2 DEF Reclaim
<1>6. queue \in [Slots -> SlotValues]
  BY <1>1 DEF TypeOK
<1>7. queue' \in [Slots -> SlotValues]
  BY <1>6, <1>3 DEF Reclaim, SlotValues
<1>8. cells \in [Indices -> [src : Handles, n : 0 .. MaxMsgs]]
  BY <1>1 DEF TypeOK
<1>9. cells' \in [Indices -> [src : Handles, n : 0 .. MaxMsgs]]
  BY <1>8, <1>3, UninitType DEF Reclaim
<1>10. indices \subseteq Indices
  BY <1>1 DEF TypeOK
<1>11. indices' \subseteq Indices
  BY <1>10, <1>3 DEF Reclaim
<1>12. dequeue_pos \in [pos : Positions, closed : BOOLEAN]
  BY <1>1 DEF TypeOK
<1>13. dequeue_pos' \in [pos : Positions, closed : BOOLEAN]
  BY <1>12, <1>1, PosTypes DEF Reclaim
<1>14. TypeOK'
  BY <1>1, <1>7, <1>9, <1>13
     DEF Reclaim, Handles, closeVars, waitVars, countVars, TypeOK
<1>15. \A w \in Senders : at[w] = "waiting" => at'[w] = "waiting"
  BY DEF Reclaim
<1>16. WaiterInv'
  BY <1>1, WaitersKept DEF Reclaim, waitVars
<1>17. HoldInv'
  BY <1>1 DEF Reclaim, countVars, HoldInv
<1>18. Live' = Live
  BY DEF Reclaim, Live
<1>19. LiveInv'
  BY <1>1, <1>18 DEF Reclaim, closeVars, LiveInv
<1>20. CloseInv'
  BY <1>1 DEF Reclaim, closeVars, waitVars, CloseInv, RxGone
<1>21. ReasonIsTrue'
  BY <1>1 DEF Reclaim, closeVars, ReasonIsTrue, RxGone
<1> QED
  BY <1>14, <1>4, <1>16, <1>17, <1>19, <1>20, <1>21 DEF AInv

LEMMA InitKeeps == ASSUME Init PROVE AInv
<1>1. TypeOK
  <2>1. /\ enqueue_pos \in [pos : Positions, closed : BOOLEAN]
        /\ dequeue_pos \in [pos : Positions, closed : BOOLEAN]
    BY ZeroTypes DEF Init
  <2>2. queue \in [Slots -> SlotValues]
    <3>1. \A k \in Slots : [seq |-> k, idx |-> 0] \in SlotValues
      BY PipeAssumption, ZeroTypes DEF Slots, SlotValues, Positions
    <3> QED
      BY <3>1 DEF Init
  <2>3. cells \in [Indices -> [src : Handles, n : 0 .. MaxMsgs]]
    BY UninitType DEF Init
  <2>4. at \in [Procs -> Labels]
    BY LabelFacts DEF Init, SenderLive, RootLive
  <2>5. /\ idx \in [Procs -> Indices \cup {NoIndex}]
        /\ seen \in [Procs -> [pos : Positions, closed : BOOLEAN,
                               seq : Positions, idx : Indices]]
    BY ZeroTypes DEF Init
  <2>6. /\ sent \in [Senders -> 0 .. MaxMsgs]
        /\ got \in [Senders -> 0 .. MaxMsgs]
    BY PipeAssumption DEF Init
  <2>7. /\ state \in [tx : Nat, erroring : BOOLEAN, errored : BOOLEAN]
        /\ error \in BOOLEAN /\ indices \subseteq Indices
        /\ cons_wait \in [woken : BOOLEAN, closed : BOOLEAN]
    BY DEF Init
  <2>8. prod_wait \in [waiters : Seq(Senders), stored : BOOLEAN, closed : BOOLEAN]
    BY DEF Init
  <2> QED
    BY <2>1, <2>2, <2>3, <2>4, <2>5, <2>6, <2>7, <2>8 DEF TypeOK
<1>2. PlaceInv /\ WaiterInv /\ HoldInv
  BY PipeAssumption
     DEF Init, PlaceInv, WaiterInv, HoldInv, Procs, Handles, RootLive, RxLabels,
         Holding
<1>3. LiveInv
  <2>1. Live = {Root}
    BY PipeAssumption DEF Init, Live, Gone, Handles, Procs
  <2>2. IsFiniteSet(Live) /\ Cardinality(Live) = 1
    BY <2>1, FS_Singleton
  <2> QED
    BY <2>2 DEF Init, LiveInv, Procs
<1>4. CloseInv /\ ReasonIsTrue
  BY DEF Init, CloseInv, ReasonIsTrue, Procs, Handles
<1> QED
  BY <1>1, <1>2, <1>3, <1>4 DEF AInv

LEMMA NextKeeps == ASSUME AInv, [Next]_vars PROVE AInv'
<1>1. CASE UNCHANGED vars
  BY <1>1
     DEF vars, queueVars, elemVars, closeVars, waitVars, countVars, AInv,
         TypeOK, PlaceInv, WaiterInv, HoldInv, LiveInv, Live, CloseInv,
         ReasonIsTrue, RxGone
<1>2. ASSUME NEW p \in Senders \cup {Rx}, UncommitWake(p) PROVE AInv'
  BY <1>2, WakeNobodyKeeps, WakeSenderKeeps
<1>3. ASSUME NEW p \in Procs, SetErroring(p) \/ CloseStep(p) PROVE AInv'
  BY <1>3, SetErroringKeeps, WriteErrorKeeps, SetErroredKeeps,
     CloseEnqueueKeeps, CloseProdKeeps, CloseDequeueKeeps, CloseConsKeeps
     DEF CloseStep
<1>4. ASSUME NEW s \in Senders, TryReserve(s) \/ DropPermit(s) \/ SenderStep(s)
      PROVE  AInv'
  <2>1. CASE LoadTail(s) \/ CasTailFails(s)
    BY <2>1, GotTailKeeps DEF LoadTail, CasTailFails
  <2>2. CASE Wait(s)
    BY <2>2, WaitReadyKeeps, WaitParksKeeps
  <2> QED
    BY <1>2, <1>4, <2>1, <2>2, TryReserveKeeps, AllocateKeeps, FullKeeps,
       WriteCellKeeps, DropPermitKeeps, UncommitKeeps, LoadSlotKeeps,
       CasTailKeeps, StoreSlotKeeps, WakeConsKeeps, CloseReasonKeeps
       DEF SenderStep
<1>5. CASE RxStep
  <2>1. CASE LoadHead \/ CasHeadFails
    BY <2>1, GotHeadKeeps DEF LoadHead, CasHeadFails
  <2> QED
    BY <1>2, <1>5, <2>1, LoadSlotRxKeeps, CasHeadKeeps, StoreLapKeeps,
       ReadCellKeeps, UncommitKeeps, PollWaitKeeps, CloseReasonKeeps DEF RxStep
<1> QED
  BY <1>1, <1>3, <1>4, <1>5, NewSenderKeeps, DropTxKeeps, DropRxKeeps,
     ReclaimKeeps DEF Next

-----------------------------------------------------------------------------
LEMMA Invariance == Spec => []AInv
<1>1. AInv /\ [Next]_vars => AInv'
  BY NextKeeps
<1> QED
  BY <1>1, InitKeeps, PTL DEF Spec

\* Every variable of the channel keeps its type, whatever the number of senders,
\* the capacity and the width of the positions: positions and sequence numbers
\* fit their bits, an element index is one of the channel's, and the count of
\* senders that drop_tx decrements never goes below zero.
THEOREM TypeCorrect == Spec => []TypeOK
<1>1. AInv => TypeOK
  BY DEF AInv
<1> QED
  BY <1>1, Invariance, PTL

\* close_reason tells the truth: a sender that is told Disconnected has no
\* receiver any more, and an error is returned only after close_with_error has
\* written it, however close_with_error, close_rx and close_tx interleave.
THEOREM CloseReasonIsTrue == Spec => []ReasonIsTrue
<1>1. AInv => ReasonIsTrue
  BY DEF AInv
<1> QED
  BY <1>1, Invariance, PTL

-----------------------------------------------------------------------------
(***************************************************************************)
(* Wakeups of prod_wait.                                                   *)
(***************************************************************************)
Waiting == {"wait", "waiting"}
Waking == {"wake_prod", "reserve", "allocate"}
Closing == {"close_prod", "err_close_prod"}

\* Every sender that waits is in the queue, and the queue stores no wakeup while
\* it has waiters.
QueuedInv ==
  /\ \A s \in Senders : at[s] = "waiting" =>
       \E k \in 1 .. Len(prod_wait.waiters) : prod_wait.waiters[k] = s
  /\ prod_wait.stored \/ prod_wait.closed => prod_wait.waiters = <<>>

\* Whoever sets CLOSED in the tail goes on to close the queue.
ClosingInv ==
  /\ prod_wait.closed \/ (\E p \in Procs : at[p] \in Closing) => enqueue_pos.closed
  /\ enqueue_pos.closed => prod_wait.closed \/ \E p \in Procs : at[p] \in Closing

\* A sender that has found no index, and waits or is about to, has a wakeup
\* stored for it or coming, or an index that is in use to wait for, also when
\* one wakeup stands for several freed indices.
ComingInv ==
  ~enqueue_pos.closed /\ (\E s \in Senders : at[s] \in Waiting) =>
    \/ prod_wait.stored \/ indices # Indices
    \/ \E p \in Procs : at[p] \in Waking

WakeupInv == QueuedInv /\ ClosingInv /\ ComingInv

\* A step that leaves the queue, the indices and the way to a wakeup alone.
Undisturbed ==
  /\ UNCHANGED <<prod_wait, indices>> /\ enqueue_pos'.closed = enqueue_pos.closed
  /\ \A p \in Procs :
       /\ at'[p] \in Waiting \cup Closing => at'[p] = at[p]
       /\ at[p] \in Waking \cup Closing => at'[p] = at[p]

LEMMA UndisturbedWakes ==
  ASSUME WakeupInv, Undisturbed
  PROVE  WakeupInv'
<1>1. Senders \subseteq Procs
  BY DEF Procs, Handles
<1>2. QueuedInv'
  BY <1>1 DEF WakeupInv, Undisturbed, QueuedInv, Waiting
<1>3. ClosingInv'
  BY DEF WakeupInv, Undisturbed, ClosingInv
<1>4. ComingInv'
  BY <1>1 DEF WakeupInv, Undisturbed, ComingInv
<1> QED BY <1>2, <1>3, <1>4 DEF WakeupInv

LEMMA CloseEnqueueWakes ==
  ASSUME AInv, WakeupInv, NEW p \in Procs, CloseEnqueue(p)
  PROVE  WakeupInv'
<1>1. /\ at \in [Procs -> Labels] /\ enqueue_pos'.closed /\ UNCHANGED prod_wait
      /\ at' = [at EXCEPT ![p] = Then[at[p]]] /\ Then[at[p]] \in Closing
      /\ at[p] \notin Closing
  BY ThenFacts DEF AInv, TypeOK, CloseEnqueue, Goto, waitVars, Closing
<1>2. QueuedInv'
  BY <1>1 DEF WakeupInv, QueuedInv, Closing, Procs, Handles
<1>3. ClosingInv'
  BY <1>1 DEF ClosingInv
<1>4. ComingInv'
  BY <1>1 DEF ComingInv
<1> QED BY <1>2, <1>3, <1>4 DEF WakeupInv

LEMMA CloseProdWakes ==
  ASSUME AInv, WakeupInv, NEW p \in Procs, CloseProd(p)
  PROVE  WakeupInv'
<1>1. /\ at[p] \in Closing /\ UNCHANGED enqueue_pos
      /\ prod_wait'.closed /\ prod_wait'.waiters = <<>>
      /\ Then[at[p]] # "waiting"
      /\ \A q \in Procs : at'[q] = IF q = p THEN Then[at[p]] ELSE
                                   IF at[q] = "waiting" THEN "reason" ELSE at[q]
  BY ThenFacts DEF CloseProd, queueVars, Closing
<1>2. enqueue_pos'.closed
  BY <1>1 DEF WakeupInv, ClosingInv
<1>3. \A s \in Senders : at'[s] # "waiting"
  BY <1>1 DEF Procs, Handles
<1> QED BY <1>1, <1>2, <1>3 DEF WakeupInv, QueuedInv, ClosingInv, ComingInv

LEMMA TryReserveWakes ==
  ASSUME AInv, WakeupInv, NEW s \in Senders, TryReserve(s)
  PROVE  WakeupInv'
<1>1. /\ at \in [Procs -> Labels] /\ s \in Procs
      /\ at' = [at EXCEPT ![s] = IF enqueue_pos.closed THEN "reason" ELSE "allocate"]
      /\ at[s] \in {"idle", "reserve"} /\ UNCHANGED <<prod_wait, indices, enqueue_pos>>
  BY DEF AInv, TypeOK, TryReserve, Goto, waitVars, elemVars, queueVars, Procs, Handles
<1>2. QueuedInv'
  BY <1>1 DEF WakeupInv, QueuedInv, Procs, Handles
<1>3. ClosingInv'
  BY <1>1 DEF WakeupInv, ClosingInv, Closing
<1>4. ComingInv'
  BY <1>1 DEF WakeupInv, ComingInv, Waking, Waiting
<1> QED BY <1>2, <1>3, <1>4 DEF WakeupInv

LEMMA AllocateWakes ==
  ASSUME AInv, WakeupInv, NEW s \in Senders, Allocate(s)
  PROVE  WakeupInv'
<1>1. /\ at \in [Procs -> Labels] /\ s \in Procs /\ at[s] = "allocate"
      /\ at' = [at EXCEPT ![s] = "permit"] /\ UNCHANGED <<prod_wait, enqueue_pos>>
  BY DEF AInv, TypeOK, Allocate, Goto, waitVars, queueVars, Procs, Handles
<1>2. indices' # Indices
  BY DEF AInv, TypeOK, Allocate
<1>3. QueuedInv'
  BY <1>1 DEF WakeupInv, QueuedInv, Procs, Handles
<1>4. ClosingInv'
  BY <1>1 DEF WakeupInv, ClosingInv, Closing
<1> QED BY <1>2, <1>3, <1>4 DEF WakeupInv, ComingInv

LEMMA FullWakes ==
  ASSUME AInv, WakeupInv, NEW s \in Senders, Full(s)
  PROVE  WakeupInv'
<1>1. /\ at \in [Procs -> Labels] /\ s \in Procs /\ at[s] = "allocate"
      /\ \E l \in {"wait", "idle"} : at' = [at EXCEPT ![s] = l]
      /\ UNCHANGED <<prod_wait, enqueue_pos>>
  BY DEF AInv, TypeOK, Full, Goto, waitVars, queueVars, Procs, Handles
<1>2. indices' # Indices
  BY ZeroTypes DEF Full, elemVars
<1>3. QueuedInv'
  BY <1>1 DEF WakeupInv, QueuedInv, Procs, Handles
<1>4. ClosingInv'
  BY <1>1 DEF WakeupInv, ClosingInv, Closing
<1> QED BY <1>2, <1>3, <1>4 DEF WakeupInv, ComingInv

LEMMA WaitWakes ==
  ASSUME AInv, WakeupInv, NEW s \in Senders, Wait(s)
  PROVE  WakeupInv'
<1>1. /\ at \in [Procs -> Labels] /\ s \in Procs /\ at[s] = "wait"
      /\ UNCHANGED <<indices, enqueue_pos>>
      /\ prod_wait \in [waiters : Seq(Senders), stored : BOOLEAN, closed : BOOLEAN]
  BY DEF AInv, TypeOK, Wait, elemVars, queueVars, Procs, Handles
<1>2. CASE prod_wait.closed \/ prod_wait.stored
  <2>1. /\ at' = [at EXCEPT ![s] = IF prod_wait.closed THEN "reason" ELSE "reserve"]
        /\ prod_wait'.waiters = prod_wait.waiters /\ ~prod_wait'.stored
        /\ prod_wait'.closed = prod_wait.closed
    BY <1>1, <1>2 DEF Wait, Goto
  <2>2. QueuedInv'
    BY <1>1, <2>1 DEF WakeupInv, QueuedInv, Procs, Handles
  <2>3. ClosingInv'
    BY <1>1, <2>1 DEF WakeupInv, ClosingInv, Closing
  <2>4. ComingInv'
    BY <1>1, <2>1 DEF WakeupInv, ClosingInv, ComingInv, Waking, Waiting
  <2> QED BY <2>2, <2>3, <2>4 DEF WakeupInv
<1>3. CASE ~prod_wait.closed /\ ~prod_wait.stored
  <2> DEFINE q == prod_wait.waiters
  <2>1. /\ at' = [at EXCEPT ![s] = "waiting"]
        /\ prod_wait'.waiters = Append(q, s) /\ ~prod_wait'.stored
        /\ ~prod_wait'.closed
    BY <1>1, <1>3 DEF Wait, Goto
  <2>2. /\ q \in Seq(Senders) /\ Len(Append(q, s)) \in Nat
        /\ Len(Append(q, s)) \in 1 .. Len(Append(q, s))
        /\ Append(q, s)[Len(Append(q, s))] = s
        /\ \A k \in 1 .. Len(q) : k \in 1 .. Len(Append(q, s)) /\ Append(q, s)[k] = q[k]
    BY <1>1
  <2>3. QueuedInv'
    <3> SUFFICES ASSUME NEW w \in Senders, at'[w] = "waiting"
                 PROVE  \E k \in 1 .. Len(prod_wait'.waiters) : prod_wait'.waiters[k] = w
      BY <2>1 DEF QueuedInv
    <3>1. CASE w = s
      BY <2>1, <2>2, <3>1
    <3>2. CASE w # s
      <4>1. at[w] = "waiting"
        BY <1>1, <2>1, <3>2 DEF Procs, Handles
      <4>2. PICK k \in 1 .. Len(q) : q[k] = w
        BY <4>1 DEF WakeupInv, QueuedInv
      <4> QED BY <4>2, <2>1, <2>2
    <3> QED BY <3>1, <3>2
  <2>4. ClosingInv'
    BY <1>1, <1>3, <2>1 DEF WakeupInv, ClosingInv, Closing
  <2>5. ComingInv'
    BY <1>1, <1>3, <2>1 DEF WakeupInv, ComingInv, Waking, Waiting
  <2> QED BY <2>3, <2>4, <2>5 DEF WakeupInv
<1> QED BY <1>2, <1>3

LEMMA UncommitWakes ==
  ASSUME AInv, WakeupInv, NEW p \in Procs, Uncommit(p)
  PROVE  WakeupInv'
<1>1. /\ at \in [Procs -> Labels] /\ at[p] = "uncommit"
      /\ at' = [at EXCEPT ![p] = "wake_prod"] /\ UNCHANGED <<prod_wait, enqueue_pos>>
  BY DEF AInv, TypeOK, Uncommit, Goto, waitVars, queueVars
<1>2. QueuedInv'
  BY <1>1 DEF WakeupInv, QueuedInv, Procs, Handles
<1>3. ClosingInv'
  BY <1>1 DEF WakeupInv, ClosingInv, Closing
<1>4. ComingInv'
  BY <1>1 DEF ComingInv, Waking
<1> QED BY <1>2, <1>3, <1>4 DEF WakeupInv

LEMMA UncommitWakeWakes ==
  ASSUME AInv, WakeupInv, NEW p \in Procs, UncommitWake(p)
  PROVE  WakeupInv'
<1>1. /\ at \in [Procs -> Labels] /\ at[p] = "wake_prod"
      /\ UNCHANGED <<indices, enqueue_pos>>
      /\ prod_wait \in [waiters : Seq(Senders), stored : BOOLEAN, closed : BOOLEAN]
  BY DEF AInv, TypeOK, UncommitWake, elemVars, queueVars
<1>2. CASE prod_wait.waiters = <<>>
  <2>1. /\ at' = [at EXCEPT ![p] = "idle"] /\ prod_wait'.waiters = <<>>
        /\ prod_wait'.stored = ~prod_wait.closed
        /\ prod_wait'.closed = prod_wait.closed
    BY <1>1, <1>2 DEF UncommitWake, WakeProd, Goto
  <2>2. QueuedInv'
    BY <1>1, <1>2, <2>1 DEF WakeupInv, QueuedInv, Procs, Handles
  <2>3. ClosingInv'
    BY <1>1, <2>1 DEF WakeupInv, ClosingInv, Closing
  <2>4. ComingInv'
    BY <1>1, <2>1 DEF WakeupInv, ClosingInv, ComingInv
  <2> QED BY <2>2, <2>3, <2>4 DEF WakeupInv
<1>3. CASE prod_wait.waiters # <<>>
  <2> DEFINE q == prod_wait.waiters
             w == Head(q)
  <2>1. /\ at' = [at EXCEPT ![p] = "idle", ![w] = "reserve"]
        /\ prod_wait'.waiters = Tail(q) /\ prod_wait'.stored = prod_wait.stored
        /\ prod_wait'.closed = prod_wait.closed
    BY <1>1, <1>3 DEF UncommitWake, WakeProd
  <2>2. /\ q \in Seq(Senders) /\ w \in Senders /\ w = q[1] /\ Len(q) \in Nat
        /\ Len(Tail(q)) = Len(q) - 1
        /\ \A k \in 1 .. Len(q) - 1 : Tail(q)[k] = q[k + 1]
    BY <1>1, <1>3
  <2> HIDE DEF w, q
  <2>3. at[w] = "waiting" /\ w # p /\ w \in Procs
    <3>1. 1 \in 1 .. Len(q)
      BY <1>3, <2>2 DEF q
    <3> QED BY <1>1, <2>2, <3>1 DEF AInv, WaiterInv, q, Procs, Handles
  <2>4. QueuedInv'
    <3>1. ~prod_wait'.stored /\ ~prod_wait'.closed
      BY <1>3, <2>1 DEF WakeupInv, QueuedInv
    <3> SUFFICES ASSUME NEW v \in Senders, at'[v] = "waiting"
                 PROVE  \E k \in 1 .. Len(prod_wait'.waiters) : prod_wait'.waiters[k] = v
      BY <3>1 DEF QueuedInv
    <3>2. at[v] = "waiting" /\ v # w
      BY <1>1, <2>1, <2>3 DEF Procs, Handles
    <3>3. PICK k \in 1 .. Len(q) : q[k] = v
      BY <3>2 DEF WakeupInv, QueuedInv, q
    <3>4. k # 1 /\ k - 1 \in 1 .. Len(q) - 1 /\ (k - 1) + 1 = k
      BY <2>2, <3>2, <3>3
    <3>5. Tail(q)[k - 1] = v /\ k - 1 \in 1 .. Len(Tail(q))
      BY <2>2, <3>3, <3>4
    <3> QED BY <2>1, <3>5
  <2>5. ClosingInv'
    BY <1>1, <2>1, <2>3 DEF WakeupInv, ClosingInv, Closing
  <2>6. ComingInv'
    BY <1>1, <2>1, <2>3 DEF ComingInv, Waking
  <2> QED BY <2>4, <2>5, <2>6 DEF WakeupInv
<1> QED BY <1>2, <1>3

LEMMA ReclaimWakes ==
  ASSUME WakeupInv, Reclaim
  PROVE  WakeupInv'
<1>1. /\ \A p \in Procs : at[p] \in {"absent", "dropped"}
      /\ at' = at /\ prod_wait' = prod_wait /\ enqueue_pos' = enqueue_pos
  BY DEF Reclaim, AllGone, waitVars
<1>2. \A p \in Procs : at'[p] \notin Waiting \cup Closing
  BY <1>1 DEF Waiting, Closing
<1>3. \A s \in Senders : at'[s] \notin Waiting
  BY <1>2 DEF Procs, Handles
<1>4. QueuedInv'
  BY <1>1 DEF WakeupInv, QueuedInv
<1>5. ClosingInv'
  BY <1>1 DEF WakeupInv, ClosingInv
<1>6. ComingInv'
  BY <1>3 DEF ComingInv
<1> QED BY <1>4, <1>5, <1>6 DEF WakeupInv

LEMMA QuietWakes ==
  ASSUME WakeupInv, NEW p \in Procs,
         at'[p] \notin Waiting \cup Closing, at[p] \notin Waking \cup Closing,
         \A q \in Procs : q # p => \/ at'[q] = at[q]
                                   \/ at[q] = "parked" /\ at'[q] = "idle",
         UNCHANGED <<prod_wait, indices>>, enqueue_pos'.closed = enqueue_pos.closed
  PROVE  WakeupInv'
<1>1. Undisturbed
  BY DEF Undisturbed, Waiting, Waking, Closing
<1> QED BY <1>1, UndisturbedWakes

LEMMA CloseStepWakes ==
  ASSUME AInv, WakeupInv, NEW p \in Procs, SetErroring(p) \/ CloseStep(p)
  PROVE  WakeupInv'
<1>1. at \in [Procs -> Labels] /\ Rx \in Procs
  BY DEF AInv, TypeOK, Procs
<1>2. CASE SetErroring(p)
  BY <1>1, <1>2, QuietWakes
     DEF SetErroring, Goto, Free, elemVars, waitVars, queueVars, Waiting, Waking,
         Closing
<1>3. CASE WriteError(p)
  BY <1>1, <1>3, QuietWakes
     DEF WriteError, Goto, elemVars, waitVars, queueVars, Waiting, Waking, Closing
<1>4. CASE SetErrored(p)
  BY <1>1, <1>4, QuietWakes
     DEF SetErrored, Goto, elemVars, waitVars, queueVars, Waiting, Waking, Closing
<1>5. CASE CloseDequeue(p)
  BY <1>1, <1>5, QuietWakes, ThenFacts
     DEF CloseDequeue, Goto, elemVars, waitVars, Waiting, Waking, Closing
<1>6. CASE CloseCons(p)
  <2>1. /\ at[p] \in {"close_cons", "err_close_cons"}
        /\ Then[at[p]] \in {"dropped", "idle"}
        /\ at' = Woken([at EXCEPT ![p] = Then[at[p]]])
        /\ UNCHANGED <<prod_wait, indices, enqueue_pos>>
    BY <1>6, ThenFacts DEF CloseCons, elemVars, queueVars
  <2>2. /\ at'[p] \in {"dropped", "idle"}
        /\ \A q \in Procs : q # p => \/ at'[q] = at[q]
                                     \/ at[q] = "parked" /\ at'[q] = "idle"
    BY <1>1, <2>1 DEF Woken
  <2> QED BY <2>1, <2>2, QuietWakes DEF Waiting, Waking, Closing
<1> QED BY <1>2, <1>3, <1>4, <1>5, <1>6, CloseEnqueueWakes, CloseProdWakes
           DEF CloseStep

LEMMA GotTailWakes ==
  ASSUME AInv, WakeupInv, NEW s \in Senders, at[s] \in {"load_tail", "cas_tail"},
         GotTail(s), UNCHANGED <<prod_wait, indices, enqueue_pos>>
  PROVE  WakeupInv'
<1>1. at \in [Procs -> Labels] /\ s \in Procs
  BY DEF AInv, TypeOK, Procs, Handles
<1> QED BY <1>1, QuietWakes DEF GotTail, Goto, Waiting, Waking, Closing

LEMMA SenderWakes ==
  ASSUME AInv, WakeupInv, NEW s \in Senders,
         TryReserve(s) \/ DropPermit(s) \/ SenderStep(s)
  PROVE  WakeupInv'
<1>1. at \in [Procs -> Labels] /\ s \in Procs /\ Rx \in Procs
  BY DEF AInv, TypeOK, Procs, Handles
<1>2. CASE DropPermit(s)
  BY <1>1, <1>2, QuietWakes
     DEF DropPermit, Goto, elemVars, waitVars, queueVars, Waiting, Waking, Closing
<1>3. CASE WriteCell(s)
  BY <1>1, <1>3, QuietWakes
     DEF WriteCell, Goto, waitVars, queueVars, Waiting, Waking, Closing
<1>4. CASE LoadTail(s) \/ CasTailFails(s)
  BY <1>4, GotTailWakes DEF LoadTail, CasTailFails, elemVars, waitVars, queueVars
<1>5. CASE LoadSlot(s)
  <2>1. UNCHANGED <<prod_wait, indices, enqueue_pos>>
    BY <1>5 DEF LoadSlot, elemVars, waitVars, queueVars
  <2>2. PICK l \in {"panic", "cas_tail", "load_tail"} :
          at[s] = "load_slot" /\ at' = [at EXCEPT ![s] = l]
    BY <1>5, LoadSlotGoes DEF AInv
  <2> QED BY <1>1, <2>1, <2>2, QuietWakes DEF Waiting, Waking, Closing
<1>6. CASE CasTail(s)
  <2>1. /\ at[s] = "cas_tail" /\ UNCHANGED <<prod_wait, indices>>
        /\ at' = [at EXCEPT ![s] = "store_slot"]
        /\ enqueue_pos'.closed = enqueue_pos.closed
    BY <1>6 DEF AInv, TypeOK, CasTail, Goto, elemVars, waitVars
  <2> QED BY <1>1, <2>1, QuietWakes DEF Waiting, Waking, Closing
<1>7. CASE StoreSlot(s)
  BY <1>1, <1>7, QuietWakes
     DEF StoreSlot, Goto, elemVars, waitVars, Waiting, Waking, Closing
<1>8. CASE WakeCons(s)
  <2>1. /\ at[s] = "wake_cons" /\ at' = Woken([at EXCEPT ![s] = "idle"])
        /\ UNCHANGED <<prod_wait, indices, enqueue_pos>>
    BY <1>8 DEF WakeCons, elemVars, queueVars
  <2>2. /\ at'[s] = "idle"
        /\ \A q \in Procs : q # s => \/ at'[q] = at[q]
                                     \/ at[q] = "parked" /\ at'[q] = "idle"
    BY <1>1, <2>1 DEF Woken
  <2> QED BY <1>1, <2>1, <2>2, QuietWakes DEF Waiting, Waking, Closing
<1>9. CASE CloseReason(s)
  BY <1>1, <1>9, QuietWakes
     DEF CloseReason, Goto, elemVars, waitVars, queueVars, Waiting, Waking, Closing
<1> QED BY <1>1, <1>2, <1>3, <1>4, <1>5, <1>6, <1>7, <1>8, <1>9, TryReserveWakes,
           AllocateWakes, FullWakes, WaitWakes, UncommitWakes, UncommitWakeWakes
           DEF SenderStep

LEMMA RxWakes ==
  ASSUME AInv, WakeupInv, RxStep
  PROVE  WakeupInv'
<1>1. at \in [Procs -> Labels] /\ Rx \in Procs
  BY DEF AInv, TypeOK, Procs
<1>2. CASE LoadHead \/ CasHeadFails
  BY <1>1, <1>2, QuietWakes
     DEF LoadHead, CasHeadFails, GotHead, Goto, elemVars, waitVars, queueVars,
         Waiting, Waking, Closing
<1>3. CASE LoadSlotRx
  <2>1. UNCHANGED <<prod_wait, indices, enqueue_pos>>
    BY <1>3 DEF LoadSlotRx, elemVars, waitVars, queueVars
  <2>2. PICK l \in {"reason", "poll_wait", "cas_head", "idle"} :
          at[Rx] = "load_slot_rx" /\ at' = [at EXCEPT ![Rx] = l]
    BY <1>3, LoadSlotRxGoes DEF AInv
  <2> QED BY <1>1, <2>1, <2>2, QuietWakes DEF Waiting, Waking, Closing
<1>4. CASE CasHead
  BY <1>1, <1>4, QuietWakes
     DEF CasHead, Goto, elemVars, waitVars, Waiting, Waking, Closing
<1>5. CASE StoreLap
  BY <1>1, <1>5, QuietWakes
     DEF StoreLap, Goto, elemVars, waitVars, Waiting, Waking, Closing
<1>6. CASE ReadCell
  BY <1>1, <1>6, QuietWakes
     DEF ReadCell, Goto, waitVars, queueVars, Waiting, Waking, Closing
<1>7. CASE PollWait
  BY <1>1, <1>7, QuietWakes
     DEF PollWait, Goto, elemVars, queueVars, Waiting, Waking, Closing
<1>8. CASE CloseReason(Rx)
  BY <1>1, <1>8, QuietWakes
     DEF CloseReason, Goto, elemVars, waitVars, queueVars, Waiting, Waking, Closing
<1> QED BY <1>1, <1>2, <1>3, <1>4, <1>5, <1>6, <1>7, <1>8, UncommitWakes,
           UncommitWakeWakes DEF RxStep

LEMMA NextWakes ==
  ASSUME AInv, WakeupInv, [Next]_vars
  PROVE  WakeupInv'
<1>1. at \in [Procs -> Labels] /\ Rx \in Procs /\ Handles \subseteq Procs
      /\ Senders \subseteq Procs
  BY DEF AInv, TypeOK, Procs, Handles
<1>2. CASE UNCHANGED vars
  BY <1>2 DEF vars, queueVars, elemVars, waitVars, WakeupInv, QueuedInv, ClosingInv,
              ComingInv
<1>3. ASSUME NEW h \in Handles, NEW s \in Senders, NewSender(h, s) PROVE WakeupInv'
  BY <1>1, <1>3, QuietWakes
     DEF NewSender, Goto, elemVars, waitVars, queueVars, Waiting, Waking, Closing
<1>4. ASSUME NEW h \in Handles, DropTx(h) PROVE WakeupInv'
  BY <1>1, <1>4, QuietWakes
     DEF DropTx, Goto, Free, elemVars, waitVars, queueVars, Waiting, Waking, Closing
<1>5. CASE DropRx
  BY <1>1, <1>5, QuietWakes
     DEF DropRx, Goto, elemVars, waitVars, queueVars, Waiting, Waking, Closing
<1> QED BY <1>2, <1>3, <1>4, <1>5, CloseStepWakes, SenderWakes, RxWakes,
           ReclaimWakes DEF Next

\* No wakeup of prod_wait is lost, for any number of senders and any capacity: a
\* sender that waits in `reserve` on an open channel has an index in use to wait
\* for, or a wake() about to be called, or a woken sender ahead of it; and on a
\* closed one a close() of the WaitQueue about to be called.
THEOREM WaitingSenderIsWoken == Spec => []WaiterHasWaker
<1> DEFINE Inv == AInv /\ WakeupInv
<1>1. Init => Inv
  <2> SUFFICES ASSUME Init PROVE WakeupInv
    BY InitKeeps
  <2>1. /\ \A p \in Procs : at[p] \in {"absent", "idle"}
        /\ prod_wait.waiters = <<>> /\ ~prod_wait.closed /\ ~enqueue_pos.closed
    BY DEF Init
  <2>2. \A s \in Senders : at[s] \in {"absent", "idle"}
    BY <2>1 DEF Procs, Handles
  <2> QED BY <2>1, <2>2 DEF WakeupInv, QueuedInv, ClosingInv, ComingInv, Waiting,
                            Closing
<1>2. Inv /\ [Next]_vars => Inv'
  BY NextKeeps, NextWakes
<1>3. Inv => WaiterHasWaker
  <2> SUFFICES ASSUME Inv, NEW s \in Senders, at[s] = "waiting"
               PROVE  IF enqueue_pos.closed
                      THEN \E p \in Procs : at[p] \in Closing
                      ELSE indices # Indices \/ \E p \in Procs : at[p] \in Waking
    BY DEF WaiterHasWaker, Closing, Waking
  <2>1. ~prod_wait.stored /\ ~prod_wait.closed
    BY DEF WakeupInv, QueuedInv
  <2> QED BY <2>1 DEF WakeupInv, ClosingInv, ComingInv, Waiting
<1> QED BY <1>1, <1>2, <1>3, PTL DEF Spec
=============================================================================
