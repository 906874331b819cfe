----------------------------- MODULE TrickyPipe -----------------------------
(***************************************************************************)
(* The core of the mpsc channel (tricky-pipe, mpsc/channel_core.rs): a     *)
(* bounded queue after Vyukov whose slots carry indices into an array of   *)
(* element cells.  A sender reserves an index, writes the cell, and        *)
(* commits the index to the queue; the receiver dequeues the index, reads  *)
(* the cell and frees the index.                                           *)
(*                                                                         *)
(* A step of the model is one access to one shared atomic, cell or wait    *)
(* primitive; atomics are sequentially consistent.  The index allocator    *)
(* (mycelium's IndexAllocWord), WaitQueue and WaitCell (maitake-sync) are  *)
(* external and atomic.                                                    *)
(***************************************************************************)
EXTENDS Integers, FiniteSets, Sequences

CONSTANTS
  Senders,       \* Sender handles
  Root,          \* the TrickyPipe handle, which counts as a sender
  Rx,            \* the receiver
  MAX_CAPACITY,  \* slots of the queue, 64 in the code
  capacity,      \* elements of this channel
  PosMod,        \* values of a position: 2^(16 - POS_SHIFT), 1024 in the code
  Impatient,     \* senders that may call try_reserve, which gives up on Full
  Hesitant,      \* senders that may drop a permit unused
  ErrorClosers,  \* processes that may call close_with_error
  MaxMsgs        \* bound: messages a sender sends

ASSUME PipeAssumption ==
  /\ MAX_CAPACITY \in Nat \ {0}
  /\ capacity \in 1 .. MAX_CAPACITY
  /\ PosMod \in Nat /\ PosMod > MAX_CAPACITY /\ PosMod % MAX_CAPACITY = 0
  /\ Root \notin Senders /\ Rx \notin Senders \cup {Root}
  /\ MaxMsgs \in Nat

Handles == Senders \cup {Root}
Procs == Handles \cup {Rx}
Slots == 0 .. MAX_CAPACITY - 1
Indices == 0 .. capacity - 1
Positions == 0 .. PosMod - 1

VARIABLES
  enqueue_pos, dequeue_pos,  \* position and CLOSED bit
  queue,      \* queue[k]: sequence number and element index of slot k
  indices,    \* the free indices
  cells,      \* cells[i]: the element cell of index i
  state,      \* sender count and error bits
  error,      \* whether the error cell is initialized
  prod_wait,  \* WaitQueue: waiting senders, one stored wakeup, closed
  cons_wait,  \* WaitCell: woken, closed; the waker is Rx's when Rx is parked
  at,         \* at[p]: the access process p makes next
  idx,        \* idx[p]: the index p's Reservation owns
  seen,       \* seen[p]: the head or tail p loaded, and the slot's value
  sent,       \* sent[s]: messages s has committed
  got         \* got[s]: number of the last message of s received

queueVars == <<enqueue_pos, dequeue_pos, queue>>
elemVars == <<indices, cells>>
closeVars == <<state, error>>
waitVars == <<prod_wait, cons_wait>>
countVars == <<sent, got>>
vars == <<queueVars, elemVars, closeVars, waitVars, at, idx, seen, countVars>>

NoIndex == -1
Uninit == [src |-> Root, n |-> 0]

Init ==
  /\ enqueue_pos = [pos |-> 0, closed |-> FALSE]
  /\ dequeue_pos = [pos |-> 0, closed |-> FALSE]
  /\ queue = [k \in Slots |-> [seq |-> k, idx |-> 0]]
  /\ indices = Indices
  /\ cells = [i \in Indices |-> Uninit]
  /\ state = [tx |-> 1, erroring |-> FALSE, errored |-> FALSE]
  /\ error = FALSE
  /\ prod_wait = [waiters |-> <<>>, stored |-> FALSE, closed |-> FALSE]
  /\ cons_wait = [woken |-> FALSE, closed |-> FALSE]
  /\ at = [p \in Procs |-> IF p \in Senders THEN "absent" ELSE "idle"]
  /\ idx = [p \in Procs |-> NoIndex]
  /\ seen = [p \in Procs |-> [pos |-> 0, closed |-> FALSE, seq |-> 0, idx |-> 0]]
  /\ sent = [s \in Senders |-> 0]
  /\ got = [s \in Senders |-> 0]

Goto(p, l) == at' = [at EXCEPT ![p] = l]

\* Positions are the upper bits of a u16: they wrap.
PosAdd(pos, n) == (pos + n) % PosMod

Slot(pos) == pos % MAX_CAPACITY

\* Mutant of LAP_ONE: a lap is one short.
LapShort == MAX_CAPACITY - 2

\* What the receiver adds to the sequence number of a slot it dequeued.
LAP_ONE == MAX_CAPACITY - 1

\* Mutant of ReadySeq: a slot is ready before the commit has stored into it.
ReadyEarly(pos) == pos

\* The sequence number of a slot committed at `pos`, as try_dequeue computes
\* it: the successor is not masked to the width of a position.
ReadySeq(pos) == pos + 1

----------------------------------------------------------------------------
(***************************************************************************)
(* Wait primitives.                                                        *)
(***************************************************************************)

\* prod_wait.wake(): the first waiter, or a wakeup stored for the next one.
\* The caller goes to `l`.
WakeProd(p, l) ==
  IF prod_wait.waiters = <<>>
  THEN /\ prod_wait' = [prod_wait EXCEPT !.stored = ~prod_wait.closed]
       /\ Goto(p, l)
  ELSE /\ prod_wait' = [prod_wait EXCEPT !.waiters = Tail(@)]
       /\ at' = [at EXCEPT ![p] = l, ![Head(prod_wait.waiters)] = "reserve"]

\* Mutant of Woken: a parked receiver is not woken.
WokenForgets(a) == a

\* The receiver's task runs again if it was parked.
Woken(a) == IF a[Rx] = "parked" THEN [a EXCEPT ![Rx] = "idle"] ELSE a

----------------------------------------------------------------------------
(***************************************************************************)
(* Handles: Sender::clone and TrickyPipe::sender (add_tx), drop_tx.        *)
(***************************************************************************)

\* The handle is in no call.  A call that found the channel closed returned
\* Disconnected (failed) or Error (errored).
Free == {"idle", "failed", "errored"}

\* Mutant of NewSender: the new handle is not counted.
NewSenderUncounted(h, s) ==
  /\ at[h] \in Free /\ h \in Handles
  /\ at[s] = "absent"
  /\ Goto(s, "idle")
  /\ UNCHANGED <<queueVars, elemVars, closeVars, waitVars, idx, seen, countVars>>

NewSender(h, s) ==
  /\ at[h] \in Free /\ h \in Handles
  /\ at[s] = "absent"
  /\ state' = [state EXCEPT !.tx = @ + 1]
  /\ Goto(s, "idle")
  /\ UNCHANGED <<queueVars, elemVars, error, waitVars, idx, seen, countVars>>

\* Mutant of LastTx: the channel closes one sender early.
LastTxEarly == state.tx <= 2

\* Mutant of LastTx: nobody closes the channel.
LastTxNever == FALSE

LastTx == state.tx = 1

DropTx(h) ==
  /\ h \in Handles /\ at[h] \in Free
  /\ state' = [state EXCEPT !.tx = @ - 1]
  /\ Goto(h, IF LastTx THEN "close_tx" ELSE "dropped")
  /\ UNCHANGED <<queueVars, elemVars, error, waitVars, idx, seen, countVars>>

\* Receiver::drop: close_rx.  A parked receiver's future is dropped with it.
DropRx ==
  /\ at[Rx] \in {"idle", "parked", "ended", "ended_error"}
  /\ Goto(Rx, "close_rx")
  /\ UNCHANGED <<queueVars, elemVars, closeVars, waitVars, idx, seen, countVars>>

(***************************************************************************)
(* close_with_error, close_rx and close_tx.                                *)
(***************************************************************************)
SetErroring(p) ==
  /\ p \in ErrorClosers /\ at[p] \in Free
  /\ ~state.erroring
  /\ state' = [state EXCEPT !.erroring = TRUE]
  /\ Goto(p, "write_error")
  /\ UNCHANGED <<queueVars, elemVars, error, waitVars, idx, seen, countVars>>

WriteError(p) ==
  /\ at[p] = "write_error"
  /\ error' = TRUE
  /\ Goto(p, "set_errored")
  /\ UNCHANGED <<queueVars, elemVars, state, waitVars, idx, seen, countVars>>

SetErrored(p) ==
  /\ at[p] = "set_errored"
  /\ state' = [state EXCEPT !.errored = TRUE]
  /\ Goto(p, "err_close_rx")
  /\ UNCHANGED <<queueVars, elemVars, error, waitVars, idx, seen, countVars>>

\* What follows each step of a close, in a drop and in close_with_error.
Then ==
  [close_rx |-> "close_prod", close_prod |-> "dropped",
   close_tx |-> "close_cons", close_cons |-> "dropped",
   err_close_rx |-> "err_close_prod", err_close_prod |-> "err_close_tx",
   err_close_tx |-> "err_close_cons", err_close_cons |-> "idle"]

CloseEnqueue(p) ==
  /\ at[p] \in {"close_rx", "err_close_rx"}
  /\ enqueue_pos' = [enqueue_pos EXCEPT !.closed = TRUE]
  /\ Goto(p, Then[at[p]])
  /\ UNCHANGED <<dequeue_pos, queue, elemVars, closeVars, waitVars, idx, seen,
                 countVars>>

\* prod_wait.close(): every waiter fails.
CloseProd(p) ==
  /\ at[p] \in {"close_prod", "err_close_prod"}
  /\ prod_wait' = [waiters |-> <<>>, stored |-> FALSE, closed |-> TRUE]
  /\ at' = [q \in Procs |-> CASE q = p -> Then[at[p]]
                              [] q # p /\ at[q] = "waiting" -> "reason"
                              [] OTHER -> at[q]]
  /\ UNCHANGED <<queueVars, elemVars, closeVars, cons_wait, idx, seen, countVars>>

CloseDequeue(p) ==
  /\ at[p] \in {"close_tx", "err_close_tx"}
  /\ dequeue_pos' = [dequeue_pos EXCEPT !.closed = TRUE]
  /\ Goto(p, Then[at[p]])
  /\ UNCHANGED <<enqueue_pos, queue, elemVars, closeVars, waitVars, idx, seen,
                 countVars>>

CloseCons(p) ==
  /\ at[p] \in {"close_cons", "err_close_cons"}
  /\ cons_wait' = [woken |-> TRUE, closed |-> TRUE]
  /\ at' = Woken([at EXCEPT ![p] = Then[at[p]]])
  /\ UNCHANGED <<queueVars, elemVars, closeVars, prod_wait, idx, seen, countVars>>

\* Mutant of CloseReason: ERRORING is taken for ERRORED.
CloseReasonEarly(p) ==
  /\ at[p] = "reason"
  /\ Goto(p, IF p = Rx THEN (IF state.erroring THEN "ended_error" ELSE "ended")
             ELSE (IF state.erroring THEN "errored" ELSE "failed"))
  /\ UNCHANGED <<queueVars, elemVars, closeVars, waitVars, idx, seen, countVars>>

\* close_reason, in a call that found CLOSED set: the error if ERRORED is set,
\* else Disconnected.
CloseReason(p) ==
  /\ at[p] = "reason"
  /\ Goto(p, IF p = Rx THEN (IF state.errored THEN "ended_error" ELSE "ended")
             ELSE (IF state.errored THEN "errored" ELSE "failed"))
  /\ UNCHANGED <<queueVars, elemVars, closeVars, waitVars, idx, seen, countVars>>

----------------------------------------------------------------------------
(***************************************************************************)
(* Senders: reserve (a loop of try_reserve and prod_wait.wait), Permit,    *)
(* commit_send.                                                            *)
(***************************************************************************)

\* try_reserve loads the tail.
TryReserve(s) ==
  /\ s \in Senders /\ at[s] \in {"idle", "reserve"}
  /\ sent[s] < MaxMsgs
  /\ Goto(s, IF enqueue_pos.closed THEN "reason" ELSE "allocate")
  /\ UNCHANGED <<queueVars, elemVars, closeVars, waitVars, idx, seen, countVars>>

Allocate(s) ==
  /\ at[s] = "allocate"
  /\ \E i \in indices : /\ indices' = indices \ {i}
                        /\ idx' = [idx EXCEPT ![s] = i]
  /\ Goto(s, "permit")
  /\ UNCHANGED <<queueVars, cells, closeVars, waitVars, seen, countVars>>

\* TrySendError::Full: `reserve` waits, `try_reserve` returns it.
Full(s) ==
  /\ at[s] = "allocate"
  /\ indices = {}
  /\ \/ Goto(s, "wait")
     \/ s \in Impatient /\ Goto(s, "idle")
  /\ UNCHANGED <<queueVars, elemVars, closeVars, waitVars, idx, seen, countVars>>

\* prod_wait.wait(), first poll.
Wait(s) ==
  /\ at[s] = "wait"
  /\ IF prod_wait.closed \/ prod_wait.stored
     THEN /\ Goto(s, IF prod_wait.closed THEN "reason" ELSE "reserve")
          /\ prod_wait' = [prod_wait EXCEPT !.stored = FALSE]
     ELSE /\ Goto(s, "waiting")
          /\ prod_wait' = [prod_wait EXCEPT !.waiters = Append(@, s)]
  /\ UNCHANGED <<queueVars, elemVars, closeVars, cons_wait, idx, seen, countVars>>

\* The permit's owner writes its element.
WriteCell(s) ==
  /\ at[s] = "permit"
  /\ cells' = [cells EXCEPT ![idx[s]] = [src |-> s, n |-> sent[s] + 1]]
  /\ Goto(s, "load_tail")
  /\ UNCHANGED <<queueVars, indices, closeVars, waitVars, idx, seen, countVars>>

\* The permit is dropped unused, or its bytes do not deserialize: uncommit.
DropPermit(s) ==
  /\ at[s] = "permit" /\ s \in Hesitant
  /\ Goto(s, "uncommit")
  /\ UNCHANGED <<queueVars, elemVars, closeVars, waitVars, idx, seen, countVars>>

\* Reservation::drop, of a permit or of a received element: the index is freed,
\* then one sender is woken.
Uncommit(p) ==
  /\ at[p] = "uncommit"
  /\ indices' = indices \cup {idx[p]}
  /\ idx' = [idx EXCEPT ![p] = NoIndex]
  /\ Goto(p, "wake_prod")
  /\ UNCHANGED <<queueVars, cells, closeVars, waitVars, seen, countVars>>

\* Mutant of UncommitWake: no sender learns of the free index.
UncommitSilently(p) ==
  /\ at[p] = "wake_prod"
  /\ Goto(p, "idle")
  /\ UNCHANGED <<queueVars, elemVars, closeVars, waitVars, idx, seen, countVars>>

UncommitWake(p) ==
  /\ at[p] = "wake_prod"
  /\ WakeProd(p, "idle")
  /\ UNCHANGED <<queueVars, elemVars, closeVars, cons_wait, idx, seen, countVars>>

\* Mutant of GotTail: the commit does not look at CLOSED.
GotTailUnchecked(s) ==
  /\ seen' = [seen EXCEPT ![s] = [pos |-> enqueue_pos.pos,
                                  closed |-> enqueue_pos.closed,
                                  seq |-> 0, idx |-> 0]]
  /\ Goto(s, "load_slot")
  /\ UNCHANGED idx

\* s has a fresh tail.  A closed channel fails the commit; the reservation is
\* not dropped, so its index stays allocated.
GotTail(s) ==
  /\ seen' = [seen EXCEPT ![s] = [pos |-> enqueue_pos.pos,
                                  closed |-> enqueue_pos.closed,
                                  seq |-> 0, idx |-> 0]]
  /\ Goto(s, IF enqueue_pos.closed THEN "reason" ELSE "load_slot")
  /\ idx' = IF enqueue_pos.closed THEN [idx EXCEPT ![s] = NoIndex] ELSE idx

LoadTail(s) ==
  /\ at[s] = "load_tail"
  /\ GotTail(s)
  /\ UNCHANGED <<queueVars, elemVars, closeVars, waitVars, countVars>>

\* dif < 0 is the `unreachable!` of commit_send.
LoadSlot(s) ==
  /\ at[s] = "load_slot"
  /\ LET seq == queue[Slot(seen[s].pos)].seq
         pos == seen[s].pos
     IN  Goto(s, CASE seq < pos -> "panic"
                   [] seq = pos -> "cas_tail"
                   [] seq > pos -> "load_tail")
  /\ UNCHANGED <<queueVars, elemVars, closeVars, waitVars, idx, seen, countVars>>

\* Mutant of SeenEnqueue: a plain store instead of the compare-exchange.
SeenAnything(s) == TRUE

SeenEnqueue(s) ==
  enqueue_pos = [pos |-> seen[s].pos, closed |-> seen[s].closed]

CasTail(s) ==
  /\ at[s] = "cas_tail"
  /\ SeenEnqueue(s)
  /\ enqueue_pos' = [enqueue_pos EXCEPT !.pos = PosAdd(@, 1)]
  /\ Goto(s, "store_slot")
  /\ UNCHANGED <<dequeue_pos, queue, elemVars, closeVars, waitVars, idx, seen,
                 countVars>>

\* compare_exchange_weak may fail although the values agree.
CasTailFails(s) ==
  /\ at[s] = "cas_tail"
  /\ GotTail(s)
  /\ UNCHANGED <<queueVars, elemVars, closeVars, waitVars, countVars>>

StoreSlot(s) ==
  /\ at[s] = "store_slot"
  /\ queue' = [queue EXCEPT ![Slot(seen[s].pos)] =
                 [seq |-> PosAdd(seen[s].pos, 1), idx |-> idx[s]]]
  /\ idx' = [idx EXCEPT ![s] = NoIndex]
  /\ sent' = [sent EXCEPT ![s] = @ + 1]
  /\ Goto(s, "wake_cons")
  /\ UNCHANGED <<enqueue_pos, dequeue_pos, elemVars, closeVars, waitVars, seen, got>>

WakeCons(s) ==
  /\ at[s] = "wake_cons"
  /\ cons_wait' = [cons_wait EXCEPT !.woken = TRUE]
  /\ at' = Woken([at EXCEPT ![s] = "idle"])
  /\ UNCHANGED <<queueVars, elemVars, closeVars, prod_wait, idx, seen, countVars>>

----------------------------------------------------------------------------
(***************************************************************************)
(* The receiver: poll_dequeue, a loop of try_dequeue and                   *)
(* cons_wait.poll_wait, then the read of the cell and the reservation's    *)
(* drop.                                                                   *)
(***************************************************************************)
GotHead ==
  /\ seen' = [seen EXCEPT ![Rx] = [pos |-> dequeue_pos.pos,
                                   closed |-> dequeue_pos.closed,
                                   seq |-> 0, idx |-> 0]]
  /\ Goto(Rx, "load_slot_rx")

LoadHead ==
  /\ at[Rx] = "idle"
  /\ GotHead
  /\ UNCHANGED <<queueVars, elemVars, closeVars, waitVars, idx, countVars>>

\* The slot's value decides: ready, empty, or closed and empty.
LoadSlotRx ==
  /\ at[Rx] = "load_slot_rx"
  /\ LET pos == seen[Rx].pos
         slot == queue[Slot(pos)]
         ready == ReadySeq(pos)
     IN  /\ seen' = [seen EXCEPT ![Rx].seq = slot.seq, ![Rx].idx = slot.idx]
         /\ Goto(Rx, CASE slot.seq < ready /\ seen[Rx].closed -> "reason"
                       [] slot.seq < ready /\ ~seen[Rx].closed -> "poll_wait"
                       [] slot.seq = ready -> "cas_head"
                       [] slot.seq > ready -> "idle")
  /\ UNCHANGED <<queueVars, elemVars, closeVars, waitVars, idx, countVars>>

SeenDequeue ==
  dequeue_pos = [pos |-> seen[Rx].pos, closed |-> seen[Rx].closed]

CasHead ==
  /\ at[Rx] = "cas_head"
  /\ SeenDequeue
  /\ dequeue_pos' = [dequeue_pos EXCEPT !.pos = PosAdd(@, 1)]
  /\ Goto(Rx, "store_lap")
  /\ UNCHANGED <<enqueue_pos, queue, elemVars, closeVars, waitVars, idx, seen,
                 countVars>>

CasHeadFails ==
  /\ at[Rx] = "cas_head"
  /\ GotHead
  /\ UNCHANGED <<queueVars, elemVars, closeVars, waitVars, idx, countVars>>

\* The slot is ready for the enqueue one lap later.
StoreLap ==
  /\ at[Rx] = "store_lap"
  /\ queue' = [queue EXCEPT ![Slot(seen[Rx].pos)].seq =
                 PosAdd(seen[Rx].seq, LAP_ONE)]
  /\ idx' = [idx EXCEPT ![Rx] = seen[Rx].idx]
  /\ Goto(Rx, "read")
  /\ UNCHANGED <<enqueue_pos, dequeue_pos, elemVars, closeVars, waitVars, seen,
                 countVars>>

\* The element is moved out of its cell.
ReadCell ==
  /\ at[Rx] = "read"
  /\ LET msg == cells[idx[Rx]]
     IN  got' = [s \in Senders |-> IF s = msg.src THEN msg.n ELSE got[s]]
  /\ cells' = [cells EXCEPT ![idx[Rx]] = Uninit]
  /\ Goto(Rx, "uncommit")
  /\ UNCHANGED <<queueVars, indices, closeVars, waitVars, idx, seen, sent>>

\* cons_wait.poll_wait(): ready when woken or closed, else the waker is stored.
PollWait ==
  /\ at[Rx] = "poll_wait"
  /\ cons_wait' = [cons_wait EXCEPT !.woken = FALSE]
  /\ Goto(Rx, IF cons_wait.woken \/ cons_wait.closed THEN "idle" ELSE "parked")
  /\ UNCHANGED <<queueVars, elemVars, closeVars, prod_wait, idx, seen, countVars>>

----------------------------------------------------------------------------
\* Nobody holds the channel any more.
AllGone == \A p \in Procs : at[p] \in {"absent", "dropped"}

\* Mutant of HeadReady: a closed channel is taken for empty.
HeadReadyIfOpen ==
  /\ ~dequeue_pos.closed
  /\ queue[Slot(dequeue_pos.pos)].seq = ReadySeq(dequeue_pos.pos)

\* try_dequeue finds an element, closed or not.
HeadReady == queue[Slot(dequeue_pos.pos)].seq = ReadySeq(dequeue_pos.pos)

\* SharedState::drop: one turn of the loop that dequeues an element, drops it
\* in its cell and frees its index.
Reclaim ==
  /\ AllGone /\ HeadReady
  /\ LET slot == queue[Slot(dequeue_pos.pos)]
     IN  /\ queue' = [queue EXCEPT ![Slot(dequeue_pos.pos)].seq =
                                      PosAdd(slot.seq, LAP_ONE)]
         /\ cells' = [cells EXCEPT ![slot.idx] = Uninit]
         /\ indices' = indices \cup {slot.idx}
  /\ dequeue_pos' = [dequeue_pos EXCEPT !.pos = PosAdd(@, 1)]
  /\ UNCHANGED <<enqueue_pos, closeVars, waitVars, at, idx, seen, countVars>>

----------------------------------------------------------------------------
CloseStep(p) ==
  \/ WriteError(p) \/ SetErrored(p)
  \/ CloseEnqueue(p) \/ CloseProd(p) \/ CloseDequeue(p) \/ CloseCons(p)

\* What a sender does once its call has started.
SenderStep(s) ==
  \/ at[s] = "reserve" /\ TryReserve(s)
  \/ Allocate(s) \/ Full(s) \/ Wait(s) \/ WriteCell(s)
  \/ Uncommit(s) \/ UncommitWake(s)
  \/ LoadTail(s) \/ LoadSlot(s) \/ CasTail(s) \/ CasTailFails(s)
  \/ StoreSlot(s) \/ WakeCons(s) \/ CloseReason(s)

RxStep ==
  \/ LoadHead \/ LoadSlotRx \/ CasHead \/ CasHeadFails \/ StoreLap \/ ReadCell
  \/ Uncommit(Rx) \/ UncommitWake(Rx) \/ PollWait \/ CloseReason(Rx)

Next ==
  \/ \E h \in Handles, s \in Senders : NewSender(h, s)
  \/ \E h \in Handles : DropTx(h)
  \/ DropRx
  \/ \E p \in Procs : SetErroring(p) \/ CloseStep(p)
  \/ \E s \in Senders : (at[s] = "idle" /\ TryReserve(s)) \/ DropPermit(s) \/ SenderStep(s)
  \/ RxStep
  \/ Reclaim

Spec == Init /\ [][Next]_vars

\* A call that has started runs on, and a weak compare-exchange that can
\* succeed again and again does.  The receiver keeps receiving until it is
\* dropped.  Nothing obliges a handle to send or to be dropped.
FairSpec ==
  /\ Spec
  /\ \A p \in Procs : WF_vars(CloseStep(p))
  /\ \A s \in Senders : WF_vars(SenderStep(s)) /\ SF_vars(CasTail(s))
  /\ WF_vars(RxStep) /\ SF_vars(CasHead)

----------------------------------------------------------------------------
Labels ==
  {"absent", "idle", "failed", "errored", "dropped", "reason", "ended",
   "ended_error", "panic",
   "reserve", "allocate", "wait", "waiting", "permit", "uncommit", "wake_prod",
   "load_tail", "load_slot", "cas_tail", "store_slot", "wake_cons",
   "load_slot_rx", "cas_head", "store_lap", "read", "poll_wait", "parked",
   "write_error", "set_errored"} \cup DOMAIN Then

SlotValues == [seq : Positions, idx : Indices]

\* Every variable has its type; in particular positions and sequence numbers
\* fit their bits and the sender count never underflows.
TypeOK ==
  /\ enqueue_pos \in [pos : Positions, closed : BOOLEAN]
  /\ dequeue_pos \in [pos : Positions, closed : BOOLEAN]
  /\ queue \in [Slots -> SlotValues]
  /\ indices \subseteq Indices
  /\ cells \in [Indices -> [src : Handles, n : 0 .. MaxMsgs]]
  /\ state \in [tx : Nat, erroring : BOOLEAN, errored : BOOLEAN]
  /\ error \in BOOLEAN
  /\ prod_wait \in [waiters : Seq(Senders), stored : BOOLEAN, closed : BOOLEAN]
  /\ cons_wait \in [woken : BOOLEAN, closed : BOOLEAN]
  /\ at \in [Procs -> Labels]
  /\ idx \in [Procs -> Indices \cup {NoIndex}]
  /\ seen \in [Procs -> [pos : Positions, closed : BOOLEAN, seq : Positions,
                         idx : Indices]]
  /\ sent \in [Senders -> 0 .. MaxMsgs]
  /\ got \in [Senders -> 0 .. MaxMsgs]

----------------------------------------------------------------------------
(***************************************************************************)
(* Safety.                                                                 *)
(***************************************************************************)

\* Slot k holds a committed index that is still to be dequeued.
Committed(k) ==
  \E d \in 0 .. ((enqueue_pos.pos - dequeue_pos.pos) % PosMod) - 1 :
    LET pos == PosAdd(dequeue_pos.pos, d)
    IN  Slot(pos) = k /\ queue[k].seq = PosAdd(pos, 1)

\* p has exclusive access to the cell of index i.
Owns(p, i) ==
  \/ idx[p] = i
  \/ p = Rx /\ at[p] = "store_lap" /\ seen[p].idx = i

OwnerCount(i) ==
  (IF i \in indices THEN 1 ELSE 0)
    + Cardinality({p \in Procs : Owns(p, i)})
    + Cardinality({k \in Slots : Committed(k) /\ queue[k].idx = i})

\* An index is free, or in the hands of one reservation, or committed to one
\* slot, so no two of a Permit's write, the receiver's read and another
\* Permit's write touch one cell together; none leaks unless commit_send fails
\* on a closed channel.
IndexOwnership ==
  \A i \in Indices : /\ OwnerCount(i) <= 1
                     /\ enqueue_pos.closed \/ OwnerCount(i) = 1

\* "if a slot was successfully reserved, there should be send capacity!": the
\* unreachable! of commit_send, however long a sender sleeps with its tail.
NoPanic == \A p \in Procs : at[p] # "panic"

\* The cell the receiver is about to read holds the next message of its sender:
\* nothing lost, repeated, reordered or uninitialized.
NextInOrder ==
  at[Rx] = "read" =>
    LET msg == cells[idx[Rx]]
    IN  msg.src \in Senders /\ msg.n = got[msg.src] + 1

\* poll_dequeue parks with a committed message in the queue only while a sender
\* has yet to finish the commit_send that will wake it.
NothingStranded ==
  (/\ at[Rx] = "parked"
   /\ \A s \in Senders : at[s] \notin {"store_slot", "wake_cons"})
  => \A s \in Senders : got[s] = sent[s]

\* No wakeup of `reserve` is lost: a sender that waits is sure to be woken.
\* While the channel is open an index is in use, which is freed and announced in
\* the end, or is being announced, or a sender that was woken is on its way to
\* take it; when it is closed somebody is about to close the WaitQueue.
WaiterHasWaker ==
  (\E s \in Senders : at[s] = "waiting") =>
    IF enqueue_pos.closed
    THEN \E p \in Procs : at[p] \in {"close_prod", "err_close_prod"}
    ELSE \/ indices # Indices
         \/ \E p \in Procs : at[p] \in {"wake_prod", "reserve", "allocate"}

RxGone == at[Rx] \in {"close_rx", "close_prod", "dropped"}

\* RecvError::Disconnected means that every sender is gone and all they sent
\* was received (drop_tx, close_tx and try_dequeue's check of CLOSED).
DisconnectedIsFinal ==
  at[Rx] = "ended" =>
    /\ \A s \in Senders : got[s] = sent[s]
    /\ \A h \in Handles : at[h] \in {"absent", "dropped", "close_cons"}

\* close_reason tells the truth, however the closes race: a sender that gets
\* Disconnected has no receiver, and whoever gets the error finds it written.
ReasonIsTrue ==
  /\ \A s \in Senders : at[s] = "failed" => RxGone
  /\ \A p \in Procs : at[p] \in {"errored", "ended_error"} => error

\* When the channel's memory is given back, each message that was committed has
\* been moved out of its cell or dropped in it; only the message of a commit
\* that failed on a closed channel is left behind.
NothingLeft ==
  AllGone /\ ~HeadReady =>
    \A i \in Indices : cells[i] # Uninit => cells[i].n > sent[cells[i].src]

(***************************************************************************)
(* Refinement: the channel is a bounded FIFO (Channel).  A message is in   *)
(* the FIFO from the compare-exchange of the tail to that of the head.     *)
(***************************************************************************)

\* The message at position pos: still in the hands of the sender that took the
\* position, or committed to the slot.
MessageAt(pos) ==
  IF \E s \in Senders : at[s] = "store_slot" /\ seen[s].pos = pos
  THEN LET s == CHOOSE s \in Senders : at[s] = "store_slot" /\ seen[s].pos = pos
       IN  [src |-> s, n |-> sent[s] + 1]
  ELSE cells[queue[Slot(pos)].idx]

chanBuf ==
  [k \in 1 .. (enqueue_pos.pos - dequeue_pos.pos) % PosMod |->
     MessageAt(PosAdd(dequeue_pos.pos, k - 1))]

chanSent == [s \in Senders |-> sent[s] + IF at[s] = "store_slot" THEN 1 ELSE 0]

chanGot ==
  IF at[Rx] \in {"store_lap", "read"}
  THEN LET msg == cells[seen[Rx].idx]
       IN  [s \in Senders |-> IF s = msg.src THEN msg.n ELSE got[s]]
  ELSE got

chanRx ==
  CASE at[Rx] = "ended" -> "disconnected"
    [] at[Rx] = "ended_error" -> "error"
    [] RxGone -> "left"
    [] OTHER -> "receiving"

Chan == INSTANCE Channel WITH
  Cap <- capacity, buf <- chanBuf, sent <- chanSent, got <- chanGot,
  open <- ~enqueue_pos.closed, senders <- state.tx > 0, error <- state.erroring,
  rx <- chanRx

\* The channel implements a bounded FIFO: messages enter it one by one in the
\* order of the tail, never more than capacity, leave it in that order, and
\* none enters once it is closed or the last sender is gone.
ImplementsChannel == Chan!Spec

(***************************************************************************)
(* Liveness, under FairSpec.                                               *)
(***************************************************************************)
\* A message commit_send returned Ok for is received, unless the receiver is
\* dropped or the channel closed with an error.
Delivered ==
  \A s \in Senders, n \in 1 .. MaxMsgs :
    sent[s] >= n ~> got[s] >= n \/ RxGone \/ state.erroring

\* A sender that waits in `reserve` is woken, although WaitQueue stores one
\* wakeup for any number of freed indices.
WaiterWakes == \A s \in Senders : at[s] = "waiting" ~> at[s] # "waiting"

\* When the last handle is dropped the receiver learns of it.
RxLearns ==
  (\A h \in Handles : at[h] \in {"absent", "dropped"}) ~> at[Rx] = "ended" \/ RxGone
=============================================================================
