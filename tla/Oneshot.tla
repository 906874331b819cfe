------------------------------ MODULE Oneshot ------------------------------
(***************************************************************************)
(* The reusable one-shot channel (tricky-pipe, oneshot.rs): a cell for one *)
(* value, a word of flags and a WaitCell.  Calliope answers a connect      *)
(* request over one.  The receiver makes one call after the other; each    *)
(* call of `sender` makes a new sender handle, which sends once or is      *)
(* dropped.  An ErasedReceiver returns a reference to the value in its     *)
(* cell, which moves the value out or drops it later; the receiver may be  *)
(* closed meanwhile, but makes no other call.                              *)
(*                                                                         *)
(* A step is one access to the flags, the cell or the WaitCell.  A handle  *)
(* that has nothing left to do but to release its reference may be made    *)
(* anew.  Values are numbered in the order in which they are written.      *)
(***************************************************************************)
EXTENDS Integers, FiniteSets

CONSTANTS
  Txs,        \* sender handles
  Rx,         \* the receiver
  MaxSends    \* bound: values written

ASSUME OneshotAssumption ==
  /\ Rx \notin Txs
  /\ MaxSends \in Nat

Flags == {"HAS_RX", "HAS_TX", "RX_WAITING", "SENT", "CLOSED"}

VARIABLES
  state,   \* the flags that are set
  cell,    \* number of the value in the cell, NoValue when there is none
  wait,    \* WaitCell: woken, closed; the waker is Rx's when Rx is parked
  at,      \* at[p]: the access process p makes next
  seen,    \* the flags Rx found in its call
  erased,  \* whether Rx is an ErasedReceiver
  sends    \* values written

vars == <<state, cell, wait, at, seen, erased, sends>>

NoValue == 0
Goto(p, l) == at' = [at EXCEPT ![p] = l]

\* Receiver::new, or a Oneshot that has no receiver yet.
Init ==
  /\ state \in {{}, {"HAS_RX"}}
  /\ cell = NoValue
  /\ wait = [woken |-> FALSE, closed |-> FALSE]
  /\ at = [p \in Txs \cup {Rx} |-> CASE p # Rx -> "done"
                                     [] p = Rx /\ state = {} -> "unclaimed"
                                     [] OTHER -> "idle"]
  /\ seen = {}
  /\ erased = FALSE
  /\ sends = 0

----------------------------------------------------------------------------
(***************************************************************************)
(* The receiver's calls.                                                   *)
(***************************************************************************)

\* Oneshot::static_receiver and arc_receiver.
Claim ==
  /\ at[Rx] = "unclaimed"
  /\ state = {} /\ state' = {"HAS_RX"}
  /\ Goto(Rx, "idle")
  /\ UNCHANGED <<cell, wait, seen, erased, sends>>

\* Receiver::into_erased.
IntoErased ==
  /\ at[Rx] = "idle"
  /\ ~erased /\ erased' = TRUE
  /\ UNCHANGED <<state, cell, wait, at, seen, sends>>

CallSender ==
  /\ at[Rx] = "idle"
  /\ Goto(Rx, "take_sender")
  /\ UNCHANGED <<state, cell, wait, seen, erased, sends>>

\* Mutant of Available: the channel is lent out again before the last sender
\* was used.
AvailableToAll == "HAS_RX" \in state

\* The compare-exchange of take_sender succeeds.
Available == state = {"HAS_RX"}

TakeSender(t) ==
  /\ at[Rx] = "take_sender"
  /\ Available
  /\ at[t] = "done"
  /\ state' = {"HAS_RX", "HAS_TX"}
  /\ at' = [at EXCEPT ![Rx] = "idle", ![t] = "held"]
  /\ UNCHANGED <<cell, wait, seen, erased, sends>>

\* It fails.  A value that was sent is received and dropped first; then the
\* flags found before decide between an error and another try.
TakeSenderFails ==
  /\ at[Rx] = "take_sender"
  /\ ~Available
  /\ seen' = state
  /\ Goto(Rx, IF "SENT" \in state THEN "discard" ELSE "decide")
  /\ UNCHANGED <<state, cell, wait, erased, sends>>

\* Mutant of Decide: a closed channel is tried again.
DecideLoops ==
  /\ at[Rx] = "decide"
  /\ Goto(Rx, IF "HAS_TX" \in seen THEN "idle" ELSE "take_sender")
  /\ UNCHANGED <<state, cell, wait, seen, erased, sends>>

Decide ==
  /\ at[Rx] = "decide"
  /\ Goto(Rx, IF seen \cap {"CLOSED", "HAS_TX"} # {} THEN "idle"
              ELSE "take_sender")
  /\ UNCHANGED <<state, cell, wait, seen, erased, sends>>

CallRecv ==
  /\ at[Rx] = "idle"
  /\ Goto(Rx, "recv")
  /\ UNCHANGED <<state, cell, wait, seen, erased, sends>>

\* poll_recv sets RX_WAITING and looks at the flags it found: closed, sent, no
\* sender, or wait.  The receive inside take_sender drops the value and goes on
\* to decide; recv moves it out at once, and recv_erased returns an
\* ErasedRecvRef.
PollRecv ==
  /\ at[Rx] \in {"recv", "discard"}
  /\ state' = state \cup {"RX_WAITING"}
  /\ LET back == IF at[Rx] = "recv" THEN "idle" ELSE "decide"
     IN  Goto(Rx, CASE "CLOSED" \in state -> back
                    [] "CLOSED" \notin state /\ "SENT" \in state ->
                         CASE at[Rx] = "discard" -> "drop_value"
                           [] at[Rx] = "recv" /\ erased -> "holding"
                           [] OTHER -> "take_value"
                    [] state \cap {"CLOSED", "SENT", "HAS_TX"} = {} -> back
                    [] OTHER -> "poll_wait")
  /\ UNCHANGED <<cell, wait, seen, erased, sends>>

\* wait.poll_wait(): an error when closed, another round when woken, else the
\* waker is stored.
PollWait ==
  /\ at[Rx] = "poll_wait"
  /\ wait' = [wait EXCEPT !.woken = FALSE]
  /\ Goto(Rx, CASE wait.closed -> "idle"
                [] ~wait.closed /\ wait.woken -> "recv"
                [] OTHER -> "parked")
  /\ UNCHANGED <<state, cell, seen, erased, sends>>

\* The ErasedRecvRef is downcast or dropped.
LetGo ==
  /\ at[Rx] = "holding"
  /\ Goto(Rx, "take_value")
  /\ UNCHANGED <<state, cell, wait, seen, erased, sends>>

\* take_value moves the value out of the cell, or drop_data drops it there...
TakeValue ==
  /\ at[Rx] \in {"take_value", "drop_value"}
  /\ cell' = NoValue
  /\ Goto(Rx, IF at[Rx] = "take_value" THEN "store" ELSE "store_decide")
  /\ UNCHANGED <<state, wait, seen, erased, sends>>

\* Mutant of StoreHasRx: SENT is not cleared.
StoreKeepsSent ==
  /\ at[Rx] \in {"store", "store_decide"}
  /\ state' = state \ {"HAS_TX", "RX_WAITING"}
  /\ Goto(Rx, IF at[Rx] = "store" THEN "idle" ELSE "decide")
  /\ UNCHANGED <<cell, wait, seen, erased, sends>>

\* ...and stores HAS_RX over all flags.
StoreHasRx ==
  /\ at[Rx] \in {"store", "store_decide"}
  /\ state' = {"HAS_RX"}
  /\ Goto(Rx, IF at[Rx] = "store" THEN "idle" ELSE "decide")
  /\ UNCHANGED <<cell, wait, seen, erased, sends>>

\* The future of `recv` is dropped; RX_WAITING stays.
CancelRecv ==
  /\ at[Rx] = "parked"
  /\ Goto(Rx, "idle")
  /\ UNCHANGED <<state, cell, wait, seen, erased, sends>>

\* Mutant of Close: the flag is added to the others.
CloseAdds ==
  /\ at[Rx] \in {"idle", "holding"}
  /\ "CLOSED" \notin state
  /\ seen' = state
  /\ state' = state \cup {"CLOSED"}
  /\ Goto(Rx, IF at[Rx] = "idle" THEN "close_wait" ELSE "close_held")
  /\ UNCHANGED <<cell, wait, erased, sends>>

\* Receiver::close, which is called once: CLOSED replaces all flags.
Close ==
  /\ at[Rx] \in {"idle", "holding"}
  /\ "CLOSED" \notin state
  /\ seen' = state
  /\ state' = {"CLOSED"}
  /\ Goto(Rx, IF at[Rx] = "idle" THEN "close_wait" ELSE "close_held")
  /\ UNCHANGED <<cell, wait, erased, sends>>

\* A value whose sender is gone is dropped in place.
CloseWait ==
  /\ at[Rx] \in {"close_wait", "close_held"}
  /\ wait' = [wait EXCEPT !.closed = TRUE]
  /\ cell' = IF "SENT" \in seen /\ "HAS_TX" \notin seen THEN NoValue ELSE cell
  /\ Goto(Rx, IF at[Rx] = "close_wait" THEN "idle" ELSE "holding")
  /\ UNCHANGED <<state, seen, erased, sends>>

----------------------------------------------------------------------------
(***************************************************************************)
(* A sender: Sender::send, or drop.                                        *)
(***************************************************************************)
WriteCell(t) ==
  /\ at[t] = "held"
  /\ sends < MaxSends
  /\ sends' = sends + 1
  /\ cell' = sends'
  /\ Goto(t, "finish_write")
  /\ UNCHANGED <<state, wait, seen, erased>>

\* Mutant of FinishWrite: the flag is stored over the others.
FinishWriteStores(t) ==
  /\ at[t] = "finish_write"
  /\ state' = {"HAS_RX", "HAS_TX", "SENT"}
  /\ Goto(t, CASE "CLOSED" \in state -> "take_back"
               [] "CLOSED" \notin state /\ "RX_WAITING" \in state -> "wake"
               [] OTHER -> "done")
  /\ UNCHANGED <<cell, wait, seen, erased, sends>>

\* Mutant of FinishWrite: the receiver is not woken.
FinishWriteSilently(t) ==
  /\ at[t] = "finish_write"
  /\ state' = state \cup {"SENT"}
  /\ Goto(t, IF "CLOSED" \in state THEN "take_back" ELSE "done")
  /\ UNCHANGED <<cell, wait, seen, erased, sends>>

\* finish_write sets SENT: closed, receiver waiting, or neither.
FinishWrite(t) ==
  /\ at[t] = "finish_write"
  /\ state' = state \cup {"SENT"}
  /\ Goto(t, CASE "CLOSED" \in state -> "take_back"
               [] "CLOSED" \notin state /\ "RX_WAITING" \in state -> "wake"
               [] OTHER -> "done")
  /\ UNCHANGED <<cell, wait, seen, erased, sends>>

\* wait.wake(): the wakeup is stored, and a parked receiver runs again.
Wake(t) ==
  /\ at[t] = "wake"
  /\ wait' = [wait EXCEPT !.woken = TRUE]
  /\ at' = [at EXCEPT ![t] = "done",
                      ![Rx] = IF @ = "parked" THEN "recv" ELSE @]
  /\ UNCHANGED <<state, cell, seen, erased, sends>>

\* The channel was closed during the write: the value goes back to the caller.
TakeBack(t) ==
  /\ at[t] = "take_back"
  /\ cell' = NoValue
  /\ Goto(t, "drop_tx")
  /\ UNCHANGED <<state, wait, seen, erased, sends>>

\* The handle is dropped unused, or its value does not deserialize.
Abandon(t) ==
  /\ at[t] = "held"
  /\ Goto(t, "drop_tx")
  /\ UNCHANGED <<state, cell, wait, seen, erased, sends>>

\* Mutant of DropTx: the flag stays.
DropTxForgets(t) ==
  /\ at[t] = "drop_tx"
  /\ Goto(t, "done")
  /\ UNCHANGED <<state, cell, wait, seen, erased, sends>>

\* drop_tx clears HAS_TX and wakes nobody.
DropTx(t) ==
  /\ at[t] = "drop_tx"
  /\ state' = state \ {"HAS_TX"}
  /\ Goto(t, "done")
  /\ UNCHANGED <<cell, wait, seen, erased, sends>>

----------------------------------------------------------------------------
\* What the receiver does once its call has started.
RxStep ==
  \/ \E t \in Txs : TakeSender(t)
  \/ TakeSenderFails \/ Decide \/ PollRecv \/ PollWait
  \/ TakeValue \/ StoreHasRx \/ CloseWait

TxStep(t) == FinishWrite(t) \/ Wake(t) \/ TakeBack(t) \/ DropTx(t)

Next ==
  \/ Claim \/ IntoErased \/ CallSender \/ CallRecv \/ CancelRecv \/ LetGo \/ Close
  \/ RxStep
  \/ \E t \in Txs : WriteCell(t) \/ Abandon(t) \/ TxStep(t)

Spec == Init /\ [][Next]_vars

\* A call that has started runs on; nothing obliges a handle to send.
FairSpec == Spec /\ WF_vars(RxStep) /\ \A t \in Txs : WF_vars(TxStep(t))

----------------------------------------------------------------------------
\* The words of flags a channel has that is open, closed or unclaimed.
FlagWords == {s \in SUBSET Flags : ("HAS_RX" \in s) # ("CLOSED" \in s)} \cup {{}}

Labels ==
  {"idle", "take_sender", "decide", "discard", "recv", "poll_wait", "parked",
   "take_value", "drop_value", "store", "store_decide", "close_wait",
   "close_held", "holding", "unclaimed",
   "done", "held", "finish_write", "wake", "take_back", "drop_tx"}

\* Every variable has its type; a closed channel has no receiver.
TypeOK ==
  /\ state \in FlagWords /\ seen \in FlagWords /\ erased \in BOOLEAN
  /\ cell \in 0 .. MaxSends /\ sends \in 0 .. MaxSends
  /\ wait \in [woken : BOOLEAN, closed : BOOLEAN]
  /\ at \in [Txs \cup {Rx} -> Labels]

(***************************************************************************)
(* Safety.                                                                 *)
(***************************************************************************)
Writers == {t \in Txs : at[t] \in {"held", "finish_write", "take_back"}}

\* Only one handle at a time may touch the cell, and none while the receiver
\* moves a value out of it: the compare-exchange of take_sender and the flags
\* are all that keeps them apart.
CellExclusive ==
  /\ Cardinality(Writers) <= 1
  /\ at[Rx] \in {"take_value", "drop_value", "store", "store_decide", "holding",
                "close_held"} => Writers = {}

\* While SENT is set and the channel open, the cell holds the last value
\* written, until the receiver has moved it out: `recv` returns no value twice
\* and none that another one replaced.  A close does not drop the value an
\* ErasedRecvRef still refers to.
FreshValue ==
  /\ at[Rx] \in {"take_value", "drop_value", "holding", "close_held"} =>
       cell = sends /\ cell # NoValue
  /\ /\ "SENT" \in state /\ "CLOSED" \notin state
     /\ at[Rx] \notin {"store", "store_decide"}
     => cell = sends

\* A closed channel stays closed, whatever sender is in the middle of a write:
\* SenderError::Closed is final.  The exception is an ErasedRecvRef that
\* outlives the close: it stores HAS_RX over CLOSED.
ClosedIsFinal ==
  [][ "CLOSED" \in state => "CLOSED" \in state' \/ (erased /\ at[Rx] = "store") ]_vars

\* `recv` stays parked with a value in the cell only while the sender that
\* wrote it has yet to wake it: finish_write saw RX_WAITING.
SentHasWaker ==
  at[Rx] = "parked" /\ "SENT" \in state => \E t \in Txs : at[t] = "wake"

\* SenderAlreadyActive is true of a channel in which no value waits: HAS_TX
\* without SENT belongs to a handle that has yet to send or to be dropped.
ActiveIsHeld ==
  "HAS_TX" \in state /\ "SENT" \notin state =>
    \E t \in Txs : at[t] \in {"held", "finish_write", "drop_tx"}

(***************************************************************************)
(* Liveness, under FairSpec.                                               *)
(***************************************************************************)
Blocked == at[Rx] \in {"poll_wait", "parked"}

\* A sender that has written its value ends the receiver's wait, whichever of
\* RX_WAITING, SENT and the two halves of the WaitCell comes first.
SendWakes == \A t \in Txs : at[t] = "finish_write" /\ Blocked ~> ~Blocked

\* A call of `sender` returns, except when RX_WAITING is all that an earlier
\* receive has left behind, one that was cancelled or found no sender:
\* take_sender then compares the flags with HAS_RX for ever.
SenderReturns ==
  at[Rx] = "take_sender" ~> at[Rx] = "idle" \/ state = {"HAS_RX", "RX_WAITING"}

\* "If the sender is dropped without sending a response, this function will
\* return NoSender": a receiver without a sender does not stay parked.
RecvLearns == at[Rx] = "parked" /\ "HAS_TX" \notin state ~> at[Rx] # "parked"
=============================================================================
