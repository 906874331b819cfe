---------------------------- MODULE OneshotProofs ----------------------------
(***************************************************************************)
(* The flags of the one-shot channel keep its handles apart, for every set *)
(* of sender handles and any number of values.                             *)
(***************************************************************************)
EXTENDS Oneshot, FiniteSetTheorems, TLAPS

\* A sender handle between take_sender and the end of its send or its drop.
Active(t) == at[t] \in {"held", "finish_write", "take_back", "drop_tx"}

\* The receiver has found a value and has yet to store HAS_RX.
Taking == at[Rx] \in {"take_value", "drop_value", "store", "store_decide",
                      "holding", "close_held"}

TxLabels == {"done", "held", "finish_write", "wake", "take_back", "drop_tx"}
RxLabels ==
  {"idle", "take_sender", "decide", "discard", "recv", "poll_wait", "parked",
   "take_value", "drop_value", "store", "store_decide", "close_wait",
   "close_held", "holding", "unclaimed"}

\* Each process is at an access of its own code, and the channel has no flag
\* set just until it is claimed.
PlaceInv ==
  /\ at[Rx] \in RxLabels /\ \A t \in Txs : at[t] \in TxLabels
  /\ state = {} <=> at[Rx] = "unclaimed"

\* One handle at a time, and HAS_TX without SENT is that handle's; a handle
\* that takes its value back has seen CLOSED.
SenderInv ==
  /\ \A t, u \in Txs : Active(t) /\ Active(u) => t = u
  /\ \A t \in Txs : Active(t) =>
       "CLOSED" \in state \/ ("HAS_TX" \in state /\ "SENT" \notin state)
  /\ \A t \in Txs : at[t] = "take_back" => "CLOSED" \in state

\* While the receiver takes a value no handle is active.  A close can come
\* between only when the value is held by an ErasedRecvRef.
TakingInv ==
  /\ Taking => \A t \in Txs : ~Active(t)
  /\ Taking => "SENT" \in state \/ "CLOSED" \in state
  /\ at[Rx] \in {"holding", "close_held"} => erased
  /\ at[Rx] \in {"take_value", "store"} /\ "CLOSED" \in state => erased
  /\ at[Rx] \in {"drop_value", "store_decide"} => "CLOSED" \notin state

\* A send leaves HAS_TX set, so that close never finds SENT without it.
SentInv ==
  /\ "SENT" \in state /\ "CLOSED" \notin state => "HAS_TX" \in state
  /\ at[Rx] \in {"close_wait", "close_held"} /\ "SENT" \in seen => "HAS_TX" \in seen

\* The cell holds the last value written: for the handle that has just written
\* it, while SENT is set, and for the receiver that takes it.
ValueInv ==
  /\ \A t \in Txs : at[t] = "finish_write" => cell = sends /\ cell # NoValue
  /\ /\ "SENT" \in state /\ "CLOSED" \notin state
     /\ at[Rx] \notin {"store", "store_decide"}
     => cell = sends /\ cell # NoValue
  /\ at[Rx] \in {"take_value", "drop_value", "holding", "close_held"} =>
       cell = sends /\ cell # NoValue

\* The inductive invariant.
IInv ==
  /\ TypeOK /\ PlaceInv /\ SenderInv /\ TakingInv /\ SentInv /\ ValueInv
  /\ ActiveIsHeld

----------------------------------------------------------------------------
LEMMA InitInv == Init => IInv
<1> SUFFICES ASSUME Init PROVE IInv
  OBVIOUS
<1>1. at \in [Txs \cup {Rx} -> Labels]
  BY DEF Init, Labels
<1>2. state \in FlagWords /\ seen \in FlagWords
  BY DEF Init, FlagWords, Flags
<1>3. wait \in [woken : BOOLEAN, closed : BOOLEAN] /\ erased \in BOOLEAN
  BY DEF Init
<1>4. cell \in 0 .. MaxSends /\ sends \in 0 .. MaxSends
  BY OneshotAssumption DEF Init, NoValue
<1>5. TypeOK
  BY <1>1, <1>2, <1>3, <1>4 DEF TypeOK
<1> QED BY OneshotAssumption, <1>5
           DEF Init, IInv, Active, Taking, TxLabels, RxLabels, PlaceInv,
               SenderInv, TakingInv, SentInv, ValueInv, ActiveIsHeld

(***************************************************************************)
(* The receiver's steps.                                                   *)
(***************************************************************************)
\* The steps of the receiver that touch neither the flags nor the cell.
LEMMA QuietInv ==
  ASSUME IInv,
         \/ IntoErased \/ CallSender \/ TakeSenderFails \/ Decide \/ CallRecv
         \/ LetGo \/ CancelRecv
  PROVE  IInv'
<1>1. CASE IntoErased
  BY <1>1
     DEF IntoErased, IInv, Active, Taking, PlaceInv, SenderInv, TakingInv,
         SentInv, ValueInv, ActiveIsHeld, TypeOK
<1>2. CASE CallSender
  BY <1>2, OneshotAssumption
     DEF CallSender, IInv, Goto, Active, Taking, RxLabels, PlaceInv, SenderInv,
         TakingInv, SentInv, ValueInv, ActiveIsHeld, TypeOK, Labels
<1>3. CASE TakeSenderFails
  BY <1>3, OneshotAssumption
     DEF TakeSenderFails, IInv, Goto, Active, Taking, RxLabels, PlaceInv,
         SenderInv, TakingInv, SentInv, ValueInv, ActiveIsHeld, TypeOK, Labels
<1>4. CASE Decide
  BY <1>4, OneshotAssumption
     DEF Decide, IInv, Goto, Active, Taking, RxLabels, PlaceInv, SenderInv,
         TakingInv, SentInv, ValueInv, ActiveIsHeld, TypeOK, Labels
<1>5. CASE CallRecv
  BY <1>5, OneshotAssumption
     DEF CallRecv, IInv, Goto, Active, Taking, RxLabels, PlaceInv, SenderInv,
         TakingInv, SentInv, ValueInv, ActiveIsHeld, TypeOK, Labels
<1>6. CASE LetGo
  BY <1>6, OneshotAssumption
     DEF LetGo, IInv, Goto, Active, Taking, RxLabels, PlaceInv, SenderInv,
         TakingInv, SentInv, ValueInv, ActiveIsHeld, TypeOK, Labels
<1>7. CASE CancelRecv
  BY <1>7, OneshotAssumption
     DEF CancelRecv, IInv, Goto, Active, Taking, RxLabels, PlaceInv, SenderInv,
         TakingInv, SentInv, ValueInv, ActiveIsHeld, TypeOK, Labels
<1> QED BY <1>1, <1>2, <1>3, <1>4, <1>5, <1>6, <1>7

LEMMA ClaimInv ==
  ASSUME IInv, Claim
  PROVE  IInv'
<1>1. TypeOK' /\ TakingInv' /\ SentInv' /\ ValueInv' /\ ActiveIsHeld'
  BY DEF Claim, IInv, Goto, Taking, TakingInv, SentInv, ValueInv, ActiveIsHeld,
         TypeOK, FlagWords, Flags, Labels
<1>2. PlaceInv'
  BY OneshotAssumption DEF Claim, IInv, Goto, RxLabels, PlaceInv, TypeOK
<1>3. SenderInv'
  BY DEF Claim, IInv, Goto, Active, SenderInv
<1> QED BY <1>1, <1>2, <1>3 DEF IInv

\* The compare-exchange finds HAS_RX alone: by SenderInv no handle is active.
LEMMA TakeSenderInv ==
  ASSUME NEW t \in Txs, IInv, TakeSender(t)
  PROVE  IInv'
<1>1. TypeOK' /\ PlaceInv' /\ SentInv' /\ ValueInv'
  BY DEF TakeSender, IInv, TxLabels, RxLabels, PlaceInv, SentInv, ValueInv,
         TypeOK, FlagWords, Flags, Labels
<1>2. SenderInv'
  BY DEF TakeSender, IInv, Available, Active, SenderInv, TypeOK
<1>3. TakingInv'
  BY DEF TakeSender, IInv, Taking, TakingInv, TypeOK
<1>4. ActiveIsHeld'
  BY DEF TakeSender, IInv, ActiveIsHeld, TypeOK
<1> QED BY <1>1, <1>2, <1>3, <1>4 DEF IInv

\* SENT without CLOSED: the handle that sent is no longer active, and the cell
\* holds its value.
LEMMA PollRecvInv ==
  ASSUME IInv, PollRecv
  PROVE  IInv'
<1>1. TypeOK' /\ PlaceInv' /\ SentInv' /\ ActiveIsHeld'
  BY OneshotAssumption
     DEF PollRecv, IInv, Goto, RxLabels, PlaceInv, SentInv, ActiveIsHeld,
         TypeOK, FlagWords, Flags, Labels
<1>2. SenderInv'
  BY DEF PollRecv, IInv, Goto, Active, SenderInv
<1>3. TakingInv'
  BY DEF PollRecv, IInv, Goto, Active, Taking, SenderInv, TakingInv
<1>4. ValueInv'
  BY DEF PollRecv, IInv, Goto, ValueInv
<1> QED BY <1>1, <1>2, <1>3, <1>4 DEF IInv

LEMMA PollWaitInv ==
  ASSUME IInv, PollWait
  PROVE  IInv'
<1>1. PlaceInv' /\ SenderInv' /\ TakingInv' /\ SentInv' /\ ValueInv' /\ ActiveIsHeld'
  BY OneshotAssumption
     DEF PollWait, IInv, Goto, Active, Taking, RxLabels, PlaceInv, SenderInv,
         TakingInv, SentInv, ValueInv, ActiveIsHeld
<1>2. TypeOK'
  BY DEF PollWait, IInv, Goto, TypeOK, Labels
<1> QED BY <1>1, <1>2 DEF IInv

LEMMA TakeValueInv ==
  ASSUME IInv, TakeValue
  PROVE  IInv'
<1>1. TypeOK' /\ PlaceInv' /\ SenderInv' /\ TakingInv' /\ SentInv' /\ ActiveIsHeld'
  BY OneshotAssumption
     DEF TakeValue, IInv, Goto, NoValue, Active, Taking, RxLabels, PlaceInv,
         SenderInv, TakingInv, SentInv, ActiveIsHeld, TypeOK, Labels
<1>2. ValueInv'
  BY DEF TakeValue, IInv, Goto, Active, Taking, TakingInv, ValueInv, TypeOK
<1> QED BY <1>1, <1>2 DEF IInv

\* No handle is active, so no flag that is overwritten is anybody's.
LEMMA StoreHasRxInv ==
  ASSUME IInv, StoreHasRx
  PROVE  IInv'
<1>1. TypeOK' /\ PlaceInv' /\ SentInv' /\ ValueInv'
  BY OneshotAssumption
     DEF StoreHasRx, IInv, Goto, RxLabels, PlaceInv, SentInv, ValueInv, TypeOK,
         FlagWords, Flags, Labels
<1>2. SenderInv'
  BY DEF StoreHasRx, IInv, Goto, Active, Taking, SenderInv, TakingInv
<1>3. TakingInv'
  BY DEF StoreHasRx, IInv, Goto, Taking, TakingInv, TypeOK
<1>4. ActiveIsHeld'
  BY DEF StoreHasRx, ActiveIsHeld
<1> QED BY <1>1, <1>2, <1>3, <1>4 DEF IInv

\* CLOSED takes the place of the flags an active handle goes by.
LEMMA CloseInv ==
  ASSUME IInv, Close
  PROVE  IInv'
<1>1. TypeOK' /\ PlaceInv' /\ ActiveIsHeld'
  BY OneshotAssumption
     DEF Close, IInv, Goto, RxLabels, PlaceInv, ActiveIsHeld, TypeOK, FlagWords,
         Flags, Labels
<1>2. SenderInv'
  BY DEF Close, IInv, Goto, Active, SenderInv
<1>3. TakingInv'
  BY DEF Close, IInv, Goto, Active, Taking, TakingInv
<1>4. SentInv'
  BY DEF Close, IInv, SentInv
<1>5. ValueInv'
  BY DEF Close, IInv, Goto, ValueInv
<1> QED BY <1>1, <1>2, <1>3, <1>4, <1>5 DEF IInv

\* By SentInv the value stays in the cell.
LEMMA CloseWaitInv ==
  ASSUME IInv, CloseWait
  PROVE  IInv'
<1>1. TypeOK' /\ PlaceInv' /\ SenderInv' /\ TakingInv' /\ ActiveIsHeld'
  BY OneshotAssumption
     DEF CloseWait, IInv, Goto, Active, Taking, RxLabels, PlaceInv, SenderInv,
         TakingInv, SentInv, ActiveIsHeld, TypeOK, Labels
<1>2. SentInv'
  BY DEF CloseWait, IInv, SentInv
<1>3. ValueInv'
  BY DEF CloseWait, IInv, Goto, SentInv, ValueInv
<1> QED BY <1>1, <1>2, <1>3 DEF IInv

(***************************************************************************)
(* A sender's steps.                                                       *)
(***************************************************************************)
LEMMA WriteCellInv ==
  ASSUME NEW t \in Txs, IInv, WriteCell(t)
  PROVE  IInv'
<1>1. TypeOK' /\ PlaceInv' /\ TakingInv' /\ SentInv' /\ ActiveIsHeld'
  BY OneshotAssumption
     DEF WriteCell, IInv, Goto, Active, Taking, TxLabels, PlaceInv, TakingInv,
         SentInv, ActiveIsHeld, TypeOK, Labels
<1>2. SenderInv'
  BY DEF WriteCell, IInv, Goto, Active, SenderInv
<1>3. ValueInv'
  BY DEF WriteCell, IInv, NoValue, ValueInv, TypeOK
<1> QED BY <1>1, <1>2, <1>3 DEF IInv

LEMMA FinishWriteInv ==
  ASSUME NEW t \in Txs, IInv, FinishWrite(t)
  PROVE  IInv'
<1>1. TypeOK' /\ PlaceInv' /\ ActiveIsHeld'
  BY OneshotAssumption
     DEF FinishWrite, IInv, Goto, Active, TxLabels, PlaceInv, SenderInv,
         ActiveIsHeld, TypeOK, FlagWords, Flags, Labels
<1>2. SenderInv'
  BY DEF FinishWrite, IInv, Goto, Active, SenderInv, TypeOK
<1>3. TakingInv'
  BY DEF FinishWrite, IInv, Goto, Active, Taking, TakingInv
<1>4. SentInv'
  BY DEF FinishWrite, IInv, Goto, Active, SenderInv, SentInv
<1>5. ValueInv'
  BY DEF FinishWrite, IInv, ValueInv
<1> QED BY <1>1, <1>2, <1>3, <1>4, <1>5 DEF IInv

LEMMA WakeInv ==
  ASSUME NEW t \in Txs, IInv, Wake(t)
  PROVE  IInv'
<1>1. SenderInv' /\ SentInv' /\ ValueInv' /\ ActiveIsHeld'
  BY DEF Wake, IInv, Active, SenderInv, SentInv, ValueInv, ActiveIsHeld, TypeOK
<1>2. TypeOK'
  BY DEF Wake, IInv, TypeOK, Labels
<1>3. PlaceInv'
  BY DEF Wake, IInv, TxLabels, RxLabels, PlaceInv, TypeOK
<1>4. TakingInv'
  BY DEF Wake, IInv, Active, Taking, TakingInv, TypeOK
<1> QED BY <1>1, <1>2, <1>3, <1>4 DEF IInv

LEMMA TakeBackInv ==
  ASSUME NEW t \in Txs, IInv, TakeBack(t)
  PROVE  IInv'
<1>1. TypeOK' /\ PlaceInv' /\ TakingInv' /\ SentInv' /\ ActiveIsHeld'
  BY OneshotAssumption
     DEF TakeBack, IInv, Goto, NoValue, Active, Taking, TxLabels, PlaceInv,
         TakingInv, SentInv, ActiveIsHeld, TypeOK, Labels
<1>2. SenderInv'
  BY DEF TakeBack, IInv, Goto, Active, SenderInv
<1>3. ValueInv'
  BY DEF TakeBack, IInv, Goto, Active, Taking, SenderInv, TakingInv, ValueInv
<1> QED BY <1>1, <1>2, <1>3 DEF IInv

LEMMA AbandonInv ==
  ASSUME NEW t \in Txs, IInv, Abandon(t)
  PROVE  IInv'
<1>1. TypeOK' /\ PlaceInv' /\ TakingInv' /\ SentInv' /\ ValueInv' /\ ActiveIsHeld'
  BY OneshotAssumption
     DEF Abandon, IInv, Goto, Active, Taking, TxLabels, PlaceInv, TakingInv,
         SentInv, ValueInv, ActiveIsHeld, TypeOK, Labels
<1>2. SenderInv'
  BY DEF Abandon, IInv, Goto, Active, SenderInv
<1> QED BY <1>1, <1>2 DEF IInv

LEMMA DropTxInv ==
  ASSUME NEW t \in Txs, IInv, DropTx(t)
  PROVE  IInv'
<1>1. TypeOK' /\ PlaceInv' /\ TakingInv' /\ ValueInv'
  BY OneshotAssumption
     DEF DropTx, IInv, Goto, Active, Taking, TxLabels, PlaceInv, TakingInv,
         ValueInv, TypeOK, FlagWords, Labels
<1>2. SenderInv'
  BY DEF DropTx, IInv, Goto, Active, SenderInv, TypeOK
<1>3. SentInv'
  BY DEF DropTx, IInv, Goto, Active, SenderInv, SentInv
<1>4. ActiveIsHeld'
  BY DEF DropTx, ActiveIsHeld
<1> QED BY <1>1, <1>2, <1>3, <1>4 DEF IInv

LEMMA NextInv == IInv /\ [Next]_vars => IInv'
<1> SUFFICES ASSUME IInv, [Next]_vars PROVE IInv'
  OBVIOUS
<1>1. CASE Claim \/ IntoErased \/ CallSender \/ CallRecv \/ CancelRecv \/ LetGo \/ Close
  BY <1>1, ClaimInv, QuietInv, CloseInv
<1>2. CASE RxStep
  BY <1>2, TakeSenderInv, QuietInv, PollRecvInv, PollWaitInv, TakeValueInv,
     StoreHasRxInv, CloseWaitInv DEF RxStep
<1>3. ASSUME NEW t \in Txs, WriteCell(t) \/ Abandon(t) \/ TxStep(t) PROVE IInv'
  BY <1>3, WriteCellInv, AbandonInv, FinishWriteInv, WakeInv, TakeBackInv,
     DropTxInv DEF TxStep
<1>4. CASE UNCHANGED vars
  BY <1>4
     DEF vars, IInv, Active, Taking, PlaceInv, SenderInv, TakingInv, SentInv,
         ValueInv, ActiveIsHeld, TypeOK
<1> QED BY <1>1, <1>2, <1>3, <1>4 DEF Next

----------------------------------------------------------------------------
\* Every variable keeps its type; in particular a closed channel has no receiver
\* and an open one has one, whatever handle stores over the flags.
THEOREM TypeCorrect == Spec => []TypeOK
<1>1. IInv => TypeOK
  BY DEF IInv
<1> QED BY <1>1, InitInv, NextInv, PTL DEF Spec

\* The compare-exchange of take_sender and the flags keep every two users of
\* the cell apart, however many handles are made.
THEOREM CellIsExclusive == Spec => []CellExclusive
<1>1. ASSUME IInv PROVE CellExclusive
  <2>1. Writers \subseteq {t \in Txs : Active(t)}
    BY DEF Writers, Active
  <2>2. Writers = {} \/ \E t \in Txs : Writers = {t}
    BY <1>1, <2>1 DEF IInv, SenderInv
  <2>3. Cardinality(Writers) <= 1
    <3>1. CASE Writers = {}
      BY <3>1, FS_EmptySet
    <3>2. ASSUME NEW t \in Txs, Writers = {t} PROVE Cardinality(Writers) = 1
      BY <3>2, FS_Singleton
    <3> QED BY <2>2, <3>1, <3>2
  <2> QED BY <1>1, <2>1, <2>3 DEF CellExclusive, IInv, TakingInv, Taking
<1> QED BY <1>1, InitInv, NextInv, PTL DEF Spec

\* `recv` and an ErasedRecvRef find the last value that was written, also when
\* the channel is closed meanwhile.
THEOREM ValueIsFresh == Spec => []FreshValue
<1>1. IInv => FreshValue
  BY DEF IInv, ValueInv, FreshValue
<1> QED BY <1>1, InitInv, NextInv, PTL DEF Spec

\* HAS_TX without SENT always belongs to a handle that will clear it.
THEOREM ActiveHeld == Spec => []ActiveIsHeld
<1>1. IInv => ActiveIsHeld
  BY DEF IInv
<1> QED BY <1>1, InitInv, NextInv, PTL DEF Spec

\* close drops no value: it finds SENT only with HAS_TX, which a send leaves
\* set, so that the branch for a value that was not received is never taken.
THEOREM CloseDropsNothing == Spec => [][CloseWait => UNCHANGED cell]_vars
<1>1. ASSUME IInv, [Next]_vars PROVE [CloseWait => UNCHANGED cell]_vars
  BY <1>1 DEF IInv, SentInv, CloseWait
<1> QED BY <1>1, InitInv, NextInv, PTL DEF Spec

\* CLOSED is cleared by nothing but the store of an ErasedRecvRef that outlives
\* the close.
THEOREM CloseIsFinal == Spec => ClosedIsFinal
<1> DEFINE Stays == "CLOSED" \in state =>
                      "CLOSED" \in state' \/ (erased /\ at[Rx] = "store")
<1>1. ASSUME IInv, [Next]_vars PROVE [Stays]_vars
  <2> USE <1>1
  <2>1. CASE Claim \/ IntoErased \/ CallSender \/ CallRecv \/ CancelRecv \/ LetGo \/ Close
    BY <2>1 DEF Claim, IntoErased, CallSender, CallRecv, CancelRecv, LetGo, Close
  <2>2. CASE (\E t \in Txs : TakeSender(t)) \/ TakeSenderFails \/ Decide
    BY <2>2 DEF TakeSender, Available, TakeSenderFails, Decide
  <2>3. CASE PollRecv \/ PollWait \/ TakeValue \/ CloseWait
    BY <2>3 DEF PollRecv, PollWait, TakeValue, CloseWait
  <2>4. CASE StoreHasRx
    BY <2>4 DEF IInv, TakingInv, StoreHasRx
  <2>5. ASSUME NEW t \in Txs, WriteCell(t) \/ Abandon(t) \/ TxStep(t) PROVE Stays
    BY <2>5 DEF WriteCell, Abandon, TxStep, FinishWrite, Wake, TakeBack, DropTx
  <2> QED BY <2>1, <2>2, <2>3, <2>4, <2>5 DEF Next, RxStep
<1> QED BY <1>1, InitInv, NextInv, PTL DEF Spec, ClosedIsFinal

----------------------------------------------------------------------------
\* A receiver that waits or is about to has set RX_WAITING.  When the value is
\* there nevertheless, its sender saw the flag and has yet to wake the receiver,
\* or has left a wakeup that the receiver has yet to find.
WakerInv ==
  /\ at[Rx] \in {"poll_wait", "parked"} =>
       "RX_WAITING" \in state /\ "CLOSED" \notin state
  /\ /\ "SENT" \in state
     /\ at[Rx] = "parked" \/ (at[Rx] = "poll_wait" /\ ~wait.woken)
     => \E t \in Txs : at[t] = "wake"

LEMMA NextWaker ==
  ASSUME IInv, WakerInv, [Next]_vars
  PROVE  WakerInv'
<1> USE OneshotAssumption DEF WakerInv, Goto
<1>1. at \in [Txs \cup {Rx} -> Labels] /\ wait \in [woken : BOOLEAN, closed : BOOLEAN]
  BY DEF IInv, TypeOK
<1>2. CASE Claim \/ IntoErased \/ CallSender \/ CallRecv \/ CancelRecv \/ LetGo \/ Close
  BY <1>1, <1>2 DEF Claim, IntoErased, CallSender, CallRecv, CancelRecv, LetGo, Close
<1>3. CASE (\E t \in Txs : TakeSender(t)) \/ TakeSenderFails \/ Decide
  BY <1>1, <1>3 DEF TakeSender, TakeSenderFails, Decide
<1>4. CASE PollRecv
  BY <1>1, <1>4 DEF PollRecv
<1>5. CASE PollWait
  BY <1>1, <1>5 DEF PollWait
<1>6. CASE TakeValue \/ StoreHasRx \/ CloseWait
  BY <1>1, <1>6 DEF TakeValue, StoreHasRx, CloseWait
<1>7. ASSUME NEW t \in Txs, WriteCell(t) \/ Abandon(t) \/ TakeBack(t) \/ DropTx(t)
      PROVE  WakerInv'
  BY <1>1, <1>7 DEF WriteCell, Abandon, TakeBack, DropTx
<1>8. ASSUME NEW t \in Txs, FinishWrite(t) PROVE WakerInv'
  BY <1>1, <1>8 DEF FinishWrite
<1>9. ASSUME NEW t \in Txs, Wake(t) PROVE WakerInv'
  BY <1>1, <1>9 DEF Wake
<1>10. CASE UNCHANGED vars
  BY <1>10 DEF vars
<1> QED BY <1>2, <1>3, <1>4, <1>5, <1>6, <1>7, <1>8, <1>9, <1>10
           DEF Next, RxStep, TxStep

\* A send loses no wakeup: as long as `recv` is parked with the value in the
\* cell, the sender has yet to wake it.
THEOREM SentReceiverIsWoken == Spec => []SentHasWaker
<1>1. Init => WakerInv
  BY OneshotAssumption DEF Init, WakerInv
<1>2. WakerInv => SentHasWaker
  BY DEF WakerInv, SentHasWaker
<1> QED BY <1>1, <1>2, InitInv, NextInv, NextWaker, PTL DEF Spec
=============================================================================
