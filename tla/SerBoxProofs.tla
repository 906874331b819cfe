---------------------------- MODULE SerBoxProofs ----------------------------
(***************************************************************************)
(* When no Sharer goes or comes in the middle of a Consumer's drop, the    *)
(* flags of the shared box make one handle responsible for the value and   *)
(* one for the memory, for every set of Consumer handles and any number of *)
(* values.                                                                 *)
(***************************************************************************)
EXTENDS SerBox, FiniteSetTheorems, TLAPS

\* A Consumer of the value that is in the box, or about to be written there or
\* just dropped: HAS_DATA is set for it while there is a Sharer.
Current(c) == at[c] \in {"made", "held", "drop_data", "clear_data"}

\* The Sharer exists.
Sharing == at[Sharer] \in {"idle", "try_share", "write", "wait", "parked"}

\* Each handle is at an access of its own code; a Sharer that is dropped never
\* finds a value to drop.
PlaceInv ==
  /\ Sharing \/ at[Sharer] \in {"gone", "drop_shared"}
  /\ \A c \in Consumers :
       Current(c) \/ at[c] \in {"gone", "wake", "drop_shared"}

\* What the flags say.
FlagInv ==
  /\ "HAS_SHARER" \in state <=> Sharing
  /\ "HAS_CONSUMER" \in state <=> \E c \in Consumers : at[c] \in {"made", "held"}
  /\ "HAS_DATA" \in state <=> Sharing /\ \E c \in Consumers : Current(c)

\* There is one value and one Consumer of it, which is made when the Sharer is
\* about to write.
ValueInv ==
  /\ \A c, d \in Consumers : Current(c) /\ Current(d) => c = d
  /\ at[Sharer] = "write" <=> \E c \in Consumers : at[c] = "made"
  /\ data # NoValue <=> \E c \in Consumers : at[c] \in {"held", "drop_data"}
  /\ at[Sharer] \in {"try_share", "write", "wait", "parked"} => shares < MaxShares

\* The memory is given back by the last handle: a Consumer whose Sharer is gone
\* is the only handle left, and so is a handle that frees the box.
MemoryInv ==
  /\ \A c \in Consumers : at[c] # "gone" /\ ~Sharing =>
       /\ at[Sharer] = "gone"
       /\ \A d \in Consumers : d # c => at[d] = "gone"
  /\ \A c \in Consumers : at[c] = "wake" => Sharing
  /\ \A c \in Consumers : at[c] = "drop_shared" => ~Sharing
  /\ freed <=> drop_shared = "drop_box" /\ \A p \in DOMAIN at : at[p] = "gone"

\* The inductive invariant.
IInv == TypeOK /\ PlaceInv /\ FlagInv /\ ValueInv /\ MemoryInv

----------------------------------------------------------------------------
LEMMA InitInv == Init => IInv
<1> SUFFICES ASSUME Init PROVE IInv
  OBVIOUS
<1>1. at \in [Consumers \cup {Sharer} -> Labels]
  BY DEF Init, Labels
<1>2. state \in FlagWords
  BY DEF Init, FlagWords, Flags
<1>3. freed \in BOOLEAN /\ sharer_ready \in BOOLEAN
  BY DEF Init
<1>4. data \in 0 .. MaxShares /\ shares \in 0 .. MaxShares
  BY SerBoxAssumption DEF Init, NoValue
<1>5. TypeOK
  BY <1>1, <1>2, <1>4 DEF TypeOK, Init
<1>6. PlaceInv /\ FlagInv /\ ValueInv
  BY SerBoxAssumption DEF Init, PlaceInv, FlagInv, ValueInv, Current, Sharing
<1>7. MemoryInv
  BY SerBoxAssumption DEF Init, MemoryInv
<1> QED BY <1>5, <1>6, <1>7 DEF IInv

\* The steps of the Sharer that touch neither the flags nor the value.
LEMMA QuietInv ==
  ASSUME IInv, CallShare \/ CancelShare \/ BoxInUse \/ Wait
  PROVE  IInv'
<1>1. CASE CallShare
  BY <1>1
     DEF CallShare, IInv, Goto, Current, Sharing, PlaceInv, FlagInv, ValueInv,
         MemoryInv, TypeOK, Labels
<1>2. CASE CancelShare
  BY <1>2
     DEF CancelShare, IInv, Goto, Current, Sharing, PlaceInv, FlagInv, ValueInv,
         MemoryInv, TypeOK, Labels
<1>3. CASE BoxInUse
  BY <1>3
     DEF BoxInUse, IInv, Goto, Current, Sharing, PlaceInv, FlagInv, ValueInv,
         MemoryInv, TypeOK, Labels
<1>4. CASE Wait
  BY <1>4
     DEF Wait, IInv, Goto, Current, Sharing, PlaceInv, FlagInv, ValueInv,
         MemoryInv, TypeOK, Labels
<1> QED BY <1>1, <1>2, <1>3, <1>4

\* The compare-exchange finds HAS_SHARER alone: the last value is gone.
LEMMA TakeBoxInv ==
  ASSUME NEW c \in Consumers, IInv, TakeBox(c)
  PROVE  IInv'
<1>1. TypeOK' /\ PlaceInv'
  BY DEF TakeBox, IInv, Vacant, Current, Sharing, PlaceInv, TypeOK, FlagWords,
         SHARED, Labels
<1>2. FlagInv'
  BY DEF TakeBox, IInv, Current, Sharing, FlagInv, TypeOK, Flags, SHARED
<1>3. ValueInv'
  BY DEF TakeBox, IInv, Vacant, Current, FlagInv, ValueInv, TypeOK
<1>4. MemoryInv'
  BY DEF TakeBox, IInv, Sharing, MemoryInv, TypeOK
<1> QED BY <1>1, <1>2, <1>3, <1>4 DEF IInv

LEMMA WriteDataInv ==
  ASSUME IInv, WriteData
  PROVE  IInv'
<1>1. TypeOK' /\ PlaceInv'
  BY SerBoxAssumption
     DEF WriteData, IInv, Current, Sharing, PlaceInv, ValueInv, TypeOK, Labels
<1>2. FlagInv'
  BY DEF WriteData, IInv, Current, Sharing, FlagInv, TypeOK
<1>3. ValueInv'
  BY DEF WriteData, IInv, NoValue, Current, ValueInv, TypeOK, Flags
<1>4. MemoryInv'
  BY DEF WriteData, IInv, Sharing, MemoryInv, TypeOK
<1> QED BY <1>1, <1>2, <1>3, <1>4 DEF IInv

\* No Consumer is dropping, so HAS_DATA comes with HAS_CONSUMER: the Consumer
\* that holds the value is left alone with the box, or there is none.
LEMMA DropSharerInv ==
  ASSUME ~Overlap, IInv, DropSharer
  PROVE  IInv'
<1>1. TypeOK' /\ PlaceInv'
  BY DEF DropSharer, IInv, Goto, Calm, Dropping, Current, PlaceInv, FlagInv,
         TypeOK, FlagWords, Labels
<1>2. FlagInv'
  BY DEF DropSharer, IInv, Goto, Sharing, FlagInv, TypeOK
<1>3. ValueInv'
  BY SerBoxAssumption DEF DropSharer, IInv, Goto, Current, ValueInv
<1>4. MemoryInv'
  BY DEF DropSharer, IInv, Goto, Calm, Dropping, Current, PlaceInv, FlagInv,
         ValueInv, MemoryInv, TypeOK
<1> QED BY <1>1, <1>2, <1>3, <1>4 DEF IInv

\* A static box is taken again when all handles are gone.
LEMMA StaticSharerInv ==
  ASSUME ~Overlap, IInv, StaticSharer
  PROVE  IInv'
<1>1. TypeOK' /\ PlaceInv' /\ ValueInv'
  BY SerBoxAssumption
     DEF StaticSharer, IInv, Goto, Current, Sharing, PlaceInv, ValueInv, TypeOK,
         FlagWords, Flags, Labels
<1>2. FlagInv'
  BY DEF StaticSharer, IInv, Goto, Calm, Dropping, Current, Sharing, FlagInv,
         TypeOK
<1>3. MemoryInv'
  BY DEF StaticSharer, IInv, Goto, Calm, Dropping, Sharing, MemoryInv
<1> QED BY <1>1, <1>2, <1>3 DEF IInv

LEMMA DropConsumerInv ==
  ASSUME NEW c \in Consumers, IInv, DropConsumer(c)
  PROVE  IInv'
<1>1. TypeOK' /\ PlaceInv'
  BY DEF DropConsumer, IInv, Goto, Current, Sharing, PlaceInv, TypeOK,
         FlagWords, Labels
<1>2. FlagInv'
  BY DEF DropConsumer, IInv, Goto, Current, Sharing, FlagInv, ValueInv, TypeOK
<1>3. ValueInv'
  BY DEF DropConsumer, IInv, Goto, Current, ValueInv
<1>4. MemoryInv'
  BY DEF DropConsumer, IInv, Goto, Sharing, MemoryInv
<1> QED BY <1>1, <1>2, <1>3, <1>4 DEF IInv

LEMMA DropDataInv ==
  ASSUME NEW p \in Consumers \cup {Sharer}, IInv, DropData(p)
  PROVE  IInv'
<1>1. TypeOK' /\ PlaceInv'
  BY SerBoxAssumption
     DEF DropData, IInv, Goto, NoValue, Current, Sharing, PlaceInv, TypeOK,
         Labels
<1>2. FlagInv'
  BY DEF DropData, IInv, Goto, Current, Sharing, FlagInv
<1>3. ValueInv'
  BY DEF DropData, IInv, Goto, Current, Sharing, PlaceInv, ValueInv, TypeOK
<1>4. MemoryInv'
  BY DEF DropData, IInv, Goto, Sharing, MemoryInv
<1> QED BY <1>1, <1>2, <1>3, <1>4 DEF IInv

\* The Consumer finds a Sharer to wake, or it is the last handle.
LEMMA ClearDataInv ==
  ASSUME NEW c \in Consumers, IInv, ClearData(c)
  PROVE  IInv'
<1>1. TypeOK' /\ PlaceInv'
  BY DEF ClearData, IInv, Goto, Current, Sharing, PlaceInv, TypeOK, FlagWords,
         Labels
<1>2. FlagInv'
  BY DEF ClearData, IInv, Goto, Current, Sharing, FlagInv, ValueInv, TypeOK
<1>3. ValueInv'
  BY DEF ClearData, IInv, Goto, Current, ValueInv
<1>4. MemoryInv'
  BY DEF ClearData, IInv, Goto, Sharing, FlagInv, MemoryInv
<1> QED BY <1>1, <1>2, <1>3, <1>4 DEF IInv

LEMMA WakeInv ==
  ASSUME NEW c \in Consumers, IInv, Wake(c)
  PROVE  IInv'
<1>1. TypeOK' /\ PlaceInv' /\ ValueInv'
  BY DEF Wake, IInv, Current, Sharing, PlaceInv, ValueInv, TypeOK, Labels
<1>2. FlagInv'
  BY DEF Wake, IInv, Current, Sharing, FlagInv, TypeOK
<1>3. MemoryInv'
  BY DEF Wake, IInv, Sharing, MemoryInv, TypeOK
<1> QED BY <1>1, <1>2, <1>3 DEF IInv

LEMMA DropSharedInv ==
  ASSUME NEW p \in Consumers \cup {Sharer}, IInv, DropShared(p)
  PROVE  IInv'
<1>1. TypeOK' /\ PlaceInv' /\ ValueInv'
  BY DEF DropShared, IInv, Goto, Current, Sharing, PlaceInv, FlagInv, ValueInv,
         MemoryInv, TypeOK, FlagWords, Labels
<1>2. FlagInv'
  BY DEF DropShared, IInv, Goto, Sharing, FlagInv, MemoryInv
<1>3. MemoryInv'
  BY DEF DropShared, IInv, Goto, Sharing, MemoryInv, TypeOK
<1> QED BY <1>1, <1>2, <1>3 DEF IInv

LEMMA NextInv ==
  ASSUME ~Overlap
  PROVE  IInv /\ [Next]_vars => IInv'
<1> SUFFICES ASSUME IInv, [Next]_vars PROVE IInv'
  OBVIOUS
<1>1. CASE CallShare \/ CancelShare \/ DropSharer \/ StaticSharer
  BY <1>1, QuietInv, DropSharerInv, StaticSharerInv
<1>2. CASE SharerStep
  BY <1>2, TakeBoxInv, WriteDataInv, QuietInv DEF SharerStep
<1>3. ASSUME NEW c \in Consumers, DropConsumer(c) PROVE IInv'
  BY <1>3, DropConsumerInv
<1>4. ASSUME NEW p \in Consumers \cup {Sharer}, DropStep(p) PROVE IInv'
  BY <1>4, DropDataInv, DropSharedInv, ClearDataInv, WakeInv DEF DropStep
<1>5. CASE UNCHANGED vars
  BY <1>5
     DEF vars, IInv, TypeOK, PlaceInv, FlagInv, ValueInv, MemoryInv, Current,
         Sharing
<1> QED BY <1>1, <1>2, <1>3, <1>4, <1>5 DEF Next

----------------------------------------------------------------------------
\* Every variable keeps its type, and HAS_DATA is not set without HAS_SHARER.
THEOREM TypeCorrect ==
  ASSUME ~Overlap
  PROVE  Spec => []TypeOK
<1>1. IInv => TypeOK
  BY DEF IInv
<1> QED BY <1>1, InitInv, NextInv, PTL DEF Spec

\* Without a Sharer that goes in the middle of a Consumer's drop, each value is
\* dropped by one handle and before the box is freed, and no handle touches a
\* box that was freed.
THEOREM ValueDroppedOnce ==
  ASSUME ~Overlap
  PROVE  Spec => []DroppedOnce
<1>1. ASSUME IInv PROVE DroppedOnce
  <2> DEFINE Users == {p \in DOMAIN at : at[p] \in {"held", "drop_data"}}
  <2>1. DOMAIN at = Consumers \cup {Sharer} /\ at[Sharer] \notin {"held", "drop_data"}
    BY <1>1 DEF IInv, TypeOK, PlaceInv, Sharing
  <2>2. Users = {} \/ \E c \in Consumers : Users = {c}
    BY <1>1, <2>1 DEF IInv, ValueInv, Current
  <2>3. Cardinality(Users) <= 1
    <3>1. CASE Users = {}
      BY <3>1, FS_EmptySet
    <3>2. ASSUME NEW c \in Consumers, Users = {c} PROVE Cardinality(Users) = 1
      BY <3>2, FS_Singleton
    <3> QED BY <2>2, <3>1, <3>2
  <2>4. \A p \in DOMAIN at : at[p] \in {"held", "drop_data"} => data # NoValue
    BY <1>1, <2>1 DEF IInv, ValueInv
  <2>5. \A p \in DOMAIN at : at[p] # "gone" => ~freed
    BY <1>1 DEF IInv, MemoryInv
  <2>6. at[Sharer] = "write" \/ freed => data = NoValue
    BY <1>1, <2>1 DEF IInv, ValueInv, MemoryInv, Current
  <2> QED BY <2>3, <2>4, <2>5, <2>6 DEF DroppedOnce
<1> QED BY <1>1, InitInv, NextInv, PTL DEF Spec

\* The last handle leaves an empty box, and gives it back.
THEOREM NothingLeaks ==
  ASSUME ~Overlap
  PROVE  Spec => []NoLeak
<1>1. ASSUME IInv PROVE NoLeak
  BY <1>1
     DEF IInv, TypeOK, FlagWords, Flags, FlagInv, ValueInv, MemoryInv, Sharing,
         NoLeak
<1> QED BY <1>1, InitInv, NextInv, PTL DEF Spec

----------------------------------------------------------------------------
\* A Sharer that waits, or is about to and finds no wakeup stored, has a Consumer
\* that will come to its wakeup.
WakerInv ==
  at[Sharer] = "parked" \/ (at[Sharer] = "wait" /\ ~sharer_ready) =>
    \E c \in Consumers : at[c] \in {"held", "drop_data", "clear_data", "wake"}

\* The flags that keep the Sharer from the box are those of such a Consumer.
LEMMA SharerWaker ==
  ASSUME IInv, WakerInv, [Next]_vars
  PROVE  WakerInv'
<1> USE SerBoxAssumption DEF WakerInv, Goto
<1>1. at \in [Consumers \cup {Sharer} -> Labels]
  BY DEF IInv, TypeOK
<1>2. CASE CallShare \/ CancelShare \/ DropSharer \/ StaticSharer
  BY <1>1, <1>2 DEF CallShare, CancelShare, DropSharer, StaticSharer
<1>3. CASE BoxInUse
  <2>1. state # {"HAS_SHARER"} /\ at[Sharer] = "try_share"
    BY <1>3 DEF BoxInUse, Vacant
  <2>2. \E c \in Consumers : Current(c)
    BY <2>1 DEF IInv, TypeOK, FlagWords, Flags, FlagInv, Sharing, Current
  <2>3. \E c \in Consumers : at[c] \in {"held", "drop_data", "clear_data"}
    BY <2>1, <2>2 DEF IInv, ValueInv, Current
  <2> QED BY <1>1, <1>3, <2>3 DEF BoxInUse
<1>4. CASE Wait
  BY <1>1, <1>4 DEF Wait
<1>5. CASE WriteData \/ \E c \in Consumers : TakeBox(c)
  BY <1>1, <1>5 DEF WriteData, TakeBox
<1>6. ASSUME NEW c \in Consumers, DropConsumer(c) PROVE WakerInv'
  BY <1>1, <1>6 DEF DropConsumer
<1>7. ASSUME NEW p \in Consumers \cup {Sharer}, DropData(p) \/ DropShared(p)
      PROVE  WakerInv'
  BY <1>1, <1>7 DEF DropData, DropShared
<1>8. ASSUME NEW c \in Consumers, ClearData(c) PROVE WakerInv'
  BY <1>1, <1>8 DEF ClearData, IInv, FlagInv, Sharing
<1>9. ASSUME NEW c \in Consumers, Wake(c) PROVE WakerInv'
  BY <1>1, <1>9 DEF Wake
<1>10. CASE UNCHANGED vars
  BY <1>10 DEF vars
<1> QED BY <1>2, <1>3, <1>4, <1>5, <1>6, <1>7, <1>8, <1>9, <1>10
           DEF Next, SharerStep, DropStep

\* `share` loses no wakeup: as long as the Sharer is parked some Consumer has
\* yet to wake it.
THEOREM ParkedSharerIsWoken ==
  ASSUME ~Overlap
  PROVE  Spec => []SharerHasWaker
<1>1. Init => WakerInv
  BY DEF Init, WakerInv
<1>2. WakerInv => SharerHasWaker
  BY DEF WakerInv, SharerHasWaker
<1> QED BY <1>1, <1>2, InitInv, NextInv, SharerWaker, PTL DEF Spec
=============================================================================
