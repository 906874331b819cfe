------------------------------- MODULE SerBox -------------------------------
(***************************************************************************)
(* The reusable shared box (tricky-pipe, serbox.rs): a Sharer stores a     *)
(* value in it and makes a Consumer, which serializes the value and drops  *)
(* it.  Calliope's Connector hands the hello of a connection to the        *)
(* machine in one.  Three flags decide which handle drops the value and    *)
(* which one gives the memory back.                                        *)
(*                                                                         *)
(* A step is one access to the flags, the value, the WaitCell or the       *)
(* allocator.  Values are numbered in the order in which they are shared.  *)
(***************************************************************************)
EXTENDS Integers, FiniteSets

CONSTANTS
  Sharer,     \* the Sharer
  Consumers,  \* Consumer handles; one that is gone may be made anew
  Overlap,    \* whether a Sharer may be dropped, or made of a static box, in
              \* the middle of a Consumer's drop; on one thread it cannot
  MaxShares   \* bound: values shared

ASSUME SerBoxAssumption ==
  /\ Sharer \notin Consumers
  /\ Overlap \in BOOLEAN
  /\ MaxShares \in Nat

Flags == {"HAS_SHARER", "HAS_DATA", "HAS_CONSUMER"}
SHARED == Flags
NoValue == 0

VARIABLES
  state,         \* the flags that are set
  data,          \* number of the value in the box, NoValue when there is none
  drop_shared,   \* how the memory goes back: "drop_box" or "drop_static"
  freed,         \* whether a heap box was deallocated
  sharer_ready,  \* WaitCell: woken; the waker is the Sharer's when it is parked
  at,            \* at[p]: the access handle p makes next
  shares         \* values shared

vars == <<state, data, drop_shared, freed, sharer_ready, at, shares>>

Goto(p, l) == at' = [at EXCEPT ![p] = l]

\* SerBox::new, then `sharer` or `static_sharer`.
Init ==
  /\ state = {"HAS_SHARER"}
  /\ data = NoValue
  /\ drop_shared \in {"drop_box", "drop_static"}
  /\ freed = FALSE
  /\ sharer_ready = FALSE
  /\ at = [p \in Consumers \cup {Sharer} |-> IF p = Sharer THEN "idle" ELSE "gone"]
  /\ shares = 0

\* A Consumer that has begun to drop and has not ended.
Dropping(c) == at[c] \in {"drop_data", "clear_data", "wake", "drop_shared"}

Calm == Overlap \/ \A c \in Consumers : ~Dropping(c)

----------------------------------------------------------------------------
(***************************************************************************)
(* The Sharer: share, try_share, drop.                                     *)
(***************************************************************************)
CallShare ==
  /\ at[Sharer] = "idle"
  /\ shares < MaxShares
  /\ Goto(Sharer, "try_share")
  /\ UNCHANGED <<state, data, drop_shared, freed, sharer_ready, shares>>

\* Mutant of Vacant: the box is taken while a Consumer is dropping its value.
VacantEarly == state \cap {"HAS_SHARER", "HAS_CONSUMER"} = {"HAS_SHARER"}

\* The compare-exchange of try_share succeeds.
Vacant == state = {"HAS_SHARER"}

TakeBox(c) ==
  /\ at[Sharer] = "try_share"
  /\ Vacant
  /\ at[c] = "gone"
  /\ state' = SHARED
  /\ at' = [at EXCEPT ![Sharer] = "write", ![c] = "made"]
  /\ UNCHANGED <<data, drop_shared, freed, sharer_ready, shares>>

WriteData ==
  /\ at[Sharer] = "write"
  /\ data' = shares + 1
  /\ shares' = shares + 1
  /\ at' = [p \in DOMAIN at |-> CASE p = Sharer -> "idle"
                                  [] p # Sharer /\ at[p] = "made" -> "held"
                                  [] OTHER -> at[p]]
  /\ UNCHANGED <<state, drop_shared, freed, sharer_ready>>

\* The box is in use: `share` waits, `try_share` returns the value.
BoxInUse ==
  /\ at[Sharer] = "try_share"
  /\ ~Vacant
  /\ Goto(Sharer, "wait") \/ Goto(Sharer, "idle")
  /\ UNCHANGED <<state, data, drop_shared, freed, sharer_ready, shares>>

\* sharer_ready.wait(): another round when woken, else the waker is stored.
Wait ==
  /\ at[Sharer] = "wait"
  /\ sharer_ready' = FALSE
  /\ Goto(Sharer, IF sharer_ready THEN "try_share" ELSE "parked")
  /\ UNCHANGED <<state, data, drop_shared, freed, shares>>

\* The future of `share` is dropped.
CancelShare ==
  /\ at[Sharer] = "parked"
  /\ Goto(Sharer, "idle")
  /\ UNCHANGED <<state, data, drop_shared, freed, sharer_ready, shares>>

\* Mutant of DropSharer: the memory is left to a Consumer, if there is one or
\* not.
DropSharerLeaks ==
  /\ at[Sharer] = "idle"
  /\ Calm
  /\ state' = state \ {"HAS_SHARER", "HAS_DATA"}
  /\ Goto(Sharer, "gone")
  /\ UNCHANGED <<data, drop_shared, freed, sharer_ready, shares>>

\* Mutant of DropSharer: HAS_DATA stays.
DropSharerKeepsData ==
  /\ at[Sharer] = "idle"
  /\ Calm
  /\ state' = state \ {"HAS_SHARER"}
  /\ Goto(Sharer, IF "HAS_CONSUMER" \in state THEN "gone" ELSE "drop_shared")
  /\ UNCHANGED <<data, drop_shared, freed, sharer_ready, shares>>

\* Sharer::drop.  Without a Consumer the Sharer drops the value, if the flags
\* say that there is one, and gives the memory back.
DropSharer ==
  /\ at[Sharer] = "idle"
  /\ Calm
  /\ state' = state \ {"HAS_SHARER", "HAS_DATA"}
  /\ Goto(Sharer, CASE "HAS_CONSUMER" \in state -> "gone"
                    [] state \cap {"HAS_CONSUMER", "HAS_DATA"} = {"HAS_DATA"} ->
                         "drop_data"
                    [] OTHER -> "drop_shared")
  /\ UNCHANGED <<data, drop_shared, freed, sharer_ready, shares>>

\* static_sharer, of a static box whose Sharer and Consumer are gone.
StaticSharer ==
  /\ drop_shared = "drop_static"
  /\ at[Sharer] = "gone"
  /\ Calm
  /\ state = {}
  /\ state' = {"HAS_SHARER"}
  /\ Goto(Sharer, "idle")
  /\ UNCHANGED <<data, drop_shared, freed, sharer_ready, shares>>

----------------------------------------------------------------------------
(***************************************************************************)
(* A Consumer is dropped: HAS_CONSUMER goes, then the value, then          *)
(* HAS_DATA; then a Sharer is woken or the memory given back.              *)
(***************************************************************************)
DropConsumer(c) ==
  /\ at[c] = "held"
  /\ state' = state \ {"HAS_CONSUMER"}
  /\ Goto(c, "drop_data")
  /\ UNCHANGED <<data, drop_shared, freed, sharer_ready, shares>>

\* vtable.drop_data in a Consumer, drop_in_place in the Sharer.
DropData(p) ==
  /\ at[p] = "drop_data"
  /\ data' = NoValue
  /\ Goto(p, IF p = Sharer THEN "drop_shared" ELSE "clear_data")
  /\ UNCHANGED <<state, drop_shared, freed, sharer_ready, shares>>

ClearData(c) ==
  /\ at[c] = "clear_data"
  /\ state' = state \ {"HAS_DATA"}
  /\ Goto(c, IF "HAS_SHARER" \in state THEN "wake" ELSE "drop_shared")
  /\ UNCHANGED <<data, drop_shared, freed, sharer_ready, shares>>

\* Mutant of Wake: a parked Sharer is not woken.
WakeForgets(c) ==
  /\ at[c] = "wake"
  /\ Goto(c, "gone")
  /\ UNCHANGED <<state, data, drop_shared, freed, sharer_ready, shares>>

Wake(c) ==
  /\ at[c] = "wake"
  /\ sharer_ready' = TRUE
  /\ at' = [at EXCEPT ![c] = "gone",
                      ![Sharer] = IF @ = "parked" THEN "try_share" ELSE @]
  /\ UNCHANGED <<state, data, drop_shared, freed, shares>>

\* drop_box deallocates, drop_static clears HAS_SHARER.
DropShared(p) ==
  /\ at[p] = "drop_shared"
  /\ IF drop_shared = "drop_box"
     THEN freed' = TRUE /\ UNCHANGED state
     ELSE state' = state \ {"HAS_SHARER"} /\ UNCHANGED freed
  /\ Goto(p, "gone")
  /\ UNCHANGED <<data, drop_shared, sharer_ready, shares>>

----------------------------------------------------------------------------
\* What a handle does once its call has started.
SharerStep ==
  \/ \E c \in Consumers : TakeBox(c)
  \/ WriteData \/ BoxInUse \/ Wait

DropStep(p) ==
  \/ DropData(p) \/ DropShared(p)
  \/ p \in Consumers /\ (ClearData(p) \/ Wake(p))

Next ==
  \/ CallShare \/ CancelShare \/ DropSharer \/ StaticSharer \/ SharerStep
  \/ \E c \in Consumers : DropConsumer(c)
  \/ \E p \in Consumers \cup {Sharer} : DropStep(p)

Spec == Init /\ [][Next]_vars

\* A call and a drop that have started run on; nothing obliges anyone to start.
FairSpec ==
  /\ Spec
  /\ WF_vars(SharerStep)
  /\ \A p \in Consumers \cup {Sharer} : WF_vars(DropStep(p))

----------------------------------------------------------------------------
\* The words of flags: a Sharer that goes takes HAS_DATA with it.
FlagWords == {w \in SUBSET Flags : "HAS_DATA" \in w => "HAS_SHARER" \in w}

Labels ==
  {"idle", "try_share", "write", "wait", "parked", "gone", "made", "held",
   "drop_data", "clear_data", "wake", "drop_shared"}

\* Every variable has its type; HAS_DATA is not set without HAS_SHARER.
TypeOK ==
  /\ state \in FlagWords
  /\ data \in 0 .. MaxShares /\ shares \in 0 .. MaxShares
  /\ drop_shared \in {"drop_box", "drop_static"}
  /\ freed \in BOOLEAN /\ sharer_ready \in BOOLEAN
  /\ at \in [Consumers \cup {Sharer} -> Labels]

\* A handle that is about to use the value finds one, a handle that is about to
\* touch the box finds it allocated, and no value is overwritten or freed with
\* the box: the flags of share, Consumer::drop and Sharer::drop make one handle
\* at a time responsible for each.
DroppedOnce ==
  /\ \A p \in DOMAIN at :
       /\ at[p] \in {"held", "drop_data"} => data # NoValue
       /\ at[p] # "gone" => ~freed
  /\ Cardinality({p \in DOMAIN at : at[p] \in {"held", "drop_data"}}) <= 1
  /\ at[Sharer] = "write" \/ freed => data = NoValue

\* When the Sharer and its Consumers are gone the box is empty, and it was
\* deallocated, or static_sharer can take it again.
NoLeak ==
  (\A p \in DOMAIN at : at[p] = "gone") =>
    /\ data = NoValue
    /\ IF drop_shared = "drop_box" THEN freed ELSE state = {}

\* A Sharer that is parked in `share` has a Consumer that has yet to be dropped
\* or to finish its drop, and that will wake it.
SharerHasWaker ==
  at[Sharer] = "parked" =>
    \E c \in Consumers : at[c] \in {"held", "drop_data", "clear_data", "wake"}

\* "will wait until that consumer has been dropped": a Consumer's drop ends the
\* wait of `share`, whichever of the flags and the two halves of the WaitCell
\* comes first.
ConsumerWakes ==
  \A c \in Consumers :
    Dropping(c) /\ at[Sharer] \in {"wait", "parked"}
      ~> at[Sharer] \notin {"wait", "parked"}
=============================================================================
