----------------------------- MODULE ConnTable -----------------------------
(***************************************************************************)
(* The connection table of a Calliope interface (conn_table.rs): a fixed   *)
(* array of entries whose free slots form a linked list threaded through   *)
(* the entries themselves.  `next_id` heads the list, an entry closed by   *)
(* `remove` stores the previous head, and the list ends at the first entry *)
(* that was never used.                                                    *)
(*                                                                         *)
(* A table is a record, so that the modules composing several interfaces   *)
(* hold one per peer; the methods that change it are operators from tables *)
(* to tables.                                                              *)
(***************************************************************************)
EXTENDS Integers, FiniteSets

CONSTANTS
  CAPACITY,   \* the const generic of ConnTable: how many connections it holds
  IdMax       \* the largest connection ID, u16::MAX in the code

ASSUME CapacityAssumption ==
  /\ CAPACITY \in Nat \ {0}
  /\ IdMax \in Nat
  /\ CAPACITY < IdMax

\* IDs of the entries; `to_index` and `from_index` shift them by one because
\* ID 0 is the link-control channel.
Ids == 1 .. CAPACITY

\* `None` of Option<Id>: Id wraps a NonZeroU16.
NoId == 0

(***************************************************************************)
(* Entries.  An occupied entry holds a socket: the endpoint whose channel  *)
(* it owns, and the remote's ID once the connection is open.               *)
(***************************************************************************)
Unused == [tag |-> "Unused"]
Closed(next) == [tag |-> "Closed", next |-> next]
Connecting(chan) == [tag |-> "Connecting", chan |-> chan]
Open(remote_id, chan) ==
  [tag |-> "Open", remote_id |-> remote_id, chan |-> chan]

Occupied(entry) == entry.tag \in {"Connecting", "Open"}

Entries(C) ==
  {Unused} \cup [tag : {"Closed"}, next : 1 .. CAPACITY + 1]
           \cup [tag : {"Connecting"}, chan : C]
           \cup [tag : {"Open"}, remote_id : Ids, chan : C]

\* Tables whose sockets own channels in C.
Tables(C) ==
  [conns : [Ids -> Entries(C)], next_id : 1 .. CAPACITY + 1,
   len : 0 .. CAPACITY, dead_index : {NoId} \cup Ids]

\* self.conns.get_mut(id).and_then(|entry| entry.socket()) is Some.
HasSocket(t, id) == id \in Ids /\ Occupied(t.conns[id])

NewTable ==
  [conns |-> [i \in Ids |-> Unused], next_id |-> 1, len |-> 0,
   dead_index |-> NoId]

\* Mutant of `remove`: the list head is not moved.
RemoveForgetsHead(t, id) ==
  IF HasSocket(t, id)
  THEN [t EXCEPT !.conns[id] = Closed(t.next_id), !.len = @ - 1]
  ELSE t

\* Drops the socket at `id`, if there is one, and pushes the entry on the
\* free list.
remove(t, id) ==
  IF HasSocket(t, id)
  THEN [t EXCEPT !.conns[id] = Closed(t.next_id),
                 !.next_id = id,
                 !.len = @ - 1]
  ELSE t

\* Mutant of `reserve_id`: the check for a full table is off by one.
ReserveOffByOne(t) == IF t.len > CAPACITY THEN NoId ELSE t.next_id

reserve_id(t) == IF t.len = CAPACITY THEN NoId ELSE t.next_id

\* Puts `socket` in the entry `id`, which `reserve_id` returned.  The code
\* panics unless InsertIsSafe(t).
insert_at(t, id, socket) ==
  [t EXCEPT !.conns[id] = socket,
            !.next_id = IF t.conns[id].tag = "Unused"
                        THEN t.next_id + 1
                        ELSE t.conns[id].next,
            !.len = @ + 1]

\* Removes the socket that `next_outbound` found closed, if one is marked.
cleanup_dead(t) ==
  IF t.dead_index = NoId
  THEN t
  ELSE [remove(t, t.dead_index) EXCEPT !.dead_index = NoId]

----------------------------------------------------------------------------
(***************************************************************************)
(* What makes a table well formed.                                         *)
(***************************************************************************)
OccupiedIds(t) == {i \in Ids : Occupied(t.conns[i])}
ClosedIds(t) == {i \in Ids : t.conns[i].tag = "Closed"}

\* `free` lists the closed entries in the order the chain visits them, and
\* `hi` is the largest ID ever handed out.
IsFreeList(t, n, hi, free) ==
  /\ \A j, k \in 1 .. n : free[j] = free[k] => j = k
  /\ \A k \in 1 .. n : t.conns[free[k]].tag = "Closed"
  /\ \A i \in Ids : t.conns[i].tag = "Closed" => \E k \in 1 .. n : free[k] = i
  /\ \A i \in Ids : (t.conns[i].tag = "Unused") <=> (i > hi)
  /\ \A k \in 1 .. n :
       t.conns[free[k]].next = IF k = n THEN hi + 1 ELSE free[k + 1]
  /\ t.next_id = IF n = 0 THEN hi + 1 ELSE free[1]
  /\ t.len = hi - n

\* The free list visits every closed entry once and then the unused ones,
\* and `len` counts the rest.
FreeListOK(t) ==
  \E hi \in 0 .. CAPACITY : \E n \in 0 .. hi :
    \E free \in [1 .. n -> 1 .. hi] : IsFreeList(t, n, hi, free)

\* No insertion into a table that `reserve_id` does not call full can meet
\* `expect("ID should be present")`, `unreachable!` or
\* `expect("connection ID overflow")`.
InsertIsSafe(t) ==
  reserve_id(t) # NoId =>
    /\ reserve_id(t) \in Ids
    /\ ~Occupied(t.conns[reserve_id(t)])
    /\ t.conns[reserve_id(t)].tag = "Unused" => t.next_id + 1 <= IdMax

\* The length is the number of sockets in the table.
LenCountsSockets(t) == t.len = Cardinality(OccupiedIds(t))
=============================================================================
