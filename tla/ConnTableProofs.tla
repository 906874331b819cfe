-------------------------- MODULE ConnTableProofs --------------------------
(***************************************************************************)
(* Lemmas about the operations of the connection table: each keeps a table *)
(* a well-formed free list, for every capacity.                            *)
(***************************************************************************)
EXTENDS ConnTable, FiniteSetTheorems, TLAPS

\* The fields an entry of each kind has.
LEMMA EntryFields ==
  ASSUME NEW C, NEW x \in Entries(C)
  PROVE  /\ x.tag \in {"Unused", "Closed", "Connecting", "Open"}
         /\ x.tag = "Closed" => x.next \in 1 .. CAPACITY + 1
         /\ Occupied(x) => x.chan \in C
         /\ x.tag = "Open" => x.remote_id \in Ids
         /\ Occupied(x) <=> x.tag \notin {"Unused", "Closed"}
  BY DEF Entries, Unused, Occupied

LEMMA NewTableOK ==
  ASSUME NEW C
  PROVE  NewTable \in Tables(C) /\ FreeListOK(NewTable)
<1> USE CapacityAssumption
<1>1. NewTable \in Tables(C)
  BY DEF NewTable, Tables, Entries, Unused, Ids, NoId
<1>2. FreeListOK(NewTable)
  <2> DEFINE free == [k \in 1 .. 0 |-> 1]
  <2>1. IsFreeList(NewTable, 0, 0, free)
    BY DEF IsFreeList, NewTable, Unused, Ids
  <2>2. free \in [1 .. 0 -> 1 .. 0]
    OBVIOUS
  <2>3. 0 \in 0 .. CAPACITY /\ 0 \in 0 .. 0
    OBVIOUS
  <2> QED BY <2>1, <2>2, <2>3 DEF FreeListOK
<1> QED BY <1>1, <1>2

\* `remove` pushes the entry on the free list.
LEMMA RemoveOK ==
  ASSUME NEW C, NEW t \in Tables(C), FreeListOK(t), NEW id
  PROVE  remove(t, id) \in Tables(C) /\ FreeListOK(remove(t, id))
<1> USE CapacityAssumption
<1>1. CASE ~HasSocket(t, id)
  BY <1>1 DEF remove
<1>2. CASE HasSocket(t, id)
  <2> DEFINE u == remove(t, id)
  <2>0. /\ id \in Ids
        /\ t.conns[id].tag \notin {"Unused", "Closed"}
        /\ u = [t EXCEPT !.conns[id] = Closed(t.next_id),
                         !.next_id = id, !.len = @ - 1]
    BY <1>2, EntryFields DEF HasSocket, remove, Tables, Occupied
  <2>a. PICK hi \in 0 .. CAPACITY : \E n \in 0 .. hi :
          \E free \in [1 .. n -> 1 .. hi] : IsFreeList(t, n, hi, free)
    BY DEF FreeListOK
  <2>b. PICK n \in 0 .. hi :
          \E free \in [1 .. n -> 1 .. hi] : IsFreeList(t, n, hi, free)
    BY <2>a
  <2>1. PICK free \in [1 .. n -> 1 .. hi] : IsFreeList(t, n, hi, free)
    BY <2>b
  <2> DEFINE more == [k \in 1 .. n + 1 |-> IF k = 1 THEN id ELSE free[k - 1]]
  <2>2. id <= hi
    BY <2>0, <2>1 DEF IsFreeList, Ids
  <2>3. \A k \in 1 .. n : free[k] # id
    BY <2>0, <2>1 DEF IsFreeList
  <2>4. n + 1 \in 0 .. hi
    \* The closed entries and `id` are distinct members of 1 .. hi.
    <3>1. more \in [1 .. n + 1 -> 1 .. hi]
      BY <2>0, <2>2 DEF Ids
    <3>2. \A j, k \in 1 .. n + 1 : more[j] = more[k] => j = k
      BY <2>1, <2>3 DEF IsFreeList
    <3>3. IsInjective(more)
      BY <3>1, <3>2 DEF IsInjective
    <3>4. more \in Injection(1 .. n + 1, 1 .. hi)
      BY <3>1, <3>3 DEF Injection
    <3>5. IsFiniteSet(1 .. hi) /\ Cardinality(1 .. hi) = hi
      BY FS_Interval
    <3>6. IsFiniteSet(1 .. n + 1) /\ Cardinality(1 .. n + 1) = n + 1
      BY FS_Interval
    <3>7. Cardinality(1 .. n + 1) <= Cardinality(1 .. hi)
      BY <3>4, <3>5, FS_Injection
    <3> QED BY <3>5, <3>6, <3>7
  <2>5. u \in Tables(C)
    <3>1. Closed(t.next_id) \in Entries(C)
      BY DEF Closed, Entries, Tables
    <3>2. t.len - 1 \in 0 .. CAPACITY
      BY <2>1, <2>4 DEF IsFreeList
    <3>3. u = [conns |-> [t.conns EXCEPT ![id] = Closed(t.next_id)],
               next_id |-> id, len |-> t.len - 1, dead_index |-> t.dead_index]
      BY <2>0 DEF Tables
    <3>4. [t.conns EXCEPT ![id] = Closed(t.next_id)] \in [Ids -> Entries(C)]
      BY <2>0, <3>1 DEF Tables
    <3>5. id \in 1 .. CAPACITY + 1 /\ t.dead_index \in {NoId} \cup Ids
      BY <2>0 DEF Tables, Ids
    <3> HIDE DEF u
    <3> QED BY <3>2, <3>3, <3>4, <3>5 DEF Tables
  <2>6. more \in [1 .. n + 1 -> 1 .. hi]
    BY <2>0, <2>2 DEF Ids
  <2>7. /\ u.conns = [t.conns EXCEPT ![id] = Closed(t.next_id)]
        /\ u.next_id = id /\ u.len = t.len - 1
    BY <2>0 DEF Tables
  <2>8. IsFreeList(u, n + 1, hi, more)
    <3>1. \A j, k \in 1 .. n + 1 : more[j] = more[k] => j = k
      BY <2>1, <2>3 DEF IsFreeList
    <3>2. \A k \in 1 .. n + 1 : u.conns[more[k]].tag = "Closed"
      BY <2>0, <2>1, <2>3, <2>7 DEF IsFreeList, Tables, Closed, Ids
    <3>3. \A i \in Ids : u.conns[i].tag = "Closed" => \E k \in 1 .. n + 1 : more[k] = i
      <4> SUFFICES ASSUME NEW i \in Ids, u.conns[i].tag = "Closed"
                   PROVE  \E k \in 1 .. n + 1 : more[k] = i
        OBVIOUS
      <4>1. CASE i = id
        BY <4>1
      <4>2. CASE i # id
        <5>1. t.conns[i].tag = "Closed"
          BY <4>2, <2>7 DEF Tables
        <5>2. PICK k \in 1 .. n : free[k] = i
          BY <5>1, <2>1 DEF IsFreeList
        <5>3. k + 1 \in 1 .. n + 1 /\ more[k + 1] = i
          BY <5>2
        <5> QED BY <5>3
      <4> QED BY <4>1, <4>2
    <3>4. \A i \in Ids : (u.conns[i].tag = "Unused") <=> (i > hi)
      BY <2>0, <2>1, <2>2, <2>7 DEF IsFreeList, Tables, Closed, Ids
    <3>5. \A k \in 1 .. n + 1 :
            u.conns[more[k]].next = IF k = n + 1 THEN hi + 1 ELSE more[k + 1]
      <4> SUFFICES ASSUME NEW k \in 1 .. n + 1
                   PROVE  u.conns[more[k]].next
                            = IF k = n + 1 THEN hi + 1 ELSE more[k + 1]
        OBVIOUS
      <4>1. CASE k = 1
        BY <4>1, <2>0, <2>1, <2>7 DEF IsFreeList, Tables, Closed
      <4>2. CASE k # 1
        <5>1. k - 1 \in 1 .. n /\ more[k] = free[k - 1] /\ free[k - 1] \in Ids
          BY <4>2 DEF Ids
        <5>2. u.conns[more[k]] = t.conns[free[k - 1]]
          BY <5>1, <2>3, <2>7 DEF Tables
        <5>3. t.conns[free[k - 1]].next
                = IF k - 1 = n THEN hi + 1 ELSE free[k]
          BY <5>1, <2>1 DEF IsFreeList
        <5> QED BY <4>2, <5>1, <5>2, <5>3
      <4> QED BY <4>1, <4>2
    <3>6. u.next_id = more[1] /\ u.len = hi - (n + 1)
      BY <2>1, <2>7 DEF IsFreeList
    <3> QED BY <3>1, <3>2, <3>3, <3>4, <3>5, <3>6 DEF IsFreeList
  <2> HIDE DEF more
  <2> QED BY <2>4, <2>5, <2>6, <2>8 DEF FreeListOK
<1> QED BY <1>1, <1>2

\* When the table is not full, the head of the free list is an entry without a
\* socket, and the counter of fresh IDs does not overflow.
LEMMA ReserveOK ==
  ASSUME NEW C, NEW t \in Tables(C), FreeListOK(t)
  PROVE  InsertIsSafe(t)
<1> USE CapacityAssumption
<1>1. PICK hi \in 0 .. CAPACITY : \E n \in 0 .. hi :
        \E free \in [1 .. n -> 1 .. hi] : IsFreeList(t, n, hi, free)
  BY DEF FreeListOK
<1>2. PICK n \in 0 .. hi :
        \E free \in [1 .. n -> 1 .. hi] : IsFreeList(t, n, hi, free)
  BY <1>1
<1>3. PICK free \in [1 .. n -> 1 .. hi] : IsFreeList(t, n, hi, free)
  BY <1>2
<1> SUFFICES ASSUME reserve_id(t) # NoId
             PROVE  /\ t.next_id \in Ids
                    /\ t.conns[t.next_id].tag \in {"Unused", "Closed"}
                    /\ t.conns[t.next_id].tag = "Unused" => t.next_id + 1 <= IdMax
  BY DEF InsertIsSafe, reserve_id, Occupied
<1>4. t.len # CAPACITY
  BY DEF reserve_id
<1>5. CASE n = 0
  <2>1. t.next_id = hi + 1 /\ hi < CAPACITY
    BY <1>3, <1>4, <1>5 DEF IsFreeList
  <2>2. t.conns[hi + 1].tag = "Unused"
    BY <1>3, <2>1 DEF IsFreeList, Ids
  <2> QED BY <2>1, <2>2 DEF Ids
<1>6. CASE n # 0
  <2>1. t.next_id = free[1] /\ free[1] \in Ids
    BY <1>3, <1>6 DEF IsFreeList, Ids
  <2>2. t.conns[free[1]].tag = "Closed"
    BY <1>3, <1>6 DEF IsFreeList
  <2> QED BY <2>1, <2>2
<1> QED BY <1>5, <1>6

\* `insert_at` takes the reserved entry off the free list.
LEMMA InsertOK ==
  ASSUME NEW C, NEW t \in Tables(C), FreeListOK(t),
         reserve_id(t) # NoId,
         NEW socket \in Entries(C), Occupied(socket)
  PROVE  /\ insert_at(t, reserve_id(t), socket) \in Tables(C)
         /\ FreeListOK(insert_at(t, reserve_id(t), socket))
<1> USE CapacityAssumption
<1> DEFINE id == t.next_id
           u == insert_at(t, id, socket)
           next == IF t.conns[id].tag = "Unused" THEN id + 1 ELSE t.conns[id].next
<1>1. PICK hi \in 0 .. CAPACITY : \E n \in 0 .. hi :
        \E free \in [1 .. n -> 1 .. hi] : IsFreeList(t, n, hi, free)
  BY DEF FreeListOK
<1>2. PICK n \in 0 .. hi :
        \E free \in [1 .. n -> 1 .. hi] : IsFreeList(t, n, hi, free)
  BY <1>1
<1>3. PICK free \in [1 .. n -> 1 .. hi] : IsFreeList(t, n, hi, free)
  BY <1>2
<1>4. reserve_id(t) = id /\ t.len # CAPACITY
  BY DEF reserve_id
<1>5. /\ id \in Ids
      /\ t.conns[id].tag \in {"Unused", "Closed"}
      /\ ~Occupied(t.conns[id])
  BY <1>4, ReserveOK, EntryFields DEF InsertIsSafe, Occupied, Tables
<1>6. socket.tag \notin {"Unused", "Closed"}
  BY DEF Occupied
<1>7. u = [conns |-> [t.conns EXCEPT ![id] = socket], next_id |-> next,
           len |-> t.len + 1, dead_index |-> t.dead_index]
  <2>1. u = [t EXCEPT !.conns[id] = socket, !.next_id = next, !.len = @ + 1]
    BY DEF insert_at
  <2> HIDE DEF u, next
  <2> QED BY <2>1 DEF Tables
<1>8. /\ u.conns = [t.conns EXCEPT ![id] = socket]
      /\ u.next_id = next /\ u.len = t.len + 1
  BY <1>7
<1>9. t.len \in 0 .. CAPACITY - 1 /\ t.len = hi - n
  BY <1>3, <1>4 DEF Tables, IsFreeList
<1>10. u \in Tables(C)
  <2>1. [t.conns EXCEPT ![id] = socket] \in [Ids -> Entries(C)]
    BY <1>5 DEF Tables
  <2>2. next \in 1 .. CAPACITY + 1
    <3>1. t.conns[id] \in Entries(C)
      BY <1>5 DEF Tables
    <3> QED BY <1>5, <3>1, EntryFields DEF Ids
  <2>3. t.len + 1 \in 0 .. CAPACITY /\ t.dead_index \in {NoId} \cup Ids
    BY <1>9 DEF Tables
  <2> HIDE DEF u, next
  <2> QED BY <1>7, <2>1, <2>2, <2>3 DEF Tables
<1>11. CASE n = 0
  <2>1. id = hi + 1 /\ hi + 1 \in 1 .. CAPACITY
    BY <1>3, <1>9, <1>11 DEF IsFreeList
  <2>2. t.conns[id].tag = "Unused" /\ next = hi + 2
    BY <1>3, <2>1 DEF IsFreeList, Ids
  <2>3. \A i \in Ids : t.conns[i].tag # "Closed"
    BY <1>3, <1>11 DEF IsFreeList
  <2>4. IsFreeList(u, 0, hi + 1, free)
    <3>1. \A i \in Ids : u.conns[i].tag # "Closed"
      BY <1>5, <1>6, <1>8, <2>3 DEF Tables
    <3>2. \A i \in Ids : (u.conns[i].tag = "Unused") <=> (i > hi + 1)
      <4> SUFFICES ASSUME NEW i \in Ids
                   PROVE  (u.conns[i].tag = "Unused") <=> (i > hi + 1)
        OBVIOUS
      <4>1. CASE i = hi + 1
        <5>1. u.conns[i] = socket
          BY <4>1, <1>5, <1>8, <2>1 DEF Tables
        <5> HIDE DEF u
        <5> QED BY <5>1, <4>1, <1>6
      <4>2. CASE i # hi + 1
        <5>1. u.conns[i] = t.conns[i]
          BY <4>2, <1>5, <1>8, <2>1 DEF Tables
        <5>2. (t.conns[i].tag = "Unused") <=> (i > hi)
          BY <1>3 DEF IsFreeList
        <5>3. i \in Int
          BY DEF Ids
        <5> HIDE DEF u
        <5> QED BY <5>1, <5>2, <5>3, <4>2
      <4> QED BY <4>1, <4>2
    <3>3. u.next_id = hi + 2 /\ u.len = hi + 1
      BY <1>8, <1>9, <1>11, <2>2
    <3> HIDE DEF u
    <3> QED BY <3>1, <3>2, <3>3 DEF IsFreeList
  <2>5. /\ hi + 1 \in 0 .. CAPACITY /\ 0 \in 0 .. hi + 1
        /\ free \in [1 .. 0 -> 1 .. hi + 1]
    BY <1>11, <2>1
  <2>6. u \in Tables(C) /\ FreeListOK(u)
    <3> HIDE DEF u
    <3> QED BY <1>10, <2>4, <2>5 DEF FreeListOK
  <2> QED BY <1>4, <2>6
<1>12. CASE n # 0
  <2> DEFINE rest == [k \in 1 .. n - 1 |-> free[k + 1]]
  <2>1. id = free[1] /\ t.conns[id].tag = "Closed" /\ id <= hi
    BY <1>3, <1>12 DEF IsFreeList
  <2>2. next = IF n = 1 THEN hi + 1 ELSE free[2]
    BY <1>3, <1>12, <2>1 DEF IsFreeList
  <2>3. \A k \in 1 .. n - 1 : /\ rest[k] = free[k + 1] /\ rest[k] # id
                              /\ rest[k] \in Ids /\ k + 1 \in 1 .. n
                              /\ u.conns[rest[k]] = t.conns[free[k + 1]]
    <3> SUFFICES ASSUME NEW k \in 1 .. n - 1
                 PROVE  /\ rest[k] = free[k + 1] /\ rest[k] # id
                        /\ rest[k] \in Ids /\ k + 1 \in 1 .. n
                        /\ u.conns[rest[k]] = t.conns[free[k + 1]]
      OBVIOUS
    <3>1. rest[k] = free[k + 1] /\ k + 1 \in 1 .. n /\ 1 \in 1 .. n
      OBVIOUS
    <3>2. rest[k] # id
      <4>1. free[k + 1] = free[1] => k + 1 = 1
        BY <3>1, <1>3 DEF IsFreeList
      <4> QED BY <4>1, <3>1, <2>1
    <3>3. rest[k] \in Ids
      BY <3>1 DEF Ids
    <3>4. u.conns[rest[k]] = t.conns[free[k + 1]]
      BY <3>1, <3>2, <3>3, <1>8 DEF Tables
    <3> QED BY <3>1, <3>2, <3>3, <3>4
  <2>4. IsFreeList(u, n - 1, hi, rest)
    <3>1. \A j, k \in 1 .. n - 1 : rest[j] = rest[k] => j = k
      <4> SUFFICES ASSUME NEW j \in 1 .. n - 1, NEW k \in 1 .. n - 1,
                          rest[j] = rest[k]
                   PROVE  j = k
        OBVIOUS
      <4>1. free[j + 1] = free[k + 1] /\ j + 1 \in 1 .. n /\ k + 1 \in 1 .. n
        BY <2>3
      <4>2. j + 1 = k + 1
        BY <4>1, <1>3 DEF IsFreeList
      <4> QED BY <4>2
    <3>2. \A k \in 1 .. n - 1 : u.conns[rest[k]].tag = "Closed"
      <4>1. \A k \in 1 .. n : t.conns[free[k]].tag = "Closed"
        BY <1>3 DEF IsFreeList
      <4> HIDE DEF u, rest
      <4> QED BY <2>3, <4>1
    <3>3. \A i \in Ids : u.conns[i].tag = "Closed" => \E k \in 1 .. n - 1 : rest[k] = i
      <4> SUFFICES ASSUME NEW i \in Ids, u.conns[i].tag = "Closed"
                   PROVE  \E k \in 1 .. n - 1 : rest[k] = i
        OBVIOUS
      <4>1. i # id /\ t.conns[i].tag = "Closed"
        BY <1>5, <1>6, <1>8 DEF Tables
      <4>2. PICK k \in 1 .. n : free[k] = i
        BY <4>1, <1>3 DEF IsFreeList
      <4>3. k # 1
        BY <4>1, <4>2, <2>1
      <4>4. k - 1 \in 1 .. n - 1 /\ rest[k - 1] = i
        BY <4>2, <4>3
      <4> QED BY <4>4
    <3>4. \A i \in Ids : (u.conns[i].tag = "Unused") <=> (i > hi)
      BY <1>3, <1>5, <1>6, <1>8, <2>1 DEF IsFreeList, Tables, Ids
    <3>5. \A k \in 1 .. n - 1 :
            u.conns[rest[k]].next = IF k = n - 1 THEN hi + 1 ELSE rest[k + 1]
      <4> SUFFICES ASSUME NEW k \in 1 .. n - 1
                   PROVE  u.conns[rest[k]].next
                            = IF k = n - 1 THEN hi + 1 ELSE rest[k + 1]
        OBVIOUS
      <4>1. t.conns[free[k + 1]].next
              = IF k + 1 = n THEN hi + 1 ELSE free[k + 1 + 1]
        BY <1>3, <2>3 DEF IsFreeList
      <4>2. k # n - 1 => rest[k + 1] = free[k + 1 + 1]
        OBVIOUS
      <4> QED BY <4>1, <4>2, <2>3
    <3>6. /\ u.next_id = IF n - 1 = 0 THEN hi + 1 ELSE rest[1]
          /\ u.len = hi - (n - 1)
      BY <1>8, <1>9, <1>12, <2>2
    <3> HIDE DEF u, rest
    <3> QED BY <3>1, <3>2, <3>3, <3>4, <3>5, <3>6 DEF IsFreeList
  <2>5. rest \in [1 .. n - 1 -> 1 .. hi] /\ n - 1 \in 0 .. hi
    BY <1>12
  <2>6. u \in Tables(C) /\ FreeListOK(u)
    <3> HIDE DEF u, rest
    <3> QED BY <1>10, <2>4, <2>5 DEF FreeListOK
  <2> QED BY <1>4, <2>6
<1> QED BY <1>11, <1>12

\* The length of a well-formed table is the number of its sockets.
LEMMA LenOK ==
  ASSUME NEW C, NEW t \in Tables(C), FreeListOK(t)
  PROVE  LenCountsSockets(t)
<1> USE CapacityAssumption
<1>1. PICK hi \in 0 .. CAPACITY : \E n \in 0 .. hi :
        \E free \in [1 .. n -> 1 .. hi] : IsFreeList(t, n, hi, free)
  BY DEF FreeListOK
<1>2. PICK n \in 0 .. hi :
        \E free \in [1 .. n -> 1 .. hi] : IsFreeList(t, n, hi, free)
  BY <1>1
<1>3. PICK free \in [1 .. n -> 1 .. hi] : IsFreeList(t, n, hi, free)
  BY <1>2
<1>4. \A i \in Ids : t.conns[i].tag \in {"Unused", "Closed", "Connecting", "Open"}
  BY EntryFields DEF Tables
<1>5. ClosedIds(t) \subseteq 1 .. hi
  BY <1>3 DEF ClosedIds, IsFreeList, Ids
<1>6. OccupiedIds(t) = (1 .. hi) \ ClosedIds(t)
  BY <1>3, <1>4 DEF OccupiedIds, ClosedIds, Occupied, IsFreeList, Ids
<1>7. Cardinality(ClosedIds(t)) = n
  <2>1. free \in [1 .. n -> ClosedIds(t)]
    BY <1>3 DEF ClosedIds, IsFreeList, Ids
  <2>2. free \in Injection(1 .. n, ClosedIds(t))
    BY <2>1, <1>3 DEF IsFreeList, Injection, IsInjective
  <2>3. \A i \in ClosedIds(t) : \E k \in 1 .. n : free[k] = i
    BY <1>3 DEF ClosedIds, IsFreeList
  <2>4. free \in Surjection(1 .. n, ClosedIds(t))
    BY <2>1, <2>3 DEF Surjection
  <2>5. ExistsBijection(1 .. n, ClosedIds(t))
    BY <2>2, <2>4 DEF ExistsBijection, Bijection
  <2> QED BY <2>5, FS_CountingElements
<1>8. IsFiniteSet(1 .. hi) /\ Cardinality(1 .. hi) = hi
  BY FS_Interval
<1>9. Cardinality(OccupiedIds(t))
        = Cardinality(1 .. hi) - Cardinality((1 .. hi) \cap ClosedIds(t))
  BY <1>6, <1>8, FS_Difference
<1>10. (1 .. hi) \cap ClosedIds(t) = ClosedIds(t)
  BY <1>5
<1> QED BY <1>3, <1>7, <1>8, <1>9, <1>10 DEF LenCountsSockets, IsFreeList

\* Marking a socket as dead, or clearing the mark, leaves the free list alone.
LEMMA MarkOK ==
  ASSUME NEW C, NEW t \in Tables(C), FreeListOK(t), NEW d \in {NoId} \cup Ids
  PROVE  /\ [t EXCEPT !.dead_index = d] \in Tables(C)
         /\ FreeListOK([t EXCEPT !.dead_index = d])
<1> DEFINE u == [t EXCEPT !.dead_index = d]
<1>1. u \in Tables(C) /\ u.conns = t.conns /\ u.next_id = t.next_id /\ u.len = t.len
  BY DEF Tables
<1>2. \A n, hi, free : IsFreeList(t, n, hi, free) => IsFreeList(u, n, hi, free)
  <2> HIDE DEF u
  <2> QED BY <1>1 DEF IsFreeList
<1>3. FreeListOK(u)
  BY <1>2 DEF FreeListOK
<1> QED BY <1>1, <1>3

LEMMA CleanupOK ==
  ASSUME NEW C, NEW t \in Tables(C), FreeListOK(t)
  PROVE  cleanup_dead(t) \in Tables(C) /\ FreeListOK(cleanup_dead(t))
<1>1. remove(t, t.dead_index) \in Tables(C) /\ FreeListOK(remove(t, t.dead_index))
  BY RemoveOK
<1>2. NoId \in {NoId} \cup Ids
  OBVIOUS
<1>3. /\ [remove(t, t.dead_index) EXCEPT !.dead_index = NoId] \in Tables(C)
      /\ FreeListOK([remove(t, t.dead_index) EXCEPT !.dead_index = NoId])
  BY <1>1, <1>2, MarkOK
<1> QED BY <1>3 DEF cleanup_dead

\* A socket may be replaced by another, as `process_ack` does.
LEMMA ReplaceOK ==
  ASSUME NEW C, NEW t \in Tables(C), FreeListOK(t),
         NEW id \in Ids, Occupied(t.conns[id]),
         NEW socket \in Entries(C), Occupied(socket)
  PROVE  /\ [t EXCEPT !.conns[id] = socket] \in Tables(C)
         /\ FreeListOK([t EXCEPT !.conns[id] = socket])
<1> USE CapacityAssumption
<1> DEFINE u == [t EXCEPT !.conns[id] = socket]
<1>1. /\ u = [conns |-> [t.conns EXCEPT ![id] = socket], next_id |-> t.next_id,
              len |-> t.len, dead_index |-> t.dead_index]
      /\ [t.conns EXCEPT ![id] = socket] \in [Ids -> Entries(C)]
  BY DEF Tables
<1>2. u \in Tables(C)
  <2> HIDE DEF u
  <2> QED BY <1>1 DEF Tables
<1>3. u.next_id = t.next_id /\ u.len = t.len
  BY <1>1
<1>4. \A i \in Ids : /\ u.conns[i].tag = "Closed" <=> t.conns[i].tag = "Closed"
                     /\ u.conns[i].tag = "Unused" <=> t.conns[i].tag = "Unused"
                     /\ i # id => u.conns[i] = t.conns[i]
  BY <1>1 DEF Tables, Occupied
<1>5. ASSUME NEW hi \in 0 .. CAPACITY, NEW n \in 0 .. hi,
             NEW free \in [1 .. n -> 1 .. hi], IsFreeList(t, n, hi, free)
      PROVE  IsFreeList(u, n, hi, free)
  <2>1. \A k \in 1 .. n : free[k] \in Ids /\ u.conns[free[k]] = t.conns[free[k]]
    <3>1. \A k \in 1 .. n : free[k] \in Ids
      BY DEF Ids
    <3>2. \A k \in 1 .. n : free[k] # id
      BY <1>5 DEF IsFreeList, Occupied
    <3> HIDE DEF u
    <3> QED BY <3>1, <3>2, <1>4
  <2> HIDE DEF u
  <2>2. \A k \in 1 .. n :
          /\ u.conns[free[k]].tag = "Closed"
          /\ u.conns[free[k]].next = IF k = n THEN hi + 1 ELSE free[k + 1]
    BY <1>5, <2>1 DEF IsFreeList
  <2>3. \A i \in Ids :
          /\ u.conns[i].tag = "Closed" => \E k \in 1 .. n : free[k] = i
          /\ u.conns[i].tag = "Unused" <=> i > hi
    BY <1>4, <1>5 DEF IsFreeList
  <2> QED BY <1>3, <1>5, <2>2, <2>3 DEF IsFreeList
<1>6. FreeListOK(u)
  <2> HIDE DEF u
  <2> QED BY <1>5 DEF FreeListOK
<1> QED BY <1>2, <1>6
=============================================================================
