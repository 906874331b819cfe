----------------------------- MODULE LinkProofs -----------------------------
(***************************************************************************)
(* Two interfaces and the wire between them keep their types, and their    *)
(* connection tables stay well formed, for every capacity, every number of *)
(* clients and every bound of the model.  The messages of a sender pass    *)
(* six stages, from its queue to the application that is handed them, and  *)
(* none overtakes or repeats another.                                      *)
(***************************************************************************)
EXTENDS Link, ConnTableProofs

\* The socket a DATA frame is delivered to is open until the send completes:
\* the machine that waits does nothing else to its table.
DeliverInv ==
  \A p \in Peers :
    mach[p].at = "deliver" =>
      mach[p].frame.type = "DATA" /\ AcceptsData(tables[p], mach[p].frame)

TablesInv == \A p \in Peers : FreeListOK(tables[p])

\* The inductive invariant.
IInv == TypeOK /\ TablesInv /\ DeliverInv

\* The channels' part of TypeOK, of any value of `chan`.
GoodChannel(r) ==
  /\ r \in Channels
  /\ Len(r.outq) <= ChanCap
  /\ Len(r.got) - r.read \in 0 .. ChanCap

GoodChannels(ch) ==
  /\ ch \in [Endpoints -> Channels]
  /\ \A e \in Endpoints : GoodChannel(ch[e])

GoodWire(w) ==
  /\ w \in [Peers -> Seq(Frames)]
  /\ \A p \in Peers : Len(w[p]) <= WireCap

LEMMA TypeParts ==
  TypeOK <=> /\ tables \in [Peers -> Tables(Endpoints)]
             /\ mach \in [Peers -> MachineStates]
             /\ GoodWire(wire)
             /\ conns_rx \in [Peers -> Seq(Clients)]
             /\ cli \in [Clients -> Outcomes]
             /\ GoodChannels(chan)
<1>1. GoodWire(wire) <=> /\ wire \in [Peers -> Seq(Frames)]
                         /\ \A p \in Peers : Len(wire[p]) <= WireCap
  BY DEF GoodWire
<1>2. GoodChannels(chan) <=>
        /\ chan \in [Endpoints -> Channels]
        /\ \A e \in Endpoints : /\ Len(chan[e].outq) <= ChanCap
                                 /\ Len(chan[e].got) - chan[e].read \in 0 .. ChanCap
  BY DEF GoodChannels, GoodChannel
<1> QED BY <1>1, <1>2 DEF TypeOK

\* The same of the next state.
LEMMA NextTypeParts ==
  ASSUME tables' \in [Peers -> Tables(Endpoints)],
         mach' \in [Peers -> MachineStates],
         GoodWire(wire'),
         conns_rx' \in [Peers -> Seq(Clients)],
         cli' \in [Clients -> Outcomes],
         GoodChannels(chan')
  PROVE  TypeOK'
<1>1. /\ wire' \in [Peers -> Seq(Frames)]
      /\ \A p \in Peers : Len(wire'[p]) <= WireCap
  BY DEF GoodWire
<1>2. /\ chan' \in [Endpoints -> Channels]
      /\ \A e \in Endpoints : /\ Len(chan'[e].outq) <= ChanCap
                               /\ Len(chan'[e].got) - chan'[e].read \in 0 .. ChanCap
  BY DEF GoodChannels, GoodChannel
<1> QED BY <1>1, <1>2 DEF TypeOK

----------------------------------------------------------------------------
(***************************************************************************)
(* Peers, frames and the states of a machine.                              *)
(***************************************************************************)
LEMMA OtherPeer ==
  ASSUME NEW p \in Peers
  PROVE  Other(p) \in Peers /\ Other(p) # p
<1>1. \E q \in Peers : q # p
  BY LinkAssumption
<1> QED BY <1>1 DEF Other

LEMMA FrameFields ==
  ASSUME NEW f \in Frames
  PROVE  /\ f.type \in {"CONNECT", "ACK", "DATA"} => f.local_id \in Ids
         /\ f.type \in {"DATA", "ACK", "REJECT", "RESET"} => f.remote_id \in Ids
         /\ f.type = "CONNECT" => f.conn \in Clients
         /\ f.type = "DATA" => f.body \in Payloads
         /\ f.type = "RESET" => f.reason \in Reasons
  BY DEF Frames

LEMMA FrameTypes ==
  ASSUME NEW local_id \in Ids, NEW remote_id \in Ids, NEW c \in Clients,
         NEW body \in Payloads, NEW reason \in Reasons
  PROVE  /\ connect(local_id, c) \in Frames
         /\ data(remote_id, local_id, body) \in Frames
         /\ ack(local_id, remote_id) \in Frames
         /\ reject(remote_id) \in Frames
         /\ reset(remote_id, reason) \in Frames
  BY DEF Frames, connect, data, ack, reject, reset

LEMMA MachineTypes ==
  ASSUME NEW f \in Frames
  PROVE  /\ Selecting \in MachineStates /\ Selecting.at = "select"
         /\ Sending(f) \in MachineStates /\ Sending(f).at = "send"
         /\ Delivering(f) \in MachineStates /\ Delivering(f).at = "deliver"
         /\ Delivering(f).frame = f
  BY DEF MachineStates, Selecting, Sending, Delivering

LEMMA MachineFields ==
  ASSUME NEW m \in MachineStates
  PROVE  /\ m.at \in {"select", "send", "deliver"}
         /\ m.at # "select" => m.frame \in Frames
  BY DEF MachineStates, Selecting

\* A machine that goes on to select or to send leaves DeliverInv alone.
LEMMA MachStep ==
  ASSUME mach \in [Peers -> MachineStates], DeliverInv,
         NEW p \in Peers, NEW m \in MachineStates, m.at # "deliver",
         mach' = [mach EXCEPT ![p] = m],
         \A q \in Peers \ {p} : tables'[q] = tables[q]
  PROVE  mach' \in [Peers -> MachineStates] /\ DeliverInv'
<1>1. mach' \in [Peers -> MachineStates]
  OBVIOUS
<1>2. \A q \in Peers : mach'[q] = IF q = p THEN m ELSE mach[q]
  OBVIOUS
<1>3. DeliverInv'
  <2> SUFFICES ASSUME NEW q \in Peers, mach'[q].at = "deliver"
               PROVE  /\ mach'[q].frame.type = "DATA"
                      /\ AcceptsData(tables'[q], mach'[q].frame)
    BY DEF DeliverInv, AcceptsData, HasSocket
  <2>1. q # p
    BY <1>2
  <2>2. mach'[q] = mach[q] /\ tables'[q] = tables[q]
    BY <2>1, <1>2
  <2> QED BY <2>2 DEF DeliverInv
<1> QED BY <1>1, <1>3

\* A machine's table changes to a well-formed one.
LEMMA TableStep ==
  ASSUME tables \in [Peers -> Tables(Endpoints)], TablesInv,
         NEW p \in Peers, NEW u \in Tables(Endpoints), FreeListOK(u),
         tables' = [tables EXCEPT ![p] = u]
  PROVE  /\ tables' \in [Peers -> Tables(Endpoints)]
         /\ TablesInv'
         /\ \A q \in Peers \ {p} : tables'[q] = tables[q]
<1>1. /\ tables' \in [Peers -> Tables(Endpoints)]
      /\ \A q \in Peers \ {p} : tables'[q] = tables[q]
      /\ tables'[p] = u
  OBVIOUS
<1>2. \A q \in Peers : FreeListOK(tables'[q])
  BY <1>1 DEF TablesInv
<1>3. TablesInv'
  BY <1>2 DEF TablesInv, FreeListOK, IsFreeList
<1> QED BY <1>1, <1>3

----------------------------------------------------------------------------
(***************************************************************************)
(* Channels.                                                               *)
(***************************************************************************)
LEMMA ChannelTypes ==
  GoodChannel(NewChannel) /\ GoodChannel(NoChannel)
    /\ GoodChannel([NewChannel EXCEPT !.held = FALSE])
<1>1. <<>> \in Seq(Payloads) /\ Len(<<>>) = 0
  OBVIOUS
<1>2. GoodChannel(NoChannel) /\ NoChannel \in Channels
  BY <1>1, LinkAssumption DEF GoodChannel, NoChannel, Channels, NoError
<1>3. GoodChannel(NewChannel) /\ NewChannel \in Channels
  BY <1>2 DEF GoodChannel, NewChannel, Channels
<1>4. GoodChannel([NewChannel EXCEPT !.held = FALSE])
  BY <1>3 DEF GoodChannel, Channels
<1> QED BY <1>2, <1>3, <1>4

LEMMA ChanUpdate ==
  ASSUME NEW ch, GoodChannels(ch), NEW e \in Endpoints, NEW r, GoodChannel(r)
  PROVE  GoodChannels([ch EXCEPT ![e] = r])
BY DEF GoodChannels, GoodChannel

LEMMA UnholdOK ==
  ASSUME NEW ch, GoodChannels(ch), NEW e \in Endpoints
  PROVE  GoodChannels([ch EXCEPT ![e].held = FALSE])
<1>1. GoodChannel([ch[e] EXCEPT !.held = FALSE])
  BY DEF GoodChannels, GoodChannel, Channels
<1> QED BY <1>1, ChanUpdate

LEMMA DropAppOK ==
  ASSUME NEW ch, GoodChannels(ch), NEW e \in Endpoints
  PROVE  GoodChannels([ch EXCEPT ![e].app = "dropped"])
<1> DEFINE r == [ch[e] EXCEPT !.app = "dropped"]
<1>1. ch[e] \in Channels /\ GoodChannel(ch[e])
  BY DEF GoodChannels
<1>2. r \in Channels /\ r.outq = ch[e].outq /\ r.got = ch[e].got /\ r.read = ch[e].read
  BY <1>1 DEF Channels
<1>3. GoodChannel(r)
  <2> HIDE DEF r
  <2> QED BY <1>1, <1>2 DEF GoodChannel
<1> QED BY <1>3, ChanUpdate

LEMMA ReadOK ==
  ASSUME NEW ch, GoodChannels(ch), NEW e \in Endpoints, ch[e].read < Len(ch[e].got)
  PROVE  GoodChannels([ch EXCEPT ![e].read = @ + 1])
<1> DEFINE r == [ch[e] EXCEPT !.read = @ + 1]
<1>1. ch[e] \in Channels /\ GoodChannel(ch[e]) /\ ch[e].read \in Nat
  BY DEF GoodChannels, Channels
<1>2. Len(ch[e].got) \in Nat
  BY <1>1 DEF Channels
<1>3. r \in Channels /\ r.outq = ch[e].outq /\ r.got = ch[e].got /\ r.read = ch[e].read + 1
  BY <1>1 DEF Channels
<1>4. GoodChannel(r)
  <2> HIDE DEF r
  <2>1. Len(ch[e].outq) <= ChanCap /\ Len(ch[e].got) - ch[e].read \in 0 .. ChanCap
    BY <1>1 DEF GoodChannel
  <2>2. Len(ch[e].got) - (ch[e].read + 1) \in 0 .. ChanCap
    <3>1. \A a, b, c \in Nat : b < a /\ a - b \in 0 .. c => a - (b + 1) \in 0 .. c
      OBVIOUS
    <3>2. ChanCap \in Nat
      BY LinkAssumption
    <3> QED BY ONLY <1>1, <1>2, <2>1, <3>1, <3>2, ch[e].read < Len(ch[e].got)
  <2> QED BY <1>3, <2>1, <2>2 DEF GoodChannel
<1> QED BY <1>4, ChanUpdate

LEMMA GotOK ==
  ASSUME NEW ch, GoodChannels(ch), NEW e \in Endpoints,
         NEW msg \in Payloads, HasRoom(ch[e])
  PROVE  GoodChannels([ch EXCEPT ![e].got = Append(@, msg)])
<1> DEFINE x == ch[e]
           got == Append(x.got, msg)
           r == [x EXCEPT !.got = got]
<1>1. x \in Channels /\ GoodChannel(x) /\ x.got \in Seq(Payloads) /\ x.read \in Nat
  BY DEF GoodChannels, Channels
<1>2. x.got \in Seq(Payloads) /\ x.read \in Nat /\ Len(x.got) - x.read < ChanCap
  BY <1>1 DEF HasRoom
<1>3. /\ ChanCap \in Nat /\ Len(x.outq) <= ChanCap
      /\ Len(x.got) - x.read \in 0 .. ChanCap
  BY <1>1, LinkAssumption DEF GoodChannel
<1> HIDE DEF x
<1>4. got \in Seq(Payloads) /\ Len(got) = Len(x.got) + 1 /\ Len(x.got) \in Nat
  BY <1>2
<1> HIDE DEF got
<1>5. r \in Channels /\ r.got = got /\ r.outq = x.outq /\ r.read = x.read
  BY <1>1, <1>4 DEF Channels
<1> HIDE DEF r
<1>6. Len(got) - x.read \in 0 .. ChanCap
  BY <1>2, <1>3, <1>4
<1>7. GoodChannel(r)
  BY <1>3, <1>5, <1>6 DEF GoodChannel
<1>8. [ch EXCEPT ![e].got = Append(@, msg)] = [ch EXCEPT ![e] = r]
  BY DEF r, got, x
<1> QED BY <1>7, <1>8, ChanUpdate

LEMMA DropSocketOK ==
  ASSUME NEW ch, GoodChannels(ch), NEW t \in Tables(Endpoints), NEW id
  PROVE  GoodChannels(DropSocket(ch, t, id))
<1>1. HasSocket(t, id) => t.conns[id].chan \in Endpoints
  BY EntryFields DEF HasSocket, Tables
<1> QED BY <1>1, UnholdOK DEF DropSocket

LEMMA CloseOK ==
  ASSUME NEW ch, GoodChannels(ch), NEW e \in Endpoints, NEW reason \in Reasons
  PROVE  GoodChannels(CloseWithError(ch, e, reason))
<1> DEFINE r == [ch[e] EXCEPT !.error = IF @ = NoError THEN reason ELSE @]
<1>1. GoodChannel(r)
  BY DEF GoodChannels, GoodChannel, Channels
<1> QED BY <1>1, ChanUpdate DEF CloseWithError

LEMMA CloseReasonOK ==
  ASSUME NEW r \in Channels
  PROVE  CloseReason(r) \in Reasons
BY DEF CloseReason, Channels, Reasons, NoError

LEMMA EndsOK ==
  ASSUME NEW c \in Clients
  PROVE  <<c, "client">> \in Endpoints /\ <<c, "server">> \in Endpoints
BY DEF Endpoints

----------------------------------------------------------------------------
(***************************************************************************)
(* The invariant holds initially and every step keeps it.                  *)
(***************************************************************************)
LEMMA InitInv == Init => IInv
<1> SUFFICES ASSUME Init PROVE IInv
  OBVIOUS
<1>1. tables \in [Peers -> Tables(Endpoints)] /\ TablesInv
  BY NewTableOK DEF Init, TablesInv
<1>2. mach \in [Peers -> MachineStates]
  BY DEF Init, MachineStates
<1>3. DeliverInv
  BY DEF Init, DeliverInv, Selecting
<1>4. GoodWire(wire)
  BY LinkAssumption DEF Init, GoodWire
<1>5. conns_rx \in [Peers -> Seq(Clients)] /\ cli \in [Clients -> Outcomes]
  BY DEF Init, Outcomes
<1>6. GoodChannels(chan)
  BY ChannelTypes DEF Init, GoodChannels, GoodChannel
<1> QED BY <1>1, <1>2, <1>3, <1>4, <1>5, <1>6, TypeParts DEF IInv

\* The applications touch their channels, the requests and the clients only.
LEMMA AppInv ==
  ASSUME IInv, AppNext
  PROVE  IInv'
<1> USE LinkAssumption
<1>1. UNCHANGED <<tables, mach, wire>>
  BY DEF AppNext, StartConnect, CancelConnect, AppSend, AppRecv, AppDrop, AppClose
<1>2. /\ tables' \in [Peers -> Tables(Endpoints)] /\ TablesInv'
      /\ mach' \in [Peers -> MachineStates] /\ DeliverInv'
      /\ GoodWire(wire')
  BY <1>1, TypeParts DEF IInv, TablesInv, DeliverInv, AcceptsData, HasSocket
<1>3. /\ GoodChannels(chan) /\ chan \in [Endpoints -> Channels]
      /\ conns_rx \in [Peers -> Seq(Clients)] /\ cli \in [Clients -> Outcomes]
  BY TypeParts DEF IInv, GoodChannels
<1> DEFINE Good == /\ conns_rx' \in [Peers -> Seq(Clients)]
                   /\ cli' \in [Clients -> Outcomes]
                   /\ GoodChannels(chan')
<1>4. ASSUME NEW c \in Clients, StartConnect(c) PROVE Good
  <2>1. GoodChannels(chan')
    BY <1>3, <1>4, EndsOK, ChannelTypes, ChanUpdate DEF StartConnect
  <2> QED BY <1>3, <1>4, <2>1 DEF StartConnect, Outcomes
<1>5. ASSUME NEW c \in Clients, CancelConnect(c) PROVE Good
  <2>1. GoodChannels(chan')
    BY <1>3, <1>5, EndsOK, DropAppOK DEF CancelConnect
  <2> QED BY <1>3, <1>5, <2>1 DEF CancelConnect, Outcomes
<1>6. ASSUME NEW e \in Endpoints, AppSend(e) PROVE Good
  <2> DEFINE n == chan[e].sent + 1
             msg == [src |-> e, n |-> n]
             r == Enqueue(chan[e], msg)
  <2>1. /\ chan[e] \in Channels /\ chan[e].sent \in 0 .. MaxMsgs
        /\ chan[e].outq \in Seq(Payloads) /\ Len(chan[e].got) - chan[e].read \in 0 .. ChanCap
    BY <1>3 DEF Channels, GoodChannels, GoodChannel
  <2>2. n \in 0 .. MaxMsgs /\ msg \in Payloads /\ Len(chan[e].outq) < ChanCap
    BY <1>6, <2>1 DEF AppSend, Payloads
  <2>3. /\ Append(chan[e].outq, msg) \in Seq(Payloads)
        /\ Len(Append(chan[e].outq, msg)) <= ChanCap
    BY <2>1, <2>2
  <2>4. /\ r \in Channels /\ r.outq = Append(chan[e].outq, msg)
        /\ r.got = chan[e].got /\ r.read = chan[e].read
    BY <2>1, <2>2, <2>3 DEF Channels, Enqueue
  <2>5. GoodChannel(r)
    <3> HIDE DEF r
    <3> QED BY <2>1, <2>3, <2>4 DEF GoodChannel
  <2>6. chan' = [chan EXCEPT ![e] = r]
    BY <1>6 DEF AppSend
  <2>7. GoodChannels(chan')
    <3> HIDE DEF r
    <3> QED BY <1>3, <2>5, <2>6, ChanUpdate
  <2> QED BY <1>3, <1>6, <2>7 DEF AppSend
<1>7. ASSUME NEW e \in Endpoints, AppRecv(e) PROVE Good
  BY <1>3, <1>7, ReadOK DEF AppRecv
<1>8. ASSUME NEW e \in Endpoints, AppDrop(e) PROVE Good
  BY <1>3, <1>8, DropAppOK DEF AppDrop
<1>9. ASSUME NEW e \in Endpoints, AppClose(e) PROVE Good
  <2>1. "GoAway" \in Reasons
    BY DEF Reasons
  <2>2. chan' = CloseWithError(chan, e, "GoAway") /\ UNCHANGED <<conns_rx, cli>>
    BY <1>9 DEF AppClose
  <2>3. GoodChannels(chan')
    BY <1>3, <2>1, <2>2, CloseOK
  <2> QED BY <1>3, <2>2, <2>3
<1>10. Good
  BY <1>4, <1>5, <1>6, <1>7, <1>8, <1>9 DEF AppNext
<1> QED BY <1>2, <1>10, NextTypeParts DEF IInv

----------------------------------------------------------------------------
(***************************************************************************)
(* Facts about the steps of a machine.                                     *)
(***************************************************************************)
LEMMA AnswerOK ==
  ASSUME cli \in [Clients -> Outcomes], NEW c \in Clients,
         NEW outcome \in Outcomes, Answer(c, outcome)
  PROVE  cli' \in [Clients -> Outcomes]
BY DEF Answer

LEMMA InboundOK ==
  ASSUME IInv, NEW p \in Peers, NEW type, Inbound(p, type)
  PROVE  /\ InFrame(p) \in Frames /\ InFrame(p).type = type
         /\ GoodWire(wire')
         /\ mach[p] = Selecting
<1> DEFINE q == Other(p)
<1>1. q \in Peers /\ GoodWire(wire)
  BY OtherPeer, TypeParts DEF IInv
<1>2. /\ mach[p] = Selecting /\ wire[q] # <<>> /\ Head(wire[q]).type = type
      /\ wire' = [wire EXCEPT ![q] = Tail(@)] /\ InFrame(p) = Head(wire[q])
  BY DEF Inbound, InFrame
<1> HIDE DEF q
<1>3. wire[q] \in Seq(Frames) /\ Len(wire[q]) <= WireCap /\ WireCap \in Nat
  BY <1>1, LinkAssumption DEF GoodWire
<1>4. /\ Head(wire[q]) \in Frames /\ Tail(wire[q]) \in Seq(Frames)
      /\ Len(Tail(wire[q])) <= WireCap
  BY <1>2, <1>3
<1>5. GoodWire(wire')
  BY <1>1, <1>2, <1>4 DEF GoodWire
<1> QED BY <1>2, <1>4, <1>5

LEMMA CleanedOK ==
  ASSUME IInv, NEW p \in Peers
  PROVE  /\ Cleaned(p) \in Tables(Endpoints) /\ FreeListOK(Cleaned(p))
         /\ GoodChannels(CleanedChan(p))
<1>1. tables[p] \in Tables(Endpoints) /\ FreeListOK(tables[p]) /\ GoodChannels(chan)
  BY TypeParts DEF IInv, TablesInv
<1> QED BY <1>1, CleanupOK, DropSocketOK DEF Cleaned, CleanedChan

LEMMA ReadyOK ==
  ASSUME IInv, NEW p \in Peers, NEW i \in Ids, FirstReady(p, i)
  PROVE  /\ Cleaned(p).conns[i].tag = "Open"
         /\ Cleaned(p).conns[i].chan \in Endpoints
         /\ Cleaned(p).conns[i].remote_id \in Ids
<1>1. Cleaned(p).conns[i].tag = "Open"
  BY DEF FirstReady, ReadyIds
<1>2. Cleaned(p).conns[i] \in Entries(Endpoints)
  BY CleanedOK DEF Tables
<1> QED BY <1>1, <1>2, EntryFields DEF Occupied

\* What the parts of IInv say of a step of one machine: its table becomes a
\* well-formed one and it goes on to select or to send.
LEMMA StepInv ==
  ASSUME IInv, NEW p \in Peers,
         NEW u \in Tables(Endpoints), FreeListOK(u),
         tables' = [tables EXCEPT ![p] = u],
         NEW m \in MachineStates, m.at # "deliver",
         mach' = [mach EXCEPT ![p] = m],
         GoodWire(wire'),
         conns_rx' \in [Peers -> Seq(Clients)],
         cli' \in [Clients -> Outcomes],
         GoodChannels(chan')
  PROVE  IInv'
<1>1. /\ tables \in [Peers -> Tables(Endpoints)] /\ TablesInv
      /\ mach \in [Peers -> MachineStates] /\ DeliverInv
  BY TypeParts DEF IInv
<1>2. /\ tables' \in [Peers -> Tables(Endpoints)] /\ TablesInv'
      /\ \A q \in Peers \ {p} : tables'[q] = tables[q]
  BY <1>1, TableStep
<1>3. mach' \in [Peers -> MachineStates] /\ DeliverInv'
  BY <1>1, <1>2, MachStep
<1> QED BY <1>2, <1>3, NextTypeParts DEF IInv

\* The values IInv gives the variables of one machine.
LEMMA Now ==
  ASSUME IInv, NEW p \in Peers
  PROVE  /\ tables \in [Peers -> Tables(Endpoints)]
         /\ tables[p] \in Tables(Endpoints) /\ FreeListOK(tables[p])
         /\ tables = [tables EXCEPT ![p] = tables[p]]
         /\ mach \in [Peers -> MachineStates] /\ mach[p] \in MachineStates
         /\ mach = [mach EXCEPT ![p] = mach[p]]
         /\ GoodWire(wire) /\ GoodChannels(chan)
         /\ conns_rx \in [Peers -> Seq(Clients)] /\ cli \in [Clients -> Outcomes]
BY TypeParts DEF IInv, TablesInv

----------------------------------------------------------------------------
(***************************************************************************)
(* Every action of a machine keeps the invariant.                          *)
(***************************************************************************)
LEMMA OutboundDataInv ==
  ASSUME IInv, NEW p \in Peers, OutboundData(p)
  PROVE  IInv'
<1>1. PICK i \in Ids :
        LET sock == Cleaned(p).conns[i]
        IN  /\ FirstReady(p, i)
            /\ chan[sock.chan].outq # <<>>
            /\ chan' = [CleanedChan(p) EXCEPT ![sock.chan] = Dequeue(@)]
            /\ tables' = [tables EXCEPT ![p] = Cleaned(p)]
            /\ mach' = [mach EXCEPT ![p] =
                  Sending(data(sock.remote_id, i, Head(chan[sock.chan].outq)))]
  BY DEF OutboundData
<1> DEFINE sock == Cleaned(p).conns[i]
           e == sock.chan
           f == data(sock.remote_id, i, Head(chan[e].outq))
<1>2. e \in Endpoints /\ sock.remote_id \in Ids
  BY <1>1, ReadyOK
<1>3. /\ GoodChannels(chan) /\ GoodChannels(CleanedChan(p))
      /\ CleanedChan(p)[e].outq = chan[e].outq
  <2>1. GoodChannels(chan) /\ GoodChannels(CleanedChan(p))
    BY Now, CleanedOK
  <2>2. CleanedChan(p)[e].outq = chan[e].outq
    <3>1. \A d : [chan EXCEPT ![d].held = FALSE][e].outq = chan[e].outq
      BY <1>2, <2>1 DEF GoodChannels, Channels
    <3> QED BY <3>1 DEF CleanedChan, DropSocket
  <2> QED BY <2>1, <2>2
<1>4. f \in Frames
  <2>1. chan[e].outq \in Seq(Payloads) /\ chan[e].outq # <<>>
    BY <1>1, <1>2, <1>3 DEF GoodChannels, Channels
  <2>2. Head(chan[e].outq) \in Payloads
    BY <2>1
  <2> HIDE DEF sock, e
  <2> QED BY <1>2, <2>2 DEF Frames, data
<1>5. GoodChannels(chan')
  <2> DEFINE ch == CleanedChan(p)
             r == [ch[e] EXCEPT !.outq = Tail(@)]
  <2>1. /\ ch[e] \in Channels /\ GoodChannel(ch[e]) /\ ch[e].outq # <<>>
        /\ ch[e].outq \in Seq(Payloads)
    BY <1>1, <1>2, <1>3 DEF GoodChannels, Channels
  <2>2. Tail(ch[e].outq) \in Seq(Payloads) /\ Len(Tail(ch[e].outq)) <= ChanCap
    BY <2>1, LinkAssumption DEF GoodChannel
  <2>3. /\ r \in Channels /\ r.outq = Tail(ch[e].outq)
        /\ r.got = ch[e].got /\ r.read = ch[e].read
    BY <2>1, <2>2 DEF Channels
  <2>4. GoodChannel(r)
    <3> HIDE DEF r
    <3> QED BY <2>1, <2>2, <2>3 DEF GoodChannel
  <2>5. chan' = [ch EXCEPT ![e] = r]
    BY <1>1 DEF Dequeue
  <2> HIDE DEF r, ch, e
  <2> QED BY <1>2, <1>3, <2>4, <2>5, ChanUpdate DEF ch
<1>6. UNCHANGED <<wire, conns_rx, cli>>
  BY DEF OutboundData
<1>7. /\ tables' = [tables EXCEPT ![p] = Cleaned(p)]
      /\ mach' = [mach EXCEPT ![p] = Sending(f)]
  BY <1>1
<1> HIDE DEF f, e, sock
<1> QED BY <1>4, <1>5, <1>6, <1>7, CleanedOK, MachineTypes, Now, StepInv

LEMMA OutboundResetInv ==
  ASSUME IInv, NEW p \in Peers, OutboundReset(p)
  PROVE  IInv'
<1>1. PICK i \in Ids :
        LET sock == Cleaned(p).conns[i]
        IN  /\ FirstReady(p, i)
            /\ chan' = CleanedChan(p)
            /\ tables' = [tables EXCEPT ![p] = [Cleaned(p) EXCEPT !.dead_index = i]]
            /\ mach' = [mach EXCEPT ![p] =
                  Sending(reset(sock.remote_id, CloseReason(chan[sock.chan])))]
  BY DEF OutboundReset
<1> DEFINE sock == Cleaned(p).conns[i]
           f == reset(sock.remote_id, CloseReason(chan[sock.chan]))
           u == [Cleaned(p) EXCEPT !.dead_index = i]
<1>2. sock.chan \in Endpoints /\ sock.remote_id \in Ids
  BY <1>1, ReadyOK
<1>3. CloseReason(chan[sock.chan]) \in Reasons
  BY <1>2, Now, CloseReasonOK DEF GoodChannels
<1>4. f \in Frames
  BY <1>2, <1>3 DEF Frames, reset
<1>5. u \in Tables(Endpoints) /\ FreeListOK(u)
  BY CleanedOK, MarkOK
<1>6. UNCHANGED <<wire, conns_rx, cli>> /\ GoodChannels(chan')
  BY <1>1, CleanedOK DEF OutboundReset
<1>7. /\ tables' = [tables EXCEPT ![p] = u]
      /\ mach' = [mach EXCEPT ![p] = Sending(f)]
  BY <1>1
<1> HIDE DEF f, u, sock
<1> QED BY <1>4, <1>5, <1>6, <1>7, MachineTypes, Now, StepInv

LEMMA PollPendingInv ==
  ASSUME IInv, NEW p \in Peers, PollPending(p)
  PROVE  IInv'
<1>1. /\ mach[p] = Selecting /\ UNCHANGED <<mach, wire, conns_rx, cli>>
      /\ tables' = [tables EXCEPT ![p] = Cleaned(p)] /\ chan' = CleanedChan(p)
  BY DEF PollPending
<1>2. mach[p].at # "deliver" /\ mach[p] \in MachineStates
  BY <1>1, Now DEF Selecting
<1>3. mach' = [mach EXCEPT ![p] = mach[p]]
  BY <1>1, Now
<1> QED BY <1>1, <1>2, <1>3, CleanedOK, Now, StepInv

LEMMA StartConnectingInv ==
  ASSUME IInv, NEW p \in Peers, StartConnecting(p)
  PROVE  IInv'
<1> DEFINE c == Head(conns_rx[p])
           t == Cleaned(p)
           id == reserve_id(t)
<1>1. /\ mach[p] = Selecting /\ UNCHANGED wire
      /\ conns_rx[p] # <<>>
      /\ conns_rx' = [conns_rx EXCEPT ![p] = Tail(@)]
  BY DEF StartConnecting
<1>2. c \in Clients /\ conns_rx' \in [Peers -> Seq(Clients)]
  BY <1>1, Now
<1>3. mach[p].at # "deliver" /\ mach[p] \in MachineStates
  BY <1>1, Now DEF Selecting
<1>4. GoodWire(wire')
  BY <1>1, Now
<1>5. CASE id = NoId
  <2>1. /\ Answer(c, "rejected") /\ UNCHANGED mach
        /\ chan' = [CleanedChan(p) EXCEPT ![<<c, "client">>].held = FALSE]
        /\ tables' = [tables EXCEPT ![p] = t]
    BY <1>5 DEF StartConnecting
  <2>2. cli' \in [Clients -> Outcomes]
    BY <1>2, <2>1, Now, AnswerOK DEF Outcomes
  <2>3. GoodChannels(chan')
    BY <1>2, <2>1, CleanedOK, EndsOK, UnholdOK
  <2>4. mach' = [mach EXCEPT ![p] = mach[p]]
    BY <2>1, Now
  <2> QED BY <1>2, <1>3, <1>4, <2>1, <2>2, <2>3, <2>4, CleanedOK, StepInv
<1>6. CASE id # NoId
  <2> DEFINE u == insert_at(t, id, Connecting(<<c, "client">>))
             f == connect(id, c)
  <2>1. /\ tables' = [tables EXCEPT ![p] = u] /\ UNCHANGED cli
        /\ chan' = CleanedChan(p)
        /\ mach' = [mach EXCEPT ![p] = Sending(f)]
    BY <1>6 DEF StartConnecting
  <2>2. id \in Ids
    BY <1>6, CleanedOK, ReserveOK DEF InsertIsSafe
  <2>3. f \in Frames
    BY <1>2, <2>2 DEF Frames, connect
  <2>4. /\ Connecting(<<c, "client">>) \in Entries(Endpoints)
        /\ Occupied(Connecting(<<c, "client">>))
    BY <1>2, EndsOK DEF Connecting, Entries, Occupied
  <2>5. u \in Tables(Endpoints) /\ FreeListOK(u)
    BY <1>6, <2>4, CleanedOK, InsertOK
  <2>6. cli' \in [Clients -> Outcomes] /\ GoodChannels(chan')
    BY <2>1, Now, CleanedOK
  <2> HIDE DEF f, u
  <2> QED BY <1>2, <1>4, <2>1, <2>3, <2>5, <2>6, MachineTypes, StepInv
<1> QED BY <1>5, <1>6

LEMMA RecvDataInv ==
  ASSUME IInv, NEW p \in Peers, RecvData(p)
  PROVE  IInv'
<1> DEFINE f == InFrame(p)
<1>1. /\ f \in Frames /\ f.type = "DATA" /\ GoodWire(wire')
      /\ f.local_id \in Ids
  <2>1. Inbound(p, "DATA")
    BY DEF RecvData
  <2> QED BY <2>1, InboundOK, FrameFields
<1>2. UNCHANGED <<tables, conns_rx, cli, chan>>
  BY DEF RecvData
<1>3. CASE AcceptsData(tables[p], f)
  <2>1. mach' = [mach EXCEPT ![p] = Delivering(f)]
    BY <1>3 DEF RecvData
  <2>2. mach' \in [Peers -> MachineStates]
    BY <1>1, <2>1, Now, MachineTypes
  <2>3. DeliverInv'
    <3> SUFFICES ASSUME NEW q \in Peers, mach'[q].at = "deliver"
                 PROVE  /\ mach'[q].frame.type = "DATA"
                        /\ AcceptsData(tables[q], mach'[q].frame)
      BY <1>2 DEF DeliverInv, AcceptsData, HasSocket
    <3>1. CASE q = p
      <4>1. mach'[q].frame = f
        BY <3>1, <2>1, <1>1, Now, MachineTypes
      <4> QED BY <4>1, <3>1, <1>1, <1>3
    <3>2. CASE q # p
      <4>1. mach'[q] = mach[q]
        BY <3>2, <2>1, Now
      <4> QED BY <4>1 DEF IInv, DeliverInv
    <3> QED BY <3>1, <3>2
  <2>4. tables' \in [Peers -> Tables(Endpoints)] /\ TablesInv'
    BY <1>2, Now DEF IInv, TablesInv
  <2> QED BY <1>1, <1>2, <2>2, <2>3, <2>4, Now, NextTypeParts DEF IInv
<1>4. CASE ~AcceptsData(tables[p], f)
  <2> DEFINE g == reset(f.local_id, "NoSuchConn")
  <2>1. mach' = [mach EXCEPT ![p] = Sending(g)]
    BY <1>4 DEF RecvData, RespondWith
  <2>2. g \in Frames
    BY <1>1 DEF Frames, reset, Reasons
  <2>3. tables' = [tables EXCEPT ![p] = tables[p]]
    BY <1>2, Now
  <2> HIDE DEF f, g
  <2> QED BY <1>1, <1>2, <2>1, <2>2, <2>3, MachineTypes, Now, StepInv
<1> QED BY <1>3, <1>4

\* What a machine that is delivering a frame knows of it.
LEMMA DeliverFacts ==
  ASSUME IInv, NEW p \in Peers, mach[p].at = "deliver"
  PROVE  LET f == mach[p].frame
         IN  /\ f \in Frames /\ f.type = "DATA"
             /\ f.local_id \in Ids /\ f.remote_id \in Ids /\ f.body \in Payloads
             /\ tables[p].conns[f.remote_id].chan \in Endpoints
<1> DEFINE f == mach[p].frame
<1>1. f \in Frames /\ f.type = "DATA" /\ AcceptsData(tables[p], f)
  BY Now, MachineFields DEF IInv, DeliverInv
<1>2. f.local_id \in Ids /\ f.remote_id \in Ids /\ f.body \in Payloads
  BY <1>1, FrameFields
<1>3. tables[p].conns[f.remote_id].chan \in Endpoints
  <2>1. tables[p].conns[f.remote_id] \in Entries(Endpoints)
    BY <1>2, Now DEF Tables
  <2> QED BY <1>1, <2>1, EntryFields DEF AcceptsData, HasSocket
<1> QED BY <1>1, <1>2, <1>3

LEMMA DeliverOkInv ==
  ASSUME IInv, NEW p \in Peers, DeliverOk(p)
  PROVE  IInv'
<1> DEFINE f == mach[p].frame
           e == tables[p].conns[f.remote_id].chan
<1>1. /\ mach[p].at = "deliver" /\ HasRoom(chan[e])
      /\ chan' = [chan EXCEPT ![e].got = Append(@, f.body)]
      /\ mach' = [mach EXCEPT ![p] = Selecting]
      /\ UNCHANGED <<tables, wire, conns_rx, cli>>
  BY DEF DeliverOk
<1>2. e \in Endpoints /\ f.body \in Payloads /\ f \in Frames
  BY <1>1, DeliverFacts
<1>3. GoodChannels(chan')
  <2> HIDE DEF e, f
  <2> QED BY <1>1, <1>2, Now, GotOK
<1>4. tables' = [tables EXCEPT ![p] = tables[p]]
  BY <1>1, Now
<1> QED BY <1>1, <1>2, <1>3, <1>4, Now, MachineTypes, StepInv

LEMMA DeliverFailsInv ==
  ASSUME IInv, NEW p \in Peers, DeliverFails(p)
  PROVE  IInv'
<1> DEFINE f == mach[p].frame
           e == tables[p].conns[f.remote_id].chan
           reason == IF Hungup(chan[e]) THEN CloseReason(chan[e])
                     ELSE "YouDoneGoofed"
           u == remove(tables[p], f.remote_id)
           g == reset(f.local_id, reason)
<1>1. /\ mach[p].at = "deliver"
      /\ tables' = [tables EXCEPT ![p] = u]
      /\ chan' = DropSocket(chan, tables[p], f.remote_id)
      /\ mach' = [mach EXCEPT ![p] = Sending(g)]
      /\ UNCHANGED <<wire, conns_rx, cli>>
  BY DEF DeliverFails, RespondWith
<1>2. e \in Endpoints /\ f.local_id \in Ids
  BY <1>1, DeliverFacts
<1>3. reason \in Reasons
  BY <1>2, Now, CloseReasonOK DEF GoodChannels, Reasons
<1>4. g \in Frames
  <2> HIDE DEF reason
  <2> QED BY <1>2, <1>3 DEF Frames, reset
<1>5. u \in Tables(Endpoints) /\ FreeListOK(u) /\ GoodChannels(chan')
  BY <1>1, Now, RemoveOK, DropSocketOK
<1> HIDE DEF u, g, f
<1> QED BY <1>1, <1>4, <1>5, Now, MachineTypes, StepInv

\* The endpoint of a socket is an endpoint of a client.
LEMMA SocketEnd ==
  ASSUME NEW t \in Tables(Endpoints), NEW id, HasSocket(t, id)
  PROVE  /\ t.conns[id].chan \in Endpoints
         /\ t.conns[id].chan[1] \in Clients
<1>1. t.conns[id].chan \in Endpoints
  BY EntryFields DEF HasSocket, Tables
<1> QED BY <1>1 DEF Endpoints

LEMMA RecvAckInv ==
  ASSUME IInv, NEW p \in Peers, RecvAck(p)
  PROVE  IInv'
<1> DEFINE f == InFrame(p)
           id == f.remote_id
           t == tables[p]
<1>1. /\ f \in Frames /\ GoodWire(wire') /\ mach[p] = Selecting
      /\ f.local_id \in Ids /\ id \in Ids
  <2>1. Inbound(p, "ACK")
    BY DEF RecvAck
  <2> QED BY <2>1, InboundOK, FrameFields
<1>2. /\ UNCHANGED <<conns_rx, chan>>
      /\ t \in Tables(Endpoints) /\ FreeListOK(t) /\ tables = [tables EXCEPT ![p] = t]
  BY Now DEF RecvAck
<1>3. \A reason \in Reasons : /\ reset(f.local_id, reason) \in Frames
                              /\ Sending(reset(f.local_id, reason)) \in MachineStates
                              /\ Sending(reset(f.local_id, reason)).at # "deliver"
  BY <1>1, MachineTypes DEF Frames, reset
<1>4. ASSUME NEW reason \in Reasons, RespondWith(p, reset(f.local_id, reason)),
             UNCHANGED <<tables, cli>>
      PROVE  IInv'
  BY <1>1, <1>2, <1>3, <1>4, Now, StepInv DEF RespondWith
<1>5. CASE ~HasSocket(t, id)
  BY <1>4, <1>5 DEF RecvAck, Reasons
<1>6. CASE HasSocket(t, id) /\ t.conns[id].tag = "Open"
  BY <1>4, <1>6 DEF RecvAck, Reasons
<1>7. CASE HasSocket(t, id) /\ t.conns[id].tag = "Connecting"
  <2> DEFINE e == t.conns[id].chan
             sock == Open(f.local_id, e)
             u == [t EXCEPT !.conns[id] = sock]
  <2>1. /\ tables' = [tables EXCEPT ![p].conns[id] = sock]
        /\ Answer(e[1], "connected")
        /\ UNCHANGED mach
    BY <1>7 DEF RecvAck
  <2>2. e \in Endpoints /\ e[1] \in Clients
    BY <1>2, <1>7, SocketEnd
  <2>3. sock \in Entries(Endpoints) /\ Occupied(sock)
    BY <1>1, <2>2 DEF Open, Entries, Occupied
  <2>4. u \in Tables(Endpoints) /\ FreeListOK(u)
    <3> HIDE DEF sock
    <3> QED BY <1>1, <1>2, <1>7, <2>3, ReplaceOK DEF Occupied
  <2>5. tables' = [tables EXCEPT ![p] = u]
    BY <2>1
  <2>6. cli' \in [Clients -> Outcomes]
    BY <2>1, <2>2, Now, AnswerOK DEF Outcomes
  <2>7. \E m \in MachineStates : m.at # "deliver" /\ mach' = [mach EXCEPT ![p] = m]
    <3>1. mach' = [mach EXCEPT ![p] = mach[p]]
      BY <2>1, Now
    <3>2. mach[p].at # "deliver"
      BY <1>1 DEF Selecting
    <3> QED BY <3>1, <3>2, Now
  <2>8. PICK m \in MachineStates : m.at # "deliver" /\ mach' = [mach EXCEPT ![p] = m]
    BY <2>7
  <2>9. GoodChannels(chan') /\ conns_rx' \in [Peers -> Seq(Clients)]
    BY <1>2, Now
  <2> HIDE DEF u
  <2> QED BY <1>1, <2>4, <2>5, <2>6, <2>8, <2>9, StepInv
<1> QED BY <1>5, <1>6, <1>7 DEF RecvAck

\* REJECT and RESET remove the socket and go back to select.
LEMMA RemovalInv ==
  ASSUME IInv, NEW p \in Peers, NEW id,
         tables' = [tables EXCEPT ![p] = remove(tables[p], id)],
         UNCHANGED <<mach, conns_rx>>, mach[p] = Selecting,
         GoodWire(wire'), GoodChannels(chan'), cli' \in [Clients -> Outcomes]
  PROVE  IInv'
<1>1. mach' = [mach EXCEPT ![p] = mach[p]] /\ mach[p] \in MachineStates
  BY Now
<1>2. mach[p].at # "deliver"
  BY DEF Selecting
<1>3. /\ remove(tables[p], id) \in Tables(Endpoints)
      /\ FreeListOK(remove(tables[p], id))
  BY Now, RemoveOK
<1> QED BY <1>1, <1>2, <1>3, Now, StepInv

LEMMA RecvRejectInv ==
  ASSUME IInv, NEW p \in Peers, RecvReject(p)
  PROVE  IInv'
<1> DEFINE id == InFrame(p).remote_id
           t == tables[p]
<1>1. GoodWire(wire') /\ mach[p] = Selecting
  <2>1. Inbound(p, "REJECT")
    BY DEF RecvReject
  <2> QED BY <2>1, InboundOK
<1>2. /\ tables' = [tables EXCEPT ![p] = remove(t, id)]
      /\ chan' = DropSocket(chan, t, id)
      /\ IF HasSocket(t, id) /\ t.conns[id].tag = "Connecting"
         THEN Answer(t.conns[id].chan[1], "rejected")
         ELSE UNCHANGED cli
      /\ UNCHANGED <<mach, conns_rx>>
  BY DEF RecvReject
<1>3. GoodChannels(chan')
  BY <1>2, Now, DropSocketOK
<1>4. cli' \in [Clients -> Outcomes]
  <2>1. CASE HasSocket(t, id) /\ t.conns[id].tag = "Connecting"
    BY <1>2, <2>1, Now, SocketEnd, AnswerOK DEF Outcomes
  <2>2. CASE ~(HasSocket(t, id) /\ t.conns[id].tag = "Connecting")
    BY <1>2, <2>2, Now
  <2> QED BY <2>1, <2>2
<1> QED BY <1>1, <1>2, <1>3, <1>4, RemovalInv

LEMMA RecvResetInv ==
  ASSUME IInv, NEW p \in Peers, RecvReset(p)
  PROVE  IInv'
<1> DEFINE f == InFrame(p)
           id == f.remote_id
           t == tables[p]
<1>1. GoodWire(wire') /\ mach[p] = Selecting /\ f.reason \in Reasons
  <2>1. Inbound(p, "RESET")
    BY DEF RecvReset
  <2> QED BY <2>1, InboundOK, FrameFields
<1>2. /\ tables' = [tables EXCEPT ![p] = remove(t, id)]
      /\ IF HasSocket(t, id) /\ t.conns[id].tag = "Connecting"
         THEN Answer(t.conns[id].chan[1], "orphaned")
         ELSE UNCHANGED cli
      /\ chan' = IF HasSocket(t, id) /\ t.conns[id].tag = "Open"
                 THEN CloseWithError(DropSocket(chan, t, id),
                                     t.conns[id].chan, f.reason)
                 ELSE DropSocket(chan, t, id)
      /\ UNCHANGED <<mach, conns_rx>>
  BY DEF RecvReset
<1>3. GoodChannels(DropSocket(chan, t, id))
  BY Now, DropSocketOK
<1>4. GoodChannels(chan')
  BY <1>1, <1>2, <1>3, Now, SocketEnd, CloseOK
<1>5. cli' \in [Clients -> Outcomes]
  <2>1. CASE HasSocket(t, id) /\ t.conns[id].tag = "Connecting"
    BY <1>2, <2>1, Now, SocketEnd, AnswerOK DEF Outcomes
  <2>2. CASE ~(HasSocket(t, id) /\ t.conns[id].tag = "Connecting")
    BY <1>2, <2>2, Now
  <2> QED BY <2>1, <2>2
<1> QED BY <1>1, <1>2, <1>4, <1>5, RemovalInv

LEMMA RecvConnectRejectedInv ==
  ASSUME IInv, NEW p \in Peers, RecvConnectRejected(p)
  PROVE  IInv'
<1> DEFINE g == reject(InFrame(p).local_id)
<1>1. GoodWire(wire') /\ InFrame(p).local_id \in Ids
  <2>1. Inbound(p, "CONNECT")
    BY DEF RecvConnectRejected
  <2> QED BY <2>1, InboundOK, FrameFields
<1>2. g \in Frames
  BY <1>1 DEF Frames, reject
<1>3. mach' = [mach EXCEPT ![p] = Sending(g)] /\ UNCHANGED <<tables, conns_rx, cli, chan>>
  BY DEF RecvConnectRejected, RespondWith
<1>4. tables' = [tables EXCEPT ![p] = tables[p]]
  BY <1>3, Now
<1> HIDE DEF g
<1> QED BY <1>1, <1>2, <1>3, <1>4, Now, MachineTypes, StepInv

LEMMA RecvConnectAcceptedInv ==
  ASSUME IInv, NEW p \in Peers, RecvConnectAccepted(p)
  PROVE  IInv'
<1> DEFINE f == InFrame(p)
           e == <<f.conn, "server">>
           t == tables[p]
           id == reserve_id(t)
<1>1. /\ GoodWire(wire') /\ f.local_id \in Ids /\ e \in Endpoints
  <2>1. Inbound(p, "CONNECT")
    BY DEF RecvConnectAccepted
  <2> QED BY <2>1, InboundOK, FrameFields, EndsOK
<1>2. UNCHANGED <<conns_rx, cli>>
  BY DEF RecvConnectAccepted
<1>3. CASE id = NoId
  <2> DEFINE g == reject(f.local_id)
  <2>1. /\ chan' = [chan EXCEPT ![e] = [NewChannel EXCEPT !.held = FALSE]]
        /\ mach' = [mach EXCEPT ![p] = Sending(g)]
        /\ UNCHANGED tables
    BY <1>3 DEF RecvConnectAccepted, RespondWith
  <2>2. g \in Frames
    BY <1>1 DEF Frames, reject
  <2>3. GoodChannels(chan')
    BY <1>1, <2>1, Now, ChannelTypes, ChanUpdate
  <2>4. tables' = [tables EXCEPT ![p] = t]
    BY <2>1, Now
  <2> HIDE DEF g
  <2> QED BY <1>1, <1>2, <2>1, <2>2, <2>3, <2>4, Now, MachineTypes, StepInv
<1>4. CASE id # NoId
  <2> DEFINE g == ack(id, f.local_id)
             sock == Open(f.local_id, e)
             u == insert_at(t, id, sock)
  <2>1. /\ chan' = [chan EXCEPT ![e] = NewChannel]
        /\ mach' = [mach EXCEPT ![p] = Sending(g)]
        /\ tables' = [tables EXCEPT ![p] = u]
    BY <1>4 DEF RecvConnectAccepted, RespondWith
  <2>2. id \in Ids
    BY <1>4, Now, ReserveOK DEF InsertIsSafe
  <2>3. g \in Frames
    BY <1>1, <2>2 DEF Frames, ack
  <2>4. sock \in Entries(Endpoints) /\ Occupied(sock)
    BY <1>1 DEF Open, Entries, Occupied
  <2>5. u \in Tables(Endpoints) /\ FreeListOK(u)
    <3> HIDE DEF sock
    <3> QED BY <1>4, <2>4, Now, InsertOK
  <2>6. GoodChannels(chan')
    BY <1>1, <2>1, Now, ChannelTypes, ChanUpdate
  <2> HIDE DEF g, u
  <2> QED BY <1>1, <1>2, <2>1, <2>3, <2>5, <2>6, Now, MachineTypes, StepInv
<1> QED BY <1>3, <1>4

LEMMA WireSendInv ==
  ASSUME IInv, NEW p \in Peers, WireSend(p)
  PROVE  IInv'
<1> DEFINE f == mach[p].frame
<1>1. /\ mach[p].at = "send" /\ Len(wire[p]) < WireCap
      /\ wire' = [wire EXCEPT ![p] = Append(@, f)]
      /\ mach' = [mach EXCEPT ![p] = Selecting]
      /\ UNCHANGED <<tables, conns_rx, cli, chan>>
  BY DEF WireSend
<1>2. f \in Frames
  BY <1>1, Now, MachineFields
<1> HIDE DEF f
<1>3. /\ wire[p] \in Seq(Frames) /\ Append(wire[p], f) \in Seq(Frames)
      /\ Len(Append(wire[p], f)) <= WireCap
  BY <1>1, <1>2, Now, LinkAssumption DEF GoodWire
<1>4. GoodWire(wire')
  BY <1>1, <1>3, Now DEF GoodWire
<1>5. tables' = [tables EXCEPT ![p] = tables[p]]
  BY <1>1, Now
<1> QED BY <1>1, <1>2, <1>4, <1>5, Now, MachineTypes, StepInv

LEMMA WireFailsInv ==
  ASSUME IInv, NEW p \in Peers, WireFails(p)
  PROVE  IInv'
<1>1. /\ mach' = [mach EXCEPT ![p] = Selecting]
      /\ UNCHANGED <<tables, wire, conns_rx, cli, chan>>
  BY DEF WireFails
<1>2. Selecting \in MachineStates /\ Selecting.at # "deliver"
  BY DEF MachineStates, Selecting
<1>3. /\ tables' = [tables EXCEPT ![p] = tables[p]]
      /\ GoodWire(wire') /\ GoodChannels(chan')
  BY <1>1, Now
<1> QED BY <1>1, <1>2, <1>3, Now, StepInv

LEMMA NextInv == IInv /\ [Next]_vars => IInv'
<1> SUFFICES ASSUME IInv, [Next]_vars PROVE IInv'
  OBVIOUS
<1>1. CASE AppNext
  BY <1>1, AppInv
<1>2. ASSUME NEW p \in Peers, MachineStep(p) PROVE IInv'
  BY <1>2, OutboundDataInv, OutboundResetInv, PollPendingInv, StartConnectingInv,
     RecvDataInv, DeliverOkInv, DeliverFailsInv, RecvAckInv, RecvRejectInv,
     RecvResetInv, RecvConnectRejectedInv, RecvConnectAcceptedInv, WireSendInv
     DEF MachineStep
<1>3. ASSUME NEW p \in Peers, WireFails(p) PROVE IInv'
  BY <1>3, WireFailsInv
<1>4. CASE UNCHANGED vars
  BY <1>4 DEF vars, IInv, TypeOK, TablesInv, DeliverInv, AcceptsData, HasSocket
<1> QED BY <1>1, <1>2, <1>3, <1>4 DEF Next

----------------------------------------------------------------------------
\* No sequence of frames, requests and application calls takes a variable out
\* of its type, or a channel or a wire beyond its capacity.
THEOREM TypeCorrect == Spec => []TypeOK
<1>1. IInv => TypeOK
  BY DEF IInv
<1> QED BY <1>1, InitInv, NextInv, PTL DEF Spec

\* The free list of every table stays well formed and its length exact,
\* whatever `Machine::run` inserts and removes and in whatever order.
THEOREM TablesCorrect == Spec => []TablesOK
<1>1. IInv => TablesOK
  BY Now, LenOK DEF IInv, TablesInv, TablesOK
<1> QED BY <1>1, InitInv, NextInv, PTL DEF Spec

\* `insert_at` never panics: neither on a missing or an occupied entry nor by
\* running out of IDs, when the capacity is below the largest ID.
THEOREM InsertsCorrect == Spec => []InsertsAreSafe
<1>1. IInv => InsertsAreSafe
  BY Now, ReserveOK DEF InsertsAreSafe
<1> QED BY <1>1, InitInv, NextInv, PTL DEF Spec

----------------------------------------------------------------------------
(***************************************************************************)
(* The streams.  A message goes through the sender's channel, its machine, *)
(* the wire and the other machine into a channel of some application; the  *)
(* request of a client goes ahead of its messages, as number 0 of the      *)
(* client's stream.  What is under way or delivered stands at one of six   *)
(* stages, the furthest first.                                             *)
(***************************************************************************)
Items == [src : Endpoints, n : 0 .. MaxMsgs]
RequestOf(c) == [src |-> <<c, "client">>, n |-> 0]
Carries(f) == f.type \in {"CONNECT", "DATA"}
Item(f) == IF f.type = "CONNECT" THEN RequestOf(f.conn) ELSE f.body

InGot(ch, x) ==
  \E e \in Endpoints : \E k \in 1 .. Len(ch[e].got) : x = ch[e].got[k]
InDelivery(m, x) ==
  \E p \in Peers : m[p].at = "deliver" /\ x = m[p].frame.body
OnWire(w, x) ==
  \E p \in Peers : \E k \in 1 .. Len(w[p]) :
    Carries(w[p][k]) /\ x = Item(w[p][k])
InSending(m, x) ==
  \E p \in Peers :
    m[p].at = "send" /\ Carries(m[p].frame) /\ x = Item(m[p].frame)
InRequests(r, x) ==
  \E p \in Peers : \E k \in 1 .. Len(r[p]) : x = RequestOf(r[p][k])
InQueue(ch, x) ==
  \E e \in Endpoints : \E k \in 1 .. Len(ch[e].outq) : x = ch[e].outq[k]

InStage(i, ch, m, w, r, x) ==
  \/ i = 1 /\ InGot(ch, x)
  \/ i = 2 /\ InDelivery(m, x)
  \/ i = 3 /\ OnWire(w, x)
  \/ i = 4 /\ InSending(m, x)
  \/ i = 5 /\ InRequests(r, x)
  \/ i = 6 /\ InQueue(ch, x)

Stages(ch, m, w, r) ==
  [i \in 1 .. 6 |-> {x \in Items : InStage(i, ch, m, w, r, x)}]

\* Of one sender's messages, the one that is further along comes first.
Precedes(x, y) == x.src = y.src => x.n < y.n
Ordered(st) ==
  \A i, j \in 1 .. 6 : i < j => \A x \in st[i], y \in st[j] : Precedes(x, y)

WireOrder(w) ==
  \A p \in Peers : \A j, k \in 1 .. Len(w[p]) :
    j < k /\ Carries(w[p][j]) /\ Carries(w[p][k])
      => Precedes(Item(w[p][j]), Item(w[p][k]))
QueueOrder(ch) ==
  \A e \in Endpoints : \A k \in 1 .. Len(ch[e].outq) :
    /\ ch[e].outq[k].src = e
    /\ \A j \in 1 .. Len(ch[e].outq) :
         j < k => ch[e].outq[j].n < ch[e].outq[k].n
RequestsOnce(r) ==
  \A p \in Peers : \A j, k \in 1 .. Len(r[p]) : j < k => r[p][j] # r[p][k]

Numbered(st, ch) == \A i \in 1 .. 6 : \A x \in st[i] : x.n <= ch[x.src].sent

\* A stream leaves through the machine its sender's end belongs to.
WireLocal(w) ==
  \A p \in Peers : \A k \in 1 .. Len(w[p]) :
    Carries(w[p][k]) => PeerOf(Item(w[p][k]).src) = p
MachLocal(m) ==
  \A p \in Peers :
    /\ m[p].at = "send" /\ Carries(m[p].frame)
         => PeerOf(Item(m[p].frame).src) = p
    /\ m[p].at = "deliver" => PeerOf(m[p].frame.body.src) = Other(p)
RequestsLocal(r) == \A p \in Peers : \A k \in 1 .. Len(r[p]) : Home[r[p][k]] = p
TablesLocal(tt) ==
  \A p \in Peers, i \in Ids :
    Occupied(tt[p].conns[i]) => PeerOf(tt[p].conns[i].chan) = p

\* A client's socket is made when its request is taken.
SocketsRequested(tt, cl, r) ==
  \A p \in Peers, i \in Ids, c \in Clients :
    Occupied(tt[p].conns[i]) /\ tt[p].conns[i].chan = <<c, "client">>
      => cl[c] # "idle" /\ ~InRequests(r, RequestOf(c))

Untouched(ch, e) == ch[e].app = "none" /\ ch[e].sent = 0
\* A request is made once, and the service's end exists only after it arrived.
Fresh(ch, cl, st) ==
  \A c \in Clients :
    /\ cl[c] = "idle" => ch[<<c, "client">>].sent = 0
       /\ Untouched(ch, <<c, "server">>)
    /\ \A i \in 3 .. 5 : RequestOf(c) \in st[i] =>
          cl[c] # "idle" /\ Untouched(ch, <<c, "server">>)

StreamInv ==
  LET st == Stages(chan, mach, wire, conns_rx)
  IN  /\ Ordered(st) /\ Numbered(st, chan) /\ Fresh(chan, cli, st)
      /\ WireOrder(wire) /\ QueueOrder(chan) /\ RequestsOnce(conns_rx)
      /\ WireLocal(wire) /\ MachLocal(mach) /\ RequestsLocal(conns_rx)
      /\ TablesLocal(tables) /\ SocketsRequested(tables, cli, conns_rx)

LEMMA SixStages ==
  1 .. 6 = {1, 2, 3, 4, 5, 6} /\ 3 .. 5 = {3, 4, 5}
OBVIOUS

\* A message goes on from stage b to stage a, ahead of all that stays behind.
LEMMA Move ==
  ASSUME NEW st, NEW su, NEW a \in 1 .. 6, NEW b \in 1 .. 6, a < b,
         NEW x \in st[b], Ordered(st),
         \A i \in 1 .. 6 : \A y \in su[i] : y \in st[i] \/ (i = a /\ y = x),
         \A i \in 1 .. 6 : a < i /\ i <= b => \A y \in su[i] : Precedes(x, y)
  PROVE  Ordered(su)
<1> SUFFICES ASSUME NEW i \in 1 .. 6, NEW j \in 1 .. 6, i < j,
                    NEW y \in su[i], NEW z \in su[j]
             PROVE  Precedes(y, z)
  BY DEF Ordered
<1>1. CASE y \in st[i] /\ z \in st[j]
  BY <1>1 DEF Ordered
<1>2. CASE i = a /\ y = x /\ j <= b
  BY <1>2
<1>3. CASE i = a /\ y = x /\ ~(j <= b)
  <2>1. z \in st[j] /\ b < j
    BY <1>3
  <2> QED BY <1>3, <2>1 DEF Ordered
<1>4. CASE j = a /\ z = x
  <2>1. y \in st[i] /\ i < b
    BY <1>4
  <2> QED BY <1>4, <2>1 DEF Ordered
<1>5. (y \in st[i] \/ (i = a /\ y = x)) /\ (z \in st[j] \/ (j = a /\ z = x))
  OBVIOUS
<1> QED BY ONLY <1>1, <1>2, <1>3, <1>4, <1>5

LEMMA Shrink ==
  ASSUME NEW st, NEW su, Ordered(st),
         \A i \in 1 .. 6 : \A y \in su[i] : y \in st[i]
  PROVE  Ordered(su)
BY DEF Ordered

\* A message that comes after all there is enters at stage b.
LEMMA Enter ==
  ASSUME NEW st, NEW su, NEW b \in 1 .. 6, NEW x, Ordered(st),
         \A i \in 1 .. 6 : \A y \in su[i] : y \in st[i] \/ (i = b /\ y = x),
         \A i \in 1 .. 6 : \A y \in su[i] : i < b => Precedes(y, x),
         \A i \in 1 .. 6 : \A y \in su[i] : b < i => Precedes(x, y)
  PROVE  Ordered(su)
<1> SUFFICES ASSUME NEW i \in 1 .. 6, NEW j \in 1 .. 6, i < j,
                    NEW y \in su[i], NEW z \in su[j]
             PROVE  Precedes(y, z)
  BY DEF Ordered
<1>1. CASE y \in st[i] /\ z \in st[j]
  BY <1>1 DEF Ordered
<1>2. CASE i = b /\ y = x
  BY <1>2
<1>3. CASE j = b /\ z = x
  BY <1>3
<1> QED BY ONLY <1>1, <1>2, <1>3,
           (y \in st[i] \/ (i = b /\ y = x)) /\ (z \in st[j] \/ (j = b /\ z = x))

----------------------------------------------------------------------------
(***************************************************************************)
(* What a step does to the stages, one variable at a time.                 *)
(***************************************************************************)
SameStreams(ch, cg) ==
  \A e \in Endpoints :
    /\ cg[e].sent = ch[e].sent /\ cg[e].outq = ch[e].outq /\ cg[e].got = ch[e].got
    /\ e[2] = "server" /\ ch[e].app = "none" => cg[e].app = "none"

LEMMA UpdateSame ==
  ASSUME NEW ch, GoodChannels(ch), NEW e \in Endpoints, NEW r,
         r.sent = ch[e].sent, r.outq = ch[e].outq, r.got = ch[e].got,
         e[2] = "server" /\ ch[e].app = "none" => r.app = "none"
  PROVE  SameStreams(ch, [ch EXCEPT ![e] = r])
<1>1. \A d \in Endpoints : [ch EXCEPT ![e] = r][d] = IF d = e THEN r ELSE ch[d]
  BY DEF GoodChannels
<1> HIDE DEF GoodChannels
<1> QED BY <1>1 DEF SameStreams

LEMMA UnholdSame ==
  ASSUME NEW ch, GoodChannels(ch), NEW e \in Endpoints
  PROVE  SameStreams(ch, [ch EXCEPT ![e].held = FALSE])
<1> DEFINE r == [ch[e] EXCEPT !.held = FALSE]
<1>1. ch[e] \in Channels
  BY DEF GoodChannels
<1>2. r.sent = ch[e].sent /\ r.outq = ch[e].outq /\ r.got = ch[e].got
      /\ r.app = ch[e].app
  BY <1>1 DEF Channels
<1> HIDE DEF r
<1>3. [ch EXCEPT ![e].held = FALSE] = [ch EXCEPT ![e] = r]
  BY DEF r
<1> QED BY <1>2, <1>3, UpdateSame

LEMMA DropSocketSame ==
  ASSUME NEW ch, GoodChannels(ch), NEW t \in Tables(Endpoints), NEW id
  PROVE  SameStreams(ch, DropSocket(ch, t, id))
<1>1. HasSocket(t, id) => t.conns[id].chan \in Endpoints
  BY EntryFields DEF HasSocket, Tables
<1>2. SameStreams(ch, ch)
  BY DEF SameStreams
<1> QED BY <1>1, <1>2, UnholdSame DEF DropSocket

LEMMA CloseSame ==
  ASSUME NEW ch, GoodChannels(ch), NEW e \in Endpoints, NEW reason
  PROVE  SameStreams(ch, CloseWithError(ch, e, reason))
<1> DEFINE r == [ch[e] EXCEPT !.error = IF @ = NoError THEN reason ELSE @]
<1>1. ch[e] \in Channels
  BY DEF GoodChannels
<1>2. r.sent = ch[e].sent /\ r.outq = ch[e].outq /\ r.got = ch[e].got
      /\ r.app = ch[e].app
  BY <1>1 DEF Channels
<1> HIDE DEF r
<1>3. CloseWithError(ch, e, reason) = [ch EXCEPT ![e] = r]
  BY DEF r, CloseWithError
<1>4. SameStreams(ch, [ch EXCEPT ![e] = r])
  BY <1>2, UpdateSame
<1> QED BY <1>3, <1>4

LEMMA DropAppSame ==
  ASSUME NEW ch, GoodChannels(ch), NEW e \in Endpoints,
         e[2] = "client" \/ ch[e].app # "none"
  PROVE  SameStreams(ch, [ch EXCEPT ![e].app = "dropped"])
<1> DEFINE r == [ch[e] EXCEPT !.app = "dropped"]
<1>1. ch[e] \in Channels
  BY DEF GoodChannels
<1>2. r.sent = ch[e].sent /\ r.outq = ch[e].outq /\ r.got = ch[e].got
      /\ r.app = "dropped"
  BY <1>1 DEF Channels
<1> HIDE DEF r
<1>3. [ch EXCEPT ![e].app = "dropped"] = [ch EXCEPT ![e] = r]
  BY DEF r
<1> QED BY <1>2, <1>3, UpdateSame

LEMMA ReadSame ==
  ASSUME NEW ch, GoodChannels(ch), NEW e \in Endpoints
  PROVE  SameStreams(ch, [ch EXCEPT ![e].read = @ + 1])
<1> DEFINE r == [ch[e] EXCEPT !.read = @ + 1]
<1>1. ch[e] \in Channels
  BY DEF GoodChannels
<1>2. r.sent = ch[e].sent /\ r.outq = ch[e].outq /\ r.got = ch[e].got
      /\ r.app = ch[e].app
  BY <1>1 DEF Channels
<1> HIDE DEF r
<1>3. [ch EXCEPT ![e].read = @ + 1] = [ch EXCEPT ![e] = r]
  BY DEF r
<1> QED BY <1>2, <1>3, UpdateSame

LEMMA SameTwice ==
  ASSUME NEW ch, NEW cg, NEW cf, SameStreams(ch, cg), SameStreams(cg, cf)
  PROVE  SameStreams(ch, cf)
BY DEF SameStreams

LEMMA SameStages ==
  ASSUME NEW ch, NEW cg, SameStreams(ch, cg)
  PROVE  /\ \A x : InGot(cg, x) => InGot(ch, x)
         /\ \A x : InQueue(cg, x) => InQueue(ch, x)
         /\ QueueOrder(ch) => QueueOrder(cg)
<1>1. \A x : InGot(cg, x) => InGot(ch, x)
  BY DEF SameStreams, InGot
<1>2. \A x : InQueue(cg, x) => InQueue(ch, x)
  BY DEF SameStreams, InQueue
<1>3. QueueOrder(ch) => QueueOrder(cg)
  BY DEF SameStreams, QueueOrder
<1> QED BY <1>1, <1>2, <1>3

LEMMA ItemOK ==
  ASSUME NEW f \in Frames, Carries(f)
  PROVE  Item(f) \in Items
<1>1. \A c \in Clients : RequestOf(c) \in Items
  <2>1. 0 \in 0 .. MaxMsgs
    BY LinkAssumption
  <2> QED BY <2>1, EndsOK DEF RequestOf, Items
<1>2. \A x \in Payloads : x \in Items
  BY LinkAssumption DEF Payloads, Items
<1> QED BY <1>1, <1>2, FrameFields DEF Item, Carries

\* A machine goes on with nothing of a stream in its hands.
LEMMA MachQuiet ==
  ASSUME NEW m \in [Peers -> MachineStates], NEW p \in Peers, NEW s, NEW mm,
         mm = [m EXCEPT ![p] = s],
         s.at = "select" \/ (s.at = "send" /\ ~Carries(s.frame))
  PROVE  /\ \A x : InDelivery(mm, x) => InDelivery(m, x)
         /\ \A x : InSending(mm, x) => InSending(m, x)
         /\ MachLocal(m) => MachLocal(mm)
<1>1. \A q \in Peers : mm[q] = IF q = p THEN s ELSE m[q]
  OBVIOUS
<1>2. \A x : InDelivery(mm, x) => InDelivery(m, x)
  BY <1>1 DEF InDelivery
<1>3. \A x : InSending(mm, x) => InSending(m, x)
  BY <1>1 DEF InSending
<1>4. MachLocal(m) => MachLocal(mm)
  BY <1>1 DEF MachLocal
<1> QED BY <1>2, <1>3, <1>4

LEMMA MachSends ==
  ASSUME NEW m \in [Peers -> MachineStates], NEW p \in Peers, NEW f, NEW mm,
         mm = [m EXCEPT ![p] = Sending(f)], PeerOf(Item(f).src) = p
  PROVE  /\ \A x : InDelivery(mm, x) => InDelivery(m, x)
         /\ \A x : InSending(mm, x) => InSending(m, x) \/ x = Item(f)
         /\ MachLocal(m) => MachLocal(mm)
<1>1. \A q \in Peers : mm[q] = IF q = p THEN Sending(f) ELSE m[q]
  OBVIOUS
<1>2. Sending(f).at = "send" /\ Sending(f).frame = f
  BY DEF Sending
<1>3. \A x : InDelivery(mm, x) => InDelivery(m, x)
  BY <1>1, <1>2 DEF InDelivery
<1>4. \A x : InSending(mm, x) => InSending(m, x) \/ x = Item(f)
  BY <1>1, <1>2 DEF InSending
<1>5. MachLocal(m) => MachLocal(mm)
  BY <1>1, <1>2 DEF MachLocal
<1> QED BY <1>3, <1>4, <1>5

LEMMA MachDelivers ==
  ASSUME NEW m \in [Peers -> MachineStates], NEW p \in Peers, NEW f, NEW mm,
         mm = [m EXCEPT ![p] = Delivering(f)], PeerOf(f.body.src) = Other(p)
  PROVE  /\ \A x : InDelivery(mm, x) => InDelivery(m, x) \/ x = f.body
         /\ \A x : InSending(mm, x) => InSending(m, x)
         /\ MachLocal(m) => MachLocal(mm)
<1>1. \A q \in Peers : mm[q] = IF q = p THEN Delivering(f) ELSE m[q]
  OBVIOUS
<1>2. Delivering(f).at = "deliver" /\ Delivering(f).frame = f
  BY DEF Delivering
<1>3. \A x : InDelivery(mm, x) => InDelivery(m, x) \/ x = f.body
  BY <1>1, <1>2 DEF InDelivery
<1>4. \A x : InSending(mm, x) => InSending(m, x)
  BY <1>1, <1>2 DEF InSending
<1>5. MachLocal(m) => MachLocal(mm)
  BY <1>1, <1>2 DEF MachLocal
<1> QED BY <1>3, <1>4, <1>5

LEMMA TailElements ==
  ASSUME NEW S, NEW s \in Seq(S), s # <<>>
  PROVE  /\ Len(Tail(s)) = Len(s) - 1 /\ Head(s) = s[1] /\ Len(s) \in Nat
         /\ \A k \in 1 .. Len(Tail(s)) :
              k + 1 \in 1 .. Len(s) /\ Tail(s)[k] = s[k + 1] /\ k + 1 > 1
         /\ 1 \in 1 .. Len(s)
OBVIOUS

LEMMA AppendElements ==
  ASSUME NEW S, NEW s \in Seq(S), NEW x \in S
  PROVE  /\ Len(Append(s, x)) = Len(s) + 1 /\ Len(s) \in Nat
         /\ \A k \in 1 .. Len(Append(s, x)) :
              \/ k \in 1 .. Len(s) /\ Append(s, x)[k] = s[k]
              \/ k = Len(s) + 1 /\ Append(s, x)[k] = x
OBVIOUS

LEMMA WireTail ==
  ASSUME GoodWire(wire), NEW q \in Peers, wire[q] # <<>>,
         wire' = [wire EXCEPT ![q] = Tail(@)], WireOrder(wire), WireLocal(wire)
  PROVE  /\ \A x : OnWire(wire', x) => OnWire(wire, x)
         /\ WireOrder(wire') /\ WireLocal(wire')
         /\ Carries(Head(wire[q])) =>
              /\ OnWire(wire, Item(Head(wire[q])))
              /\ PeerOf(Item(Head(wire[q])).src) = q
              /\ \A x : OnWire(wire', x) => Precedes(Item(Head(wire[q])), x)
<1>1. wire[q] \in Seq(Frames) /\ \A p \in Peers : wire'[p] = IF p = q THEN Tail(wire[q]) ELSE wire[p]
  BY DEF GoodWire
<1> DEFINE t == Tail(wire[q])
<1>2. /\ Head(wire[q]) = wire[q][1] /\ 1 \in 1 .. Len(wire[q])
         /\ Len(wire[q]) \in Nat
      /\ Len(t) = Len(wire[q]) - 1
      /\ \A k \in 1 .. Len(t) : k + 1 \in 1 .. Len(wire[q])
         /\ t[k] = wire[q][k + 1] /\ k + 1 > 1
  BY <1>1, TailElements
<1>3. \A p \in Peers : wire'[p] = IF p = q THEN t ELSE wire[p]
  BY <1>1
<1> HIDE DEF t
<1>4. \A x : OnWire(wire', x) => OnWire(wire, x)
  BY <1>2, <1>3 DEF OnWire
<1>5. WireOrder(wire')
  <2> SUFFICES ASSUME NEW p \in Peers, NEW j \in 1 .. Len(wire'[p]),
                      NEW k \in 1 .. Len(wire'[p]),
                      j < k, Carries(wire'[p][j]), Carries(wire'[p][k])
               PROVE  Precedes(Item(wire'[p][j]), Item(wire'[p][k]))
    BY DEF WireOrder
  <2>1. CASE p # q
    BY <2>1, <1>3 DEF WireOrder
  <2>2. CASE p = q
    <3>1. wire'[p] = t
      BY <2>2, <1>3
    <3>2. j \in 1 .. Len(t) /\ k \in 1 .. Len(t)
      BY <3>1
    <3>3. /\ t[j] = wire[q][j + 1] /\ t[k] = wire[q][k + 1]
          /\ j + 1 \in 1 .. Len(wire[q]) /\ k + 1 \in 1 .. Len(wire[q])
      BY <3>2, <1>2
    <3>4. j + 1 < k + 1
      OBVIOUS
    <3> QED BY <3>1, <3>3, <3>4 DEF WireOrder
  <2> QED BY <2>1, <2>2
<1>6. WireLocal(wire')
  BY <1>2, <1>3 DEF WireLocal
<1>7. ASSUME Carries(Head(wire[q]))
      PROVE  /\ OnWire(wire, Item(Head(wire[q])))
             /\ PeerOf(Item(Head(wire[q])).src) = q
             /\ \A x : OnWire(wire', x) => Precedes(Item(Head(wire[q])), x)
  <2>1. OnWire(wire, Item(Head(wire[q]))) /\ PeerOf(Item(Head(wire[q])).src) = q
    BY <1>2, <1>7 DEF OnWire, WireLocal
  <2>2. ASSUME NEW x, OnWire(wire', x), x.src = Item(Head(wire[q])).src
        PROVE  Item(Head(wire[q])).n < x.n
    <3>1. PICK p \in Peers : \E k \in 1 .. Len(wire'[p]) : Carries(wire'[p][k])
          /\ x = Item(wire'[p][k])
      BY <2>2 DEF OnWire
    <3>2. PICK k \in 1 .. Len(wire'[p]) : Carries(wire'[p][k])
          /\ x = Item(wire'[p][k])
      BY <3>1
    <3>3. p = q
      BY <3>2, <1>6, <2>1, <2>2 DEF WireLocal
    <3>4. wire'[p][k] = wire[q][k + 1] /\ k + 1 \in 1 .. Len(wire[q]) /\ k + 1 > 1
      BY <3>2, <3>3, <1>2, <1>3
    <3>5. Precedes(Item(wire[q][1]), Item(wire[q][k + 1]))
      BY <3>2, <3>4, <1>2, <1>7 DEF WireOrder
    <3> QED BY <3>2, <3>4, <3>5, <1>2, <2>2 DEF Precedes
  <2> QED BY <2>1, <2>2 DEF Precedes
<1> QED BY <1>4, <1>5, <1>6, <1>7

LEMMA WireAppend ==
  ASSUME GoodWire(wire), NEW p \in Peers, NEW f \in Frames,
         wire' = [wire EXCEPT ![p] = Append(@, f)], WireOrder(wire),
         WireLocal(wire),
         Carries(f) => /\ PeerOf(Item(f).src) = p
                       /\ \A y : OnWire(wire, y) => Precedes(y, Item(f))
  PROVE  /\ \A x : OnWire(wire', x)
              => OnWire(wire, x) \/ (Carries(f) /\ x = Item(f))
         /\ WireOrder(wire') /\ WireLocal(wire')
<1>1. wire[p] \in Seq(Frames) /\ \A q \in Peers : wire'[q] = IF q = p THEN Append(wire[p], f) ELSE wire[q]
  BY DEF GoodWire
<1> DEFINE t == Append(wire[p], f)
<1>2. /\ Len(t) = Len(wire[p]) + 1 /\ Len(wire[p]) \in Nat
      /\ \A k \in 1 .. Len(t) :
           \/ k \in 1 .. Len(wire[p]) /\ t[k] = wire[p][k]
           \/ k = Len(wire[p]) + 1 /\ t[k] = f
  BY <1>1, AppendElements
<1>3. \A q \in Peers : wire'[q] = IF q = p THEN t ELSE wire[q]
  BY <1>1
<1> HIDE DEF t
<1>4. \A x : OnWire(wire', x) => OnWire(wire, x) \/ (Carries(f) /\ x = Item(f))
  BY <1>2, <1>3 DEF OnWire
<1>5. WireOrder(wire')
  <2> SUFFICES ASSUME NEW q \in Peers, NEW j \in 1 .. Len(wire'[q]),
                      NEW k \in 1 .. Len(wire'[q]),
                      j < k, Carries(wire'[q][j]), Carries(wire'[q][k])
               PROVE  Precedes(Item(wire'[q][j]), Item(wire'[q][k]))
    BY DEF WireOrder
  <2>1. CASE p # q
    BY <2>1, <1>3 DEF WireOrder
  <2>2. CASE p = q /\ k \in 1 .. Len(wire[p])
    <3>1. wire'[q] = t
      BY <2>2, <1>3
    <3>2. j \in 1 .. Len(t) /\ k \in 1 .. Len(t) /\ j # Len(wire[p]) + 1
          /\ k # Len(wire[p]) + 1
      BY <3>1, <2>2, <1>2
    <3>3. t[j] = wire[p][j] /\ t[k] = wire[p][k] /\ j \in 1 .. Len(wire[p])
      BY <3>2, <1>2
    <3> QED BY <2>2, <3>1, <3>3 DEF WireOrder
  <2>3. CASE p = q /\ k = Len(wire[p]) + 1
    <3>1. wire'[q] = t
      BY <2>3, <1>3
    <3>2. j \in 1 .. Len(t) /\ k \in 1 .. Len(t) /\ j # Len(wire[p]) + 1
          /\ k \notin 1 .. Len(wire[p])
      BY <3>1, <2>3, <1>2
    <3>3. wire'[q] = t /\ t[j] = wire[p][j] /\ t[k] = f /\ j \in 1 .. Len(wire[p])
      BY <3>1, <3>2, <1>2
    <3>4. OnWire(wire, Item(wire[p][j])) /\ Carries(f)
      BY <2>3, <3>3 DEF OnWire
    <3> QED BY <3>3, <3>4
  <2> QED BY <2>1, <2>2, <2>3, <1>2, <1>3
<1>6. WireLocal(wire')
  BY <1>2, <1>3 DEF WireLocal
<1> QED BY <1>4, <1>5, <1>6

LEMMA RequestInjective ==
  ASSUME NEW c, NEW d, RequestOf(c) = RequestOf(d)
  PROVE  c = d
<1>1. RequestOf(c).src = RequestOf(d).src
  OBVIOUS
<1>2. <<c, "client">> = <<d, "client">>
  BY <1>1 DEF RequestOf
<1> QED BY <1>2

LEMMA RequestTail ==
  ASSUME conns_rx \in [Peers -> Seq(Clients)], NEW p \in Peers, conns_rx[p] # <<>>,
         conns_rx' = [conns_rx EXCEPT ![p] = Tail(@)], RequestsOnce(conns_rx),
         RequestsLocal(conns_rx)
  PROVE  /\ \A x : InRequests(conns_rx', x) => InRequests(conns_rx, x)
         /\ RequestsOnce(conns_rx') /\ RequestsLocal(conns_rx')
         /\ Head(conns_rx[p]) \in Clients /\ Home[Head(conns_rx[p])] = p
         /\ InRequests(conns_rx, RequestOf(Head(conns_rx[p])))
         /\ ~InRequests(conns_rx', RequestOf(Head(conns_rx[p])))
<1> DEFINE t == Tail(conns_rx[p])
           c == Head(conns_rx[p])
<1>1. conns_rx[p] \in Seq(Clients)
      /\ \A q \in Peers : conns_rx'[q] = IF q = p THEN t ELSE conns_rx[q]
  OBVIOUS
<1>2. /\ c = conns_rx[p][1] /\ 1 \in 1 .. Len(conns_rx[p])
         /\ Len(conns_rx[p]) \in Nat
      /\ \A k \in 1 .. Len(t) : k + 1 \in 1 .. Len(conns_rx[p])
         /\ t[k] = conns_rx[p][k + 1] /\ k + 1 > 1
      /\ c \in Clients
  BY <1>1, TailElements
<1> HIDE DEF t, c
<1>3. \A x : InRequests(conns_rx', x) => InRequests(conns_rx, x)
  BY <1>1, <1>2 DEF InRequests
<1>4. RequestsLocal(conns_rx')
  BY <1>1, <1>2 DEF RequestsLocal
<1>5. RequestsOnce(conns_rx')
  <2> SUFFICES ASSUME NEW q \in Peers, NEW j \in 1 .. Len(conns_rx'[q]),
                      NEW k \in 1 .. Len(conns_rx'[q]),
                      j < k
               PROVE  conns_rx'[q][j] # conns_rx'[q][k]
    BY DEF RequestsOnce
  <2>1. CASE p # q
    BY <2>1, <1>1 DEF RequestsOnce
  <2>2. CASE p = q
    <3>1. conns_rx'[q] = t
      BY <2>2, <1>1
    <3>2. j \in 1 .. Len(t) /\ k \in 1 .. Len(t)
      BY <3>1
    <3>3. /\ t[j] = conns_rx[p][j + 1] /\ t[k] = conns_rx[p][k + 1]
          /\ j + 1 \in 1 .. Len(conns_rx[p]) /\ k + 1 \in 1 .. Len(conns_rx[p])
      BY <3>2, <1>2
    <3>4. j + 1 < k + 1
      OBVIOUS
    <3> QED BY <3>1, <3>3, <3>4 DEF RequestsOnce
  <2> QED BY <2>1, <2>2
<1>6. InRequests(conns_rx, RequestOf(c)) /\ Home[c] = p
  BY <1>2 DEF InRequests, RequestsLocal
<1>7. ASSUME InRequests(conns_rx', RequestOf(c)) PROVE FALSE
  <2>1. PICK q \in Peers : \E k \in 1 .. Len(conns_rx'[q]) : RequestOf(c) = RequestOf(conns_rx'[q][k])
    BY <1>7 DEF InRequests
  <2>2. PICK k \in 1 .. Len(conns_rx'[q]) : c = conns_rx'[q][k]
    BY <2>1, RequestInjective
  <2>3. q = p
    BY <2>2, <1>4, <1>6 DEF RequestsLocal
  <2>4. conns_rx'[q] = t
    BY <2>3, <1>1
  <2>5. k \in 1 .. Len(t)
    BY <2>4
  <2>6. conns_rx'[q][k] = conns_rx[p][k + 1] /\ k + 1 \in 1 .. Len(conns_rx[p])
        /\ k + 1 > 1
    BY <2>4, <2>5, <1>2
  <2>7. conns_rx[p][1] # conns_rx[p][k + 1]
    BY <2>6, <1>2 DEF RequestsOnce
  <2> QED BY <2>2, <2>6, <2>7, <1>2
<1> QED BY <1>2, <1>3, <1>4, <1>5, <1>6, <1>7 DEF c

LEMMA RequestAppend ==
  ASSUME conns_rx \in [Peers -> Seq(Clients)], NEW c \in Clients,
         conns_rx' = [conns_rx EXCEPT ![Home[c]] = Append(@, c)],
         RequestsOnce(conns_rx), RequestsLocal(conns_rx),
         ~InRequests(conns_rx, RequestOf(c))
  PROVE  /\ \A x : InRequests(conns_rx', x)
              => InRequests(conns_rx, x) \/ x = RequestOf(c)
         /\ RequestsOnce(conns_rx') /\ RequestsLocal(conns_rx')
<1> DEFINE p == Home[c]
           t == Append(conns_rx[p], c)
<1>1. p \in Peers
  BY LinkAssumption
<1>2. conns_rx[p] \in Seq(Clients)
      /\ \A q \in Peers : conns_rx'[q] = IF q = p THEN t ELSE conns_rx[q]
  BY <1>1
<1>3. /\ Len(t) = Len(conns_rx[p]) + 1 /\ Len(conns_rx[p]) \in Nat
      /\ \A k \in 1 .. Len(t) :
           \/ k \in 1 .. Len(conns_rx[p]) /\ t[k] = conns_rx[p][k]
           \/ k = Len(conns_rx[p]) + 1 /\ t[k] = c
  BY <1>2, AppendElements
<1>4. \A k \in 1 .. Len(conns_rx[p]) : conns_rx[p][k] # c
  BY <1>1 DEF InRequests
<1>5. Home[c] = p
  OBVIOUS
<1> HIDE DEF t, p
<1>6. \A x : InRequests(conns_rx', x) => InRequests(conns_rx, x) \/ x = RequestOf(c)
  BY <1>2, <1>3 DEF InRequests
<1>7. RequestsLocal(conns_rx')
  BY <1>2, <1>3, <1>5 DEF RequestsLocal
<1>8. RequestsOnce(conns_rx')
  <2> SUFFICES ASSUME NEW q \in Peers, NEW j \in 1 .. Len(conns_rx'[q]),
                      NEW k \in 1 .. Len(conns_rx'[q]),
                      j < k
               PROVE  conns_rx'[q][j] # conns_rx'[q][k]
    BY DEF RequestsOnce
  <2>1. CASE p # q
    <3>1. conns_rx'[q] = conns_rx[q]
      BY <2>1, <1>2
    <3> QED BY <3>1 DEF RequestsOnce
  <2>2. CASE p = q
    <3>1. conns_rx'[q] = t
      BY <2>2, <1>2
    <3>2. j \in 1 .. Len(t) /\ k \in 1 .. Len(t)
      BY <3>1
    <3>3. j # Len(conns_rx[p]) + 1
      BY <3>2, <1>3
    <3>4. j \in 1 .. Len(conns_rx[p]) /\ t[j] = conns_rx[p][j]
      BY <3>2, <3>3, <1>3
    <3>5. CASE k \in 1 .. Len(conns_rx[p]) /\ t[k] = conns_rx[p][k]
      BY <2>2, <3>1, <3>4, <3>5 DEF RequestsOnce
    <3>6. CASE t[k] = c
      BY <3>1, <3>4, <3>6, <1>4
    <3> QED BY <3>2, <3>5, <3>6, <1>3
  <2> QED BY <2>1, <2>2
<1> QED BY <1>6, <1>7, <1>8

TableShrinks(t, u) ==
  \A i \in Ids : Occupied(u.conns[i]) =>
    Occupied(t.conns[i]) /\ u.conns[i].chan = t.conns[i].chan

LEMMA RemoveShrinks ==
  ASSUME NEW t \in Tables(Endpoints), NEW id
  PROVE  TableShrinks(t, remove(t, id))
<1>1. CASE HasSocket(t, id)
  <2>1. id \in Ids
    BY <1>1 DEF HasSocket
  <2>2. \A i \in Ids : remove(t, id).conns[i] =
          IF i = id THEN Closed(t.next_id) ELSE t.conns[i]
    BY <1>1, <2>1 DEF remove, Tables
  <2>3. ~Occupied(Closed(t.next_id))
    BY DEF Occupied, Closed
  <2> QED BY <2>2, <2>3 DEF TableShrinks
<1>2. CASE ~HasSocket(t, id)
  BY <1>2 DEF remove, TableShrinks
<1> QED BY <1>1, <1>2

LEMMA CleanShrinks ==
  ASSUME NEW t \in Tables(Endpoints)
  PROVE  TableShrinks(t, cleanup_dead(t))
<1> DEFINE u == remove(t, t.dead_index)
<1>1. CASE t.dead_index = NoId
  BY <1>1 DEF cleanup_dead, TableShrinks
<1>2. CASE t.dead_index # NoId
  <2>1. TableShrinks(t, u)
    BY RemoveShrinks
  <2>2. cleanup_dead(t).conns = u.conns
    BY <1>2 DEF cleanup_dead, remove, Tables
  <2> QED BY <2>1, <2>2 DEF TableShrinks
<1> QED BY <1>1, <1>2

LEMMA TablesShrink ==
  ASSUME NEW tt \in [Peers -> Tables(Endpoints)], NEW p \in Peers, NEW u, NEW tu,
         tu = [tt EXCEPT ![p] = u], TableShrinks(tt[p], u)
  PROVE  /\ TablesLocal(tt) => TablesLocal(tu)
         /\ \A q \in Peers : TableShrinks(tt[q], tu[q])
<1>1. \A q \in Peers : TableShrinks(tt[q], tu[q])
  BY DEF TableShrinks
<1> QED BY <1>1 DEF TablesLocal, TableShrinks

\* Clients that stopped being idle stay so, and requests are only taken.
LEMMA RequestedKept ==
  ASSUME NEW tt, NEW tu, \A q \in Peers : TableShrinks(tt[q], tu[q]),
         NEW cl, NEW cm, \A c \in Clients : cm[c] = "idle" => cl[c] = "idle",
         NEW r, NEW rr, \A x : InRequests(rr, x) => InRequests(r, x),
         SocketsRequested(tt, cl, r)
  PROVE  SocketsRequested(tu, cm, rr)
BY DEF SocketsRequested, TableShrinks

LEMMA InsertedSocket ==
  ASSUME NEW t \in Tables(Endpoints), NEW id \in Ids, NEW socket, NEW i \in Ids
  PROVE  insert_at(t, id, socket).conns[i] = IF i = id THEN socket ELSE t.conns[i]
BY DEF insert_at, Tables

\* What the bookkeeping needs of a step that only moves items or takes them.
SameBooks(ch, cg, cl, cm) ==
  /\ \A e \in Endpoints :
       /\ cg[e].sent = ch[e].sent
       /\ e[2] = "server" /\ ch[e].app = "none" => cg[e].app = "none"
  /\ \A c \in Clients : cm[c] = "idle" => cl[c] = "idle"
Traced(st, su) ==
  \A i \in 1 .. 6 : \A x \in su[i] : \E j \in 1 .. 6 :
    /\ x \in st[j] /\ x.src \in Endpoints
    /\ i \in 3 .. 5 => j \in 3 .. 5 \/ x.n # 0

LEMMA BooksKept ==
  ASSUME NEW st, NEW su, NEW ch, NEW cg, NEW cl, NEW cm,
         Numbered(st, ch), Fresh(ch, cl, st),
         SameBooks(ch, cg, cl, cm), Traced(st, su)
  PROVE  Numbered(su, cg) /\ Fresh(cg, cm, su)
<1> USE DEF SameBooks, Traced
<1>1. Numbered(su, cg)
  <2> SUFFICES ASSUME NEW i \in 1 .. 6, NEW x \in su[i]
               PROVE  x.n <= cg[x.src].sent
    BY DEF Numbered
  <2>1. PICK j \in 1 .. 6 : x \in st[j]
    OBVIOUS
  <2>2. cg[x.src].sent = ch[x.src].sent
    BY <2>1
  <2> QED BY <2>1, <2>2 DEF Numbered
<1>2. Fresh(cg, cm, su)
  <2> SUFFICES ASSUME NEW c \in Clients
               PROVE  /\ cm[c] = "idle" => cg[<<c, "client">>].sent = 0
                                            /\ Untouched(cg, <<c, "server">>)
                      /\ \A i \in 3 .. 5 : RequestOf(c) \in su[i] =>
                           cm[c] # "idle" /\ Untouched(cg, <<c, "server">>)
    BY DEF Fresh
  <2>1. <<c, "client">> \in Endpoints /\ <<c, "server">> \in Endpoints
    BY EndsOK
  <2>2. Untouched(ch, <<c, "server">>) => Untouched(cg, <<c, "server">>)
    <3>1. <<c, "server">>[2] = "server"
      OBVIOUS
    <3> QED BY <2>1, <3>1 DEF Untouched
  <2>3. cm[c] = "idle" => cg[<<c, "client">>].sent = 0
        /\ Untouched(cg, <<c, "server">>)
    BY <2>1, <2>2 DEF Fresh
  <2>4. ASSUME NEW i \in 3 .. 5, RequestOf(c) \in su[i]
        PROVE  cm[c] # "idle" /\ Untouched(cg, <<c, "server">>)
    <3>1. i \in 1 .. 6 /\ RequestOf(c).n = 0
      BY DEF RequestOf
    <3>2. PICK j \in 3 .. 5 : RequestOf(c) \in st[j]
      BY <2>4, <3>1
    <3> QED BY <3>2, <2>2 DEF Fresh
  <2> QED BY <2>3, <2>4
<1> QED BY <1>1, <1>2

LEMMA NextStages ==
  Stages(chan, mach, wire, conns_rx)' = Stages(chan', mach', wire', conns_rx')
BY DEF Stages, InStage, InGot, InDelivery, OnWire, InSending, InRequests,
       InQueue, Carries, Item, RequestOf

LEMMA NextStreamParts ==
  ASSUME NEW su, su = Stages(chan', mach', wire', conns_rx'),
         Ordered(su), Numbered(su, chan'), Fresh(chan', cli', su),
         WireOrder(wire'), QueueOrder(chan'), RequestsOnce(conns_rx'),
         WireLocal(wire'), MachLocal(mach'), RequestsLocal(conns_rx'),
         TablesLocal(tables'), SocketsRequested(tables', cli', conns_rx')
  PROVE  StreamInv'
<1> DEFINE st == Stages(chan, mach, wire, conns_rx)
<1>1. st' = su
  BY NextStages
<1> HIDE DEF st
<1>2. Ordered(st)' /\ Numbered(st, chan)' /\ Fresh(chan, cli, st)'
  BY <1>1 DEF Ordered, Numbered, Fresh, Untouched, Precedes, RequestOf
<1>3. WireOrder(wire)' /\ QueueOrder(chan)' /\ RequestsOnce(conns_rx)'
  BY DEF WireOrder, QueueOrder, RequestsOnce, Carries, Item, Precedes, RequestOf
<1>4. WireLocal(wire)' /\ MachLocal(mach)' /\ RequestsLocal(conns_rx)'
  BY DEF WireLocal, MachLocal, RequestsLocal, Carries, Item, RequestOf, PeerOf,
         Other
<1>5. TablesLocal(tables)' /\ SocketsRequested(tables, cli, conns_rx)'
  BY DEF TablesLocal, SocketsRequested, Occupied, PeerOf, Other, InRequests,
         RequestOf
<1> QED BY <1>2, <1>3, <1>4, <1>5 DEF StreamInv, st

(***************************************************************************)
(* Steps that move one item a stage or more ahead, and steps that move     *)
(* none.                                                                   *)
(***************************************************************************)
Here(i, x) == InStage(i, chan, mach, wire, conns_rx, x)
Then(i, x) == InStage(i, chan', mach', wire', conns_rx', x)

LEMMA StageOf ==
  /\ \A i \in 1 .. 6 : \A x :
       x \in Stages(chan, mach, wire, conns_rx)[i] <=> x \in Items /\ Here(i, x)
  /\ \A i \in 1 .. 6 : \A x :
       x \in Stages(chan', mach', wire', conns_rx')[i] <=> x \in Items /\ Then(i, x)
BY DEF Stages, Here, Then

LEMMA ItemFields ==
  ASSUME NEW x \in Items
  PROVE  x.n \in Nat /\ x.src \in Endpoints
BY LinkAssumption DEF Items

LEMMA MoveStep ==
  ASSUME StreamInv, SameBooks(chan, chan', cli, cli'), NEW a \in 1 .. 6,
         NEW b \in 1 .. 6, a < b,
         NEW x \in Items, Here(b, x), a < 3 \/ b <= 5 \/ x.n # 0,
         \A i \in 1 .. 6 : \A y : Then(i, y) => Here(i, y) \/ (i = a /\ y = x),
         \A i \in 1 .. 6 : a < i /\ i <= b => \A y : Then(i, y) => Precedes(x, y)
  PROVE  LET su == Stages(chan', mach', wire', conns_rx')
         IN  Ordered(su) /\ Numbered(su, chan') /\ Fresh(chan', cli', su)
<1> DEFINE st == Stages(chan, mach, wire, conns_rx)
           su == Stages(chan', mach', wire', conns_rx')
<1>1. Ordered(st) /\ Numbered(st, chan) /\ Fresh(chan, cli, st)
  BY DEF StreamInv
<1>2. /\ \A i \in 1 .. 6 : \A y : y \in st[i] <=> y \in Items /\ Here(i, y)
      /\ \A i \in 1 .. 6 : \A y : y \in su[i] <=> y \in Items /\ Then(i, y)
  BY StageOf
<1> HIDE DEF st, su
<1>3. x \in st[b]
  BY <1>2
<1>4. \A i \in 1 .. 6 : \A y \in su[i] : y \in st[i] \/ (i = a /\ y = x)
  BY <1>2
<1>5. \A i \in 1 .. 6 : a < i /\ i <= b => \A y \in su[i] : Precedes(x, y)
  BY <1>2
<1>6. Ordered(su)
  BY <1>1, <1>3, <1>4, <1>5, Move
<1>7. Traced(st, su)
  BY <1>2, <1>3, <1>4, ItemFields DEF Traced
<1>8. Numbered(su, chan') /\ Fresh(chan', cli', su)
  BY <1>1, <1>7, BooksKept
<1> QED BY <1>6, <1>8 DEF su

LEMMA ShrinkStep ==
  ASSUME StreamInv, SameBooks(chan, chan', cli, cli'),
         \A i \in 1 .. 6 : \A y : Then(i, y) => Here(i, y)
  PROVE  LET su == Stages(chan', mach', wire', conns_rx')
         IN  Ordered(su) /\ Numbered(su, chan') /\ Fresh(chan', cli', su)
<1> DEFINE st == Stages(chan, mach, wire, conns_rx)
           su == Stages(chan', mach', wire', conns_rx')
<1>1. Ordered(st) /\ Numbered(st, chan) /\ Fresh(chan, cli, st)
  BY DEF StreamInv
<1>2. /\ \A i \in 1 .. 6 : \A y : y \in st[i] <=> y \in Items /\ Here(i, y)
      /\ \A i \in 1 .. 6 : \A y : y \in su[i] <=> y \in Items /\ Then(i, y)
  BY StageOf
<1> HIDE DEF st, su
<1>3. \A i \in 1 .. 6 : \A y \in su[i] : y \in st[i]
  BY <1>2
<1>4. Ordered(su)
  BY <1>1, <1>3, Shrink
<1>5. Traced(st, su)
  BY <1>2, <1>3, ItemFields DEF Traced
<1>6. Numbered(su, chan') /\ Fresh(chan', cli', su)
  BY <1>1, <1>5, BooksKept
<1> QED BY <1>4, <1>6 DEF su

LEMMA StagesHere ==
  \A x : /\ Here(1, x) <=> InGot(chan, x)
         /\ Here(2, x) <=> InDelivery(mach, x)
         /\ Here(3, x) <=> OnWire(wire, x)
         /\ Here(4, x) <=> InSending(mach, x)
         /\ Here(5, x) <=> InRequests(conns_rx, x)
         /\ Here(6, x) <=> InQueue(chan, x)
BY DEF Here, InStage

LEMMA StagesNext ==
  \A x : /\ Then(1, x) <=> InGot(chan', x)
         /\ Then(2, x) <=> InDelivery(mach', x)
         /\ Then(3, x) <=> OnWire(wire', x)
         /\ Then(4, x) <=> InSending(mach', x)
         /\ Then(5, x) <=> InRequests(conns_rx', x)
         /\ Then(6, x) <=> InQueue(chan', x)
BY DEF Then, InStage

\* The parts of the invariant that nothing but the step's own variable bears on.
LEMMA StreamNow ==
  ASSUME StreamInv
  PROVE  /\ WireOrder(wire) /\ QueueOrder(chan) /\ RequestsOnce(conns_rx)
         /\ WireLocal(wire) /\ MachLocal(mach) /\ RequestsLocal(conns_rx)
         /\ TablesLocal(tables) /\ SocketsRequested(tables, cli, conns_rx)
BY DEF StreamInv

\* A step of a machine on which no item moves ahead.
LEMMA QuietStep ==
  ASSUME IInv, StreamInv,
         SameStreams(chan, chan'),
         \A c \in Clients : cli'[c] = "idle" => cli[c] = "idle",
         \A x : InDelivery(mach', x) => InDelivery(mach, x),
         \A x : InSending(mach', x) => InSending(mach, x),
         MachLocal(mach'),
         \A x : OnWire(wire', x) => OnWire(wire, x),
         WireOrder(wire'), WireLocal(wire'),
         \A x : InRequests(conns_rx', x) => InRequests(conns_rx, x),
         RequestsOnce(conns_rx'), RequestsLocal(conns_rx'),
         TablesLocal(tables'), SocketsRequested(tables', cli', conns_rx')
  PROVE  StreamInv'
<1>1. SameBooks(chan, chan', cli, cli')
  BY DEF SameBooks, SameStreams
<1>2. /\ \A x : InGot(chan', x) => InGot(chan, x)
      /\ \A x : InQueue(chan', x) => InQueue(chan, x)
      /\ QueueOrder(chan')
  BY SameStages, StreamNow
<1>3. \A i \in 1 .. 6 : \A y : Then(i, y) => Here(i, y)
  BY <1>2, StagesHere, StagesNext, SixStages
<1>4. LET su == Stages(chan', mach', wire', conns_rx')
      IN  Ordered(su) /\ Numbered(su, chan') /\ Fresh(chan', cli', su)
  BY <1>1, <1>3, ShrinkStep
<1> QED BY <1>2, <1>4, NextStreamParts

----------------------------------------------------------------------------
(***************************************************************************)
(* Actions on which nothing moves ahead.                                   *)
(***************************************************************************)
LEMMA AnswerIdle ==
  ASSUME NEW c \in Clients, NEW outcome, outcome # "idle", Answer(c, outcome),
         cli \in [Clients -> Outcomes]
  PROVE  \A d \in Clients : cli'[d] = "idle" => cli[d] = "idle"
BY DEF Answer

LEMMA InboundStream ==
  ASSUME IInv, StreamInv, NEW p \in Peers, NEW type, Inbound(p, type)
  PROVE  /\ \A x : OnWire(wire', x) => OnWire(wire, x)
         /\ WireOrder(wire') /\ WireLocal(wire')
         /\ Carries(InFrame(p)) =>
              /\ OnWire(wire, Item(InFrame(p)))
              /\ PeerOf(Item(InFrame(p)).src) = Other(p)
              /\ \A x : OnWire(wire', x) => Precedes(Item(InFrame(p)), x)
<1> DEFINE q == Other(p)
<1>1. q \in Peers /\ GoodWire(wire)
  BY OtherPeer, TypeParts DEF IInv
<1>2. /\ wire[q] # <<>> /\ wire' = [wire EXCEPT ![q] = Tail(@)]
      /\ InFrame(p) = Head(wire[q])
  BY DEF Inbound, InFrame
<1> HIDE DEF q
<1>3. /\ \A x : OnWire(wire', x) => OnWire(wire, x)
      /\ WireOrder(wire') /\ WireLocal(wire')
      /\ Carries(Head(wire[q])) =>
           /\ OnWire(wire, Item(Head(wire[q])))
           /\ PeerOf(Item(Head(wire[q])).src) = q
           /\ \A x : OnWire(wire', x) => Precedes(Item(Head(wire[q])), x)
  BY <1>1, <1>2, WireTail, StreamNow
<1> QED BY <1>2, <1>3 DEF q

\* A machine takes a table of the same sockets or fewer, and nothing to send
\* of a stream.
LEMMA QuietMachine ==
  ASSUME IInv, StreamInv, NEW p \in Peers,
         NEW u, tables' = [tables EXCEPT ![p] = u], TableShrinks(tables[p], u),
         NEW s, mach' = [mach EXCEPT ![p] = s],
         s.at = "select" \/ (s.at = "send" /\ ~Carries(s.frame)),
         \A x : OnWire(wire', x) => OnWire(wire, x),
         WireOrder(wire'), WireLocal(wire'),
         \A x : InRequests(conns_rx', x) => InRequests(conns_rx, x),
         RequestsOnce(conns_rx'), RequestsLocal(conns_rx'),
         \A c \in Clients : cli'[c] = "idle" => cli[c] = "idle",
         SameStreams(chan, chan')
  PROVE  StreamInv'
<1>1. /\ tables \in [Peers -> Tables(Endpoints)]
         /\ mach \in [Peers -> MachineStates]
  BY Now
<1>2. /\ \A x : InDelivery(mach', x) => InDelivery(mach, x)
      /\ \A x : InSending(mach', x) => InSending(mach, x)
      /\ MachLocal(mach')
  BY <1>1, MachQuiet, StreamNow
<1>3. TablesLocal(tables') /\ \A q \in Peers : TableShrinks(tables[q], tables'[q])
  BY <1>1, TablesShrink, StreamNow
<1>4. SocketsRequested(tables', cli', conns_rx')
  BY <1>3, RequestedKept, StreamNow
<1> QED BY <1>2, <1>3, <1>4, QuietStep

LEMMA SameTable ==
  ASSUME NEW t
  PROVE  TableShrinks(t, t)
BY DEF TableShrinks

LEMMA Reflexive ==
  /\ \A x : OnWire(wire, x) => OnWire(wire, x)
  /\ SameStreams(chan, chan)
BY DEF SameStreams

LEMMA OnlyChan ==
  ASSUME IInv, StreamInv, UNCHANGED <<tables, mach, wire, conns_rx>>,
         SameStreams(chan, chan'),
         \A c \in Clients : cli'[c] = "idle" => cli[c] = "idle"
  PROVE  StreamInv'
<1>1. TablesLocal(tables') /\ \A q \in Peers : TableShrinks(tables[q], tables'[q])
  BY StreamNow, SameTable
<1>2. SocketsRequested(tables', cli', conns_rx')
  BY <1>1, RequestedKept, StreamNow
<1>3. /\ \A x : InDelivery(mach', x) => InDelivery(mach, x)
      /\ \A x : InSending(mach', x) => InSending(mach, x)
      /\ \A x : OnWire(wire', x) => OnWire(wire, x)
      /\ \A x : InRequests(conns_rx', x) => InRequests(conns_rx, x)
  OBVIOUS
<1>4. /\ MachLocal(mach') /\ WireOrder(wire') /\ WireLocal(wire')
      /\ RequestsOnce(conns_rx') /\ RequestsLocal(conns_rx')
  BY StreamNow
<1> QED BY <1>1, <1>2, <1>3, <1>4, QuietStep

LEMMA CancelConnectStream ==
  ASSUME IInv, StreamInv, NEW c \in Clients, CancelConnect(c)
  PROVE  StreamInv'
<1> DEFINE e == <<c, "client">>
<1>1. /\ cli' = [cli EXCEPT ![c] = "cancelled"] /\ cli[c] = "waiting"
      /\ chan' = [chan EXCEPT ![e].app = "dropped"]
      /\ UNCHANGED <<tables, mach, wire, conns_rx>>
  BY DEF CancelConnect
<1>2. /\ GoodChannels(chan) /\ cli \in [Clients -> Outcomes] /\ e \in Endpoints
  BY TypeParts, EndsOK DEF IInv
<1>3. SameStreams(chan, chan')
  BY <1>1, <1>2, DropAppSame
<1>4. \A d \in Clients : cli'[d] = "idle" => cli[d] = "idle"
  BY <1>1, <1>2
<1> QED BY <1>1, <1>3, <1>4, OnlyChan

LEMMA AppQuietStream ==
  ASSUME IInv, StreamInv, NEW e \in Endpoints,
         AppRecv(e) \/ AppDrop(e) \/ AppClose(e)
  PROVE  StreamInv'
<1>1. GoodChannels(chan)
  BY TypeParts DEF IInv
<1>2. UNCHANGED <<tables, mach, wire, conns_rx, cli>>
  BY DEF AppRecv, AppDrop, AppClose
<1>3. SameStreams(chan, chan')
  <2>1. CASE AppRecv(e)
    BY <1>1, <2>1, ReadSame DEF AppRecv
  <2>2. CASE AppDrop(e)
    <3>1. chan[e].app # "none"
      BY <2>2 DEF AppDrop, Usable
    <3> QED BY <1>1, <2>2, <3>1, DropAppSame DEF AppDrop
  <2>3. CASE AppClose(e)
    BY <1>1, <2>3, CloseSame DEF AppClose
  <2> QED BY <2>1, <2>2, <2>3
<1> QED BY <1>2, <1>3, OnlyChan

\* What next_outbound's cleanup leaves of a machine's sockets and channels.
LEMMA CleanedStream ==
  ASSUME IInv, NEW p \in Peers
  PROVE  /\ TableShrinks(tables[p], Cleaned(p))
         /\ SameStreams(chan, CleanedChan(p))
<1>1. tables[p] \in Tables(Endpoints) /\ GoodChannels(chan)
  BY Now
<1> QED BY <1>1, CleanShrinks, DropSocketSame DEF Cleaned, CleanedChan

LEMMA QuietFrames ==
  /\ \A id, reason : ~Carries(reset(id, reason))
  /\ \A id : ~Carries(reject(id))
  /\ \A id, other : ~Carries(ack(id, other))
  /\ \A f : Sending(f).at = "send" /\ Sending(f).frame = f
  /\ Selecting.at = "select"
BY DEF Carries, reset, reject, ack, Sending, Selecting

LEMMA OutboundResetStream ==
  ASSUME IInv, StreamInv, NEW p \in Peers, OutboundReset(p)
  PROVE  StreamInv'
<1>1. PICK i \in Ids :
        LET sock == Cleaned(p).conns[i]
        IN  /\ chan' = CleanedChan(p)
            /\ tables' = [tables EXCEPT ![p] = [Cleaned(p) EXCEPT !.dead_index = i]]
            /\ mach' = [mach EXCEPT ![p] =
                  Sending(reset(sock.remote_id, CloseReason(chan[sock.chan])))]
  BY DEF OutboundReset
<1> DEFINE sock == Cleaned(p).conns[i]
           s == Sending(reset(sock.remote_id, CloseReason(chan[sock.chan])))
           u == [Cleaned(p) EXCEPT !.dead_index = i]
<1>2. s.at = "send" /\ ~Carries(s.frame)
  BY QuietFrames
<1>3. TableShrinks(tables[p], u)
  <2>1. u.conns = Cleaned(p).conns
    BY CleanedOK DEF Tables
  <2> QED BY <2>1, CleanedStream DEF TableShrinks
<1>4. /\ UNCHANGED <<wire, conns_rx, cli>> /\ SameStreams(chan, chan')
      /\ tables' = [tables EXCEPT ![p] = u] /\ mach' = [mach EXCEPT ![p] = s]
  BY <1>1, CleanedStream DEF OutboundReset
<1> HIDE DEF s, u
<1> QED BY <1>2, <1>3, <1>4, StreamNow, QuietMachine

LEMMA PollPendingStream ==
  ASSUME IInv, StreamInv, NEW p \in Peers, PollPending(p)
  PROVE  StreamInv'
<1>1. /\ mach[p] = Selecting /\ UNCHANGED <<mach, wire, conns_rx, cli>>
      /\ tables' = [tables EXCEPT ![p] = Cleaned(p)] /\ chan' = CleanedChan(p)
  BY DEF PollPending
<1>2. mach' = [mach EXCEPT ![p] = mach[p]] /\ mach[p].at = "select"
  BY <1>1, Now, QuietFrames
<1> QED BY <1>1, <1>2, CleanedStream, StreamNow, QuietMachine

LEMMA RefusedStream ==
  ASSUME IInv, StreamInv, NEW p \in Peers, StartConnecting(p),
         reserve_id(Cleaned(p)) = NoId
  PROVE  StreamInv'
<1> DEFINE c == Head(conns_rx[p])
<1>1. /\ mach[p] = Selecting /\ UNCHANGED <<mach, wire>> /\ conns_rx[p] # <<>>
      /\ conns_rx' = [conns_rx EXCEPT ![p] = Tail(@)]
      /\ Answer(c, "rejected")
      /\ chan' = [CleanedChan(p) EXCEPT ![<<c, "client">>].held = FALSE]
      /\ tables' = [tables EXCEPT ![p] = Cleaned(p)]
  BY DEF StartConnecting
<1>2. /\ \A x : InRequests(conns_rx', x) => InRequests(conns_rx, x)
      /\ RequestsOnce(conns_rx') /\ RequestsLocal(conns_rx') /\ c \in Clients
  <2>1. conns_rx \in [Peers -> Seq(Clients)]
    BY Now
  <2> QED BY <1>1, <2>1, StreamNow, RequestTail
<1>3. \A d \in Clients : cli'[d] = "idle" => cli[d] = "idle"
  BY <1>1, <1>2, Now, AnswerIdle
<1>4. SameStreams(chan, chan')
  <2>1. SameStreams(CleanedChan(p), chan')
    BY <1>1, <1>2, CleanedOK, EndsOK, UnholdSame
  <2> QED BY <2>1, CleanedStream, SameTwice
<1>5. mach' = [mach EXCEPT ![p] = mach[p]] /\ mach[p].at = "select"
  BY <1>1, Now, QuietFrames
<1> QED BY <1>1, <1>2, <1>3, <1>4, <1>5, CleanedStream, StreamNow, QuietMachine

LEMMA IgnoredDataStream ==
  ASSUME IInv, StreamInv, NEW p \in Peers, RecvData(p),
         ~AcceptsData(tables[p], InFrame(p))
  PROVE  StreamInv'
<1> DEFINE s == Sending(reset(InFrame(p).local_id, "NoSuchConn"))
<1>1. /\ Inbound(p, "DATA") /\ mach' = [mach EXCEPT ![p] = s]
      /\ UNCHANGED <<tables, conns_rx, cli, chan>>
  BY DEF RecvData, RespondWith
<1>2. s.at = "send" /\ ~Carries(s.frame)
  BY QuietFrames
<1>3. tables' = [tables EXCEPT ![p] = tables[p]]
  BY <1>1, Now
<1> HIDE DEF s
<1> QED BY <1>1, <1>2, <1>3, InboundStream, SameTable, Reflexive, StreamNow,
           QuietMachine

LEMMA DeliverFailsStream ==
  ASSUME IInv, StreamInv, NEW p \in Peers, DeliverFails(p)
  PROVE  StreamInv'
<1> DEFINE f == mach[p].frame
           e == tables[p].conns[f.remote_id].chan
           reason == IF Hungup(chan[e]) THEN CloseReason(chan[e])
                     ELSE "YouDoneGoofed"
           u == remove(tables[p], f.remote_id)
           s == Sending(reset(f.local_id, reason))
<1>1. /\ tables' = [tables EXCEPT ![p] = u]
      /\ chan' = DropSocket(chan, tables[p], f.remote_id)
      /\ mach' = [mach EXCEPT ![p] = s]
      /\ UNCHANGED <<wire, conns_rx, cli>>
  BY DEF DeliverFails, RespondWith
<1>2. s.at = "send" /\ ~Carries(s.frame)
  <2> HIDE DEF reason
  <2> QED BY QuietFrames
<1>3. TableShrinks(tables[p], u) /\ SameStreams(chan, chan')
  BY <1>1, Now, RemoveShrinks, DropSocketSame
<1> HIDE DEF s, u
<1> QED BY <1>1, <1>2, <1>3, StreamNow, QuietMachine

LEMMA RecvAckStream ==
  ASSUME IInv, StreamInv, NEW p \in Peers, RecvAck(p)
  PROVE  StreamInv'
<1> DEFINE f == InFrame(p)
           id == f.remote_id
           t == tables[p]
<1>1. /\ Inbound(p, "ACK") /\ mach[p] = Selecting /\ UNCHANGED <<conns_rx, chan>>
      /\ t \in Tables(Endpoints) /\ tables = [tables EXCEPT ![p] = t]
      /\ f.local_id \in Ids /\ id \in Ids
  <2>1. Inbound(p, "ACK")
    BY DEF RecvAck
  <2> QED BY <2>1, Now, InboundOK, FrameFields DEF RecvAck
<1>2. ASSUME NEW reason, RespondWith(p, reset(f.local_id, reason)),
             UNCHANGED <<tables, cli>>
      PROVE  StreamInv'
  <2> DEFINE s == Sending(reset(f.local_id, reason))
  <2>1. mach' = [mach EXCEPT ![p] = s] /\ tables' = [tables EXCEPT ![p] = t]
    BY <1>1, <1>2 DEF RespondWith
  <2>2. s.at = "send" /\ ~Carries(s.frame)
    BY QuietFrames
  <2> HIDE DEF s
  <2> QED BY <1>1, <1>2, <2>1, <2>2, InboundStream, SameTable, Reflexive,
             StreamNow, QuietMachine
<1>3. CASE ~HasSocket(t, id)
  BY <1>2, <1>3 DEF RecvAck
<1>4. CASE HasSocket(t, id) /\ t.conns[id].tag = "Open"
  BY <1>2, <1>4 DEF RecvAck
<1>5. CASE HasSocket(t, id) /\ t.conns[id].tag = "Connecting"
  <2> DEFINE e == t.conns[id].chan
             sock == Open(f.local_id, e)
             u == [t EXCEPT !.conns[id] = sock]
  <2>1. /\ tables' = [tables EXCEPT ![p].conns[id] = sock]
        /\ Answer(e[1], "connected") /\ UNCHANGED mach
    BY <1>5 DEF RecvAck
  <2>2. e[1] \in Clients
    BY <1>1, <1>5, SocketEnd
  <2>3. \A d \in Clients : cli'[d] = "idle" => cli[d] = "idle"
    BY <2>1, <2>2, Now, AnswerIdle
  <2>4. tables' = [tables EXCEPT ![p] = u]
    BY <2>1
  <2>5. TableShrinks(t, u)
    <3>1. \A i \in Ids : u.conns[i] = IF i = id THEN sock ELSE t.conns[i]
      BY <1>1 DEF Tables
    <3>2. Occupied(t.conns[id]) /\ sock.chan = t.conns[id].chan
      BY <1>5 DEF HasSocket, Open
    <3> HIDE DEF u, sock
    <3> QED BY <3>1, <3>2 DEF TableShrinks
  <2>6. mach' = [mach EXCEPT ![p] = mach[p]] /\ mach[p].at = "select"
    BY <1>1, <2>1, Now, QuietFrames
  <2> HIDE DEF u
  <2> QED BY <1>1, <2>3, <2>4, <2>5, <2>6, InboundStream, Reflexive, StreamNow,
             QuietMachine
<1> QED BY <1>3, <1>4, <1>5 DEF RecvAck

\* REJECT and RESET.
LEMMA RemovalStream ==
  ASSUME IInv, StreamInv, NEW p \in Peers, NEW id, NEW type, Inbound(p, type),
         tables' = [tables EXCEPT ![p] = remove(tables[p], id)],
         UNCHANGED <<mach, conns_rx>>,
         \A c \in Clients : cli'[c] = "idle" => cli[c] = "idle",
         SameStreams(chan, chan')
  PROVE  StreamInv'
<1>1. mach' = [mach EXCEPT ![p] = mach[p]] /\ mach[p].at = "select"
  BY Now, QuietFrames DEF Inbound
<1>2. TableShrinks(tables[p], remove(tables[p], id))
  BY Now, RemoveShrinks
<1> QED BY <1>1, <1>2, InboundStream, StreamNow, QuietMachine

LEMMA RecvRejectStream ==
  ASSUME IInv, StreamInv, NEW p \in Peers, RecvReject(p)
  PROVE  StreamInv'
<1> DEFINE id == InFrame(p).remote_id
           t == tables[p]
<1>1. /\ Inbound(p, "REJECT")
      /\ tables' = [tables EXCEPT ![p] = remove(t, id)]
      /\ chan' = DropSocket(chan, t, id)
      /\ IF HasSocket(t, id) /\ t.conns[id].tag = "Connecting"
         THEN Answer(t.conns[id].chan[1], "rejected")
         ELSE UNCHANGED cli
      /\ UNCHANGED <<mach, conns_rx>>
  BY DEF RecvReject
<1>2. SameStreams(chan, chan')
  BY <1>1, Now, DropSocketSame
<1>3. \A d \in Clients : cli'[d] = "idle" => cli[d] = "idle"
  BY <1>1, Now, SocketEnd, AnswerIdle
<1> HIDE DEF id
<1> QED BY <1>1, <1>2, <1>3, RemovalStream

LEMMA RecvResetStream ==
  ASSUME IInv, StreamInv, NEW p \in Peers, RecvReset(p)
  PROVE  StreamInv'
<1> DEFINE f == InFrame(p)
           id == f.remote_id
           t == tables[p]
<1>1. /\ Inbound(p, "RESET")
      /\ tables' = [tables EXCEPT ![p] = remove(t, id)]
      /\ IF HasSocket(t, id) /\ t.conns[id].tag = "Connecting"
         THEN Answer(t.conns[id].chan[1], "orphaned")
         ELSE UNCHANGED cli
      /\ chan' = IF HasSocket(t, id) /\ t.conns[id].tag = "Open"
                 THEN CloseWithError(DropSocket(chan, t, id),
                                     t.conns[id].chan, f.reason)
                 ELSE DropSocket(chan, t, id)
      /\ UNCHANGED <<mach, conns_rx>>
  BY DEF RecvReset
<1>2. SameStreams(chan, chan')
  <2>1. GoodChannels(DropSocket(chan, t, id))
        /\ SameStreams(chan, DropSocket(chan, t, id))
    BY Now, DropSocketOK, DropSocketSame
  <2>2. CASE HasSocket(t, id) /\ t.conns[id].tag = "Open"
    <3>1. t.conns[id].chan \in Endpoints
      BY <2>2, Now, SocketEnd
    <3>2. SameStreams(DropSocket(chan, t, id), chan')
      BY <1>1, <2>1, <2>2, <3>1, CloseSame
    <3> QED BY <2>1, <3>2, SameTwice
  <2>3. CASE ~(HasSocket(t, id) /\ t.conns[id].tag = "Open")
    BY <1>1, <2>1, <2>3
  <2> QED BY <2>2, <2>3
<1>3. \A d \in Clients : cli'[d] = "idle" => cli[d] = "idle"
  BY <1>1, Now, SocketEnd, AnswerIdle
<1> HIDE DEF id, f
<1> QED BY <1>1, <1>2, <1>3, RemovalStream

LEMMA RecvConnectRejectedStream ==
  ASSUME IInv, StreamInv, NEW p \in Peers, RecvConnectRejected(p)
  PROVE  StreamInv'
<1> DEFINE s == Sending(reject(InFrame(p).local_id))
<1>1. /\ Inbound(p, "CONNECT") /\ mach' = [mach EXCEPT ![p] = s]
      /\ UNCHANGED <<tables, conns_rx, cli, chan>>
  BY DEF RecvConnectRejected, RespondWith
<1>2. s.at = "send" /\ ~Carries(s.frame)
  BY QuietFrames
<1>3. tables' = [tables EXCEPT ![p] = tables[p]]
  BY <1>1, Now
<1> HIDE DEF s
<1> QED BY <1>1, <1>2, <1>3, InboundStream, SameTable, Reflexive, StreamNow,
           QuietMachine

LEMMA WireFailsStream ==
  ASSUME IInv, StreamInv, NEW p \in Peers, WireFails(p)
  PROVE  StreamInv'
<1>1. /\ mach' = [mach EXCEPT ![p] = Selecting]
      /\ UNCHANGED <<tables, wire, conns_rx, cli, chan>>
  BY DEF WireFails
<1>2. tables' = [tables EXCEPT ![p] = tables[p]]
  BY <1>1, Now
<1> QED BY <1>1, <1>2, QuietFrames, SameTable, Reflexive, StreamNow,
           QuietMachine

----------------------------------------------------------------------------
(***************************************************************************)
(* Actions that move an item ahead, or let one in.                         *)
(***************************************************************************)
LEMMA PayloadItems ==
  ASSUME NEW x \in Payloads
  PROVE  x \in Items /\ x.n \in Nat /\ x.n >= 1 /\ x.src \in Endpoints
BY LinkAssumption DEF Payloads, Items

\* What is delivered, being delivered or waiting in a channel is a message.
LEMMA StagePayloads ==
  ASSUME IInv, NEW x, Here(1, x) \/ Here(2, x) \/ Here(6, x)
  PROVE  x \in Payloads
<1>1. GoodChannels(chan)
  BY TypeParts DEF IInv
<1>2. ASSUME NEW e \in Endpoints
      PROVE  /\ \A k \in 1 .. Len(chan[e].got) : chan[e].got[k] \in Payloads
             /\ \A k \in 1 .. Len(chan[e].outq) : chan[e].outq[k] \in Payloads
  <2>1. chan[e].got \in Seq(Payloads) /\ chan[e].outq \in Seq(Payloads)
    BY <1>1 DEF GoodChannels, Channels
  <2> QED BY <2>1
<1>3. CASE InGot(chan, x) \/ InQueue(chan, x)
  BY <1>2, <1>3 DEF InGot, InQueue
<1>4. CASE InDelivery(mach, x)
  BY <1>4, DeliverFacts DEF InDelivery
<1> QED BY <1>3, <1>4, StagesHere

\* Stages of the items that are there.
LEMMA InStages ==
  ASSUME StreamInv, NEW i \in 1 .. 6, NEW x \in Items, Here(i, x)
  PROVE  /\ x.n <= chan[x.src].sent
         /\ \A j \in 1 .. 6 : \A y \in Items : Here(j, y) /\ i < j => Precedes(x, y)
<1> DEFINE st == Stages(chan, mach, wire, conns_rx)
<1>1. x \in st[i] /\ \A j \in 1 .. 6 : \A y \in Items : Here(j, y) => y \in st[j]
  BY StageOf
<1>2. Ordered(st) /\ Numbered(st, chan)
  BY DEF StreamInv
<1> HIDE DEF st
<1> QED BY <1>1, <1>2 DEF Ordered, Numbered

LEMMA RequestFresh ==
  ASSUME StreamInv, NEW c \in Clients, NEW i \in 3 .. 5, Here(i, RequestOf(c))
  PROVE  cli[c] # "idle" /\ Untouched(chan, <<c, "server">>)
<1> DEFINE st == Stages(chan, mach, wire, conns_rx)
<1>1. RequestOf(c) \in Items
  <2>1. 0 \in 0 .. MaxMsgs
    BY LinkAssumption
  <2> QED BY <2>1, EndsOK DEF RequestOf, Items
<1>2. RequestOf(c) \in st[i]
  BY <1>1, StageOf
<1>3. Fresh(chan, cli, st)
  BY DEF StreamInv
<1> HIDE DEF st
<1> QED BY <1>2, <1>3 DEF Fresh

LEMMA IdleFresh ==
  ASSUME StreamInv, NEW c \in Clients, cli[c] = "idle"
  PROVE  chan[<<c, "client">>].sent = 0 /\ Untouched(chan, <<c, "server">>)
BY DEF StreamInv, Fresh

LEMMA AppSendStream ==
  ASSUME IInv, StreamInv, NEW e \in Endpoints, AppSend(e)
  PROVE  StreamInv'
<1> DEFINE x == [src |-> e, n |-> chan[e].sent + 1]
           st == Stages(chan, mach, wire, conns_rx)
           su == Stages(chan', mach', wire', conns_rx')
<1>1. /\ UNCHANGED <<tables, mach, wire, conns_rx, cli>> /\ Usable(e)
      /\ chan' = [chan EXCEPT ![e] = Enqueue(chan[e], x)] /\ chan[e].sent < MaxMsgs
  BY DEF AppSend
<1>2. GoodChannels(chan) /\ chan[e] \in Channels /\ chan[e].sent \in 0 .. MaxMsgs
  BY TypeParts DEF IInv, GoodChannels, Channels
<1>3. x \in Payloads /\ x.src = e /\ x.n = chan[e].sent + 1 /\ chan[e].sent \in Nat
  BY <1>1, <1>2, LinkAssumption DEF Payloads
<1>4. /\ Enqueue(chan[e], x).sent = x.n
         /\ Enqueue(chan[e], x).outq = Append(chan[e].outq, x)
      /\ Enqueue(chan[e], x).got = chan[e].got
         /\ Enqueue(chan[e], x).app = chan[e].app
  BY <1>2 DEF Enqueue, Channels
<1> HIDE DEF x
<1>5. /\ \A d \in Endpoints \ {e} : chan'[d] = chan[d]
      /\ chan'[e].sent = x.n /\ chan'[e].outq = Append(chan[e].outq, x)
      /\ chan'[e].got = chan[e].got /\ chan'[e].app = chan[e].app
  <2>1. chan' = [chan EXCEPT ![e] = Enqueue(chan[e], x)]
        /\ chan \in [Endpoints -> Channels]
    BY <1>1, <1>2 DEF GoodChannels
  <2>2. chan'[e] = Enqueue(chan[e], x)
        /\ \A d \in Endpoints \ {e} : chan'[d] = chan[d]
    BY <2>1
  <2> QED BY <2>2, <1>4
<1>6. chan[e].outq \in Seq(Payloads)
  BY <1>2 DEF Channels
<1> DEFINE q == chan[e].outq
           v == Append(q, x)
<1>7. /\ Len(v) = Len(q) + 1 /\ Len(q) \in Nat
      /\ \A k \in 1 .. Len(v) :
           \/ k \in 1 .. Len(q) /\ v[k] = q[k]
           \/ k = Len(q) + 1 /\ v[k] = x
  BY <1>3, <1>6, AppendElements
<1>8. chan'[e].outq = v
  BY <1>5
<1> HIDE DEF v
<1>9. \A y : InQueue(chan', y) => InQueue(chan, y) \/ y = x
  BY <1>5, <1>7, <1>8 DEF InQueue
<1>10. \A y : InGot(chan', y) => InGot(chan, y)
  BY <1>5 DEF InGot
<1>11. \A i \in 1 .. 6 : \A y : Then(i, y) => Here(i, y) \/ (i = 6 /\ y = x)
  BY <1>1, <1>9, <1>10, StagesHere, StagesNext, SixStages
<1>12. \A i \in 1 .. 6 : \A y \in Items : Here(i, y) => Precedes(y, x)
  <2> SUFFICES ASSUME NEW i \in 1 .. 6, NEW y \in Items, Here(i, y), y.src = x.src
               PROVE  y.n < x.n
    BY DEF Precedes
  <2>1. y.n <= chan[y.src].sent /\ y.n \in Nat
    BY InStages, ItemFields
  <2> QED BY <2>1, <1>3
<1>13. /\ \A i \in 1 .. 6 : \A y : y \in st[i] <=> y \in Items /\ Here(i, y)
       /\ \A i \in 1 .. 6 : \A y : y \in su[i] <=> y \in Items /\ Then(i, y)
  BY StageOf
<1>14. Ordered(st) /\ Numbered(st, chan) /\ Fresh(chan, cli, st)
  BY DEF StreamInv
<1> HIDE DEF st, su
<1>15. \A i \in 1 .. 6 : \A y \in su[i] : y \in st[i] \/ (i = 6 /\ y = x)
  BY <1>11, <1>13
<1>16. Ordered(su)
  <2>1. \A i \in 1 .. 6 : \A y \in su[i] : i < 6 => Precedes(y, x)
    BY <1>12, <1>13, <1>15
  <2>2. \A i \in 1 .. 6 : \A y \in su[i] : 6 < i => Precedes(x, y)
    OBVIOUS
  <2> QED BY <1>14, <1>15, <2>1, <2>2, Enter
<1>17. Numbered(su, chan')
  <2> SUFFICES ASSUME NEW i \in 1 .. 6,
                      NEW y \in su[i] PROVE y.n <= chan'[y.src].sent
    BY DEF Numbered
  <2>1. CASE y = x
    BY <2>1, <1>3, <1>5
  <2>2. CASE y \in st[i]
    <3>1. y.n <= chan[y.src].sent /\ y.src \in Endpoints /\ y.n \in Nat
      BY <2>2, <1>13, <1>14, ItemFields DEF Numbered
    <3> QED BY <3>1, <1>3, <1>5
  <2> QED BY <2>1, <2>2, <1>15
<1>18. Fresh(chan', cli', su)
  <2> SUFFICES ASSUME NEW c \in Clients
               PROVE  /\ cli[c] = "idle" => chan'[<<c, "client">>].sent = 0
                                            /\ Untouched(chan', <<c, "server">>)
                      /\ \A i \in 3 .. 5 : RequestOf(c) \in su[i] =>
                           cli[c] # "idle" /\ Untouched(chan', <<c, "server">>)
    BY <1>1 DEF Fresh
  <2>1. cli[c] = "idle" => e # <<c, "client">>
    BY <1>1 DEF Usable
  <2>2. Untouched(chan, <<c, "server">>) => e # <<c, "server">>
    BY <1>1 DEF Usable, Untouched
  <2>3. <<c, "client">> \in Endpoints /\ <<c, "server">> \in Endpoints
    BY EndsOK
  <2>4. Untouched(chan, <<c, "server">>) => Untouched(chan', <<c, "server">>)
    BY <2>2, <2>3, <1>5 DEF Untouched
  <2>5. cli[c] = "idle" => chan'[<<c, "client">>].sent = chan[<<c, "client">>].sent
    BY <2>1, <2>3, <1>5
  <2>6. \A i \in 3 .. 5 : RequestOf(c) \in su[i] => RequestOf(c) \in st[i]
    BY <1>15
  <2> QED BY <2>4, <2>5, <2>6, <1>14 DEF Fresh
<1>19. QueueOrder(chan')
  <2>1. QueueOrder(chan)
    BY StreamNow
  <2> SUFFICES ASSUME NEW d \in Endpoints, NEW k \in 1 .. Len(chan'[d].outq)
               PROVE  /\ chan'[d].outq[k].src = d
                      /\ \A j \in 1 .. Len(chan'[d].outq) :
                           j < k => chan'[d].outq[j].n < chan'[d].outq[k].n
    BY DEF QueueOrder
  <2>2. CASE d # e
    <3>1. chan'[d].outq = chan[d].outq
      BY <2>2, <1>5
    <3> QED BY <3>1, <2>1 DEF QueueOrder
  <2>3. CASE d = e
    <3>1. k \in 1 .. Len(v) /\ chan'[d].outq = v
      BY <2>3, <1>8
    <3>2. CASE k \in 1 .. Len(q) /\ v[k] = q[k]
      <4>1. q[k].src = e /\ \A j \in 1 .. Len(q) : j < k => q[j].n < q[k].n
        BY <3>2, <2>1 DEF QueueOrder
      <4>2. \A j \in 1 .. Len(v) : j < k => j \in 1 .. Len(q) /\ v[j] = q[j]
        BY <3>2, <1>7
      <4> QED BY <2>3, <3>1, <3>2, <4>1, <4>2
    <3>3. CASE k = Len(q) + 1 /\ v[k] = x
      <4>1. ASSUME NEW j \in 1 .. Len(v), j < k PROVE v[j].n < x.n
        <5>1. j \in 1 .. Len(q) /\ v[j] = q[j] /\ q[j].src = e
          BY <3>3, <4>1, <1>7, <2>1 DEF QueueOrder
        <5>2. Here(6, q[j]) /\ q[j] \in Payloads
          BY <5>1, <1>6, StagesHere DEF InQueue
        <5>3. Precedes(q[j], x)
          BY <5>2, <1>12, PayloadItems
        <5> QED BY <5>1, <5>3, <1>3 DEF Precedes
      <4> QED BY <2>3, <3>1, <3>3, <4>1, <1>3
    <3> QED BY <3>1, <3>2, <3>3, <1>7
  <2> QED BY <2>2, <2>3
<1> QED BY <1>1, <1>16, <1>17, <1>18, <1>19, StreamNow, NextStreamParts DEF su

\* A client that has not asked for a connection has nothing under way.
LEMMA IdleClean ==
  ASSUME IInv, StreamInv, NEW c \in Clients, cli[c] = "idle",
         NEW i \in 1 .. 6, NEW y \in Items, Here(i, y)
  PROVE  y.src # <<c, "client">>
<1> SUFFICES ASSUME y.src = <<c, "client">> PROVE FALSE
  OBVIOUS
<1>1. y.n = 0
  <2>1. y.n <= chan[<<c, "client">>].sent /\ y.n \in Nat
    BY InStages, ItemFields
  <2>2. chan[<<c, "client">>].sent = 0
    BY IdleFresh
  <2> QED BY <2>1, <2>2
<1>2. y = RequestOf(c)
  BY <1>1 DEF Items, RequestOf
<1>3. CASE i \in 3 .. 5
  BY <1>2, <1>3, RequestFresh
<1>4. CASE i \in {1, 2, 6}
  BY <1>1, <1>4, StagePayloads, PayloadItems
<1> QED BY <1>3, <1>4

LEMMA StartConnectStream ==
  ASSUME IInv, StreamInv, NEW c \in Clients, StartConnect(c)
  PROVE  StreamInv'
<1> DEFINE e == <<c, "client">>
           x == RequestOf(c)
           st == Stages(chan, mach, wire, conns_rx)
           su == Stages(chan', mach', wire', conns_rx')
<1>1. /\ cli[c] = "idle" /\ cli' = [cli EXCEPT ![c] = "waiting"]
      /\ chan' = [chan EXCEPT ![e] = NewChannel]
      /\ conns_rx' = [conns_rx EXCEPT ![Home[c]] = Append(@, c)]
      /\ UNCHANGED <<tables, mach, wire>>
  BY DEF StartConnect
<1>2. /\ chan \in [Endpoints -> Channels] /\ cli \in [Clients -> Outcomes]
      /\ conns_rx \in [Peers -> Seq(Clients)]
  BY TypeParts DEF IInv, GoodChannels
<1>3. e \in Endpoints /\ x.src = e /\ x.n = 0
  BY EndsOK DEF RequestOf
<1>4. /\ NewChannel.sent = 0 /\ NewChannel.outq = <<>> /\ NewChannel.got = <<>>
      /\ NewChannel.app = "live"
  BY DEF NewChannel, NoChannel
<1>5. /\ \A d \in Endpoints \ {e} : chan'[d] = chan[d]
      /\ chan'[e] = NewChannel
  BY <1>1, <1>2, <1>3
<1>6. \A d \in Clients : cli'[d] = "idle" => cli[d] = "idle" /\ d # c
  BY <1>1, <1>2
<1>7. \A i \in 1 .. 6 : \A y \in Items : Here(i, y) => y.src # e
  BY <1>1, IdleClean
<1>8. x \in Items
  <2>1. 0 \in 0 .. MaxMsgs
    BY LinkAssumption
  <2> QED BY <2>1, EndsOK DEF RequestOf, Items
<1> HIDE DEF x, e
<1>9. ~InRequests(conns_rx, RequestOf(c))
  <2>1. ~Here(5, x)
    BY <1>3, <1>7, <1>8
  <2> QED BY <2>1, StagesHere DEF x
<1>10. /\ \A y : InRequests(conns_rx', y) => InRequests(conns_rx, y) \/ y = x
       /\ RequestsOnce(conns_rx') /\ RequestsLocal(conns_rx')
  BY <1>1, <1>2, <1>9, RequestAppend, StreamNow DEF x
<1>11. /\ \A y : InGot(chan', y) => InGot(chan, y)
       /\ \A y : InQueue(chan', y) => InQueue(chan, y)
  <2>1. chan'[e].got = <<>> /\ chan'[e].outq = <<>>
    BY <1>4, <1>5
  <2>2. Len(chan'[e].got) = 0 /\ Len(chan'[e].outq) = 0
    BY <2>1
  <2>3. \A y : InGot(chan', y) => InGot(chan, y)
    BY <1>5, <2>2 DEF InGot
  <2>4. \A y : InQueue(chan', y) => InQueue(chan, y)
    BY <1>5, <2>2 DEF InQueue
  <2> QED BY <2>3, <2>4
<1>12. QueueOrder(chan')
  <2>1. Len(chan'[e].outq) = 0
    BY <1>4, <1>5
  <2> QED BY <2>1, <1>5, StreamNow DEF QueueOrder
<1>13. \A i \in 1 .. 6 : \A y : Then(i, y) => Here(i, y) \/ (i = 5 /\ y = x)
  BY <1>1, <1>10, <1>11, StagesHere, StagesNext, SixStages
<1>14. /\ \A i \in 1 .. 6 : \A y : y \in st[i] <=> y \in Items /\ Here(i, y)
       /\ \A i \in 1 .. 6 : \A y : y \in su[i] <=> y \in Items /\ Then(i, y)
  BY StageOf
<1>15. Ordered(st) /\ Numbered(st, chan) /\ Fresh(chan, cli, st)
  BY DEF StreamInv
<1> HIDE DEF st, su
<1>16. \A i \in 1 .. 6 : \A y \in su[i] : y \in st[i] \/ (i = 5 /\ y = x)
  BY <1>13, <1>14
<1>17. \A i \in 1 .. 6 : \A y \in st[i] : y.src # e /\ y.src \in Endpoints
  BY <1>7, <1>14, ItemFields
<1>18. Ordered(su)
  <2>1. \A i \in 1 .. 6 : \A y \in su[i] : i < 5 => Precedes(y, x)
    BY <1>3, <1>16, <1>17 DEF Precedes
  <2>2. \A i \in 1 .. 6 : \A y \in su[i] : 5 < i => Precedes(x, y)
    BY <1>3, <1>16, <1>17 DEF Precedes
  <2> QED BY <1>15, <1>16, <2>1, <2>2, Enter
<1>19. Numbered(su, chan')
  <2> SUFFICES ASSUME NEW i \in 1 .. 6,
                      NEW y \in su[i] PROVE y.n <= chan'[y.src].sent
    BY DEF Numbered
  <2>1. CASE y = x
    BY <2>1, <1>3, <1>4, <1>5
  <2>2. CASE y \in st[i]
    <3>1. y.n <= chan[y.src].sent /\ y.src \in Endpoints /\ y.src # e
      BY <2>2, <1>15, <1>17 DEF Numbered
    <3> QED BY <3>1, <1>5
  <2> QED BY <2>1, <2>2, <1>16
<1>20. Fresh(chan', cli', su)
  <2> SUFFICES ASSUME NEW d \in Clients
               PROVE  /\ cli'[d] = "idle" => chan'[<<d, "client">>].sent = 0
                                            /\ Untouched(chan', <<d, "server">>)
                      /\ \A i \in 3 .. 5 : RequestOf(d) \in su[i] =>
                           cli'[d] # "idle" /\ Untouched(chan', <<d, "server">>)
    BY DEF Fresh
  <2>1. <<d, "client">> \in Endpoints /\ <<d, "server">> \in Endpoints
        /\ <<d, "server">> # e
    BY EndsOK DEF e
  <2>2. Untouched(chan, <<d, "server">>) => Untouched(chan', <<d, "server">>)
    BY <2>1, <1>5 DEF Untouched
  <2>3. CASE d = c
    <3>1. cli'[d] # "idle" /\ Untouched(chan, <<d, "server">>)
      BY <2>3, <1>1, <1>6, IdleFresh
    <3> QED BY <3>1, <2>2
  <2>4. CASE d # c
    <3>1. <<d, "client">> # e
      BY <2>4 DEF e
    <3>2. chan'[<<d, "client">>].sent = chan[<<d, "client">>].sent
      BY <2>1, <3>1, <1>5
    <3>3. \A i \in 3 .. 5 : RequestOf(d) \in su[i] => RequestOf(d) \in st[i]
      <4>1. RequestOf(d) # x
        BY <2>4, RequestInjective DEF x
      <4> QED BY <4>1, <1>16
    <3> QED BY <2>2, <3>2, <3>3, <1>6, <1>15 DEF Fresh
  <2> QED BY <2>3, <2>4
<1>21. SocketsRequested(tables', cli', conns_rx')
  <2> SUFFICES ASSUME NEW p \in Peers, NEW i \in Ids, NEW d \in Clients,
                      Occupied(tables[p].conns[i]),
                      tables[p].conns[i].chan = <<d, "client">>
               PROVE  cli'[d] # "idle" /\ ~InRequests(conns_rx', RequestOf(d))
    BY <1>1 DEF SocketsRequested
  <2>1. cli[d] # "idle" /\ ~InRequests(conns_rx, RequestOf(d))
    BY StreamNow DEF SocketsRequested
  <2>2. RequestOf(d) # x
    BY <2>1, <1>1, RequestInjective DEF x
  <2> QED BY <2>1, <2>2, <1>6, <1>10
<1> QED BY <1>1, <1>10, <1>12, <1>18, <1>19, <1>20, <1>21, StreamNow,
           NextStreamParts DEF su

LEMMA OtherOther ==
  ASSUME NEW p \in Peers
  PROVE  Other(Other(p)) = p /\ \A q \in Peers : q # p => q = Other(p)
<1>1. Other(p) \in Peers /\ Other(p) # p /\ Other(Other(p)) \in Peers
      /\ Other(Other(p)) # Other(p)
  BY OtherPeer
<1> QED BY <1>1, LinkAssumption

\* A frame that is sent goes onto the wire.
LEMMA WireSendStream ==
  ASSUME IInv, StreamInv, NEW p \in Peers, WireSend(p)
  PROVE  StreamInv'
<1> DEFINE f == mach[p].frame
           x == Item(f)
<1>1. /\ mach[p].at = "send"
      /\ wire' = [wire EXCEPT ![p] = Append(@, f)]
      /\ mach' = [mach EXCEPT ![p] = Selecting]
      /\ UNCHANGED <<tables, conns_rx, cli, chan>>
  BY DEF WireSend
<1>2. /\ f \in Frames /\ GoodWire(wire) /\ mach \in [Peers -> MachineStates]
      /\ tables' = [tables EXCEPT ![p] = tables[p]]
  BY <1>1, Now, MachineFields
<1>3. /\ \A y : InDelivery(mach', y) => InDelivery(mach, y)
      /\ \A y : InSending(mach', y) => InSending(mach, y)
      /\ MachLocal(mach')
  BY <1>1, <1>2, MachQuiet, StreamNow, QuietFrames
<1>4. CASE ~Carries(f)
  <2>1. /\ \A y : OnWire(wire', y) => OnWire(wire, y)
        /\ WireOrder(wire') /\ WireLocal(wire')
    BY <1>1, <1>2, <1>4, WireAppend, StreamNow
  <2> QED BY <1>1, <1>2, <2>1, QuietFrames, SameTable, Reflexive, StreamNow,
             QuietMachine
<1>5. CASE Carries(f)
  <2>1. x \in Items /\ Here(4, x) /\ PeerOf(x.src) = p
    BY <1>1, <1>2, <1>5, ItemOK, StagesHere, StreamNow DEF InSending, MachLocal
  <2>2. \A y : OnWire(wire, y) => y \in Items
    <3> SUFFICES ASSUME NEW q \in Peers, NEW k \in 1 .. Len(wire[q]),
                        Carries(wire[q][k])
                 PROVE  Item(wire[q][k]) \in Items
      BY DEF OnWire
    <3>1. wire[q] \in Seq(Frames)
      BY <1>2 DEF GoodWire
    <3>2. wire[q][k] \in Frames
      BY <3>1
    <3> QED BY <3>2, ItemOK
  <2>3. \A y : OnWire(wire, y) => Precedes(y, x)
    BY <2>1, <2>2, InStages, StagesHere
  <2>4. /\ \A y : OnWire(wire', y) => OnWire(wire, y) \/ y = x
        /\ WireOrder(wire') /\ WireLocal(wire')
    BY <1>1, <1>2, <2>1, <2>3, WireAppend, StreamNow
  <2>5. \A i \in 1 .. 6 : \A y : Then(i, y) => Here(i, y) \/ (i = 3 /\ y = x)
    BY <1>1, <1>3, <2>4, StagesHere, StagesNext, SixStages
  <2>6. \A y : InSending(mach', y) => Precedes(x, y)
    <3> SUFFICES ASSUME NEW q \in Peers, mach'[q].at = "send",
                        Carries(mach'[q].frame)
                 PROVE  Item(mach'[q].frame).src # x.src
      BY DEF InSending, Precedes
    <3>1. q # p
      BY <1>1, <1>2, QuietFrames
    <3> QED BY <3>1, <2>1, <1>3 DEF MachLocal
  <2>7. \A i \in 1 .. 6 : 3 < i /\ i <= 4 => \A y : Then(i, y) => Precedes(x, y)
    BY <2>6, StagesNext, SixStages
  <2>8. SameBooks(chan, chan', cli, cli')
    BY <1>1 DEF SameBooks
  <2>9. LET su == Stages(chan', mach', wire', conns_rx')
        IN  Ordered(su) /\ Numbered(su, chan') /\ Fresh(chan', cli', su)
    <3> HIDE DEF x, f
    <3> QED BY <2>1, <2>5, <2>7, <2>8, MoveStep
  <2> QED BY <1>1, <1>3, <2>4, <2>9, StreamNow, NextStreamParts
<1> QED BY <1>4, <1>5

LEMMA TakenDataStream ==
  ASSUME IInv, StreamInv, NEW p \in Peers, RecvData(p),
         AcceptsData(tables[p], InFrame(p))
  PROVE  StreamInv'
<1> DEFINE f == InFrame(p)
           x == Item(f)
<1>1. /\ Inbound(p, "DATA") /\ mach' = [mach EXCEPT ![p] = Delivering(f)]
      /\ UNCHANGED <<tables, conns_rx, cli, chan>>
  BY DEF RecvData
<1>2. f \in Frames /\ f.type = "DATA" /\ mach[p] = Selecting
      /\ mach \in [Peers -> MachineStates]
  BY <1>1, InboundOK, Now
<1>3. Carries(f) /\ x = f.body
  BY <1>2 DEF Carries, Item
<1>4. x \in Items
  BY <1>2, <1>3, ItemOK
<1>5. /\ \A y : OnWire(wire', y) => OnWire(wire, y) /\ Precedes(x, y)
      /\ WireOrder(wire') /\ WireLocal(wire')
      /\ OnWire(wire, x) /\ PeerOf(x.src) = Other(p)
  BY <1>1, <1>3, InboundStream
<1> HIDE DEF x, f
<1>6. /\ \A y : InDelivery(mach', y) => InDelivery(mach, y) \/ y = x
      /\ \A y : InSending(mach', y) => InSending(mach, y)
      /\ MachLocal(mach')
  <2>1. PeerOf(f.body.src) = Other(p)
    BY <1>3, <1>5
  <2> QED BY <1>1, <1>2, <1>3, <2>1, MachDelivers, StreamNow
<1>7. \A i \in 1 .. 6 : \A y : Then(i, y) => Here(i, y) \/ (i = 2 /\ y = x)
  BY <1>1, <1>5, <1>6, StagesHere, StagesNext, SixStages
<1>8. \A i \in 1 .. 6 : 2 < i /\ i <= 3 => \A y : Then(i, y) => Precedes(x, y)
  BY <1>5, StagesNext, SixStages
<1>9. SameBooks(chan, chan', cli, cli') /\ Here(3, x)
  BY <1>1, <1>5, StagesHere DEF SameBooks
<1>10. LET su == Stages(chan', mach', wire', conns_rx')
       IN  Ordered(su) /\ Numbered(su, chan') /\ Fresh(chan', cli', su)
  BY <1>4, <1>7, <1>8, <1>9, MoveStep
<1> QED BY <1>1, <1>5, <1>6, <1>10, StreamNow, NextStreamParts

\* The channel of a delivery gets the message and nothing else changes in it.
LEMMA DeliverOkFacts ==
  ASSUME IInv, NEW p \in Peers, DeliverOk(p)
  PROVE  LET f == mach[p].frame
             e == tables[p].conns[f.remote_id].chan
         IN  /\ mach[p].at = "deliver" /\ e \in Endpoints /\ f.body \in Payloads
             /\ \A d \in Endpoints \ {e} : chan'[d] = chan[d]
             /\ chan'[e].got = Append(chan[e].got, f.body)
             /\ chan[e].got \in Seq(Payloads)
             /\ chan'[e].sent = chan[e].sent /\ chan'[e].outq = chan[e].outq
             /\ chan'[e].app = chan[e].app
             /\ mach' = [mach EXCEPT ![p] = Selecting]
             /\ UNCHANGED <<tables, wire, conns_rx, cli>>
<1> DEFINE f == mach[p].frame
           e == tables[p].conns[f.remote_id].chan
           x == f.body
<1>1. /\ mach[p].at = "deliver"
      /\ chan' = [chan EXCEPT ![e].got = Append(@, x)]
      /\ mach' = [mach EXCEPT ![p] = Selecting]
      /\ UNCHANGED <<tables, wire, conns_rx, cli>>
  BY DEF DeliverOk
<1>2. e \in Endpoints /\ x \in Payloads /\ chan \in [Endpoints -> Channels]
  BY <1>1, DeliverFacts, Now DEF GoodChannels
<1> HIDE DEF e, x
<1>3. /\ chan'[e] = [chan[e] EXCEPT !.got = Append(@, x)]
      /\ \A d \in Endpoints \ {e} : chan'[d] = chan[d] /\ chan[e] \in Channels
      /\ chan[e] \in Channels
  BY <1>1, <1>2
<1>4. /\ chan'[e].got = Append(chan[e].got, x) /\ chan[e].got \in Seq(Payloads)
      /\ chan'[e].sent = chan[e].sent /\ chan'[e].outq = chan[e].outq
      /\ chan'[e].app = chan[e].app
  BY <1>3 DEF Channels
<1> QED BY <1>1, <1>2, <1>3, <1>4 DEF e, x

LEMMA DeliverOkStream ==
  ASSUME IInv, StreamInv, NEW p \in Peers, DeliverOk(p)
  PROVE  StreamInv'
<1> DEFINE f == mach[p].frame
           e == tables[p].conns[f.remote_id].chan
           x == f.body
<1>1. /\ mach[p].at = "deliver" /\ e \in Endpoints /\ x \in Payloads
      /\ \A d \in Endpoints \ {e} : chan'[d] = chan[d]
      /\ chan'[e].got = Append(chan[e].got, x) /\ chan[e].got \in Seq(Payloads)
      /\ chan'[e].sent = chan[e].sent /\ chan'[e].outq = chan[e].outq
      /\ chan'[e].app = chan[e].app
      /\ mach' = [mach EXCEPT ![p] = Selecting]
      /\ UNCHANGED <<tables, wire, conns_rx, cli>>
  BY DeliverOkFacts
<1>2. mach \in [Peers -> MachineStates] /\ PeerOf(x.src) = Other(p) /\ Here(2, x)
  BY <1>1, Now, StreamNow, StagesHere DEF MachLocal, InDelivery
<1>3. /\ \A y : InDelivery(mach', y) => InDelivery(mach, y)
      /\ \A y : InSending(mach', y) => InSending(mach, y)
      /\ MachLocal(mach')
  BY <1>1, <1>2, MachQuiet, StreamNow, QuietFrames
<1> HIDE DEF f, e, x
<1>4. \A y : InDelivery(mach', y) => Precedes(x, y)
  <2> SUFFICES ASSUME NEW q \in Peers, mach'[q].at = "deliver"
               PROVE  mach'[q].frame.body.src # x.src
    BY DEF InDelivery, Precedes
  <2>1. q # p
    BY <1>1, <1>2, QuietFrames
  <2>2. PeerOf(mach'[q].frame.body.src) = Other(q)
    BY <1>3 DEF MachLocal
  <2>3. Other(q) # Other(p)
    BY <2>1, OtherOther
  <2> QED BY <1>2, <2>2, <2>3
<1> DEFINE g == chan[e].got
           v == Append(g, x)
<1>5. /\ Len(v) = Len(g) + 1 /\ Len(g) \in Nat
      /\ \A k \in 1 .. Len(v) :
           \/ k \in 1 .. Len(g) /\ v[k] = g[k]
           \/ k = Len(g) + 1 /\ v[k] = x
  BY <1>1, AppendElements
<1>6. chan'[e].got = v
  BY <1>1
<1> HIDE DEF v
<1>7. /\ \A y : InGot(chan', y) => InGot(chan, y) \/ y = x
      /\ \A y : InQueue(chan', y) => InQueue(chan, y)
  <2>1. \A y : InGot(chan', y) => InGot(chan, y) \/ y = x
    BY <1>1, <1>5, <1>6 DEF InGot
  <2>2. \A y : InQueue(chan', y) => InQueue(chan, y)
    BY <1>1 DEF InQueue
  <2> QED BY <2>1, <2>2
<1>8. QueueOrder(chan')
  <2>1. \A d \in Endpoints : chan'[d].outq = chan[d].outq
    BY <1>1
  <2> QED BY <2>1, StreamNow DEF QueueOrder
<1>9. \A i \in 1 .. 6 : \A y : Then(i, y) => Here(i, y) \/ (i = 1 /\ y = x)
  BY <1>1, <1>3, <1>7, StagesHere, StagesNext, SixStages
<1>10. \A i \in 1 .. 6 : 1 < i /\ i <= 2 => \A y : Then(i, y) => Precedes(x, y)
  BY <1>4, StagesNext, SixStages
<1>11. SameBooks(chan, chan', cli, cli') /\ x \in Items
  BY <1>1, PayloadItems DEF SameBooks
<1>12. LET su == Stages(chan', mach', wire', conns_rx')
       IN  Ordered(su) /\ Numbered(su, chan') /\ Fresh(chan', cli', su)
  BY <1>2, <1>9, <1>10, <1>11, MoveStep
<1> QED BY <1>1, <1>3, <1>8, <1>12, StreamNow, NextStreamParts

\* The message next_outbound found: the first in the channel of its socket.
LEMMA OutboundFacts ==
  ASSUME IInv, StreamInv, NEW p \in Peers, OutboundData(p)
  PROVE  \E e \in Endpoints, id \in Ids, r \in Ids :
           /\ Cleaned(p).conns[id] = Open(r, e)
           /\ Occupied(tables[p].conns[id]) /\ tables[p].conns[id].chan = e
           /\ chan[e].outq # <<>> /\ chan[e].outq \in Seq(Payloads)
           /\ \A d \in Endpoints :
                /\ chan'[d].sent = chan[d].sent /\ chan'[d].got = chan[d].got
                /\ d[2] = "server" /\ chan[d].app = "none" => chan'[d].app = "none"
                /\ d # e => chan'[d].outq = chan[d].outq
           /\ chan'[e].outq = Tail(chan[e].outq)
           /\ tables' = [tables EXCEPT ![p] = Cleaned(p)]
           /\ mach' = [mach EXCEPT ![p] = Sending(data(r, id, Head(chan[e].outq)))]
           /\ mach[p] = Selecting /\ UNCHANGED <<wire, conns_rx, cli>>
<1>1. PICK i \in Ids :
        LET sock == Cleaned(p).conns[i]
        IN  /\ FirstReady(p, i)
            /\ chan[sock.chan].outq # <<>>
            /\ chan' = [CleanedChan(p) EXCEPT ![sock.chan] = Dequeue(@)]
            /\ tables' = [tables EXCEPT ![p] = Cleaned(p)]
            /\ mach' = [mach EXCEPT ![p] =
                  Sending(data(sock.remote_id, i, Head(chan[sock.chan].outq)))]
  BY DEF OutboundData
<1> DEFINE sock == Cleaned(p).conns[i]
           e == sock.chan
           r == sock.remote_id
           ch == CleanedChan(p)
<1>2. sock.tag = "Open" /\ e \in Endpoints /\ r \in Ids
  BY <1>1, ReadyOK
<1>3. sock = Open(r, e)
  <2>1. sock \in Entries(Endpoints)
    BY CleanedOK DEF Tables
  <2> HIDE DEF sock
  <2> QED BY <1>2, <2>1 DEF Entries, Open, Unused
<1>4. Occupied(tables[p].conns[i]) /\ tables[p].conns[i].chan = e
  <2>1. Occupied(sock)
    BY <1>2 DEF Occupied
  <2> QED BY <2>1, CleanedStream DEF TableShrinks
<1>5. /\ ch \in [Endpoints -> Channels] /\ SameStreams(chan, ch)
      /\ chan[e] \in Channels /\ ch[e] \in Channels
  BY <1>2, CleanedOK, CleanedStream, Now DEF GoodChannels
<1>6. /\ chan' = [ch EXCEPT ![e] = Dequeue(ch[e])] /\ chan[e].outq # <<>>
      /\ tables' = [tables EXCEPT ![p] = Cleaned(p)]
      /\ mach' = [mach EXCEPT ![p] = Sending(data(r, i, Head(chan[e].outq)))]
      /\ mach[p] = Selecting /\ UNCHANGED <<wire, conns_rx, cli>>
  BY <1>1 DEF OutboundData
<1> HIDE DEF sock, e, r, ch
<1>7. /\ Dequeue(ch[e]).outq = Tail(ch[e].outq) /\ Dequeue(ch[e]).sent = ch[e].sent
      /\ Dequeue(ch[e]).got = ch[e].got /\ Dequeue(ch[e]).app = ch[e].app
  BY <1>5 DEF Dequeue, Channels
<1>8. chan'[e] = Dequeue(ch[e]) /\ \A d \in Endpoints \ {e} : chan'[d] = ch[d]
  BY <1>2, <1>5, <1>6
<1>9. /\ \A d \in Endpoints :
           /\ chan'[d].sent = chan[d].sent /\ chan'[d].got = chan[d].got
           /\ d[2] = "server" /\ chan[d].app = "none" => chan'[d].app = "none"
           /\ d # e => chan'[d].outq = chan[d].outq
      /\ chan'[e].outq = Tail(chan[e].outq)
  BY <1>2, <1>5, <1>7, <1>8 DEF SameStreams
<1>10. chan[e].outq \in Seq(Payloads)
  BY <1>5 DEF Channels
<1>11. Cleaned(p).conns[i] = Open(r, e)
  BY <1>3 DEF sock
<1> QED BY <1>2, <1>4, <1>6, <1>9, <1>10, <1>11

LEMMA OutboundDataStream ==
  ASSUME IInv, StreamInv, NEW p \in Peers, OutboundData(p)
  PROVE  StreamInv'
<1>1. PICK e \in Endpoints, id \in Ids, r \in Ids :
        /\ Occupied(tables[p].conns[id]) /\ tables[p].conns[id].chan = e
        /\ chan[e].outq # <<>> /\ chan[e].outq \in Seq(Payloads)
        /\ \A d \in Endpoints :
             /\ chan'[d].sent = chan[d].sent /\ chan'[d].got = chan[d].got
             /\ d[2] = "server" /\ chan[d].app = "none" => chan'[d].app = "none"
             /\ d # e => chan'[d].outq = chan[d].outq
        /\ chan'[e].outq = Tail(chan[e].outq)
        /\ tables' = [tables EXCEPT ![p] = Cleaned(p)]
        /\ mach' = [mach EXCEPT ![p] = Sending(data(r, id, Head(chan[e].outq)))]
        /\ UNCHANGED <<wire, conns_rx, cli>>
  BY OutboundFacts
<1> DEFINE q == chan[e].outq
           t == Tail(q)
           x == Head(q)
           f == data(r, id, x)
<1>2. /\ x = q[1] /\ 1 \in 1 .. Len(q) /\ Len(q) \in Nat
      /\ \A k \in 1 .. Len(t) : k + 1 \in 1 .. Len(q) /\ t[k] = q[k + 1]
         /\ k + 1 > 1
      /\ x \in Payloads
  BY <1>1, TailElements
<1>3. Carries(f) /\ Item(f) = x
  BY DEF Carries, Item, data
<1>4. chan'[e].outq = t /\ mach' = [mach EXCEPT ![p] = Sending(f)]
  BY <1>1
<1> HIDE DEF t, x, f
<1>5. Here(6, x) /\ x \in Items /\ x.n # 0 /\ x.src = e
  BY <1>2, StagesHere, StreamNow, PayloadItems DEF InQueue, QueueOrder
<1>6. PeerOf(x.src) = p
  BY <1>1, <1>5, StreamNow DEF TablesLocal
<1>7. /\ \A y : InDelivery(mach', y) => InDelivery(mach, y)
      /\ \A y : InSending(mach', y) => InSending(mach, y) \/ y = x
      /\ MachLocal(mach')
  <2>1. mach \in [Peers -> MachineStates] /\ PeerOf(Item(f).src) = p
    BY <1>3, <1>6, Now
  <2> QED BY <1>3, <1>4, <2>1, MachSends, StreamNow
<1>8. ASSUME NEW y, InQueue(chan', y)
      PROVE  InQueue(chan, y) /\ Precedes(x, y)
  <2>1. PICK d \in Endpoints : \E k \in 1 .. Len(chan'[d].outq) : y = chan'[d].outq[k]
    BY <1>8 DEF InQueue
  <2>2. PICK k \in 1 .. Len(chan'[d].outq) : y = chan'[d].outq[k]
    BY <2>1
  <2>3. CASE d # e
    <3>1. chan'[d].outq = chan[d].outq
      BY <1>1, <2>3
    <3>2. InQueue(chan, y) /\ y.src = d
      BY <2>2, <3>1, StreamNow DEF InQueue, QueueOrder
    <3> QED BY <2>3, <3>2, <1>5 DEF Precedes
  <2>4. CASE d = e
    <3>1. k \in 1 .. Len(t) /\ y = t[k]
      BY <2>2, <2>4, <1>4
    <3>2. y = q[k + 1] /\ k + 1 \in 1 .. Len(q) /\ k + 1 > 1
      BY <3>1, <1>2
    <3>3. InQueue(chan, y)
      BY <3>2 DEF InQueue
    <3>4. q[1].n < q[k + 1].n
      BY <3>2, <1>2, StreamNow DEF QueueOrder
    <3> QED BY <3>2, <3>3, <3>4, <1>2 DEF Precedes
  <2> QED BY <2>3, <2>4
<1>9. QueueOrder(chan')
  <2> SUFFICES ASSUME NEW d \in Endpoints, NEW k \in 1 .. Len(chan'[d].outq)
               PROVE  /\ chan'[d].outq[k].src = d
                      /\ \A j \in 1 .. Len(chan'[d].outq) :
                           j < k => chan'[d].outq[j].n < chan'[d].outq[k].n
    BY DEF QueueOrder
  <2>1. CASE d # e
    <3>1. chan'[d].outq = chan[d].outq
      BY <1>1, <2>1
    <3> QED BY <3>1, StreamNow DEF QueueOrder
  <2>2. CASE d = e
    <3>1. chan'[d].outq = t /\ k \in 1 .. Len(t)
      BY <2>2, <1>4
    <3>2. t[k] = q[k + 1] /\ k + 1 \in 1 .. Len(q)
      BY <3>1, <1>2
    <3>3. t[k].src = e
      BY <3>2, StreamNow DEF QueueOrder
    <3>4. ASSUME NEW j \in 1 .. Len(t), j < k PROVE t[j].n < t[k].n
      <4>1. t[j] = q[j + 1] /\ j + 1 \in 1 .. Len(q) /\ j + 1 < k + 1
        BY <3>4, <1>2
      <4> QED BY <3>2, <4>1, StreamNow DEF QueueOrder
    <3> QED BY <2>2, <3>1, <3>3, <3>4
  <2> QED BY <2>1, <2>2
<1>10. \A y : InRequests(conns_rx', y) => Precedes(x, y)
  <2> SUFFICES ASSUME NEW q1 \in Peers, NEW k \in 1 .. Len(conns_rx[q1]),
                      x.src = RequestOf(conns_rx[q1][k]).src
               PROVE  FALSE
    BY <1>1 DEF InRequests, Precedes
  <2> DEFINE c == conns_rx[q1][k]
  <2>1. c \in Clients
    <3>1. conns_rx[q1] \in Seq(Clients)
      BY Now
    <3> QED BY <3>1
  <2>2. e = <<c, "client">> /\ InRequests(conns_rx, RequestOf(c))
    BY <1>5 DEF RequestOf, InRequests
  <2> HIDE DEF c
  <2> QED BY <1>1, <2>1, <2>2, StreamNow DEF SocketsRequested
<1>11. \A y : InGot(chan', y) => InGot(chan, y)
  BY <1>1 DEF InGot
<1>12. \A i \in 1 .. 6 : \A y : Then(i, y) => Here(i, y) \/ (i = 4 /\ y = x)
  BY <1>1, <1>7, <1>8, <1>11, StagesHere, StagesNext, SixStages
<1>13. \A i \in 1 .. 6 : 4 < i /\ i <= 6 => \A y : Then(i, y) => Precedes(x, y)
  BY <1>8, <1>10, StagesNext, SixStages
<1>14. SameBooks(chan, chan', cli, cli')
  BY <1>1 DEF SameBooks
<1>15. LET su == Stages(chan', mach', wire', conns_rx')
       IN  Ordered(su) /\ Numbered(su, chan') /\ Fresh(chan', cli', su)
  BY <1>5, <1>12, <1>13, <1>14, MoveStep
<1>16. TablesLocal(tables') /\ \A d \in Peers : TableShrinks(tables[d], tables'[d])
  BY <1>1, CleanedStream, Now, TablesShrink, StreamNow
<1>17. SocketsRequested(tables', cli', conns_rx')
  BY <1>1, <1>16, RequestedKept, StreamNow
<1> QED BY <1>1, <1>7, <1>9, <1>15, <1>16, <1>17, StreamNow, NextStreamParts

\* A socket is inserted.
TableGrows(t, u, e) ==
  \A i \in Ids : Occupied(u.conns[i]) =>
    \/ u.conns[i].chan = e
    \/ Occupied(t.conns[i]) /\ u.conns[i].chan = t.conns[i].chan

LEMMA InsertGrows ==
  ASSUME NEW o, NEW t \in Tables(Endpoints), TableShrinks(o, t),
         NEW id \in Ids, NEW socket
  PROVE  TableGrows(o, insert_at(t, id, socket), socket.chan)
BY InsertedSocket DEF TableGrows, TableShrinks

LEMMA TablesGrow ==
  ASSUME tables \in [Peers -> Tables(Endpoints)], TablesLocal(tables),
         NEW p \in Peers, NEW u, tables' = [tables EXCEPT ![p] = u],
         NEW e, TableGrows(tables[p], u, e), PeerOf(e) = p
  PROVE  /\ TablesLocal(tables')
         /\ \A q \in Peers : TableGrows(tables[q], tables'[q], e)
<1>1. tables'[p] = u /\ \A q \in Peers \ {p} : tables'[q] = tables[q]
  OBVIOUS
<1>2. \A q \in Peers : TableGrows(tables[q], tables'[q], e)
  BY <1>1 DEF TableGrows
<1>3. \A i \in Ids : Occupied(u.conns[i]) => PeerOf(u.conns[i].chan) = p
  BY DEF TableGrows, TablesLocal
<1>4. TablesLocal(tables')
  BY <1>1, <1>3 DEF TablesLocal
<1> QED BY <1>2, <1>4

LEMMA GrantedStream ==
  ASSUME IInv, StreamInv, NEW p \in Peers, StartConnecting(p),
         reserve_id(Cleaned(p)) # NoId
  PROVE  StreamInv'
<1> DEFINE c == Head(conns_rx[p])
           id == reserve_id(Cleaned(p))
           socket == Connecting(<<c, "client">>)
           f == connect(id, c)
           x == RequestOf(c)
<1>1. /\ UNCHANGED <<wire, cli>> /\ conns_rx[p] # <<>>
      /\ conns_rx' = [conns_rx EXCEPT ![p] = Tail(@)]
      /\ tables' = [tables EXCEPT ![p] = insert_at(Cleaned(p), id, socket)]
      /\ chan' = CleanedChan(p)
      /\ mach' = [mach EXCEPT ![p] = Sending(f)]
  BY DEF StartConnecting
<1>2. /\ \A y : InRequests(conns_rx', y) => InRequests(conns_rx, y)
      /\ RequestsOnce(conns_rx') /\ RequestsLocal(conns_rx') /\ c \in Clients
      /\ Home[c] = p /\ InRequests(conns_rx, x) /\ ~InRequests(conns_rx', x)
  <2>1. conns_rx \in [Peers -> Seq(Clients)]
    BY Now
  <2> QED BY <1>1, <2>1, StreamNow, RequestTail
<1>3. /\ id \in Ids /\ Cleaned(p) \in Tables(Endpoints)
         /\ tables \in [Peers -> Tables(Endpoints)]
      /\ mach \in [Peers -> MachineStates]
  <2>1. InsertIsSafe(Cleaned(p))
    BY CleanedOK, ReserveOK
  <2>2. id \in Ids
    BY <2>1 DEF InsertIsSafe
  <2> QED BY <2>2, CleanedOK, Now
<1>4. /\ socket.chan = <<c, "client">> /\ PeerOf(socket.chan) = p
      /\ Item(f) = x /\ x.src = <<c, "client">> /\ x.n = 0
  <2> HIDE DEF c, id
  <2>1. socket.chan = <<c, "client">>
    BY DEF Connecting
  <2>2. PeerOf(<<c, "client">>) = p
    BY <1>2 DEF PeerOf
  <2>3. f.type = "CONNECT" /\ f.conn = c
    BY DEF connect
  <2>4. x.src = <<c, "client">> /\ x.n = 0
    BY DEF RequestOf
  <2>5. Item(f) = x
    BY <2>3 DEF Item
  <2> HIDE DEF socket
  <2> QED BY <2>1, <2>2, <2>4, <2>5
<1>5. x \in Items
  <2>1. 0 \in 0 .. MaxMsgs
    BY LinkAssumption
  <2> QED BY <2>1, <1>2, EndsOK DEF RequestOf, Items
<1> HIDE DEF socket, f, id, c
<1>6. /\ TablesLocal(tables')
      /\ \A q \in Peers : TableGrows(tables[q], tables'[q], <<c, "client">>)
  <2>1. TableShrinks(tables[p], Cleaned(p)) /\ TablesLocal(tables)
    BY CleanedStream, StreamNow
  <2> DEFINE u == insert_at(Cleaned(p), id, socket)
             e == <<c, "client">>
  <2>2. TableGrows(tables[p], u, e)
    BY <1>3, <1>4, <2>1, InsertGrows
  <2>3. tables' = [tables EXCEPT ![p] = u] /\ PeerOf(e) = p
    BY <1>1, <1>4
  <2> HIDE DEF u, e
  <2>4. TablesLocal(tables') /\ \A q \in Peers : TableGrows(tables[q], tables'[q], e)
    BY <1>3, <2>1, <2>2, <2>3, TablesGrow
  <2> QED BY <2>4 DEF e
<1>7. cli[c] # "idle"
  <2>1. Here(5, RequestOf(c)) /\ 5 \in 3 .. 5
    BY <1>2, StagesHere
  <2> HIDE DEF x
  <2> QED BY <2>1, <1>2, RequestFresh
<1>8. SocketsRequested(tables', cli', conns_rx')
  <2> SUFFICES ASSUME NEW q \in Peers, NEW i \in Ids, NEW d \in Clients,
                      Occupied(tables'[q].conns[i]),
                      tables'[q].conns[i].chan = <<d, "client">>
               PROVE  cli'[d] # "idle" /\ ~InRequests(conns_rx', RequestOf(d))
    BY DEF SocketsRequested
  <2>1. CASE d = c
    BY <2>1, <1>1, <1>2, <1>7
  <2>2. CASE d # c
    <3>1. Occupied(tables[q].conns[i]) /\ tables[q].conns[i].chan = <<d, "client">>
      BY <2>2, <1>6 DEF TableGrows
    <3> QED BY <3>1, <1>1, <1>2, StreamNow DEF SocketsRequested
  <2> QED BY <2>1, <2>2
<1>9. /\ \A y : InDelivery(mach', y) => InDelivery(mach, y)
      /\ \A y : InSending(mach', y) => InSending(mach, y) \/ y = x
      /\ MachLocal(mach')
  <2>1. PeerOf(Item(f).src) = p
    BY <1>4
  <2> QED BY <1>1, <1>3, <1>4, <2>1, MachSends, StreamNow
<1>10. /\ SameStreams(chan, chan')
       /\ \A y : InGot(chan', y) => InGot(chan, y)
       /\ \A y : InQueue(chan', y) => InQueue(chan, y)
       /\ QueueOrder(chan')
  BY <1>1, CleanedStream, SameStages, StreamNow
<1>11. \A y : InRequests(conns_rx', y) => Precedes(x, y)
  <2> SUFFICES ASSUME NEW q \in Peers, NEW k \in 1 .. Len(conns_rx'[q]),
                      x.src = RequestOf(conns_rx'[q][k]).src
               PROVE  FALSE
    BY DEF InRequests, Precedes
  <2>1. RequestOf(conns_rx'[q][k]) = x
    BY DEF RequestOf
  <2> QED BY <2>1, <1>2 DEF InRequests
<1> HIDE DEF x
<1>12. \A i \in 1 .. 6 : \A y : Then(i, y) => Here(i, y) \/ (i = 4 /\ y = x)
  BY <1>1, <1>2, <1>9, <1>10, StagesHere, StagesNext, SixStages
<1>13. \A i \in 1 .. 6 : 4 < i /\ i <= 5 => \A y : Then(i, y) => Precedes(x, y)
  BY <1>11, StagesNext, SixStages
<1>14. SameBooks(chan, chan', cli, cli') /\ Here(5, x)
  BY <1>1, <1>2, <1>10, StagesHere DEF SameBooks, SameStreams
<1>15. LET su == Stages(chan', mach', wire', conns_rx')
       IN  Ordered(su) /\ Numbered(su, chan') /\ Fresh(chan', cli', su)
  BY <1>5, <1>12, <1>13, <1>14, MoveStep
<1> QED BY <1>1, <1>2, <1>6, <1>8, <1>9, <1>10, <1>15, StreamNow,
           NextStreamParts

LEMMA RecvConnectAcceptedStream ==
  ASSUME IInv, StreamInv, NEW p \in Peers, RecvConnectAccepted(p)
  PROVE  StreamInv'
<1> DEFINE f == InFrame(p)
           c == f.conn
           e == <<c, "server">>
           x == RequestOf(c)
           id == reserve_id(tables[p])
           new == IF id = NoId THEN [NewChannel EXCEPT !.held = FALSE] ELSE NewChannel
           s == Sending(IF id = NoId THEN reject(f.local_id) ELSE ack(id, f.local_id))
           st == Stages(chan, mach, wire, conns_rx)
           su == Stages(chan', mach', wire', conns_rx')
<1>1. /\ Inbound(p, "CONNECT") /\ UNCHANGED <<conns_rx, cli>>
      /\ chan' = [chan EXCEPT ![e] = new] /\ mach' = [mach EXCEPT ![p] = s]
  BY DEF RecvConnectAccepted, RespondWith
<1>2. f \in Frames /\ f.type = "CONNECT" /\ c \in Clients /\ f.local_id \in Ids
  BY <1>1, InboundOK, FrameFields
<1>3. Carries(f) /\ Item(f) = x
  BY <1>2 DEF Carries, Item
<1>4. /\ \A y : OnWire(wire', y) => OnWire(wire, y) /\ Precedes(x, y)
      /\ WireOrder(wire') /\ WireLocal(wire')
      /\ OnWire(wire, x) /\ PeerOf(x.src) = Other(p)
  BY <1>1, <1>3, InboundStream
<1>5. x \in Items /\ x.n = 0 /\ x.src = <<c, "client">>
  BY <1>2, <1>3, ItemOK DEF RequestOf
<1>6. PeerOf(e) = p /\ e \in Endpoints
  <2>1. Home[c] = Other(p)
    BY <1>4, <1>5 DEF PeerOf
  <2> QED BY <2>1, <1>2, OtherOther, EndsOK DEF PeerOf
<1>7. Here(3, x) /\ cli[c] # "idle" /\ Untouched(chan, e)
  BY <1>2, <1>4, RequestFresh, StagesHere
<1>8. s.at = "send" /\ ~Carries(s.frame)
  BY QuietFrames
<1>9. new.sent = 0 /\ new.outq = <<>> /\ new.got = <<>>
  BY DEF NewChannel, NoChannel
<1>10. TablesLocal(tables') /\ SocketsRequested(tables', cli', conns_rx')
  <2>1. CASE id = NoId
    BY <1>1, <2>1, StreamNow DEF RecvConnectAccepted
  <2>2. CASE id # NoId
    <3> DEFINE socket == Open(f.local_id, e)
    <3>1. tables' = [tables EXCEPT ![p] = insert_at(tables[p], id, socket)]
      BY <2>2 DEF RecvConnectAccepted
    <3>2. InsertIsSafe(tables[p])
      BY Now, ReserveOK
    <3>3. id \in Ids
      BY <2>2, <3>2 DEF InsertIsSafe
    <3>4. socket.chan = e
      BY DEF Open
    <3> HIDE DEF socket, id, f
    <3> HIDE DEF e
    <3>5. TablesLocal(tables') /\ \A q \in Peers : TableGrows(tables[q], tables'[q], e)
      <4> DEFINE u == insert_at(tables[p], id, socket)
      <4>1. /\ TableShrinks(tables[p], tables[p]) /\ TablesLocal(tables)
            /\ tables \in [Peers -> Tables(Endpoints)]
               /\ tables[p] \in Tables(Endpoints)
        BY SameTable, Now, StreamNow
      <4>2. TableGrows(tables[p], u, e)
        BY <3>4, <3>3, <4>1, InsertGrows
      <4>3. tables' = [tables EXCEPT ![p] = u]
        BY <3>1
      <4> HIDE DEF u
      <4> QED BY <1>6, <4>1, <4>2, <4>3, TablesGrow
    <3>6. \A d \in Clients : e # <<d, "client">>
      BY DEF e
    <3>7. SocketsRequested(tables', cli', conns_rx')
      <4> SUFFICES ASSUME NEW q \in Peers, NEW i \in Ids, NEW d \in Clients,
                          Occupied(tables'[q].conns[i]),
                          tables'[q].conns[i].chan = <<d, "client">>
                   PROVE  cli'[d] # "idle" /\ ~InRequests(conns_rx', RequestOf(d))
        BY DEF SocketsRequested
      <4>1. Occupied(tables[q].conns[i]) /\ tables[q].conns[i].chan = <<d, "client">>
        BY <3>5, <3>6 DEF TableGrows
      <4>2. cli[d] # "idle" /\ ~InRequests(conns_rx, RequestOf(d))
        BY <4>1, StreamNow DEF SocketsRequested
      <4> QED BY <1>1, <4>2
    <3> QED BY <3>5, <3>7
  <2> QED BY <2>1, <2>2
<1> HIDE DEF f, c, id, s, new
<1>11. /\ \A y : InDelivery(mach', y) => InDelivery(mach, y)
       /\ \A y : InSending(mach', y) => InSending(mach, y)
       /\ MachLocal(mach')
  BY <1>1, <1>8, Now, MachQuiet, StreamNow
<1>12. /\ \A d \in Endpoints \ {e} : chan'[d] = chan[d]
       /\ chan'[e].sent = 0 /\ chan'[e].outq = <<>> /\ chan'[e].got = <<>>
       /\ Len(chan'[e].outq) = 0 /\ Len(chan'[e].got) = 0
  BY <1>1, <1>6, <1>9, Now DEF GoodChannels
<1> HIDE DEF e, x
<1>13. /\ \A y : InGot(chan', y) => InGot(chan, y)
       /\ \A y : InQueue(chan', y) => InQueue(chan, y)
       /\ QueueOrder(chan')
  <2>1. \A y : InGot(chan', y) => InGot(chan, y)
    BY <1>12 DEF InGot
  <2>2. \A y : InQueue(chan', y) => InQueue(chan, y)
    BY <1>12 DEF InQueue
  <2>3. QueueOrder(chan')
    BY <1>12, StreamNow DEF QueueOrder
  <2> QED BY <2>1, <2>2, <2>3
<1>14. \A i \in 1 .. 6 : \A y : Then(i, y) => Here(i, y)
  BY <1>1, <1>4, <1>11, <1>13, StagesHere, StagesNext, SixStages
<1>15. \A i \in 3 .. 5 : ~Then(i, x)
  <2>1. ~Then(3, x)
    BY <1>4, <1>5, StagesNext DEF Precedes
  <2>2. \A i \in 4 .. 5 : ~Here(i, x)
    <3> SUFFICES ASSUME NEW i \in 4 .. 5, Here(i, x) PROVE FALSE
      OBVIOUS
    <3>1. Precedes(x, x)
      BY <1>5, <1>7, InStages
    <3> QED BY <3>1, <1>5 DEF Precedes
  <2> QED BY <2>1, <2>2, <1>14
<1>16. /\ \A i \in 1 .. 6 : \A y : y \in st[i] <=> y \in Items /\ Here(i, y)
       /\ \A i \in 1 .. 6 : \A y : y \in su[i] <=> y \in Items /\ Then(i, y)
  BY StageOf
<1>17. Ordered(st) /\ Numbered(st, chan) /\ Fresh(chan, cli, st)
  BY DEF StreamInv
<1> HIDE DEF st, su
<1>18. \A i \in 1 .. 6 : \A y \in su[i] : y \in st[i]
  BY <1>14, <1>16
<1>19. Ordered(su)
  BY <1>17, <1>18, Shrink
<1>20. Numbered(su, chan')
  <2>1. \A d \in Endpoints : chan'[d].sent = chan[d].sent
    BY <1>7, <1>12 DEF Untouched
  <2>2. \A i \in 1 .. 6 : \A y \in su[i] : y.src \in Endpoints
    BY <1>16, ItemFields
  <2> QED BY <2>1, <2>2, <1>17, <1>18 DEF Numbered
<1>21. Fresh(chan', cli', su)
  <2> SUFFICES ASSUME NEW d \in Clients
               PROVE  /\ cli[d] = "idle" => chan'[<<d, "client">>].sent = 0
                                            /\ Untouched(chan', <<d, "server">>)
                      /\ \A i \in 3 .. 5 : RequestOf(d) \in su[i] =>
                           cli[d] # "idle" /\ Untouched(chan', <<d, "server">>)
    BY <1>1 DEF Fresh
  <2>1. CASE d = c
    <3>1. \A i \in 3 .. 5 : RequestOf(d) \notin su[i]
      BY <2>1, <1>15, <1>16 DEF x
    <3> QED BY <2>1, <3>1, <1>7
  <2>2. CASE d # c
    <3>1. /\ <<d, "client">> # e /\ <<d, "server">> # e
          /\ <<d, "client">> \in Endpoints /\ <<d, "server">> \in Endpoints
      BY <2>2, EndsOK DEF e
    <3>2. /\ chan'[<<d, "client">>] = chan[<<d, "client">>]
          /\ chan'[<<d, "server">>] = chan[<<d, "server">>]
      BY <3>1, <1>12
    <3>3. Untouched(chan, <<d, "server">>) => Untouched(chan', <<d, "server">>)
      BY <3>2 DEF Untouched
    <3> QED BY <3>2, <3>3, <1>17, <1>18 DEF Fresh
  <2> QED BY <2>1, <2>2
<1> QED BY <1>1, <1>4, <1>10, <1>11, <1>13, <1>19, <1>20, <1>21, StreamNow,
           NextStreamParts DEF su

LEMMA InitStream == Init => StreamInv
<1> SUFFICES ASSUME Init PROVE StreamInv
  OBVIOUS
<1>1. /\ \A p \in Peers : ~HasSocket(tables[p], NoId) /\ mach[p] = Selecting
         /\ wire[p] = <<>>
                          /\ conns_rx[p] = <<>>
      /\ \A e \in Endpoints : chan[e] = NoChannel
      /\ \A c \in Clients : cli[c] = "idle"
  BY CapacityAssumption DEF Init, HasSocket, Ids, NoId
<1>2. /\ NoChannel.sent = 0 /\ Len(NoChannel.outq) = 0 /\ Len(NoChannel.got) = 0
      /\ NoChannel.app = "none" /\ Selecting.at = "select"
  BY DEF NoChannel, Selecting
<1>3. \A i \in 1 .. 6 : \A x : ~Here(i, x)
  <2>1. \A x : ~InGot(chan, x) /\ ~InQueue(chan, x)
    BY <1>1, <1>2 DEF InGot, InQueue
  <2>2. \A x : ~InDelivery(mach, x) /\ ~InSending(mach, x)
    BY <1>1, <1>2 DEF InDelivery, InSending
  <2>3. \A x : ~OnWire(wire, x) /\ ~InRequests(conns_rx, x)
    BY <1>1 DEF OnWire, InRequests
  <2> QED BY <2>1, <2>2, <2>3, StagesHere, SixStages
<1> DEFINE st == Stages(chan, mach, wire, conns_rx)
<1>4. \A i \in 1 .. 6 : st[i] = {}
  BY <1>3, StageOf
<1> HIDE DEF st
<1>5. Ordered(st) /\ Numbered(st, chan)
  BY <1>4 DEF Ordered, Numbered
<1>6. Fresh(chan, cli, st)
  <2> SUFFICES ASSUME NEW c \in Clients
               PROVE  /\ chan[<<c, "client">>].sent = 0
                      /\ Untouched(chan, <<c, "server">>)
                      /\ \A i \in 3 .. 5 : RequestOf(c) \notin st[i]
    BY DEF Fresh
  <2>1. <<c, "client">> \in Endpoints /\ <<c, "server">> \in Endpoints
    BY EndsOK
  <2>2. \A i \in 3 .. 5 : st[i] = {}
    BY <1>4
  <2> QED BY <2>1, <2>2, <1>1, <1>2 DEF Untouched
<1>7. /\ WireOrder(wire) /\ QueueOrder(chan) /\ RequestsOnce(conns_rx)
      /\ WireLocal(wire) /\ MachLocal(mach) /\ RequestsLocal(conns_rx)
  BY <1>1, <1>2
     DEF WireOrder, QueueOrder, RequestsOnce, WireLocal, MachLocal,
         RequestsLocal
<1>8. TablesLocal(tables) /\ SocketsRequested(tables, cli, conns_rx)
  BY DEF Init, TablesLocal, SocketsRequested, Occupied, NewTable, Unused
<1> QED BY <1>5, <1>6, <1>7, <1>8 DEF StreamInv, st

LEMMA NextStream == IInv /\ StreamInv /\ [Next]_vars => StreamInv'
<1> SUFFICES ASSUME IInv, StreamInv, [Next]_vars PROVE StreamInv'
  OBVIOUS
<1>1. CASE AppNext
  BY <1>1, StartConnectStream, CancelConnectStream, AppSendStream,
     AppQuietStream DEF AppNext
<1>2. ASSUME NEW p \in Peers, MachineStep(p) PROVE StreamInv'
  <2>1. CASE StartConnecting(p)
    BY <2>1, RefusedStream, GrantedStream
  <2>2. CASE RecvData(p)
    BY <2>2, IgnoredDataStream, TakenDataStream
  <2> QED BY <1>2, <2>1, <2>2, OutboundDataStream, OutboundResetStream,
             PollPendingStream, DeliverOkStream, DeliverFailsStream,
             RecvAckStream, RecvRejectStream, RecvResetStream,
             RecvConnectRejectedStream, RecvConnectAcceptedStream,
             WireSendStream DEF MachineStep
<1>3. ASSUME NEW p \in Peers, WireFails(p) PROVE StreamInv'
  BY <1>3, WireFailsStream
<1>4. CASE UNCHANGED vars
  <2>1. UNCHANGED <<tables, mach, wire, conns_rx, cli, chan>>
    BY <1>4 DEF vars
  <2> QED BY <2>1, Reflexive, OnlyChan
<1> QED BY <1>1, <1>2, <1>3, <1>4 DEF Next

----------------------------------------------------------------------------
(***************************************************************************)
(* Only DeliverOk hands a message to an application.                       *)
(***************************************************************************)
GotKept(ch, cg) ==
  \A e \in Endpoints : cg[e].got = ch[e].got \/ cg[e].got = <<>>

LEMMA RenewedGot ==
  ASSUME IInv, NEW e \in Endpoints, NEW new,
         new.got = <<>> \/ new.got = chan[e].got,
         chan' = [chan EXCEPT ![e] = new]
  PROVE  GotKept(chan, chan')
<1>1. chan \in [Endpoints -> Channels]
  BY TypeParts DEF IInv, GoodChannels
<1>2. chan'[e] = new /\ \A d \in Endpoints \ {e} : chan'[d] = chan[d]
  BY <1>1
<1> QED BY <1>2 DEF GotKept

LEMMA AppGot ==
  ASSUME IInv, AppNext
  PROVE  GotKept(chan, chan')
<1>1. GoodChannels(chan) /\ chan \in [Endpoints -> Channels]
  BY TypeParts DEF IInv, GoodChannels
<1>2. ASSUME NEW c \in Clients, StartConnect(c) PROVE GotKept(chan, chan')
  <2>1. NewChannel.got = <<>>
    BY DEF NewChannel, NoChannel
  <2> QED BY <1>2, <2>1, EndsOK, RenewedGot DEF StartConnect
<1>3. ASSUME NEW c \in Clients, CancelConnect(c) PROVE GotKept(chan, chan')
  <2>1. SameStreams(chan, chan')
    BY <1>1, <1>3, EndsOK, DropAppSame DEF CancelConnect
  <2> QED BY <2>1 DEF SameStreams, GotKept
<1>4. ASSUME NEW e \in Endpoints, AppSend(e) PROVE GotKept(chan, chan')
  <2> DEFINE new == Enqueue(chan[e], [src |-> e, n |-> chan[e].sent + 1])
  <2>1. new.got = chan[e].got
    BY <1>1 DEF Enqueue, Channels
  <2>2. chan' = [chan EXCEPT ![e] = new]
    BY <1>4 DEF AppSend
  <2> HIDE DEF new
  <2> QED BY <2>1, <2>2, RenewedGot
<1>5. ASSUME NEW e \in Endpoints, AppRecv(e) PROVE GotKept(chan, chan')
  <2>1. SameStreams(chan, chan')
    BY <1>1, <1>5, ReadSame DEF AppRecv
  <2> QED BY <2>1 DEF SameStreams, GotKept
<1>6. ASSUME NEW e \in Endpoints, AppDrop(e) PROVE GotKept(chan, chan')
  <2>1. chan[e].app # "none"
    BY <1>6 DEF AppDrop, Usable
  <2>2. SameStreams(chan, chan')
    BY <1>1, <1>6, <2>1, DropAppSame DEF AppDrop
  <2> QED BY <2>2 DEF SameStreams, GotKept
<1>7. ASSUME NEW e \in Endpoints, AppClose(e) PROVE GotKept(chan, chan')
  <2>1. SameStreams(chan, chan')
    BY <1>1, <1>7, CloseSame DEF AppClose
  <2> QED BY <2>1 DEF SameStreams, GotKept
<1> QED BY <1>2, <1>3, <1>4, <1>5, <1>6, <1>7 DEF AppNext

LEMMA MachineGot ==
  ASSUME IInv, StreamInv, NEW p \in Peers, MachineStep(p), ~DeliverOk(p)
  PROVE  GotKept(chan, chan')
<1>1. /\ GoodChannels(chan) /\ SameStreams(chan, CleanedChan(p))
      /\ tables[p] \in Tables(Endpoints)
  BY Now, CleanedStream
<1>2. SameStreams(chan, chan') => GotKept(chan, chan')
  BY DEF SameStreams, GotKept
<1>3. CASE UNCHANGED chan
  BY <1>3 DEF GotKept
<1>4. CASE chan' = CleanedChan(p)
  BY <1>1, <1>2, <1>4
<1>5. CASE \E id : chan' = DropSocket(chan, tables[p], id)
  BY <1>1, <1>2, <1>5, DropSocketSame
<1>6. CASE OutboundData(p)
  <2>1. \A e \in Endpoints : chan'[e].got = chan[e].got
    BY <1>6, OutboundFacts
  <2> QED BY <2>1 DEF GotKept
<1>7. CASE StartConnecting(p)
  <2> DEFINE c == Head(conns_rx[p])
  <2>1. c \in Clients
    BY <1>7, Now, RequestTail, StreamNow DEF StartConnecting
  <2>2. CASE chan' = [CleanedChan(p) EXCEPT ![<<c, "client">>].held = FALSE]
    <3> HIDE DEF c
    <3>1. SameStreams(CleanedChan(p), chan')
      BY <2>1, <2>2, CleanedOK, EndsOK, UnholdSame
    <3> QED BY <1>1, <1>2, <3>1, SameTwice
  <2> QED BY <1>4, <1>7, <2>2 DEF StartConnecting
<1>8. CASE RecvReset(p)
  <2> DEFINE id == InFrame(p).remote_id
             t == tables[p]
             dropped == DropSocket(chan, t, id)
             e == t.conns[id].chan
             reason == InFrame(p).reason
  <2>1. CASE HasSocket(t, id) /\ chan' = CloseWithError(dropped, e, reason)
    <3>1. GoodChannels(dropped) /\ SameStreams(chan, dropped)
      BY <1>1, DropSocketOK, DropSocketSame
    <3>2. e \in Endpoints
      BY <2>1, <1>1, SocketEnd
    <3> HIDE DEF dropped, e, reason
    <3>3. SameStreams(dropped, chan')
      BY <2>1, <3>1, <3>2, CloseSame
    <3> QED BY <3>1, <3>3, <1>2, SameTwice
  <2> QED BY <1>5, <1>8, <2>1 DEF RecvReset
<1>9. CASE RecvConnectAccepted(p)
  <2> DEFINE e == <<InFrame(p).conn, "server">>
  <2>1. Inbound(p, "CONNECT")
    BY <1>9 DEF RecvConnectAccepted
  <2>2. e \in Endpoints
    BY <2>1, InboundOK, FrameFields, EndsOK
  <2>3. NewChannel.got = <<>> /\ [NewChannel EXCEPT !.held = FALSE].got = <<>>
    BY DEF NewChannel, NoChannel
  <2>4. PICK new : new.got = <<>> /\ chan' = [chan EXCEPT ![e] = new]
    BY <1>9, <2>3 DEF RecvConnectAccepted
  <2> HIDE DEF e
  <2> QED BY <2>2, <2>4, RenewedGot
<1>10. \/ UNCHANGED chan \/ chan' = CleanedChan(p)
       \/ \E id : chan' = DropSocket(chan, tables[p], id)
       \/ OutboundData(p) \/ StartConnecting(p) \/ RecvReset(p)
       \/ RecvConnectAccepted(p)
  BY DEF MachineStep, OutboundReset, PollPending, RecvData, DeliverFails,
         RecvAck, RecvReject, RecvConnectRejected, WireSend
<1> QED BY <1>3, <1>4, <1>5, <1>6, <1>7, <1>8, <1>9, <1>10

Later(e, f, j, k) ==
  LET new == chan'[e].got[j]
      old == chan[f].got[k]
  IN  old.src = new.src => old.n < new.n

LEMMA NextInOrder ==
  ASSUME IInv, StreamInv, [Next]_vars
  PROVE  \A e, f \in Endpoints :
           \A j \in DOMAIN chan'[e].got \ DOMAIN chan[e].got,
           k \in DOMAIN chan[f].got :
             Later(e, f, j, k)
<1>1. CASE GotKept(chan, chan')
  <2>1. \A e \in Endpoints : DOMAIN chan'[e].got \ DOMAIN chan[e].got = {}
    BY <1>1 DEF GotKept
  <2> QED BY <2>1
<1>2. ASSUME NEW p \in Peers, DeliverOk(p), NEW e \in Endpoints,
             NEW f \in Endpoints,
             NEW j \in DOMAIN chan'[e].got \ DOMAIN chan[e].got,
             NEW k \in DOMAIN chan[f].got
      PROVE  Later(e, f, j, k)
  <2> DEFINE x == mach[p].frame.body
             d == tables[p].conns[mach[p].frame.remote_id].chan
             y == chan[f].got[k]
  <2>1. /\ mach[p].at = "deliver" /\ d \in Endpoints /\ x \in Payloads
        /\ \A a \in Endpoints \ {d} : chan'[a] = chan[a]
        /\ chan'[d].got = Append(chan[d].got, x)
        /\ chan[d].got \in Seq(Payloads)
    BY <1>2, DeliverOkFacts
  <2> HIDE DEF d
  <2>2. e = d
    BY <1>2, <2>1
  <2>3. chan'[e].got[j] = x
    <3> DEFINE g == chan[d].got
    <3>1. j \in DOMAIN Append(g, x) \ DOMAIN g /\ g \in Seq(Payloads)
      BY <1>2, <2>1, <2>2
    <3> HIDE DEF g, x
    <3>2. j = Len(g) + 1 /\ Append(g, x)[j] = x
      BY <3>1
    <3> QED BY <2>1, <2>2, <3>2 DEF g
  <2>4. InDelivery(mach, x)
    BY <2>1 DEF InDelivery
  <2>5. chan[f].got \in Seq(Payloads)
    BY Now DEF GoodChannels, Channels
  <2>6. InGot(chan, y) /\ y \in Payloads
    BY <1>2, <2>5 DEF InGot
  <2> HIDE DEF x, y
  <2>7. Here(1, y) /\ Here(2, x) /\ x \in Items /\ y \in Items
    BY <2>1, <2>4, <2>6, StagesHere, PayloadItems
  <2>8. Precedes(y, x)
    BY <2>7, InStages
  <2> QED BY <2>3, <2>8 DEF Later, Precedes, y
<1>3. CASE AppNext
  BY <1>1, <1>3, AppGot
<1>4. ASSUME NEW p \in Peers, MachineStep(p), ~DeliverOk(p)
      PROVE  GotKept(chan, chan')
  BY <1>4, MachineGot
<1>5. ASSUME UNCHANGED chan PROVE GotKept(chan, chan')
  BY <1>5 DEF GotKept
<1>6. \/ AppNext \/ UNCHANGED chan
      \/ \E p \in Peers : MachineStep(p)
  BY DEF Next, WireFails, vars
<1> QED BY <1>1, <1>2, <1>3, <1>4, <1>5, <1>6

\* The messages of one sender reach the applications in the order it sent them
\* and each at most once, across all connections: whatever connection the IDs
\* of a DATA frame have come to mean by the time it arrives.
THEOREM StreamsCorrect == Spec => StreamsInOrder
<1>1. IInv /\ StreamInv /\ [Next]_vars =>
        [\A e \in Endpoints : \A j \in DOMAIN chan'[e].got \ DOMAIN chan[e].got :
           \A f \in Endpoints : \A k \in DOMAIN chan[f].got :
             LET new == chan'[e].got[j]
                 old == chan[f].got[k]
             IN  old.src = new.src => old.n < new.n]_chan
  BY NextInOrder DEF Later
<1> QED BY <1>1, InitInv, NextInv, InitStream, NextStream, PTL
           DEF Spec, StreamsInOrder

\* What one application has been handed: of two messages of one sender, the
\* earlier comes first.
GotOrder ==
  \A e \in Endpoints : \A j, k \in DOMAIN chan[e].got :
    j < k /\ chan[e].got[j].src = chan[e].got[k].src
      => chan[e].got[j].n < chan[e].got[k].n

LEMMA NextGotOrder ==
  ASSUME IInv, StreamInv, GotOrder, [Next]_vars
  PROVE  GotOrder'
<1>1. CASE GotKept(chan, chan')
  <2> SUFFICES ASSUME NEW e \in Endpoints, chan'[e].got # <<>>
               PROVE  chan'[e].got = chan[e].got
    BY DEF GotOrder
  <2> QED BY <1>1 DEF GotKept
<1>2. ASSUME NEW p \in Peers, DeliverOk(p) PROVE GotOrder'
  <2> DEFINE x == mach[p].frame.body
             d == tables[p].conns[mach[p].frame.remote_id].chan
             g == chan[d].got
  <2>1. /\ d \in Endpoints /\ \A a \in Endpoints \ {d} : chan'[a] = chan[a]
        /\ chan'[d].got = Append(g, x) /\ g \in Seq(Payloads) /\ x \in Payloads
    BY <1>2, DeliverOkFacts
  <2> HIDE DEF x, d
  <2>2. /\ DOMAIN g = 1 .. Len(g) /\ Len(g) \in Nat
        /\ DOMAIN Append(g, x) = 1 .. Len(g) + 1
        /\ Append(g, x)[Len(g) + 1] = x
        /\ \A i \in 1 .. Len(g) : Append(g, x)[i] = g[i]
    BY <2>1
  <2>3. \A i \in 1 .. Len(g) : g[i].src = x.src => g[i].n < x.n
    <3>1. Len(g) + 1 \in DOMAIN chan'[d].got \ DOMAIN g
      BY <2>1, <2>2
    <3>2. \A i \in DOMAIN g : Later(d, d, Len(g) + 1, i)
      BY <2>1, <3>1, NextInOrder
    <3> QED BY <2>1, <2>2, <3>2 DEF Later
  <2>4. \A j, k \in DOMAIN g : j < k /\ g[j].src = g[k].src => g[j].n < g[k].n
    BY <2>1 DEF GotOrder
  <2> SUFFICES ASSUME NEW e \in Endpoints, NEW j \in DOMAIN chan'[e].got,
                      NEW k \in DOMAIN chan'[e].got, j < k,
                      chan'[e].got[j].src = chan'[e].got[k].src
               PROVE  chan'[e].got[j].n < chan'[e].got[k].n
    BY DEF GotOrder
  <2>5. CASE e # d
    BY <2>1, <2>5 DEF GotOrder
  <2>6. CASE e = d
    <3>1. j \in 1 .. Len(g) + 1 /\ k \in 1 .. Len(g) + 1
      BY <2>1, <2>2, <2>6
    <3>2. j \in 1 .. Len(g) /\ (k \in 1 .. Len(g) \/ k = Len(g) + 1)
      BY <2>2, <3>1
    <3> HIDE DEF g
    <3> QED BY <2>1, <2>2, <2>3, <2>4, <2>6, <3>2
  <2> QED BY <2>5, <2>6
<1>3. ASSUME NEW p \in Peers, MachineStep(p), ~DeliverOk(p)
      PROVE  GotKept(chan, chan')
  BY <1>3, MachineGot
<1>4. ASSUME UNCHANGED chan PROVE GotKept(chan, chan')
  BY <1>4 DEF GotKept
<1>5. \/ AppNext \/ UNCHANGED chan
      \/ \E p \in Peers : MachineStep(p)
  BY DEF Next, WireFails, vars
<1> QED BY <1>1, <1>2, <1>3, <1>4, <1>5, AppGot

\* On a wire that may lose DATA frames, an application whose peers are not mixed
\* up is handed one stream, in order and without repetition: reused IDs are the
\* only way InOrder can fail, and where it does NoCrossTalk fails too.
THEOREM OnlyCrossTalkReorders ==
  Spec => [](NoCrossTalk /\ "DATA" \in Failing => InOrder)
<1>1. Init => GotOrder
  BY DEF Init, NoChannel, GotOrder
<1>2. GotOrder /\ IInv => (NoCrossTalk /\ "DATA" \in Failing => InOrder)
  <2> SUFFICES ASSUME GotOrder, IInv, NoCrossTalk, "DATA" \in Failing,
                      NEW e \in Endpoints, NEW k \in DOMAIN chan[e].got
               PROVE  /\ chan[e].got[k].src = chan[e].got[1].src
                      /\ k > 1 => chan[e].got[k - 1].n < chan[e].got[k].n
    BY DEF InOrder
  <2>1. chan[e].got \in Seq(Payloads)
    BY TypeParts DEF IInv, GoodChannels, Channels
  <2>2. /\ k \in Nat /\ 1 \in DOMAIN chan[e].got
        /\ k > 1 => k - 1 \in DOMAIN chan[e].got /\ k - 1 < k
    BY <2>1
  <2> QED BY <2>2 DEF NoCrossTalk, GotOrder
<1> QED BY <1>1, <1>2, InitInv, NextInv, InitStream, NextStream, NextGotOrder, PTL
           DEF Spec
=============================================================================
