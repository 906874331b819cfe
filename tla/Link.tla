-------------------------------- MODULE Link --------------------------------
(***************************************************************************)
(* Two Calliope interfaces joined by a wire.  Each peer runs               *)
(* `Machine::run` (lib.rs): one task that owns a ConnTable and, in a loop, *)
(* takes an inbound frame, or an outbound frame of one of its sockets, or  *)
(* a connect request of a local client.  Applications on both peers hold   *)
(* the other ends of the sockets' channels.                                *)
(*                                                                         *)
(* A client makes one connection.  The pair <<c, "client">> names the end  *)
(* of client c's connection at its home peer and <<c, "server">> the end   *)
(* the remote service gets; frames carry connection IDs only.              *)
(***************************************************************************)
EXTENDS ConnTable, Sequences

CONSTANTS
  Peers,      \* the two interfaces
  Clients,    \* connection attempts
  Home,       \* [Clients -> Peers]: where each client runs
  Garbled,    \* numbers of the messages the receiving peer cannot deserialize
  Talkers,    \* bound: endpoints whose applications send
  Droppers,   \* bound: endpoints whose applications may drop their end
  Closers,    \* bound: endpoints whose applications may close with an error
  Cancellers, \* bound: clients that may give up waiting
  Failing,    \* types of the frames wire.send may fail to send
  MaxMsgs,    \* bound: messages an application sends on one endpoint
  ChanCap,    \* capacity of the channels between a machine and applications
  WireCap     \* frames the wire buffers per direction

ASSUME LinkAssumption ==
  /\ \A p \in Peers : Peers \ {p} # {}
  /\ \A p, q, r \in Peers : q # p /\ r # p => q = r
  /\ Home \in [Clients -> Peers]
  /\ MaxMsgs \in Nat /\ ChanCap \in Nat \ {0} /\ WireCap \in Nat \ {0}

VARIABLES
  tables,     \* tables[p]: conn_table of p's Machine
  mach,       \* mach[p]: where p's `run` loop is
  wire,       \* wire[p]: frames p sent that the other peer has not received
  conns_rx,   \* conns_rx[p]: clients whose OutboundConnect p has not taken
  cli,        \* cli[c]: what client c's `connect` call has come to
  chan        \* chan[e]: the two channels between e's application and machine

vars == <<tables, mach, wire, conns_rx, cli, chan>>

Other(p) == CHOOSE q \in Peers : q # p

Endpoints == Clients \X {"client", "server"}
Mate(e) == <<e[1], IF e[2] = "client" THEN "server" ELSE "client">>
PeerOf(e) == IF e[2] = "client" THEN Home[e[1]] ELSE Other(Home[e[1]])

----------------------------------------------------------------------------
(***************************************************************************)
(* Frames (message.rs).  A payload is the endpoint that sent it and its    *)
(* number in that endpoint's stream; the code sees only its bytes.         *)
(***************************************************************************)
Payloads == [src : Endpoints, n : 1 .. MaxMsgs]
Reasons == {"BecauseISaidSo", "YouDoneGoofed", "NoSuchConn", "YesSuchConn",
            "GoAway"}

connect(local_id, c) == [type |-> "CONNECT", local_id |-> local_id, conn |-> c]

\* Mutant of `data`: the two IDs change places.
DataSwapsIds(remote_id, local_id, body) ==
  [type |-> "DATA", local_id |-> remote_id, remote_id |-> local_id,
   body |-> body]

data(remote_id, local_id, body) ==
  [type |-> "DATA", local_id |-> local_id, remote_id |-> remote_id,
   body |-> body]
ack(local_id, remote_id) ==
  [type |-> "ACK", local_id |-> local_id, remote_id |-> remote_id]
reject(remote_id) == [type |-> "REJECT", remote_id |-> remote_id]
reset(remote_id, reason) ==
  [type |-> "RESET", remote_id |-> remote_id, reason |-> reason]

Frames ==
       [type : {"CONNECT"}, local_id : Ids, conn : Clients]
  \cup [type : {"DATA"}, local_id : Ids, remote_id : Ids, body : Payloads]
  \cup [type : {"ACK"}, local_id : Ids, remote_id : Ids]
  \cup [type : {"REJECT"}, remote_id : Ids]
  \cup [type : {"RESET"}, remote_id : Ids, reason : Reasons]

(***************************************************************************)
(* The run loop of a machine waits in select_biased!, in wire.send(f), or  *)
(* in the send of a DATA frame's body to the socket's channel.             *)
(***************************************************************************)
Selecting == [at |-> "select"]
Sending(f) == [at |-> "send", frame |-> f]
Delivering(f) == [at |-> "deliver", frame |-> f]

(***************************************************************************)
(* Channels between an application and its machine (a BiDi and a SerBiDi   *)
(* over two mpsc channels): `outq` towards the machine; `got` is what the  *)
(* machine has put into the other one, of which the application has read   *)
(* the first `read`.  `app` and `held` say which ends still exist, `error` *)
(* is set by the first close_with_error on either end.                     *)
(***************************************************************************)
NoError == "none"
NoChannel ==
  [app |-> "none", held |-> FALSE, error |-> NoError,
   sent |-> 0, outq |-> <<>>, got |-> <<>>, read |-> 0]
NewChannel == [NoChannel EXCEPT !.app = "live", !.held = TRUE]

\* Mutant of Hungup: a close with an error is not noticed.
HungupByDrop(ch) == ch.app # "live"

\* The application's end is gone or the channel was closed with an error.
Hungup(ch) == ch.app # "live" \/ ch.error # NoError

\* RecvError::Disconnected and SerSendError::Disconnected reset the connection
\* with BecauseISaidSo, an error with that error.
CloseReason(ch) == IF ch.error = NoError THEN "BecauseISaidSo" ELSE ch.error

\* close_with_error: the first error stays.
CloseWithError(ch, e, reason) ==
  [ch EXCEPT ![e].error = IF @ = NoError THEN reason ELSE @]

\* The socket at `id`, if any, is dropped, and its channel ends with it.
DropSocket(ch, t, id) ==
  IF HasSocket(t, id) THEN [ch EXCEPT ![t.conns[id].chan].held = FALSE] ELSE ch

\* Mutant of Answer: the response's sender is dropped unused.
AnswerForgets(c, outcome) == UNCHANGED cli

\* rsp.send(..) of a connect request.  It fails only on a oneshot that was
\* closed, and dropping the `connect` future or the whole Connector closes
\* nothing: the answer to a client that gave up is stored and nobody reads it.
Answer(c, outcome) ==
  cli' = [cli EXCEPT ![c] = IF @ = "waiting" THEN outcome ELSE @]

----------------------------------------------------------------------------
MachineStates == {Selecting} \cup [at : {"send", "deliver"}, frame : Frames]

Outcomes == {"idle", "waiting", "connected", "rejected", "orphaned",
             "cancelled"}

Channels ==
  [app : {"none", "live", "dropped"}, held : BOOLEAN,
   error : Reasons \cup {NoError}, sent : 0 .. MaxMsgs,
   outq : Seq(Payloads), got : Seq(Payloads), read : Nat]

\* Every variable has its type, and no channel and no wire holds more than its
\* capacity.
TypeOK ==
  /\ tables \in [Peers -> Tables(Endpoints)]
  /\ mach \in [Peers -> MachineStates]
  /\ wire \in [Peers -> Seq(Frames)]
  /\ conns_rx \in [Peers -> Seq(Clients)]
  /\ cli \in [Clients -> Outcomes]
  /\ chan \in [Endpoints -> Channels]
  /\ \A p \in Peers : Len(wire[p]) <= WireCap
  /\ \A e \in Endpoints : /\ Len(chan[e].outq) <= ChanCap
                           /\ Len(chan[e].got) - chan[e].read \in 0 .. ChanCap

Init ==
  /\ tables = [p \in Peers |-> NewTable]
  /\ mach = [p \in Peers |-> Selecting]
  /\ wire = [p \in Peers |-> <<>>]
  /\ conns_rx = [p \in Peers |-> <<>>]
  /\ cli = [c \in Clients |-> "idle"]
  /\ chan = [e \in Endpoints |-> NoChannel]

----------------------------------------------------------------------------
(***************************************************************************)
(* Applications.                                                           *)
(***************************************************************************)

\* Connector::connect up to the point where it waits for the response.
StartConnect(c) ==
  /\ cli[c] = "idle"
  /\ cli' = [cli EXCEPT ![c] = "waiting"]
  /\ chan' = [chan EXCEPT ![<<c, "client">>] = NewChannel]
  /\ conns_rx' = [conns_rx EXCEPT ![Home[c]] = Append(@, c)]
  /\ UNCHANGED <<tables, mach, wire>>

\* The future of `connect` is dropped, alone or with its Connector, and with it
\* the client's end of the channel.
CancelConnect(c) ==
  /\ c \in Cancellers
  /\ cli[c] = "waiting"
  /\ cli' = [cli EXCEPT ![c] = "cancelled"]
  /\ chan' = [chan EXCEPT ![<<c, "client">>].app = "dropped"]
  /\ UNCHANGED <<tables, mach, wire, conns_rx>>

\* The application holds its end: a client gets it when `connect` returns Ok.
Usable(e) ==
  /\ chan[e].app = "live"
  /\ e[2] = "client" => cli[e[1]] = "connected"

\* The machine is sending a message of e: its slot in the channel is free again
\* only when the frame that borrows it is dropped.
Borrowed(e) ==
  LET m == mach[PeerOf(e)]
  IN  m.at = "send" /\ m.frame.type = "DATA" /\ m.frame.body.src = e

Enqueue(ch, msg) == [ch EXCEPT !.sent = msg.n, !.outq = Append(@, msg)]

AppSend(e) ==
  /\ e \in Talkers
  /\ Usable(e)
  /\ chan[e].held /\ chan[e].error = NoError
  /\ Len(chan[e].outq) < ChanCap - (IF Borrowed(e) THEN 1 ELSE 0)
  /\ chan[e].sent < MaxMsgs
  /\ chan' = [chan EXCEPT
                 ![e] = Enqueue(@, [src |-> e, n |-> chan[e].sent + 1])]
  /\ UNCHANGED <<tables, mach, wire, conns_rx, cli>>

AppRecv(e) ==
  /\ Usable(e)
  /\ chan[e].read < Len(chan[e].got)
  /\ chan' = [chan EXCEPT ![e].read = @ + 1]
  /\ UNCHANGED <<tables, mach, wire, conns_rx, cli>>

AppDrop(e) ==
  /\ e \in Droppers
  /\ Usable(e)
  /\ chan' = [chan EXCEPT ![e].app = "dropped"]
  /\ UNCHANGED <<tables, mach, wire, conns_rx, cli>>

AppClose(e) ==
  /\ e \in Closers
  /\ Usable(e)
  /\ chan[e].held /\ chan[e].error = NoError
  /\ chan' = CloseWithError(chan, e, "GoAway")
  /\ UNCHANGED <<tables, mach, wire, conns_rx, cli>>

----------------------------------------------------------------------------
(***************************************************************************)
(* Branches of select_biased! that poll `next_outbound`: each runs         *)
(* cleanup_dead first.  A frame still on the wire may be one that has not  *)
(* arrived, so these branches do not wait for an empty wire.               *)
(***************************************************************************)
Cleaned(p) == cleanup_dead(tables[p])
CleanedChan(p) == DropSocket(chan, tables[p], tables[p].dead_index)

\* Mutant of Drained: a closed channel is not read to the end.
DrainedOrClosed(ch) == Hungup(ch)

\* poll_recv on a closed channel returns the messages in it before the error.
Drained(ch) == ch.outq = <<>>

\* Open sockets whose channel has a message or is closed, after the cleanup.
ReadyIds(p) ==
  {i \in Ids : LET entry == Cleaned(p).conns[i]
               IN  /\ entry.tag = "Open"
                   /\ \/ ~Drained(chan[entry.chan])
                      \/ Hungup(chan[entry.chan])}

\* The scan starts at the first entry.
FirstReady(p, i) == i \in ReadyIds(p) /\ \A j \in ReadyIds(p) : i <= j

\* Mutant of Dequeue: the message that goes out stays in the channel.
DequeuePeeks(ch) == ch

\* poll_recv takes the first message.
Dequeue(ch) == [ch EXCEPT !.outq = Tail(@)]

OutboundData(p) ==
  /\ mach[p] = Selecting
  /\ \E i \in Ids :
       LET sock == Cleaned(p).conns[i]
           ch == chan[sock.chan]
       IN  /\ FirstReady(p, i)
           /\ ch.outq # <<>>
           /\ chan' = [CleanedChan(p) EXCEPT ![sock.chan] = Dequeue(@)]
           /\ tables' = [tables EXCEPT ![p] = Cleaned(p)]
           /\ mach' = [mach EXCEPT
                         ![p] = Sending(data(sock.remote_id, i, Head(ch.outq)))]
  /\ UNCHANGED <<wire, conns_rx, cli>>

\* The channel is closed and drained: RESET goes out and the socket is marked
\* for the next cleanup.
OutboundReset(p) ==
  /\ mach[p] = Selecting
  /\ \E i \in Ids :
       LET sock == Cleaned(p).conns[i]
           ch == chan[sock.chan]
       IN  /\ FirstReady(p, i)
           /\ Drained(ch)
           /\ chan' = CleanedChan(p)
           /\ tables' = [tables EXCEPT
                           ![p] = [Cleaned(p) EXCEPT !.dead_index = i]]
           /\ mach' = [mach EXCEPT
                         ![p] = Sending(reset(sock.remote_id, CloseReason(ch)))]
  /\ UNCHANGED <<wire, conns_rx, cli>>

\* `next_outbound` has nothing to send and no client is waiting, but the poll
\* has cleaned up.
PollPending(p) ==
  /\ mach[p] = Selecting
  /\ tables[p].dead_index # NoId
  /\ ReadyIds(p) = {}
  /\ conns_rx[p] = <<>>
  /\ tables' = [tables EXCEPT ![p] = Cleaned(p)]
  /\ chan' = CleanedChan(p)
  /\ UNCHANGED <<mach, wire, conns_rx, cli>>

\* Locally initiated connect request: start_connecting.
StartConnecting(p) ==
  /\ mach[p] = Selecting
  /\ ReadyIds(p) = {}
  /\ conns_rx[p] # <<>>
  /\ conns_rx' = [conns_rx EXCEPT ![p] = Tail(@)]
  /\ LET c == Head(conns_rx[p])
         id == reserve_id(Cleaned(p))
     IN  IF id = NoId
         THEN /\ Answer(c, "rejected")
              /\ chan' = [CleanedChan(p) EXCEPT ![<<c, "client">>].held = FALSE]
              /\ tables' = [tables EXCEPT ![p] = Cleaned(p)]
              /\ UNCHANGED mach
         ELSE /\ tables' = [tables EXCEPT
                   ![p] = insert_at(Cleaned(p), id, Connecting(<<c, "client">>))]
              /\ chan' = CleanedChan(p)
              /\ mach' = [mach EXCEPT ![p] = Sending(connect(id, c))]
              /\ UNCHANGED cli
  /\ UNCHANGED wire

----------------------------------------------------------------------------
(***************************************************************************)
(* Inbound frames: process_inbound.                                        *)
(***************************************************************************)
Inbound(p, type) ==
  LET q == Other(p)
  IN  /\ mach[p] = Selecting
      /\ wire[q] # <<>>
      /\ Head(wire[q]).type = type
      /\ wire' = [wire EXCEPT ![q] = Tail(@)]

InFrame(p) == Head(wire[Other(p)])

RespondWith(p, f) == mach' = [mach EXCEPT ![p] = Sending(f)]

\* The DATA frame names an open socket and the remote the socket knows.
AcceptsData(t, f) ==
  /\ HasSocket(t, f.remote_id)
  /\ t.conns[f.remote_id].tag = "Open"
  /\ t.conns[f.remote_id].remote_id = f.local_id

RecvData(p) ==
  /\ Inbound(p, "DATA")
  /\ IF AcceptsData(tables[p], InFrame(p))
     THEN mach' = [mach EXCEPT ![p] = Delivering(InFrame(p))]
     ELSE RespondWith(p, reset(InFrame(p).local_id, "NoSuchConn"))
  /\ UNCHANGED <<tables, conns_rx, cli, chan>>

\* Mutant of HasRoom: the channel takes one message too many.
HasRoomOffByOne(ch) == Len(ch.got) - ch.read <= ChanCap

\* The channel towards the application has an unread slot less than it holds.
HasRoom(ch) == Len(ch.got) - ch.read < ChanCap

\* Mutant of DeliverOk: a message that finds the channel full replaces the last
\* one in it.
DeliverReplaces(p) ==
  /\ mach[p].at = "deliver"
  /\ LET f == mach[p].frame
         e == tables[p].conns[f.remote_id].chan
     IN  /\ ~Hungup(chan[e])
         /\ f.body.n \notin Garbled
         /\ chan' = IF HasRoom(chan[e])
                    THEN [chan EXCEPT ![e].got = Append(@, f.body)]
                    ELSE [chan EXCEPT ![e].got[Len(chan[e].got)] = f.body]
  /\ mach' = [mach EXCEPT ![p] = Selecting]
  /\ UNCHANGED <<tables, wire, conns_rx, cli>>

\* socket.channel.tx().send(body).await: waits while the channel is full, and
\* the machine does nothing else meanwhile.
DeliverOk(p) ==
  /\ mach[p].at = "deliver"
  /\ LET f == mach[p].frame
         e == tables[p].conns[f.remote_id].chan
     IN  /\ ~Hungup(chan[e]) /\ HasRoom(chan[e])
         /\ f.body.n \notin Garbled
         /\ chan' = [chan EXCEPT ![e].got = Append(@, f.body)]
  /\ mach' = [mach EXCEPT ![p] = Selecting]
  /\ UNCHANGED <<tables, wire, conns_rx, cli>>

\* The send fails: the channel is closed, or the body in a slot of it does not
\* deserialize.  The connection goes, and the sender is told why.
DeliverFails(p) ==
  /\ mach[p].at = "deliver"
  /\ LET f == mach[p].frame
         ch == chan[tables[p].conns[f.remote_id].chan]
     IN  /\ Hungup(ch) \/ (HasRoom(ch) /\ f.body.n \in Garbled)
         /\ tables' = [tables EXCEPT ![p] = remove(@, f.remote_id)]
         /\ chan' = DropSocket(chan, tables[p], f.remote_id)
         /\ RespondWith(p, reset(f.local_id, IF Hungup(ch) THEN CloseReason(ch)
                                             ELSE "YouDoneGoofed"))
  /\ UNCHANGED <<wire, conns_rx, cli>>

\* process_ack.  rsp.send does not fail here (see Answer): a client that gave up
\* is noticed when next_outbound finds its channel hung up.
RecvAck(p) ==
  /\ Inbound(p, "ACK")
  /\ LET f == InFrame(p)
         id == f.remote_id
         t == tables[p]
     IN  \/ /\ ~HasSocket(t, id)
            /\ RespondWith(p, reset(f.local_id, "NoSuchConn"))
            /\ UNCHANGED <<tables, cli>>
         \/ /\ HasSocket(t, id) /\ t.conns[id].tag = "Open"
            /\ RespondWith(p, reset(f.local_id, "YesSuchConn"))
            /\ UNCHANGED <<tables, cli>>
         \/ /\ HasSocket(t, id) /\ t.conns[id].tag = "Connecting"
            /\ LET e == t.conns[id].chan
               IN  /\ tables' = [tables EXCEPT
                                   ![p].conns[id] = Open(f.local_id, e)]
                   /\ Answer(e[1], "connected")
                   /\ UNCHANGED mach
  /\ UNCHANGED <<conns_rx, chan>>

\* reject: removes the socket whatever its state.
RecvReject(p) ==
  /\ Inbound(p, "REJECT")
  /\ LET id == InFrame(p).remote_id
         t == tables[p]
     IN  /\ tables' = [tables EXCEPT ![p] = remove(t, id)]
         /\ chan' = DropSocket(chan, t, id)
         /\ IF HasSocket(t, id) /\ t.conns[id].tag = "Connecting"
            THEN Answer(t.conns[id].chan[1], "rejected")
            ELSE UNCHANGED cli
  /\ UNCHANGED <<mach, conns_rx>>

\* reset: a connecting socket is dropped with its response sender, an open one
\* passes the reason to its application.
RecvReset(p) ==
  /\ Inbound(p, "RESET")
  /\ LET f == InFrame(p)
         id == f.remote_id
         t == tables[p]
     IN  /\ tables' = [tables EXCEPT ![p] = remove(t, id)]
         /\ IF HasSocket(t, id) /\ t.conns[id].tag = "Connecting"
            THEN Answer(t.conns[id].chan[1], "orphaned")
            ELSE UNCHANGED cli
         /\ chan' = IF HasSocket(t, id) /\ t.conns[id].tag = "Open"
                    THEN CloseWithError(DropSocket(chan, t, id),
                                        t.conns[id].chan, f.reason)
                    ELSE DropSocket(chan, t, id)
  /\ UNCHANGED <<mach, conns_rx>>

\* A CONNECT the registry turns down.
RecvConnectRejected(p) ==
  /\ Inbound(p, "CONNECT")
  /\ RespondWith(p, reject(InFrame(p).local_id))
  /\ UNCHANGED <<tables, conns_rx, cli, chan>>

\* A CONNECT the registry finds a service for: `accept`.  When the table is
\* full, the service already has its end of a channel whose other end is
\* dropped here.
RecvConnectAccepted(p) ==
  /\ Inbound(p, "CONNECT")
  /\ LET f == InFrame(p)
         e == <<f.conn, "server">>
         id == reserve_id(tables[p])
     IN  IF id = NoId
         THEN /\ chan' = [chan EXCEPT ![e] = [NewChannel EXCEPT !.held = FALSE]]
              /\ RespondWith(p, reject(f.local_id))
              /\ UNCHANGED tables
         ELSE /\ chan' = [chan EXCEPT ![e] = NewChannel]
              /\ tables' = [tables EXCEPT
                              ![p] = insert_at(@, id, Open(f.local_id, e))]
              /\ RespondWith(p, ack(id, f.local_id))
  /\ UNCHANGED <<conns_rx, cli>>

\* wire.send(frame).await completes.
WireSend(p) ==
  /\ mach[p].at = "send"
  /\ Len(wire[p]) < WireCap
  /\ wire' = [wire EXCEPT ![p] = Append(@, mach[p].frame)]
  /\ mach' = [mach EXCEPT ![p] = Selecting]
  /\ UNCHANGED <<tables, conns_rx, cli, chan>>

\* wire.send(frame).await fails: `run` returns an InterfaceError, the frame is
\* gone, what the table and the channels recorded of it stays, and the caller
\* of `run` calls it again.
WireFails(p) ==
  /\ mach[p].at = "send"
  /\ mach[p].frame.type \in Failing
  /\ mach' = [mach EXCEPT ![p] = Selecting]
  /\ UNCHANGED <<tables, wire, conns_rx, cli, chan>>

----------------------------------------------------------------------------
AppNext ==
  \/ \E c \in Clients : StartConnect(c) \/ CancelConnect(c)
  \/ \E e \in Endpoints : AppSend(e) \/ AppRecv(e) \/ AppDrop(e) \/ AppClose(e)

MachineStep(p) ==
  \/ OutboundData(p) \/ OutboundReset(p) \/ PollPending(p) \/ StartConnecting(p)
  \/ RecvData(p) \/ DeliverOk(p) \/ DeliverFails(p)
  \/ RecvAck(p) \/ RecvReject(p) \/ RecvReset(p)
  \/ RecvConnectRejected(p) \/ RecvConnectAccepted(p) \/ WireSend(p)

Next == AppNext \/ \E p \in Peers : MachineStep(p) \/ WireFails(p)

Spec == Init /\ [][Next]_vars

\* The executor polls a machine that can make progress and an application that
\* has something to read; nothing obliges an application to send or to close.
FairSpec ==
  /\ Spec
  /\ \A p \in Peers : WF_vars(MachineStep(p))
  /\ \A e \in Endpoints : WF_vars(AppRecv(e))

----------------------------------------------------------------------------
(***************************************************************************)
(* Safety.                                                                 *)
(***************************************************************************)

\* Whatever frames arrive and in whatever order the branches of
\* `Machine::run` call insert_at, remove and cleanup_dead, the free list
\* threaded through each table visits every closed entry exactly once before
\* the unused ones, and `len` is the number of sockets.
TablesOK ==
  \A p \in Peers : FreeListOK(tables[p]) /\ LenCountsSockets(tables[p])

\* No connect request and no CONNECT frame, at any moment, can make
\* `insert_at` panic: the reserved entry exists and holds no socket, and the
\* counter of fresh IDs does not overflow.
InsertsAreSafe == \A p \in Peers : InsertIsSafe(tables[p])

\* What process_inbound(DATA) hands to an application is the beginning of one
\* endpoint's stream: no loss, no duplicate, no reordering, and no mixing of
\* two streams, although IDs are reused.  When the wire may fail to send a DATA
\* frame, messages may be missing, and still none comes twice or too late.
InOrder ==
  \A e \in Endpoints : \A k \in DOMAIN chan[e].got :
    LET msg == chan[e].got[k]
    IN  /\ msg.src = chan[e].got[1].src
        /\ "DATA" \notin Failing => msg.n = k
        /\ k > 1 => chan[e].got[k - 1].n < msg.n

\* What process_inbound(DATA) hands to an application was sent by the other end
\* of its own connection.
NoCrossTalk ==
  \A e \in Endpoints : \A k \in DOMAIN chan[e].got : chan[e].got[k].src = Mate(e)

\* The socket that `cleanup_dead` will remove is the one `next_outbound` saw
\* closed, not one that took over its entry since.
DeadIsDead ==
  \A p \in Peers :
    LET t == tables[p]
    IN  HasSocket(t, t.dead_index) =>
          t.conns[t.dead_index].tag = "Open"
            /\ Hungup(chan[t.conns[t.dead_index].chan])

\* A message the machine hands to an application comes later in its sender's
\* stream than every message of that sender handed to anyone before: whatever
\* connection a DATA frame's IDs have come to mean, no message is delivered
\* twice, neither to one end nor to two, and none after a later one.
StreamsInOrder ==
  [][\A e \in Endpoints : \A j \in DOMAIN chan'[e].got \ DOMAIN chan[e].got :
       \A f \in Endpoints : \A k \in DOMAIN chan[f].got :
         LET new == chan'[e].got[j]
             old == chan[f].got[k]
         IN  old.src = new.src => old.n < new.n]_chan

(***************************************************************************)
(* Liveness, under FairSpec.                                               *)
(***************************************************************************)

\* `Connector::connect` returns: a client that waits for the response of its
\* request gets one, unless it gives up.
ConnectResolves ==
  \A c \in Clients :
    cli[c] = "waiting" ~> cli[c] \in {"connected", "rejected", "cancelled"}

\* When an application drops its end, or the connection is closed with an
\* error at one end, RESET frames make both machines let go of their sockets.
CloseConverges ==
  \A e \in Endpoints :
    chan[e].app = "dropped" \/ chan[e].error # NoError
      ~> ~chan[e].held /\ ~chan[Mate(e)].held

\* What an application sent reaches the other end's channel, also when the
\* application drops its end right after (next_outbound drains the channel
\* before it resets), unless the other application is gone or the connection
\* fails, by close_with_error or a message that does not deserialize.  The
\* channel is not drained when a DATA frame for the dropped end comes first:
\* process_inbound then removes the socket.
DataArrives ==
  \A e \in Talkers, n \in {m \in 1 .. MaxMsgs : (1 .. m) \cap Garbled = {}} :
    chan[e].sent >= n
      ~> \/ Len(chan[Mate(e)].got) >= n \/ chan[Mate(e)].app # "live"
         \/ \E d \in {e, Mate(e)} : chan[d].error \in {"GoAway", "YouDoneGoofed"}
         \/ chan[e].app = "dropped" /\ chan[Mate(e)].sent > 0
=============================================================================
