------------------------------- MODULE MCLink -------------------------------
(***************************************************************************)
(* Small instances of Link.  Clients are named by model values c1, c2, c3; *)
(* those in BClients live on peer B, the others on peer A.                 *)
(***************************************************************************)
EXTENDS Link

CONSTANTS A, B, BClients, c1, SoloMsgs

MCPeers == {A, B}
MCHome == [c \in Clients |-> IF c \in BClients THEN B ELSE A]

\* The client ends on peer A.
AClientEnds == (Clients \ BClients) \X {"client"}
ClientEnds == Clients \X {"client"}
ServerEnds == Clients \X {"server"}

\* The services that peer A's clients connect to.
AServerEnds == (Clients \ BClients) \X {"server"}
AllEnds == Endpoints

\* The ends that send in the liveness run.
LiveTalkers == AClientEnds \cup {<<c1, "server">>}

(***************************************************************************)
(* The applications of the liveness run.  Either c1 alone connects, and    *)
(* both applications do whatever Link lets them, up to SoloMsgs messages;  *)
(* or peer A's clients do, and only clients send and drop; or all clients  *)
(* do, more than the tables have room for, and only drop.  With more than  *)
(* that the reuse of IDs breaks connections (see link_dead,                *)
(* link_crosstalk), or both machines wait for the wire for ever.           *)
(***************************************************************************)
Solo ==
  /\ \A c \in Clients \ {c1} : cli[c] = "idle"
  /\ chan[<<c1, "client">>].sent + chan[<<c1, "server">>].sent <= SoloMsgs

ServersStay ==
  /\ \A e \in ServerEnds : chan[e].app # "dropped"
  /\ \A e \in Endpoints : chan[e].error # "GoAway"

OneWay ==
  /\ ServersStay
  /\ \A c \in BClients : cli[c] = "idle"
  /\ \A e \in Endpoints : chan[e].sent \notin Garbled
  /\ \A e \in ServerEnds : chan[e].sent = 0

Crowd == ServersStay /\ \A e \in Endpoints : chan[e].sent = 0

LiveNext ==
  \/ AppNext /\ (Solo' \/ OneWay' \/ Crowd')
  \/ \E p \in Peers : MachineStep(p)

LiveSpec ==
  /\ Init /\ [][LiveNext]_vars
  /\ \A p \in Peers : WF_vars(MachineStep(p))
  /\ \A e \in Endpoints : WF_vars(AppRecv(e))
=============================================================================
