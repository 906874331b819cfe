------------------------------ MODULE MCReqRsp ------------------------------
(***************************************************************************)
(* Instance of ReqRsp.                                                     *)
(***************************************************************************)
EXTENDS ReqRsp

CONSTANTS r1, r2, r3, own, svc

MCRequests == {r1, r2, r3}
MCRetryOf == [r \in {r3} |-> r2]
MCDispatchers == 1 .. 2
MCClients == MCRequests \cup MCDispatchers \cup {own}
=============================================================================
