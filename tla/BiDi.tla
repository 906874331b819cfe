-------------------------------- MODULE BiDi --------------------------------
(***************************************************************************)
(* A connection as its two ends see it (tricky-pipe, bidi.rs): two mpsc    *)
(* channels in opposite directions, closed together by close_with_error,   *)
(* and BiDi::wait, by which one task waits for room in one direction and   *)
(* for a message in the other at once.  SerBiDi's methods are the same.    *)
(*                                                                         *)
(* The channels are those of TrickyPipe with each operation on a queue as  *)
(* one step; closing with an error keeps the step in which ERRORING is     *)
(* set and the channel is still open.  What the interface and the wire do  *)
(* between the two ends is Link's part: here the ends share the channels.  *)
(* The client's end is used by the tasks in Clients.  The server's end is  *)
(* owned by one task, Svc, which calls wait whenever it has something to   *)
(* send and recv otherwise; which of its answers it sends first, and       *)
(* whether it leaves, is its own affair.                                   *)
(***************************************************************************)
EXTENDS Naturals, Sequences

CONSTANTS
  Clients,    \* the tasks at the client's end
  Svc,        \* the task at the server's end
  Cap         \* capacity of each channel

ASSUME BiDiAssumption == Svc \notin Clients /\ Cap \in Nat \ {0}

Tasks == Clients \cup {Svc}

VARIABLES
  pipe,       \* pipe[d]: the channel of direction d
  at,         \* at[p]: what task p does next
  seen_tx_error, seen_rx_error,  \* of the server's BiDi
  todo        \* requests the service has yet to answer

bidiVars == <<seen_tx_error, seen_rx_error>>

NewPipe == [buf |-> <<>>, held |-> 0, tx |-> TRUE, rx |-> TRUE, err |-> "none"]

Goto(p, l) == at' = [at EXCEPT ![p] = l]

TxOf(p) == IF p = Svc THEN "s2c" ELSE "c2s"
RxOf(p) == IF p = Svc THEN "c2s" ELSE "s2c"

----------------------------------------------------------------------------
(***************************************************************************)
(* One poll of reserve and of recv.                                        *)
(***************************************************************************)
WhyOver(c) == IF c.err = "errored" THEN "error" ELSE "disconnected"

\* Mutant of PollReserve: permits that are out are not counted.
PollReserveUnheld(c) ==
  CASE ~c.rx \/ c.err = "errored" -> WhyOver(c)
    [] c.rx /\ c.err # "errored" /\ Len(c.buf) < Cap -> "ready"
    [] OTHER -> "pending"

\* Sender::reserve: a closed channel comes before a full one.
PollReserve(c) ==
  CASE ~c.rx \/ c.err = "errored" -> WhyOver(c)
    [] c.rx /\ c.err # "errored" /\ Len(c.buf) + c.held < Cap -> "ready"
    [] OTHER -> "pending"

\* Receiver::recv: what is in the queue comes before the close.
PollRecv(c) ==
  CASE c.buf # <<>> -> "ready"
    [] c.buf = <<>> /\ (~c.tx \/ c.err = "errored") -> WhyOver(c)
    [] OTHER -> "pending"

Reserved(d) == [pipe EXCEPT ![d].held = @ + 1]

\* Permit::send: a commit to a closed channel fails silently, and its index
\* stays allocated.
Sent(d, m) ==
  IF pipe[d].rx /\ pipe[d].err # "errored"
  THEN [pipe EXCEPT ![d].buf = Append(@, m), ![d].held = @ - 1]
  ELSE pipe

Received(d) == [pipe EXCEPT ![d].buf = Tail(@)]

----------------------------------------------------------------------------
(***************************************************************************)
(* BiDi::close_with_error: the send half, then the receive half.  The      *)
(* second to close a half with an error returns at once, although the      *)
(* first may not have finished.  A task that is done goes to `done`.       *)
(***************************************************************************)
CloseHalf(p, d, finish, next) ==
  IF pipe[d].err = "none"
  THEN pipe' = [pipe EXCEPT ![d].err = "erroring"] /\ Goto(p, finish)
  ELSE UNCHANGED pipe /\ Goto(p, next)

FinishHalf(p, d, next) ==
  /\ pipe' = [pipe EXCEPT ![d].err = "errored"]
  /\ Goto(p, next)

close_with_error(p, done) ==
  /\ \/ at[p] = "close_tx" /\ CloseHalf(p, TxOf(p), "finish_tx", "close_rx")
     \/ at[p] = "finish_tx" /\ FinishHalf(p, TxOf(p), "close_rx")
     \/ at[p] = "close_rx" /\ CloseHalf(p, RxOf(p), "finish_rx", done)
     \/ at[p] = "finish_rx" /\ FinishHalf(p, RxOf(p), done)
  /\ UNCHANGED <<bidiVars, todo>>

\* A BiDi is dropped: its Sender, then its Receiver.
DropEnd(p) ==
  /\ \/ at[p] = "drop_tx" /\ pipe' = [pipe EXCEPT ![TxOf(p)].tx = FALSE]
                          /\ Goto(p, "drop_rx")
     \/ at[p] = "drop_rx" /\ pipe' = [pipe EXCEPT ![RxOf(p)].rx = FALSE]
                          /\ Goto(p, "dropped")
  /\ UNCHANGED <<bidiVars, todo>>

----------------------------------------------------------------------------
(***************************************************************************)
(* BiDi::wait at the server's end: select_biased! polls reserve, then      *)
(* recv, and both again when either can go on; a half that is over leaves  *)
(* the other one to wait for.                                              *)
(***************************************************************************)

\* WaitError.
WaitErrors == {"SendError", "RecvError", "Disconnected"}

\* Mutant of ReserveBranch: an error of the send half is returned every time.
ReserveRepeats(r) ==
  CASE r = "ready" -> "SendReady"
    [] r = "pending" -> "poll_recv"
    [] r = "error" -> "SendError"
    [] r = "disconnected" -> "recv_only"

\* Mutant of ReserveBranch: the receive half is taken for closed as well.
ReserveGivesUp(r) ==
  CASE r = "ready" -> "SendReady"
    [] r = "pending" -> "poll_recv"
    [] r = "error" /\ ~seen_tx_error -> "SendError"
    [] OTHER -> "Disconnected"

\* The branches of the select: what wait returns, or where it goes on.
ReserveBranch(r) ==
  CASE r = "ready" -> "SendReady"
    [] r = "pending" -> "poll_recv"
    [] r = "error" /\ ~seen_tx_error -> "SendError"
    [] OTHER -> "recv_only"

RecvBranch(r) ==
  CASE r = "ready" -> "Recv"
    [] r = "error" /\ ~seen_rx_error -> "RecvError"
    [] OTHER -> "reserve_only"

\* The error of a half that was waited for alone.
OnlyBranch(r, ready, error) ==
  CASE r = "ready" -> ready
    [] r = "error" -> error
    [] r = "disconnected" -> "Disconnected"

\* wait returns b, or goes on at b.  A permit or a message is handed over with
\* the result, and an error that is returned is remembered.
WaitTakes(b) ==
  /\ seen_tx_error' = (seen_tx_error \/ b = "SendError")
  /\ seen_rx_error' = (seen_rx_error \/ b = "RecvError")
  /\ Goto(Svc, IF b = "Recv" THEN "poll_reserve" ELSE b)
  /\ pipe' = CASE b = "SendReady" -> Reserved("s2c")
               [] b = "Recv" -> Received("c2s")
               [] OTHER -> pipe
  /\ todo' = IF b = "Recv" THEN todo \cup {Head(pipe["c2s"].buf)} ELSE todo

WaitReserve ==
  /\ at[Svc] = "poll_reserve"
  /\ WaitTakes(ReserveBranch(PollReserve(pipe["s2c"])))

WaitRecv ==
  /\ at[Svc] = "poll_recv"
  /\ PollRecv(pipe["c2s"]) # "pending"
  /\ WaitTakes(RecvBranch(PollRecv(pipe["c2s"])))

\* The task was woken because reserve can go on.
WaitAgain ==
  /\ at[Svc] = "poll_recv"
  /\ PollRecv(pipe["c2s"]) = "pending" /\ PollReserve(pipe["s2c"]) # "pending"
  /\ WaitTakes("poll_reserve")

WaitRecvOnly ==
  /\ at[Svc] = "recv_only"
  /\ PollRecv(pipe["c2s"]) # "pending"
  /\ WaitTakes(OnlyBranch(PollRecv(pipe["c2s"]), "Recv", "RecvError"))

WaitReserveOnly ==
  /\ at[Svc] = "reserve_only"
  /\ PollReserve(pipe["s2c"]) # "pending"
  /\ WaitTakes(OnlyBranch(PollReserve(pipe["s2c"]), "SendReady", "SendError"))

----------------------------------------------------------------------------
(***************************************************************************)
(* The service's task (external: services are the library's users).        *)
(***************************************************************************)

\* It receives while it owes nothing, and calls wait otherwise.
SvcRecv ==
  /\ at[Svc] = "recv"
  /\ \/ /\ PollRecv(pipe["c2s"]) = "ready"
        /\ todo' = todo \cup {Head(pipe["c2s"].buf)}
        /\ pipe' = Received("c2s")
        /\ Goto(Svc, "poll_reserve")
     \/ /\ PollRecv(pipe["c2s"]) \in {"error", "disconnected"}
        /\ Goto(Svc, "drop_tx")
        /\ UNCHANGED <<pipe, todo>>
  /\ UNCHANGED bidiVars

\* Request::respond: the answer carries the request's sequence number.
SvcResponds ==
  /\ at[Svc] = "SendReady"
  /\ \E m \in todo : pipe' = Sent("s2c", m) /\ todo' = todo \ {m}
  /\ Goto(Svc, IF todo' = {} THEN "recv" ELSE "poll_reserve")
  /\ UNCHANGED bidiVars

\* wait failed: the service waits on, for the half that may still work, until
\* that is over too.
SvcWaited ==
  /\ at[Svc] \in WaitErrors
  /\ Goto(Svc, IF at[Svc] = "Disconnected" \/ (seen_tx_error /\ seen_rx_error)
               THEN "drop_tx" ELSE "poll_reserve")
  /\ UNCHANGED <<pipe, bidiVars, todo>>

\* The service leaves in the middle of its work, with an error or without.
SvcLeaves ==
  /\ at[Svc] \in {"recv", "poll_reserve"}
  /\ Goto(Svc, "close_tx") \/ Goto(Svc, "drop_tx")
  /\ UNCHANGED <<pipe, bidiVars, todo>>

SvcStep ==
  \/ WaitReserve \/ WaitRecv \/ WaitAgain \/ WaitRecvOnly \/ WaitReserveOnly
  \/ SvcRecv \/ SvcResponds \/ SvcWaited
  \/ close_with_error(Svc, "drop_tx") \/ DropEnd(Svc)

----------------------------------------------------------------------------
SendOver(c) == ~c.rx \/ c.err = "errored"
RecvOver(c) == c.buf = <<>> /\ (~c.tx \/ c.err = "errored")

\* WaitError::Disconnected: "Both the send and receive sides are disconnected".
\* Nothing can be sent any more and nothing is left to be received.  The doc goes
\* on "have been dropped"; a half may also have been closed with an error, which
\* an earlier `wait` has returned.
DisconnectedIsBoth ==
  at[Svc] = "Disconnected" =>
    SendOver(pipe["s2c"]) /\ RecvOver(pipe["c2s"])

\* wait returns the error of one half a second time only when the other half is
\* over too and has had its error returned: no error hides the other one, and
\* none keeps a half that still works from being used.
ErrorOncePerHalf ==
  [][/\ at'[Svc] # at[Svc]
     /\ \/ at'[Svc] = "SendError" /\ seen_tx_error
        \/ at'[Svc] = "RecvError" /\ seen_rx_error
     => /\ SendOver(pipe["s2c"]) /\ RecvOver(pipe["c2s"])
        /\ seen_tx_error \/ pipe["s2c"].err # "errored"
        /\ seen_rx_error \/ pipe["c2s"].err # "errored"]_<<pipe, at, bidiVars>>
=============================================================================
