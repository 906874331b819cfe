------------------------------- MODULE Channel -------------------------------
(***************************************************************************)
(* What the mpsc channel promises: a bounded FIFO of messages from several *)
(* senders to one receiver that either side may close.  TrickyPipe         *)
(* implements it.                                                          *)
(***************************************************************************)
EXTENDS Naturals, Sequences

CONSTANTS Senders, Cap

VARIABLES
  buf,      \* the messages in the channel
  sent,     \* sent[s]: number of the last message s has put in
  got,      \* got[s]: number of the last message of s taken out
  open,     \* whether a message can still be put in
  senders,  \* whether a handle that can send is left
  error,    \* whether somebody has begun to close the channel with an error
  rx        \* the receiver: receiving, left, or what it was told at the end

vars == <<buf, sent, got, open, senders, error, rx>>

Init ==
  /\ buf = <<>>
  /\ sent = [s \in Senders |-> 0] /\ got = [s \in Senders |-> 0]
  /\ open = TRUE /\ senders = TRUE /\ error = FALSE
  /\ rx = "receiving"

Send(s) ==
  /\ open /\ senders /\ Len(buf) < Cap
  /\ buf' = Append(buf, [src |-> s, n |-> sent[s] + 1])
  /\ sent' = [sent EXCEPT ![s] = @ + 1]
  /\ UNCHANGED <<got, open, senders, error, rx>>

Recv ==
  /\ rx = "receiving" /\ buf # <<>>
  /\ buf' = Tail(buf)
  /\ got' = [got EXCEPT ![Head(buf).src] = Head(buf).n]
  /\ UNCHANGED <<sent, open, senders, error, rx>>

\* The receiver leaves; later, or when an error comes, the channel is closed to
\* new messages.
Leave ==
  /\ rx # "left" /\ rx' = "left"
  /\ UNCHANGED <<buf, sent, got, open, senders, error>>

Fail ==
  /\ ~error /\ error' = TRUE
  /\ UNCHANGED <<buf, sent, got, open, senders, rx>>

Close ==
  /\ open /\ (rx = "left" \/ error)
  /\ open' = FALSE
  /\ UNCHANGED <<buf, sent, got, senders, error, rx>>

\* The last sender is dropped.
Hang ==
  /\ senders /\ senders' = FALSE
  /\ UNCHANGED <<buf, sent, got, open, error, rx>>

\* The receiver is told that nothing more will come.
End ==
  /\ rx = "receiving"
  /\ \/ ~senders /\ buf = <<>> /\ rx' = "disconnected"
     \/ error /\ rx' = "error"
  /\ UNCHANGED <<buf, sent, got, open, senders, error>>

\* What nobody can receive any more is dropped, in order.
Discard ==
  /\ rx = "left" /\ ~senders /\ buf # <<>>
  /\ buf' = Tail(buf)
  /\ UNCHANGED <<sent, got, open, senders, error, rx>>

Next ==
  \/ \E s \in Senders : Send(s)
  \/ Recv \/ Leave \/ Fail \/ Close \/ Hang \/ End \/ Discard

Spec == Init /\ [][Next]_vars
=============================================================================
