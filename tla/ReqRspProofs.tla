---------------------------- MODULE ReqRspProofs ----------------------------
(***************************************************************************)
(* The request/response client over a connection, for every set of         *)
(* requests, dispatchers and cancellations, every capacity and every width *)
(* of the sequence numbers.                                                *)
(***************************************************************************)
EXTENDS ReqRsp, FiniteSetTheorems, TLAPS

CloseLabels == {"close_tx", "finish_tx", "close_rx", "finish_rx"}

ReqLabels ==
  {"idle", "reserve", "fetch", "enqueue", "send", "await", "why", "why_unsent",
   "reset", "answered", "cancelled", "panic"}

DispLabels ==
  {"idle", "poll_shutdown", "poll_rx", "wake", "panic", "returned", "cancelled",
   "close_map", "failed"} \cup CloseLabels

OwnerLabels ==
  {"idle", "close_map", "shut", "drop_tx", "drop_rx", "dropped"} \cup CloseLabels

SvcLabels ==
  {"recv", "poll_reserve", "poll_recv", "recv_only", "reserve_only", "SendReady",
   "drop_tx", "drop_rx", "dropped"} \cup WaitErrors \cup CloseLabels

\* Each task is at a step of its own code.
PlaceInv ==
  /\ \A r \in Requests : at[r] \in ReqLabels
  /\ \A d \in Dispatchers : at[d] \in DispLabels
  /\ at[Owner] \in OwnerLabels /\ at[Svc] \in SvcLabels

----------------------------------------------------------------------------
(***************************************************************************)
(* Permits.                                                                *)
(***************************************************************************)

\* The requests that hold a permit.
Holders == {r \in Requests : at[r] \in {"fetch", "enqueue", "send", "why_unsent"}}

\* A permit that is out is counted: more may be counted, those of sends that
\* failed on a closed channel.
PermitInv ==
  /\ IsFiniteSet(Holders) /\ Cardinality(Holders) <= pipe["c2s"].held
  /\ at[Svc] = "SendReady" => pipe["s2c"].held > 0

----------------------------------------------------------------------------
(***************************************************************************)
(* Closing.                                                                *)
(***************************************************************************)

\* The task that closes direction d with an error is between its two steps.
Finishing(d) ==
  \E p \in Tasks : \/ at[p] = "finish_tx" /\ TxOf(p) = d
                   \/ at[p] = "finish_rx" /\ RxOf(p) = d

\* ERRORING is set just while somebody is about to set ERRORED, and a task that
\* has closed the send half finds one of them.
ErrorInv ==
  /\ \A d \in {"c2s", "s2c"} : pipe[d].err = "erroring" => Finishing(d)
  /\ \A p \in Dispatchers \cup {Owner} :
       at[p] \in {"close_rx", "finish_rx", "close_map"} => pipe["c2s"].err # "none"
  /\ dispatcher.closed => pipe["c2s"].err # "none"

\* There is one dispatcher, and the map is closed by it or by a shutdown.
DispatcherInv ==
  /\ \A c, d \in Dispatchers : at[c] # "idle" /\ at[d] # "idle" => c = d
  /\ \A d \in Dispatchers : at[d] # "idle" => has_dispatcher
  /\ at[Owner] \in CloseLabels \cup {"close_map"} => shutdown
  /\ dispatcher.closed => shutdown \/ \E d \in Dispatchers : at[d] = "failed"
  /\ \A d \in Dispatchers : at[d] = "panic" => shutdown

----------------------------------------------------------------------------
(***************************************************************************)
(* Responses.                                                              *)
(***************************************************************************)
\* The messages of a sequence, and that no two are of the same request.
Carried(s) == {s[k] : k \in 1 .. Len(s)}

Distinct(s) == \A j, k \in 1 .. Len(s) : s[j].req = s[k].req => j = k

Requested == Carried(pipe["c2s"].buf)
Answered == Carried(pipe["s2c"].buf)
Held == {msg[d] : d \in {d \in Dispatchers : at[d] = "wake"}}

\* The requests and the responses under way.
UnderWay == Requested \cup todo \cup Answered \cup Held

\* Where a request is that has sent its message.
SentLabels == {"await", "why", "reset", "panic", "cancelled", "answered"}

\* A request has at most one message under way, a request or a response, in one
\* place; one that was not sent has none.
OnceInv ==
  /\ Distinct(pipe["c2s"].buf) /\ Distinct(pipe["s2c"].buf)
  /\ \A m, n \in todo : m.req = n.req => m = n
  /\ \A m \in Requested : \A n \in todo \cup Answered \cup Held : m.req # n.req
  /\ \A m \in todo : \A n \in Answered \cup Held : m.req # n.req
  /\ \A m \in Answered : \A n \in Held : m.req # n.req
  /\ \A m \in UnderWay :
       /\ m \in Message /\ m.req \in Requests
       /\ at[m.req] \in SentLabels

\* A message under way carries the number under which its request waits, if
\* that was not cancelled nor mistaken and the map is open.
Expected(m) ==
  \/ dispatcher.closed
  \/ at[m.req] = "cancelled"
  \/ Mistaken(m.req)
  \/ m.req \in dispatcher.waiters /\ mine[m.req] = m.seq

MatchInv == \A m \in UnderWay : Expected(m)

\* The waiters of the map are requests that wait, each under a number of its
\* own and without a result.  A request leaves the map before it has sent only
\* when it is mistaken or the map is closed.
WaiterInv ==
  /\ \A q \in dispatcher.waiters : at[q] \in {"send", "await"} /\ result[q] = Owner
  /\ \A q, r \in dispatcher.waiters : mine[q] = mine[r] => q = r
  /\ \A r \in Requests : at[r] = "send" =>
       dispatcher.closed \/ r \in dispatcher.waiters \/ Mistaken(r)
  /\ \A r \in Requests : result[r] # Owner =>
       at[r] \in {"send", "await", "answered", "cancelled"}

----------------------------------------------------------------------------
(***************************************************************************)
(* The two ends.                                                           *)
(***************************************************************************)

\* A half of the client's end is dropped when no call is under way at that end
\* and none can start.
ClientGone ==
  /\ at[Owner] \in {"drop_tx", "drop_rx", "dropped"}
  /\ \A p \in Requests \cup Dispatchers : Over(p)

GoneInv ==
  /\ at[Owner] \in {"drop_tx", "drop_rx", "dropped"} => ClientGone
  /\ ~pipe["c2s"].tx => at[Owner] \in {"drop_rx", "dropped"}
  /\ ~pipe["s2c"].rx => at[Owner] = "dropped"

\* What BiDi::wait at the server's end has found out about the two halves.
WaitInv ==
  /\ at[Svc] \in {"recv_only", "Disconnected"} =>
       /\ SendOver(pipe["s2c"])
       /\ seen_tx_error \/ pipe["s2c"].err # "errored"
  /\ at[Svc] \in {"reserve_only", "Disconnected"} =>
       /\ RecvOver(pipe["c2s"])
       /\ seen_rx_error \/ pipe["c2s"].err # "errored"

\* The inductive invariant.
IInv ==
  /\ TypeOK /\ PlaceInv /\ PermitInv /\ ErrorInv /\ DispatcherInv
  /\ OnceInv /\ MatchInv /\ WaiterInv /\ OwnResponse
  /\ GoneInv /\ WaitInv

----------------------------------------------------------------------------
(***************************************************************************)
(* The operations on a channel.                                            *)
(***************************************************************************)
LEMMA CarriedByAppend ==
  ASSUME NEW s \in Seq(Message), NEW m \in Message
  PROVE  /\ Carried(Append(s, m)) = Carried(s) \cup {m}
         /\ Distinct(s) /\ (\A n \in Carried(s) : n.req # m.req) =>
              Distinct(Append(s, m))
<1> DEFINE t == Append(s, m)
<1>1. Len(t) = Len(s) + 1 /\ Len(s) \in Nat
  OBVIOUS
<1>2. \A k \in 1 .. Len(s) : t[k] = s[k]
  OBVIOUS
<1>3. t[Len(s) + 1] = m
  OBVIOUS
<1> HIDE DEF t
<1>4. Carried(t) = Carried(s) \cup {m}
  BY <1>1, <1>2, <1>3 DEF Carried
<1>5. Distinct(s) /\ (\A n \in Carried(s) : n.req # m.req) => Distinct(t)
  BY <1>1, <1>2, <1>3 DEF Carried, Distinct
<1> QED BY <1>4, <1>5 DEF t

LEMMA CarriedByTail ==
  ASSUME NEW s \in Seq(Message), s # <<>>
  PROVE  /\ Head(s) \in Carried(s) /\ Head(s) \in Message
         /\ Tail(s) \in Seq(Message) /\ Len(Tail(s)) < Len(s)
         /\ Distinct(s) => /\ Carried(Tail(s)) = Carried(s) \ {Head(s)}
                           /\ \A n \in Carried(Tail(s)) : n.req # Head(s).req
                           /\ Distinct(Tail(s))
<1> DEFINE t == Tail(s)
<1>1. Len(s) \in Nat \ {0} /\ Len(t) = Len(s) - 1 /\ t \in Seq(Message)
  OBVIOUS
<1>2. \A k \in 1 .. Len(t) : t[k] = s[k + 1]
  OBVIOUS
<1>3. Head(s) = s[1] /\ Head(s) \in Message
  OBVIOUS
<1> HIDE DEF t
<1>4. Head(s) \in Carried(s)
  BY DEF Carried
<1>5. ASSUME Distinct(s) PROVE Distinct(t)
  BY <1>1, <1>2, <1>5 DEF Distinct
<1>6. ASSUME Distinct(s), NEW n \in Carried(t) PROVE n.req # Head(s).req
  <2>1. PICK k \in 1 .. Len(t) : n = t[k]
    BY DEF Carried
  <2>2. n = s[k + 1] /\ k + 1 \in 1 .. Len(s) /\ 1 \in 1 .. Len(s) /\ k + 1 # 1
    BY <1>1, <1>2, <2>1
  <2> QED BY <1>6, <2>2 DEF Distinct
<1>7. Carried(s) = Carried(t) \cup {s[1]}
  <2>1. \A k \in 1 .. Len(s) : k = 1 \/ (k - 1 \in 1 .. Len(t) /\ t[k - 1] = s[k])
    BY <1>1, <1>2
  <2>2. \A k \in 1 .. Len(t) : k + 1 \in 1 .. Len(s) /\ t[k] = s[k + 1]
    BY <1>1, <1>2
  <2> QED BY <1>1, <2>1 DEF Carried
<1> QED BY <1>5, <1>6, <1>7 DEF t

\* What stays as it is in the channel of direction e.
Same(e) == pipe'[e] = pipe[e]

SameState(e) ==
  pipe'[e].tx = pipe[e].tx /\ pipe'[e].rx = pipe[e].rx /\ pipe'[e].err = pipe[e].err

PipeOK ==
  /\ pipe \in [{"c2s", "s2c"} -> Pipes]
  /\ \A d \in {"c2s", "s2c"} : Len(pipe[d].buf) + pipe[d].held <= Cap

\* The number of permits that are out is all that changes.
LEMMA PermitsChange ==
  ASSUME PipeOK, NEW d \in {"c2s", "s2c"}, NEW h \in 0 .. Cap,
         Len(pipe[d].buf) + h <= Cap, pipe' = [pipe EXCEPT ![d].held = h]
  PROVE  /\ PipeOK'
         /\ \A e \in {"c2s", "s2c"} : SameState(e) /\ pipe'[e].buf = pipe[e].buf
         /\ pipe'[d].held = h
         /\ \A e \in {"c2s", "s2c"} \ {d} : Same(e)
<1>1. /\ \A e \in {"c2s", "s2c"} \ {d} : pipe'[e] = pipe[e]
      /\ pipe'[d] = [pipe[d] EXCEPT !.held = h]
      /\ pipe' = [e \in {"c2s", "s2c"} |-> pipe'[e]]
  BY DEF PipeOK
<1>2. /\ pipe'[d].buf = pipe[d].buf /\ pipe'[d].held = h
      /\ pipe'[d].tx = pipe[d].tx /\ pipe'[d].rx = pipe[d].rx
      /\ pipe'[d].err = pipe[d].err /\ pipe'[d] \in Pipes
  <2> DEFINE c == pipe[d]  b == pipe'[d]
  <2>1. c \in Pipes /\ b = [c EXCEPT !.held = h]
    BY <1>1 DEF PipeOK
  <2> HIDE DEF c, b
  <2>2. /\ b.buf = c.buf /\ b.held = h /\ b.tx = c.tx /\ b.rx = c.rx
        /\ b.err = c.err /\ b \in Pipes
    BY <2>1 DEF Pipes
  <2> QED BY <2>2 DEF c, b
<1>3. pipe' \in [{"c2s", "s2c"} -> Pipes]
  BY <1>1, <1>2 DEF PipeOK
<1>4. \A e \in {"c2s", "s2c"} : Len(pipe'[e].buf) + pipe'[e].held <= Cap
  BY <1>1, <1>2 DEF PipeOK
<1>5. \A e \in {"c2s", "s2c"} : SameState(e) /\ pipe'[e].buf = pipe[e].buf
  BY <1>1, <1>2 DEF SameState
<1> QED BY <1>1, <1>2, <1>3, <1>4, <1>5 DEF PipeOK, Same

LEMMA Reserving ==
  ASSUME PipeOK, NEW d \in {"c2s", "s2c"}, PollReserve(pipe[d]) = "ready",
         pipe' = Reserved(d)
  PROVE  /\ PipeOK'
         /\ \A e \in {"c2s", "s2c"} : SameState(e) /\ pipe'[e].buf = pipe[e].buf
         /\ pipe'[d].held = pipe[d].held + 1
         /\ \A e \in {"c2s", "s2c"} \ {d} : Same(e)
<1>1. Len(pipe[d].buf) + pipe[d].held < Cap
  BY DEF PollReserve, WhyOver
<1>2. pipe[d].held \in Nat /\ Len(pipe[d].buf) \in Nat
  BY DEF PipeOK, Pipes
<1>3. pipe[d].held + 1 \in 0 .. Cap /\ Len(pipe[d].buf) + (pipe[d].held + 1) <= Cap
  BY <1>1, <1>2, BiDiAssumption
<1> QED BY <1>3, PermitsChange DEF Reserved

LEMMA Releasing ==
  ASSUME PipeOK, NEW d \in {"c2s", "s2c"}, pipe[d].held > 0,
         pipe' = [pipe EXCEPT ![d].held = @ - 1]
  PROVE  /\ PipeOK'
         /\ \A e \in {"c2s", "s2c"} : SameState(e) /\ pipe'[e].buf = pipe[e].buf
         /\ pipe'[d].held = pipe[d].held - 1
         /\ \A e \in {"c2s", "s2c"} \ {d} : Same(e)
<1>1. /\ pipe[d].held \in 0 .. Cap /\ Len(pipe[d].buf) \in Nat
      /\ Len(pipe[d].buf) + pipe[d].held <= Cap
  BY DEF PipeOK, Pipes
<1>2. pipe[d].held - 1 \in 0 .. Cap /\ Len(pipe[d].buf) + (pipe[d].held - 1) <= Cap
  <2> DEFINE h == pipe[d].held  n == Len(pipe[d].buf)
  <2>1. h \in 0 .. Cap /\ n \in Nat /\ n + h <= Cap /\ h > 0 /\ Cap \in Nat
    BY <1>1, BiDiAssumption
  <2> HIDE DEF h, n
  <2>2. h - 1 \in 0 .. Cap /\ n + (h - 1) <= Cap
    BY <2>1
  <2> QED BY <2>2 DEF h, n
<1>3. pipe' = [pipe EXCEPT ![d].held = pipe[d].held - 1]
  BY DEF PipeOK
<1> QED BY <1>2, <1>3, PermitsChange

LEMMA Sending ==
  ASSUME PipeOK, NEW d \in {"c2s", "s2c"}, NEW m \in Message, pipe[d].held > 0,
         pipe' = Sent(d, m)
  PROVE  /\ PipeOK'
         /\ \A e \in {"c2s", "s2c"} : SameState(e)
         /\ \A e \in {"c2s", "s2c"} \ {d} : Same(e)
         /\ \/ Same(d)
            \/ /\ pipe[d].rx /\ pipe[d].err # "errored"
               /\ pipe'[d].buf = Append(pipe[d].buf, m)
               /\ pipe'[d].held = pipe[d].held - 1
<1>1. CASE ~(pipe[d].rx /\ pipe[d].err # "errored")
  BY <1>1 DEF PipeOK, Sent, Same, SameState
<1>2. CASE pipe[d].rx /\ pipe[d].err # "errored"
  <2>1. pipe' = [pipe EXCEPT ![d].buf = Append(@, m), ![d].held = @ - 1]
    BY <1>2 DEF Sent
  <2>2. Append(pipe[d].buf, m) \in Seq(Message)
        /\ Len(Append(pipe[d].buf, m)) = Len(pipe[d].buf) + 1
    BY DEF PipeOK, Pipes
  <2>3. pipe[d].held - 1 \in 0 .. Cap
    BY BiDiAssumption DEF PipeOK, Pipes
  <2>4. /\ \A e \in {"c2s", "s2c"} \ {d} : pipe'[e] = pipe[e]
        /\ pipe'[d] = [pipe[d] EXCEPT !.buf = Append(pipe[d].buf, m),
                               !.held = pipe[d].held - 1]
        /\ pipe' = [e \in {"c2s", "s2c"} |-> pipe'[e]]
    BY <2>1 DEF PipeOK
  <2>5. /\ pipe'[d].buf = Append(pipe[d].buf, m) /\ pipe'[d].held = pipe[d].held - 1
        /\ pipe'[d].tx = pipe[d].tx /\ pipe'[d].rx = pipe[d].rx
        /\ pipe'[d].err = pipe[d].err /\ pipe'[d] \in Pipes
    <3> DEFINE c == pipe[d]  b == pipe'[d]
           h == pipe[d].held - 1  s == Append(pipe[d].buf, m)
    <3>1. c \in Pipes /\ s \in Seq(Message) /\ h \in 0 .. Cap
      BY <2>2, <2>3 DEF PipeOK
    <3>2. b = [c EXCEPT !.buf = s, !.held = h]
      BY <2>4
    <3> HIDE DEF c, b, h, s
    <3>3. b.buf = s /\ b.held = h /\ b.tx = c.tx /\ b.rx = c.rx /\ b.err = c.err
      BY <3>2
    <3>4. b \in Pipes
      BY <3>1, <3>2 DEF Pipes
    <3> QED BY <3>3, <3>4 DEF c, b, h, s
  <2>6. \A e \in {"c2s", "s2c"} : pipe[e].held \in Nat /\ Len(pipe[e].buf) \in Nat
    BY DEF PipeOK, Pipes
  <2>7. PipeOK'
    <3>1. pipe' \in [{"c2s", "s2c"} -> Pipes]
      BY <2>4, <2>5 DEF PipeOK
    <3>2. Len(pipe'[d].buf) + pipe'[d].held <= Cap
      BY <2>5, <2>6, BiDiAssumption DEF PipeOK
    <3> QED BY <2>4, <3>1, <3>2 DEF PipeOK
  <2> QED BY <1>2, <2>4, <2>5, <2>7 DEF Same, SameState
<1> QED BY <1>1, <1>2

LEMMA Receiving ==
  ASSUME PipeOK, NEW d \in {"c2s", "s2c"}, pipe[d].buf # <<>>,
         pipe' = Received(d)
  PROVE  /\ PipeOK'
         /\ \A e \in {"c2s", "s2c"} : SameState(e) /\ pipe'[e].held = pipe[e].held
         /\ \A e \in {"c2s", "s2c"} \ {d} : Same(e)
         /\ pipe'[d].buf = Tail(pipe[d].buf)
<1>1. Tail(pipe[d].buf) \in Seq(Message)
      /\ Len(Tail(pipe[d].buf)) < Len(pipe[d].buf)
  BY DEF PipeOK, Pipes
<1>2. Len(Tail(pipe[d].buf)) \in Nat /\ Len(pipe[d].buf) \in Nat
  OBVIOUS
<1>3. /\ \A e \in {"c2s", "s2c"} \ {d} : pipe'[e] = pipe[e]
      /\ pipe'[d] = [pipe[d] EXCEPT !.buf = Tail(pipe[d].buf), !.held = pipe[d].held]
      /\ pipe' = [e \in {"c2s", "s2c"} |-> pipe'[e]]
  BY DEF Received, PipeOK
<1>4. /\ pipe'[d].buf = Tail(pipe[d].buf) /\ pipe'[d].held = pipe[d].held
      /\ pipe'[d].tx = pipe[d].tx /\ pipe'[d].rx = pipe[d].rx
      /\ pipe'[d].err = pipe[d].err /\ pipe'[d] \in Pipes
  <2>1. pipe[d] \in Pipes /\ pipe[d].held \in 0 .. Cap
    BY DEF PipeOK, Pipes
  <2> DEFINE c == pipe[d]  b == pipe'[d]  h == pipe[d].held  s == Tail(pipe[d].buf)
  <2>2. c \in Pipes /\ s \in Seq(Message) /\ h \in 0 .. Cap
    BY <1>1, <2>1
  <2>3. b = [c EXCEPT !.buf = s, !.held = h]
    BY <1>3
  <2> HIDE DEF c, b, h, s
  <2>4. b.buf = s /\ b.held = h /\ b.tx = c.tx /\ b.rx = c.rx /\ b.err = c.err
    BY <2>3
  <2>5. b \in Pipes
    BY <2>2, <2>3 DEF Pipes
  <2> QED BY <2>4, <2>5 DEF c, b, h, s
<1>5. \A e \in {"c2s", "s2c"} : pipe[e].held \in Nat /\ Len(pipe[e].buf) \in Nat
  BY DEF PipeOK, Pipes
<1>6. PipeOK'
  <2>1. pipe' \in [{"c2s", "s2c"} -> Pipes]
    BY <1>3, <1>4 DEF PipeOK
  <2>2. Len(pipe'[d].buf) + pipe'[d].held <= Cap
    BY <1>4, <1>5, BiDiAssumption DEF PipeOK
  <2> QED BY <1>3, <2>1, <2>2 DEF PipeOK
<1> QED BY <1>3, <1>4, <1>6 DEF Same, SameState

\* A step of close_with_error: what is in the channels stays as it is, and an
\* error that is set stays.
LEMMA Closing ==
  ASSUME PipeOK, at \in [Tasks -> Labels], NEW p \in Tasks, NEW done,
         close_with_error(p, done)
  PROVE  /\ PipeOK'
         /\ \A e \in {"c2s", "s2c"} :
              /\ pipe'[e].buf = pipe[e].buf /\ pipe'[e].held = pipe[e].held
              /\ pipe'[e].tx = pipe[e].tx /\ pipe'[e].rx = pipe[e].rx
              /\ pipe[e].err = "errored" => pipe'[e].err = "errored"
              /\ pipe[e].err # "none" => pipe'[e].err # "none"
         /\ at[p] \in CloseLabels
         /\ at' \in {[at EXCEPT ![p] = l] :
                     l \in {"finish_tx", "close_rx", "finish_rx", done}}
<1>1. CASE at[p] = "close_tx" /\ CloseHalf(p, TxOf(p), "finish_tx", "close_rx")
  BY <1>1 DEF CloseHalf, PipeOK, Pipes, TxOf, Goto, CloseLabels
<1>2. CASE at[p] = "finish_tx" /\ FinishHalf(p, TxOf(p), "close_rx")
  BY <1>2 DEF FinishHalf, PipeOK, Pipes, Goto, CloseLabels
<1>3. CASE at[p] = "close_rx" /\ CloseHalf(p, RxOf(p), "finish_rx", done)
  BY <1>3 DEF CloseHalf, PipeOK, Pipes, RxOf, Goto, CloseLabels
<1>4. CASE at[p] = "finish_rx" /\ FinishHalf(p, RxOf(p), done)
  BY <1>4 DEF FinishHalf, PipeOK, Pipes, Goto, CloseLabels
<1> QED BY <1>1, <1>2, <1>3, <1>4 DEF close_with_error

LEMMA Dropping ==
  ASSUME PipeOK, NEW p, NEW t \in {"c2s", "s2c"}, NEW x \in {"c2s", "s2c"}, t # x,
         t = TxOf(p), x = RxOf(p), DropEnd(p)
  PROVE  /\ PipeOK'
         /\ \A e \in {"c2s", "s2c"} :
              /\ pipe'[e].buf = pipe[e].buf /\ pipe'[e].held = pipe[e].held
              /\ pipe'[e].err = pipe[e].err
         /\ \/ /\ at[p] = "drop_tx" /\ at' = [at EXCEPT ![p] = "drop_rx"]
               /\ pipe'[t].tx = FALSE /\ pipe'[t].rx = pipe[t].rx /\ Same(x)
            \/ /\ at[p] = "drop_rx" /\ at' = [at EXCEPT ![p] = "dropped"]
               /\ pipe'[x].rx = FALSE /\ pipe'[x].tx = pipe[x].tx /\ Same(t)
<1>1. CASE /\ at[p] = "drop_tx" /\ pipe' = [pipe EXCEPT ![TxOf(p)].tx = FALSE]
           /\ Goto(p, "drop_rx")
  BY <1>1 DEF PipeOK, Pipes, Goto, Same
<1>2. CASE /\ at[p] = "drop_rx" /\ pipe' = [pipe EXCEPT ![RxOf(p)].rx = FALSE]
           /\ Goto(p, "dropped")
  BY <1>2 DEF PipeOK, Pipes, Goto, Same
<1> QED BY <1>1, <1>2 DEF DropEnd

----------------------------------------------------------------------------
(***************************************************************************)
(* The permits of the requests.                                            *)
(***************************************************************************)
LEMMA PermitIsTaken ==
  ASSUME PermitInv, NEW r \in Requests \ Holders
  PROVE  /\ IsFiniteSet(Holders \cup {r})
         /\ Cardinality(Holders \cup {r}) = Cardinality(Holders) + 1
BY FS_AddElement DEF PermitInv

LEMMA PermitIsLeft ==
  ASSUME PipeOK, PermitInv, NEW r \in Holders
  PROVE  /\ pipe["c2s"].held > 0
         /\ IsFiniteSet(Holders \ {r})
         /\ Cardinality(Holders \ {r}) <= pipe["c2s"].held - 1
<1>1. /\ IsFiniteSet(Holders \ {r})
      /\ Cardinality(Holders \ {r}) = Cardinality(Holders) - 1
  BY FS_RemoveElement DEF PermitInv
<1>2. Cardinality(Holders \ {r}) \in Nat /\ Cardinality(Holders) \in Nat
  BY <1>1, FS_CardinalityType DEF PermitInv
<1>3. pipe["c2s"].held \in Nat
  BY DEF PipeOK, Pipes
<1> QED BY <1>1, <1>2, <1>3 DEF PermitInv

LEMMA PipeIsOK == IInv => PipeOK /\ PermitInv
BY DEF IInv, TypeOK, PipeOK

----------------------------------------------------------------------------
(***************************************************************************)
(* The steps of a request.                                                 *)
(***************************************************************************)
LEMMA RetryInv ==
  ASSUME NEW r \in Requests, IInv, Retry(r)
  PROVE  IInv'
<1>1. Holders' = Holders
  BY DEF Retry, Goto, Holders
<1>2. Requested' = Requested /\ Answered' = Answered /\ todo' = todo
  BY DEF Retry, Requested, Answered
<1>3. Held' = Held
  BY DEF Retry, Goto, dispVars, Held
<1>4. TypeOK'
  BY DEF Retry, IInv, TypeOK, Goto, bidiVars, mapVars, dispVars, Labels
<1>5. PermitInv'
  BY <1>1 DEF Retry, IInv, Goto, PermitInv
<1>6. PlaceInv' /\ ErrorInv' /\ DispatcherInv' /\ GoneInv' /\ WaitInv'
  BY BiDiAssumption, ReqRspAssumption
     DEF Retry, Alive, IInv, Goto, bidiVars, mapVars, dispVars, PlaceInv,
         ReqLabels, ErrorInv, Finishing, DispatcherInv, GoneInv, WaitInv
<1>7. OnceInv' /\ MatchInv'
  BY <1>2, <1>3
     DEF Retry, IInv, Goto, mapVars, OnceInv, UnderWay, SentLabels, MatchInv,
         Expected, Mistaken
<1>8. WaiterInv' /\ OwnResponse'
  BY DEF Retry, IInv, Goto, mapVars, WaiterInv, Mistaken, OwnResponse
<1> QED BY <1>4, <1>5, <1>6, <1>7, <1>8 DEF IInv

\* A permit is counted as it is taken.
LEMMA ReserveReady ==
  ASSUME NEW r \in Requests, IInv, at[r] = "reserve",
         PollReserve(pipe["c2s"]) = "ready",
         pipe' = Reserved("c2s"), Goto(r, "fetch"),
         UNCHANGED <<bidiVars, todo, mapVars, dispVars>>
  PROVE  IInv'
<1>1. /\ PipeOK'
      /\ \A e \in {"c2s", "s2c"} : SameState(e) /\ pipe'[e].buf = pipe[e].buf
      /\ pipe'["c2s"].held = pipe["c2s"].held + 1 /\ Same("s2c")
  BY Reserving DEF IInv, TypeOK, PipeOK
<1>2. r \notin Holders
  BY DEF Holders
<1>3. /\ IsFiniteSet(Holders \cup {r})
      /\ Cardinality(Holders \cup {r}) = Cardinality(Holders) + 1
  BY <1>2, PermitIsTaken DEF IInv
<1>4. pipe["c2s"].held \in Nat /\ Cardinality(Holders) \in Nat
  BY FS_CardinalityType DEF IInv, PermitInv, TypeOK, Pipes
<1>5. Holders' = Holders \cup {r}
  BY ReqRspAssumption DEF IInv, TypeOK, Tasks, Goto, Holders
<1>6. Requested' = Requested /\ Answered' = Answered /\ todo' = todo
  BY <1>1 DEF Requested, Answered
<1>7. Held' = Held
  BY DEF Goto, dispVars, Held
<1>8. TypeOK'
  BY <1>1 DEF IInv, TypeOK, Goto, bidiVars, mapVars, dispVars, PipeOK, Labels
<1>9. PermitInv'
  BY <1>1, <1>3, <1>4, <1>5 DEF Same, IInv, Goto, PermitInv
<1>10. PlaceInv' /\ ErrorInv' /\ DispatcherInv' /\ GoneInv' /\ WaitInv'
  BY BiDiAssumption, ReqRspAssumption, <1>1
     DEF Same, SameState, IInv, Goto, bidiVars, mapVars, dispVars, PlaceInv,
         ReqLabels, OwnerLabels, SvcLabels, WaitErrors, ErrorInv, Finishing,
         TxOf, DispatcherInv, GoneInv, ClientGone, Over, WaitInv, RecvOver
<1>11. OnceInv' /\ MatchInv'
  BY <1>1, <1>6, <1>7
     DEF IInv, Goto, mapVars, OnceInv, UnderWay, SentLabels, MatchInv, Expected,
         Mistaken
<1>12. WaiterInv' /\ OwnResponse'
  BY DEF IInv, Goto, mapVars, WaiterInv, Mistaken, OwnResponse
<1> QED BY <1>8, <1>9, <1>10, <1>11, <1>12 DEF IInv

LEMMA ReserveFails ==
  ASSUME NEW r \in Requests, IInv, at[r] = "reserve", Goto(r, "reset"),
         UNCHANGED <<pipe, bidiVars, todo, mapVars, dispVars>>
  PROVE  IInv'
<1>1. Holders' = Holders
  BY DEF Goto, Holders
<1>2. Requested' = Requested /\ Answered' = Answered /\ todo' = todo
  BY DEF Requested, Answered
<1>3. Held' = Held
  BY DEF Goto, dispVars, Held
<1>4. TypeOK'
  BY DEF IInv, TypeOK, Goto, bidiVars, mapVars, dispVars, Labels
<1>5. PermitInv'
  BY <1>1 DEF IInv, Goto, PermitInv
<1>6. PlaceInv' /\ ErrorInv' /\ DispatcherInv' /\ GoneInv' /\ WaitInv'
  BY BiDiAssumption, ReqRspAssumption
     DEF IInv, Goto, bidiVars, mapVars, dispVars, PlaceInv, ReqLabels, ErrorInv,
         Finishing, DispatcherInv, GoneInv, ClientGone, Over, WaitInv
<1>7. OnceInv' /\ MatchInv'
  BY <1>2, <1>3
     DEF IInv, Goto, mapVars, OnceInv, UnderWay, SentLabels, MatchInv, Expected,
         Mistaken
<1>8. WaiterInv' /\ OwnResponse'
  BY DEF IInv, Goto, mapVars, WaiterInv, Mistaken, OwnResponse
<1> QED BY <1>4, <1>5, <1>6, <1>7, <1>8 DEF IInv

LEMMA ReserveInv ==
  ASSUME NEW r \in Requests, IInv, Reserve(r)
  PROVE  IInv'
BY ReserveReady, ReserveFails DEF Reserve

LEMMA FetchSeqInv ==
  ASSUME NEW r \in Requests, IInv, FetchSeq(r)
  PROVE  IInv'
<1>1. Holders' = Holders
  BY DEF FetchSeq, Goto, Holders
<1>2. Requested' = Requested /\ Answered' = Answered /\ todo' = todo
  BY DEF FetchSeq, Requested, Answered
<1>3. Held' = Held
  BY DEF FetchSeq, Goto, dispVars, Held
<1>4. TypeOK'
  BY ReqRspAssumption
     DEF FetchSeq, IInv, TypeOK, Tasks, Goto, bidiVars, dispVars, Labels
<1>5. PermitInv'
  BY <1>1 DEF FetchSeq, IInv, Goto, PermitInv
<1>6. PlaceInv' /\ ErrorInv' /\ DispatcherInv' /\ GoneInv' /\ WaitInv'
  BY BiDiAssumption, ReqRspAssumption
     DEF FetchSeq, IInv, Goto, bidiVars, dispVars, PlaceInv, CloseLabels,
         ReqLabels, DispLabels, WaitErrors, ErrorInv, Finishing, TxOf, RxOf,
         DispatcherInv, GoneInv, ClientGone, Over, WaitInv
<1>7. OnceInv' /\ MatchInv'
  BY <1>2, <1>3
     DEF FetchSeq, IInv, Goto, OnceInv, UnderWay, SentLabels, MatchInv,
         Expected, Mistaken, WaiterInv
<1>8. WaiterInv' /\ OwnResponse'
  BY DEF FetchSeq, IInv, Tasks, Goto, WaiterInv, Mistaken, OwnResponse
<1> QED BY <1>4, <1>5, <1>6, <1>7, <1>8 DEF IInv

\* A waiter is added under a number that no other waiter has.
LEMMA EnqueueInv ==
  ASSUME NEW r \in Requests, IInv, Enqueue(r)
  PROVE  IInv'
<1>1. Holders' = Holders
  BY DEF Enqueue, Goto, Holders
<1>2. Requested' = Requested /\ Answered' = Answered /\ todo' = todo
  BY DEF Enqueue, Requested, Answered
<1>3. Held' = Held
  BY DEF Enqueue, Goto, dispVars, Held
<1>4. TypeOK'
  BY DEF Enqueue, IInv, TypeOK, Goto, bidiVars, dispVars, Labels
<1>5. PermitInv'
  BY <1>1 DEF Enqueue, IInv, Goto, PermitInv
<1>6. PlaceInv' /\ ErrorInv' /\ DispatcherInv' /\ GoneInv' /\ WaitInv'
  BY BiDiAssumption, ReqRspAssumption
     DEF Enqueue, IInv, Goto, bidiVars, dispVars, PlaceInv, ReqLabels,
         DispLabels, OwnerLabels, SvcLabels, WaitErrors, ErrorInv, Finishing,
         RxOf, DispatcherInv, GoneInv, ClientGone, Over, WaitInv, SendOver
<1>7. OnceInv' /\ MatchInv'
  BY <1>2, <1>3
     DEF Enqueue, IInv, Goto, OnceInv, UnderWay, SentLabels, MatchInv, Expected,
         Mistaken
<1>8. WaiterInv' /\ OwnResponse'
  BY ReqRspAssumption
     DEF Enqueue, InUse, IInv, TypeOK, Tasks, Goto, WaiterInv, Mistaken,
         OwnResponse
<1> QED BY <1>4, <1>5, <1>6, <1>7, <1>8 DEF IInv

\* The request has no message under way before it sends one, which carries its
\* number; a send on a channel that is over changes nothing.
LEMMA SendInv ==
  ASSUME NEW r \in Requests, IInv, Send(r)
  PROVE  IInv'
<1>1. r \in Holders
  BY DEF Holders, Send
<1>2. /\ pipe["c2s"].held > 0 /\ IsFiniteSet(Holders \ {r})
      /\ Cardinality(Holders \ {r}) <= pipe["c2s"].held - 1
  BY <1>1, PermitIsLeft, PipeIsOK
<1>3. [seq |-> mine[r], req |-> r] \in Message
  BY DEF IInv, TypeOK, Message
<1>4. /\ PipeOK' /\ SameState("c2s") /\ Same("s2c")
      /\ \/ Same("c2s")
         \/ /\ pipe["c2s"].err # "errored"
            /\ pipe'["c2s"].buf =
                 Append(pipe["c2s"].buf, [seq |-> mine[r], req |-> r])
            /\ pipe'["c2s"].held = pipe["c2s"].held - 1
  BY <1>2, <1>3, Sending DEF IInv, TypeOK, PipeOK, Send
<1>5. \/ pipe'["c2s"].buf = pipe["c2s"].buf /\ Requested' = Requested
      \/ /\ Requested' = Requested \cup {[seq |-> mine[r], req |-> r]}
         /\ (\A n \in Requested : n.req # r) => Distinct(pipe'["c2s"].buf)
  <2> DEFINE m == [seq |-> mine[r], req |-> r]  s == pipe["c2s"].buf  t == pipe'["c2s"].buf
  <2>1. m \in Message /\ m.req = r /\ s \in Seq(Message) /\ Distinct(s)
    BY <1>3 DEF IInv, TypeOK, Pipes, OnceInv
  <2>2. t = s \/ t = Append(s, m)
    BY <1>4 DEF Same
  <2>3. Requested = Carried(s) /\ Requested' = Carried(t)
    BY DEF Requested
  <2> HIDE DEF m, s, t
  <2>4. \/ t = s /\ Requested' = Requested
        \/ /\ Requested' = Requested \cup {m}
           /\ (\A n \in Requested : n.req # r) => Distinct(t)
    BY <2>1, <2>2, <2>3, CarriedByAppend
  <2> QED BY <2>4 DEF m, s, t
<1>6. Answered' = Answered /\ todo' = todo
  BY <1>4 DEF Send, Answered, Same
<1>7. \A n \in UnderWay : n.req # r
  BY DEF IInv, OnceInv, SentLabels, Send
<1>8. pipe["c2s"].held \in Nat /\ Cardinality(Holders \ {r}) \in Nat
  BY <1>2, FS_CardinalityType DEF IInv, TypeOK, Pipes
<1>9. at' = [at EXCEPT ![r] = "await"] /\ msg' = msg /\ at[r] = "send"
  BY DEF Send, Goto, dispVars
<1>10. Holders' = Holders \ {r}
  BY ReqRspAssumption, <1>9 DEF IInv, TypeOK, Tasks, Holders
<1>11. Held' = Held
  BY <1>9 DEF Held
<1>12. TypeOK'
  BY <1>4, <1>9
     DEF Send, IInv, TypeOK, bidiVars, mapVars, dispVars, PipeOK, Labels,
         WaitErrors
<1>13. PermitInv'
  BY <1>4, <1>2, <1>8, <1>9, <1>10 DEF IInv, PermitInv, Same
<1>14. PlaceInv' /\ ErrorInv'
  BY BiDiAssumption, ReqRspAssumption, <1>4, <1>9
     DEF Send, Same, SameState, IInv, mapVars, PlaceInv, ReqLabels, DispLabels,
         ErrorInv, Finishing
<1>15. DispatcherInv'
  BY ReqRspAssumption, <1>9 DEF Send, IInv, mapVars, dispVars, DispatcherInv
<1>16. GoneInv'
  BY <1>4, <1>9 DEF Same, SameState, IInv, GoneInv, ClientGone, Over
<1>17. WaitInv'
  <2>1. at'[Svc] = at[Svc]
        /\ seen_tx_error' = seen_tx_error /\ seen_rx_error' = seen_rx_error
    BY BiDiAssumption, ReqRspAssumption DEF Send, Goto, bidiVars
  <2>2. pipe["c2s"].tx
    BY DEF Send, IInv, GoneInv, ClientGone, Over
  <2>3. RecvOver(pipe["c2s"]) => Same("c2s")
    BY <1>4, <2>2 DEF RecvOver
  <2> QED BY <1>4, <2>1, <2>3 DEF IInv, WaitInv, Same
<1>18. OnceInv'
  BY ReqRspAssumption, <1>3, <1>4, <1>5, <1>6, <1>7, <1>9, <1>11
     DEF IInv, TypeOK, Tasks, OnceInv, UnderWay, SentLabels, Same
<1>19. MatchInv'
  BY <1>5, <1>6, <1>9, <1>11
     DEF Send, IInv, mapVars, MatchInv, Expected, Mistaken, UnderWay, WaiterInv
<1>20. WaiterInv' /\ OwnResponse'
  BY <1>9 DEF Send, IInv, mapVars, WaiterInv, Mistaken, OwnResponse
<1> QED BY <1>12, <1>13, <1>14, <1>15, <1>16, <1>17, <1>18, <1>19, <1>20
           DEF IInv

LEMMA AwaitInv ==
  ASSUME NEW r \in Requests, IInv, Await(r)
  PROVE  IInv'
<1>1. Holders' = Holders
  BY DEF Await, Goto, Holders
<1>2. Requested' = Requested /\ Answered' = Answered /\ todo' = todo
  BY DEF Await, Requested, Answered
<1>3. Held' = Held
  BY DEF Await, Goto, dispVars, Held
<1>4. TypeOK'
  BY ReqRspAssumption
     DEF Await, IInv, TypeOK, Tasks, Goto, bidiVars, dispVars, Labels
<1>5. PermitInv'
  BY <1>1 DEF Await, IInv, Goto, PermitInv
<1>6. PlaceInv' /\ ErrorInv' /\ DispatcherInv' /\ GoneInv' /\ WaitInv'
  BY BiDiAssumption, ReqRspAssumption
     DEF Await, IInv, Goto, bidiVars, dispVars, PlaceInv, ReqLabels,
         OwnerLabels, ErrorInv, Finishing, TxOf, RxOf, DispatcherInv, GoneInv,
         ClientGone, Over, WaitInv, SendOver, RecvOver
<1>7. OnceInv' /\ MatchInv'
  BY <1>2, <1>3
     DEF Await, IInv, Goto, OnceInv, UnderWay, SentLabels, MatchInv, Expected,
         Mistaken
<1>8. WaiterInv' /\ OwnResponse'
  BY DEF Await, IInv, Goto, WaiterInv, Mistaken, OwnResponse
<1> QED BY <1>4, <1>5, <1>6, <1>7, <1>8 DEF IInv

LEMMA WhySent ==
  ASSUME NEW r \in Requests, IInv, at[r] = "why",
         NEW l \in {"reset", "panic"}, Goto(r, l),
         UNCHANGED <<pipe, bidiVars, todo, mapVars, dispVars>>
  PROVE  IInv'
<1>1. Holders' = Holders
  BY DEF Goto, Holders
<1>2. Requested' = Requested /\ Answered' = Answered /\ todo' = todo
  BY DEF Requested, Answered
<1>3. Held' = Held
  BY DEF Goto, dispVars, Held
<1>4. TypeOK'
  BY DEF IInv, TypeOK, Goto, bidiVars, mapVars, dispVars, Labels
<1>5. PermitInv'
  BY <1>1 DEF IInv, Goto, PermitInv
<1>6. PlaceInv' /\ ErrorInv' /\ DispatcherInv' /\ GoneInv' /\ WaitInv'
  BY BiDiAssumption, ReqRspAssumption
     DEF IInv, Goto, bidiVars, mapVars, dispVars, PlaceInv, ReqLabels, ErrorInv,
         Finishing, DispatcherInv, GoneInv, ClientGone, Over, WaitInv
<1>7. OnceInv' /\ MatchInv'
  BY <1>2, <1>3
     DEF IInv, Goto, mapVars, OnceInv, UnderWay, SentLabels, MatchInv, Expected,
         Mistaken
<1>8. WaiterInv' /\ OwnResponse'
  BY DEF IInv, Goto, mapVars, WaiterInv, Mistaken, OwnResponse
<1> QED BY <1>4, <1>5, <1>6, <1>7, <1>8 DEF IInv

\* The permit of a request that was not sent is given back.
LEMMA WhyUnsent ==
  ASSUME NEW r \in Requests, IInv, at[r] = "why_unsent",
         NEW l \in {"reset", "panic"}, Goto(r, l),
         pipe' = [pipe EXCEPT !["c2s"].held = @ - 1],
         UNCHANGED <<bidiVars, todo, mapVars, dispVars>>
  PROVE  IInv'
<1>1. r \in Holders
  BY DEF Holders
<1>2. /\ pipe["c2s"].held > 0 /\ IsFiniteSet(Holders \ {r})
      /\ Cardinality(Holders \ {r}) <= pipe["c2s"].held - 1
  BY <1>1, PermitIsLeft, PipeIsOK
<1>3. /\ PipeOK'
      /\ \A e \in {"c2s", "s2c"} : SameState(e) /\ pipe'[e].buf = pipe[e].buf
      /\ pipe'["c2s"].held = pipe["c2s"].held - 1 /\ Same("s2c")
  BY <1>2, Releasing DEF IInv, TypeOK, PipeOK
<1>4. Holders' = Holders \ {r}
  BY ReqRspAssumption DEF IInv, TypeOK, Tasks, Goto, Holders
<1>5. Requested' = Requested /\ Answered' = Answered /\ todo' = todo
  BY DEF Requested, Answered
<1>6. Held' = Held
  BY DEF Goto, dispVars, Held
<1>7. TypeOK'
  BY <1>3 DEF IInv, TypeOK, Goto, bidiVars, mapVars, dispVars, PipeOK, Labels
<1>8. PermitInv'
  BY <1>2, <1>3, <1>4 DEF IInv, Goto, PermitInv
<1>9. PlaceInv' /\ ErrorInv' /\ DispatcherInv' /\ GoneInv' /\ WaitInv'
  BY BiDiAssumption, ReqRspAssumption
     DEF IInv, Goto, bidiVars, mapVars, dispVars, PlaceInv, ReqLabels, ErrorInv,
         Finishing, DispatcherInv, GoneInv, ClientGone, Over, WaitInv, RecvOver
<1>10. OnceInv' /\ MatchInv'
  BY <1>5, <1>6
     DEF IInv, Goto, mapVars, OnceInv, UnderWay, SentLabels, MatchInv, Expected,
         Mistaken
<1>11. WaiterInv' /\ OwnResponse'
  BY DEF IInv, Goto, mapVars, WaiterInv, Mistaken, OwnResponse
<1> QED BY <1>7, <1>8, <1>9, <1>10, <1>11 DEF IInv

LEMMA WhyInv ==
  ASSUME NEW r \in Requests, IInv, Why(r)
  PROVE  IInv'
<1>1. PICK l \in {"reset", "panic"} : Goto(r, l)
  BY DEF Why
<1>2. CASE at[r] = "why"
  BY <1>2, WhySent DEF Why
<1>3. CASE at[r] = "why_unsent"
  BY <1>3, WhyUnsent DEF Why
<1> QED BY <1>2, <1>3 DEF Why

\* The waiter leaves the map; what is under way for it is a cancelled request's.
LEMMA CancelInv ==
  ASSUME NEW r \in Requests, IInv, Cancel(r)
  PROVE  IInv'
<1>1. dispatcher' \in [waiters : SUBSET Requests, closed : BOOLEAN]
  BY DEF Cancel, IInv, TypeOK
<1>2. mine' \in [Requests -> 0 .. SeqMod - 1]
  BY ReqRspAssumption DEF Cancel, IInv, TypeOK
<1>3. Holders' = Holders
  BY DEF Cancel, Goto, Holders
<1>4. Requested' = Requested /\ Answered' = Answered /\ todo' = todo
  BY DEF Cancel, Requested, Answered
<1>5. Held' = Held
  BY DEF Cancel, Goto, dispVars, Held
<1>6. TypeOK'
  BY <1>2 DEF Cancel, IInv, TypeOK, Goto, bidiVars, dispVars, Labels
<1>7. PermitInv'
  BY <1>3 DEF Cancel, IInv, Goto, PermitInv
<1>8. PlaceInv' /\ ErrorInv' /\ DispatcherInv' /\ GoneInv' /\ WaitInv'
  BY BiDiAssumption, ReqRspAssumption
     DEF Cancel, IInv, Goto, bidiVars, dispVars, PlaceInv, ReqLabels, ErrorInv,
         Finishing, DispatcherInv, GoneInv, ClientGone, Over, WaitInv
<1>9. OnceInv' /\ MatchInv'
  BY ReqRspAssumption, <1>4, <1>5
     DEF Cancel, IInv, TypeOK, Tasks, Goto, OnceInv, UnderWay, SentLabels,
         MatchInv, Expected, Mistaken
<1>10. WaiterInv' /\ OwnResponse'
  BY DEF Cancel, IInv, Goto, WaiterInv, Mistaken, OwnResponse
<1> QED BY <1>6, <1>7, <1>8, <1>9, <1>10 DEF IInv

----------------------------------------------------------------------------
(***************************************************************************)
(* The steps of the dispatcher.                                            *)
(***************************************************************************)
\* has_dispatcher keeps a second dispatcher from starting.
LEMMA DispatchInv ==
  ASSUME NEW d \in Dispatchers, IInv, Dispatch(d)
  PROVE  IInv'
<1>1. Holders' = Holders
  BY ReqRspAssumption DEF Dispatch, IInv, TypeOK, Tasks, Goto, Holders
<1>2. Requested' = Requested /\ Answered' = Answered /\ todo' = todo
  BY DEF Dispatch, Requested, Answered
<1>3. Held' = Held
  BY ReqRspAssumption DEF Dispatch, IInv, TypeOK, Tasks, Goto, Held
<1>4. TypeOK'
  BY DEF Dispatch, Alive, IInv, TypeOK, Tasks, Goto, bidiVars, mapVars, Labels,
         Message, WaitErrors, PlaceInv, OwnerLabels
<1>5. PermitInv'
  BY <1>1 DEF Dispatch, IInv, TypeOK, Tasks, Goto, PermitInv
<1>6. PlaceInv' /\ ErrorInv' /\ DispatcherInv' /\ GoneInv' /\ WaitInv'
  BY BiDiAssumption, ReqRspAssumption
     DEF Dispatch, Alive, IInv, TypeOK, Tasks, Goto, bidiVars, mapVars,
         PlaceInv, CloseLabels, DispLabels, ErrorInv, Finishing, DispatcherInv,
         GoneInv, ClientGone, WaitInv, RecvOver
<1>7. OnceInv' /\ MatchInv'
  BY BiDiAssumption, ReqRspAssumption, <1>2, <1>3
     DEF Dispatch, Alive, IInv, TypeOK, Tasks, Goto, mapVars, OnceInv, UnderWay,
         PlaceInv, ReqLabels, MatchInv, Expected, Mistaken, WaiterInv
<1>8. WaiterInv'
  <2>1. \A r \in Requests : at'[r] = at[r]
    BY ReqRspAssumption DEF Dispatch, IInv, TypeOK, Tasks, Goto
  <2>2. UNCHANGED <<dispatcher, mine, result>>
    BY DEF Dispatch, mapVars
  <2>3. dispatcher.waiters \subseteq Requests
    BY DEF IInv, TypeOK
  <2> QED BY <2>1, <2>2, <2>3 DEF IInv, WaiterInv, Mistaken
<1>9. OwnResponse'
  BY ReqRspAssumption
     DEF Dispatch, IInv, TypeOK, Tasks, Goto, mapVars, OwnResponse, Mistaken
<1> QED BY <1>4, <1>5, <1>6, <1>7, <1>8, <1>9 DEF IInv

\* A step of the dispatcher that takes no message.
LEMMA DispatcherMoves ==
  ASSUME NEW d \in Dispatchers, IInv,
         NEW l \in {"poll_shutdown", "poll_rx", "returned", "cancelled", "close_tx"},
         at[d] \in {"poll_shutdown", "poll_rx"}, Goto(d, l),
         UNCHANGED <<pipe, bidiVars, todo, mapVars, dispVars>>
  PROVE  IInv'
<1>1. Holders' = Holders
  BY DEF Goto, Holders
<1>2. Requested' = Requested /\ Answered' = Answered /\ todo' = todo
  BY DEF Requested, Answered
<1>3. Held' = Held
  BY DEF Goto, dispVars, Held
<1>4. TypeOK'
  BY DEF IInv, TypeOK, Goto, bidiVars, mapVars, dispVars, Labels
<1>5. PermitInv'
  BY <1>1 DEF IInv, Goto, PermitInv
<1>6. PlaceInv' /\ ErrorInv' /\ DispatcherInv' /\ GoneInv' /\ WaitInv'
  BY ReqRspAssumption
     DEF IInv, Goto, bidiVars, mapVars, dispVars, PlaceInv, CloseLabels,
         DispLabels, SvcLabels, WaitErrors, ErrorInv, Finishing, RxOf,
         DispatcherInv, GoneInv, ClientGone, Over, WaitInv, RecvOver
<1>7. OnceInv' /\ MatchInv'
  BY ReqRspAssumption, <1>2, <1>3
     DEF IInv, Goto, mapVars, OnceInv, UnderWay, MatchInv, Expected, Mistaken
<1>8. WaiterInv' /\ OwnResponse'
  BY DEF IInv, Goto, mapVars, WaiterInv, Mistaken, OwnResponse
<1> QED BY <1>4, <1>5, <1>6, <1>7, <1>8 DEF IInv

LEMMA DispatcherMovesInv ==
  ASSUME NEW d \in Dispatchers, IInv, PollShutdown(d) \/ CancelDispatch(d)
  PROVE  IInv'
BY DispatcherMoves DEF PollShutdown, CancelDispatch

\* The response moves from the channel to the one dispatcher.
LEMMA PollRxReady ==
  ASSUME NEW d \in Dispatchers, IInv, at[d] = "poll_rx", pipe["s2c"].buf # <<>>,
         msg' = [msg EXCEPT ![d] = Head(pipe["s2c"].buf)],
         pipe' = Received("s2c"), Goto(d, "wake"),
         UNCHANGED <<bidiVars, todo, mapVars, has_dispatcher, shutdown>>
  PROVE  IInv'
<1>1. /\ PipeOK' /\ SameState("s2c")
      /\ pipe'["s2c"].held = pipe["s2c"].held /\ Same("c2s")
      /\ pipe'["s2c"].buf = Tail(pipe["s2c"].buf)
  BY Receiving DEF IInv, TypeOK, PipeOK
<1>2. /\ Head(pipe["s2c"].buf) \in Answered
      /\ Head(pipe["s2c"].buf) \in Message
      /\ Answered' = Answered \ {Head(pipe["s2c"].buf)}
      /\ \A n \in Answered' : n.req # Head(pipe["s2c"].buf).req
      /\ Distinct(pipe'["s2c"].buf)
  BY <1>1, CarriedByTail DEF IInv, TypeOK, Pipes, OnceInv, Answered
<1>3. Requested' = Requested /\ todo' = todo
  BY <1>1 DEF Requested, Same
<1>4. \A c \in Dispatchers : at'[c] = "wake" <=> c = d
  BY ReqRspAssumption DEF IInv, TypeOK, Tasks, DispatcherInv, Goto
<1>5. msg'[d] = Head(pipe["s2c"].buf)
  BY DEF IInv, TypeOK
<1>6. Holders' = Holders
  BY DEF Goto, Holders
<1>7. Held' = {Head(pipe["s2c"].buf)}
  BY <1>4, <1>5 DEF Held
<1>8. TypeOK'
  BY <1>1, <1>2 DEF IInv, TypeOK, Goto, bidiVars, mapVars, PipeOK, Labels
<1>9. PermitInv'
  BY <1>1, <1>6 DEF Same, IInv, Goto, PermitInv
<1>10. PlaceInv' /\ ErrorInv' /\ DispatcherInv' /\ GoneInv' /\ WaitInv'
  BY BiDiAssumption, ReqRspAssumption, <1>1
     DEF Same, SameState, IInv, Tasks, Goto, bidiVars, mapVars, PlaceInv,
         DispLabels, WaitErrors, ErrorInv, Finishing, TxOf, DispatcherInv,
         GoneInv, ClientGone, Over, WaitInv, SendOver
<1>11. OnceInv' /\ MatchInv'
  BY ReqRspAssumption, <1>1, <1>2, <1>3, <1>7
     DEF Same, IInv, Goto, mapVars, OnceInv, UnderWay, MatchInv, Expected,
         Mistaken
<1>12. WaiterInv' /\ OwnResponse'
  BY DEF IInv, Goto, mapVars, WaiterInv, Mistaken, OwnResponse
<1> QED BY <1>8, <1>9, <1>10, <1>11, <1>12 DEF IInv

LEMMA PollRxInv ==
  ASSUME NEW d \in Dispatchers, IInv, PollRx(d)
  PROVE  IInv'
<1>1. PollRecv(pipe["s2c"]) = "ready" => pipe["s2c"].buf # <<>>
  BY DEF PollRecv, WhyOver
<1>2. CASE PollRecv(pipe["s2c"]) = "ready"
  BY <1>1, <1>2, PollRxReady DEF PollRx
<1>3. CASE PollRecv(pipe["s2c"]) # "ready"
  BY <1>3, DispatcherMoves DEF PollRx, dispVars
<1> QED BY <1>2, <1>3

\* A response wakes the request it answers, or it has come too late for that
\* one and wakes a request that was given its number again.
LEMMA WakeInv ==
  ASSUME NEW d \in Dispatchers, IInv, Wake(d)
  PROVE  IInv'
<1> DEFINE m == msg[d]
           woken == {r \in dispatcher.waiters : mine[r] = m.seq}
           Rest == Requested \cup todo \cup Answered
<1>1. /\ m \in UnderWay /\ m.req \in Requests
      /\ at[m.req] \in SentLabels /\ Expected(m)
      /\ \A n \in Rest : n.req # m.req
  <2>1. m \in Held
    BY DEF Wake, Held
  <2> QED BY <2>1 DEF IInv, OnceInv, MatchInv, UnderWay
<1>2. /\ pipe' = pipe /\ todo' = todo /\ mine' = mine /\ seq' = seq
      /\ seen_tx_error' = seen_tx_error /\ seen_rx_error' = seen_rx_error
      /\ has_dispatcher' = has_dispatcher /\ shutdown' = shutdown
      /\ Requested' = Requested /\ Answered' = Answered
  BY DEF Wake, bidiVars, Requested, Answered
<1>3. PICK l \in {"panic", "poll_shutdown"} :
        at' = [at EXCEPT ![d] = l] /\ (l = "panic" => dispatcher.closed)
  BY DEF Wake, Goto
<1>4. at[d] = "wake" /\ msg' = [msg EXCEPT ![d] = None] /\ None \in Message
  BY ReqRspAssumption DEF Wake, None, Message
<1>5. Held' = {} /\ UnderWay' = Rest
  <2>1. \A c \in Dispatchers : at'[c] # "wake"
    BY <1>3, <1>4, ReqRspAssumption DEF IInv, TypeOK, Tasks, DispatcherInv
  <2>2. Held' = {}
    BY <2>1 DEF Held
  <2> QED BY <1>2, <2>2 DEF UnderWay
<1>6. at \in [Tasks -> Labels] /\ \A p \in Tasks : p # d => at'[p] = at[p]
  BY <1>3 DEF IInv, TypeOK
<1>7. /\ Requests \subseteq Tasks /\ d \notin Requests /\ d \in Tasks
      /\ Owner \notin Requests /\ Owner \in Tasks /\ Svc \in Tasks /\ d # Owner /\ d # Svc
  BY BiDiAssumption, ReqRspAssumption DEF Tasks
<1>8. /\ dispatcher' \in [waiters : SUBSET Requests, closed : BOOLEAN]
      /\ result' \in [Requests -> Requests \cup {Owner}]
      /\ dispatcher'.closed = dispatcher.closed
      /\ dispatcher.closed => dispatcher' = dispatcher /\ result' = result
      /\ ~dispatcher.closed =>
           /\ dispatcher'.waiters = dispatcher.waiters \ woken
           /\ \A r \in Requests :
                result'[r] = IF r \in woken THEN m.req ELSE result[r]
  BY <1>1 DEF Wake, IInv, TypeOK
<1> HIDE DEF m, woken, Rest
<1>9. /\ dispatcher.waiters \subseteq Requests
      /\ \A r \in dispatcher.waiters : at[r] \in {"send", "await"} /\ result[r] = Owner
  BY DEF IInv, TypeOK, WaiterInv
<1>10. \A r \in woken :
         r \in Requests /\ r \in dispatcher.waiters /\ mine[r] = m.seq
  BY <1>9 DEF woken
<1>11. TypeOK'
  BY <1>2, <1>3, <1>4, <1>8 DEF IInv, TypeOK, Labels
<1>12. PlaceInv'
  BY <1>3, <1>7 DEF IInv, PlaceInv, DispLabels
<1>13. PermitInv'
  <2>1. Holders' = Holders
    BY <1>6, <1>7 DEF Holders
  <2> QED BY <1>2, <1>6, <1>7, <2>1 DEF IInv, PermitInv
<1>14. ErrorInv'
  BY <1>2, <1>3, <1>4, <1>8 DEF IInv, ErrorInv, Finishing
<1>15. DispatcherInv'
  BY <1>2, <1>3, <1>4, <1>7, <1>8 DEF IInv, DispatcherInv
<1>16. OnceInv'
  <2>1. \A n \in Rest : n \in Message /\ n.req \in Requests /\ at'[n.req] \in SentLabels
    BY <1>6, <1>7 DEF IInv, OnceInv, UnderWay, Rest
  <2> QED BY <1>2, <1>5, <2>1 DEF IInv, OnceInv
<1>17. ASSUME NEW r \in Requests, Mistaken(r) PROVE Mistaken(r)'
  BY <1>8, <1>9, <1>10, <1>17 DEF Mistaken
<1>18. ASSUME ~dispatcher.closed, NEW r \in woken PROVE result'[r] = m.req
  BY <1>8, <1>10, <1>18
<1>19. MatchInv'
  <2> SUFFICES ASSUME NEW n \in Rest PROVE Expected(n)'
    BY <1>5 DEF MatchInv
  <2>1. Expected(n) /\ n.req \in Requests /\ n.req # m.req
    BY <1>1 DEF IInv, MatchInv, OnceInv, UnderWay, Rest
  <2>2. CASE dispatcher.closed \/ at[n.req] = "cancelled"
    BY <1>6, <1>7, <1>8, <2>1, <2>2 DEF Expected
  <2>3. CASE Mistaken(n.req)
    BY <1>17, <2>1, <2>3 DEF Expected
  <2>4. CASE /\ ~dispatcher.closed
             /\ n.req \in dispatcher.waiters
             /\ mine[n.req] = n.seq /\ n.req \notin woken
    BY <1>2, <1>8, <2>4 DEF Expected
  <2>5. CASE ~dispatcher.closed /\ n.req \in woken
    <3>1. result'[n.req] = m.req /\ m.req # Owner
      BY <1>1, <1>7, <1>18, <2>5
    <3>2. Mistaken(n.req)'
      BY <2>1, <3>1 DEF Mistaken
    <3> QED BY <3>2 DEF Expected
  <2> QED BY <2>1, <2>2, <2>3, <2>4, <2>5 DEF Expected
<1>20. WaiterInv'
  <2>1. CASE dispatcher.closed
    BY <1>2, <1>6, <1>7, <1>8, <2>1 DEF IInv, WaiterInv
  <2>2. CASE ~dispatcher.closed
    <3>1. \A q \in dispatcher'.waiters :
            q \in dispatcher.waiters /\ at'[q] = at[q] /\ result'[q] = result[q]
      BY <1>6, <1>7, <1>8
    <3>2. ASSUME NEW r \in Requests, at'[r] = "send"
          PROVE  r \in dispatcher'.waiters \/ Mistaken(r)'
      <4>1. at[r] = "send" /\ (r \in dispatcher.waiters \/ Mistaken(r))
        BY <1>6, <1>7, <2>2, <3>2 DEF IInv, WaiterInv
      <4>2. CASE r \in woken
        BY <1>1, <1>7, <1>18, <2>2, <4>1, <4>2 DEF SentLabels, Mistaken
      <4> QED BY <1>8, <1>17, <4>1, <4>2
    <3>3. ASSUME NEW r \in Requests, result'[r] # Owner
          PROVE  at'[r] \in {"send", "await", "answered", "cancelled"}
      BY <1>6, <1>7, <1>8, <1>10, <3>3 DEF IInv, WaiterInv
    <3> QED BY <1>2, <3>1, <3>2, <3>3 DEF IInv, WaiterInv
  <2> QED BY <2>1, <2>2
<1>21. OwnResponse'
  <2> SUFFICES ASSUME NEW r \in Requests, NEW q \in Requests, result'[r] = q, q # r
               PROVE  at'[q] = "cancelled" \/ Mistaken(q)'
    BY <1>8 DEF OwnResponse, Mistaken
  <2>1. at'[q] = at[q]
    BY <1>6, <1>7
  <2>2. CASE dispatcher.closed \/ r \notin woken
    <3>1. result[r] = q /\ Mistaken(r)
      BY <1>7, <1>8, <2>2 DEF Mistaken
    <3>2. at[q] = "cancelled" \/ Mistaken(q)
      BY <3>1 DEF IInv, OwnResponse
    <3> QED BY <1>17, <2>1, <3>2
  <2>3. CASE ~dispatcher.closed /\ r \in woken
    <3>1. q = m.req
      BY <1>18, <2>3
    <3>2. ~(m.req \in dispatcher.waiters /\ mine[m.req] = m.seq)
      BY <1>10, <2>3, <3>1 DEF IInv, WaiterInv
    <3>3. at[q] = "cancelled" \/ Mistaken(q)
      BY <1>1, <2>3, <3>1, <3>2 DEF Expected
    <3> QED BY <1>17, <2>1, <3>3
  <2> QED BY <2>2, <2>3
<1>22. GoneInv'
  BY <1>2, <1>3, <1>4 DEF IInv, GoneInv, ClientGone, Over
<1>23. WaitInv'
  BY <1>2, <1>6, <1>7 DEF IInv, WaitInv
<1> QED BY <1>11, <1>12, <1>13, <1>14, <1>15, <1>16, <1>19, <1>20, <1>21, <1>22,
           <1>23 DEF IInv

----------------------------------------------------------------------------
(***************************************************************************)
(* Shutting down and dropping the client's end.                            *)
(***************************************************************************)
LEMMA ShutdownInv ==
  ASSUME IInv, Shutdown
  PROVE  IInv'
<1>1. Holders' = Holders
  BY DEF Shutdown, Goto, Holders
<1>2. Requested' = Requested /\ Answered' = Answered /\ todo' = todo
  BY DEF Shutdown, Requested, Answered
<1>3. Held' = Held
  BY DEF Shutdown, Goto, Held
<1>4. TypeOK'
  BY DEF Shutdown, IInv, TypeOK, Goto, bidiVars, mapVars, Labels
<1>5. PermitInv'
  BY <1>1 DEF Shutdown, IInv, Goto, PermitInv
<1>6. PlaceInv' /\ ErrorInv' /\ DispatcherInv' /\ GoneInv' /\ WaitInv'
  BY BiDiAssumption, ReqRspAssumption
     DEF Shutdown, IInv, Goto, bidiVars, mapVars, PlaceInv, CloseLabels,
         OwnerLabels, ErrorInv, Finishing, DispatcherInv, GoneInv, WaitInv
<1>7. OnceInv' /\ MatchInv'
  BY ReqRspAssumption, <1>2, <1>3
     DEF Shutdown, IInv, Goto, mapVars, OnceInv, UnderWay, MatchInv, Expected,
         Mistaken
<1>8. WaiterInv' /\ OwnResponse'
  BY DEF Shutdown, IInv, Goto, mapVars, WaiterInv, Mistaken, OwnResponse
<1> QED BY <1>4, <1>5, <1>6, <1>7, <1>8 DEF IInv

\* Whoever finds an error being set leaves it to the task that has begun.
LEMMA CloseChannelInv ==
  ASSUME NEW p \in Dispatchers \cup {Owner}, IInv, CloseChannel(p)
  PROVE  IInv'
<1>1. /\ PipeOK'
      /\ \A e \in {"c2s", "s2c"} :
           /\ pipe'[e].buf = pipe[e].buf /\ pipe'[e].held = pipe[e].held
           /\ pipe'[e].tx = pipe[e].tx /\ pipe'[e].rx = pipe[e].rx
           /\ pipe[e].err = "errored" => pipe'[e].err = "errored"
           /\ pipe[e].err # "none" => pipe'[e].err # "none"
      /\ at[p] \in CloseLabels
  BY ReqRspAssumption, Closing DEF IInv, TypeOK, PipeOK, CloseChannel, Tasks
<1>2. PICK l \in {"finish_tx", "close_rx", "finish_rx", "close_map"} :
        at' = [at EXCEPT ![p] = l]
  BY ReqRspAssumption, Closing DEF IInv, TypeOK, PipeOK, CloseChannel, Tasks
<1>3. UNCHANGED <<bidiVars, todo, mapVars, dispVars>>
  BY DEF CloseChannel, close_with_error
<1>4. at[Owner] \notin {"drop_tx", "drop_rx", "dropped"}
  BY <1>1 DEF IInv, GoneInv, ClientGone, Over, CloseLabels
<1>5. at'[Owner] \notin {"drop_tx", "drop_rx", "dropped"}
  BY <1>2, <1>4
<1>6. Holders' = Holders
  BY ReqRspAssumption, <1>2 DEF Holders
<1>7. Requested' = Requested /\ Answered' = Answered /\ todo' = todo
  BY <1>1, <1>3 DEF Requested, Answered
<1>8. Held' = Held
  BY <1>1, <1>2, <1>3 DEF CloseLabels, dispVars, Held
<1>9. TypeOK'
  BY <1>1, <1>2, <1>3
     DEF IInv, TypeOK, bidiVars, mapVars, dispVars, PipeOK, Labels
<1>10. PermitInv'
  BY <1>1, <1>2, <1>6 DEF IInv, PermitInv
<1>11. PlaceInv' /\ ErrorInv' /\ DispatcherInv' /\ GoneInv' /\ WaitInv'
  BY BiDiAssumption, ReqRspAssumption, <1>1, <1>2, <1>4
     DEF CloseLabels, IInv, TypeOK, Tasks, Goto, bidiVars, mapVars, dispVars,
         PlaceInv, DispLabels, OwnerLabels, WaitErrors, CloseChannel,
         close_with_error, CloseHalf, FinishHalf, TxOf, PipeOK, Pipes, ErrorInv,
         Finishing, DispatcherInv, GoneInv, WaitInv, SendOver, RecvOver
<1>12. OnceInv' /\ MatchInv'
  BY ReqRspAssumption, <1>1, <1>2, <1>3, <1>7, <1>8
     DEF IInv, mapVars, OnceInv, UnderWay, MatchInv, Expected, Mistaken
<1>13. WaiterInv' /\ OwnResponse'
  BY <1>1, <1>2, <1>3
     DEF CloseLabels, IInv, mapVars, WaiterInv, Mistaken, OwnResponse
<1> QED BY <1>9, <1>10, <1>11, <1>12, <1>13 DEF IInv

\* Both ways to this step have closed the channel with an error.
LEMMA CloseMapInv ==
  ASSUME NEW p \in Dispatchers \cup {Owner}, IInv, CloseMap(p)
  PROVE  IInv'
<1>1. Holders' = Holders
  BY DEF CloseMap, Goto, Holders
<1>2. Requested' = Requested /\ Answered' = Answered /\ todo' = todo
  BY DEF CloseMap, Requested, Answered
<1>3. Held' = Held
  BY DEF CloseMap, Goto, dispVars, Held
<1>4. TypeOK'
  BY DEF CloseMap, IInv, TypeOK, Goto, bidiVars, dispVars, Labels
<1>5. PermitInv'
  BY <1>1 DEF CloseMap, IInv, Goto, PermitInv
<1>6. PlaceInv' /\ ErrorInv' /\ DispatcherInv' /\ GoneInv' /\ WaitInv'
  BY BiDiAssumption, ReqRspAssumption
     DEF CloseMap, IInv, TypeOK, Tasks, Goto, bidiVars, dispVars, PlaceInv,
         DispLabels, OwnerLabels, ErrorInv, Finishing, DispatcherInv, GoneInv,
         ClientGone, Over, WaitInv
<1>7. OnceInv' /\ MatchInv'
  BY ReqRspAssumption, <1>2, <1>3
     DEF CloseMap, IInv, Goto, OnceInv, UnderWay, MatchInv, Expected
<1>8. WaiterInv' /\ OwnResponse'
  BY DEF CloseMap, IInv, Goto, WaiterInv, Mistaken, OwnResponse
<1> QED BY <1>4, <1>5, <1>6, <1>7, <1>8 DEF IInv

LEMMA DropClientInv ==
  ASSUME IInv, DropClient
  PROVE  IInv'
<1>1. Holders' = Holders
  BY DEF DropClient, Goto, Holders
<1>2. Requested' = Requested /\ Answered' = Answered /\ todo' = todo
  BY DEF DropClient, Requested, Answered
<1>3. Held' = Held
  BY DEF DropClient, Over, Tasks, Goto, Held
<1>4. TypeOK'
  BY DEF DropClient, IInv, TypeOK, Goto, bidiVars, mapVars, dispVars, Labels
<1>5. PermitInv'
  BY <1>1 DEF DropClient, IInv, Goto, PermitInv
<1>6. PlaceInv' /\ ErrorInv' /\ DispatcherInv' /\ GoneInv' /\ WaitInv'
  BY BiDiAssumption, ReqRspAssumption
     DEF DropClient, Over, IInv, Goto, bidiVars, mapVars, dispVars, PlaceInv,
         CloseLabels, OwnerLabels, ErrorInv, Finishing, DispatcherInv, GoneInv,
         ClientGone, WaitInv
<1>7. OnceInv' /\ MatchInv'
  BY ReqRspAssumption, <1>2, <1>3
     DEF DropClient, IInv, Goto, mapVars, OnceInv, UnderWay, MatchInv, Expected,
         Mistaken
<1>8. WaiterInv' /\ OwnResponse'
  BY DEF DropClient, IInv, Goto, mapVars, WaiterInv, Mistaken, OwnResponse
<1> QED BY <1>4, <1>5, <1>6, <1>7, <1>8 DEF IInv

\* The client's end goes when none of its tasks is in a call.
LEMMA DropOwnerInv ==
  ASSUME IInv, DropEnd(Owner), UNCHANGED <<mapVars, dispVars>>
  PROVE  IInv'
<1>1. TxOf(Owner) = "c2s" /\ RxOf(Owner) = "s2c"
  BY BiDiAssumption, ReqRspAssumption DEF TxOf, RxOf
<1>2. /\ PipeOK'
      /\ \A e \in {"c2s", "s2c"} :
           /\ pipe'[e].buf = pipe[e].buf /\ pipe'[e].held = pipe[e].held
           /\ pipe'[e].err = pipe[e].err
  BY <1>1, PipeIsOK, Dropping
<1>3. \/ /\ at[Owner] = "drop_tx" /\ at' = [at EXCEPT ![Owner] = "drop_rx"]
         /\ pipe'["c2s"].tx = FALSE /\ pipe'["c2s"].rx = pipe["c2s"].rx /\ Same("s2c")
      \/ /\ at[Owner] = "drop_rx" /\ at' = [at EXCEPT ![Owner] = "dropped"]
         /\ pipe'["s2c"].rx = FALSE /\ pipe'["s2c"].tx = pipe["s2c"].tx /\ Same("c2s")
  BY <1>1, PipeIsOK, Dropping
<1>4. UNCHANGED <<bidiVars, todo, mapVars, dispVars>>
  BY DEF DropEnd
<1>5. PICK l \in {"drop_rx", "dropped"} :
        at' = [at EXCEPT ![Owner] = l] /\ at[Owner] \in {"drop_tx", "drop_rx"}
  BY <1>3
<1>6. Holders' = Holders
  BY <1>5 DEF Holders
<1>7. Requested' = Requested /\ Answered' = Answered /\ todo' = todo
  BY <1>2, <1>4 DEF Requested, Answered
<1>8. Held' = Held
  BY <1>5 DEF dispVars, Held
<1>9. TypeOK'
  BY <1>2, <1>3, <1>4
     DEF IInv, TypeOK, bidiVars, mapVars, dispVars, PipeOK, Labels
<1>10. PermitInv'
  BY <1>2, <1>5, <1>6 DEF IInv, PermitInv
<1>11. PlaceInv' /\ ErrorInv' /\ DispatcherInv' /\ GoneInv' /\ WaitInv'
  BY BiDiAssumption, ReqRspAssumption, <1>5, <1>2, <1>3, <1>4
     DEF Same, IInv, TypeOK, Tasks, bidiVars, mapVars, dispVars, PlaceInv,
         CloseLabels, OwnerLabels, ErrorInv, Finishing, DispatcherInv, GoneInv,
         ClientGone, Over, WaitInv, SendOver, RecvOver
<1>12. OnceInv' /\ MatchInv'
  BY ReqRspAssumption, <1>5, <1>2, <1>7, <1>8
     DEF IInv, mapVars, OnceInv, UnderWay, MatchInv, Expected, Mistaken
<1>13. WaiterInv' /\ OwnResponse'
  BY <1>5 DEF IInv, mapVars, WaiterInv, Mistaken, OwnResponse
<1> QED BY <1>9, <1>10, <1>11, <1>12, <1>13 DEF IInv

----------------------------------------------------------------------------
(***************************************************************************)
(* The server's end: what BiDi::wait does and the service's own steps.     *)
(***************************************************************************)
\* A step of the server's task alone.
LEMMA SvcMoves ==
  ASSUME IInv, NEW l \in SvcLabels \ {"SendReady", "finish_tx", "finish_rx"},
         at[Svc] \notin {"finish_tx", "finish_rx"}, Goto(Svc, l),
         bidiVars' \in BOOLEAN \X BOOLEAN, WaitInv',
         UNCHANGED <<pipe, todo, mapVars, dispVars>>
  PROVE  IInv'
<1>1. Holders' = Holders
  BY BiDiAssumption, ReqRspAssumption DEF Goto, Holders
<1>2. Requested' = Requested /\ Answered' = Answered /\ todo' = todo
  BY DEF Requested, Answered
<1>3. Held' = Held
  BY BiDiAssumption, ReqRspAssumption DEF Goto, dispVars, Held
<1>4. TypeOK'
  BY DEF SvcLabels, CloseLabels, IInv, TypeOK, Goto, bidiVars, mapVars,
         dispVars, Labels
<1>5. PermitInv'
  BY <1>1 DEF IInv, Goto, PermitInv
<1>6. WaitInv'
  OBVIOUS
<1>7. PlaceInv' /\ ErrorInv' /\ DispatcherInv' /\ GoneInv'
  BY BiDiAssumption, ReqRspAssumption
     DEF IInv, Goto, mapVars, dispVars, PlaceInv, ErrorInv, Finishing,
         DispatcherInv, GoneInv, ClientGone, Over
<1>8. OnceInv' /\ MatchInv'
  BY BiDiAssumption, ReqRspAssumption, <1>2, <1>3
     DEF IInv, Goto, mapVars, OnceInv, UnderWay, MatchInv, Expected, Mistaken
<1>9. WaiterInv' /\ OwnResponse'
  BY BiDiAssumption, ReqRspAssumption
     DEF IInv, TypeOK, Goto, mapVars, WaiterInv, Mistaken, OwnResponse
<1> QED BY <1>4, <1>5, <1>7, <1>8, <1>9 DEF IInv

\* A request moves from the channel to what the service has to answer.
LEMMA SvcReceives ==
  ASSUME IInv, at[Svc] \in {"recv", "poll_recv", "recv_only"},
         pipe["c2s"].buf # <<>>,
         todo' = todo \cup {Head(pipe["c2s"].buf)},
         pipe' = Received("c2s"), Goto(Svc, "poll_reserve"),
         UNCHANGED <<bidiVars, mapVars, dispVars>>
  PROVE  IInv'
<1>1. /\ PipeOK' /\ SameState("c2s")
      /\ pipe'["c2s"].held = pipe["c2s"].held /\ Same("s2c")
      /\ pipe'["c2s"].buf = Tail(pipe["c2s"].buf)
  BY Receiving DEF IInv, TypeOK, PipeOK
<1>2. /\ Head(pipe["c2s"].buf) \in Requested
      /\ Head(pipe["c2s"].buf) \in Message
      /\ Requested' = Requested \ {Head(pipe["c2s"].buf)}
      /\ \A n \in Requested' : n.req # Head(pipe["c2s"].buf).req
      /\ Distinct(pipe'["c2s"].buf)
  BY <1>1, CarriedByTail DEF IInv, TypeOK, Pipes, OnceInv, Requested
<1>3. Answered' = Answered
  BY <1>1 DEF Answered, Same
<1>4. Holders' = Holders
  BY DEF Goto, Holders
<1>5. Held' = Held
  BY DEF Goto, dispVars, Held
<1>6. TypeOK'
  BY <1>1, <1>2
     DEF IInv, TypeOK, Goto, bidiVars, mapVars, dispVars, PipeOK, Labels
<1>7. PermitInv'
  BY <1>1, <1>4 DEF IInv, Goto, PermitInv
<1>8. PlaceInv' /\ ErrorInv' /\ DispatcherInv' /\ GoneInv' /\ WaitInv'
  BY BiDiAssumption, ReqRspAssumption, <1>1
     DEF Same, SameState, IInv, TypeOK, Tasks, Goto, mapVars, dispVars,
         PlaceInv, SvcLabels, ErrorInv, Finishing, DispatcherInv, GoneInv,
         ClientGone, Over, WaitInv
<1>9. OnceInv' /\ MatchInv'
  BY BiDiAssumption, ReqRspAssumption, <1>1, <1>2, <1>3, <1>5
     DEF Same, IInv, Goto, mapVars, OnceInv, UnderWay, MatchInv, Expected,
         Mistaken
<1>10. WaiterInv' /\ OwnResponse'
  BY DEF IInv, Goto, mapVars, WaiterInv, Mistaken, OwnResponse
<1> QED BY <1>6, <1>7, <1>8, <1>9, <1>10 DEF IInv

LEMMA SvcReserves ==
  ASSUME IInv, at[Svc] \in {"poll_reserve", "reserve_only"},
         PollReserve(pipe["s2c"]) = "ready",
         pipe' = Reserved("s2c"), Goto(Svc, "SendReady"),
         UNCHANGED <<bidiVars, todo, mapVars, dispVars>>
  PROVE  IInv'
<1>1. /\ PipeOK'
      /\ \A e \in {"c2s", "s2c"} : SameState(e) /\ pipe'[e].buf = pipe[e].buf
      /\ pipe'["s2c"].held = pipe["s2c"].held + 1 /\ Same("c2s")
  BY Reserving DEF IInv, TypeOK, PipeOK
<1>2. pipe["s2c"].held \in Nat
  BY DEF IInv, TypeOK, Pipes
<1>3. Holders' = Holders
  BY DEF Goto, Holders
<1>4. Requested' = Requested /\ Answered' = Answered /\ todo' = todo
  BY <1>1 DEF Requested, Answered
<1>5. Held' = Held
  BY DEF Goto, dispVars, Held
<1>6. TypeOK'
  BY <1>1 DEF IInv, TypeOK, Goto, bidiVars, mapVars, dispVars, PipeOK, Labels
<1>7. PermitInv'
  BY <1>1, <1>2, <1>3 DEF Same, IInv, PermitInv
<1>8. PlaceInv' /\ ErrorInv' /\ DispatcherInv' /\ GoneInv' /\ WaitInv'
  BY BiDiAssumption, ReqRspAssumption, <1>1
     DEF SameState, IInv, TypeOK, Tasks, Goto, mapVars, dispVars, PlaceInv,
         SvcLabels, ErrorInv, Finishing, TxOf, DispatcherInv, GoneInv,
         ClientGone, Over, WaitInv
<1>9. OnceInv' /\ MatchInv'
  BY BiDiAssumption, ReqRspAssumption, <1>1, <1>4, <1>5
     DEF IInv, Goto, mapVars, OnceInv, UnderWay, MatchInv, Expected, Mistaken
<1>10. WaiterInv' /\ OwnResponse'
  BY DEF IInv, Goto, mapVars, WaiterInv, Mistaken, OwnResponse
<1> QED BY <1>6, <1>7, <1>8, <1>9, <1>10 DEF IInv

\* What a poll of one half says about it.
LEMMA PollFacts ==
  ASSUME NEW c
  PROVE  /\ PollReserve(c) \in {"ready", "pending", "error", "disconnected"}
         /\ PollRecv(c) \in {"ready", "pending", "error", "disconnected"}
         /\ PollReserve(c) \in {"error", "disconnected"} => SendOver(c)
         /\ PollReserve(c) = "disconnected" => c.err # "errored"
         /\ PollReserve(c) = "error" => c.err = "errored"
         /\ PollRecv(c) \in {"error", "disconnected"} => RecvOver(c)
         /\ PollRecv(c) = "disconnected" => c.err # "errored"
         /\ PollRecv(c) = "error" => c.err = "errored"
         /\ PollRecv(c) = "ready" => c.buf # <<>>
BY DEF PollReserve, PollRecv, WhyOver, SendOver, RecvOver

\* A step in which wait takes neither a permit nor a message.
LEMMA WaitMoves ==
  ASSUME IInv,
         NEW b \in {"poll_reserve", "poll_recv", "recv_only", "reserve_only"}
                     \cup WaitErrors,
         at[Svc] \in {"poll_reserve", "poll_recv", "recv_only", "reserve_only"},
         b = "recv_only" => /\ SendOver(pipe["s2c"])
                            /\ seen_tx_error \/ pipe["s2c"].err # "errored",
         b = "reserve_only" => /\ RecvOver(pipe["c2s"])
                               /\ seen_rx_error \/ pipe["c2s"].err # "errored",
         b = "Disconnected" => /\ SendOver(pipe["s2c"]) /\ RecvOver(pipe["c2s"])
                               /\ seen_tx_error \/ pipe["s2c"].err # "errored"
                               /\ seen_rx_error \/ pipe["c2s"].err # "errored",
         WaitTakes(b), UNCHANGED <<mapVars, dispVars>>
  PROVE  IInv'
<1>1. /\ Goto(Svc, b) /\ pipe' = pipe /\ todo' = todo
      /\ seen_tx_error' = (seen_tx_error \/ b = "SendError")
      /\ seen_rx_error' = (seen_rx_error \/ b = "RecvError")
  BY DEF WaitTakes, WaitErrors
<1>2. at'[Svc] = b
  BY <1>1 DEF Goto, IInv, TypeOK, Tasks
<1>3. WaitInv'
  BY <1>1, <1>2 DEF WaitInv
<1>4. bidiVars' \in BOOLEAN \X BOOLEAN
  BY <1>1 DEF bidiVars
<1>5. b \in SvcLabels \ {"SendReady", "finish_tx", "finish_rx"}
  BY DEF SvcLabels, WaitErrors
<1> QED BY <1>1, <1>3, <1>4, <1>5, SvcMoves

LEMMA WaitTakesPermit ==
  ASSUME IInv, at[Svc] \in {"poll_reserve", "reserve_only"},
         PollReserve(pipe["s2c"]) = "ready", WaitTakes("SendReady"),
         UNCHANGED <<mapVars, dispVars>>
  PROVE  IInv'
<1>1. /\ Goto(Svc, "SendReady") /\ pipe' = Reserved("s2c") /\ todo' = todo
      /\ UNCHANGED bidiVars
  BY DEF WaitTakes, bidiVars, IInv, TypeOK
<1> QED BY <1>1, SvcReserves

LEMMA WaitTakesMessage ==
  ASSUME IInv, at[Svc] \in {"poll_recv", "recv_only"},
         PollRecv(pipe["c2s"]) = "ready", WaitTakes("Recv"),
         UNCHANGED <<mapVars, dispVars>>
  PROVE  IInv'
<1>1. /\ Goto(Svc, "poll_reserve") /\ pipe' = Received("c2s")
      /\ todo' = todo \cup {Head(pipe["c2s"].buf)} /\ UNCHANGED bidiVars
  BY DEF WaitTakes, bidiVars, IInv, TypeOK
<1> QED BY <1>1, PollFacts, SvcReceives

LEMMA WaitReserveInv ==
  ASSUME IInv, WaitReserve, UNCHANGED <<mapVars, dispVars>>
  PROVE  IInv'
<1> DEFINE e == PollReserve(pipe["s2c"])
<1>1. e \in {"ready", "pending", "error", "disconnected"}
  BY PollFacts
<1>2. CASE e = "ready"
  BY <1>2, WaitTakesPermit DEF WaitReserve, ReserveBranch
<1>3. CASE e # "ready"
  <2> DEFINE b == ReserveBranch(e)
  <2>1. b \in {"poll_recv", "SendError", "recv_only"}
    BY <1>3 DEF ReserveBranch
  <2>2. b = "recv_only" => e = "disconnected" \/ (e = "error" /\ seen_tx_error)
    BY <1>1 DEF ReserveBranch
  <2>3. at[Svc] = "poll_reserve" /\ WaitTakes(b)
    BY DEF WaitReserve
  <2>4. b = "recv_only" => /\ SendOver(pipe["s2c"])
                           /\ seen_tx_error \/ pipe["s2c"].err # "errored"
    BY <2>2, PollFacts
  <2> HIDE DEF b
  <2> QED BY <2>1, <2>3, <2>4, WaitMoves DEF WaitErrors
<1> QED BY <1>2, <1>3

LEMMA WaitRecvInv ==
  ASSUME IInv, WaitRecv, UNCHANGED <<mapVars, dispVars>>
  PROVE  IInv'
<1> DEFINE e == PollRecv(pipe["c2s"])
<1>1. e \in {"ready", "error", "disconnected"}
  BY PollFacts DEF WaitRecv
<1>2. CASE e = "ready"
  BY <1>2, WaitTakesMessage DEF WaitRecv, RecvBranch
<1>3. CASE e # "ready"
  <2> DEFINE b == RecvBranch(e)
  <2>1. b \in {"RecvError", "reserve_only"}
    BY <1>3 DEF RecvBranch
  <2>2. b = "reserve_only" => e = "disconnected" \/ (e = "error" /\ seen_rx_error)
    BY <1>1 DEF RecvBranch
  <2>3. at[Svc] = "poll_recv" /\ WaitTakes(b)
    BY DEF WaitRecv
  <2>4. b = "reserve_only" => /\ RecvOver(pipe["c2s"])
                              /\ seen_rx_error \/ pipe["c2s"].err # "errored"
    BY <2>2, PollFacts
  <2> HIDE DEF b
  <2> QED BY <2>1, <2>3, <2>4, WaitMoves DEF WaitErrors
<1> QED BY <1>2, <1>3

LEMMA WaitAgainInv ==
  ASSUME IInv, WaitAgain, UNCHANGED <<mapVars, dispVars>>
  PROVE  IInv'
BY WaitMoves DEF WaitAgain

LEMMA WaitRecvOnlyInv ==
  ASSUME IInv, WaitRecvOnly, UNCHANGED <<mapVars, dispVars>>
  PROVE  IInv'
<1> DEFINE e == PollRecv(pipe["c2s"])
<1>1. e \in {"ready", "error", "disconnected"} /\ at[Svc] = "recv_only"
  BY PollFacts DEF WaitRecvOnly
<1>2. CASE e = "ready"
  BY <1>2, WaitTakesMessage DEF WaitRecvOnly, OnlyBranch
<1>3. CASE e = "error"
  BY <1>3, WaitMoves DEF WaitRecvOnly, OnlyBranch, WaitErrors
<1>4. CASE e = "disconnected"
  <2>1. /\ SendOver(pipe["s2c"]) /\ RecvOver(pipe["c2s"])
        /\ seen_tx_error \/ pipe["s2c"].err # "errored"
        /\ pipe["c2s"].err # "errored"
    BY <1>1, <1>4, PollFacts DEF IInv, WaitInv
  <2> QED BY <1>4, <2>1, WaitMoves DEF WaitRecvOnly, OnlyBranch, WaitErrors
<1> QED BY <1>1, <1>2, <1>3, <1>4

LEMMA WaitReserveOnlyInv ==
  ASSUME IInv, WaitReserveOnly, UNCHANGED <<mapVars, dispVars>>
  PROVE  IInv'
<1> DEFINE e == PollReserve(pipe["s2c"])
<1>1. e \in {"ready", "error", "disconnected"} /\ at[Svc] = "reserve_only"
  BY PollFacts DEF WaitReserveOnly
<1>2. CASE e = "ready"
  BY <1>2, WaitTakesPermit DEF WaitReserveOnly, OnlyBranch
<1>3. CASE e = "error"
  BY <1>3, WaitMoves DEF WaitReserveOnly, OnlyBranch, WaitErrors
<1>4. CASE e = "disconnected"
  <2>1. /\ SendOver(pipe["s2c"]) /\ RecvOver(pipe["c2s"])
        /\ pipe["s2c"].err # "errored"
        /\ seen_rx_error \/ pipe["c2s"].err # "errored"
    BY <1>1, <1>4, PollFacts DEF IInv, WaitInv
  <2> QED BY <1>4, <2>1, WaitMoves DEF WaitReserveOnly, OnlyBranch, WaitErrors
<1> QED BY <1>1, <1>2, <1>3, <1>4

LEMMA SvcRecvInv ==
  ASSUME IInv, SvcRecv, UNCHANGED <<mapVars, dispVars>>
  PROVE  IInv'
<1>1. CASE PollRecv(pipe["c2s"]) = "ready"
  BY <1>1, PollFacts, SvcReceives DEF SvcRecv
<1>2. CASE PollRecv(pipe["c2s"]) # "ready"
  <2>1. Goto(Svc, "drop_tx") /\ at[Svc] = "recv" /\ UNCHANGED <<pipe, todo, bidiVars>>
    BY <1>2 DEF SvcRecv
  <2>2. WaitInv'
    BY <2>1 DEF Goto, WaitInv
  <2>3. bidiVars' \in BOOLEAN \X BOOLEAN
    BY <2>1 DEF bidiVars, IInv, TypeOK
  <2> QED BY <2>1, <2>2, <2>3, SvcMoves DEF SvcLabels
<1> QED BY <1>1, <1>2

\* An answer moves to the other channel, or is lost when that is over.
LEMMA SvcRespondsTo ==
  ASSUME IInv, NEW m \in todo, at[Svc] = "SendReady",
         pipe' = Sent("s2c", m), todo' = todo \ {m},
         NEW l \in {"recv", "poll_reserve"}, Goto(Svc, l),
         UNCHANGED <<bidiVars, mapVars, dispVars>>
  PROVE  IInv'
<1>1. pipe["s2c"].held > 0 /\ m \in Message
  BY DEF IInv, PermitInv, TypeOK
<1>2. /\ PipeOK' /\ SameState("s2c") /\ Same("c2s")
      /\ \/ Same("s2c")
         \/ /\ pipe'["s2c"].buf = Append(pipe["s2c"].buf, m)
            /\ pipe'["s2c"].held = pipe["s2c"].held - 1
  BY <1>1, Sending DEF IInv, TypeOK, PipeOK
<1>3. \/ pipe'["s2c"].buf = pipe["s2c"].buf /\ Answered' = Answered
      \/ Answered' = Answered \cup {m} /\ Distinct(pipe'["s2c"].buf)
  <2> DEFINE s == pipe["s2c"].buf  t == pipe'["s2c"].buf
  <2>1. m \in Message /\ s \in Seq(Message) /\ Distinct(s)
    BY DEF IInv, TypeOK, Pipes, OnceInv
  <2>2. t = s \/ t = Append(s, m)
    BY <1>2 DEF Same
  <2>3. Answered = Carried(s) /\ Answered' = Carried(t)
    BY DEF Answered
  <2>4. \A n \in Answered : n.req # m.req
    BY DEF IInv, OnceInv
  <2> HIDE DEF s, t
  <2>5. \/ t = s /\ Answered' = Answered
        \/ Answered' = Answered \cup {m} /\ Distinct(t)
    BY <2>1, <2>2, <2>3, <2>4, CarriedByAppend
  <2> QED BY <2>5 DEF s, t
<1>4. Requested' = Requested
  BY <1>2 DEF Requested, Same
<1>5. Holders' = Holders
  BY DEF Goto, Holders
<1>6. Held' = Held
  BY DEF Goto, dispVars, Held
<1>7. TypeOK'
  BY <1>2 DEF IInv, TypeOK, Goto, bidiVars, mapVars, dispVars, PipeOK, Labels
<1>8. PermitInv'
  BY <1>2, <1>5 DEF Same, IInv, TypeOK, Tasks, Goto, PermitInv
<1>9. PlaceInv' /\ ErrorInv' /\ DispatcherInv' /\ GoneInv' /\ WaitInv'
  BY BiDiAssumption, ReqRspAssumption, <1>2
     DEF Same, SameState, IInv, Goto, mapVars, dispVars, PlaceInv, SvcLabels,
         ErrorInv, Finishing, DispatcherInv, GoneInv, ClientGone, Over, WaitInv
<1>10. OnceInv'
  BY <1>2, <1>3, <1>4, <1>6
     DEF Same, IInv, Goto, mapVars, OnceInv, UnderWay, SentLabels, ReqLabels
<1>11. MatchInv'
  BY <1>3, <1>4, <1>6
     DEF IInv, Goto, mapVars, MatchInv, Expected, Mistaken, UnderWay
<1>12. WaiterInv' /\ OwnResponse'
  BY DEF IInv, Goto, mapVars, WaiterInv, Mistaken, OwnResponse
<1> QED BY <1>7, <1>8, <1>9, <1>10, <1>11, <1>12 DEF IInv

LEMMA SvcRespondsInv ==
  ASSUME IInv, SvcResponds, UNCHANGED <<mapVars, dispVars>>
  PROVE  IInv'
<1>1. PICK m \in todo : pipe' = Sent("s2c", m) /\ todo' = todo \ {m}
  BY DEF SvcResponds
<1>2. PICK l \in {"recv", "poll_reserve"} : Goto(Svc, l)
  BY DEF SvcResponds
<1> QED BY SvcRespondsTo DEF SvcResponds

LEMMA SvcLeavesInv ==
  ASSUME IInv, SvcWaited \/ SvcLeaves, UNCHANGED <<mapVars, dispVars>>
  PROVE  IInv'
<1>1. PICK l \in {"drop_tx", "poll_reserve", "close_tx"} : Goto(Svc, l)
  BY DEF SvcWaited, SvcLeaves
<1>2. /\ at[Svc] \in WaitErrors \cup {"recv", "poll_reserve"}
      /\ UNCHANGED <<pipe, todo, bidiVars>>
  BY DEF SvcWaited, SvcLeaves
<1>3. WaitInv'
  BY <1>1 DEF Goto, IInv, TypeOK, Tasks, WaitInv
<1>4. bidiVars' \in BOOLEAN \X BOOLEAN
  BY <1>2 DEF bidiVars, IInv, TypeOK
<1>5. l \in SvcLabels \ {"SendReady", "finish_tx", "finish_rx"}
  BY DEF SvcLabels, CloseLabels
<1> QED BY <1>1, <1>2, <1>3, <1>4, <1>5, SvcMoves DEF WaitErrors

LEMMA SvcClosesInv ==
  ASSUME IInv, close_with_error(Svc, "drop_tx"), UNCHANGED <<mapVars, dispVars>>
  PROVE  IInv'
<1>1. /\ PipeOK'
      /\ \A e \in {"c2s", "s2c"} :
           /\ pipe'[e].buf = pipe[e].buf /\ pipe'[e].held = pipe[e].held
           /\ pipe'[e].tx = pipe[e].tx /\ pipe'[e].rx = pipe[e].rx
           /\ pipe[e].err = "errored" => pipe'[e].err = "errored"
           /\ pipe[e].err # "none" => pipe'[e].err # "none"
      /\ at[Svc] \in CloseLabels
  BY Closing DEF IInv, TypeOK, PipeOK, Tasks
<1>2. PICK l \in {"finish_tx", "close_rx", "finish_rx", "drop_tx"} :
        at' = [at EXCEPT ![Svc] = l]
  <2>1. PipeOK /\ at \in [Tasks -> Labels] /\ Svc \in Tasks
    BY DEF IInv, TypeOK, PipeOK, Tasks
  <2>2. at' \in {[at EXCEPT ![Svc] = l] :
                 l \in {"finish_tx", "close_rx", "finish_rx", "drop_tx"}}
    BY <2>1, Closing
  <2> QED BY <2>2
<1>3. UNCHANGED <<bidiVars, todo, mapVars, dispVars>>
  BY DEF close_with_error
<1>4. Holders' = Holders
  BY BiDiAssumption, ReqRspAssumption, <1>2 DEF Holders
<1>5. Requested' = Requested /\ Answered' = Answered /\ todo' = todo
  BY <1>1, <1>3 DEF Requested, Answered
<1>6. Held' = Held
  BY BiDiAssumption, ReqRspAssumption, <1>2 DEF dispVars, Held
<1>7. TypeOK'
  BY <1>1, <1>2, <1>3
     DEF IInv, TypeOK, bidiVars, mapVars, dispVars, PipeOK, Labels
<1>8. PermitInv'
  BY <1>1, <1>2, <1>4 DEF IInv, PermitInv
<1>9. PlaceInv' /\ ErrorInv' /\ DispatcherInv' /\ GoneInv' /\ WaitInv'
  BY BiDiAssumption, ReqRspAssumption, <1>1, <1>2
     DEF CloseLabels, IInv, TypeOK, Tasks, Goto, mapVars, dispVars, PlaceInv,
         ReqLabels, OwnerLabels, SvcLabels, close_with_error, CloseHalf,
         FinishHalf, PipeOK, Pipes, ErrorInv, Finishing, DispatcherInv, GoneInv,
         ClientGone, Over, WaitInv
<1>10. OnceInv' /\ MatchInv'
  BY BiDiAssumption, ReqRspAssumption, <1>1, <1>2, <1>5, <1>6
     DEF IInv, mapVars, OnceInv, UnderWay, MatchInv, Expected, Mistaken
<1>11. WaiterInv' /\ OwnResponse'
  BY <1>1, <1>2 DEF CloseLabels, IInv, mapVars, WaiterInv, Mistaken, OwnResponse
<1> QED BY <1>7, <1>8, <1>9, <1>10, <1>11 DEF IInv

LEMMA DropSvcInv ==
  ASSUME IInv, DropEnd(Svc), UNCHANGED <<mapVars, dispVars>>
  PROVE  IInv'
<1>1. TxOf(Svc) = "s2c" /\ RxOf(Svc) = "c2s"
  BY DEF TxOf, RxOf
<1>2. /\ PipeOK'
      /\ \A e \in {"c2s", "s2c"} :
           /\ pipe'[e].buf = pipe[e].buf /\ pipe'[e].held = pipe[e].held
           /\ pipe'[e].err = pipe[e].err
  BY <1>1, PipeIsOK, Dropping
<1>3. \/ /\ at[Svc] = "drop_tx" /\ at' = [at EXCEPT ![Svc] = "drop_rx"]
         /\ pipe'["s2c"].tx = FALSE /\ pipe'["s2c"].rx = pipe["s2c"].rx /\ Same("c2s")
      \/ /\ at[Svc] = "drop_rx" /\ at' = [at EXCEPT ![Svc] = "dropped"]
         /\ pipe'["c2s"].rx = FALSE /\ pipe'["c2s"].tx = pipe["c2s"].tx /\ Same("s2c")
  BY <1>1, PipeIsOK, Dropping
<1>4. UNCHANGED <<bidiVars, todo, mapVars, dispVars>>
  BY DEF DropEnd
<1>5. PICK l \in {"drop_rx", "dropped"} :
        at' = [at EXCEPT ![Svc] = l] /\ at[Svc] \in {"drop_tx", "drop_rx"}
  BY <1>3
<1>6. Holders' = Holders
  BY <1>5 DEF Holders
<1>7. Requested' = Requested /\ Answered' = Answered /\ todo' = todo
  BY <1>2, <1>4 DEF Requested, Answered
<1>8. Held' = Held
  BY <1>5 DEF dispVars, Held
<1>9. TypeOK'
  BY <1>2, <1>3, <1>4
     DEF IInv, TypeOK, bidiVars, mapVars, dispVars, PipeOK, Labels
<1>10. PermitInv'
  BY <1>2, <1>5, <1>6 DEF IInv, PermitInv
<1>11. PlaceInv' /\ ErrorInv' /\ DispatcherInv' /\ GoneInv' /\ WaitInv'
  BY BiDiAssumption, ReqRspAssumption, <1>5, <1>2, <1>3
     DEF Same, IInv, mapVars, dispVars, PlaceInv, SvcLabels, ErrorInv,
         Finishing, DispatcherInv, GoneInv, ClientGone, Over, WaitInv
<1>12. OnceInv' /\ MatchInv'
  BY BiDiAssumption, ReqRspAssumption, <1>5, <1>2, <1>7, <1>8
     DEF IInv, mapVars, OnceInv, UnderWay, MatchInv, Expected, Mistaken
<1>13. WaiterInv' /\ OwnResponse'
  BY <1>5 DEF IInv, mapVars, WaiterInv, Mistaken, OwnResponse
<1> QED BY <1>9, <1>10, <1>11, <1>12, <1>13 DEF IInv

----------------------------------------------------------------------------
LEMMA InitInv == Init => IInv
<1> SUFFICES ASSUME Init PROVE IInv
  OBVIOUS
<1>1. /\ at \in [Tasks -> Labels] /\ at[Svc] = "recv"
      /\ \A r \in Requests : at[r] \in {"idle", "reserve"}
      /\ \A p \in Dispatchers \cup {Owner} : at[p] = "idle"
  <2>1. at \in [Tasks -> Labels]
    BY DEF Init, Labels
  <2>2. at[Svc] = "recv"
    BY BiDiAssumption, ReqRspAssumption DEF Init, Tasks
  <2>3. \A r \in Requests : at[r] \in {"idle", "reserve"}
    BY BiDiAssumption, ReqRspAssumption DEF Init, Tasks
  <2>4. \A p \in Dispatchers \cup {Owner} : at[p] = "idle"
    BY BiDiAssumption, ReqRspAssumption DEF Init, Tasks
  <2> QED BY <2>1, <2>2, <2>3, <2>4
<1>2. \A d \in {"c2s", "s2c"} : pipe[d] = NewPipe
  BY DEF Init
<1>3. NewPipe \in Pipes
  BY BiDiAssumption DEF NewPipe, Pipes
<1>4. TypeOK
  <2>1. pipe \in [{"c2s", "s2c"} -> Pipes]
    BY <1>3 DEF Init
  <2>2. \A d \in {"c2s", "s2c"} : Len(pipe[d].buf) + pipe[d].held <= Cap
    BY <1>2, BiDiAssumption DEF NewPipe
  <2>3. seen_tx_error \in BOOLEAN /\ seen_rx_error \in BOOLEAN
    BY DEF Init
  <2>4. has_dispatcher \in BOOLEAN /\ shutdown \in BOOLEAN
    BY DEF Init
  <2>5. dispatcher \in [waiters : SUBSET Requests, closed : BOOLEAN]
    BY DEF Init
  <2>6. seq \in 0 .. SeqMod - 1 /\ mine \in [Requests -> 0 .. SeqMod - 1]
        /\ result \in [Requests -> Requests \cup {Owner}]
    BY ReqRspAssumption DEF Init
  <2>7. None \in Message
    BY ReqRspAssumption DEF None, Message
  <2>8. msg \in [Dispatchers -> Message] /\ todo \subseteq Message
    BY <2>7 DEF Init
  <2> QED BY <1>1, <2>1, <2>2, <2>3, <2>4, <2>5, <2>6, <2>8 DEF TypeOK
<1>5. PlaceInv
  BY <1>1 DEF PlaceInv, ReqLabels, DispLabels, OwnerLabels, SvcLabels
<1>6. PermitInv
  <2>1. Holders = {}
    BY <1>1 DEF Holders
  <2> QED BY <1>1, <1>2, <2>1, FS_EmptySet DEF PermitInv, NewPipe
<1>7. ErrorInv
  BY <1>1 DEF ErrorInv, NewPipe, Init
<1>8. DispatcherInv
  BY <1>1 DEF DispatcherInv, CloseLabels, Init
<1>9. Requested = {} /\ Answered = {} /\ todo = {} /\ Held = {}
  BY <1>1 DEF Requested, Answered, Held, Carried, NewPipe, Init
<1>10. OnceInv /\ MatchInv
  <2>1. Distinct(pipe["c2s"].buf) /\ Distinct(pipe["s2c"].buf)
    BY <1>2 DEF Distinct, NewPipe
  <2> QED BY <1>9, <2>1 DEF OnceInv, MatchInv, UnderWay
<1>11. WaiterInv /\ OwnResponse
  BY <1>1 DEF WaiterInv, OwnResponse, Mistaken, Init
<1>12. GoneInv /\ WaitInv
  BY <1>1, <1>2 DEF GoneInv, WaitInv, NewPipe
<1> QED BY <1>4, <1>5, <1>6, <1>7, <1>8, <1>10, <1>11, <1>12 DEF IInv

LEMMA StutterInv ==
  ASSUME IInv, UNCHANGED vars
  PROVE  IInv'
BY DEF vars, bidiVars, mapVars, dispVars, IInv, TypeOK, PlaceInv, PermitInv,
       Holders, ErrorInv, Finishing, DispatcherInv, OnceInv, UnderWay,
       Requested, Answered, Held, MatchInv, Expected, Mistaken, WaiterInv,
       OwnResponse, GoneInv, ClientGone, Over, WaitInv

LEMMA TaskStepInv ==
  ASSUME IInv, TaskStep
  PROVE  IInv'
<1>1. ASSUME NEW r \in Requests, Reserve(r) \/ Send(r) \/ Await(r) \/ Why(r)
      PROVE  IInv'
  BY <1>1, ReserveInv, SendInv, AwaitInv, WhyInv
<1>2. ASSUME NEW d \in Dispatchers, PollShutdown(d) \/ PollRx(d) \/ Wake(d)
      PROVE  IInv'
  BY <1>2, DispatcherMovesInv, PollRxInv, WakeInv
<1>3. ASSUME NEW p \in Dispatchers \cup {Owner}, CloseChannel(p) \/ CloseMap(p)
      PROVE  IInv'
  BY <1>3, CloseChannelInv, CloseMapInv
<1>4. CASE DropEnd(Owner) /\ UNCHANGED <<mapVars, dispVars>>
  BY <1>4, DropOwnerInv
<1>5. CASE SvcStep /\ UNCHANGED <<mapVars, dispVars>>
  <2>1. CASE WaitReserve \/ WaitRecv \/ WaitAgain \/ WaitRecvOnly \/ WaitReserveOnly
    BY <1>5, <2>1, WaitReserveInv, WaitRecvInv, WaitAgainInv, WaitRecvOnlyInv,
       WaitReserveOnlyInv
  <2>2. CASE SvcRecv \/ SvcResponds \/ SvcWaited
    BY <1>5, <2>2, SvcRecvInv, SvcRespondsInv, SvcLeavesInv
  <2>3. CASE close_with_error(Svc, "drop_tx") \/ DropEnd(Svc)
    BY <1>5, <2>3, SvcClosesInv, DropSvcInv
  <2> QED BY <1>5, <2>1, <2>2, <2>3 DEF SvcStep
<1> QED BY <1>1, <1>2, <1>3, <1>4, <1>5 DEF TaskStep

LEMMA NextInv == IInv /\ [Next]_vars => IInv'
<1> SUFFICES ASSUME IInv, [Next]_vars PROVE IInv'
  OBVIOUS
<1>1. ASSUME NEW r \in Requests, Retry(r) \/ Cancel(r) PROVE IInv'
  BY <1>1, RetryInv, CancelInv
<1>2. ASSUME NEW d \in Dispatchers, Dispatch(d) \/ CancelDispatch(d) PROVE IInv'
  BY <1>2, DispatchInv, DispatcherMovesInv
<1>3. CASE Shutdown \/ DropClient
  BY <1>3, ShutdownInv, DropClientInv
<1>4. CASE SvcLeaves /\ UNCHANGED <<mapVars, dispVars>>
  BY <1>4, SvcLeavesInv
<1>5. CASE NumberStep
  BY <1>5, FetchSeqInv, EnqueueInv DEF NumberStep
<1>6. CASE TaskStep
  BY <1>6, TaskStepInv
<1>7. CASE UNCHANGED vars
  BY <1>7, StutterInv
<1> QED BY <1>1, <1>2, <1>3, <1>4, <1>5, <1>6, <1>7 DEF Next

----------------------------------------------------------------------------
\* Every variable keeps its type, and no channel ever holds more messages and
\* permits than its capacity.
THEOREM TypeCorrect == Spec => []TypeOK
<1>1. IInv => TypeOK
  BY DEF IInv
<1> QED BY <1>1, InitInv, NextInv, PTL DEF Spec

\* A request gets the response to itself, or one with its number that was on
\* its way to a request that is not there any more, for every width of the
\* sequence numbers and any interleaving of requests, cancellations and closes.
THEOREM ResponseIsOwn == Spec => []OwnResponse
<1>1. IInv => OwnResponse
  BY DEF IInv
<1> QED BY <1>1, InitInv, NextInv, PTL DEF Spec

\* A request that finds the WaitMap closed finds the channel's error, unless
\* another task is still between the two steps of setting it.
THEOREM ErrorComesFirst == Spec => []ClosedHasError
<1>1. ASSUME IInv PROVE ClosedHasError
  <2>1. pipe["c2s"].err \in {"none", "erroring", "errored"}
    BY <1>1 DEF IInv, TypeOK, Pipes
  <2> QED BY <1>1, <2>1 DEF IInv, ErrorInv, Finishing, ClosedHasError
<1> QED BY <1>1, InitInv, NextInv, PTL DEF Spec

\* A running dispatcher finds the WaitMap closed only after a shutdown.
THEOREM DispatcherUndisturbed == Spec => []DispatchUndisturbed
<1>1. ASSUME IInv PROVE DispatchUndisturbed
  BY <1>1 DEF IInv, DispatcherInv, DispatchUndisturbed
<1> QED BY <1>1, InitInv, NextInv, PTL DEF Spec

\* BiDi::wait returns Disconnected only when both halves are over.
THEOREM BothAreOver == Spec => []DisconnectedIsBoth
<1>1. IInv => DisconnectedIsBoth
  BY DEF IInv, WaitInv, DisconnectedIsBoth
<1> QED BY <1>1, InitInv, NextInv, PTL DEF Spec

\* Only BiDi::wait takes the server's task to one of its errors.
LEMMA OnlyWaitFails ==
  ASSUME IInv, Next, at'[Svc] # at[Svc], at'[Svc] \in WaitErrors
  PROVE  WaitReserve \/ WaitRecv \/ WaitRecvOnly \/ WaitReserveOnly
<1>1. ASSUME NEW p \in Clients, NEW l, Goto(p, l) PROVE at'[Svc] = at[Svc]
  BY <1>1, BiDiAssumption DEF Goto
<1>2. ASSUME NEW l, l \notin WaitErrors PROVE ~Goto(Svc, l)
  BY <1>2 DEF Goto, IInv, TypeOK
<1>3. /\ Requests \subseteq Clients /\ Dispatchers \subseteq Clients /\ Owner \in Clients
  BY ReqRspAssumption
<1>4. ASSUME NEW r \in Requests,
             Retry(r) \/ Cancel(r) \/ FetchSeq(r) \/ Enqueue(r) \/ Reserve(r)
               \/ Send(r) \/ Await(r) \/ Why(r)
      PROVE  FALSE
  BY <1>1, <1>3, <1>4
     DEF Retry, Cancel, FetchSeq, Enqueue, Reserve, Send, Await, Why
<1>5. ASSUME NEW d \in Dispatchers,
             Dispatch(d) \/ CancelDispatch(d) \/ PollShutdown(d) \/ PollRx(d) \/ Wake(d)
      PROVE  FALSE
  BY <1>1, <1>3, <1>5 DEF Dispatch, CancelDispatch, PollShutdown, PollRx, Wake
<1>6. ASSUME NEW p \in Dispatchers \cup {Owner}, CloseChannel(p) \/ CloseMap(p)
      PROVE  FALSE
  BY <1>1, <1>3, <1>6
     DEF CloseChannel, CloseMap, close_with_error, CloseHalf, FinishHalf
<1>7. CASE Shutdown \/ DropClient \/ DropEnd(Owner)
  BY <1>1, <1>3, <1>7 DEF Shutdown, DropClient, DropEnd
<1>8. CASE SvcLeaves \/ SvcRecv \/ SvcResponds \/ SvcWaited
  BY <1>2, <1>8 DEF SvcLeaves, SvcRecv, SvcResponds, SvcWaited, WaitErrors
<1>9. CASE close_with_error(Svc, "drop_tx") \/ DropEnd(Svc)
  BY <1>2, <1>9 DEF close_with_error, CloseHalf, FinishHalf, DropEnd, WaitErrors
<1>10. CASE WaitAgain
  BY <1>2, <1>10 DEF WaitAgain, WaitTakes, WaitErrors
<1> QED BY <1>4, <1>5, <1>6, <1>7, <1>8, <1>9, <1>10
           DEF Next, NumberStep, TaskStep, SvcStep

\* BiDi::wait returns the error of a half a second time only when there is
\* nothing more to wait for in the other half.
THEOREM ErrorIsReturnedOnce == Spec => ErrorOncePerHalf
<1> DEFINE Again == /\ at'[Svc] # at[Svc]
                    /\ \/ at'[Svc] = "SendError" /\ seen_tx_error
                       \/ at'[Svc] = "RecvError" /\ seen_rx_error
           Done == /\ SendOver(pipe["s2c"]) /\ RecvOver(pipe["c2s"])
                   /\ seen_tx_error \/ pipe["s2c"].err # "errored"
                   /\ seen_rx_error \/ pipe["c2s"].err # "errored"
<1>1. ASSUME IInv, Next, Again PROVE Done
  <2>1. at'[Svc] \in {"SendError", "RecvError"}
    BY <1>1
  <2>2. WaitReserve \/ WaitRecv \/ WaitRecvOnly \/ WaitReserveOnly
    BY <1>1, OnlyWaitFails DEF WaitErrors
  <2>3. ASSUME NEW b, WaitTakes(b)
        PROVE  at'[Svc] = IF b = "Recv" THEN "poll_reserve" ELSE b
    BY <1>1, <2>3 DEF WaitTakes, Goto
  <2>4. CASE WaitReserve
    BY <1>1, <2>3, <2>4 DEF WaitReserve, ReserveBranch
  <2>5. CASE WaitRecv
    BY <1>1, <2>3, <2>5 DEF WaitRecv, RecvBranch
  <2>6. CASE WaitRecvOnly
    <3>1. at[Svc] = "recv_only" /\ PollRecv(pipe["c2s"]) = "error"
          /\ at'[Svc] = "RecvError"
      BY <2>1, <2>3, <2>6, PollFacts DEF WaitRecvOnly, OnlyBranch
    <3> QED BY <1>1, <3>1, PollFacts DEF IInv, WaitInv
  <2>7. CASE WaitReserveOnly
    <3>1. at[Svc] = "reserve_only" /\ PollReserve(pipe["s2c"]) = "error"
          /\ at'[Svc] = "SendError"
      BY <2>1, <2>3, <2>7, PollFacts DEF WaitReserveOnly, OnlyBranch
    <3> QED BY <1>1, <3>1, PollFacts DEF IInv, WaitInv
  <2> QED BY <2>2, <2>4, <2>5, <2>6, <2>7
<1>2. IInv /\ [Next]_vars => [Again => Done]_<<pipe, at, bidiVars>>
  BY <1>1 DEF vars
<1> QED BY <1>2, InitInv, NextInv, PTL DEF Spec, ErrorOncePerHalf
=============================================================================
