------------------------------- MODULE ReqRsp -------------------------------
(***************************************************************************)
(* The request/response client (calliope, req_rsp.rs) over one connection: *)
(* tasks that call request, the dispatcher that hands responses to them by *)
(* sequence number, and the task that owns the Client and may shut it      *)
(* down.  The tasks may run on several threads: a step is one operation on *)
(* a channel, the WaitMap or an atomic.                                    *)
(*                                                                         *)
(* WaitMap and WaitCell are maitake-sync's and external.                   *)
(***************************************************************************)
EXTENDS BiDi, FiniteSets

CONSTANTS
  Requests,        \* the calls of Client::request
  Cancelled,       \* the calls whose future may be dropped
  RetryOf,         \* RetryOf[r]: the request r is called after, if it was cancelled
  Dispatchers,     \* the calls of Client::dispatch, numbered in their order
  Owner,           \* the task that owns the Client
  SeqMod,          \* values of a sequence number, usize in the code
  DebugAssertions  \* whether cfg(debug_assertions) holds

ASSUME ReqRspAssumption ==
  /\ Clients = Requests \cup Dispatchers \cup {Owner}
  /\ Requests \cap Dispatchers = {} /\ Owner \notin Requests \cup Dispatchers
  /\ \A r \in DOMAIN RetryOf : r \in Requests /\ RetryOf[r] \in Requests \cap Cancelled
  /\ SeqMod \in Nat \ {0} /\ DebugAssertions \in BOOLEAN

VARIABLES
  seq,             \* the next sequence number
  dispatcher,      \* the WaitMap: its waiters by sequence number, closed
  has_dispatcher,
  shutdown,        \* whether the WaitCell `shutdown` is closed
  mine,            \* mine[r]: the sequence number r has taken
  result,          \* result[r]: the request whose response r has got
  msg              \* msg[d]: the response dispatcher d holds

mapVars == <<seq, dispatcher, mine, result>>
dispVars == <<has_dispatcher, shutdown, msg>>
vars == <<pipe, at, bidiVars, todo, mapVars, dispVars>>

None == [seq |-> 0, req |-> Owner]

Init ==
  /\ pipe = [d \in {"c2s", "s2c"} |-> NewPipe]
  /\ at = [p \in Tasks |-> CASE p = Svc -> "recv"
                              [] p \in Requests \ DOMAIN RetryOf -> "reserve"
                              [] OTHER -> "idle"]
  /\ seen_tx_error = FALSE /\ seen_rx_error = FALSE
  /\ todo = {}
  /\ seq = 0
  /\ dispatcher = [waiters |-> {}, closed |-> FALSE]
  /\ has_dispatcher = FALSE /\ shutdown = FALSE
  /\ mine = [r \in Requests |-> 0]
  /\ result = [r \in Requests |-> Owner]
  /\ msg = [d \in Dispatchers |-> None]

\* The Client exists: no task can start a call once it is dropped.
Alive == at[Owner] \notin {"drop_tx", "drop_rx", "dropped"}

----------------------------------------------------------------------------
(***************************************************************************)
(* Client::request.                                                        *)
(***************************************************************************)
\* A caller that gave up on a request, after a timeout say, calls again.
Retry(r) ==
  /\ r \in DOMAIN RetryOf /\ at[r] = "idle" /\ at[RetryOf[r]] = "cancelled" /\ Alive
  /\ Goto(r, "reserve")
  /\ UNCHANGED <<pipe, bidiVars, todo, mapVars, dispVars>>

\* "aquire a send permit first"; without one the request fails.
Reserve(r) ==
  /\ at[r] = "reserve"
  /\ \/ /\ PollReserve(pipe["c2s"]) = "ready"
        /\ pipe' = Reserved("c2s")
        /\ Goto(r, "fetch")
     \/ /\ PollReserve(pipe["c2s"]) \in {"error", "disconnected"}
        /\ Goto(r, "reset")
        /\ UNCHANGED pipe
  /\ UNCHANGED <<bidiVars, todo, mapVars, dispVars>>

FetchSeq(r) ==
  /\ at[r] = "fetch"
  /\ mine' = [mine EXCEPT ![r] = seq]
  /\ seq' = (seq + 1) % SeqMod
  /\ Goto(r, "enqueue")
  /\ UNCHANGED <<pipe, bidiVars, todo, dispatcher, result, dispVars>>

\* Mutant of InUse: a waiter may be added beside another one.
InUseIgnored(n) == FALSE

\* A waiter of sequence number n is in the map.
InUse(n) == \E q \in dispatcher.waiters : mine[q] = n

\* WaitMap::wait(seq).enqueue().
Enqueue(r) ==
  /\ at[r] = "enqueue"
  /\ Goto(r, CASE dispatcher.closed -> "why_unsent"
               [] ~dispatcher.closed /\ InUse(mine[r]) -> "fetch"
               [] OTHER -> "send")
  /\ dispatcher' = IF dispatcher.closed \/ InUse(mine[r]) THEN dispatcher
                   ELSE [dispatcher EXCEPT !.waiters = @ \cup {r}]
  /\ UNCHANGED <<pipe, bidiVars, todo, seq, mine, result, dispVars>>

Send(r) ==
  /\ at[r] = "send"
  /\ pipe' = Sent("c2s", [seq |-> mine[r], req |-> r])
  /\ Goto(r, "await")
  /\ UNCHANGED <<bidiVars, todo, mapVars, dispVars>>

\* The waiter is no longer in the map: it was woken with a response, or the map
\* was closed under it.
Await(r) ==
  /\ at[r] = "await" /\ r \notin dispatcher.waiters
  /\ Goto(r, IF result[r] = Owner THEN "why" ELSE "answered")
  /\ mine' = [mine EXCEPT ![r] = 0]
  /\ UNCHANGED <<pipe, bidiVars, todo, seq, dispatcher, result, dispVars>>

\* handle_wait_error of WaitError::Closed: the error is that of a try_reserve,
\* which must fail, and in a debug build must fail with the channel's error.
\* A request that was not sent drops its permit as it returns or panics.
Why(r) ==
  /\ at[r] \in {"why", "why_unsent"}
  /\ LET e == PollReserve(pipe["c2s"])
     IN  Goto(r, IF e = "error" \/ (e # "ready" /\ ~DebugAssertions)
                 THEN "reset" ELSE "panic")
  /\ pipe' = IF at[r] = "why" THEN pipe ELSE [pipe EXCEPT !["c2s"].held = @ - 1]
  /\ UNCHANGED <<bidiVars, todo, mapVars, dispVars>>

\* The future is dropped where it awaits; its waiter leaves the map.
Cancel(r) ==
  /\ r \in Cancelled /\ at[r] \in {"reserve", "await"}
  /\ dispatcher' = [dispatcher EXCEPT !.waiters = @ \ {r}]
  /\ mine' = [mine EXCEPT ![r] = 0]
  /\ Goto(r, "cancelled")
  /\ UNCHANGED <<pipe, bidiVars, todo, seq, result, dispVars>>

----------------------------------------------------------------------------
(***************************************************************************)
(* Client::dispatch.                                                       *)
(***************************************************************************)

\* Mutant of Dispatch: a second dispatcher is not noticed.
DispatchAnyway(d) ==
  /\ at[d] = "idle" /\ Alive /\ \A c \in Dispatchers : c < d => at[c] # "idle"
  /\ has_dispatcher' = TRUE
  /\ Goto(d, "poll_shutdown")
  /\ UNCHANGED <<pipe, bidiVars, todo, mapVars, shutdown, msg>>

\* has_dispatcher is set and never cleared: a second call fails, by a panic or
\* with AlreadyRunning, and changes nothing, also when the first one is over.
Dispatch(d) ==
  /\ at[d] = "idle" /\ Alive /\ \A c \in Dispatchers : c < d => at[c] # "idle"
  /\ has_dispatcher' = TRUE
  /\ IF has_dispatcher THEN UNCHANGED at ELSE Goto(d, "poll_shutdown")
  /\ UNCHANGED <<pipe, bidiVars, todo, mapVars, shutdown, msg>>

\* select_biased! polls the shutdown first.
PollShutdown(d) ==
  /\ at[d] = "poll_shutdown"
  /\ Goto(d, IF shutdown THEN "returned" ELSE "poll_rx")
  /\ UNCHANGED <<pipe, bidiVars, todo, mapVars, dispVars>>

PollRx(d) ==
  /\ at[d] = "poll_rx"
  /\ \/ /\ PollRecv(pipe["s2c"]) = "ready"
        /\ msg' = [msg EXCEPT ![d] = Head(pipe["s2c"].buf)]
        /\ pipe' = Received("s2c")
        /\ Goto(d, "wake")
     \/ /\ PollRecv(pipe["s2c"]) \in {"error", "disconnected"}
        /\ Goto(d, "close_tx")
        /\ UNCHANGED <<pipe, msg>>
     \/ /\ PollRecv(pipe["s2c"]) = "pending" /\ shutdown
        /\ Goto(d, "poll_shutdown")
        /\ UNCHANGED <<pipe, msg>>
  /\ UNCHANGED <<bidiVars, todo, mapVars, has_dispatcher, shutdown>>

\* WaitMap::wake.  NoMatch: "client no longer interested in request".
Wake(d) ==
  /\ at[d] = "wake"
  /\ LET woken == {r \in dispatcher.waiters : mine[r] = msg[d].seq}
     IN  IF dispatcher.closed
         THEN UNCHANGED <<dispatcher, result>>
         ELSE /\ dispatcher' = [dispatcher EXCEPT !.waiters = @ \ woken]
              /\ result' = [r \in Requests |-> IF r \in woken THEN msg[d].req
                                               ELSE result[r]]
  /\ msg' = [msg EXCEPT ![d] = None]
  /\ Goto(d, IF dispatcher.closed /\ DebugAssertions THEN "panic"
             ELSE "poll_shutdown")
  /\ UNCHANGED <<pipe, bidiVars, todo, seq, mine, has_dispatcher, shutdown>>

\* The dispatcher's future is dropped where it awaits.
CancelDispatch(d) ==
  /\ d \in Cancelled /\ at[d] = "poll_rx"
  /\ Goto(d, "cancelled")
  /\ UNCHANGED <<pipe, bidiVars, todo, mapVars, dispVars>>

(***************************************************************************)
(* Client::shutdown, by the owner, and the end of the Client.              *)
(***************************************************************************)

\* Mutant of Shutdown: the map is closed before the channel.
ShutdownMapFirst ==
  /\ at[Owner] = "idle"
  /\ shutdown' = TRUE
  /\ dispatcher' = [waiters |-> {}, closed |-> TRUE]
  /\ Goto(Owner, "close_tx")
  /\ UNCHANGED <<pipe, bidiVars, todo, seq, mine, result, has_dispatcher, msg>>

Shutdown ==
  /\ at[Owner] = "idle"
  /\ shutdown' = TRUE
  /\ Goto(Owner, "close_tx")
  /\ UNCHANGED <<pipe, bidiVars, todo, mapVars, has_dispatcher, msg>>

\* Both shutdown and dispatch close the channel with an error, then the map.
CloseChannel(p) ==
  /\ close_with_error(p, "close_map")
  /\ UNCHANGED <<mapVars, dispVars>>

\* Mutant of CloseMap: the map stays open.
CloseMapForgets(p) ==
  /\ at[p] = "close_map"
  /\ Goto(p, IF p = Owner THEN "shut" ELSE "failed")
  /\ UNCHANGED <<pipe, bidiVars, todo, mapVars, dispVars>>

CloseMap(p) ==
  /\ at[p] = "close_map"
  /\ dispatcher' = [waiters |-> {}, closed |-> TRUE]
  /\ Goto(p, IF p = Owner THEN "shut" ELSE "failed")
  /\ UNCHANGED <<pipe, bidiVars, todo, seq, mine, result, dispVars>>

Over(p) ==
  at[p] \in {"idle", "reset", "answered", "cancelled", "panic",
             "returned", "failed"}

DropClient ==
  /\ at[Owner] \in {"idle", "shut"}
  /\ \A p \in Requests \cup Dispatchers : Over(p)
  /\ Goto(Owner, "drop_tx")
  /\ UNCHANGED <<pipe, bidiVars, todo, mapVars, dispVars>>

----------------------------------------------------------------------------
\* A step of a request that looks for a free sequence number.
NumberStep == \E r \in Requests : FetchSeq(r) \/ Enqueue(r)

\* Any other step of a task that has something to do.
TaskStep ==
  \/ \E r \in Requests : Reserve(r) \/ Send(r) \/ Await(r) \/ Why(r)
  \/ \E d \in Dispatchers : PollShutdown(d) \/ PollRx(d) \/ Wake(d)
  \/ \E p \in Dispatchers \cup {Owner} : CloseChannel(p) \/ CloseMap(p)
  \/ (DropEnd(Owner) \/ SvcStep) /\ UNCHANGED <<mapVars, dispVars>>

Next ==
  \/ \E r \in Requests : Retry(r) \/ Cancel(r)
  \/ \E d \in Dispatchers : Dispatch(d) \/ CancelDispatch(d)
  \/ Shutdown \/ DropClient
  \/ SvcLeaves /\ UNCHANGED <<mapVars, dispVars>>
  \/ NumberStep \/ TaskStep

\* Some task that can go on is polled: no executor does less, and no fairness
\* between tasks is needed, but for a request that tries numbers for ever.
\* Nothing obliges anyone to start a dispatcher, to retry, to cancel, to shut
\* down, to leave or to drop the Client.
Spec == Init /\ [][Next]_vars /\ WF_vars(NumberStep) /\ WF_vars(TaskStep)

----------------------------------------------------------------------------
Labels ==
  {"idle", "reserve", "fetch", "enqueue", "send", "await", "why", "why_unsent",
   "reset", "answered", "cancelled", "panic", "poll_shutdown", "poll_rx", "wake",
   "returned", "failed", "close_tx", "finish_tx", "close_rx", "finish_rx",
   "close_map", "shut", "drop_tx", "drop_rx", "dropped", "recv", "poll_reserve",
   "poll_recv", "recv_only", "reserve_only", "SendReady"} \cup WaitErrors

Message == [seq : 0 .. SeqMod - 1, req : Requests \cup {Owner}]

Pipes ==
  [buf : Seq(Message), held : 0 .. Cap, tx : BOOLEAN, rx : BOOLEAN,
   err : {"none", "erroring", "errored"}]

\* Every variable has its type; a channel never holds more than Cap messages
\* and permits.
TypeOK ==
  /\ pipe \in [{"c2s", "s2c"} -> Pipes]
  /\ \A d \in {"c2s", "s2c"} : Len(pipe[d].buf) + pipe[d].held <= Cap
  /\ at \in [Tasks -> Labels]
  /\ seen_tx_error \in BOOLEAN /\ seen_rx_error \in BOOLEAN
  /\ todo \subseteq Message
  /\ seq \in 0 .. SeqMod - 1
  /\ dispatcher \in [waiters : SUBSET Requests, closed : BOOLEAN]
  /\ has_dispatcher \in BOOLEAN /\ shutdown \in BOOLEAN
  /\ mine \in [Requests -> 0 .. SeqMod - 1]
  /\ result \in [Requests -> Requests \cup {Owner}]
  /\ msg \in [Dispatchers -> Message]

\* The response r has got is another request's.
Mistaken(r) == result[r] \notin {r, Owner}

\* A request returns the response to itself.  The one exception is a number
\* that is used again, after the counter has wrapped, while a response with it
\* is still on its way: that to a request that was cancelled, and from there on
\* the response to every request that was mistaken before its own one came.
OwnResponse ==
  \A r \in Requests : Mistaken(r) =>
    at[result[r]] = "cancelled" \/ Mistaken(result[r])

\* The WaitMap is closed only when the channel the requests send on is closed
\* with an error, so that a request finds the error it expects, or while
\* another task is between the two steps of closing it: dispatch and shutdown
\* take a close_with_error that came second for done.
ClosedHasError ==
  dispatcher.closed =>
    \/ pipe["c2s"].err = "errored"
    \/ \E p \in Tasks : \/ at[p] = "finish_tx" /\ TxOf(p) = "c2s"
                        \/ at[p] = "finish_rx" /\ RxOf(p) = "c2s"

\* "the dispatcher should not be closed if it is still running": a dispatcher
\* finds the WaitMap closed only when the Client was shut down.
DispatchUndisturbed ==
  \A d \in Dispatchers : at[d] \in {"wake", "panic"} /\ dispatcher.closed => shutdown

\* Once a dispatcher has been started every request call ends, unless the
\* dispatcher's future is dropped: whoever closes the connection, and also for a
\* request that comes after it is closed.  It ends with a response or an error,
\* or in the window that ClosedHasError names with the panic of `expect_err`.
RequestsResolve ==
  has_dispatcher ~> \/ \A r \in Requests : Over(r)
                    \/ \E d \in Dispatchers : at[d] = "cancelled"
=============================================================================
