# A TLA+ model of MGNP: Calliope and tricky-pipe

MGNP is the networking layer of MnemOS. The repository has two crates that carry
its logic. **tricky-pipe** is a set of channels for tasks and threads, usable
without an allocator, whose messages may also be sent and received in serialized
form. **Calliope** multiplexes connections between services over one point to
point wire; its sockets are tricky-pipe channels.

This directory models both: seven specifications and an abstract one, small
instances of them for TLC, and proofs about all of them, up to the theorem that
the lock-free queue implements the abstract channel. Paths below are relative to
`src/source/`.

## Inventory

| Component | State | Operations | Talks to |
|---|---|---|---|
| Connection table, `calliope/src/conn_table.rs` | entries, free list through the closed entries (`next_id`), `len`, `dead_index` | `next_outbound`, `process_inbound`, `start_connecting`, `process_ack`, `accept`, `reject`, `reset`, `remove`, `insert_at`, `cleanup_dead` | channels of its sockets, the response of a connect request |
| Interface, `calliope/src/lib.rs` | a table, a wire, the stream of connect requests | `Machine::run`, a loop of one `select_biased!` | wire, table, registry |
| Client, `calliope/src/client.rs` | a sharer for hellos, a reusable response channel | `connect` | the interface, through an mpsc channel |
| Frames, `calliope/src/message.rs` | | constructors, encoding | the wire |
| Services, `calliope/src/service.rs` | user code | `Registry::connect` | the table |
| Request/response, `calliope/src/req_rsp.rs` | sequence counter, WaitMap, flags | `request`, `dispatch`, `shutdown` | a connection |
| mpsc core, `tricky-pipe/src/mpsc/channel_core.rs` | head, tail, slots, free indices, sender count, error, two wait primitives | `reserve`, `commit_send`, `try_dequeue`, `uncommit`, `add_tx`, `drop_tx`, `close_*` | any number of senders, one receiver |
| mpsc handles and storage, `mpsc/mod.rs`, `arc_impl.rs`, `static_impl.rs` | a pointer to the core | typed, serializing and erased variants of the above | the core |
| BiDi, `tricky-pipe/src/bidi.rs` | two channels, two "error seen" flags | `wait`, `close_with_error` | two mpsc channels |
| Oneshot, `tricky-pipe/src/oneshot.rs` | flags, a cell, a WaitCell | `sender`, `recv`, `close`, `send`, drops | one receiver, one sender at a time |
| SerBox, `tricky-pipe/src/serbox.rs` | flags, a value, a WaitCell, memory | `share`, `try_share`, drops, `static_sharer` | one sharer, one consumer at a time |
| PlugTail, `plugtail/src/lib.rs` | a reference count | clone, drop | nothing else here |

What is hard in this code:

* tricky-pipe is lock-free. Every atomic access is a point where another thread
  may run, and most of the reasoning in its comments is about such points.
* IDs, indices, slots, the oneshot and the SerBox are *reused*. A frame, a mark
  or a wakeup meant for one use can meet the next.
* Both ends of a connection, and each application and its machine, close
  independently; closing crosses data and other closing on the way.
* `Machine::run` is one task: while it waits in one place it does nothing else.
* What belongs together is closed one part after the other: the two halves of a
  BiDi, the channel and the WaitMap of a request/response client, the two ends
  of a queue. Who looks in between sees something no single call ever meant.

The properties that make the components correct: the table's free list never
loses or duplicates an entry; a connection's data arrives complete, in order
and at the right end; connecting and closing come to an end; a channel's cell
has one owner at a time, nothing committed is lost, nobody sleeps through a
wakeup; a shared value is dropped once and its box given back once; a request
gets its own response or an error. The list of
hazards in `PROJECT.json` says where each can go wrong.

## Modules

`ConnTable` &mdash; the table as a record and its methods as operators from
tables to tables, with what makes a table well formed (`FreeListOK`,
`InsertIsSafe`, `LenCountsSockets`). A socket is the endpoint whose channel it
owns.

`Link` extends it &mdash; two peers, each with a table and the place where its
`run` loop waits: in the select, in `wire.send(frame)`, or in the send of a DATA
body to a channel (`mach`). One action per branch of the select and kind of
frame. `wire` holds the frames on their way in each direction. `chan[e]` stands
for the two mpsc channels between the application of endpoint `e` and its
machine: what waits for the machine (`outq`), what the machine has delivered
(`got`) and how much of it was read, which ends exist, and the error it was
closed with. `cli[c]` is what a client's `connect` has come to. Endpoints are
known to the model only: frames carry IDs, and a payload carries the name of its
sender so that properties can tell where it came from.

`TrickyPipe` &mdash; the mpsc core, one step per access to an atomic, a cell or a
wait primitive. `at[p]` is the access a process makes next. Positions and
sequence numbers have the width of the code (`PosMod`); try_dequeue's successor
of a position does not wrap where commit_send's does, as in the code
(`ReadySeq`, `PosAdd`). A weak compare-exchange may fail for no reason.

`Channel` &mdash; what the mpsc channel promises: a bounded FIFO of messages from
several senders, closed by the receiver's leaving, by an error or by the last
sender, that tells its receiver the truth at the end. `TrickyPipe` implements it
(`Chan`, `ImplementsChannel`): a message is in the FIFO from the compare-exchange
of the tail to that of the head, although its slot is written later and its cell
read later; the FIFO is closed when the tail is; an error is begun when ERRORING
is set. Liveness is not part of `Channel`; `pipe_live` checks it on the queue
itself.

`Oneshot` and `SerBox` &mdash; the same at the same grain. Flags are sets. `Oneshot`
has the claim of a channel that has no receiver yet and the erased receiver,
whose result is a reference into the cell that the receiver may be closed under.

`BiDi` &mdash; a connection as its two ends see it: two channels, each operation on
one of them a step, `close_with_error` with one half closed after the other and
each half in two steps, and `wait` with its two branches, the half that is left
when the other is over, and `seen_tx_error` and `seen_rx_error`. The end that
calls `wait` is a service that answers in any order.

`ReqRsp` extends it &mdash; `Client::request`, `dispatch` and `shutdown` at the other
end. The WaitMap is the set of waiters and a flag; a waiter's number is in
`mine`, the counter wraps at `SeqMod`. Futures may be dropped where they await,
and a request that was dropped may be tried again.

`MCLink`, `MCPipe`, `MCOneshot`, `MCSerBox`, `MCReqRsp` &mdash; constants for the
runs. `MCLink` also says what the applications of the liveness run do.

`ConnTableProofs`, `LinkProofs`, `OneshotProofs`, `SerBoxProofs`, `ReqRspProofs`
(which is about `BiDi` too), `PipeProofs`, `QueueProofs` and `MessageProofs` (the
three parts of the proof about `TrickyPipe`, each extending the one before)
&mdash; the inductive invariants, lemmas and theorems.

Operators named "Mutant of ..." are wrong versions of a definition. They are not
part of any specification: each one is put in place of the definition it names
to see that a property notices.

### Abstractions

* Atomics are sequentially consistent. The weaker orderings of the code are left
  to the repository's loom tests.
* External: IndexAllocWord (mycelium-bitfield) is a set of free indices,
  WaitQueue and WaitCell (maitake-sync) are atomic. A wake with no one waiting is
  stored, once.
* The wire is a FIFO of bounded size per direction, as the one of the
  repository's tests. `wire.send` may fail for the frames whose type is in
  `Failing`: the frame is lost, `run` returns and is called again
  (`WireFails`). `Wire` is a trait; nothing in the code retransmits or reorders.
* The registry accepts or rejects nondeterministically.
* Messages are numbers. A body that does not deserialize is one whose number is
  in `Garbled`.
* In `Link` an operation on a channel is one step, which `TrickyPipe` looks into;
  `close_with_error` closes both directions of a BiDi together, and the queue of
  connect requests is not bounded.
* In `BiDi` and `ReqRsp` the two ends of a connection share its channels: what the
  interface and the wire do between them is `Link`'s part.
* A future that is polled in a select is polled once per wakeup; the polls of the
  two branches are separate steps, so that anything may happen between them.
* An `rsp.send` in `Link` does not fail: it fails only on a oneshot that was
  closed, and dropping a `connect` future or its Connector closes none.

## Runs

| Run | What it is about | Distinct states |
|---|---|---|
| `link_safety` | two peers, a client on each, a service closing with an error, drops everywhere, sends of control frames that fail | 1,289,730 |
| `link_live` | one connection on which both ends do everything, or two clients that send and drop, or three on two peers that connect and drop, with more connections than entries; liveness | 64,620 |
| `link_crosstalk` | three clients on one peer; violated | |
| `link_dead` | two clients on one peer, all ends drop; violated | |
| `pipe_safety` | two senders, two slots, two elements, every operation; refinement of `Channel` | 2,285,423 |
| `pipe_live` | two senders, one element; liveness | 101,096 |
| `pipe_wrap` | one sender, the code's own sizes; violated | |
| `oneshot_reuse` | two handles, three sends, cancels and a close, typed and erased | 18,215 |
| `oneshot_dropped` | a sender that is dropped; violated | |
| `reqrsp` | two requests and a retry, two numbers, two calls of `dispatch`, a shutdown; liveness | 846,224 |
| `serbox_share` | two consumers, three values, heap and static; no overlapping drops | 454 |
| `serbox_overlap` | drops that overlap; violated | |

Deadlock is not checked: the applications may all stop, and the bounds on what
they do end every behaviour.

### Bounds

* `Link`: `CAPACITY` 2 with two connections fills a table, and closing frees
  entries for reuse. A third connection meets the full table in `link_live`, as a
  request of the table's own peer and as a CONNECT of the other one. `ChanCap` 1 makes the machine wait for its applications.
  `WireCap` 2 makes machines wait for each other; with 1 both machines can wait
  in `wire.send` for ever (see below). In `link_live` either one client connects
  alone and the two ends send `SoloMsgs` messages together, of which the third
  of a stream does not deserialize, or the two clients of one peer do and only
  they send and drop, or these two and one of the other peer do and only drop.
  Two connections on which both ends act run into the reuse of IDs, which
  `link_dead` and `link_crosstalk` show, and data in both directions of more than
  one connection into the full wire. `link_safety` lets every control frame
  fail and no DATA frame, so that `InOrder` is checked in its strong form. One
  service closes with an error; with both the run has 3,153,506 states and takes
  too long to be kept, and passes too. A third
  client on one peer is what it takes for an old frame to meet a third use of an
  ID, which is `link_crosstalk`. `IdMax` stands for `u16::MAX`.
* `TrickyPipe`: two slots and `MaxMsgs` 2 for each of two senders go round the
  queue twice. `pipe_safety` has as many elements as slots, the largest channel
  a queue allows; `pipe_live` has one, so that senders wait. `pipe_safety`
  has `PosMod` 6, the least for which four messages and one lap more do not wrap
  (see `NoWrap` below); `pipe_wrap` has the real 1024.
* `Oneshot` and `SerBox`: three uses, so that the wakeup of the first may come
  as late as the third; two handles, because the older of the two can be no
  further behind.
* `ReqRsp`: channels of one message, so that requests wait for a permit; two
  sequence numbers for three requests, so that a number is found in use and the
  counter wraps while an old response is on its way; two calls of `dispatch`, of
  which one must be refused; a debug build, in which the assertions panic.

### Fairness

* `Link`: weak fairness of each machine, which the executor polls when its wire,
  a channel or a request wakes it, and of reading applications. Nothing obliges
  an application to send, drop or close, or a client to give up.
* `TrickyPipe`, `Oneshot`, `SerBox`: a call that has started runs on, since its
  thread is scheduled or its task polled after a wakeup; a receiver of the pipe
  keeps receiving. Strong fairness of the two compare-exchanges: a weak
  compare-exchange that could succeed again and again does not fail for ever.
* `ReqRsp`: weak fairness of *some* task that can go on, and of some request that
  looks for a free number, which needs the others to give numbers back. No
  fairness between tasks. Nothing obliges anyone to dispatch, to shut down, to
  retry, to cancel or to leave.

## What the runs show

The passing properties are described where they are defined. Five runs end in
a violation; each is a disagreement of the code with its own comments.

1. `pipe_wrap`. `commit_send` and `try_dequeue` disagree on the successor of
   position 1023. The 1024th message of a channel is never received
   (`channel_core.rs:465`).
2. `link_dead`. `dead_index` is an ID, and the entry with that ID may have been
   reset by the remote and reused when `cleanup_dead` removes it
   (`conn_table.rs:129`).
3. `link_crosstalk`. An ID is reused at once, so a late RESET hits the next
   connection, and the ACK for one CONNECT then opens a later one
   (`conn_table.rs:306`). `NoCrossTalk` is about data. Errors go astray sooner: two
   clients on different peers are enough for the RESET of a service that closed
   with an error to close the connection that has taken over the ID, with that
   error.
4. `oneshot_dropped`. Dropping a sender wakes nobody (`oneshot.rs:889`). In
   Calliope, a client whose connecting socket is RESET waits for ever; `Link`
   calls it orphaned.
5. `serbox_overlap`. `Consumer::drop` clears HAS_CONSUMER before it is done with
   the box (`serbox.rs:340`); a Sharer dropped on another thread then drops the
   value again. `serbox_share` shows that the flags are right when the two drops
   do not overlap, as on a single-threaded executor.

What the passing properties except is as much a result:

* Since `run` awaits `wire.send` inside a branch of its select, two machines whose
  wire is full in both directions wait for each other (`CloseConverges` with a
  wire of one frame). How much a wire buffers is up to its implementation.
* A frame that `wire.send` lost is not sent again. Tables and streams stay right;
  the client whose CONNECT, ACK or REJECT it was waits for ever.
* `DataArrives`: messages of an application that dropped its end are lost when a
  DATA frame for that end is handled before they are drained.
* `SenderReturns`: RX_WAITING left by a receive that was cancelled or found no
  sender keeps `sender()` in its loop for ever.
* `ClosedIsFinal`: an ErasedRecvRef that outlives `close` opens the channel again.
  `ActiveIsHeld`: after a value that was not received, `sender()` drops the value
  and still reports SenderAlreadyActive.
* `close` of the oneshot drops a value that was not received only when HAS_TX is
  not set, but a send leaves it set: the branch is never taken
  (`CloseDropsNothing`), and such a value leaks (`oneshot.rs:855`).
* `NoPanic`: beyond the wrap, a sender that kept a tail of the last lap finds a
  sequence number that has wrapped below it, takes a race it has lost for a full
  queue and reaches the `unreachable!` of `commit_send` (`channel_core.rs:515`).
  `pipe_safety` with `PosMod` 4 shows it.
* `ClosedHasError`: the second of two tasks that close a connection finds ERRORING
  set, takes the channel for closed and closes the WaitMap; a request can then
  still get a permit from `try_reserve`, and `expect_err` panics. It takes two
  threads. `DispatchUndisturbed`: the `unreachable!` of `dispatch` is reached when
  `shutdown` closes the WaitMap after a response was received; nothing else
  reaches it.
* `OwnResponse`: a response to a cancelled request that arrives after the counter
  has wrapped is given to the request that now has the number. That request's
  own response is then on its way with nobody to wait for it, and the next
  request with the number gets it, although the request it belongs to was not
  cancelled (`reqrsp` with `SeqMod` 1).
* `RequestsResolve`: a dispatcher whose future was dropped cannot be replaced, and
  requests wait for ever.

## Proofs

TLC checks small instances; the theorems hold for every value of the constants:
any number of clients, senders, handles or requests, any capacity, any number of
messages. Every invariant of a passing run is stated by a theorem, except two
of `Link` (`InOrder`, `NoCrossTalk`); so are the action properties and
the refinement of `Channel`.
`PROJECT.json` lists the theorems. Each component has an inductive invariant,
whose parts are named in the proof module, a lemma per action, and theorems that
follow from it.

### Link

Assumptions: `CapacityAssumption` (the capacity is positive and below the largest
ID) and `LinkAssumption` (two peers, sizes are positive). A wire that fails
(`Failing`) is part of what is proved.

`TypeCorrect` includes that no channel and no wire exceeds its capacity;
`TablesCorrect` is about the free list, `InsertsCorrect` about the panics of
`insert_at`. The inductive invariant is `IInv == TypeOK /\ TablesInv /\
DeliverInv`. `InsertsAreSafe` is not inductive: that the head of the free list is
not occupied after a removal and an insertion depends on the whole list.
`TablesInv` therefore says that there is an enumeration of the closed entries
without repetition, in the order the chain visits them, which ends at the first
unused entry; `ConnTableProofs` shows that `remove` prepends to such a list
(`RemoveOK`) and `insert_at` takes its head off (`InsertOK`), that `len` counts
the sockets (`LenOK`), and that a reserved ID can be used (`ReserveOK`). The list
is a function with a quantifier over its domain, because facts about recursive
definitions are out of the prover's reach. `DeliverInv` says that a machine that
waits in the send of a DATA body still has the open socket it looked up, which
holds because it does nothing else meanwhile; without it neither the type of a
delivery nor the removal after a failed one is known.

`StreamsCorrect` is the action property `StreamsInOrder`: what is left of ordered
delivery when IDs are reused and a DATA frame's IDs may have come to mean another
connection. A message handed to an application comes later in its sender's stream
than every message of that sender handed to anyone before, so none is delivered
twice or too late, not even at two different ends. The property compares a
message in a machine's hands with what was delivered; why they are in order is
decided where the message was queued. `StreamInv` therefore follows the messages
of a sender through six stages: the application's queue, the connect request (a
CONNECT is the first item of its client), the frame a machine is sending, the
wire, the machine that waits in a delivery, and what was handed over. Its parts:

* `Ordered`: an item of an earlier stage comes after every item of the same
  sender in a later stage, and within the queue and the wire order is that of
  the sequence (`QueueOrder`, `WireOrder`). A step moves one item a stage or more
  ahead (`MoveStep`), or moves none (`QuietStep`, `ShrinkStep`); frames that get
  lost only take items away.
* `WireLocal`, `MachLocal`, `TablesLocal`: a sender's items travel only in the
  direction away from its own peer, so there is one machine that sends and one
  that delivers; without this two machines could hold items of one sender in the
  same stage.
* `Numbered`, `Fresh`, `RequestsOnce`, `SocketsRequested`: numbers do not exceed
  what was sent, a request is made once, and the service's end has sent nothing
  before its CONNECT arrived. This is what lets a channel be created afresh
  without a second message of the same number.

From it follows `OnlyCrossTalkReorders`: on a wire that may lose DATA frames,
`InOrder` holds in every state in which `NoCrossTalk` does.

### The mpsc channel

`PipeProofs` has what holds whatever the positions do: the types and
`CloseReasonIsTrue`. Its invariant `AInv` says which accesses are whose
(`PlaceInv`), that the waiters of `prod_wait` are the waiting senders, each once
(`WaiterInv`), who has an index (`HoldInv`), that the count in the state word is
the number of handles and only the last one closes (`LiveInv`), and what each
CLOSED bit and each step of `close_with_error` implies (`CloseInv`).

`WaitingSenderIsWoken` is in `PipeProofs` too: no wakeup of `prod_wait` is lost
(`WaiterHasWaker`). A WaitQueue stores one wakeup, which may stand for several
freed indices, so a sender can wait although an index is free; what makes that
safe is that another index is then in use, or somebody is about to announce or
to take one. The property is not inductive, since a sender decides to wait some
steps before it is in the queue. `WakeupInv` adds that a waiting sender is queued
and that nothing is stored while somebody is (`QueuedInv`), that whoever sets
CLOSED in the tail goes on to close the WaitQueue (`ClosingInv`), and the property
itself for senders that are still on their way to the queue, with a stored
wakeup as one more way out (`ComingInv`).

`QueueProofs` and `MessageProofs` assume `NoWrap`: the senders are finitely many
and all they send, and one lap more, fits in the positions. The code does not
guarantee that. `pipe_wrap`, and `pipe_safety` with a smaller `PosMod`, show that it is
needed: without it `NothingStranded` and `NoPanic` are false. The theorems are
therefore about the first `PosMod - MAX_CAPACITY` messages of a channel, 960 in
the code.

* `CommitNeverPanics`, `IndexOwnershipIsUnique`, from `QInv`. `NoPanic` is not
  inductive: whether a sender that has slept finds its slot ahead of its tail or
  behind depends on every step since. `SlotInv` gives the sequence number of each
  slot of the lap that is in use in terms of head, tail and the senders that are
  between the compare-exchange and the store; `SenderInv` says that a slot is
  never behind a tail that somebody has loaded, however old that is; `PosInv`
  counts the messages that were given a position, so that `NoWrap` bounds the
  tail; `OwnInv` and `FullInv` are `IndexOwnership` without cardinalities.
* `MessagesComeInOrder`, `NoMessageIsStranded`, `DisconnectedComesLast` and
  `CommittedIsNotLeft`, from `MInv`. It adds what the cells outside the queue hold
  (`CellInv`), that the messages from head to tail are just those sent and not
  received, in order for each sender (`OrderInv`), where a message that is never
  received ends (`LeftInv`), who will wake a receiver that goes to sleep on a
  message (`WakeInv`), and that the end is reported after the last message
  (`EndInv`).
* `QueueImplementsChannel`: `Spec => ImplementsChannel`. The compare-exchange of the
  tail is `Channel`'s Send (`SendChannel`), that of the head its Recv
  (`RecvChannel`), the reclaiming of a dropped channel's elements its Discard
  (`DiscardChannel`); the CLOSED bits, the error bits and the handles are its
  closing. Every other step leaves the abstract state as it is, which for the
  buffer means that the message of each position is the same before and after
  a sender stores its slot (`ChanBufKept`, `ChanFrame`). `MInv` is used for each.

### Oneshot

No hypothesis but the type of the constants. `IInv` says that at most one handle
is between its claim and its end (`SenderInv`), that a receiver that takes a value
excludes all handles unless the channel was closed under an erased reference
(`TakingInv`), and that the cell holds the last value wherever somebody relies on
it (`ValueInv`). `SentInv` says that SENT never comes without HAS_TX as long as
the channel is open, which makes a branch of `close` dead code
(`CloseDropsNothing`). `SentReceiverIsWoken` is the safety half of `SendWakes`, for
any number of handles and sends: a `recv` that is parked with a value in the cell
has a sender that is about to wake it, although SENT, RX_WAITING and the waker
are written by the two sides in any order.

### SerBox

All theorems assume `~Overlap`: no Sharer is dropped or made in the middle of a
Consumer's drop. Without it `DroppedOnce` is false (`serbox_overlap`). The
invariant says what each flag means (`FlagInv`), that there is one value and one
Consumer of it (`ValueInv`), and that a handle that frees the memory is the last
(`MemoryInv`). `ParkedSharerIsWoken`, the safety half of `ConsumerWakes`, needs
the same for a Sharer that is about to park and finds no wakeup stored
(`WakerInv`): the flag that sent it there is that of a Consumer whose drop still
has its wakeup to come.

### BiDi and the request/response client

No hypothesis but the types of the constants, with `SeqMod` as small as 1.
`ResponseIsOwn` needs that a request has at most one message under way, in one of
four places (`OnceInv`), that a message under way carries the number its request
waits under unless that was cancelled or mistaken (`MatchInv`), and that no two
waiters share a number (`WaiterInv`). `ErrorComesFirst` and
`DispatcherUndisturbed` need that ERRORING is set just while somebody is about to
set ERRORED (`ErrorInv`), that there is one dispatcher and who may have closed the
map (`DispatcherInv`). `BothAreOver` and the action property
`ErrorIsReturnedOnce` need what the two flags of `wait` and its place say about
the halves (`WaitInv`).

### What is only model-checked

* Liveness (`link_live`, `pipe_live`, `SenderReturns`, `SendWakes`,
  `ConsumerWakes`, `RequestsResolve`), which is out of the prover's reach. Of
  the waits of tricky-pipe, `NothingStranded`, `WaiterHasWaker`, `SentHasWaker` and
  `SharerHasWaker` say the part that is safety, and are theorems. `pipe_safety`
  checks the first two. The last two are in no run: the runs check the liveness
  that rests on them (`SendWakes`, `ConsumerWakes`), which a lost wakeup violates.
* `NoCrossTalk`, which is false in general: it holds in the instance of
  `link_safety` and is violated in that of `link_crosstalk`. `DeadIsDead` is false
  too, which `link_dead` shows, and no passing run has it. `InOrder` speaks of one stream at an application, which cross-talk
  can mix with another, so it is not a theorem for any number of clients;
  `StreamsCorrect` and `OnlyCrossTalkReorders` are the part of it that is. That no
  message is missing on a wire that loses none is checked in `link_safety` only.

## Not modelled

* Frames that cannot be decoded, which are logged and skipped; frames for the
  interface itself, a `todo!()`; the end of the connect request stream, after
  which `run` only stops to listen to it.
* A second `connect` on one Connector as a composition with the interface: what
  the oneshot does when its sender is still with the machine is in `Oneshot`.
  `Channels::from_static` is a `todo!()`.
* `deser_sender` of a static pipe, which does not count the handle it makes
  (`static_impl.rs:94`): dropping that handle takes a count away from the others.
  Otherwise a static pipe is the modelled one with a root that is never dropped,
  so that it never tells its receiver that the senders are gone.
* Dropping a `reserve` future that is queued in `prod_wait`. It is up to
  maitake-sync's WaitQueue to hand on the wakeup that such a future has been given
  and not used.
* `Receiver::close` of a oneshot beside a `recv` that is parked. It takes `&self`,
  so two tasks could; the receiver's calls are made one after another here.
* A second call of an erased oneshot receiver while a reference it returned is
  still held, which gives two references to one value.
* Reference counts of heap storage; vtables and casts; `len`, `remaining`,
  `is_full` and the like, which only read (`len` takes the head for both ends and
  is always 0, `channel_core.rs:377`).
* Fairness between the connections of one interface: `next_outbound` scans from
  the first entry every time, and nothing is promised.
* The shim for loom (`loom.rs`), PlugTail, framing and type names: no behaviour of
  their own that a channel or a connection depends on.

## Plan

1. *Done*: connection table and link with a wire that fails; mpsc core and the
   FIFO it implements; oneshot with its erased receiver; SerBox; BiDi; the
   request/response client. Proofs of the safety invariants of each but two
   of `Link`, of the order of streams in `Link`, of the wakeups of tricky-pipe,
   and of the refinement.
2. Left for `Link`: that no message is missing at an end without cross-talk on a
   wire that loses none. It takes an invariant about which socket pairs can
   exchange frames while an ID is being reused.
