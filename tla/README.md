# ezgrpc2: a TLA+ verification development

ezgrpc2 is a C library for gRPC servers on top of nghttp2. One thread owns a
server, polls it and receives *events*; it may hand the work to a pool of
threads, and sends answers through the session functions of the server. This
directory holds models of its parts, the TLC configurations that check them and
TLAPS proofs of what matters most. All line numbers are those of the files in
`src/src/`, unless another directory is named.

## Inventory

| component | state | operations | interacts with |
|---|---|---|---|
| Pollable thread pool, `ezgrpc2_pthpool.c` | `queue`, `finished`, `running`, `live`, `stop` under one mutex and one condition variable; the task structures | new, add_task, add_task2, poll, is_empty, stop_and_join, free; the worker loop | the application, its task functions and clean-up handlers |
| Event store, `ezgrpc2_events.c` | a list of blocks of events, `windex` | new, write, read, free | written by sessions and callbacks, read by the application |
| Receive path, `internal_nghttp2_callbacks.c` | per stream: path, receive buffer `recv_data`/`recv_len`; per session: `lstreams` | on_begin_headers, on_header, on_frame_recv, on_data_chunk_recv, on_stream_close, parse_grpc_message | nghttp2, event store |
| Poll loop and session table, `ezgrpc2_server.c`, `internal_helpers.c`, `ezgrpc2_session.c` | `fds`, `sessions` (one slot per connection), sockets | new, poll, free, session_add / free / find / events, stream_send, stream_end, session_end | sockets, nghttp2, event store, application |
| Send path, `internal_nghttp2_callbacks.c:62-131`, `ezgrpc2_session.c` | per stream: `lqueue_omessages`, `is_trunc`, `trunc_seek` | stream_send, data_source_read_callback2, stream_end | nghttp2 |
| Examples, `examples/*_threaded.c` | the loop, two pools, the event store, `sigterm_flag`, userdata of tasks | handle_events, handle_thread_pool, callbacks | all of the above, as a user of the library |
| wepoll, `wepoll.c` (epoll for Windows) | ports with socket states, update and deleted queues, poll groups; the global handle tree; a reference lock in each port | epoll_create, epoll_ctl, epoll_wait, epoll_close | server, the Windows kernel |
| List, `ezgrpc2_list.c` | doubly linked list | push, pop, peek, find, remove, concat | all of the above |
| Service paths, `ezgrpc2_server.c:329-351` | array of paths, `nb_paths` | register_path, unregister_path | receive path |
| Internal pool and log, `thpool.c`, `ezgrpc2_server.c:38-210, 354-421` | as the pollable pool, without results; the listening sockets | init, add_task, free; server_new, server_log, server_free | server |
| Settings, status strings, headers, session_info, global | plain fields and tables | setters | server |
| Arenas, ring, message batches | | | nothing |

What makes each of them correct, and hard:

* **Pool.** Workers, the owner and task functions interleave; deadlines pass
  while tasks wait; `stop` may come at any point; a thread may not start. No
  task may be lost, run twice, or be visible before it is complete; nobody may
  sleep while there is work; `is_empty` must not lie; `free` must leave nobody
  running and clean every task once.
* **Event store.** One index says both "how full is the last block" and "there
  is no block". Reads and writes alternate at every fill level; first-in
  first-out order must survive.
* **Receive path.** Bytes arrive cut at every position, in frames and chunks,
  on several streams; streams end properly, early, by reset or with the
  session. Messages must be what was sent, the end reported once, the list of
  streams must agree with nghttp2.
* **Poll loop.** What `poll()` reported is used after other slots were served;
  clients come, stall and go at any time; slots and array indices are reused
  while the application holds old uuids. Two parallel arrays, open descriptors
  and events must agree, and nobody may be starved.
* **Send path.** Messages are framed into buffers that end anywhere, over
  several calls, with trailers behind them. No byte may be lost or doubled at
  a cut.
* **Examples.** A loop that may sleep ten seconds decides so from two pools it
  does not lock; answers come back when the stream, the session or the server
  may be gone; who frees a message list depends on where its task died.
* **wepoll.** A socket has one poll request at a time in the kernel, which goes
  on while other threads change what is asked for, delete the socket and add
  it again; a port is closed under waiting threads and its handle value reused.
* **List, paths, tree.** Pointers at the ends, a table with a count, rotations.
* **Log pool.** Lines in order, through failures of server_new and the end.

`PROJECT.json` lists the hazards with their lines, and which property covers
each.

## Modules

| module | models | role |
|---|---|---|
| `TaskPool` | what `ezgrpc2_pthpool.h` promises | abstract specification, no threads |
| `Pthpool` | `ezgrpc2_pthpool.c` | one action per critical section; implements `TaskPool` |
| `PthpoolProofs` | | invariant and proofs, for every value of the constants, the refinement of `TaskPool` included |
| `EventStream` | what a reader of events may rely on | abstract specification |
| `Events` | `ezgrpc2_events.c` | blocks and `windex`; implements `EventStream` |
| `EventsProofs` | | invariants and proofs for the event store and for `List`, refinements included |
| `RecvPath` | receiving half of `internal_nghttp2_callbacks.c` | frames, chunks, streams, bytes of messages |
| `RecvPathProofs` | | the parser by induction, invariant, proofs |
| `SendStream` | sending half, and stream_send / stream_end for one stream | queue, buffers, bytes on the wire |
| `SendStreamProofs` | | the loop of the callback by iteration, invariant, proofs |
| `Server` | `ezgrpc2_server.c`, session part of `internal_helpers.c`, `ezgrpc2_session.c` | poll loop, slots, sockets, uuids, flushing |
| `ServerProofs` | | invariants and proofs, for the loop, for `ServerLife` and for `PathTable` |
| `ServerLife` | server_new, server_free, the log, `thpool.c` | opening with failures, the log pool, closing |
| `Service` | both examples | composes `EventStream` and two `TaskPool`s with streams |
| `ServiceProofs` | | the order a pool keeps, invariant, proofs |
| `Deque` | the deque that `ezgrpc2_list.c` is for its callers (not the one its header describes, see the findings) | abstract specification |
| `List` | `ezgrpc2_list.c` | nodes and pointers; implements `Deque` |
| `PathTable` | register_path, unregister_path, the search of on_header_callback | |
| `RbTree` | the tree of `wepoll.c` | |
| `Wepoll` | one port of `wepoll.c` | critical sections, the kernel, the IOCP |
| `WepollProofs` | | one lemma per function of the port, invariant, proofs |
| `HandleTable` | handle table and reference lock of `wepoll.c` | who may touch a port, and when it is freed |
| `HandleTableProofs` | | invariant and proofs |
| `MCContainers`, `MCRecvPath`, `MCServer`, `MCWepoll` | | values and bounds for TLC; the first puts the event store, `List`, `PathTable`, `RbTree` and `ServerLife`, which share nothing, into one run |

The composition goes through abstractions: `Pthpool` implements `TaskPool` and
`Events` implements `EventStream` (both proved), and `Service` instantiates those
two, so that what is checked of the service rests on what is proved of its parts.

Operators under a comment that starts with "Mutant" are plausible wrong versions
of the definition that follows them. They are used by no specification;
substituted for that definition, they show that the property named with them in
`PROJECT.json` notices the mistake.

### Pthpool

The mutex makes each critical section one step. A worker is at `start`
(before `live++`), `idle` (about to test the queue), `waiting` (in
`pthread_cond_wait`), `popped` (task taken, mutex released), `exec` (in the
task's function), `finish` (result complete, not yet published) or `exited`.
`Take`, `Expire`, `Call`, `Return`, `Finish`, `Wait`, `Exit` are the steps of
`worker`; `SpuriousWakeup` is what POSIX allows. `AddTask` covers both
add_task functions, with the broadcast in it. The owner is in at most one call
(`owner`), since one thread owns a pool: `CreateThread` and `NewReturns` are
new, `Poll` is poll, `BeginStop`, `Join`, `StopReturns`, `Cleanup` are
stop_and_join and free. The one read outside the mutex is the wait for `live`
in new; it appears as `NewReturns` / `NewSpins`. `submitted`, `taken`, `ran`,
`joins` and `cleaned` are history.

### Events

The list is a sequence of arrays of `BLOCK` cells; cells that were never
written hold `Garbage`. `Read` hands out one block or the filled part of the
last one, as the code does; `Write` opens a block when `windex` says so;
`WriteFails` is the failed `malloc`, `FreeRead` the loop of events_free.

### RecvPath

nghttp2 is external: it delivers, per frame, the callbacks in the order its
documentation gives; frames of different streams alternate but are not
nested. A client has, on each stream, one of `Wires` to send, and the model
cuts it into chunks and frames in every way. The bytes are real bytes of a
small base: header, length and payload are told apart only by position, as in
`parse_grpc_message`, and its 32-bit sum wraps at `Base^4`. `memcpy` on
overlapping regions is undefined; `CopyOrders` lets it copy upwards or
downwards, and `exact` remembers whether a copy came out as memmove's would.
`frame` is the stream whose DATA frame is being received, of which there is at
most one.

### SendStream

`StreamSend` appends a list of messages and submits a data source, which nghttp2
refuses while it has one; `StreamEnd` queues the trailers, which are a HEADERS
frame and so go before DATA. `PackData(b)` is one call of
`data_source_read_callback2` with a buffer of `b` bytes: `Turn` is one turn of
its loop, `Fill` the loop. A byte on the wire is a pair (message, position), so
that a lost, repeated or misplaced byte is visible, and a byte nobody wrote
is `Garbage` (`PackShort`: a buffer of less than five bytes). A message of no
bytes ends in the assert at line 95. `CloseStream` frees the stream.

### Server

One thread; `pc` says where it is: in the application, at one of the two
accepts, at a slot, flushing a slot, or in a send. Between any two of its
system calls clients connect, send, stop reading, read again and hang up.
`Poll` stores what `poll()` reports in `revents`; `Accept`, which succeeds
(`Take`) or fails (`TakeNone`: -1, and the connection stays in the backlog),
`SkipSlot`, `HangupSlot`, `FailSlot`, `Receive`, `ReadEnds` and `Flush` are the
passes of the loop. `Receive` is one read of nghttp2_session_recv, which goes on
until a read would block (`ReadEnds`): a client may send more in between, and so
keep the thread there. What a client may send (`Sends`) is a request, or "ping",
which stands for the frames nghttp2 answers by itself, as often as it likes.
The application calls `StreamSend`, `StreamEnd` and `SessionEnd` with every
uuid it was ever given (`Handles`), and `ServerFree` at any time it has
control. A connection's identity stands for its descriptor and for the random
part of its uuid. nghttp2 is reduced to which frames it still has to send and
what want_read / want_write answer.

### ServerLife

The thread of the server goes through thpool_init, the steps of opening each
configured address (`Steps`, each of which may fail: `OpenFails` is `goto err`),
the allocation of the tables, service, and server_free: close by way of `fds`
(`descriptors` in the model), stop, join, clean up, `free(pool)`. The logger
thread is `WorkerStarts` ... `WorkerExits`, one action per critical section. A
line is the number of its logging.

### Service

The loop of the examples, `threaded` choosing which: `LoopTop` decides the
time-out from `is_pool_empty`, `PollReturns` ends a poll (inside which
`Arrives`, `Cancels` and `SessionLost` happen), `EventsRead`, `HandleEvent` /
`HandleInline` are handle_events, `PollOrdered` ... `ResultsDone` are
handle_thread_pool for each pool, the rest is the way out. Event store and
pools are instances of the abstract specifications; how many workers a pool
has (`Workers`), and that a worker is a thread, is added here. An answer on a
stream that is gone does nothing; one that fails leaves the session `broken`.

### List, PathTable, RbTree

`List` has a heap of nodes with `next`, `prev`, `data`, and `front`, `back`,
`count` per list; every assignment of the C functions is there, in one step per
call since no list is shared without a lock. `Walk` is a loop along `next`, as
find, remove and foreach make it, for as many rounds as there are nodes;
`WellLinked` says that it ends where `count` says, at `back`. `Forward` is what
such a loop visits, and the refinement mapping. `PathTable` keeps the array and
`nb_paths`, the test of `paths[0]` in the search loop included. `RbTree` is the
tree with `child`, `parent` and `red` as functions of the key, both macros
(rotation, rebalancing) as operators over a side.

### Wepoll and HandleTable

`Wepoll` is one port. A socket state has the code's `user_events`,
`pending_events`, `poll_status`, `delete_pending` and poll group; `io` is the
kernel's side: a request pending, cancelled, or its result. Every critical
section under the port's lock is one action, written as a function of the
port's state because the code's helpers call each other there (`Delete`,
`Update`, `Feed`, ...): `CtlAdd`, `CtlMod`, `CtlDel` are epoll_ctl, `EnterPort`
to `WaitReturns` are epoll_wait with the lock free in the kernel wait,
`Unlist`, `PortClose`, `PortDelete` are epoll_close. The kernel completes,
fails, cancels, or refuses a request, and may refuse to cancel one
(`MayNotCancel`): `SockUpdate` then gives up, and `DeleteUncancelled` keeps the
object until its request ends of itself. An application may close a socket that
is in the set. The masks of a deleted object are never read again, and the model
forgets them (`Mark`).

`HandleTable` is what is around a port: the tree under its lock, the reference
lock with the keyed event as a rendezvous, the kernel's handle values that may
be given out again once the IOCP is closed. The read of `iocp_handle` after
the lock was left (`ReadHandle`, `EnterWait`) is two steps.

## Runs

| run | states | question | bounds |
|---|---|---|---|
| `pool` | 355 thousand | can any interleaving lose, repeat, overtake or half-publish a task, or lose a wake-up; are queued tasks served; does free return; is `TaskPool` implemented? | 2 workers, 3 tasks, deadlines 0 (none) and 1, clock up to 2, pthread_create may fail, stop_and_join before free or not |
| `containers` | 307 thousand | is the event store a first-in first-out stream; are lists of nodes sequences; is a path found exactly when it is registered; is the tree searchable and balanced; do log lines keep their order through failures and the end? | one container, or the log, per behaviour: blocks of 3, 11 events (several blocks are filled, crossed and drained); 2 lists, 4 nodes, 2 data; 4 paths in a table of 3; 8 keys; for the log both addresses, every step may fail, 5 lines |
| `recv_streams` | 244 thousand | buffers, delivered messages, final events, list of streams | 2 streams, wires of up to 16 bytes chosen for what their payloads look like as headers, buffer of 14, both copy orders, trailers |
| `send_stream` | 26 thousand | are messages framed without loss in buffers that end anywhere, and sent in the end? | 3 messages of 1, 2 or 9 bytes, buffers of 1, 4, 5, 6, 7, 10, 19 bytes |
| `server_loop` | 225 thousand | do table, events, descriptors and uuids agree; is every client dealt with, also beside one that is never quiet, and when accept() fails? | 2 slots, 3 connections over both listeners, of which one sends a request; or 2 connections, of which one sends a request and the other pings without end |
| `service` | 483 thousand | are replies in order, lists freed once, requests answered, and does the loop never sleep on work? | 1 unary and 1 streaming stream, 3 events, both examples |
| `wepoll` | 2.6 million | is a socket ever unwatched, an object freed too early or late, a poll group out of place? | 2 threads, 2 sockets of which 1 may be closed, 2 objects, groups of 1, 2 masks, refused polls and refused cancels |
| `handles` | 32 thousand | is a port ever freed under a user, a handle found twice; does epoll_close return? | 3 threads, 2 ports, 2 handle values |
| `recv_dataloss` | stops | comment: DATALOSS means a truncated last message | 1 stream |
| `send_empty` | stops | the assert of data_source_read_callback2 | messages of 0 and 1 byte |
| `server_free` | stops | README: server_free is what ends a server | 1 address |
| `pool_cleanup` | stops | header: ret_cleanup is for what an executed function returned | 1 worker, 1 task with a deadline |

The last four end in a counterexample; each is a finding described below.

Why the bounds suffice. Two workers are the least that race for a task and for
the last signal; three tasks leave one queued while both are busy and let one
overtake another. Blocks of three with eleven events have each block begun,
inner and full cells and every relation of reader and writer, also the reader
catching up in the middle of a block. Four nodes give a list a first, a last and
two inner ones, or two lists something to concatenate; every insertion and
deletion order of up to eight keys reaches each case of both rebalancing macros.
The wires contain an empty message, messages with payloads that read as headers,
one whose length makes the 32-bit sum wrap, and one that overflows the buffer;
the second stream is there for the lists and the session's death, for which its
content does not matter. Buffers of one and four bytes are too short for a
header, five to seven end a frame behind or just inside one, ten and nineteen
leave room for a second. Three connections for two slots make one client wait
to be turned away or take a slot used before, so that an old uuid meets a new
session. To keep the states few, a behaviour of `server_loop` is of one of two
kinds, which only restrict clients (`MCServer`): a crowd, of three clients of
which the first sends a request; or a busy server, with two clients, of which
the second sends again and again, so that its slot is ready at every poll and,
at times, at every read. All of them stall, read and hang up. In `service` three events are enough for a batch to
arrive while the one before it is in a pool and the one before that is being
answered. In `wepoll` two objects let a socket be deleted and added again while
the request of its first object is pending, and groups of one make every second
object need a new group, or find one that was left. In `handles` three threads
are a closer, a user, and one that is given the closed handle's value. The
safety properties of the pool, the event store, the receive path, the send path,
the poll loop, the service, the port of wepoll, the handle table, the list, the
path table and the log do not depend on bounds at all: they are proved.

Deadlock is checked in every run: where a component stops for good (`Over`,
`Freed`, `Done`) the module says so with a step that changes nothing.

### Fairness

* Pool: weak fairness of each worker (the scheduler runs every thread, a mutex
  is free again and again, a task's function returns), and of the owner's
  progress *within* a call (creating threads, joining, cleaning). That the
  owner calls anything is never assumed: `QueuedIsServed` allows `stop`
  instead, `FreeTerminates` starts at the call.
* Server: the thread runs on within a pass (`WF(ServerStep)`), the
  application's loop comes back to `ezgrpc2_server_poll` however often it calls
  something else in between (`SF(Poll)`: both examples poll at the head of
  their loop). That is `ServerFairness`, which the code and its callers justify.
  The two liveness properties need two assumptions more, about what is outside:
  * `ClientFairness`: clients read what they are sent (`WF(Reads)`), without
    which the write loops spin, see below; and no client sends for ever at least
    as fast as the thread reads (`SF(ReadEnds)`): nghttp2_session_recv reads
    until recv() would block (internal_helpers.c:364), and nothing bounds it. A
    client may send again and again, and so be ready at every poll; it may not
    fill every gap between two reads. Without either, TLC refutes
    `NothingStaysReady` and `BacklogIsTaken`.
  * `AcceptFairness`: accept() does not fail for ever while connections wait
    (internal_helpers.c:319-323). It may fail any number of times, on either
    listener. A process that has run out of descriptors for good breaks this
    assumption, and the hang-up branch, which forgets its descriptor without
    closing it, leads there: then `BacklogIsTaken` fails, as it does in TLC
    without this conjunct. (Strong fairness of accepting on one listener or the
    other is enough, since there are finitely many connections.)
* SendStream: the peer opens the window again and again, so that a DATA frame
  is packed (`WF` over all buffer sizes, not for one of them), and trailers go
  out. That an application sends or ends anything is not assumed.
* Service: the loop, in which a poll ends by its time-out, and each pool's
  workers. Nothing makes clients, signals or failures happen.
* HandleTable: each thread within its call. Completions are not assumed: a
  thread may wait in the kernel for ever, unless its IOCP is closed.
* The other modules state safety only.

## Proofs

Each theorem is about every value of its module's constants, under the
assumptions named there (`ASSUME`): sets of threads are finite where they are
counted, sizes are positive, deadlines and lengths are numbers, `None` is none
of the things it stands beside. Nothing else is assumed. The shape is the same
everywhere: an invariant `IInv` that TLC has checked on the run of the module,
one lemma per action that the action keeps it, `Spec => []IInv`, and the
properties as consequences.

`PthpoolProofs`. The properties are not inductive one by one: that a result is
frozen needs that a busy worker's task is not published; that needs that a
popped task was never popped before; and that needs that submissions are
distinct and the queue is what was submitted and not taken. `IInv` collects
this:

* `Types`; `CountersExact` (running and live are cardinalities);
  `NoLostWakeup`; `Lifecycle` (threads not yet created are "none", joined ones
  have exited);
* `Order`: submitted = taken followed by queue, without repetition;
* `Apart`: what busy workers hold is taken, pairwise different and not
  published; all that is taken is published or held;
* `Outcomes`: how far each task is at each of these stages;
* `Collected`: what became of tasks nobody collected when the pool is freed.

From `[]IInv` follow `TypeCorrect`, `CountersCorrect`, `WakeupsKept`,
`OrderKept`, `OutcomesCorrect`, `EmptyAnswerCorrect` and, as an action
property, `PublishedFinal`; with it, `HandOutCorrect`: a pool that new returns
has all its threads (equal cardinalities of registered threads and threads).
`TypeOK`, `CountersExact`, `SubmissionOrder` and `HandedOutComplete` are not
properties of the run `pool`, since the theorems cover them entirely.

Beside `IInv`, `Ledger` says that results never repeat a task, what was queued or
taken was submitted, the join loop has joined what it has passed, and clean-up
handlers are called by free alone, as often as the place of a task demands.
From it follow `FreeReleasesAll`, `TasksInOnePlace`, and `ReorderingBounded`: a
task overtakes fewer others than there are threads, because whatever a result
has overtaken is still held, each by another thread. `PoolRefines` is the
refinement: every step of the pool is a step of `TaskPool` or a stutter.
Critical sections that only wake, register or wait are silent; `AddTask`,
`Take` with its deadline, `Finish` and the clean-up each map to the abstract
action of the same purpose.

`EventsProofs`: `StoreCorrect` (the inductive invariant: type, meaning of
windex, cells hold what is written and not read, the output is a prefix),
`EventsInOrder`, `NothingLeftBehind`, and `StoreIsStream`: the store implements
`EventStream`.

Its second half is about `List`. `ListInv` says that for each list there is a
sequence of nodes that it stands for (`Stands`): each node of it points to its
neighbours and holds something (`Linked`), the three fields agree with it
(`Bounded`), no node is in it twice (`Once`), or in that of another list
(`Disjoint`). The code's loops are bounded by the heap because a sequence
without repetition is no longer than the set it is taken from
(`NoLongerThanHeap`), so that a walk along `next` comes to the nodes of the
sequence and then to NULL (`WalkIs`). What the calls do to the links is of two
kinds: a node is taken out at some place (`Untied`, in pop and remove), or the
end of one sequence is tied to the beginning of another (`Tied`, in push and
concat). `CutKeeps` and `JoinKeeps` say of each kind what the lists hold
afterwards, `Rewired` that all other lists hold what they held; one lemma per
operation applies them. Theorems: `ListInvariance`; `ListsLinked`, that the
list is `WellLinked`, so that foreach, find and remove end; and `ListIsDeque`:
the list implements `Deque`. `WellLinked` says what `ListInv` does without a
quantifier over sequences, and TLC has checked it in that form before the
proof; it is not a property of the run `containers`, since its theorem covers
it entirely.

`RecvPathProofs`. First the parser, a recursive function on a buffer. What it
computes is proved for all buffers by induction from the buffer's end to its
start (`Downward`, about sets of places): where the loop stops (`ParseStops`),
that what it pushes are complete messages of the buffer (`ParsePlaces`), and
that such a message is a slice of it, big-endian length included
(`MessageIsSlice`). `IInv` then says of each stream how far it is (`Phase`),
that its buffer is the last bytes received (`Buffered`), what its events hold
(`Delivered`), that no complete message waits (`Drained`) and that it has its
final event exactly once it has ended (`Ended`); of the session, that the list
of streams is that of nghttp2, in order. Theorems: `ListExact`,
`BufferHoldsLastBytes`, `MessagesAreVerbatim`, `NothingLeftBehind`,
`OneFinalEvent`. Two more say how far their hypotheses reach:
`AssertNeedsTrailers` (without trailers the assert of on_stream_close holds;
with them it fails, see below), and `CopyingUpIsExact` (if memcpy copies
upwards, no overlapping copy goes wrong, so that the theorems about exact
streams are about all streams). For a memcpy that copies downwards, they say
nothing of a stream whose copy came out wrong.

`SendStreamProofs`. The three fields of a stream, `lqueue_omessages`,
`is_trunc` and `trunc_seek`, stand for a place in what the messages accepted
look like on the wire (`Place`), and `IInv` says that all before that place has
been sent. The loop of `data_source_read_callback2` is a recursive function;
its value exists by iteration (`Iterates`), and a set of loop states that each
turn stays in is the loop's invariant (`Loop(b)`: within the buffer, and the
place moved on by what was written). Theorems: `WireInOrder`, which has no
hypothesis on lengths or buffers, and, if no message is empty,
`BuffersFilled` (the callback makes progress) and `AssertNeedsEmpty` (its
assert holds). With empty messages both are false: this is the finding
`send_empty`.

`ServerProofs`. `IInv` is `SlotsAgree`, `EventsBracketSession` and
`SocketsAccounted`, which need each other, with: the index told by CONNECT is
the slot of the session (`IndexKept`), what poll() reported still holds when
its slot is served (`Polled`), a connection waiting in a backlog is new and
waits once (`Backlogged`), the slot being flushed is in use (`Working`). Since
only four things happen to the table (nothing, a request, an end, a new
session), the many actions are first classified, and each class keeps the
invariant. Theorems: `TableConsistent`, `SessionsBracketed`,
`DescriptorsAccounted`, and, as an action property, `UuidsAreNotReused`: a call
with an old uuid never reaches a new session.

Two parts of `ServerProofs` are about other modules, which it extends too. One
is about the log. `LifeInv`
says that the lines written, the one the logger thread holds and those queued
are numbered as they were logged, and that nothing is dropped before that
thread has exited. `LinesKept` follows: whichever step of server_new fails, the
log is in order, and what thpool_free drops comes last. Nor does `PathTable`
share anything with the loop. `PathInv` says that slot i holds the i-th of the
paths registered as long as they are unregistered newest first, and, by counting
the slots in use before and after each call, that there are never more of them
than `nb_paths`. `PathsFound` follows.

`ServiceProofs`, over what `TaskPool` and `EventStream` promise. What a pool
holds stands in a line: results being sent, results done, active tasks, pending
ones. `Good(R, ...)` says that what stands earlier in a line is related by `R`
to what stands later, and apart from what has left it; one lemma per pool
operation (`Submitted`, `Started`, `Completed`, `SentOff`, `DroppedAll`) keeps
it for any `R`. The line of the pool with one worker is kept by `Before`, as at
most one task is active in it; with two workers only `Apart` (different tasks)
is kept. `IInv` adds what is empty where the loop is (`Stations`), which events
became tasks and what became of these (`Accounts`), which lists that has freed
(`Lists`), that an event that ends a stream is its last (`Ends`), and that what
was answered comes before what is held for its stream (`Replies`). Theorems:
`RepliesOrdered` (a unary stream has at most one good request, so two workers
cannot swap its answers), `LoopAwake` and `ListsFreed`, for any streams and any
number of requests.

`WepollProofs`. The critical sections of a port are functions of its state `s`,
and the invariant is a predicate of it, `Sound(s, H, phase)`, where `H` is the
set of completion packets that threads have taken and not yet worked off:

* `Basic`: types, and no object twice in a queue;
* `ObjectOk`, for each object: an idle one has no request and no packet; one
  whose request the kernel watches is "pending"; a deleted one is not idle, and
  it is in the deleted queue; one that is to be watched for more is in the
  update queue; and while the IOCP is there, a request that has ended has its packet in
  it or in somebody's hands;
* `Packed`: full groups first, and the size of each is the cardinality of the
  set of objects that have it.

None of `Watched`, `ObjectsLive` and `GroupsPacked` is inductive without these.
Inside a critical section one object is out of order (`SoundBut`); each function
of the code has a lemma that says from what it leads back to `Sound`. The loops
(port__update_events, port__feed_events, port_delete) are recursive functions,
whose values exist by iteration. For port__update_events the induction goes with
the queue: each round takes its head away, or fails, so that after as many rounds
as it was long it is empty, or `refused` is set: this is why nobody polls
while something waits. `IInv` adds the threads: whose hands hold what, and that
`active` is the number of those that poll. Theorems: `NoEventLost`,
`ObjectsNeededLive`, `PackedAlways`, for any numbers of threads, sockets and
objects and any size of groups.

`HandleTableProofs`. That the references counted are those held
(`ReferencesCounted`) does not protect a port by itself: `IInv` adds where the
one thread that closes it stands (`Closers`), that the last user and the closer
meet once (`Signals`), and that table, kernel and ports agree on handles
(`Indexed`). Theorems: `PortsProtected`, and `NewHandleIsNew`: the assertion
that a new handle is not in the tree already.

Only model-checked: all liveness and fairness, and `ENABLED`, which the prover
does not take; and `RbTree`, whose operators are recursive, which the prover
does not take either. Induction over data is done here without the library's
induction theorems, whose predicate parameters the installed backends cannot
instantiate: a property is given as the set of places, or of values, that have
it, and the induction is the least element of what is missing.

## Findings

Each of these is the property of a run that fails.

* `recv_dataloss`: the parser does not step over payloads
  (internal_nghttp2_callbacks.c:42-52); complete streams end in DATALOSS.
* `send_empty`: an empty message fails the assert of the send callback
  (internal_nghttp2_callbacks.c:95).
* `server_free`: thpool_free frees the pool it is given, which the server
  embeds (ezgrpc2_server.c:378, thpool.c:157).
* `pool_cleanup`: ezgrpc2_pthpool.h:60-66 and 156-158 tie ret_cleanup to
  executed tasks and to what their functions returned; free calls it for every
  task in `finished`, expired ones included, whose function never ran and whose
  `ret` is NULL (ezgrpc2_pthpool.c:211). This is `RetCleanupOnlyAfterRun`.
  `FreedClean`, which holds, says no more than the header: a task that ran has
  ret_cleanup exactly once, one that was never taken not at all, and of one
  that expired it says nothing.

These are stated as properties too, at the end of the modules under the heading
"What the repository says and the code does not do" (in `Wepoll`, with the
properties). No run lists them; TLC refutes each when it is given as the
property of a run.

* `JoinedOnce` (Pthpool): free joins threads that stop_and_join has joined
  (ezgrpc2_pthpool.c:205); tests/pthpool.c:31-32 calls both.
* `NewTerminates` (Pthpool): a thread that was not created is waited for
  (ezgrpc2_pthpool.c:111).
* `OversizeKillsOnlyStream` (RecvPath, with a buffer of 10): the chunk callback
  returns 1 and so ends the session (internal_nghttp2_callbacks.c:625).
* `NoAssertFails` (RecvPath): on_begin_headers makes a second stream object for
  trailers (internal_nghttp2_callbacks.c:208), and the assert at line 641 fails.
* `SendReturnsAnyway` (Server, as a property of `ServerFairSpec`, without
  `WF(Reads)`): stream_send loops while the socket is full
  (ezgrpc2_session.c:107).
* `EndedStreamEnds` (Server): nothing writes trailers that did not fit, since
  slots are not polled for POLLOUT (internal_helpers.c:349).
* `NoAssertFails` (Wepoll): a thread in epoll_ctl(ADD), while another closes the
  port, needs a poll group of an IOCP that is gone, and the assert at
  wepoll.c:1445 fails.

Seen while reading and modelling:

* The send callback answers a buffer of less than five bytes with
  NGHTTP2_INTERNAL_ERROR, which is 2 and is taken for a length: two bytes
  nobody wrote are sent (internal_nghttp2_callbacks.c:71-74; `PackShort`).
* stream_end submits trailers while messages are queued; they go out first, and
  the messages never do (ezgrpc2_session.c:154). `EventuallySent` excludes it.
* A closed stream's queued messages are not freed (`CloseStream`).
* port__poll reads `iocp_handle` outside the lock (wepoll.c:1223): a thread can
  come to wait on another port that was given the same value (`Strayed`), and
  epoll_close of its own port waits for it.
* After a failed server_new the sockets it has opened stay open: server_free
  closes them by way of `fds`, which is still NULL (ezgrpc2_server.c:207).
* thpool_free leaves the nodes of its tasks and its list.
* unregister_path tests paths[0] instead of paths[i] and leaves a hole that
  register_path does not fill; `LookupExact` holds when paths are unregistered
  newest first. Streams keep a pointer to their slot, so that an event of a
  stream that began before carries the userdata of whoever has the slot now.
* A unary request whose END_STREAM comes in a frame of its own is refused by
  both examples (multi_threaded.c:115). single_threaded.c frees no message list
  of a request; both examples leave userdata of tasks pending at exit (their
  clean-up handlers are NULL), which is what `ListsFreedOnce` allows for.
* Both examples free the event store before server_free, which still writes
  DISCONNECT events to it. This is harmless only because events_free returns
  before it frees the store's own structure (ezgrpc2_events.c:59), a leak.
* An object deleted while its request could not be cancelled is freed by
  port_delete all the same (wepoll.c:1692); the kernel still has the address of
  its status block. The model's objects are unused from then on.
* The hang-up branch of the poll loop forgets its descriptor without closing it
  (ezgrpc2_server.c:249-256); `SocketsAccounted` states exactly which
  descriptors stay open.
* A client that sends a request and closes its writing side is hung up on
  before the request is read: POLLRDHUP is looked at first.
* session_end submits GOAWAY and leaves the session until the peer acts.
* README.md and the examples know EVENT_CANCEL, which no code writes: a reset
  stream is silent.
* An empty DATA frame with END_STREAM is accepted as the end
  (internal_nghttp2_callbacks.c:473-486), README.md calls it illegal.
* submit_settings passes two of its three entries (internal_helpers.c:242).
* ezgrpc2_list.h does not describe the deque of the code. It says that push_back
  adds at the front and push_front at the back (lines 28-48), that pop_front
  takes the last element and peek_front looks at the back (lines 50-73): the
  ends the other way round. And it says that find and remove take the element
  for which `cmp` returns 1 (lines 86-91, 124-129), where the code takes the one
  for which it returns 0. `Deque` is the deque of the code, on which all callers
  rely; that `List` implements it says nothing for the header.
* The return codes of add_task in ezgrpc2_pthpool.h:80-82 are not those
  returned.

## Not modelled

* **nghttp2, sockets, pthreads and the Windows kernel** are external and appear
  as the code uses them. HTTP/2 flow control appears in `SendStream` as the size
  of a buffer; in `Server` a socket is full or not.
* **SETTINGS, WINDOW_UPDATE, PING handlers** log only.
* **Settings, status strings, headers, session_info, global**: no state that
  changes. **Arenas, ring, message batches**: called by nothing.
* **ezgrpc2_server_events_poll** (ezgrpc2_server.c:279-327): an unfinished copy
  of the loop, declared in no header.
* **wepoll**: error code mapping, the lookup of the base socket, and the
  one-time initialisation. A second port, whose packets a strayed thread would
  take.
* **Internal pool**: thpool_new and thpool_stop_and_join, which have no caller;
  a thread that does not start, as in the pollable pool.
* **Out of memory**, except in the event store: nearly all callers assert.

## Plan

What is left is `RbTree`: its two macros as operators without recursion, the
descent as a recursive function, and the order, colours and depths of the tree
as an inductive invariant of them.
