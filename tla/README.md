# A TLA+ model of the RDF-Connect Python runner

The Python runner hosts the processors of a pipeline in one asyncio event loop.
An orchestrator, at the other end of a gRPC connection, tells it which
processors to start and routes messages between their channels. Most of the
runner's difficulty is in the flow control: every message and every chunk of a
stream message is acked exactly when the processors are done with it, while
processors leave, are cancelled, or never resume, and while channels close and
connections break.

This directory models that part in TLA+, model-checks small instances with TLC
and proves theorems about it with TLAPS. Paths below are relative to
`src/src/rdfc_runner/`.

## 1. The system

| Part | Source | State | Operations |
| --- | --- | --- | --- |
| Stream fan-out | `utils.py:59-178` | queues, `active`, `pending`, `chunk_handled`, `chunk_acked`, `ack_lock`, the suspension points of the pump and the generators | pump a chunk, deliver, gate, ack, handle, leave, abort, end |
| Reader | `reader.py` | consumers, `closed`, `_abort`, tasks in flight per message | `strings/streams/buffers/anys`, `handle_msg`, `handle_streaming_msg`, `close` |
| Iterators, convertors | `iterable.py`, `convertor.py` | a queue and a closed flag per consumer | `push`, `push_stream`, `close`, iterate |
| Writer | `writer.py` | `awaiting_processed`, `open_streams`, `should_close`, `_close_issued` | `buffer`, `stream`, `string`, `any`, `close`, `handled` |
| Runner lifecycle | `runner.py` | listener, transforms, `start_task`, `processors_ended` | initialise, start, run, tear down |
| Message dispatch | `runner.py:92-141` | readers and writers by channel | route a message, a `processed` or a `close` |
| Log stream | `logger.py`, `runner.py:208-221` | a queue, the RPC | log, close, flush with a timeout |
| Server | `server/app.py` | connections, `_stopping` | accept, refuse, serve, shut down |
| Server state | `server/state.py` | live runners, history, channel statistics | register, deregister, status, record |
| Socket bridge | `server/bridge.py` | two sockets, `_claimed`, two pumps | claim, pump, half-close, tear down |
| Whitelist | `server/whitelist.py` | a worklist, the files found | visit a file, follow its imports |
| Config, index, arguments, entry points | `server/config.py`, `server/index.py`, `utils.py`, `__main__.py` | none (computed once) | pure functions |

How they interact:

- The *listener* task reads the normal stream strictly one message at a time and
  calls the reader or the writer of the channel. `handle_msg` only spawns a
  task; `handle_streaming_msg` is awaited up to the control message; a
  `processed` ack resolves a future of the writer.
- A *reader* hands each message to every registered iterator, a stream message
  through a *fan-out* of its own, and acks the message on the normal stream when
  all of them asked for the next item, or when the reader closed.
- A *processor* drives its iterators, awaits its writes, and is driven by two
  tasks, `transform()` and `produce()`.
- The *runner* waits for the processors, or for the first failure, cancels the
  rest and flushes the log stream.
- The *server* accepts orchestrators up to a limit and runs one runner for each
  of them. gRPC cannot be given an accepted socket, so it dials a loopback port
  and the *bridge* pumps the bytes between the two sockets.
- A *channel* is a writer at one end and a reader at the other, with the
  orchestrator between them: the ack of the reader becomes the `processed` that
  resolves the writer's future, on the same runner or on another one.

What is hard is listed, line by line, as `hazards` in `PROJECT.json`. In short:
steps between the claim of an ack and its write; an abort racing the barrier;
consumers that never resume; streams and messages on different RPCs acked by
anonymous acks; closes deferred by streams and made by the last of them; the
many ways a run can end, racing each other; connections that end in the middle of
a handshake, a run, a teardown or a shutdown; half-closed sockets whose peers lag
or vanish.

What makes each part correct:

- *Fan-out*: one ack per chunk, in order, by one writer at a time, after all
  active consumers handled it; no chunk skipped or truncated; nobody left
  waiting, the sender first of all.
- *Reader*: one ack per message, after it was handled; in order; nothing after
  the close; every message acked in the end.
- *Writer*: a write returns for its own message; the open streams are counted
  exactly; deferred closes wait for the streams, return, and are not echoed.
- *Runner*: a normal return means all processors completed; a failure or a lost
  orchestrator ends the run, unless an `init()` hangs, and cancels what the run
  started; the trailing log records are sent before the channel closes.
- *Channel*: a write returns when the consumers at the other end are done with
  its message; a close arrives and ends their iterations.
- *Server*: places and records are given back however a handler ends; the status
  shown is the one earned; a shutdown ends and leaves nobody.
- *Bridge*: bytes and ends of file pass in order and all of them, a loss surfaces,
  the teardown returns and leaves no socket.
- *Whitelist*: exactly the processor files and what they import, transitively.

## 2. The modules

All parts run on one asyncio loop: a task is atomic between two suspensions.
One action is one such segment, and interleavings are those of tasks at their
suspension points. An `await` that completes without suspending (a free lock)
is part of the segment.

| Module | Models | Instances | Proofs |
| --- | --- | --- | --- |
| `Fanout` | `fanout_stream` | `MCFanout` | `FanoutProofs`, `FanoutBarrierProofs` |
| `ChunkBarrier` | what it promises (abstract) | `MCFanout` | `FanoutBarrierProofs` |
| `Reader` | a reader, its iterators and convertors | `MCReader` | `ReaderProofs` |
| `Writer` | a writer | `MCWriter` | `WriterProofs` |
| `Channel` | `Writer` and `Reader` composed, with the dispatch | `MCChannel` | `ChannelProofs` |
| `Runner` | a run, with its log stream | `MCRunner` | `RunnerProofs` |
| `Server` | the server and its registry, over `Whitelist` | `MCServer` | `ServerProofs` |
| `Whitelist` | the worklist over imports | `MCServer` | `ServerProofs` |
| `Bridge` | the socket bridge | `MCBridge` | `BridgeProofs` |

### Fanout (`utils.py`, `fanout_stream`)

The chunks are numbered 1, 2, .... `pump` and `gen[c]` are the positions of
`pump_source` and of the generator of consumer `c`; `ack[t]` says where task `t`
is inside `ack_chunk`: waiting for `ack_lock`, writing, or about to return. The
callback is the one `reader.py:200-206` passes: it writes the number `idx`, then
increments it, so that `DeliverAck` (the sender gets the ack) and the resumption
of the writer are two steps. The sender is external and sends what it likes
without waiting; the stream may break, the reader may close (`Abort`), a
processor may leave (`Exit`) or be cancelled while its ack is written
(`CancelAck`, which takes the call with it as grpc.aio does). The number of
registered consumers is any, zero included.

`ChunkBarrier` is the abstract specification: the docstring of `fanout_stream`
as a state machine over the chunks taken, the acks received and what each
consumer handled. `Fanout` implements it (`RefinesBarrier`).

### Reader (`reader.py`, `iterable.py`, `convertor.py`)

A level up: messages instead of chunks. `stage[m]` is where the handling of
message `m` is; `ready` is the queue of spawned tasks, which the event loop runs
in order, and the order matters: the consumers a plain message is for are those
registered when its task runs. `iq[c]` and `it[c]` are the iterator's queue and
the iteration; an item stays at the head while its processor holds it. A stream
is represented by its last chunk: in `sub[c][m]` a consumer is before it, has
handled it, or has left the substream, and `Drain` is the pump reaching the end.
That the chunks in between are acked one at a time is what `Fanout` is about.
A stream has at least one chunk. Statistics are left out.

Each consumer is of one kind: `"string"` (collects a stream, may fail to
decode), `"stream"` (also stands for `anys()`: takes a stream as it is) or
`"buffer"` (`NoConvertor` has no `from_stream`). `Kinds[c]` are the kinds consumer
`c` may be of, and `Malformed` the messages whose bytes may fail to decode. A
processor that iterates a substream asks for no further item before the substream
ends or it leaves it (`InSubstream`).

### Writer (`writer.py`)

One variable `pc[o]` per call of `buffer`, `stream` or `close`, or close issued by
the orchestrator. `string` and `any` end in the first two. The chunks of a
stream and their acks are the state `"streaming"`. Acks name no message:
`handled()` pops the oldest entry. The orchestrator (external) acks the
messages of a channel in the order in which it was told of them. Buffers reach
it in the order they were written; a stream reaches it over an RPC of its own,
whenever that is.

A call whose kind is in `Fails` may raise or be cancelled wherever it can after
its entry was made (`Fail`): a buffer while its message is built and sent
(`SendFails`: data that is no `bytes`, a write that raises, a cancellation), or
while it waits for its ack (`WaitFails`); a stream at any of its suspensions
(`StreamFails`). The entry stays in `awaiting_processed`. If the message was never
announced the entry is *stale* (`Stale`): no ack will come for it, and it takes
that of a later call.

Writes on the normal stream are not locked (`runner.py:57-58`, unlike the acks of
a fan-out), and several of them may be in flight. `SendBuffer` takes it from
grpc.aio (external) that each of them arrives in the order it was made, or raises
(`SendFails`); a write that breaks the whole stream is the loss of the
orchestrator in `Runner`.

### Channel (`runner.py:92-141`, both ends)

`Channel` instantiates `Writer` and `Reader` and binds what each of them leaves
open to the other: a message arrives at the reader when the writer announced it,
a `processed` reaches the writer when the reader acked (`Forward`), and a stream
of the writer is over when the fan-out at the other end drained it (`Drain` is a
step of both). A close sent by the writer follows its messages; dispatched, it
closes the reader and, if the writer is on the same runner (`together`), spawns
`writer.close(issued)`. The listener handles one message at a time and awaits the
opening of a stream message (`Listens`). Nothing of the two modules is repeated:
every step is one of theirs.

`Writer` assumes that the orchestrator acks messages in the order it was told of
them; `Reader` acks each message in a task of its own. `RefinesWriter` says that
the assumption holds: projected to the writer's variables the whole channel
behaves as `Writer` says. It relies on one fact about asyncio that `Reader` does
not state: tasks woken in some order run in that order, so that the acks of plain
messages leave in the order the messages were settled (`InTurn`). That they are
settled in the order they arrived is not assumed: `SettleInOrder` proves it of
`Reader`. Left out
here, because they break that order or are covered elsewhere: bytes that do not
decode (the message is acked at once, hence early), writes that fail, processors
that quit, and consumers that take substreams (`Reader`, `Fanout`).

### Runner (`runner.py`, lifecycle; `logger.py`)

Connecting, the listener, one transform and one produce task per processor,
`start_task` with the `gather()` it waits for, the future `processors_ended`,
and `run_with_channel` (`main`). `Task.cancel()` is a request: the task is
`"cancelling"` until it runs next; a cancelled `start_task` passes the request
on to what its pending `gather()` waits for, and only then. The callback
`on_start_done` is a step of its own, after `run_processors()` ended.
Initialisation, `transform()`, `produce()` and the handling of a message may
raise (`Fails`), the orchestrator may be lost and the server may cancel the run
at any moment. Messages of channels change nothing here. Processors are assumed
not to suppress a cancellation, and to be asked for before the start.

The log stream is a queue with an end mark and a task that writes it out. The
last step of the run puts the mark in and waits for the task, at most two
seconds (`FlushTimesOut`); the wait may also be cancelled. `gaveUp` records
that, and `TrailingLogsSent` is about the other runs. Records of foreign threads,
which go to stderr, are not modelled.

### Server (`server/app.py`, `server/state.py`, `server/whitelist.py`)

`main` is `serve()`: building the whitelist (by `Whitelist`'s steps), opening
the gRPC and the HTTP listener with the rollback when the second fails, service,
and the shutdown with its grace period. `at[c]` is the handler of connection `c`:
accepted, in the handshake, bringing the bridge up, running, in the teardown,
failing. A handler can raise, time out or be cancelled at each of these places;
`cancelling` holds the requests that were not raised yet. `runners`, `history`,
`status` and `nextId` are the registry. `completed` and `left` are history
variables that say what really happened, for the properties to compare with.
What the runner does inside is `Runner`; here it returns, raises or is cancelled.
The handshake line is abstracted to whether it is accepted; HTTP handlers change
nothing.

`Whitelist` is the worklist loop over `owl:imports`, on any graph of canonical
paths, with files that cannot be read. Which path is visited next is left open.

### Bridge (`server/bridge.py`)

Two sockets, `"tcp"` (the orchestrator's) and `"local"` (gRPC's). For each: its
peer, which sends, half-closes, disappears or reads late; the `StreamReader`
(`inbox`, `end`); the transport with its write buffer (`outbox`, `outEof`); and
the pump that reads from it, which waits in `read()` or in `drain()`. `pair` is
`pump_pair`, `Claim` and `RefuseDial` the loopback handler that serves one
connection and closes any further one, `exit` is `__aexit__`. Bytes are numbered
chunks, each as large as the high-water mark, so that one more in the buffer makes
`drain()` wait.

## 3. The runs

Passing runs:

| Run | Instance | Properties | Shows |
| --- | --- | --- | --- |
| `MCFanout` | 3 consumers, 2 chunks | `AckedInOrder`, `ClaimUncontended`, `StreamComplete`, `RefinesBarrier`, `AbortReleases`, `IterationSuffices` | one ack per chunk, in order, when the barrier allows; no chunk skipped, no stream cut off; after an abort every chunk is acked with no help of any processor; while processors iterate every chunk is acked and every generator ends |
| `MCReaderSafety` | 2 consumers of any kind, 2 messages | `AckMeansHandled`, `ChunksBeforeAck`, `PlainInOrder` | acked once, after handling, the chunks first; delivered in order, nothing behind the end |
| `MCReaderProgress` | a `streams()` consumer and one of strings or buffers, 2 messages, the first perhaps undecodable | `IterationSuffices`, `ClosedReaderAcks` | while processors iterate every message a consumer can take is acked, unless it is behind a stuck stream, and every closed iterator ends; a closed reader acks without the processors |
| `MCWriterCalls` | 3 calls of any kind, buffers and streams that raise at any suspension | `CountsExact`, `OwnAck`, `NoEcho`, `EveryCallReturns` | streams and acks are counted exactly, no write returns before its own message was processed, no echo of a close, every call returns that is not behind a failed stream or a stale entry |
| `MCChannel` | 2 writes and a close, 2 consumers, one runner or two | `WriteMeansHandled`, `RefinesWriter`, `EveryCallArrives` | a write returns when the other end is done with it; the reader acks as the writer counts on; every write returns, every close ends the iterations |
| `MCRunnerLifecycle` | 2 processors, 2 log records, everything may fail | `CleanReturn`, `TrailingLogsSent`, `NothingStartsAfterwards`, `LossEndsRun`, `FailureRaises`, `TransformsEnd` | a normal return is a complete run with its log; nothing starts afterwards; a loss ends the run if `init()` does, a failure makes it raise, no transform stays |
| `MCServer` | 3 connections, places for 2, 4 files, history sizes -2, 0, 1, 5 | `NothingKept`, `HistoryIsLatest`, `StatusEarned`, `WhitelistExact`, `ShutdownEnds`, `EveryConnectionEnds` | places and records are given back; history and status say what happened; a shutdown ends whatever peers do; every connection ends if its run does; the whitelist is the closure of the imports |
| `MCBridge` | 2 chunks one way, 1 the other, one dial at a time | `BytesInOrder`, `EverythingPassedOn`, `LossSurfaces`, `ExitReturns` | bytes and ends of file pass in order and all of them; a loss reaches gRPC; the teardown returns and leaves nothing |

All but `MCReaderProgress` and `MCChannel` check the type invariant of their
module as well.

The bounds, and why they are enough:

- Fan-out: three consumers are the least where one claims the ack, one leaves
  and one is late; of two chunks one is at the barrier and the other in a queue.
  For safety and the refinement the bound does not matter: they are proved for
  all (section 4).
- Reader: two messages are one being handled and one behind it; the order of acks
  and deliveries is a relation between two, on two consumers that share them.
  What the acks mean is proved for all. For progress the consumers are of
  different kinds, one of strings or of buffers that a `streams()` one may join: a
  plain message may then be behind a stream that is being collected, was left, or
  is stuck.
- Writer: three calls are two streams and the close they defer, or a stream and
  the closes of both sides, or three buffers of which one raises at its send and
  the next takes the ack of the last. Its safety is proved for all.
- Channel: two calls of processors and the close the orchestrator issues in
  return are the least in which a close overtakes, or is deferred by, a stream
  while the listener is busy; two consumers are the least whose acks could be
  given in another order than the messages.
- Runner: of two processors one fails while the other is initialised, runs or is
  cancelled; two records are one being written and one behind it. Its safety is
  proved for all.
- Server: three connections for two places are one too many; the history sizes
  are below -1, none, fewer and more than there are connections. The graph has a
  cycle, a file that cannot be read and one that only that file imports.
- Bridge: two chunks are one that is being sent while the buffer is full; a
  second dial while the first is served is the case the claim is for.

Consumers, calls, processors and connections are numbered in the order in which
they appear, which stands for all their permutations.

Runs that find a violation, each a disagreement between the code and what it
says of itself (`findings` in `PROJECT.json` quotes the lines):

| Run | What happens |
| --- | --- |
| `MCReaderBlocked` | a stream sent to a `buffers()` iterator is never acked: its sender blocks (`SenderNotBlocked`) |
| `MCWriterFailedStream` | a stream that raises is counted as open for ever: no close of the channel returns (`EveryDeferredCloseReturns`) |
| `MCRunnerLeak` | when one `produce()` raises, the others keep running after the run (`PipelineEnds`) |
| `MCServerFailedStart` | when the HTTP port is taken, the rollback waits for the orchestrators that connected in the meantime, so the failed start is not reported (`FailedStartReported`) |

Some properties of the passing runs step around behaviour the models have, and
say so where they are stated:

- `Reader!IterationSuffices` leaves out the streams a convertor raises on
  (`buffers()`, or bytes that do not decode): they are never acked as a message
  while the reader is open (`reader.py:243`). It also leaves out what is behind
  a stream that a `buffers()` iterator shares, for a `streams()` consumer that took
  that stream (`HeldUp`): the stream is never drained (`Stuck`), and an `async for`
  over its substream does not come to an end.
- `ChunksBeforeAck` accepts the global ack once every consumer is done with the
  stream. A processor that leaves a substream early is done before the remaining
  chunks are taken, so the global ack may pass theirs (`reader.py:265`).
- `PlainInOrder` speaks of plain messages. A string collected from a stream while
  the reader closes is queued behind the end and never seen (`iterable.py:33`).
- `OwnAck` and `WriteMeansHandled` speak of channels without streams that are
  open. A stream takes its place among the expected acks when the call is made
  and reaches the orchestrator on another RPC; with buffers on the same channel
  acks may be taken for each other (`writer.py:232`). Every write still returns
  (`EveryCallReturns`). Behind a close acks are released together, in any order.
- `OwnAck` leaves out nothing else: a stale entry makes the writes behind it late,
  not early.
- `EveryCallReturns` leaves out the channels on which a stream failed, the writes
  behind a stale entry, and the closes deferred while there is one. Of two writes,
  if the first raises at its send, its entry is resolved by the ack of the second,
  which then waits for one that does not come (`writer.py:153`).
- A close deferred while another one is being sent is released by that one, also
  when the stream that deferred it is still open (`writer.py:217-227`).
- `StatusEarned` lets a run that completed be shown as an error if the shutdown
  cancelled its teardown (`server/app.py:168`).
- `LossSurfaces` speaks of a loss the bridge gets to read. While a pump waits in
  `drain()` for gRPC the other side is not read.

### Fairness

`LoopFairness` (of `LoopSpec`) assumes what an event loop gives: a task that is
ready runs, a write on a live call completes or raises, a timeout fires. A
property that needs more says so itself, as `ProcessorFairness => ...` (the
processors ask for the next item, or their `produce()` and `transform()` end) or
`PeerFairness => ...` (runs end and peers read) or `InitFairness => ...`, so that
one run checks both kinds. Nothing is assumed of a processor or a peer in
`AbortReleases`, `ClosedReaderAcks` and `ShutdownEnds`, and of a processor in
`TransformsEnd` only that it lets a cancellation through.

- `Fanout` assumes nothing of the sender; in `Reader` the sender ends its streams.
- `ProcessorFairness` of `Reader` is one weak fairness per consumer, of what its
  processor does next: ask for the next item, unless it is in a substream, and
  otherwise take the substream's chunks. Being in a stuck substream it does
  neither.
- `FairSpec` of `Writer` is the event loop and the orchestrator, which acks what
  it was sent. No call has to be made.
- `Channel` replaces that assumption by the reader's code: its `LoopFairness` has
  the event loops and an orchestrator that forwards.
- `LoopFairness` of `Runner` makes no call of a processor end, and no message
  raise. The listener awaits `init()` (`runner.py:157`, called at 254) and notices
  the loss of the orchestrator only when it reads on: an `init()` that hangs while
  the stream ends keeps `run()` from ending, until the server cancels it.
  `LossEndsRun` therefore has `InitFairness` as a premise: every `init()` returns or
  raises. It says nothing of `produce()` and `transform()`.
- In `Server` the handshake times out and the grace period expires. `GraceExpires`
  comes after the cancelled runs went through their teardown as far as it goes
  without a peer: the flush of a run takes two seconds at most, the grace period
  is ten.
- `FairSpec` of `Bridge` adds that peers read what is sent to them or go away: a
  peer that does neither holds up any socket, and `Server` bounds that by its
  grace period.

Only weak fairness is used: no property needs a task to win a race again and
again. `CHECK_DEADLOCK FALSE` everywhere: streams, channels, runs and servers do
come to an end.

## 4. The proofs

Each of these modules proves, for every value of the constants, that an
inductive invariant holds and that the properties follow from it. They assume
only the `ASSUME` of the module they are about (types and bounds of constants).

| Module | Theorems |
| --- | --- |
| `FanoutProofs` | `TypeCorrect`; `AcksInOrder`: acks carry 0, 1, 2, ...; `OneWriterAtATime`; `NoChunkSkipped`: `StreamComplete` |
| `FanoutBarrierProofs` | `ClaimsAreUncontended`; `FanoutRefinesBarrier`: `Spec => Barrier!Spec`; `NoLostBarrier` |
| `ReaderProofs` | `TypeCorrect`, with the uniqueness in the queues; `AcksMeanHandled`, `AcksFollowChunks`, `PlainArriveInOrder`; `SettleInOrder`, `NoMessageIsForgotten`, `EveryEndComes` |
| `WriterProofs` | `TypeCorrect`; `CountsAreExact`, `AcksAreOwn`, `NoEchoSent`; `NoWriteIsForgotten` |
| `ChannelProofs` | `ImplementsWriter`: `Spec => W!Spec`; `WritesAreHandled`, `BuffersKeepTheirOrder` |
| `RunnerProofs` | `TypeCorrect`, `NormalReturnIsComplete`, `LogsAreFlushed`, `NothingIsStartedLate` |
| `ServerProofs` | `TypeCorrect`, `NothingIsKept`, `HistoryIsNewest`, `StatusIsEarned`; `WhitelistIsExact`, `NothingElse` |
| `BridgeProofs` | `TypeCorrect`, `BytesArriveInOrder` |

With these every invariant, action property and refinement that a passing run
checks is a theorem. Some theorems state more than the runs do; these are said to
below.

**Fan-out.** Three layers, each an inductive invariant on top of the last.
`AckInv`: `AckedInOrder` says nothing of a task that is about to write. The number
written is `idx`, which is incremented after the write returned, so the
invariant has to know that no second task reads `idx` in between: a task is inside
`ack_chunk` exactly where its program counter says (`AckPlaces`), the holder of
`ack_lock` is the one task that writes or is about to return (`LockHeld`), and on
a live stream `idx` is the number of acks, less one while a write is returning
(`Counted`). `QueueInv` adds who is in the barrier and where the end mark is; then
the chunks seen and those queued make up the chunks taken. `GateInv` adds who has
claimed the ack of the current chunk and when it may be claimed, so that a
claimer finds the lock free. `BarrierInv` adds `OwedAcks`: the chunks taken are the acks received
plus those owed by the barrier, the pump or a consumer. With it each step of
`Fanout` is a step of `ChunkBarrier` or a stutter.

`NoLostBarrier` is checked by no run. The pump that waits at the barrier waits for
somebody: either the ack was claimed, and then its writer is at work or the event
is set (`Attended`), or a consumer is pending, and by `QueueInv` it holds the
chunk or has it next in its queue.

**Reader.** `ReaderInv` has a part per place an ack depends on: the consumers
registered are the first few and hold messages (`Iterators`), a message that did
not arrive has nothing (`Fresh`), a message has one delivery in the task queue at
most (`Deliveries`), a future that is resolved is one of a consumer that is done
or gone from the message (`Futures`), a message whose ack is due or out earned it
(`Settled`), and each ack is of another message (`Acks`). The uniqueness of the
delivery is what the first claim rests on: a second one would reset the futures
of a message that is acked.

`PlainInOrder` is about what a consumer is done with, but its cause is two queues
back. `OrderInv` follows a message through them: the tasks in `ready` deliver
messages in the order of their arrival, those divided among the consumers before
those that are not (`Waiting`); what they deliver to a consumer is newer than all
it has (`Undelivered`); and its queue, behind what it handled, ascends, with the
end mark last (`Line`). Only plain messages ascend: a stream collected to a string
is queued when its last chunk was read.

`TurnInv` adds where a message is until its consumers are done with it:
as a task, as a push, or in the queue (`Handoff`), and that messages are divided in
the order they arrived among a list of consumers that only grows (`Division`).
If a later message is settled, each of its consumers handled it, hence, by
`Line`, whatever plain message it had before: so `SettleInOrder`. `Handoff` is
`NoMessageIsForgotten`, and `EveryEndComes` the same for the end of an iteration.

**Writer.** `WriterInv` relates the calls to the four queues they pass: the
entries awaited, the messages on their way, those announced, and the acks on the
way (`Places`, `Entries`, `Sent`, `Arrivals`). Acks name no message, so `OwnAck`
is an argument about order: without streams the calls resolved are an initial
segment of the sequence in which the writes were made, the calls processed one of
the same sequence without those whose send raised (`Stale`), and no more are
resolved than processed (`CountsExact`). A stale entry can only put the resolved
calls back. `IssuedKept`
carries `NoEcho` from the close that was deferred to the stream that makes it.
With streams an ack may resolve the wrong write, but by the same count it
resolves some: `NoWriteIsForgotten`, once all that was sent is processed and no ack
is on the way, leaves only those behind a stale entry (`Reached`: what is past its
sending reached the orchestrator, unless it raised).

**Channel.** `ChannelProofs` instantiates the two proof modules and adds no
invariant of the ends. The reader's variables change by steps of `Reader` only
(`ReaderStep`), so `TurnInv` holds with no further proof. That the writer's change
by steps of `Writer` is the claim itself (`WriterStep`), and needs an invariant of
the composition: no call raised, so that no entry is stale (`NoneFailed`); what
arrived was announced, with the kind of its call, and only a close that was sent
closes the reader (`Links`); until then plain messages are
acked in order and without a gap (`AckOrder`, from `InTurn` and the lemma behind
`SettleInOrder`); and what the orchestrator processed are the first of the acks
(`Forwarded`). The interesting step is `Forward`: the ack it passes on is
the first that `Writer` lets the orchestrator process (`ForwardProcesses`).
`WritesAreHandled` composes `OwnAck` of the writer with `AckMeansHandled` of the
reader. `BuffersKeepTheirOrder` composes the order of announcements
with `PlainInOrder`, and holds with streams and after a close as well.

**Runner.** `RunnerInv` says which combinations of listener, `start_task`,
`gather()` and `processors_ended` can be met (`Listening`, `Stages`, `Endings`)
and that an end mark in the log queue has no records behind it (`Logging`).

**Server.** `ServerInv` relates the places of the handlers to the registry
(`Records`), says what shutdown() waits for (`Shutting`), that the history is a prefix of
those that left (`Departures`) and which statuses are possible at which place
(`Outcomes`). The theorem holds for any limit and any history size, negative ones
included. For the whitelist: what is found and queued lies in every closed set, and the
imports of what was found are found or queued (`LoopInv`); with an empty queue
this is the least closed set, and no listener opens before that.

**Bridge.** The bytes of one direction are in three places: received by the peer,
in the write buffer, in the inbox. `Runs` says that each holds a run of
consecutive numbers, `Gapless` that the runs join unless the write buffer takes
nothing any more, and `Quiet` that, while nothing is broken, a pump ends at the
end of file only and passes it on last. `Places` says that the pumps exist exactly
from the claim on, so that one pump reads each inbox: that is what the claim is for.

Only model-checked: liveness, which needs fairness and is out of the prover's
reach. `NoLostBarrier`, `NoMessageIsForgotten`, `EveryEndComes` and
`NoWriteIsForgotten` are the safety at the bottom of it: no wait is a wait for
nothing.

## 5. Not modelled, and what is left

Not modelled because there is no behaviour in it: argument parsing, server
configuration, the index document, the dashboard, the entry points, HTTP
handlers (pure functions and I/O). Channel statistics only add up.

Parts of modelled components that are left out: log records from foreign threads
(`logger.py`, they fall back to stderr); the dispatch of messages that find no
reader or writer (they are logged); attribute injection in `processor.py`; the
text of the handshake line.

Known and not covered by a property, with the reason in `hazards`: an iterator
asked for after the close waits for ever; an `init()` that awaits a message holds
up the listener that would dispatch it; a write behind one that raised at its send
may wait for ever; a channel read by two arguments gets two
readers of which one is never reached; a message that one consumer cannot decode
is acked while another still has it.

What would come next: the same kind of theorem for what `Runner`, `Server` and
`Bridge` wait for, and a `Channel` with consumers of substreams, whose chunks are
acked by `Fanout`.
