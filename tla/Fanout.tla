-------------------------------- MODULE Fanout --------------------------------
(***************************************************************************)
(* The fan-out of one stream message to the consumers of a channel:        *)
(* fanout_stream in src/rdfc_runner/utils.py, with the acknowledgement     *)
(* callback that reader.py passes to it.                                   *)
(*                                                                         *)
(* Everything runs on one asyncio loop, so a task is atomic between two    *)
(* awaits that suspend it; an action below is one such segment.  The tasks *)
(* are the pump (pump_source) and one generator per consumer, driven by    *)
(* whoever iterates it.  Chunks are numbered 1, 2, ... in source order.    *)
(* The other end of the stream is external and assumed to do nothing in    *)
(* particular: it sends and ends as it likes, without waiting for acks.    *)
(***************************************************************************)
EXTENDS Naturals, Sequences

CONSTANTS
  Consumers,  \* the ids range(num_consumers) are drawn from
  Pump,       \* the pump task, as a holder of the ack lock
  NoTask,     \* "nobody holds the lock"
  MaxChunks   \* bound: the longest stream the sender sends

ASSUME FanoutAssumption ==
  /\ Pump \notin Consumers
  /\ NoTask \notin Consumers \cup {Pump}
  /\ MaxChunks \in Nat

VARIABLES
  rpc,      \* the receiving stream: "open", "ended" (half-closed) or "failed"
  sent,     \* chunks the sender put on the stream
  taken,    \* chunks the pump read from the source
  queue,    \* queue[c]: the consumer's asyncio.Queue
  active,   \* consumers in the barrier
  pending,  \* consumers that did not handle the chunk in flight yet
  event,    \* the chunk whose Event chunk_handled holds, 0 for None
  opened,   \* the chunks whose Event was set
  claimed,  \* chunk_acked: the ack of the chunk in flight was claimed
  acks,     \* the stream sequence numbers acked, in the order they arrived
  idx,      \* the next stream sequence number (reader.py)
  lock,     \* holder of ack_lock
  ack,      \* ack[t]: where task t is inside ack_chunk, "no" when outside
  abort,    \* the reader's _abort event
  pump,     \* where the pump is
  gen,      \* gen[c]: where the generator of c is
  mine,     \* mine[c]: the Event mark_handled captured before its ack
  seen      \* history: chunks the consumer has finished handling

source == <<rpc, sent>>
gate == <<event, opened, claimed>>
acking == <<acks, idx, lock, ack>>
fanVars == <<source, taken, queue, active, pending, gate, acking, abort, pump,
             gen, mine, seen>>

Tasks == Consumers \cup {Pump}
EndMark == 0      \* the sentinel _end; chunks are numbered from 1

\* The variables hold what the code can put in them; no chunk is taken that
\* was not sent, and the Event of the barrier belongs to a chunk taken.
TypeOK ==
  /\ rpc \in {"open", "ended", "failed"}
  /\ sent \in 0..MaxChunks /\ taken \in 0..sent /\ event \in 0..taken
  /\ queue \in [Consumers -> Seq(Nat)]
  /\ active \subseteq Consumers /\ pending \subseteq Consumers
  /\ opened \subseteq Nat
  /\ claimed \in BOOLEAN /\ abort \in BOOLEAN
  /\ acks \in Seq(Nat) /\ idx \in Nat
  /\ lock \in Tasks \cup {NoTask}
  /\ ack \in [Tasks -> {"no", "lock", "write", "return"}]
  /\ pump \in {"read", "barrier", "ack", "done"}
  /\ gen \in [Consumers ->
                {"new", "get", "hold", "mark", "close", "ended", "left"}]
  /\ mine \in [Consumers -> Nat]
  /\ seen \in [Consumers -> Nat]

\* Any number of consumers may be registered when the stream arrives, none
\* included; the others never take part.
Init ==
  /\ rpc = "open" /\ sent = 0 /\ taken = 0
  /\ queue = [c \in Consumers |-> <<>>]
  /\ active \in SUBSET Consumers
  /\ pending = {} /\ event = 0 /\ opened = {} /\ claimed = TRUE
  /\ acks = <<>> /\ idx = 0 /\ lock = NoTask /\ ack = [t \in Tasks |-> "no"]
  /\ abort = FALSE /\ pump = "read"
  /\ gen = [c \in Consumers |-> IF c \in active THEN "new" ELSE "left"]
  /\ mine = [c \in Consumers |-> 0]
  /\ seen = [c \in Consumers |-> 0]
-----------------------------------------------------------------------------
(* The other end of the stream (external), and the reader's close. *)

Send ==
  /\ rpc = "open" /\ sent < MaxChunks
  /\ sent' = sent + 1
  /\ UNCHANGED <<rpc, taken, queue, active, pending, gate, acking, abort, pump,
                 gen, mine, seen>>

EndStream ==
  /\ rpc = "open"
  /\ rpc' = "ended"
  /\ UNCHANGED <<sent, taken, queue, active, pending, gate, acking, abort,
                 pump, gen, mine, seen>>

BreakStream ==
  /\ rpc # "failed"
  /\ rpc' = "failed"
  /\ UNCHANGED <<sent, taken, queue, active, pending, gate, acking, abort,
                 pump, gen, mine, seen>>

\* ReaderInstance.close() sets the event the fan-out was given.
Abort ==
  /\ ~abort
  /\ abort' = TRUE
  /\ UNCHANGED <<source, taken, queue, active, pending, gate, acking, pump,
                 gen, mine, seen>>
-----------------------------------------------------------------------------
(* ack_chunk: serialised by ack_lock, writes the next sequence number. *)

\* Mutant: no lock around the callback.
EnterAckUnlocked(t) == lock' = t /\ ack' = [ack EXCEPT ![t] = "write"]

\* A free lock is taken without suspending.
EnterAck(t) ==
  IF lock = NoTask
  THEN lock' = t /\ ack' = [ack EXCEPT ![t] = "write"]
  ELSE UNCHANGED lock /\ ack' = [ack EXCEPT ![t] = "lock"]

AcquireLock(t) ==
  /\ ack[t] = "lock" /\ lock = NoTask
  /\ lock' = t
  /\ ack' = [ack EXCEPT ![t] = "write"]
  /\ UNCHANGED <<source, taken, queue, active, pending, gate, acks, idx, abort,
                 pump, gen, mine, seen>>

\* The write reaches the sender before the coroutine that awaits it resumes.
DeliverAck(t) ==
  /\ ack[t] = "write" /\ rpc # "failed"
  /\ acks' = Append(acks, idx)
  /\ ack' = [ack EXCEPT ![t] = "return"]
  /\ UNCHANGED <<source, taken, queue, active, pending, gate, idx, lock, abort,
                 pump, gen, mine, seen>>

ReleaseLock(t) ==
  /\ lock' = NoTask
  /\ ack' = [ack EXCEPT ![t] = "no"]

\* The pump goes on reading ...
PumpAckReturns ==
  /\ ack[Pump] = "return"
  /\ idx' = idx + 1
  /\ ReleaseLock(Pump)
  /\ pump' = "read"
  /\ UNCHANGED <<source, taken, queue, active, pending, gate, acks, abort, gen,
                 mine, seen>>

\* ... a consumer opens the barrier it claimed.
ConsumerAckReturns(c) ==
  /\ ack[c] = "return"
  /\ idx' = idx + 1
  /\ ReleaseLock(c)
  /\ opened' = opened \cup {mine[c]}
  /\ gen' = [gen EXCEPT ![c] = IF @ = "mark" THEN "get" ELSE "left"]
  /\ UNCHANGED <<source, taken, queue, active, pending, event, claimed, acks,
                 abort, pump, mine, seen>>

PutTo(S, x) ==
  [c \in Consumers |-> IF c \in S THEN Append(queue[c], x) ELSE queue[c]]

\* Mutant: the pump has no finally, its end mark is lost with the exception.
PumpAckFailsSilently ==
  /\ ack[Pump] = "write" /\ rpc = "failed"
  /\ ReleaseLock(Pump)
  /\ pump' = "done"
  /\ UNCHANGED <<source, taken, queue, active, pending, gate, acks, idx, abort,
                 gen, mine, seen>>

\* The write raises: out of the pump's loop, through its finally.
PumpAckFails ==
  /\ ack[Pump] = "write" /\ rpc = "failed"
  /\ ReleaseLock(Pump)
  /\ pump' = "done"
  /\ queue' = PutTo(active, EndMark)
  /\ UNCHANGED <<source, taken, active, pending, gate, acks, idx, abort, gen,
                 mine, seen>>

\* An exception inside a consumer's ack: handled is set, and the generator's
\* finally, which finds the ack claimed, takes it out of the barrier.
AckRaises(c) ==
  /\ ReleaseLock(c)
  /\ opened' = opened \cup {mine[c]}
  /\ active' = active \ {c}
  /\ pending' = pending \ {c}
  /\ gen' = [gen EXCEPT ![c] = "left"]
  /\ UNCHANGED <<sent, taken, queue, event, claimed, acks, idx, abort, pump,
                 mine, seen>>

\* The write raises because the stream broke ...
ConsumerAckFails(c) ==
  /\ ack[c] = "write" /\ rpc = "failed"
  /\ AckRaises(c)
  /\ UNCHANGED rpc

\* ... or the task that iterates is cancelled, and grpc.aio cancels the call a
\* cancelled write belongs to.
CancelAck(c) ==
  /\ ack[c] \in {"write", "return"}
  /\ AckRaises(c)
  /\ rpc' = "failed"
-----------------------------------------------------------------------------
(* pump_source *)

\* Mutant: reads past what was sent.
TakeAnyChunk ==
  /\ pump = "read"
  /\ taken' = taken + 1

\* A chunk that arrived before the stream broke may still be read.
TakeChunk ==
  /\ pump = "read" /\ taken < sent
  /\ taken' = taken + 1

\* Nobody is left to handle the chunk: ack it and keep draining.
DrainChunk ==
  /\ TakeChunk
  /\ active = {}
  /\ pump' = "ack"
  /\ EnterAck(Pump)
  /\ UNCHANGED <<source, queue, active, pending, gate, acks, idx, abort, gen,
                 mine, seen>>

\* Aborted: deliver to whoever is left, but ack without waiting for them.
DeliverUngated ==
  /\ TakeChunk
  /\ active # {} /\ abort
  /\ queue' = PutTo(active, taken')
  /\ pump' = "ack"
  /\ EnterAck(Pump)
  /\ UNCHANGED <<source, active, pending, gate, acks, idx, abort, gen, mine,
                 seen>>

\* The barrier: a fresh Event, every active consumer pending.
DeliverGated ==
  /\ TakeChunk
  /\ active # {} /\ ~abort
  /\ pending' = active
  /\ event' = taken'
  /\ claimed' = FALSE
  /\ queue' = PutTo(active, taken')
  /\ pump' = "barrier"
  /\ UNCHANGED <<source, active, opened, acking, abort, gen, mine, seen>>

\* Mutant: the abort event is not waited for.
BarrierReleasedByConsumers == event \in opened

BarrierReleased == event \in opened \/ abort

\* Handled by all, or aborted after a consumer claimed the ack.
PassBarrier ==
  /\ pump = "barrier" /\ BarrierReleased
  /\ claimed
  /\ pump' = "read"
  /\ UNCHANGED <<source, taken, queue, active, pending, gate, acking, abort,
                 gen, mine, seen>>

\* Mutant: the pump acks the aborted chunk without claiming the ack.
AckAbortedUnclaimed ==
  /\ pump = "barrier" /\ BarrierReleased
  /\ ~claimed
  /\ pump' = "ack"
  /\ EnterAck(Pump)
  /\ UNCHANGED <<source, taken, queue, active, pending, gate, acks, idx, abort,
                 gen, mine, seen>>

\* Aborted while consumers were still handling the chunk.
AckAborted ==
  /\ pump = "barrier" /\ BarrierReleased
  /\ ~claimed
  /\ claimed' = TRUE
  /\ pump' = "ack"
  /\ EnterAck(Pump)
  /\ UNCHANGED <<source, taken, queue, active, pending, event, opened, acks,
                 idx, abort, gen, mine, seen>>

\* Mutant: an abort ends the delivery.
PumpEndsOnAbort ==
  /\ pump = "read"
  /\ abort \/ rpc = "failed" \/ (rpc = "ended" /\ taken = sent)
  /\ pump' = "done"
  /\ queue' = PutTo(active, EndMark)
  /\ UNCHANGED <<source, taken, active, pending, gate, acking, abort, gen,
                 mine, seen>>

\* The source is exhausted, or reading it raised.
PumpEnds ==
  /\ pump = "read"
  /\ rpc = "failed" \/ (rpc = "ended" /\ taken = sent)
  /\ pump' = "done"
  /\ queue' = PutTo(active, EndMark)
  /\ UNCHANGED <<source, taken, active, pending, gate, acking, abort, gen,
                 mine, seen>>
-----------------------------------------------------------------------------
(* The generator of one consumer. *)

Start(c) ==
  /\ gen[c] = "new"
  /\ gen' = [gen EXCEPT ![c] = "get"]
  /\ UNCHANGED <<source, taken, queue, active, pending, gate, acking, abort,
                 pump, mine, seen>>

\* queue.get() returns a chunk, which is yielded to the processor.
GetChunk(c) ==
  /\ gen[c] = "get" /\ queue[c] # <<>> /\ Head(queue[c]) # EndMark
  /\ queue' = [queue EXCEPT ![c] = Tail(@)]
  /\ gen' = [gen EXCEPT ![c] = "hold"]
  /\ UNCHANGED <<source, taken, active, pending, gate, acking, abort, pump,
                 mine, seen>>

\* Mutant: mark_handled does not ask whether the ack was claimed.
MarkHandledTwice(c, busy, idle) ==
  /\ pending' = pending \ {c}
  /\ \/ /\ pending' = {} /\ event # 0
        /\ claimed' = TRUE
        /\ mine' = [mine EXCEPT ![c] = event]
        /\ gen' = [gen EXCEPT ![c] = busy]
        /\ EnterAck(c)
     \/ /\ pending' # {} \/ event = 0
        /\ gen' = [gen EXCEPT ![c] = idle]
        /\ UNCHANGED <<claimed, mine, lock, ack>>

\* mark_handled up to its first suspension: the last pending consumer claims
\* the ack before it awaits it.
MarkHandled(c, busy, idle) ==
  /\ pending' = pending \ {c}
  /\ \/ /\ pending' = {} /\ event # 0 /\ ~claimed
        /\ claimed' = TRUE
        /\ mine' = [mine EXCEPT ![c] = event]
        /\ gen' = [gen EXCEPT ![c] = busy]
        /\ EnterAck(c)
     \/ /\ pending' # {} \/ event = 0 \/ claimed
        /\ gen' = [gen EXCEPT ![c] = idle]
        /\ UNCHANGED <<claimed, mine, lock, ack>>

\* The processor asks for the next chunk, so it is done with this one.
Resume(c) ==
  /\ gen[c] = "hold"
  /\ MarkHandled(c, "mark", "get")
  /\ seen' = [seen EXCEPT ![c] = @ + 1]
  /\ UNCHANGED <<source, taken, queue, active, event, opened, acks, idx, abort,
                 pump>>

\* Mutant: an early exit leaves the barrier to the others, but is waited for.
ExitUnmarked(c) ==
  /\ gen[c] \in {"get", "hold"}
  /\ active' = active \ {c}
  /\ gen' = [gen EXCEPT ![c] = "left"]
  /\ UNCHANGED <<source, taken, queue, pending, gate, acking, abort, pump, mine,
                 seen>>

\* The generator is closed, or cancelled, where it is suspended.
Exit(c) ==
  /\ gen[c] \in {"get", "hold"}
  /\ active' = active \ {c}
  /\ MarkHandled(c, "close", "left")
  /\ UNCHANGED <<source, taken, queue, event, opened, acks, idx, abort, pump,
                 seen>>

\* queue.get() returns the end mark.
GetEnd(c) ==
  /\ gen[c] = "get" /\ queue[c] # <<>> /\ Head(queue[c]) = EndMark
  /\ queue' = [queue EXCEPT ![c] = Tail(@)]
  /\ active' = active \ {c}
  /\ MarkHandled(c, "close", "ended")
  /\ UNCHANGED <<source, taken, event, opened, acks, idx, abort, pump, seen>>
-----------------------------------------------------------------------------
PumpStep == \/ DrainChunk \/ DeliverUngated \/ DeliverGated
            \/ PassBarrier \/ AckAborted \/ PumpEnds
            \/ PumpAckReturns \/ PumpAckFails

\* What the event loop does for a consumer without its processor's help.
LoopStep(c) == GetChunk(c) \/ GetEnd(c) \/ ConsumerAckReturns(c)
               \/ ConsumerAckFails(c)

\* What the processor that drives the generator decides.
ProcessorStep(c) == Start(c) \/ Resume(c) \/ Exit(c) \/ CancelAck(c)

AckStep(t) == AcquireLock(t) \/ DeliverAck(t)

Next ==
  \/ Send \/ EndStream \/ BreakStream \/ Abort
  \/ PumpStep
  \/ \E t \in Tasks : AckStep(t)
  \/ \E c \in Consumers : LoopStep(c) \/ ProcessorStep(c)

Spec == Init /\ [][Next]_fanVars

\* The event loop runs every task that is ready, and a write on a live call
\* completes or raises.  Nothing is assumed of the sender or the processors.
LoopFairness ==
  /\ WF_fanVars(PumpStep)
  /\ \A t \in Tasks : WF_fanVars(AckStep(t))
  /\ \A c \in Consumers : WF_fanVars(LoopStep(c))

\* A processor that keeps iterating: it starts, and once it holds a chunk it
\* asks for the next one or leaves.
ProcessorFairness ==
  \A c \in Consumers :
    /\ WF_fanVars(Start(c))
    /\ WF_fanVars(gen[c] = "hold" /\ (Resume(c) \/ Exit(c)))

LoopSpec == Spec /\ LoopFairness
-----------------------------------------------------------------------------
(* Safety *)

\* The sender receives the sequence numbers 0, 1, 2, ... in this order: no ack
\* is written twice and none overtakes another, although the pump and several
\* consumers write them (ack_chunk and the callback of reader.py).
AckedInOrder == \A i \in DOMAIN acks : acks[i] = i - 1

\* Two tasks never write on the receiving stream at the same time.
OneWriter ==
  \A t, u \in Tasks :
    ack[t] \in {"write", "return"} /\ ack[u] \in {"write", "return"} => t = u

\* A consumer that claimed the ack never waits for the lock.  It matters
\* because a task cancelled while it waits there would lose an ack nobody else
\* will send: the claim (mark_handled) would stand.
ClaimUncontended == \A c \in Consumers : ack[c] # "lock"

Held(c) == IF gen[c] = "hold" THEN 1 ELSE 0
Ended == IF pump = "done" THEN 1 ELSE 0

\* A consumer that takes part is handed every chunk the pump took, in order,
\* aborted or not: what it handled and holds is followed in its queue by the
\* chunks up to the last one taken, and by the end mark once the pump is done.
NothingSkipped ==
  \A c \in active :
    /\ Len(queue[c]) = taken - seen[c] - Held(c) + Ended
    /\ \A i \in 1..Len(queue[c]) :
         queue[c][i] = IF pump = "done" /\ i = Len(queue[c])
                       THEN EndMark ELSE seen[c] + Held(c) + i

\* A generator that ends by itself on a stream the sender ended has delivered
\* the whole stream: an abort never truncates it silently.
NoTruncation ==
  \A c \in Consumers : gen[c] = "ended" /\ rpc = "ended" => seen[c] = sent

\* A consumer is handed every chunk in order, and ends only behind the last one.
StreamComplete == NothingSkipped /\ NoTruncation

\* The barrier, as its docstring promises it: ChunkBarrier.
Barrier == INSTANCE ChunkBarrier WITH
             taken <- taken, acked <- Len(acks), seen <- seen,
             gone <- Consumers \ active, released <- abort,
             broken <- (rpc = "failed")

\* Every ack the sender gets is one the barrier allows: exactly one per chunk
\* taken, after every consumer still in the barrier handled the chunk, or after
\* the barrier was released.
RefinesBarrier == Barrier!Spec
-----------------------------------------------------------------------------
(* Liveness *)

Acked(k) == Len(acks) >= k \/ rpc = "failed"

\* Once aborted the sender is never left waiting, even if no processor ever
\* touches its generator again (wait_for_barrier, the abort branch of the pump).
AbortReleases ==
  \A k \in 1..MaxChunks : abort /\ sent >= k ~> Acked(k)

\* While processors keep iterating, or leave, every chunk sent is acked: an early
\* exit never stalls the others.  And no consumer is left waiting for a chunk,
\* however the stream ends.
IterationSuffices ==
  ProcessorFairness =>
    /\ \A k \in 1..MaxChunks : sent >= k ~> Acked(k)
    /\ rpc # "open" ~> \A c \in Consumers : gen[c] \in {"ended", "left"}
=============================================================================
