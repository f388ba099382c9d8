-------------------------------- MODULE Reader --------------------------------
(***************************************************************************)
(* A ReaderInstance (reader.py) with the iterators it hands to processors  *)
(* (MyIter, iterable.py) and their convertors (convertor.py), at the level *)
(* of messages: plain messages and stream messages arrive from the         *)
(* orchestrator, reach the consumers, and are acked on the normal stream.  *)
(* The chunks of a stream message are those of module Fanout; here a       *)
(* stream is its last chunk: a consumer is before it, has handled it or    *)
(* left, and the fan-out drains the stream when its barrier lets it.       *)
(* A stream message has at least one chunk.                                *)
(***************************************************************************)
EXTENDS Naturals, Sequences

CONSTANTS
  MaxConsumers, \* bound: iterators the processors ask for
  Kinds,        \* Kinds[c]: what the c-th of them may ask for: strings(),
                \* streams() or anys(), buffers()
  MaxMessages,  \* bound: messages that arrive on the channel
  Malformed     \* the messages whose data may be none that decodes as UTF-8

ASSUME ReaderAssumption ==
  /\ MaxConsumers \in Nat /\ MaxMessages \in Nat /\ Malformed \subseteq 1..MaxMessages
  /\ Kinds \in [1..MaxConsumers -> SUBSET {"string", "stream", "buffer"}]

VARIABLES
  arrived,    \* messages received so far
  type,       \* type[m]: "plain" or "stream", "none" before it arrives
  bad,        \* messages whose data does not decode
  busy,       \* the stream message whose handler the listener awaits, or 0
  kind,       \* kind[c]: what consumer c asked for, "none" before it did
  closed,     \* ReaderInstance.closed, and its _abort event
  ready,      \* spawned tasks that did not run yet, first in first out
  stage,      \* stage[m]: where the handling of m is
  parts,      \* parts[m]: the consumers m is for
  waitFor,    \* waitFor[m]: those whose future is not resolved
  failed,     \* plain messages whose push raised
  drained,    \* streams whose stream_exhausted is set
  sub,        \* sub[c][m]: c in the fan-out of m
  iq,         \* iq[c]: the queue of the iterator, CloseMark for (None, ...)
  iterClosed, \* consumers whose iterator is _closed
  it,         \* it[c]: the iteration: "next", "hold", "ended" or "gone"
  handled,    \* history: handled[c], the messages c is done with
  acked       \* history: the messages acked, in order

handling == <<stage, parts, waitFor, failed>>
streaming == <<drained, sub>>
iterating == <<iq, iterClosed, it, handled>>
readerVars == <<arrived, type, bad, busy, kind, closed, ready, handling,
                streaming, iterating, acked>>

Consumers == 1..MaxConsumers  \* numbered in the order they register
Messages == 1..MaxMessages
CloseMark == 0

\* The list of registered consumers.
Registered == {c \in Consumers : kind[c] # "none"}
Holding(c) == Head(iq[c])  \* the item in hand stays at the head until done

Stages == {"none", "spawned", "opening", "waiting", "draining", "ack", "acked"}
SubStates == {"none", "new", "open", "handled", "ended", "left"}

\* The variables hold what the code can put in them; an iterator's queue holds
\* a message once at most and one close mark, however often close() is called.
TypeOK ==
  /\ arrived \in 0..MaxMessages /\ busy \in 0..MaxMessages
  /\ type \in [Messages -> {"none", "plain", "stream"}]
  /\ bad \subseteq Messages /\ failed \subseteq Messages
  /\ drained \subseteq Messages
  /\ kind \in [Consumers -> {"none", "string", "stream", "buffer"}]
  /\ closed \in BOOLEAN
  /\ ready \in Seq(({"gather"} \X Messages)
                     \cup ({"push", "stream"} \X Messages \X Consumers))
  /\ stage \in [Messages -> Stages]
  /\ parts \in [Messages -> SUBSET Consumers]
  /\ waitFor \in [Messages -> SUBSET Consumers]
  /\ sub \in [Consumers -> [Messages -> SubStates]]
  /\ iq \in [Consumers -> Seq(Messages \cup {CloseMark})]
  /\ \A c \in Consumers : \A i, j \in DOMAIN iq[c] : iq[c][i] = iq[c][j] => i = j
  /\ iterClosed \subseteq Registered
  /\ it \in [Consumers -> {"next", "hold", "ended", "gone"}]
  /\ handled \in [Consumers -> Seq(Messages)] /\ acked \in Seq(Messages)

Init ==
  /\ arrived = 0 /\ busy = 0
  /\ type = [m \in Messages |-> "none"] /\ bad = {}
  /\ kind = [c \in Consumers |-> "none"] /\ closed = FALSE /\ ready = <<>>
  /\ stage = [m \in Messages |-> "none"]
  /\ parts = [m \in Messages |-> {}] /\ waitFor = [m \in Messages |-> {}]
  /\ failed = {} /\ drained = {}
  /\ sub = [c \in Consumers |-> [m \in Messages |-> "none"]]
  /\ iq = [c \in Consumers |-> <<>>] /\ iterClosed = {}
  /\ it = [c \in Consumers |-> "next"]
  /\ handled = [c \in Consumers |-> <<>>] /\ acked = <<>>
-----------------------------------------------------------------------------
(* What the listener and the processors call on the reader. *)

\* strings(), streams(), buffers() and anys()
Register(c) ==
  /\ c \notin Registered /\ 1..(c - 1) \subseteq Registered
  /\ \E k \in Kinds[c] : kind' = [kind EXCEPT ![c] = k]
  /\ UNCHANGED <<arrived, type, bad, busy, closed, ready, handling, streaming,
                 iterating, acked>>

\* The next message of the channel; the listener handles one at a time.
Arrive(m, t) ==
  /\ busy = 0 /\ m = arrived + 1 /\ m \in Messages
  /\ arrived' = m
  /\ type' = [type EXCEPT ![m] = t]
  /\ bad' \in {bad, bad \cup ({m} \cap Malformed)}

\* Mutant: a new delivery runs before the ones that wait.
HandleMsgFirst(m) ==
  /\ Arrive(m, "plain")
  /\ stage' = [stage EXCEPT ![m] = IF closed THEN "ack" ELSE "spawned"]
  /\ ready' = IF closed THEN ready ELSE <<<<"gather", m>>>> \o ready
  /\ UNCHANGED <<busy, kind, closed, parts, waitFor, failed, streaming,
                 iterating, acked>>

\* handle_msg: a closed reader acks, an open one spawns push_to_consumers.
HandleMsg(m) ==
  /\ Arrive(m, "plain")
  /\ stage' = [stage EXCEPT ![m] = IF closed THEN "ack" ELSE "spawned"]
  /\ ready' = IF closed THEN ready ELSE Append(ready, <<"gather", m>>)
  /\ UNCHANGED <<busy, kind, closed, parts, waitFor, failed, streaming,
                 iterating, acked>>

\* handle_streaming_msg on a closed reader: drained, then acked.
HandleStreamClosed(m) ==
  /\ Arrive(m, "stream") /\ closed
  /\ stage' = [stage EXCEPT ![m] = "draining"]
  /\ UNCHANGED <<busy, kind, closed, ready, parts, waitFor, failed,
                 streaming, iterating, acked>>

\* handle_streaming_msg up to the write of the control message: the fan-out and
\* one push_stream task per consumer, in the order of the list.
HandleStream(m) ==
  /\ Arrive(m, "stream") /\ ~closed
  /\ busy' = m
  /\ stage' = [stage EXCEPT ![m] = "opening"]
  /\ parts' = [parts EXCEPT ![m] = Registered]
  /\ waitFor' = [waitFor EXCEPT ![m] = Registered]
  /\ sub' = [c \in Consumers |->
               IF c \in Registered THEN [sub[c] EXCEPT ![m] = "new"] ELSE sub[c]]
  /\ ready' = ready \o [c \in Registered |-> <<"stream", m, c>>]
  /\ UNCHANGED <<kind, closed, failed, drained, iterating, acked>>

\* The control message is written: notify_after_all is spawned, the listener
\* goes on.
OpenStream(m) ==
  /\ busy = m /\ stage[m] = "opening"
  /\ busy' = 0
  /\ stage' = [stage EXCEPT ![m] = "waiting"]
  /\ UNCHANGED <<arrived, type, bad, kind, closed, ready, parts, waitFor,
                 failed, streaming, iterating, acked>>

\* Mutant: close does not ask whether it ran before.
CloseTwice ==
  /\ closed' = TRUE
  /\ iterClosed' = Registered
  /\ iq' = [c \in Consumers |->
              IF c \in Registered THEN Append(iq[c], CloseMark) ELSE iq[c]]
  /\ UNCHANGED <<arrived, type, bad, busy, kind, ready, handling,
                 streaming, it, handled, acked>>

\* Mutant: close does not wake the iterators.
CloseSilently ==
  /\ ~closed
  /\ closed' = TRUE
  /\ iterClosed' = Registered
  /\ UNCHANGED <<arrived, type, bad, busy, kind, ready, handling,
                 streaming, iq, it, handled, acked>>

\* close(), by the listener or by the teardown of the runner.
Close ==
  /\ ~closed
  /\ closed' = TRUE
  /\ iterClosed' = Registered
  /\ iq' = [c \in Consumers |->
              IF c \in Registered THEN Append(iq[c], CloseMark) ELSE iq[c]]
  /\ UNCHANGED <<arrived, type, bad, busy, kind, ready, handling,
                 streaming, it, handled, acked>>
-----------------------------------------------------------------------------
(* The tasks spawned on the event loop. *)

\* push_to_consumers: one push task per consumer registered by now.
GatherPushes(m) ==
  /\ stage' = [stage EXCEPT ![m] = "waiting"]
  /\ parts' = [parts EXCEPT ![m] = Registered]
  /\ waitFor' = [waitFor EXCEPT ![m] = Registered]
  /\ ready' = Tail(ready) \o [c \in Registered |-> <<"push", m, c>>]
  /\ UNCHANGED <<failed, iq>>

\* push_to_consumer: nobody to deliver to, the conversion raises, or queued.
Push(c, m) ==
  /\ ready' = Tail(ready)
  /\ \/ /\ c \in iterClosed
        /\ waitFor' = [waitFor EXCEPT ![m] = @ \ {c}]
        /\ UNCHANGED <<failed, iq>>
     \/ /\ c \notin iterClosed /\ m \in bad /\ kind[c] = "string"
        /\ failed' = failed \cup {m}
        /\ UNCHANGED <<waitFor, iq>>
     \/ /\ c \notin iterClosed /\ ~(m \in bad /\ kind[c] = "string")
        /\ iq' = [iq EXCEPT ![c] = Append(@, m)]
        /\ UNCHANGED <<failed, waitFor>>
  /\ UNCHANGED <<stage, parts>>

RunPlainTask ==
  /\ ready # <<>>
  /\ \/ Head(ready)[1] = "gather" /\ GatherPushes(Head(ready)[2])
     \/ Head(ready)[1] = "push" /\ Push(Head(ready)[3], Head(ready)[2])
  /\ UNCHANGED <<arrived, type, bad, busy, kind, closed, streaming,
                 iterClosed, it, handled, acked>>

\* push_stream: the string convertor starts to collect the substream, the
\* stream convertor hands it over at once, bytes have none: from_stream raises.
RunStreamTask ==
  /\ ready # <<>> /\ Head(ready)[1] = "stream"
  /\ ready' = Tail(ready)
  /\ LET m == Head(ready)[2]  c == Head(ready)[3] IN
       \/ /\ kind[c] = "string"
          /\ sub' = [sub EXCEPT ![c][m] = "open"]
          /\ UNCHANGED iq
       \/ /\ kind[c] = "stream"
          /\ iq' = [iq EXCEPT ![c] = Append(@, m)]
          /\ UNCHANGED sub
       \/ /\ kind[c] = "buffer"
          /\ UNCHANGED <<sub, iq>>
  /\ UNCHANGED <<arrived, type, bad, busy, kind, closed, handling,
                 drained, iterClosed, it, handled, acked>>

\* The sender ended the stream and the pump comes to its end: it is past the
\* barrier of the last chunk, by the consumers' doing or because of a close.
Drain(m) ==
  /\ type[m] = "stream" /\ stage[m] # "opening" /\ m \notin drained
  /\ closed \/ \A c \in parts[m] : sub[c][m] \in {"handled", "left"}
  /\ drained' = drained \cup {m}
  /\ UNCHANGED <<arrived, type, bad, busy, kind, closed, ready, handling,
                 sub, iterating, acked>>

Decodes(c, m) == kind[c] = "string" => m \notin bad

\* The last chunk is handled, by the convertor or by the processor.
HandleChunk(c, m) ==
  /\ sub[c][m] = "open" /\ Decodes(c, m)
  /\ sub' = [sub EXCEPT ![c][m] = "handled"]
  /\ UNCHANGED <<arrived, type, bad, busy, kind, closed, ready, handling,
                 drained, iterating, acked>>

\* The substream ends; a collected string is queued, closed iterator or not.
EndSub(c, m) ==
  /\ sub[c][m] = "handled" /\ m \in drained
  /\ sub' = [sub EXCEPT ![c][m] = "ended"]
  /\ iq' = IF kind[c] = "string" THEN [iq EXCEPT ![c] = Append(@, m)] ELSE iq
  /\ UNCHANGED <<arrived, type, bad, busy, kind, closed, ready, handling,
                 drained, iterClosed, it, handled, acked>>

\* The substream is closed early: decoding raised, or the processor is done.
LeaveSub(c, m) ==
  /\ sub[c][m] \in {"open", "handled"}
  /\ kind[c] = "string" => m \in bad
  /\ sub' = [sub EXCEPT ![c][m] = "left"]
  /\ UNCHANGED <<arrived, type, bad, busy, kind, closed, ready, handling,
                 drained, iterating, acked>>
-----------------------------------------------------------------------------
(* The ack of a message as a whole. *)

\* Mutant: the ack of a plain message waits for one consumer only.
FirstHandles(m) ==
  /\ type[m] = "plain"
  /\ waitFor[m] # parts[m] \/ parts[m] = {} \/ m \in failed \/ closed

\* Mutant: a close does not release the message.
PlainSettledByConsumers(m) ==
  /\ type[m] = "plain"
  /\ waitFor[m] = {} \/ m \in failed

\* push_to_consumers: all pushes are through, one raised, or the reader closed.
PlainSettled(m) ==
  /\ type[m] = "plain"
  /\ waitFor[m] = {} \/ m \in failed \/ closed

\* Mutant: a close does not wait for the fan-out to drain the stream.
StreamSettledAtClose(m) ==
  /\ type[m] = "stream"
  /\ IF parts[m] = {} THEN m \in drained ELSE waitFor[m] = {} \/ closed

\* notify_after_all: no consumer and the stream is drained, all consumers are
\* done, or the reader closed and the stream is drained.
StreamSettled(m) ==
  /\ type[m] = "stream"
  /\ \/ parts[m] # {} /\ waitFor[m] = {}
     \/ (parts[m] = {} \/ closed) /\ m \in drained

Notify(m) ==
  /\ \/ stage[m] = "waiting" /\ (PlainSettled(m) \/ StreamSettled(m))
     \/ stage[m] = "draining" /\ m \in drained
  /\ stage' = [stage EXCEPT ![m] = "ack"]
  /\ UNCHANGED <<arrived, type, bad, busy, kind, closed, ready, parts,
                 waitFor, failed, streaming, iterating, acked>>

\* _notify_processed
WriteAck(m) ==
  /\ stage[m] = "ack"
  /\ stage' = [stage EXCEPT ![m] = "acked"]
  /\ acked' = Append(acked, m)
  /\ UNCHANGED <<arrived, type, bad, busy, kind, closed, ready, parts,
                 waitFor, failed, streaming, iterating>>
-----------------------------------------------------------------------------
(* _iterate, driven by the processor. *)

\* An item is yielded; a substream may be iterated from here on.
Get(c) ==
  /\ c \in Registered /\ it[c] = "next" /\ iq[c] # <<>>
  /\ LET m == Head(iq[c]) IN
       /\ m # CloseMark
       /\ sub' = IF sub[c][m] = "new" THEN [sub EXCEPT ![c][m] = "open"] ELSE sub
  /\ it' = [it EXCEPT ![c] = "hold"]
  /\ UNCHANGED <<arrived, type, bad, busy, kind, closed, ready, handling,
                 drained, iq, iterClosed, handled, acked>>

GetClose(c) ==
  /\ c \in Registered /\ it[c] = "next" /\ iq[c] # <<>>
  /\ Head(iq[c]) = CloseMark
  /\ iq' = [iq EXCEPT ![c] = Tail(@)]
  /\ it' = [it EXCEPT ![c] = "ended"]
  /\ UNCHANGED <<arrived, type, bad, busy, kind, closed, ready, handling,
                 streaming, iterClosed, handled, acked>>

\* Mutant: the callback is bound late, to the future of the last consumer.
CompleteLast(c) ==
  /\ it[c] = "hold"
  /\ waitFor' = [waitFor EXCEPT ![Holding(c)] =
                   {d \in @ : \E e \in parts[Holding(c)] : e > d}]
  /\ handled' = [handled EXCEPT ![c] = Append(@, Holding(c))]
  /\ iq' = [iq EXCEPT ![c] = Tail(@)]
  /\ it' = [it EXCEPT ![c] = "next"]
  /\ UNCHANGED <<arrived, type, bad, busy, kind, closed, ready, stage,
                 parts, failed, streaming, iterClosed, acked>>

\* The processor asks for the next item: on_complete of the one it holds.
Complete(c) ==
  /\ it[c] = "hold"
  /\ waitFor' = [waitFor EXCEPT ![Holding(c)] = @ \ {c}]
  /\ handled' = [handled EXCEPT ![c] = Append(@, Holding(c))]
  /\ iq' = [iq EXCEPT ![c] = Tail(@)]
  /\ it' = [it EXCEPT ![c] = "next"]
  /\ UNCHANGED <<arrived, type, bad, busy, kind, closed, ready, stage,
                 parts, failed, streaming, iterClosed, acked>>

\* The processor stops iterating, or is cancelled: nothing is ever signalled.
Quit(c) ==
  /\ it[c] \in {"next", "hold"}
  /\ it' = [it EXCEPT ![c] = "gone"]
  /\ UNCHANGED <<arrived, type, bad, busy, kind, closed, ready, handling,
                 streaming, iq, iterClosed, handled, acked>>
-----------------------------------------------------------------------------
MessageStep(m) == OpenStream(m) \/ Drain(m) \/ Notify(m) \/ WriteAck(m)

StringStep(c, m) ==
  kind[c] = "string" /\ (HandleChunk(c, m) \/ EndSub(c, m) \/ LeaveSub(c, m))

StreamStep(c, m) ==
  kind[c] = "stream" /\ (HandleChunk(c, m) \/ EndSub(c, m) \/ LeaveSub(c, m))

IterStep(c) == Get(c) \/ GetClose(c) \/ Complete(c)

Next ==
  \/ RunPlainTask \/ RunStreamTask \/ Close
  \/ \E m \in Messages :
       \/ HandleMsg(m) \/ HandleStream(m) \/ HandleStreamClosed(m)
       \/ MessageStep(m)
       \/ \E c \in Consumers : StringStep(c, m) \/ StreamStep(c, m)
  \/ \E c \in Consumers : Register(c) \/ IterStep(c) \/ Quit(c)

Spec == Init /\ [][Next]_readerVars

\* The event loop goes on while there is a task it can run, and the sender ends
\* its streams.
LoopFairness ==
  WF_readerVars(\/ RunPlainTask \/ RunStreamTask
                \/ \E m \in Messages : MessageStep(m)
                                       \/ \E c \in Consumers : StringStep(c, m))

\* A processor in an 'async for' over a substream asks for no other item: not
\* before the substream ends, or it leaves it.
InSubstream(c) ==
  kind[c] = "stream" /\ it[c] = "hold" /\ sub[c][Holding(c)] \in {"open", "handled"}

\* Processors keep iterating, substreams included, as long as they do not quit.
ProcessorFairness ==
  \A c \in Consumers :
    WF_readerVars(\/ ~InSubstream(c) /\ IterStep(c)
                  \/ \E m \in Messages : StreamStep(c, m))

LoopSpec == Spec /\ LoopFairness
-----------------------------------------------------------------------------
(* Safety *)

IsAcked(m) == stage[m] = "acked"
InSeq(m, s) == \E i \in DOMAIN s : s[i] = m

\* The orchestrator receives at most one ack per message; it answers each with
\* a 'processed' that the writer attributes in FIFO order, so that a second ack
\* would release somebody else's message.
AckedOnce == \A i, j \in DOMAIN acked : acked[i] = acked[j] => i = j

\* A message is acked once, and while the reader is open it is one every consumer
\* it is for is done with, unless it could not be delivered.
AckMeansHandled ==
  /\ AckedOnce
  /\ \A m \in Messages : IsAcked(m) /\ ~closed /\ m \notin failed =>
       \A c \in parts[m] : InSeq(m, handled[c])

\* A stream message is acked when its chunks were all taken and acked, or each
\* consumer is done with it: a close, or nobody consuming, never gets the global
\* ack ahead of the chunks.
ChunksBeforeAck ==
  \A m \in Messages : IsAcked(m) /\ type[m] = "stream" =>
    \/ m \in drained
    \/ parts[m] # {} /\ \A c \in parts[m] : InSeq(m, handled[c])

IsPlain(m) == m # CloseMark /\ type[m] = "plain"

\* A consumer is done with the plain messages in the order they arrived, and
\* nothing pushed with push() is queued behind the end of the iteration.
PlainInOrder ==
  \A c \in Consumers :
    /\ \A i, j \in DOMAIN handled[c] :
         i < j /\ IsPlain(handled[c][i]) /\ IsPlain(handled[c][j]) =>
           handled[c][i] < handled[c][j]
    /\ \A i, j \in DOMAIN iq[c] :
         i < j /\ iq[c][i] = CloseMark => ~IsPlain(iq[c][j])
-----------------------------------------------------------------------------
(* Liveness *)

Arrived(m) == stage[m] # "none"
Abandoned(m) == \E c \in parts[m] : it[c] = "gone"

\* A stream that a buffers() iterator shares is never drained while the reader is
\* open, and a streams() iterator that got it does not come to what is behind it.
Stuck(k) == type[k] = "stream" /\ \E c \in parts[k] : kind[c] = "buffer"
HeldUp(m) == \E k \in 1..(m - 1), c \in Consumers :
               Stuck(k) /\ c \in parts[k] \cap parts[m] /\ kind[c] = "stream"

\* Streams the convertor of a consumer raises on: its place in the barrier, or
\* its part of the message, is never released.
Undeliverable(m) ==
  type[m] = "stream" /\ \E c \in parts[m] :
                          kind[c] = "buffer" \/ (kind[c] = "string" /\ m \in bad)

AllAcked == \A m \in Messages : Arrived(m) => IsAcked(m)

\* While processors iterate every message is acked, whichever consumers share
\* it, unless a processor quits with it, a convertor has no use for it, or it is
\* behind a stuck stream; and every iterator a close reached ends, unless its
\* processor quits.  (What holds of a message once holds of it from then on: each
\* is acked when all are, over and over again.)
IterationSuffices ==
  ProcessorFairness =>
    []<>(/\ \A m \in Messages : Arrived(m) =>
              IsAcked(m) \/ Abandoned(m) \/ Undeliverable(m) \/ HeldUp(m)
         /\ \A c \in iterClosed : it[c] \in {"ended", "gone"})

\* Once the reader is closed every message is acked, whatever processors do.
ClosedReaderAcks == closed ~> AllAcked

\* While processors iterate the sender of a stream is never left blocked: its
\* stream is drained, unless a processor quits with it (the docstring of
\* fanout_stream).
SenderNotBlocked ==
  ProcessorFairness =>
    \A m \in Messages :
      stage[m] = "waiting" /\ type[m] = "stream" ~> m \in drained \/ Abandoned(m)
=============================================================================
