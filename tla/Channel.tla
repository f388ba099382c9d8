------------------------------- MODULE Channel -------------------------------
(***************************************************************************)
(* A channel from end to end: a writer, the orchestrator that forwards     *)
(* what it sends, the listeners of the runners at both ends, which         *)
(* dispatch what the orchestrator sends them (handle_orchestrator_message, *)
(* runner.py), and a reader with its consumers.  It composes Writer and    *)
(* Reader: the messages the reader gets are those the writer announced,    *)
(* the acks the writer gets are those the reader sent, and the chunks of a *)
(* stream are acked by the fan-out of the reader.                          *)
(* The consumers are those of strings(), for which plain messages are      *)
(* queued and streams collected.                                           *)
(* One runner may hold both ends; it has one listener, which handles one   *)
(* message at a time.  Readers and writers are made before the channel     *)
(* carries anything, so a message finds its reader.                        *)
(***************************************************************************)
EXTENDS Naturals, Sequences, FiniteSets

CONSTANTS
  MaxConsumers,   \* bound: iterators the processors ask for
  MaxCalls,       \* bound: calls made on the writer, and messages they make
  MaxWrites,      \* bound: those of them that processors make
  CallKinds       \* what processors call: "buffer", "stream", "close"

ASSUME ChannelAssumption ==
  /\ MaxConsumers \in Nat /\ MaxCalls \in Nat /\ MaxWrites \in Nat
  /\ CallKinds \subseteq {"buffer", "stream", "close"}

VARIABLES
  (* the reader *)
  arrived, type, bad, busy, kind, closed, ready, stage, parts, waitFor, failed,
  drained, sub, iq, iterClosed, it, handled, acked,
  (* the writer; call is its kind *)
  call, pc, awaiting, resolved, openStreams, shouldClose, released, closeIssued,
  outgoing, announced, processed, acks, closes,
  (* the runners and the orchestrator *)
  together,  \* whether one runner holds the reader and the writer
  behind,    \* closes on the way, each with the messages it is behind
  spawned    \* closes of the orchestrator whose task on the writer did not run

readerVars == <<arrived, type, bad, busy, kind, closed, ready, stage, parts,
                waitFor, failed, drained, sub, iq, iterClosed, it, handled, acked>>
writerVars == <<call, pc, awaiting, resolved, openStreams, shouldClose, released,
                closeIssued, outgoing, announced, processed, acks, closes>>

R == INSTANCE Reader WITH
       Kinds <- [c \in 1..MaxConsumers |-> {"string"}], MaxMessages <- MaxCalls,
       Malformed <- {}

W == INSTANCE Writer WITH
       Kinds <- CallKinds \cup {"issued"}, Fails <- {}, kind <- call

links == <<together, behind, spawned>>
channelVars == <<readerVars, writerVars, links>>

Init ==
  /\ R!Init /\ W!Init
  /\ together \in BOOLEAN /\ behind = <<>> /\ spawned = 0

Calls == 1..MaxCalls
Consumers == 1..MaxConsumers

\* Mutant: the close of a writer is awaited by the listener.
ListensInline ==
  busy = 0 /\ \A o \in Calls : call[o] = "issued" => pc[o] # "deferred"

\* The listener of the reader is free: it awaits the opening of a stream message,
\* and nothing else; the close of a writer is spawned.
Listens == busy = 0
-----------------------------------------------------------------------------
(* The writer's side *)

\* Processors call the writer.
Write(o) ==
  /\ Cardinality({p \in Calls : call[p] \in CallKinds}) < MaxWrites
  /\ W!Start(o) /\ call'[o] \in CallKinds
  /\ UNCHANGED <<readerVars, links>>

\* A call goes on; the chunks of a stream are the reader's to ack (Drain).
WriterGoesOn(o) ==
  /\ \/ W!SendBuffer(o) \/ W!BufferReturns(o) \/ W!CloseReturns(o)
     \/ W!Identified(o) \/ W!StreamReturns(o)
  /\ UNCHANGED <<readerVars, links>>

Elements(s) == {s[i] : i \in DOMAIN s}

\* A close is behind the messages written so far.
CloseSent(o) ==
  /\ W!CloseSent(o)
  /\ behind' = Append(behind, Elements(announced \o outgoing))
  /\ UNCHANGED <<readerVars, together, spawned>>

\* 'processed' is dispatched to the writer.
HearProcessed ==
  /\ together => Listens
  /\ W!Handled
  /\ UNCHANGED <<readerVars, links>>

\* The task that handle_orchestrator_message spawned: writer.close(True).
SpawnedClose(o) ==
  /\ spawned > 0
  /\ W!Close(o) /\ call'[o] = "issued"
  /\ spawned' = spawned - 1
  /\ UNCHANGED <<readerVars, together, behind>>
-----------------------------------------------------------------------------
(* The reader's side *)

\* 'msg' or 'streamMsg' is dispatched to the reader, in the order the
\* orchestrator got the messages.
HearMessage(m) ==
  /\ Listens /\ m <= Len(announced)
  /\ \/ call[announced[m]] = "buffer" /\ R!HandleMsg(m)
     \/ /\ call[announced[m]] = "stream"
        /\ R!HandleStream(m) \/ R!HandleStreamClosed(m)
  /\ UNCHANGED <<writerVars, links>>

\* 'close' is dispatched to the reader, and to the writer if this runner has it.
HearClose ==
  /\ Listens
  /\ behind # <<>> /\ Head(behind) \subseteq Elements(SubSeq(announced, 1, arrived))
  /\ behind' = Tail(behind)
  /\ R!Close \/ (closed /\ UNCHANGED readerVars)
  /\ spawned' = IF together THEN spawned + 1 ELSE spawned
  /\ UNCHANGED <<writerVars, together>>

\* The fan-out acks the last chunk, the writer ends its stream, the fan-out ends.
Drain(m) ==
  /\ m <= Len(announced)
  /\ R!Drain(m) /\ W!DoneWriting(announced[m])
  /\ UNCHANGED links

\* Until a close the tasks that wait for the consumers of plain messages wake in
\* the order the messages were settled (asyncio's), and these are settled in the
\* order they arrived (SettleInOrder in ReaderProofs).
InTurn(m) ==
  type[m] = "plain" /\ ~closed =>
    \A k \in 1..(m - 1) :
      type[k] = "plain" =>
        stage[k] # "ack" /\ ~(stage[k] = "waiting" /\ R!PlainSettled(k))

ReaderGoesOn(m) ==
  /\ R!OpenStream(m) \/ (InTurn(m) /\ (R!Notify(m) \/ R!WriteAck(m)))
  /\ UNCHANGED <<writerVars, links>>

ReaderTask ==
  /\ R!RunPlainTask \/ R!RunStreamTask
  /\ UNCHANGED <<writerVars, links>>

\* The string convertor collects a stream.
Collect(c, m) ==
  /\ R!StringStep(c, m)
  /\ UNCHANGED <<writerVars, links>>

\* What a processor does: ask for an iterator, and iterate it.  (One that stops is
\* in Reader: what it holds is acked by the close.)
Iterate(c) ==
  /\ R!IterStep(c)
  /\ UNCHANGED <<writerVars, links>>

Register(c) ==
  /\ R!Register(c)
  /\ UNCHANGED <<writerVars, links>>
-----------------------------------------------------------------------------
(* The orchestrator (external) passes an ack on to the writer's runner. *)
Forward ==
  LET k == Cardinality(processed) + 1 IN
  /\ k <= Len(acked)
  /\ processed' = processed \cup {announced[acked[k]]}
  /\ acks' = acks + 1
  /\ UNCHANGED <<readerVars, call, pc, awaiting, resolved, openStreams,
                 shouldClose, released, closeIssued, closes, outgoing, announced,
                 links>>
-----------------------------------------------------------------------------
Step(o) == WriterGoesOn(o) \/ CloseSent(o) \/ HearMessage(o) \/ Drain(o)
           \/ ReaderGoesOn(o)

Next ==
  \/ HearProcessed \/ HearClose \/ ReaderTask \/ Forward
  \/ \E o \in Calls : Write(o) \/ SpawnedClose(o) \/ Step(o)
  \/ \E c \in Consumers :
       Register(c) \/ Iterate(c) \/ \E m \in Calls : Collect(c, m)

Spec == Init /\ [][Next]_channelVars

\* The event loops run what is ready, string convertors included, and the
\* orchestrator forwards what it gets.
LoopFairness ==
  /\ WF_channelVars(HearProcessed) /\ WF_channelVars(HearClose)
  /\ WF_channelVars(ReaderTask) /\ WF_channelVars(Forward)
  /\ \A o \in Calls : WF_channelVars(Step(o))
  /\ WF_channelVars(\E o \in Calls : SpawnedClose(o))
  /\ \A c \in Consumers, m \in Calls : WF_channelVars(Collect(c, m))

\* Processors iterate what they asked for.
ProcessorFairness == \A c \in Consumers : WF_channelVars(Iterate(c))

LoopSpec == Spec /\ LoopFairness
-----------------------------------------------------------------------------
(* Safety *)

\* What Writer takes for granted of the rest of the channel holds: buffers are
\* acked in the order the orchestrator got them, each once, although several
\* consumers share them and every ack is written by a task of its own.
RefinesWriter == W!Spec

Handled(c, m) == \E i \in DOMAIN handled[c] : handled[c][i] = m

\* On a channel without streams, until it is closed, a write returns only when
\* every consumer of its message at the other end is done with it.
WriteMeansHandled ==
  (\A o \in Calls : call[o] # "stream") /\ ~closed =>
    \A o \in resolved : \E m \in DOMAIN announced :
      announced[m] = o /\ R!IsAcked(m) /\ \A c \in parts[m] : Handled(c, m)
-----------------------------------------------------------------------------
(* Liveness *)

\* While processors iterate every write returns, and every close reaches the
\* other end and ends the iterations there.
EveryCallArrives ==
  ProcessorFairness =>
    \A o \in Calls :
      /\ W!IsMessage(o) ~> pc[o] = "done"
      /\ call[o] = "close" ~> closed /\ \A c \in iterClosed : it[c] = "ended"
=============================================================================
