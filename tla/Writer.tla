-------------------------------- MODULE Writer --------------------------------
(***************************************************************************)
(* A WriterInstance (writer.py): calls of buffer(), stream() and close()   *)
(* made by concurrent processor tasks, the closes the orchestrator issues, *)
(* and the 'processed' acks the orchestrator sends for the channel, which  *)
(* name no message and are attributed to the calls in FIFO order.          *)
(* string() and any() end in buffer() or stream().  The chunks of a stream *)
(* and their acks (module Fanout) are inside the state "streaming".        *)
(***************************************************************************)
EXTENDS Naturals, Sequences, FiniteSets

CONSTANTS
  MaxCalls,  \* bound: the calls made on the writer
  Kinds,     \* what the calls may be: "buffer", "stream", "close", "issued"
  Fails      \* kinds of calls that may raise or be cancelled midway

ASSUME WriterAssumption ==
  /\ MaxCalls \in Nat
  /\ Kinds \subseteq {"buffer", "stream", "close", "issued"}
  /\ Fails \subseteq Kinds

VARIABLES
  kind,         \* kind[o]: what call o is, "none" before it is made
  pc,           \* pc[o]: where call o is suspended
  awaiting,     \* awaiting_processed
  resolved,     \* calls whose future in awaiting_processed was popped and set
  openStreams,  \* open_streams
  shouldClose,  \* the calls whose future is in should_close
  released,     \* calls whose close future was set
  closeIssued,  \* _close_issued
  outgoing,     \* calls whose write on the normal stream is under way
  announced,    \* messages the orchestrator got, in its order (external)
  processed,    \* those it acked: they were handled (external)
  acks,         \* acks on the way to the runner
  closes        \* close messages sent to the orchestrator

Calls == 1..MaxCalls  \* numbered in the order they are made

closing == <<shouldClose, released, closeIssued, closes>>
remote == <<outgoing, announced, processed, acks>>
writerVars == <<kind, pc, awaiting, resolved, openStreams, closing, remote>>

InSeq(x, s) == \E i \in DOMAIN s : s[i] = x
Without(s, i) ==
  [j \in 1..(Len(s) - 1) |-> IF j < i THEN s[j] ELSE s[j + 1]]
IsMessage(o) == kind[o] \in {"buffer", "stream"}

\* The variables hold what the code can put in them; a call awaits one ack.
TypeOK ==
  /\ kind \in [Calls -> {"none", "buffer", "stream", "close", "issued"}]
  /\ pc \in [Calls -> {"idle", "sending", "waiting", "identify", "streaming",
                       "finish", "deferred", "notifying", "done", "failed"}]
  /\ awaiting \in Seq({o \in Calls : IsMessage(o)}) /\ resolved \subseteq Calls
  /\ \A o \in resolved : ~InSeq(o, awaiting)
  /\ openStreams \in 0..Cardinality(Calls)
  /\ shouldClose \subseteq Calls /\ released \subseteq Calls
  /\ closeIssued \in BOOLEAN
  /\ outgoing \in Seq(Calls) /\ announced \in Seq(Calls)
  /\ processed \subseteq Calls
  /\ acks \in 0..Cardinality(Calls) /\ closes \in 0..Cardinality(Calls)

Init ==
  /\ kind = [o \in Calls |-> "none"] /\ pc = [o \in Calls |-> "idle"]
  /\ awaiting = <<>> /\ resolved = {} /\ openStreams = 0
  /\ shouldClose = {} /\ released = {} /\ closeIssued = FALSE
  /\ outgoing = <<>> /\ announced = <<>> /\ processed = {} /\ acks = 0 /\ closes = 0

Call(o, k) ==
  /\ pc[o] = "idle" /\ \A p \in 1..(o - 1) : pc[p] # "idle"
  /\ k \in Kinds
  /\ kind' = [kind EXCEPT ![o] = k]

Goto(o, l) == pc' = [pc EXCEPT ![o] = l]
-----------------------------------------------------------------------------
(* buffer() *)

Buffer(o) ==
  /\ Call(o, "buffer")
  /\ awaiting' = Append(awaiting, o)
  /\ outgoing' = Append(outgoing, o)
  /\ Goto(o, "sending")
  /\ UNCHANGED <<resolved, openStreams, closing, announced, processed, acks>>

\* A write on the normal stream, which the runner does not lock, is taken to
\* arrive in the order it was made, or else to raise (external, grpc.aio); one that
\* breaks the stream is the loss of the orchestrator in module Runner.
SendBuffer(o) ==
  /\ outgoing # <<>> /\ o = Head(outgoing)
  /\ outgoing' = Tail(outgoing)
  /\ announced' = Append(announced, o)
  /\ Goto(o, "waiting")
  /\ UNCHANGED <<kind, awaiting, resolved, openStreams, closing, processed, acks>>

BufferReturns(o) ==
  /\ pc[o] = "waiting" /\ o \in resolved
  /\ Goto(o, "done")
  /\ UNCHANGED <<kind, awaiting, resolved, openStreams, closing, remote>>

\* The message cannot be built of the data, or its write raises or is cancelled:
\* the orchestrator never sees it, and its entry stays.
SendFails(o) ==
  /\ kind[o] = "buffer" /\ pc[o] = "sending"
  /\ \E i \in DOMAIN outgoing :
       outgoing[i] = o /\ outgoing' = Without(outgoing, i)
  /\ Goto(o, "failed")
  /\ UNCHANGED <<kind, awaiting, resolved, openStreams, closing, announced,
                 processed, acks>>

\* The call is cancelled while it waits for its ack; its entry stays.
WaitFails(o) ==
  /\ kind[o] = "buffer" /\ pc[o] = "waiting"
  /\ Goto(o, "failed")
  /\ UNCHANGED <<kind, awaiting, resolved, openStreams, closing, remote>>
-----------------------------------------------------------------------------
(* close() *)

\* Mutant: the pending closes stay queued when the channel closes.
ResolvePendingNone == UNCHANGED <<shouldClose, released>>

ResolvePending ==
  /\ released' = released \cup shouldClose
  /\ shouldClose' = {}

\* Deferred while streams are open; otherwise a close of the orchestrator ends
\* at once, and one of a processor is sent first.
EnterClose(o, issued, streams) ==
  \/ /\ streams > 0
     /\ closeIssued' = (closeIssued \/ issued)
     /\ shouldClose' = shouldClose \cup {o}
     /\ Goto(o, "deferred")
     /\ UNCHANGED released
  \/ /\ streams = 0 /\ issued
     /\ ResolvePending
     /\ Goto(o, "done")
     /\ UNCHANGED closeIssued
  \/ /\ streams = 0 /\ ~issued
     /\ Goto(o, "notifying")
     /\ UNCHANGED <<shouldClose, released, closeIssued>>

Close(o) ==
  /\ \/ Call(o, "close") /\ EnterClose(o, FALSE, openStreams)
     \/ Call(o, "issued") /\ EnterClose(o, TRUE, openStreams)
  /\ UNCHANGED <<awaiting, resolved, openStreams, closes, remote>>

CloseSent(o) ==
  /\ pc[o] = "notifying"
  /\ closes' = closes + 1
  /\ ResolvePending
  /\ Goto(o, "done")
  /\ UNCHANGED <<kind, awaiting, resolved, openStreams, closeIssued, remote>>

CloseReturns(o) ==
  /\ pc[o] = "deferred" /\ o \in released
  /\ Goto(o, "done")
  /\ UNCHANGED <<kind, awaiting, resolved, openStreams, closing, remote>>
-----------------------------------------------------------------------------
(* stream() *)

Stream(o) ==
  /\ Call(o, "stream")
  /\ openStreams' = openStreams + 1
  /\ awaiting' = Append(awaiting, o)
  /\ Goto(o, "identify")
  /\ UNCHANGED <<resolved, closing, remote>>

\* The id was sent on an RPC of its own, and answered.
Identified(o) ==
  /\ pc[o] = "identify"
  /\ announced' = Append(announced, o)
  /\ Goto(o, "streaming")
  /\ UNCHANGED <<kind, awaiting, resolved, openStreams, closing, outgoing,
                 processed, acks>>

\* All chunks were sent and acked.
DoneWriting(o) ==
  /\ pc[o] = "streaming"
  /\ Goto(o, "finish")
  /\ UNCHANGED <<kind, awaiting, resolved, openStreams, closing, remote>>

\* Mutant: the deferred close is made anew, as one of this side.
StreamReturnsEchoing(o) ==
  /\ pc[o] = "finish" /\ o \in resolved
  /\ openStreams' = openStreams - 1
  /\ IF shouldClose = {}
     THEN Goto(o, "done") /\ UNCHANGED <<shouldClose, released, closeIssued>>
     ELSE EnterClose(o, FALSE, openStreams')
  /\ UNCHANGED <<kind, awaiting, resolved, closes, remote>>

\* Mutant: the stream is not counted out.
StreamReturnsUncounted(o) ==
  /\ pc[o] = "finish" /\ o \in resolved
  /\ IF shouldClose = {}
     THEN Goto(o, "done") /\ UNCHANGED <<shouldClose, released, closeIssued>>
     ELSE EnterClose(o, closeIssued, openStreams)
  /\ UNCHANGED <<kind, awaiting, resolved, openStreams, closes, remote>>

\* The stream was acked as a message; the last one makes the deferred close.
StreamReturns(o) ==
  /\ pc[o] = "finish" /\ o \in resolved
  /\ openStreams' = openStreams - 1
  /\ IF shouldClose = {}
     THEN Goto(o, "done") /\ UNCHANGED <<shouldClose, released, closeIssued>>
     ELSE EnterClose(o, closeIssued, openStreams')
  /\ UNCHANGED <<kind, awaiting, resolved, closes, remote>>

\* The call raises where it is suspended: its entry and its count stay.
StreamFails(o) ==
  /\ kind[o] = "stream" /\ pc[o] \in {"identify", "streaming", "finish"}
  /\ Goto(o, "failed")
  /\ UNCHANGED <<kind, awaiting, resolved, openStreams, closing, remote>>
-----------------------------------------------------------------------------
(* The orchestrator (external) and handled(). *)

\* Buffers are acked in the order they were announced, streams and what is
\* written behind a close at any time.
Process(o) ==
  /\ InSeq(o, announced) /\ o \notin processed
  /\ kind[o] = "buffer" /\ closes = 0 =>
       \A i, j \in DOMAIN announced :
         i < j /\ announced[j] = o /\ kind[announced[i]] = "buffer" =>
           announced[i] \in processed
  /\ processed' = processed \cup {o}
  /\ acks' = acks + 1
  /\ UNCHANGED <<kind, pc, awaiting, resolved, openStreams, closing, outgoing,
                 announced>>

\* Mutant: the latest entry is taken for the acked one.
HandledLast ==
  /\ acks > 0
  /\ acks' = acks - 1
  /\ IF awaiting = <<>>
     THEN UNCHANGED <<awaiting, resolved>>
     ELSE /\ resolved' = resolved \cup {awaiting[Len(awaiting)]}
          /\ awaiting' = SubSeq(awaiting, 1, Len(awaiting) - 1)
  /\ UNCHANGED <<kind, pc, openStreams, closing, outgoing, announced,
                 processed>>

\* Mutant: an ack is kept for those to come, the entry is not popped.
HandledKeeping ==
  /\ acks > 0
  /\ acks' = acks - 1
  /\ IF awaiting = <<>>
     THEN UNCHANGED resolved
     ELSE resolved' = resolved \cup {Head(awaiting)}
  /\ UNCHANGED <<kind, pc, awaiting, openStreams, closing, outgoing, announced,
                 processed>>

Handled ==
  /\ acks > 0
  /\ acks' = acks - 1
  /\ \/ /\ awaiting = <<>>
        /\ UNCHANGED <<awaiting, resolved>>
     \/ /\ awaiting # <<>>
        /\ resolved' = resolved \cup {Head(awaiting)}
        /\ awaiting' = Tail(awaiting)
  /\ UNCHANGED <<kind, pc, openStreams, closing, outgoing, announced,
                 processed>>
-----------------------------------------------------------------------------
Start(o) == Buffer(o) \/ Stream(o) \/ Close(o)

\* A call goes on when what it awaits has happened.
Resume(o) == \/ SendBuffer(o) \/ BufferReturns(o)
             \/ CloseSent(o) \/ CloseReturns(o)
             \/ Identified(o) \/ DoneWriting(o) \/ StreamReturns(o)

Fail(o) == kind[o] \in Fails /\ (SendFails(o) \/ WaitFails(o) \/ StreamFails(o))

Next == \/ Handled
        \/ \E o \in Calls : Start(o) \/ Resume(o) \/ Fail(o) \/ Process(o)

Spec == Init /\ [][Next]_writerVars

\* The event loop resumes calls, the orchestrator acks what it was sent, and the
\* runner's listener hands every ack to handled().  No call has to be made.
Fairness ==
  /\ WF_writerVars(Handled)
  /\ WF_writerVars(\E o \in Calls : Process(o))
  /\ \A o \in Calls : WF_writerVars(Resume(o))

FairSpec == Spec /\ Fairness
-----------------------------------------------------------------------------
(* Safety *)

\* The entry of a call that raised before its message was announced is stale: no
\* ack comes for it, so that it takes the one of a later call.
Stale(o) == IsMessage(o) /\ pc[o] = "failed" /\ ~InSeq(o, announced)

\* On a channel without streams, and until it is closed, a write returns only
\* after its own message was processed, also when others raise: a stale entry may
\* make it late, not early.  (A stream is announced on an RPC of its own: its ack
\* and that of a buffer may be taken for each other.)
OwnAck ==
  (\A o \in Calls : kind[o] # "stream") /\ closes = 0 =>
    \A o \in resolved : o \in processed \/ Stale(o)

\* open_streams counts the streams that run, and those that failed.
StreamsCounted ==
  openStreams = Cardinality({o \in Calls :
    kind[o] = "stream"
    /\ pc[o] \in {"identify", "streaming", "finish", "failed"}})

\* No ack is lost or made up between the orchestrator and the calls: the acked
\* messages are as many as the resolved calls and the acks on the way.
AcksConserved == Cardinality(processed) = Cardinality(resolved) + acks

\* Neither the open streams nor the acks are ever miscounted, whatever fails.
CountsExact == StreamsCounted /\ AcksConserved

\* The close a stream makes for those it deferred is not sent to an orchestrator
\* that issued one of them.
NoEcho ==
  [][\A o \in Calls :
       kind[o] = "stream" /\ pc'[o] = "notifying" /\ pc[o] # "notifying" =>
         \A p \in shouldClose : kind[p] # "issued"]_writerVars
-----------------------------------------------------------------------------
(* Liveness *)

\* A stream that failed keeps its count, and its entry may be stale.
StreamFailed == \E o \in Calls : kind[o] = "stream" /\ pc[o] = "failed"

\* Unless a stream failed, or an entry is stale that is ahead of its own, every
\* write returns, although acks may be attributed to the wrong call; and so does
\* every close that was deferred.
EveryCallReturns ==
  \A o \in Calls :
    /\ IsMessage(o) ~> \/ pc[o] \in {"done", "failed"}
                       \/ StreamFailed \/ \E p \in 1..o : Stale(p)
    /\ pc[o] = "deferred" ~> \/ pc[o] = "done"
                             \/ StreamFailed \/ \E p \in Calls : Stale(p)

\* A close that was deferred returns once its streams are over, as the docstring
\* of close() says, also when a stream failed.
EveryDeferredCloseReturns == \A o \in Calls : pc[o] = "deferred" ~> pc[o] = "done"
=============================================================================
