---------------------------- MODULE ChannelProofs ----------------------------
(***************************************************************************)
(* Proofs about Channel, for any number of calls and consumers, whatever   *)
(* processors call: the reader and the writer in it keep the invariants of *)
(* ReaderProofs and WriterProofs, and together they do what Writer takes   *)
(* for granted of the orchestrator and the other end.                      *)
(***************************************************************************)
EXTENDS Channel, FiniteSetTheorems, SequenceTheorems, TLAPS

RP == INSTANCE ReaderProofs WITH
        Kinds <- [c \in 1..MaxConsumers |-> {"string"}], MaxMessages <- MaxCalls,
        Malformed <- {}

WP == INSTANCE WriterProofs WITH
        Kinds <- CallKinds \cup {"issued"}, Fails <- {}, kind <- call

LEMMA ReaderHolds == RP!ReaderAssumption
BY ChannelAssumption DEF ChannelAssumption, RP!ReaderAssumption

LEMMA WriterHolds == WP!WriterAssumption
BY ChannelAssumption DEF ChannelAssumption, WP!WriterAssumption

-----------------------------------------------------------------------------
(* The steps of the channel are steps of its reader *)

LEMMA ReaderInit == Init => RP!Init
BY DEF Init, R!Init, RP!Init, R!Consumers, RP!Consumers, R!Messages, RP!Messages

LEMMA SameArrivals ==
  ASSUME NEW m \in Calls
  PROVE  /\ R!HandleMsg(m) => RP!HandleMsg(m)
         /\ R!HandleStream(m) => RP!HandleStream(m)
         /\ R!HandleStreamClosed(m) => RP!HandleStreamClosed(m)
BY DEF R!HandleMsg, RP!HandleMsg, R!HandleStream, RP!HandleStream, R!HandleStreamClosed,
       RP!HandleStreamClosed, R!Arrive, RP!Arrive, R!Messages, RP!Messages, R!Consumers,
       RP!Consumers, R!Registered, RP!Registered, R!streaming, RP!streaming, R!iterating,
       RP!iterating

LEMMA SameSets ==
  /\ R!Messages = Calls /\ RP!Messages = Calls
  /\ R!Consumers = Consumers /\ RP!Consumers = Consumers
  /\ R!CloseMark = RP!CloseMark /\ R!Registered = RP!Registered
BY DEF R!Messages, RP!Messages, Calls, R!Consumers, RP!Consumers, Consumers, R!CloseMark,
       RP!CloseMark, R!Registered, RP!Registered

LEMMA SameMessageSteps ==
  ASSUME NEW m \in Calls
  PROVE  /\ R!OpenStream(m) => RP!OpenStream(m)
         /\ R!Drain(m) => RP!Drain(m)
         /\ R!Notify(m) => RP!Notify(m)
         /\ R!WriteAck(m) => RP!WriteAck(m)
         /\ R!PlainSettled(m) = RP!PlainSettled(m)
<1>1. R!PlainSettled(m) = RP!PlainSettled(m) /\ R!StreamSettled(m) = RP!StreamSettled(m)
  BY DEF R!PlainSettled, RP!PlainSettled, R!StreamSettled, RP!StreamSettled
<1>2. (R!OpenStream(m) => RP!OpenStream(m)) /\ (R!Drain(m) => RP!Drain(m))
  BY DEF R!OpenStream, RP!OpenStream, R!Drain, RP!Drain, R!streaming, RP!streaming,
         R!iterating, RP!iterating, R!handling, RP!handling
<1>3. (R!Notify(m) => RP!Notify(m)) /\ (R!WriteAck(m) => RP!WriteAck(m))
  BY <1>1 DEF R!Notify, RP!Notify, R!WriteAck, RP!WriteAck, R!streaming, RP!streaming,
         R!iterating, RP!iterating
<1> QED BY <1>1, <1>2, <1>3

LEMMA SameConsumerSteps ==
  ASSUME NEW c \in Consumers
  PROVE  /\ R!Register(c) => RP!Register(c)
         /\ R!IterStep(c) => RP!IterStep(c)
         /\ \A m \in Calls : R!StringStep(c, m) => RP!StringStep(c, m)
<1>1. R!Register(c) => RP!Register(c)
  BY SameSets DEF R!Register, RP!Register, R!handling, RP!handling, R!streaming, RP!streaming,
     R!iterating, RP!iterating
<1>2. R!Get(c) => RP!Get(c)
  BY SameSets DEF R!Get, RP!Get, R!handling, RP!handling
<1>3. R!GetClose(c) => RP!GetClose(c)
  BY SameSets DEF R!GetClose, RP!GetClose, R!handling, RP!handling, R!streaming, RP!streaming
<1>4. R!Complete(c) => RP!Complete(c)
  BY DEF R!Complete, RP!Complete, R!Holding, RP!Holding, R!streaming, RP!streaming
<1>5. ASSUME NEW m \in Calls, R!StringStep(c, m) PROVE RP!StringStep(c, m)
  BY <1>5 DEF R!StringStep, RP!StringStep, R!HandleChunk, RP!HandleChunk, R!EndSub, RP!EndSub,
     R!LeaveSub, RP!LeaveSub, R!Decodes, RP!Decodes, R!handling, RP!handling, R!iterating,
     RP!iterating
<1> QED BY <1>1, <1>2, <1>3, <1>4, <1>5 DEF R!IterStep, RP!IterStep

LEMMA SameTasks ==
  /\ R!RunPlainTask => RP!RunPlainTask
  /\ R!RunStreamTask => RP!RunStreamTask
  /\ R!Close => RP!Close
<1>1. R!RunPlainTask => RP!RunPlainTask
  BY SameSets DEF R!RunPlainTask, RP!RunPlainTask, R!GatherPushes, RP!GatherPushes, R!Push,
     RP!Push, R!streaming, RP!streaming
<1>2. R!RunStreamTask => RP!RunStreamTask
  BY DEF R!RunStreamTask, RP!RunStreamTask, R!handling, RP!handling
<1>3. R!Close => RP!Close
  BY SameSets DEF R!Close, RP!Close, R!handling, RP!handling, R!streaming, RP!streaming
<1> QED BY <1>1, <1>2, <1>3

LEMMA SameWait == UNCHANGED readerVars => UNCHANGED RP!readerVars
BY DEF readerVars, RP!readerVars, RP!handling, RP!streaming, RP!iterating

LEMMA ReaderStep == [Next]_channelVars => [RP!Next]_(RP!readerVars)
<1> SUFFICES ASSUME [Next]_channelVars PROVE [RP!Next]_(RP!readerVars)
  OBVIOUS
<1>W. ASSUME UNCHANGED readerVars PROVE [RP!Next]_(RP!readerVars)
  BY <1>W, SameWait
<1>1. ASSUME NEW m \in Calls, HearMessage(m) PROVE RP!Next
  BY <1>1, SameArrivals, SameSets DEF HearMessage, RP!Next
<1>2. ASSUME NEW m \in Calls, Drain(m) \/ ReaderGoesOn(m) PROVE RP!Next
  BY <1>2, SameMessageSteps, SameSets DEF Drain, ReaderGoesOn, RP!Next, RP!MessageStep
<1>3. ASSUME NEW c \in Consumers, Register(c) \/ Iterate(c) PROVE RP!Next
  BY <1>3, SameConsumerSteps, SameSets DEF Register, Iterate, RP!Next
<1>4. ASSUME NEW c \in Consumers, NEW m \in Calls, Collect(c, m) PROVE RP!Next
  BY <1>4, SameConsumerSteps, SameSets DEF Collect, RP!Next
<1>5. CASE ReaderTask
  BY <1>5, SameTasks DEF ReaderTask, RP!Next
<1>6. CASE HearClose
  BY <1>6, <1>W, SameTasks DEF HearClose, RP!Next
<1>7. CASE HearProcessed \/ Forward \/ UNCHANGED channelVars
  BY <1>7, <1>W DEF HearProcessed, Forward, channelVars
<1>8. ASSUME NEW o \in Calls, Write(o) \/ SpawnedClose(o) \/ WriterGoesOn(o) \/ CloseSent(o)
      PROVE  UNCHANGED readerVars
  BY <1>8 DEF Write, SpawnedClose, WriterGoesOn, CloseSent
<1> QED BY <1>W, <1>1, <1>2, <1>3, <1>4, <1>5, <1>6, <1>7, <1>8 DEF Next, Step

-----------------------------------------------------------------------------
(* The steps of the writer are those its proofs are about *)

LEMMA WriterInit == Init => W!Init /\ WP!Init
BY DEF Init, W!Init, WP!Init, W!Calls, WP!Calls

LEMMA SameCalls == W!Calls = Calls /\ WP!Calls = Calls
BY DEF W!Calls, WP!Calls, Calls

LEMMA SameClose ==
  ASSUME NEW o \in Calls
  PROVE  (W!Close(o) => WP!Close(o)) /\ (W!StreamReturns(o) => WP!StreamReturns(o))
<1>1. ASSUME NEW issued \in BOOLEAN, NEW n, W!EnterClose(o, issued, n)
      PROVE  WP!EnterClose(o, issued, n)
  BY <1>1 DEF W!EnterClose, WP!EnterClose, W!ResolvePending, WP!ResolvePending, W!Goto, WP!Goto
<1>2. ASSUME NEW k, W!Call(o, k) PROVE WP!Call(o, k)
  BY <1>2 DEF W!Call, WP!Call
<1>3. W!Close(o) => WP!Close(o)
  BY <1>1, <1>2 DEF W!Close, WP!Close, W!remote, WP!remote
<1>4. ASSUME W!StreamReturns(o) PROVE WP!StreamReturns(o)
  <2>1. CASE shouldClose = {}
    BY <1>4, <2>1 DEF W!StreamReturns, WP!StreamReturns, W!Goto, WP!Goto, W!remote, WP!remote
  <2>2. CASE shouldClose # {}
    <3>1. W!EnterClose(o, closeIssued, openStreams')
      BY <1>4, <2>2 DEF W!StreamReturns
    <3>2. WP!EnterClose(o, closeIssued, openStreams')
      BY <3>1 DEF W!EnterClose, WP!EnterClose, W!ResolvePending, WP!ResolvePending, W!Goto,
                  WP!Goto
    <3> QED BY <1>4, <2>2, <3>2 DEF W!StreamReturns, WP!StreamReturns, W!remote, WP!remote
  <2> QED BY <2>1, <2>2
<1> QED BY <1>3, <1>4

LEMMA SameCallSteps ==
  ASSUME NEW o \in Calls
  PROVE  (W!Start(o) => WP!Start(o)) /\ (W!Resume(o) => WP!Resume(o))
<1>1. (W!Buffer(o) => WP!Buffer(o)) /\ (W!Stream(o) => WP!Stream(o))
  BY DEF W!Buffer, WP!Buffer, W!Stream, WP!Stream, W!Call, WP!Call, W!Goto, WP!Goto,
         W!closing, WP!closing, W!remote, WP!remote
<1>2. (W!SendBuffer(o) => WP!SendBuffer(o)) /\ (W!BufferReturns(o) => WP!BufferReturns(o))
  BY DEF W!SendBuffer, WP!SendBuffer, W!BufferReturns, WP!BufferReturns, W!Goto, WP!Goto,
         W!closing, WP!closing, W!remote, WP!remote
<1>3. (W!CloseSent(o) => WP!CloseSent(o)) /\ (W!CloseReturns(o) => WP!CloseReturns(o))
  BY DEF W!CloseSent, WP!CloseSent, W!CloseReturns, WP!CloseReturns, W!ResolvePending,
         WP!ResolvePending, W!Goto, WP!Goto, W!closing, WP!closing, W!remote, WP!remote
<1>4. (W!Identified(o) => WP!Identified(o)) /\ (W!DoneWriting(o) => WP!DoneWriting(o))
  BY DEF W!Identified, WP!Identified, W!DoneWriting, WP!DoneWriting, W!Goto, WP!Goto,
         W!closing, WP!closing, W!remote, WP!remote
<1> QED BY <1>1, <1>2, <1>3, <1>4, SameClose DEF W!Start, WP!Start, W!Resume, WP!Resume

LEMMA SameWriterStep == [W!Next]_(W!writerVars) => [WP!Next]_(WP!writerVars)
<1>1. ASSUME NEW o \in Calls, W!Process(o) PROVE WP!Process(o)
  BY <1>1 DEF W!Process, WP!Process, W!InSeq, WP!InSeq, W!closing, WP!closing
<1>2. W!Handled => WP!Handled
  BY DEF W!Handled, WP!Handled, W!closing, WP!closing
<1>3. ASSUME NEW o \in Calls PROVE ~W!Fail(o)
  BY DEF W!Fail
<1>4. UNCHANGED W!writerVars => UNCHANGED WP!writerVars
  BY DEF W!writerVars, WP!writerVars, W!closing, WP!closing, W!remote, WP!remote
<1> QED BY <1>1, <1>2, <1>3, <1>4, SameCalls, SameCallSteps DEF W!Next, WP!Next

-----------------------------------------------------------------------------
(* The inductive invariant: those of the reader and the writer, and what links *)
(* them.                                                                       *)

\* What the reader got is what the writer announced; a close is on the way, or at
\* the other end, after it was sent; no text fails to decode.
Links ==
  /\ arrived <= Len(announced)
  /\ \A m \in 1..arrived : type[m] = "plain" <=> call[announced[m]] = "buffer"
  /\ closed \/ behind # <<>> => closes > 0
  /\ bad = {} /\ failed = {}

\* While the reader is open the plain messages are acked in their order.
AckOrder ==
  ~closed =>
    \A j \in DOMAIN acked : \A k \in Calls :
      type[acked[j]] = "plain" /\ type[k] = "plain" /\ k < acked[j] =>
        \E i \in DOMAIN acked : i < j /\ acked[i] = k

\* The acks that were passed on are the first ones.
Forwarded ==
  /\ Cardinality(processed) <= Len(acked)
  /\ processed = {announced[acked[i]] : i \in 1..Cardinality(processed)}

\* The channel's writer makes only calls that do not raise (Fails is empty), so
\* that no entry of it is stale.
NoneFailed == \A o \in Calls : pc[o] # "failed"

ChannelInv ==
  /\ RP!TurnInv /\ WP!WriterInv /\ WP!AnnouncedOnce
  /\ NoneFailed /\ Links /\ AckOrder /\ Forwarded

LEMMA InitChannelInv == Init => ChannelInv
<1> SUFFICES ASSUME Init PROVE ChannelInv
  OBVIOUS
<1>1. RP!TurnInv
  BY ReaderInit, ReaderHolds, RP!InitTurnInv
<1>2. WP!WriterInv
  BY WriterInit, WriterHolds, WP!InitWriterInv
<1>3. WP!AnnouncedOnce
  BY DEF Init, W!Init, WP!AnnouncedOnce
<1>4. arrived = 0 /\ ~closed /\ behind = <<>> /\ bad = {} /\ failed = {} /\ acked = <<>>
  BY DEF Init, R!Init
<1>5. processed = {} /\ announced = <<>> /\ Cardinality(processed) = 0
  BY FS_EmptySet DEF Init, W!Init
<1>6. Links
  BY <1>4, <1>5 DEF Links
<1>7. AckOrder
  BY <1>4 DEF AckOrder
<1>8. Forwarded
  BY <1>4, <1>5 DEF Forwarded
<1>9. NoneFailed
  BY SameCalls DEF Init, W!Init, NoneFailed
<1> QED BY <1>1, <1>2, <1>3, <1>6, <1>7, <1>8, <1>9 DEF ChannelInv

LEMMA ChannelFacts ==
  ASSUME RP!TurnInv, WP!WriterInv
  PROVE  /\ announced \in Seq(Calls) /\ acked \in Seq(Calls)
         /\ arrived \in Nat /\ arrived <= MaxCalls /\ closes \in Nat
         /\ processed \subseteq Calls /\ IsFiniteSet(processed)
         /\ Cardinality(processed) \in Nat
         /\ type \in [Calls -> {"none", "plain", "stream"}]
         /\ \A m \in Calls : m > arrived => type[m] = "none" /\ stage[m] = "none"
         /\ \A i \in DOMAIN acked : acked[i] \in 1..arrived /\ stage[acked[i]] = "acked"
         /\ \A i, j \in DOMAIN acked : acked[i] = acked[j] => i = j
<1>1. /\ RP!Types /\ RP!Fresh /\ RP!Acks /\ RP!OtherTypes /\ RP!Arrivals
  BY DEF RP!TurnInv, RP!OrderInv, RP!ReaderInv
<1>2. WP!Types
  BY DEF WP!WriterInv
<1>3. /\ announced \in Seq(Calls) /\ closes \in Nat /\ processed \subseteq Calls
      /\ IsFiniteSet(processed) /\ Cardinality(processed) \in Nat
  <2>1. announced \in Seq(Calls) /\ closes \in Nat /\ processed \subseteq Calls
    BY <1>2, SameCalls DEF WP!Types
  <2>2. IsFiniteSet(Calls)
    BY FS_Interval, ChannelAssumption DEF Calls, ChannelAssumption
  <2>3. IsFiniteSet(processed) /\ Cardinality(processed) \in Nat
    BY <2>1, <2>2, FS_Subset, FS_CardinalityType
  <2> QED BY <2>1, <2>3
<1>4. /\ acked \in Seq(Calls) /\ arrived \in Nat /\ arrived <= MaxCalls
      /\ type \in [Calls -> {"none", "plain", "stream"}]
  BY <1>1, SameSets DEF RP!Types, RP!OtherTypes
<1>5. \A m \in Calls : m > arrived => type[m] = "none" /\ stage[m] = "none"
  BY <1>1, SameSets DEF RP!Arrivals, RP!Fresh
<1>6. ASSUME NEW i \in DOMAIN acked
      PROVE  acked[i] \in 1..arrived /\ stage[acked[i]] = "acked"
  <2>1. acked[i] \in Calls /\ stage[acked[i]] = "acked"
    BY <1>1, <1>4 DEF RP!Acks
  <2>2. ~(acked[i] > arrived)
    BY <1>5, <2>1
  <2> QED BY <1>4, <2>1, <2>2, ChannelAssumption DEF Calls, ChannelAssumption
<1>7. \A i, j \in DOMAIN acked : acked[i] = acked[j] => i = j
  BY <1>1 DEF RP!Acks, RP!AckedOnce
<1> QED BY <1>3, <1>4, <1>5, <1>6, <1>7

\* The orchestrator passes on an ack of a message that was not acked, and until
\* the channel is closed not one ahead of an earlier buffer.
LEMMA ForwardProcesses ==
  ASSUME ChannelInv, Forward
  PROVE  \E k \in DOMAIN acked :
           /\ k = Cardinality(processed) + 1
           /\ announced[acked[k]] \in Calls /\ W!Process(announced[acked[k]])
<1> DEFINE k == Cardinality(processed) + 1
           o == announced[acked[k]]
<1>1. /\ Links /\ AckOrder /\ Forwarded /\ WP!AnnouncedOnce /\ RP!TurnInv /\ WP!WriterInv
  BY DEF ChannelInv
<1>2. k \in DOMAIN acked /\ k \in Nat /\ DOMAIN acked = 1..Len(acked) /\ Len(acked) \in Nat
  <2>1. k <= Len(acked)
    BY DEF Forward
  <2> QED BY <1>1, <2>1, ChannelFacts
<1>3. acked[k] \in 1..arrived /\ acked[k] \in DOMAIN announced /\ o \in Calls
  <2>1. acked[k] \in 1..arrived
    BY <1>1, <1>2, ChannelFacts
  <2> QED BY <1>1, <2>1, ChannelFacts DEF Links
<1>4. o \notin processed
  <2> SUFFICES ASSUME o \in processed PROVE FALSE
    OBVIOUS
  <2>1. PICK i \in 1..Cardinality(processed) : announced[acked[i]] = o
    BY <1>1 DEF Forwarded
  <2>2. i \in DOMAIN acked /\ i # k
    BY <1>1, <1>2, ChannelFacts DEF Forwarded
  <2>3. acked[i] \in DOMAIN announced
    BY <1>1, <2>2, ChannelFacts DEF Links
  <2>4. acked[i] = acked[k]
    BY <1>1, <1>3, <2>1, <2>3 DEF WP!AnnouncedOnce
  <2> QED BY <1>1, <1>2, <2>2, <2>4, ChannelFacts
<1>5. ASSUME closes = 0, call[o] = "buffer", NEW i \in DOMAIN announced,
             NEW j \in DOMAIN announced, i < j, announced[j] = o,
             call[announced[i]] = "buffer"
      PROVE  announced[i] \in processed
  <2>1. ~closed
    BY <1>1, <1>5, ChannelFacts DEF Links
  <2>2. j = acked[k]
    BY <1>1, <1>3, <1>5 DEF WP!AnnouncedOnce
  <2>3. i \in 1..arrived /\ i \in Calls /\ i < acked[k]
    <3>1. announced \in Seq(Calls) /\ arrived \in Nat /\ arrived <= MaxCalls
      BY <1>1, ChannelFacts
    <3>2. i \in Nat /\ i >= 1 /\ i < acked[k]
      BY <1>5, <2>2, <3>1
    <3> QED BY <1>3, <3>1, <3>2, ChannelAssumption DEF Calls, ChannelAssumption
  <2>4. type[i] = "plain" /\ type[acked[k]] = "plain"
    BY <1>1, <1>3, <1>5, <2>3 DEF Links
  <2>5. PICK l \in DOMAIN acked : l < k /\ acked[l] = i
    BY <1>1, <1>2, <2>1, <2>3, <2>4 DEF AckOrder
  <2>6. l \in 1..Cardinality(processed)
    BY <1>1, <1>2, <2>5, ChannelFacts
  <2> QED BY <1>1, <2>5, <2>6 DEF Forwarded
<1>6. /\ processed' = processed \cup {o} /\ acks' = acks + 1
      /\ UNCHANGED <<call, pc, awaiting, resolved, openStreams, shouldClose, released,
                     closeIssued, closes, outgoing, announced>>
  BY DEF Forward
<1>7. W!Process(o)
  BY <1>3, <1>4, <1>5, <1>6 DEF W!Process, W!InSeq, W!closing
<1> QED BY <1>2, <1>3, <1>7

-----------------------------------------------------------------------------
(* The steps of the channel are steps of its writer *)

LEMMA WriterWait == UNCHANGED writerVars => UNCHANGED W!writerVars
BY DEF writerVars, W!writerVars, W!closing, W!remote

LEMMA WriterStep == ChannelInv /\ [Next]_channelVars => [W!Next]_(W!writerVars)
<1> SUFFICES ASSUME ChannelInv, [Next]_channelVars PROVE [W!Next]_(W!writerVars)
  OBVIOUS
<1>1. ASSUME NEW o \in Calls, Write(o) \/ SpawnedClose(o) \/ WriterGoesOn(o) \/ CloseSent(o)
      PROVE  W!Next
  BY <1>1, SameCalls DEF Write, SpawnedClose, WriterGoesOn, CloseSent, W!Start, W!Resume,
                         W!Next
<1>2. CASE HearProcessed
  BY <1>2 DEF HearProcessed, W!Next
<1>3. ASSUME NEW m \in Calls, Drain(m) PROVE W!Next
  <2>1. announced \in Seq(Calls)
    BY ChannelFacts DEF ChannelInv
  <2>2. announced[m] \in Calls /\ W!DoneWriting(announced[m])
    BY <1>3, <2>1, ChannelAssumption DEF Drain, Calls, ChannelAssumption
  <2> QED BY <2>2, SameCalls DEF W!Resume, W!Next
<1>4. CASE Forward
  BY <1>4, ForwardProcesses, SameCalls DEF W!Next
<1>5. ASSUME UNCHANGED writerVars PROVE [W!Next]_(W!writerVars)
  BY <1>5, WriterWait
<1>6. ASSUME NEW m \in Calls, HearMessage(m) \/ ReaderGoesOn(m) PROVE UNCHANGED writerVars
  BY <1>6 DEF HearMessage, ReaderGoesOn
<1>7. ASSUME NEW c \in Consumers, NEW m \in Calls, Collect(c, m) PROVE UNCHANGED writerVars
  BY <1>7 DEF Collect
<1>8. ASSUME NEW c \in Consumers, Register(c) \/ Iterate(c) PROVE UNCHANGED writerVars
  BY <1>8 DEF Register, Iterate
<1>9. CASE HearClose \/ ReaderTask \/ UNCHANGED channelVars
  BY <1>5, <1>9 DEF HearClose, ReaderTask, channelVars
<1> QED BY <1>1, <1>2, <1>3, <1>4, <1>5, <1>6, <1>7, <1>8, <1>9 DEF Next, Step

\* What was announced stays so, and keeps its kind.
LEMMA AnnouncedKept ==
  ASSUME ChannelInv, [Next]_channelVars
  PROVE  /\ announced' \in Seq(Calls) /\ Len(announced) <= Len(announced')
         /\ \A i \in DOMAIN announced : /\ announced'[i] = announced[i]
                                        /\ call'[announced[i]] = call[announced[i]]
         /\ closes > 0 => closes' > 0
<1>T. /\ WP!Types /\ WP!Places /\ WP!Sent /\ WP!AnnouncedOnce /\ announced \in Seq(Calls)
      /\ closes \in Nat
  BY ChannelFacts DEF ChannelInv, WP!WriterInv
<1>N. [WP!Next]_(WP!writerVars)
  BY WriterStep, SameWriterStep
<1>1. ASSUME NEW i \in DOMAIN announced
      PROVE  call'[announced[i]] = call[announced[i]]
  <2>1. pc[announced[i]] # "idle"
    BY <1>T, <1>1 DEF WP!AnnouncedOnce
  <2>2. UNCHANGED <<call, pc>> \/ \E o \in Calls : WP!Made(o) \/ WP!GoesOn(o)
    BY <1>T, <1>N, WriterHolds, SameCalls, WP!StepShape
  <2>3. ASSUME NEW o \in Calls, WP!Made(o) PROVE call'[announced[i]] = call[announced[i]]
    BY <1>T, <2>1, <2>3 DEF WP!Made, WP!Types
  <2> QED BY <2>2, <2>3 DEF WP!GoesOn
<1>2. closes' = closes \/ closes' = closes + 1
  BY <1>N DEF WP!Next, WP!Handled, WP!Start, WP!Resume, WP!Buffer, WP!Stream, WP!Close,
     WP!SendBuffer, WP!BufferReturns, WP!CloseSent, WP!CloseReturns, WP!Identified,
     WP!DoneWriting, WP!StreamReturns, WP!Fail, WP!Process, WP!writerVars, WP!closing
<1>3. announced' = announced \/ \E o \in Calls : announced' = Append(announced, o)
  BY <1>N, SameCalls DEF WP!Next, WP!Handled, WP!Start, WP!Resume, WP!Buffer, WP!Stream,
     WP!Close, WP!SendBuffer, WP!BufferReturns, WP!CloseSent, WP!CloseReturns, WP!Identified,
     WP!DoneWriting, WP!StreamReturns, WP!Fail, WP!Process, WP!writerVars, WP!remote
<1>4. ASSUME NEW o \in Calls, announced' = Append(announced, o)
      PROVE  /\ announced' \in Seq(Calls) /\ Len(announced) <= Len(announced')
             /\ \A i \in DOMAIN announced : announced'[i] = announced[i]
  BY <1>T, <1>4
<1> QED BY <1>T, <1>1, <1>2, <1>3, <1>4

\* The steps that touch the links: a message or a close comes, an ack is sent or
\* passed on, a close is sent.
LEMMA ChannelCases ==
  ASSUME ChannelInv, [Next]_channelVars
  PROVE  \/ \E m \in Calls : HearMessage(m)
         \/ \E m \in Calls : InTurn(m) /\ R!WriteAck(m) /\ UNCHANGED <<writerVars, links>>
         \/ HearClose
         \/ Forward
         \/ \E o \in Calls : CloseSent(o)
         \/ UNCHANGED <<readerVars, processed, behind>>
         \/ UNCHANGED <<arrived, type, bad, closed, failed, acked, announced, processed,
                        closes, behind>>
<1> DEFINE Goal == UNCHANGED <<arrived, type, bad, closed, failed, acked, announced,
                              processed, closes, behind>>
           Quiet == UNCHANGED <<readerVars, processed, behind>>
<1>1. ASSUME NEW o \in Calls, Write(o) PROVE Quiet
  BY <1>1 DEF Write, W!Start, W!Buffer, W!Stream, W!Close, W!remote, links
<1>2. ASSUME NEW o \in Calls, WriterGoesOn(o) \/ SpawnedClose(o) PROVE Quiet
  BY <1>2 DEF WriterGoesOn, SpawnedClose, W!SendBuffer, W!BufferReturns, W!CloseReturns,
     W!Identified, W!StreamReturns, W!Close, W!remote, links
<1>3. CASE HearProcessed
  <2>1. Quiet
    BY <1>3 DEF HearProcessed, W!Handled, links
  <2> QED BY <2>1
<1>4. ASSUME NEW m \in Calls, Drain(m) PROVE Goal
  BY <1>4 DEF Drain, R!Drain, R!handling, W!DoneWriting, W!closing, W!remote, links
<1>5. ASSUME NEW m \in Calls, ReaderGoesOn(m)
      PROVE  Goal \/ (InTurn(m) /\ R!WriteAck(m) /\ UNCHANGED <<writerVars, links>>)
  BY <1>5 DEF ReaderGoesOn, R!OpenStream, R!Notify, writerVars, links
<1>6. ASSUME NEW c \in Consumers, Register(c) \/ Iterate(c) PROVE Goal
  BY <1>6 DEF Register, Iterate, R!Register, R!IterStep, R!Get, R!GetClose, R!Complete,
     R!handling, writerVars, links
<1>7. ASSUME NEW c \in Consumers, NEW m \in Calls, Collect(c, m) PROVE Goal
  BY <1>7 DEF Collect, R!StringStep, R!HandleChunk, R!EndSub, R!LeaveSub, R!handling,
     writerVars, links
<1>8. CASE ReaderTask
  <2>1. bad = {}
    BY DEF ChannelInv, Links
  <2>2. Goal
    BY <1>8, <2>1 DEF ReaderTask, R!RunPlainTask, R!GatherPushes, R!Push, R!RunStreamTask,
       R!handling, writerVars, links
  <2> QED BY <2>2
<1>9. UNCHANGED channelVars => Quiet
  BY DEF channelVars, writerVars, links
<1> QED BY <1>1, <1>2, <1>3, <1>4, <1>5, <1>6, <1>7, <1>8, <1>9 DEF Next, Step

-----------------------------------------------------------------------------
(* Every step keeps the links *)

\* A message comes after those that came, in the order they were announced.
LEMMA HearEffect ==
  ASSUME ChannelInv, NEW m \in Calls, HearMessage(m)
  PROVE  /\ m = arrived + 1 /\ arrived' = m /\ m \in DOMAIN announced
         /\ type' = [type EXCEPT ![m] =
                       IF call[announced[m]] = "buffer" THEN "plain" ELSE "stream"]
         /\ bad' = {}
         /\ UNCHANGED <<closed, failed, acked, call, announced, processed, closes, behind>>
<1>1. announced \in Seq(Calls) /\ arrived \in Nat /\ bad = {}
  BY ChannelFacts DEF ChannelInv, Links
<1>2. m <= Len(announced) /\ UNCHANGED <<call, announced, processed, closes, behind>>
  BY DEF HearMessage, writerVars, links
<1>3. CASE call[announced[m]] = "buffer"
  <2>1. R!HandleMsg(m)
    BY <1>3 DEF HearMessage
  <2> QED BY <1>1, <1>2, <1>3, <2>1 DEF R!HandleMsg, R!Arrive
<1>4. CASE call[announced[m]] # "buffer"
  <2>1. R!HandleStream(m) \/ R!HandleStreamClosed(m)
    BY <1>4 DEF HearMessage
  <2> QED BY <1>1, <1>2, <1>4, <2>1 DEF R!HandleStream, R!HandleStreamClosed, R!Arrive
<1> QED BY <1>3, <1>4

LEMMA StepLinks == ChannelInv /\ [Next]_channelVars => Links'
<1> SUFFICES ASSUME ChannelInv, [Next]_channelVars PROVE Links'
  OBVIOUS
<1>T. /\ Links /\ announced \in Seq(Calls) /\ arrived \in Nat /\ closes \in Nat
      /\ type \in [Calls -> {"none", "plain", "stream"}] /\ arrived <= MaxCalls
  BY ChannelFacts DEF ChannelInv
<1>A. /\ announced' \in Seq(Calls) /\ Len(announced) <= Len(announced')
      /\ \A i \in DOMAIN announced : /\ announced'[i] = announced[i]
                                     /\ call'[announced[i]] = call[announced[i]]
      /\ closes > 0 => closes' > 0
  BY AnnouncedKept
<1>K. ASSUME UNCHANGED <<arrived, type>>
      PROVE  /\ arrived' <= Len(announced')
             /\ \A m \in 1..arrived' : type'[m] = "plain" <=> call'[announced'[m]] = "buffer"
  <2>1. \A m \in 1..arrived : m \in DOMAIN announced
    BY <1>T DEF Links
  <2> QED BY <1>T, <1>A, <1>K, <2>1 DEF Links
<1>C. ASSUME UNCHANGED <<arrived, type, bad, failed>>,
             closed' \/ behind' # <<>> => closed \/ behind # <<>>
      PROVE  Links'
  BY <1>T, <1>A, <1>C, <1>K DEF Links
<1>1. ASSUME NEW m \in Calls, HearMessage(m) PROVE Links'
  <2>1. /\ m = arrived + 1 /\ arrived' = m /\ m \in DOMAIN announced
        /\ type' = [type EXCEPT ![m] =
                      IF call[announced[m]] = "buffer" THEN "plain" ELSE "stream"]
        /\ bad' = {} /\ UNCHANGED <<closed, failed, call, announced, closes, behind>>
    BY <1>1, HearEffect
  <2>2. ASSUME NEW k \in 1..arrived'
        PROVE  type'[k] = "plain" <=> call'[announced'[k]] = "buffer"
    <3>1. CASE k = m
      BY <1>T, <2>1, <3>1
    <3>2. CASE k # m
      <4>1. k \in 1..arrived
        BY <1>T, <2>1, <2>2, <3>2
      <4> QED BY <1>T, <2>1, <3>2, <4>1 DEF Links
    <3> QED BY <3>1, <3>2
  <2>3. arrived' <= Len(announced')
    BY <1>T, <2>1
  <2> QED BY <1>T, <2>1, <2>2, <2>3 DEF Links
<1>2. ASSUME NEW m \in Calls, R!WriteAck(m), UNCHANGED <<writerVars, links>> PROVE Links'
  BY <1>C, <1>2 DEF R!WriteAck, links
<1>3. CASE HearClose
  <2>1. UNCHANGED <<arrived, type, bad, failed>> /\ behind # <<>>
    BY <1>3 DEF HearClose, R!Close, R!handling, readerVars
  <2> QED BY <1>C, <2>1
<1>4. CASE Forward
  BY <1>C, <1>4 DEF Forward, readerVars, links
<1>5. ASSUME NEW o \in Calls, CloseSent(o) PROVE Links'
  <2>1. /\ UNCHANGED <<arrived, type, bad, failed>> /\ closes' = closes + 1
    BY <1>5 DEF CloseSent, W!CloseSent, readerVars
  <2> QED BY <1>T, <1>K, <2>1 DEF Links
<1>6. CASE UNCHANGED <<readerVars, processed, behind>>
  BY <1>C, <1>6 DEF readerVars
<1>7. CASE UNCHANGED <<arrived, type, bad, closed, failed, acked, announced, processed,
                       closes, behind>>
  BY <1>C, <1>7
<1> QED BY <1>1, <1>2, <1>3, <1>4, <1>5, <1>6, <1>7, ChannelCases

\* An ack is written behind those that were.
LEMMA AckEffect ==
  ASSUME ChannelInv, NEW m \in Calls, R!WriteAck(m)
  PROVE  /\ UNCHANGED <<arrived, type, closed>> /\ stage[m] = "ack"
         /\ DOMAIN acked' = 1..(Len(acked) + 1) /\ DOMAIN acked = 1..Len(acked)
         /\ Len(acked) \in Nat /\ Len(acked') = Len(acked) + 1
         /\ acked'[Len(acked) + 1] = m
         /\ \A i \in DOMAIN acked : acked'[i] = acked[i]
<1>1. acked \in Seq(Calls)
  BY ChannelFacts DEF ChannelInv
<1> QED BY <1>1 DEF R!WriteAck

LEMMA StepAckOrder == ChannelInv /\ [Next]_channelVars => AckOrder'
<1> SUFFICES ASSUME ChannelInv, [Next]_channelVars PROVE AckOrder'
  OBVIOUS
<1>T. /\ AckOrder /\ acked \in Seq(Calls) /\ arrived \in Nat /\ failed = {} /\ RP!TurnInv
      /\ type \in [Calls -> {"none", "plain", "stream"}]
      /\ \A i \in DOMAIN acked : acked[i] \in 1..arrived
  BY ChannelFacts DEF ChannelInv, Links
<1>C. Calls' = Calls /\ Calls \subseteq Nat
  BY ChannelAssumption DEF Calls, ChannelAssumption
<1>K. ASSUME UNCHANGED <<type, acked>>, closed => closed' PROVE AckOrder'
  BY <1>T, <1>C, <1>K DEF AckOrder
<1>1. ASSUME NEW m \in Calls, HearMessage(m) PROVE AckOrder'
  <2>1. /\ m = arrived + 1 /\ UNCHANGED <<closed, acked>>
        /\ \A k \in Calls : k # m => type'[k] = type[k]
    BY <1>T, <1>1, HearEffect
  <2>2. ASSUME NEW j \in DOMAIN acked, NEW k \in Calls, k < acked[j]
        PROVE  type'[acked[j]] = type[acked[j]] /\ type'[k] = type[k]
    <3>1. acked[j] \in Calls /\ acked[j] \in 1..arrived /\ k \in Nat
      BY <1>T, <1>C
    <3>2. acked[j] # m /\ k # m
      BY <1>T, <2>1, <2>2, <3>1
    <3> QED BY <2>1, <3>1, <3>2
  <2> QED BY <1>T, <1>C, <2>1, <2>2 DEF AckOrder
<1>2. ASSUME NEW m \in Calls, InTurn(m), R!WriteAck(m) PROVE AckOrder'
  <2>1. /\ UNCHANGED <<type, closed>> /\ stage[m] = "ack"
        /\ DOMAIN acked' = 1..(Len(acked) + 1) /\ DOMAIN acked = 1..Len(acked)
        /\ Len(acked) \in Nat /\ acked'[Len(acked) + 1] = m
        /\ \A i \in DOMAIN acked : acked'[i] = acked[i]
    BY <1>2, AckEffect
  <2>2. ASSUME ~closed, NEW k \in Calls, type[k] = "plain", type[m] = "plain", k < m
        PROVE  \E i \in DOMAIN acked : acked[i] = k
    <3>1. waitFor[k] = {} /\ stage[k] \in {"waiting", "ack", "acked"}
      BY <1>T, <2>1, <2>2, ReaderHolds, SameSets, RP!HandledInTurn DEF RP!Through
    <3>2. k \in 1..(m - 1) /\ R!PlainSettled(k)
      BY <1>C, <2>2, <3>1 DEF R!PlainSettled, Calls
    <3>3. stage[k] # "ack" /\ stage[k] # "waiting"
      BY <1>2, <2>2, <3>2 DEF InTurn
    <3>4. RP!InSeq(k, acked)
      BY <1>T, <3>1, <3>3, SameSets DEF RP!TurnInv, RP!IsAcked
    <3> QED BY <3>4 DEF RP!InSeq
  <2>3. ASSUME ~closed', NEW j \in DOMAIN acked', NEW k \in Calls,
               type'[acked'[j]] = "plain", type'[k] = "plain", k < acked'[j]
        PROVE  \E i \in DOMAIN acked' : i < j /\ acked'[i] = k
    <3>1. CASE j = Len(acked) + 1
      <4>1. PICK i \in DOMAIN acked : acked[i] = k
        BY <2>1, <2>2, <2>3, <3>1
      <4>2. i \in DOMAIN acked' /\ i < j /\ acked'[i] = k
        BY <2>1, <3>1, <4>1
      <4> QED BY <4>2
    <3>2. CASE j # Len(acked) + 1
      <4>1. j \in DOMAIN acked /\ acked'[j] = acked[j]
        BY <2>1, <3>2
      <4>2. PICK i \in DOMAIN acked : i < j /\ acked[i] = k
        BY <1>T, <2>1, <2>3, <4>1 DEF AckOrder
      <4>3. i \in DOMAIN acked' /\ acked'[i] = k
        BY <2>1, <4>2
      <4> QED BY <4>2, <4>3
    <3> QED BY <3>1, <3>2
  <2> QED BY <1>C, <2>3 DEF AckOrder
<1>3. CASE HearClose
  <2>1. UNCHANGED <<type, acked>> /\ (closed => closed')
    BY <1>3 DEF HearClose, R!Close, readerVars
  <2> QED BY <1>K, <2>1
<1>4. CASE Forward
  BY <1>K, <1>4 DEF Forward, readerVars
<1>5. ASSUME NEW o \in Calls, CloseSent(o) PROVE AckOrder'
  BY <1>K, <1>5 DEF CloseSent, readerVars
<1>6. CASE UNCHANGED <<readerVars, processed, behind>>
  BY <1>K, <1>6 DEF readerVars
<1>7. CASE UNCHANGED <<arrived, type, bad, closed, failed, acked, announced, processed,
                       closes, behind>>
  BY <1>K, <1>7
<1> QED BY <1>1, <1>2, <1>3, <1>4, <1>5, <1>6, <1>7, ChannelCases

LEMMA StepForwarded == ChannelInv /\ [Next]_channelVars => Forwarded'
<1> SUFFICES ASSUME ChannelInv, [Next]_channelVars PROVE Forwarded'
  OBVIOUS
<1>T. /\ Forwarded /\ acked \in Seq(Calls) /\ announced \in Seq(Calls) /\ arrived \in Nat
      /\ IsFiniteSet(processed) /\ Cardinality(processed) \in Nat
      /\ \A i \in DOMAIN acked : acked[i] \in 1..arrived
      /\ arrived <= Len(announced)
  BY ChannelFacts DEF ChannelInv, Links
<1>A. \A i \in DOMAIN announced : announced'[i] = announced[i]
  BY AnnouncedKept
<1>K. ASSUME processed' = processed, Len(acked) <= Len(acked'),
             \A i \in DOMAIN acked : acked'[i] = acked[i]
      PROVE  Forwarded'
  <2>1. ASSUME NEW i \in 1..Cardinality(processed)
        PROVE  announced'[acked'[i]] = announced[acked[i]]
    <3>1. i \in DOMAIN acked
      BY <1>T, <2>1 DEF Forwarded
    <3>2. acked[i] \in DOMAIN announced /\ acked'[i] = acked[i]
      BY <1>T, <1>K, <3>1
    <3> QED BY <1>A, <3>2
  <2>2. Cardinality(processed) <= Len(acked')
    <3>1. Len(acked) \in Nat /\ Cardinality(processed) <= Len(acked)
      BY <1>T DEF Forwarded
    <3>2. RP!TurnInv'
      BY ReaderStep, ReaderHolds, RP!TurnInvariant DEF ChannelInv
    <3>3. Len(acked') \in Nat
      BY <3>2 DEF RP!TurnInv, RP!OrderInv, RP!ReaderInv, RP!Types
    <3> QED BY <1>K, <1>T, <3>1, <3>3
  <2>3. {announced'[acked'[i]] : i \in 1..Cardinality(processed)} =
          {announced[acked[i]] : i \in 1..Cardinality(processed)}
    BY <2>1
  <2>4. /\ Cardinality(processed)' <= Len(acked)'
        /\ processed' = {announced'[acked'[i]] : i \in 1..Cardinality(processed)'}
    BY <1>T, <1>K, <2>2, <2>3 DEF Forwarded
  <2> QED BY <2>4 DEF Forwarded
<1>1. ASSUME NEW m \in Calls, HearMessage(m) PROVE Forwarded'
  BY <1>T, <1>K, <1>1, HearEffect
<1>2. ASSUME NEW m \in Calls, R!WriteAck(m), UNCHANGED <<writerVars, links>> PROVE Forwarded'
  <2>1. processed' = processed
    BY <1>2 DEF writerVars
  <2>2. Len(acked) <= Len(acked') /\ \A i \in DOMAIN acked : acked'[i] = acked[i]
    BY <1>2, AckEffect
  <2> QED BY <1>K, <2>1, <2>2
<1>3. CASE HearClose
  <2>1. processed' = processed /\ acked' = acked
    BY <1>3 DEF HearClose, R!Close, readerVars, writerVars
  <2> QED BY <1>T, <1>K, <2>1
<1>4. CASE Forward
  <2>1. PICK k \in DOMAIN acked : k = Cardinality(processed) + 1 /\ W!Process(announced[acked[k]])
    BY <1>4, ForwardProcesses
  <2>2. announced[acked[k]] \notin processed
    BY <2>1 DEF W!Process
  <2>3. /\ processed' = processed \cup {announced[acked[k]]}
        /\ UNCHANGED <<announced, acked>>
    BY <1>4, <2>1 DEF Forward, readerVars
  <2>4. Cardinality(processed') = k
    BY <1>T, <2>1, <2>2, <2>3, FS_AddElement
  <2>5. 1..k = (1..Cardinality(processed)) \cup {k} /\ k <= Len(acked)
    BY <1>T, <2>1
  <2>6. processed' = {announced[acked[i]] : i \in 1..k}
    BY <1>T, <2>3, <2>5 DEF Forwarded
  <2> QED BY <2>3, <2>4, <2>5, <2>6 DEF Forwarded
<1>5. ASSUME NEW o \in Calls, CloseSent(o) PROVE Forwarded'
  <2>1. processed' = processed /\ acked' = acked
    BY <1>5 DEF CloseSent, W!CloseSent, W!remote, readerVars
  <2> QED BY <1>T, <1>K, <2>1
<1>6. CASE UNCHANGED <<readerVars, processed, behind>>
  BY <1>T, <1>K, <1>6 DEF readerVars
<1>7. CASE UNCHANGED <<arrived, type, bad, closed, failed, acked, announced, processed,
                       closes, behind>>
  BY <1>T, <1>K, <1>7
<1> QED BY <1>1, <1>2, <1>3, <1>4, <1>5, <1>6, <1>7, ChannelCases

LEMMA StepWriterInv ==
  ASSUME WP!WriterInv, WP!AnnouncedOnce, [WP!Next]_(WP!writerVars)
  PROVE  WP!WriterInv' /\ WP!AnnouncedOnce'
<1>1. WP!Types' /\ WP!Places' /\ WP!Entries' /\ WP!Sent' /\ WP!Arrivals'
  BY WriterHolds, WP!StepTypes, WP!StepPlaces, WP!StepEntries, WP!StepSent, WP!StepArrivals
<1>2. WP!IssuedKept' /\ WP!ClosesSent' /\ WP!StreamsCounted' /\ WP!AcksConserved'
  BY WriterHolds, WP!StepIssuedKept, WP!StepClosesSent, WP!StepStreamsCounted,
     WP!StepAcksConserved
<1>3. WP!AnnouncedOnce'
  BY WriterHolds, WP!StepAnnouncedOnce
<1> QED BY <1>1, <1>2, <1>3 DEF WP!WriterInv

LEMMA StepNoneFailed ==
  ASSUME NoneFailed, WP!Types, [WP!Next]_(WP!writerVars)
  PROVE  NoneFailed'
<1>T. /\ WP!Types /\ NoneFailed
      /\ pc \in [Calls -> {"idle", "sending", "waiting", "identify", "streaming",
                           "finish", "deferred", "notifying", "done", "failed"}]
  BY SameCalls DEF WP!Types
<1>G. ASSUME NEW o \in Calls, \E l : l # "failed" /\ WP!Goto(o, l) PROVE NoneFailed'
  BY <1>T, <1>G DEF WP!Goto, NoneFailed
<1>K. UNCHANGED pc => NoneFailed'
  BY DEF NoneFailed
<1>1. ASSUME NEW o \in Calls, WP!Close(o) \/ WP!StreamReturns(o) PROVE NoneFailed'
  <2>1. \E l \in {"deferred", "done", "notifying"} : WP!Goto(o, l)
    BY <1>T, <1>1, SameCalls, WriterHolds, WP!CloseEffect, WP!StreamReturnsEffect
  <2> QED BY <1>G, <2>1
<1>2. ASSUME NEW o \in Calls, WP!Buffer(o) \/ WP!Stream(o) \/ WP!SendBuffer(o)
                              \/ WP!BufferReturns(o) \/ WP!CloseSent(o)
                              \/ WP!CloseReturns(o) \/ WP!Identified(o)
                              \/ WP!DoneWriting(o)
      PROVE  NoneFailed'
  <2>1. \E l : l # "failed" /\ WP!Goto(o, l)
    BY <1>2 DEF WP!Buffer, WP!Stream, WP!SendBuffer, WP!BufferReturns, WP!CloseSent,
                WP!CloseReturns, WP!Identified, WP!DoneWriting
  <2> QED BY <1>G, <2>1
<1>3. ASSUME NEW o \in Calls, WP!Process(o) PROVE NoneFailed'
  BY <1>K, <1>3 DEF WP!Process
<1>4. CASE WP!Handled \/ UNCHANGED WP!writerVars
  BY <1>K, <1>4 DEF WP!Handled, WP!writerVars
<1>5. ASSUME NEW o \in Calls PROVE ~WP!Fail(o)
  BY DEF WP!Fail
<1> QED BY <1>1, <1>2, <1>3, <1>4, <1>5, SameCalls DEF WP!Next, WP!Start, WP!Resume

LEMMA ChannelInvariant == Spec => []ChannelInv
<1>1. ChannelInv /\ [Next]_channelVars => ChannelInv'
  <2> SUFFICES ASSUME ChannelInv, [Next]_channelVars PROVE ChannelInv'
    OBVIOUS
  <2>1. RP!TurnInv'
    BY ReaderStep, ReaderHolds, RP!TurnInvariant DEF ChannelInv
  <2>2. WP!WriterInv' /\ WP!AnnouncedOnce'
    BY WriterStep, SameWriterStep, StepWriterInv DEF ChannelInv
  <2>3. NoneFailed'
    BY WriterStep, SameWriterStep, StepNoneFailed DEF ChannelInv, WP!WriterInv
  <2> QED BY <2>1, <2>2, <2>3, StepLinks, StepAckOrder, StepForwarded DEF ChannelInv
<1> QED BY InitChannelInv, <1>1, PTL DEF Spec
-----------------------------------------------------------------------------
(* The theorems *)

\* reader.py:118-166, 200-278, writer.py:229-238: what Writer takes for granted of the
\* orchestrator and of the other end holds of a channel with a reader: each message is acked
\* once and, until the channel is closed, buffers in the order they were written, however
\* many consumers share them; the last chunk of a stream is acked while its writer awaits it.
THEOREM ImplementsWriter == Spec => RefinesWriter
<1>1. Init => W!Init
  BY WriterInit
<1>2. ChannelInv /\ [Next]_channelVars => [W!Next]_(W!writerVars)
  BY WriterStep
<1> QED BY ChannelInvariant, <1>1, <1>2, PTL DEF Spec, RefinesWriter, W!Spec

\* writer.py:147-165, 229-238, reader.py:118-156: on an open channel without streams a write
\* returns only when every consumer of its message, at the other end, is done with it.
THEOREM WritesAreHandled == Spec => []WriteMeansHandled
<1>1. ChannelInv => WriteMeansHandled
  <2> SUFFICES ASSUME ChannelInv, \A o \in Calls : call[o] # "stream", ~closed,
                      NEW r \in resolved
               PROVE  \E m \in DOMAIN announced :
                        announced[m] = r /\ R!IsAcked(m) /\ \A c \in parts[m] : Handled(c, m)
    BY DEF WriteMeansHandled
  <2>T. /\ Links /\ AckOrder /\ Forwarded /\ RP!TurnInv /\ WP!WriterInv /\ WP!AnnouncedOnce
        /\ RP!Settled /\ WP!Sent /\ WP!Arrivals /\ failed = {} /\ NoneFailed
    BY DEF ChannelInv, Links, RP!TurnInv, RP!OrderInv, RP!ReaderInv, WP!WriterInv
  <2>F. /\ announced \in Seq(Calls) /\ acked \in Seq(Calls) /\ arrived \in Nat
        /\ arrived <= Len(announced) /\ arrived <= MaxCalls
        /\ Cardinality(processed) \in Nat
        /\ \A i \in DOMAIN acked : acked[i] \in 1..arrived /\ stage[acked[i]] = "acked"
    BY <2>T, ChannelFacts DEF Links
  <2>A. /\ WP!Increasing(announced)
        /\ \A i \in DOMAIN announced, j \in DOMAIN outgoing : announced[i] < outgoing[j]
        /\ \A o \in Calls : WP!IsMessage(o) => WP!InSeq(o, announced) \/ WP!InSeq(o, outgoing)
    BY <2>T, SameCalls DEF WP!Arrivals, NoneFailed
  <2>P. \A m \in 1..arrived : type[m] = "plain" /\ m \in Calls /\ m \in DOMAIN announced
    <3>1. ASSUME NEW m \in 1..arrived PROVE m \in Calls /\ m \in DOMAIN announced
      BY <2>F, ChannelAssumption DEF Calls, ChannelAssumption
    <3>2. ASSUME NEW m \in 1..arrived PROVE call[announced[m]] = "buffer"
      BY <2>T, <2>F, <3>1 DEF WP!Sent, WP!IsMessage
    <3> QED BY <2>T, <3>1, <3>2 DEF Links
  <2>1. ASSUME NEW o \in processed, NEW p \in Calls, WP!IsMessage(p), p < o
        PROVE  p \in processed
    <3>1. PICK j \in 1..Cardinality(processed) : o = announced[acked[j]]
      BY <2>T DEF Forwarded
    <3>2. j \in DOMAIN acked /\ acked[j] \in 1..arrived /\ acked[j] \in DOMAIN announced
      BY <2>T, <2>F, <2>P DEF Forwarded
    <3>3. ~WP!InSeq(p, outgoing)
      BY <2>A, <2>F, <2>1, <3>1, <3>2, ChannelAssumption
         DEF WP!InSeq, Calls, ChannelAssumption
    <3>4. PICK k \in DOMAIN announced : announced[k] = p
      BY <2>A, <2>1, <3>3 DEF WP!InSeq
    <3>5. k < acked[j]
      <4>1. k \in Nat /\ acked[j] \in Nat /\ p \in Nat /\ o \in Nat
        <5>1. Calls \subseteq Nat
          BY DEF Calls
        <5>2. announced[acked[j]] \in Calls
          BY <2>F, <3>2
        <5>3. k \in Nat /\ acked[j] \in Nat
          BY <2>F, <3>2
        <5> QED BY <2>1, <3>1, <5>1, <5>2, <5>3
      <4>2. acked[j] < k => o < p
        BY <2>A, <3>1, <3>2, <3>4 DEF WP!Increasing
      <4>3. acked[j] # k
        BY <2>1, <3>1, <3>4, <4>1
      <4> QED BY <2>1, <4>1, <4>2, <4>3
    <3>6. k \in 1..arrived
      BY <2>F, <3>2, <3>5
    <3>7. PICK i \in DOMAIN acked : i < j /\ acked[i] = k
      BY <2>T, <2>P, <2>1, <3>2, <3>5, <3>6 DEF AckOrder
    <3>8. i \in 1..Cardinality(processed)
      BY <2>F, <3>7
    <3> QED BY <2>T, <3>4, <3>7, <3>8 DEF Forwarded
  <2>2. r \in processed
    <3>1. \A o \in resolved : o \in processed \/ WP!Stale(o)
      BY <2>T, <2>1, SameCalls, WriterHolds, WP!FirstProcessed
    <3>2. resolved \subseteq Calls
      BY <2>T, SameCalls DEF WP!WriterInv, WP!Types
    <3> QED BY <2>T, <3>1, <3>2 DEF WP!Stale, NoneFailed
  <2>3. PICK i \in 1..Cardinality(processed) : r = announced[acked[i]]
    BY <2>T, <2>2 DEF Forwarded
  <2>4. /\ i \in DOMAIN acked /\ acked[i] \in 1..arrived /\ acked[i] \in DOMAIN announced
        /\ acked[i] \in Calls /\ stage[acked[i]] = "acked"
    BY <2>T, <2>F, <2>P DEF Forwarded
  <2>5. \A c \in parts[acked[i]] : Handled(c, acked[i])
    BY <2>T, <2>4, SameSets DEF RP!Settled, RP!AllHandled, RP!InSeq, Handled
  <2> QED BY <2>3, <2>4, <2>5 DEF R!IsAcked
<1> QED BY ChannelInvariant, <1>1, PTL

\* Consumers are done with the buffers in the order these were written.
HandledInWrittenOrder ==
  \A c \in Consumers : \A i, j \in DOMAIN handled[c] :
    i < j /\ call[announced[handled[c][i]]] = "buffer"
          /\ call[announced[handled[c][j]]] = "buffer" =>
      announced[handled[c][i]] < announced[handled[c][j]]

\* writer.py:147-165, reader.py:105-139, iterable.py:16-47: from end to end buffers keep their
\* order: every consumer is done with them in the order in which buffer() was called, also
\* between streams and after the close, and with none twice.
THEOREM BuffersKeepTheirOrder == Spec => []HandledInWrittenOrder
<1>1. Init => WP!BuffersInOrder
  BY DEF Init, W!Init, WP!BuffersInOrder
<1>2. ChannelInv /\ WP!BuffersInOrder /\ [Next]_channelVars => WP!BuffersInOrder'
  BY WriterStep, SameWriterStep, WriterHolds, WP!StepBuffersInOrder DEF ChannelInv
<1>3. ChannelInv /\ WP!BuffersInOrder => HandledInWrittenOrder
  <2> SUFFICES ASSUME ChannelInv, WP!BuffersInOrder, NEW c \in Consumers,
                      NEW i \in DOMAIN handled[c], NEW j \in DOMAIN handled[c], i < j,
                      call[announced[handled[c][i]]] = "buffer",
                      call[announced[handled[c][j]]] = "buffer"
               PROVE  announced[handled[c][i]] < announced[handled[c][j]]
    BY DEF HandledInWrittenOrder
  <2>T. /\ Links /\ RP!TurnInv /\ WP!WriterInv /\ RP!Types /\ RP!Line(c)
    BY SameSets DEF ChannelInv, RP!TurnInv, RP!OrderInv, RP!ReaderInv
  <2>F. announced \in Seq(Calls) /\ arrived \in Nat /\ arrived <= Len(announced)
    BY <2>T, ChannelFacts DEF Links
  <2>1. ASSUME NEW k \in DOMAIN handled[c], call[announced[handled[c][k]]] = "buffer"
        PROVE  /\ handled[c][k] \in DOMAIN announced /\ handled[c][k] \in RP!Plain
    <3>1. handled[c] \in Seq(Calls)
      BY <2>T, SameSets DEF RP!Types
    <3>2. handled[c][k] \in Calls /\ handled[c][k] <= arrived
      BY <2>T, <2>1, <3>1 DEF RP!Line, RP!InSeq
    <3>3. handled[c][k] \in 1..arrived
      BY <2>F, <3>2, ChannelAssumption DEF Calls, ChannelAssumption
    <3>4. type[handled[c][k]] = "plain"
      BY <2>T, <2>1, <3>3 DEF Links
    <3> QED BY <2>F, <3>2, <3>3, <3>4, SameSets DEF RP!Plain
  <2>2. handled[c][i] < handled[c][j]
    BY <2>T, <2>1 DEF RP!Line, RP!InOrder, RP!Ascending
  <2> QED BY <2>1, <2>2 DEF WP!BuffersInOrder
<1> QED BY ChannelInvariant, <1>1, <1>2, <1>3, PTL DEF Spec
=============================================================================
