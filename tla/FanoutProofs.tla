----------------------------- MODULE FanoutProofs -----------------------------
(***************************************************************************)
(* Proofs about Fanout, for any set of consumers and streams of any length *)
(* up to any bound: the acks and their lock first, then what the consumers *)
(* are handed, that no chunk is skipped and no stream truncated silently.  *)
(***************************************************************************)
EXTENDS Fanout, SequenceTheorems, TLAPS

-----------------------------------------------------------------------------
(* The inductive invariant, in parts. *)

\* A task is inside ack_chunk exactly where its program says so.
AckPlaces ==
  /\ pump = "ack" <=> ack[Pump] # "no"
  /\ \A c \in Consumers : gen[c] \in {"mark", "close"} <=> ack[c] # "no"

\* The lock is held by the one task that writes.
LockHeld == \A t \in Tasks : lock = t <=> ack[t] \in {"write", "return"}

Returning == IF lock # NoTask /\ ack[lock] = "return" THEN 1 ELSE 0

\* On a live stream idx counts the acks, but for one that is returning.
Counted == rpc # "failed" => Len(acks) = idx + Returning

AckInv == TypeOK /\ AckPlaces /\ LockHeld /\ Counted /\ AckedInOrder
-----------------------------------------------------------------------------
(* Type correctness *)

\* What every run of the fan-out starts from satisfies the type invariant.
LEMMA InitTypeOK == Init => TypeOK
<1> SUFFICES ASSUME Init PROVE TypeOK
  OBVIOUS
<1> USE FanoutAssumption DEF FanoutAssumption
<1>1. sent \in 0..MaxChunks /\ taken \in 0..sent /\ event \in 0..taken
  BY DEF Init
<1>2. queue \in [Consumers -> Seq(Nat)] /\ acks \in Seq(Nat)
  BY DEF Init
<1>3. /\ mine \in [Consumers -> Nat] /\ seen \in [Consumers -> Nat]
      /\ gen \in [Consumers ->
                   {"new", "get", "hold", "mark", "close", "ended", "left"}]
      /\ ack \in [Tasks -> {"no", "lock", "write", "return"}]
  BY DEF Init
<1> QED BY <1>1, <1>2, <1>3 DEF Init, TypeOK

LEMMA PutToType ==
  ASSUME TypeOK, NEW S, NEW x \in Nat
  PROVE  PutTo(S, x) \in [Consumers -> Seq(Nat)]
BY DEF TypeOK, PutTo

LEMMA EnterAckType ==
  ASSUME TypeOK, NEW t \in Tasks, EnterAck(t)
  PROVE  /\ lock' \in Tasks \cup {NoTask}
         /\ ack' \in [Tasks -> {"no", "lock", "write", "return"}]
BY DEF TypeOK, EnterAck

LEMMA AckRaisesType ==
  ASSUME TypeOK, NEW c \in Consumers, AckRaises(c),
         rpc' \in {"open", "ended", "failed"}
  PROVE  TypeOK'
BY DEF TypeOK, AckRaises, ReleaseLock, Tasks

LEMMA MarkHandledType ==
  ASSUME TypeOK, NEW c \in Consumers,
         NEW busy \in {"mark", "close"}, NEW idle \in {"get", "ended", "left"},
         MarkHandled(c, busy, idle)
  PROVE  /\ pending' \subseteq Consumers /\ claimed' \in BOOLEAN
         /\ mine' \in [Consumers -> Nat]
         /\ gen' \in [Consumers ->
                {"new", "get", "hold", "mark", "close", "ended", "left"}]
         /\ lock' \in Tasks \cup {NoTask}
         /\ ack' \in [Tasks -> {"no", "lock", "write", "return"}]
<1>1. event \in Nat
  BY FanoutAssumption DEF FanoutAssumption, TypeOK
<1>2. c \in Tasks
  BY DEF Tasks
<1> QED BY <1>1, <1>2, EnterAckType, ZenonT(40) DEF TypeOK, MarkHandled

\* The head of a queue is a chunk or the end mark, its tail a queue.
LEMMA QueueTailType ==
  ASSUME TypeOK, NEW c \in Consumers, queue[c] # <<>>
  PROVE  [queue EXCEPT ![c] = Tail(@)] \in [Consumers -> Seq(Nat)]
BY HeadTailProperties DEF TypeOK

\* Every step of the fan-out keeps the types.
LEMMA StepTypeOK == TypeOK /\ [Next]_fanVars => TypeOK'
<1> SUFFICES ASSUME TypeOK, [Next]_fanVars PROVE TypeOK'
  OBVIOUS
<1> USE FanoutAssumption DEF FanoutAssumption
<1>0. ASSUME TakeChunk PROVE taken' \in 0..sent /\ event \in 0..taken'
                              /\ taken' \in 0..taken' /\ taken' \in Nat
  BY <1>0 DEF TakeChunk, TypeOK
<1>1. CASE Send BY <1>1 DEF Send, TypeOK, gate, acking
<1>2. CASE EndStream BY <1>2 DEF EndStream, TypeOK, gate, acking
<1>3. CASE BreakStream BY <1>3 DEF BreakStream, TypeOK, gate, acking
<1>4. CASE Abort BY <1>4 DEF Abort, TypeOK, source, gate, acking
<1>5. CASE DrainChunk
  BY <1>0, <1>5, EnterAckType DEF DrainChunk, TypeOK, source, gate, Tasks
<1>6. CASE DeliverUngated
  <2>1. queue' \in [Consumers -> Seq(Nat)]
    BY <1>0, <1>6, PutToType DEF DeliverUngated
  <2> QED
    BY <1>0, <1>6, <2>1, EnterAckType
       DEF DeliverUngated, TypeOK, source, gate, Tasks
<1>7. CASE DeliverGated
  <2>1. queue' \in [Consumers -> Seq(Nat)]
    BY <1>0, <1>7, PutToType DEF DeliverGated
  <2> QED
    BY <1>0, <1>7, <2>1 DEF DeliverGated, TypeOK, source, acking
<1>8. CASE PassBarrier
  BY <1>8 DEF PassBarrier, TypeOK, source, gate, acking
<1>9. CASE AckAborted
  BY <1>9, EnterAckType DEF AckAborted, TypeOK, source, Tasks
<1>10. CASE PumpEnds
  <2>1. queue' \in [Consumers -> Seq(Nat)]
    BY <1>10, PutToType DEF PumpEnds, EndMark
  <2> QED BY <1>10, <2>1 DEF PumpEnds, TypeOK, source, gate, acking
<1>11. CASE PumpAckReturns
  BY <1>11 DEF PumpAckReturns, ReleaseLock, TypeOK, source, gate, Tasks
<1>12. CASE PumpAckFails
  <2>1. queue' \in [Consumers -> Seq(Nat)]
    BY <1>12, PutToType DEF PumpAckFails, EndMark
  <2> QED
    BY <1>12, <2>1 DEF PumpAckFails, ReleaseLock, TypeOK, source, gate, Tasks
<1>13. ASSUME NEW t \in Tasks, AcquireLock(t) PROVE TypeOK'
  BY <1>13 DEF AcquireLock, TypeOK, source, gate
<1>14. ASSUME NEW t \in Tasks, DeliverAck(t) PROVE TypeOK'
  BY <1>14 DEF DeliverAck, TypeOK, source, gate
<1>15. ASSUME NEW c \in Consumers, ConsumerAckReturns(c) PROVE TypeOK'
  <2>1. c \in Tasks
    BY DEF Tasks
  <2>2. opened' \subseteq Nat
    BY <1>15 DEF ConsumerAckReturns, TypeOK
  <2>3. gen' \in [Consumers ->
                {"new", "get", "hold", "mark", "close", "ended", "left"}]
    BY <1>15 DEF ConsumerAckReturns, TypeOK
  <2>4. /\ idx' \in Nat /\ lock' \in Tasks \cup {NoTask}
        /\ ack' \in [Tasks -> {"no", "lock", "write", "return"}]
    BY <1>15, <2>1 DEF ConsumerAckReturns, ReleaseLock, TypeOK
  <2> QED
    BY <1>15, <2>2, <2>3, <2>4 DEF ConsumerAckReturns, TypeOK, source
<1>16. ASSUME NEW c \in Consumers, ConsumerAckFails(c) PROVE TypeOK'
  BY <1>16, AckRaisesType DEF ConsumerAckFails, TypeOK
<1>17. ASSUME NEW c \in Consumers, CancelAck(c) PROVE TypeOK'
  BY <1>17, AckRaisesType DEF CancelAck
<1>18. ASSUME NEW c \in Consumers, Start(c) PROVE TypeOK'
  BY <1>18 DEF Start, TypeOK, source, gate, acking
<1>19. ASSUME NEW c \in Consumers, GetChunk(c) PROVE TypeOK'
  BY <1>19, QueueTailType DEF GetChunk, TypeOK, source, gate, acking
<1>20. ASSUME NEW c \in Consumers, Resume(c) PROVE TypeOK'
  BY <1>20, MarkHandledType DEF Resume, TypeOK, source
<1>21. ASSUME NEW c \in Consumers, Exit(c) PROVE TypeOK'
  BY <1>21, MarkHandledType DEF Exit, TypeOK, source
<1>22. ASSUME NEW c \in Consumers, GetEnd(c) PROVE TypeOK'
  BY <1>22, MarkHandledType, QueueTailType DEF GetEnd, TypeOK, source
<1>23. CASE UNCHANGED fanVars
  BY <1>23 DEF fanVars, TypeOK, source, gate, acking
<1> QED
  BY <1>1, <1>2, <1>3, <1>4, <1>5, <1>6, <1>7, <1>8, <1>9, <1>10, <1>11,
     <1>12, <1>13, <1>14, <1>15, <1>16, <1>17, <1>18, <1>19, <1>20, <1>21,
     <1>22, <1>23
     DEF Next, PumpStep, LoopStep, ProcessorStep, AckStep

\* The fan-out's variables keep their types; in particular the pump never
\* takes a chunk that was not sent (pump_source).
THEOREM TypeCorrect == Spec => []TypeOK
BY InitTypeOK, StepTypeOK, PTL DEF Spec
-----------------------------------------------------------------------------
(* One writer, acks in order *)

\* Only changes of ack, lock, idx, acks and rpc can disturb these parts.
LEMMA AckFrame ==
  ASSUME AckInv, UNCHANGED <<ack, lock, acks, idx>>,
         rpc' = "failed" \/ rpc' = rpc \/ (rpc = "open" /\ rpc' = "ended")
  PROVE  LockHeld' /\ Counted' /\ AckedInOrder'
BY DEF AckInv, LockHeld, Counted, Returning, AckedInOrder, Tasks

\* Entering ack_chunk writes only where nobody else does.
LEMMA EnterAckInv ==
  ASSUME AckInv, NEW t \in Tasks, ack[t] = "no", EnterAck(t),
         UNCHANGED <<rpc, acks, idx>>
  PROVE  /\ LockHeld' /\ Counted' /\ AckedInOrder'
         /\ ack' = [ack EXCEPT ![t] = ack'[t]] /\ ack'[t] \in {"lock", "write"}
<1> USE DEF AckInv
<1>1. /\ ack' = [ack EXCEPT ![t] = ack'[t]] /\ ack'[t] \in {"lock", "write"}
      /\ ack' \in [Tasks -> {"no", "lock", "write", "return"}]
      /\ lock # NoTask => lock' = lock /\ ack'[t] = "lock"
      /\ lock = NoTask => lock' = t /\ ack'[t] = "write"
  BY DEF EnterAck, TypeOK
<1>2. t # NoTask /\ NoTask \notin Tasks
  BY FanoutAssumption DEF FanoutAssumption, Tasks
<1>3. LockHeld'
  <2> SUFFICES ASSUME NEW u \in Tasks
               PROVE  lock' = u <=> ack'[u] \in {"write", "return"}
    BY DEF LockHeld
  <2>1. CASE u = t
    BY <1>1, <1>2, <2>1 DEF LockHeld, TypeOK
  <2>2. CASE u # t
    <3>1. ack'[u] = ack[u]
      BY <1>1, <2>2 DEF TypeOK
    <3> QED BY <1>1, <1>2, <2>2, <3>1 DEF LockHeld
  <2> QED BY <2>1, <2>2
<1>4. CASE lock = NoTask
  <2>1. Returning = 0
    BY <1>4 DEF Returning
  <2>2. ack'[lock'] # "return"
    BY <1>1, <1>4
  <2>3. Returning' = 0
    BY <2>2 DEF Returning
  <2> QED BY <1>1, <1>3, <2>1, <2>3 DEF Counted, AckedInOrder
<1>5. CASE lock # NoTask
  <2>1. lock \in Tasks /\ lock # t
    BY <1>5 DEF LockHeld, TypeOK
  <2>2. ack'[lock'] = ack[lock] /\ lock' = lock
    BY <1>1, <1>5, <2>1 DEF TypeOK
  <2> QED BY <1>1, <1>3, <1>5, <2>2 DEF Returning, Counted, AckedInOrder
<1> QED BY <1>4, <1>5

\* Leaving ack_chunk frees the lock; a completed write has been counted.
LEMMA ReleaseLockInv ==
  ASSUME AckInv, NEW t \in Tasks, ReleaseLock(t), UNCHANGED acks,
         ack[t] \in {"write", "return"},
         \/ rpc' = "failed"
         \/ rpc' = rpc /\ ack[t] = "return" /\ idx' = idx + 1
  PROVE  LockHeld' /\ Counted' /\ AckedInOrder'
<1> USE DEF AckInv
<1>1. lock = t /\ t # NoTask /\ NoTask \notin Tasks
  BY FanoutAssumption DEF FanoutAssumption, Tasks, LockHeld
<1>2. \A u \in Tasks : ack'[u] \notin {"write", "return"}
  BY <1>1 DEF ReleaseLock, TypeOK, LockHeld
<1>3. LockHeld'
  BY <1>1, <1>2 DEF LockHeld, ReleaseLock
<1>4. Counted'
  BY <1>1 DEF Counted, Returning, ReleaseLock, TypeOK
<1> QED BY <1>3, <1>4 DEF AckedInOrder

LEMMA AckRaisesInv ==
  ASSUME AckInv, NEW c \in Consumers, AckRaises(c),
         ack[c] \in {"write", "return"}, rpc' = "failed"
  PROVE  AckPlaces' /\ LockHeld' /\ Counted' /\ AckedInOrder'
<1>1. c \in Tasks /\ c # Pump
  BY FanoutAssumption DEF FanoutAssumption, Tasks
<1>2. AckPlaces'
  BY <1>1 DEF AckPlaces, AckRaises, ReleaseLock, AckInv, TypeOK, Tasks
<1> QED BY <1>1, <1>2, ReleaseLockInv DEF AckRaises

LEMMA MarkHandledInv ==
  ASSUME AckInv, NEW c \in Consumers, gen[c] \in {"get", "hold"},
         NEW busy \in {"mark", "close"}, NEW idle \in {"get", "ended", "left"},
         MarkHandled(c, busy, idle), UNCHANGED <<rpc, acks, idx, pump>>
  PROVE  AckPlaces' /\ LockHeld' /\ Counted' /\ AckedInOrder'
<1>1. c \in Tasks /\ c # Pump /\ ack[c] = "no"
  BY FanoutAssumption DEF FanoutAssumption, Tasks, AckInv, AckPlaces, TypeOK
<1>2. CASE EnterAck(c) /\ gen' = [gen EXCEPT ![c] = busy]
  <2>1. /\ LockHeld' /\ Counted' /\ AckedInOrder'
        /\ ack' = [ack EXCEPT ![c] = ack'[c]] /\ ack'[c] \in {"lock", "write"}
    BY <1>1, <1>2, EnterAckInv
  <2>2. AckPlaces'
    <3>1. ack'[Pump] = ack[Pump]
      BY <1>1, <2>1 DEF AckInv, TypeOK, Tasks
    <3>2. ASSUME NEW d \in Consumers
          PROVE  gen'[d] \in {"mark", "close"} <=> ack'[d] # "no"
      BY <1>1, <1>2, <2>1 DEF AckInv, AckPlaces, TypeOK, Tasks
    <3> QED BY <3>1, <3>2 DEF AckInv, AckPlaces
  <2> QED BY <2>1, <2>2
<1>3. CASE UNCHANGED <<lock, ack>> /\ gen' = [gen EXCEPT ![c] = idle]
  <2>1. AckPlaces'
    BY <1>1, <1>3 DEF AckInv, AckPlaces, TypeOK
  <2> QED BY <1>3, <2>1, AckFrame
<1> QED BY <1>2, <1>3 DEF MarkHandled

LEMMA InitAckInv == Init => AckInv
<1> SUFFICES ASSUME Init PROVE AckInv
  OBVIOUS
<1> USE FanoutAssumption DEF FanoutAssumption, Init, Tasks
<1>1. TypeOK BY InitTypeOK
<1>2. AckPlaces BY DEF AckPlaces
<1>3. LockHeld BY DEF LockHeld
<1>4. Counted BY DEF Counted, Returning
<1>5. AckedInOrder BY DEF AckedInOrder
<1> QED BY <1>1, <1>2, <1>3, <1>4, <1>5 DEF AckInv

\* Every step keeps the acks in order and the writers apart.
LEMMA StepAckInv == AckInv /\ [Next]_fanVars => AckInv'
<1> SUFFICES ASSUME AckInv, [Next]_fanVars
             PROVE  AckPlaces' /\ LockHeld' /\ Counted' /\ AckedInOrder'
  BY StepTypeOK DEF AckInv
<1> USE DEF AckInv
<1>P. Pump \in Tasks /\ Pump \notin Consumers
  BY FanoutAssumption DEF FanoutAssumption, Tasks
<1>1. CASE Send BY <1>1, AckFrame DEF Send, acking, AckPlaces
<1>2. CASE EndStream BY <1>2, AckFrame DEF EndStream, acking, AckPlaces
<1>3. CASE BreakStream BY <1>3, AckFrame DEF BreakStream, acking, AckPlaces
<1>4. CASE Abort BY <1>4, AckFrame DEF Abort, source, acking, AckPlaces
<1>5. ASSUME pump \in {"read", "barrier"}, pump' = "ack", EnterAck(Pump),
             UNCHANGED <<rpc, acks, idx, gen>>
      PROVE  AckPlaces' /\ LockHeld' /\ Counted' /\ AckedInOrder'
  <2>1. ack[Pump] = "no"
    BY <1>5 DEF AckPlaces
  <2>2. /\ LockHeld' /\ Counted' /\ AckedInOrder'
        /\ ack' = [ack EXCEPT ![Pump] = ack'[Pump]]
        /\ ack'[Pump] \in {"lock", "write"}
    BY <1>5, <1>P, <2>1, EnterAckInv
  <2>3. \A c \in Consumers : ack'[c] = ack[c]
    BY <1>P, <2>2 DEF TypeOK, Tasks
  <2>4. ack'[Pump] # "no"
    BY <2>2
  <2> QED BY <1>5, <2>2, <2>3, <2>4 DEF AckPlaces
<1>6. CASE DrainChunk BY <1>5, <1>6 DEF DrainChunk, TakeChunk, source
<1>7. CASE DeliverUngated BY <1>5, <1>7 DEF DeliverUngated, TakeChunk, source
<1>8. CASE DeliverGated
  BY <1>8, AckFrame DEF DeliverGated, TakeChunk, source, acking, AckPlaces
<1>9. CASE PassBarrier
  BY <1>9, AckFrame DEF PassBarrier, source, acking, AckPlaces
<1>10. CASE AckAborted BY <1>5, <1>10 DEF AckAborted, source
<1>11. CASE PumpEnds
  BY <1>11, AckFrame DEF PumpEnds, source, acking, AckPlaces
<1>12. CASE PumpAckReturns
  <2>1. LockHeld' /\ Counted' /\ AckedInOrder'
    BY <1>12, <1>P, ReleaseLockInv DEF PumpAckReturns, source
  <2>2. ack'[Pump] = "no" /\ \A c \in Consumers : ack'[c] = ack[c]
    BY <1>12, <1>P DEF PumpAckReturns, ReleaseLock, TypeOK, Tasks
  <2>3. pump' # "ack" /\ gen' = gen
    BY <1>12 DEF PumpAckReturns
  <2> QED BY <2>1, <2>2, <2>3 DEF AckPlaces
<1>13. CASE PumpAckFails
  <2>1. LockHeld' /\ Counted' /\ AckedInOrder'
    BY <1>13, <1>P, ReleaseLockInv DEF PumpAckFails, source
  <2>2. ack'[Pump] = "no" /\ \A c \in Consumers : ack'[c] = ack[c]
    BY <1>13, <1>P DEF PumpAckFails, ReleaseLock, TypeOK, Tasks
  <2>3. pump' # "ack" /\ gen' = gen
    BY <1>13 DEF PumpAckFails
  <2> QED BY <2>1, <2>2, <2>3 DEF AckPlaces
<1>14. ASSUME NEW t \in Tasks, AcquireLock(t)
       PROVE  AckPlaces' /\ LockHeld' /\ Counted' /\ AckedInOrder'
  <2>1. t # NoTask /\ NoTask \notin Tasks
    BY FanoutAssumption DEF FanoutAssumption, Tasks
  <2>2. AckPlaces'
    <3>1. \A u \in Tasks : ack'[u] # "no" <=> ack[u] # "no"
      BY <1>14 DEF AcquireLock, TypeOK
    <3> QED BY <1>14, <1>P, <3>1 DEF AcquireLock, AckPlaces, Tasks
  <2>3. LockHeld'
    <3>1. \A u \in Tasks : u # t => ack'[u] = ack[u] /\ lock # u /\ lock' # u
      BY <1>14, <2>1 DEF AcquireLock, TypeOK
    <3>2. lock' = t /\ ack'[t] = "write"
      BY <1>14 DEF AcquireLock, TypeOK
    <3> QED BY <3>1, <3>2 DEF LockHeld
  <2>4. Returning = 0 /\ Returning' = 0
    BY <1>14, <2>1 DEF AcquireLock, Returning, TypeOK
  <2> QED
    BY <1>14, <2>2, <2>3, <2>4 DEF AcquireLock, source, Counted, AckedInOrder
<1>15. ASSUME NEW t \in Tasks, DeliverAck(t)
       PROVE  AckPlaces' /\ LockHeld' /\ Counted' /\ AckedInOrder'
  <2>1. lock = t /\ t # NoTask
    BY <1>15, FanoutAssumption DEF FanoutAssumption, Tasks, DeliverAck, LockHeld
  <2>2. AckPlaces'
    <3>1. \A u \in Tasks : ack'[u] # "no" <=> ack[u] # "no"
      BY <1>15 DEF DeliverAck, TypeOK
    <3> QED BY <1>15, <1>P, <3>1 DEF DeliverAck, AckPlaces, Tasks
  <2>3. LockHeld'
    BY <1>15 DEF DeliverAck, LockHeld, TypeOK
  <2>4. Len(acks) = idx
    BY <1>15, <2>1 DEF DeliverAck, Counted, Returning, TypeOK
  <2>5. Counted' /\ AckedInOrder'
    BY <1>15, <2>1, <2>4
       DEF DeliverAck, Counted, Returning, AckedInOrder, TypeOK
  <2> QED BY <2>2, <2>3, <2>5
<1>16. ASSUME NEW c \in Consumers, ConsumerAckReturns(c)
       PROVE  AckPlaces' /\ LockHeld' /\ Counted' /\ AckedInOrder'
  <2>1. c \in Tasks /\ c # Pump
    BY <1>P DEF Tasks
  <2>2. AckPlaces'
    BY <1>16, <2>1
       DEF ConsumerAckReturns, ReleaseLock, AckPlaces, TypeOK, Tasks
  <2> QED
    BY <1>16, <2>1, <2>2, ReleaseLockInv DEF ConsumerAckReturns, source
<1>17. ASSUME NEW c \in Consumers, ConsumerAckFails(c)
       PROVE  AckPlaces' /\ LockHeld' /\ Counted' /\ AckedInOrder'
  BY <1>17, AckRaisesInv DEF ConsumerAckFails
<1>18. ASSUME NEW c \in Consumers, CancelAck(c)
       PROVE  AckPlaces' /\ LockHeld' /\ Counted' /\ AckedInOrder'
  BY <1>18, AckRaisesInv DEF CancelAck
<1>19. ASSUME NEW c \in Consumers, Start(c)
       PROVE  AckPlaces' /\ LockHeld' /\ Counted' /\ AckedInOrder'
  BY <1>19, AckFrame DEF Start, source, acking, AckPlaces, TypeOK
<1>20. ASSUME NEW c \in Consumers, GetChunk(c)
       PROVE  AckPlaces' /\ LockHeld' /\ Counted' /\ AckedInOrder'
  BY <1>20, AckFrame DEF GetChunk, source, acking, AckPlaces, TypeOK
<1>21. ASSUME NEW c \in Consumers, Resume(c)
       PROVE  AckPlaces' /\ LockHeld' /\ Counted' /\ AckedInOrder'
  BY <1>21, MarkHandledInv DEF Resume, source
<1>22. ASSUME NEW c \in Consumers, Exit(c)
       PROVE  AckPlaces' /\ LockHeld' /\ Counted' /\ AckedInOrder'
  BY <1>22, MarkHandledInv DEF Exit, source
<1>23. ASSUME NEW c \in Consumers, GetEnd(c)
       PROVE  AckPlaces' /\ LockHeld' /\ Counted' /\ AckedInOrder'
  BY <1>23, MarkHandledInv DEF GetEnd, source
<1>24. CASE UNCHANGED fanVars
  BY <1>24, AckFrame DEF fanVars, source, acking, AckPlaces
<1> QED
  BY <1>1, <1>2, <1>3, <1>4, <1>6, <1>7, <1>8, <1>9, <1>10, <1>11, <1>12,
     <1>13, <1>14, <1>15, <1>16, <1>17, <1>18, <1>19, <1>20, <1>21, <1>22,
     <1>23, <1>24
     DEF Next, PumpStep, LoopStep, ProcessorStep, AckStep

LEMMA AckInvariant == Spec => []AckInv
BY InitAckInv, StepAckInv, PTL DEF Spec

\* Whatever the interleaving of the pump, the consumers, an abort and a broken
\* stream, the sender receives the sequence numbers 0, 1, 2, ... in this order
\* (ack_chunk under ack_lock, and the counter idx of reader.py).
THEOREM AcksInOrder == Spec => []AckedInOrder
BY AckInvariant, PTL DEF AckInv

\* The receiving stream has one writer at a time, which is what the lock of
\* ack_chunk is for.
THEOREM OneWriterAtATime == Spec => []OneWriter
<1>1. AckInv => OneWriter
  BY DEF AckInv, LockHeld, OneWriter
<1> QED BY <1>1, AckInvariant, PTL
-----------------------------------------------------------------------------
(* What the consumers are handed: the inductive invariant, in parts. *)

\* The consumers in the barrier are those whose generator still runs.
ActivePlaces ==
  /\ \A c \in Consumers :
       c \in active <=> gen[c] \in {"new", "get", "hold", "mark"}
  /\ pending \subseteq active

\* The pump ends where its source ended, a generator ends behind the end mark.
EndPlaces ==
  /\ pump = "done" => rpc # "open" /\ (rpc = "ended" => taken = sent)
  /\ \A c \in Consumers : gen[c] = "ended" => pump = "done" /\ seen[c] = taken

\* The end mark stays in the queue of a consumer until it ends it.
EndQueued == pump = "done" => \A c \in active : queue[c] # <<>>

\* NothingSkipped, for one consumer.
InStep(c) ==
  /\ Len(queue[c]) = taken - seen[c] - Held(c) + Ended
  /\ \A i \in 1..Len(queue[c]) :
       queue[c][i] = IF pump = "done" /\ i = Len(queue[c])
                     THEN EndMark ELSE seen[c] + Held(c) + i

QueueInv == AckInv /\ ActivePlaces /\ EndPlaces /\ EndQueued /\ NothingSkipped

LEMMA InitQueueInv == Init => QueueInv
<1> SUFFICES ASSUME Init PROVE QueueInv
  OBVIOUS
<1>1. AckInv
  BY InitAckInv
<1>2. ActivePlaces /\ EndPlaces /\ EndQueued
  BY DEF Init, ActivePlaces, EndPlaces, EndQueued
<1>3. NothingSkipped
  <2> SUFFICES ASSUME NEW c \in active PROVE InStep(c)
    BY DEF NothingSkipped, InStep
  <2>1. c \in Consumers /\ queue[c] = <<>> /\ seen[c] = 0 /\ taken = 0
    BY DEF Init
  <2>2. Held(c) = 0 /\ Ended = 0 /\ Len(queue[c]) = 0
    BY <2>1 DEF Init, Held, Ended
  <2> QED BY <2>1, <2>2 DEF InStep
<1> QED BY <1>1, <1>2, <1>3 DEF QueueInv
-----------------------------------------------------------------------------
(* What a step does to the queue of one consumer. *)

LEMMA InStepFrame ==
  ASSUME NEW c \in Consumers, InStep(c), taken' = taken, seen'[c] = seen[c],
         queue'[c] = queue[c], Held(c)' = Held(c),
         pump' = "done" <=> pump = "done"
  PROVE  InStep(c)'
BY DEF InStep, Ended

LEMMA PutToIn ==
  ASSUME TypeOK, NEW S, NEW x \in Nat, NEW c \in Consumers, c \in S
  PROVE  LET q == PutTo(S, x)[c]
         IN  /\ Len(q) = Len(queue[c]) + 1
             /\ \A i \in 1..Len(queue[c]) : q[i] = queue[c][i]
             /\ q[Len(queue[c]) + 1] = x
<1>1. queue[c] \in Seq(Nat) /\ PutTo(S, x)[c] = Append(queue[c], x)
  BY DEF TypeOK, PutTo
<1> QED BY <1>1, AppendProperties

\* A chunk is delivered ...
LEMMA InStepDelivered ==
  ASSUME TypeOK, NEW c \in active, InStep(c), taken' = taken + 1,
         queue' = PutTo(active, taken'), seen' = seen, gen' = gen,
         pump # "done", pump' # "done"
  PROVE  InStep(c)'
<1>1. c \in Consumers /\ seen[c] \in Nat /\ taken \in Nat /\ taken' \in Nat
  BY FanoutAssumption DEF FanoutAssumption, TypeOK
<1>2. /\ Len(queue'[c]) = Len(queue[c]) + 1
      /\ \A i \in 1..Len(queue[c]) : queue'[c][i] = queue[c][i]
      /\ queue'[c][Len(queue[c]) + 1] = taken'
  BY <1>1, PutToIn
<1>3. Len(queue[c]) \in Nat
  BY <1>1 DEF TypeOK
<1>4. Held(c) \in {0, 1} /\ Held(c)' = Held(c)
  BY DEF Held
<1>5. Len(queue[c]) = taken - seen[c] - Held(c)
  BY <1>1, <1>4 DEF InStep, Ended
<1>6. Len(queue'[c]) = taken' - seen'[c] - Held(c)' + Ended'
  BY <1>1, <1>2, <1>4, <1>5 DEF Ended
<1>7. ASSUME NEW i \in 1..Len(queue'[c])
      PROVE  queue'[c][i] = seen'[c] + Held(c)' + i
  <2>1. CASE i \in 1..Len(queue[c])
    BY <1>2, <1>4, <2>1 DEF InStep
  <2>2. CASE i = Len(queue[c]) + 1
    BY <1>1, <1>2, <1>4, <1>5, <2>2
  <2> QED BY <1>2, <1>3, <2>1, <2>2
<1> QED BY <1>6, <1>7 DEF InStep

\* ... or the end mark is.
LEMMA InStepEnded ==
  ASSUME TypeOK, NEW c \in active, InStep(c), taken' = taken,
         queue' = PutTo(active, EndMark), seen' = seen, gen' = gen,
         pump # "done", pump' = "done"
  PROVE  InStep(c)'
<1>1. c \in Consumers /\ seen[c] \in Nat /\ taken \in Nat /\ EndMark \in Nat
  BY FanoutAssumption DEF FanoutAssumption, TypeOK, EndMark
<1>2. /\ Len(queue'[c]) = Len(queue[c]) + 1
      /\ \A i \in 1..Len(queue[c]) : queue'[c][i] = queue[c][i]
      /\ queue'[c][Len(queue[c]) + 1] = EndMark
  BY <1>1, PutToIn
<1>3. Len(queue[c]) \in Nat
  BY <1>1 DEF TypeOK
<1>4. Held(c) \in {0, 1} /\ Held(c)' = Held(c)
  BY DEF Held
<1>5. Len(queue'[c]) = taken' - seen'[c] - Held(c)' + Ended'
  BY <1>1, <1>2, <1>3, <1>4 DEF InStep, Ended
<1>6. ASSUME NEW i \in 1..Len(queue'[c])
      PROVE  queue'[c][i] = IF i = Len(queue'[c])
                            THEN EndMark ELSE seen'[c] + Held(c)' + i
  <2>1. CASE i \in 1..Len(queue[c])
    BY <1>2, <1>3, <1>4, <2>1 DEF InStep
  <2>2. CASE i = Len(queue[c]) + 1
    BY <1>2, <2>2
  <2> QED BY <1>2, <1>3, <2>1, <2>2
<1> QED BY <1>5, <1>6 DEF InStep

\* The head of the queue of a consumer that waits in queue.get().
LEMMA HeadInStep ==
  ASSUME TypeOK, NEW c \in active, InStep(c), gen[c] = "get",
         queue[c] # <<>>
  PROVE  IF Head(queue[c]) = EndMark
         THEN pump = "done" /\ seen[c] = taken
         ELSE Head(queue[c]) = seen[c] + 1
              /\ (pump = "done" => Len(queue[c]) > 1)
<1>1. c \in Consumers /\ seen[c] \in Nat /\ taken \in Nat
      /\ queue[c] \in Seq(Nat)
  BY FanoutAssumption DEF FanoutAssumption, TypeOK
<1>2. Len(queue[c]) \in Nat \ {0} /\ Head(queue[c]) = queue[c][1]
  BY <1>1, HeadTailProperties, EmptySeq
<1>3. queue[c][1] = IF pump = "done" /\ 1 = Len(queue[c])
                    THEN EndMark ELSE seen[c] + 1
  BY <1>1, <1>2 DEF InStep, Held
<1>4. CASE pump = "done" /\ 1 = Len(queue[c])
  BY <1>1, <1>2, <1>3, <1>4 DEF InStep, Held, Ended
<1>5. CASE ~(pump = "done" /\ 1 = Len(queue[c]))
  <2>1. Head(queue[c]) = seen[c] + 1 /\ Head(queue[c]) # EndMark
    BY <1>1, <1>2, <1>3, <1>5 DEF EndMark
  <2>2. pump = "done" => Len(queue[c]) > 1
    <3>1. \A n \in Nat \ {0} : n # 1 => n > 1
      OBVIOUS
    <3> QED BY <1>2, <1>5, <3>1
  <2> QED BY <2>1, <2>2
<1> QED BY <1>4, <1>5

\* A chunk goes from the queue to the processor ...
LEMMA InStepTaken ==
  ASSUME TypeOK, NEW c \in active, InStep(c), gen[c] = "get",
         queue[c] # <<>>, Head(queue[c]) # EndMark,
         queue'[c] = Tail(queue[c]), gen'[c] = "hold",
         UNCHANGED <<taken, seen, pump>>
  PROVE  InStep(c)'
<1>1. c \in Consumers /\ seen[c] \in Nat /\ taken \in Nat
      /\ queue[c] \in Seq(Nat)
  BY FanoutAssumption DEF FanoutAssumption, TypeOK
<1>2. /\ Len(queue[c]) \in Nat \ {0} /\ Len(queue'[c]) = Len(queue[c]) - 1
      /\ \A i \in 1..Len(queue'[c]) : queue'[c][i] = queue[c][i + 1]
  BY <1>1, HeadTailProperties, EmptySeq
<1>3. Held(c) = 0 /\ Held(c)' = 1
  BY DEF Held
<1>4. Len(queue'[c]) = taken' - seen'[c] - Held(c)' + Ended'
  BY <1>1, <1>2, <1>3 DEF InStep, Ended
<1>5. ASSUME NEW i \in 1..Len(queue'[c])
      PROVE  queue'[c][i] = IF pump' = "done" /\ i = Len(queue'[c])
                            THEN EndMark ELSE seen'[c] + Held(c)' + i
  <2>1. i + 1 \in 1..Len(queue[c]) /\ i \in Int
    BY <1>2
  <2>2. queue[c][i + 1] = IF pump = "done" /\ i + 1 = Len(queue[c])
                          THEN EndMark ELSE seen[c] + (i + 1)
    <3>1. queue[c][i + 1] = IF pump = "done" /\ i + 1 = Len(queue[c])
                            THEN EndMark ELSE seen[c] + Held(c) + (i + 1)
      BY <2>1 DEF InStep
    <3>2. seen[c] + Held(c) = seen[c]
      BY <1>1, <1>3
    <3> QED BY <3>1, <3>2
  <2>3. i + 1 = Len(queue[c]) <=> i = Len(queue'[c])
    BY <1>2, <2>1
  <2>4. seen[c] + (i + 1) = seen'[c] + Held(c)' + i
    <3>1. seen'[c] = seen[c] /\ i \in Int
      BY <2>1
    <3>2. seen[c] + (i + 1) = seen[c] + 1 + i
      BY <1>1, <3>1
    <3> QED BY <1>3, <3>1, <3>2
  <2> QED BY <1>2, <2>2, <2>3, <2>4
<1> QED BY <1>4, <1>5 DEF InStep

\* ... and is handled.
LEMMA InStepHandled ==
  ASSUME TypeOK, NEW c \in active, InStep(c), gen[c] = "hold",
         gen'[c] # "hold", seen'[c] = seen[c] + 1, queue'[c] = queue[c],
         UNCHANGED <<taken, pump>>
  PROVE  InStep(c)'
<1>1. c \in Consumers /\ seen[c] \in Nat /\ taken \in Nat
  BY FanoutAssumption DEF FanoutAssumption, TypeOK
<1>2. Held(c) = 1 /\ Held(c)' = 0 /\ Ended' = Ended
  BY DEF Held, Ended
<1>3. Len(queue'[c]) = taken' - seen'[c] - Held(c)' + Ended'
  BY <1>1, <1>2 DEF InStep, Ended
<1>4. ASSUME NEW i \in 1..Len(queue'[c])
      PROVE  queue'[c][i] = IF pump' = "done" /\ i = Len(queue'[c])
                            THEN EndMark ELSE seen'[c] + Held(c)' + i
  <2>1. seen'[c] + Held(c)' + i = seen[c] + Held(c) + i
    BY <1>1, <1>2
  <2> QED BY <2>1 DEF InStep
<1> QED BY <1>3, <1>4 DEF InStep
-----------------------------------------------------------------------------
(* Every step keeps the invariant. *)

QueueParts == ActivePlaces /\ EndPlaces /\ EndQueued /\ NothingSkipped

\* Steps that neither deliver nor handle.
LEMMA QueueFrame ==
  ASSUME QueueInv, UNCHANGED <<taken, queue, active, gen, seen>>,
         pending' \subseteq pending,
         pump' = "done" <=> pump = "done",
         pump = "done" => sent' = sent /\ rpc' \in {rpc, "failed"}
  PROVE  QueueParts'
<1>1. \A c \in Consumers : Held(c)' = Held(c)
  BY DEF Held
<1>2. NothingSkipped'
  BY <1>1, InStepFrame
     DEF QueueInv, AckInv, TypeOK, NothingSkipped, InStep
<1> QED BY <1>2 DEF QueueParts, QueueInv, ActivePlaces, EndPlaces, EndQueued

\* A consumer stops, or goes on; the others are as they were.
LEMMA QueueOthers ==
  ASSUME QueueInv, NEW c \in Consumers, UNCHANGED <<taken, sent, pump>>,
         rpc' = rpc \/ rpc' = "failed",
         \A d \in Consumers \ {c} :
           gen'[d] = gen[d] /\ seen'[d] = seen[d] /\ queue'[d] = queue[d]
             /\ (d \in active' <=> d \in active),
         active' \subseteq Consumers, pending' \subseteq active',
         c \in active' <=> gen'[c] \in {"new", "get", "hold", "mark"},
         c \in active' => InStep(c)' /\ (pump = "done" => queue'[c] # <<>>),
         gen'[c] = "ended" => pump = "done" /\ seen'[c] = taken
  PROVE  QueueParts'
<1>1. \A d \in Consumers \ {c} : Held(d)' = Held(d)
  BY DEF Held
<1>2. ASSUME NEW d \in active', d # c PROVE InStep(d)'
  <2>1. d \in Consumers /\ d \in active /\ InStep(d)
    BY <1>2 DEF QueueInv, NothingSkipped, InStep
  <2> QED BY <1>1, <1>2, <2>1, InStepFrame
<1>3. NothingSkipped'
  BY <1>2 DEF NothingSkipped, InStep
<1>4. EndQueued'
  BY DEF QueueInv, EndQueued
<1> QED BY <1>3, <1>4 DEF QueueParts, QueueInv, ActivePlaces, EndPlaces

LEMMA MarkHandledEffect ==
  ASSUME TypeOK, NEW c \in Consumers, NEW busy, NEW idle,
         MarkHandled(c, busy, idle)
  PROVE  /\ gen'[c] \in {busy, idle} /\ pending' = pending \ {c}
         /\ \A d \in Consumers \ {c} : gen'[d] = gen[d]
BY DEF TypeOK, MarkHandled

\* Every step keeps the queues in step with what the pump took.
LEMMA StepQueueInv == QueueInv /\ [Next]_fanVars => QueueInv'
<1> SUFFICES ASSUME QueueInv, [Next]_fanVars PROVE QueueParts'
  BY StepAckInv DEF QueueInv, QueueParts
<1>T. /\ TypeOK /\ AckPlaces /\ AckInv
      /\ \A c \in active : c \in Consumers /\ InStep(c)
  BY DEF QueueInv, AckInv, NothingSkipped, InStep, TypeOK
<1>1. CASE Send
  BY <1>1, QueueFrame DEF Send, QueueInv, EndPlaces
<1>2. CASE EndStream
  BY <1>2, QueueFrame DEF EndStream, QueueInv, EndPlaces
<1>3. CASE BreakStream
  BY <1>3, QueueFrame DEF BreakStream
<1>4. CASE Abort
  BY <1>4, QueueFrame DEF Abort, source
<1>5. CASE DrainChunk
  <2>1. active = {} /\ pump # "done" /\ pump' # "done" /\ active' = {}
    BY <1>5 DEF DrainChunk, TakeChunk
  <2>2. NothingSkipped' /\ ActivePlaces' /\ EndPlaces' /\ EndQueued'
    BY <1>5, <2>1 DEF DrainChunk, NothingSkipped, QueueInv, ActivePlaces,
                      EndPlaces, EndQueued
  <2> QED BY <2>2 DEF QueueParts
<1>6. ASSUME TakeChunk, pump' # "done", queue' = PutTo(active, taken'),
             UNCHANGED <<active, gen, seen>>, pending' \subseteq active
      PROVE  QueueParts'
  <2>1. pump # "done" /\ taken' = taken + 1
    BY <1>6 DEF TakeChunk
  <2>2. \A c \in active' : InStep(c)'
    BY <1>T, <1>6, <2>1, InStepDelivered
  <2>3. NothingSkipped'
    BY <2>2 DEF NothingSkipped, InStep
  <2>4. ActivePlaces' /\ EndPlaces' /\ EndQueued'
    BY <1>6, <2>1 DEF QueueInv, ActivePlaces, EndPlaces, EndQueued
  <2> QED BY <2>3, <2>4 DEF QueueParts
<1>7. CASE DeliverUngated
  BY <1>6, <1>7 DEF DeliverUngated, QueueInv, ActivePlaces
<1>8. CASE DeliverGated
  BY <1>6, <1>8 DEF DeliverGated
<1>9. CASE PassBarrier
  BY <1>9, QueueFrame DEF PassBarrier, source
<1>10. CASE AckAborted
  BY <1>10, QueueFrame DEF AckAborted, source
<1>11. ASSUME pump # "done", pump' = "done", queue' = PutTo(active, EndMark),
              UNCHANGED <<taken, active, pending, gen, seen>>,
              rpc' # "open" /\ (rpc' = "ended" => taken' = sent')
       PROVE  QueueParts'
  <2>1. \A c \in active' : InStep(c)'
    BY <1>T, <1>11, InStepEnded
  <2>2. NothingSkipped'
    BY <2>1 DEF NothingSkipped, InStep
  <2>3. ActivePlaces' /\ EndPlaces'
    BY <1>11 DEF QueueInv, ActivePlaces, EndPlaces
  <2>4. EndQueued'
    <3> SUFFICES ASSUME NEW c \in active PROVE queue'[c] # <<>>
      BY <1>11 DEF EndQueued
    <3>1. queue[c] \in Seq(Nat) /\ queue'[c] = Append(queue[c], EndMark)
      BY <1>T, <1>11 DEF TypeOK, PutTo
    <3> QED BY <3>1 DEF EndMark
  <2> QED BY <2>2, <2>3, <2>4 DEF QueueParts
<1>12. CASE PumpEnds
  BY <1>11, <1>12 DEF PumpEnds, source
<1>13. CASE PumpAckReturns
  <2>1. pump # "done" /\ pump' # "done"
    BY <1>T, <1>13 DEF PumpAckReturns, AckPlaces
  <2> QED BY <1>13, <2>1, QueueFrame DEF PumpAckReturns, source
<1>14. CASE PumpAckFails
  <2>1. pump # "done"
    BY <1>T, <1>14 DEF PumpAckFails, AckPlaces
  <2> QED BY <1>11, <1>14, <2>1 DEF PumpAckFails, source
<1>15. ASSUME NEW t \in Tasks, AckStep(t) PROVE QueueParts'
  BY <1>15, QueueFrame DEF AckStep, AcquireLock, DeliverAck, source
<1>16. ASSUME NEW c \in Consumers, Start(c) \/ ConsumerAckReturns(c)
       PROVE  QueueParts'
  <2>1. /\ \A d \in Consumers \ {c} : gen'[d] = gen[d]
        /\ gen[c] = "new" => gen'[c] = "get"
        /\ gen[c] = "mark" => gen'[c] = "get"
        /\ gen[c] = "close" => gen'[c] = "left"
        /\ gen[c] \in {"new", "mark", "close"}
        /\ UNCHANGED <<rpc, sent, taken, queue, active, pending, pump, seen>>
    BY <1>T, <1>16
       DEF Start, ConsumerAckReturns, TypeOK, source, AckPlaces, Tasks
  <2>2. c \in active => InStep(c)'
    <3>1. Held(c)' = Held(c)
      BY <2>1 DEF Held
    <3> QED BY <1>T, <2>1, <3>1, InStepFrame
  <2> QED
    BY <1>T, <2>1, <2>2, QueueOthers
       DEF QueueInv, ActivePlaces, EndQueued, TypeOK
<1>17. ASSUME NEW c \in Consumers, AckRaises(c), rpc' \in {rpc, "failed"}
       PROVE  QueueParts'
  <2>1. /\ \A d \in Consumers \ {c} : gen'[d] = gen[d]
        /\ gen'[c] = "left" /\ c \notin active'
    BY <1>T, <1>17 DEF AckRaises, TypeOK
  <2> QED
    BY <1>T, <1>17, <2>1, QueueOthers
       DEF QueueInv, ActivePlaces, TypeOK, AckRaises
<1>18. ASSUME NEW c \in Consumers, ConsumerAckFails(c) \/ CancelAck(c)
       PROVE  QueueParts'
  BY <1>17, <1>18 DEF ConsumerAckFails, CancelAck
<1>19. ASSUME NEW c \in Consumers, GetChunk(c) PROVE QueueParts'
  <2>1. /\ gen[c] = "get" /\ gen'[c] = "hold" /\ c \in active
        /\ queue'[c] = Tail(queue[c])
        /\ \A d \in Consumers \ {c} :
             gen'[d] = gen[d] /\ queue'[d] = queue[d]
    BY <1>T, <1>19 DEF GetChunk, TypeOK, QueueInv, ActivePlaces
  <2>2. InStep(c)'
    BY <1>T, <1>19, <2>1, InStepTaken DEF GetChunk
  <2>3. pump = "done" => queue'[c] # <<>>
    <3>1. pump = "done" => Len(queue[c]) > 1
      BY <1>T, <1>19, <2>1, HeadInStep DEF GetChunk
    <3>2. queue[c] \in Seq(Nat) /\ queue[c] # <<>>
      BY <1>19 DEF GetChunk, QueueInv, AckInv, TypeOK
    <3>3. Len(Tail(queue[c])) = Len(queue[c]) - 1 /\ Len(queue[c]) \in Nat
      BY <3>2, HeadTailProperties
    <3>4. \A n \in Nat : n > 1 => n - 1 # 0
      OBVIOUS
    <3>5. pump = "done" => Len(Tail(queue[c])) # 0
      BY <3>1, <3>3, <3>4
    <3>6. Len(<<>>) = 0
      OBVIOUS
    <3> QED BY <2>1, <3>5, <3>6
  <2> QED
    BY <1>T, <1>19, <2>1, <2>2, <2>3, QueueOthers
       DEF GetChunk, source, QueueInv, ActivePlaces, TypeOK
<1>20. ASSUME NEW c \in Consumers, Resume(c) PROVE QueueParts'
  <2>1. /\ gen[c] = "hold" /\ gen'[c] \in {"mark", "get"} /\ c \in active
        /\ pending' = pending \ {c} /\ seen'[c] = seen[c] + 1
        /\ \A d \in Consumers \ {c} :
             gen'[d] = gen[d] /\ seen'[d] = seen[d]
    BY <1>T, <1>20, MarkHandledEffect
       DEF Resume, TypeOK, QueueInv, ActivePlaces
  <2>2. InStep(c)'
    BY <1>T, <1>20, <2>1, InStepHandled DEF Resume
  <2> QED
    BY <1>T, <1>20, <2>1, <2>2, QueueOthers
       DEF Resume, source, QueueInv, ActivePlaces, EndQueued, TypeOK
<1>21. ASSUME NEW c \in Consumers, Exit(c) PROVE QueueParts'
  <2>1. /\ gen'[c] \in {"close", "left"} /\ c \notin active'
        /\ pending' = pending \ {c}
        /\ \A d \in Consumers \ {c} : gen'[d] = gen[d]
    BY <1>T, <1>21, MarkHandledEffect DEF Exit
  <2> QED
    BY <1>T, <1>21, <2>1, QueueOthers
       DEF Exit, source, QueueInv, ActivePlaces, TypeOK
<1>22. ASSUME NEW c \in Consumers, GetEnd(c) PROVE QueueParts'
  <2>1. /\ gen'[c] \in {"close", "ended"} /\ c \notin active'
        /\ pending' = pending \ {c} /\ c \in active
        /\ \A d \in Consumers \ {c} : gen'[d] = gen[d] /\ queue'[d] = queue[d]
    BY <1>T, <1>22, MarkHandledEffect
       DEF GetEnd, TypeOK, QueueInv, ActivePlaces
  <2>2. pump = "done" /\ seen[c] = taken
    BY <1>T, <1>22, <2>1, HeadInStep DEF GetEnd
  <2> QED
    BY <1>T, <1>22, <2>1, <2>2, QueueOthers
       DEF GetEnd, source, QueueInv, ActivePlaces, TypeOK
<1>23. CASE UNCHANGED fanVars
  BY <1>23, QueueFrame DEF fanVars, source
<1> QED
  BY <1>1, <1>2, <1>3, <1>4, <1>5, <1>7, <1>8, <1>9, <1>10, <1>12, <1>13,
     <1>14, <1>15, <1>16, <1>18, <1>19, <1>20, <1>21, <1>22, <1>23
     DEF Next, PumpStep, LoopStep, ProcessorStep

LEMMA QueueInvariant == Spec => []QueueInv
BY InitQueueInv, StepQueueInv, PTL DEF Spec

\* A consumer that takes part gets every chunk the pump took, in order, and the
\* end mark behind the last, whether or not the barrier was released meanwhile;
\* a generator that ends by itself on a stream the sender ended has handled the
\* whole stream (deliver() and the finally clause of pump_source).
THEOREM NoChunkSkipped == Spec => []StreamComplete
<1>1. QueueInv => StreamComplete
  BY DEF QueueInv, EndPlaces, StreamComplete, NoTruncation
<1> QED BY <1>1, QueueInvariant, PTL
=============================================================================
