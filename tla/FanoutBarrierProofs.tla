------------------------- MODULE FanoutBarrierProofs -------------------------
(***************************************************************************)
(* Fanout implements ChunkBarrier, for any set of consumers and any bound  *)
(* on the stream; and a consumer that claimed an ack never waits for the   *)
(* lock.                                                                   *)
(***************************************************************************)
EXTENDS FanoutProofs

-----------------------------------------------------------------------------
(* The inductive invariant, in parts. *)

\* An ack that is not claimed has the pump waiting at a closed barrier.
Unclaimed ==
  ~claimed => /\ pump = "barrier" /\ pending # {}
              /\ event # 0 /\ event \notin opened

\* At most one consumer acks, for the chunk of the barrier, which it claimed.
ClaimPlaces ==
  /\ \A c \in Consumers : ack[c] # "no" =>
       claimed /\ mine[c] = event /\ event \notin opened
  /\ \A c, d \in Consumers : ack[c] # "no" /\ ack[d] # "no" => c = d
  /\ \A x \in opened : x <= taken

\* Unless aborted, the pump moves on only after the ack; a chunk it acks itself
\* is one nobody takes part in.
PumpPlaces ==
  ~abort => /\ pump # "barrier" => \A c \in Consumers : ack[c] = "no"
            /\ pump = "ack" => active = {}
            /\ pump = "barrier" => event = taken /\ (claimed => pending = {})

\* Unless aborted, nobody is more than the chunk at the barrier behind.
SeenPlaces ==
  ~abort => \A c \in active :
              seen[c] = IF c \in pending /\ ~claimed THEN taken - 1 ELSE taken

GateInv ==
  QueueInv /\ Unclaimed /\ ClaimPlaces /\ PumpPlaces /\ SeenPlaces
           /\ ClaimUncontended

GateParts ==
  Unclaimed /\ ClaimPlaces /\ PumpPlaces /\ SeenPlaces /\ ClaimUncontended

LEMMA InitGateInv == Init => GateInv
<1> SUFFICES ASSUME Init PROVE GateInv
  OBVIOUS
<1>1. QueueInv
  BY InitQueueInv
<1>2. \A c \in Consumers : ack[c] = "no"
  BY DEF Init, Tasks
<1>3. SeenPlaces
  BY DEF Init, SeenPlaces
<1>4. Unclaimed /\ ClaimPlaces /\ PumpPlaces /\ ClaimUncontended
  BY <1>2 DEF Init, Unclaimed, ClaimPlaces, PumpPlaces, ClaimUncontended
<1> QED BY <1>1, <1>3, <1>4 DEF GateInv

\* While an ack is not claimed nobody is inside ack_chunk: the lock is free.
LEMMA UnclaimedIsFree ==
  ASSUME GateInv, ~claimed
  PROVE  lock = NoTask /\ \A t \in Tasks : ack[t] = "no"
<1>1. \A t \in Tasks : ack[t] = "no"
  BY DEF GateInv, QueueInv, AckInv, AckPlaces, Unclaimed, ClaimPlaces, Tasks
<1> QED BY <1>1 DEF GateInv, QueueInv, AckInv, LockHeld, TypeOK

\* A consumer that holds a chunk has not handled it.
LEMMA HeldIsBehind ==
  ASSUME QueueInv, NEW c \in active, gen[c] = "hold"
  PROVE  seen[c] < taken
<1>1. c \in Consumers /\ seen[c] \in Nat /\ taken \in Nat
      /\ queue[c] \in Seq(Nat) /\ InStep(c)
  BY FanoutAssumption
     DEF FanoutAssumption, QueueInv, AckInv, TypeOK, NothingSkipped, InStep
<1>2. Len(queue[c]) = taken - seen[c] - 1 + Ended /\ Len(queue[c]) \in Nat
  BY <1>1 DEF InStep, Held
<1>3. CASE pump # "done"
  BY <1>1, <1>2, <1>3 DEF Ended
<1>4. CASE pump = "done"
  <2>1. Len(queue[c]) # 0
    BY <1>1, <1>4, EmptySeq DEF QueueInv, EndQueued
  <2> QED BY <1>1, <1>2, <1>4, <2>1 DEF Ended
<1> QED BY <1>3, <1>4

\* Unless aborted, a consumer that holds a chunk is one the barrier waits for.
LEMMA HeldIsPending ==
  ASSUME GateInv, ~abort, NEW c \in active, gen[c] = "hold"
  PROVE  c \in pending /\ ~claimed
<1>1. seen[c] < taken /\ seen[c] \in Nat
  BY HeldIsBehind DEF GateInv, QueueInv, AckInv, TypeOK
<1> QED BY <1>1 DEF GateInv, SeenPlaces
-----------------------------------------------------------------------------
(* Every step keeps the invariant. *)

\* Steps outside the barrier.
LEMMA GateFrame ==
  ASSUME GateInv,
         UNCHANGED <<taken, active, pending, gate, mine, seen>>,
         \A c \in Consumers : ack'[c] = ack[c],
         pump' = pump \/ (claimed /\ pump # "barrier" /\ pump' \notin {"barrier", "ack"}),
         abort' = abort \/ abort' = TRUE
  PROVE  GateParts'
<1>1. Unclaimed' /\ ClaimPlaces' /\ ClaimUncontended'
  BY DEF GateInv, gate, Unclaimed, ClaimPlaces, ClaimUncontended
<1>2. PumpPlaces' /\ SeenPlaces'
  BY DEF GateInv, gate, PumpPlaces, SeenPlaces
<1> QED BY <1>1, <1>2 DEF GateParts

\* A chunk is taken that does not go through the barrier.
LEMMA GateUngated ==
  ASSUME GateInv, TakeChunk, pump' = "ack", active = {} \/ abort,
         UNCHANGED <<active, pending, gate, mine, seen, abort>>,
         \A c \in Consumers : ack'[c] = ack[c]
  PROVE  GateParts'
<1>1. pump = "read" /\ claimed /\ taken \in Nat /\ taken' = taken + 1
  BY FanoutAssumption
     DEF FanoutAssumption, TakeChunk, GateInv, Unclaimed, QueueInv, AckInv, TypeOK
<1>2. Unclaimed' /\ PumpPlaces' /\ SeenPlaces' /\ ClaimUncontended'
  BY <1>1 DEF GateInv, gate, Unclaimed, PumpPlaces, SeenPlaces, ClaimUncontended
<1>3. \A x \in opened' : x <= taken'
  BY <1>1 DEF GateInv, gate, ClaimPlaces, QueueInv, AckInv, TypeOK
<1>4. ClaimPlaces'
  BY <1>3 DEF GateInv, gate, ClaimPlaces
<1> QED BY <1>2, <1>4 DEF GateParts

\* A consumer claims the ack, and writes at once.
LEMMA GateClaim ==
  ASSUME GateInv, NEW c \in Consumers, ~claimed, claimed',
         pending' = {}, mine' = [mine EXCEPT ![c] = event], EnterAck(c),
         UNCHANGED <<taken, event, opened, abort, pump>>,
         active' \subseteq active,
         ~abort => \A d \in active' : seen'[d] = taken
  PROVE  GateParts'
<1>1. lock = NoTask /\ \A t \in Tasks : ack[t] = "no"
  BY UnclaimedIsFree
<1>2. ack'[c] = "write" /\ \A d \in Consumers \ {c} : ack'[d] = "no"
  BY <1>1 DEF EnterAck, GateInv, QueueInv, AckInv, TypeOK, Tasks
<1>3. mine'[c] = event /\ pump = "barrier" /\ event \notin opened
  BY DEF GateInv, Unclaimed, QueueInv, AckInv, TypeOK
<1>4. ClaimPlaces' /\ ClaimUncontended' /\ Unclaimed'
  BY <1>2, <1>3 DEF GateInv, ClaimPlaces, ClaimUncontended, Unclaimed
<1>5. PumpPlaces' /\ SeenPlaces'
  BY <1>3 DEF GateInv, PumpPlaces, SeenPlaces
<1> QED BY <1>4, <1>5 DEF GateParts

\* A consumer is done with its ack, or leaves under an exception.
LEMMA GateRelease ==
  ASSUME GateInv, NEW c \in Consumers, ack[c] # "no",
         opened' = opened \cup {mine[c]}, ReleaseLock(c),
         active' \subseteq active, pending' \subseteq pending,
         UNCHANGED <<taken, event, claimed, mine, seen, abort, pump>>
  PROVE  GateParts'
<1>1. ack'[c] = "no" /\ \A d \in Consumers : ack'[d] = "no"
  BY DEF GateInv, ClaimPlaces, ReleaseLock, QueueInv, AckInv, TypeOK, Tasks
<1>2. claimed /\ mine[c] = event /\ event <= taken
  BY FanoutAssumption
     DEF FanoutAssumption, GateInv, ClaimPlaces, QueueInv, AckInv, TypeOK
<1>3. Unclaimed' /\ ClaimPlaces' /\ ClaimUncontended'
  BY <1>1, <1>2
     DEF GateInv, Unclaimed, ClaimPlaces, ClaimUncontended
<1>4. PumpPlaces'
  BY <1>1, <1>2 DEF GateInv, PumpPlaces
<1>5. SeenPlaces'
  BY <1>2 DEF GateInv, SeenPlaces
<1> QED BY <1>3, <1>4, <1>5 DEF GateParts

\* A consumer is through with a chunk, or leaves, without claiming anything.
LEMMA GateIdle ==
  ASSUME GateInv, NEW c \in Consumers, pending' = pending \ {c},
         pending' # {} \/ event = 0 \/ claimed,
         UNCHANGED <<taken, event, opened, claimed, mine, lock, ack, abort, pump>>,
         active' \subseteq active,
         ~abort => \A d \in active' :
                     IF d = c THEN seen'[d] = taken ELSE seen'[d] = seen[d]
  PROVE  GateParts'
<1>1. Unclaimed' /\ ClaimPlaces' /\ ClaimUncontended'
  BY DEF GateInv, Unclaimed, ClaimPlaces, ClaimUncontended
<1>2. PumpPlaces'
  BY DEF GateInv, PumpPlaces
<1>3. SeenPlaces'
  BY DEF GateInv, SeenPlaces
<1> QED BY <1>1, <1>2, <1>3 DEF GateParts

\* The claim as mark_handled() makes it.
LEMMA GateMarks ==
  ASSUME GateInv, NEW c \in Consumers, NEW busy, NEW idle,
         MarkHandled(c, busy, idle),
         UNCHANGED <<taken, event, opened, abort, pump>>,
         active' \subseteq active,
         \A d \in active' : d # c => seen'[d] = seen[d],
         c \in active' => gen[c] = "hold" /\ seen'[c] = seen[c] + 1
  PROVE  GateParts'
<1>1. ASSUME ~abort, c \in active' PROVE seen'[c] = taken
  <2>1. c \in active /\ c \in pending /\ ~claimed
    BY <1>1, HeldIsPending
  <2>2. seen[c] = taken - 1 /\ taken \in Nat
    BY <1>1, <2>1, FanoutAssumption
       DEF FanoutAssumption, GateInv, SeenPlaces, QueueInv, AckInv, TypeOK
  <2> QED BY <1>1, <2>2
<1>2. CASE UNCHANGED <<claimed, mine, lock, ack>>
  <2>1. pending' = pending \ {c} /\ (pending' # {} \/ event = 0 \/ claimed)
    BY <1>2 DEF MarkHandled
  <2> QED BY <1>1, <1>2, <2>1, GateIdle
<1>3. CASE ~UNCHANGED <<claimed, mine, lock, ack>>
  <2>1. /\ pending' = {} /\ pending' = pending \ {c} /\ ~claimed /\ claimed'
        /\ mine' = [mine EXCEPT ![c] = event] /\ EnterAck(c)
    BY <1>3 DEF MarkHandled
  <2>2. ASSUME ~abort, NEW d \in active', d # c PROVE seen'[d] = taken
    <3>1. d \in active /\ d \notin pending /\ seen'[d] = seen[d]
      BY <2>1, <2>2
    <3> QED BY <2>2, <3>1 DEF GateInv, SeenPlaces
  <2>3. ~abort => \A d \in active' : seen'[d] = taken
    BY <1>1, <2>2
  <2> QED BY <2>1, <2>3, GateClaim
<1> QED BY <1>2, <1>3

LEMMA StepGateInv == GateInv /\ [Next]_fanVars => GateInv'
<1> SUFFICES ASSUME GateInv, [Next]_fanVars PROVE GateParts'
  BY StepQueueInv DEF GateInv, GateParts
<1>T. /\ TypeOK /\ AckPlaces /\ LockHeld /\ ActivePlaces /\ QueueInv
      /\ Pump \notin Consumers /\ Pump \in Tasks
  BY FanoutAssumption DEF FanoutAssumption, GateInv, QueueInv, AckInv, Tasks
<1>1. CASE Send \/ EndStream \/ BreakStream \/ Abort
  BY <1>1, GateFrame DEF Send, EndStream, BreakStream, Abort, acking
<1>2. ASSUME EnterAck(Pump) PROVE \A c \in Consumers : ack'[c] = ack[c]
  BY <1>T, <1>2 DEF EnterAck, TypeOK, Tasks
<1>3. CASE DrainChunk
  BY <1>2, <1>3, GateUngated DEF DrainChunk
<1>4. CASE DeliverUngated
  BY <1>2, <1>4, GateUngated DEF DeliverUngated
<1>5. CASE DeliverGated
  <2>1. /\ pump = "read" /\ claimed /\ taken \in Nat /\ taken' = taken + 1
        /\ event' = taken' /\ event' # 0 /\ ~claimed' /\ pending' = active
        /\ active' = active /\ active # {} /\ ~abort /\ pump' = "barrier"
        /\ UNCHANGED <<opened, ack, mine, seen>>
    BY <1>T, <1>5, FanoutAssumption
       DEF FanoutAssumption, DeliverGated, TakeChunk, GateInv, Unclaimed,
           acking, TypeOK
  <2>2. \A x \in opened : x <= taken /\ x \in Nat
    BY <1>T DEF GateInv, ClaimPlaces, TypeOK
  <2>3. \A x \in opened' : x <= taken' /\ x # taken'
    BY <2>1, <2>2
  <2>4. \A c \in Consumers : ack[c] = "no"
    BY <2>1 DEF GateInv, PumpPlaces
  <2>5. Unclaimed' /\ ClaimPlaces' /\ PumpPlaces' /\ ClaimUncontended'
    BY <2>1, <2>3, <2>4
       DEF Unclaimed, ClaimPlaces, PumpPlaces, ClaimUncontended
  <2>6. \A c \in active : seen[c] = taken
    BY <2>1 DEF GateInv, SeenPlaces
  <2>7. SeenPlaces'
    BY <2>1, <2>6 DEF SeenPlaces
  <2> QED BY <2>5, <2>7 DEF GateParts
<1>6. CASE PassBarrier
  <2>1. /\ pump' = "read" /\ claimed /\ (event \in opened \/ abort)
        /\ UNCHANGED <<taken, active, pending, gate, ack, mine, seen, abort>>
    BY <1>6 DEF PassBarrier, BarrierReleased, acking
  <2>2. ~abort => \A c \in Consumers : ack[c] = "no"
    BY <2>1 DEF GateInv, ClaimPlaces
  <2>3. Unclaimed' /\ ClaimPlaces' /\ ClaimUncontended'
    BY <2>1 DEF GateInv, gate, Unclaimed, ClaimPlaces, ClaimUncontended
  <2>4. PumpPlaces' /\ SeenPlaces'
    BY <2>1, <2>2 DEF GateInv, gate, PumpPlaces, SeenPlaces
  <2> QED BY <2>3, <2>4 DEF GateParts
<1>7. CASE AckAborted
  <2>1. /\ pump' = "ack" /\ ~claimed /\ claimed' = TRUE
        /\ (event \in opened \/ abort) /\ \A c \in Consumers : ack'[c] = ack[c]
        /\ UNCHANGED <<taken, active, pending, event, opened, mine, seen, abort>>
    BY <1>2, <1>7 DEF AckAborted, BarrierReleased
  <2>2. abort /\ \A c \in Consumers : ack[c] = "no"
    BY <2>1 DEF GateInv, Unclaimed, ClaimPlaces
  <2>3. Unclaimed' /\ ClaimPlaces' /\ ClaimUncontended'
    BY <2>1, <2>2 DEF GateInv, Unclaimed, ClaimPlaces, ClaimUncontended
  <2> QED BY <2>1, <2>2, <2>3 DEF PumpPlaces, SeenPlaces, GateParts
<1>8. CASE PumpEnds
  <2>1. pump = "read" /\ claimed
    BY <1>8 DEF PumpEnds, GateInv, Unclaimed
  <2> QED BY <1>8, <2>1, GateFrame DEF PumpEnds, acking
<1>9. CASE PumpAckReturns \/ PumpAckFails
  <2>1. pump = "ack" /\ claimed
    BY <1>T, <1>9
       DEF PumpAckReturns, PumpAckFails, AckPlaces, GateInv, Unclaimed
  <2>2. \A c \in Consumers : ack'[c] = ack[c]
    BY <1>T, <1>9 DEF PumpAckReturns, PumpAckFails, ReleaseLock, TypeOK, Tasks
  <2> QED BY <1>9, <2>1, <2>2, GateFrame DEF PumpAckReturns, PumpAckFails
<1>10. ASSUME NEW t \in Tasks, AckStep(t) PROVE GateParts'
  <2>1. \A c \in Consumers : (ack'[c] = "no" <=> ack[c] = "no")
                               /\ (ack'[c] = "lock" => ack[c] = "lock")
    BY <1>T, <1>10 DEF AckStep, AcquireLock, DeliverAck, TypeOK, Tasks
  <2>2. UNCHANGED <<taken, active, pending, gate, mine, seen, pump, abort>>
    BY <1>10 DEF AckStep, AcquireLock, DeliverAck
  <2>3. Unclaimed' /\ ClaimPlaces' /\ ClaimUncontended'
    BY <2>1, <2>2, <1>T
       DEF GateInv, gate, Unclaimed, ClaimPlaces, ClaimUncontended
  <2>4. PumpPlaces' /\ SeenPlaces'
    BY <2>1, <2>2 DEF GateInv, gate, PumpPlaces, SeenPlaces
  <2> QED BY <2>3, <2>4 DEF GateParts
<1>11. ASSUME NEW c \in Consumers, ConsumerAckReturns(c) PROVE GateParts'
  BY <1>11, GateRelease DEF ConsumerAckReturns
<1>12. ASSUME NEW c \in Consumers, ConsumerAckFails(c) \/ CancelAck(c)
       PROVE  GateParts'
  BY <1>12, GateRelease DEF ConsumerAckFails, CancelAck, AckRaises
<1>13. ASSUME NEW c \in Consumers, Start(c) \/ GetChunk(c) PROVE GateParts'
  BY <1>13, GateFrame DEF Start, GetChunk, acking
<1>14. ASSUME NEW c \in Consumers, Resume(c) PROVE GateParts'
  <2>1. \A d \in active' : d # c => seen'[d] = seen[d]
    BY <1>T, <1>14 DEF Resume, TypeOK
  <2>2. gen[c] = "hold" /\ seen'[c] = seen[c] + 1
    BY <1>T, <1>14 DEF Resume, TypeOK
  <2> QED BY <1>14, <2>1, <2>2, GateMarks DEF Resume
<1>15. ASSUME NEW c \in Consumers, Exit(c) \/ GetEnd(c) PROVE GateParts'
  <2>1. c \notin active' /\ active' \subseteq active
    BY <1>15 DEF Exit, GetEnd
  <2> QED BY <1>15, <2>1, GateMarks DEF Exit, GetEnd
<1>16. CASE UNCHANGED fanVars
  BY <1>16, GateFrame DEF fanVars, acking
<1> QED
  BY <1>1, <1>3, <1>4, <1>5, <1>6, <1>7, <1>8, <1>9, <1>10, <1>11, <1>12,
     <1>13, <1>14, <1>15, <1>16
     DEF Next, PumpStep, LoopStep, ProcessorStep

LEMMA GateInvariant == Spec => []GateInv
BY InitGateInv, StepGateInv, PTL DEF Spec

\* A consumer that claimed the ack writes it at once: it never waits for
\* ack_lock, where a cancellation would lose an ack that nobody else sends
\* (mark_handled and ack_chunk).
THEOREM ClaimsAreUncontended == Spec => []ClaimUncontended
BY GateInvariant, PTL DEF GateInv
-----------------------------------------------------------------------------
(* The acks that are owed, and the refinement of ChunkBarrier. *)

OwedByBarrier == IF ~claimed THEN 1 ELSE 0
OwedByPump == IF ack[Pump] \in {"lock", "write"} THEN 1 ELSE 0
OwedByConsumer == IF \E c \in Consumers : ack[c] = "write" THEN 1 ELSE 0

\* On a live stream the chunks taken are acked, but for one at the barrier, one
\* whose ack the pump writes and one whose ack a consumer writes.
OwedAcks ==
  rpc # "failed" =>
    taken = Len(acks) + OwedByBarrier + OwedByPump + OwedByConsumer

BarrierInv == GateInv /\ OwedAcks

LEMMA InitBarrierInv == Init => BarrierInv
<1> SUFFICES ASSUME Init PROVE OwedAcks
  BY InitGateInv DEF BarrierInv
<1>1. \A t \in Tasks : ack[t] = "no"
  BY DEF Init
<1>2. OwedByBarrier = 0 /\ OwedByPump = 0 /\ OwedByConsumer = 0
  BY <1>1 DEF Init, OwedByBarrier, OwedByPump, OwedByConsumer, Tasks
<1> QED BY <1>2 DEF Init, OwedAcks

LEMMA OwedFrame ==
  ASSUME OwedAcks, UNCHANGED <<taken, claimed, acks>>,
         rpc' = "failed" \/ rpc # "failed",
         (ack'[Pump] \in {"lock", "write"}) <=> (ack[Pump] \in {"lock", "write"}),
         \A c \in Consumers : ack'[c] = "write" <=> ack[c] = "write"
  PROVE  OwedAcks'
<1>1. OwedByBarrier' = OwedByBarrier
  BY DEF OwedByBarrier
<1>2. OwedByPump' = OwedByPump
  BY DEF OwedByPump
<1>3. OwedByConsumer' = OwedByConsumer
  BY DEF OwedByConsumer
<1> QED BY <1>1, <1>2, <1>3 DEF OwedAcks

\* The pump enters ack_chunk, for a chunk it takes or for the one it gives up
\* waiting for.
LEMMA OwedPump ==
  ASSUME BarrierInv, ack[Pump] = "no", EnterAck(Pump), UNCHANGED <<rpc, acks>>,
         \/ taken' = taken + 1 /\ claimed' = claimed
         \/ taken' = taken /\ ~claimed /\ claimed'
  PROVE  OwedAcks'
<1>1. /\ TypeOK /\ Pump \in Tasks /\ Pump \notin Consumers
      /\ taken \in Nat /\ Len(acks) \in Nat
  BY FanoutAssumption
     DEF FanoutAssumption, BarrierInv, GateInv, QueueInv, AckInv, TypeOK, Tasks
<1>2. ack'[Pump] \in {"lock", "write"} /\ \A c \in Consumers : ack'[c] = ack[c]
  BY <1>1 DEF EnterAck, TypeOK, Tasks
<1>3. OwedByPump = 0 /\ OwedByPump' = 1
  BY <1>2 DEF OwedByPump
<1>4. OwedByConsumer' = OwedByConsumer /\ OwedByConsumer \in {0, 1}
  BY <1>2 DEF OwedByConsumer
<1>5. CASE taken' = taken + 1 /\ claimed' = claimed
  <2>1. OwedByBarrier' = OwedByBarrier /\ OwedByBarrier \in {0, 1}
    BY <1>5 DEF OwedByBarrier
  <2> QED BY <1>1, <1>3, <1>4, <1>5, <2>1 DEF OwedAcks, BarrierInv
<1>6. CASE taken' = taken /\ ~claimed /\ claimed'
  <2>1. OwedByBarrier' = 0 /\ OwedByBarrier = 1
    BY <1>6 DEF OwedByBarrier
  <2> QED BY <1>1, <1>3, <1>4, <1>6, <2>1 DEF OwedAcks, BarrierInv
<1> QED BY <1>5, <1>6

\* A consumer claims the ack of the barrier, or does not.
LEMMA OwedMarks ==
  ASSUME BarrierInv, NEW c \in Consumers, NEW busy, NEW idle,
         MarkHandled(c, busy, idle), UNCHANGED <<rpc, taken, acks>>
  PROVE  OwedAcks'
<1>1. /\ TypeOK /\ Pump \in Tasks /\ Pump \notin Consumers
      /\ taken \in Nat /\ Len(acks) \in Nat
  BY FanoutAssumption
     DEF FanoutAssumption, BarrierInv, GateInv, QueueInv, AckInv, TypeOK, Tasks
<1>2. CASE UNCHANGED <<claimed, ack>>
  BY <1>2, OwedFrame DEF BarrierInv, OwedAcks
<1>3. CASE ~claimed /\ claimed' /\ EnterAck(c)
  <2>1. lock = NoTask /\ \A t \in Tasks : ack[t] = "no"
    BY <1>3, UnclaimedIsFree DEF BarrierInv
  <2>2. ack'[c] = "write" /\ ack'[Pump] = ack[Pump]
    BY <1>1, <1>3, <2>1 DEF EnterAck, TypeOK, Tasks
  <2>3. OwedByBarrier = 1 /\ OwedByBarrier' = 0
    BY <1>3 DEF OwedByBarrier
  <2>4. OwedByConsumer = 0 /\ OwedByConsumer' = 1
    BY <2>1, <2>2 DEF OwedByConsumer, Tasks
  <2>5. OwedByPump' = OwedByPump /\ OwedByPump \in {0, 1}
    BY <2>2 DEF OwedByPump
  <2> QED BY <1>1, <2>3, <2>4, <2>5 DEF OwedAcks, BarrierInv
<1>4. UNCHANGED <<claimed, ack>> \/ (~claimed /\ claimed' /\ EnterAck(c))
  BY DEF MarkHandled
<1> QED BY <1>2, <1>3, <1>4

\* An ack that is delivered is one that was owed.
LEMMA OwedDelivered ==
  ASSUME BarrierInv, NEW t \in Tasks, DeliverAck(t)
  PROVE  OwedAcks' /\ Len(acks') = Len(acks) + 1 /\ Len(acks) < taken
<1>1. /\ TypeOK /\ Pump \in Tasks /\ Pump \notin Consumers
      /\ taken \in Nat /\ Len(acks) \in Nat /\ Len(acks') = Len(acks) + 1
  BY FanoutAssumption
     DEF FanoutAssumption, BarrierInv, GateInv, QueueInv, AckInv, TypeOK, Tasks,
         DeliverAck
<1>2. /\ ack[t] = "write" /\ ack'[t] = "return" /\ rpc # "failed"
      /\ taken' = taken /\ claimed' = claimed
      /\ \A u \in Tasks \ {t} : ack'[u] = ack[u]
  BY <1>1 DEF DeliverAck, TypeOK, gate
<1>3. OwedByBarrier' = OwedByBarrier /\ OwedByBarrier \in {0, 1}
  BY <1>2 DEF OwedByBarrier
<1>4. CASE t = Pump
  <2>1. OwedByPump = 1 /\ OwedByPump' = 0
    BY <1>2, <1>4 DEF OwedByPump
  <2>2. \A c \in Consumers : ack'[c] = ack[c]
    BY <1>1, <1>2, <1>4 DEF Tasks
  <2>3. OwedByConsumer' = OwedByConsumer /\ OwedByConsumer \in {0, 1}
    BY <2>2 DEF OwedByConsumer
  <2> QED BY <1>1, <1>2, <1>3, <2>1, <2>3 DEF OwedAcks, BarrierInv
<1>5. CASE t \in Consumers
  <2>1. OwedByPump' = OwedByPump /\ OwedByPump \in {0, 1}
    BY <1>1, <1>2, <1>5 DEF OwedByPump
  <2>2. \A c \in Consumers : ack'[c] # "write"
    BY <1>2, <1>5 DEF BarrierInv, GateInv, ClaimPlaces, Tasks
  <2>3. OwedByConsumer = 1 /\ OwedByConsumer' = 0
    BY <1>2, <1>5, <2>2 DEF OwedByConsumer
  <2> QED BY <1>1, <1>2, <1>3, <2>1, <2>3 DEF OwedAcks, BarrierInv
<1> QED BY <1>4, <1>5 DEF Tasks

LEMMA StepBarrierInv == BarrierInv /\ [Next]_fanVars => BarrierInv'
<1> SUFFICES ASSUME BarrierInv, [Next]_fanVars PROVE OwedAcks'
  BY StepGateInv DEF BarrierInv
<1>T. /\ GateInv /\ OwedAcks /\ TypeOK /\ AckPlaces
      /\ Pump \notin Consumers /\ Pump \in Tasks /\ Consumers \subseteq Tasks
      /\ taken \in Nat /\ Len(acks) \in Nat
  BY FanoutAssumption
     DEF FanoutAssumption, BarrierInv, GateInv, QueueInv, AckInv, Tasks, TypeOK
<1>1. CASE Send \/ EndStream \/ BreakStream \/ Abort
  BY <1>T, <1>1, OwedFrame
     DEF Send, EndStream, BreakStream, Abort, acking, gate, source
<1>2. CASE DrainChunk \/ DeliverUngated
  <2>1. ack[Pump] = "no"
    BY <1>T, <1>2 DEF DrainChunk, DeliverUngated, TakeChunk, AckPlaces
  <2> QED
    BY <1>2, <2>1, OwedPump
       DEF DrainChunk, DeliverUngated, TakeChunk, gate, source
<1>3. CASE AckAborted
  <2>1. ack[Pump] = "no"
    BY <1>T, <1>3 DEF AckAborted, AckPlaces
  <2> QED BY <1>3, <2>1, OwedPump DEF AckAborted, source
<1>4. CASE DeliverGated
  <2>1. /\ claimed /\ ~claimed' /\ taken' = taken + 1
        /\ UNCHANGED <<rpc, acks, ack>>
    BY <1>T, <1>4
       DEF DeliverGated, TakeChunk, GateInv, Unclaimed, source, acking
  <2>2. OwedByBarrier = 0 /\ OwedByBarrier' = 1
    BY <2>1 DEF OwedByBarrier
  <2>3. /\ OwedByPump' = OwedByPump /\ OwedByConsumer' = OwedByConsumer
        /\ OwedByPump \in {0, 1} /\ OwedByConsumer \in {0, 1}
    BY <2>1 DEF OwedByPump, OwedByConsumer
  <2> QED BY <1>T, <2>1, <2>2, <2>3 DEF OwedAcks
<1>5. CASE PassBarrier \/ PumpEnds
  BY <1>T, <1>5, OwedFrame
     DEF PassBarrier, PumpEnds, source, gate, acking, OwedAcks
<1>6. CASE PumpAckReturns
  <2>1. ack[Pump] = "return" /\ ack'[Pump] = "no"
        /\ \A c \in Consumers : ack'[c] = ack[c]
    BY <1>T, <1>6 DEF PumpAckReturns, ReleaseLock, TypeOK, Tasks
  <2> QED
    BY <1>T, <1>6, <2>1, OwedFrame DEF PumpAckReturns, source, gate, OwedAcks
<1>7. CASE PumpAckFails
  BY <1>7 DEF PumpAckFails, source, OwedAcks
<1>8. ASSUME NEW t \in Tasks, AcquireLock(t) PROVE OwedAcks'
  <2>1. t = Pump
    BY <1>T, <1>8 DEF AcquireLock, GateInv, ClaimUncontended, Tasks
  <2>2. ack[Pump] = "lock" /\ ack'[Pump] = "write"
        /\ \A c \in Consumers : ack'[c] = ack[c]
    BY <1>T, <1>8, <2>1 DEF AcquireLock, TypeOK, Tasks
  <2> QED
    BY <1>T, <1>8, <2>2, OwedFrame DEF AcquireLock, source, gate, OwedAcks
<1>9. ASSUME NEW t \in Tasks, DeliverAck(t) PROVE OwedAcks'
  BY <1>9, OwedDelivered
<1>10. ASSUME NEW c \in Consumers, ConsumerAckReturns(c) PROVE OwedAcks'
  <2>1. ack[c] = "return" /\ ack'[c] = "no"
        /\ \A t \in Tasks \ {c} : ack'[t] = ack[t]
    BY <1>T, <1>10 DEF ConsumerAckReturns, ReleaseLock, TypeOK
  <2> QED
    BY <1>T, <1>10, <2>1, OwedFrame DEF ConsumerAckReturns, source, OwedAcks
<1>11. ASSUME NEW c \in Consumers, ConsumerAckFails(c) \/ CancelAck(c)
       PROVE  OwedAcks'
  BY <1>11 DEF ConsumerAckFails, CancelAck, OwedAcks
<1>12. ASSUME NEW c \in Consumers, Start(c) \/ GetChunk(c) PROVE OwedAcks'
  BY <1>T, <1>12, OwedFrame
     DEF Start, GetChunk, source, gate, acking, OwedAcks
<1>13. ASSUME NEW c \in Consumers, Resume(c) \/ Exit(c) \/ GetEnd(c)
       PROVE  OwedAcks'
  BY <1>13, OwedMarks DEF Resume, Exit, GetEnd, source
<1>14. CASE UNCHANGED fanVars
  BY <1>T, <1>14, OwedFrame DEF fanVars, source, gate, acking, OwedAcks
<1> QED
  BY <1>1, <1>2, <1>3, <1>4, <1>5, <1>6, <1>7, <1>8, <1>9, <1>10, <1>11,
     <1>12, <1>13, <1>14
     DEF Next, PumpStep, LoopStep, ProcessorStep, AckStep

LEMMA BarrierInvariant == Spec => []BarrierInv
BY InitBarrierInv, StepBarrierInv, PTL DEF Spec

LEMMA InitBarrier == Init => Barrier!Init
<1> SUFFICES ASSUME Init PROVE Barrier!Init
  OBVIOUS
<1>1. Consumers \ active \in SUBSET Consumers
  BY DEF Init
<1> QED BY <1>1 DEF Init, Barrier!Init

\* The pump reads no chunk before the last one was acked, unless it was
\* released or the stream broke.
LEMMA TakeRefines ==
  ASSUME BarrierInv, TakeChunk, UNCHANGED <<source, active, acks, seen, abort>>
  PROVE  Barrier!Take
<1>1. /\ taken \in Nat /\ Len(acks) \in Nat /\ pump = "read" /\ claimed
      /\ ack[Pump] = "no" /\ taken' = taken + 1
  BY FanoutAssumption
     DEF FanoutAssumption, BarrierInv, GateInv, QueueInv, AckInv, TypeOK,
         TakeChunk, AckPlaces, Unclaimed
<1>2. OwedByBarrier = 0 /\ OwedByPump = 0 /\ OwedByConsumer \in {0, 1}
  BY <1>1 DEF OwedByBarrier, OwedByPump, OwedByConsumer
<1>3. ~abort => OwedByConsumer = 0
  BY <1>1 DEF OwedByConsumer, BarrierInv, GateInv, PumpPlaces
<1>4. Len(acks) = taken \/ rpc = "failed" \/ (abort /\ taken <= Len(acks) + 1)
  BY <1>1, <1>2, <1>3 DEF BarrierInv, OwedAcks
<1> QED BY <1>1, <1>4 DEF Barrier!Take, source

\* A consumer leaves.
LEMMA LeaveRefines ==
  ASSUME BarrierInv, NEW c \in Consumers, active' = active \ {c},
         UNCHANGED <<taken, acks, seen, abort>>, rpc' \in {rpc, "failed"}
  PROVE  Barrier!Leave(c)
<1>1. Consumers \ active' = (Consumers \ active) \cup {c}
  BY DEF BarrierInv, GateInv, QueueInv, AckInv, TypeOK
<1>2. (rpc' = "failed") \in {rpc = "failed", TRUE}
  OBVIOUS
<1> QED BY <1>1, <1>2 DEF Barrier!Leave

\* Every step of the fan-out is one the barrier allows, or changes nothing of it.
LEMMA StepBarrier ==
  BarrierInv /\ [Next]_fanVars => [Barrier!Next]_(Barrier!barrierVars)
<1> SUFFICES ASSUME BarrierInv, [Next]_fanVars
             PROVE  Barrier!Next \/ UNCHANGED Barrier!barrierVars
  OBVIOUS
<1>T. /\ GateInv /\ TypeOK /\ AckPlaces /\ Pump \notin Consumers
      /\ QueueInv
  BY FanoutAssumption
     DEF FanoutAssumption, BarrierInv, GateInv, QueueInv, AckInv
<1> DEFINE Same == UNCHANGED Barrier!barrierVars
<1>1. ASSUME UNCHANGED <<taken, acks, seen, active, abort>>,
             (rpc' = "failed") = (rpc = "failed")
      PROVE  Same
  BY <1>1 DEF Barrier!barrierVars
<1>2. CASE Send \/ EndStream
  BY <1>1, <1>2 DEF Send, EndStream, acking
<1>3. CASE BreakStream
  BY <1>3 DEF BreakStream, acking, Barrier!Break, Barrier!Next
<1>4. CASE Abort
  BY <1>4 DEF Abort, acking, source, Barrier!Release, Barrier!Next
<1>5. CASE DrainChunk \/ DeliverUngated \/ DeliverGated
  BY <1>5, TakeRefines
     DEF DrainChunk, DeliverUngated, DeliverGated, acking, Barrier!Next
<1>6. CASE PassBarrier \/ AckAborted \/ PumpEnds \/ PumpAckReturns
           \/ PumpAckFails
  BY <1>1, <1>6
     DEF PassBarrier, AckAborted, PumpEnds, PumpAckReturns, PumpAckFails,
         acking, source
<1>7. ASSUME NEW t \in Tasks, AcquireLock(t) PROVE Same
  BY <1>1, <1>7 DEF AcquireLock, source
<1>8. ASSUME NEW t \in Tasks, DeliverAck(t) PROVE Barrier!Ack
  <2>1. Len(acks') = Len(acks) + 1 /\ Len(acks) < taken
    BY <1>8, OwedDelivered
  <2>2. ASSUME ~abort, NEW c \in active PROVE seen[c] = taken
    <3>1. CASE t = Pump
      <4>1. pump = "ack"
        BY <1>T, <1>8, <3>1 DEF DeliverAck, AckPlaces
      <4> QED BY <1>T, <2>2, <4>1 DEF GateInv, PumpPlaces
    <3>2. CASE t \in Consumers
      <4>1. claimed
        BY <1>T, <1>8, <3>2 DEF DeliverAck, GateInv, ClaimPlaces
      <4> QED BY <1>T, <2>2, <4>1 DEF GateInv, SeenPlaces
    <3> QED BY <3>1, <3>2 DEF Tasks
  <2>3. abort \/ \A c \in Consumers \ (Consumers \ active) : seen[c] = taken
    BY <2>2
  <2> QED BY <1>8, <2>1, <2>3 DEF DeliverAck, source, Barrier!Ack
<1>9. ASSUME NEW c \in Consumers, ConsumerAckReturns(c) PROVE Same
  BY <1>1, <1>9 DEF ConsumerAckReturns, source
<1>10. ASSUME NEW c \in Consumers, ConsumerAckFails(c) \/ CancelAck(c)
       PROVE  Barrier!Leave(c)
  BY <1>10, LeaveRefines DEF ConsumerAckFails, CancelAck, AckRaises
<1>11. ASSUME NEW c \in Consumers, Start(c) \/ GetChunk(c) PROVE Same
  BY <1>1, <1>11 DEF Start, GetChunk, source, acking
<1>12. ASSUME NEW c \in Consumers, Resume(c) PROVE Barrier!Handle(c)
  <2>1. c \in active /\ gen[c] = "hold"
    BY <1>T, <1>12 DEF Resume, QueueInv, ActivePlaces
  <2>2. seen[c] < taken
    BY <1>T, <2>1, HeldIsBehind
  <2> QED BY <1>12, <2>1, <2>2 DEF Resume, source, Barrier!Handle
<1>13. ASSUME NEW c \in Consumers, Exit(c) \/ GetEnd(c)
       PROVE  Barrier!Leave(c)
  BY <1>13, LeaveRefines DEF Exit, GetEnd, source
<1>14. CASE UNCHANGED fanVars
  BY <1>1, <1>14 DEF fanVars, source, acking
<1> QED
  BY <1>2, <1>3, <1>4, <1>5, <1>6, <1>7, <1>8, <1>9, <1>10, <1>11, <1>12,
     <1>13, <1>14
     DEF Next, PumpStep, LoopStep, ProcessorStep, AckStep, Barrier!Next

\* fanout_stream implements what its docstring promises, ChunkBarrier: one ack
\* per chunk, after every consumer still in the barrier handled it or after the
\* barrier was released, for any number of consumers and any stream.
THEOREM FanoutRefinesBarrier == Spec => RefinesBarrier
BY BarrierInvariant, InitBarrier, StepBarrier, PTL
   DEF Spec, RefinesBarrier, Barrier!Spec
-----------------------------------------------------------------------------
(* Nobody waits at the barrier for nothing. *)

\* Once the ack was claimed its writer is at work, or the barrier is open.
Attended ==
  pump = "barrier" /\ claimed =>
    event \in opened \/ \E c \in Consumers : ack[c] \in {"write", "return"}

LEMMA StepAttended == GateInv /\ Attended /\ [Next]_fanVars => Attended'
<1> SUFFICES ASSUME GateInv, Attended, [Next]_fanVars, pump' = "barrier", claimed'
             PROVE  event' \in opened' \/ \E c \in Consumers : ack'[c] \in {"write", "return"}
  BY DEF Attended
<1> DEFINE Goal == event' \in opened' \/ \E c \in Consumers : ack'[c] \in {"write", "return"}
<1>T. TypeOK /\ Pump \notin Consumers
  BY FanoutAssumption DEF FanoutAssumption, GateInv, QueueInv, AckInv
<1>F. ASSUME pump = "barrier", claimed, UNCHANGED <<event, opened>>,
             \A c \in Consumers : ack[c] \in {"write", "return"} => ack'[c] \in {"write", "return"}
      PROVE  Goal
  BY <1>F DEF Attended
<1>M. ASSUME NEW c \in Consumers, NEW busy, NEW idle, MarkHandled(c, busy, idle),
             UNCHANGED <<event, opened, pump>>
      PROVE  Goal
  <2>1. CASE UNCHANGED <<claimed, mine, lock, ack>>
    BY <1>M, <1>F, <2>1
  <2>2. CASE ~UNCHANGED <<claimed, mine, lock, ack>>
    <3>1. ~claimed /\ EnterAck(c)
      BY <1>M, <2>2 DEF MarkHandled
    <3>2. ack'[c] = "write"
      BY <1>T, <3>1, UnclaimedIsFree DEF EnterAck, TypeOK, Tasks
    <3> QED BY <3>2
  <2> QED BY <2>1, <2>2
<1>R. ASSUME NEW c \in Consumers, ack[c] # "no", opened' = opened \cup {mine[c]},
             event' = event
      PROVE  Goal
  BY <1>R DEF GateInv, ClaimPlaces
<1>1. CASE Send \/ EndStream \/ BreakStream \/ Abort \/ UNCHANGED fanVars
  BY <1>1, <1>F DEF Send, EndStream, BreakStream, Abort, fanVars, gate, acking
<1>2. CASE PumpStep
  BY <1>2 DEF PumpStep, DrainChunk, DeliverUngated, DeliverGated, PassBarrier, AckAborted,
              PumpEnds, PumpAckReturns, PumpAckFails
<1>3. ASSUME NEW t \in Tasks, AckStep(t) PROVE Goal
  <2>1. UNCHANGED <<pump, claimed, event, opened>>
    BY <1>3 DEF AckStep, AcquireLock, DeliverAck, gate
  <2>2. \A c \in Consumers : ack[c] \in {"write", "return"} => ack'[c] \in {"write", "return"}
    BY <1>T, <1>3 DEF AckStep, AcquireLock, DeliverAck, TypeOK, Tasks
  <2> QED BY <1>F, <2>1, <2>2
<1>4. ASSUME NEW c \in Consumers, Resume(c) PROVE Goal
  BY <1>4, <1>M DEF Resume
<1>5. ASSUME NEW c \in Consumers, Exit(c) PROVE Goal
  BY <1>5, <1>M DEF Exit
<1>6. ASSUME NEW c \in Consumers, GetEnd(c) PROVE Goal
  BY <1>6, <1>M DEF GetEnd
<1>7. ASSUME NEW c \in Consumers, Start(c) \/ GetChunk(c) PROVE Goal
  BY <1>7, <1>F DEF Start, GetChunk, gate, acking
<1>8. ASSUME NEW c \in Consumers,
             ConsumerAckReturns(c) \/ ConsumerAckFails(c) \/ CancelAck(c)
      PROVE  Goal
  BY <1>8, <1>R DEF ConsumerAckReturns, ConsumerAckFails, CancelAck, AckRaises
<1> QED
  BY <1>1, <1>2, <1>3, <1>4, <1>5, <1>6, <1>7, <1>8 DEF Next, LoopStep, ProcessorStep

\* While the pump waits at a barrier that is not released, an ack is being written,
\* or a consumer it waits for holds the chunk or has it next in its queue.
PumpWaitsForSomeone ==
  pump = "barrier" /\ ~BarrierReleased =>
    \/ \E c \in Consumers : ack[c] \in {"write", "return"}
    \/ \E c \in pending :
         \/ gen[c] = "hold"
         \/ gen[c] \in {"new", "get"} /\ queue[c] # <<>> /\ queue[c][1] = event

\* utils.py:104-176 (mark_handled, pump_source, the generators): the barrier never deadlocks;
\* whoever leaves, raises or is cancelled, and in whatever order, the pump is not left waiting
\* for a chunk that nobody has.
THEOREM NoLostBarrier == Spec => []PumpWaitsForSomeone
<1>1. Init => Attended
  BY DEF Init, Attended
<1>2. GateInv /\ Attended => PumpWaitsForSomeone
  <2> SUFFICES ASSUME GateInv, Attended, pump = "barrier", event \notin opened, ~abort,
                      ~\E c \in Consumers : ack[c] \in {"write", "return"}
               PROVE  \E c \in pending :
                        \/ gen[c] = "hold"
                        \/ gen[c] \in {"new", "get"} /\ queue[c] # <<>> /\ queue[c][1] = event
    BY DEF PumpWaitsForSomeone, BarrierReleased
  <2>T. /\ TypeOK /\ AckPlaces /\ ActivePlaces /\ NothingSkipped
        /\ Unclaimed /\ ClaimPlaces /\ PumpPlaces /\ SeenPlaces
    BY DEF GateInv, QueueInv, AckInv
  <2>1. ~claimed /\ pending # {}
    BY <2>T DEF Attended, Unclaimed
  <2>2. PICK c \in pending : c \in active /\ c \in Consumers
    BY <2>T, <2>1 DEF ActivePlaces, TypeOK
  <2>3. gen[c] \in {"new", "get", "hold"}
    BY <2>T, <2>1, <2>2 DEF ActivePlaces, AckPlaces, ClaimPlaces
  <2>4. CASE gen[c] # "hold"
    <3>1. /\ seen[c] = taken - 1 /\ event = taken /\ Held(c) = 0 /\ Ended = 0
      BY <2>T, <2>1, <2>2, <2>4 DEF SeenPlaces, PumpPlaces, Held, Ended
    <3>2. taken \in Nat /\ queue[c] \in Seq(Nat)
      BY <2>T, <2>2, FanoutAssumption DEF TypeOK, FanoutAssumption
    <3>3. Len(queue[c]) = taken - seen[c] - Held(c) + Ended
          /\ \A i \in 1..Len(queue[c]) : queue[c][i] = seen[c] + Held(c) + i
      BY <2>T, <2>2 DEF NothingSkipped
    <3>4. Len(queue[c]) = 1
      BY <3>1, <3>2, <3>3
    <3>5. queue[c] # <<>> /\ queue[c][1] = event
      BY <3>1, <3>2, <3>3, <3>4
    <3> QED BY <2>2, <2>3, <2>4, <3>5
  <2> QED BY <2>2, <2>4
<1> QED BY GateInvariant, StepAttended, <1>1, <1>2, PTL DEF Spec
=============================================================================
