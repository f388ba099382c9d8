----------------------------- MODULE ReaderProofs -----------------------------
(***************************************************************************)
(* Proofs about Reader, for any number of messages and consumers of any    *)
(* kinds, whether or not the data decodes.                                 *)
(***************************************************************************)
EXTENDS Reader, FiniteSetTheorems, SequenceTheorems, TLAPS

-----------------------------------------------------------------------------
(* The inductive invariant, in parts. *)

Tasks == ({"gather"} \X Messages) \cup ({"push", "stream"} \X Messages \X Consumers)

Types ==
  /\ arrived \in Nat /\ closed \in BOOLEAN
  /\ type \in [Messages -> {"none", "plain", "stream"}]
  /\ kind \in [Consumers -> {"none", "string", "stream", "buffer"}]
  /\ failed \subseteq Messages /\ drained \subseteq Messages
  /\ ready \in Seq(Tasks)
  /\ stage \in [Messages -> Stages]
  /\ parts \in [Messages -> SUBSET Consumers]
  /\ waitFor \in [Messages -> SUBSET Consumers]
  /\ iq \in [Consumers -> Seq(Messages \cup {CloseMark})]
  /\ it \in [Consumers -> {"next", "hold", "ended", "gone"}]
  /\ handled \in [Consumers -> Seq(Messages)] /\ acked \in Seq(Messages)

\* Consumers register in the order of their numbers; they hold a message.
Iterators ==
  /\ \E n \in Nat : Registered = 1..n
  /\ \A c \in Consumers : it[c] = "hold" => iq[c] # <<>> /\ Head(iq[c]) \in Messages
  /\ iterClosed # {} => closed

\* Nothing happened to a message before it arrived.
Fresh == \A m \in Messages : /\ m > arrived => stage[m] = "none"
                             /\ stage[m] = "none" => parts[m] = {}

\* A delivery that waits to run is the only one of its message, which is plain.
Deliveries ==
  /\ \A i \in DOMAIN ready :
       /\ ready[i][1] = "gather" => stage[ready[i][2]] = "spawned"
       /\ ready[i][1] = "push" => /\ type[ready[i][2]] = "plain"
                                  /\ stage[ready[i][2]] # "none"
  /\ \A i, j \in DOMAIN ready :
       i # j /\ ready[i][1] = "gather" /\ ready[j][1] = "gather" =>
         ready[i][2] # ready[j][2]
  /\ \A m \in Messages : stage[m] = "spawned" => type[m] = "plain"

\* A future that is resolved is one of a consumer that is done with the message,
\* or of one whose iterator was closed when the message was pushed.
Futures ==
  \A m \in Messages : \A c \in parts[m] \ waitFor[m] :
    InSeq(m, handled[c]) \/ (closed /\ type[m] = "plain")

AllHandled(m) == \A c \in parts[m] : InSeq(m, handled[c])

\* When the ack of a message is due, its consumers are done with it, it could not
\* be delivered, or the reader closed; a stream is drained in the latter case.
Settled ==
  \A m \in Messages :
    /\ stage[m] = "draining" => closed
    /\ stage[m] \in {"ack", "acked"} =>
         /\ closed \/ m \in failed \/ AllHandled(m)
         /\ type[m] = "stream" => m \in drained \/ (parts[m] # {} /\ AllHandled(m))

\* What was acked is at its end, and nothing is acked twice.
Acks == (\A i \in DOMAIN acked : stage[acked[i]] = "acked") /\ AckedOnce

ReaderInv ==
  Types /\ Iterators /\ Fresh /\ Deliveries /\ Futures /\ Settled /\ Acks

\* What a processor asks for is one of the three.
LEMMA RegisterAsks ==
  ASSUME NEW c \in Consumers, Register(c)
  PROVE  \E k \in {"string", "stream", "buffer"} : kind' = [kind EXCEPT ![c] = k]
<1>1. Kinds[c] \subseteq {"string", "stream", "buffer"}
  BY ReaderAssumption DEF ReaderAssumption, Consumers
<1> QED BY <1>1 DEF Register

LEMMA InitReaderInv == Init => ReaderInv
<1> SUFFICES ASSUME Init PROVE ReaderInv
  OBVIOUS
<1>1. Types
  <2>1. ready \in Seq(Tasks) /\ acked \in Seq(Messages)
    BY EmptySeq DEF Init
  <2>2. /\ iq \in [Consumers -> Seq(Messages \cup {CloseMark})]
        /\ handled \in [Consumers -> Seq(Messages)]
    BY EmptySeq DEF Init
  <2>3. /\ type \in [Messages -> {"none", "plain", "stream"}]
        /\ kind \in [Consumers -> {"none", "string", "stream", "buffer"}]
        /\ stage \in [Messages -> Stages]
        /\ it \in [Consumers -> {"next", "hold", "ended", "gone"}]
    BY DEF Init, Stages
  <2>4. /\ parts \in [Messages -> SUBSET Consumers]
        /\ waitFor \in [Messages -> SUBSET Consumers]
        /\ failed \subseteq Messages /\ drained \subseteq Messages
    BY DEF Init
  <2>5. arrived \in Nat
    BY DEF Init
  <2>6. closed \in BOOLEAN
    BY Zenon DEF Init
  <2> QED BY <2>1, <2>2, <2>3, <2>4, <2>5, <2>6 DEF Types
<1>2. Iterators
  <2>1. Registered = {}
    BY DEF Init, Registered
  <2>2. Registered = 1..0 /\ 0 \in Nat
    BY <2>1
  <2> QED BY <2>2 DEF Init, Iterators
<1>3. Fresh /\ Futures /\ Settled
  BY DEF Init, Fresh, Futures, Settled
<1>4. Deliveries /\ Acks
  BY DEF Init, Deliveries, Acks, AckedOnce
<1> QED BY <1>1, <1>2, <1>3, <1>4 DEF ReaderInv
-----------------------------------------------------------------------------
(* Sequences and tasks *)

LEMMA AppendHas ==
  ASSUME NEW S, NEW s \in Seq(S), NEW x \in S
  PROVE  /\ Append(s, x) \in Seq(S) /\ Append(s, x) # <<>>
         /\ InSeq(x, Append(s, x))
         /\ \A y : InSeq(y, s) => InSeq(y, Append(s, x))
         /\ s # <<>> => Head(Append(s, x)) = Head(s)
         /\ \A i \in DOMAIN Append(s, x) :
              \/ i \in DOMAIN s /\ Append(s, x)[i] = s[i]
              \/ i = Len(s) + 1 /\ i \notin DOMAIN s /\ Append(s, x)[i] = x
<1>1. /\ DOMAIN s = 1..Len(s) /\ Len(s) \in Nat
      /\ DOMAIN Append(s, x) = 1..(Len(s) + 1)
      /\ Append(s, x)[Len(s) + 1] = x
      /\ \A i \in 1..Len(s) : Append(s, x)[i] = s[i]
      /\ Append(s, x) \in Seq(S)
  OBVIOUS
<1>2. InSeq(x, Append(s, x)) /\ Append(s, x) # <<>>
  BY <1>1 DEF InSeq
<1>3. \A y : InSeq(y, s) => InSeq(y, Append(s, x))
  BY <1>1 DEF InSeq
<1>4. s # <<>> => Head(Append(s, x)) = Head(s)
  BY <1>1
<1> QED BY <1>1, <1>2, <1>3, <1>4

LEMMA TaskParts ==
  ASSUME NEW t \in Tasks
  PROVE  /\ t[1] \in {"gather", "push", "stream"} /\ t[2] \in Messages
         /\ t[1] # "gather" => t[3] \in Consumers
BY DEF Tasks

LEMMA TailTasks ==
  ASSUME NEW s \in Seq(Tasks), s # <<>>
  PROVE  /\ Head(s) = s[1] /\ Head(s) \in Tasks /\ 1 \in DOMAIN s
         /\ Tail(s) \in Seq(Tasks)
         /\ \A i \in DOMAIN Tail(s) :
              i \in Nat /\ i > 0 /\ i + 1 \in DOMAIN s /\ Tail(s)[i] = s[i + 1]
OBVIOUS

\* One task for every consumer registered so far, behind those that wait.
TasksOf(k, m) == [c \in Registered |-> <<k, m, c>>]

LEMMA TasksForAll ==
  ASSUME Types, Iterators, NEW s \in Seq(Tasks), NEW m \in Messages,
         NEW k \in {"push", "stream"}
  PROVE  /\ s \o TasksOf(k, m) \in Seq(Tasks)
         /\ \A i \in DOMAIN (s \o TasksOf(k, m)) :
              \/ i \in DOMAIN s /\ (s \o TasksOf(k, m))[i] = s[i]
              \/ (s \o TasksOf(k, m))[i][1] = k /\ (s \o TasksOf(k, m))[i][2] = m
         /\ \A i \in DOMAIN (s \o TasksOf(k, m)) \ DOMAIN s :
              /\ i - Len(s) \in Registered
              /\ (s \o TasksOf(k, m))[i] = <<k, m, i - Len(s)>>
<1> DEFINE new == TasksOf(k, m)
<1>1. PICK n \in Nat : Registered = 1..n
  BY DEF Iterators
<1>2. \A c \in Registered : <<k, m, c>> \in Tasks
  BY DEF Tasks, Registered
<1>3. new \in Seq(Tasks) /\ DOMAIN new = 1..n /\ Len(new) = n
  BY <1>1, <1>2 DEF TasksOf
<1>4. \A j \in 1..n : new[j] = <<k, m, j>> /\ new[j][1] = k /\ new[j][2] = m
  BY <1>1 DEF TasksOf
<1> HIDE DEF new
<1>5. /\ s \o new \in Seq(Tasks)
      /\ DOMAIN (s \o new) = 1..(Len(s) + n) /\ DOMAIN s = 1..Len(s) /\ Len(s) \in Nat
      /\ \A i \in 1..(Len(s) + n) :
           (s \o new)[i] = IF i <= Len(s) THEN s[i] ELSE new[i - Len(s)]
  BY <1>3
<1>6. ASSUME NEW i \in DOMAIN (s \o new), i \notin DOMAIN s
      PROVE  /\ (s \o new)[i][1] = k /\ (s \o new)[i][2] = m
             /\ i - Len(s) \in Registered /\ (s \o new)[i] = <<k, m, i - Len(s)>>
  <2>1. i - Len(s) \in 1..n /\ (s \o new)[i] = new[i - Len(s)]
    BY <1>5, <1>6
  <2> QED BY <1>1, <1>4, <2>1
<1>7. \A i \in DOMAIN s : i \in DOMAIN (s \o new) => (s \o new)[i] = s[i]
  BY <1>5
<1> QED BY <1>5, <1>6, <1>7 DEF new

\* The tasks that waited are in front of the new ones, and every consumer has one.
LEMMA TasksBefore ==
  ASSUME Types, Iterators, NEW s \in Seq(Tasks), NEW m \in Messages,
         NEW k \in {"push", "stream"}
  PROVE  /\ \A i \in DOMAIN s : /\ i \in DOMAIN (s \o TasksOf(k, m))
                                /\ (s \o TasksOf(k, m))[i] = s[i]
         /\ \A c \in Registered : InSeq(<<k, m, c>>, s \o TasksOf(k, m))
<1> DEFINE new == TasksOf(k, m)
<1>1. PICK n \in Nat : Registered = 1..n
  BY DEF Iterators
<1>2. \A c \in Registered : <<k, m, c>> \in Tasks
  BY DEF Tasks, Registered
<1>3. new \in Seq(Tasks) /\ DOMAIN new = 1..n /\ Len(new) = n
  BY <1>1, <1>2 DEF TasksOf
<1>4. \A j \in 1..n : new[j] = <<k, m, j>>
  BY <1>1 DEF TasksOf
<1> HIDE DEF new
<1>5. /\ DOMAIN (s \o new) = 1..(Len(s) + n) /\ DOMAIN s = 1..Len(s) /\ Len(s) \in Nat
      /\ \A i \in 1..(Len(s) + n) :
           (s \o new)[i] = IF i <= Len(s) THEN s[i] ELSE new[i - Len(s)]
  BY <1>3
<1>6. ASSUME NEW c \in Registered PROVE InSeq(<<k, m, c>>, s \o new)
  <2>1. c \in 1..n /\ Len(s) + c \in 1..(Len(s) + n) /\ (s \o new)[Len(s) + c] = new[c]
    BY <1>1, <1>5
  <2> QED BY <1>4, <1>5, <2>1 DEF InSeq
<1>7. \A i \in DOMAIN s : i \in DOMAIN (s \o new) /\ (s \o new)[i] = s[i]
  BY <1>5
<1> QED BY <1>6, <1>7 DEF new
-----------------------------------------------------------------------------
(* The steps *)

RunGather == RunPlainTask /\ Head(ready)[1] = "gather"
RunPush == RunPlainTask /\ Head(ready)[1] = "push"
SubStep(c, m) == HandleChunk(c, m) \/ EndSub(c, m) \/ LeaveSub(c, m)

LEMMA NextCases ==
  ASSUME [Next]_readerVars
  PROVE  \/ RunGather \/ RunPush \/ RunStreamTask \/ Close \/ UNCHANGED readerVars
         \/ \E m \in Messages :
              \/ HandleMsg(m) \/ HandleStream(m) \/ HandleStreamClosed(m)
              \/ OpenStream(m) \/ Drain(m) \/ Notify(m) \/ WriteAck(m)
              \/ \E c \in Consumers : SubStep(c, m)
         \/ \E c \in Consumers :
              Register(c) \/ Get(c) \/ GetClose(c) \/ Complete(c) \/ Quit(c)
<1>1. RunPlainTask => RunGather \/ RunPush
  BY DEF RunPlainTask, RunGather, RunPush
<1> QED BY <1>1 DEF Next, MessageStep, StringStep, StreamStep, IterStep, SubStep

LEMMA QueueTypes ==
  ASSUME Types, NEW c \in Consumers, NEW x \in Messages,
         iq' \in {iq, [iq EXCEPT ![c] = Append(@, x)]}
  PROVE  iq' \in [Consumers -> Seq(Messages \cup {CloseMark})]
<1>1. iq[c] \in Seq(Messages \cup {CloseMark})
  BY DEF Types
<1>2. Append(iq[c], x) \in Seq(Messages \cup {CloseMark})
  BY <1>1
<1> QED BY <1>2 DEF Types

LEMMA TailTypes ==
  ASSUME Types, NEW c \in Consumers, iq[c] # <<>>
  PROVE  [iq EXCEPT ![c] = Tail(@)] \in [Consumers -> Seq(Messages \cup {CloseMark})]
<1>1. Tail(iq[c]) \in Seq(Messages \cup {CloseMark})
  BY DEF Types
<1> QED BY <1>1 DEF Types

LEMMA StepTypes == ReaderInv /\ [Next]_readerVars => Types'
<1> SUFFICES ASSUME ReaderInv, [Next]_readerVars PROVE Types'
  OBVIOUS
<1>T. Types /\ Iterators
  BY DEF ReaderInv
<1>M. \A m \in Messages : m \in Nat
  BY DEF Messages
<1>1. ASSUME NEW m \in Messages, HandleMsg(m) PROVE Types'
  <2>1. ready' \in Seq(Tasks)
    <3>1. <<"gather", m>> \in Tasks
      BY DEF Tasks
    <3>2. Append(ready, <<"gather", m>>) \in Seq(Tasks)
      BY <1>T, <3>1 DEF Types
    <3> QED BY <1>T, <1>1, <3>2 DEF Types, HandleMsg
  <2>2. stage' \in [Messages -> Stages]
    BY <1>T, <1>1 DEF Types, HandleMsg, Stages
  <2> QED BY <1>T, <1>M, <1>1, <2>1, <2>2 DEF Types, HandleMsg, Arrive, streaming, iterating
<1>2. ASSUME NEW m \in Messages, HandleStreamClosed(m) PROVE Types'
  BY <1>T, <1>M, <1>2 DEF Types, HandleStreamClosed, Arrive, streaming, iterating, Stages
<1>3. ASSUME NEW m \in Messages, HandleStream(m) PROVE Types'
  <2>0. ready' = ready \o TasksOf("stream", m)
    BY <1>3 DEF HandleStream, TasksOf
  <2>1. ready' \in Seq(Tasks)
    BY <1>T, <2>0, TasksForAll DEF Types
  <2>2. Registered \subseteq Consumers
    BY DEF Registered
  <2> QED BY <1>T, <1>M, <1>3, <2>1, <2>2
          DEF Types, HandleStream, Arrive, iterating, Stages
<1>4. ASSUME NEW m \in Messages, OpenStream(m) \/ Notify(m) PROVE Types'
  BY <1>T, <1>4 DEF Types, OpenStream, Notify, streaming, iterating, Stages
<1>5. ASSUME NEW m \in Messages, Drain(m) PROVE Types'
  BY <1>T, <1>5 DEF Types, Drain, handling, iterating
<1>6. ASSUME NEW m \in Messages, WriteAck(m) PROVE Types'
  <2>1. acked' \in Seq(Messages)
    BY <1>T, <1>6 DEF Types, WriteAck
  <2> QED BY <1>T, <1>6, <2>1 DEF Types, WriteAck, streaming, iterating, Stages
<1>7. ASSUME NEW c \in Consumers, Register(c) PROVE Types'
  <2>1. \E k \in {"string", "stream", "buffer"} : kind' = [kind EXCEPT ![c] = k]
    BY <1>7, RegisterAsks
  <2>2. kind' \in [Consumers -> {"none", "string", "stream", "buffer"}]
    BY <1>T, <2>1 DEF Types
  <2> QED BY <1>T, <1>7, <2>2 DEF Types, Register, handling, streaming, iterating
<1>8. CASE Close
  <2>1. ASSUME NEW c \in Consumers
        PROVE  Append(iq[c], CloseMark) \in Seq(Messages \cup {CloseMark})
    BY <1>T DEF Types
  <2>2. iq' \in [Consumers -> Seq(Messages \cup {CloseMark})]
    BY <1>T, <1>8, <2>1 DEF Types, Close
  <2> QED BY <1>T, <1>8, <2>2 DEF Types, Close, handling, streaming
<1>9. CASE RunGather
  <2>1. PICK m \in Messages : m = Head(ready)[2]
    BY <1>T, <1>9, TailTasks, TaskParts DEF Types, RunGather, RunPlainTask
  <2>2. GatherPushes(m) /\ Tail(ready) \in Seq(Tasks)
    BY <1>T, <1>9, <2>1, TailTasks DEF Types, RunGather, RunPlainTask
  <2>3. ready' \in Seq(Tasks)
    <3>1. ready' = Tail(ready) \o TasksOf("push", m)
      BY <2>2 DEF GatherPushes, TasksOf
    <3> QED BY <1>T, <2>2, <3>1, TasksForAll
  <2>4. Registered \subseteq Consumers
    BY DEF Registered
  <2>5. /\ stage' \in [Messages -> Stages]
        /\ parts' \in [Messages -> SUBSET Consumers]
        /\ waitFor' \in [Messages -> SUBSET Consumers]
        /\ UNCHANGED <<failed, iq>>
    BY <1>T, <2>2, <2>4 DEF Types, GatherPushes, Stages
  <2> QED BY <1>T, <1>9, <2>3, <2>5 DEF Types, RunGather, RunPlainTask, streaming
<1>10. CASE RunPush
  <2>1. PICK m \in Messages, c \in Consumers : m = Head(ready)[2] /\ c = Head(ready)[3]
    BY <1>T, <1>10, TailTasks, TaskParts DEF Types, RunPush, RunPlainTask
  <2>2. Push(c, m) /\ Tail(ready) \in Seq(Tasks)
    BY <1>T, <1>10, <2>1, TailTasks DEF Types, RunPush, RunPlainTask
  <2>3. iq' \in [Consumers -> Seq(Messages \cup {CloseMark})]
    <3>1. iq' \in {iq, [iq EXCEPT ![c] = Append(@, m)]}
      BY <2>2 DEF Push
    <3> QED BY <1>T, <3>1, QueueTypes
  <2>4. waitFor' \in [Messages -> SUBSET Consumers] /\ failed' \subseteq Messages
    <3>1. /\ waitFor' \in {waitFor, [waitFor EXCEPT ![m] = @ \ {c}]}
          /\ failed' \in {failed, failed \cup {m}}
      BY <2>2 DEF Push
    <3>2. /\ waitFor \in [Messages -> SUBSET Consumers] /\ failed \subseteq Messages
          /\ waitFor[m] \ {c} \in SUBSET Consumers
      BY <1>T DEF Types
    <3>3. [waitFor EXCEPT ![m] = @ \ {c}] \in [Messages -> SUBSET Consumers]
      BY <3>2
    <3> QED BY <3>1, <3>2, <3>3
  <2> QED BY <1>T, <1>10, <2>2, <2>3, <2>4 DEF Types, RunPush, RunPlainTask, Push, streaming
<1>11. CASE RunStreamTask
  <2>1. PICK m \in Messages, c \in Consumers : m = Head(ready)[2] /\ c = Head(ready)[3]
    BY <1>T, <1>11, TailTasks, TaskParts DEF Types, RunStreamTask
  <2>2. iq' \in {iq, [iq EXCEPT ![c] = Append(@, m)]} /\ ready' = Tail(ready)
    BY <1>11, <2>1 DEF RunStreamTask
  <2>3. iq' \in [Consumers -> Seq(Messages \cup {CloseMark})]
    BY <1>T, <2>2, QueueTypes
  <2>4. ready' \in Seq(Tasks)
    BY <1>T, <1>11, <2>2, TailTasks DEF Types, RunStreamTask
  <2> QED BY <1>T, <1>11, <2>3, <2>4 DEF Types, RunStreamTask, handling
<1>12. ASSUME NEW m \in Messages, NEW c \in Consumers, SubStep(c, m) PROVE Types'
  <2>1. iq' \in {iq, [iq EXCEPT ![c] = Append(@, m)]}
    BY <1>12 DEF SubStep, HandleChunk, EndSub, LeaveSub, iterating
  <2>2. iq' \in [Consumers -> Seq(Messages \cup {CloseMark})]
    BY <1>T, <2>1, QueueTypes
  <2> QED BY <1>T, <1>12, <2>2
          DEF Types, SubStep, HandleChunk, EndSub, LeaveSub, handling, iterating
<1>13. ASSUME NEW c \in Consumers, Get(c) \/ Quit(c) PROVE Types'
  BY <1>T, <1>13 DEF Types, Get, Quit, handling, streaming, iterating
<1>14. ASSUME NEW c \in Consumers, GetClose(c) PROVE Types'
  <2>1. iq' \in [Consumers -> Seq(Messages \cup {CloseMark})]
    BY <1>T, <1>14, TailTypes DEF GetClose
  <2> QED BY <1>T, <1>14, <2>1 DEF Types, GetClose, handling, streaming
<1>15. ASSUME NEW c \in Consumers, Complete(c) PROVE Types'
  <2>1. iq[c] # <<>> /\ Holding(c) \in Messages
    BY <1>T, <1>15 DEF Iterators, Complete, Holding
  <2>2. iq' \in [Consumers -> Seq(Messages \cup {CloseMark})]
    BY <1>T, <1>15, <2>1, TailTypes DEF Complete
  <2>3. handled' \in [Consumers -> Seq(Messages)]
    BY <1>T, <1>15, <2>1 DEF Types, Complete
  <2>4. waitFor' \in [Messages -> SUBSET Consumers]
    BY <1>T, <1>15, <2>1 DEF Types, Complete
  <2>5. it' \in [Consumers -> {"next", "hold", "ended", "gone"}]
    BY <1>T, <1>15 DEF Types, Complete
  <2> QED BY <1>T, <1>15, <2>2, <2>3, <2>4, <2>5 DEF Types, Complete, streaming
<1>16. CASE UNCHANGED readerVars
  BY <1>T, <1>16 DEF Types, readerVars, handling, streaming, iterating
<1> QED
  BY <1>1, <1>2, <1>3, <1>4, <1>5, <1>6, <1>7, <1>8, <1>9, <1>10, <1>11, <1>12, <1>13,
     <1>14, <1>15, <1>16, NextCases

\* The steps that leave the messages where they are.
Still == \/ RunPush \/ RunStreamTask \/ Close \/ UNCHANGED readerVars
         \/ \E m \in Messages : Drain(m) \/ \E c \in Consumers : SubStep(c, m)
         \/ \E c \in Consumers :
              Register(c) \/ Get(c) \/ GetClose(c) \/ Complete(c) \/ Quit(c)

LEMMA StillFrame == Still => UNCHANGED <<arrived, type, stage, parts, acked>>
<1>1. RunPush => UNCHANGED <<arrived, type, stage, parts, acked>>
  BY DEF RunPush, RunPlainTask, GatherPushes, Push
<1>2. RunStreamTask \/ Close => UNCHANGED <<arrived, type, stage, parts, acked>>
  BY DEF RunStreamTask, Close, handling
<1>3. \A m \in Messages, c \in Consumers :
        Drain(m) \/ SubStep(c, m) => UNCHANGED <<arrived, type, stage, parts, acked>>
  BY DEF Drain, SubStep, HandleChunk, EndSub, LeaveSub, handling
<1>4. \A c \in Consumers :
        Register(c) \/ Get(c) \/ GetClose(c) \/ Complete(c) \/ Quit(c) =>
          UNCHANGED <<arrived, type, stage, parts, acked>>
  BY DEF Register, Get, GetClose, Complete, Quit, handling
<1>5. UNCHANGED readerVars => UNCHANGED <<arrived, type, stage, parts, acked>>
  BY DEF readerVars, handling
<1>6. \A m \in Messages : Drain(m) => UNCHANGED <<arrived, type, stage, parts, acked>>
  BY DEF Drain, handling
<1> QED BY <1>1, <1>2, <1>3, <1>4, <1>5, <1>6 DEF Still

\* The delivery that runs is that of a message that was spawned.
LEMMA GatherEffect ==
  ASSUME ReaderInv, RunGather
  PROVE  \E m \in Messages :
           /\ stage[m] = "spawned" /\ m = Head(ready)[2]
           /\ ready # <<>> /\ Head(ready)[1] = "gather"
           /\ stage' = [stage EXCEPT ![m] = "waiting"]
           /\ parts' = [parts EXCEPT ![m] = Registered]
           /\ waitFor' = [waitFor EXCEPT ![m] = Registered]
           /\ ready' = Tail(ready) \o TasksOf("push", m)
           /\ UNCHANGED <<arrived, type, kind, closed, failed, drained, iq, iterClosed, it,
                          handled, acked>>
<1>T. Types /\ Deliveries
  BY DEF ReaderInv
<1>1. ready # <<>> /\ Head(ready)[1] = "gather" /\ GatherPushes(Head(ready)[2])
  BY DEF RunGather, RunPlainTask
<1>2. Head(ready) = ready[1] /\ 1 \in DOMAIN ready /\ Head(ready) \in Tasks
  BY <1>T, <1>1, TailTasks DEF Types
<1>3. Head(ready)[2] \in Messages /\ stage[Head(ready)[2]] = "spawned"
  BY <1>T, <1>1, <1>2, TaskParts DEF Deliveries
<1>4. UNCHANGED <<arrived, type, kind, closed, failed, drained, iq, iterClosed, it,
                  handled, acked>>
  BY <1>1 DEF RunGather, RunPlainTask, GatherPushes, streaming
<1> QED BY <1>1, <1>3, <1>4 DEF GatherPushes, TasksOf

LEMMA StepFresh == ReaderInv /\ [Next]_readerVars => Fresh'
<1> SUFFICES ASSUME ReaderInv, [Next]_readerVars PROVE Fresh'
  OBVIOUS
<1>T. Types /\ Fresh
  BY DEF ReaderInv
<1>M. \A m \in Messages : m \in Nat
  BY DEF Messages
<1>1. CASE Still
  BY <1>T, <1>1, StillFrame DEF Fresh
<1>2. ASSUME NEW m \in Messages, HandleMsg(m) \/ HandleStreamClosed(m) PROVE Fresh'
  <2>1. /\ m = arrived + 1 /\ arrived' = m /\ parts' = parts
        /\ stage'[m] # "none" /\ \A x \in Messages : x # m => stage'[x] = stage[x]
    BY <1>T, <1>2 DEF Types, HandleMsg, HandleStreamClosed, Arrive
  <2>2. arrived \in Nat
    BY <1>T DEF Types
  <2> QED BY <1>T, <1>M, <2>1, <2>2 DEF Fresh
<1>3. ASSUME NEW m \in Messages, HandleStream(m) PROVE Fresh'
  <2>1. /\ m = arrived + 1 /\ arrived' = m
        /\ stage'[m] # "none" /\ \A x \in Messages : x # m => /\ stage'[x] = stage[x]
                                                              /\ parts'[x] = parts[x]
    BY <1>T, <1>3 DEF Types, HandleStream, Arrive
  <2>2. arrived \in Nat
    BY <1>T DEF Types
  <2> QED BY <1>T, <1>M, <2>1, <2>2 DEF Fresh
<1>4. ASSUME NEW m \in Messages, OpenStream(m) \/ Notify(m) \/ WriteAck(m) PROVE Fresh'
  <2>1. /\ UNCHANGED <<arrived, parts>> /\ stage[m] # "none" /\ stage'[m] # "none"
        /\ \A x \in Messages : x # m => stage'[x] = stage[x]
    BY <1>T, <1>4 DEF Types, OpenStream, Notify, WriteAck
  <2> QED BY <1>T, <2>1 DEF Fresh
<1>5. CASE RunGather
  <2>1. PICK m \in Messages :
          /\ stage[m] = "spawned" /\ arrived' = arrived
          /\ stage' = [stage EXCEPT ![m] = "waiting"]
          /\ parts' = [parts EXCEPT ![m] = Registered]
    BY <1>5, GatherEffect
  <2> QED BY <1>T, <2>1 DEF Types, Fresh
<1> QED BY <1>1, <1>2, <1>3, <1>4, <1>5, NextCases DEF Still

LEMMA StepIterators == ReaderInv /\ [Next]_readerVars => Iterators'
<1> SUFFICES ASSUME ReaderInv, [Next]_readerVars PROVE Iterators'
  OBVIOUS
<1>T. Types /\ Iterators
  BY DEF ReaderInv
<1>1. ASSUME UNCHANGED <<kind, iq, it, iterClosed>>, closed => closed'
      PROVE  Iterators'
  BY <1>T, <1>1 DEF Iterators, Registered
<1>2. ASSUME NEW c \in Consumers, Register(c) PROVE Iterators'
  <2>1. /\ c \notin Registered /\ 1..(c - 1) \subseteq Registered
        /\ kind'[c] # "none" /\ \A d \in Consumers : d # c => kind'[d] = kind[d]
        /\ UNCHANGED <<iq, it, iterClosed, closed>>
    BY <1>T, <1>2, RegisterAsks DEF Types, Register, iterating
  <2>2. Registered' = Registered \cup {c}
    BY <2>1 DEF Registered
  <2>3. PICK n \in Nat : Registered = 1..n
    BY <1>T DEF Iterators
  <2>4. c \in Nat \ {0}
    BY DEF Consumers
  <2>5. Registered' = 1..c
    BY <2>1, <2>2, <2>3, <2>4
  <2> QED BY <1>T, <2>1, <2>4, <2>5 DEF Iterators
\* Whatever is queued goes behind the item in hand.
<1>3. ASSUME UNCHANGED <<kind, it>>, iterClosed' # {} => closed',
             \A c \in Consumers : iq[c] # <<>> => iq'[c] # <<>> /\ Head(iq'[c]) = Head(iq[c])
      PROVE  Iterators'
  BY <1>T, <1>3 DEF Iterators, Registered
<1>4. ASSUME NEW c \in Consumers, NEW x \in Messages,
             iq' \in {iq, [iq EXCEPT ![c] = Append(@, x)]}
      PROVE  \A d \in Consumers :
               iq[d] # <<>> => iq'[d] # <<>> /\ Head(iq'[d]) = Head(iq[d])
  <2>1. iq[c] \in Seq(Messages \cup {CloseMark})
    BY <1>T DEF Types
  <2>2. Append(iq[c], x) # <<>>
        /\ (iq[c] # <<>> => Head(Append(iq[c], x)) = Head(iq[c]))
    BY <2>1, AppendHas
  <2> QED BY <1>T, <1>4, <2>2 DEF Types
<1>5. CASE Close
  <2>1. ASSUME NEW c \in Consumers, iq[c] # <<>>
        PROVE  iq'[c] # <<>> /\ Head(iq'[c]) = Head(iq[c])
    <3>1. iq[c] \in Seq(Messages \cup {CloseMark}) /\ CloseMark \in Messages \cup {CloseMark}
      BY <1>T DEF Types
    <3>2. Append(iq[c], CloseMark) # <<>> /\ Head(Append(iq[c], CloseMark)) = Head(iq[c])
      BY <2>1, <3>1, AppendHas
    <3> QED BY <1>5, <2>1, <3>2 DEF Close
  <2> QED BY <1>3, <1>5, <2>1 DEF Close
<1>6. CASE RunPush
  <2>1. PICK m \in Messages, c \in Consumers : m = Head(ready)[2] /\ c = Head(ready)[3]
    BY <1>T, <1>6, TailTasks, TaskParts DEF Types, RunPush, RunPlainTask
  <2>2. Push(c, m) /\ UNCHANGED <<kind, it, iterClosed, closed>>
    BY <1>6, <2>1 DEF RunPush, RunPlainTask
  <2>3. iq' \in {iq, [iq EXCEPT ![c] = Append(@, m)]}
    BY <2>2 DEF Push
  <2> QED BY <1>T, <1>3, <1>4, <2>2, <2>3 DEF Iterators
<1>7. CASE RunStreamTask
  <2>1. PICK m \in Messages, c \in Consumers : m = Head(ready)[2] /\ c = Head(ready)[3]
    BY <1>T, <1>7, TailTasks, TaskParts DEF Types, RunStreamTask
  <2>2. iq' \in {iq, [iq EXCEPT ![c] = Append(@, m)]}
        /\ UNCHANGED <<kind, it, iterClosed, closed>>
    BY <1>7, <2>1 DEF RunStreamTask
  <2> QED BY <1>T, <1>3, <1>4, <2>2 DEF Iterators
<1>8. ASSUME NEW m \in Messages, NEW c \in Consumers, SubStep(c, m) PROVE Iterators'
  <2>1. iq' \in {iq, [iq EXCEPT ![c] = Append(@, m)]}
        /\ UNCHANGED <<kind, it, iterClosed, closed>>
    BY <1>8 DEF SubStep, HandleChunk, EndSub, LeaveSub, iterating
  <2> QED BY <1>T, <1>3, <1>4, <2>1 DEF Iterators
<1>9. ASSUME NEW c \in Consumers, Get(c) PROVE Iterators'
  <2>1. /\ iq[c] # <<>> /\ Head(iq[c]) # CloseMark /\ it' = [it EXCEPT ![c] = "hold"]
        /\ UNCHANGED <<kind, iq, iterClosed, closed>>
    BY <1>9 DEF Get
  <2>2. Head(iq[c]) \in Messages
    BY <1>T, <2>1 DEF Types
  <2>3. \A d \in Consumers : it'[d] = "hold" => d = c \/ it[d] = "hold"
    BY <1>T, <2>1 DEF Types
  <2> QED BY <1>T, <2>1, <2>2, <2>3 DEF Iterators, Registered
<1>10. ASSUME NEW c \in Consumers, GetClose(c) \/ Complete(c) \/ Quit(c) PROVE Iterators'
  <2>1. /\ UNCHANGED <<kind, iterClosed, closed>> /\ it'[c] # "hold"
        /\ \A d \in Consumers : d # c => it'[d] = it[d] /\ iq'[d] = iq[d]
    BY <1>T, <1>10 DEF Types, GetClose, Complete, Quit
  <2> QED BY <1>T, <2>1 DEF Iterators, Registered
<1>11. CASE RunGather
  BY <1>1, <1>11, GatherEffect
<1>12. ASSUME NEW m \in Messages,
              \/ HandleMsg(m) \/ HandleStream(m) \/ HandleStreamClosed(m) \/ OpenStream(m)
              \/ Drain(m) \/ Notify(m) \/ WriteAck(m)
       PROVE  Iterators'
  BY <1>1, <1>12 DEF HandleMsg, HandleStream, HandleStreamClosed, OpenStream, Drain, Notify,
                     WriteAck, iterating
<1>13. CASE UNCHANGED readerVars
  BY <1>1, <1>13 DEF readerVars, iterating
<1> QED
  BY <1>2, <1>5, <1>6, <1>7, <1>8, <1>9, <1>10, <1>11, <1>12, <1>13, NextCases

\* What is closed, failed, drained or handled stays so.
LEMMA Monotone ==
  ASSUME ReaderInv, [Next]_readerVars
  PROVE  /\ closed => closed'
         /\ failed \subseteq failed' /\ drained \subseteq drained'
         /\ \A c \in Consumers, m \in Messages :
              InSeq(m, handled[c]) => InSeq(m, handled'[c])
<1>T. Types /\ Iterators
  BY DEF ReaderInv
<1>1. ASSUME NEW c \in Consumers, Complete(c)
      PROVE  /\ UNCHANGED <<closed, failed, drained>>
             /\ \A d \in Consumers, m \in Messages :
                  InSeq(m, handled[d]) => InSeq(m, handled'[d])
  <2>1. Holding(c) \in Messages /\ handled[c] \in Seq(Messages)
    BY <1>T, <1>1 DEF Types, Iterators, Complete, Holding
  <2>2. \A m : InSeq(m, handled[c]) => InSeq(m, Append(handled[c], Holding(c)))
    BY <2>1, AppendHas
  <2>3. handled' = [handled EXCEPT ![c] = Append(@, Holding(c))]
    BY <1>1 DEF Complete
  <2>4. UNCHANGED <<closed, failed, drained>>
    BY <1>1 DEF Complete, streaming
  <2> QED BY <1>T, <2>2, <2>3, <2>4 DEF Types
<1>2. CASE UNCHANGED readerVars
  BY <1>2 DEF readerVars, handling, streaming, iterating
<1>3. CASE RunGather \/ RunPush
  <2>1. UNCHANGED <<closed, drained, handled>>
    BY <1>3 DEF RunGather, RunPush, RunPlainTask, streaming
  <2>2. CASE RunGather
    <3>1. failed' = failed
      BY <2>2 DEF RunGather, RunPlainTask, GatherPushes
    <3> QED BY <2>1, <3>1
  <2>3. CASE RunPush
    <3>1. failed \subseteq failed'
      BY <2>3 DEF RunPush, RunPlainTask, Push
    <3> QED BY <2>1, <3>1
  <2> QED BY <1>3, <2>2, <2>3
<1>4. CASE RunStreamTask \/ Close
  BY <1>4 DEF RunStreamTask, Close, handling, streaming
<1>5. ASSUME NEW m \in Messages,
             \/ HandleMsg(m) \/ HandleStream(m) \/ HandleStreamClosed(m) \/ OpenStream(m)
             \/ Drain(m) \/ Notify(m) \/ WriteAck(m)
      PROVE  /\ UNCHANGED <<closed, failed, handled>> /\ drained \subseteq drained'
  BY <1>5 DEF HandleMsg, HandleStream, HandleStreamClosed, OpenStream, Drain, Notify,
              WriteAck, handling, streaming, iterating
<1>6. ASSUME NEW m \in Messages, NEW c \in Consumers, SubStep(c, m)
      PROVE  UNCHANGED <<closed, failed, drained, handled>>
  BY <1>6 DEF SubStep, HandleChunk, EndSub, LeaveSub, handling, iterating
<1>7. ASSUME NEW c \in Consumers, Register(c) \/ Get(c) \/ GetClose(c) \/ Quit(c)
      PROVE  UNCHANGED <<closed, failed, drained, handled>>
  BY <1>7 DEF Register, Get, GetClose, Quit, handling, streaming, iterating
<1> QED BY <1>1, <1>2, <1>3, <1>4, <1>5, <1>6, <1>7, NextCases

LEMMA StepAcks == ReaderInv /\ [Next]_readerVars => Acks'
<1> SUFFICES ASSUME ReaderInv, [Next]_readerVars PROVE Acks'
  OBVIOUS
<1>T. Types /\ Fresh /\ Acks
  BY DEF ReaderInv
<1>R. \A i \in DOMAIN acked : acked[i] \in Messages /\ stage[acked[i]] = "acked"
  BY <1>T DEF Types, Acks
\* No step touches a message that was acked.
<1>1. ASSUME acked' = acked, \A x \in Messages : stage[x] = "acked" => stage'[x] = "acked"
      PROVE  Acks'
  BY <1>T, <1>R, <1>1 DEF Acks, AckedOnce
<1>2. ASSUME NEW m \in Messages,
             HandleMsg(m) \/ HandleStream(m) \/ HandleStreamClosed(m)
      PROVE  Acks'
  <2>1. /\ acked' = acked /\ m = arrived + 1
        /\ \A x \in Messages : x # m => stage'[x] = stage[x]
    BY <1>T, <1>2 DEF Types, HandleMsg, HandleStream, HandleStreamClosed, Arrive
  <2>2. stage[m] = "none"
    BY <1>T, <2>1 DEF Types, Fresh
  <2> QED BY <1>1, <2>1, <2>2
<1>3. ASSUME NEW m \in Messages, OpenStream(m) \/ Notify(m) PROVE Acks'
  <2>1. /\ acked' = acked /\ stage[m] # "acked"
        /\ \A x \in Messages : x # m => stage'[x] = stage[x]
    BY <1>T, <1>3 DEF Types, OpenStream, Notify
  <2> QED BY <1>1, <2>1
<1>4. CASE RunGather
  <2>1. PICK m \in Messages : /\ stage[m] = "spawned" /\ acked' = acked
                              /\ stage' = [stage EXCEPT ![m] = "waiting"]
    BY <1>4, GatherEffect
  <2> QED BY <1>T, <1>1, <2>1 DEF Types
<1>5. ASSUME NEW m \in Messages, WriteAck(m) PROVE Acks'
  <2>1. /\ stage[m] = "ack" /\ acked' = Append(acked, m) /\ acked \in Seq(Messages)
        /\ stage'[m] = "acked"
        /\ \A x \in Messages : x # m => stage'[x] = stage[x]
    BY <1>T, <1>5 DEF Types, WriteAck
  <2>2. \A i \in DOMAIN acked : acked[i] # m
    BY <1>R, <2>1
  <2>3. \A i \in DOMAIN acked' : \/ i \in DOMAIN acked /\ acked'[i] = acked[i]
                                 \/ i = Len(acked) + 1 /\ i \notin DOMAIN acked /\ acked'[i] = m
    BY <2>1, AppendHas
  <2>4. AckedOnce'
    BY <1>T, <2>2, <2>3 DEF Acks, AckedOnce
  <2>5. \A i \in DOMAIN acked' : stage'[acked'[i]] = "acked"
    BY <1>R, <2>1, <2>3
  <2> QED BY <2>4, <2>5 DEF Acks
<1>6. CASE Still
  BY <1>1, <1>6, StillFrame
<1> QED BY <1>2, <1>3, <1>4, <1>5, <1>6, NextCases DEF Still

LEMMA StepDeliveries == ReaderInv /\ [Next]_readerVars => Deliveries'
<1> SUFFICES ASSUME ReaderInv, [Next]_readerVars PROVE Deliveries'
  OBVIOUS
<1>T. Types /\ Iterators /\ Fresh /\ Deliveries
  BY DEF ReaderInv
<1>R. \A i \in DOMAIN ready : ready[i][1] \in {"gather", "push", "stream"}
                              /\ ready[i][2] \in Messages
  BY <1>T, TaskParts DEF Types
\* Messages that have a delivery waiting are not touched, but by the delivery.
<1>1. ASSUME ready' = ready, \A x \in Messages : stage[x] = "spawned" <=> stage'[x] = "spawned",
             \A x \in Messages : stage[x] # "none" => stage'[x] # "none" /\ type'[x] = type[x]
      PROVE  Deliveries'
  BY <1>T, <1>R, <1>1 DEF Deliveries
<1>2. ASSUME NEW m \in Messages, HandleStreamClosed(m) \/ (HandleMsg(m) /\ closed)
      PROVE  Deliveries'
  <2>1. /\ ready' = ready /\ m = arrived + 1 /\ stage'[m] \in {"draining", "ack"}
        /\ \A x \in Messages : x # m => stage'[x] = stage[x] /\ type'[x] = type[x]
    BY <1>T, <1>2 DEF Types, HandleMsg, HandleStreamClosed, Arrive
  <2>2. stage[m] = "none"
    BY <1>T, <2>1 DEF Types, Fresh
  <2> QED BY <1>1, <2>1, <2>2
<1>3. ASSUME NEW m \in Messages, OpenStream(m) \/ Notify(m) \/ WriteAck(m)
      PROVE  Deliveries'
  <2>1. /\ UNCHANGED <<ready, type>>
        /\ stage[m] \notin {"none", "spawned"} /\ stage'[m] \notin {"none", "spawned"}
        /\ \A x \in Messages : x # m => stage'[x] = stage[x]
    BY <1>T, <1>3 DEF Types, OpenStream, Notify, WriteAck
  <2> QED BY <1>1, <2>1
<1>4. ASSUME NEW m \in Messages, HandleMsg(m), ~closed PROVE Deliveries'
  <2>1. /\ ready' = Append(ready, <<"gather", m>>) /\ m = arrived + 1
        /\ stage'[m] = "spawned" /\ type'[m] = "plain"
        /\ \A x \in Messages : x # m => stage'[x] = stage[x] /\ type'[x] = type[x]
    BY <1>T, <1>4 DEF Types, HandleMsg, Arrive
  <2>2. stage[m] = "none"
    BY <1>T, <2>1 DEF Types, Fresh
  <2>3. <<"gather", m>> \in Tasks /\ ready \in Seq(Tasks)
    BY <1>T DEF Tasks, Types
  <2>4. \A i \in DOMAIN ready' :
          \/ i \in DOMAIN ready /\ ready'[i] = ready[i]
          \/ /\ i = Len(ready) + 1 /\ i \notin DOMAIN ready
             /\ ready'[i][1] = "gather" /\ ready'[i][2] = m
    BY <2>1, <2>3, AppendHas
  <2>5. \A i \in DOMAIN ready : ready[i][1] \in {"gather", "push"} => ready[i][2] # m
    BY <1>T, <2>2 DEF Deliveries
  <2>6. \A i \in DOMAIN ready' :
          /\ ready'[i][1] = "gather" => stage'[ready'[i][2]] = "spawned"
          /\ ready'[i][1] = "push" => /\ type'[ready'[i][2]] = "plain"
                                      /\ stage'[ready'[i][2]] # "none"
    <3> SUFFICES ASSUME NEW i \in DOMAIN ready'
                 PROVE  /\ ready'[i][1] = "gather" => stage'[ready'[i][2]] = "spawned"
                        /\ ready'[i][1] = "push" => /\ type'[ready'[i][2]] = "plain"
                                                    /\ stage'[ready'[i][2]] # "none"
      OBVIOUS
    <3>1. CASE ready'[i][1] = "gather" /\ ready'[i][2] = m
      BY <2>1, <3>1
    <3>2. CASE i \in DOMAIN ready /\ ready'[i] = ready[i]
               /\ ready[i][1] \in {"gather", "push"}
      <4>1. ready[i][2] \in Messages /\ ready[i][2] # m
        BY <1>R, <2>5, <3>2
      <4>2. /\ stage'[ready[i][2]] = stage[ready[i][2]]
            /\ type'[ready[i][2]] = type[ready[i][2]]
        BY <2>1, <4>1
      <4>3. /\ ready[i][1] = "gather" => stage[ready[i][2]] = "spawned"
            /\ ready[i][1] = "push" => /\ type[ready[i][2]] = "plain"
                                       /\ stage[ready[i][2]] # "none"
        BY <1>T, <3>2 DEF Deliveries
      <4> QED BY <3>2, <4>2, <4>3
    <3> QED BY <2>4, <3>1, <3>2
  <2>7. \A i, j \in DOMAIN ready' :
          i # j /\ ready'[i][1] = "gather" /\ ready'[j][1] = "gather" =>
            ready'[i][2] # ready'[j][2]
    BY <1>T, <2>4, <2>5 DEF Deliveries
  <2>8. \A x \in Messages : stage'[x] = "spawned" => type'[x] = "plain"
    BY <1>T, <2>1 DEF Deliveries
  <2> QED BY <2>6, <2>7, <2>8 DEF Deliveries
<1>5. ASSUME NEW m \in Messages, HandleStream(m) PROVE Deliveries'
  <2>1. /\ m = arrived + 1 /\ stage'[m] = "opening"
        /\ \A x \in Messages : x # m => stage'[x] = stage[x] /\ type'[x] = type[x]
    BY <1>T, <1>5 DEF Types, HandleStream, Arrive
  <2>2. stage[m] = "none"
    BY <1>T, <2>1 DEF Types, Fresh
  <2>3. ready' = ready \o TasksOf("stream", m)
    BY <1>5 DEF HandleStream, TasksOf
  <2>4. \A i \in DOMAIN ready' : \/ i \in DOMAIN ready /\ ready'[i] = ready[i]
                                 \/ ready'[i][1] = "stream"
    BY <1>T, <2>3, TasksForAll DEF Types
  <2>5. \A i \in DOMAIN ready : ready[i][1] \in {"gather", "push"} => ready[i][2] # m
    BY <1>T, <2>2 DEF Deliveries
  <2>6. \A i \in DOMAIN ready' :
          /\ ready'[i][1] = "gather" => stage'[ready'[i][2]] = "spawned"
          /\ ready'[i][1] = "push" => /\ type'[ready'[i][2]] = "plain"
                                      /\ stage'[ready'[i][2]] # "none"
    <3> SUFFICES ASSUME NEW i \in DOMAIN ready', i \in DOMAIN ready, ready'[i] = ready[i],
                        ready[i][1] \in {"gather", "push"}
                 PROVE  /\ ready'[i][1] = "gather" => stage'[ready'[i][2]] = "spawned"
                        /\ ready'[i][1] = "push" => /\ type'[ready'[i][2]] = "plain"
                                                    /\ stage'[ready'[i][2]] # "none"
      BY <2>4
    <3>1. ready[i][2] \in Messages /\ ready[i][2] # m
      BY <1>R, <2>5
    <3>2. /\ stage'[ready[i][2]] = stage[ready[i][2]]
          /\ type'[ready[i][2]] = type[ready[i][2]]
      BY <2>1, <3>1
    <3>3. /\ ready[i][1] = "gather" => stage[ready[i][2]] = "spawned"
          /\ ready[i][1] = "push" => /\ type[ready[i][2]] = "plain"
                                     /\ stage[ready[i][2]] # "none"
      BY <1>T DEF Deliveries
    <3> QED BY <3>2, <3>3
  <2>7. \A i, j \in DOMAIN ready' :
          i # j /\ ready'[i][1] = "gather" /\ ready'[j][1] = "gather" =>
            ready'[i][2] # ready'[j][2]
    BY <1>T, <2>4 DEF Deliveries
  <2>8. \A x \in Messages : stage'[x] = "spawned" => type'[x] = "plain"
    BY <1>T, <2>1 DEF Deliveries
  <2> QED BY <2>6, <2>7, <2>8 DEF Deliveries
\* The first delivery is taken off; what is left speaks of other messages.
<1>6. ASSUME ready # <<>>
      PROVE  /\ Tail(ready) \in Seq(Tasks)
             /\ \A i \in DOMAIN Tail(ready) :
                  i \in Nat /\ i > 0 /\ i + 1 \in DOMAIN ready /\ Tail(ready)[i] = ready[i + 1]
             /\ Head(ready) = ready[1] /\ 1 \in DOMAIN ready
  BY <1>T, <1>6, TailTasks DEF Types
<1>7. CASE RunGather
  <2>1. PICK m \in Messages :
          /\ stage[m] = "spawned" /\ m = Head(ready)[2]
          /\ ready # <<>> /\ Head(ready)[1] = "gather"
          /\ stage' = [stage EXCEPT ![m] = "waiting"]
          /\ ready' = Tail(ready) \o TasksOf("push", m) /\ type' = type
    BY <1>7, GatherEffect
  <2>2. \A i \in DOMAIN ready' :
          \/ /\ i \in DOMAIN Tail(ready) /\ ready'[i] = Tail(ready)[i]
          \/ ready'[i][1] = "push" /\ ready'[i][2] = m
    <3>1. Tail(ready) \in Seq(Tasks) /\ ready' = Tail(ready) \o TasksOf("push", m)
      BY <1>6, <2>1
    <3>2. ASSUME NEW s \in Seq(Tasks), NEW added, added = s \o TasksOf("push", m)
          PROVE  \A i \in DOMAIN added :
                   \/ i \in DOMAIN s /\ added[i] = s[i]
                   \/ added[i][1] = "push" /\ added[i][2] = m
      BY <1>T, <3>2, TasksForAll
    <3> QED BY <3>1, <3>2
  <2>3. \A i \in DOMAIN ready' :
          \/ /\ i \in Nat /\ i > 0 /\ i + 1 \in DOMAIN ready /\ ready'[i] = ready[i + 1]
             /\ (ready'[i][1] = "gather" => ready'[i][2] # m)
          \/ ready'[i][1] = "push" /\ ready'[i][2] = m
    <3> SUFFICES ASSUME NEW i \in DOMAIN ready', i \in DOMAIN Tail(ready),
                        ready'[i] = Tail(ready)[i], ready'[i][1] = "gather"
                 PROVE  ready'[i][2] # m
      BY <1>6, <2>1, <2>2
    <3>1. i + 1 \in DOMAIN ready /\ i + 1 # 1 /\ ready'[i] = ready[i + 1] /\ 1 \in DOMAIN ready
      BY <1>6, <2>1
    <3> QED BY <1>T, <1>6, <2>1, <3>1 DEF Deliveries
  <2>4. /\ stage'[m] = "waiting" /\ type[m] = "plain"
        /\ \A x \in Messages : x # m => stage'[x] = stage[x]
    BY <1>T, <2>1 DEF Types, Deliveries
  <2>5. \A i \in DOMAIN ready' :
          /\ ready'[i][1] = "gather" => stage'[ready'[i][2]] = "spawned"
          /\ ready'[i][1] = "push" => /\ type'[ready'[i][2]] = "plain"
                                      /\ stage'[ready'[i][2]] # "none"
    BY <1>T, <1>R, <2>1, <2>3, <2>4 DEF Deliveries
  <2>6. \A i, j \in DOMAIN ready' :
          i # j /\ ready'[i][1] = "gather" /\ ready'[j][1] = "gather" =>
            ready'[i][2] # ready'[j][2]
    <3> SUFFICES ASSUME NEW i \in DOMAIN ready', NEW j \in DOMAIN ready', i # j,
                        ready'[i][1] = "gather", ready'[j][1] = "gather"
                 PROVE  ready'[i][2] # ready'[j][2]
      OBVIOUS
    <3>1. /\ i + 1 \in DOMAIN ready /\ ready'[i] = ready[i + 1]
          /\ j + 1 \in DOMAIN ready /\ ready'[j] = ready[j + 1] /\ i + 1 # j + 1
      BY <2>3
    <3> QED BY <1>T, <3>1 DEF Deliveries
  <2>7. \A x \in Messages : stage'[x] = "spawned" => type'[x] = "plain"
    BY <1>T, <2>1, <2>4 DEF Deliveries
  <2> QED BY <2>5, <2>6, <2>7 DEF Deliveries
<1>8. CASE RunPush \/ RunStreamTask
  <2>1. ready # <<>> /\ ready' = Tail(ready) /\ UNCHANGED <<stage, type>>
    BY <1>8 DEF RunPush, RunPlainTask, GatherPushes, Push, RunStreamTask, handling
  <2>2. \A i, j \in DOMAIN ready' : i # j =>
          i + 1 # j + 1 /\ i + 1 \in DOMAIN ready /\ ready'[i] = ready[i + 1]
    BY <1>6, <2>1
  <2>3. \A i \in DOMAIN ready' : i + 1 \in DOMAIN ready /\ ready'[i] = ready[i + 1]
    BY <1>6, <2>1
  <2>4. \A i, j \in DOMAIN ready' :
          i # j /\ ready'[i][1] = "gather" /\ ready'[j][1] = "gather" =>
            ready'[i][2] # ready'[j][2]
    BY <1>T, <2>2, <2>3 DEF Deliveries
  <2> QED BY <1>T, <2>1, <2>3, <2>4 DEF Deliveries
<1>9. ASSUME UNCHANGED <<ready, stage, type>> PROVE Deliveries'
  BY <1>1, <1>9
<1>10. CASE Close \/ UNCHANGED readerVars
  BY <1>9, <1>10 DEF Close, readerVars, handling
<1>11. ASSUME NEW m \in Messages, Drain(m) \/ \E c \in Consumers : SubStep(c, m)
       PROVE  Deliveries'
  BY <1>9, <1>11 DEF Drain, SubStep, HandleChunk, EndSub, LeaveSub, handling
<1>12. ASSUME NEW c \in Consumers,
              Register(c) \/ Get(c) \/ GetClose(c) \/ Complete(c) \/ Quit(c)
       PROVE  Deliveries'
  BY <1>9, <1>12 DEF Register, Get, GetClose, Complete, Quit, handling
<1> QED
  BY <1>2, <1>3, <1>4, <1>5, <1>7, <1>8, <1>10, <1>11, <1>12, NextCases

LEMMA StepFutures == ReaderInv /\ [Next]_readerVars => Futures'
<1> SUFFICES ASSUME ReaderInv, [Next]_readerVars PROVE Futures'
  OBVIOUS
<1>T. Types /\ Iterators /\ Fresh /\ Deliveries /\ Futures
  BY DEF ReaderInv
<1>H. /\ closed => closed'
      /\ \A c \in Consumers, m \in Messages :
           InSeq(m, handled[c]) => InSeq(m, handled'[c])
  BY Monotone
<1>P. \A m \in Messages : parts[m] \subseteq Consumers
  BY <1>T DEF Types
\* No future is resolved, and the messages that have any keep their consumers.
<1>1. ASSUME NEW m \in Messages, parts'[m] \ waitFor'[m] = {},
             \A x \in Messages : x # m =>
               parts'[x] = parts[x] /\ waitFor'[x] = waitFor[x] /\ type'[x] = type[x]
      PROVE  Futures'
  BY <1>T, <1>H, <1>P, <1>1 DEF Futures
<1>2. ASSUME NEW m \in Messages,
             HandleMsg(m) \/ HandleStream(m) \/ HandleStreamClosed(m)
      PROVE  Futures'
  <2>1. /\ m = arrived + 1 /\ parts'[m] \in {parts[m], waitFor'[m]}
        /\ \A x \in Messages : x # m =>
             parts'[x] = parts[x] /\ waitFor'[x] = waitFor[x] /\ type'[x] = type[x]
    BY <1>T, <1>2 DEF Types, HandleMsg, HandleStream, HandleStreamClosed, Arrive
  <2>2. parts[m] = {}
    <3>1. m \in Nat /\ arrived \in Nat
      BY <1>T DEF Types, Messages
    <3>2. m > arrived
      BY <2>1, <3>1
    <3>3. stage[m] = "none"
      BY <1>T, <3>2 DEF Fresh
    <3> QED BY <1>T, <3>2, <3>3 DEF Types, Fresh
  <2> QED BY <1>1, <2>1, <2>2
<1>3. CASE RunGather
  <2>1. PICK m \in Messages :
          /\ parts' = [parts EXCEPT ![m] = Registered]
          /\ waitFor' = [waitFor EXCEPT ![m] = Registered] /\ type' = type
    BY <1>3, GatherEffect
  <2> QED BY <1>T, <1>1, <2>1 DEF Types
\* One future is resolved: that of the consumer that asks for the next item, or of
\* one whose iterator was closed before the push.
<1>4. ASSUME NEW m \in Messages, NEW c \in Consumers, UNCHANGED <<parts, type>>,
             waitFor' \in {waitFor, [waitFor EXCEPT ![m] = @ \ {c}]},
             waitFor' = waitFor \/ InSeq(m, handled'[c]) \/ (closed' /\ type[m] = "plain")
      PROVE  Futures'
  <2> SUFFICES ASSUME NEW x \in Messages, NEW d \in parts[x], d \notin waitFor'[x]
               PROVE  InSeq(x, handled'[d]) \/ (closed' /\ type[x] = "plain")
    BY <1>4 DEF Futures
  <2>1. CASE d \notin waitFor[x]
    BY <1>T, <1>H, <1>P, <2>1 DEF Futures
  <2>2. CASE d \in waitFor[x]
    <3>1. x = m /\ d = c /\ waitFor' # waitFor
      BY <1>T, <1>4, <2>2 DEF Types
    <3> QED BY <1>4, <3>1
  <2> QED BY <2>1, <2>2
<1>5. ASSUME NEW c \in Consumers, Complete(c) PROVE Futures'
  <2>1. /\ Holding(c) \in Messages /\ handled[c] \in Seq(Messages)
        /\ UNCHANGED <<parts, type>>
        /\ waitFor' = [waitFor EXCEPT ![Holding(c)] = @ \ {c}]
        /\ handled' = [handled EXCEPT ![c] = Append(@, Holding(c))]
    BY <1>T, <1>5 DEF Types, Iterators, Complete, Holding
  <2>2. InSeq(Holding(c), Append(handled[c], Holding(c)))
    BY <2>1, AppendHas
  <2>3. InSeq(Holding(c), handled'[c])
    BY <1>T, <2>1, <2>2 DEF Types
  <2> QED BY <1>4, <2>1, <2>3
<1>6. CASE RunPush
  <2>1. PICK m \in Messages, c \in Consumers : m = Head(ready)[2] /\ c = Head(ready)[3]
    BY <1>T, <1>6, TailTasks, TaskParts DEF Types, RunPush, RunPlainTask
  <2>2. Push(c, m) /\ UNCHANGED <<type, closed>> /\ ready # <<>> /\ Head(ready)[1] = "push"
    BY <1>6, <2>1 DEF RunPush, RunPlainTask
  <2>3. type[m] = "plain"
    BY <1>T, <2>1, <2>2, TailTasks DEF Types, Deliveries
  <2>4. /\ waitFor' = waitFor \/ c \in iterClosed
        /\ waitFor' \in {waitFor, [waitFor EXCEPT ![m] = @ \ {c}]} /\ parts' = parts
    BY <2>2 DEF Push
  <2>5. c \in iterClosed => closed'
    BY <1>T, <2>2 DEF Iterators
  <2> QED BY <1>4, <2>2, <2>3, <2>4, <2>5
<1>7. ASSUME UNCHANGED <<parts, waitFor, type>> PROVE Futures'
  BY <1>T, <1>H, <1>P, <1>7 DEF Futures
<1>8. CASE RunStreamTask \/ Close \/ UNCHANGED readerVars
  BY <1>7, <1>8 DEF RunStreamTask, Close, readerVars, handling
<1>9. ASSUME NEW m \in Messages,
             OpenStream(m) \/ Notify(m) \/ WriteAck(m) \/ Drain(m)
      PROVE  Futures'
  BY <1>7, <1>9 DEF OpenStream, Notify, WriteAck, Drain, handling
<1>10. ASSUME NEW m \in Messages, NEW c \in Consumers, SubStep(c, m) PROVE Futures'
  BY <1>7, <1>10 DEF SubStep, HandleChunk, EndSub, LeaveSub, handling
<1>11. ASSUME NEW c \in Consumers, Register(c) \/ Get(c) \/ GetClose(c) \/ Quit(c)
       PROVE  Futures'
  BY <1>7, <1>11 DEF Register, Get, GetClose, Quit, handling
<1> QED
  BY <1>2, <1>3, <1>5, <1>6, <1>8, <1>9, <1>10, <1>11, NextCases

LEMMA StepSettled == ReaderInv /\ [Next]_readerVars => Settled'
<1> SUFFICES ASSUME ReaderInv, [Next]_readerVars PROVE Settled'
  OBVIOUS
<1>T. Types /\ Fresh /\ Deliveries /\ Futures /\ Settled
  BY DEF ReaderInv
<1>H. /\ closed => closed'
      /\ failed \subseteq failed' /\ drained \subseteq drained'
      /\ \A c \in Consumers, m \in Messages :
           InSeq(m, handled[c]) => InSeq(m, handled'[c])
  BY Monotone
<1>P. \A m \in Messages : parts[m] \subseteq Consumers
  BY <1>T DEF Types
<1> DEFINE Due(m) ==
      /\ stage[m] = "draining" => closed
      /\ stage[m] \in {"ack", "acked"} =>
           /\ closed \/ m \in failed \/ AllHandled(m)
           /\ type[m] = "stream" => m \in drained \/ (parts[m] # {} /\ AllHandled(m))
\* What is due stays due.
<1>1. ASSUME NEW x \in Messages, parts'[x] = parts[x], type'[x] = type[x],
             \/ stage'[x] = stage[x] \/ (stage[x] = "ack" /\ stage'[x] = "acked")
      PROVE  Due(x)'
  <2>1. AllHandled(x) => AllHandled(x)'
    BY <1>H, <1>P, <1>1 DEF AllHandled
  <2>2. Due(x)
    BY <1>T DEF Settled
  <2> QED BY <1>H, <1>1, <2>1, <2>2
<1>2. ASSUME NEW m \in Messages, Due(m)',
             \A x \in Messages : x # m =>
               stage'[x] = stage[x] /\ parts'[x] = parts[x] /\ type'[x] = type[x]
      PROVE  Settled'
  BY <1>1, <1>2 DEF Settled
<1>3. ASSUME NEW m \in Messages, HandleMsg(m) PROVE Settled'
  <2>1. /\ closed' = closed /\ type'[m] = "plain"
        /\ stage'[m] = IF closed THEN "ack" ELSE "spawned"
        /\ \A x \in Messages : x # m =>
             stage'[x] = stage[x] /\ parts'[x] = parts[x] /\ type'[x] = type[x]
    BY <1>T, <1>3 DEF Types, HandleMsg, Arrive
  <2>2. Due(m)'
    BY <2>1
  <2> QED BY <1>2, <2>1, <2>2
<1>4. ASSUME NEW m \in Messages, HandleStreamClosed(m) \/ HandleStream(m)
      PROVE  Settled'
  <2>1. /\ (stage'[m] = "draining" /\ closed') \/ stage'[m] = "opening"
        /\ \A x \in Messages : x # m =>
             stage'[x] = stage[x] /\ parts'[x] = parts[x] /\ type'[x] = type[x]
    BY <1>T, <1>4 DEF Types, HandleStreamClosed, HandleStream, Arrive
  <2>2. Due(m)'
    BY <2>1
  <2> QED BY <1>2, <2>1, <2>2
<1>5. ASSUME NEW m \in Messages, OpenStream(m) PROVE Settled'
  <2>1. /\ stage'[m] = "waiting" /\ UNCHANGED <<parts, type>>
        /\ \A x \in Messages : x # m => stage'[x] = stage[x]
    BY <1>T, <1>5 DEF Types, OpenStream
  <2>2. Due(m)'
    BY <2>1
  <2> QED BY <1>2, <2>1, <2>2
\* The ack becomes due.
<1>6. ASSUME NEW m \in Messages, Notify(m) PROVE Settled'
  <2>1. /\ stage'[m] = "ack" /\ UNCHANGED <<parts, type, closed, failed, drained, handled>>
        /\ \A x \in Messages : x # m => stage'[x] = stage[x]
    BY <1>T, <1>6 DEF Types, Notify, streaming, iterating
  <2>2. waitFor[m] = {} => (closed /\ type[m] = "plain") \/ AllHandled(m)
    BY <1>T DEF Futures, AllHandled
  <2>3. CASE stage[m] = "draining"
    <3>1. closed /\ m \in drained
      BY <1>T, <1>6, <2>3 DEF Notify, Settled
    <3> QED BY <1>2, <2>1, <3>1
  <2>4. CASE PlainSettled(m)
    <3>1. Due(m)'
      BY <2>1, <2>2, <2>4 DEF PlainSettled, AllHandled
    <3> QED BY <1>2, <2>1, <3>1
  <2>5. CASE StreamSettled(m)
    <3>1. \/ parts[m] # {} /\ AllHandled(m)
          \/ m \in drained /\ (closed \/ AllHandled(m))
      BY <2>2, <2>5 DEF StreamSettled, AllHandled
    <3>2. Due(m)'
      BY <2>1, <3>1 DEF AllHandled
    <3> QED BY <1>2, <2>1, <3>2
  <2> QED BY <1>6, <2>3, <2>4, <2>5 DEF Notify
<1>7. ASSUME NEW m \in Messages, WriteAck(m) PROVE Settled'
  <2>1. /\ stage[m] = "ack" /\ stage'[m] = "acked" /\ UNCHANGED <<parts, type>>
        /\ \A x \in Messages : x # m => stage'[x] = stage[x]
    BY <1>T, <1>7 DEF Types, WriteAck
  <2> QED BY <1>1, <2>1 DEF Settled
<1>8. CASE RunGather
  <2>1. PICK m \in Messages :
          /\ stage' = [stage EXCEPT ![m] = "waiting"] /\ type' = type
          /\ parts' = [parts EXCEPT ![m] = Registered]
    BY <1>8, GatherEffect
  <2>2. /\ stage'[m] = "waiting"
        /\ \A x \in Messages : x # m => stage'[x] = stage[x] /\ parts'[x] = parts[x]
    BY <1>T, <2>1 DEF Types
  <2>3. Due(m)'
    BY <2>2
  <2> QED BY <1>2, <2>1, <2>2, <2>3
<1>9. CASE Still
  BY <1>1, <1>9, StillFrame DEF Settled
<1> QED
  BY <1>3, <1>4, <1>5, <1>6, <1>7, <1>8, <1>9, NextCases DEF Still
-----------------------------------------------------------------------------
(* The theorems *)

LEMMA Invariance == Spec => []ReaderInv
<1>1. ReaderInv /\ [Next]_readerVars => ReaderInv'
  BY StepTypes, StepIterators, StepFresh, StepDeliveries, StepFutures, StepSettled, StepAcks
     DEF ReaderInv
<1> QED BY InitReaderInv, <1>1, PTL DEF Spec

\* reader.py:118-156, 251-278: a message is acked once and, while the reader is
\* open, when every consumer it was for asked for the next item or its push raised.
THEOREM AcksMeanHandled == Spec => []AckMeansHandled
<1>1. ReaderInv => AckMeansHandled
  BY DEF ReaderInv, Settled, Acks, AckMeansHandled, AllHandled, IsAcked
<1> QED BY Invariance, <1>1, PTL

\* reader.py:251-278: the ack of a stream message follows those of its chunks, or
\* the consumers were all done with it.
THEOREM AcksFollowChunks == Spec => []ChunksBeforeAck
<1>1. ReaderInv => ChunksBeforeAck
  BY DEF ReaderInv, Settled, ChunksBeforeAck, AllHandled, IsAcked
<1> QED BY Invariance, <1>1, PTL
-----------------------------------------------------------------------------
(* Sequences whose members from a set P ascend *)

Ascending(s, P) ==
  \A i, j \in DOMAIN s : i < j /\ s[i] \in P /\ s[j] \in P => s[i] < s[j]

Below(s, x, P) == \A y : InSeq(y, s) /\ y \in P => y < x

\* What a consumer is done with (h) and what is queued for it (q): in order, each
\* queued once, and nothing of P behind the end of the iteration.
InOrder(h, q, P) ==
  /\ Ascending(h, P) /\ Ascending(q, P)
  /\ \A y : InSeq(y, q) /\ y \in P => Below(h, y, P)
  /\ \A i, j \in DOMAIN q : q[i] = q[j] => i = j
  /\ \A i, j \in DOMAIN q : i < j /\ q[i] = CloseMark => q[j] \notin P

LEMMA AppendAt ==
  ASSUME NEW s \in Seq(Nat), NEW x \in Nat
  PROVE  /\ DOMAIN s = 1..Len(s) /\ Len(s) \in Nat
         /\ DOMAIN Append(s, x) = 1..(Len(s) + 1)
         /\ Append(s, x)[Len(s) + 1] = x
         /\ \A i \in 1..Len(s) : Append(s, x)[i] = s[i]
         /\ \A i \in DOMAIN s : s[i] \in Nat /\ InSeq(s[i], s)
         /\ \A y : InSeq(y, Append(s, x)) <=> InSeq(y, s) \/ y = x
<1>1. /\ DOMAIN s = 1..Len(s) /\ Len(s) \in Nat
      /\ DOMAIN Append(s, x) = 1..(Len(s) + 1)
      /\ Append(s, x)[Len(s) + 1] = x
      /\ \A i \in 1..Len(s) : Append(s, x)[i] = s[i]
      /\ \A i \in DOMAIN s : s[i] \in Nat
  OBVIOUS
<1>2. \A i \in DOMAIN s : InSeq(s[i], s)
  BY DEF InSeq
<1>3. \A y : InSeq(y, Append(s, x)) <=> InSeq(y, s) \/ y = x
  BY <1>1 DEF InSeq
<1> QED BY <1>1, <1>2, <1>3

LEMMA TailAt ==
  ASSUME NEW s \in Seq(Nat), s # <<>>
  PROVE  /\ DOMAIN s = 1..Len(s) /\ Len(s) \in Nat /\ 1 \in DOMAIN s
         /\ Head(s) = s[1] /\ InSeq(Head(s), s) /\ Head(s) \in Nat
         /\ Tail(s) \in Seq(Nat)
         /\ \A i \in DOMAIN Tail(s) :
              i \in Nat /\ i > 0 /\ i + 1 \in DOMAIN s /\ Tail(s)[i] = s[i + 1]
         /\ \A y : InSeq(y, Tail(s)) => InSeq(y, s)
         /\ \A y : InSeq(y, s) => y = Head(s) \/ InSeq(y, Tail(s))
<1>1. /\ DOMAIN s = 1..Len(s) /\ Len(s) \in Nat /\ 1 \in DOMAIN s
      /\ Head(s) = s[1] /\ Head(s) \in Nat /\ Tail(s) \in Seq(Nat)
      /\ \A i \in DOMAIN Tail(s) :
           i \in Nat /\ i > 0 /\ i + 1 \in DOMAIN s /\ Tail(s)[i] = s[i + 1]
      /\ \A i \in DOMAIN s : i # 1 => i - 1 \in DOMAIN Tail(s) /\ Tail(s)[i - 1] = s[i]
  OBVIOUS
<1>2. InSeq(Head(s), s) /\ \A y : InSeq(y, Tail(s)) => InSeq(y, s)
  BY <1>1 DEF InSeq
<1>3. \A y : InSeq(y, s) => y = Head(s) \/ InSeq(y, Tail(s))
  BY <1>1 DEF InSeq
<1> QED BY <1>1, <1>2, <1>3

\* What is above all the members of P may be appended.
LEMMA AscendingAppend ==
  ASSUME NEW s \in Seq(Nat), NEW x \in Nat, NEW P, Ascending(s, P),
         x \in P => Below(s, x, P)
  PROVE  Ascending(Append(s, x), P)
<1> DEFINE t == Append(s, x)
<1> SUFFICES ASSUME NEW i \in DOMAIN t, NEW j \in DOMAIN t, i < j, t[i] \in P, t[j] \in P
             PROVE  t[i] < t[j]
  BY DEF Ascending
<1>1. i \in DOMAIN s /\ t[i] = s[i] /\ InSeq(s[i], s)
  BY AppendAt
<1>2. CASE j \in DOMAIN s
  BY <1>1, <1>2, AppendAt DEF Ascending
<1>3. CASE j \notin DOMAIN s
  <2>1. t[j] = x
    BY <1>3, AppendAt
  <2> QED BY <1>1, <2>1 DEF Below
<1> QED BY <1>2, <1>3

LEMMA AscendingTail ==
  ASSUME NEW s \in Seq(Nat), s # <<>>, NEW P, Ascending(s, P)
  PROVE  /\ Ascending(Tail(s), P)
         /\ Head(s) \in P => \A y : InSeq(y, Tail(s)) /\ y \in P => Head(s) < y
<1>1. \A i \in DOMAIN Tail(s) :
        i \in Nat /\ i > 0 /\ i + 1 \in DOMAIN s /\ Tail(s)[i] = s[i + 1]
  BY TailAt
<1>2. Ascending(Tail(s), P)
  <2> SUFFICES ASSUME NEW i \in DOMAIN Tail(s), NEW j \in DOMAIN Tail(s), i < j,
                      Tail(s)[i] \in P, Tail(s)[j] \in P
               PROVE  Tail(s)[i] < Tail(s)[j]
    BY DEF Ascending
  <2>1. i + 1 < j + 1 /\ i + 1 \in DOMAIN s /\ j + 1 \in DOMAIN s
    BY <1>1
  <2> QED BY <1>1, <2>1 DEF Ascending
<1>3. ASSUME Head(s) \in P, NEW j \in DOMAIN Tail(s), Tail(s)[j] \in P
      PROVE  Head(s) < Tail(s)[j]
  <2>1. 1 \in DOMAIN s /\ j + 1 \in DOMAIN s /\ 1 < j + 1 /\ Head(s) = s[1]
    BY <1>1, TailAt
  <2> QED BY <1>1, <1>3, <2>1 DEF Ascending
<1> QED BY <1>2, <1>3 DEF InSeq

LEMMA InOrderAppend ==
  ASSUME NEW h \in Seq(Nat), NEW q \in Seq(Nat), NEW x \in Nat, NEW P, InOrder(h, q, P),
         ~InSeq(x, q),
         x \in P => Below(h, x, P) /\ Below(q, x, P) /\ ~InSeq(CloseMark, q)
  PROVE  InOrder(h, Append(q, x), P)
<1> DEFINE t == Append(q, x)
<1>1. Ascending(h, P) /\ Ascending(t, P)
  BY AscendingAppend DEF InOrder
<1>2. ASSUME NEW y, InSeq(y, t), y \in P PROVE Below(h, y, P)
  BY <1>2, AppendAt DEF InOrder
<1>3. ASSUME NEW i \in DOMAIN t, NEW j \in DOMAIN t, t[i] = t[j] PROVE i = j
  <2>1. CASE i \in DOMAIN q /\ j \in DOMAIN q
    BY <1>3, <2>1, AppendAt DEF InOrder
  <2>2. CASE i \notin DOMAIN q /\ j \notin DOMAIN q
    BY <2>2, AppendAt
  <2>3. CASE i \in DOMAIN q /\ j \notin DOMAIN q
    BY <1>3, <2>3, AppendAt
  <2>4. CASE i \notin DOMAIN q /\ j \in DOMAIN q
    BY <1>3, <2>4, AppendAt
  <2> QED BY <2>1, <2>2, <2>3, <2>4
<1>4. ASSUME NEW i \in DOMAIN t, NEW j \in DOMAIN t, i < j, t[i] = CloseMark
      PROVE  t[j] \notin P
  <2>1. i \in DOMAIN q /\ t[i] = q[i] /\ InSeq(CloseMark, q)
    BY <1>4, AppendAt
  <2>2. CASE j \in DOMAIN q
    BY <1>4, <2>1, <2>2, AppendAt DEF InOrder
  <2>3. CASE j \notin DOMAIN q
    BY <2>1, <2>3, AppendAt
  <2> QED BY <2>2, <2>3
<1> QED BY <1>1, <1>2, <1>3, <1>4 DEF InOrder

\* The first item leaves the queue, done or, as the end of the iteration, not.
LEMMA InOrderTail ==
  ASSUME NEW h \in Seq(Nat), NEW q \in Seq(Nat), q # <<>>, NEW P, InOrder(h, q, P)
  PROVE  /\ InOrder(h, Tail(q), P) /\ InOrder(Append(h, Head(q)), Tail(q), P)
         /\ ~InSeq(Head(q), Tail(q))
<1>1. /\ \A i \in DOMAIN Tail(q) :
           i \in Nat /\ i > 0 /\ i + 1 \in DOMAIN q /\ Tail(q)[i] = q[i + 1]
      /\ \A y : InSeq(y, Tail(q)) => InSeq(y, q)
      /\ Head(q) = q[1] /\ 1 \in DOMAIN q /\ Head(q) \in Nat /\ InSeq(Head(q), q)
  BY TailAt
<1>2. /\ Ascending(Tail(q), P)
      /\ Head(q) \in P => \A y : InSeq(y, Tail(q)) /\ y \in P => Head(q) < y
  BY AscendingTail DEF InOrder
<1>3. ASSUME NEW i \in DOMAIN Tail(q), NEW j \in DOMAIN Tail(q)
      PROVE  /\ Tail(q)[i] = Tail(q)[j] => i = j
             /\ i < j /\ Tail(q)[i] = CloseMark => Tail(q)[j] \notin P
  <2>1. /\ i + 1 \in DOMAIN q /\ j + 1 \in DOMAIN q /\ i \in Nat /\ j \in Nat
        /\ Tail(q)[i] = q[i + 1] /\ Tail(q)[j] = q[j + 1]
    BY <1>1
  <2>2. q[i + 1] = q[j + 1] => i + 1 = j + 1
    BY <2>1 DEF InOrder
  <2>3. i + 1 < j + 1 /\ q[i + 1] = CloseMark => q[j + 1] \notin P
    BY <2>1 DEF InOrder
  <2> QED BY <2>1, <2>2, <2>3
<1>4. InOrder(h, Tail(q), P)
  BY <1>1, <1>2, <1>3 DEF InOrder
<1>5. Ascending(Append(h, Head(q)), P)
  BY <1>1, AscendingAppend DEF InOrder
<1>6. ASSUME NEW y, InSeq(y, Tail(q)), y \in P PROVE Below(Append(h, Head(q)), y, P)
  <2>1. Below(h, y, P)
    BY <1>1, <1>6 DEF InOrder
  <2> QED BY <1>1, <1>2, <1>6, <2>1, AppendAt DEF Below
<1>7. ~InSeq(Head(q), Tail(q))
  <2> SUFFICES ASSUME NEW i \in DOMAIN Tail(q), Tail(q)[i] = Head(q) PROVE FALSE
    BY DEF InSeq
  <2>1. i + 1 \in DOMAIN q /\ q[i + 1] = q[1] /\ i + 1 # 1
    BY <1>1
  <2> QED BY <1>1, <2>1 DEF InOrder
<1> QED BY <1>2, <1>3, <1>4, <1>5, <1>6, <1>7 DEF InOrder

LEMMA InOrderSame ==
  ASSUME NEW h, NEW q, NEW P, NEW Q, InOrder(h, q, P),
         \A y : InSeq(y, h) \/ InSeq(y, q) => (y \in P <=> y \in Q)
  PROVE  InOrder(h, q, Q)
<1>1. /\ \A i \in DOMAIN h : InSeq(h[i], h)
      /\ \A i \in DOMAIN q : InSeq(q[i], q)
  BY DEF InSeq
<1>2. Ascending(h, Q) /\ Ascending(q, Q)
  BY <1>1 DEF InOrder, Ascending
<1> QED BY <1>1, <1>2 DEF InOrder, Below
-----------------------------------------------------------------------------
(* The order of the plain messages: the inductive invariant, in parts. *)

Plain == {m \in Messages : type[m] = "plain"}

\* The variables that the acks do not depend on.
OtherTypes ==
  /\ arrived <= MaxMessages /\ busy \in 0..MaxMessages /\ bad \subseteq Messages
  /\ sub \in [Consumers -> [Messages -> SubStates]]
  /\ iterClosed \subseteq Registered

\* What has no type did not arrive, and only streams are fanned out.
Arrivals ==
  \A m \in Messages : /\ m > arrived => type[m] = "none"
                      /\ \A c \in Consumers : sub[c][m] # "none" => type[m] = "stream"

\* The messages of consumer c are in order; it has the end mark once its iterator
\* is closed, and a stream it collects to a string when that is over.
Line(c) ==
  /\ InOrder(handled[c], iq[c], Plain)
  /\ \A x : InSeq(x, iq[c]) \/ InSeq(x, handled[c]) => x <= arrived
  /\ InSeq(CloseMark, iq[c]) => c \in iterClosed
  /\ \A m \in Messages :
       InSeq(m, iq[c]) /\ type[m] = "stream" /\ kind[c] = "string" => sub[c][m] = "ended"
  /\ c \notin Registered => iq[c] = <<>>

\* What is still to be delivered to c comes behind what was: a plain message
\* behind all that are queued, a stream that is not queued yet.
Ahead(c, t) ==
  /\ t[1] = "gather" \/ (t[1] = "push" /\ t[3] = c) =>
       Below(handled[c], t[2], Plain) /\ Below(iq[c], t[2], Plain)
  /\ t[1] = "stream" /\ t[3] = c => sub[c][t[2]] = "new" /\ ~InSeq(t[2], iq[c])
  /\ t[1] # "gather" /\ t[3] = c => c \in Registered

Undelivered == \A c \in Consumers : \A i \in DOMAIN ready : Ahead(c, ready[i])

\* A task that waits behind another one delivers a later message, and a message
\* that was divided among the consumers is before all that were not.
Behind(t, u) ==
  /\ t[1] = "gather" /\ u[1] = "gather" => t[2] < u[2]
  /\ t[1] = "push" /\ u[1] = "push" /\ t[3] = u[3] => t[2] < u[2]
  /\ t[1] = "stream" /\ u[1] = "stream" /\ t[3] = u[3] => t[2] # u[2]

Waiting ==
  /\ \A i, j \in DOMAIN ready : i < j => Behind(ready[i], ready[j])
  /\ \A i, j \in DOMAIN ready :
       ready[i][1] = "push" /\ ready[j][1] = "gather" => ready[i][2] < ready[j][2]

OrderInv ==
  /\ ReaderInv /\ OtherTypes /\ Arrivals /\ Undelivered /\ Waiting
  /\ \A c \in Consumers : Line(c)

LEMMA InitOrderInv == Init => OrderInv
<1> SUFFICES ASSUME Init PROVE OrderInv
  OBVIOUS
<1>1. ReaderInv
  BY InitReaderInv
<1>2. OtherTypes
  <2>1. sub \in [Consumers -> [Messages -> SubStates]]
    BY DEF Init, SubStates
  <2>2. 0 <= MaxMessages /\ 0 \in 0..MaxMessages
    BY ReaderAssumption DEF ReaderAssumption
  <2> QED BY <2>1, <2>2 DEF Init, OtherTypes
<1>3. Arrivals /\ Undelivered /\ Waiting
  BY DEF Init, Arrivals, Undelivered, Waiting
<1>4. ASSUME NEW c \in Consumers PROVE Line(c)
  <2>1. iq[c] = <<>> /\ handled[c] = <<>>
    BY DEF Init
  <2>2. \A x : ~InSeq(x, <<>>)
    BY DEF InSeq
  <2>3. InOrder(<<>>, <<>>, Plain)
    BY <2>2 DEF InOrder, Ascending
  <2> QED BY <2>1, <2>2, <2>3 DEF Line
<1> QED BY <1>1, <1>2, <1>3, <1>4 DEF OrderInv

\* Numbers and the parts of the invariant, as the lemmas use them.
LEMMA OrderFacts ==
  ASSUME OrderInv
  PROVE  /\ Types /\ Iterators /\ Fresh /\ Deliveries /\ arrived \in Nat
         /\ Messages \subseteq Nat /\ \A m \in Messages : m # CloseMark
         /\ \A c \in Consumers :
              /\ iq[c] \in Seq(Nat) /\ handled[c] \in Seq(Nat)
              /\ \A x : InSeq(x, iq[c]) => x \in Messages \cup {CloseMark}
              /\ \A x : InSeq(x, handled[c]) => x \in Messages
         /\ \A i \in DOMAIN ready :
              /\ ready[i] \in Tasks /\ ready[i][2] \in Messages
              /\ ready[i][1] \in {"gather", "push", "stream"}
              /\ ready[i][1] # "gather" => ready[i][3] \in Consumers
<1>1. /\ Types /\ Iterators /\ Fresh /\ Deliveries /\ arrived \in Nat
      /\ Messages \subseteq Nat /\ \A m \in Messages : m # CloseMark
  BY DEF OrderInv, ReaderInv, Types, Messages, CloseMark
<1>2. ASSUME NEW c \in Consumers
      PROVE  /\ iq[c] \in Seq(Nat) /\ handled[c] \in Seq(Nat)
             /\ \A x : InSeq(x, iq[c]) => x \in Messages \cup {CloseMark}
             /\ \A x : InSeq(x, handled[c]) => x \in Messages
  <2>1. iq[c] \in Seq(Messages \cup {CloseMark}) /\ handled[c] \in Seq(Messages)
    BY <1>1 DEF Types
  <2>2. \A i \in DOMAIN iq[c] : iq[c][i] \in Messages \cup {CloseMark}
    BY <2>1
  <2>3. \A i \in DOMAIN handled[c] : handled[c][i] \in Messages
    BY <2>1
  <2>4. Messages \cup {CloseMark} \subseteq Nat
    BY <1>1 DEF CloseMark
  <2>5. iq[c] \in Seq(Nat) /\ handled[c] \in Seq(Nat)
    BY <1>1, <2>1, <2>4, SeqMonotonic
  <2> QED BY <2>2, <2>3, <2>5 DEF InSeq
<1>3. ASSUME NEW i \in DOMAIN ready
      PROVE  /\ ready[i] \in Tasks /\ ready[i][2] \in Messages
             /\ ready[i][1] \in {"gather", "push", "stream"}
             /\ ready[i][1] # "gather" => ready[i][3] \in Consumers
  <2>1. ready[i] \in Tasks
    BY <1>1 DEF Types
  <2> QED BY <2>1, TaskParts
<1> QED BY <1>1, <1>2, <1>3

\* Whatever is queued or waits to be delivered has arrived.
LEMMA TasksArrived ==
  ASSUME OrderInv, NEW i \in DOMAIN ready
  PROVE  /\ ready[i][2] <= arrived
         /\ ready[i][1] = "stream" => type[ready[i][2]] = "stream"
         /\ ready[i][1] # "stream" => type[ready[i][2]] = "plain"
<1>1. ready[i][2] \in Messages /\ ready[i][2] \in Nat
  BY OrderFacts
<1>2. CASE ready[i][1] = "gather"
  BY <1>1, <1>2, OrderFacts DEF Deliveries, Fresh
<1>3. CASE ready[i][1] = "push"
  BY <1>1, <1>3, OrderFacts DEF Deliveries, Fresh
<1>4. CASE ready[i][1] = "stream"
  <2>1. ready[i][3] \in Consumers /\ Ahead(ready[i][3], ready[i])
    BY <1>4, OrderFacts DEF OrderInv, Undelivered
  <2>2. type[ready[i][2]] = "stream"
    BY <1>1, <1>4, <2>1 DEF Ahead, OrderInv, Arrivals
  <2> QED BY <1>1, <1>4, <2>2, OrderFacts DEF OrderInv, Arrivals
<1> QED BY <1>2, <1>3, <1>4, OrderFacts

-----------------------------------------------------------------------------
(* What a step does to the variables of the order *)

Taken(t) == ready # <<>> /\ Head(ready) = t /\ ready' = Tail(ready)

\* An item x is queued for consumer c: the end mark, a plain message, a stream
\* handed over at once, or one that was collected to a string.
Adds(c, x) ==
  \/ x = CloseMark /\ ~closed /\ c \in Registered /\ c \in iterClosed' /\ ready' = ready
  \/ \E t \in Tasks : /\ Taken(t) /\ t[1] = "push" /\ t[2] = x /\ t[3] = c
                      /\ c \notin iterClosed
  \/ \E t \in Tasks : /\ Taken(t) /\ t[1] = "stream" /\ t[2] = x /\ t[3] = c
                      /\ kind[c] = "stream"
  \/ /\ x \in Messages /\ kind[c] = "string" /\ ready' = ready
     /\ sub[c][x] = "handled" /\ sub'[c][x] = "ended"

Moves(c) ==
  \/ iq'[c] = iq[c] /\ handled'[c] = handled[c]
  \/ \E x \in Messages \cup {CloseMark} :
       iq'[c] = Append(iq[c], x) /\ handled'[c] = handled[c] /\ Adds(c, x)
  \/ /\ iq[c] # <<>> /\ iq'[c] = Tail(iq[c])
     /\ \/ handled'[c] = handled[c]
        \/ Head(iq[c]) \in Messages /\ handled'[c] = Append(handled[c], Head(iq[c]))

LEMMA LineAfter ==
  ASSUME OrderInv, [Next]_readerVars, NEW c \in Consumers
  PROVE  Moves(c)
<1>T. Types /\ Iterators
  BY OrderFacts
<1>U. ASSUME iq' = iq, handled' = handled PROVE Moves(c)
  BY <1>U DEF Moves
<1>1. CASE Close
  <2>1. CASE c \in Registered
    <3>1. iq'[c] = Append(iq[c], CloseMark) /\ handled' = handled /\ Adds(c, CloseMark)
      BY <1>1, <2>1 DEF Close, Adds
    <3> QED BY <3>1 DEF Moves
  <2>2. CASE c \notin Registered
    BY <1>1, <2>2 DEF Close, Moves
  <2> QED BY <2>1, <2>2
<1>2. CASE RunPush
  <2>1. PICK t \in Tasks : ready # <<>> /\ t = Head(ready) /\ t[1] = "push"
    BY <1>T, <1>2, TailTasks DEF Types, RunPush, RunPlainTask
  <2>2. /\ Push(t[3], t[2]) /\ t[2] \in Messages /\ t[3] \in Consumers
        /\ handled' = handled
    BY <1>2, <2>1, TaskParts DEF RunPush, RunPlainTask
  <2>3. CASE t[3] \in iterClosed \/ (t[2] \in bad /\ kind[t[3]] = "string") \/ c # t[3]
    BY <1>T, <2>2, <2>3 DEF Push, Moves, Types
  <2>4. CASE ~(t[3] \in iterClosed \/ (t[2] \in bad /\ kind[t[3]] = "string") \/ c # t[3])
    <3>1. /\ ready' = Tail(ready) /\ iq \in [Consumers -> Seq(Messages \cup {CloseMark})]
          /\ iq' = [iq EXCEPT ![c] = Append(@, t[2])]
      BY <1>T, <2>2, <2>4 DEF Push, Types
    <3>2. Adds(c, t[2])
      BY <2>1, <2>4, <3>1 DEF Adds, Taken
    <3> QED BY <2>2, <3>1, <3>2 DEF Moves
  <2> QED BY <2>3, <2>4
<1>3. CASE RunStreamTask
  <2>1. PICK t \in Tasks : ready # <<>> /\ t = Head(ready) /\ t[1] = "stream"
    BY <1>T, <1>3, TailTasks DEF Types, RunStreamTask
  <2>2. t[2] \in Messages /\ t[3] \in Consumers /\ handled' = handled /\ ready' = Tail(ready)
    BY <1>3, <2>1, TaskParts DEF RunStreamTask
  <2>3. \/ iq' = iq
        \/ kind[t[3]] = "stream" /\ iq' = [iq EXCEPT ![t[3]] = Append(@, t[2])]
    BY <1>3, <2>1 DEF RunStreamTask
  <2>4. CASE iq' = iq \/ c # t[3]
    BY <1>T, <2>2, <2>3, <2>4 DEF Moves, Types
  <2>5. CASE ~(iq' = iq \/ c # t[3])
    <3>1. iq'[c] = Append(iq[c], t[2]) /\ kind[c] = "stream"
      BY <1>T, <2>2, <2>3, <2>5 DEF Types
    <3>2. Adds(c, t[2])
      BY <2>1, <2>2, <2>5, <3>1 DEF Adds, Taken
    <3> QED BY <2>2, <3>1, <3>2 DEF Moves
  <2> QED BY <2>4, <2>5
<1>4. ASSUME NEW m \in Messages, NEW d \in Consumers, SubStep(d, m) PROVE Moves(c)
  <2>1. CASE HandleChunk(d, m) \/ LeaveSub(d, m)
    BY <1>U, <2>1 DEF HandleChunk, LeaveSub, iterating
  <2>2. CASE EndSub(d, m)
    <3>1. CASE c # d \/ kind[d] # "string"
      BY <1>T, <2>2, <3>1 DEF EndSub, Moves, Types
    <3>2. CASE c = d /\ kind[d] = "string"
      <4>1. iq'[c] = Append(iq[c], m) /\ handled' = handled /\ ready' = ready
        BY <1>T, <2>2, <3>2 DEF EndSub, Types, handling
      <4>2. sub[c][m] = "handled" /\ sub'[c][m] = "ended"
        BY <2>2, <3>2 DEF EndSub, OrderInv, OtherTypes
      <4>3. Adds(c, m)
        BY <3>2, <4>1, <4>2 DEF Adds
      <4> QED BY <4>1, <4>3 DEF Moves
    <3> QED BY <3>1, <3>2
  <2> QED BY <1>4, <2>1, <2>2 DEF SubStep
<1>5. ASSUME NEW d \in Consumers, GetClose(d) \/ Complete(d) PROVE Moves(c)
  <2>1. CASE c # d
    BY <1>T, <1>5, <2>1 DEF GetClose, Complete, Moves, Types
  <2>2. CASE c = d
    <3>1. iq[c] # <<>> /\ iq'[c] = Tail(iq[c])
      BY <1>T, <1>5, <2>2 DEF GetClose, Complete, Types, Iterators
    <3>2. CASE GetClose(d)
      BY <3>1, <3>2 DEF GetClose, Moves
    <3>3. CASE Complete(d)
      <4>1. Head(iq[c]) \in Messages /\ handled'[c] = Append(handled[c], Head(iq[c]))
        BY <1>T, <2>2, <3>3 DEF Complete, Types, Iterators, Holding
      <4> QED BY <3>1, <4>1 DEF Moves
    <3> QED BY <1>5, <3>2, <3>3
  <2> QED BY <2>1, <2>2
<1>6. CASE RunGather \/ UNCHANGED readerVars
  <2>1. iq' = iq /\ handled' = handled
    BY <1>6 DEF RunGather, RunPlainTask, GatherPushes, readerVars, iterating
  <2> QED BY <1>U, <2>1
<1>7. ASSUME NEW m \in Messages,
             \/ HandleMsg(m) \/ HandleStream(m) \/ HandleStreamClosed(m)
             \/ OpenStream(m) \/ Drain(m) \/ Notify(m) \/ WriteAck(m)
      PROVE  Moves(c)
  BY <1>U, <1>7 DEF HandleMsg, HandleStream, HandleStreamClosed, OpenStream, Drain, Notify,
                    WriteAck, iterating
<1>8. ASSUME NEW d \in Consumers, Register(d) \/ Get(d) \/ Quit(d) PROVE Moves(c)
  BY <1>U, <1>8 DEF Register, Get, Quit, iterating
<1> QED BY <1>1, <1>2, <1>3, <1>4, <1>5, <1>6, <1>7, <1>8, NextCases

\* What has arrived keeps its type, and who is registered what it asked for.
LEMMA Stable ==
  ASSUME OrderInv, [Next]_readerVars
  PROVE  /\ arrived' \in Nat /\ arrived <= arrived' /\ arrived' <= MaxMessages
         /\ \A m \in Messages : m <= arrived => type'[m] = type[m]
         /\ \A m \in Messages : m > arrived' => type'[m] = "none"
         /\ \A c \in Registered : c \in Registered' /\ kind'[c] = kind[c]
         /\ iterClosed \subseteq iterClosed' /\ iterClosed' \subseteq Registered'
<1> DEFINE Goal ==
      /\ arrived' \in Nat /\ arrived <= arrived' /\ arrived' <= MaxMessages
      /\ \A m \in Messages : m <= arrived => type'[m] = type[m]
      /\ \A m \in Messages : m > arrived' => type'[m] = "none"
      /\ \A c \in Registered : c \in Registered' /\ kind'[c] = kind[c]
      /\ iterClosed \subseteq iterClosed' /\ iterClosed' \subseteq Registered'
<1>T. Types /\ OtherTypes /\ Arrivals /\ arrived \in Nat /\ Messages \subseteq Nat
  BY OrderFacts DEF OrderInv
<1>K. kind' = kind => Registered' = Registered
  BY DEF Registered
<1>U. UNCHANGED <<arrived, type, iterClosed, kind>> => Goal
  BY <1>T, <1>K DEF OtherTypes, Arrivals
<1> SUFFICES Goal
  OBVIOUS
<1>1. ASSUME NEW m \in Messages,
             HandleMsg(m) \/ HandleStream(m) \/ HandleStreamClosed(m)
      PROVE  Goal
  <2>1. /\ arrived' = arrived + 1 /\ m = arrived + 1 /\ kind' = kind
        /\ iterClosed' = iterClosed
        /\ \E t \in {"plain", "stream"} : type' = [type EXCEPT ![m] = t]
    BY <1>1 DEF HandleMsg, HandleStream, HandleStreamClosed, Arrive, iterating
  <2>2. \A n \in Messages : n # m => type'[n] = type[n]
    BY <1>T, <2>1 DEF Types
  <2>3. arrived' <= MaxMessages
    BY <2>1 DEF Messages
  <2>4. \A n \in Messages : n <= arrived => n # m
    BY <1>T, <2>1
  <2>5. \A n \in Messages : n > arrived' => n # m /\ n > arrived
    BY <1>T, <2>1
  <2> QED BY <1>T, <1>K, <2>1, <2>2, <2>3, <2>4, <2>5 DEF OtherTypes, Arrivals
<1>2. ASSUME NEW c \in Consumers, Register(c)
      PROVE  Goal
  <2>1. PICK k \in {"string", "stream", "buffer"} : kind' = [kind EXCEPT ![c] = k]
    BY <1>2, RegisterAsks
  <2>2. \A d \in Registered : kind'[d] = kind[d] /\ d \in Consumers
    BY <1>T, <1>2, <2>1 DEF Register, Types, Registered
  <2>3. Registered \subseteq Registered'
    BY <2>2 DEF Registered
  <2>4. UNCHANGED <<arrived, type, iterClosed>>
    BY <1>2 DEF Register, iterating
  <2>5. iterClosed \subseteq Registered'
    BY <1>T, <2>3 DEF OtherTypes
  <2>6. \A n \in Messages : n > arrived => type[n] = "none"
    BY <1>T DEF Arrivals
  <2>7. arrived \in Nat /\ arrived <= arrived /\ arrived <= MaxMessages
    BY <1>T DEF OtherTypes
  <2> QED BY <2>2, <2>3, <2>4, <2>5, <2>6, <2>7
<1>3. CASE Close
  <2>1. UNCHANGED <<arrived, type, kind>> /\ iterClosed' = Registered
    BY <1>3 DEF Close
  <2> QED BY <1>T, <1>K, <2>1 DEF OtherTypes, Arrivals
<1>4. ASSUME NEW c \in Consumers, Get(c) \/ GetClose(c) \/ Complete(c) \/ Quit(c)
      PROVE  Goal
  BY <1>U, <1>4 DEF Get, GetClose, Complete, Quit, iterating
<1>7. ASSUME NEW m \in Messages, NEW c \in Consumers, SubStep(c, m) PROVE Goal
  BY <1>U, <1>7 DEF SubStep, HandleChunk, EndSub, LeaveSub, iterating
<1>5. CASE RunGather \/ RunPush \/ RunStreamTask \/ UNCHANGED readerVars
  <2>1. UNCHANGED <<arrived, type, iterClosed, kind>>
    BY <1>5 DEF RunGather, RunPush, RunPlainTask, RunStreamTask, readerVars, iterating
  <2> QED BY <1>U, <2>1
<1>6. ASSUME NEW m \in Messages,
             OpenStream(m) \/ Drain(m) \/ Notify(m) \/ WriteAck(m)
      PROVE  Goal
  BY <1>U, <1>6 DEF OpenStream, Drain, Notify, WriteAck, iterating
<1> HIDE DEF Goal
<1> QED BY <1>1, <1>2, <1>3, <1>4, <1>5, <1>6, <1>7, NextCases

\* The substream is started by the task that pushes it, or by the processor that
\* was handed it.
Opens(c, m) ==
  \/ InSeq(m, iq[c])
  \/ \E t \in Tasks : Taken(t) /\ t[1] = "stream" /\ t[2] = m /\ t[3] = c

\* The place of a consumer in the fan-out of a stream.
LEMMA SubAfter ==
  ASSUME OrderInv, [Next]_readerVars
  PROVE  /\ sub' \in [Consumers -> [Messages -> SubStates]]
         /\ \A c \in Consumers, m \in Messages :
              /\ sub[c][m] = "ended" => sub'[c][m] = "ended"
              /\ sub[c][m] = "new" => sub'[c][m] = "new" \/ Opens(c, m)
              /\ sub'[c][m] # "none" => sub[c][m] # "none" \/ type'[m] = "stream"
<1> DEFINE Goal ==
      /\ sub' \in [Consumers -> [Messages -> SubStates]]
      /\ \A c \in Consumers, m \in Messages :
           /\ sub[c][m] = "ended" => sub'[c][m] = "ended"
           /\ sub[c][m] = "new" => sub'[c][m] = "new" \/ Opens(c, m)
           /\ sub'[c][m] # "none" => sub[c][m] # "none" \/ type'[m] = "stream"
<1>T. Types /\ sub \in [Consumers -> [Messages -> SubStates]]
  BY OrderFacts DEF OrderInv, OtherTypes
<1>U. sub' = sub => Goal
  BY <1>T
<1>P. ASSUME NEW d \in Consumers, NEW n \in Messages,
             NEW v \in SubStates \ {"none"}, sub' = [sub EXCEPT ![d][n] = v],
             sub[d][n] \notin {"ended", "none"},
             sub[d][n] = "new" => Opens(d, n)
      PROVE  Goal
  BY <1>T, <1>P DEF SubStates
<1> SUFFICES Goal
  OBVIOUS
<1> HIDE DEF Goal
<1>1. ASSUME NEW n \in Messages, HandleStream(n) PROVE Goal
  <2>1. n > arrived /\ type'[n] = "stream" /\ n = arrived + 1
    BY <1>T, <1>1, OrderFacts DEF HandleStream, Arrive, Types
  <2>2. \A d \in Consumers : sub[d][n] = "none"
    BY <1>T, <2>1 DEF OrderInv, Arrivals
  <2>3. sub' = [d \in Consumers |->
                  IF d \in Registered THEN [sub[d] EXCEPT ![n] = "new"] ELSE sub[d]]
    BY <1>1 DEF HandleStream
  <2>4. sub' \in [Consumers -> [Messages -> SubStates]]
    BY <1>T, <2>3 DEF SubStates
  <2>5. \A c \in Consumers, m \in Messages :
          sub'[c][m] = sub[c][m] \/ (m = n /\ sub'[c][m] = "new")
    BY <1>T, <2>3
  <2> QED BY <2>1, <2>2, <2>4, <2>5 DEF Goal
<1>2. CASE RunStreamTask
  <2>1. PICK t \in Tasks : ready # <<>> /\ t = Head(ready) /\ t[1] = "stream" /\ t = ready[1]
                           /\ 1 \in DOMAIN ready
    BY <1>T, <1>2, TailTasks DEF Types, RunStreamTask
  <2>2. t[2] \in Messages /\ t[3] \in Consumers /\ Taken(t)
    BY <1>2, <2>1, TaskParts DEF RunStreamTask, Taken
  <2>3. sub' = sub \/ sub' = [sub EXCEPT ![t[3]][t[2]] = "open"]
    BY <1>2, <2>1 DEF RunStreamTask
  <2>4. sub[t[3]][t[2]] = "new"
    BY <2>1, <2>2 DEF OrderInv, Undelivered, Ahead
  <2>5. "open" \in SubStates \ {"none"}
    BY DEF SubStates
  <2>6. CASE sub' = [sub EXCEPT ![t[3]][t[2]] = "open"]
    <3>1. Opens(t[3], t[2])
      BY <2>1, <2>2 DEF Opens
    <3> QED BY <1>P, <2>2, <2>4, <2>5, <2>6, <3>1
  <2> QED BY <1>U, <2>3, <2>6
<1>3. ASSUME NEW n \in Messages, NEW d \in Consumers, SubStep(d, n) PROVE Goal
  <2>1. /\ sub[d][n] \in {"open", "handled"}
        /\ \E v \in {"handled", "ended", "left"} : sub' = [sub EXCEPT ![d][n] = v]
    BY <1>3 DEF SubStep, HandleChunk, EndSub, LeaveSub
  <2> QED BY <1>P, <2>1 DEF SubStates
<1>4. ASSUME NEW d \in Consumers, Get(d) PROVE Goal
  <2>1. iq[d] # <<>> /\ iq[d] \in Seq(Nat)
    BY <1>4, OrderFacts DEF Get
  <2>2. InSeq(Head(iq[d]), iq[d]) /\ Head(iq[d]) \in Messages
    BY <1>4, <2>1, TailAt, OrderFacts DEF Get
  <2>3. sub' = sub \/ (/\ sub[d][Head(iq[d])] = "new"
                       /\ sub' = [sub EXCEPT ![d][Head(iq[d])] = "open"])
    BY <1>4 DEF Get
  <2>4. Opens(d, Head(iq[d])) /\ "open" \in SubStates \ {"none"}
    BY <2>2 DEF Opens, SubStates
  <2>5. CASE sub[d][Head(iq[d])] = "new" /\ sub' = [sub EXCEPT ![d][Head(iq[d])] = "open"]
    BY <1>P, <2>2, <2>4, <2>5
  <2> QED BY <1>U, <2>3, <2>5
<1>5. ASSUME NEW n \in Messages,
             \/ HandleMsg(n) \/ HandleStreamClosed(n)
             \/ OpenStream(n) \/ Drain(n) \/ Notify(n) \/ WriteAck(n)
      PROVE  Goal
  BY <1>U, <1>5 DEF HandleMsg, HandleStreamClosed, OpenStream, Drain, Notify, WriteAck, streaming
<1>6. ASSUME NEW d \in Consumers, Register(d) \/ GetClose(d) \/ Complete(d) \/ Quit(d)
      PROVE  Goal
  BY <1>U, <1>6 DEF Register, GetClose, Complete, Quit, streaming
<1>7. CASE RunGather \/ RunPush \/ Close \/ UNCHANGED readerVars
  BY <1>U, <1>7 DEF RunGather, RunPush, RunPlainTask, Close, readerVars, streaming
<1> QED BY <1>1, <1>2, <1>3, <1>4, <1>5, <1>6, <1>7, NextCases

\* A task that is spawned: the delivery of the message that arrives, a stream's
\* for a registered consumer, or a push of the message whose delivery is first.
Spawned(t) ==
  \/ t[1] = "gather" /\ t[2] = arrived + 1
  \/ t[1] = "stream" /\ t[2] = arrived + 1 /\ t[3] \in Registered /\ sub'[t[3]][t[2]] = "new"
  \/ /\ t[1] = "push" /\ t[3] \in Registered
     /\ ready # <<>> /\ Head(ready)[1] = "gather" /\ t[2] = Head(ready)[2]

\* The tasks that wait are those that waited, less the first one if o = 1, up to
\* place l, and behind them new ones, one for each of a set of consumers.
ReadyIs(o, l) ==
  /\ \A i \in DOMAIN ready' :
       /\ i \in Nat /\ i > 0
       /\ i <= l => i + o \in DOMAIN ready /\ ready'[i] = ready[i + o]
       /\ i > l => Spawned(ready'[i]) /\ (ready'[i][1] = "push" => o = 1)
  /\ \A i, j \in DOMAIN ready' :
       l < i /\ i < j => /\ ready'[i][1] = ready'[j][1] /\ ready'[i][1] # "gather"
                         /\ ready'[i][3] # ready'[j][3]

LEMMA ReadyAfter ==
  ASSUME OrderInv, [Next]_readerVars
  PROVE  \E o \in {0, 1}, l \in Nat : ReadyIs(o, l)
<1> DEFINE Goal == \E o \in {0, 1}, l \in Nat : ReadyIs(o, l)
<1>T. Types /\ Iterators /\ ready \in Seq(Tasks)
  BY OrderFacts DEF Types
<1>U. ASSUME ready' = ready PROVE Goal
  <2>1. Len(ready) \in Nat /\ DOMAIN ready = 1..Len(ready)
    BY <1>T
  <2>2. ReadyIs(0, Len(ready))
    BY <1>U, <2>1 DEF ReadyIs
  <2> QED BY <2>1, <2>2
<1>V. ASSUME ready # <<>>, ready' = Tail(ready) PROVE Goal
  <2>1. Len(ready) \in Nat /\ DOMAIN Tail(ready) = 1..(Len(ready) - 1) /\ Len(ready) > 0
    BY <1>T, <1>V
  <2>2. \A i \in DOMAIN ready' : /\ i \in Nat /\ i > 0 /\ i <= Len(ready)
                                 /\ i + 1 \in DOMAIN ready /\ ready'[i] = ready[i + 1]
    BY <1>T, <1>V, <2>1, TailTasks
  <2>3. ReadyIs(1, Len(ready))
    BY <2>1, <2>2 DEF ReadyIs
  <2> QED BY <2>1, <2>3
<1>W. ASSUME NEW o \in {0, 1}, NEW s \in Seq(Tasks), NEW m \in Messages,
             NEW k \in {"push", "stream"},
             ready' = s \o TasksOf(k, m),
             \A i \in DOMAIN s : i + o \in DOMAIN ready /\ s[i] = ready[i + o],
             k = "push" => o = 1,
             \A c \in Registered : Spawned(<<k, m, c>>)
      PROVE  Goal
  <2>1. Len(s) \in Nat /\ DOMAIN s = 1..Len(s)
    OBVIOUS
  <2>2. ready' \in Seq(Tasks)
    BY <1>T, <1>W, TasksForAll
  <2>3. \A i \in DOMAIN ready' : i \in Nat /\ i > 0
    BY <2>2
  <2>4. ASSUME NEW i \in DOMAIN ready', i <= Len(s)
        PROVE  i + o \in DOMAIN ready /\ ready'[i] = ready[i + o]
    <3>1. i \in DOMAIN s
      BY <2>1, <2>3, <2>4
    <3>2. ready'[i] = s[i]
      BY <1>W, <2>1, <3>1, ConcatProperties, TasksForAll, <1>T
    <3> QED BY <1>W, <3>1, <3>2
  <2>5. ASSUME NEW i \in DOMAIN ready', i > Len(s)
        PROVE  /\ ready'[i][1] = k /\ ready'[i][3] = i - Len(s)
               /\ Spawned(ready'[i]) /\ (ready'[i][1] = "push" => o = 1)
    <3>1. i \notin DOMAIN s
      BY <2>1, <2>3, <2>5
    <3>2. ready'[i] = <<k, m, i - Len(s)>> /\ i - Len(s) \in Registered
      BY <1>T, <1>W, <3>1, TasksForAll
    <3>3. Spawned(ready'[i])
      BY <1>W, <3>2
    <3> QED BY <1>W, <3>2, <3>3
  <2>6. ASSUME NEW i \in DOMAIN ready', NEW j \in DOMAIN ready', Len(s) < i, i < j
        PROVE  /\ ready'[i][1] = ready'[j][1] /\ ready'[i][1] # "gather"
               /\ ready'[i][3] # ready'[j][3]
    <3>1. i \in Nat /\ j \in Nat /\ j > Len(s)
      BY <2>1, <2>3, <2>6
    <3>2. ready'[i][1] = k /\ ready'[j][1] = k
      BY <2>5, <2>6, <3>1
    <3>3. ready'[i][3] = i - Len(s) /\ ready'[j][3] = j - Len(s)
      BY <2>5, <2>6, <3>1
    <3> QED BY <2>1, <2>6, <3>1, <3>2, <3>3
  <2>7. ReadyIs(o, Len(s))
    BY <2>3, <2>4, <2>5, <2>6 DEF ReadyIs
  <2> QED BY <2>1, <2>7
<1> SUFFICES Goal
  OBVIOUS
<1> HIDE DEF Goal
<1>1. ASSUME NEW m \in Messages, HandleMsg(m) PROVE Goal
  <2>1. CASE closed
    BY <1>U, <1>1, <2>1 DEF HandleMsg
  <2>2. CASE ~closed
    <3>1. ready' = Append(ready, <<"gather", m>>) /\ m = arrived + 1
      BY <1>1, <2>2 DEF HandleMsg, Arrive
    <3>2. <<"gather", m>> \in Tasks
      BY DEF Tasks
    <3>3. /\ \A i \in DOMAIN ready' : i \in Nat /\ i > 0
          /\ \A i \in DOMAIN ready' : i <= Len(ready) => i \in DOMAIN ready /\ ready'[i] = ready[i]
          /\ \A i \in DOMAIN ready' : i > Len(ready) =>
               i = Len(ready) + 1 /\ ready'[i] = <<"gather", m>>
          /\ Len(ready) \in Nat
      BY <1>T, <3>1, <3>2
    <3>4. ASSUME NEW i \in DOMAIN ready', i > Len(ready)
          PROVE  ready'[i][1] = "gather" /\ Spawned(ready'[i])
      BY <3>1, <3>3, <3>4 DEF Spawned
    <3>5. ReadyIs(0, Len(ready))
      BY <3>3, <3>4 DEF ReadyIs
    <3> QED BY <3>3, <3>5 DEF Goal
  <2> QED BY <2>1, <2>2
<1>2. ASSUME NEW m \in Messages, HandleStream(m) PROVE Goal
  <2>1. ready' = ready \o TasksOf("stream", m) /\ m = arrived + 1
    BY <1>2 DEF HandleStream, TasksOf, Arrive
  <2>2. ASSUME NEW c \in Registered PROVE sub'[c][m] = "new"
    <3>1. c \in Consumers /\ sub[c] \in [Messages -> SubStates]
      BY DEF Registered, OrderInv, OtherTypes
    <3> QED BY <1>2, <3>1 DEF HandleStream
  <2>3. \A c \in Registered : Spawned(<<"stream", m, c>>)
    BY <2>1, <2>2 DEF Spawned
  <2>4. \A i \in DOMAIN ready : i + 0 \in DOMAIN ready /\ ready[i] = ready[i + 0]
    BY <1>T
  <2> QED BY <1>T, <1>W, <2>1, <2>3, <2>4
<1>3. CASE RunGather
  <2>1. /\ ready # <<>> /\ Head(ready)[1] = "gather" /\ Head(ready)[2] \in Messages
        /\ GatherPushes(Head(ready)[2])
    BY <1>T, <1>3, TailTasks, TaskParts DEF RunGather, RunPlainTask
  <2>2. PICK m \in Messages : m = Head(ready)[2]
    BY <2>1
  <2>3. ready' = Tail(ready) \o TasksOf("push", m)
    BY <2>1, <2>2 DEF GatherPushes, TasksOf
  <2>4. \A c \in Registered : Spawned(<<"push", m, c>>)
    BY <2>1, <2>2 DEF Spawned
  <2>5. /\ Tail(ready) \in Seq(Tasks)
        /\ \A i \in DOMAIN Tail(ready) : i + 1 \in DOMAIN ready /\ Tail(ready)[i] = ready[i + 1]
    BY <1>T, <2>1, TailTasks
  <2> QED BY <1>W, <2>3, <2>4, <2>5
<1>4. CASE RunPush \/ RunStreamTask
  <2>1. ready # <<>> /\ ready' = Tail(ready)
    BY <1>4 DEF RunPush, RunPlainTask, RunStreamTask, Push
  <2> QED BY <1>V, <2>1
<1>5. CASE Close \/ UNCHANGED readerVars
  BY <1>U, <1>5 DEF Close, readerVars
<1>6. ASSUME NEW m \in Messages,
             \/ HandleStreamClosed(m) \/ OpenStream(m) \/ Drain(m) \/ Notify(m) \/ WriteAck(m)
      PROVE  Goal
  BY <1>U, <1>6 DEF HandleStreamClosed, OpenStream, Drain, Notify, WriteAck
<1>7. ASSUME NEW m \in Messages, NEW c \in Consumers, SubStep(c, m) PROVE Goal
  BY <1>U, <1>7 DEF SubStep, HandleChunk, EndSub, LeaveSub
<1>8. ASSUME NEW c \in Consumers,
             Register(c) \/ Get(c) \/ GetClose(c) \/ Complete(c) \/ Quit(c)
      PROVE  Goal
  BY <1>U, <1>8 DEF Register, Get, GetClose, Complete, Quit
<1> QED BY <1>1, <1>2, <1>3, <1>4, <1>5, <1>6, <1>7, <1>8, NextCases

\* What was queued or handled is plain after a step if it was before.
LEMMA PlainKept ==
  ASSUME OrderInv, [Next]_readerVars, NEW c \in Consumers, NEW y,
         InSeq(y, iq[c]) \/ InSeq(y, handled[c])
  PROVE  y \in Nat /\ y <= arrived /\ (y \in Plain <=> y \in Plain')
<1>1. y \in Messages \cup {CloseMark} /\ y <= arrived
  BY OrderFacts DEF OrderInv, Line
<1>2. y \in Messages => type'[y] = type[y]
  BY <1>1, Stable
<1>3. y \in Nat
  BY <1>1, OrderFacts DEF CloseMark
<1> QED BY <1>1, <1>2, <1>3 DEF Plain, Messages

\* The task at the head waits for consumer c, behind nothing.
LEMMA FirstTask ==
  ASSUME OrderInv, NEW t \in Tasks, Taken(t)
  PROVE  /\ 1 \in DOMAIN ready /\ ready[1] = t
         /\ t[2] \in Messages /\ t[2] <= arrived
         /\ t[1] = "stream" => type[t[2]] = "stream"
         /\ t[1] # "stream" => type[t[2]] = "plain"
         /\ \A c \in Consumers : Ahead(c, t)
<1>1. 1 \in DOMAIN ready /\ ready[1] = t
  BY TailTasks, OrderFacts DEF Taken, Types
<1> QED BY <1>1, TasksArrived, OrderFacts DEF OrderInv, Undelivered

LEMMA AddFacts ==
  ASSUME OrderInv, [Next]_readerVars, NEW c \in Consumers,
         NEW x \in Messages \cup {CloseMark}, Adds(c, x)
  PROVE  /\ ~InSeq(x, iq[c]) /\ c \in Registered /\ x <= arrived
         /\ x \in Plain => /\ Below(handled[c], x, Plain) /\ Below(iq[c], x, Plain)
                           /\ ~InSeq(CloseMark, iq[c])
         /\ x = CloseMark => c \in iterClosed'
         /\ x \in Messages /\ type[x] = "stream" /\ kind[c] = "string" =>
              sub'[c][x] = "ended"
<1>F. /\ Messages \subseteq Nat /\ arrived \in Nat /\ CloseMark = 0
      /\ Line(c) /\ Arrivals /\ Types /\ Iterators /\ \A m \in Messages : m # CloseMark
  BY OrderFacts DEF OrderInv, CloseMark
<1>1. CASE x = CloseMark /\ ~closed /\ c \in Registered /\ c \in iterClosed' /\ ready' = ready
  <2>1. ~InSeq(x, iq[c])
    BY <1>F, <1>1 DEF Line, Iterators
  <2>2. x \notin Messages /\ x \notin Plain /\ x <= arrived
    BY <1>F, <1>1 DEF Plain
  <2> QED BY <1>1, <2>1, <2>2
<1>2. CASE \E t \in Tasks : Taken(t) /\ t[1] = "push" /\ t[2] = x /\ t[3] = c /\ c \notin iterClosed
  <2>1. PICK t \in Tasks : Taken(t) /\ t[1] = "push" /\ t[2] = x /\ t[3] = c /\ c \notin iterClosed
    BY <1>2
  <2>2. x \in Messages /\ x <= arrived /\ type[x] = "plain" /\ Ahead(c, t)
    BY <2>1, FirstTask
  <2>3. c \in Registered /\ Below(handled[c], x, Plain) /\ Below(iq[c], x, Plain)
    BY <2>1, <2>2 DEF Ahead
  <2>4. ~InSeq(x, iq[c])
    BY <1>F, <2>2, <2>3 DEF Below, Plain
  <2>5. ~InSeq(CloseMark, iq[c])
    BY <1>F, <2>1 DEF Line
  <2> QED BY <1>F, <2>2, <2>3, <2>4, <2>5
<1>3. CASE \E t \in Tasks : Taken(t) /\ t[1] = "stream" /\ t[2] = x /\ t[3] = c /\ kind[c] = "stream"
  <2>1. PICK t \in Tasks : Taken(t) /\ t[1] = "stream" /\ t[2] = x /\ t[3] = c /\ kind[c] = "stream"
    BY <1>3
  <2>2. x \in Messages /\ x <= arrived /\ type[x] = "stream" /\ Ahead(c, t)
    BY <2>1, FirstTask
  <2>3. c \in Registered /\ ~InSeq(x, iq[c]) /\ x \notin Plain
    BY <2>1, <2>2 DEF Ahead, Plain
  <2> QED BY <1>F, <2>1, <2>2, <2>3
<1>4. CASE /\ x \in Messages /\ kind[c] = "string" /\ ready' = ready
           /\ sub[c][x] = "handled" /\ sub'[c][x] = "ended"
  <2>1. type[x] = "stream" /\ c \in Registered
    BY <1>F, <1>4 DEF Arrivals, Registered
  <2>2. x <= arrived
    <3>1. x \in Nat /\ arrived \in Nat /\ ~(x > arrived)
      BY <1>F, <1>4, <2>1 DEF Arrivals
    <3> QED BY <3>1
  <2>3. ~InSeq(x, iq[c])
    BY <1>F, <1>4, <2>1 DEF Line
  <2>4. x \notin Plain
    BY <2>1 DEF Plain
  <2> QED BY <1>F, <1>4, <2>1, <2>2, <2>3, <2>4
<1> QED BY <1>1, <1>2, <1>3, <1>4 DEF Adds

LEMMA StepLine ==
  ASSUME OrderInv, [Next]_readerVars, NEW c \in Consumers
  PROVE  Line(c)'
<1> DEFINE h == handled[c]
           q == iq[c]
<1>F. /\ h \in Seq(Nat) /\ q \in Seq(Nat) /\ Messages \subseteq Nat /\ CloseMark \in Nat
      /\ \A m \in Messages : m # CloseMark
  BY OrderFacts DEF CloseMark
<1>S. InOrder(h, q, Plain')
  <2>1. InOrder(h, q, Plain)
    BY DEF OrderInv, Line
  <2>2. \A y : InSeq(y, h) \/ InSeq(y, q) => (y \in Plain <=> y \in Plain')
    BY PlainKept
  <2> HIDE DEF h, q
  <2> QED BY <2>1, <2>2, InOrderSame
<1>B. \A y : InSeq(y, h) \/ InSeq(y, q) => y <= arrived'
  <2>1. arrived \in Nat /\ arrived' \in Nat /\ arrived <= arrived'
    BY Stable, OrderFacts
  <2>2. \A y : InSeq(y, h) \/ InSeq(y, q) => y \in Nat /\ y <= arrived
    BY PlainKept
  <2> QED BY <2>1, <2>2
<1>R. c \notin Registered' => c \notin Registered /\ q = <<>>
  BY Stable DEF OrderInv, Line
<1>N. ASSUME NEW x, InSeq(x, q)
      PROVE  /\ x = CloseMark => c \in iterClosed'
             /\ x \in Messages /\ type'[x] = "stream" /\ kind'[c] = "string" =>
                  sub'[c][x] = "ended"
  <2>1. x = CloseMark => c \in iterClosed'
    BY <1>N, Stable DEF OrderInv, Line
  <2>2. ASSUME x \in Messages, type'[x] = "stream", kind'[c] = "string"
        PROVE  sub'[c][x] = "ended"
    <3>1. q # <<>>
      BY <1>N DEF InSeq
    <3>2. c \in Registered
      BY <3>1 DEF OrderInv, Line
    <3>3. type[x] = "stream" /\ kind[c] = "string"
      BY <1>N, <2>2, <3>2, Stable, PlainKept
    <3>4. sub[c][x] = "ended"
      BY <1>N, <2>2, <3>3 DEF OrderInv, Line
    <3> QED BY <2>2, <3>4, SubAfter
  <2> QED BY <2>1, <2>2
<1>1. CASE iq'[c] = iq[c] /\ handled'[c] = handled[c]
  BY <1>1, <1>S, <1>B, <1>R, <1>N DEF Line
<1>2. ASSUME NEW x \in Messages \cup {CloseMark},
             iq'[c] = Append(iq[c], x), handled'[c] = handled[c], Adds(c, x)
      PROVE  Line(c)'
  <2>0. x \in Nat /\ (x = CloseMark \/ x \in Messages)
    BY <1>F
  <2>1. /\ ~InSeq(x, q) /\ c \in Registered /\ x <= arrived
        /\ x \in Plain => /\ Below(h, x, Plain) /\ Below(q, x, Plain)
                          /\ ~InSeq(CloseMark, q)
        /\ x = CloseMark => c \in iterClosed'
        /\ x \in Messages /\ type[x] = "stream" /\ kind[c] = "string" =>
             sub'[c][x] = "ended"
    BY <1>2, AddFacts
  <2>2. x \in Messages => type'[x] = type[x]
    BY <2>1, Stable
  <2>3. x \in Plain' => x \in Plain
    BY <2>2 DEF Plain, Messages
  <2>4. x \in Plain' => Below(h, x, Plain') /\ Below(q, x, Plain') /\ ~InSeq(CloseMark, q)
    BY <2>1, <2>3, PlainKept DEF Below
  <2>5. InOrder(h, Append(q, x), Plain')
    <3> HIDE DEF h, q
    <3> QED BY <1>F, <1>S, <2>0, <2>1, <2>4, InOrderAppend
  <2>6. \A y : InSeq(y, Append(q, x)) <=> InSeq(y, q) \/ y = x
    BY <1>F, <2>0, AppendAt
  <2>7. kind'[c] = kind[c] /\ c \in Registered' /\ x <= arrived'
    BY <2>0, <2>1, Stable, OrderFacts
  <2>8. ASSUME NEW m \in Messages, InSeq(m, Append(q, x)), type'[m] = "stream",
               kind'[c] = "string"
        PROVE  sub'[c][m] = "ended"
    BY <1>N, <2>1, <2>2, <2>6, <2>7, <2>8
  <2>9. InSeq(CloseMark, Append(q, x)) => c \in iterClosed'
    BY <1>N, <2>1, <2>6
  <2>10. \A y : InSeq(y, Append(q, x)) \/ InSeq(y, h) => y <= arrived'
    BY <1>B, <2>6, <2>7
  <2>11. Messages' = Messages /\ CloseMark' = CloseMark
    BY DEF Messages, CloseMark
  <2> QED BY <1>2, <2>5, <2>7, <2>8, <2>9, <2>10, <2>11 DEF Line
<1>3. CASE /\ iq[c] # <<>> /\ iq'[c] = Tail(iq[c])
           /\ \/ handled'[c] = handled[c]
              \/ Head(iq[c]) \in Messages /\ handled'[c] = Append(handled[c], Head(iq[c]))
  <2>1. q # <<>> /\ Head(q) \in Nat
    BY <1>F, <1>3, TailAt
  <2>2. InOrder(h, Tail(q), Plain') /\ InOrder(Append(h, Head(q)), Tail(q), Plain')
    <3> HIDE DEF h, q
    <3> QED BY <1>F, <1>S, <2>1, InOrderTail
  <2>3. InOrder(handled'[c], iq'[c], Plain')
    BY <1>3, <2>2
  <2>4. \A y : InSeq(y, Tail(q)) => InSeq(y, q)
    BY <1>F, <2>1, TailAt
  <2>5. InSeq(Head(q), q)
    BY <1>F, <2>1, TailAt
  <2>6. \A y : InSeq(y, handled'[c]) => InSeq(y, h) \/ InSeq(y, q)
    <3>1. \A y : InSeq(y, Append(h, Head(q))) <=> InSeq(y, h) \/ y = Head(q)
      BY <1>F, <2>1, AppendAt
    <3> QED BY <1>3, <2>5, <3>1
  <2>7. c \in Registered'
    BY <1>R, <2>1
  <2> QED BY <1>3, <1>B, <1>N, <2>3, <2>4, <2>6, <2>7 DEF Line
<1> QED BY <1>1, <1>2, <1>3, LineAfter DEF Moves

LEMMA StepOtherTypes ==
  ASSUME OrderInv, [Next]_readerVars
  PROVE  OtherTypes'
<1> DEFINE Goal == busy' \in 0..MaxMessages /\ bad' \subseteq Messages
<1>T. OtherTypes
  BY DEF OrderInv
<1>U. UNCHANGED <<busy, bad>> => Goal
  BY <1>T DEF OtherTypes
<1>1. ASSUME NEW m \in Messages,
             HandleMsg(m) \/ HandleStream(m) \/ HandleStreamClosed(m)
      PROVE  Goal
  <2>1. bad' \in {bad, bad \cup {m}} /\ busy' \in {busy, m}
    BY <1>1 DEF HandleMsg, HandleStream, HandleStreamClosed, Arrive
  <2>2. m \in 0..MaxMessages
    BY DEF Messages
  <2> QED BY <1>T, <2>1, <2>2 DEF OtherTypes
<1>2. ASSUME NEW m \in Messages, OpenStream(m) PROVE Goal
  <2>1. 0 \in 0..MaxMessages
    BY ReaderAssumption DEF ReaderAssumption
  <2> QED BY <1>T, <1>2, <2>1 DEF OtherTypes, OpenStream
<1>3. ASSUME NEW m \in Messages, Drain(m) \/ Notify(m) \/ WriteAck(m) PROVE Goal
  BY <1>U, <1>3 DEF Drain, Notify, WriteAck
<1>4. ASSUME NEW m \in Messages, NEW c \in Consumers, SubStep(c, m) PROVE Goal
  BY <1>U, <1>4 DEF SubStep, HandleChunk, EndSub, LeaveSub
<1>5. ASSUME NEW c \in Consumers,
             Register(c) \/ Get(c) \/ GetClose(c) \/ Complete(c) \/ Quit(c)
      PROVE  Goal
  BY <1>U, <1>5 DEF Register, Get, GetClose, Complete, Quit
<1>6. ASSUME RunGather \/ RunPush \/ RunStreamTask \/ Close \/ UNCHANGED readerVars
      PROVE  Goal
  <2>1. UNCHANGED <<busy, bad>>
    BY <1>6 DEF RunGather, RunPush, RunPlainTask, RunStreamTask, Close, readerVars
  <2> QED BY <1>U, <2>1
<1>7. Goal
  <2> HIDE DEF Goal
  <2> QED BY <1>1, <1>2, <1>3, <1>4, <1>5, <1>6, NextCases
<1> QED BY <1>7, SubAfter, Stable DEF OtherTypes

LEMMA StepArrivals ==
  ASSUME OrderInv, [Next]_readerVars
  PROVE  Arrivals'
<1>1. \A m \in Messages : m > arrived' => type'[m] = "none"
  BY Stable
<1>2. ASSUME NEW m \in Messages, NEW c \in Consumers, sub'[c][m] # "none"
      PROVE  type'[m] = "stream"
  <2>1. CASE sub[c][m] # "none"
    <3>1. type[m] = "stream" /\ ~(m > arrived) /\ m \in Nat /\ arrived \in Nat
      BY <2>1, OrderFacts DEF OrderInv, Arrivals
    <3> QED BY <3>1, Stable
  <2>2. CASE sub[c][m] = "none"
    BY <1>2, <2>2, SubAfter
  <2> QED BY <2>1, <2>2
<1> QED BY <1>1, <1>2 DEF Arrivals, Messages, Consumers

LEMMA StepWaiting ==
  ASSUME OrderInv, [Next]_readerVars
  PROVE  Waiting'
<1>1. PICK o \in {0, 1}, l \in Nat : ReadyIs(o, l)
  BY ReadyAfter
<1>F. /\ arrived \in Nat /\ Waiting /\ ready \in Seq(Tasks) /\ DOMAIN ready \subseteq Nat
      /\ \A i \in DOMAIN ready : i > 0 /\ ready[i][2] \in Nat /\ ready[i][2] <= arrived
  <2>1. /\ arrived \in Nat /\ Waiting /\ ready \in Seq(Tasks) /\ Messages \subseteq Nat
        /\ \A i \in DOMAIN ready : ready[i][2] \in Messages
    BY OrderFacts DEF OrderInv, Types
  <2>2. \A i \in DOMAIN ready : i \in Nat /\ i > 0
    BY <2>1
  <2> QED BY <2>1, <2>2, TasksArrived
\* A kept task and one behind it, kept or spawned.
<1>2. ASSUME NEW i \in DOMAIN ready', NEW j \in DOMAIN ready', i <= l, j <= l
      PROVE  /\ i < j => Behind(ready'[i], ready'[j])
             /\ ready'[i][1] = "push" /\ ready'[j][1] = "gather" =>
                  ready'[i][2] < ready'[j][2]
  <2>1. /\ i + o \in DOMAIN ready /\ ready'[i] = ready[i + o]
        /\ j + o \in DOMAIN ready /\ ready'[j] = ready[j + o]
        /\ i \in Nat /\ j \in Nat
    BY <1>1, <1>2 DEF ReadyIs
  <2>2. i < j => i + o < j + o
    BY <2>1
  <2> QED BY <1>F, <2>1, <2>2 DEF Waiting
<1>3. ASSUME NEW i \in DOMAIN ready', NEW j \in DOMAIN ready', i <= l, j > l
      PROVE  /\ Behind(ready'[i], ready'[j])
             /\ ready'[i][1] = "push" /\ ready'[j][1] = "gather" =>
                  ready'[i][2] < ready'[j][2]
             /\ ready'[j][1] = "push" /\ ready'[i][1] = "gather" =>
                  ready'[j][2] < ready'[i][2]
  <2>1. /\ i + o \in DOMAIN ready /\ ready'[i] = ready[i + o]
        /\ i \in Nat /\ i > 0
        /\ Spawned(ready'[j]) /\ (ready'[j][1] = "push" => o = 1)
    BY <1>1, <1>3 DEF ReadyIs
  <2>2. ready'[i][2] \in Nat /\ ready'[i][2] <= arrived
    BY <1>F, <2>1
  <2>3. CASE ready'[j][1] # "push"
    <3>1. ready'[j][2] = arrived + 1
      BY <2>1, <2>3 DEF Spawned
    <3> QED BY <1>F, <2>2, <2>3, <3>1 DEF Behind
  <2>4. CASE ready'[j][1] = "push"
    <3>1. ready # <<>> /\ Head(ready)[1] = "gather" /\ ready'[j][2] = Head(ready)[2] /\ o = 1
      BY <2>1, <2>4 DEF Spawned
    <3>2. 1 \in DOMAIN ready /\ Head(ready) = ready[1] /\ 1 < i + o
      BY <1>F, <2>1, <3>1, TailTasks
    <3>3. ready'[i][1] = "push" => ready'[i][2] < ready'[j][2]
      BY <1>F, <2>1, <3>1, <3>2 DEF Waiting
    <3>4. ready'[i][1] = "gather" => ready'[j][2] < ready'[i][2]
      BY <1>F, <2>1, <3>1, <3>2 DEF Waiting, Behind
    <3> QED BY <2>4, <3>3, <3>4 DEF Behind
  <2> QED BY <2>3, <2>4
\* Two that are spawned together.
<1>4. ASSUME NEW i \in DOMAIN ready', NEW j \in DOMAIN ready', i > l, i < j
      PROVE  ready'[i][1] = ready'[j][1] /\ Behind(ready'[i], ready'[j])
  BY <1>1, <1>4 DEF ReadyIs, Behind
<1>D. \A i \in DOMAIN ready' : i \in Nat
  BY <1>1 DEF ReadyIs
<1>5. ASSUME NEW i \in DOMAIN ready', NEW j \in DOMAIN ready', i < j
      PROVE  Behind(ready'[i], ready'[j])
  <2>1. CASE i > l
    BY <1>4, <1>5, <2>1
  <2>2. CASE i <= l
    BY <1>2, <1>3, <1>5, <1>D, <2>2
  <2> QED BY <1>D, <2>1, <2>2
<1>6. ASSUME NEW i \in DOMAIN ready', NEW j \in DOMAIN ready',
             ready'[i][1] = "push", ready'[j][1] = "gather"
      PROVE  ready'[i][2] < ready'[j][2]
  <2>1. CASE i > l /\ j > l
    <3>1. i < j \/ j < i \/ i = j
      BY <1>D
    <3> QED BY <1>4, <1>6, <2>1, <3>1
  <2>2. CASE i <= l
    BY <1>2, <1>3, <1>6, <1>D, <2>2
  <2>3. CASE i > l /\ j <= l
    BY <1>3, <1>6, <2>3
  <2> QED BY <1>D, <2>1, <2>2, <2>3
<1> QED BY <1>5, <1>6 DEF Waiting, Behind

\* A plain message that comes behind the items of consumer c still does.
LEMMA BelowAfter ==
  ASSUME OrderInv, [Next]_readerVars, NEW c \in Consumers, NEW y \in Nat,
         Below(handled[c], y, Plain), Below(iq[c], y, Plain),
         \A x \in Messages \cup {CloseMark} : Adds(c, x) /\ x \in Plain => x < y
  PROVE  Below(handled'[c], y, Plain') /\ Below(iq'[c], y, Plain')
<1> DEFINE h == handled[c]
           q == iq[c]
<1>F. h \in Seq(Nat) /\ q \in Seq(Nat) /\ Messages \cup {CloseMark} \subseteq Nat
  BY OrderFacts DEF CloseMark
<1>1. Below(h, y, Plain') /\ Below(q, y, Plain')
  BY PlainKept DEF Below
<1>2. CASE iq'[c] = iq[c] /\ handled'[c] = handled[c]
  BY <1>1, <1>2
<1>3. ASSUME NEW x \in Messages \cup {CloseMark},
             iq'[c] = Append(iq[c], x), handled'[c] = handled[c], Adds(c, x)
      PROVE  Below(handled'[c], y, Plain') /\ Below(iq'[c], y, Plain')
  <2>1. x \in Messages => type'[x] = type[x]
    BY <1>3, AddFacts, Stable
  <2>2. x \in Plain' => x < y
    BY <1>3, <2>1 DEF Plain, Messages
  <2>3. \A z : InSeq(z, Append(q, x)) <=> InSeq(z, q) \/ z = x
    BY <1>F, AppendAt
  <2> QED BY <1>1, <1>3, <2>2, <2>3 DEF Below
<1>4. CASE /\ iq[c] # <<>> /\ iq'[c] = Tail(iq[c])
           /\ \/ handled'[c] = handled[c]
              \/ Head(iq[c]) \in Messages /\ handled'[c] = Append(handled[c], Head(iq[c]))
  <2>1. /\ Head(q) \in Nat /\ InSeq(Head(q), q)
        /\ \A z : InSeq(z, Tail(q)) => InSeq(z, q)
    BY <1>F, <1>4, TailAt
  <2>2. \A z : InSeq(z, Append(h, Head(q))) <=> InSeq(z, h) \/ z = Head(q)
    BY <1>F, <2>1, AppendAt
  <2>3. \A z : InSeq(z, handled'[c]) => InSeq(z, h) \/ InSeq(z, q)
    BY <1>4, <2>1, <2>2
  <2> QED BY <1>1, <1>4, <2>1, <2>3 DEF Below
<1> QED BY <1>2, <1>3, <1>4, LineAfter DEF Moves

LEMMA StepUndelivered ==
  ASSUME OrderInv, [Next]_readerVars
  PROVE  Undelivered'
<1> SUFFICES ASSUME NEW c \in Consumers, NEW i \in DOMAIN ready'
             PROVE  Ahead(c, ready[i])'
  BY DEF Undelivered, Consumers
<1>1. PICK o \in {0, 1}, l \in Nat : ReadyIs(o, l)
  BY ReadyAfter
<1>F. /\ arrived \in Nat /\ Waiting /\ ready \in Seq(Tasks) /\ Messages \subseteq Nat
      /\ Arrivals /\ Line(c) /\ \A m \in Messages : m # CloseMark
  BY OrderFacts DEF OrderInv, Types
\* What is taken from the head of the tasks was before the one at i.
<1>H. ASSUME NEW t \in Tasks, Taken(t)
      PROVE  /\ i + 1 \in DOMAIN ready /\ ready'[i] = ready[i + 1]
             /\ Behind(t, ready'[i])
             /\ t[1] = "push" /\ ready'[i][1] = "gather" => t[2] < ready'[i][2]
  <2>1. i + 1 \in DOMAIN ready /\ ready'[i] = ready[i + 1] /\ 1 < i + 1
    BY <1>F, <1>H, TailTasks DEF Taken
  <2>2. 1 \in DOMAIN ready /\ ready[1] = t
    BY <1>H, FirstTask
  <2> QED BY <1>F, <2>1, <2>2 DEF Waiting
<1>2. ASSUME NEW j \in DOMAIN ready, ready'[i] = ready[j]
      PROVE  Ahead(c, ready[i])'
  <2> DEFINE t == ready[j]
  <2>1. /\ Ahead(c, t) /\ t \in Tasks /\ t[2] \in Messages /\ t[2] \in Nat /\ t[2] <= arrived
        /\ t[1] = "stream" => type[t[2]] = "stream"
        /\ t[1] # "stream" => type[t[2]] = "plain"
    BY <1>F, OrderFacts, TasksArrived DEF OrderInv, Undelivered
  <2>2. ASSUME t[1] = "gather" \/ (t[1] = "push" /\ t[3] = c)
        PROVE  Below(handled'[c], t[2], Plain') /\ Below(iq'[c], t[2], Plain')
    <3>1. Below(handled[c], t[2], Plain) /\ Below(iq[c], t[2], Plain)
      BY <2>1, <2>2 DEF Ahead
    <3>2. ASSUME NEW x \in Messages \cup {CloseMark}, Adds(c, x), x \in Plain
          PROVE  x < t[2]
      <4>1. PICK u \in Tasks : Taken(u) /\ u[1] = "push" /\ u[2] = x /\ u[3] = c
        <5>1. x \in Messages /\ type[x] = "plain"
          BY <3>2 DEF Plain
        <5>2. ~(sub[c][x] = "handled")
          BY <1>F, <5>1 DEF Arrivals
        <5>3. ASSUME NEW u \in Tasks, Taken(u), u[1] = "stream", u[2] = x PROVE FALSE
          BY <5>1, <5>3, FirstTask
        <5> QED BY <1>F, <3>2, <5>1, <5>2, <5>3 DEF Adds
      <4> QED BY <1>2, <1>H, <2>2, <4>1 DEF Behind
    <3> QED BY <2>1, <3>1, <3>2, BelowAfter
  <2>3. ASSUME t[1] = "stream", t[3] = c
        PROVE  sub'[c][t[2]] = "new" /\ ~InSeq(t[2], iq'[c])
    <3>1. sub[c][t[2]] = "new" /\ ~InSeq(t[2], iq[c])
      BY <2>1, <2>3 DEF Ahead
    <3>2. ~(\E u \in Tasks : Taken(u) /\ u[1] = "stream" /\ u[2] = t[2] /\ u[3] = c)
      BY <1>2, <1>H, <2>3 DEF Behind
    <3>3. sub'[c][t[2]] = "new"
      BY <2>1, <3>1, <3>2, SubAfter DEF Opens
    <3>4. ASSUME NEW x \in Messages \cup {CloseMark}, Adds(c, x) PROVE x # t[2]
      <4> SUFFICES ASSUME x = t[2] PROVE FALSE
        OBVIOUS
      <4>1. ASSUME NEW u \in Tasks, Taken(u), u[1] = "push", u[2] = x PROVE FALSE
        BY <2>1, <2>3, <4>1, FirstTask
      <4> QED BY <1>F, <2>1, <3>1, <3>2, <3>4, <4>1 DEF Adds
    <3>5. ASSUME NEW x \in Messages \cup {CloseMark}, iq'[c] = Append(iq[c], x), Adds(c, x)
          PROVE  ~InSeq(t[2], iq'[c])
      <4>1. iq[c] \in Seq(Nat) /\ x \in Nat /\ x # t[2]
        BY <3>4, <3>5, OrderFacts DEF CloseMark
      <4> QED BY <3>1, <3>5, <4>1, AppendAt
    <3>6. ASSUME iq[c] # <<>>, iq'[c] = Tail(iq[c]) PROVE ~InSeq(t[2], iq'[c])
      <4>1. iq[c] \in Seq(Nat)
        BY OrderFacts
      <4>2. \A y : InSeq(y, Tail(iq[c])) => InSeq(y, iq[c])
        BY <3>6, <4>1, TailAt
      <4> QED BY <3>1, <3>6, <4>2
    <3> QED BY <3>1, <3>3, <3>5, <3>6, LineAfter DEF Moves
  <2>4. t[1] # "gather" /\ t[3] = c => c \in Registered'
    BY <2>1, Stable DEF Ahead
  <2> QED BY <1>2, <2>2, <2>3, <2>4 DEF Ahead
<1>3. ASSUME Spawned(ready'[i]) PROVE Ahead(c, ready[i])'
  <2> DEFINE t == ready'[i]
  <2>0. \A y : InSeq(y, handled[c]) \/ InSeq(y, iq[c]) => y \in Nat /\ y <= arrived
    BY PlainKept
  <2>1. ASSUME t[1] = "gather", t[2] = arrived + 1 PROVE Ahead(c, ready[i])'
    <3>1. Below(handled[c], t[2], Plain) /\ Below(iq[c], t[2], Plain) /\ t[2] \in Nat
      BY <1>F, <2>0, <2>1 DEF Below
    <3>2. ASSUME NEW x \in Messages \cup {CloseMark}, Adds(c, x), x \in Plain
          PROVE  x < t[2]
      <4>1. x \in Nat /\ x <= arrived
        BY <1>F, <3>2, AddFacts DEF Plain
      <4> QED BY <1>F, <2>1, <4>1
    <3>3. Below(handled'[c], t[2], Plain') /\ Below(iq'[c], t[2], Plain')
      BY <3>1, <3>2, BelowAfter
    <3> QED BY <2>1, <3>3 DEF Ahead
  <2>2. ASSUME t[1] = "push", t[3] \in Registered, ready # <<>>,
               Head(ready)[1] = "gather", t[2] = Head(ready)[2]
        PROVE  Ahead(c, ready[i])'
    <3>1. 1 \in DOMAIN ready /\ Head(ready) = ready[1]
      BY <1>F, <2>2, TailTasks
    <3>2. Ahead(c, Head(ready)) /\ t[2] \in Messages
      BY <2>2, <3>1, OrderFacts DEF OrderInv, Undelivered
    <3>3. Below(handled[c], t[2], Plain) /\ Below(iq[c], t[2], Plain) /\ t[2] \in Nat
      BY <1>F, <2>2, <3>2 DEF Ahead
    <3>4. ASSUME NEW x \in Messages \cup {CloseMark}, Adds(c, x), x \in Plain PROVE FALSE
      <4>1. x \in Messages /\ type[x] = "plain"
        BY <3>4 DEF Plain
      <4>2. ~(sub[c][x] = "handled")
        BY <1>F, <4>1 DEF Arrivals
      <4>3. \A u \in Tasks : Taken(u) => u[1] = "gather"
        BY <2>2 DEF Taken
      <4> QED BY <1>F, <3>4, <4>1, <4>2, <4>3 DEF Adds
    <3>5. Below(handled'[c], t[2], Plain') /\ Below(iq'[c], t[2], Plain')
      BY <3>3, <3>4, BelowAfter
    <3>6. t[3] = c => c \in Registered'
      BY <2>2, Stable
    <3> QED BY <2>2, <3>5, <3>6 DEF Ahead
  <2>3. ASSUME t[1] = "stream", t[2] = arrived + 1, t[3] \in Registered,
               sub'[t[3]][t[2]] = "new"
        PROVE  Ahead(c, ready[i])'
    <3>1. ~InSeq(t[2], iq[c])
      BY <1>F, <2>0, <2>3
    <3>2. ASSUME NEW x \in Messages \cup {CloseMark}, iq'[c] = Append(iq[c], x), Adds(c, x)
          PROVE  ~InSeq(t[2], iq'[c])
      <4>1. iq[c] \in Seq(Nat) /\ x \in Nat /\ x <= arrived
        BY <3>2, AddFacts, OrderFacts DEF CloseMark
      <4> QED BY <1>F, <2>3, <3>1, <3>2, <4>1, AppendAt
    <3>3. ASSUME iq[c] # <<>>, iq'[c] = Tail(iq[c]) PROVE ~InSeq(t[2], iq'[c])
      <4>1. iq[c] \in Seq(Nat)
        BY OrderFacts
      <4>2. \A y : InSeq(y, Tail(iq[c])) => InSeq(y, iq[c])
        BY <3>3, <4>1, TailAt
      <4> QED BY <3>1, <3>3, <4>2
    <3>4. ~InSeq(t[2], iq'[c])
      BY <3>1, <3>2, <3>3, LineAfter DEF Moves
    <3>5. t[3] = c => c \in Registered'
      BY <2>3, Stable
    <3> QED BY <2>3, <3>4, <3>5 DEF Ahead
  <2> QED BY <1>3, <2>1, <2>2, <2>3 DEF Spawned
<1> QED BY <1>1, <1>2, <1>3 DEF ReadyIs

-----------------------------------------------------------------------------
(* The theorems about the order *)

LEMMA StepOrderInv == OrderInv /\ [Next]_readerVars => OrderInv'
<1> SUFFICES ASSUME OrderInv, [Next]_readerVars PROVE OrderInv'
  OBVIOUS
<1>1. ReaderInv'
  BY StepTypes, StepIterators, StepFresh, StepDeliveries, StepFutures, StepSettled, StepAcks
     DEF OrderInv, ReaderInv
<1>2. OtherTypes' /\ Arrivals' /\ Undelivered' /\ Waiting'
  BY StepOtherTypes, StepArrivals, StepUndelivered, StepWaiting
<1>3. \A c \in Consumers : Line(c)'
  BY StepLine
<1> QED BY <1>1, <1>2, <1>3 DEF OrderInv, Consumers

LEMMA OrderInvariant == Spec => []OrderInv
BY InitOrderInv, StepOrderInv, PTL DEF Spec

\* reader.py:105-156, iterable.py:16-47: whatever the interleaving of deliveries,
\* pushes, streams and closes, a consumer is done with the plain messages in the
\* order they arrived and finds none of them behind the end of its iteration.
THEOREM PlainArriveInOrder == Spec => []PlainInOrder
<1>1. OrderInv => PlainInOrder
  <2> SUFFICES ASSUME OrderInv, NEW c \in Consumers
               PROVE  /\ \A i, j \in DOMAIN handled[c] :
                           i < j /\ IsPlain(handled[c][i]) /\ IsPlain(handled[c][j]) =>
                             handled[c][i] < handled[c][j]
                      /\ \A i, j \in DOMAIN iq[c] :
                           i < j /\ iq[c][i] = CloseMark => ~IsPlain(iq[c][j])
    BY DEF PlainInOrder
  <2>1. InOrder(handled[c], iq[c], Plain)
    BY DEF OrderInv, Line
  <2>2. /\ \A i \in DOMAIN handled[c] : InSeq(handled[c][i], handled[c])
        /\ \A i \in DOMAIN iq[c] : InSeq(iq[c][i], iq[c])
    BY DEF InSeq
  <2>3. ASSUME NEW x, InSeq(x, handled[c]) \/ InSeq(x, iq[c]), IsPlain(x) PROVE x \in Plain
    BY <2>3, OrderFacts DEF IsPlain, Plain
  <2> QED BY <2>1, <2>2, <2>3 DEF InOrder, Ascending
<1> QED BY OrderInvariant, <1>1, PTL

LEMMA QueuesHoldNothingTwice ==
  ASSUME OrderInv, NEW c \in Consumers
  PROVE  \A i, j \in DOMAIN iq[c] : iq[c][i] = iq[c][j] => i = j
BY DEF OrderInv, Line, InOrder

\* reader.py:81-166, 280-289: the variables keep their types, and the queue of an iterator
\* holds each message that arrived at most once, and one end mark.
THEOREM TypeCorrect == Spec => []TypeOK
<1>1. OrderInv => TypeOK
  <2> SUFFICES ASSUME OrderInv PROVE TypeOK
    OBVIOUS
  <2>1. Types /\ OtherTypes /\ arrived \in Nat
    BY OrderFacts DEF OrderInv
  <2>2. arrived \in 0..MaxMessages
    BY <2>1, ReaderAssumption DEF OtherTypes, ReaderAssumption
  <2>3. \A c \in Consumers : \A i, j \in DOMAIN iq[c] : iq[c][i] = iq[c][j] => i = j
    BY QueuesHoldNothingTwice
  <2> QED BY <2>1, <2>2, <2>3 DEF TypeOK, Types, OtherTypes, Tasks
<1> QED BY OrderInvariant, <1>1, PTL

-----------------------------------------------------------------------------
(* The order of the acks, for modules that compose the reader: while it is     *)
(* open a plain message whose consumers are done with it has nothing ahead.    *)

\* Until it was divided among the consumers a plain message waits as a task, and
\* for every consumer that is not done with it there is a push or an entry.
Handoff ==
  ~closed =>
    \A m \in Messages :
      /\ stage[m] = "spawned" => InSeq(<<"gather", m>>, ready)
      /\ type[m] = "plain" =>
           /\ stage[m] \in {"spawned", "waiting", "ack", "acked"}
           /\ \A c \in waitFor[m] :
                m \in failed \/ InSeq(<<"push", m, c>>, ready) \/ InSeq(m, iq[c])

\* Messages are divided in the order they arrived, among a list that grows.
Division ==
  /\ \A m \in Messages : waitFor[m] \subseteq parts[m] /\ parts[m] \subseteq Registered
  /\ ~closed =>
       \A k, m \in Messages :
         k < m /\ type[k] = "plain" /\ type[m] = "plain" /\ stage[m] # "spawned" =>
           stage[k] # "spawned" /\ parts[k] \subseteq parts[m]

TurnInv == OrderInv /\ Handoff /\ Division /\ \A m \in Messages : IsAcked(m) => InSeq(m, acked)

LEMMA InitTurnInv == Init => TurnInv
<1>1. Init => OrderInv
  BY InitOrderInv
<1>2. Init => Handoff /\ Division /\ \A m \in Messages : IsAcked(m) => InSeq(m, acked)
  BY DEF Init, Handoff, Division, IsAcked
<1> QED BY <1>1, <1>2 DEF TurnInv

\* A task leaves those that wait when it runs, and only the first one does.
LEMMA TasksKept ==
  ASSUME OrderInv, [Next]_readerVars, NEW t, InSeq(t, ready), ~InSeq(t, ready')
  PROVE  /\ RunGather \/ RunPush \/ RunStreamTask
         /\ ready # <<>> /\ t = Head(ready)
<1>1. /\ Types /\ Iterators /\ ready \in Seq(Tasks)
      /\ \A i \in DOMAIN ready : ready[i][2] \in Messages /\ ready[i] \in Tasks
  BY OrderFacts DEF Types
<1>C. ASSUME NEW s \in Seq(Tasks), NEW n \in Messages, NEW k \in {"push", "stream"},
             InSeq(t, s)
      PROVE  InSeq(t, s \o TasksOf(k, n))
  <2>1. /\ \A i \in DOMAIN s : i \in DOMAIN (s \o TasksOf(k, n))
        /\ \A i \in DOMAIN s : (s \o TasksOf(k, n))[i] = s[i]
    BY <1>1, TasksBefore
  <2> QED BY <1>C, <2>1 DEF InSeq
<1>T. ready # <<>> /\ (t = Head(ready) \/ InSeq(t, Tail(ready)))
  <2>1. PICK i \in DOMAIN ready : ready[i] = t
    BY DEF InSeq
  <2>2. ready # <<>> /\ (i = 1 \/ (i - 1 \in DOMAIN Tail(ready) /\ Tail(ready)[i - 1] = t))
    BY <1>1, <2>1
  <2> QED BY <1>1, <2>1, <2>2 DEF InSeq
<1>2. ASSUME NEW n \in Messages, HandleMsg(n) PROVE FALSE
  <2>1. ready' = ready \/ ready' = Append(ready, <<"gather", n>>)
    BY <1>2 DEF HandleMsg
  <2>2. <<"gather", n>> \in Tasks
    BY DEF Tasks
  <2>3. InSeq(t, Append(ready, <<"gather", n>>))
    BY <1>1, <2>2, AppendHas
  <2> QED BY <2>1, <2>3
<1>3. ASSUME NEW n \in Messages, HandleStream(n) PROVE FALSE
  <2>1. ready' = ready \o TasksOf("stream", n)
    BY <1>3 DEF HandleStream, TasksOf
  <2> QED BY <1>1, <1>C, <2>1
<1>4. CASE RunGather
  <2>1. PICK n \in Messages : n = Head(ready)[2]
    BY <1>1, <1>4, TailTasks, TaskParts DEF RunGather, RunPlainTask
  <2>2. ready' = Tail(ready) \o TasksOf("push", n)
    BY <1>4, <2>1 DEF RunGather, RunPlainTask, GatherPushes, TasksOf
  <2>3. Tail(ready) \in Seq(Tasks)
    BY <1>1, <1>T, TailTasks
  <2> QED BY <1>4, <1>T, <1>C, <2>2, <2>3
<1>5. CASE RunPush \/ RunStreamTask
  <2>1. ready' = Tail(ready)
    BY <1>5 DEF RunPush, RunPlainTask, RunStreamTask, Push
  <2> QED BY <1>5, <1>T, <2>1
<1>6. ready' # ready
  OBVIOUS
<1>7. ASSUME NEW n \in Messages,
             \/ HandleStreamClosed(n) \/ OpenStream(n) \/ Drain(n) \/ Notify(n) \/ WriteAck(n)
      PROVE  FALSE
  BY <1>6, <1>7 DEF HandleStreamClosed, OpenStream, Drain, Notify, WriteAck
<1>8. ASSUME NEW n \in Messages, NEW c \in Consumers, SubStep(c, n) PROVE FALSE
  BY <1>6, <1>8 DEF SubStep, HandleChunk, EndSub, LeaveSub
<1>9. ASSUME NEW c \in Consumers,
             Register(c) \/ Get(c) \/ GetClose(c) \/ Complete(c) \/ Quit(c)
      PROVE  FALSE
  BY <1>6, <1>9 DEF Register, Get, GetClose, Complete, Quit
<1>10. ~(Close \/ UNCHANGED readerVars)
  BY <1>6 DEF Close, readerVars
<1> QED BY <1>2, <1>3, <1>4, <1>5, <1>7, <1>8, <1>9, <1>10, NextCases

\* An item leaves the queue when the consumer is done with it.
LEMMA ItemsKept ==
  ASSUME OrderInv, [Next]_readerVars, NEW c \in Consumers, NEW m \in Messages,
         InSeq(m, iq[c]), ~InSeq(m, iq'[c])
  PROVE  Complete(c) /\ m = Holding(c)
<1>F. iq[c] \in Seq(Nat) /\ CloseMark \in Nat /\ m # CloseMark /\ m \in Nat
  BY OrderFacts DEF CloseMark
<1>1. ASSUME NEW x \in Messages \cup {CloseMark}, iq'[c] = Append(iq[c], x) PROVE FALSE
  <2>1. x \in Nat
    BY OrderFacts DEF CloseMark
  <2> QED BY <1>F, <1>1, <2>1, AppendAt
<1>2. ASSUME iq[c] # <<>>, iq'[c] = Tail(iq[c]) PROVE m = Head(iq[c])
  BY <1>F, <1>2, TailAt
<1>3. iq[c] # <<>> /\ iq'[c] = Tail(iq[c]) /\ m = Head(iq[c])
  BY <1>1, <1>2, LineAfter DEF Moves
<1>4. iq' # iq
  OBVIOUS
<1>L. Len(iq'[c]) < Len(iq[c])
  BY <1>F, <1>3
<1>T. Types
  BY OrderFacts
<1>A. \A d \in Consumers, x \in Messages : iq' # [iq EXCEPT ![d] = Append(@, x)]
  BY <1>1, <1>4, <1>T DEF Types
<1>5. ASSUME NEW d \in Consumers, NEW n \in Messages, SubStep(d, n) PROVE FALSE
  BY <1>4, <1>A, <1>5 DEF SubStep, HandleChunk, EndSub, LeaveSub, iterating
<1>6. ~RunPush /\ ~RunStreamTask
  <2>1. ASSUME RunPush \/ RunStreamTask
        PROVE  iq' = iq \/ \E d \in Consumers, x \in Messages : iq' = [iq EXCEPT ![d] = Append(@, x)]
    <3>1. Head(ready)[2] \in Messages /\ Head(ready)[3] \in Consumers
      BY <1>T, <2>1, TailTasks, TaskParts DEF Types, RunPush, RunPlainTask, RunStreamTask
    <3> QED BY <2>1, <3>1 DEF RunPush, RunPlainTask, RunStreamTask, Push
  <2> QED BY <1>4, <1>A, <2>1
<1>7. ~Close
  BY <1>1, <1>T, <1>3 DEF Close, Types
<1>8. ~RunGather /\ iq # iq'
  BY <1>4 DEF RunGather, RunPlainTask, GatherPushes
<1>9. ASSUME NEW n \in Messages,
             \/ HandleMsg(n) \/ HandleStream(n) \/ HandleStreamClosed(n)
             \/ OpenStream(n) \/ Drain(n) \/ Notify(n) \/ WriteAck(n)
      PROVE  FALSE
  BY <1>4, <1>9 DEF HandleMsg, HandleStream, HandleStreamClosed, OpenStream, Drain, Notify,
                    WriteAck, iterating
<1>10. ASSUME NEW d \in Consumers, Register(d) \/ Get(d) \/ Quit(d) PROVE FALSE
  BY <1>4, <1>10 DEF Register, Get, Quit, iterating
<1>11. ASSUME NEW d \in Consumers, GetClose(d) \/ Complete(d)
       PROVE  d = c /\ Complete(d)
  <2>1. d = c
    BY <1>3, <1>L, <1>11, <1>T DEF GetClose, Complete, Types
  <2> QED BY <1>3, <1>11, <1>F, <2>1 DEF GetClose
<1>12. ~(UNCHANGED readerVars)
  BY <1>4 DEF readerVars, iterating
<1>13. Complete(c)
  BY <1>5, <1>6, <1>7, <1>8, <1>9, <1>10, <1>11, <1>12, NextCases
<1> QED BY <1>3, <1>13 DEF Holding

\* What a step does to a message: it arrives, is divided, or goes on.
Divides(m) ==
  /\ RunGather /\ m = Head(ready)[2]
  /\ type'[m] = type[m] /\ stage'[m] = "waiting"
  /\ parts'[m] = Registered /\ waitFor'[m] = Registered
  /\ \A c \in Registered : InSeq(<<"push", m, c>>, ready')

Continues(m) ==
  /\ type'[m] = type[m] /\ parts'[m] = parts[m] /\ waitFor'[m] \subseteq waitFor[m]
  /\ \/ stage'[m] = stage[m]
     \/ stage[m] = "opening" /\ stage'[m] = "waiting"
     \/ stage[m] \in {"waiting", "draining"} /\ stage'[m] = "ack"
     \/ stage[m] = "ack" /\ stage'[m] = "acked" /\ InSeq(m, acked')

Comes(m) ==
  /\ m = arrived + 1
  /\ \/ /\ parts'[m] = parts[m] /\ waitFor'[m] = waitFor[m] /\ stage'[m] # "acked"
        /\ \/ closed
           \/ stage'[m] = "spawned" /\ InSeq(<<"gather", m>>, ready')
     \/ /\ type'[m] = "stream" /\ stage'[m] = "opening"
        /\ parts'[m] = Registered /\ waitFor'[m] = Registered

LEMMA MessageAfter ==
  ASSUME OrderInv, [Next]_readerVars, NEW m \in Messages
  PROVE  Divides(m) \/ Continues(m) \/ Comes(m)
<1>T. Types /\ Iterators /\ Fresh /\ ready \in Seq(Tasks) /\ arrived \in Nat
  BY OrderFacts DEF Types
<1>U. UNCHANGED <<type, parts, waitFor, stage>> => Continues(m)
  BY DEF Continues
<1>1. ASSUME NEW n \in Messages, HandleMsg(n) PROVE Comes(m) \/ Continues(m)
  <2>1. CASE m # n
    BY <1>T, <1>1, <2>1 DEF HandleMsg, Arrive, Types, Continues
  <2>2. CASE m = n
    <3>1. <<"gather", m>> \in Tasks
      BY DEF Tasks
    <3>2. ~closed => InSeq(<<"gather", m>>, ready')
      BY <1>T, <1>1, <2>2, <3>1, AppendHas DEF HandleMsg
    <3>3. /\ m = arrived + 1 /\ parts' = parts /\ waitFor' = waitFor
          /\ stage'[m] = IF closed THEN "ack" ELSE "spawned"
      BY <1>T, <1>1, <2>2 DEF HandleMsg, Arrive, Types
    <3> QED BY <3>2, <3>3 DEF Comes
  <2> QED BY <2>1, <2>2
<1>2. ASSUME NEW n \in Messages, HandleStreamClosed(n) PROVE Comes(m) \/ Continues(m)
  BY <1>T, <1>2 DEF HandleStreamClosed, Arrive, Types, Continues, Comes
<1>3. ASSUME NEW n \in Messages, HandleStream(n) PROVE Comes(m) \/ Continues(m)
  BY <1>T, <1>3 DEF HandleStream, Arrive, Types, Continues, Comes
<1>4. ASSUME NEW n \in Messages, OpenStream(n) \/ Notify(n) PROVE Continues(m)
  BY <1>T, <1>4 DEF OpenStream, Notify, Types, Continues
<1>5. ASSUME NEW n \in Messages, WriteAck(n) PROVE Continues(m)
  <2>1. /\ acked \in Seq(Messages) /\ acked' = Append(acked, n) /\ stage[n] = "ack"
        /\ stage' = [stage EXCEPT ![n] = "acked"] /\ UNCHANGED <<type, parts, waitFor>>
    BY <1>T, <1>5 DEF WriteAck, Types
  <2>2. InSeq(n, acked')
    BY <2>1, AppendHas
  <2> QED BY <1>T, <2>1, <2>2 DEF Types, Continues
<1>6. CASE RunGather
  <2>1. PICK n \in Messages : n = Head(ready)[2]
    BY <1>T, <1>6, TailTasks, TaskParts DEF RunGather, RunPlainTask
  <2>2. /\ GatherPushes(n) /\ type' = type /\ ready' = Tail(ready) \o TasksOf("push", n)
        /\ Tail(ready) \in Seq(Tasks)
    BY <1>T, <1>6, <2>1, TailTasks DEF RunGather, RunPlainTask, GatherPushes, TasksOf
  <2>3. CASE m # n
    BY <1>T, <2>2, <2>3 DEF GatherPushes, Continues, Types
  <2>4. CASE m = n
    <3>1. \A c \in Registered : InSeq(<<"push", m, c>>, ready')
      BY <1>T, <2>2, <2>4, TasksBefore
    <3>2. stage'[m] = "waiting" /\ parts'[m] = Registered /\ waitFor'[m] = Registered
      BY <1>T, <2>2, <2>4 DEF GatherPushes, Types
    <3> QED BY <1>6, <2>1, <2>2, <2>4, <3>1, <3>2 DEF Divides
  <2> QED BY <2>3, <2>4
<1>7. CASE RunPush
  <2>1. PICK n \in Messages, c \in Consumers : Push(c, n)
    BY <1>T, <1>7, TailTasks, TaskParts DEF RunPush, RunPlainTask
  <2>2. /\ UNCHANGED <<type, parts, stage>>
        /\ waitFor' = waitFor \/ waitFor' = [waitFor EXCEPT ![n] = @ \ {c}]
    BY <1>7, <2>1 DEF RunPush, RunPlainTask, Push
  <2>3. waitFor \in [Messages -> SUBSET Consumers]
    BY <1>T DEF Types
  <2>4. waitFor'[m] \subseteq waitFor[m]
    BY <2>2, <2>3
  <2> QED BY <2>2, <2>4 DEF Continues
<1>8. ASSUME NEW c \in Consumers, Complete(c) PROVE Continues(m)
  BY <1>T, <1>8 DEF Complete, Continues, Types
<1>9. ASSUME NEW c \in Consumers, Register(c) \/ Get(c) \/ GetClose(c) \/ Quit(c)
      PROVE  Continues(m)
  BY <1>U, <1>9 DEF Register, Get, GetClose, Quit, handling
<1>10. ASSUME NEW n \in Messages, NEW c \in Consumers, Drain(n) \/ SubStep(c, n)
       PROVE  Continues(m)
  BY <1>U, <1>10 DEF Drain, SubStep, HandleChunk, EndSub, LeaveSub, handling
<1>11. ASSUME NEW n \in Messages, Drain(n) PROVE Continues(m)
  BY <1>U, <1>11 DEF Drain, handling
<1>12. CASE RunStreamTask \/ Close \/ UNCHANGED readerVars
  BY <1>U, <1>12 DEF RunStreamTask, Close, readerVars, handling
<1> QED BY <1>1, <1>2, <1>3, <1>4, <1>5, <1>6, <1>7, <1>8, <1>9, <1>10, <1>11, <1>12, NextCases

\* What is acked, closed or failed stays so.
LEMMA Lasting ==
  ASSUME OrderInv, [Next]_readerVars
  PROVE  /\ \A x : InSeq(x, acked) => InSeq(x, acked')
         /\ closed => closed'
         /\ failed \subseteq failed'
<1>1. acked' = acked \/ \E m \in Messages : acked' = Append(acked, m)
  BY NextCases DEF WriteAck, HandleMsg, HandleStream, HandleStreamClosed, OpenStream, Drain,
     Notify, SubStep, HandleChunk, EndSub, LeaveSub, Register, Get, GetClose, Complete, Quit,
     RunGather, RunPush, RunPlainTask, RunStreamTask, Close, readerVars
<1>2. \A x : InSeq(x, acked) => InSeq(x, acked')
  <2>1. acked \in Seq(Messages)
    BY OrderFacts DEF Types
  <2>2. \A m \in Messages : \A x : InSeq(x, acked) => InSeq(x, Append(acked, m))
    BY <2>1, AppendHas
  <2> QED BY <1>1, <2>2
<1>3. closed' = closed \/ closed'
  BY NextCases DEF WriteAck, HandleMsg, HandleStream, HandleStreamClosed, OpenStream, Drain,
     Notify, SubStep, HandleChunk, EndSub, LeaveSub, Register, Get, GetClose, Complete, Quit,
     RunGather, RunPush, RunPlainTask, RunStreamTask, Close, readerVars
<1>4. failed' = failed \/ \E m : failed' = failed \cup {m}
  <2>1. ASSUME NEW m \in Messages, \/ HandleMsg(m) \/ HandleStream(m)
                                   \/ HandleStreamClosed(m) \/ OpenStream(m) \/ Drain(m)
                                   \/ Notify(m) \/ WriteAck(m)
        PROVE  failed' = failed
    BY <2>1 DEF WriteAck, HandleMsg, HandleStream, HandleStreamClosed, OpenStream, Drain,
                Notify, handling
  <2>2. ASSUME NEW m \in Messages, NEW c \in Consumers, SubStep(c, m)
        PROVE  failed' = failed
    BY <2>2 DEF SubStep, HandleChunk, EndSub, LeaveSub, handling
  <2>3. ASSUME NEW c \in Consumers,
               Register(c) \/ Get(c) \/ GetClose(c) \/ Complete(c) \/ Quit(c)
        PROVE  failed' = failed
    BY <2>3 DEF Register, Get, GetClose, Complete, Quit, handling
  <2>4. CASE RunStreamTask \/ Close \/ UNCHANGED readerVars
    BY <2>4 DEF RunStreamTask, Close, readerVars, handling
  <2>5. CASE RunGather \/ RunPush
    BY <2>5 DEF RunGather, RunPush, RunPlainTask, Push, GatherPushes
  <2> QED BY <2>1, <2>2, <2>3, <2>4, <2>5, NextCases
<1> QED BY <1>2, <1>3, <1>4

LEMMA StepHandoff ==
  ASSUME TurnInv, [Next]_readerVars
  PROVE  Handoff'
<1>T. /\ OrderInv /\ Types /\ Iterators /\ Fresh /\ Deliveries /\ arrived \in Nat
      /\ Handoff /\ Division
  BY OrderFacts DEF TurnInv
<1> SUFFICES ASSUME ~closed', NEW m \in Messages
             PROVE  /\ stage'[m] = "spawned" => InSeq(<<"gather", m>>, ready')
                    /\ type'[m] = "plain" =>
                         /\ stage'[m] \in {"spawned", "waiting", "ack", "acked"}
                         /\ \A c \in waitFor'[m] :
                              \/ m \in failed'
                              \/ InSeq(<<"push", m, c>>, ready') \/ InSeq(m, iq'[c])
  BY DEF Handoff, Messages
<1>0. ~closed /\ failed \subseteq failed'
  BY <1>T, Lasting
<1>M. Messages' = Messages
  BY DEF Messages
<1>1. CASE Divides(m)
  BY <1>1 DEF Divides
<1>2. CASE Comes(m)
  <2>1. waitFor[m] = {} /\ parts[m] = {}
    <3>1. m > arrived
      BY <1>T, <1>2 DEF Comes
    <3> QED BY <1>T, <3>1 DEF Fresh, Division
  <2> QED BY <1>0, <1>2, <2>1 DEF Comes
<1>3. CASE Continues(m)
  <2>1. ASSUME stage'[m] = "spawned" PROVE InSeq(<<"gather", m>>, ready')
    <3>1. stage[m] = "spawned" /\ InSeq(<<"gather", m>>, ready)
      BY <1>0, <1>3, <1>T, <2>1 DEF Continues, Handoff
    <3> SUFFICES ASSUME ~InSeq(<<"gather", m>>, ready') PROVE FALSE
      OBVIOUS
    <3>2. /\ RunGather \/ RunPush \/ RunStreamTask
          /\ ready # <<>> /\ Head(ready)[1] = "gather" /\ Head(ready)[2] = m
      BY <1>T, <3>1, TasksKept
    <3>3. RunGather
      BY <3>2 DEF RunPush, RunStreamTask
    <3>4. stage'[m] = "waiting"
      BY <1>T, <3>2, <3>3 DEF RunGather, RunPlainTask, GatherPushes, Types
    <3> QED BY <2>1, <3>4
  <2>2. ASSUME type'[m] = "plain"
        PROVE  stage'[m] \in {"spawned", "waiting", "ack", "acked"}
    BY <1>0, <1>3, <1>T, <2>2 DEF Continues, Handoff
  <2>3. ASSUME type'[m] = "plain", NEW c \in waitFor'[m], m \notin failed',
               ~InSeq(<<"push", m, c>>, ready')
        PROVE  InSeq(m, iq'[c])
    <3>1. /\ c \in waitFor[m] /\ m \notin failed /\ c \in Consumers
          /\ InSeq(<<"push", m, c>>, ready) \/ InSeq(m, iq[c])
      BY <1>0, <1>3, <1>T, <2>3 DEF Continues, Handoff, Types
    <3>2. CASE InSeq(<<"push", m, c>>, ready)
      <4>1. /\ RunGather \/ RunPush \/ RunStreamTask
            /\ ready # <<>> /\ Head(ready)[1] = "push" /\ Head(ready)[2] = m
            /\ Head(ready)[3] = c
        BY <1>T, <2>3, <3>2, TasksKept
      <4>2. RunPush
        BY <4>1 DEF RunGather, RunStreamTask
      <4>3. Push(c, m) /\ c \notin iterClosed
        BY <1>0, <1>T, <4>1, <4>2 DEF RunPush, RunPlainTask, Iterators
      <4>4. iq' = [iq EXCEPT ![c] = Append(@, m)]
        BY <2>3, <4>3 DEF Push
      <4>5. iq'[c] = Append(iq[c], m) /\ iq[c] \in Seq(Messages \cup {CloseMark})
        BY <1>T, <3>1, <4>4 DEF Types
      <4> QED BY <4>5, AppendHas
    <3>3. CASE InSeq(m, iq[c])
      <4> SUFFICES ASSUME ~InSeq(m, iq'[c]) PROVE FALSE
        OBVIOUS
      <4>1. Complete(c) /\ m = Holding(c)
        BY <1>T, <3>1, <3>3, ItemsKept
      <4>2. waitFor'[m] = waitFor[m] \ {c}
        BY <1>T, <4>1 DEF Complete, Types
      <4> QED BY <2>3, <4>2
    <3> QED BY <3>1, <3>2, <3>3
  <2> QED BY <2>1, <2>2, <2>3
<1> QED BY <1>T, <1>1, <1>2, <1>3, MessageAfter

LEMMA StepDivision ==
  ASSUME TurnInv, [Next]_readerVars
  PROVE  Division'
<1>T. /\ OrderInv /\ Types /\ Iterators /\ Fresh /\ Deliveries /\ arrived \in Nat
      /\ Handoff /\ Division /\ Messages \subseteq Nat /\ Waiting /\ ready \in Seq(Tasks)
  BY OrderFacts DEF TurnInv, OrderInv, Types
<1>M. Messages' = Messages
  BY DEF Messages
<1>R. Registered \subseteq Registered'
  BY <1>T, Stable
<1>1. ASSUME NEW m \in Messages
      PROVE  waitFor'[m] \subseteq parts'[m] /\ parts'[m] \subseteq Registered'
  <2>1. waitFor[m] \subseteq parts[m] /\ parts[m] \subseteq Registered
    BY <1>T DEF Division
  <2>2. Divides(m) \/ Continues(m) \/ Comes(m)
    BY <1>T, MessageAfter
  <2> QED BY <1>R, <2>1, <2>2 DEF Divides, Continues, Comes
<1>2. ASSUME ~closed', NEW k \in Messages, NEW m \in Messages, k < m,
             type'[k] = "plain", type'[m] = "plain", stage'[m] # "spawned"
      PROVE  stage'[k] # "spawned" /\ parts'[k] \subseteq parts'[m]
  <2>0. ~closed /\ k \in Nat /\ m \in Nat
    BY <1>T, <1>2, Lasting
  <2>1. ~Comes(m)
    BY <2>0, <1>2 DEF Comes
  <2>2. ~Comes(k)
    <3>1. m <= arrived'
      BY <1>T, <1>2, <2>0, Stable
    <3>2. ASSUME Comes(k) PROVE FALSE
      <4>1. k = arrived + 1 /\ m > arrived + 1
        BY <1>T, <1>2, <2>0, <3>2 DEF Comes
      <4>2. m > arrived /\ type[m] = "none"
        BY <1>T, <2>0, <4>1 DEF OrderInv, Arrivals
      <4>3. type'[m] = type[m]
        BY <1>T, <2>1, MessageAfter DEF Divides, Continues
      <4> QED BY <1>2, <4>2, <4>3
    <3> QED BY <3>2
  <2>3. (Divides(m) \/ Continues(m)) /\ (Divides(k) \/ Continues(k))
    BY <1>T, <2>1, <2>2, MessageAfter
  <2>4. type[k] = "plain" /\ type[m] = "plain"
    BY <1>2, <2>3 DEF Divides, Continues
  \* The one that is divided is the first of those that wait for it.
  <2>5. CASE Divides(m)
    <3>1. 1 \in DOMAIN ready /\ ready[1] = Head(ready) /\ Head(ready)[1] = "gather"
          /\ Head(ready)[2] = m
      BY <1>T, <2>5, TailTasks DEF Divides, RunGather, RunPlainTask
    <3>2. stage[k] # "spawned"
      <4> SUFFICES ASSUME stage[k] = "spawned" PROVE FALSE
        OBVIOUS
      <4>1. PICK i \in DOMAIN ready : ready[i] = <<"gather", k>>
        BY <1>T, <2>0 DEF Handoff, InSeq
      <4>2. i \in Nat /\ i >= 1
        BY <1>T
      <4>3. CASE i = 1
        BY <1>2, <2>0, <3>1, <4>1, <4>3
      <4>4. CASE i > 1
        <5>1. Behind(ready[1], ready[i])
          BY <1>T, <3>1, <4>2, <4>4 DEF Waiting
        <5> QED BY <1>2, <2>0, <3>1, <4>1, <5>1 DEF Behind
      <4> QED BY <4>2, <4>3, <4>4
    <3>3. Continues(k)
      BY <1>2, <2>0, <2>3, <2>5 DEF Divides
    <3>4. parts[k] \subseteq Registered
      BY <1>T DEF Division
    <3> QED BY <2>5, <3>2, <3>3, <3>4 DEF Divides, Continues
  <2>6. CASE Continues(m)
    <3>1. stage[m] # "spawned"
      BY <1>2, <2>6 DEF Continues
    <3>2. stage[k] # "spawned" /\ parts[k] \subseteq parts[m]
      BY <1>T, <1>2, <2>0, <2>4, <3>1 DEF Division
    <3>3. ~Divides(k)
      <4> SUFFICES ASSUME Divides(k) PROVE FALSE
        OBVIOUS
      <4>1. 1 \in DOMAIN ready /\ ready[1][1] = "gather" /\ ready[1][2] = k
        BY <1>T, TailTasks DEF Divides, RunGather, RunPlainTask
      <4> QED BY <1>T, <3>2, <4>1 DEF Deliveries
    <3>4. Continues(k)
      BY <2>3, <3>3
    <3> QED BY <2>6, <3>2, <3>4 DEF Continues
  <2> QED BY <2>3, <2>5, <2>6
<1> QED BY <1>M, <1>1, <1>2 DEF Division

LEMMA TurnInvariant == TurnInv /\ [Next]_readerVars => TurnInv'
<1> SUFFICES ASSUME TurnInv, [Next]_readerVars PROVE TurnInv'
  OBVIOUS
<1>1. OrderInv /\ OrderInv'
  BY StepOrderInv DEF TurnInv
<1>2. Handoff' /\ Division'
  BY StepHandoff, StepDivision
<1>3. ASSUME NEW m \in Messages, stage'[m] = "acked" PROVE InSeq(m, acked')
  <2>1. Divides(m) \/ Continues(m) \/ Comes(m)
    BY <1>1, MessageAfter
  <2>2. stage[m] = "acked" => InSeq(m, acked')
    BY <1>1, Lasting DEF TurnInv, IsAcked
  <2> QED BY <1>3, <2>1, <2>2 DEF Divides, Continues, Comes
<1>4. Messages' = Messages
  BY DEF Messages
<1> QED BY <1>1, <1>2, <1>3, <1>4 DEF TurnInv, IsAcked

\* The task that waits for the consumers of a plain message may go on, or did.
Through(m) ==
  type[m] = "plain" /\ (stage[m] \in {"ack", "acked"} \/ (stage[m] = "waiting" /\ PlainSettled(m)))

\* While the reader is open, when the consumers of a plain message are done with
\* it those of the messages before it are too: none of these is held up by one
\* that is waiting.
LEMMA HandledInTurn ==
  ASSUME TurnInv, ~closed, NEW k \in Messages, NEW m \in Messages, k < m,
         type[k] = "plain", Through(m), k \notin failed, m \notin failed
  PROVE  waitFor[k] = {} /\ stage[k] \in {"waiting", "ack", "acked"}
<1>T. /\ OrderInv /\ Handoff /\ Division /\ Settled /\ Types /\ Messages \subseteq Nat
      /\ Futures /\ \A c \in Consumers : Line(c)
  BY OrderFacts DEF TurnInv, OrderInv, ReaderInv
<1>1. stage[k] # "spawned" /\ parts[k] \subseteq parts[m]
  BY <1>T DEF Division, Through
<1>2. stage[k] \in {"waiting", "ack", "acked"}
  BY <1>T, <1>1 DEF Handoff
<1>3. ASSUME NEW c \in waitFor[k] PROVE FALSE
  <2>1. c \in parts[m] /\ c \in Consumers
    BY <1>T, <1>1, <1>3 DEF Division, Types
  <2>2. InSeq(m, handled[c])
    <3>1. CASE stage[m] \in {"ack", "acked"}
      BY <1>T, <2>1, <3>1 DEF Settled, AllHandled
    <3>2. CASE stage[m] = "waiting" /\ PlainSettled(m)
      BY <1>T, <2>1, <3>2 DEF PlainSettled, Futures
    <3> QED BY <3>1, <3>2 DEF Through
  <2>3. Below(handled[c], k, Plain)
    <3>1. InSeq(<<"push", k, c>>, ready) \/ InSeq(k, iq[c])
      BY <1>T, <1>3 DEF Handoff
    <3>2. CASE InSeq(<<"push", k, c>>, ready)
      <4>1. PICK i \in DOMAIN ready : ready[i] = <<"push", k, c>>
        BY <3>2 DEF InSeq
      <4>2. Ahead(c, ready[i])
        BY <1>T, <2>1 DEF OrderInv, Undelivered
      <4> QED BY <4>1, <4>2 DEF Ahead
    <3>3. CASE InSeq(k, iq[c])
      BY <1>T, <2>1, <3>3 DEF Line, InOrder, Plain
    <3> QED BY <3>1, <3>2, <3>3
  <2>4. m \in Plain /\ k \in Nat /\ m \in Nat
    BY <1>T DEF Plain, Through
  <2> QED BY <2>2, <2>3, <2>4 DEF Below
<1> QED BY <1>2, <1>3

\* Plain messages are settled in the order they arrived, but for those that could
\* not be delivered.
SettledInOrder ==
  ~closed =>
    \A k, m \in Messages :
      k < m /\ type[k] = "plain" /\ k \notin failed /\ m \notin failed /\ Through(m) =>
        Through(k)

\* reader.py:118-156: while the reader is open the tasks that wait for the consumers of plain
\* messages may go on in the order the messages arrived, whichever consumers share them.
THEOREM SettleInOrder == Spec => []SettledInOrder
<1>1. Spec => []TurnInv
  BY InitTurnInv, TurnInvariant, PTL DEF Spec
<1>2. TurnInv => SettledInOrder
  BY HandledInTurn DEF SettledInOrder, Through, PlainSettled
<1> QED BY <1>1, <1>2, PTL

\* reader.py:105-139, iterable.py:16-20, 38-47: while the reader is open no plain message is
\* forgotten: until its consumers are done with it, it is in a task that is to run or in the
\* queue of each of them, whatever runs meanwhile, unless it could not be delivered.
THEOREM NoMessageIsForgotten == Spec => []Handoff
<1>1. TurnInv => Handoff
  BY DEF TurnInv
<1> QED BY InitTurnInv, TurnInvariant, <1>1, PTL DEF Spec

\* An iterator that was closed is at its end, or has the end mark to come.
EndsComing ==
  \A c \in Consumers :
    c \in iterClosed => it[c] \in {"ended", "gone"} \/ InSeq(CloseMark, iq[c])

LEMMA StepEndsComing == OrderInv /\ EndsComing /\ [Next]_readerVars => EndsComing'
<1> SUFFICES ASSUME OrderInv, EndsComing, [Next]_readerVars, NEW c \in Consumers,
                    c \in iterClosed'
             PROVE  it'[c] \in {"ended", "gone"} \/ InSeq(CloseMark, iq'[c])
  BY DEF EndsComing, Consumers, CloseMark
<1> DEFINE Goal == it'[c] \in {"ended", "gone"} \/ InSeq(CloseMark, iq'[c])
<1>T. Types /\ Iterators /\ iq[c] \in Seq(Nat)
  BY OrderFacts
<1>S. ASSUME it'[c] = it[c] \/ (it[c] \in {"next", "hold"} /\ it'[c] # "ended"), iq'[c] = iq[c],
             iterClosed' = iterClosed
      PROVE  Goal
  BY <1>S DEF EndsComing
<1>A. ASSUME it' = it, iterClosed' = iterClosed, NEW d \in Consumers, NEW x \in Messages,
             iq' = iq \/ iq' = [iq EXCEPT ![d] = Append(@, x)]
      PROVE  Goal
  <2>1. CASE iq'[c] = iq[c]
    BY <1>A, <1>S, <2>1
  <2>2. CASE iq'[c] # iq[c]
    <3>1. iq'[c] = Append(iq[c], x) /\ iq[c] \in Seq(Messages \cup {CloseMark})
      BY <1>A, <1>T, <2>2 DEF Types
    <3>2. InSeq(CloseMark, iq[c]) => InSeq(CloseMark, Append(iq[c], x))
      BY <3>1, AppendHas
    <3> QED BY <1>A, <3>1, <3>2 DEF EndsComing
  <2> QED BY <2>1, <2>2
<1>1. CASE Close
  <2>1. iq'[c] = Append(iq[c], CloseMark)
    BY <1>1, <1>T DEF Close
  <2>2. InSeq(CloseMark, Append(iq[c], CloseMark))
    BY <1>T, AppendHas DEF CloseMark
  <2> QED BY <2>1, <2>2
<1>2. CASE RunPush \/ RunStreamTask
  <2>1. Head(ready)[2] \in Messages /\ Head(ready)[3] \in Consumers
    BY <1>T, <1>2, TailTasks, TaskParts DEF Types, RunPush, RunPlainTask, RunStreamTask
  <2>2. it' = it /\ iterClosed' = iterClosed
    BY <1>2 DEF RunPush, RunPlainTask, RunStreamTask
  <2>3. iq' = iq \/ iq' = [iq EXCEPT ![Head(ready)[3]] = Append(@, Head(ready)[2])]
    BY <1>2 DEF RunPush, RunPlainTask, RunStreamTask, Push
  <2> QED BY <1>A, <2>1, <2>2, <2>3
<1>3. ASSUME NEW d \in Consumers, NEW m \in Messages, SubStep(d, m) PROVE Goal
  BY <1>A, <1>3 DEF SubStep, HandleChunk, EndSub, LeaveSub, iterating
<1>4. ASSUME NEW d \in Consumers, Complete(d) PROVE Goal
  <2>1. CASE d # c
    BY <1>S, <1>T, <1>4, <2>1 DEF Complete, Types
  <2>2. CASE d = c
    <3>1. /\ it[c] = "hold" /\ iq'[c] = Tail(iq[c]) /\ iterClosed' = iterClosed
          /\ iq[c] # <<>> /\ Head(iq[c]) \in Messages
      BY <1>T, <1>4, <2>2 DEF Complete, Types, Iterators
    <3>2. InSeq(CloseMark, iq[c]) /\ Head(iq[c]) # CloseMark
      BY <3>1, OrderFacts DEF EndsComing
    <3> QED BY <1>T, <3>1, <3>2, TailAt
  <2> QED BY <2>1, <2>2
<1>5. ASSUME NEW d \in Consumers, GetClose(d) PROVE Goal
  <2>1. CASE d # c
    BY <1>S, <1>T, <1>5, <2>1 DEF GetClose, Types
  <2>2. CASE d = c
    BY <1>T, <1>5, <2>2 DEF GetClose, Types
  <2> QED BY <2>1, <2>2
<1>6. ASSUME NEW d \in Consumers, Get(d) \/ Quit(d) PROVE Goal
  <2>1. iq' = iq /\ iterClosed' = iterClosed
    BY <1>6 DEF Get, Quit
  <2>2. it'[c] = it[c] \/ (it[c] \in {"next", "hold"} /\ it'[c] # "ended")
    BY <1>T, <1>6 DEF Get, Quit, Types
  <2> QED BY <1>S, <2>1, <2>2
<1>7. ASSUME NEW d \in Consumers, Register(d) PROVE Goal
  BY <1>S, <1>7 DEF Register, iterating
<1>8. ASSUME NEW m \in Messages,
             \/ HandleMsg(m) \/ HandleStream(m) \/ HandleStreamClosed(m) \/ OpenStream(m)
             \/ Drain(m) \/ Notify(m) \/ WriteAck(m)
      PROVE  Goal
  BY <1>S, <1>8 DEF HandleMsg, HandleStream, HandleStreamClosed, OpenStream, Drain, Notify,
                    WriteAck, iterating
<1>9. CASE RunGather \/ UNCHANGED readerVars
  BY <1>S, <1>9 DEF RunGather, RunPlainTask, GatherPushes, readerVars, iterating
<1> QED BY <1>1, <1>2, <1>3, <1>4, <1>5, <1>6, <1>7, <1>8, <1>9, NextCases

\* reader.py:280-289, iterable.py:22-24, 38-47: an iteration that is closed is never without its
\* end: it is over, or the end mark is queued for it, and only taking that ends it.
THEOREM EveryEndComes == Spec => []EndsComing
<1>1. Init => EndsComing
  BY DEF Init, EndsComing
<1> QED BY OrderInvariant, StepEndsComing, <1>1, PTL DEF Spec
=============================================================================
