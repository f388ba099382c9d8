----------------------------- MODULE WriterProofs -----------------------------
(***************************************************************************)
(* Proofs about Writer, for any number of calls of any kinds, whichever of *)
(* them may fail.                                                          *)
(***************************************************************************)
EXTENDS Writer, FiniteSetTheorems, SequenceTheorems, TLAPS

-----------------------------------------------------------------------------
(* The inductive invariant, in parts. *)

Types ==
  /\ kind \in [Calls -> {"none", "buffer", "stream", "close", "issued"}]
  /\ pc \in [Calls -> {"idle", "sending", "waiting", "identify", "streaming",
                       "finish", "deferred", "notifying", "done", "failed"}]
  /\ awaiting \in Seq(Calls) /\ resolved \subseteq Calls
  /\ openStreams \in Int
  /\ shouldClose \subseteq Calls /\ released \subseteq Calls
  /\ closeIssued \in BOOLEAN
  /\ outgoing \in Seq(Calls) /\ announced \in Seq(Calls)
  /\ processed \subseteq Calls /\ acks \in Nat /\ closes \in Nat

\* Calls are made in the order of their numbers, and are where their kind is.
Places ==
  /\ \A o \in Calls : /\ pc[o] = "idle" <=> kind[o] = "none"
                      /\ pc[o] \in {"sending", "waiting"} => kind[o] = "buffer"
                      /\ pc[o] \in {"identify", "streaming", "finish"} => kind[o] = "stream"
  /\ \A o, p \in Calls : p < o /\ pc[p] = "idle" => pc[o] = "idle"

Increasing(s) == \A i, j \in DOMAIN s : i < j => s[i] < s[j]

\* Every write has one entry, in the order of the calls, until it is resolved.
Entries ==
  /\ Increasing(awaiting)
  /\ \A i \in DOMAIN awaiting : IsMessage(awaiting[i])
  /\ \A r \in resolved : IsMessage(r) /\ \A i \in DOMAIN awaiting : r < awaiting[i]
  /\ \A o \in Calls : IsMessage(o) => o \in resolved \/ InSeq(o, awaiting)

\* What is on its way was written in the order of the calls; it, what arrived and
\* what was processed are messages.
Sent ==
  /\ Increasing(outgoing)
  /\ \A i \in DOMAIN outgoing : /\ kind[outgoing[i]] = "buffer"
                                /\ pc[outgoing[i]] = "sending"
  /\ \A i \in DOMAIN announced : IsMessage(announced[i])
  /\ \A o \in processed : IsMessage(o)

\* Without streams messages arrive in the order of the calls, but for those whose
\* call raised, and are processed in this order until the channel is closed.
Arrivals ==
  (\A o \in Calls : kind[o] # "stream") =>
    /\ Increasing(announced)
    /\ \A i \in DOMAIN announced, j \in DOMAIN outgoing : announced[i] < outgoing[j]
    /\ \A o \in Calls :
         IsMessage(o) => InSeq(o, announced) \/ InSeq(o, outgoing) \/ pc[o] = "failed"
    /\ closes = 0 => \A o \in processed, p \in Calls :
                       IsMessage(p) /\ p < o => p \in processed \/ Stale(p)

\* A close of the orchestrator that is deferred is remembered.
IssuedKept == \A p \in shouldClose : kind[p] = "issued" => closeIssued

\* Each close that was sent belongs to a call that returned.
Returned == {o \in Calls : pc[o] = "done"}
ClosesSent == closes <= Cardinality(Returned)

WriterInv ==
  /\ Types /\ Places /\ Entries /\ Sent /\ Arrivals /\ IssuedKept /\ ClosesSent
  /\ StreamsCounted /\ AcksConserved

LEMMA CallsFinite ==
  /\ IsFiniteSet(Calls) /\ Cardinality(Calls) = MaxCalls
  /\ \A S \in SUBSET Calls :
       IsFiniteSet(S) /\ Cardinality(S) \in Nat /\ Cardinality(S) <= MaxCalls
<1>1. IsFiniteSet(Calls) /\ Cardinality(Calls) = MaxCalls
  BY FS_Interval, WriterAssumption DEF WriterAssumption, Calls
<1> QED BY <1>1, FS_Subset, FS_CardinalityType

LEMMA InitWriterInv == Init => WriterInv
<1> SUFFICES ASSUME Init PROVE WriterInv
  OBVIOUS
<1>1. Types
  <2>1. awaiting \in Seq(Calls) /\ outgoing \in Seq(Calls) /\ announced \in Seq(Calls)
    BY EmptySeq DEF Init
  <2>2. /\ kind \in [Calls -> {"none", "buffer", "stream", "close", "issued"}]
        /\ pc \in [Calls -> {"idle", "sending", "waiting", "identify", "streaming",
                             "finish", "deferred", "notifying", "done", "failed"}]
    BY DEF Init
  <2>3. /\ resolved \subseteq Calls /\ shouldClose \subseteq Calls
        /\ released \subseteq Calls /\ processed \subseteq Calls
    BY DEF Init
  <2>4. closeIssued \in BOOLEAN
    BY Zenon DEF Init
  <2>5. openStreams \in Int /\ acks \in Nat /\ closes \in Nat
    BY DEF Init
  <2> QED BY <2>1, <2>2, <2>3, <2>4, <2>5 DEF Types
<1>5. IssuedKept
  BY DEF Init, IssuedKept
<1>3. Places
  BY DEF Init, Places
<1>4. Entries /\ Sent /\ Arrivals
  BY DEF Init, Entries, Sent, Arrivals, Increasing, IsMessage
<1>2. Returned = {} /\ processed = {} /\ resolved = {} /\ acks = 0
      /\ {o \in Calls : kind[o] = "stream"
                        /\ pc[o] \in {"identify", "streaming", "finish", "failed"}} = {}
      /\ openStreams = 0 /\ closes = 0
  BY DEF Init, Returned
<1> QED BY <1>1, <1>2, <1>3, <1>4, <1>5, FS_EmptySet
        DEF WriterInv, ClosesSent, StreamsCounted, AcksConserved
-----------------------------------------------------------------------------
(* Steps that leave the entries and the messages alone *)

Quiet(o) == \/ BufferReturns(o) \/ CloseReturns(o) \/ DoneWriting(o)
            \/ WaitFails(o) \/ StreamFails(o)

\* What a close may do to the calls that wait for it.
LEMMA EnterCloseEffect ==
  ASSUME Types, NEW o \in Calls, NEW issued \in BOOLEAN, NEW n \in Int,
         EnterClose(o, issued, n)
  PROVE  /\ \E l \in {"deferred", "done", "notifying"} : Goto(o, l)
         /\ shouldClose' \in {{}, shouldClose, shouldClose \cup {o}}
         /\ released' \in {released, released \cup shouldClose}
         /\ closeIssued' \in {closeIssued, closeIssued \/ issued}
         /\ issued /\ o \in shouldClose' => closeIssued'
         /\ pc'[o] = "notifying" => ~issued
BY DEF Types, EnterClose, ResolvePending, Goto

LEMMA CloseEffect ==
  ASSUME Types, NEW o \in Calls, Close(o)
  PROVE  /\ \E l \in {"deferred", "done", "notifying"} : Goto(o, l)
         /\ shouldClose' \in {{}, shouldClose, shouldClose \cup {o}}
         /\ released' \in {released, released \cup shouldClose}
         /\ closeIssued' \in BOOLEAN /\ (closeIssued => closeIssued')
         /\ kind'[o] = "issued" /\ o \in shouldClose' => closeIssued'
<1>1. PICK issued \in BOOLEAN :
        EnterClose(o, issued, openStreams) /\ (kind'[o] = "issued" => issued)
  BY DEF Types, Close, Call
<1>2. openStreams \in Int /\ closeIssued \in BOOLEAN
  BY DEF Types
<1> QED BY <1>1, <1>2, EnterCloseEffect

LEMMA StreamReturnsEffect ==
  ASSUME Types, NEW o \in Calls, StreamReturns(o)
  PROVE  /\ \E l \in {"deferred", "done", "notifying"} : Goto(o, l)
         /\ shouldClose' \in {{}, shouldClose, shouldClose \cup {o}}
         /\ released' \in {released, released \cup shouldClose}
         /\ closeIssued' = closeIssued
         /\ pc'[o] = "notifying" => ~closeIssued
<1>1. CASE shouldClose = {}
  BY <1>1 DEF Types, StreamReturns, Goto
<1>2. CASE shouldClose # {}
  <2>1. EnterClose(o, closeIssued, openStreams') /\ openStreams' \in Int
    BY <1>2 DEF Types, StreamReturns
  <2>2. closeIssued \in BOOLEAN
    BY DEF Types
  <2> QED BY <2>1, <2>2, EnterCloseEffect
<1> QED BY <1>1, <1>2

LEMMA Withdraw ==
  ASSUME NEW s \in Seq(Calls), NEW i \in DOMAIN s
  PROVE  /\ Without(s, i) \in Seq(Calls)
         /\ \A x \in Calls : InSeq(x, s) => x = s[i] \/ InSeq(x, Without(s, i))
         /\ \A j \in DOMAIN Without(s, i) :
              \E k \in DOMAIN s : k # i /\ Without(s, i)[j] = s[k]
         /\ Increasing(s) => Increasing(Without(s, i))
<1> DEFINE n == Len(s)
           t == Without(s, i)
<1>1. /\ n \in Nat \ {0} /\ DOMAIN s = 1..n /\ i \in 1..n
      /\ \A k \in 1..n : s[k] \in Calls
      /\ DOMAIN t = 1..(n - 1)
      /\ \A j \in 1..(n - 1) : t[j] = IF j < i THEN s[j] ELSE s[j + 1]
  BY DEF Without
<1>2. t \in Seq(Calls)
  <2>1. t = [j \in 1..(n - 1) |-> t[j]]
    BY <1>1 DEF Without
  <2>2. \A j \in 1..(n - 1) : t[j] \in Calls
    BY <1>1
  <2>3. t \in [1..(n - 1) -> Calls] /\ n - 1 \in Nat
    BY <1>1, <2>1, <2>2
  <2> QED BY <2>3
<1> HIDE DEF n, t
<1>3. ASSUME NEW x \in Calls, InSeq(x, s), x # s[i] PROVE InSeq(x, t)
  <2>1. PICK k \in 1..n : s[k] = x
    BY <1>1, <1>3 DEF InSeq
  <2>2. CASE k < i
    <3>1. k \in DOMAIN t /\ t[k] = x
      BY <1>1, <2>1, <2>2
    <3> QED BY <3>1 DEF InSeq
  <2>3. CASE k > i
    <3>1. k - 1 \in DOMAIN t /\ t[k - 1] = x
      BY <1>1, <2>1, <2>3
    <3> QED BY <3>1 DEF InSeq
  <2> QED BY <1>1, <1>3, <2>1, <2>2, <2>3
<1>4. ASSUME NEW j \in DOMAIN t PROVE \E k \in DOMAIN s : k # i /\ t[j] = s[k]
  <2>1. CASE j < i
    <3>1. j \in DOMAIN s /\ j # i /\ t[j] = s[j]
      BY <1>1, <2>1
    <3> QED BY <3>1
  <2>2. CASE ~(j < i)
    <3>1. j + 1 \in DOMAIN s /\ j + 1 # i /\ t[j] = s[j + 1]
      BY <1>1, <2>2
    <3> QED BY <3>1
  <2> QED BY <2>1, <2>2
<1>5. ASSUME Increasing(s), NEW j \in DOMAIN t, NEW k \in DOMAIN t, j < k PROVE t[j] < t[k]
  <2>1. /\ j \in Nat /\ k \in Nat /\ j \in 1..n /\ j + 1 \in 1..n
        /\ k \in 1..n /\ k + 1 \in 1..n
    BY <1>1
  <2>2. \A a, b \in 1..n : a < b => s[a] < s[b]
    BY <1>1, <1>5 DEF Increasing
  <2>3. CASE k < i
    <3>1. t[j] = s[j] /\ t[k] = s[k]
      BY <1>1, <1>5, <2>1, <2>3
    <3> QED BY <1>5, <2>1, <2>2, <3>1
  <2>4. CASE ~(k < i)
    <3>1. t[k] = s[k + 1] /\ t[j] \in {s[j], s[j + 1]}
      BY <1>1, <2>1, <2>4
    <3>2. j < k + 1 /\ j + 1 < k + 1
      BY <1>5, <2>1
    <3> QED BY <2>1, <2>2, <3>1, <3>2
  <2> QED BY <2>3, <2>4
<1> QED BY <1>2, <1>3, <1>4, <1>5 DEF Increasing, t

\* A message whose write raises is withdrawn; the others stay in their order.
LEMMA SendFailsEffect ==
  ASSUME Types, NEW o \in Calls, SendFails(o)
  PROVE  /\ outgoing' \in Seq(Calls) /\ Goto(o, "failed")
         /\ \A x \in Calls : x # o /\ InSeq(x, outgoing) => InSeq(x, outgoing')
         /\ Increasing(outgoing) =>
              /\ Increasing(outgoing')
              /\ \A j \in DOMAIN outgoing' :
                   \E k \in DOMAIN outgoing : outgoing'[j] = outgoing[k] /\ outgoing[k] # o
<1>1. PICK i \in DOMAIN outgoing :
        outgoing[i] = o /\ outgoing' = Without(outgoing, i)
  BY DEF SendFails
<1>2. outgoing \in Seq(Calls)
  BY DEF Types
<1>3. /\ outgoing' \in Seq(Calls)
      /\ \A x \in Calls : InSeq(x, outgoing) => x = outgoing[i] \/ InSeq(x, outgoing')
      /\ \A j \in DOMAIN outgoing' :
           \E k \in DOMAIN outgoing : k # i /\ outgoing'[j] = outgoing[k]
      /\ Increasing(outgoing) => Increasing(outgoing')
  BY <1>1, <1>2, Withdraw
<1>4. ASSUME Increasing(outgoing), NEW k \in DOMAIN outgoing, k # i PROVE outgoing[k] # o
  <2>1. k \in Nat /\ i \in Nat /\ outgoing[k] \in Nat /\ o \in Nat
    <3>1. Calls \subseteq Nat
      BY DEF Calls
    <3>2. outgoing[k] \in Calls /\ k \in Nat /\ i \in Nat
      BY <1>2
    <3> QED BY <3>1, <3>2
  <2>2. k < i \/ i < k
    BY <1>4, <2>1
  <2>3. outgoing[k] < o \/ o < outgoing[k]
    BY <1>1, <1>4, <2>2 DEF Increasing
  <2> QED BY <2>1, <2>3
<1>5. Goto(o, "failed")
  BY DEF SendFails
<1> QED BY <1>1, <1>3, <1>4, <1>5

LEMMA StepTypes == WriterInv /\ [Next]_writerVars => Types'
<1> SUFFICES ASSUME WriterInv, [Next]_writerVars PROVE Types'
  OBVIOUS
<1>T. Types
  BY DEF WriterInv
<1>1. ASSUME NEW o \in Calls, Buffer(o) PROVE Types'
  BY <1>T, <1>1 DEF Types, Buffer, Call, Goto, closing
<1>2. ASSUME NEW o \in Calls, Stream(o) PROVE Types'
  BY <1>T, <1>2 DEF Types, Stream, Call, Goto, closing, remote
<1>3. ASSUME NEW o \in Calls, Close(o) PROVE Types'
  <2>1. kind' \in [Calls -> {"none", "buffer", "stream", "close", "issued"}]
    BY <1>T, <1>3 DEF Types, Close, Call
  <2>2. /\ \E l \in {"deferred", "done", "notifying"} : Goto(o, l)
        /\ shouldClose' \in {{}, shouldClose, shouldClose \cup {o}}
        /\ released' \in {released, released \cup shouldClose}
        /\ closeIssued' \in BOOLEAN
    BY <1>T, <1>3, CloseEffect
  <2>3. /\ pc' \in [Calls -> {"idle", "sending", "waiting", "identify", "streaming",
                              "finish", "deferred", "notifying", "done", "failed"}]
        /\ shouldClose' \subseteq Calls /\ released' \subseteq Calls
    BY <1>T, <2>2 DEF Types, Goto
  <2> QED BY <1>T, <1>3, <2>1, <2>2, <2>3 DEF Types, Close, remote
<1>4. ASSUME NEW o \in Calls, SendBuffer(o) PROVE Types'
  BY <1>T, <1>4 DEF Types, SendBuffer, Goto, closing
<1>5. ASSUME NEW o \in Calls, Quiet(o) PROVE Types'
  BY <1>T, <1>5 DEF Types, Quiet, BufferReturns, CloseReturns, DoneWriting, WaitFails,
                    StreamFails, Goto, closing, remote
<1>6. ASSUME NEW o \in Calls, CloseSent(o) PROVE Types'
  BY <1>T, <1>6 DEF Types, CloseSent, ResolvePending, Goto, remote
<1>7. ASSUME NEW o \in Calls, Identified(o) PROVE Types'
  BY <1>T, <1>7 DEF Types, Identified, Goto, closing
<1>8. ASSUME NEW o \in Calls, StreamReturns(o) PROVE Types'
  <2>1. /\ \E l \in {"deferred", "done", "notifying"} : Goto(o, l)
        /\ shouldClose' \in {{}, shouldClose, shouldClose \cup {o}}
        /\ released' \in {released, released \cup shouldClose}
        /\ closeIssued' = closeIssued
    BY <1>T, <1>8, StreamReturnsEffect
  <2>2. /\ pc' \in [Calls -> {"idle", "sending", "waiting", "identify", "streaming",
                              "finish", "deferred", "notifying", "done", "failed"}]
        /\ shouldClose' \subseteq Calls /\ released' \subseteq Calls
    BY <1>T, <2>1 DEF Types, Goto
  <2> QED BY <1>T, <1>8, <2>1, <2>2 DEF Types, StreamReturns, remote
<1>9. ASSUME NEW o \in Calls, Process(o) PROVE Types'
  BY <1>T, <1>9 DEF Types, Process, closing
<1>10. CASE Handled
  <2>1. CASE awaiting = <<>>
    BY <1>T, <1>10, <2>1 DEF Types, Handled, closing
  <2>2. CASE awaiting # <<>>
    <3>1. Head(awaiting) \in Calls /\ Tail(awaiting) \in Seq(Calls)
      BY <1>T, <2>2 DEF Types
    <3>2. awaiting' = Tail(awaiting) /\ resolved' = resolved \cup {Head(awaiting)}
      BY <1>10, <2>2 DEF Handled
    <3>3. acks' \in Nat
      BY <1>T, <1>10 DEF Types, Handled
    <3> QED BY <1>T, <1>10, <3>1, <3>2, <3>3 DEF Types, Handled, closing
  <2> QED BY <2>1, <2>2
<1>11. CASE UNCHANGED writerVars
  BY <1>T, <1>11 DEF Types, writerVars, closing, remote
<1>12. ASSUME NEW o \in Calls, SendFails(o) PROVE Types'
  <2>1. outgoing' \in Seq(Calls) /\ Goto(o, "failed")
    BY <1>T, <1>12, SendFailsEffect
  <2>2. UNCHANGED <<kind, awaiting, resolved, openStreams, closing, announced, processed, acks>>
    BY <1>12 DEF SendFails
  <2> QED BY <1>T, <2>1, <2>2 DEF Types, Goto, closing
<1> QED
  BY <1>1, <1>2, <1>3, <1>4, <1>5, <1>6, <1>7, <1>8, <1>9, <1>10, <1>11, <1>12
     DEF Next, Start, Resume, Quiet, Fail
-----------------------------------------------------------------------------
(* Sequences of calls *)

LEMMA AppendCall ==
  ASSUME NEW s \in Seq(Calls), NEW o \in Calls
  PROVE  /\ \A x \in Calls : InSeq(x, Append(s, o)) <=> InSeq(x, s) \/ x = o
         /\ \A i \in DOMAIN Append(s, o) :
              (i \in DOMAIN s /\ Append(s, o)[i] = s[i]) \/ Append(s, o)[i] = o
         /\ Increasing(s) /\ (\A i \in DOMAIN s : s[i] < o)
              => Increasing(Append(s, o))
<1>1. /\ DOMAIN s = 1..Len(s) /\ Len(s) \in Nat
      /\ DOMAIN Append(s, o) = 1..(Len(s) + 1)
      /\ Append(s, o)[Len(s) + 1] = o
      /\ \A i \in 1..Len(s) : Append(s, o)[i] = s[i] /\ s[i] \in Calls
  OBVIOUS
<1>2. \A x \in Calls : InSeq(x, Append(s, o)) <=> InSeq(x, s) \/ x = o
  BY <1>1 DEF InSeq
<1>3. ASSUME Increasing(s), \A i \in DOMAIN s : s[i] < o
      PROVE  Increasing(Append(s, o))
  BY <1>1, <1>3 DEF Increasing
<1> QED BY <1>1, <1>2, <1>3

LEMMA TailCalls ==
  ASSUME NEW s \in Seq(Calls), s # <<>>
  PROVE  /\ \A x \in Calls : InSeq(x, s) <=> x = Head(s) \/ InSeq(x, Tail(s))
         /\ \A i \in DOMAIN Tail(s) : \E j \in DOMAIN s : j > 1 /\ Tail(s)[i] = s[j]
         /\ 1 \in DOMAIN s /\ Head(s) = s[1] /\ Head(s) \in Calls
         /\ Increasing(s) => /\ Increasing(Tail(s))
                             /\ \A i \in DOMAIN Tail(s) : Head(s) < Tail(s)[i]
<1>1. /\ DOMAIN s = 1..Len(s) /\ Len(s) \in Nat \ {0}
      /\ DOMAIN Tail(s) = 1..(Len(s) - 1)
      /\ Head(s) = s[1] /\ Head(s) \in Calls
      /\ \A i \in 1..(Len(s) - 1) : Tail(s)[i] = s[i + 1]
      /\ \A i \in 1..Len(s) : s[i] \in Calls
  OBVIOUS
<1>2. ASSUME NEW x \in Calls PROVE InSeq(x, s) <=> x = Head(s) \/ InSeq(x, Tail(s))
  <2>1. ASSUME NEW i \in 1..Len(s), s[i] = x, x # Head(s) PROVE InSeq(x, Tail(s))
    <3>1. i - 1 \in 1..(Len(s) - 1) /\ Tail(s)[i - 1] = x
      BY <1>1, <2>1
    <3> QED BY <1>1, <3>1 DEF InSeq
  <2>2. ASSUME NEW i \in 1..(Len(s) - 1), Tail(s)[i] = x PROVE InSeq(x, s)
    <3>1. i + 1 \in 1..Len(s) /\ s[i + 1] = x
      BY <1>1, <2>2
    <3> QED BY <1>1, <3>1 DEF InSeq
  <2>3. x = Head(s) => InSeq(x, s)
    BY <1>1 DEF InSeq
  <2> QED BY <1>1, <2>1, <2>2, <2>3 DEF InSeq
<1>3. ASSUME NEW i \in DOMAIN Tail(s)
      PROVE  \E j \in DOMAIN s : j > 1 /\ Tail(s)[i] = s[j]
  <2>1. i + 1 \in DOMAIN s /\ i + 1 > 1 /\ Tail(s)[i] = s[i + 1]
    BY <1>1
  <2> QED BY <2>1
<1>4. ASSUME Increasing(s)
      PROVE  Increasing(Tail(s)) /\ \A i \in DOMAIN Tail(s) : Head(s) < Tail(s)[i]
  BY <1>1, <1>4 DEF Increasing
<1> QED BY <1>1, <1>2, <1>3, <1>4

\* A call that is made now has a higher number than those made before.
LEMMA NewIsLast ==
  ASSUME Types, Places, NEW o \in Calls, pc[o] = "idle"
  PROVE  kind[o] = "none" /\ \A x \in Calls : kind[x] # "none" => x < o
BY WriterAssumption DEF Types, Places, Calls, WriterAssumption

\* What a step does to the calls: one is made, or one that was made goes on.
Made(o) == \E k \in {"buffer", "stream", "close", "issued"} :
             /\ pc[o] = "idle" /\ \A p \in 1..(o - 1) : pc[p] # "idle"
             /\ kind' = [kind EXCEPT ![o] = k]
             /\ k = "buffer" => Goto(o, "sending")
             /\ k = "stream" => Goto(o, "identify")
             /\ k \in {"close", "issued"} =>
                  \E l \in {"deferred", "done", "notifying"} : Goto(o, l)

GoesOn(o) == /\ kind' = kind /\ pc[o] \notin {"idle", "done", "failed"}
             /\ \E l \in {"waiting", "streaming", "finish", "deferred", "notifying",
                          "done", "failed"} :
                  /\ Goto(o, l)
                  /\ l = "waiting" => kind[o] = "buffer"
                  /\ l \in {"streaming", "finish"} => kind[o] = "stream"

LEMMA StepShape ==
  ASSUME Types, Places, Sent, [Next]_writerVars
  PROVE  UNCHANGED <<kind, pc>> \/ \E o \in Calls : Made(o) \/ GoesOn(o)
<1>1. ASSUME NEW o \in Calls, Buffer(o) \/ Stream(o) PROVE Made(o)
  BY <1>1 DEF Buffer, Stream, Call, Made
<1>2. ASSUME NEW o \in Calls, Close(o) PROVE Made(o)
  BY <1>2, CloseEffect DEF Close, Call, Made
<1>3. ASSUME NEW o \in Calls, SendBuffer(o) PROVE GoesOn(o)
  <2>1. kind[o] = "buffer" /\ pc[o] = "sending"
    BY <1>3, TailCalls DEF Types, Sent, SendBuffer
  <2> QED BY <1>3, <2>1 DEF SendBuffer, GoesOn
<1>4. ASSUME NEW o \in Calls, BufferReturns(o) \/ CloseReturns(o) \/ CloseSent(o)
                              \/ DoneWriting(o) \/ Identified(o) \/ Fail(o)
      PROVE  GoesOn(o)
  BY <1>4 DEF Places, BufferReturns, CloseReturns, CloseSent, DoneWriting, Identified,
              Fail, SendFails, WaitFails, StreamFails, GoesOn
<1>5. ASSUME NEW o \in Calls, StreamReturns(o) PROVE GoesOn(o)
  <2>1. \E l \in {"deferred", "done", "notifying"} : Goto(o, l)
    BY <1>5, StreamReturnsEffect
  <2>2. kind' = kind /\ pc[o] = "finish"
    BY <1>5 DEF StreamReturns
  <2> QED BY <2>1, <2>2 DEF GoesOn
<1>6. ASSUME NEW o \in Calls, Process(o) PROVE UNCHANGED <<kind, pc>>
  BY <1>6 DEF Process
<1>7. CASE Handled
  BY <1>7 DEF Handled
<1>8. CASE UNCHANGED writerVars
  BY <1>8 DEF writerVars
<1> QED
  BY <1>1, <1>2, <1>3, <1>4, <1>5, <1>6, <1>7, <1>8 DEF Next, Start, Resume

LEMMA StepPlaces == WriterInv /\ [Next]_writerVars => Places'
<1> SUFFICES ASSUME WriterInv, [Next]_writerVars PROVE Places'
  OBVIOUS
<1>T. Types /\ Places /\ Sent
  BY DEF WriterInv
<1>1. ASSUME NEW o \in Calls, Made(o) PROVE Places'
  <2>1. /\ pc[o] = "idle" /\ \A p \in 1..(o - 1) : pc[p] # "idle"
        /\ \A p \in Calls : p # o => kind'[p] = kind[p] /\ pc'[p] = pc[p]
        /\ pc'[o] # "idle" /\ kind'[o] # "none"
        /\ pc'[o] \in {"sending", "waiting"} => kind'[o] = "buffer"
        /\ pc'[o] \in {"identify", "streaming", "finish"} => kind'[o] = "stream"
    BY <1>T, <1>1 DEF Types, Made, Goto
  <2>2. ASSUME NEW q \in Calls, NEW p \in Calls, p < q, pc'[p] = "idle"
        PROVE  pc'[q] = "idle"
    <3>1. p # o /\ pc[p] = "idle"
      BY <2>1, <2>2
    <3>2. q # o
      BY <2>1, <2>2, <3>1 DEF Calls
    <3> QED BY <1>T, <2>1, <2>2, <3>1, <3>2 DEF Places
  <2> QED BY <1>T, <2>1, <2>2 DEF Places
<1>2. ASSUME NEW o \in Calls, GoesOn(o) PROVE Places'
  <2>1. /\ kind' = kind /\ pc[o] # "idle" /\ pc'[o] # "idle"
        /\ \A p \in Calls : p # o => pc'[p] = pc[p]
        /\ pc'[o] \in {"sending", "waiting"} => kind[o] = "buffer"
        /\ pc'[o] \in {"identify", "streaming", "finish"} => kind[o] = "stream"
    BY <1>T, <1>2 DEF Types, GoesOn, Goto
  <2> QED BY <1>T, <2>1 DEF Places
<1>3. CASE UNCHANGED <<kind, pc>>
  BY <1>T, <1>3 DEF Places
<1> QED BY <1>T, <1>1, <1>2, <1>3, StepShape

LEMMA StepEntries == WriterInv /\ [Next]_writerVars => Entries'
<1> SUFFICES ASSUME WriterInv, [Next]_writerVars PROVE Entries'
  OBVIOUS
<1>T. Types /\ Places /\ Entries
  BY DEF WriterInv
\* A write that is made goes to the end.
<1>1. ASSUME NEW o \in Calls, Buffer(o) \/ Stream(o) PROVE Entries'
  <2>1. /\ pc[o] = "idle" /\ awaiting' = Append(awaiting, o) /\ resolved' = resolved
        /\ kind'[o] \in {"buffer", "stream"}
        /\ \A p \in Calls : p # o => kind'[p] = kind[p]
    BY <1>T, <1>1 DEF Types, Buffer, Stream, Call
  <2>2. kind[o] = "none" /\ \A x \in Calls : kind[x] # "none" => x < o
    BY <1>T, <2>1, NewIsLast
  <2>3. \A i \in DOMAIN awaiting : awaiting[i] \in Calls
    BY <1>T DEF Types
  <2>4. \A i \in DOMAIN awaiting : awaiting[i] < o /\ kind'[awaiting[i]] \in {"buffer", "stream"}
    BY <1>T, <2>1, <2>2, <2>3 DEF Entries, IsMessage
  <2>5. \A r \in resolved : r \in Calls /\ r < o /\ IsMessage(r)'
    BY <1>T, <2>1, <2>2 DEF Types, Entries, IsMessage
  <2>6. awaiting \in Seq(Calls) /\ Increasing(awaiting)
    BY <1>T DEF Types, Entries
  <2>7. /\ \A x \in Calls : InSeq(x, awaiting') <=> InSeq(x, awaiting) \/ x = o
        /\ \A i \in DOMAIN awaiting' :
             (i \in DOMAIN awaiting /\ awaiting'[i] = awaiting[i]) \/ awaiting'[i] = o
        /\ Increasing(awaiting')
    BY <2>1, <2>4, <2>6, AppendCall
  <2>8. \A i \in DOMAIN awaiting' : kind'[awaiting'[i]] \in {"buffer", "stream"}
    BY <2>1, <2>4, <2>7 DEF IsMessage
  <2>9. \A r \in resolved : \A i \in DOMAIN awaiting' : r < awaiting'[i]
    BY <1>T, <2>5, <2>7 DEF Entries
  <2>10. \A x \in Calls : IsMessage(x)' => x \in resolved' \/ InSeq(x, awaiting')
    BY <1>T, <2>1, <2>7 DEF Entries, IsMessage
  <2> QED BY <2>1, <2>5, <2>7, <2>8, <2>9, <2>10 DEF Entries, Increasing, IsMessage
\* An ack takes the oldest entry.
<1>2. CASE Handled /\ awaiting # <<>>
  <2>1. kind' = kind /\ awaiting' = Tail(awaiting) /\ resolved' = resolved \cup {Head(awaiting)}
    BY <1>2 DEF Handled
  <2>2. /\ \A x \in Calls : InSeq(x, awaiting) <=> x = Head(awaiting) \/ InSeq(x, awaiting')
        /\ \A i \in DOMAIN awaiting' :
             \E j \in DOMAIN awaiting : j > 1 /\ awaiting'[i] = awaiting[j]
        /\ 1 \in DOMAIN awaiting /\ Head(awaiting) = awaiting[1]
        /\ Increasing(awaiting')
        /\ \A i \in DOMAIN awaiting' : Head(awaiting) < awaiting'[i]
    BY <1>T, <1>2, <2>1, TailCalls DEF Types, Entries
  <2>3. \A r \in resolved' : IsMessage(r)' /\ \A i \in DOMAIN awaiting' : r < awaiting'[i]
    BY <1>T, <2>1, <2>2 DEF Entries, IsMessage
  <2>4. \A i \in DOMAIN awaiting' : kind'[awaiting'[i]] \in {"buffer", "stream"}
    BY <1>T, <2>1, <2>2 DEF Entries, IsMessage
  <2>5. \A x \in Calls : IsMessage(x)' => x \in resolved' \/ InSeq(x, awaiting')
    BY <1>T, <2>1, <2>2 DEF Entries, IsMessage
  <2> QED BY <2>2, <2>3, <2>4, <2>5 DEF Entries, Increasing, IsMessage
\* The others change no entry, and what is made is no message.
<1>3. ASSUME UNCHANGED <<awaiting, resolved>>,
             \A x \in Calls : IsMessage(x)' <=> IsMessage(x)
      PROVE  Entries'
  <2>1. /\ \A i \in DOMAIN awaiting : awaiting[i] \in Calls
        /\ resolved \subseteq Calls
    BY <1>T DEF Types
  <2> QED BY <1>T, <1>3, <2>1 DEF Entries, Increasing, InSeq
<1>4. ASSUME NEW o \in Calls, Close(o)
      PROVE  /\ UNCHANGED <<awaiting, resolved>>
             /\ \A x \in Calls : IsMessage(x)' <=> IsMessage(x)
  <2>1. /\ UNCHANGED <<awaiting, resolved>> /\ pc[o] = "idle"
        /\ kind'[o] \in {"close", "issued"}
        /\ \A p \in Calls : p # o => kind'[p] = kind[p]
    BY <1>T, <1>4 DEF Types, Close, Call
  <2>2. kind[o] = "none"
    BY <1>T, <2>1, NewIsLast
  <2> QED BY <2>1, <2>2 DEF IsMessage
<1>5. ASSUME NEW o \in Calls, Fail(o) \/ Resume(o) \/ Process(o)
      PROVE  UNCHANGED <<kind, awaiting, resolved>>
  BY <1>5 DEF Fail, SendFails, WaitFails, StreamFails, Resume, Process, SendBuffer,
              BufferReturns, CloseSent, CloseReturns, Identified, DoneWriting, StreamReturns
<1>6. CASE Handled /\ awaiting = <<>>
  BY <1>3, <1>6 DEF Handled, IsMessage
<1>7. CASE UNCHANGED writerVars
  BY <1>3, <1>7 DEF writerVars, IsMessage
<1>8. ASSUME UNCHANGED <<kind, awaiting, resolved>> PROVE Entries'
  BY <1>3, <1>8 DEF IsMessage
<1> QED
  BY <1>1, <1>2, <1>3, <1>4, <1>5, <1>6, <1>7, <1>8 DEF Next, Start

LEMMA StepSent == WriterInv /\ [Next]_writerVars => Sent'
<1> SUFFICES ASSUME WriterInv, [Next]_writerVars PROVE Sent'
  OBVIOUS
<1>T. Types /\ Places /\ Sent
  BY DEF WriterInv
<1>R. /\ outgoing \in Seq(Calls) /\ announced \in Seq(Calls) /\ processed \subseteq Calls
      /\ \A i \in DOMAIN outgoing : outgoing[i] \in Calls
      /\ \A i \in DOMAIN announced : announced[i] \in Calls
  BY <1>T DEF Types
\* What was made stays what it is, and what is on its way stays where it is.
<1>M. \A x \in Calls : IsMessage(x) => IsMessage(x)'
  <2>1. \A o \in Calls : Made(o) => pc[o] = "idle" /\ kind[o] = "none"
                                    /\ \A x \in Calls : x # o => kind'[x] = kind[x]
    BY <1>T DEF Types, Places, Made
  <2>2. \A o \in Calls : GoesOn(o) => kind' = kind
    BY DEF GoesOn
  <2> QED BY <1>T, <2>1, <2>2, StepShape DEF IsMessage
<1>1. ASSUME NEW o \in Calls, Buffer(o) PROVE Sent'
  <2>1. /\ pc[o] = "idle" /\ kind'[o] = "buffer" /\ pc'[o] = "sending"
        /\ \A p \in Calls : p # o => kind'[p] = kind[p] /\ pc'[p] = pc[p]
        /\ outgoing' = Append(outgoing, o) /\ UNCHANGED <<announced, processed>>
    BY <1>T, <1>1 DEF Types, Buffer, Call, Goto
  <2>2. \A x \in Calls : kind[x] # "none" => x < o
    BY <1>T, <2>1, NewIsLast
  <2>3. \A i \in DOMAIN outgoing : outgoing[i] < o
    BY <1>T, <1>R, <2>2 DEF Sent
  <2>4. /\ Increasing(outgoing')
        /\ \A i \in DOMAIN outgoing' :
             (i \in DOMAIN outgoing /\ outgoing'[i] = outgoing[i]) \/ outgoing'[i] = o
    BY <1>T, <1>R, <2>1, <2>3, AppendCall DEF Sent
  <2>5. \A i \in DOMAIN outgoing' : /\ kind'[outgoing'[i]] = "buffer"
                                    /\ pc'[outgoing'[i]] = "sending"
    BY <1>T, <1>R, <2>1, <2>4 DEF Sent
  <2> QED BY <1>T, <1>R, <1>M, <2>1, <2>4, <2>5 DEF Sent, Increasing, IsMessage
<1>2. ASSUME NEW o \in Calls, SendBuffer(o) PROVE Sent'
  <2>1. /\ outgoing # <<>> /\ o = Head(outgoing) /\ kind' = kind
        /\ outgoing' = Tail(outgoing) /\ announced' = Append(announced, o)
        /\ \A p \in Calls : p # o => pc'[p] = pc[p]
        /\ processed' = processed
    BY <1>T, <1>2 DEF Types, SendBuffer, Goto
  <2>2. /\ \A i \in DOMAIN outgoing' : \E j \in DOMAIN outgoing :
             j > 1 /\ outgoing'[i] = outgoing[j]
        /\ 1 \in DOMAIN outgoing /\ Head(outgoing) = outgoing[1]
        /\ Increasing(outgoing')
        /\ \A i \in DOMAIN outgoing' : Head(outgoing) < outgoing'[i]
    BY <1>T, <1>R, <2>1, TailCalls DEF Sent
  <2>3. ASSUME NEW i \in DOMAIN outgoing'
        PROVE  kind'[outgoing'[i]] = "buffer" /\ pc'[outgoing'[i]] = "sending"
    <3>1. PICK j \in DOMAIN outgoing : outgoing'[i] = outgoing[j]
      BY <2>2
    <3>2. outgoing[j] \in Calls /\ kind[outgoing[j]] = "buffer" /\ pc[outgoing[j]] = "sending"
      BY <1>T, <1>R DEF Sent
    <3>3. o < outgoing'[i] /\ o \in Nat
      BY <2>1, <2>2 DEF Calls
    <3>4. outgoing[j] # o
      BY <3>1, <3>3
    <3> QED BY <2>1, <3>1, <3>2, <3>4
  <2>4. \A i \in DOMAIN announced' : announced'[i] = o \/
          (i \in DOMAIN announced /\ announced'[i] = announced[i])
    BY <1>R, <2>1, AppendCall
  <2>5. kind[o] = "buffer"
    BY <1>T, <2>1, <2>2 DEF Sent
  <2> QED BY <1>T, <2>1, <2>2, <2>3, <2>4, <2>5 DEF Sent, Increasing, IsMessage
<1>3. ASSUME NEW o \in Calls, Identified(o) PROVE Sent'
  <2>1. /\ pc[o] = "identify" /\ kind' = kind
        /\ announced' = Append(announced, o) /\ UNCHANGED <<outgoing, processed>>
        /\ \A p \in Calls : p # o => pc'[p] = pc[p]
    BY <1>T, <1>3 DEF Types, Identified, Goto
  <2>2. \A i \in DOMAIN announced' : announced'[i] = o \/
          (i \in DOMAIN announced /\ announced'[i] = announced[i])
    BY <1>R, <2>1, AppendCall
  <2>3. kind[o] = "stream"
    BY <1>T, <2>1 DEF Places
  <2> QED BY <1>T, <1>R, <2>1, <2>2, <2>3, SMTT(20) DEF Sent, Increasing, IsMessage
<1>4. ASSUME NEW o \in Calls, Process(o) PROVE Sent'
  <2>1. /\ InSeq(o, announced) /\ processed' = processed \cup {o}
        /\ UNCHANGED <<kind, pc, outgoing, announced>>
    BY <1>4 DEF Process
  <2> QED BY <1>T, <2>1 DEF Sent, Increasing, IsMessage, InSeq
\* The other steps send nothing.
<1>5. ASSUME UNCHANGED <<outgoing, announced, processed>>,
             \A x \in Calls : kind[x] = "buffer" /\ pc[x] = "sending" =>
                                kind'[x] = "buffer" /\ pc'[x] = "sending"
      PROVE  Sent'
  BY <1>T, <1>R, <1>M, <1>5 DEF Sent, Increasing, IsMessage
<1>6. ASSUME NEW o \in Calls, pc[o] # "sending",
             \A p \in Calls : p # o => kind'[p] = kind[p] /\ pc'[p] = pc[p],
             UNCHANGED <<outgoing, announced, processed>>
      PROVE  Sent'
  BY <1>5, <1>6
<1>7. ASSUME NEW o \in Calls, Stream(o) PROVE Sent'
  BY <1>T, <1>6, <1>7 DEF Types, Stream, Call, Goto, remote
<1>8. ASSUME NEW o \in Calls, Close(o) PROVE Sent'
  <2>1. \E l \in {"deferred", "done", "notifying"} : Goto(o, l)
    BY <1>T, <1>8, CloseEffect
  <2> QED BY <1>T, <1>6, <1>8, <2>1 DEF Types, Close, Call, Goto, remote
<1>9. ASSUME NEW o \in Calls, Quiet(o) \/ CloseSent(o) PROVE Sent'
  BY <1>T, <1>6, <1>9 DEF Types, Quiet, BufferReturns, CloseReturns, DoneWriting,
                          WaitFails, StreamFails, CloseSent, Goto, remote
<1>10. ASSUME NEW o \in Calls, StreamReturns(o) PROVE Sent'
  <2>1. \E l \in {"deferred", "done", "notifying"} : Goto(o, l)
    BY <1>T, <1>10, StreamReturnsEffect
  <2> QED BY <1>T, <1>6, <1>10, <2>1 DEF Types, StreamReturns, Goto, remote
<1>11. CASE Handled
  BY <1>5, <1>11 DEF Handled
<1>12. CASE UNCHANGED writerVars
  BY <1>5, <1>12 DEF writerVars, remote
<1>13. ASSUME NEW o \in Calls, SendFails(o) PROVE Sent'
  <2>1. /\ UNCHANGED <<kind, announced, processed>>
        /\ \A p \in Calls : p # o => pc'[p] = pc[p]
    BY <1>T, <1>13 DEF SendFails, Goto, Types
  <2>2. /\ Increasing(outgoing')
        /\ \A j \in DOMAIN outgoing' :
             \E k \in DOMAIN outgoing : outgoing'[j] = outgoing[k] /\ outgoing[k] # o
    BY <1>T, <1>13, SendFailsEffect DEF Sent
  <2>3. \A j \in DOMAIN outgoing' : /\ kind'[outgoing'[j]] = "buffer"
                                    /\ pc'[outgoing'[j]] = "sending"
    BY <1>T, <1>R, <2>1, <2>2 DEF Sent
  <2> QED BY <1>T, <1>R, <1>M, <2>1, <2>2, <2>3 DEF Sent, Increasing, IsMessage
<1> QED
  BY <1>1, <1>2, <1>3, <1>4, <1>7, <1>8, <1>9, <1>10, <1>11, <1>12, <1>13
     DEF Next, Start, Resume, Quiet, Fail

LEMMA StepIssuedKept == WriterInv /\ [Next]_writerVars => IssuedKept'
<1> SUFFICES ASSUME WriterInv, [Next]_writerVars PROVE IssuedKept'
  OBVIOUS
<1>T. Types /\ Places /\ IssuedKept
  BY DEF WriterInv
<1>1. ASSUME NEW o \in Calls, Close(o) PROVE IssuedKept'
  <2>1. /\ shouldClose' \subseteq shouldClose \cup {o}
        /\ closeIssued => closeIssued'
        /\ kind'[o] = "issued" /\ o \in shouldClose' => closeIssued'
    BY <1>T, <1>1, CloseEffect
  <2>2. \A p \in Calls : p # o => kind'[p] = kind[p]
    BY <1>T, <1>1 DEF Types, Close, Call
  <2> QED BY <1>T, <2>1, <2>2 DEF Types, IssuedKept
<1>2. ASSUME NEW o \in Calls, StreamReturns(o) PROVE IssuedKept'
  <2>1. kind' = kind /\ kind[o] = "stream"
    BY <1>T, <1>2 DEF Places, StreamReturns
  <2>2. shouldClose' \subseteq shouldClose \cup {o} /\ closeIssued' = closeIssued
    BY <1>T, <1>2, StreamReturnsEffect
  <2> QED BY <1>T, <2>1, <2>2 DEF IssuedKept
<1>3. ASSUME NEW o \in Calls, CloseSent(o) PROVE IssuedKept'
  BY <1>3 DEF CloseSent, ResolvePending, IssuedKept
<1>4. ASSUME NEW o \in Calls, Buffer(o) \/ Stream(o) PROVE IssuedKept'
  <2>1. /\ kind'[o] # "issued" /\ \A p \in Calls : p # o => kind'[p] = kind[p]
        /\ UNCHANGED <<shouldClose, closeIssued>>
    BY <1>T, <1>4 DEF Types, Buffer, Stream, Call, closing
  <2> QED BY <1>T, <2>1 DEF Types, IssuedKept
<1>5. ASSUME UNCHANGED <<kind, shouldClose, closeIssued>> PROVE IssuedKept'
  BY <1>T, <1>5 DEF IssuedKept
<1>6. ASSUME NEW o \in Calls,
             SendBuffer(o) \/ SendFails(o) \/ Quiet(o) \/ Identified(o) \/ Process(o)
      PROVE  IssuedKept'
  BY <1>5, <1>6 DEF SendBuffer, Quiet, BufferReturns, CloseReturns, DoneWriting, SendFails,
                    WaitFails, StreamFails, Identified, Process, closing
<1>7. CASE Handled \/ UNCHANGED writerVars
  BY <1>5, <1>7 DEF Handled, writerVars, closing
<1> QED
  BY <1>1, <1>2, <1>3, <1>4, <1>6, <1>7 DEF Next, Start, Resume, Quiet, Fail

LEMMA StepClosesSent == WriterInv /\ [Next]_writerVars => ClosesSent'
<1> SUFFICES ASSUME WriterInv, [Next]_writerVars PROVE ClosesSent'
  OBVIOUS
<1>T. Types /\ Types' /\ Places /\ Sent /\ ClosesSent
  BY StepTypes DEF WriterInv
<1>F. /\ Returned \subseteq Calls /\ Returned' \subseteq Calls
      /\ Cardinality(Returned) \in Nat /\ Cardinality(Returned') \in Nat
      /\ IsFiniteSet(Returned) /\ IsFiniteSet(Returned')
  <2>1. Returned \in SUBSET Calls /\ Returned' \in SUBSET Calls
    BY DEF Returned
  <2> QED BY <2>1, CallsFinite
<1>1. Returned \subseteq Returned'
  <2>1. \A o \in Calls : Made(o) \/ GoesOn(o) =>
           pc[o] # "done" /\ \A x \in Calls : x # o => pc'[x] = pc[x]
    BY <1>T DEF Types, Made, GoesOn, Goto
  <2> QED BY <1>T, <2>1, StepShape DEF Returned
<1>2. CASE UNCHANGED closes
  <2>1. Cardinality(Returned) <= Cardinality(Returned')
    BY <1>1, <1>F, FS_Subset
  <2> QED BY <1>T, <1>2, <1>F, <2>1 DEF Types, ClosesSent
<1>3. ASSUME NEW o \in Calls, CloseSent(o) PROVE ClosesSent'
  <2>1. pc[o] = "notifying" /\ closes' = closes + 1 /\ Goto(o, "done")
    BY <1>3 DEF CloseSent
  <2>2. Returned' = Returned \cup {o} /\ o \notin Returned
    BY <1>T, <2>1 DEF Types, Goto, Returned
  <2>3. Cardinality(Returned') = Cardinality(Returned) + 1
    BY <1>F, <2>2, FS_AddElement
  <2> QED BY <1>T, <1>F, <2>1, <2>3 DEF Types, ClosesSent
<1>4. ASSUME NEW o \in Calls, Start(o) \/ SendBuffer(o) \/ Quiet(o) \/ Identified(o)
                              \/ SendFails(o) \/ StreamReturns(o) \/ Process(o)
      PROVE  UNCHANGED closes
  BY <1>4 DEF Start, Buffer, Stream, Close, SendBuffer, Quiet, BufferReturns,
              CloseReturns, DoneWriting, SendFails, WaitFails, StreamFails, Identified,
              StreamReturns, Process, closing
<1>5. CASE Handled \/ UNCHANGED writerVars
  BY <1>2, <1>5 DEF Handled, writerVars, closing
<1> QED BY <1>2, <1>3, <1>4, <1>5 DEF Next, Resume, Quiet, Fail

\* The streams that run or failed.
Open == {o \in Calls : kind[o] = "stream"
                       /\ pc[o] \in {"identify", "streaming", "finish", "failed"}}

LEMMA StepStreamsCounted == WriterInv /\ [Next]_writerVars => StreamsCounted'
<1> SUFFICES ASSUME WriterInv, [Next]_writerVars PROVE StreamsCounted'
  OBVIOUS
<1>T. Types /\ Types' /\ Places /\ Sent
  BY StepTypes DEF WriterInv
<1>S. openStreams = Cardinality(Open)
  BY DEF WriterInv, StreamsCounted, Open
<1>F. IsFiniteSet(Open) /\ Cardinality(Open) \in Nat
  <2>1. Open \in SUBSET Calls
    BY DEF Open
  <2> QED BY <2>1, CallsFinite
<1>0. ASSUME openStreams' = Cardinality(Open') PROVE StreamsCounted'
  BY <1>0 DEF StreamsCounted, Open
<1>1. ASSUME NEW o \in Calls, Stream(o) PROVE StreamsCounted'
  <2>1. /\ pc[o] = "idle" /\ kind'[o] = "stream" /\ pc'[o] = "identify"
        /\ \A p \in Calls : p # o => kind'[p] = kind[p] /\ pc'[p] = pc[p]
        /\ openStreams' = openStreams + 1
    BY <1>T, <1>1 DEF Types, Stream, Call, Goto
  <2>2. Open' = Open \cup {o} /\ o \notin Open
    BY <1>T, <2>1 DEF Places, Open
  <2> QED BY <1>0, <1>S, <1>F, <2>1, <2>2, FS_AddElement
<1>2. ASSUME NEW o \in Calls, StreamReturns(o) PROVE StreamsCounted'
  <2>1. \E l \in {"deferred", "done", "notifying"} : Goto(o, l)
    BY <1>T, <1>2, StreamReturnsEffect
  <2>2. /\ pc[o] = "finish" /\ kind' = kind /\ openStreams' = openStreams - 1
        /\ pc'[o] \in {"deferred", "done", "notifying"}
        /\ \A p \in Calls : p # o => pc'[p] = pc[p]
    BY <1>T, <1>2, <2>1 DEF Types, StreamReturns, Goto
  <2>3. kind[o] = "stream"
    BY <1>T, <2>2 DEF Places
  <2>4. Open' = Open \ {o} /\ o \in Open
    BY <2>2, <2>3 DEF Open
  <2>5. Cardinality(Open') = Cardinality(Open) - 1
    BY <1>F, <2>4, FS_RemoveElement
  <2> QED BY <1>0, <1>S, <2>2, <2>5
\* The others do not take a call into the set or out of it.
<1>3. ASSUME openStreams' = openStreams, \A x \in Calls : x \in Open' <=> x \in Open
      PROVE  StreamsCounted'
  <2>1. Open' = Open
    BY <1>3 DEF Open
  <2> QED BY <1>0, <1>S, <1>3, <2>1
<1>4. ASSUME NEW o \in Calls, openStreams' = openStreams,
             \A p \in Calls : p # o => kind'[p] = kind[p] /\ pc'[p] = pc[p],
             \/ kind[o] # "stream" /\ kind'[o] # "stream"
             \/ /\ kind' = kind
                /\ pc[o] \in {"identify", "streaming", "finish", "failed"}
                /\ pc'[o] \in {"identify", "streaming", "finish", "failed"}
      PROVE  StreamsCounted'
  BY <1>3, <1>4 DEF Open
<1>5. ASSUME NEW o \in Calls, Buffer(o) PROVE StreamsCounted'
  <2>1. /\ pc[o] = "idle" /\ kind'[o] = "buffer" /\ openStreams' = openStreams
        /\ \A p \in Calls : p # o => kind'[p] = kind[p] /\ pc'[p] = pc[p]
    BY <1>T, <1>5 DEF Types, Buffer, Call, Goto
  <2> QED BY <1>T, <1>4, <2>1 DEF Places
<1>6. ASSUME NEW o \in Calls, Close(o) PROVE StreamsCounted'
  <2>1. \E l \in {"deferred", "done", "notifying"} : Goto(o, l)
    BY <1>T, <1>6, CloseEffect
  <2>2. /\ pc[o] = "idle" /\ kind'[o] \in {"close", "issued"} /\ openStreams' = openStreams
        /\ \A p \in Calls : p # o => kind'[p] = kind[p] /\ pc'[p] = pc[p]
    BY <1>T, <1>6, <2>1 DEF Types, Close, Call, Goto
  <2> QED BY <1>T, <1>4, <2>2 DEF Places
<1>7. ASSUME NEW o \in Calls, SendBuffer(o) PROVE StreamsCounted'
  <2>1. kind[o] = "buffer"
    BY <1>T, <1>7, TailCalls DEF Types, Sent, SendBuffer
  <2>2. /\ kind' = kind /\ openStreams' = openStreams
        /\ \A p \in Calls : p # o => pc'[p] = pc[p]
    BY <1>T, <1>7 DEF Types, SendBuffer, Goto
  <2> QED BY <1>4, <2>1, <2>2
<1>8. ASSUME NEW o \in Calls, BufferReturns(o) \/ CloseReturns(o) \/ CloseSent(o)
      PROVE  StreamsCounted'
  <2>1. /\ kind' = kind /\ openStreams' = openStreams
        /\ pc[o] \in {"waiting", "deferred", "notifying"} /\ pc'[o] = "done"
        /\ \A p \in Calls : p # o => pc'[p] = pc[p]
    BY <1>T, <1>8 DEF Types, BufferReturns, CloseReturns, CloseSent, Goto
  <2> QED BY <1>3, <2>1 DEF Open
<1>9. ASSUME NEW o \in Calls, Identified(o) \/ DoneWriting(o) PROVE StreamsCounted'
  BY <1>T, <1>4, <1>9 DEF Types, Identified, DoneWriting, Goto
<1>10. ASSUME NEW o \in Calls, Fail(o) PROVE StreamsCounted'
  <2>1. /\ kind' = kind /\ openStreams' = openStreams /\ Goto(o, "failed")
        /\ \/ kind[o] # "stream"
           \/ pc[o] \in {"identify", "streaming", "finish"}
    BY <1>10 DEF Fail, SendFails, WaitFails, StreamFails
  <2>2. pc'[o] = "failed" /\ \A p \in Calls : p # o => pc'[p] = pc[p]
    BY <1>T, <2>1 DEF Types, Goto
  <2> QED BY <1>4, <2>1, <2>2
<1>11. CASE UNCHANGED <<kind, pc, openStreams>>
  BY <1>3, <1>11 DEF Open
<1>12. ASSUME NEW o \in Calls, Process(o) PROVE UNCHANGED <<kind, pc, openStreams>>
  BY <1>12 DEF Process
<1>13. CASE Handled \/ UNCHANGED writerVars
  BY <1>11, <1>13 DEF Handled, writerVars
<1> QED
  BY <1>1, <1>2, <1>5, <1>6, <1>7, <1>8, <1>9, <1>10, <1>11, <1>12, <1>13
     DEF Next, Start, Resume

LEMMA StepAcksConserved == WriterInv /\ [Next]_writerVars => AcksConserved'
<1> SUFFICES ASSUME WriterInv, [Next]_writerVars PROVE AcksConserved'
  OBVIOUS
<1>T. Types /\ Entries /\ Sent /\ AcksConserved
  BY DEF WriterInv
<1>F. /\ IsFiniteSet(processed) /\ Cardinality(processed) \in Nat
      /\ IsFiniteSet(resolved) /\ Cardinality(resolved) \in Nat
      /\ acks \in Nat
  BY <1>T, CallsFinite DEF Types
<1>1. ASSUME NEW o \in Calls, Process(o) PROVE AcksConserved'
  <2>1. /\ o \notin processed /\ processed' = processed \cup {o}
        /\ acks' = acks + 1 /\ resolved' = resolved
    BY <1>1 DEF Process
  <2>2. Cardinality(processed') = Cardinality(processed) + 1
    BY <1>F, <2>1, FS_AddElement
  <2> QED BY <1>T, <1>F, <2>1, <2>2 DEF AcksConserved
\* An ack finds an entry: without one every message is resolved already, and no
\* more are processed than there are.
<1>2. CASE Handled
  <2>1. CASE awaiting = <<>>
    <3>1. processed \subseteq resolved
      BY <1>T, <2>1 DEF Types, Sent, Entries, InSeq
    <3>2. Cardinality(processed) <= Cardinality(resolved)
      BY <1>F, <3>1, FS_Subset
    <3> QED BY <1>T, <1>F, <1>2, <3>2 DEF AcksConserved, Handled
  <2>2. CASE awaiting # <<>>
    <3>1. /\ resolved' = resolved \cup {Head(awaiting)}
          /\ acks' = acks - 1 /\ processed' = processed
      BY <1>2, <2>2 DEF Handled
    <3>2. 1 \in DOMAIN awaiting /\ Head(awaiting) = awaiting[1] /\ Head(awaiting) \in Nat
      BY <1>T, <2>2, TailCalls DEF Types, Calls
    <3>3. Head(awaiting) \notin resolved
      BY <1>T, <3>2 DEF Entries
    <3>4. Cardinality(resolved') = Cardinality(resolved) + 1
      BY <1>F, <3>1, <3>3, FS_AddElement
    <3> QED BY <1>T, <1>F, <3>1, <3>4 DEF AcksConserved
  <2> QED BY <2>1, <2>2
<1>3. CASE UNCHANGED <<processed, resolved, acks>>
  BY <1>T, <1>3 DEF AcksConserved
<1>4. ASSUME NEW o \in Calls, Start(o) \/ Resume(o) \/ Fail(o)
      PROVE  UNCHANGED <<processed, resolved, acks>>
  BY <1>4 DEF Start, Resume, Buffer, Stream, Close, SendBuffer, BufferReturns, CloseReturns,
              CloseSent, DoneWriting, Fail, SendFails, WaitFails, StreamFails, Identified,
              StreamReturns, remote
<1>5. CASE UNCHANGED writerVars
  BY <1>3, <1>5 DEF writerVars, remote
<1> QED BY <1>1, <1>2, <1>3, <1>4, <1>5 DEF Next

\* A message is announced by its own call, when this gets past the point of sending.
LEMMA Announces ==
  ASSUME WriterInv, [Next]_writerVars
  PROVE  \/ announced' = announced
         \/ \E o \in Calls : /\ announced' = Append(announced, o)
                             /\ pc[o] \in {"sending", "identify"}
                             /\ pc'[o] \in {"waiting", "streaming"}
<1> DEFINE Goal == \/ announced' = announced
                   \/ \E o \in Calls : /\ announced' = Append(announced, o)
                                       /\ pc[o] \in {"sending", "identify"}
                                       /\ pc'[o] \in {"waiting", "streaming"}
<1> SUFFICES Goal
  OBVIOUS
<1>T. Types /\ Sent
  BY DEF WriterInv
<1>1. ASSUME NEW o \in Calls, SendBuffer(o) PROVE Goal
  <2>1. pc[o] = "sending"
    <3>1. 1 \in DOMAIN outgoing /\ o = outgoing[1]
      BY <1>T, <1>1, TailCalls DEF SendBuffer, Types
    <3> QED BY <1>T, <3>1 DEF Sent
  <2>2. pc'[o] = "waiting" /\ announced' = Append(announced, o)
    BY <1>T, <1>1 DEF SendBuffer, Goto, Types
  <2> QED BY <2>1, <2>2
<1>2. ASSUME NEW o \in Calls, Identified(o) PROVE Goal
  BY <1>T, <1>2 DEF Identified, Goto, Types
<1>3. ASSUME NEW o \in Calls,
             \/ Start(o) \/ BufferReturns(o) \/ CloseSent(o) \/ CloseReturns(o)
             \/ DoneWriting(o) \/ StreamReturns(o) \/ Fail(o) \/ Process(o)
      PROVE  announced' = announced
  BY <1>3 DEF Start, Buffer, Stream, Close, BufferReturns, CloseSent, CloseReturns,
              DoneWriting, StreamReturns, Fail, SendFails, WaitFails, StreamFails, Process,
              remote
<1>4. CASE Handled \/ UNCHANGED writerVars
  BY <1>4 DEF Handled, writerVars, remote
<1> QED BY <1>1, <1>2, <1>3, <1>4 DEF Next, Resume

\* A call that failed remains so, and an entry that is stale.
LEMMA StaleStays ==
  ASSUME WriterInv, [Next]_writerVars, NEW x \in Calls, pc[x] = "failed"
  PROVE  pc'[x] = "failed" /\ (Stale(x) => Stale(x)')
<1>T. Types /\ Places /\ Sent /\ announced \in Seq(Calls)
  BY DEF WriterInv, Types
<1>1. pc'[x] = "failed" /\ kind'[x] = kind[x]
  <2>1. \A o \in Calls : Made(o) \/ GoesOn(o) =>
          x # o /\ \A y \in Calls : y # o => pc'[y] = pc[y] /\ kind'[y] = kind[y]
    BY <1>T DEF Types, Made, GoesOn, Goto
  <2> QED BY <1>T, <2>1, StepShape
<1>2. InSeq(x, announced') => InSeq(x, announced)
  <2>1. CASE announced' = announced
    BY <2>1 DEF InSeq
  <2>2. ASSUME NEW o \in Calls, announced' = Append(announced, o),
               pc[o] \in {"sending", "identify"}
        PROVE  InSeq(x, announced') => InSeq(x, announced)
    <3>1. x # o
      BY <2>2
    <3> QED BY <1>T, <2>2, <3>1, AppendCall
  <2> QED BY <2>1, <2>2, Announces
<1> QED BY <1>1, <1>2 DEF Stale, IsMessage

LEMMA StepArrivals == WriterInv /\ [Next]_writerVars => Arrivals'
<1> SUFFICES ASSUME WriterInv, [Next]_writerVars, \A o \in Calls : kind'[o] # "stream"
             PROVE  Arrivals'
  BY DEF Arrivals
<1>T. Types /\ Types' /\ Places /\ Sent /\ Sent'
  BY StepTypes, StepSent DEF WriterInv
<1>R. /\ outgoing \in Seq(Calls) /\ announced \in Seq(Calls) /\ processed \subseteq Calls
      /\ \A i \in DOMAIN outgoing : outgoing[i] \in Calls
      /\ \A i \in DOMAIN announced : announced[i] \in Calls
  BY <1>T DEF Types
<1>K. /\ \A o \in Calls : Made(o) => kind[o] = "none"
                                     /\ \A x \in Calls : x # o => kind'[x] = kind[x]
      /\ \A o \in Calls : GoesOn(o) => kind' = kind
  BY <1>T DEF Types, Places, Made, GoesOn
<1>N. \A o \in Calls : kind[o] # "stream"
  BY <1>T, <1>K, StepShape
<1>A. /\ Increasing(announced) /\ Increasing(outgoing)
      /\ \A i \in DOMAIN announced, j \in DOMAIN outgoing : announced[i] < outgoing[j]
      /\ \A o \in Calls :
           IsMessage(o) => InSeq(o, announced) \/ InSeq(o, outgoing) \/ pc[o] = "failed"
      /\ closes = 0 => \A o \in processed, p \in Calls :
                         IsMessage(p) /\ p < o => p \in processed \/ Stale(p)
  BY <1>N DEF WriterInv, Arrivals, Sent
<1>S. /\ \A x \in Calls : pc[x] = "failed" => pc'[x] = "failed"
      /\ \A x \in Calls : Stale(x) => Stale(x)'
  <2>1. \A x \in Calls : Stale(x) => pc[x] = "failed"
    BY DEF Stale
  <2> QED BY <2>1, StaleStays
\* What is processed stays ahead of what is not, when no other is processed.
<1>P. ASSUME UNCHANGED <<processed, closes>>, \A x \in Calls : IsMessage(x)' <=> IsMessage(x)
      PROVE  closes' = 0 => \A x \in processed', p \in Calls :
                              IsMessage(p)' /\ p < x => p \in processed' \/ Stale(p)'
  BY <1>A, <1>S, <1>P
<1>1. ASSUME NEW o \in Calls, Buffer(o) PROVE Arrivals'
  <2>1. /\ pc[o] = "idle" /\ kind'[o] = "buffer"
        /\ \A p \in Calls : p # o => kind'[p] = kind[p]
        /\ outgoing' = Append(outgoing, o) /\ UNCHANGED <<announced, processed, closes>>
    BY <1>T, <1>1 DEF Types, Buffer, Call, Goto, closing
  <2>2. \A x \in Calls : kind[x] # "none" => x < o
    BY <1>T, <2>1, NewIsLast
  <2>3. \A i \in DOMAIN announced : announced[i] < o
    BY <1>T, <1>R, <2>2 DEF Sent, IsMessage
  <2>4. \A x \in processed : x < o
    BY <1>T, <1>R, <2>2 DEF Sent, IsMessage
  <2>5. /\ \A x \in Calls : InSeq(x, outgoing') <=> InSeq(x, outgoing) \/ x = o
        /\ \A i \in DOMAIN outgoing' :
             (i \in DOMAIN outgoing /\ outgoing'[i] = outgoing[i]) \/ outgoing'[i] = o
    BY <1>R, <2>1, AppendCall
  <2>6. \A i \in DOMAIN announced, j \in DOMAIN outgoing' : announced[i] < outgoing'[j]
    BY <1>A, <2>3, <2>5
  <2>7. \A x \in Calls : IsMessage(x)' =>
          InSeq(x, announced) \/ InSeq(x, outgoing') \/ pc'[x] = "failed"
    BY <1>A, <1>S, <2>1, <2>5 DEF IsMessage
  <2>8. closes = 0 => \A x \in processed, p \in Calls :
                        IsMessage(p)' /\ p < x => p \in processed \/ Stale(p)'
    <3> SUFFICES ASSUME closes = 0, NEW x \in processed, NEW p \in Calls,
                        IsMessage(p)', p < x
                 PROVE  p \in processed \/ Stale(p)'
      OBVIOUS
    <3>1. p # o
      BY <1>R, <2>4 DEF Calls
    <3> QED BY <1>A, <1>S, <2>1, <3>1 DEF IsMessage
  <2> QED BY <1>A, <2>1, <2>6, <2>7, <2>8 DEF Arrivals, Increasing
<1>2. ASSUME NEW o \in Calls, SendBuffer(o) PROVE Arrivals'
  <2>1. /\ outgoing # <<>> /\ o = Head(outgoing) /\ kind' = kind
        /\ outgoing' = Tail(outgoing) /\ announced' = Append(announced, o)
        /\ UNCHANGED <<processed, closes>>
    BY <1>2 DEF SendBuffer, closing
  <2>2. /\ \A x \in Calls : InSeq(x, outgoing) <=> x = o \/ InSeq(x, outgoing')
        /\ \A i \in DOMAIN outgoing' : \E j \in DOMAIN outgoing :
             j > 1 /\ outgoing'[i] = outgoing[j]
        /\ 1 \in DOMAIN outgoing /\ o = outgoing[1]
        /\ \A i \in DOMAIN outgoing' : o < outgoing'[i]
    BY <1>A, <1>R, <2>1, TailCalls
  <2>3. \A i \in DOMAIN announced : announced[i] < o
    BY <1>A, <2>2
  <2>4. /\ \A x \in Calls : InSeq(x, announced') <=> InSeq(x, announced) \/ x = o
        /\ \A i \in DOMAIN announced' :
             (i \in DOMAIN announced /\ announced'[i] = announced[i]) \/ announced'[i] = o
        /\ Increasing(announced')
    BY <1>A, <1>R, <2>1, <2>3, AppendCall
  <2>5. \A i \in DOMAIN announced', j \in DOMAIN outgoing' : announced'[i] < outgoing'[j]
    BY <1>A, <2>2, <2>4
  <2>6. \A x \in Calls : IsMessage(x)' =>
          InSeq(x, announced') \/ InSeq(x, outgoing') \/ pc'[x] = "failed"
    BY <1>A, <1>S, <2>1, <2>2, <2>4 DEF IsMessage
  <2>7. \A x \in Calls : IsMessage(x)' <=> IsMessage(x)
    BY <2>1 DEF IsMessage
  <2> QED BY <1>P, <2>1, <2>4, <2>5, <2>6, <2>7 DEF Arrivals, Increasing
<1>3. ASSUME NEW o \in Calls, Process(o) PROVE Arrivals'
  <2>1. /\ UNCHANGED <<kind, outgoing, announced, closes>>
        /\ processed' = processed \cup {o}
    BY <1>3 DEF Process, closing
  <2>2. ASSUME closes = 0, NEW p \in Calls, IsMessage(p), p < o, ~Stale(p)
        PROVE  p \in processed
    <3>1. PICK j \in DOMAIN announced : announced[j] = o
      BY <1>3 DEF Process, InSeq
    <3>2. kind[o] = "buffer" /\ kind[p] = "buffer"
      BY <1>T, <1>N, <2>2, <3>1 DEF Sent, IsMessage
    <3>3. ~InSeq(p, outgoing)
      BY <1>A, <2>2, <3>1 DEF InSeq, Calls
    <3>4. PICK i \in DOMAIN announced : announced[i] = p
      BY <1>A, <2>2, <3>3 DEF InSeq, Stale
    <3>5. i \in Nat /\ j \in Nat
      BY <1>R
    <3>6. i < j
      BY <1>A, <2>2, <3>1, <3>4, <3>5 DEF Increasing, Calls
    <3> QED BY <1>3, <2>2, <3>1, <3>2, <3>4, <3>6 DEF Process
  <2>3. closes' = 0 => \A x \in processed', p \in Calls :
                         IsMessage(p)' /\ p < x => p \in processed' \/ Stale(p)'
    BY <1>A, <1>S, <2>1, <2>2 DEF IsMessage
  <2> QED BY <1>A, <1>S, <2>1, <2>3 DEF Arrivals, Increasing, IsMessage, InSeq
<1>4. ASSUME NEW o \in Calls, CloseSent(o) PROVE Arrivals'
  <2>1. /\ UNCHANGED <<kind, outgoing, announced, processed>> /\ closes' # 0
    BY <1>T, <1>4 DEF Types, CloseSent, remote
  <2> QED BY <1>A, <1>S, <2>1 DEF Arrivals, Increasing, IsMessage, InSeq
<1>5. ASSUME UNCHANGED <<outgoing, announced, processed, closes>>,
             \A x \in Calls : IsMessage(x)' <=> IsMessage(x)
      PROVE  Arrivals'
  BY <1>A, <1>S, <1>P, <1>5 DEF Arrivals, Increasing, InSeq
<1>6. ASSUME NEW o \in Calls, Close(o) PROVE Arrivals'
  <2>1. /\ UNCHANGED <<outgoing, announced, processed, closes>> /\ pc[o] = "idle"
        /\ kind'[o] \in {"close", "issued"}
        /\ \A p \in Calls : p # o => kind'[p] = kind[p]
    BY <1>T, <1>6 DEF Types, Close, Call, remote
  <2>2. kind[o] = "none"
    BY <1>T, <2>1, NewIsLast
  <2> QED BY <1>5, <2>1, <2>2 DEF IsMessage
<1>7. ASSUME NEW o \in Calls PROVE ~Stream(o) /\ ~Identified(o)
  <2>1. Stream(o) => kind'[o] = "stream"
    BY <1>T DEF Types, Stream, Call
  <2>2. Identified(o) => kind[o] = "stream"
    BY <1>T DEF Identified, Places
  <2> QED BY <1>N, <2>1, <2>2
<1>8. ASSUME NEW o \in Calls, Quiet(o) \/ StreamReturns(o) PROVE Arrivals'
  <2>1. UNCHANGED <<kind, outgoing, announced, processed, closes>>
    BY <1>8 DEF Quiet, BufferReturns, CloseReturns, DoneWriting, WaitFails, StreamFails,
                StreamReturns, closing, remote
  <2> QED BY <1>5, <2>1 DEF IsMessage
<1>9. CASE Handled \/ UNCHANGED writerVars
  <2>1. UNCHANGED <<kind, outgoing, announced, processed, closes>>
    BY <1>9 DEF Handled, writerVars, closing, remote
  <2> QED BY <1>5, <2>1 DEF IsMessage
\* A write that raises leaves the others in their order.
<1>10. ASSUME NEW o \in Calls, SendFails(o) PROVE Arrivals'
  <2>1. /\ UNCHANGED <<kind, announced, processed, closes>> /\ pc'[o] = "failed"
    BY <1>T, <1>10 DEF SendFails, Goto, Types, closing
  <2>2. /\ \A x \in Calls : x # o /\ InSeq(x, outgoing) => InSeq(x, outgoing')
        /\ \A j \in DOMAIN outgoing' : \E k \in DOMAIN outgoing : outgoing'[j] = outgoing[k]
    BY <1>A, <1>T, <1>10, SendFailsEffect
  <2>3. \A i \in DOMAIN announced', j \in DOMAIN outgoing' : announced'[i] < outgoing'[j]
    BY <1>A, <2>1, <2>2
  <2>4. \A x \in Calls : IsMessage(x)' <=> IsMessage(x)
    BY <2>1 DEF IsMessage
  <2>5. \A x \in Calls : IsMessage(x)' =>
          InSeq(x, announced') \/ InSeq(x, outgoing') \/ pc'[x] = "failed"
    BY <1>A, <1>S, <2>1, <2>2, <2>4
  <2> QED BY <1>A, <1>P, <2>1, <2>3, <2>4, <2>5 DEF Arrivals, Increasing
<1> QED
  BY <1>1, <1>2, <1>3, <1>4, <1>6, <1>7, <1>8, <1>9, <1>10
     DEF Next, Start, Resume, Quiet, Fail
\* A message is announced once, when its call gets past the point of sending it.
AnnouncedOnce ==
  /\ \A i \in DOMAIN announced : pc[announced[i]] \notin {"idle", "sending", "identify"}
  /\ \A i, j \in DOMAIN announced : announced[i] = announced[j] => i = j

LEMMA StepAnnouncedOnce == WriterInv /\ AnnouncedOnce /\ [Next]_writerVars => AnnouncedOnce'
<1> SUFFICES ASSUME WriterInv, AnnouncedOnce, [Next]_writerVars PROVE AnnouncedOnce'
  OBVIOUS
<1>T. Types /\ Places /\ Sent
  BY DEF WriterInv
<1>R. announced \in Seq(Calls) /\ \A i \in DOMAIN announced : announced[i] \in Calls
  BY <1>T DEF Types
<1>P. ASSUME NEW x \in Calls, pc[x] \notin {"idle", "sending", "identify"}
      PROVE  pc'[x] \notin {"idle", "sending", "identify"}
  <2>1. CASE UNCHANGED <<kind, pc>>
    BY <1>P, <2>1
  <2>2. ASSUME NEW o \in Calls, Made(o) \/ GoesOn(o)
        PROVE  pc'[x] \notin {"idle", "sending", "identify"}
    BY <1>T, <1>P, <2>2 DEF Made, GoesOn, Goto, Types
  <2> QED BY <1>T, <2>1, <2>2, StepShape
<1>A. ASSUME announced' = announced PROVE AnnouncedOnce'
  BY <1>A, <1>P, <1>R DEF AnnouncedOnce
<1>B. ASSUME NEW o \in Calls, announced' = Append(announced, o),
             pc[o] \in {"sending", "identify"}, pc'[o] \in {"waiting", "streaming"}
      PROVE  AnnouncedOnce'
  <2>1. \A i \in DOMAIN announced : announced[i] # o
    BY <1>B DEF AnnouncedOnce
  <2>2. \A i \in DOMAIN announced' :
          (i \in DOMAIN announced /\ announced'[i] = announced[i]) \/ announced'[i] = o
    BY <1>B, <1>R, AppendCall
  <2>3. /\ \A i \in DOMAIN announced : announced'[i] = announced[i]
        /\ \A i \in DOMAIN announced' : i \notin DOMAIN announced => i = Len(announced) + 1
    BY <1>B, <1>R
  <2>4. ASSUME NEW i \in DOMAIN announced', NEW j \in DOMAIN announced',
               announced'[i] = announced'[j]
        PROVE  i = j
    <3>1. CASE i \in DOMAIN announced /\ j \in DOMAIN announced
      BY <2>3, <2>4, <3>1 DEF AnnouncedOnce
    <3>2. CASE i \notin DOMAIN announced /\ j \notin DOMAIN announced
      BY <2>3, <3>2
    <3> QED BY <2>1, <2>2, <2>3, <2>4, <3>1, <3>2
  <2> QED BY <1>B, <1>P, <1>R, <2>2, <2>4 DEF AnnouncedOnce
<1> QED BY <1>A, <1>B, Announces

\* Buffers arrive in the order of the calls, also between streams.
BuffersInOrder ==
  /\ \A i, j \in DOMAIN announced :
       i < j /\ kind[announced[i]] = "buffer" /\ kind[announced[j]] = "buffer" =>
         announced[i] < announced[j]
  /\ \A i \in DOMAIN announced, j \in DOMAIN outgoing :
       kind[announced[i]] = "buffer" => announced[i] < outgoing[j]

LEMMA StepBuffersInOrder ==
  WriterInv /\ BuffersInOrder /\ [Next]_writerVars => BuffersInOrder'
<1> SUFFICES ASSUME WriterInv, BuffersInOrder, [Next]_writerVars PROVE BuffersInOrder'
  OBVIOUS
<1>T. Types /\ Places /\ Sent
  BY DEF WriterInv
<1>R. /\ announced \in Seq(Calls) /\ \A i \in DOMAIN announced : announced[i] \in Calls
      /\ outgoing \in Seq(Calls) /\ \A i \in DOMAIN outgoing : outgoing[i] \in Calls
  BY <1>T DEF Types
<1>C. Calls \subseteq Nat
  BY DEF Calls
<1>K. \A i \in DOMAIN announced : kind'[announced[i]] = kind[announced[i]]
  <2>1. ASSUME NEW i \in DOMAIN announced PROVE pc[announced[i]] # "idle"
    BY <1>T, <1>R, <2>1 DEF Places, Sent, IsMessage
  <2>2. ASSUME NEW i \in DOMAIN announced, NEW o \in Calls, Made(o)
        PROVE  kind'[announced[i]] = kind[announced[i]]
    BY <1>T, <1>R, <2>1, <2>2 DEF Made, Types
  <2> QED BY <1>T, <2>2, StepShape DEF GoesOn
<1>U. ASSUME UNCHANGED <<announced, outgoing>> PROVE BuffersInOrder'
  BY <1>K, <1>U DEF BuffersInOrder
<1>1. ASSUME NEW o \in Calls, Buffer(o) PROVE BuffersInOrder'
  <2>1. pc[o] = "idle" /\ outgoing' = Append(outgoing, o) /\ announced' = announced
    BY <1>1 DEF Buffer, Call
  <2>2. \A i \in DOMAIN announced : announced[i] < o
    BY <1>T, <1>R, <2>1, NewIsLast DEF Sent, IsMessage
  <2>3. \A i \in DOMAIN outgoing' :
          (i \in DOMAIN outgoing /\ outgoing'[i] = outgoing[i]) \/ outgoing'[i] = o
    BY <1>R, <2>1, AppendCall
  <2> QED BY <1>K, <2>1, <2>2, <2>3 DEF BuffersInOrder
<1>2. ASSUME NEW o \in Calls, announced' = Append(announced, o),
             \A i \in DOMAIN announced :
               kind[announced[i]] = "buffer" /\ kind'[o] = "buffer" => announced[i] < o,
             \A j \in DOMAIN outgoing' :
               /\ \E k \in DOMAIN outgoing : outgoing'[j] = outgoing[k]
               /\ kind'[o] = "buffer" => o < outgoing'[j]
      PROVE  BuffersInOrder'
  <2>1. /\ DOMAIN announced = 1..Len(announced) /\ Len(announced) \in Nat
        /\ DOMAIN announced' = 1..(Len(announced) + 1)
        /\ announced'[Len(announced) + 1] = o
        /\ \A i \in DOMAIN announced : announced'[i] = announced[i]
    BY <1>R, <1>2
  <2>2. ASSUME NEW i \in DOMAIN announced', NEW j \in DOMAIN announced', i < j,
               kind'[announced'[i]] = "buffer", kind'[announced'[j]] = "buffer"
        PROVE  announced'[i] < announced'[j]
    <3>1. i \in DOMAIN announced
      BY <2>1, <2>2
    <3>2. CASE j \in DOMAIN announced
      BY <1>K, <2>1, <2>2, <3>1, <3>2 DEF BuffersInOrder
    <3>3. CASE j \notin DOMAIN announced
      <4>1. j = Len(announced) + 1
        BY <2>1, <3>3
      <4>2. announced'[i] = announced[i] /\ announced'[j] = o
        BY <2>1, <3>1, <4>1
      <4>3. kind[announced[i]] = "buffer" /\ kind'[o] = "buffer"
        BY <1>K, <2>2, <3>1, <4>2
      <4> QED BY <1>2, <3>1, <4>2, <4>3
    <3> QED BY <3>2, <3>3
  <2>3. ASSUME NEW i \in DOMAIN announced', NEW j \in DOMAIN outgoing',
               kind'[announced'[i]] = "buffer"
        PROVE  announced'[i] < outgoing'[j]
    <3>1. CASE i \in DOMAIN announced
      BY <1>2, <1>K, <2>1, <2>3, <3>1 DEF BuffersInOrder
    <3>2. CASE i \notin DOMAIN announced
      <4>1. i = Len(announced) + 1
        BY <2>1, <3>2
      <4> QED BY <1>2, <2>1, <2>3, <4>1
    <3> QED BY <3>1, <3>2
  <2> QED BY <2>2, <2>3 DEF BuffersInOrder
<1>3. ASSUME NEW o \in Calls, SendBuffer(o) PROVE BuffersInOrder'
  <2>1. /\ outgoing # <<>> /\ o = Head(outgoing) /\ outgoing' = Tail(outgoing)
        /\ announced' = Append(announced, o)
    BY <1>3 DEF SendBuffer
  <2>2. /\ \A i \in DOMAIN outgoing' : \E j \in DOMAIN outgoing :
             j > 1 /\ outgoing'[i] = outgoing[j]
        /\ 1 \in DOMAIN outgoing /\ o = outgoing[1]
        /\ \A i \in DOMAIN outgoing' : o < outgoing'[i]
    BY <1>T, <1>R, <2>1, TailCalls DEF Sent
  <2>3. \A i \in DOMAIN announced : kind[announced[i]] = "buffer" => announced[i] < o
    BY <2>2 DEF BuffersInOrder
  <2> QED BY <1>2, <2>1, <2>2, <2>3
<1>4. ASSUME NEW o \in Calls, Identified(o) PROVE BuffersInOrder'
  <2>1. /\ announced' = Append(announced, o) /\ outgoing' = outgoing /\ kind'[o] = "stream"
    BY <1>T, <1>4 DEF Identified, Places
  <2> QED BY <1>2, <2>1
<1>5. ASSUME NEW o \in Calls,
             \/ Stream(o) \/ Close(o) \/ BufferReturns(o) \/ CloseSent(o) \/ CloseReturns(o)
             \/ DoneWriting(o) \/ StreamReturns(o) \/ WaitFails(o) \/ StreamFails(o)
             \/ Process(o)
      PROVE  BuffersInOrder'
  BY <1>U, <1>5 DEF Stream, Close, BufferReturns, CloseSent, CloseReturns, DoneWriting,
                    StreamReturns, WaitFails, StreamFails, Process, remote
<1>6. CASE Handled \/ UNCHANGED writerVars
  BY <1>U, <1>6 DEF Handled, writerVars, remote
<1>7. ASSUME NEW o \in Calls, SendFails(o) PROVE BuffersInOrder'
  <2>1. announced' = announced
    BY <1>7 DEF SendFails
  <2>2. \A j \in DOMAIN outgoing' : \E k \in DOMAIN outgoing : outgoing'[j] = outgoing[k]
    BY <1>T, <1>7, SendFailsEffect DEF Sent
  <2> QED BY <1>K, <2>1, <2>2 DEF BuffersInOrder
<1> QED BY <1>1, <1>3, <1>4, <1>5, <1>6, <1>7 DEF Next, Start, Resume, Fail

\* While the messages are processed in the order of the calls, the resolved calls
\* are the first ones and the processed messages as well: a resolved call that was
\* not processed is one whose message never will be.
LEMMA FirstProcessed ==
  ASSUME WriterInv,
         \A o \in processed, p \in Calls :
           IsMessage(p) /\ p < o => p \in processed \/ Stale(p)
  PROVE  \A o \in resolved : o \in processed \/ Stale(o)
<1> SUFFICES ASSUME NEW r \in resolved, r \notin processed, ~Stale(r) PROVE FALSE
  OBVIOUS
<1>T. Types /\ Entries /\ Sent /\ AcksConserved
  BY DEF WriterInv
<1>F. /\ IsFiniteSet(processed) /\ Cardinality(processed) \in Nat
      /\ IsFiniteSet(resolved) /\ Cardinality(resolved) \in Nat
      /\ acks \in Nat /\ r \in Calls
  BY <1>T, CallsFinite DEF Types
<1>1. ASSUME NEW x \in processed PROVE x \in resolved /\ x # r
  <2>1. x \in Calls /\ IsMessage(x) /\ IsMessage(r)
    BY <1>T DEF Types, Sent, Entries
  <2>2. ~(r < x)
    BY <1>F, <2>1
  <2>3. ~InSeq(x, awaiting)
    BY <1>T, <1>F, <2>1, <2>2 DEF Entries, InSeq
  <2> QED BY <1>T, <2>1, <2>3 DEF Entries
<1>2. processed \subseteq resolved \ {r}
  BY <1>1
<1>3. Cardinality(resolved \ {r}) = Cardinality(resolved) - 1 /\ IsFiniteSet(resolved \ {r})
  BY <1>F, FS_RemoveElement
<1>4. Cardinality(processed) <= Cardinality(resolved) - 1
  BY <1>2, <1>3, FS_Subset
<1> QED BY <1>T, <1>F, <1>4 DEF AcksConserved
-----------------------------------------------------------------------------
(* The theorems *)

LEMMA Invariance == Spec => []WriterInv
<1>1. WriterInv /\ [Next]_writerVars => WriterInv'
  BY StepTypes, StepPlaces, StepEntries, StepSent, StepArrivals, StepIssuedKept,
     StepClosesSent, StepStreamsCounted, StepAcksConserved DEF WriterInv
<1> QED BY InitWriterInv, <1>1, PTL DEF Spec

\* writer.py: the variables hold what the code can put in them; no call awaits a
\* second ack, and the counters stay within the number of calls.
THEOREM TypeCorrect == Spec => []TypeOK
<1>1. WriterInv => TypeOK
  <2> SUFFICES ASSUME WriterInv PROVE TypeOK
    OBVIOUS
  <2>T. Types /\ Entries
    BY DEF WriterInv
  <2>1. awaiting \in Seq({o \in Calls : IsMessage(o)})
    <3>1. /\ Len(awaiting) \in Nat /\ awaiting \in [1..Len(awaiting) -> Calls]
          /\ DOMAIN awaiting = 1..Len(awaiting)
      BY <2>T DEF Types
    <3>2. \A i \in 1..Len(awaiting) : awaiting[i] \in {o \in Calls : IsMessage(o)}
      BY <2>T, <3>1 DEF Entries
    <3> QED BY <3>1, <3>2
  <2>2. \A o \in resolved : ~InSeq(o, awaiting)
    BY <2>T DEF Types, Entries, InSeq, Calls
  <2>3. Open \in SUBSET Calls /\ Returned \in SUBSET Calls
    BY DEF Open, Returned
  <2>4. openStreams \in 0..Cardinality(Calls)
    BY <2>3, CallsFinite, WriterAssumption DEF WriterInv, StreamsCounted, Open, WriterAssumption
  <2>5. acks \in 0..Cardinality(Calls)
    BY <2>T, CallsFinite, WriterAssumption DEF WriterInv, AcksConserved, Types, WriterAssumption
  <2>6. closes \in 0..Cardinality(Calls)
    BY <2>T, <2>3, CallsFinite, WriterAssumption DEF WriterInv, ClosesSent, Types, WriterAssumption
  <2> QED BY <2>T, <2>1, <2>2, <2>4, <2>5, <2>6 DEF TypeOK, Types
<1> QED BY Invariance, <1>1, PTL

\* writer.py:142, 178-186, 229-238: whatever calls are made, and whichever of them fail, the
\* streams and the acks are counted exactly.
THEOREM CountsAreExact == Spec => []CountsExact
<1>1. WriterInv => CountsExact
  BY DEF WriterInv, CountsExact
<1> QED BY Invariance, <1>1, PTL

\* writer.py:147-165, 229-238: on a channel without streams that is open, acks that name no
\* message never resolve a write before its own message was processed, also when another
\* raised as it was sent and left an entry behind.
THEOREM AcksAreOwn == Spec => []OwnAck
<1>1. WriterInv => OwnAck
  BY FirstProcessed DEF WriterInv, Arrivals, OwnAck
<1> QED BY Invariance, <1>1, PTL

\* writer.py:142-145, 194-227: the close that the last stream makes is not sent to an
\* orchestrator that issued one of those it deferred.
THEOREM NoEchoSent == Spec => NoEcho
<1> DEFINE Silent == \A o \in Calls :
               kind[o] = "stream" /\ pc'[o] = "notifying" /\ pc[o] # "notifying" =>
                 \A p \in shouldClose : kind[p] # "issued"
<1>1. WriterInv /\ [Next]_writerVars => [Silent]_writerVars
  <2> SUFFICES ASSUME WriterInv, [Next]_writerVars, NEW o \in Calls,
                      kind[o] = "stream", pc'[o] = "notifying", pc[o] # "notifying",
                      NEW p \in shouldClose
               PROVE  kind[p] # "issued"
    OBVIOUS
  <2>T. Types /\ Places /\ Sent /\ IssuedKept
    BY DEF WriterInv
  <2>1. ASSUME NEW x \in Calls, Start(x) PROVE FALSE
    <3>1. pc[x] = "idle"
      BY <2>1 DEF Start, Buffer, Stream, Close, Call
    <3>2. x # o
      BY <2>T, <3>1 DEF Places
    <3>3. \E l \in {"sending", "identify", "deferred", "done", "notifying"} : Goto(x, l)
      BY <2>T, <2>1, CloseEffect DEF Start, Buffer, Stream
    <3> QED BY <2>T, <3>2, <3>3 DEF Types, Goto
  <2>2. ASSUME NEW x \in Calls,
               \/ SendBuffer(x) \/ Quiet(x) \/ CloseSent(x) \/ Identified(x)
               \/ SendFails(x) \/ Process(x)
        PROVE  FALSE
    BY <2>T, <2>2 DEF Types, SendBuffer, Quiet, BufferReturns, CloseReturns, DoneWriting,
                      SendFails, WaitFails, StreamFails, CloseSent, Identified, Process, Goto
  <2>3. ASSUME NEW x \in Calls, StreamReturns(x) PROVE kind[p] # "issued"
    <3>1. \E l \in {"deferred", "done", "notifying"} : Goto(x, l)
      BY <2>T, <2>3, StreamReturnsEffect
    <3>2. x = o
      BY <2>T, <3>1 DEF Types, Goto
    <3>3. ~closeIssued
      BY <2>T, <2>3, <3>2, StreamReturnsEffect
    <3> QED BY <2>T, <3>3 DEF IssuedKept
  <2>4. CASE Handled \/ UNCHANGED writerVars
    BY <2>4 DEF Handled, writerVars
  <2> QED BY <2>1, <2>2, <2>3, <2>4 DEF Next, Resume, Quiet, Fail
<1>2. [][Silent]_writerVars => NoEcho
  BY DEF NoEcho
<1> QED BY Invariance, <1>1, <1>2, PTL DEF Spec

\* A message that is past the point of sending it reached the orchestrator, unless
\* its call failed there.
Reached ==
  \A o \in Calls :
    IsMessage(o) => \/ pc[o] \in {"sending", "identify", "failed"}
                    \/ InSeq(o, announced)

LEMMA StepReached == WriterInv /\ Reached /\ [Next]_writerVars => Reached'
<1> SUFFICES ASSUME WriterInv, Reached, [Next]_writerVars, NEW x \in Calls, IsMessage(x)'
             PROVE  pc'[x] \in {"sending", "identify", "failed"} \/ InSeq(x, announced')
  BY DEF Reached, Calls
<1> DEFINE Goal == pc'[x] \in {"sending", "identify", "failed"} \/ InSeq(x, announced')
<1>T. Types /\ Places /\ Sent /\ announced \in Seq(Calls)
  BY DEF WriterInv, Types
<1>K. ASSUME NEW o \in Calls, announced' = announced \/ announced' = Append(announced, o),
             InSeq(x, announced)
      PROVE  Goal
  <2>1. InSeq(x, Append(announced, o))
    BY <1>T, <1>K, AppendCall
  <2> QED BY <1>K, <2>1 DEF InSeq
<1>S. ASSUME announced' = announced, kind'[x] = kind[x], pc'[x] = pc[x] PROVE Goal
  BY <1>S DEF Reached, IsMessage, InSeq
<1>1. ASSUME NEW o \in Calls, Buffer(o) \/ Stream(o) PROVE Goal
  <2>1. CASE x = o
    BY <1>T, <1>1, <2>1 DEF Buffer, Stream, Goto, Types
  <2>2. CASE x # o
    BY <1>T, <1>1, <1>S, <2>2 DEF Buffer, Stream, Call, Goto, Types, remote
  <2> QED BY <2>1, <2>2
<1>2. ASSUME NEW o \in Calls, Close(o) PROVE Goal
  <2>1. kind'[o] \in {"close", "issued"} /\ \E l \in {"deferred", "done", "notifying"} : Goto(o, l)
    BY <1>T, <1>2, CloseEffect DEF Close, Call, Types
  <2>2. x # o
    BY <2>1 DEF IsMessage
  <2> QED BY <1>T, <1>2, <1>S, <2>1, <2>2 DEF Close, Call, Goto, Types, remote
<1>3. ASSUME NEW o \in Calls, SendBuffer(o) \/ Identified(o) PROVE Goal
  <2>1. announced' = Append(announced, o) /\ kind' = kind
    BY <1>3 DEF SendBuffer, Identified
  <2>2. CASE x = o
    BY <1>T, <2>1, <2>2, AppendCall
  <2>3. CASE x # o
    <3>1. pc'[x] = pc[x]
      BY <1>T, <1>3, <2>3 DEF SendBuffer, Identified, Goto, Types
    <3> QED BY <1>K, <2>1, <3>1 DEF Reached, IsMessage
  <2> QED BY <2>2, <2>3
<1>4. ASSUME NEW o \in Calls,
             \/ BufferReturns(o) \/ CloseReturns(o) \/ DoneWriting(o)
             \/ CloseSent(o) \/ StreamReturns(o)
      PROVE  Goal
  <2>1. announced' = announced /\ kind' = kind
    BY <1>4 DEF BufferReturns, CloseReturns, DoneWriting, CloseSent, StreamReturns, remote
  <2>2. pc[o] \notin {"sending", "identify", "failed"} /\ \E l : Goto(o, l)
    <3>1. CASE StreamReturns(o)
      <4>1. \E l \in {"deferred", "done", "notifying"} : Goto(o, l)
        BY <1>T, <3>1, StreamReturnsEffect
      <4> QED BY <3>1, <4>1 DEF StreamReturns
    <3>2. CASE ~StreamReturns(o)
      BY <1>4, <3>2 DEF BufferReturns, CloseReturns, DoneWriting, CloseSent
    <3> QED BY <3>1, <3>2
  <2>3. CASE x # o
    BY <1>T, <1>S, <2>1, <2>2, <2>3 DEF Goto, Types
  <2>4. CASE x = o
    BY <1>K, <2>1, <2>2, <2>4 DEF Reached, IsMessage
  <2> QED BY <2>3, <2>4
<1>8. ASSUME NEW o \in Calls, Fail(o) PROVE Goal
  <2>1. announced' = announced /\ kind' = kind /\ Goto(o, "failed")
    BY <1>8 DEF Fail, SendFails, WaitFails, StreamFails, remote
  <2> QED BY <1>T, <1>S, <2>1 DEF Goto, Types
<1>5. ASSUME NEW o \in Calls, Process(o) PROVE Goal
  BY <1>5, <1>S DEF Process
<1>6. CASE Handled
  BY <1>6, <1>S DEF Handled
<1>7. CASE UNCHANGED writerVars
  BY <1>7, <1>S DEF writerVars, remote
<1> QED BY <1>1, <1>2, <1>3, <1>4, <1>5, <1>6, <1>7, <1>8 DEF Next, Start, Resume

\* Once every message that was announced is processed, and none is being sent and
\* no ack on the way, no write is left waiting: its future was set, unless a stale
\* entry is ahead of its own.
NoneLeftWaiting ==
  /\ acks = 0
  /\ \A o \in Calls : IsMessage(o) => pc[o] \notin {"sending", "identify"}
  /\ \A i \in DOMAIN announced : announced[i] \in processed
  => \A o \in Calls : IsMessage(o) => o \in resolved \/ \E p \in 1..o : Stale(p)

\* writer.py:99-165, 229-238: acks that name no message are enough to release all writes,
\* buffers and streams alike: although an ack may release another write than the one it was
\* for, no write is forgotten when all messages were processed.  Only a call that raised
\* before its message was announced takes an ack from those behind it.
THEOREM NoWriteIsForgotten == Spec => []NoneLeftWaiting
<1>1. Init => Reached
  BY DEF Init, Reached, IsMessage
<1>2. WriterInv /\ Reached => NoneLeftWaiting
  <2> SUFFICES ASSUME WriterInv, Reached, acks = 0,
                      \A o \in Calls : IsMessage(o) => pc[o] \notin {"sending", "identify"},
                      \A i \in DOMAIN announced : announced[i] \in processed,
                      NEW m \in Calls, IsMessage(m), m \notin resolved,
                      \A p \in 1..m : ~Stale(p)
               PROVE  FALSE
    BY DEF NoneLeftWaiting
  <2>T. Types /\ Entries /\ AcksConserved
    BY DEF WriterInv
  <2>F. /\ IsFiniteSet(processed) /\ Cardinality(processed) \in Nat
        /\ IsFiniteSet(resolved) /\ Cardinality(resolved) \in Nat
        /\ Cardinality(processed) = Cardinality(resolved)
    BY <2>T, CallsFinite DEF Types, AcksConserved
  <2>1. \A o \in Calls : IsMessage(o) /\ o <= m => o \in processed
    <3>1. \A o \in Calls : o <= m => o \in 1..m
      BY DEF Calls
    <3>2. ASSUME NEW o \in Calls, IsMessage(o), o <= m PROVE InSeq(o, announced)
      BY <3>1, <3>2 DEF Reached, Stale
    <3> QED BY <3>2 DEF InSeq
  <2>2. \A r \in resolved : r \in Calls /\ IsMessage(r) /\ r <= m
    BY <2>T DEF Types, Entries, InSeq, Calls
  <2>3. resolved \cup {m} \subseteq processed
    BY <2>1, <2>2 DEF Calls
  <2>4. Cardinality(resolved \cup {m}) = Cardinality(resolved) + 1
    BY <2>F, FS_AddElement
  <2>5. Cardinality(resolved \cup {m}) <= Cardinality(processed)
    BY <2>3, <2>F, FS_Subset
  <2> QED BY <2>F, <2>4, <2>5
<1> QED BY Invariance, InitWriterInv, StepReached, <1>1, <1>2, PTL DEF Spec
=============================================================================
