----------------------------- MODULE ServerProofs -----------------------------
(***************************************************************************)
(* Proofs about Server, for any number of connections, any limit, any      *)
(* history size and any files.                                             *)
(***************************************************************************)
EXTENDS Server, FiniteSetTheorems, SequenceTheorems, TLAPS

-----------------------------------------------------------------------------
(* The inductive invariant, in parts. *)

Serving == {c \in Conns : at[c] \in Served}
Known == {c \in Conns : runnerId[c] # 0}
Departed == {c \in Conns : at[c] = "over" /\ runnerId[c] # 0}

\* A connection has a record from its handshake on, one of its own; the records
\* of those that are served are live.
Records ==
  /\ \A c \in Conns : /\ at[c] \in {"none", "accepted", "handshake"} => runnerId[c] = 0
                      /\ at[c] \in Registered => runnerId[c] # 0
                      /\ runnerId[c] < nextId
  /\ LiveIsServed
  /\ Cardinality(Known) = nextId - 1

\* The shutdown waits for everybody who is served, and nobody is served anew.
Shutting ==
  /\ stopping <=> main \in {"stopping", "grace", "stopped"}
  /\ cancelling # {} => stopping
  /\ main \in {"stopping", "grace"} => Serving \subseteq waited
  /\ main = "stopped" => Serving = {}
  /\ \A c \in waited : at[c] \in Served \cup {"over"}

\* A record that left the registry is not live; each connection left once.
Departures ==
  /\ HistoryIsLatest
  /\ \A k \in 1..Len(left) : left[k] \notin runners
  /\ Len(left) = Cardinality(Departed)

\* While it is served a runner has completed exactly in its normal teardown.
Outcomes ==
  /\ \A c \in Conns :
       /\ at[c] \in {"bridging", "running", "failing"} => runnerId[c] \notin completed
       /\ at[c] = "leaving" => runnerId[c] \in completed /\ status[runnerId[c]] = "done"
  /\ \A k \in 1..Len(left) :
       /\ status[left[k]] = "done" => left[k] \in completed
       /\ left[k] \in completed => status[left[k]] = "done" \/ stopping

ServerInv ==
  Types /\ LimitHolds /\ Records /\ Shutting /\ Departures /\ Outcomes

LEMMA ConnsFinite ==
  /\ IsFiniteSet(Conns) /\ Cardinality(Conns) = MaxConns
  /\ \A S \in SUBSET Conns :
       IsFiniteSet(S) /\ Cardinality(S) \in Nat /\ Cardinality(S) <= MaxConns
<1>1. IsFiniteSet(Conns) /\ Cardinality(Conns) = MaxConns
  BY FS_Interval, ServerAssumption DEF ServerAssumption, Conns
<1> QED BY <1>1, FS_Subset, FS_CardinalityType

LEMMA InitServerInv == Init => ServerInv
<1> SUFFICES ASSUME Init PROVE ServerInv
  OBVIOUS
<1> USE DEF Init
<1>1. Types
  <2>1. historySize \in Int /\ historySize >= -1
    BY ServerAssumption DEF ServerAssumption, AtLeast
  <2>2. MaxConns \in Nat /\ whitelist \subseteq Files /\ todo \subseteq Files
    BY ServerAssumption DEF ServerAssumption, W!Init
  <2>3. at \in [Conns -> Places] /\ status \in [Ids -> Statuses]
    BY DEF Places, Statuses
  <2>4. runnerId \in [Conns -> 0..MaxConns] /\ nextId \in 1..(MaxConns + 1)
    BY <2>2
  <2>5. history \in Seq(1..(nextId - 1)) /\ left \in Seq(1..(nextId - 1))
    OBVIOUS
  <2> QED BY <2>1, <2>2, <2>3, <2>4, <2>5 DEF Types
<1>2. Serving = {} /\ Known = {} /\ Departed = {}
  BY DEF Serving, Known, Departed, Served
<1>3. LimitHolds
  <2>1. {c \in Conns : at[c] \in Served} = {}
    BY <1>2 DEF Serving
  <2>2. Cardinality({}) = 0 /\ 0 <= Limit
    BY FS_EmptySet, ServerAssumption DEF ServerAssumption
  <2> QED BY <2>1, <2>2 DEF LimitHolds
<1>4. Records
  <2>1. {b \in Conns : at[b] \in Registered} = {}
    BY DEF Registered, Served
  <2> QED BY <1>2, <2>1, FS_EmptySet DEF Records, LiveIsServed, Registered, Served
<1>5. Shutting
  BY <1>2 DEF Shutting
<1>6. Departures
  BY <1>1, <1>2, FS_EmptySet DEF Departures, HistoryIsLatest, AtMost, Types
<1>7. Outcomes
  BY DEF Outcomes
<1> QED BY <1>1, <1>3, <1>4, <1>5, <1>6, <1>7 DEF ServerInv
-----------------------------------------------------------------------------
(* The steps, by what they do to the connections and the registry. *)

\* A handler ends: by its own teardown, by a failure or by its cancellation.
Leaves(c) == HandshakeFails(c) \/ BridgeFails(c) \/ TornDown(c) \/ Cancelled(c)

\* A step of serve() or shutdown().
MainStep ==
  Build \/ OpenGrpc \/ Opening \/ RolledBack \/ Stop \/ GraceExpires \/ Stopped

LEMMA MainFrame ==
  ASSUME MainStep
  PROVE  UNCHANGED <<at, connections, open, runnerId, completed, stateVars>>
BY DEF MainStep, Build, OpenGrpc, Opening, OpenHttp, HttpFails, RolledBack,
       Stop, GraceExpires, Stopped, connVars

\* What a handler that ends leaves behind.
LEMMA LeavesBy ==
  ASSUME ServerInv, NEW c \in Conns, Leaves(c)
  PROVE  \E last \in Statuses :
           /\ Finally(c, last) /\ at[c] \in Served
           /\ at[c] \in Registered => last \in {"done", "error"}
           /\ last = "done" => at[c] = "leaving"
           /\ at[c] = "leaving" => last = "done" \/ stopping
<1> USE DEF Statuses, Runs, Served, Registered
<1>1. CASE HandshakeFails(c)
  BY <1>1 DEF HandshakeFails
<1>2. CASE BridgeFails(c)
  BY <1>2 DEF BridgeFails
<1>3. CASE TornDown(c)
  BY <1>3 DEF TornDown, ServerInv, Outcomes
<1>4. CASE Cancelled(c)
  <2>1. at[c] \in Served /\ stopping
    BY <1>4 DEF Cancelled, ServerInv, Types, Shutting
  <2> QED BY <1>4, <2>1 DEF Cancelled
<1> QED BY <1>1, <1>2, <1>3, <1>4 DEF Leaves

\* The record of a connection is one the registry handed out.
LEMMA RecordIsId ==
  ASSUME ServerInv, NEW c \in Conns, runnerId[c] # 0
  PROVE  runnerId[c] \in 1..(nextId - 1) /\ runnerId[c] \in Ids
BY ServerAssumption DEF ServerAssumption, ServerInv, Types, Records, Conns, Ids

\* Whoever reads the handshake line first is not known, so there is an id left.
LEMMA RegisterHasId ==
  ASSUME ServerInv, NEW c \in Conns, at[c] = "handshake"
  PROVE  nextId \in Ids /\ Cardinality(Known \cup {c}) = nextId
<1>1. runnerId[c] = 0 /\ c \notin Known
  BY DEF ServerInv, Records, Known
<1>2. IsFiniteSet(Known) /\ Known \cup {c} \in SUBSET Conns
  BY ConnsFinite DEF Known
<1>3. Cardinality(Known \cup {c}) = Cardinality(Known) + 1
  BY <1>1, <1>2, FS_AddElement
<1>4. Cardinality(Known \cup {c}) <= MaxConns
  BY <1>2, ConnsFinite
<1>5. nextId \in Nat \ {0} /\ MaxConns \in Nat /\ Cardinality(Known) = nextId - 1
  BY ServerAssumption DEF ServerAssumption, ServerInv, Types, Records
<1> QED BY <1>3, <1>4, <1>5 DEF Ids
-----------------------------------------------------------------------------
(* Types *)

\* What Keep() keeps of a history.
LEMMA KeepSeq ==
  ASSUME NEW S, NEW records \in Seq(S), historySize \in Int, historySize >= -1
  PROVE  LET n == IF historySize = -1 THEN Len(records)
                                      ELSE AtMost(Len(records), historySize)
         IN  /\ n \in 0..Len(records)
             /\ Keep(records) \in Seq(S) /\ Len(Keep(records)) = n
             /\ \A k \in 1..n : Keep(records)[k] = records[k]
<1>1. Len(records) \in Nat /\ \A k \in 1..Len(records) : records[k] \in S
  BY LenProperties
<1>2. CASE historySize >= 0
  <2> DEFINE n == AtMost(Len(records), historySize)
  <2>1. n \in 0..Len(records)
    BY <1>1, <1>2 DEF AtMost
  <2>2. \A k \in 1..n : records[k] \in S
    BY <1>1, <2>1
  <2>3. /\ SubSeq(records, 1, n) \in Seq(S) /\ Len(SubSeq(records, 1, n)) = n
        /\ \A k \in 1..n : SubSeq(records, 1, n)[k] = records[k]
    <3>1. n \in Int /\ n - 1 + 1 = n /\ 1 \in Int
      BY <2>1
    <3>2. /\ SubSeq(records, 1, n) \in Seq(S)
          /\ Len(SubSeq(records, 1, n)) = IF 1 <= n THEN n - 1 + 1 ELSE 0
          /\ \A k \in 1..(n - 1 + 1) : SubSeq(records, 1, n)[k] = records[1 + k - 1]
      BY <2>2, <3>1, SubSeqProperties
    <3>3. \A k \in 1..n : 1 + k - 1 = k
      OBVIOUS
    <3> QED BY <2>1, <3>1, <3>2, <3>3
  <2>4. Keep(records) = SubSeq(records, 1, n)
    BY <1>2 DEF Keep
  <2>5. historySize # -1
    BY <1>2
  <2> QED BY <2>1, <2>3, <2>4, <2>5
<1>3. CASE ~(historySize >= 0)
  <2>1. historySize = -1
    BY <1>3
  <2>2. Keep(records) = records
    BY <1>3 DEF Keep
  <2> QED BY <1>1, <2>1, <2>2
<1> QED BY <1>2, <1>3

\* Every step keeps the types; the lists and ids are bounded by nextId, which
\* never passes the number of connections.
LEMMA StepTypes == ServerInv /\ [Next]_serverVars => Types'
<1> SUFFICES ASSUME ServerInv, [Next]_serverVars PROVE Types'
  OBVIOUS
<1>T. Types /\ MaxConns \in Nat
  BY ServerAssumption DEF ServerAssumption, ServerInv
<1>1. CASE Build
  <2>1. whitelist' \subseteq Files /\ todo' \subseteq Files
    BY <1>T, <1>1, ServerAssumption
       DEF ServerAssumption, Types, Build, W!Next, W!Skip, W!Visit, W!Followed
  <2> QED BY <1>T, <1>1, <2>1 DEF Types, Build, mainVars, connVars, stateVars
<1>2. CASE OpenGrpc \/ Opening \/ RolledBack \/ Stopped
  BY <1>T, <1>2
     DEF Types, OpenGrpc, Opening, OpenHttp, HttpFails, RolledBack, Stopped,
         startVars, connVars, stateVars
<1>3. CASE Stop
  <2>1. connections = Serving
    BY DEF ServerInv, LimitHolds, Serving
  <2> QED BY <1>T, <1>3, <2>1 DEF Types, Stop, startVars, stateVars, Serving
<1>4. CASE GraceExpires
  <2>1. {c \in waited : at[c] # "over"} \subseteq {c \in Conns : at[c] \in Served}
    BY <1>T DEF Types, ServerInv, Shutting
  <2> QED
    BY <1>T, <1>4, <2>1 DEF Types, GraceExpires, startVars, stateVars
<1>5. ASSUME NEW c \in Conns, Accept(c) \/ Refuse(c) \/ Admit(c) PROVE Types'
  BY <1>T, <1>5
     DEF Types, Accept, Refuse, Admit, startVars, mainVars, stateVars, Places,
         Served
<1>6. ASSUME NEW c \in Conns, RunnerRaises(c) PROVE Types'
  BY <1>T, <1>6
     DEF Types, RunnerRaises, startVars, mainVars, stateVars, Places, Served
<1>7. ASSUME NEW c \in Conns, UriLine(c) PROVE Types'
  <2>1. nextId \in Ids
    BY <1>7, RegisterHasId DEF UriLine, Runs
  <2>2. nextId' = nextId + 1 /\ nextId' \in 1..(MaxConns + 1)
    BY <1>T, <1>7, <2>1 DEF UriLine, Register, Ids
  <2>3. 1..(nextId - 1) \subseteq 1..(nextId' - 1) /\ nextId \in 1..(nextId' - 1)
    BY <1>T, <2>1, <2>2 DEF Types, Ids
  <2>4. history \in Seq(1..(nextId' - 1)) /\ left \in Seq(1..(nextId' - 1))
    BY <1>T, <2>3, SeqMonotonic DEF Types
  <2>5. runners' \subseteq 1..(nextId' - 1) /\ completed \subseteq 1..(nextId' - 1)
    BY <1>T, <1>7, <2>3 DEF Types, UriLine, Register
  <2>6. runnerId' \in [Conns -> 0..MaxConns]
    BY <1>T, <1>7, <2>1 DEF Types, UriLine, Register, Ids
  <2>7. at' \in [Conns -> Places] /\ cancelling \subseteq {b \in Conns : at'[b] \in Served}
    BY <1>T, <1>7 DEF Types, UriLine, Places, Served
  <2> QED
    BY <1>T, <1>7, <2>2, <2>4, <2>5, <2>6, <2>7
       DEF Types, UriLine, Register, startVars, mainVars
<1>8. ASSUME NEW c \in Conns, BridgeUp(c) \/ RunnerReturns(c) PROVE Types'
  <2>1. runnerId[c] \in 1..(nextId - 1)
    BY <1>8, RecordIsId
       DEF BridgeUp, RunnerReturns, Runs, ServerInv, Records, Registered, Served
  <2>2. at' \in [Conns -> Places] /\ cancelling \subseteq {b \in Conns : at'[b] \in Served}
    BY <1>T, <1>8 DEF Types, BridgeUp, RunnerReturns, Runs, Places, Served
  <2>3. status' \in [Ids -> Statuses]
    BY <1>T, <1>8 DEF Types, BridgeUp, RunnerReturns, Statuses
  <2>4. completed' \subseteq 1..(nextId - 1)
    BY <1>T, <1>8, <2>1 DEF Types, BridgeUp, RunnerReturns
  <2> QED
    BY <1>T, <1>8, <2>2, <2>3, <2>4
       DEF Types, BridgeUp, RunnerReturns, startVars, mainVars
<1>9. ASSUME NEW c \in Conns, Leaves(c) PROVE Types'
  <2>1. PICK last \in Statuses : Finally(c, last) /\ at[c] \in Served
    BY <1>9, LeavesBy
  <2>2. at' \in [Conns -> Places] /\ cancelling' \subseteq {b \in Conns : at'[b] \in Served}
    BY <1>T, <2>1 DEF Types, Finally, Places, Served
  <2>3. CASE runnerId[c] = 0
    BY <1>T, <2>1, <2>2, <2>3
       DEF Types, Finally, startVars, mainVars, stateVars
  <2>4. CASE runnerId[c] # 0
    <3>1. runnerId[c] \in 1..(nextId - 1)
      BY <2>4, RecordIsId
    <3>2. Deregister(runnerId[c], last)
      BY <2>1, <2>4 DEF Finally
    <3>3. status' \in [Ids -> Statuses] /\ runners' \subseteq 1..(nextId - 1)
      BY <1>T, <3>2 DEF Types, Deregister, Statuses
    <3>4. /\ <<runnerId[c]>> \o history \in Seq(1..(nextId - 1))
          /\ left' \in Seq(1..(nextId - 1))
      BY <1>T, <3>1, <3>2 DEF Types, Deregister
    <3>5. history' \in Seq(1..(nextId - 1))
      BY <1>T, <3>2, <3>4, KeepSeq DEF Types, Deregister
    <3> QED
      BY <1>T, <2>1, <2>2, <3>2, <3>3, <3>4, <3>5
         DEF Types, Finally, Deregister, startVars, mainVars
  <2> QED BY <2>3, <2>4
<1>10. CASE UNCHANGED serverVars
  BY <1>T, <1>10
     DEF Types, serverVars, startVars, mainVars, connVars, stateVars
<1> QED
  BY <1>1, <1>2, <1>3, <1>4, <1>5, <1>6, <1>7, <1>8, <1>9, <1>10
     DEF Next, Opening, BridgeSettles, Leaves
-----------------------------------------------------------------------------
(* Places, and the shutdown *)

\* Every step keeps the count of those who are served exact and within the limit.
LEMMA StepLimit == ServerInv /\ [Next]_serverVars => LimitHolds'
<1> SUFFICES ASSUME ServerInv, [Next]_serverVars PROVE LimitHolds'
  OBVIOUS
<1>T. /\ Types /\ Limit \in Nat /\ connections = Serving
      /\ Serving \subseteq Conns /\ Cardinality(Serving) <= Limit
  BY ServerAssumption
     DEF ServerAssumption, ServerInv, LimitHolds, Serving
<1>1. ASSUME connections' = Serving', Serving' \subseteq Serving PROVE LimitHolds'
  <2>1. Cardinality(Serving') <= Cardinality(Serving)
    BY <1>T, <1>1, ConnsFinite, FS_Subset
  <2>2. Cardinality(Serving') \in Nat /\ Cardinality(Serving) \in Nat
    BY <1>T, <1>1, ConnsFinite
  <2> QED BY <1>T, <1>1, <2>1, <2>2 DEF LimitHolds, Serving
<1>2. CASE MainStep
  <2>1. connections' = connections /\ Serving' = Serving
    BY <1>2, MainFrame DEF Serving
  <2> QED BY <1>1, <1>T, <2>1
<1>3. ASSUME NEW c \in Conns,
             Accept(c) \/ Refuse(c) \/ UriLine(c) \/ BridgeUp(c)
             \/ RunnerReturns(c) \/ RunnerRaises(c)
      PROVE  LimitHolds'
  <2>1. connections' = connections /\ Serving' = Serving
    BY <1>T, <1>3
       DEF Types, Accept, Refuse, UriLine, BridgeUp, RunnerReturns,
           RunnerRaises, Runs, Serving, Served
  <2> QED BY <1>1, <1>T, <2>1
<1>4. ASSUME NEW c \in Conns, Admit(c) PROVE LimitHolds'
  <2>1. Serving' = Serving \cup {c} /\ connections' = Serving'
    BY <1>T, <1>4 DEF Types, Admit, Serving, Served
  <2>2. IsFiniteSet(Serving) /\ Cardinality(Serving) \in Nat
    BY <1>T, ConnsFinite
  <2>3. ~(Cardinality(Serving) >= Limit)
    BY <1>T, <1>4 DEF Admit, Refuses
  <2>4. /\ Cardinality(Serving \cup {c}) <= Cardinality(Serving) + 1
        /\ Cardinality(Serving \cup {c}) \in Nat
    BY <2>2, FS_AddElement
  <2>5. Cardinality(Serving') <= Limit
    BY <1>T, <2>1, <2>2, <2>3, <2>4
  <2> QED BY <2>1, <2>5 DEF LimitHolds, Serving
<1>5. ASSUME NEW c \in Conns, Leaves(c) PROVE LimitHolds'
  <2>1. PICK last \in Statuses : Finally(c, last) /\ at[c] \in Served
    BY <1>5, LeavesBy
  <2>2. Serving' = Serving \ {c} /\ connections' = Serving'
    BY <1>T, <2>1 DEF Types, Finally, Serving, Served
  <2> QED BY <1>1, <2>2
<1>6. CASE UNCHANGED serverVars
  <2>1. connections' = connections /\ Serving' = Serving
    BY <1>6 DEF serverVars, connVars, Serving
  <2> QED BY <1>1, <1>T, <2>1
<1> QED
  BY <1>2, <1>3, <1>4, <1>5, <1>6
     DEF Next, MainStep, BridgeSettles, Leaves

LEMMA StepShutting == ServerInv /\ [Next]_serverVars => Shutting'
<1> SUFFICES ASSUME ServerInv, [Next]_serverVars PROVE Shutting'
  OBVIOUS
<1>T. Types /\ Shutting /\ connections = Serving
  BY DEF ServerInv, LimitHolds, Serving
<1>1. CASE Build \/ OpenGrpc \/ Opening \/ RolledBack
  BY <1>T, <1>1
     DEF Types, Shutting, Build, OpenGrpc, Opening, OpenHttp, HttpFails, RolledBack,
         mainVars, connVars, Serving
<1>2. CASE Stop
  <2>1. Serving' = Serving /\ waited' = Serving
    BY <1>T, <1>2 DEF Stop, Serving
  <2>2. \A c \in waited' : at'[c] \in Served
    BY <1>2, <2>1 DEF Stop, Serving
  <2> QED BY <1>T, <1>2, <2>1, <2>2 DEF Shutting, Stop
<1>3. CASE GraceExpires \/ Stopped
  <2>1. Serving' = Serving
    BY <1>3 DEF GraceExpires, Stopped, connVars, Serving
  <2>2. Stopped => Serving = {}
    BY <1>T DEF Stopped, Shutting, Serving, Served
  <2> QED
    BY <1>T, <1>3, <2>1, <2>2
       DEF Shutting, GraceExpires, Stopped, connVars
<1>4. ASSUME NEW c \in Conns, at' = [at EXCEPT ![c] = at'[c]],
             at'[c] \in Served => at[c] \in Served \/ ~stopping,
             at[c] \in Served \cup {"over"} => at'[c] \in Served \cup {"over"},
             cancelling' \subseteq cancelling, UNCHANGED mainVars
      PROVE  Shutting'
  <2>1. stopping => Serving' \subseteq Serving
    BY <1>T, <1>4 DEF Types, Serving
  <2>2. \A b \in waited' : at'[b] \in Served \cup {"over"}
    BY <1>T, <1>4 DEF Types, Shutting, mainVars
  <2> QED BY <1>T, <1>4, <2>1, <2>2 DEF Shutting, mainVars
<1>5. ASSUME NEW c \in Conns,
             Accept(c) \/ Refuse(c) \/ Admit(c) \/ UriLine(c) \/ BridgeUp(c)
             \/ RunnerReturns(c) \/ RunnerRaises(c)
      PROVE  Shutting'
  <2>1. at' = [at EXCEPT ![c] = at'[c]] /\ UNCHANGED mainVars
        /\ cancelling' \subseteq cancelling
    BY <1>T, <1>5
       DEF Types, Accept, Refuse, Admit, UriLine, BridgeUp, RunnerReturns, RunnerRaises
  <2>2. /\ at'[c] \in Served => at[c] \in Served \/ ~stopping
        /\ at[c] \in Served \cup {"over"} => at'[c] \in Served \cup {"over"}
    BY <1>T, <1>5
       DEF Types, Accept, Refuse, Admit, Refuses, UriLine, BridgeUp, RunnerReturns,
           RunnerRaises, Runs, Served
  <2> QED BY <1>4, <2>1, <2>2
<1>6. ASSUME NEW c \in Conns, Leaves(c) PROVE Shutting'
  <2>1. PICK last \in Statuses : Finally(c, last) /\ at[c] \in Served
    BY <1>6, LeavesBy
  <2>2. at'[c] = "over" /\ at' = [at EXCEPT ![c] = at'[c]]
    BY <1>T, <2>1 DEF Types, Finally
  <2> QED BY <1>4, <2>1, <2>2 DEF Finally, Served
<1>7. CASE UNCHANGED serverVars
  BY <1>T, <1>7 DEF Shutting, Serving, serverVars, mainVars, connVars
<1> QED
  BY <1>1, <1>2, <1>3, <1>5, <1>6, <1>7 DEF Next, BridgeSettles, Leaves
-----------------------------------------------------------------------------
(* The registry *)

LEMMA RecordsFrame ==
  ASSUME ServerInv, UNCHANGED <<runnerId, nextId, runners>>,
         \A c \in Conns :
           /\ at'[c] \in Registered <=> at[c] \in Registered
           /\ at'[c] \in {"none", "accepted", "handshake"} =>
                at[c] \in {"none", "accepted", "handshake"}
  PROVE  Records'
<1>1. Known' = Known
  BY DEF Known
<1>2. {c \in Conns : at'[c] \in Registered} = {c \in Conns : at[c] \in Registered}
  OBVIOUS
<1> QED BY <1>1, <1>2 DEF ServerInv, Records, LiveIsServed

LEMMA StepRecords == ServerInv /\ [Next]_serverVars => Records'
<1> SUFFICES ASSUME ServerInv, [Next]_serverVars PROVE Records'
  OBVIOUS
<1>T. Types /\ Records
  BY DEF ServerInv
<1>1. CASE MainStep
  BY <1>1, MainFrame, RecordsFrame DEF stateVars
<1>2. ASSUME NEW c \in Conns,
             Accept(c) \/ Refuse(c) \/ Admit(c) \/ BridgeUp(c)
             \/ RunnerReturns(c) \/ RunnerRaises(c)
      PROVE  Records'
  <2>1. UNCHANGED <<runnerId, nextId, runners>>
    BY <1>2
       DEF Accept, Refuse, Admit, BridgeUp, RunnerReturns, RunnerRaises, stateVars
  <2>2. \A b \in Conns :
           /\ at'[b] \in Registered <=> at[b] \in Registered
           /\ at'[b] \in {"none", "accepted", "handshake"} =>
                at[b] \in {"none", "accepted", "handshake"}
    BY <1>T, <1>2
       DEF Types, Accept, Refuse, Admit, BridgeUp, RunnerReturns, RunnerRaises,
           Runs, Registered, Served
  <2> QED BY <2>1, <2>2, RecordsFrame
<1>3. ASSUME NEW c \in Conns, UriLine(c) PROVE Records'
  <2>1. /\ at[c] = "handshake" /\ runnerId[c] = 0 /\ nextId \in Nat \ {0}
        /\ at' = [at EXCEPT ![c] = "bridging"]
        /\ runnerId' = [runnerId EXCEPT ![c] = nextId]
        /\ nextId' = nextId + 1 /\ runners' = runners \cup {nextId}
    BY <1>T, <1>3 DEF UriLine, Runs, Register, Records, Types
  <2>2. /\ runnerId'[c] = nextId /\ at'[c] = "bridging"
        /\ \A b \in Conns \ {c} : runnerId'[b] = runnerId[b] /\ at'[b] = at[b]
        /\ \A b \in Conns : runnerId[b] \in Nat /\ runnerId[b] < nextId
    BY <1>T, <2>1 DEF Types, Records
  <2>3. Known' = Known \cup {c}
    BY <2>1, <2>2 DEF Known
  <2>4. Cardinality(Known') = nextId' - 1
    BY <2>1, <2>3, RegisterHasId
  <2>5. {b \in Conns : at'[b] \in Registered}
          = {b \in Conns : at[b] \in Registered} \cup {c}
    BY <2>1, <2>2 DEF Registered, Served
  <2>6. runners' = {runnerId'[b] : b \in {d \in Conns : at'[d] \in Registered}}
    <3>1. c \notin {b \in Conns : at[b] \in Registered}
      BY <2>1 DEF Registered
    <3>2. {runnerId'[b] : b \in {d \in Conns : at[d] \in Registered}}
            = {runnerId[b] : b \in {d \in Conns : at[d] \in Registered}}
      BY <2>2, <3>1
    <3>3. runners = {runnerId[b] : b \in {d \in Conns : at[d] \in Registered}}
      BY <1>T DEF Records, LiveIsServed
    <3> QED BY <2>1, <2>2, <2>5, <3>2, <3>3
  <2>7. \A b, d \in Conns : runnerId'[b] = runnerId'[d] /\ runnerId'[b] # 0 => b = d
    BY <1>T, <2>1, <2>2 DEF Records, LiveIsServed
  <2>8. \A b \in Conns :
          /\ at'[b] \in {"none", "accepted", "handshake"} => runnerId'[b] = 0
          /\ at'[b] \in Registered => runnerId'[b] # 0
          /\ runnerId'[b] < nextId'
    BY <1>T, <2>1, <2>2 DEF Records
  <2> QED BY <2>4, <2>6, <2>7, <2>8 DEF Records, LiveIsServed
<1>4. ASSUME NEW c \in Conns, Leaves(c) PROVE Records'
  <2>1. PICK last \in Statuses : Finally(c, last) /\ at[c] \in Served
    BY <1>4, LeavesBy
  <2>2. /\ at'[c] = "over" /\ \A b \in Conns \ {c} : at'[b] = at[b]
        /\ UNCHANGED runnerId
    BY <1>T, <2>1 DEF Types, Finally
  <2>3. CASE runnerId[c] = 0
    <3>1. at[c] \notin Registered /\ UNCHANGED <<nextId, runners>>
      BY <1>T, <2>1, <2>3 DEF Records, Finally, stateVars
    <3> QED BY <2>2, <3>1, RecordsFrame DEF Registered, Served
  <2>4. CASE runnerId[c] # 0
    <3>1. nextId' = nextId /\ runners' = runners \ {runnerId[c]}
      BY <2>1, <2>4 DEF Finally, Deregister
    <3>2. at[c] \in Registered
      BY <1>T, <2>1, <2>4 DEF Records, Registered, Served
    <3>3. {b \in Conns : at'[b] \in Registered}
            = {b \in Conns : at[b] \in Registered} \ {c}
      BY <2>2 DEF Registered, Served
    <3>4. runners' = {runnerId'[b] : b \in {d \in Conns : at'[d] \in Registered}}
      <4>1. \A b \in Conns : runnerId[b] = runnerId[c] => b = c
        BY <1>T, <2>4 DEF Records, LiveIsServed
      <4>2. runners = {runnerId[b] : b \in {d \in Conns : at[d] \in Registered}}
        BY <1>T DEF Records, LiveIsServed
      <4> QED BY <2>2, <3>1, <3>3, <4>1, <4>2
    <3>5. Known' = Known
      BY <2>2 DEF Known
    <3> QED
      BY <1>T, <2>2, <3>1, <3>4, <3>5
         DEF Records, LiveIsServed, Registered, Served
  <2> QED BY <2>3, <2>4
<1>5. CASE UNCHANGED serverVars
  BY <1>5, RecordsFrame DEF serverVars, connVars, stateVars
<1> QED
  BY <1>1, <1>2, <1>3, <1>4, <1>5 DEF Next, MainStep, BridgeSettles, Leaves
-----------------------------------------------------------------------------
(* The history *)

\* The history stays the newest part of those that left when one more leaves.
LEMMA HistoryGrows ==
  ASSUME Types, HistoryIsLatest, NEW i \in 1..(nextId - 1),
         \A k \in 1..Len(left) : left[k] # i,
         history' = Keep(<<i>> \o history), left' = Append(left, i),
         historySize' = historySize
  PROVE  HistoryIsLatest' /\ Len(left') = Len(left) + 1
<1> DEFINE records == <<i>> \o history
           S == 1..(nextId - 1)
<1>T. /\ history \in Seq(S) /\ left \in Seq(S) /\ Len(left) \in Nat
      /\ Len(history) \in Nat /\ historySize \in Int /\ historySize >= -1
  BY DEF Types
<1>1. /\ records \in Seq(S) /\ Len(records) = Len(history) + 1
      /\ records[1] = i /\ \A k \in 1..Len(history) : records[k + 1] = history[k]
  BY <1>T
<1>2. /\ Len(left') = Len(left) + 1 /\ left'[Len(left) + 1] = i
      /\ \A k \in 1..Len(left) : left'[k] = left[k]
  BY <1>T
<1> DEFINE n == IF historySize = -1 THEN Len(records)
                                    ELSE AtMost(Len(records), historySize)
<1>3. /\ n \in 0..Len(records) /\ Len(history') = n
      /\ \A k \in 1..n : history'[k] = records[k]
  BY <1>T, <1>1, KeepSeq
<1>4. n = IF historySize = -1 THEN Len(left) + 1
                              ELSE AtMost(Len(left) + 1, historySize)
  <2>1. Len(history) = IF historySize = -1 THEN Len(left)
                                           ELSE AtMost(Len(left), historySize)
    BY DEF HistoryIsLatest
  <2>2. CASE historySize = -1
    BY <1>1, <2>1, <2>2
  <2>3. CASE historySize # -1
    BY <1>T, <1>1, <2>1, <2>3 DEF AtMost
  <2> QED BY <2>2, <2>3
<1>5. Len(history) <= Len(left)
  BY <1>T DEF HistoryIsLatest, AtMost
<1>6. ASSUME NEW k \in 1..n PROVE records[k] = left'[Len(left') + 1 - k]
  <2>1. CASE k = 1
    BY <1>T, <1>1, <1>2, <2>1
  <2>2. CASE k # 1
    <3>1. k - 1 \in 1..Len(history) /\ k \in Int /\ k = (k - 1) + 1
      BY <1>T, <1>1, <1>3, <2>2
    <3>2. records[k] = history[k - 1]
      BY <1>1, <3>1
    <3>3. history[k - 1] = left[Len(left) + 1 - (k - 1)]
      BY <3>1 DEF HistoryIsLatest
    <3>4. /\ Len(left) + 1 - (k - 1) = Len(left') + 1 - k
          /\ Len(left') + 1 - k \in 1..Len(left)
      BY <1>T, <1>2, <1>5, <3>1
    <3> QED BY <1>2, <3>2, <3>3, <3>4
  <2> QED BY <2>1, <2>2
<1>7. ASSUME NEW j \in 1..Len(left'), NEW k \in 1..Len(left'), left'[j] = left'[k]
      PROVE  j = k
  <2>1. (j \in 1..Len(left) \/ j = Len(left) + 1)
        /\ (k \in 1..Len(left) \/ k = Len(left) + 1)
    BY <1>T, <1>2
  <2> QED BY <1>2, <1>7, <2>1 DEF HistoryIsLatest
<1>8. /\ Len(history') = IF historySize' = -1 THEN Len(left')
                                              ELSE AtMost(Len(left'), historySize')
      /\ \A k \in 1..Len(history') : history'[k] = left'[Len(left') + 1 - k]
  BY <1>2, <1>3, <1>4, <1>6
<1> QED BY <1>2, <1>7, <1>8 DEF HistoryIsLatest, AtMost

LEMMA DeparturesFrame ==
  ASSUME ServerInv, UNCHANGED <<history, historySize, left>>,
         Departed' = Departed, runners' \subseteq runners \cup {nextId}
  PROVE  Departures'
<1>1. \A k \in 1..Len(left) : left[k] \notin runners /\ left[k] # nextId
  BY DEF ServerInv, Departures, Types
<1>2. HistoryIsLatest'
  BY DEF ServerInv, Departures, HistoryIsLatest, AtMost
<1> QED BY <1>1, <1>2 DEF ServerInv, Departures

LEMMA StepDepartures == ServerInv /\ [Next]_serverVars => Departures'
<1> SUFFICES ASSUME ServerInv, [Next]_serverVars PROVE Departures'
  OBVIOUS
<1>T. Types /\ Records /\ Departures
  BY DEF ServerInv
<1>1. CASE MainStep
  BY <1>1, MainFrame, DeparturesFrame DEF stateVars, Departed
<1>2. ASSUME NEW c \in Conns,
             Accept(c) \/ Refuse(c) \/ Admit(c) \/ UriLine(c) \/ BridgeUp(c)
             \/ RunnerReturns(c) \/ RunnerRaises(c)
      PROVE  Departures'
  <2>1. UNCHANGED <<history, historySize, left>> /\ runners' \subseteq runners \cup {nextId}
    BY <1>2
       DEF Accept, Refuse, Admit, UriLine, Register, BridgeUp, RunnerReturns,
           RunnerRaises, stateVars
  <2>2. Departed' = Departed
    BY <1>T, <1>2
       DEF Types, Records, Accept, Refuse, Admit, UriLine, Register, BridgeUp,
           RunnerReturns, RunnerRaises, Runs, Departed
  <2> QED BY <2>1, <2>2, DeparturesFrame
<1>3. ASSUME NEW c \in Conns, Leaves(c) PROVE Departures'
  <2>1. PICK last \in Statuses : Finally(c, last) /\ at[c] \in Served
    BY <1>3, LeavesBy
  <2>2. /\ at'[c] = "over" /\ \A b \in Conns \ {c} : at'[b] = at[b]
        /\ UNCHANGED runnerId /\ at[c] # "over"
    BY <1>T, <2>1 DEF Types, Finally, Served
  <2>3. CASE runnerId[c] = 0
    <3>1. UNCHANGED <<history, historySize, left, runners>>
      BY <2>1, <2>3 DEF Finally, stateVars
    <3>2. Departed' = Departed
      BY <2>2, <2>3 DEF Departed
    <3> QED BY <3>1, <3>2, DeparturesFrame
  <2>4. CASE runnerId[c] # 0
    <3>1. Deregister(runnerId[c], last) /\ runnerId[c] \in 1..(nextId - 1)
      BY <2>1, <2>4, RecordIsId DEF Finally
    <3>2. runnerId[c] \in runners
      BY <1>T, <2>1, <2>4
         DEF Records, LiveIsServed, Registered, Served
    <3>3. \A k \in 1..Len(left) : left[k] # runnerId[c]
      BY <1>T, <3>2 DEF Departures
    <3>4. HistoryIsLatest' /\ Len(left') = Len(left) + 1
      BY <1>T, <3>1, <3>3, HistoryGrows DEF Departures, Deregister
    <3>5. Departed' = Departed \cup {c} /\ c \notin Departed
      BY <2>2, <2>4 DEF Departed
    <3>6. IsFiniteSet(Departed)
      BY ConnsFinite DEF Departed
    <3>7. Cardinality(Departed') = Cardinality(Departed) + 1
      BY <3>5, <3>6, FS_AddElement
    <3>8. \A k \in 1..Len(left') : left'[k] \notin runners'
      <4>1. Len(left) \in Nat
        BY <1>T DEF Types
      <4>2. \A k \in 1..Len(left') : k \in 1..Len(left) \/ k = Len(left) + 1
        BY <3>4, <4>1
      <4>3. /\ left'[Len(left) + 1] = runnerId[c]
            /\ \A k \in 1..Len(left) : left'[k] = left[k]
        BY <1>T, <3>1, <4>1 DEF Types, Deregister
      <4> QED BY <1>T, <3>1, <4>2, <4>3 DEF Departures, Deregister
    <3> QED BY <1>T, <3>4, <3>7, <3>8 DEF Departures
  <2> QED BY <2>3, <2>4
<1>4. CASE UNCHANGED serverVars
  BY <1>4, DeparturesFrame DEF serverVars, connVars, stateVars, Departed
<1> QED
  BY <1>1, <1>2, <1>3, <1>4 DEF Next, MainStep, BridgeSettles, Leaves
-----------------------------------------------------------------------------
(* The outcomes *)

LEMMA OutcomesFrame ==
  ASSUME ServerInv, UNCHANGED <<at, runnerId, completed, status, left>>,
         stopping => stopping'
  PROVE  Outcomes'
BY DEF ServerInv, Outcomes

LEMMA StepOutcomes == ServerInv /\ [Next]_serverVars => Outcomes'
<1> SUFFICES ASSUME ServerInv, [Next]_serverVars PROVE Outcomes'
  OBVIOUS
<1>T. Types /\ Records /\ Departures /\ Outcomes
  BY DEF ServerInv
<1>1. CASE MainStep
  <2>1. stopping => stopping'
    BY <1>1
       DEF MainStep, Build, OpenGrpc, Opening, OpenHttp, HttpFails, RolledBack, Stop,
           GraceExpires, Stopped, mainVars
  <2> QED BY <1>1, <2>1, MainFrame, OutcomesFrame DEF stateVars
<1>2. ASSUME NEW c \in Conns,
             Accept(c) \/ Refuse(c) \/ Admit(c) \/ RunnerRaises(c)
      PROVE  Outcomes'
  <2>1. UNCHANGED <<runnerId, completed, status, left, stopping>>
    BY <1>2 DEF Accept, Refuse, Admit, RunnerRaises, stateVars, mainVars
  <2>2. \A b \in Conns :
           /\ at'[b] \in {"bridging", "running", "failing"} =>
                at[b] \in {"bridging", "running", "failing"}
           /\ at'[b] = "leaving" => at[b] = "leaving"
    BY <1>T, <1>2 DEF Types, Accept, Refuse, Admit, RunnerRaises
  <2> QED BY <1>T, <2>1, <2>2 DEF Outcomes
<1>3. ASSUME NEW c \in Conns, UriLine(c) PROVE Outcomes'
  <2>1. /\ at' = [at EXCEPT ![c] = "bridging"]
        /\ runnerId' = [runnerId EXCEPT ![c] = nextId]
        /\ UNCHANGED <<completed, status, left, stopping>>
    BY <1>3 DEF UriLine, Register, mainVars
  <2>2. nextId \notin completed
    BY <1>T DEF Types
  <2> QED BY <1>T, <2>1, <2>2 DEF Types, Outcomes
<1>4. ASSUME NEW c \in Conns, BridgeUp(c) \/ RunnerReturns(c) PROVE Outcomes'
  <2>1. /\ at[c] \in {"bridging", "running"} /\ runnerId[c] # 0
        /\ runnerId[c] \in runners /\ runnerId[c] \in Ids
        /\ \A b \in Conns : runnerId[b] = runnerId[c] => b = c
    BY <1>T, <1>4, RecordIsId
       DEF BridgeUp, RunnerReturns, Runs, Records, LiveIsServed, Registered, Served
  <2>2. \A k \in 1..Len(left) : left[k] # runnerId[c]
    BY <1>T, <2>1 DEF Departures
  <2>3. \A i \in Ids : i # runnerId[c] => status'[i] = status[i]
                                         /\ (i \in completed' <=> i \in completed)
    BY <1>T, <1>4 DEF Types, BridgeUp, RunnerReturns
  <2>4. UNCHANGED <<runnerId, left, stopping>>
    BY <1>4 DEF BridgeUp, RunnerReturns, mainVars
  <2>5. \A k \in 1..Len(left) : left[k] \in Ids
    <3>1. \A k \in 1..Len(left) : left[k] \in 1..(nextId - 1)
      BY <1>T DEF Types
    <3> QED BY <1>T, <3>1, ServerAssumption DEF ServerAssumption, Types, Ids
  <2>6. \A k \in 1..Len(left') :
          /\ status'[left'[k]] = "done" => left'[k] \in completed'
          /\ left'[k] \in completed' => status'[left'[k]] = "done" \/ stopping'
    BY <1>T, <2>2, <2>3, <2>4, <2>5 DEF Outcomes
  <2>7. ASSUME NEW b \in Conns
        PROVE  /\ at'[b] \in {"bridging", "running", "failing"} =>
                    runnerId'[b] \notin completed'
               /\ at'[b] = "leaving" => /\ runnerId'[b] \in completed'
                                        /\ status'[runnerId'[b]] = "done"
    <3>1. CASE b = c
      BY <1>T, <1>4, <2>1, <2>4, <3>1
         DEF Types, BridgeUp, RunnerReturns, Runs, Outcomes
    <3>2. CASE b # c
      <4>1. at'[b] = at[b]
        BY <1>T, <1>4, <3>2 DEF Types, BridgeUp, RunnerReturns
      <4>2. at[b] \in {"bridging", "running", "failing", "leaving"} =>
               runnerId[b] \in Ids /\ runnerId[b] # runnerId[c]
        BY <1>T, <2>1, <3>2, RecordIsId DEF Records, Registered, Served
      <4> QED BY <1>T, <2>3, <2>4, <4>1, <4>2 DEF Outcomes
    <3> QED BY <3>1, <3>2
  <2> QED BY <2>6, <2>7 DEF Outcomes
<1>5. ASSUME NEW c \in Conns, Leaves(c) PROVE Outcomes'
  <2>1. PICK last \in Statuses :
           /\ Finally(c, last) /\ at[c] \in Served
           /\ at[c] \in Registered => last \in {"done", "error"}
           /\ last = "done" => at[c] = "leaving"
           /\ at[c] = "leaving" => last = "done" \/ stopping
    BY <1>5, LeavesBy
  <2>2. /\ at'[c] = "over" /\ \A b \in Conns \ {c} : at'[b] = at[b]
        /\ UNCHANGED <<runnerId, completed, stopping>>
    BY <1>T, <2>1 DEF Types, Finally, mainVars
  <2>3. CASE runnerId[c] = 0
    BY <1>T, <2>1, <2>2, <2>3 DEF Finally, stateVars, Outcomes
  <2>4. CASE runnerId[c] # 0
    <3> DEFINE i == runnerId[c]
    <3>1. /\ Deregister(i, last) /\ i \in Ids /\ at[c] \in Registered
          /\ i \in runners
          /\ \A b \in Conns : runnerId[b] = i => b = c
      BY <1>T, <2>1, <2>4, RecordIsId
         DEF Finally, Records, LiveIsServed, Registered, Served
    <3>2. /\ status'[i] = last
          /\ \A j \in Ids : j # i => status'[j] = status[j]
      BY <1>T, <2>1, <3>1 DEF Types, Deregister
    <3>3. /\ status'[i] = "done" => i \in completed'
          /\ i \in completed' => status'[i] = "done" \/ stopping'
      BY <1>T, <2>1, <2>2, <3>1, <3>2 DEF Outcomes, Registered, Served
    <3>4. /\ Len(left) \in Nat /\ left'[Len(left) + 1] = i
          /\ Len(left') = Len(left) + 1
          /\ \A k \in 1..Len(left) : left'[k] = left[k]
      BY <1>T, <3>1 DEF Types, Deregister
    <3>5. \A k \in 1..Len(left) : left[k] \in Ids /\ left[k] # i
      <4>1. \A k \in 1..Len(left) : left[k] \in 1..(nextId - 1) /\ left[k] # i
        BY <1>T, <3>1 DEF Types, Departures
      <4> QED BY <1>T, <4>1, ServerAssumption DEF ServerAssumption, Types, Ids
    <3>6. ASSUME NEW k \in 1..Len(left')
          PROVE  /\ status'[left'[k]] = "done" => left'[k] \in completed'
                 /\ left'[k] \in completed' => status'[left'[k]] = "done" \/ stopping'
      <4>1. CASE k = Len(left) + 1
        BY <3>3, <3>4, <4>1
      <4>2. CASE k \in 1..Len(left)
        BY <1>T, <2>2, <3>2, <3>4, <3>5, <4>2 DEF Outcomes
      <4> QED BY <3>4, <4>1, <4>2
    <3>7. ASSUME NEW b \in Conns
          PROVE  /\ at'[b] \in {"bridging", "running", "failing"} =>
                      runnerId'[b] \notin completed'
                 /\ at'[b] = "leaving" => /\ runnerId'[b] \in completed'
                                          /\ status'[runnerId'[b]] = "done"
      <4>1. CASE b = c
        BY <2>2, <4>1
      <4>2. CASE b # c
        <5>1. at[b] = "leaving" => runnerId[b] \in Ids /\ runnerId[b] # i
          BY <1>T, <3>1, <4>2, RecordIsId DEF Records, Registered, Served
        <5> QED BY <1>T, <2>2, <3>2, <4>2, <5>1 DEF Outcomes
      <4> QED BY <4>1, <4>2
    <3> QED BY <3>6, <3>7 DEF Outcomes
  <2> QED BY <2>3, <2>4
<1>6. CASE UNCHANGED serverVars
  BY <1>6, OutcomesFrame DEF serverVars, mainVars, connVars, stateVars
<1> QED
  BY <1>1, <1>2, <1>3, <1>4, <1>5, <1>6 DEF Next, MainStep, BridgeSettles, Leaves
-----------------------------------------------------------------------------
(* The theorems *)

LEMMA ServerInvariant == Spec => []ServerInv
<1>1. ServerInv /\ [Next]_serverVars => ServerInv'
  BY StepTypes, StepLimit, StepRecords, StepShutting, StepDepartures, StepOutcomes
     DEF ServerInv
<1> QED BY InitServerInv, <1>1, PTL DEF Spec

LEMMA InvIsTyped == ServerInv => TypeOK
<1> SUFFICES ASSUME ServerInv
             PROVE  Len(history) <= MaxConns /\ Len(left) <= MaxConns
  BY DEF ServerInv, TypeOK
<1>1. Len(left) <= MaxConns /\ Len(left) \in Nat /\ Len(history) \in Nat
  BY ConnsFinite DEF ServerInv, Types, Departures, Departed
<1>2. Len(history) <= Len(left)
  BY <1>1 DEF ServerInv, Types, Departures, HistoryIsLatest, AtMost
<1> QED BY <1>1, <1>2, ServerAssumption DEF ServerAssumption

\* The variables of the server keep their types: in particular ids, history and
\* the records that left are never more than there were connections.
THEOREM TypeCorrect == Spec => []TypeOK
BY ServerInvariant, InvIsTyped, PTL

\* However a handler ends it gives back its place and its record: no more than the
\* limit are served and exactly those count, a record is live exactly while its
\* handler serves, and once shutdown() is over no handler serves and none starts
\* to (handle_orchestrator, deregister_runner, shutdown).
THEOREM NothingIsKept == Spec => []NothingKept
<1>1. ServerInv => NoneAfterShutdown
  BY DEF ServerInv, Shutting, Serving, Records, LiveIsServed, NoneAfterShutdown,
         Registered, Served
<1>2. ServerInv => NothingKept
  BY <1>1 DEF ServerInv, Records, NothingKept
<1> QED BY <1>2, ServerInvariant, PTL

\* The history is the newest part of those that disconnected, for every size it
\* may be configured to (deregister_runner).
THEOREM HistoryIsNewest == Spec => []HistoryIsLatest
BY ServerInvariant, PTL DEF ServerInv, Departures

\* A runner is shown as done in the end if and only if it completed, but for
\* those whose teardown the shutdown cut short.
THEOREM StatusIsEarned == Spec => []StatusEarned
<1>1. ServerInv => StatusEarned
  <2> SUFFICES ASSUME ServerInv, NEW k \in 1..Len(history)
               PROVE  /\ status[history[k]] = "done" => history[k] \in completed
                      /\ history[k] \in completed => status[history[k]] = "done" \/ stopping
    BY DEF StatusEarned
  <2>1. /\ Len(left) \in Nat /\ Len(history) \in Nat /\ Len(history) <= Len(left)
        /\ history[k] = left[Len(left) + 1 - k]
    BY DEF ServerInv, Types, Departures, HistoryIsLatest, AtMost
  <2>2. Len(left) + 1 - k \in 1..Len(left)
    BY <2>1
  <2> QED BY <2>1, <2>2 DEF ServerInv, Outcomes
<1> QED BY <1>1, ServerInvariant, PTL
-----------------------------------------------------------------------------
(* The whitelist *)

\* What is found is either followed already or still to be.
Following ==
  /\ Seeds \subseteq whitelist \cup todo
  /\ \A f \in whitelist : W!Followed(f) \subseteq whitelist \cup todo

LoopInv == W!OnlyImported /\ Following

\* No listener opens before the loop of build_whitelist is over.
WhitelistInv == LoopInv /\ (main # "building" => W!Built)

LEMMA InitWhitelistInv == Init => WhitelistInv
BY DEF Init, W!Init, WhitelistInv, LoopInv, W!OnlyImported, Following, W!Closed

\* Visiting a file adds it and what it imports, skipping one changes nothing.
LEMMA StepLoopInv ==
  ASSUME LoopInv, W!Next
  PROVE  LoopInv'
<1> USE DEF LoopInv
<1>1. ASSUME NEW f \in todo, W!Skip(f) PROVE LoopInv'
  <2>1. whitelist' \cup todo' = whitelist \cup todo
    BY <1>1 DEF W!Skip
  <2> QED BY <1>1, <2>1 DEF W!Skip, W!OnlyImported, Following
<1>2. ASSUME NEW f \in todo, W!Visit(f) PROVE LoopInv'
  <2>1. whitelist' \cup todo' = whitelist \cup todo \cup W!Followed(f)
    BY <1>2 DEF W!Visit
  <2>2. W!OnlyImported'
    <3> SUFFICES ASSUME NEW S \in SUBSET Files, W!Closed(S)
                 PROVE  whitelist' \cup todo' \subseteq S
      BY DEF W!OnlyImported, W!Closed, W!Followed
    <3>1. whitelist \cup todo \subseteq S
      BY DEF W!OnlyImported
    <3>2. f \in S /\ W!Followed(f) \subseteq S
      BY <3>1 DEF W!Closed
    <3> QED BY <2>1, <3>1, <3>2
  <2>3. Following'
    <3>1. Seeds \subseteq whitelist' \cup todo'
      BY <2>1 DEF Following
    <3>2. ASSUME NEW g \in whitelist'
          PROVE  W!Followed(g) \subseteq whitelist' \cup todo'
      BY <1>2, <2>1 DEF Following, W!Visit
    <3> QED BY <3>1, <3>2 DEF Following, W!Followed
  <2> QED BY <2>2, <2>3
<1> QED BY <1>1, <1>2 DEF W!Next

\* Only the constructor of RunnerServer changes the whitelist.
LEMMA WhitelistFrame ==
  ASSUME Next, ~Build
  PROVE  UNCHANGED startVars /\ (main' # "building" => main # "building" \/ W!Built)
<1>1. CASE OpenGrpc
  BY <1>1 DEF OpenGrpc
<1>2. CASE Opening \/ RolledBack \/ Stop \/ GraceExpires \/ Stopped
  BY <1>2 DEF Opening, OpenHttp, HttpFails, RolledBack, Stop, GraceExpires, Stopped
<1>3. ASSUME NEW c \in Conns,
             Accept(c) \/ Refuse(c) \/ Admit(c) \/ UriLine(c) \/ BridgeUp(c)
               \/ RunnerReturns(c) \/ RunnerRaises(c)
      PROVE  UNCHANGED startVars /\ main' = main
  BY <1>3 DEF Accept, Refuse, Admit, UriLine, BridgeUp, RunnerReturns, RunnerRaises,
              mainVars
<1>4. ASSUME NEW c \in Conns, Leaves(c)
      PROVE  UNCHANGED startVars /\ main' = main
  BY <1>4 DEF Leaves, HandshakeFails, BridgeFails, TornDown, Cancelled, Finally, mainVars
<1> QED BY <1>1, <1>2, <1>3, <1>4 DEF Next, BridgeSettles, Leaves

LEMMA WhitelistInvariant == Spec => []WhitelistInv
<1>1. ASSUME WhitelistInv, [Next]_serverVars PROVE WhitelistInv'
  <2>1. CASE Build
    BY <1>1, <2>1, StepLoopInv DEF Build, WhitelistInv, mainVars
  <2>2. CASE Next /\ ~Build
    <3>1. UNCHANGED <<whitelist, todo>> /\ (main' # "building" => W!Built)
      BY <1>1, <2>2, WhitelistFrame DEF WhitelistInv, startVars
    <3> QED
      BY <1>1, <3>1 DEF WhitelistInv, LoopInv, W!OnlyImported, Following, W!Built
  <2>3. CASE UNCHANGED serverVars
    BY <1>1, <2>3 DEF serverVars, startVars, mainVars, WhitelistInv, LoopInv,
                      W!OnlyImported, Following, W!Built
  <2> QED BY <1>1, <2>1, <2>2, <2>3
<1> QED BY InitWhitelistInv, <1>1, PTL DEF Spec

\* The loop never whitelists, or queues, a file that need not be served: every
\* one is in each closed set (the imports followed in build_whitelist).
THEOREM NothingElse == Spec => []W!OnlyImported
BY WhitelistInvariant, PTL DEF WhitelistInv, LoopInv

\* From the moment a listener opens the whitelist is the least set with the
\* processor files that is closed under the imports of readable files, whatever
\* the files and their imports are (build_whitelist, RunnerServer.__init__).
THEOREM WhitelistIsExact == Spec => []WhitelistExact
<1>1. WhitelistInv => WhitelistExact
  BY DEF WhitelistInv, WhitelistExact, LoopInv, W!ExactlyImported, W!OnlyImported,
         Following, W!Built, W!Closed
<1> QED BY <1>1, WhitelistInvariant, PTL
=============================================================================
