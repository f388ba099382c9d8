-------------------------------- MODULE Server --------------------------------
(***************************************************************************)
(* The server (server/app.py) and the registry of its runners              *)
(* (server/state.py): start-up with its rollback, one handler task per     *)
(* orchestrator connection, and the shutdown with its grace period.  The   *)
(* runner runs inside the handler's task; what it does is module Runner,   *)
(* here it only returns, raises or is cancelled.  The loop that builds the *)
(* whitelist, before any listener opens, is module Whitelist.              *)
(*                                                                         *)
(* Task.cancel() is a request (cancelling): the handler raises where it is *)
(* suspended the next time it runs.                                        *)
(***************************************************************************)
EXTENDS Integers, Sequences, FiniteSets

CONSTANTS
  MaxConns,      \* bound: the connections orchestrators open
  Limit,         \* MAX_GRPC_CONNECTIONS
  HistorySizes,  \* what rdfc:historySize may be configured to
  Files, Seeds, Readable, Imports

ASSUME ServerAssumption ==
  /\ MaxConns \in Nat /\ Limit \in Nat
  /\ HistorySizes \subseteq Int
  /\ Seeds \subseteq Files /\ Readable \subseteq Files
  /\ Imports \in [Files -> SUBSET Files]

VARIABLES
  main,         \* serve(): start-up, service, shutdown
  whitelist,
  todo,
  listening,    \* the gRPC listener accepts connections
  stopping,     \* _stopping
  waited,       \* the handlers shutdown() waits for
  at,           \* at[c]: where the handler of connection c is suspended
  cancelling,   \* the handlers with a cancellation they have not raised yet
  connections,  \* _connections
  open,         \* the accepted sockets that are not closed yet
  runnerId,     \* runnerId[c]: the record of connection c, 0 before it has one
  nextId,       \* _next_id
  runners,      \* _runners: the records of runners that are connected
  status,       \* status[i]: the status of record i, wherever it is kept
  history,      \* _history: the records of the others, newest first
  historySize,  \* _history_size
  completed,    \* history variable: the records whose runner returned normally
  left          \* history variable: all records deregistered, oldest first

W == INSTANCE Whitelist

Conns == 1..MaxConns  \* numbered in the order they are accepted
Ids == 1..MaxConns

startVars == <<whitelist, todo>>
mainVars == <<main, listening, stopping, waited>>
stateVars == <<nextId, runners, status, history, historySize, left>>
connVars == <<at, cancelling, connections, open, runnerId, completed>>
serverVars == <<startVars, mainVars, connVars, stateVars>>

Places == {"none", "accepted", "handshake", "bridging", "running",
           "leaving", "failing", "over"}
Served == {"handshake", "bridging", "running", "leaving", "failing"}
Registered == Served \ {"handshake"}

Statuses == {"connecting", "running", "done", "error"}

Types ==
  /\ main \in {"building", "opening", "serving", "rollback", "failed",
               "stopping", "grace", "stopped"}
  /\ whitelist \subseteq Files /\ todo \subseteq Files
  /\ listening \in BOOLEAN /\ stopping \in BOOLEAN
  /\ waited \subseteq Conns
  /\ at \in [Conns -> Places]
  /\ cancelling \subseteq {c \in Conns : at[c] \in Served}
  /\ connections \subseteq Conns /\ open \subseteq Conns
  /\ runnerId \in [Conns -> 0..MaxConns]
  /\ nextId \in 1..(MaxConns + 1)
  /\ runners \subseteq 1..(nextId - 1)
  /\ status \in [Ids -> Statuses]
  /\ history \in Seq(1..(nextId - 1)) /\ left \in Seq(1..(nextId - 1))
  /\ historySize \in Int /\ historySize >= -1
  /\ completed \subseteq 1..(nextId - 1)

\* The variables hold what the code can put in them; no list outgrows the
\* connections there were.
TypeOK == Types /\ Len(history) <= MaxConns /\ Len(left) <= MaxConns

AtLeast(n, m) == IF n < m THEN m ELSE n
AtMost(n, m) == IF n < m THEN n ELSE m

Init ==
  /\ main = "building" /\ W!Init
  /\ listening = FALSE /\ stopping = FALSE /\ waited = {}
  /\ at = [c \in Conns |-> "none"] /\ cancelling = {}
  /\ connections = {} /\ open = {}
  /\ runnerId = [c \in Conns |-> 0] /\ completed = {}
  /\ nextId = 1 /\ runners = {} /\ status = [i \in Ids |-> "connecting"]
  /\ \E n \in HistorySizes : historySize = AtLeast(-1, n)
  /\ history = <<>> /\ left = <<>>
-----------------------------------------------------------------------------
(* State: the records of the runners *)

\* Mutant: a size of -1 is not told apart from the others.
KeepPlain(records) == SubSeq(records, 1, AtMost(Len(records), historySize))

\* del self._history[self._history_size:], unless all are kept.
Keep(records) ==
  IF historySize >= 0 THEN SubSeq(records, 1, AtMost(Len(records), historySize))
                      ELSE records

\* Mutant: the next runner gets the same id.
RegisterSame(c) ==
  /\ runnerId' = [runnerId EXCEPT ![c] = nextId]
  /\ runners' = runners \cup {nextId}
  /\ UNCHANGED <<nextId, status, history, historySize, left>>

\* register_runner()
Register(c) ==
  /\ runnerId' = [runnerId EXCEPT ![c] = nextId]
  /\ nextId' = nextId + 1
  /\ runners' = runners \cup {nextId}
  /\ UNCHANGED <<status, history, historySize, left>>

\* deregister_runner() of a record whose status was last: done, unless it failed.
Deregister(i, last) ==
  /\ runners' = runners \ {i}
  /\ status' = [status EXCEPT ![i] = IF last = "error" THEN "error" ELSE "done"]
  /\ history' = Keep(<<i>> \o history)
  /\ left' = Append(left, i)
  /\ UNCHANGED <<nextId, historySize>>
-----------------------------------------------------------------------------
(* handle_orchestrator(): one task per connection *)

\* asyncio accepts a connection and makes a task that has yet to run (external).
Accept(c) ==
  /\ listening /\ at[c] = "none"
  /\ \A b \in 1..(c - 1) : at[b] # "none"
  /\ at' = [at EXCEPT ![c] = "accepted"]
  /\ open' = open \cup {c}
  /\ UNCHANGED <<startVars, mainVars, stateVars, cancelling, connections, runnerId, completed>>

Refuses == stopping \/ Cardinality(connections) >= Limit

\* Shutting down, or the limit is reached.
Refuse(c) ==
  /\ at[c] = "accepted" /\ Refuses
  /\ at' = [at EXCEPT ![c] = "over"]
  /\ open' = open \ {c}
  /\ UNCHANGED <<startVars, mainVars, stateVars, cancelling, connections, runnerId, completed>>

\* The connection counts from here on; the handler waits for the URI line.
Admit(c) ==
  /\ at[c] = "accepted" /\ ~Refuses
  /\ at' = [at EXCEPT ![c] = "handshake"]
  /\ connections' = connections \cup {c}
  /\ UNCHANGED <<startVars, mainVars, stateVars, cancelling, open, runnerId, completed>>

Runs(c, place) == at[c] = place /\ c \notin cancelling

\* The URI line was read: the runner is registered, the loopback server started.
UriLine(c) ==
  /\ Runs(c, "handshake")
  /\ Register(c)
  /\ at' = [at EXCEPT ![c] = "bridging"]
  /\ UNCHANGED <<startVars, mainVars, cancelling, connections, open, completed>>

\* The bridge is up: the runner starts, in this task.
BridgeUp(c) ==
  /\ Runs(c, "bridging")
  /\ status' = [status EXCEPT ![runnerId[c]] = "running"]
  /\ at' = [at EXCEPT ![c] = "running"]
  /\ UNCHANGED <<startVars, mainVars, cancelling, connections, open, runnerId, completed,
                 nextId, runners, history, historySize, left>>

\* run_with_channel() returned: the bridge is torn down.
RunnerReturns(c) ==
  /\ Runs(c, "running")
  /\ status' = [status EXCEPT ![runnerId[c]] = "done"]
  /\ at' = [at EXCEPT ![c] = "leaving"]
  /\ completed' = completed \cup {runnerId[c]}
  /\ UNCHANGED <<startVars, mainVars, cancelling, connections, open, runnerId,
                 nextId, runners, history, historySize, left>>

\* It raised, or is cancelled.  Its flush of the log stream (2 seconds at most)
\* is part of the run; then the bridge is torn down under the exception.
RunnerRaises(c) ==
  /\ at[c] = "running"
  /\ at' = [at EXCEPT ![c] = "failing"]
  /\ cancelling' = cancelling \ {c}
  /\ UNCHANGED <<startVars, mainVars, stateVars, connections, open, runnerId, completed>>

\* The finally clause, after the status of the runner became last.
Finally(c, last) ==
  /\ at' = [at EXCEPT ![c] = "over"]
  /\ cancelling' = cancelling \ {c}
  /\ connections' = connections \ {c}
  /\ open' = open \ {c}
  /\ IF runnerId[c] = 0 THEN UNCHANGED stateVars ELSE Deregister(runnerId[c], last)
  /\ UNCHANGED <<startVars, mainVars, runnerId, completed>>

\* Mutant: a peer that sends nothing is waited for.
HandshakeFailsStopping(c) == stopping /\ Runs(c, "handshake") /\ Finally(c, "connecting")

\* The peer hung up, sent no proper line, or HANDSHAKE_TIMEOUT is over.
HandshakeFails(c) == Runs(c, "handshake") /\ Finally(c, "connecting")

\* The loopback server cannot be started.
BridgeFails(c) == Runs(c, "bridging") /\ Finally(c, "error")

\* SocketBridge.__aexit__ is through after a normal return, or under an exception.
TornDown(c) ==
  \/ Runs(c, "leaving") /\ Finally(c, status[runnerId[c]])
  \/ Runs(c, "failing") /\ Finally(c, "error")

\* Mutant: a cancellation is no error of the runner.
CancelledQuietly(c) ==
  /\ c \in cancelling /\ at[c] # "running"
  /\ Finally(c, IF at[c] = "handshake" THEN "connecting" ELSE status[runnerId[c]])

\* Mutant: the teardown of the bridge suppresses the cancellation, too.
CancelledSuppressed(c) ==
  /\ c \in cancelling /\ at[c] # "running"
  /\ IF at[c] \in {"leaving", "failing"}
     THEN /\ cancelling' = cancelling \ {c}
          /\ UNCHANGED <<startVars, mainVars, stateVars, at, connections, open, runnerId, completed>>
     ELSE Finally(c, "error")

\* A cancellation that is raised anywhere but in the runner ends the handler: in
\* the teardown too, so that a run that was done becomes an error.
Cancelled(c) ==
  /\ c \in cancelling /\ at[c] # "running"
  /\ Finally(c, "error")
-----------------------------------------------------------------------------
(* serve() and shutdown() *)

\* The constructor of RunnerServer builds the whitelist.
Build ==
  /\ main = "building" /\ W!Next
  /\ UNCHANGED <<mainVars, connVars, stateVars>>

\* The gRPC listener opens, or its port is taken.
OpenGrpc ==
  /\ main = "building" /\ W!Built
  /\ \/ main' = "opening" /\ listening' = TRUE
     \/ main' = "failed" /\ UNCHANGED listening
  /\ UNCHANGED <<startVars, connVars, stateVars, stopping, waited>>

\* The HTTP listener opens second.
OpenHttp ==
  /\ main = "opening"
  /\ main' = "serving"
  /\ UNCHANGED <<startVars, connVars, stateVars, listening, stopping, waited>>

\* Its port is taken: the gRPC listener is rolled back.
HttpFails ==
  /\ main = "opening"
  /\ main' = "rollback" /\ listening' = FALSE
  /\ UNCHANGED <<startVars, connVars, stateVars, stopping, waited>>

\* tcp_server.wait_closed() waits for the connections that came in meanwhile.
RolledBack ==
  /\ main = "rollback" /\ open = {}
  /\ main' = "failed"
  /\ UNCHANGED <<startVars, connVars, stateVars, listening, stopping, waited>>

\* Mutant: the shutdown is announced only when the connections are gone.
StopLate ==
  /\ main = "serving"
  /\ listening' = FALSE
  /\ waited' = connections
  /\ cancelling' = connections
  /\ main' = IF connections = {} THEN "stopped" ELSE "stopping"
  /\ UNCHANGED <<startVars, stateVars, stopping, at, connections, open, runnerId, completed>>

\* A signal: shutdown() closes the listener and cancels the handlers there are.
Stop ==
  /\ main = "serving"
  /\ stopping' = TRUE /\ listening' = FALSE
  /\ waited' = connections
  /\ cancelling' = connections
  /\ main' = IF connections = {} THEN "stopped" ELSE "stopping"
  /\ UNCHANGED <<startVars, stateVars, at, connections, open, runnerId, completed>>

\* SHUTDOWN_GRACE is over, long after every handler raised its cancellation and
\* every runner flushed its log: wait_for() cancels the gather(), which cancels
\* its handlers once more and still waits for them.
GraceExpires ==
  /\ main = "stopping"
  /\ \A c \in waited : at[c] # "over" => c \notin cancelling
  /\ cancelling' = {c \in waited : at[c] # "over"}
  /\ main' = "grace"
  /\ UNCHANGED <<startVars, stateVars, listening, stopping, waited,
                 at, connections, open, runnerId, completed>>

Stopped ==
  /\ main \in {"stopping", "grace"}
  /\ \A c \in waited : at[c] = "over"
  /\ main' = "stopped"
  /\ UNCHANGED <<startVars, connVars, stateVars, listening, stopping, waited>>
-----------------------------------------------------------------------------
Opening == OpenHttp \/ HttpFails
BridgeSettles(c) == BridgeUp(c) \/ BridgeFails(c)

Next ==
  \/ Build \/ OpenGrpc \/ Opening \/ RolledBack \/ Stop \/ GraceExpires \/ Stopped
  \/ \E c \in Conns :
       \/ Accept(c) \/ Refuse(c) \/ Admit(c) \/ UriLine(c) \/ HandshakeFails(c)
       \/ BridgeSettles(c) \/ RunnerReturns(c) \/ RunnerRaises(c)
       \/ TornDown(c) \/ Cancelled(c)

Spec == Init /\ [][Next]_serverVars

\* The event loop runs what is ready: tasks that were made, timeouts that are
\* over, cancellations.
LoopFairness ==
  /\ WF_serverVars(Build) /\ WF_serverVars(OpenGrpc) /\ WF_serverVars(Opening)
  /\ WF_serverVars(RolledBack) /\ WF_serverVars(GraceExpires) /\ WF_serverVars(Stopped)
  /\ \A c \in Conns :
       /\ WF_serverVars(Refuse(c) \/ Admit(c))
       /\ WF_serverVars(HandshakeFails(c))
       /\ WF_serverVars(BridgeSettles(c))
       /\ WF_serverVars(c \in cancelling /\ (RunnerRaises(c) \/ Cancelled(c)))

LoopSpec == Spec /\ LoopFairness

\* Every run comes to an end, and its peer reads what is left for it.
PeerFairness ==
  \A c \in Conns : /\ WF_serverVars(RunnerReturns(c) \/ RunnerRaises(c))
                   /\ WF_serverVars(TornDown(c))
-----------------------------------------------------------------------------
(* Safety *)

\* No more than MAX_GRPC_CONNECTIONS are served at any time, and the handlers
\* that are counted are exactly those that serve: one that ended, however it
\* did, has given its place back.
LimitHolds ==
  /\ Cardinality({c \in Conns : at[c] \in Served}) <= Limit
  /\ connections = {c \in Conns : at[c] \in Served}

\* Once shutdown() is over no handler serves, none starts to, and no runner is
\* shown as connected.
NoneAfterShutdown ==
  main = "stopped" => /\ runners = {}
                      /\ \A c \in Conns : at[c] \notin Served

\* A record is live exactly while its handler is between registration and end,
\* and no two handlers share one.
LiveIsServed ==
  /\ runners = {runnerId[c] : c \in {b \in Conns : at[b] \in Registered}}
  /\ \A b, c \in Conns : runnerId[b] = runnerId[c] /\ runnerId[b] # 0 => b = c

\* However a handler ends, it gives back both its place and its record, and none
\* is left once shutdown() is over.
NothingKept == LimitHolds /\ LiveIsServed /\ NoneAfterShutdown

\* The history shows the runners that disconnected last, newest first, each
\* once; a size of 0 keeps none and -1 keeps all.
HistoryIsLatest ==
  /\ Len(history) = IF historySize = -1 THEN Len(left) ELSE AtMost(Len(left), historySize)
  /\ \A k \in 1..Len(history) : history[k] = left[Len(left) + 1 - k]
  /\ \A j, k \in 1..Len(left) : left[j] = left[k] => j = k

\* Whoever is shown as done in the end has completed its run, and whoever
\* completed it is shown as done, unless the shutdown cut its teardown short.
StatusEarned ==
  \A k \in 1..Len(history) :
    /\ status[history[k]] = "done" => history[k] \in completed
    /\ history[k] \in completed => status[history[k]] = "done" \/ stopping

\* The whitelist serve() builds is the processor files and what they import,
\* transitively, before the HTTP server, which is handed it, accepts connections.
WhitelistExact == main # "building" => W!ExactlyImported /\ W!Built
-----------------------------------------------------------------------------
(* Liveness *)

\* shutdown() comes to an end whatever the orchestrators and the runners do.
ShutdownEnds == stopping ~> main = "stopped"

\* If runs end and peers read, every connection that is accepted is closed: it is
\* refused, fails its handshake within the timeout, or is served to its end.
EveryConnectionEnds ==
  PeerFairness => \A c \in Conns : at[c] = "accepted" ~> at[c] = "over"

\* A start that fails is reported: serve() raises and the process exits.
FailedStartReported == main = "rollback" ~> main = "failed"
=============================================================================
