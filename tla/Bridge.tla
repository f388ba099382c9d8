-------------------------------- MODULE Bridge --------------------------------
(***************************************************************************)
(* The socket bridge (server/bridge.py): it pumps bytes between the TCP    *)
(* connection an orchestrator opened ("tcp") and the one loopback          *)
(* connection that gRPC dials ("local"), with half-close, and is torn down *)
(* by SocketBridge.__aexit__().  That the handler may be cancelled in the   *)
(* teardown is in module Server: it happens in a shutdown only.            *)
(*                                                                         *)
(* Per socket there is a transport and its StreamReader on our side, and a *)
(* peer (external): the orchestrator, or the gRPC core.  Bytes are chunks  *)
(* numbered in the order they are sent; a chunk has the size at which a    *)
(* write buffer with one more in it makes drain() wait.  An await that     *)
(* need not wait is a step here as well.                                   *)
(***************************************************************************)
EXTENDS Naturals, Sequences

CONSTANTS
  MaxChunks,  \* bound: MaxChunks[s], the chunks the peer of socket s sends
  MaxFresh    \* bound: the loopback connections whose handler has not run yet

Socks == {"tcp", "local"}
Other(s) == IF s = "tcp" THEN "local" ELSE "tcp"

ASSUME BridgeAssumption == MaxChunks \in [Socks -> Nat] /\ MaxFresh \in Nat

VARIABLES
  peer,      \* peer[s]: "open", "half" (it sends no more), "gone"
  sent,      \* sent[s]: chunks the peer of s has sent
  got,       \* got[s]: what the peer of s received
  gotEof,    \* gotEof[s]: the peer of s received the end of file
  transport, \* transport[s]: "none", "open", "closing", "lost"
  inbox,     \* inbox[s]: the buffer of the StreamReader
  end,       \* end[s]: what follows it: "more", "eof" or an "exception"
  outbox,    \* outbox[s]: the write buffer
  outEof,    \* outEof[s]: write_eof() was called
  pump,      \* pump[s]: the task that reads from s
  pair,      \* pump_pair()
  listening, \* the loopback server accepts connections
  fresh,     \* loopback connections whose handler has not run
  claimed,   \* _claimed
  exit       \* __aexit__()

peerVars == <<peer, sent, got, gotEof>>
readVars == <<inbox, end>>
writeVars == <<outbox, outEof>>
taskVars == <<pump, pair>>
dialVars == <<listening, fresh, claimed>>
bridgeVars == <<peerVars, transport, readVars, writeVars, taskVars, dialVars, exit>>

PumpOver == {"done", "failed", "cancelled"}
Chunks(s) == 1..MaxChunks[s]

\* The variables hold what the code can put in them; pumps are there from the
\* claim on, and are over when the sockets are waited for.
TypeOK ==
  /\ peer \in [Socks -> {"open", "half", "gone"}]
  /\ \A s \in Socks : /\ sent[s] \in 0..MaxChunks[s]
                      /\ inbox[s] \in Seq(Chunks(s))
                      /\ {outbox[Other(s)], got[Other(s)]} \subseteq Seq(Chunks(s))
  /\ gotEof \in [Socks -> BOOLEAN] /\ outEof \in [Socks -> BOOLEAN]
  /\ transport \in [Socks -> {"none", "open", "closing", "lost"}]
  /\ end \in [Socks -> {"more", "eof", "exception"}]
  /\ pump \in [Socks -> {"none", "reading", "draining", "cancelling"} \cup PumpOver]
  /\ pair \in {"none", "waiting", "ending", "closing", "over"}
  /\ listening \in BOOLEAN /\ fresh \in 0..MaxFresh /\ claimed \in BOOLEAN
  /\ exit \in {"serving", "channel", "server", "tcp", "over"}
  /\ claimed <=> pair # "none"
  /\ \A s \in Socks : /\ pump[s] = "none" <=> pair = "none"
                      /\ pair \in {"closing", "over"} => pump[s] \in PumpOver
                      /\ transport["local"] = "none" <=> ~claimed

Init ==
  /\ peer = [s \in Socks |-> "open"] /\ sent = [s \in Socks |-> 0]
  /\ got = [s \in Socks |-> <<>>] /\ gotEof = [s \in Socks |-> FALSE]
  /\ transport = [s \in Socks |-> IF s = "tcp" THEN "open" ELSE "none"]
  /\ inbox = [s \in Socks |-> <<>>] /\ end = [s \in Socks |-> "more"]
  /\ outbox = [s \in Socks |-> <<>>] /\ outEof = [s \in Socks |-> FALSE]
  /\ pump = [s \in Socks |-> "none"] /\ pair = "none"
  /\ listening = TRUE /\ fresh = 0 /\ claimed = FALSE
  /\ exit = "serving"
-----------------------------------------------------------------------------
(* The transports of asyncio and their peers (external) *)

Reads(s) == transport[s] = "open" /\ end[s] = "more"

Connected(s) == transport[s] \in {"open", "closing"}

\* What comes after the transport stopped reading is dropped, and left out here.
PeerSends(s) ==
  /\ peer[s] = "open" /\ Reads(s) /\ sent[s] < MaxChunks[s]
  /\ sent' = [sent EXCEPT ![s] = @ + 1]
  /\ inbox' = [inbox EXCEPT ![s] = Append(@, sent[s] + 1)]
  /\ UNCHANGED <<peer, got, gotEof, transport, end, writeVars, taskVars, dialVars, exit>>

\* shutdown(SHUT_WR) or close() of the peer.
PeerEnds(s) ==
  /\ peer[s] = "open" /\ Connected(s)
  /\ \E how \in {"half", "gone"} : peer' = [peer EXCEPT ![s] = how]
  /\ end' = IF Reads(s) THEN [end EXCEPT ![s] = "eof"] ELSE end
  /\ UNCHANGED <<sent, got, gotEof, transport, inbox, writeVars, taskVars, dialVars, exit>>

\* A reset, or close() after a half-close: nobody notices before the next read
\* or write.
PeerGoes(s) ==
  /\ peer[s] # "gone" /\ Connected(s)
  /\ peer' = [peer EXCEPT ![s] = "gone"]
  /\ UNCHANGED <<sent, got, gotEof, transport, readVars, writeVars, taskVars, dialVars, exit>>

PeerReads(s) ==
  /\ Connected(s) /\ peer[s] # "gone" /\ outbox[s] # <<>>
  /\ got' = [got EXCEPT ![s] = Append(@, Head(outbox[s]))]
  /\ outbox' = [outbox EXCEPT ![s] = Tail(@)]
  /\ gotEof' = [gotEof EXCEPT ![s] = @ \/ (outEof[s] /\ Len(outbox[s]) = 1)]
  /\ UNCHANGED <<peer, sent, transport, readVars, outEof, taskVars, dialVars, exit>>

\* connection_lost() with an error: the reader raises, what was buffered is lost.
Breaks(s) ==
  /\ peer[s] = "gone" /\ Connected(s)
  /\ Reads(s) \/ outbox[s] # <<>>
  /\ transport' = [transport EXCEPT ![s] = "lost"]
  /\ end' = [end EXCEPT ![s] = "exception"]
  /\ outbox' = [outbox EXCEPT ![s] = <<>>]
  /\ UNCHANGED <<peerVars, inbox, outEof, taskVars, dialVars, exit>>

\* close() stops reading; connection_lost() follows when the buffer is flushed.
Closes(s) ==
  /\ transport[s] = "closing" /\ outbox[s] = <<>>
  /\ transport' = [transport EXCEPT ![s] = "lost"]
  /\ end' = [end EXCEPT ![s] = IF @ = "more" THEN "eof" ELSE @]
  /\ gotEof' = [gotEof EXCEPT ![s] = @ \/ peer[s] # "gone"]
  /\ UNCHANGED <<peer, sent, got, inbox, writeVars, taskVars, dialVars, exit>>

Close(ss) ==
  transport' = [s \in Socks |->
    IF s \in ss /\ transport[s] = "open" THEN "closing" ELSE transport[s]]
-----------------------------------------------------------------------------
(* The loopback server *)

\* gRPC, or any process of the host (external).
Dial ==
  /\ listening /\ fresh < MaxFresh
  /\ fresh' = fresh + 1
  /\ UNCHANGED <<peerVars, transport, readVars, writeVars, taskVars, listening, claimed, exit>>

\* Mutant: the claim is given back when the pumps are over.
ClaimAgain ==
  /\ fresh > 0 /\ (~claimed \/ pair = "over")
  /\ claimed' = TRUE /\ fresh' = fresh - 1
  /\ transport' = [transport EXCEPT !["local"] = "open"]
  /\ peer' = [peer EXCEPT !["local"] = "open"]
  /\ got' = [got EXCEPT !["local"] = <<>>]
  /\ gotEof' = [gotEof EXCEPT !["local"] = FALSE]
  /\ end' = [end EXCEPT !["local"] = "more"]
  /\ outEof' = [outEof EXCEPT !["local"] = FALSE]
  /\ pump' = [s \in Socks |-> "reading"] /\ pair' = "waiting"
  /\ UNCHANGED <<sent, inbox, outbox, listening, exit>>

\* The handler of the first connection starts the pumps.
Claim ==
  /\ fresh > 0 /\ ~claimed
  /\ claimed' = TRUE /\ fresh' = fresh - 1
  /\ transport' = [transport EXCEPT !["local"] = "open"]
  /\ pump' = [s \in Socks |-> "reading"] /\ pair' = "waiting"
  /\ UNCHANGED <<peerVars, readVars, writeVars, listening, exit>>

\* The handler of any other closes it.
RefuseDial ==
  /\ fresh > 0 /\ claimed
  /\ fresh' = fresh - 1
  /\ UNCHANGED <<peerVars, transport, readVars, writeVars, taskVars, listening, claimed, exit>>
-----------------------------------------------------------------------------
(* _pump(): the task that reads from s and writes to Other(s) *)

\* A closing transport takes what is written while its buffer is not empty.
Takes(d) == transport[d] = "open" \/ (transport[d] = "closing" /\ outbox[d] # <<>>)

ReadChunk(s) ==
  /\ pump[s] = "reading" /\ end[s] # "exception" /\ inbox[s] # <<>>
  /\ inbox' = [inbox EXCEPT ![s] = Tail(@)]
  /\ outbox' = IF Takes(Other(s))
               THEN [outbox EXCEPT ![Other(s)] = Append(@, Head(inbox[s]))] ELSE outbox
  /\ pump' = [pump EXCEPT ![s] = "draining"]
  /\ UNCHANGED <<peerVars, transport, end, outEof, pair, dialVars, exit>>

\* drain() waits while the buffer is above the high-water mark.
Drained(s) ==
  /\ pump[s] = "draining" /\ end[Other(s)] # "exception"
  /\ transport[Other(s)] # "lost" /\ Len(outbox[Other(s)]) <= 1
  /\ pump' = [pump EXCEPT ![s] = "reading"]
  /\ UNCHANGED <<peerVars, transport, readVars, writeVars, pair, dialVars, exit>>

\* Mutant: the pump ends and the half-close is not passed on.
EndsSilently(s, outcome) ==
  /\ pump' = [pump EXCEPT ![s] = outcome]
  /\ UNCHANGED <<peerVars, transport, readVars, writeVars, pair, dialVars, exit>>

\* The finally clause: write_eof() on a transport that is not closing; its peer
\* receives the end of file when the buffer is flushed.
Ends(s, outcome) ==
  LET d == Other(s)
      writes == transport[d] = "open"
  IN /\ pump' = [pump EXCEPT ![s] = outcome]
     /\ outEof' = [outEof EXCEPT ![d] = @ \/ writes]
     /\ gotEof' = [gotEof EXCEPT ![d] = @ \/ (writes /\ outbox[d] = <<>> /\ peer[d] # "gone")]
     /\ UNCHANGED <<peer, sent, got, transport, readVars, outbox, pair, dialVars, exit>>

PumpDone(s) ==
  /\ pump[s] = "reading" /\ inbox[s] = <<>> /\ end[s] = "eof"
  /\ Ends(s, "done")

\* read() raises what the reader was given; drain() what the writer's reader was
\* given, or that the connection is lost.
PumpFails(s) ==
  /\ \/ pump[s] = "reading" /\ end[s] = "exception"
     \/ pump[s] = "draining" /\ (end[Other(s)] = "exception" \/ transport[Other(s)] = "lost")
  /\ Ends(s, "failed")

PumpCancelled(s) == pump[s] = "cancelling" /\ Ends(s, "cancelled")
-----------------------------------------------------------------------------
(* pump_pair() *)

CancelPumps ==
  pump' = [s \in Socks |-> IF pump[s] \in PumpOver THEN pump[s] ELSE "cancelling"]

\* Mutant: wait() returns with the first pump that is over.
PairEndsFirst ==
  /\ pair = "waiting"
  /\ \E s \in Socks : pump[s] \in PumpOver
  /\ pair' = "ending" /\ CancelPumps
  /\ UNCHANGED <<peerVars, transport, readVars, writeVars, dialVars, exit>>

\* Mutant: what is not over yet is not waited for.
PairEndsKeeping ==
  /\ pair = "waiting"
  /\ \/ \E s \in Socks : pump[s] = "failed"
     \/ \A s \in Socks : pump[s] = "done"
  /\ pair' = "closing" /\ CancelPumps /\ Close(Socks)
  /\ UNCHANGED <<peerVars, readVars, writeVars, dialVars, exit>>

\* wait(FIRST_EXCEPTION) returns when a pump failed or both are done.
PairEnds ==
  /\ pair = "waiting"
  /\ \/ \E s \in Socks : pump[s] = "failed"
     \/ \A s \in Socks : pump[s] = "done"
  /\ pair' = "ending" /\ CancelPumps
  /\ UNCHANGED <<peerVars, transport, readVars, writeVars, dialVars, exit>>

\* The gather() of both is over: both sockets are closed.
PairCloses ==
  /\ pair = "ending" /\ \A s \in Socks : pump[s] \in PumpOver
  /\ pair' = "closing" /\ Close(Socks)
  /\ UNCHANGED <<peerVars, readVars, writeVars, pump, dialVars, exit>>

PairOver ==
  /\ pair = "closing" /\ \A s \in Socks : transport[s] = "lost"
  /\ pair' = "over"
  /\ UNCHANGED <<peerVars, transport, readVars, writeVars, pump, dialVars, exit>>
-----------------------------------------------------------------------------
(* SocketBridge.__aexit__() *)

\* The runner is over: channel.close().
ExitBegins ==
  /\ exit = "serving"
  /\ exit' = "channel"
  /\ UNCHANGED <<peerVars, transport, readVars, writeVars, taskVars, dialVars>>

\* Mutant: the TCP side is closed last, after the loopback server.
ChannelClosedOnly ==
  /\ exit = "channel"
  /\ exit' = "server" /\ listening' = FALSE
  /\ UNCHANGED <<peerVars, transport, readVars, writeVars, taskVars, fresh, claimed>>

\* The TCP side is closed before the loopback server is waited for.
ChannelClosed ==
  /\ exit = "channel"
  /\ exit' = "server" /\ listening' = FALSE
  /\ Close({"tcp"})
  /\ UNCHANGED <<peerVars, readVars, writeVars, taskVars, fresh, claimed>>

\* wait_closed() waits until the loopback connections are lost.
ServerClosed ==
  /\ exit = "server"
  /\ fresh = 0 /\ transport["local"] \in {"none", "lost"}
  /\ exit' = "tcp"
  /\ UNCHANGED <<peerVars, transport, readVars, writeVars, taskVars, dialVars>>

TcpClosed ==
  /\ exit = "tcp" /\ transport["tcp"] = "lost"
  /\ exit' = "over"
  /\ UNCHANGED <<peerVars, transport, readVars, writeVars, taskVars, dialVars>>

\* channel.close() makes gRPC close the connection it has (external).
ChannelGone == exit # "serving" /\ (PeerEnds("local") \/ PeerGoes("local"))
-----------------------------------------------------------------------------
Transport(s) == Breaks(s) \/ Closes(s)
Pump(s) == ReadChunk(s) \/ Drained(s) \/ PumpDone(s) \/ PumpFails(s) \/ PumpCancelled(s)
Pair == PairEnds \/ PairCloses \/ PairOver
Handler == Claim \/ RefuseDial
Exit == ChannelClosed \/ ServerClosed \/ TcpClosed

Next ==
  \/ Dial \/ Handler \/ Pair \/ ExitBegins \/ Exit
  \/ \E s \in Socks : \/ PeerSends(s) \/ PeerEnds(s) \/ PeerGoes(s) \/ PeerReads(s)
                      \/ Transport(s) \/ Pump(s)

Spec == Init /\ [][Next]_bridgeVars

\* The event loop runs what is ready; channel.close() closes what gRPC has open.
LoopFairness ==
  /\ WF_bridgeVars(Handler) /\ WF_bridgeVars(Pair) /\ WF_bridgeVars(Exit)
  /\ WF_bridgeVars(ChannelGone)
  /\ \A s \in Socks : WF_bridgeVars(Transport(s)) /\ WF_bridgeVars(Pump(s))

\* The peers read what is sent to them, or go away (external).
PeerFairness == \A s \in Socks : WF_bridgeVars(PeerReads(s))

FairSpec == Spec /\ LoopFairness /\ PeerFairness
-----------------------------------------------------------------------------
(* Safety *)

\* A connection is broken by a peer that goes away, or by the teardown.
Broken == exit # "serving" \/ \E s \in Socks : peer[s] = "gone"

\* What a peer receives is what the other one sent, in order, from the first
\* byte on and with nothing left out: no second connection takes part of it.
\* Unless the connection broke, the end of file comes only when the other one
\* sent it, and after every byte before it.
BytesInOrder ==
  \A s \in Socks :
    /\ Len(got[s]) <= sent[Other(s)]
    /\ \A k \in 1..Len(got[s]) : got[s][k] = k
    /\ gotEof[s] /\ ~Broken =>
         peer[Other(s)] = "half" /\ Len(got[s]) = sent[Other(s)]
-----------------------------------------------------------------------------
(* Liveness, if peers read or go away *)

\* What one peer sent and the other has not received yet, the end of file included.
Pending(s) == \/ Len(got[Other(s)]) < sent[s]
              \/ peer[s] = "half" /\ ~gotEof[Other(s)]

\* What one peer sends reaches the other, its end of file included: a half-close
\* in one direction does not stop the other one.
EverythingPassedOn ==
  \A s \in Socks : (claimed /\ Pending(s)) ~> (~Pending(s) \/ Broken)

\* An orchestrator that is gone, and that the bridge still listened to, surfaces
\* as the end of the gRPC connection.
LossSurfaces ==
  (claimed /\ peer["tcp"] = "gone" /\ end["tcp"] # "more")
    ~> (gotEof["local"] \/ peer["local"] = "gone" \/ transport["local"] = "lost")

\* __aexit__() returns, the pumps are over, and from then on no connection is left,
\* on the orchestrator's side or on the loopback side, and none can come.
ExitReturns ==
  exit # "serving" ~> [](/\ exit = "over" /\ pair \in {"none", "over"}
                         /\ \A s \in Socks : transport[s] \in {"none", "lost"}
                         /\ fresh = 0 /\ ~listening)
=============================================================================
