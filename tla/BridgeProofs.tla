----------------------------- MODULE BridgeProofs -----------------------------
(***************************************************************************)
(* Proofs about Bridge, for any number of chunks from either peer and any  *)
(* number of loopback connections: the bytes of one peer reach the other   *)
(* in order and without a gap, and so does the end of file.                *)
(***************************************************************************)
EXTENDS Bridge, Integers, SequenceTheorems, TLAPS

-----------------------------------------------------------------------------
(* The inductive invariant, in parts. *)

\* TypeOK, the chunks taken as numbers: which they are is what InFlight says.
Types ==
  /\ peer \in [Socks -> {"open", "half", "gone"}]
  /\ sent \in [Socks -> Nat] /\ \A s \in Socks : sent[s] <= MaxChunks[s]
  /\ inbox \in [Socks -> Seq(Nat)] /\ outbox \in [Socks -> Seq(Nat)]
  /\ got \in [Socks -> Seq(Nat)]
  /\ gotEof \in [Socks -> BOOLEAN] /\ outEof \in [Socks -> BOOLEAN]
  /\ transport \in [Socks -> {"none", "open", "closing", "lost"}]
  /\ end \in [Socks -> {"more", "eof", "exception"}]
  /\ pump \in [Socks -> {"none", "reading", "draining", "cancelling"} \cup PumpOver]
  /\ pair \in {"none", "waiting", "ending", "closing", "over"}
  /\ listening \in BOOLEAN /\ fresh \in 0..MaxFresh /\ claimed \in BOOLEAN
  /\ exit \in {"serving", "channel", "server", "tcp", "over"}

\* The pumps are there from the claim on and over when the sockets are closed.
Places ==
  /\ claimed <=> pair # "none"
  /\ transport["local"] = "none" <=> ~claimed
  /\ transport["tcp"] # "none"
  /\ \A s \in Socks : /\ pump[s] = "none" <=> pair = "none"
                      /\ pair \in {"closing", "over"} => pump[s] \in PumpOver

\* The chunks on their way from s to the other peer: those it received, those in
\* the write buffer and those in the reader, each a run of numbers.
InFlight(s) == Len(got[Other(s)]) + Len(outbox[Other(s)]) + Len(inbox[s])

Runs(s) ==
  /\ \A k \in 1..Len(got[Other(s)]) : got[Other(s)][k] = k
  /\ \A k \in 1..Len(outbox[Other(s)]) :
       outbox[Other(s)][k] = Len(got[Other(s)]) + k
  /\ \A k \in 1..Len(inbox[s]) : inbox[s][k] + Len(inbox[s]) = sent[s] + k

\* A gap opens only behind a write buffer that takes nothing any more.
Gapless(s) ==
  /\ InFlight(s) <= sent[s]
  /\ Takes(Other(s)) \/ transport[Other(s)] = "none" => InFlight(s) = sent[s]

\* While nothing is broken a pump ends at the end of file only, the sockets are
\* closed only when both pumps ended, and an end of file is passed on last.
Quiet(s) ==
  /\ end[s] # "exception" /\ (end[s] = "eof" => peer[s] = "half")
  /\ pump[s] \in {"none", "reading", "draining", "done"}
  /\ pump[s] = "done" => end[s] = "eof" /\ inbox[s] = <<>>
  /\ transport[s] \in {"closing", "lost"} => pair \in {"closing", "over"}
  /\ pair \in {"ending", "closing", "over"} => pump[s] = "done"
  /\ outEof[Other(s)] => pump[s] = "done"
  /\ gotEof[Other(s)] => pump[s] = "done" /\ outbox[Other(s)] = <<>>

BridgeInv ==
  /\ Types /\ Places
  /\ \A s \in Socks : Runs(s) /\ Gapless(s)
  /\ ~Broken => \A s \in Socks : InFlight(s) = sent[s] /\ Quiet(s)

LEMMA Sides ==
  ASSUME NEW s \in Socks
  PROVE  /\ Other(s) \in Socks /\ Other(s) # s /\ Other(Other(s)) = s
         /\ \A t \in Socks : t = s \/ t = Other(s)
BY DEF Socks, Other

LEMMA InitBridgeInv == Init => BridgeInv
<1> SUFFICES ASSUME Init PROVE BridgeInv
  OBVIOUS
<1> USE BridgeAssumption DEF BridgeAssumption, Init
<1>1. Types
  <2>1. <<>> \in Seq(Nat) /\ \A s \in Socks : sent[s] <= MaxChunks[s]
    OBVIOUS
  <2>2. sent \in [Socks -> Nat] /\ inbox \in [Socks -> Seq(Nat)]
    BY <2>1
  <2>3. outbox \in [Socks -> Seq(Nat)] /\ got \in [Socks -> Seq(Nat)]
    BY <2>1
  <2>4. transport \in [Socks -> {"none", "open", "closing", "lost"}]
    OBVIOUS
  <2>5. gotEof \in [Socks -> BOOLEAN] /\ outEof \in [Socks -> BOOLEAN]
    OBVIOUS
  <2>6. end \in [Socks -> {"more", "eof", "exception"}]
    OBVIOUS
  <2>7. pump \in [Socks -> {"none", "reading", "draining", "cancelling"} \cup PumpOver]
    OBVIOUS
  <2>8. peer \in [Socks -> {"open", "half", "gone"}]
    OBVIOUS
  <2>9. /\ pair \in {"none", "waiting", "ending", "closing", "over"}
        /\ exit \in {"serving", "channel", "server", "tcp", "over"}
    OBVIOUS
  <2>10. listening \in BOOLEAN /\ fresh \in 0..MaxFresh /\ claimed \in BOOLEAN
    <3>1. 0 \in 0..MaxFresh
      OBVIOUS
    <3> QED BY <3>1
  <2> HIDE DEF Init
  <2> QED BY <2>1, <2>2, <2>3, <2>4, <2>5, <2>6, <2>7, <2>8, <2>9, <2>10 DEF Types
<1>2. Places
  BY DEF Places, Socks
<1>3. ASSUME NEW s \in Socks PROVE Runs(s) /\ Gapless(s) /\ InFlight(s) = sent[s] /\ Quiet(s)
  <2>1. /\ got[Other(s)] = <<>> /\ outbox[Other(s)] = <<>> /\ inbox[s] = <<>>
        /\ sent[s] = 0 /\ outEof[Other(s)] = FALSE /\ gotEof[Other(s)] = FALSE
    BY <1>3, Sides
  <2>2. InFlight(s) = 0
    BY <2>1 DEF InFlight
  <2>3. transport[s] \in {"none", "open"}
    BY <1>3
  <2> QED BY <1>3, <2>1, <2>2, <2>3 DEF Runs, Gapless, Quiet
<1> QED BY <1>1, <1>2, <1>3 DEF BridgeInv
-----------------------------------------------------------------------------
(* Types and places *)

LEMMA CloseTypes ==
  ASSUME Types, NEW ss \in SUBSET Socks, Close(ss)
  PROVE  /\ transport' \in [Socks -> {"none", "open", "closing", "lost"}]
         /\ \A s \in Socks : /\ transport'[s] = "none" <=> transport[s] = "none"
                             /\ transport'[s] = "open" => transport[s] = "open"
                             /\ transport'[s] = "lost" <=> transport[s] = "lost"
                             /\ transport'[s] = "closing" =>
                                  transport[s] = "closing" \/ s \in ss
BY DEF Types, Close

LEMMA StepTypes == BridgeInv /\ [Next]_bridgeVars => Types'
<1> SUFFICES ASSUME BridgeInv, [Next]_bridgeVars PROVE Types'
  OBVIOUS
<1> USE BridgeAssumption DEF BridgeAssumption, BridgeInv, Types, peerVars, readVars,
        writeVars, taskVars, dialVars, PumpOver
<1>1. CASE Dial
  BY <1>1 DEF Dial
<1>2. CASE Handler
  <2>1. CASE Claim
    BY <2>1 DEF Claim, Socks
  <2>2. CASE RefuseDial
    BY <2>2 DEF RefuseDial
  <2> QED BY <1>2, <2>1, <2>2 DEF Handler
<1>3. CASE Pair
  <2>1. CASE PairEnds
    BY <2>1 DEF PairEnds, CancelPumps
  <2>2. CASE PairCloses
    BY <2>2, CloseTypes DEF PairCloses
  <2>3. CASE PairOver
    BY <2>3 DEF PairOver
  <2> QED BY <1>3, <2>1, <2>2, <2>3 DEF Pair
<1>4. CASE ExitBegins \/ ServerClosed \/ TcpClosed
  BY <1>4 DEF ExitBegins, ServerClosed, TcpClosed
<1>5. CASE ChannelClosed
  <2>1. {"tcp"} \subseteq Socks
    BY DEF Socks
  <2> QED BY <1>5, <2>1, CloseTypes DEF ChannelClosed
<1>6. ASSUME NEW s \in Socks, PeerSends(s) PROVE Types'
  <2>1. sent[s] + 1 <= MaxChunks[s] /\ Append(inbox[s], sent[s] + 1) \in Seq(Nat)
    BY <1>6 DEF PeerSends
  <2> QED BY <1>6, <2>1 DEF PeerSends
<1>7. ASSUME NEW s \in Socks, PeerEnds(s) \/ PeerGoes(s) PROVE Types'
  <2>1. CASE PeerEnds(s)
    <3>1. peer' \in [Socks -> {"open", "half", "gone"}]
      BY <2>1 DEF PeerEnds
    <3>2. end' \in [Socks -> {"more", "eof", "exception"}]
      BY <2>1 DEF PeerEnds
    <3> QED BY <2>1, <3>1, <3>2 DEF PeerEnds
  <2>2. CASE PeerGoes(s)
    BY <2>2 DEF PeerGoes
  <2> QED BY <1>7, <2>1, <2>2
<1>8. ASSUME NEW s \in Socks, PeerReads(s) PROVE Types'
  <2>1. Append(got[s], Head(outbox[s])) \in Seq(Nat) /\ Tail(outbox[s]) \in Seq(Nat)
    BY <1>8 DEF PeerReads
  <2> QED BY <1>8, <2>1 DEF PeerReads
<1>9. ASSUME NEW s \in Socks, Transport(s) PROVE Types'
  <2>1. CASE Breaks(s)
    BY <2>1 DEF Breaks
  <2>2. CASE Closes(s)
    <3>1. end' \in [Socks -> {"more", "eof", "exception"}]
      BY <2>2 DEF Closes
    <3>2. gotEof' \in [Socks -> BOOLEAN]
      BY <2>2 DEF Closes
    <3> QED BY <2>2, <3>1, <3>2 DEF Closes
  <2> QED BY <1>9, <2>1, <2>2 DEF Transport
<1>10. ASSUME NEW s \in Socks, ReadChunk(s) PROVE Types'
  <2>1. /\ Tail(inbox[s]) \in Seq(Nat)
        /\ Append(outbox[Other(s)], Head(inbox[s])) \in Seq(Nat)
    <3>1. inbox[s] \in Seq(Nat) /\ inbox[s] # <<>> /\ outbox[Other(s)] \in Seq(Nat)
      BY <1>10, Sides DEF ReadChunk
    <3> QED BY <3>1
  <2>2. outbox' \in [Socks -> Seq(Nat)]
    BY <1>10, <2>1, Sides DEF ReadChunk
  <2> QED BY <1>10, <2>1, <2>2 DEF ReadChunk
<1>11. ASSUME NEW s \in Socks, Drained(s) PROVE Types'
  BY <1>11 DEF Drained
<1>12. ASSUME NEW s \in Socks, PumpDone(s) \/ PumpFails(s) \/ PumpCancelled(s)
       PROVE  Types'
  <2>1. PICK outcome \in PumpOver : Ends(s, outcome)
    BY <1>12 DEF PumpDone, PumpFails, PumpCancelled
  <2>2. gotEof' \in [Socks -> BOOLEAN]
    BY <2>1, Sides DEF Ends
  <2>3. outEof' \in [Socks -> BOOLEAN]
    BY <2>1, Sides DEF Ends
  <2> QED BY <2>1, <2>2, <2>3 DEF Ends
<1>13. CASE UNCHANGED bridgeVars
  BY <1>13 DEF bridgeVars
<1> QED BY <1>1, <1>2, <1>3, <1>4, <1>5, <1>6, <1>7, <1>8, <1>9, <1>10, <1>11, <1>12,
           <1>13 DEF Next, Exit, Pump

LEMMA StepPlaces == BridgeInv /\ [Next]_bridgeVars => Places'
<1> SUFFICES ASSUME BridgeInv, [Next]_bridgeVars PROVE Places'
  OBVIOUS
<1> USE DEF BridgeInv, Types, Places, peerVars, readVars, writeVars, taskVars, dialVars,
            PumpOver
<1>1. CASE Dial \/ ExitBegins \/ ServerClosed \/ TcpClosed
  BY <1>1 DEF Dial, ExitBegins, ServerClosed, TcpClosed
<1>2. CASE Handler
  BY <1>2 DEF Handler, Claim, RefuseDial, Socks
<1>3. CASE Pair
  <2>1. CASE PairEnds
    BY <2>1 DEF PairEnds, CancelPumps
  <2>2. CASE PairCloses
    BY <2>2, CloseTypes DEF PairCloses, Socks
  <2>3. CASE PairOver
    BY <2>3 DEF PairOver
  <2> QED BY <1>3, <2>1, <2>2, <2>3 DEF Pair
<1>4. CASE ChannelClosed
  <2>1. {"tcp"} \in SUBSET Socks /\ "local" \in Socks /\ "tcp" \in Socks
    BY DEF Socks
  <2>2. \A s \in Socks : transport'[s] = "none" <=> transport[s] = "none"
    BY <1>4, <2>1, CloseTypes DEF ChannelClosed
  <2> QED BY <1>4, <2>1, <2>2 DEF ChannelClosed
<1>5. ASSUME NEW s \in Socks,
             PeerSends(s) \/ PeerEnds(s) \/ PeerGoes(s) \/ PeerReads(s)
      PROVE  Places'
  <2>1. UNCHANGED <<transport, pump, pair, claimed>>
    BY <1>5 DEF PeerSends, PeerEnds, PeerGoes, PeerReads
  <2> QED BY <2>1
<1>6. ASSUME NEW s \in Socks, Transport(s) PROVE Places'
  <2>1. /\ transport[s] # "none" /\ transport' = [transport EXCEPT ![s] = "lost"]
        /\ UNCHANGED <<pump, pair, claimed>>
    BY <1>6 DEF Transport, Breaks, Closes, Connected
  <2>2. "local" \in Socks /\ "tcp" \in Socks
    BY DEF Socks
  <2> QED BY <2>1, <2>2
<1>7. ASSUME NEW s \in Socks, Pump(s) PROVE Places'
  <2>1. /\ UNCHANGED <<transport, pair, claimed>>
        /\ pump[s] \notin PumpOver \cup {"none"}
        /\ \E p \in {"reading", "draining"} \cup PumpOver : pump' = [pump EXCEPT ![s] = p]
    <3>1. CASE ReadChunk(s) \/ Drained(s)
      BY <3>1 DEF ReadChunk, Drained
    <3>2. CASE PumpDone(s) \/ PumpFails(s) \/ PumpCancelled(s)
      BY <3>2 DEF PumpDone, PumpFails, PumpCancelled, Ends
    <3> QED BY <1>7, <3>1, <3>2 DEF Pump
  <2> QED BY <2>1
<1>8. CASE UNCHANGED bridgeVars
  BY <1>8 DEF bridgeVars
<1> QED BY <1>1, <1>2, <1>3, <1>4, <1>5, <1>6, <1>7, <1>8 DEF Next, Exit
-----------------------------------------------------------------------------
(* The bytes on their way *)

\* A step that moves no byte, and gives no write buffer back that was closed.
LEMMA FlightFrame ==
  ASSUME NEW s \in Socks, Runs(s), Gapless(s), UNCHANGED <<sent, got, inbox, outbox>>,
         (Takes(Other(s)) \/ transport[Other(s)] = "none")'
           => Takes(Other(s)) \/ transport[Other(s)] = "none"
  PROVE  Runs(s)' /\ Gapless(s)'
<1>1. Runs(s)'
  BY DEF Runs
<1>2. InFlight(s)' = InFlight(s)
  BY DEF InFlight
<1> QED BY <1>1, <1>2 DEF Gapless

LEMMA CloseKeepsFlight ==
  ASSUME BridgeInv, NEW ss \in SUBSET Socks, Close(ss),
         UNCHANGED <<sent, got, inbox, outbox>>, NEW s \in Socks
  PROVE  Runs(s)' /\ Gapless(s)'
<1>1. transport'[Other(s)] \in {transport[Other(s)], "closing"}
  BY Sides DEF Close
<1>2. /\ transport'[Other(s)] = "none" <=> transport[Other(s)] = "none"
      /\ transport'[Other(s)] = "open" => transport[Other(s)] = "open"
      /\ transport'[Other(s)] = "closing" => transport[Other(s)] \in {"open", "closing"}
  BY Sides DEF Close
<1> QED BY <1>2, FlightFrame DEF BridgeInv, Takes

\* What is on its way, as numbers.
FlightIs(s, i, o, g) ==
  /\ i \in Nat /\ o \in Nat /\ g \in Nat
  /\ Len(inbox[s]) = i /\ Len(outbox[Other(s)]) = o /\ Len(got[Other(s)]) = g

LEMMA FlightSum ==
  ASSUME NEW s, NEW i, NEW o, NEW g, FlightIs(s, i, o, g)
  PROVE  InFlight(s) = g + o + i /\ InFlight(s) \in Nat
BY DEF FlightIs, InFlight

LEMMA FlightSumNext ==
  ASSUME NEW s, NEW i, NEW o, NEW g, FlightIs(s, i, o, g)'
  PROVE  InFlight(s)' = g + o + i
BY DEF FlightIs, InFlight

LEMMA FlightTypes ==
  ASSUME BridgeInv, NEW s \in Socks
  PROVE  /\ Other(s) \in Socks /\ Runs(s) /\ Gapless(s) /\ sent[s] \in Nat
         /\ inbox[s] \in Seq(Nat) /\ outbox[Other(s)] \in Seq(Nat)
         /\ got[Other(s)] \in Seq(Nat)
         /\ \A k \in 1..Len(inbox[s]) : inbox[s][k] \in Nat
         /\ \E i, o, g \in Nat : FlightIs(s, i, o, g)
<1>1. /\ Other(s) \in Socks /\ Runs(s) /\ Gapless(s) /\ sent[s] \in Nat
      /\ inbox[s] \in Seq(Nat) /\ outbox[Other(s)] \in Seq(Nat)
      /\ got[Other(s)] \in Seq(Nat)
  BY Sides DEF BridgeInv, Types
<1>2. /\ Len(inbox[s]) \in Nat /\ Len(outbox[Other(s)]) \in Nat
      /\ Len(got[Other(s)]) \in Nat
  BY <1>1
<1>3. \A k \in 1..Len(inbox[s]) : inbox[s][k] \in Nat
  BY <1>1
<1> QED BY <1>1, <1>2, <1>3 DEF FlightIs

\* A byte that s sends is behind those that are on their way.
LEMMA SendsFlight ==
  ASSUME BridgeInv, NEW s \in Socks, PeerSends(s)
  PROVE  /\ Runs(s)' /\ Gapless(s)'
         /\ InFlight(s) = sent[s] => InFlight(s)' = sent'[s]
<1>1. PICK i \in Nat, o \in Nat, g \in Nat : FlightIs(s, i, o, g)
  BY FlightTypes
<1>2. PICK n \in Nat : n = sent[s]
  BY FlightTypes
<1>3. /\ inbox'[s] = Append(inbox[s], n + 1) /\ sent'[s] = n + 1
      /\ UNCHANGED <<got, outbox, transport>>
  BY <1>2 DEF PeerSends, writeVars, BridgeInv, Types
<1>4. /\ Len(inbox'[s]) = i + 1 /\ inbox'[s][i + 1] = n + 1
      /\ \A k \in 1..i : inbox'[s][k] = inbox[s][k]
  BY <1>1, <1>3, FlightTypes DEF FlightIs
<1>5. \A k \in 1..(i + 1) : inbox'[s][k] + (i + 1) = (n + 1) + k
  <2> SUFFICES ASSUME NEW k \in 1..(i + 1)
               PROVE  inbox'[s][k] + (i + 1) = (n + 1) + k
    OBVIOUS
  <2>1. CASE k = i + 1
    BY <1>4, <2>1
  <2>2. CASE k \in 1..i
    <3>1. PICK b \in Nat : b = inbox[s][k]
      BY <1>1, <2>2, FlightTypes DEF FlightIs
    <3>2. b + i = n + k
      BY <1>1, <1>2, <2>2, <3>1, FlightTypes DEF FlightIs, Runs
    <3>3. inbox'[s][k] = b
      BY <1>4, <2>2, <3>1
    <3> QED BY <3>2, <3>3
  <2> QED BY <2>1, <2>2
<1>6. Runs(s)'
  BY <1>3, <1>4, <1>5, FlightTypes DEF Runs
<1>7. FlightIs(s, i + 1, o, g)'
  BY <1>1, <1>3, <1>4 DEF FlightIs
<1>8. InFlight(s) = g + o + i /\ InFlight(s)' = g + o + (i + 1)
  BY <1>1, <1>7, FlightSum, FlightSumNext
<1> QED BY <1>2, <1>3, <1>6, <1>8, FlightTypes DEF Gapless, Takes

\* A byte the other peer reads is the next one.
LEMMA ReadsFlight ==
  ASSUME BridgeInv, NEW s \in Socks, PeerReads(Other(s))
  PROVE  Runs(s)' /\ Gapless(s)' /\ InFlight(s)' = InFlight(s)
<1> DEFINE d == Other(s)
<1>1. PICK i \in Nat, o \in Nat, g \in Nat : FlightIs(s, i, o, g)
  BY FlightTypes
<1>2. /\ outbox[d] # <<>> /\ UNCHANGED <<sent, inbox, transport>>
      /\ got'[d] = Append(got[d], Head(outbox[d])) /\ outbox'[d] = Tail(outbox[d])
  BY FlightTypes DEF PeerReads, readVars, BridgeInv, Types
<1>3. /\ Len(got'[d]) = g + 1 /\ got'[d][g + 1] = outbox[d][1]
      /\ \A k \in 1..g : got'[d][k] = got[d][k]
  BY <1>1, <1>2, FlightTypes DEF FlightIs
<1>4. /\ o >= 1 /\ Len(outbox'[d]) = o - 1
      /\ \A k \in 1..(o - 1) : outbox'[d][k] = outbox[d][k + 1]
  BY <1>1, <1>2, FlightTypes DEF FlightIs
<1>5. /\ \A k \in 1..g : got[d][k] = k
      /\ \A k \in 1..o : outbox[d][k] = g + k
  BY <1>1, FlightTypes DEF FlightIs, Runs
<1>6. \A k \in 1..(g + 1) : got'[d][k] = k
  <2>1. outbox[d][1] = g + 1
    BY <1>4, <1>5
  <2>2. \A k \in 1..g : got'[d][k] = k
    BY <1>3, <1>5
  <2> QED BY <1>3, <2>1, <2>2
<1>7. \A k \in 1..(o - 1) : outbox'[d][k] = (g + 1) + k
  <2> SUFFICES ASSUME NEW k \in 1..(o - 1) PROVE outbox'[d][k] = (g + 1) + k
    OBVIOUS
  <2>1. k + 1 \in 1..o
    OBVIOUS
  <2>2. outbox[d][k + 1] = g + (k + 1)
    BY <1>5, <2>1
  <2> QED BY <1>4, <2>2
<1>8. Runs(s)'
  BY <1>2, <1>3, <1>4, <1>6, <1>7, FlightTypes DEF Runs
<1>9. FlightIs(s, i, o - 1, g + 1)'
  BY <1>1, <1>2, <1>3, <1>4 DEF FlightIs
<1>10. InFlight(s) = g + o + i /\ InFlight(s)' = (g + 1) + (o - 1) + i
  BY <1>1, <1>9, FlightSum, FlightSumNext
<1>11. Takes(d)' => Takes(d)
  BY <1>2 DEF Takes
<1>12. InFlight(s)' = InFlight(s)
  BY <1>10
<1> QED BY <1>2, <1>8, <1>11, <1>12, FlightTypes DEF Gapless

\* What is lost with a connection leaves its buffer empty.
LEMMA BreaksFlight ==
  ASSUME BridgeInv, NEW s \in Socks, Breaks(Other(s))
  PROVE  Runs(s)' /\ Gapless(s)'
<1> DEFINE d == Other(s)
<1>1. PICK i \in Nat, o \in Nat, g \in Nat : FlightIs(s, i, o, g)
  BY FlightTypes
<1>2. /\ outbox'[d] = <<>> /\ transport'[d] = "lost"
      /\ UNCHANGED <<sent, inbox, got>>
  BY FlightTypes DEF Breaks, peerVars, BridgeInv, Types
<1>3. Len(outbox'[d]) = 0
  BY <1>2
<1>4. Runs(s)'
  BY <1>2, <1>3, FlightTypes DEF Runs
<1>5. FlightIs(s, i, 0, g)'
  BY <1>1, <1>2, <1>3 DEF FlightIs
<1>6. InFlight(s) = g + o + i /\ InFlight(s)' = g + 0 + i
  BY <1>1, <1>5, FlightSum, FlightSumNext
<1> QED BY <1>2, <1>4, <1>6, FlightTypes DEF Gapless, Takes

\* The byte a pump moves is the next one for the write buffer, if that takes it.
LEMMA ChunkFlight ==
  ASSUME BridgeInv, NEW s \in Socks, ReadChunk(s)
  PROVE  Runs(s)' /\ Gapless(s)' /\ (Takes(Other(s)) => InFlight(s)' = InFlight(s))
<1> DEFINE d == Other(s)
<1>1. PICK i \in Nat, o \in Nat, g \in Nat : FlightIs(s, i, o, g)
  BY FlightTypes
<1>2. PICK n \in Nat : n = sent[s]
  BY FlightTypes
<1>3. /\ inbox[s] # <<>> /\ inbox'[s] = Tail(inbox[s])
      /\ outbox'[d] = IF Takes(d) THEN Append(outbox[d], Head(inbox[s])) ELSE outbox[d]
      /\ UNCHANGED <<sent, got, transport>>
  BY FlightTypes DEF ReadChunk, peerVars, BridgeInv, Types
<1>4. /\ i >= 1 /\ Len(inbox'[s]) = i - 1
      /\ \A k \in 1..(i - 1) : inbox'[s][k] = inbox[s][k + 1]
  BY <1>1, <1>3, FlightTypes DEF FlightIs
<1>5. \A k \in 1..i : inbox[s][k] \in Nat /\ inbox[s][k] + i = n + k
  BY <1>1, <1>2, FlightTypes DEF FlightIs, Runs
<1>6. \A k \in 1..(i - 1) : inbox'[s][k] + (i - 1) = n + k
  <2> SUFFICES ASSUME NEW k \in 1..(i - 1) PROVE inbox'[s][k] + (i - 1) = n + k
    OBVIOUS
  <2>1. k + 1 \in 1..i
    OBVIOUS
  <2>2. PICK b \in Nat : b = inbox[s][k + 1] /\ b + i = n + (k + 1)
    BY <1>5, <2>1
  <2>3. inbox'[s][k] = b
    BY <1>4, <2>2
  <2> QED BY <2>2, <2>3
<1>7. transport[d] # "none"
  BY FlightTypes DEF BridgeInv, Places, ReadChunk, Socks
<1>8. CASE Takes(d)
  <2>1. /\ Len(outbox'[d]) = o + 1 /\ outbox'[d][o + 1] = inbox[s][1]
        /\ \A k \in 1..o : outbox'[d][k] = outbox[d][k]
    BY <1>1, <1>3, <1>8, FlightTypes DEF FlightIs
  <2>2. FlightIs(s, i - 1, o + 1, g)'
    BY <1>1, <1>3, <1>4, <2>1 DEF FlightIs
  <2>3. InFlight(s) = g + o + i /\ InFlight(s)' = g + (o + 1) + (i - 1)
    BY <1>1, <2>2, FlightSum, FlightSumNext
  <2>4. g + o + i = n
    BY <1>2, <1>8, <2>3, FlightTypes DEF Gapless
  <2>5. PICK b \in Nat : b = inbox[s][1] /\ b + i = n + 1
    BY <1>4, <1>5
  <2>6. b = g + (o + 1)
    BY <2>4, <2>5
  <2>7. \A k \in 1..o : outbox[d][k] = g + k
    BY <1>1, FlightTypes DEF FlightIs, Runs
  <2>8. \A k \in 1..(o + 1) : outbox'[d][k] = g + k
    <3>1. outbox'[d][o + 1] = g + (o + 1)
      BY <2>1, <2>5, <2>6
    <3>2. \A k \in 1..o : outbox'[d][k] = g + k
      BY <2>1, <2>7
    <3> QED BY <3>1, <3>2
  <2>9. /\ Len(got'[d]) = g /\ sent'[s] = n
        /\ \A k \in 1..g : got'[d][k] = k
    BY <1>1, <1>2, <1>3, FlightTypes DEF FlightIs, Runs
  <2>10. Runs(s)'
    BY <1>4, <1>6, <2>1, <2>8, <2>9 DEF Runs
  <2>11. InFlight(s)' = InFlight(s)
    BY <2>3
  <2> QED BY <1>3, <1>8, <2>10, <2>11, FlightTypes DEF Gapless
<1>9. CASE ~Takes(d)
  <2>1. UNCHANGED <<got, transport, sent>> /\ outbox'[d] = outbox[d]
    BY <1>3, <1>9
  <2>2. Runs(s)'
    BY <1>2, <1>4, <1>6, <2>1, FlightTypes DEF Runs
  <2>3. FlightIs(s, i - 1, o, g)'
    BY <1>1, <1>4, <2>1 DEF FlightIs
  <2>4. InFlight(s) = g + o + i /\ InFlight(s)' = g + o + (i - 1)
    BY <1>1, <2>3, FlightSum, FlightSumNext
  <2>5. ~Takes(d)'
    BY <1>9, <2>1 DEF Takes
  <2>6. g + o + i <= n
    BY <1>2, <2>4, FlightTypes DEF Gapless
  <2>7. InFlight(s)' <= sent'[s]
    BY <1>2, <2>1, <2>4, <2>6
  <2>8. (transport[d] # "none")'
    BY <1>7, <2>1
  <2>9. Gapless(s)'
    BY <2>5, <2>7, <2>8 DEF Gapless
  <2> QED BY <1>9, <2>2, <2>9
<1> QED BY <1>8, <1>9
\* A step of the peers or the pumps of the one direction leaves the other alone.
LEMMA StepFlight ==
  ASSUME BridgeInv, [Next]_bridgeVars, NEW s \in Socks
  PROVE  Runs(s)' /\ Gapless(s)'
<1> USE DEF peerVars, readVars, writeVars, taskVars, dialVars
<1>0. Runs(s) /\ Gapless(s) /\ Other(s) \in Socks /\ Types
  BY FlightTypes DEF BridgeInv
<1>1. CASE UNCHANGED <<transport, sent, got, inbox, outbox>>
  BY <1>0, <1>1, FlightFrame DEF Takes
<1>2. CASE Dial \/ RefuseDial \/ PairEnds \/ PairOver \/ ExitBegins \/ ServerClosed
             \/ TcpClosed \/ UNCHANGED bridgeVars
  BY <1>1, <1>2 DEF Dial, RefuseDial, PairEnds, PairOver, ExitBegins, ServerClosed,
                    TcpClosed, bridgeVars
<1>3. CASE Claim
  <2>1. /\ transport' = [transport EXCEPT !["local"] = "open"]
        /\ transport["local"] = "none" /\ UNCHANGED <<sent, got, inbox, outbox>>
    BY <1>3 DEF Claim, BridgeInv, Places
  <2>2. transport' \in [Socks -> {"none", "open", "closing", "lost"}]
    BY <1>0, <2>1 DEF Types, Socks
  <2> QED BY <1>0, <2>1, <2>2, FlightFrame DEF Takes, Types
<1>4. CASE PairCloses \/ ChannelClosed
  <2>1. PICK ss \in SUBSET Socks : Close(ss)
    BY <1>4 DEF PairCloses, ChannelClosed, Socks
  <2>2. UNCHANGED <<sent, got, inbox, outbox>>
    BY <1>4 DEF PairCloses, ChannelClosed
  <2> QED BY <2>1, <2>2, CloseKeepsFlight
<1>5. ASSUME NEW t \in Socks, PeerSends(t) PROVE Runs(s)' /\ Gapless(s)'
  <2>1. CASE t = s
    BY <1>5, <2>1, SendsFlight
  <2>2. CASE t # s
    <3>1. /\ inbox'[s] = inbox[s] /\ sent'[s] = sent[s]
          /\ UNCHANGED <<got, outbox, transport>>
      BY <1>0, <1>5, <2>2 DEF PeerSends, Types
    <3> QED BY <1>0, <3>1 DEF Runs, Gapless, InFlight, Takes
  <2> QED BY <2>1, <2>2
<1>6. ASSUME NEW t \in Socks, PeerEnds(t) \/ PeerGoes(t) PROVE Runs(s)' /\ Gapless(s)'
  BY <1>1, <1>6 DEF PeerEnds, PeerGoes
<1>7. ASSUME NEW t \in Socks, PeerReads(t) PROVE Runs(s)' /\ Gapless(s)'
  <2>1. CASE t = Other(s)
    BY <1>7, <2>1, ReadsFlight
  <2>2. CASE t # Other(s)
    <3>1. /\ got'[Other(s)] = got[Other(s)] /\ outbox'[Other(s)] = outbox[Other(s)]
          /\ UNCHANGED <<sent, inbox, transport>>
      BY <1>0, <1>7, <2>2 DEF PeerReads, Types
    <3> QED BY <1>0, <3>1 DEF Runs, Gapless, InFlight, Takes
  <2> QED BY <2>1, <2>2
<1>8. ASSUME NEW t \in Socks, Breaks(t) PROVE Runs(s)' /\ Gapless(s)'
  <2>1. CASE t = Other(s)
    BY <1>8, <2>1, BreaksFlight
  <2>2. CASE t # Other(s)
    <3>1. /\ transport'[Other(s)] = transport[Other(s)]
          /\ outbox'[Other(s)] = outbox[Other(s)] /\ UNCHANGED <<sent, inbox, got>>
      BY <1>0, <1>8, <2>2 DEF Breaks, Types
    <3> QED BY <1>0, <3>1 DEF Runs, Gapless, InFlight, Takes
  <2> QED BY <2>1, <2>2
<1>9. ASSUME NEW t \in Socks, Closes(t) PROVE Runs(s)' /\ Gapless(s)'
  <2>1. transport'[Other(s)] \in {transport[Other(s)], "lost"}
    BY <1>0, <1>9 DEF Closes, Types
  <2>2. UNCHANGED <<sent, got, inbox, outbox>>
    BY <1>9 DEF Closes
  <2> QED BY <1>0, <2>1, <2>2, FlightFrame DEF Takes
<1>10. ASSUME NEW t \in Socks, ReadChunk(t) PROVE Runs(s)' /\ Gapless(s)'
  <2>1. CASE t = s
    BY <1>10, <2>1, ChunkFlight
  <2>2. CASE t # s
    <3>1. t = Other(s) /\ Other(t) = s /\ Other(s) # s
      BY <2>2, Sides
    <3>2. /\ inbox'[s] = inbox[s] /\ outbox'[Other(s)] = outbox[Other(s)]
          /\ UNCHANGED <<sent, got, transport>>
      BY <1>0, <1>10, <3>1 DEF ReadChunk, Types
    <3> QED BY <1>0, <3>2 DEF Runs, Gapless, InFlight, Takes
  <2> QED BY <2>1, <2>2
<1>11. ASSUME NEW t \in Socks,
              Drained(t) \/ PumpDone(t) \/ PumpFails(t) \/ PumpCancelled(t)
       PROVE  Runs(s)' /\ Gapless(s)'
  BY <1>1, <1>11 DEF Drained, PumpDone, PumpFails, PumpCancelled, Ends
<1> QED BY <1>2, <1>3, <1>4, <1>5, <1>6, <1>7, <1>8, <1>9, <1>10, <1>11
           DEF Next, Handler, Pair, Exit, Transport, Pump
-----------------------------------------------------------------------------
(* While nothing is broken *)

\* What is broken stays broken.
LEMMA UnbrokenBefore ==
  ASSUME BridgeInv, [Next]_bridgeVars, ~Broken'
  PROVE  /\ ~Broken /\ exit = "serving" /\ exit' = "serving"
         /\ \A s \in Socks : /\ peer[s] # "gone" /\ peer'[s] # "gone"
                             /\ InFlight(s) = sent[s] /\ Quiet(s)
<1> USE DEF peerVars, readVars, writeVars, taskVars, dialVars
<1>1. exit' = "serving" /\ \A s \in Socks : peer'[s] # "gone"
  BY DEF Broken
<1>2. exit = "serving"
  BY <1>1 DEF Next, Dial, Handler, Claim, RefuseDial, Pair, PairEnds, PairCloses,
       PairOver, ExitBegins, Exit, ChannelClosed, ServerClosed, TcpClosed, PeerSends,
       PeerEnds, PeerGoes, PeerReads, Transport, Breaks, Closes, Pump, ReadChunk,
       Drained, PumpDone, PumpFails, PumpCancelled, Ends, bridgeVars
<1>3. ASSUME NEW s \in Socks PROVE peer[s] # "gone"
  <2>1. CASE peer' = peer
    BY <1>1, <2>1
  <2>2. ASSUME NEW t \in Socks, PeerEnds(t) \/ PeerGoes(t) PROVE peer[s] # "gone"
    BY <1>1, <2>2 DEF PeerEnds, PeerGoes, BridgeInv, Types
  <2> QED
    BY <2>1, <2>2 DEF Next, Dial, Handler, Claim, RefuseDial, Pair, PairEnds, PairCloses,
         PairOver, ExitBegins, Exit, ChannelClosed, ServerClosed, TcpClosed, PeerSends,
         PeerReads, Transport, Breaks, Closes, Pump, ReadChunk, Drained, PumpDone,
         PumpFails, PumpCancelled, Ends, bridgeVars
<1> QED BY <1>1, <1>2, <1>3 DEF Broken, BridgeInv

\* A pump that reads writes into a buffer that takes it, so that nothing is lost.
LEMMA StepWhole ==
  ASSUME BridgeInv, [Next]_bridgeVars, ~Broken', NEW s \in Socks
  PROVE  InFlight(s)' = sent'[s]
<1> USE DEF peerVars, readVars, writeVars, taskVars, dialVars
<1>0. InFlight(s) = sent[s] /\ Other(s) \in Socks /\ Types
  BY UnbrokenBefore, FlightTypes DEF BridgeInv
<1>1. CASE UNCHANGED <<sent, got, inbox, outbox>>
  BY <1>0, <1>1 DEF InFlight
<1>2. CASE Dial \/ Handler \/ Pair \/ ExitBegins \/ Exit \/ UNCHANGED bridgeVars
  BY <1>1, <1>2 DEF Dial, Handler, Claim, RefuseDial, Pair, PairEnds, PairCloses,
       PairOver, ExitBegins, Exit, ChannelClosed, ServerClosed, TcpClosed, bridgeVars
<1>3. ASSUME NEW t \in Socks, PeerSends(t) PROVE InFlight(s)' = sent'[s]
  <2>1. CASE t = s
    BY <1>0, <1>3, <2>1, SendsFlight
  <2>2. CASE t # s
    BY <1>0, <1>3, <2>2 DEF PeerSends, Types, InFlight
  <2> QED BY <2>1, <2>2
<1>4. ASSUME NEW t \in Socks, PeerReads(t) PROVE InFlight(s)' = sent'[s]
  <2>1. CASE t = Other(s)
    BY <1>0, <1>4, <2>1, ReadsFlight DEF PeerReads
  <2>2. CASE t # Other(s)
    BY <1>0, <1>4, <2>2 DEF PeerReads, Types, InFlight
  <2> QED BY <2>1, <2>2
<1>5. ASSUME NEW t \in Socks, ReadChunk(t) PROVE InFlight(s)' = sent'[s]
  <2>1. CASE t = s
    <3>1. transport[Other(s)] # "none"
      BY <1>0, <1>5, <2>1 DEF BridgeInv, Places, ReadChunk, Socks
    <3>2. transport[Other(s)] \notin {"closing", "lost"}
      BY <1>0, <1>5, <2>1, UnbrokenBefore DEF ReadChunk, Quiet
    <3>3. Takes(Other(s))
      BY <1>0, <3>1, <3>2 DEF Types, Takes
    <3> QED BY <1>0, <1>5, <2>1, <3>3, ChunkFlight DEF ReadChunk
  <2>2. CASE t # s
    <3>1. t = Other(s) /\ Other(t) = s /\ Other(s) # s
      BY <2>2, Sides
    <3> QED BY <1>0, <1>5, <3>1 DEF ReadChunk, Types, InFlight
  <2> QED BY <2>1, <2>2
<1>6. ASSUME NEW t \in Socks, Transport(t) PROVE InFlight(s)' = sent'[s]
  <2>1. Closes(t)
    BY <1>6, UnbrokenBefore DEF Transport, Breaks
  <2> QED BY <1>1, <2>1 DEF Closes
<1>7. ASSUME NEW t \in Socks,
             PeerEnds(t) \/ PeerGoes(t) \/ Drained(t) \/ PumpDone(t) \/ PumpFails(t)
               \/ PumpCancelled(t)
      PROVE  InFlight(s)' = sent'[s]
  BY <1>1, <1>7 DEF PeerEnds, PeerGoes, Drained, PumpDone, PumpFails, PumpCancelled, Ends
<1> QED BY <1>2, <1>3, <1>4, <1>5, <1>6, <1>7 DEF Next, Pump

LEMMA StepQuiet ==
  ASSUME BridgeInv, [Next]_bridgeVars, ~Broken', NEW s \in Socks
  PROVE  Quiet(s)'
<1> DEFINE d == Other(s)
<1> USE DEF peerVars, readVars, writeVars, taskVars, dialVars
<1>0. /\ d \in Socks /\ d # s /\ Other(d) = s /\ \A t \in Socks : t = s \/ t = d
      /\ Types /\ Places
  BY Sides DEF BridgeInv
<1>1. /\ exit = "serving" /\ exit' = "serving"
      /\ \A t \in Socks : peer[t] # "gone" /\ peer'[t] # "gone" /\ Quiet(t)
  BY UnbrokenBefore
<1>2. CASE Dial \/ RefuseDial \/ PairOver \/ ServerClosed \/ TcpClosed \/ UNCHANGED bridgeVars
  BY <1>1, <1>2 DEF Dial, RefuseDial, PairOver, ServerClosed, TcpClosed, bridgeVars, Quiet
<1>3. CASE Claim
  <2>1. pair = "none" /\ pump[s] = "none"
    BY <1>0, <1>3 DEF Claim, Places
  <2>2. /\ pump'[s] = "reading" /\ pair' = "waiting"
        /\ transport'[s] \in {transport[s], "open"}
        /\ UNCHANGED <<peerVars, readVars, writeVars>>
    BY <1>0, <1>3 DEF Claim, Types
  <2> QED BY <1>1, <2>1, <2>2 DEF Quiet
<1>4. CASE PairEnds
  <2>1. pump[s] = "done"
    BY <1>0, <1>1, <1>4 DEF PairEnds, Quiet
  <2>2. pump'[s] = "done" /\ pair' = "ending" /\ pair = "waiting"
    BY <1>0, <1>4, <2>1 DEF PairEnds, CancelPumps, PumpOver
  <2> QED BY <1>1, <1>4, <2>1, <2>2 DEF PairEnds, Quiet
<1>5. CASE PairCloses
  BY <1>1, <1>5 DEF PairCloses, Quiet
<1>6. CASE ExitBegins \/ ChannelClosed
  BY <1>1, <1>6 DEF ExitBegins, ChannelClosed
<1>7. ASSUME NEW t \in Socks, PeerSends(t) PROVE Quiet(s)'
  <2>1. inbox' = [inbox EXCEPT ![t] = Append(inbox[t], sent[t] + 1)] /\ end[t] = "more"
    BY <1>7 DEF PeerSends, Reads
  <2>2. t = s => pump[s] # "done"
    BY <1>1, <2>1 DEF Quiet
  <2>3. t # s => inbox'[s] = inbox[s]
    BY <1>0, <2>1 DEF Types
  <2> QED BY <1>1, <1>7, <2>2, <2>3 DEF PeerSends, Quiet
<1>8. ASSUME NEW t \in Socks, PeerEnds(t) PROVE Quiet(s)'
  <2>1. CASE t = s
    <3>1. peer'[s] = "half" /\ end'[s] \in {end[s], "eof"} /\ end[s] # "eof"
      BY <1>0, <1>1, <1>8, <2>1 DEF PeerEnds, Types, Quiet
    <3> QED BY <1>1, <1>8, <3>1 DEF PeerEnds, Quiet
  <2>2. CASE t # s
    <3>1. peer'[s] = peer[s] /\ end'[s] = end[s]
      BY <1>0, <1>8, <2>2 DEF PeerEnds, Types
    <3> QED BY <1>1, <1>8, <3>1 DEF PeerEnds, Quiet
  <2> QED BY <2>1, <2>2
<1>9. ASSUME NEW t \in Socks, PeerGoes(t) PROVE FALSE
  BY <1>0, <1>1, <1>9 DEF PeerGoes, Types
<1>10. ASSUME NEW t \in Socks, PeerReads(t) PROVE Quiet(s)'
  <2>1. CASE t = d
    <3>1. /\ outbox[d] # <<>> /\ outbox'[d] = Tail(outbox[d]) /\ outbox[d] \in Seq(Nat)
          /\ gotEof'[d] = (gotEof[d] \/ (outEof[d] /\ Len(outbox[d]) = 1))
      BY <1>0, <1>10, <2>1 DEF PeerReads, Types
    <3>2. Len(outbox[d]) = 1 => Tail(outbox[d]) = <<>>
      <4> SUFFICES ASSUME Len(outbox[d]) = 1 PROVE Tail(outbox[d]) = <<>>
        OBVIOUS
      <4>1. Tail(outbox[d]) \in Seq(Nat) /\ Len(Tail(outbox[d])) = 0
        BY <3>1, HeadTailProperties
      <4> QED BY <4>1, EmptySeq
    <3> QED BY <1>1, <1>10, <3>1, <3>2 DEF PeerReads, Quiet
  <2>2. CASE t # d
    <3>1. gotEof'[d] = gotEof[d] /\ outbox'[d] = outbox[d]
      BY <1>0, <1>10, <2>2 DEF PeerReads, Types
    <3> QED BY <1>1, <1>10, <3>1 DEF PeerReads, Quiet
  <2> QED BY <2>1, <2>2
<1>11. ASSUME NEW t \in Socks, Breaks(t) PROVE FALSE
  BY <1>1, <1>11 DEF Breaks
<1>12. ASSUME NEW t \in Socks, Closes(t) PROVE Quiet(s)'
  <2>1. /\ transport[t] = "closing" /\ outbox[t] = <<>>
        /\ pair \in {"closing", "over"} /\ \A b \in Socks : pump[b] = "done"
    BY <1>1, <1>12 DEF Closes, Quiet
  <2>2. end[s] = "eof" /\ end'[s] = "eof"
    BY <1>0, <1>1, <1>12, <2>1 DEF Closes, Types, Quiet
  <2>3. gotEof'[d] => gotEof[d] \/ outbox[d] = <<>>
    BY <1>0, <1>12, <2>1 DEF Closes, Types
  <2> QED BY <1>1, <1>12, <2>1, <2>2, <2>3 DEF Closes, Quiet
<1>13. ASSUME NEW t \in Socks, ReadChunk(t) PROVE Quiet(s)'
  <2>1. pump[t] = "reading" /\ pump'[t] = "draining"
    BY <1>0, <1>13 DEF ReadChunk, Types
  <2>2. CASE t = s
    BY <1>1, <1>13, <2>1, <2>2 DEF ReadChunk, Quiet
  <2>3. CASE t # s
    <3>1. t = d /\ pump'[s] = pump[s] /\ inbox'[s] = inbox[s] /\ outbox'[d] = outbox[d]
      BY <1>0, <1>13, <2>3 DEF ReadChunk, Types
    <3> QED BY <1>1, <1>13, <3>1 DEF ReadChunk, Quiet
  <2> QED BY <2>2, <2>3
<1>14. ASSUME NEW t \in Socks, Drained(t) PROVE Quiet(s)'
  <2>1. pump[t] = "draining" /\ pump'[s] \in {pump[s], "reading"}
        /\ (t = s => pump[s] = "draining") /\ (t # s => pump'[s] = pump[s])
    BY <1>0, <1>14 DEF Drained, Types
  <2> QED BY <1>1, <1>14, <2>1 DEF Drained, Quiet
<1>15. ASSUME NEW t \in Socks, PumpDone(t) PROVE Quiet(s)'
  <2>1. CASE t = s
    <3>1. /\ pump'[s] = "done" /\ inbox[s] = <<>> /\ end[s] = "eof"
          /\ gotEof'[d] => gotEof[d] \/ outbox[d] = <<>>
      BY <1>0, <1>15, <2>1 DEF PumpDone, Ends, Types
    <3> QED BY <1>1, <1>15, <3>1 DEF PumpDone, Ends, Quiet
  <2>2. CASE t # s
    <3>1. /\ t = d /\ Other(t) = s /\ pump'[s] = pump[s]
      BY <1>0, <1>15, <2>2 DEF PumpDone, Ends, Types
    <3>2. gotEof'[d] = gotEof[d] /\ outEof'[d] = outEof[d]
      BY <1>0, <1>15, <3>1 DEF PumpDone, Ends, Types
    <3> QED BY <1>1, <1>15, <3>1, <3>2 DEF PumpDone, Ends, Quiet
  <2> QED BY <2>1, <2>2
<1>16. ASSUME NEW t \in Socks, PumpFails(t) \/ PumpCancelled(t) PROVE FALSE
  <2>1. Other(t) \in Socks
    BY Sides
  <2>2. end[Other(t)] # "exception" /\ end[t] # "exception" /\ pump[t] # "cancelling"
    BY <1>1, <2>1 DEF Quiet
  <2>3. pump[t] = "draining" => transport[Other(t)] # "lost"
    BY <1>1, <2>1 DEF Quiet
  <2> QED BY <1>16, <2>2, <2>3 DEF PumpFails, PumpCancelled
<1> QED BY <1>2, <1>3, <1>4, <1>5, <1>6, <1>7, <1>8, <1>9, <1>10, <1>11, <1>12, <1>13,
           <1>14, <1>15, <1>16 DEF Next, Handler, Pair, Exit, Transport, Pump
-----------------------------------------------------------------------------
(* The theorems *)

LEMMA BridgeInvariant == Spec => []BridgeInv
<1>1. BridgeInv /\ [Next]_bridgeVars => BridgeInv'
  BY StepTypes, StepPlaces, StepFlight, StepWhole, StepQuiet DEF BridgeInv
<1> QED BY InitBridgeInv, <1>1, PTL DEF Spec

\* The numbers in a run are those of chunks that were sent.
LEMMA InvIsTyped == BridgeInv => TypeOK
<1> SUFFICES ASSUME BridgeInv, NEW s \in Socks
             PROVE  /\ sent[s] \in 0..MaxChunks[s]
                    /\ inbox[s] \in Seq(Chunks(s))
                    /\ {outbox[Other(s)], got[Other(s)]} \subseteq Seq(Chunks(s))
  BY DEF BridgeInv, Types, Places, TypeOK
<1>1. PICK i \in Nat, o \in Nat, g \in Nat : FlightIs(s, i, o, g)
  BY FlightTypes
<1>2. PICK n \in Nat : n = sent[s]
  BY FlightTypes
<1>3. PICK m \in Nat : m = MaxChunks[s]
  BY BridgeAssumption DEF BridgeAssumption
<1>4. n <= m /\ g + o + i <= n
  BY <1>1, <1>2, <1>3, FlightSum, FlightTypes DEF BridgeInv, Types, Gapless
<1>5. \A k \in 1..i : inbox[s][k] \in 1..m
  <2> SUFFICES ASSUME NEW k \in 1..i PROVE inbox[s][k] \in 1..m
    OBVIOUS
  <2>1. PICK b \in Nat : b = inbox[s][k] /\ b + i = n + k
    BY <1>1, <1>2, FlightTypes DEF FlightIs, Runs
  <2>2. b \in 1..m
    BY <1>4, <2>1
  <2> QED BY <2>1, <2>2
<1>6. \A k \in 1..o : outbox[Other(s)][k] \in 1..m
  <2> SUFFICES ASSUME NEW k \in 1..o PROVE outbox[Other(s)][k] \in 1..m
    OBVIOUS
  <2>1. outbox[Other(s)][k] = g + k
    BY <1>1, FlightTypes DEF FlightIs, Runs
  <2> QED BY <1>4, <2>1
<1>7. \A k \in 1..g : got[Other(s)][k] \in 1..m
  <2> SUFFICES ASSUME NEW k \in 1..g PROVE got[Other(s)][k] \in 1..m
    OBVIOUS
  <2>1. got[Other(s)][k] = k
    BY <1>1, FlightTypes DEF FlightIs, Runs
  <2> QED BY <1>4, <2>1
<1>8. ASSUME NEW q \in Seq(Nat), NEW l \in Nat, Len(q) = l, \A k \in 1..l : q[k] \in 1..m
      PROVE  q \in Seq(1..m)
  BY <1>8
<1>9. /\ inbox[s] \in Seq(1..m) /\ outbox[Other(s)] \in Seq(1..m)
      /\ got[Other(s)] \in Seq(1..m)
  <2>1. inbox[s] \in Seq(1..m)
    BY <1>1, <1>5, <1>8, FlightTypes DEF FlightIs
  <2>2. outbox[Other(s)] \in Seq(1..m)
    BY <1>1, <1>6, <1>8, FlightTypes DEF FlightIs
  <2>3. got[Other(s)] \in Seq(1..m)
    BY <1>1, <1>7, <1>8, FlightTypes DEF FlightIs
  <2> QED BY <2>1, <2>2, <2>3
<1>10. n \in 0..m
  BY <1>1, <1>4
<1> QED BY <1>2, <1>3, <1>9, <1>10 DEF Chunks

\* The variables of the bridge keep their types: pumps exist exactly from the
\* claim on, and are over when the sockets are waited for.
THEOREM TypeCorrect == Spec => []TypeOK
BY BridgeInvariant, InvIsTyped, PTL

\* What one peer receives is what the other one sent, in order and without a gap,
\* and the end of file comes last, unless the connection broke (_pump, pump_pair,
\* the claim in _on_connect).
THEOREM BytesArriveInOrder == Spec => []BytesInOrder
<1>1. BridgeInv => BytesInOrder
  <2> SUFFICES ASSUME BridgeInv, NEW d \in Socks
               PROVE  /\ Len(got[d]) <= sent[Other(d)]
                      /\ \A k \in 1..Len(got[d]) : got[d][k] = k
                      /\ gotEof[d] /\ ~Broken =>
                           peer[Other(d)] = "half" /\ Len(got[d]) = sent[Other(d)]
    BY DEF BytesInOrder
  <2> DEFINE s == Other(d)
  <2>1. s \in Socks /\ Other(s) = d
    BY Sides
  <2>2. PICK i \in Nat, o \in Nat, g \in Nat : FlightIs(s, i, o, g)
    BY <2>1, FlightTypes
  <2>3. PICK n \in Nat : n = sent[s]
    BY <2>1, FlightTypes
  <2>4. g + o + i <= n /\ InFlight(s) = g + o + i
    <3>1. InFlight(s) = g + o + i
      BY <2>2, FlightSum
    <3>2. InFlight(s) <= n
      BY <2>1, <2>3, FlightTypes DEF Gapless
    <3> QED BY <3>1, <3>2
  <2>5. Len(got[d]) = g /\ \A k \in 1..Len(got[d]) : got[d][k] = k
    BY <2>1, <2>2, FlightTypes DEF FlightIs, Runs
  <2>6. ASSUME gotEof[d], ~Broken PROVE peer[s] = "half" /\ g = n
    <3>1. Quiet(s) /\ InFlight(s) = sent[s]
      BY <2>1, <2>6 DEF BridgeInv
    <3>2. peer[s] = "half" /\ inbox[s] = <<>> /\ outbox[d] = <<>>
      BY <2>1, <2>6, <3>1 DEF Quiet
    <3>3. i = 0 /\ o = 0
      BY <2>1, <2>2, <3>2 DEF FlightIs
    <3> QED BY <2>3, <2>4, <3>1, <3>2, <3>3
  <2> QED BY <2>3, <2>4, <2>5, <2>6
<1> QED BY <1>1, BridgeInvariant, PTL
=============================================================================
