------------------------------ MODULE ChunkBarrier ------------------------------
(***************************************************************************)
(* What fanout_stream (src/rdfc_runner/utils.py) promises to the sender of *)
(* a stream and to its consumers, in the words of its docstring: chunks    *)
(* are taken one at a time, each is acked exactly once, and only when      *)
(* every consumer that still takes part has handled it -- unless the       *)
(* barrier was released from the outside, when reading may run one ack     *)
(* ahead.  Once the stream broke there is nobody to ack to, and only the   *)
(* reading goes on.                                                        *)
(***************************************************************************)
EXTENDS Naturals

CONSTANT Consumers

VARIABLES
  taken,     \* chunks read from the source
  acked,     \* acks the sender received
  seen,      \* seen[c]: chunks consumer c finished handling
  gone,      \* consumers that take no part (any more)
  released,  \* the barrier was released from the outside
  broken     \* the stream failed

barrierVars == <<taken, acked, seen, gone, released, broken>>

Init ==
  /\ taken = 0 /\ acked = 0
  /\ seen = [c \in Consumers |-> 0]
  /\ gone \in SUBSET Consumers
  /\ released = FALSE /\ broken = FALSE

\* A release may overtake one ack that is still being written.
Take ==
  /\ acked = taken \/ broken \/ (released /\ taken <= acked + 1)
  /\ taken' = taken + 1
  /\ UNCHANGED <<acked, seen, gone, released, broken>>

Handle(c) ==
  /\ c \notin gone /\ seen[c] < taken
  /\ seen' = [seen EXCEPT ![c] = @ + 1]
  /\ UNCHANGED <<taken, acked, gone, released, broken>>

Leave(c) ==
  /\ gone' = gone \cup {c}
  /\ broken' \in {broken, TRUE}  \* a cancelled ack takes the stream with it
  /\ UNCHANGED <<taken, acked, seen, released>>

Ack ==
  /\ acked < taken /\ ~broken
  /\ released \/ \A c \in Consumers \ gone : seen[c] = taken
  /\ acked' = acked + 1
  /\ UNCHANGED <<taken, seen, gone, released, broken>>

Release ==
  /\ released' = TRUE
  /\ UNCHANGED <<taken, acked, seen, gone, broken>>

Break ==
  /\ broken' = TRUE
  /\ UNCHANGED <<taken, acked, seen, gone, released>>

Next ==
  \/ Take \/ Ack \/ Release \/ Break
  \/ \E c \in Consumers : Handle(c) \/ Leave(c)

Spec == Init /\ [][Next]_barrierVars
=============================================================================
