------------------------------- MODULE MCReader -------------------------------
(* Instances of Reader for TLC: two consumers, two messages. *)
EXTENDS Reader

AllKinds == [c \in 1..MaxConsumers |-> {"string", "stream", "buffer"}]

\* A consumer of substreams next to one that collects them or cannot use them.
MixedKinds == <<{"string", "buffer"}, {"stream"}>>
=============================================================================
