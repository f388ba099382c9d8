------------------------------- MODULE MCFanout -------------------------------
(* Instances of Fanout for TLC: three consumers, a short stream. *)
EXTENDS Fanout

CONSTANTS c1, c2, c3

ThreeConsumers == {c1, c2, c3}
=============================================================================
