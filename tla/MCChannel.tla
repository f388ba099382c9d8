------------------------------ MODULE MCChannel ------------------------------
(* Instances of Channel for TLC: two calls of processors, two consumers.      *)
EXTENDS Channel

Calling == {"buffer", "stream", "close"}
=============================================================================
