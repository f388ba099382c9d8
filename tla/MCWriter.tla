------------------------------- MODULE MCWriter -------------------------------
(* Instances of Writer for TLC: a few calls on one channel. *)
EXTENDS Writer

AllKinds == {"buffer", "stream", "close", "issued"}
Writes == {"buffer", "stream"}
=============================================================================
