------------------------------- MODULE MCRunner -------------------------------
(* Instances of Runner for TLC: two processors. *)
EXTENDS Runner

AllStages == {"init", "transform", "produce", "message"}
=============================================================================
