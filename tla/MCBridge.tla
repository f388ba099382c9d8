------------------------------- MODULE MCBridge -------------------------------
(* An instance of Bridge for TLC: two chunks from the orchestrator, so that one *)
(* may hold up a pump, one from gRPC, and one loopback connection at a time.  *)
EXTENDS Bridge

FewChunks == [s \in Socks |-> IF s = "tcp" THEN 2 ELSE 1]
=============================================================================
