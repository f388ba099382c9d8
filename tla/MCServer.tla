------------------------------- MODULE MCServer -------------------------------
(* Instances of Server for TLC: three connections, places for two, and four   *)
(* files: a cycle, one that cannot be read, one that nobody imports.          *)
EXTENDS Server

CONSTANTS index, shared, missing, secret

AllFiles == {index, shared, missing, secret}
ProcessorFiles == {index}
ReadableFiles == {index, shared, secret}
ImportGraph ==
  [f \in AllFiles |-> CASE f = index -> {shared, missing}
                        [] f = shared -> {index}
                        [] f = missing -> {secret}
                        [] f = secret -> {shared}]

\* Smaller than any size, all, none, fewer than there are connections.
Sizes == {-2, 0, 1, 5}
=============================================================================
