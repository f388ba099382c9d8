------------------------------- MODULE Whitelist -------------------------------
(***************************************************************************)
(* The set of files the HTTP server may serve (server/whitelist.py): the   *)
(* processor files and what they import, transitively.  Files are paths    *)
(* canonicalised by realpath.  The worklist is a list in the code; here it *)
(* is the set of its members: a path that is in it twice is skipped the    *)
(* second time, and the order of the visits is any.                        *)
(***************************************************************************)
EXTENDS FiniteSets

CONSTANTS
  Files,     \* canonical paths
  Seeds,     \* processor_paths
  Readable,  \* the files that are there and parse as Turtle
  Imports    \* Imports[f]: the file:// documents that f says it imports

VARIABLES
  whitelist,  \* the files found
  todo        \* the paths still to visit

whitelistVars == <<whitelist, todo>>

Init == whitelist = {} /\ todo = Seeds

\* A file that cannot be read or parsed is not followed.
Followed(f) == IF f \in Readable THEN Imports[f] ELSE {}

Skip(f) ==
  /\ f \in todo /\ f \in whitelist
  /\ todo' = todo \ {f}
  /\ UNCHANGED whitelist

\* Mutant: the imports of a file take the place of what was left to do.
VisitForgetting(f) ==
  /\ f \in todo /\ f \notin whitelist
  /\ whitelist' = whitelist \cup {f}
  /\ todo' = Followed(f)

Visit(f) ==
  /\ f \in todo /\ f \notin whitelist
  /\ whitelist' = whitelist \cup {f}
  /\ todo' = (todo \ {f}) \cup Followed(f)

Next == \E f \in todo : Skip(f) \/ Visit(f)

Spec == Init /\ [][Next]_whitelistVars

Built == todo = {}
-----------------------------------------------------------------------------
\* A set of files with the processor files and all that its readable files import.
Closed(S) ==
  /\ Seeds \subseteq S
  /\ \A f \in S : Followed(f) \subseteq S

\* Nothing is ever whitelisted, or about to be, that need not be: it is in every
\* closed set.
OnlyImported == \A S \in SUBSET Files : Closed(S) => whitelist \cup todo \subseteq S

\* When the loop is over the whitelist is the least closed set: the files that
\* can be reached through the imports of readable files, cycles or not.
ExactlyImported ==
  Built => /\ Closed(whitelist)
           /\ \A S \in SUBSET Files : Closed(S) => whitelist \subseteq S
=============================================================================
