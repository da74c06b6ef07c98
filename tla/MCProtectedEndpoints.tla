--------------------------- MODULE MCProtectedEndpoints ---------------------------
(* A small instance of ProtectedEndpoints for TLC. *)
EXTENDS ProtectedEndpoints, TLC

CONSTANTS v1, v2, owned, external, h1, h2, c1

MCBodies == {[value |-> v1, category |-> owned, active |-> TRUE],
             [value |-> v2, category |-> external, active |-> FALSE]}

\* An invalid row, and one that is not active.
MCFiles == {<<[value |-> NoValue, category |-> owned, active |-> TRUE],
              [value |-> v2, category |-> owned, active |-> FALSE]>>}

\* v1 in both kinds of sources, an invalid line, and v2 in a file alone.
MCLegacy == <<[value |-> v1, category |-> owned], [value |-> NoValue, category |-> owned],
              [value |-> v1, category |-> external], [value |-> v2, category |-> external]>>

MCOld == {[value |-> v2, category |-> owned, active |-> FALSE]}

Threads == Permutations({h1, h2})
===============================================================================
