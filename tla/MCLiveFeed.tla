------------------------------ MODULE MCLiveFeed ------------------------------
(* A small instance of LiveFeed for TLC. *)
EXTENDS LiveFeed

CONSTANTS t1, t2, c1, c2
===============================================================================
