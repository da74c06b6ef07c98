----------------------------- MODULE MCConnectivity -----------------------------
(* A small instance of Connectivity for TLC. *)
EXTENDS Connectivity

CONSTANT d1
===============================================================================
