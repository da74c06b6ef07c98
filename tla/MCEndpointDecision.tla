--------------------------- MODULE MCEndpointDecision ---------------------------
(* A small instance of EndpointDecision for TLC. *)
EXTENDS EndpointDecision

CONSTANTS a1, a2, n1, n2, net

\* One entry of each type, and one for a hexadecimal name; the range holds a1.
MCMembers == [x \in {net} |-> {a1}]
MCEntries == {[type |-> "IP", value |-> a2], [type |-> "CIDR", value |-> net],
              [type |-> "HOSTNAME", value |-> n1],
              [type |-> "HOSTNAME", value |-> n2]}
===============================================================================
