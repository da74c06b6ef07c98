------------------------------ MODULE MCRuleUpdate ------------------------------
(* Small instances of RuleUpdate for TLC. *)
EXTENDS RuleUpdate, TLC

CONSTANTS a1, a2, r1, r2, c1, c2

TwoRules == <<r1, r2>>
OneRule  == <<r1>>

\* An address entered by hand, alone or beside a host object made earlier.
MCInitial == {<<[ip |-> a1, raw |-> TRUE]>>,
              <<[ip |-> a1, raw |-> TRUE], Host(a2)>>}

EmptyRules == {<<>>}

CallerSymmetry == Permutations({c1, c2})
===============================================================================
