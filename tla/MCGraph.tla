-------------------------------- MODULE MCGraph --------------------------------
(***************************************************************************)
(* Every ruleset of a few nodes for TLC.  The order within prereqs->ids is *)
(* that of the ids: it only decides which of several orders is found.      *)
(***************************************************************************)
EXTENDS Graph

MCRulesets ==
  {[t \in Targets |-> SetToSortSeq(P[t], <)] : P \in [Targets -> SUBSET Nodes]}
================================================================================
