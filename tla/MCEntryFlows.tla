---------------------------- MODULE MCEntryFlows ----------------------------
(* An instance of EntryFlows for TLC, in which no gateway is special. *)
EXTENDS EntryFlows, TLC

GatewaySymmetry == Permutations(Gateway)
=============================================================================
