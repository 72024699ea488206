-------------------------- MODULE MCAgentResidency --------------------------
(* Instances of AgentResidency; ids are interchangeable. *)
EXTENDS AgentResidency, TLC

IdSymmetry == Permutations(Ids)
=============================================================================
