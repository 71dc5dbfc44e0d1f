---------------------------- MODULE MCAgentEdits ----------------------------
(* Small instances of AgentEdits for TLC. *)
EXTENDS AgentEdits, TLC

(* Calls, parts and texts are interchangeable. *)
Symmetry == Permutations(Agents) \cup Permutations(Parts) \cup Permutations(Texts)
=============================================================================
