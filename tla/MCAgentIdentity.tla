--------------------------- MODULE MCAgentIdentity ---------------------------
(* Instances of AgentIdentity for TLC. *)
EXTENDS AgentIdentity, TLC

Symmetry == Permutations(SessionIds) \cup Permutations(Issues) \cup Permutations(Verifies)

=============================================================================
