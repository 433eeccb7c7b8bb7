---------------------------- MODULE MCSessionRisk ----------------------------
(* Instances of SessionRisk for TLC. *)
EXTENDS SessionRisk, TLC

Symmetry == Permutations(Reports) \cup Permutations(Requests)

=============================================================================
