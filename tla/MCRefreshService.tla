--------------------------- MODULE MCRefreshService ---------------------------
(* Instances of RefreshService for TLC. *)
EXTENDS RefreshService, TLC

\* Calls of a kind are interchangeable (used where no liveness is checked).
Symmetry ==
    Permutations(Refreshes) \cup Permutations(Logins) \cup Permutations(Logouts)

=============================================================================
