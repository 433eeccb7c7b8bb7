---------------------------- MODULE MCUserSessions ----------------------------
(* Instances of UserSessions for TLC. *)
EXTENDS UserSessions, TLC

\* Sessions, and calls of a kind, are interchangeable.
Symmetry ==
    Permutations(Sessions) \cup Permutations(Logins) \cup Permutations(Refreshes)

=============================================================================
