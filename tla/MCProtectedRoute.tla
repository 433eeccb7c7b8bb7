-------------------------- MODULE MCProtectedRoute --------------------------
(* Instances of ProtectedRoute for TLC. *)
EXTENDS ProtectedRoute, TLC

CONSTANTS k1, k2, pA, pB, t1, admin, writer

Key(kid, pair, private) == [kid |-> kid, pair |-> pair, private |-> private]

\* The key rotation of docs/key-rotation.md, and two configurations with a
\* mistake: a kid used twice, and an active key without its private part.
Before == [keys |-> <<Key(k1, pA, TRUE)>>, activeKid |-> k1, strict |-> FALSE]
Both   == [keys |-> <<Key(k2, pB, TRUE), Key(k1, pA, FALSE)>>, activeKid |-> k2, strict |-> TRUE]
After  == [keys |-> <<Key(k2, pB, TRUE)>>, activeKid |-> k2, strict |-> TRUE]
Twice  == [keys |-> <<Key(k1, pB, FALSE), Key(k1, pA, TRUE)>>, activeKid |-> k1, strict |-> TRUE]
Public == [keys |-> <<Key(k2, pB, FALSE), Key(k1, pA, TRUE)>>, activeKid |-> k2, strict |-> TRUE]

MCConfigs == {Before, Both, After, Twice, Public}

\* requireAdmin, then requirePermission("writer").
MCRoute == <<[any |-> TRUE, need |-> {admin}, admin |-> TRUE],
             [any |-> FALSE, need |-> {writer}, admin |-> FALSE]>>

\* An administrator, one without the permission, and a user with another role.
MCClaims == {[granted |-> {admin, writer}, tenants |-> {t1}, admin |-> TRUE],
             [granted |-> {admin}, tenants |-> {t1}, admin |-> TRUE],
             [granted |-> {admin, writer}, tenants |-> {t1}, admin |-> FALSE]}

Symmetry == Permutations(Sinks)

=============================================================================
