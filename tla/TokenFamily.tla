----------------------------- MODULE TokenFamily -----------------------------
(***************************************************************************)
(* What a refresh-token family promises: at any time at most one token is  *)
(* live; a rotation consumes the live token and makes a fresh one live; a  *)
(* token that was consumed, overwritten or revoked never becomes live      *)
(* again.  RefreshService implements this with a Redis key, a lock that    *)
(* can expire and a compare-and-set script.                                *)
(***************************************************************************)

CONSTANTS Token, NoToken

VARIABLES
    live,       \* the token a refresh would accept, or NoToken
    used,       \* tokens that have been live
    rotations   \* pairs <<consumed token, its successor>>

familyVars == <<live, used, rotations>>

FamilyInit ==
    /\ live = NoToken
    /\ used = {}
    /\ rotations = {}

\* A login puts a fresh token in place of whatever was live.
Issue(t) ==
    /\ t \notin used
    /\ live' = t
    /\ used' = used \cup {t}
    /\ UNCHANGED rotations

\* A refresh consumes the live token.
Succeed(t) ==
    /\ live # NoToken
    /\ t \notin used
    /\ live' = t
    /\ used' = used \cup {t}
    /\ rotations' = rotations \cup {<<live, t>>}

\* Logout, replay, a failed refresh, or expiry.
Revoke ==
    /\ live' = NoToken
    /\ UNCHANGED <<used, rotations>>

FamilyNext ==
    \/ \E t \in Token : Issue(t) \/ Succeed(t)
    \/ Revoke

FamilySpec == FamilyInit /\ [][FamilyNext]_familyVars

=============================================================================
