-------------------------- MODULE IdentityRegistry --------------------------
(***************************************************************************)
(* What the OAuth identity store promises, without its keys and scripts:   *)
(* a provider identity and an e-mail address each belong to at most one    *)
(* user, for good.                                                         *)
(***************************************************************************)
CONSTANTS Users, Identities, Emails, Nobody

VARIABLES
    owner,    \* the user of each provider identity
    account   \* the user of each e-mail address

Known(u) == \E e \in Emails : account[e] = u

\* Whatever was registered before, by users with an address each.
RInit ==
    /\ account \in [Emails -> Users \cup {Nobody}]
    /\ owner \in [Identities -> {u \in Users : Known(u)} \cup {Nobody}]

Create(u, e, p) ==
    /\ ~ Known(u)
    /\ account[e] = Nobody
    /\ owner[p] = Nobody
    /\ account' = [account EXCEPT ![e] = u]
    /\ owner' = [owner EXCEPT ![p] = u]

Link(u, p) ==
    /\ Known(u)
    /\ owner[p] = Nobody
    /\ owner' = [owner EXCEPT ![p] = u]
    /\ UNCHANGED account

RNext ==
    \E u \in Users, p \in Identities :
        Link(u, p) \/ \E e \in Emails : Create(u, e, p)

RSpec == RInit /\ [][RNext]_<<owner, account>>

=============================================================================
