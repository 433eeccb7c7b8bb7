--------------------------- MODULE MCOAuthIdentity ---------------------------
(* Instances of OAuthIdentity for TLC. *)
EXTENDS OAuthIdentity, TLC

CONSTANTS p1, p2, p3, e1, E1, e2

Entry(email, primary, verified) ==
    [email |-> email, primary |-> primary, verified |-> verified]

\* E1 and e1 are one mailbox.
MCMailbox == (e1 :> e1) @@ (E1 :> e1) @@ (e2 :> e2)

\* Two identities vouch for one mailbox; two accounts have an address that is
\* not verified, or not any more.
MCAnswers ==
    {[provider |-> "github", identity |-> p1,
      emails |-> <<Entry(e2, FALSE, FALSE), Entry(E1, TRUE, TRUE)>>],
     [provider |-> "github", identity |-> p1, emails |-> <<Entry(e2, TRUE, FALSE)>>],
     [provider |-> "google", identity |-> p2, email |-> e2, verified |-> TRUE],
     [provider |-> "google", identity |-> p3, email |-> e1, verified |-> TRUE],
     [provider |-> "google", identity |-> p3, email |-> e2, verified |-> FALSE]}

Symmetry == Permutations(Redirects) \cup Permutations(Callbacks) \cup Permutations(Users)

=============================================================================
