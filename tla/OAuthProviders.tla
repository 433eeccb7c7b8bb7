--------------------------- MODULE OAuthProviders ----------------------------
(***************************************************************************)
(* What the GitHub and Google providers make of the answers they get: the  *)
(* account's identity with one e-mail address that the provider has        *)
(* verified, or no profile at all.  An address is spelled as the account's *)
(* owner typed it; normalizeIdentityEmail maps a spelling to its mailbox.  *)
(***************************************************************************)
EXTENDS Naturals, Sequences

CONSTANTS
    Identities,    \* an account at a provider
    Emails,        \* mailboxes
    Mailbox,       \* normalizeIdentityEmail: the mailbox of each spelling
    Answers        \* what the providers may answer of an account, at any time

Spellings == DOMAIN Mailbox

\* GitHub lists the addresses of an account, Google's id token names one.
IsGitHub(a) == a.provider = "github"

ASSUME ProviderAssumption ==
    /\ Mailbox \in [Spellings -> Emails]
    /\ \A a \in Answers :
          /\ a.identity \in Identities
          /\ IF IsGitHub(a)
             THEN a.emails \in Seq([email : Spellings, primary : BOOLEAN, verified : BOOLEAN])
             ELSE a.email \in Spellings /\ a.verified \in BOOLEAN

Entries(a) == {a.emails[i] : i \in 1 .. Len(a.emails)}

\* Seeded fault: the primary address will do, verified or not.
AnyPrimary(entry) == entry.primary

\* verifiedGitHubProfile: what an entry of the list must say.
Usable(entry) == entry.primary /\ entry.verified

\* Is there a profile?  Otherwise the callback throws.
HasProfile(a) == IF IsGitHub(a) THEN \E entry \in Entries(a) : Usable(entry) ELSE a.verified

\* The address of the profile: the first usable one.
ProfileEmail(a) ==
    IF IsGitHub(a)
    THEN LET first == CHOOSE i \in 1 .. Len(a.emails) :
                         /\ Usable(a.emails[i])
                         /\ \A j \in 1 .. i - 1 : ~ Usable(a.emails[j])
         IN a.emails[first].email
    ELSE a.email

Profile(a) ==
    [identity |-> a.identity, email |-> Mailbox[ProfileEmail(a)], verified |-> TRUE]

Profiles == {Profile(a) : a \in {b \in Answers : HasProfile(b)}}

\* What the provider itself says, apart from what is made of it: has it
\* verified that this address is the account owner's?
Vouched(identity, mailbox) ==
    \E a \in Answers :
        /\ a.identity = identity
        /\ IF IsGitHub(a)
           THEN \E entry \in Entries(a) : entry.verified /\ Mailbox[entry.email] = mailbox
           ELSE a.verified /\ Mailbox[a.email] = mailbox
=============================================================================
