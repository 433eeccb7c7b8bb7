---------------------------- MODULE OAuthIdentity ----------------------------
(***************************************************************************)
(* OAuth sign-in and linking: redirect stores a one-time state, a callback *)
(* takes it, asks the provider who the caller is, and resolves that        *)
(* identity in the Redis identity store (resolveOAuth, createUser and      *)
(* linkProvider).  Every Redis command is one step; each of the two Lua    *)
(* scripts is one command.  The provider's answer, the audit sink and the  *)
(* token issuer touch nothing of this and are joined to a step beside them.*)
(*                                                                         *)
(* A state is named by the redirect that created it.  A provider identity  *)
(* stands for a provider and its id; a profile adds the e-mail address it  *)
(* vouches for and whether that address is verified.                       *)
(***************************************************************************)
EXTENDS OAuthProviders, FiniteSets

CONSTANTS
    Redirects,     \* calls of redirect
    Callbacks,     \* calls of handleCallback
    Users,         \* the ids createUser draws
    Outsider,      \* a signed-in user the identity store does not hold
    Nobody,
    Policies,      \* autoLinkOnVerifiedEmailMatch, as an application may set it
    AutoLinkUnverified,  \* allowUnverifiedAutoLink
    MaxAttempts,   \* MAX_LINK_CAS_ATTEMPTS
    MaxProviders,  \* MAX_IDENTITY_PROVIDERS_PER_USER
    MaxFaults      \* failures of a command, of the audit sink or the issuer

ASSUME OAuthAssumption ==
    /\ Outsider \notin Users
    /\ Nobody \notin Users \cup {Outsider}
    /\ Redirects \cap Callbacks = {}
    /\ Profiles # {}
    /\ Policies \subseteq BOOLEAN
    /\ AutoLinkUnverified \in BOOLEAN
    /\ MaxAttempts \in Nat \ {0}
    /\ MaxProviders \in Nat \ {0}
    /\ MaxFaults \in Nat

VARIABLES
    states,         \* the stored states
    users,          \* the user records; no provider stands for no record
    emailIndex,     \* the user id at each e-mail key
    providerIndex,  \* the user id at each provider key
    pc,             \* the await each call is suspended at
    verdict,        \* what a call ended with
    request,        \* mode and user id of a redirect, or of a callback's state
    profile,        \* the profile a callback obtained
    found,          \* the user id a lookup returned
    target,         \* the user a callback links to or signs in
    seen,           \* the record linkProvider read
    attempt,        \* its attempts so far
    faults,         \* failures so far
    autoLinkVerified,  \* the policy the application was built with
    taken,          \* history: the callbacks that obtained each state
    invited         \* history: the pairs of an identity and a user that
                    \* creation, that user or the policy brought together

store   == <<users, emailIndex, providerIndex>>
local   == <<request, profile, found, target, seen, attempt>>
history == <<taken, invited>>
vars    == <<states, store, pc, verdict, local, faults,
             autoLinkVerified, history>>

-----------------------------------------------------------------------------

Calls == Redirects \cup Callbacks

Record   == [email : Emails, providers : SUBSET Identities]
NoRecord == [email |-> CHOOSE e \in Emails : TRUE, providers |-> {}]

AnyProfile == CHOOSE r \in Profiles : TRUE

Login   == [mode |-> "login", user |-> Nobody]
Request == {Login} \cup [mode : {"link"}, user : Users \cup {Outsider}]

Labels == {"idle", "exchange", "lookup", "fetch", "target", "snapshot", "link",
           "verify", "relookup", "refetch", "email", "mailbox", "create", "owner",
           "finish", "done"}

Verdicts == {"none", "redirected", "rejected", "invalid", "link required", "linked",
             "signed in", "contention", "integrity", "error"}

TypeOK ==
    /\ states \subseteq Redirects
    /\ users \in [Users -> Record]
    /\ emailIndex \in [Emails -> Users \cup {Nobody}]
    /\ providerIndex \in [Identities -> Users \cup {Nobody}]
    /\ pc \in [Calls -> Labels]
    /\ verdict \in [Calls -> Verdicts]
    /\ request \in [Calls -> Request]
    /\ profile \in [Callbacks -> Profiles]
    /\ found \in [Callbacks -> Users \cup {Nobody}]
    /\ target \in [Callbacks -> Users \cup {Nobody}]
    /\ seen \in [Callbacks -> Record]
    /\ attempt \in [Callbacks -> 0..MaxAttempts]
    /\ faults \in 0..MaxFaults
    /\ autoLinkVerified \in BOOLEAN
    /\ taken \in [Redirects -> SUBSET Callbacks]
    /\ invited \subseteq Identities \X Users

Exists(u) == u \in Users /\ users[u].providers # {}

\* The store is empty, or holds one user from earlier.
Init ==
    /\ states = {}
    /\ \/ /\ users = [u \in Users |-> NoRecord]
          /\ emailIndex = [e \in Emails |-> Nobody]
          /\ providerIndex = [p \in Identities |-> Nobody]
          /\ invited = {}
       \/ \E v \in Users, r \in Profiles :
             /\ users = [u \in Users |->
                   IF u = v THEN [email |-> r.email, providers |-> {r.identity}]
                   ELSE NoRecord]
             /\ emailIndex = [e \in Emails |-> IF e = r.email THEN v ELSE Nobody]
             /\ providerIndex = [p \in Identities |-> IF p = r.identity THEN v ELSE Nobody]
             /\ invited = {<<r.identity, v>>}
    /\ pc = [c \in Calls |-> "idle"]
    /\ verdict = [c \in Calls |-> "none"]
    /\ request = [c \in Calls |-> Login]
    /\ profile = [c \in Callbacks |-> AnyProfile]
    /\ found = [c \in Callbacks |-> Nobody]
    /\ target = [c \in Callbacks |-> Nobody]
    /\ seen = [c \in Callbacks |-> NoRecord]
    /\ attempt = [c \in Callbacks |-> 0]
    /\ faults = 0
    /\ autoLinkVerified \in Policies
    /\ taken = [r \in Redirects |-> {}]

-----------------------------------------------------------------------------
(* Control *)

Goto(c, label) == pc' = [pc EXCEPT ![c] = label] /\ UNCHANGED <<verdict, faults>>

End(c, v) ==
    /\ pc' = [pc EXCEPT ![c] = "done"]
    /\ verdict' = [verdict EXCEPT ![c] = v]
    /\ UNCHANGED faults

\* An await rejects: no handler of a callback undoes what was done before.
Reject(c) ==
    /\ faults < MaxFaults
    /\ faults' = faults + 1
    /\ pc' = [pc EXCEPT ![c] = "done"]
    /\ verdict' = [verdict EXCEPT ![c] = "error"]

\* The connection is lost before the reply: the client sends the command again.
Resend(c) ==
    /\ faults < MaxFaults
    /\ faults' = faults + 1
    /\ UNCHANGED <<pc, verdict>>

\* A command that changed the store: its reply arrives, or is lost.
Reply(c, label) == Goto(c, label) \/ Reject(c) \/ Resend(c)

Id(c) == profile[c].identity

-----------------------------------------------------------------------------
(* redirect, and the state it stores *)

\* Linking needs a signed-in user; its id goes into the state.  The browser
\* learns the state once the audit sink has accepted it.
Redirect(r) ==
    /\ pc[r] = "idle"
    /\ \E q \in Request :
          /\ q.user \in Users => Exists(q.user)
          /\ request' = [request EXCEPT ![r] = q]
    /\ states' = states \cup {r}
    /\ End(r, "redirected") \/ Reject(r)
    /\ UNCHANGED <<store, profile, found, target, seen, attempt, history>>

StateExpires(r) ==
    /\ r \in states
    /\ states' = states \ {r}
    /\ UNCHANGED <<store, pc, verdict, local, faults, history>>

-----------------------------------------------------------------------------
(* handleCallback, up to the provider's answer *)

\* What a callback does with the state it presented, if it is still stored.
Present(c, r) ==
    /\ pc[c] = "idle"
    /\ verdict[r] = "redirected"
    /\ \A q \in Redirects : c \in taken[q] => q = r
    /\ request' = [request EXCEPT ![c] = request[r]]
    /\ IF r \in states
       THEN /\ Reply(c, "exchange")
            /\ taken' = [taken EXCEPT ![r] = @ \cup {c}]
       ELSE End(c, "rejected") /\ UNCHANGED taken
    /\ UNCHANGED <<store, profile, found, target, seen, attempt, invited>>

\* Seeded fault: the state is read, and left to its TTL.
TakeWithoutDelete(c) ==
    \E r \in Redirects : Present(c, r) /\ UNCHANGED states

\* take: GETDEL.
Take(c) == \E r \in Redirects : Present(c, r) /\ states' = states \ {r}

\* The provider's answer has a profile, and the audit sink accepts it; or the
\* answer has none, or the code is missing or refused.
Exchange(c) ==
    /\ pc[c] = "exchange"
    /\ \/ \E r \in Profiles : profile' = [profile EXCEPT ![c] = r] /\ Goto(c, "lookup")
       \/ End(c, "error") /\ UNCHANGED profile
    /\ UNCHANGED <<states, store, request, found, target, seen, attempt, history>>

-----------------------------------------------------------------------------
(* resolveOAuth *)

\* findUserByProvider: the provider index, then the record it names.
LookUpProvider(c) ==
    /\ pc[c] \in {"lookup", "relookup"}
    /\ found' = [found EXCEPT ![c] = providerIndex[Id(c)]]
    /\ CASE found'[c] # Nobody -> Goto(c, IF pc[c] = "lookup" THEN "fetch" ELSE "refetch")
         [] found'[c] = Nobody /\ pc[c] = "relookup" -> End(c, "error")
         [] OTHER -> Goto(c, IF request[c].mode = "link" THEN "target" ELSE "email")
    /\ UNCHANGED <<states, store, request, profile, target, seen, attempt, history>>

FetchOwner(c) ==
    /\ pc[c] = "fetch"
    /\ IF Id(c) \notin users[found[c]].providers
       THEN End(c, "integrity") /\ UNCHANGED target
       ELSE IF request[c].mode = "link"
       THEN Goto(c, "target") /\ UNCHANGED target
       ELSE /\ target' = [target EXCEPT ![c] = found[c]]
            /\ Goto(c, "finish")
    /\ UNCHANGED <<states, store, request, profile, found, seen, attempt, history>>

\* Seeded fault: the target is whoever has the provider's e-mail address.
FindTargetByEmail(c) ==
    /\ pc[c] = "target"
    /\ LET u == emailIndex[profile[c].email]
       IN IF u = Nobody \/ found[c] \notin {Nobody, u}
          THEN End(c, "invalid") /\ UNCHANGED target
          ELSE /\ target' = [target EXCEPT ![c] = u]
               /\ Goto(c, IF found[c] = Nobody THEN "snapshot" ELSE "verify")
    /\ UNCHANGED <<states, store, request, profile, found, seen, attempt, history>>

\* Seeded fault: the signed-in user is taken to be in the store.
FindTargetUnchecked(c) ==
    /\ pc[c] = "target"
    /\ IF found[c] \notin {Nobody, request[c].user}
       THEN End(c, "invalid") /\ UNCHANGED target
       ELSE /\ target' = [target EXCEPT ![c] = request[c].user]
            /\ Goto(c, IF found[c] = Nobody THEN "snapshot" ELSE "verify")
    /\ UNCHANGED <<states, store, request, profile, found, seen, attempt, history>>

\* Link mode: the user the state names must exist, and the identity must not
\* be another user's.
FindTarget(c) ==
    /\ pc[c] = "target"
    /\ IF ~ Exists(request[c].user) \/ found[c] \notin {Nobody, request[c].user}
       THEN End(c, "invalid") /\ UNCHANGED target
       ELSE /\ target' = [target EXCEPT ![c] = request[c].user]
            /\ Goto(c, IF found[c] = Nobody THEN "snapshot" ELSE "verify")
    /\ UNCHANGED <<states, store, request, profile, found, seen, attempt, history>>

MayAutoLink(c) ==
    \/ profile[c].verified /\ autoLinkVerified
    \/ ~ profile[c].verified /\ AutoLinkUnverified

\* findUserByEmail: the e-mail index, then the record it names.
LookUpEmail(c) ==
    /\ pc[c] = "email"
    /\ found' = [found EXCEPT ![c] = emailIndex[profile[c].email]]
    /\ Goto(c, IF found'[c] = Nobody THEN "create" ELSE "mailbox")
    /\ UNCHANGED <<states, store, request, profile, target, seen, attempt, history>>

\* linkForLogin, where the record has the address.
FetchByEmail(c) ==
    /\ pc[c] = "mailbox"
    /\ IF ~ Exists(found[c]) \/ users[found[c]].email # profile[c].email
       THEN End(c, "integrity") /\ UNCHANGED target
       ELSE IF ~ MayAutoLink(c)
       THEN End(c, "link required") /\ UNCHANGED target
       ELSE /\ target' = [target EXCEPT ![c] = found[c]]
            /\ Goto(c, "snapshot")
    /\ UNCHANGED <<states, store, request, profile, found, seen, attempt, history>>

-----------------------------------------------------------------------------
(* createUser *)

NewRecord(c) == [email |-> profile[c].email, providers |-> {Id(c)}]

AddUser(c, u) ==
    /\ users' = [users EXCEPT ![u] = NewRecord(c)]
    /\ emailIndex' = [emailIndex EXCEPT ![profile[c].email] = u]
    /\ providerIndex' = [providerIndex EXCEPT ![Id(c)] = u]
    /\ invited' = IF Vouched(Id(c), profile[c].email)
                  THEN invited \cup {<<Id(c), u>>} ELSE invited

\* Seeded fault: the lookups made before are trusted to be current.
CreateUserUnchecked(c) ==
    /\ pc[c] = "create"
    /\ \E u \in Users :
          /\ ~ Exists(u)
          /\ AddUser(c, u)
          /\ target' = [target EXCEPT ![c] = u]
    /\ Reply(c, "finish")
    /\ UNCHANGED <<states, request, profile, found, seen, attempt, taken>>

\* CREATE_USER_SCRIPT: an identity or an address taken since the lookups wins.
CreateUser(c) ==
    /\ pc[c] = "create"
    /\ LET byProvider == providerIndex[Id(c)]
           byEmail    == emailIndex[profile[c].email]
       IN IF byProvider # Nobody \/ byEmail # Nobody
          THEN /\ found' = [found EXCEPT ![c] =
                     IF byProvider # Nobody THEN byProvider ELSE byEmail]
               /\ Goto(c, IF byProvider # Nobody THEN "owner" ELSE "mailbox")
               /\ UNCHANGED <<store, target, invited>>
          ELSE /\ \E u \in Users :
                     /\ ~ Exists(u)
                     /\ AddUser(c, u)
                     /\ target' = [target EXCEPT ![c] = u]
               /\ Reply(c, "finish")
               /\ UNCHANGED found
    /\ UNCHANGED <<states, request, profile, seen, attempt, taken>>

\* The owner the script named.
FetchExisting(c) ==
    /\ pc[c] = "owner"
    /\ IF Id(c) \notin users[found[c]].providers
       THEN End(c, "integrity") /\ UNCHANGED target
       ELSE /\ target' = [target EXCEPT ![c] = found[c]]
            /\ Goto(c, "finish")
    /\ UNCHANGED <<states, store, request, profile, found, seen, attempt, history>>

-----------------------------------------------------------------------------
(* linkProvider *)

\* The record is read, once per attempt.
ReadTarget(c) ==
    /\ pc[c] = "snapshot"
    /\ seen' = [seen EXCEPT ![c] = users[target[c]]]
    /\ IF /\ Id(c) \notin seen'[c].providers
          /\ Cardinality(seen'[c].providers) >= MaxProviders
       THEN End(c, "error")
       ELSE Goto(c, "link")
    /\ UNCHANGED <<states, store, request, profile, found, target, attempt, history>>

WithIdentity(c) == [seen[c] EXCEPT !.providers = @ \cup {Id(c)}]

Conflict(c) ==
    \/ providerIndex[Id(c)] \notin {Nobody, target[c]}
    \/ emailIndex[seen[c].email] \notin {Nobody, target[c]}

Stale(c) == users[target[c]] # seen[c]

\* The updated record and both indexes are written.
WriteLink(c) ==
    /\ users' = [users EXCEPT ![target[c]] = WithIdentity(c)]
    /\ emailIndex' = [emailIndex EXCEPT ![seen[c].email] = target[c]]
    /\ providerIndex' = [providerIndex EXCEPT ![Id(c)] = target[c]]
    /\ invited' = IF \/ request[c].mode = "link"
                     \/ autoLinkVerified /\ Vouched(Id(c), seen[c].email)
                  THEN invited \cup {<<Id(c), target[c]>>} ELSE invited
    /\ Reply(c, IF request[c].mode = "link" THEN "verify" ELSE "relookup")
    /\ UNCHANGED attempt

\* Seeded fault: the script writes whatever record it is given.
CommitLastWriterWins(c) == ~ Conflict(c) /\ WriteLink(c)

\* Seeded fault: the record is compared, the owner of the identity is not.
CommitTakesOver(c) == ~ Stale(c) /\ WriteLink(c)

Commit(c) == ~ Conflict(c) /\ ~ Stale(c) /\ WriteLink(c)

\* Seeded fault: an attempt that failed compares with the same record again.
RetryBlindly(c) ==
    /\ ~ Conflict(c)
    /\ Stale(c)
    /\ attempt' = [attempt EXCEPT ![c] = @ + 1]
    /\ IF attempt'[c] = MaxAttempts THEN End(c, "contention") ELSE Goto(c, "link")
    /\ UNCHANGED <<store, invited>>

\* The record has changed since it was read: read it again, or give up.
Retry(c) ==
    /\ ~ Conflict(c)
    /\ Stale(c)
    /\ attempt' = [attempt EXCEPT ![c] = @ + 1]
    /\ IF attempt'[c] = MaxAttempts THEN End(c, "contention") ELSE Goto(c, "snapshot")
    /\ UNCHANGED <<store, invited>>

\* The identity, or the address, is another user's.
Refuse(c) ==
    /\ Conflict(c)
    /\ End(c, "error")
    /\ UNCHANGED <<store, attempt, invited>>

\* LINK_PROVIDER_SCRIPT, and what linkProvider does with its answer.
Link(c) ==
    /\ pc[c] = "link"
    /\ Refuse(c) \/ Retry(c) \/ Commit(c)
    /\ UNCHANGED <<states, request, profile, found, target, seen, taken>>

\* Link mode reads the target again, login mode the owner of the identity.
VerifyLink(c) ==
    /\ pc[c] \in {"verify", "refetch"}
    /\ LET u == IF pc[c] = "verify" THEN target[c] ELSE found[c]
       IN IF Id(c) \notin users[u].providers THEN End(c, "integrity")
          ELSE IF u # target[c] THEN End(c, "error")
          ELSE Goto(c, "finish")
    /\ UNCHANGED <<states, store, local, history>>

\* The locals of a callback end with it.
Forget(c) ==
    /\ profile' = [profile EXCEPT ![c] = AnyProfile]
    /\ found' = [found EXCEPT ![c] = Nobody]
    /\ target' = [target EXCEPT ![c] = Nobody]
    /\ seen' = [seen EXCEPT ![c] = NoRecord]
    /\ attempt' = [attempt EXCEPT ![c] = 0]

\* The audit of a new user or a new link, and in login mode issueTokens: they
\* leave the identity store alone.
Finish(c) ==
    /\ pc[c] = "finish"
    /\ End(c, IF request[c].mode = "link" THEN "linked" ELSE "signed in") \/ Reject(c)
    /\ Forget(c)
    /\ UNCHANGED <<states, store, request, history>>

\* A command rejects without effect.
CommandFails(c) ==
    /\ pc[c] \notin {"idle", "exchange", "finish", "done"}
    /\ Reject(c)
    /\ UNCHANGED <<states, store, local, history>>

-----------------------------------------------------------------------------

ResolveStep(c) ==
    \/ LookUpProvider(c) \/ FetchOwner(c) \/ FindTarget(c)
    \/ LookUpEmail(c) \/ FetchByEmail(c)
    \/ CreateUser(c) \/ FetchExisting(c)
    \/ ReadTarget(c) \/ Link(c) \/ VerifyLink(c)
    \/ Finish(c)

CallbackStep(c) ==
    \/ Take(c) \/ Exchange(c) \/ ResolveStep(c) \/ CommandFails(c)

Next ==
    /\ \/ \E r \in Redirects : Redirect(r) \/ StateExpires(r)
       \/ \E c \in Callbacks : CallbackStep(c)
    /\ UNCHANGED autoLinkVerified

Spec == Init /\ [][Next]_vars

-----------------------------------------------------------------------------
(* Properties *)

\* At most one callback gets past the state check with a given state, however
\* callbacks that present the same state interleave.
StateTakenOnce == \A r \in Redirects : Cardinality(taken[r]) <= 1

\* The two indexes and the records always say the same: an identity is listed
\* by exactly the user its index names, an address by the user its index names.
\* Concurrent links of two identities to one user lose neither.
IndexesAgree ==
    /\ \A p \in Identities, u \in Users :
          p \in users[u].providers <=> providerIndex[p] = u
    /\ \A e \in Emails, u \in Users :
          Exists(u) /\ users[u].email = e <=> emailIndex[e] = u

\* A lookup is two commands, the index and the record it names, yet it never
\* meets a record that disagrees with the index.
LookupsAgree == \A c \in Callbacks : verdict[c] # "integrity"

\* An identity belongs to a user who was created with it and with an address
\* its provider has verified, linked it while signed in, or owns an address the
\* provider has verified, under a policy that links by address: no account of a
\* mailbox nobody has proved to own, and none joined to such an account.
OnlyInvitedLinks ==
    \A u \in Users : \A p \in users[u].providers : <<p, u>> \in invited

\* A callback of a link request changes no record but that of the user the
\* state names, whoever the provider says the caller is.
LinksOnlyRequester ==
    [][\A c \in Callbacks :
          pc'[c] # pc[c] /\ request[c].mode = "link" =>
              \A u \in Users \ {request[c].user} : users'[u] = users[u]]_vars

\* linkProvider gives up for contention only when other links to that user
\* succeeded, one for each of its attempts.
ContentionIsProgress ==
    \A c \in Callbacks :
        verdict[c] = "contention" =>
            Cardinality(users[target[c]].providers) > MaxAttempts

\* The store implements the registry: no identity and no address ever changes
\* hands.
Registry == INSTANCE IdentityRegistry WITH owner <- providerIndex, account <- emailIndex

ImplementsRegistry == Registry!RSpec

=============================================================================
