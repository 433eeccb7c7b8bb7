------------------------ MODULE OAuthIdentity_proofs -------------------------
(***************************************************************************)
(* For every set of callers, every population of accounts and every policy:*)
(* the properties of the OAuth identity store that OAuthIdentity states.   *)
(***************************************************************************)
EXTENDS OAuthIdentity, FiniteSetTheorems, SequenceTheorems, WellFoundedInduction, TLAPS

-----------------------------------------------------------------------------
(* What the providers make of an answer *)

\* A list of addresses with a usable one has a first usable one.
LEMMA FirstUsable ==
    ASSUME NEW n \in Nat, NEW T \in SUBSET (1 .. n), T # {}
    PROVE  \E i \in T : \A j \in 1 .. i - 1 : j \notin T
<1> DEFINE Initial(i) == 1 .. i
           R == StrictSubsetOrdering(Nat)
<1>1. ASSUME NEW i \in T PROVE Initial(i) \in FiniteSubsetsOf(Nat)
  BY FS_Interval DEF FiniteSubsetsOf
<1>2. {Initial(i) : i \in T} \subseteq FiniteSubsetsOf(Nat) /\ {Initial(i) : i \in T} # {}
  BY <1>1
<1>3. IsWellFoundedOn(R, FiniteSubsetsOf(Nat))
  BY FS_StrictSubsetOrderingWellFounded
<1>4. PICK X \in {Initial(i) : i \in T} :
         \A Y \in {Initial(i) : i \in T} : ~ (<<Y, X>> \in R)
  <2> HIDE DEF R, Initial
  <2> QED
    BY <1>2, <1>3, WFMin
<1>5. PICK i \in T : X = Initial(i)
  BY <1>4
<1>6. ASSUME NEW j \in 1 .. i - 1, j \in T PROVE FALSE
  <2>1. Initial(j) \subseteq Initial(i) /\ Initial(j) # Initial(i)
    <3>1. i \in Initial(i) /\ i \notin Initial(j)
      OBVIOUS
    <3>2. Initial(j) \subseteq Initial(i)
      OBVIOUS
    <3>3. QED
      BY <3>1, <3>2
  <2>2. Initial(j) \subseteq Nat /\ Initial(i) \subseteq Nat
    OBVIOUS
  <2>3. <<Initial(j), Initial(i)>> \in R
    <3> HIDE DEF Initial
    <3> QED
      BY <2>1, <2>2 DEF StrictSubsetOrdering
  <2>4. QED
    BY <1>4, <1>5, <1>6, <2>3
<1>7. QED
  BY <1>6

\* A profile names one of the accounts, with a mailbox that its provider vouches for.
LEMMA ProfileVouched ==
    ASSUME NEW p \in Profiles
    PROVE  /\ p.identity \in Identities /\ p.email \in Emails /\ p.verified = TRUE
           /\ Vouched(p.identity, p.email)
<1>1. PICK a \in Answers : HasProfile(a) /\ p = Profile(a)
  BY DEF Profiles
<1>2. a.identity \in Identities /\ p.identity = a.identity /\ p.verified = TRUE
      /\ p.email = Mailbox[ProfileEmail(a)]
  BY <1>1, ProviderAssumption DEF Profile
<1>3. CASE ~ IsGitHub(a)
  <2>1. a.verified /\ ProfileEmail(a) = a.email /\ a.email \in Spellings
    BY <1>1, <1>3, ProviderAssumption DEF HasProfile, ProfileEmail
  <2>2. p.email \in Emails
    BY <1>2, <2>1, ProviderAssumption
  <2>3. QED
    BY <1>2, <1>3, <2>1, <2>2 DEF Vouched
<1>4. CASE IsGitHub(a)
  <2> DEFINE n == Len(a.emails)
             T == {i \in 1 .. n : Usable(a.emails[i])}
             First(i) == /\ Usable(a.emails[i])
                         /\ \A j \in 1 .. i - 1 : ~ Usable(a.emails[j])
  <2>0. a.emails \in Seq([email : Spellings, primary : BOOLEAN, verified : BOOLEAN])
    BY <1>4, ProviderAssumption
  <2>1. /\ n \in Nat
        /\ \A i \in 1 .. n : a.emails[i] \in [email : Spellings, primary : BOOLEAN,
                                               verified : BOOLEAN]
    BY <2>0, LenProperties
  <2>2. T # {}
    BY <1>1, <1>4 DEF HasProfile, Entries
  <2>3. PICK i \in T : \A j \in 1 .. i - 1 : j \notin T
    <3>1. T \in SUBSET (1 .. n)
      OBVIOUS
    <3> HIDE DEF n, T
    <3> QED
      BY <2>1, <2>2, <3>1, FirstUsable
  <2>4. \E k \in 1 .. n : First(k)
    <3>1. \A j \in 1 .. i - 1 : j \in 1 .. n
      BY <2>1
    <3>2. QED
      BY <2>3, <3>1
  <2>5. PICK k \in 1 .. n : First(k) /\ ProfileEmail(a) = a.emails[k].email
    BY <1>4, <2>4 DEF ProfileEmail
  <2>6. /\ a.emails[k] \in Entries(a) /\ a.emails[k].verified
        /\ a.emails[k].email \in Spellings
    BY <2>1, <2>5 DEF Entries, Usable
  <2>7. QED
    BY <1>2, <1>4, <2>5, <2>6, ProviderAssumption DEF Vouched
<1>5. QED
  BY <1>3, <1>4


-----------------------------------------------------------------------------
(* The strengthening of the invariants *)

\* A state is taken by the callback that removed it, and was stored by a
\* redirect that is over.
StatesOnce ==
    \A r \in Redirects :
        /\ \A c, d \in taken[r] : c = d
        /\ r \in states \/ pc[r] = "idle" => taken[r] = {}
        /\ pc[r] = "idle" => verdict[r] = "none"

\* The records are what the indexes say, with finitely many identities, each invited.
StoreOK ==
    /\ IndexesAgree
    /\ \A u \in Users : IsFiniteSet(users[u].providers)
    /\ OnlyInvitedLinks

\* A user a lookup found is in the store, with what it was found by.
FoundOK(c) ==
    /\ pc[c] \in {"fetch", "refetch", "owner"} =>
          found[c] \in Users /\ Id(c) \in users[found[c]].providers
    /\ pc[c] = "target" /\ found[c] # Nobody => Id(c) \in users[found[c]].providers
    /\ pc[c] = "mailbox" => Exists(found[c]) /\ users[found[c]].email = profile[c].email

\* The user to link to is in the store: in link mode the one the state names,
\* in login mode one with the address of the profile.
TargetOK(c) ==
    /\ pc[c] \in {"snapshot", "link", "verify", "relookup", "refetch"} => Exists(target[c])
    /\ pc[c] = "verify" => Id(c) \in users[target[c]].providers
    /\ pc[c] = "target" => request[c].mode = "link"
    /\ request[c].mode = "link" =>
          /\ pc[c] \notin {"email", "mailbox", "create", "owner", "relookup", "refetch"}
          /\ pc[c] \in {"snapshot", "link", "verify"} => target[c] = request[c].user
    /\ request[c].mode = "login" /\ pc[c] \in {"snapshot", "link"} =>
          autoLinkVerified /\ users[target[c]].email = profile[c].email
    /\ verdict[c] # "integrity"

BeforeLink == {"idle", "exchange", "lookup", "fetch", "target", "email", "mailbox", "create"}

\* Every attempt of linkProvider that found the record changed found one more
\* identity in it.
AttemptOK(c) ==
    /\ pc[c] \in BeforeLink => attempt[c] = 0
    /\ pc[c] \in {"snapshot", "link"} => attempt[c] < MaxAttempts
    /\ pc[c] = "snapshot" => Cardinality(users[target[c]].providers) > attempt[c]
    /\ pc[c] = "link" =>
          /\ seen[c].email = users[target[c]].email
          /\ seen[c].providers \subseteq users[target[c]].providers
          /\ Cardinality(seen[c].providers) > attempt[c]
    /\ verdict[c] = "contention" =>
          /\ pc[c] = "done" /\ target[c] \in Users
          /\ Cardinality(users[target[c]].providers) > MaxAttempts

OnCourse(c) == FoundOK(c) /\ TargetOK(c) /\ AttemptOK(c)

OInv == TypeOK /\ StatesOnce /\ StoreOK /\ \A c \in Callbacks : OnCourse(c)

-----------------------------------------------------------------------------
(* Types *)

ControlOK ==
    /\ pc \in [Calls -> Labels]
    /\ verdict \in [Calls -> Verdicts]
    /\ faults \in 0..MaxFaults

\* The ways a step can end for the call that takes it.
Moves(c) ==
    \/ \E x \in Labels : Goto(c, x)
    \/ \E v \in Verdicts : End(c, v)
    \/ Reject(c)
    \/ Resend(c)

\* The ways a step can end each move one call.
LEMMA MovesOK ==
    ASSUME ControlOK, NEW c \in Calls, Moves(c)
    PROVE  /\ ControlOK'
           /\ \A d \in Calls \ {c} : pc'[d] = pc[d] /\ verdict'[d] = verdict[d]
<1>0. faults \in 0..MaxFaults /\ MaxFaults \in Nat
  BY OAuthAssumption DEF ControlOK
<1>1. CASE \E x \in Labels : Goto(c, x)
  BY <1>1 DEF ControlOK, Goto
<1>2. CASE \E v \in Verdicts : End(c, v)
  BY <1>2 DEF ControlOK, End, Labels
<1>3. CASE Reject(c)
  <2>1. faults + 1 \in 0..MaxFaults
    BY <1>0, <1>3 DEF Reject
  <2>2. "done" \in Labels /\ "error" \in Verdicts
    BY DEF Labels, Verdicts
  <2>3. QED
    BY <1>3, <2>1, <2>2 DEF ControlOK, Reject
<1>4. CASE Resend(c)
  BY <1>0, <1>4 DEF ControlOK, Resend
<1>5. QED
  BY <1>1, <1>2, <1>3, <1>4 DEF Moves

\* A reply, even one that is lost, moves its call.
LEMMA ReplyMoves ==
    ASSUME NEW c, NEW x \in Labels, Reply(c, x)
    PROVE  Moves(c)
BY DEF Reply, Moves

\* Every step of a callback moves it and no other call.
LEMMA CallbackMoves ==
    ASSUME NEW c \in Callbacks, CallbackStep(c)
    PROVE  Moves(c)
<1> USE DEF Labels, Verdicts
<1>1. CASE Take(c)
  BY <1>1, ReplyMoves DEF Take, Present, Moves
<1>2. CASE Exchange(c)
  BY <1>2 DEF Exchange, Moves
<1>3. CASE LookUpProvider(c)
  BY <1>3 DEF LookUpProvider, Moves
<1>4. CASE FetchOwner(c) \/ FindTarget(c)
  BY <1>4 DEF FetchOwner, FindTarget, Moves
<1>5. CASE LookUpEmail(c) \/ FetchByEmail(c)
  BY <1>5 DEF LookUpEmail, FetchByEmail, Moves
<1>6. CASE CreateUser(c)
  BY <1>6, ReplyMoves DEF CreateUser, Moves
<1>7. CASE FetchExisting(c) \/ ReadTarget(c)
  BY <1>7 DEF FetchExisting, ReadTarget, Moves
<1>8. CASE Link(c)
  BY <1>8, ReplyMoves DEF Link, Refuse, Retry, Commit, WriteLink, Moves
<1>9. CASE VerifyLink(c) \/ Finish(c) \/ CommandFails(c)
  BY <1>9 DEF VerifyLink, Finish, CommandFails, Moves
<1>10. QED
  BY <1>1, <1>2, <1>3, <1>4, <1>5, <1>6, <1>7, <1>8, <1>9 DEF CallbackStep, ResolveStep

\* The records, requests and profiles that stand for none.
LEMMA RecordTypes ==
    /\ AnyProfile \in Profiles
    /\ NoRecord \in Record /\ NoRecord.providers = {}
    /\ Login \in Request
<1>1. AnyProfile \in Profiles
  BY OAuthAssumption DEF AnyProfile
<1>2. Emails # {}
  BY <1>1, ProfileVouched
<1>3. QED
  BY <1>1, <1>2 DEF NoRecord, Record, Login, Request

\* A step that changes the store writes one record and two index entries.
Writes(c) ==
    \E u \in Users, rec \in Record, e \in Emails :
        /\ users' = [users EXCEPT ![u] = rec]
        /\ emailIndex' = [emailIndex EXCEPT ![e] = u]
        /\ providerIndex' = [providerIndex EXCEPT ![Id(c)] = u]
        /\ invited' \subseteq invited \cup {<<Id(c), u>>}

\* What a step of callback c does to the store and to its own locals.
StepTypes(c) ==
    /\ states' \subseteq states
    /\ UNCHANGED <<store, invited>> \/ Writes(c)
    /\ \E q \in Request : request' = [request EXCEPT ![c] = q]
    /\ \E p \in Profiles : profile' = [profile EXCEPT ![c] = p]
    /\ \E u \in Users \cup {Nobody} : found' = [found EXCEPT ![c] = u]
    /\ \E u \in Users \cup {Nobody} : target' = [target EXCEPT ![c] = u]
    /\ \E rec \in Record : seen' = [seen EXCEPT ![c] = rec]
    /\ \E n \in 0..MaxAttempts : attempt' = [attempt EXCEPT ![c] = n]
    /\ taken' = taken \/ \E r \in Redirects : taken' = [taken EXCEPT ![r] = @ \cup {c}]

\* The locals a step leaves alone.
LEMMA LocalsKept ==
    ASSUME TypeOK, NEW c \in Callbacks
    PROVE  /\ UNCHANGED request => \E q \in Request : request' = [request EXCEPT ![c] = q]
           /\ UNCHANGED profile => \E p \in Profiles : profile' = [profile EXCEPT ![c] = p]
           /\ UNCHANGED found =>
                 \E u \in Users \cup {Nobody} : found' = [found EXCEPT ![c] = u]
           /\ UNCHANGED target =>
                 \E u \in Users \cup {Nobody} : target' = [target EXCEPT ![c] = u]
           /\ UNCHANGED seen => \E rec \in Record : seen' = [seen EXCEPT ![c] = rec]
           /\ UNCHANGED attempt =>
                 \E n \in 0..MaxAttempts : attempt' = [attempt EXCEPT ![c] = n]
<1>0. c \in Calls
  BY DEF Calls
<1>1. request[c] \in Request /\ request = [request EXCEPT ![c] = request[c]]
  BY <1>0 DEF TypeOK
<1>2. profile[c] \in Profiles /\ profile = [profile EXCEPT ![c] = profile[c]]
  BY DEF TypeOK
<1>3. found[c] \in Users \cup {Nobody} /\ found = [found EXCEPT ![c] = found[c]]
  BY DEF TypeOK
<1>4. target[c] \in Users \cup {Nobody} /\ target = [target EXCEPT ![c] = target[c]]
  BY DEF TypeOK
<1>5. seen[c] \in Record /\ seen = [seen EXCEPT ![c] = seen[c]]
  BY DEF TypeOK
<1>6. attempt[c] \in 0..MaxAttempts /\ attempt = [attempt EXCEPT ![c] = attempt[c]]
  BY DEF TypeOK
<1>7. QED
  BY <1>1, <1>2, <1>3, <1>4, <1>5, <1>6

\* A step that assigns within the types keeps them.
LEMMA StepTypesOK ==
    ASSUME TypeOK, NEW c \in Callbacks, StepTypes(c), Moves(c), UNCHANGED autoLinkVerified
    PROVE  TypeOK'
<1>0. c \in Calls /\ Id(c) \in Identities
  BY ProfileVouched DEF Calls, TypeOK, Id
<1>1. ControlOK'
  BY <1>0, MovesOK DEF TypeOK, ControlOK
<1>2. states' \subseteq Redirects /\ autoLinkVerified' \in BOOLEAN
  BY DEF TypeOK, StepTypes
<1>3. /\ users' \in [Users -> Record] /\ invited' \subseteq Identities \X Users
      /\ emailIndex' \in [Emails -> Users \cup {Nobody}]
      /\ providerIndex' \in [Identities -> Users \cup {Nobody}]
  <2>1. CASE UNCHANGED <<store, invited>>
    BY <2>1 DEF store, TypeOK
  <2>2. CASE Writes(c)
    BY <1>0, <2>2 DEF Writes, TypeOK
  <2>3. QED
    BY <2>1, <2>2 DEF StepTypes
<1>4. request' \in [Calls -> Request] /\ profile' \in [Callbacks -> Profiles]
  BY <1>0 DEF TypeOK, StepTypes
<1>5. found' \in [Callbacks -> Users \cup {Nobody}] /\ target' \in [Callbacks -> Users \cup {Nobody}]
  BY DEF TypeOK, StepTypes
<1>6. seen' \in [Callbacks -> Record] /\ attempt' \in [Callbacks -> 0..MaxAttempts]
  BY DEF TypeOK, StepTypes
<1>7. taken' \in [Redirects -> SUBSET Callbacks]
  BY DEF TypeOK, StepTypes
<1>8. QED
  BY <1>1, <1>2, <1>3, <1>4, <1>5, <1>6, <1>7 DEF TypeOK, ControlOK

\* Every step of a callback assigns within the types.
LEMMA CallbackTypes ==
    ASSUME OInv, NEW c \in Callbacks, CallbackStep(c)
    PROVE  StepTypes(c)
<1> USE DEF StepTypes
<1>0. TypeOK /\ c \in Calls /\ Id(c) \in Identities /\ profile[c].email \in Emails
  BY ProfileVouched DEF OInv, Calls, TypeOK, Id
<1>1. CASE Take(c)
  <2>1. PICK r \in Redirects : Present(c, r) /\ states' = states \ {r}
    BY <1>1 DEF Take
  <2>2. request[r] \in Request
    BY <1>0 DEF TypeOK, Calls
  <2>3. /\ request' = [request EXCEPT ![c] = request[r]]
        /\ UNCHANGED <<store, profile, found, target, seen, attempt, invited>>
        /\ taken' = taken \/ taken' = [taken EXCEPT ![r] = @ \cup {c}]
    BY <2>1 DEF Present
  <2>4. QED
    BY <1>0, <2>1, <2>2, <2>3, LocalsKept
<1>2. CASE Exchange(c)
  BY <1>0, <1>2, LocalsKept DEF Exchange, history
<1>3. CASE LookUpProvider(c)
  <2>1. providerIndex[Id(c)] \in Users \cup {Nobody}
    BY <1>0 DEF TypeOK
  <2>2. QED
    BY <1>0, <1>3, <2>1, LocalsKept DEF LookUpProvider, history
<1>4. CASE FetchOwner(c)
  <2>1. found[c] \in Users \cup {Nobody}
    BY <1>0 DEF TypeOK
  <2>2. QED
    BY <1>0, <1>4, <2>1, LocalsKept DEF FetchOwner, history
<1>5. CASE FindTarget(c)
  BY <1>0, <1>5, LocalsKept DEF FindTarget, Exists, history
<1>6. CASE LookUpEmail(c)
  <2>1. emailIndex[profile[c].email] \in Users \cup {Nobody}
    BY <1>0 DEF TypeOK
  <2>2. QED
    BY <1>0, <1>6, <2>1, LocalsKept DEF LookUpEmail, history
<1>7. CASE FetchByEmail(c)
  BY <1>0, <1>7, LocalsKept DEF FetchByEmail, Exists, history
<1>8. CASE CreateUser(c)
  <2>1. /\ UNCHANGED <<states, request, profile, seen, attempt, taken>>
        /\ \/ /\ found' = [found EXCEPT ![c] = providerIndex[Id(c)]]
              /\ UNCHANGED <<store, target, invited>>
           \/ /\ found' = [found EXCEPT ![c] = emailIndex[profile[c].email]]
              /\ UNCHANGED <<store, target, invited>>
           \/ /\ \E u \in Users : AddUser(c, u) /\ target' = [target EXCEPT ![c] = u]
              /\ UNCHANGED found
    BY <1>8 DEF CreateUser
  <2>2. /\ providerIndex[Id(c)] \in Users \cup {Nobody}
        /\ emailIndex[profile[c].email] \in Users \cup {Nobody}
    BY <1>0 DEF TypeOK
  <2>3. NewRecord(c) \in Record
    BY <1>0 DEF NewRecord, Record
  <2>4. ASSUME NEW u \in Users, AddUser(c, u) PROVE Writes(c)
    BY <1>0, <2>3, <2>4 DEF AddUser, Writes
  <2>5. QED
    BY <1>0, <2>1, <2>2, <2>4, LocalsKept
<1>9. CASE FetchExisting(c)
  <2>1. found[c] \in Users \cup {Nobody}
    BY <1>0 DEF TypeOK
  <2>2. QED
    BY <1>0, <1>9, <2>1, LocalsKept DEF FetchExisting, history
<1>10. CASE ReadTarget(c)
  <2>1. target[c] \in Users
    BY <1>10 DEF ReadTarget, OInv, OnCourse, TargetOK, Exists
  <2>2. users[target[c]] \in Record
    BY <1>0, <2>1 DEF TypeOK
  <2>3. QED
    BY <1>0, <1>10, <2>2, LocalsKept DEF ReadTarget, history
<1>11. CASE Link(c)
  <2>1. target[c] \in Users /\ attempt[c] < MaxAttempts
    BY <1>11 DEF Link, OInv, OnCourse, TargetOK, AttemptOK, Exists
  <2>2. UNCHANGED <<states, request, profile, found, target, seen, taken>>
    BY <1>11 DEF Link
  <2>3. CASE WriteLink(c)
    <3>1. seen[c] \in Record
      BY <1>0 DEF TypeOK
    <3>2. WithIdentity(c) \in Record /\ seen[c].email \in Emails
      BY <1>0, <3>1 DEF WithIdentity, Record
    <3>3. Writes(c) /\ UNCHANGED attempt
      BY <2>1, <2>3, <3>2 DEF WriteLink, Writes
    <3>4. QED
      BY <1>0, <2>2, <3>3, LocalsKept
  <2>4. CASE Retry(c)
    <3>1. attempt[c] + 1 \in 0..MaxAttempts
      BY <1>0, <2>1, OAuthAssumption DEF TypeOK
    <3>2. attempt' = [attempt EXCEPT ![c] = attempt[c] + 1]
      BY <2>4 DEF Retry
    <3>3. QED
      BY <1>0, <2>2, <2>4, <3>1, <3>2, LocalsKept DEF Retry
  <2>5. CASE Refuse(c)
    BY <1>0, <2>2, <2>5, LocalsKept DEF Refuse
  <2>6. QED
    BY <1>11, <2>3, <2>4, <2>5 DEF Link, Commit
<1>12. CASE VerifyLink(c) \/ CommandFails(c)
  BY <1>0, <1>12, LocalsKept DEF VerifyLink, CommandFails, local, history
<1>13. CASE Finish(c)
  <2>1. 0 \in 0..MaxAttempts
    BY OAuthAssumption
  <2>2. QED
    BY <1>0, <1>13, <2>1, LocalsKept, RecordTypes DEF Finish, Forget, history
<1>14. QED
  BY <1>1, <1>2, <1>3, <1>4, <1>5, <1>6, <1>7, <1>8, <1>9, <1>10, <1>11, <1>12, <1>13
  DEF CallbackStep, ResolveStep

\* So do a redirect and the expiry of a state.
LEMMA RedirectTypes ==
    ASSUME TypeOK, NEW r \in Redirects, Redirect(r) \/ StateExpires(r), UNCHANGED autoLinkVerified
    PROVE  TypeOK'
<1>1. CASE Redirect(r)
  <2>1. Moves(r) /\ r \in Calls
    BY <1>1 DEF Redirect, Moves, Verdicts, Calls
  <2>2. ControlOK'
    BY <2>1, MovesOK DEF TypeOK, ControlOK
  <2>3. request' \in [Calls -> Request] /\ states' \in SUBSET Redirects
    BY <1>1, <2>1 DEF Redirect, TypeOK
  <2>4. QED
    BY <1>1, <2>2, <2>3 DEF Redirect, TypeOK, ControlOK, store, history
<1>2. CASE StateExpires(r)
  BY <1>2 DEF StateExpires, TypeOK, store, local, history
<1>3. QED
  BY <1>1, <1>2

\* The types hold at first.
LEMMA InitTypes == Init => TypeOK
<1> SUFFICES ASSUME Init PROVE TypeOK
  OBVIOUS
<1>0. NoRecord \in Record /\ Login \in Request /\ AnyProfile \in Profiles /\ 0 \in 0..MaxAttempts
      /\ 0 \in 0..MaxFaults
  BY RecordTypes, OAuthAssumption
<1>1. /\ users \in [Users -> Record] /\ emailIndex \in [Emails -> Users \cup {Nobody}]
      /\ providerIndex \in [Identities -> Users \cup {Nobody}] /\ invited \in SUBSET (Identities \X Users)
  <2>1. CASE \E v \in Users, r \in Profiles :
             /\ users = [u \in Users |->
                   IF u = v THEN [email |-> r.email, providers |-> {r.identity}]
                   ELSE NoRecord]
             /\ emailIndex = [e \in Emails |-> IF e = r.email THEN v ELSE Nobody]
             /\ providerIndex = [p \in Identities |-> IF p = r.identity THEN v ELSE Nobody]
             /\ invited = {<<r.identity, v>>}
    <3>1. PICK v \in Users, r \in Profiles :
             /\ users = [u \in Users |->
                   IF u = v THEN [email |-> r.email, providers |-> {r.identity}]
                   ELSE NoRecord]
             /\ emailIndex = [e \in Emails |-> IF e = r.email THEN v ELSE Nobody]
             /\ providerIndex = [p \in Identities |-> IF p = r.identity THEN v ELSE Nobody]
             /\ invited = {<<r.identity, v>>}
      BY <2>1
    <3>2. r.identity \in Identities /\ r.email \in Emails
      BY ProfileVouched
    <3>3. [email |-> r.email, providers |-> {r.identity}] \in Record
      BY <3>2 DEF Record
    <3>4. QED
      BY <1>0, <3>1, <3>2, <3>3
  <2>2. QED
    BY <1>0, <2>1 DEF Init
<1>2. autoLinkVerified \in BOOLEAN
  BY OAuthAssumption DEF Init
<1>3. QED
  BY <1>0, <1>1, <1>2 DEF Init, TypeOK, Labels, Verdicts

-----------------------------------------------------------------------------
(* The store *)

\* Users keep their identities, and their address.
Grows ==
    \A u \in Users :
        /\ users[u].providers \subseteq users'[u].providers
        /\ Exists(u) => users'[u].email = users[u].email

\* Creating a user whose keys are both free keeps the store consistent.
LEMMA AddKeepsStore ==
    ASSUME TypeOK, StoreOK, NEW c \in Callbacks, NEW u \in Users, ~ Exists(u), AddUser(c, u),
           providerIndex[Id(c)] = Nobody, emailIndex[profile[c].email] = Nobody
    PROVE  StoreOK' /\ Grows
<1> DEFINE p0 == Id(c)
           e0 == profile[c].email
<1>0. /\ p0 \in Identities /\ e0 \in Emails /\ Vouched(p0, e0) /\ Nobody \notin Users
      /\ users[u].providers = {} /\ users \in [Users -> Record]
      /\ emailIndex \in [Emails -> Users \cup {Nobody}]
      /\ providerIndex \in [Identities -> Users \cup {Nobody}]
  BY ProfileVouched, OAuthAssumption DEF TypeOK, Id, Exists
<1>1. /\ \A v \in Users : users'[v] = IF v = u THEN [email |-> e0, providers |-> {p0}] ELSE users[v]
      /\ \A e \in Emails : emailIndex'[e] = IF e = e0 THEN u ELSE emailIndex[e]
      /\ \A p \in Identities : providerIndex'[p] = IF p = p0 THEN u ELSE providerIndex[p]
      /\ invited' = invited \cup {<<p0, u>>}
  BY <1>0 DEF AddUser, NewRecord
<1> HIDE DEF p0, e0
<1>2. Grows
  BY <1>0, <1>1 DEF Grows, Exists
<1>3. ASSUME NEW p \in Identities, NEW v \in Users
      PROVE  (p \in users[v].providers <=> providerIndex[p] = v)'
  <2>1. p \in users[v].providers <=> providerIndex[p] = v
    BY DEF StoreOK, IndexesAgree
  <2>2. providerIndex[p0] = Nobody
    BY DEF p0
  <2>3. QED
    BY <1>0, <1>1, <2>1, <2>2
<1>4. ASSUME NEW e \in Emails, NEW v \in Users
      PROVE  (Exists(v) /\ users[v].email = e <=> emailIndex[e] = v)'
  <2>1. Exists(v) /\ users[v].email = e <=> emailIndex[e] = v
    BY DEF StoreOK, IndexesAgree
  <2>2. emailIndex[e0] = Nobody
    BY DEF e0
  <2>3. QED
    BY <1>0, <1>1, <2>1, <2>2 DEF Exists
<1>5. ASSUME NEW v \in Users PROVE IsFiniteSet(users'[v].providers)
  <2>1. IsFiniteSet(users[v].providers) /\ IsFiniteSet({p0})
    BY FS_Singleton DEF StoreOK
  <2>2. users'[v].providers = IF v = u THEN {p0} ELSE users[v].providers
    BY <1>1
  <2>3. QED
    BY <2>1, <2>2
<1>6. ASSUME NEW v \in Users, NEW p \in users'[v].providers PROVE <<p, v>> \in invited'
  <2>1. p \in users[v].providers => <<p, v>> \in invited
    BY DEF StoreOK, OnlyInvitedLinks
  <2>2. IF v = u THEN p = p0 ELSE p \in users[v].providers
    BY <1>1, <1>6
  <2>3. QED
    BY <1>1, <2>1, <2>2
<1>7. QED
  BY <1>2, <1>3, <1>4, <1>5, <1>6 DEF StoreOK, IndexesAgree, OnlyInvitedLinks

\* So does a link committed over the record that was read.
LEMMA WriteKeepsStore ==
    ASSUME TypeOK, StoreOK, NEW c \in Callbacks, TargetOK(c), pc[c] = "link", Commit(c)
    PROVE  StoreOK' /\ Grows
<1> DEFINE p0 == Id(c)
           u  == target[c]
           e0 == users[u].email
<1>0. /\ p0 \in Identities /\ Nobody \notin Users /\ u \in Users /\ Exists(u)
      /\ seen[c] = users[u] /\ users[u] \in Record /\ e0 \in Emails
      /\ users \in [Users -> Record]
      /\ emailIndex \in [Emails -> Users \cup {Nobody}]
      /\ providerIndex \in [Identities -> Users \cup {Nobody}]
  BY ProfileVouched, OAuthAssumption DEF TypeOK, Id, Exists, TargetOK, Commit, Stale, Record
<1>1. /\ providerIndex[p0] \in {Nobody, u}
      /\ \A v \in Users :
            /\ users'[v].email = users[v].email
            /\ users'[v].providers =
                  IF v = u THEN users[u].providers \cup {p0} ELSE users[v].providers
      /\ \A e \in Emails : emailIndex'[e] = IF e = e0 THEN u ELSE emailIndex[e]
      /\ \A p \in Identities : providerIndex'[p] = IF p = p0 THEN u ELSE providerIndex[p]
  <2>1. /\ WithIdentity(c).email = e0
        /\ WithIdentity(c).providers = users[u].providers \cup {p0}
    BY <1>0 DEF WithIdentity, Record
  <2>2. /\ users' = [users EXCEPT ![u] = WithIdentity(c)]
        /\ emailIndex' = [emailIndex EXCEPT ![e0] = u]
        /\ providerIndex' = [providerIndex EXCEPT ![p0] = u]
        /\ providerIndex[p0] \in {Nobody, u}
    BY <1>0 DEF Commit, WriteLink, Conflict
  <2> HIDE DEF p0, u, e0
  <2>3. \A v \in Users : users'[v] = IF v = u THEN WithIdentity(c) ELSE users[v]
    BY <1>0, <2>2
  <2>4. \A e \in Emails : emailIndex'[e] = IF e = e0 THEN u ELSE emailIndex[e]
    BY <1>0, <2>2
  <2>5. \A p \in Identities : providerIndex'[p] = IF p = p0 THEN u ELSE providerIndex[p]
    BY <1>0, <2>2
  <2>6. users[u].email = e0
    BY DEF e0
  <2>7. ASSUME NEW v \in Users
        PROVE  /\ users'[v].email = users[v].email
               /\ users'[v].providers =
                     IF v = u THEN users[u].providers \cup {p0} ELSE users[v].providers
    <3>1. CASE v = u
      BY <2>1, <2>3, <2>6, <3>1
    <3>2. CASE v # u
      BY <2>3, <3>2
    <3>3. QED
      BY <3>1, <3>2
  <2>8. QED
    BY <2>2, <2>4, <2>5, <2>7
<1>2. invited \subseteq invited' /\ <<p0, u>> \in invited'
  <2>1. invited' = invited \cup {<<p0, u>>}
    <3>1. CASE request[c].mode = "link"
      BY <3>1 DEF Commit, WriteLink
    <3>2. CASE request[c].mode # "link"
      <4>1. request[c] \in Request
        BY DEF TypeOK, Calls
      <4>2. request[c].mode = "login"
        BY <3>2, <4>1 DEF Request, Login
      <4>3. autoLinkVerified /\ e0 = profile[c].email
        BY <4>2 DEF TargetOK
      <4>4. Vouched(p0, e0)
        BY <4>3, ProfileVouched DEF TypeOK, Id
      <4>5. QED
        BY <1>0, <4>3, <4>4 DEF Commit, WriteLink
    <3>3. QED
      BY <3>1, <3>2
  <2>2. QED
    BY <2>1
<1> HIDE DEF p0, u, e0
<1>3. Grows
  BY <1>0, <1>1 DEF Grows, e0
<1>4. ASSUME NEW p \in Identities, NEW v \in Users
      PROVE  (p \in users[v].providers <=> providerIndex[p] = v)'
  <2>1. p \in users[v].providers <=> providerIndex[p] = v
    BY DEF StoreOK, IndexesAgree
  <2>2. QED
    BY <1>0, <1>1, <2>1
<1>5. ASSUME NEW e \in Emails, NEW v \in Users
      PROVE  (Exists(v) /\ users[v].email = e <=> emailIndex[e] = v)'
  <2>1. Exists(v) /\ users[v].email = e <=> emailIndex[e] = v
    BY DEF StoreOK, IndexesAgree
  <2>2. Exists(v)' <=> Exists(v)
    BY <1>0, <1>1 DEF Exists
  <2>3. users'[v].email = users[v].email
    BY <1>1 DEF e0
  <2>4. emailIndex'[e] = emailIndex[e]
    <3>1. emailIndex[e0] = u
      BY <1>0 DEF StoreOK, IndexesAgree, e0
    <3>2. QED
      BY <1>1, <3>1
  <2>5. QED
    BY <2>1, <2>2, <2>3, <2>4
<1>6. ASSUME NEW v \in Users PROVE IsFiniteSet(users'[v].providers)
  <2>1. IsFiniteSet(users[v].providers) /\ IsFiniteSet(users[u].providers \cup {p0})
    BY <1>0, FS_AddElement DEF StoreOK
  <2>2. users'[v].providers = IF v = u THEN users[u].providers \cup {p0} ELSE users[v].providers
    BY <1>1
  <2>3. QED
    BY <2>1, <2>2
<1>7. ASSUME NEW v \in Users, NEW p \in users'[v].providers PROVE <<p, v>> \in invited'
  <2>1. p \in users[v].providers => <<p, v>> \in invited
    BY DEF StoreOK, OnlyInvitedLinks
  <2>2. p \in users[v].providers \/ (v = u /\ p = p0)
    BY <1>1, <1>7
  <2>3. QED
    BY <1>2, <2>1, <2>2
<1>8. QED
  BY <1>3, <1>4, <1>5, <1>6, <1>7 DEF StoreOK, IndexesAgree, OnlyInvitedLinks

\* The steps that leave the store alone.
LEMMA QuietStore ==
    ASSUME StoreOK, UNCHANGED <<store, invited>>
    PROVE  StoreOK' /\ Grows
BY DEF StoreOK, IndexesAgree, OnlyInvitedLinks, Exists, store, Grows

\* Every step of a callback keeps the store consistent and takes nothing away.
LEMMA NextStore ==
    ASSUME OInv, NEW c \in Callbacks, CallbackStep(c)
    PROVE  StoreOK' /\ Grows
<1>0. TypeOK /\ StoreOK /\ TargetOK(c)
  BY DEF OInv, OnCourse
<1>1. CASE CreateUser(c)
  <2>1. \/ UNCHANGED <<store, invited>>
        \/ /\ providerIndex[Id(c)] = Nobody /\ emailIndex[profile[c].email] = Nobody
           /\ \E u \in Users : ~ Exists(u) /\ AddUser(c, u)
    BY <1>1 DEF CreateUser
  <2>2. QED
    BY <1>0, <2>1, QuietStore, AddKeepsStore
<1>2. CASE Link(c)
  <2>1. pc[c] = "link" /\ (UNCHANGED <<store, invited>> \/ Commit(c))
    BY <1>2 DEF Link, Refuse, Retry
  <2>2. QED
    BY <1>0, <2>1, QuietStore, WriteKeepsStore
<1>3. CASE ~ CreateUser(c) /\ ~ Link(c)
  <2>1. UNCHANGED <<store, invited>>
    BY <1>3 DEF CallbackStep, ResolveStep, Take, Present, Exchange, LookUpProvider, FetchOwner,
           FindTarget, LookUpEmail, FetchByEmail, FetchExisting, ReadTarget, VerifyLink,
           Finish, CommandFails, history
  <2>2. QED
    BY <1>0, <2>1, QuietStore
<1>4. QED
  BY <1>1, <1>2, <1>3


-----------------------------------------------------------------------------
(* The course of a callback *)

\* More identities, and at least as many of them.
LEMMA GrowsCounts ==
    ASSUME StoreOK', Grows, NEW u \in Users
    PROVE  /\ Cardinality(users[u].providers) \in Nat
           /\ Cardinality(users'[u].providers) \in Nat
           /\ Cardinality(users[u].providers) <= Cardinality(users'[u].providers)
<1>1. IsFiniteSet(users'[u].providers) /\ users[u].providers \subseteq users'[u].providers
  BY DEF StoreOK, Grows
<1>2. QED
  BY <1>1, FS_Subset, FS_CardinalityType

\* A user that exists goes on existing, with its address and identities.
LEMMA GrowsExists ==
    ASSUME Grows, NEW u, Exists(u)
    PROVE  /\ u \in Users /\ users'[u].providers # {} /\ users'[u].email = users[u].email
           /\ \A p : p \in users[u].providers => p \in users'[u].providers
BY DEF Grows, Exists

LocalsSame(d) ==
    /\ pc'[d] = pc[d] /\ verdict'[d] = verdict[d]
    /\ request'[d] = request[d] /\ profile'[d] = profile[d]
    /\ found'[d] = found[d] /\ target'[d] = target[d]
    /\ seen'[d] = seen[d] /\ attempt'[d] = attempt[d]

\* A callback stays on course while others move.
LEMMA OthersOnCourse ==
    ASSUME TypeOK, StoreOK, StoreOK', Grows, UNCHANGED autoLinkVerified,
           NEW d \in Callbacks, OnCourse(d), LocalsSame(d)
    PROVE  OnCourse(d)'
<1>0. /\ Id(d)' = Id(d) /\ attempt[d] \in Nat /\ MaxAttempts \in Nat
      /\ found[d] \in Users \cup {Nobody}
  BY OAuthAssumption DEF Id, LocalsSame, TypeOK
<1>1. FoundOK(d)'
  <2>1. /\ pc'[d] = pc[d] /\ profile'[d] = profile[d] /\ found'[d] = found[d] /\ FoundOK(d)
    BY DEF LocalsSame, OnCourse
  <2>2. ASSUME pc[d] \in {"fetch", "refetch", "owner"}
        PROVE  found[d] \in Users /\ Id(d) \in users'[found[d]].providers
    BY <2>1, <2>2 DEF FoundOK, Grows
  <2>3. ASSUME pc[d] = "target", found[d] # Nobody
        PROVE  Id(d) \in users'[found[d]].providers
    <3>1. found[d] \in Users
      BY <1>0, <2>3
    <3>2. Id(d) \in users[found[d]].providers
      BY <2>1, <2>3 DEF FoundOK
    <3>3. QED
      BY <3>1, <3>2 DEF Grows
  <2>4. ASSUME pc[d] = "mailbox"
        PROVE  /\ found[d] \in Users /\ users'[found[d]].providers # {}
               /\ users'[found[d]].email = profile[d].email
    BY <2>1, <2>4, GrowsExists DEF FoundOK
  <2>5. QED
    BY <1>0, <2>1, <2>2, <2>3, <2>4 DEF FoundOK, Exists
<1>2. TargetOK(d)'
  <2>1. /\ pc'[d] = pc[d] /\ target'[d] = target[d] /\ TargetOK(d)
        /\ verdict'[d] = verdict[d] /\ request'[d] = request[d] /\ profile'[d] = profile[d]
    BY DEF LocalsSame, OnCourse
  <2>2. ASSUME pc[d] \in {"snapshot", "link", "verify", "relookup", "refetch"}
        PROVE  Exists(target[d]) /\ target[d] \in Users /\ users'[target[d]].providers # {}
               /\ users'[target[d]].email = users[target[d]].email
               /\ \A p : p \in users[target[d]].providers => p \in users'[target[d]].providers
    BY <2>1, <2>2, GrowsExists DEF TargetOK
  <2>3. QED
    BY <1>0, <2>1, <2>2 DEF TargetOK, Exists
<1>3. AttemptOK(d)'
  <2>1. /\ pc'[d] = pc[d] /\ target'[d] = target[d] /\ AttemptOK(d) /\ TargetOK(d)
        /\ verdict'[d] = verdict[d] /\ seen'[d] = seen[d] /\ attempt'[d] = attempt[d]
    BY DEF LocalsSame, OnCourse
  <2>2. ASSUME pc[d] \in {"snapshot", "link"}
        PROVE  /\ Cardinality(users[target[d]].providers) \in Nat
               /\ Cardinality(users'[target[d]].providers) \in Nat
               /\ Cardinality(users[target[d]].providers)
                     <= Cardinality(users'[target[d]].providers)
               /\ users[target[d]].providers \subseteq users'[target[d]].providers
               /\ users'[target[d]].email = users[target[d]].email
    <3>1. Exists(target[d]) /\ target[d] \in Users
      BY <2>1, <2>2 DEF TargetOK, Exists
    <3>2. QED
      BY <3>1, GrowsCounts, GrowsExists DEF Grows
  <2>3. ASSUME verdict[d] = "contention"
        PROVE  /\ pc[d] = "done" /\ target[d] \in Users
               /\ Cardinality(users'[target[d]].providers) > MaxAttempts
    <3>1. /\ pc[d] = "done" /\ target[d] \in Users
          /\ Cardinality(users[target[d]].providers) > MaxAttempts
      BY <2>1, <2>3 DEF AttemptOK
    <3>2. QED
      BY <1>0, <3>1, GrowsCounts
  <2>4. pc[d] = "snapshot" => Cardinality(users'[target[d]].providers) > attempt[d]
    BY <1>0, <2>1, <2>2 DEF AttemptOK
  <2>5. pc[d] = "link" =>
          /\ seen[d].email = users'[target[d]].email
          /\ seen[d].providers \subseteq users'[target[d]].providers
          /\ Cardinality(seen[d].providers) > attempt[d]
    BY <2>1, <2>2 DEF AttemptOK
  <2>6. /\ pc[d] \in BeforeLink => attempt[d] = 0
        /\ pc[d] \in {"snapshot", "link"} => attempt[d] < MaxAttempts
    BY <2>1 DEF AttemptOK
  <2>7. QED
    BY <2>1, <2>3, <2>4, <2>5, <2>6 DEF AttemptOK
<1>4. QED
  BY <1>1, <1>2, <1>3 DEF OnCourse

\* Nothing is asked of a callback that is over, but for these two verdicts.
LEMMA OverOnCourse ==
    ASSUME NEW c \in Callbacks, pc'[c] = "done", verdict'[c] \notin {"integrity", "contention"}
    PROVE  OnCourse(c)'
BY DEF OnCourse, FoundOK, TargetOK, AttemptOK, BeforeLink

\* A callback that ends without these two errors is on its course.
LEMMA EndsOnCourse ==
    ASSUME TypeOK, NEW c \in Callbacks,
           Reject(c) \/ \E v \in Verdicts \ {"integrity", "contention"} : End(c, v)
    PROVE  OnCourse(c)'
<1>1. c \in Calls /\ pc \in [Calls -> Labels] /\ verdict \in [Calls -> Verdicts]
  BY DEF Calls, TypeOK
<1>2. pc'[c] = "done" /\ verdict'[c] \notin {"integrity", "contention"}
  BY <1>1 DEF Reject, End
<1>3. QED
  BY <1>2, OverOnCourse

\* A callback that goes on has had no verdict.
LEMMA Ongoing ==
    ASSUME TypeOK, NEW c \in Callbacks, NEW x \in Labels, Goto(c, x)
    PROVE  pc'[c] = x /\ verdict'[c] = verdict[c]
BY DEF Goto, TypeOK, Calls

\* The identities of a user can be counted.
LEMMA Counts ==
    ASSUME StoreOK', NEW u \in Users
    PROVE  /\ Cardinality(users'[u].providers) \in Nat
           /\ users'[u].providers # {} => Cardinality(users'[u].providers) > 0
<1>1. IsFiniteSet(users'[u].providers)
  BY DEF StoreOK
<1>2. QED
  BY <1>1, FS_CardinalityType, FS_EmptySet

\* Whatever it does next, a callback keeps to its course.
LEMMA SelfOnCourse ==
    ASSUME OInv, NEW c \in Callbacks, CallbackStep(c), UNCHANGED autoLinkVerified,
           TypeOK', StoreOK', Grows
    PROVE  OnCourse(c)'
<1>0. /\ TypeOK /\ StoreOK /\ FoundOK(c) /\ TargetOK(c) /\ AttemptOK(c) /\ c \in Calls
      /\ Id(c) \in Identities /\ profile[c].email \in Emails /\ Nobody \notin Users
      /\ OnCourse(c)
  BY ProfileVouched, OAuthAssumption DEF OInv, OnCourse, Calls, TypeOK, Id
<1>a. /\ pc \in [Calls -> Labels] /\ verdict \in [Calls -> Verdicts]
      /\ request \in [Calls -> Request] /\ profile \in [Callbacks -> Profiles]
      /\ found \in [Callbacks -> Users \cup {Nobody}]
      /\ target \in [Callbacks -> Users \cup {Nobody}]
      /\ seen \in [Callbacks -> Record] /\ attempt \in [Callbacks -> 0..MaxAttempts]
  BY <1>0 DEF TypeOK
<1>b. request[c].mode \in {"login", "link"}
  <2>1. request[c] \in Request
    BY <1>0, <1>a
  <2>2. QED
    BY <2>1 DEF Request, Login
<1>c. /\ \A p \in Identities, u \in Users : p \in users[u].providers <=> providerIndex[p] = u
      /\ \A e \in Emails, u \in Users : Exists(u) /\ users[u].email = e <=> emailIndex[e] = u
      /\ providerIndex[Id(c)] \in Users \cup {Nobody}
      /\ emailIndex[profile[c].email] \in Users \cup {Nobody}
  BY <1>0 DEF StoreOK, IndexesAgree, TypeOK
<1>d. verdict[c] # "integrity" /\ (pc[c] # "done" => verdict[c] # "contention")
  BY <1>0 DEF TargetOK, AttemptOK
<1>1. CASE Take(c)
  <2>1. PICK r \in Redirects : Present(c, r)
    BY <1>1 DEF Take
  <2>2. pc[c] = "idle" /\ attempt[c] = 0 /\ attempt' = attempt
    BY <1>0, <2>1 DEF Present, AttemptOK, BeforeLink
  <2>3. CASE Reject(c) \/ End(c, "rejected")
    BY <1>0, <2>3, EndsOnCourse DEF Verdicts
  <2>4. CASE Goto(c, "exchange") \/ Resend(c)
    <3>1. pc'[c] \in {"exchange", "idle"} /\ verdict'[c] = verdict[c]
      BY <1>0, <1>a, <2>2, <2>4 DEF Goto, Resend
    <3>2. QED
      BY <1>d, <2>2, <3>1 DEF OnCourse, FoundOK, TargetOK, AttemptOK, BeforeLink
  <2>5. QED
    BY <2>1, <2>3, <2>4 DEF Present, Reply
<1>2. CASE Exchange(c)
  <2>1. CASE Goto(c, "lookup")
    <3>1. pc'[c] = "lookup" /\ verdict'[c] = verdict[c] /\ pc[c] = "exchange" /\ attempt' = attempt
      BY <1>0, <1>2, <2>1, Ongoing DEF Exchange, Labels
    <3>2. attempt'[c] = 0
      BY <1>0, <3>1 DEF AttemptOK, BeforeLink
    <3>3. QED
      BY <1>d, <3>1, <3>2 DEF OnCourse, FoundOK, TargetOK, AttemptOK, BeforeLink
  <2>2. CASE End(c, "error")
    BY <1>0, <2>2, EndsOnCourse DEF Verdicts
  <2>3. QED
    BY <1>2, <2>1, <2>2 DEF Exchange
<1>3. CASE LookUpProvider(c)
  <2>1. /\ found'[c] = providerIndex[Id(c)] /\ pc[c] \in {"lookup", "relookup"}
        /\ UNCHANGED <<store, request, profile, target, seen, attempt>>
        /\ \/ End(c, "error")
           \/ found'[c] # Nobody /\ pc[c] = "lookup" /\ Goto(c, "fetch")
           \/ found'[c] # Nobody /\ pc[c] = "relookup" /\ Goto(c, "refetch")
           \/ found'[c] = Nobody /\ pc[c] = "lookup" /\ request[c].mode = "link"
              /\ Goto(c, "target")
           \/ found'[c] = Nobody /\ pc[c] = "lookup" /\ request[c].mode # "link"
              /\ Goto(c, "email")
    BY <1>3, <1>a DEF LookUpProvider
  <2>2. users' = users /\ Id(c)' = Id(c)
    BY <2>1 DEF store, Id
  <2>3. found'[c] # Nobody => found'[c] \in Users /\ Id(c) \in users'[found'[c]].providers
    BY <1>0, <1>c, <2>1, <2>2
  <2>4. CASE End(c, "error")
    BY <1>0, <2>4, EndsOnCourse DEF Verdicts
  <2>5. CASE pc[c] = "lookup" /\ \E x \in {"fetch", "target", "email"} : Goto(c, x)
    <3>1. /\ pc'[c] \in {"fetch", "target", "email"} /\ verdict'[c] = verdict[c]
          /\ pc'[c] = "fetch" => found'[c] # Nobody
          /\ pc'[c] = "email" => request[c].mode # "link"
          /\ pc'[c] = "target" => request[c].mode = "link"
      BY <1>0, <1>a, <2>1, <2>5 DEF Goto, End
    <3>2. attempt'[c] = 0
      BY <1>0, <2>1, <2>5 DEF AttemptOK, BeforeLink
    <3>3. FoundOK(c)'
      BY <2>2, <2>3, <3>1 DEF FoundOK
    <3>4. TargetOK(c)'
      BY <1>b, <1>d, <2>1, <3>1 DEF TargetOK
    <3>5. AttemptOK(c)'
      BY <1>d, <2>5, <3>1, <3>2 DEF AttemptOK, BeforeLink
    <3>6. QED
      BY <3>3, <3>4, <3>5 DEF OnCourse
  <2>6. CASE pc[c] = "relookup" /\ Goto(c, "refetch") /\ found'[c] # Nobody
    <3>1. pc'[c] = "refetch" /\ verdict'[c] = verdict[c]
      BY <1>0, <2>6, Ongoing DEF Labels
    <3>2. Exists(target[c]) /\ request[c].mode # "link"
      BY <1>0, <2>6 DEF TargetOK
    <3>3. FoundOK(c)'
      BY <2>2, <2>3, <2>6, <3>1 DEF FoundOK
    <3>4. TargetOK(c)'
      BY <1>d, <2>1, <2>2, <3>1, <3>2 DEF TargetOK, Exists
    <3>5. AttemptOK(c)'
      BY <1>d, <2>6, <3>1 DEF AttemptOK, BeforeLink
    <3>6. QED
      BY <3>3, <3>4, <3>5 DEF OnCourse
  <2>7. QED
    BY <2>1, <2>4, <2>5, <2>6
<1>4. CASE FetchOwner(c)
  <2>1. /\ pc[c] = "fetch" /\ found' = found
        /\ UNCHANGED <<store, request, profile, seen, attempt>>
        /\ found[c] \in Users /\ Id(c) \in users[found[c]].providers
        /\ \/ Goto(c, "target") /\ request[c].mode = "link"
           \/ Goto(c, "finish")
    BY <1>0, <1>4 DEF FetchOwner, FoundOK
  <2>2. users' = users /\ Id(c)' = Id(c) /\ attempt'[c] = 0
    BY <1>0, <2>1 DEF store, Id, AttemptOK, BeforeLink
  <2>3. /\ pc'[c] \in {"target", "finish"} /\ verdict'[c] = verdict[c]
        /\ pc'[c] = "target" => request[c].mode = "link"
    BY <1>0, <1>a, <2>1 DEF Goto
  <2>4. FoundOK(c)'
    BY <2>1, <2>2, <2>3 DEF FoundOK
  <2>5. TargetOK(c)'
    BY <1>b, <1>d, <2>1, <2>3 DEF TargetOK
  <2>6. AttemptOK(c)'
    BY <1>d, <2>1, <2>2, <2>3 DEF AttemptOK, BeforeLink
  <2>7. QED
    BY <2>4, <2>5, <2>6 DEF OnCourse
<1>5. CASE FindTarget(c)
  <2>1. CASE End(c, "invalid")
    BY <1>0, <2>1, EndsOnCourse DEF Verdicts
  <2>2. CASE ~ End(c, "invalid")
    <3>1. /\ pc[c] = "target" /\ UNCHANGED <<store, request, profile, found, attempt>>
          /\ Exists(request[c].user) /\ found[c] \in {Nobody, request[c].user}
          /\ target' = [target EXCEPT ![c] = request[c].user]
          /\ Goto(c, IF found[c] = Nobody THEN "snapshot" ELSE "verify")
      BY <1>5, <2>2 DEF FindTarget
    <3>2. /\ users' = users /\ attempt'[c] = 0 /\ Id(c)' = Id(c)
          /\ target'[c] = request[c].user /\ request' = request
          /\ request[c].user \in Users /\ users[request[c].user].providers # {}
      BY <1>0, <1>a, <3>1 DEF store, AttemptOK, BeforeLink, Exists, Id
    <3>3. /\ pc'[c] = (IF found[c] = Nobody THEN "snapshot" ELSE "verify")
          /\ verdict'[c] = verdict[c]
      BY <1>0, <3>1, Ongoing DEF Labels
    <3>4. FoundOK(c)'
      BY <3>3 DEF FoundOK
    <3>5. request[c].mode = "link"
      BY <1>0, <3>1 DEF TargetOK
    <3>6. TargetOK(c)'
      BY <1>d, <1>0, <3>1, <3>2, <3>3, <3>5 DEF TargetOK, Exists, FoundOK
    <3>7. AttemptOK(c)'
      BY <1>d, <1>0, <3>1, <3>2, <3>3, Counts, OAuthAssumption DEF AttemptOK, BeforeLink
    <3>8. QED
      BY <3>4, <3>6, <3>7 DEF OnCourse
  <2>3. QED
    BY <2>1, <2>2
<1>6. CASE LookUpEmail(c)
  <2>1. /\ pc[c] = "email" /\ found'[c] = emailIndex[profile[c].email]
        /\ UNCHANGED <<store, request, profile, target, seen, attempt>>
        /\ \/ found'[c] = Nobody /\ Goto(c, "create")
           \/ found'[c] # Nobody /\ Goto(c, "mailbox")
    BY <1>6, <1>a DEF LookUpEmail
  <2>2. /\ users' = users /\ attempt'[c] = 0 /\ request[c].mode # "link"
    BY <1>0, <2>1 DEF store, AttemptOK, BeforeLink, TargetOK
  <2>3. /\ pc'[c] \in {"create", "mailbox"} /\ verdict'[c] = verdict[c]
        /\ pc'[c] = "mailbox" => found'[c] # Nobody
    BY <1>0, <1>a, <2>1 DEF Goto
  <2>4. FoundOK(c)'
    <3>1. pc'[c] = "mailbox" =>
             found'[c] \in Users /\ users[found'[c]].providers # {}
             /\ users[found'[c]].email = profile[c].email
      BY <1>0, <1>c, <2>1, <2>3 DEF Exists
    <3>2. QED
      BY <2>1, <2>2, <2>3, <3>1 DEF FoundOK, Exists
  <2>5. TargetOK(c)'
    BY <1>b, <1>d, <2>1, <2>2, <2>3 DEF TargetOK
  <2>6. AttemptOK(c)'
    BY <1>d, <2>1, <2>2, <2>3 DEF AttemptOK, BeforeLink
  <2>7. QED
    BY <2>4, <2>5, <2>6 DEF OnCourse
<1>7. CASE FetchByEmail(c)
  <2>1. CASE End(c, "link required")
    BY <1>0, <2>1, EndsOnCourse DEF Verdicts
  <2>2. CASE ~ End(c, "link required")
    <3>1. /\ pc[c] = "mailbox" /\ UNCHANGED <<store, request, profile, found, attempt>>
          /\ Exists(found[c]) /\ users[found[c]].email = profile[c].email
          /\ MayAutoLink(c) /\ target' = [target EXCEPT ![c] = found[c]]
          /\ Goto(c, "snapshot")
      BY <1>0, <1>7, <2>2 DEF FetchByEmail, FoundOK
    <3>2. /\ users' = users /\ attempt'[c] = 0 /\ profile' = profile
          /\ target'[c] = found[c] /\ request' = request /\ autoLinkVerified
          /\ found[c] \in Users /\ users[found[c]].providers # {}
          /\ request[c].mode # "link"
      BY <1>0, <1>a, <3>1, ProfileVouched
      DEF store, AttemptOK, BeforeLink, Exists, MayAutoLink, TargetOK
    <3>3. pc'[c] = "snapshot" /\ verdict'[c] = verdict[c]
      BY <1>0, <3>1, Ongoing DEF Labels
    <3>4. FoundOK(c)'
      BY <3>3 DEF FoundOK
    <3>5. TargetOK(c)'
      BY <1>d, <3>1, <3>2, <3>3 DEF TargetOK, Exists
    <3>6. AttemptOK(c)'
      BY <1>d, <1>0, <3>1, <3>2, <3>3, Counts, OAuthAssumption DEF AttemptOK, BeforeLink
    <3>7. QED
      BY <3>4, <3>5, <3>6 DEF OnCourse
  <2>3. QED
    BY <2>1, <2>2
<1>8. CASE CreateUser(c)
  <2>0. /\ pc[c] = "create" /\ attempt' = attempt /\ attempt[c] = 0 /\ request' = request
        /\ request[c].mode # "link" /\ profile' = profile /\ Id(c)' = Id(c)
    BY <1>0, <1>8 DEF CreateUser, AttemptOK, BeforeLink, TargetOK, Id
  <2>1. CASE providerIndex[Id(c)] # Nobody \/ emailIndex[profile[c].email] # Nobody
    <3>1. /\ users' = users
          /\ \/ /\ providerIndex[Id(c)] # Nobody /\ found'[c] = providerIndex[Id(c)]
                /\ Goto(c, "owner")
             \/ /\ emailIndex[profile[c].email] # Nobody
                /\ found'[c] = emailIndex[profile[c].email]
                /\ Goto(c, "mailbox")
      BY <1>8, <1>a, <2>1 DEF CreateUser, store
    <3>2. /\ verdict'[c] = verdict[c]
          /\ \/ /\ pc'[c] = "owner" /\ found'[c] \in Users
                /\ Id(c) \in users[found'[c]].providers
             \/ /\ pc'[c] = "mailbox" /\ found'[c] \in Users
                /\ Exists(found'[c]) /\ users[found'[c]].email = profile[c].email
      BY <1>0, <1>a, <1>c, <3>1 DEF Goto
    <3>3. FoundOK(c)'
      BY <2>0, <3>1, <3>2 DEF FoundOK, Exists
    <3>4. TargetOK(c)'
      BY <1>d, <2>0, <3>2 DEF TargetOK
    <3>5. AttemptOK(c)'
      BY <1>d, <2>0, <3>2 DEF AttemptOK, BeforeLink
    <3>6. QED
      BY <3>3, <3>4, <3>5 DEF OnCourse
  <2>2. CASE ~ (providerIndex[Id(c)] # Nobody \/ emailIndex[profile[c].email] # Nobody)
    <3>1. Reply(c, "finish")
      BY <1>8, <2>2 DEF CreateUser
    <3>2. CASE Reject(c)
      BY <1>0, <3>2, EndsOnCourse
    <3>3. CASE Goto(c, "finish") \/ Resend(c)
      <4>1. pc'[c] \in {"finish", "create"} /\ verdict'[c] = verdict[c]
        BY <1>0, <1>a, <2>0, <3>3 DEF Goto, Resend
      <4>2. FoundOK(c)'
        BY <4>1 DEF FoundOK
      <4>3. TargetOK(c)'
        BY <1>d, <2>0, <4>1 DEF TargetOK
      <4>4. AttemptOK(c)'
        BY <1>d, <2>0, <4>1 DEF AttemptOK, BeforeLink
      <4>5. QED
        BY <4>2, <4>3, <4>4 DEF OnCourse
    <3>4. QED
      BY <3>1, <3>2, <3>3 DEF Reply
  <2>3. QED
    BY <2>1, <2>2
<1>9. CASE FetchExisting(c)
  <2>1. pc[c] = "owner" /\ Goto(c, "finish") /\ UNCHANGED request
    BY <1>0, <1>9 DEF FetchExisting, FoundOK
  <2>2. pc'[c] = "finish" /\ verdict'[c] = verdict[c]
    BY <1>0, <2>1, Ongoing DEF Labels
  <2>3. QED
    BY <1>d, <2>1, <2>2 DEF OnCourse, FoundOK, TargetOK, AttemptOK, BeforeLink
<1>10. CASE ReadTarget(c)
  <2>1. CASE End(c, "error")
    BY <1>0, <2>1, EndsOnCourse DEF Verdicts
  <2>2. CASE Goto(c, "link")
    <3>1. /\ pc[c] = "snapshot" /\ UNCHANGED <<store, request, profile, target, attempt>>
          /\ seen'[c] = users[target[c]]
      BY <1>10, <1>a, <2>2 DEF ReadTarget
    <3>2. pc'[c] = "link" /\ verdict'[c] = verdict[c] /\ users' = users
      BY <1>0, <2>2, <3>1, Ongoing DEF Labels, store
    <3>3. FoundOK(c)'
      BY <3>2 DEF FoundOK
    <3>4. TargetOK(c)'
      BY <1>0, <3>1, <3>2 DEF TargetOK, Exists
    <3>5. AttemptOK(c)'
      BY <1>0, <1>d, <3>1, <3>2 DEF AttemptOK, BeforeLink
    <3>6. QED
      BY <3>3, <3>4, <3>5 DEF OnCourse
  <2>3. QED
    BY <1>10, <2>1, <2>2 DEF ReadTarget
<1>11. CASE Link(c)
  <2> DEFINE t == target[c]
  <2>0. /\ pc[c] = "link" /\ UNCHANGED <<states, request, profile, found, target, seen, taken>>
        /\ Exists(t) /\ t \in Users /\ attempt[c] < MaxAttempts /\ Id(c)' = Id(c)
        /\ attempt[c] \in Nat /\ MaxAttempts \in Nat
        /\ seen[c].email = users[t].email /\ seen[c].providers \subseteq users[t].providers
        /\ Cardinality(seen[c].providers) > attempt[c]
    BY <1>0, <1>a, <1>11, OAuthAssumption DEF Link, TargetOK, AttemptOK, Exists, Id
  <2>1. CASE Refuse(c)
    BY <1>0, <2>1, EndsOnCourse DEF Refuse, Verdicts
  <2>2. CASE Retry(c)
    <3>1. attempt'[c] = attempt[c] + 1 /\ UNCHANGED store /\ Stale(c)
      BY <1>a, <2>2 DEF Retry
    <3>2. Cardinality(users[t].providers) > attempt[c] + 1
      <4>1. users[t] \in Record /\ seen[c] \in Record
        BY <1>0, <1>a, <2>0 DEF TypeOK
      <4>2. users[t].providers # seen[c].providers
        BY <2>0, <3>1, <4>1 DEF Stale, Record
      <4>3. IsFiniteSet(users[t].providers)
        BY <1>0, <2>0 DEF StoreOK
      <4>4. /\ Cardinality(seen[c].providers) \in Nat
            /\ Cardinality(users[t].providers) \in Nat
            /\ Cardinality(seen[c].providers) < Cardinality(users[t].providers)
        BY <2>0, <4>2, <4>3, FS_Subset, FS_CardinalityType
      <4>5. QED
        BY <2>0, <4>4
    <3>3. CASE attempt'[c] = MaxAttempts /\ End(c, "contention")
      <4>1. pc'[c] = "done" /\ verdict'[c] = "contention"
        BY <1>0, <1>a, <3>3 DEF End
      <4>2. users' = users /\ target' = target
        BY <2>0, <3>1 DEF store
      <4>3. FoundOK(c)' /\ TargetOK(c)'
        BY <4>1 DEF FoundOK, TargetOK
      <4>4. AttemptOK(c)'
        BY <2>0, <3>1, <3>2, <3>3, <4>1, <4>2 DEF AttemptOK, BeforeLink
      <4>5. QED
        BY <4>3, <4>4 DEF OnCourse
    <3>4. CASE attempt'[c] # MaxAttempts /\ Goto(c, "snapshot")
      <4>1. pc'[c] = "snapshot" /\ verdict'[c] = verdict[c]
        BY <1>0, <3>4, Ongoing DEF Labels
      <4>2. users' = users /\ target' = target /\ request' = request /\ profile' = profile
        BY <2>0, <3>1 DEF store
      <4>3. FoundOK(c)'
        BY <4>1 DEF FoundOK
      <4>4. TargetOK(c)'
        BY <1>0, <2>0, <4>1, <4>2 DEF TargetOK, Exists
      <4>5. AttemptOK(c)'
        BY <1>d, <2>0, <3>1, <3>2, <3>4, <4>1, <4>2 DEF AttemptOK, BeforeLink
      <4>6. QED
        BY <4>3, <4>4, <4>5 DEF OnCourse
    <3>5. QED
      BY <2>2, <3>3, <3>4 DEF Retry
  <2>3. CASE Commit(c)
    <3>1. /\ UNCHANGED attempt
          /\ Reply(c, IF request[c].mode = "link" THEN "verify" ELSE "relookup")
          /\ users' = [users EXCEPT ![t] = WithIdentity(c)]
      BY <2>3 DEF Commit, WriteLink
    <3>2. CASE Reject(c)
      BY <1>0, <3>2, EndsOnCourse
    <3>3. CASE ~ Reject(c)
      <4>1. /\ verdict'[c] = verdict[c]
            /\ \/ pc'[c] = "link"
               \/ pc'[c] = "verify" /\ request[c].mode = "link"
               \/ pc'[c] = "relookup" /\ request[c].mode # "link"
        BY <1>0, <1>a, <2>0, <3>1, <3>3 DEF Reply, Goto, Resend
      <4>2. /\ users'[t].email = users[t].email /\ users[t].providers \subseteq users'[t].providers
            /\ users'[t].providers # {}
        BY <2>0, GrowsExists DEF Grows
      <4>3. Id(c) \in users'[t].providers
        <5>1. users'[t] = WithIdentity(c) /\ seen[c] \in Record
          BY <1>0, <1>a, <2>0, <3>1 DEF TypeOK
        <5>2. QED
          BY <5>1 DEF WithIdentity, Record
      <4>4. FoundOK(c)'
        BY <4>1 DEF FoundOK
      <4>5. TargetOK(c)'
        BY <1>0, <2>0, <4>1, <4>2, <4>3 DEF TargetOK, Exists
      <4>6. AttemptOK(c)'
        BY <1>d, <2>0, <3>1, <4>1, <4>2 DEF AttemptOK, BeforeLink
      <4>7. QED
        BY <4>4, <4>5, <4>6 DEF OnCourse
    <3>4. QED
      BY <3>2, <3>3
  <2>4. QED
    BY <1>11, <2>1, <2>2, <2>3 DEF Link
<1>12. CASE VerifyLink(c)
  <2>1. /\ pc[c] \in {"verify", "refetch"}
        /\ End(c, "error") \/ Goto(c, "finish")
    BY <1>0, <1>12 DEF VerifyLink, FoundOK, TargetOK
  <2>2. CASE End(c, "error")
    BY <1>0, <2>2, EndsOnCourse DEF Verdicts
  <2>3. CASE Goto(c, "finish")
    <3>1. pc'[c] = "finish" /\ verdict'[c] = verdict[c]
      BY <1>0, <2>3, Ongoing DEF Labels
    <3>2. QED
      BY <1>d, <2>1, <3>1 DEF OnCourse, FoundOK, TargetOK, AttemptOK, BeforeLink
  <2>4. QED
    BY <2>1, <2>2, <2>3
<1>13. CASE Finish(c)
  BY <1>0, <1>13, EndsOnCourse DEF Finish, Verdicts
<1>14. CASE CommandFails(c)
  BY <1>0, <1>14, EndsOnCourse DEF CommandFails
<1>15. QED
  BY <1>1, <1>2, <1>3, <1>4, <1>5, <1>6, <1>7, <1>8, <1>9, <1>10, <1>11, <1>12, <1>13, <1>14
  DEF CallbackStep, ResolveStep

\* The locals of the other callbacks, and of every callback when a redirect moves.
LEMMA OthersSame ==
    ASSUME TypeOK, NEW c \in Callbacks, StepTypes(c), Moves(c), NEW d \in Callbacks, d # c
    PROVE  LocalsSame(d)
<1>1. c \in Calls /\ d \in Calls
  BY DEF Calls
<1>2. pc'[d] = pc[d] /\ verdict'[d] = verdict[d]
  BY <1>1, MovesOK DEF TypeOK, ControlOK
<1>3. request'[d] = request[d] /\ profile'[d] = profile[d]
  BY <1>1 DEF StepTypes, TypeOK
<1>4. found'[d] = found[d] /\ target'[d] = target[d]
  BY DEF StepTypes, TypeOK
<1>5. seen'[d] = seen[d] /\ attempt'[d] = attempt[d]
  BY DEF StepTypes, TypeOK
<1>6. QED
  BY <1>2, <1>3, <1>4, <1>5 DEF LocalsSame

\* A redirect touches no callback.
LEMMA RedirectSame ==
    ASSUME TypeOK, NEW r \in Redirects, Redirect(r) \/ StateExpires(r), NEW d \in Callbacks
    PROVE  LocalsSame(d)
<1>1. r # d /\ r \in Calls /\ d \in Calls
  BY OAuthAssumption DEF Calls
<1>2. CASE Redirect(r)
  <2>1. Moves(r)
    BY <1>2 DEF Redirect, Moves, Verdicts
  <2>2. pc'[d] = pc[d] /\ verdict'[d] = verdict[d]
    BY <1>1, <2>1, MovesOK DEF TypeOK, ControlOK
  <2>3. QED
    BY <1>1, <1>2, <2>2 DEF Redirect, LocalsSame, TypeOK
<1>3. CASE StateExpires(r)
  BY <1>3 DEF StateExpires, LocalsSame, local
<1>4. QED
  BY <1>2, <1>3

\* A state is taken once: whoever takes it removes it, and its redirect, over
\* by then, never stores it again.
LEMMA StatesStep ==
    ASSUME TypeOK, StatesOnce,
           \/ \E c \in Callbacks : CallbackStep(c) /\ StepTypes(c)
           \/ \E r \in Redirects : Redirect(r) \/ StateExpires(r)
    PROVE  StatesOnce'
<1>0. /\ states \in SUBSET Redirects /\ taken \in [Redirects -> SUBSET Callbacks]
      /\ pc \in [Calls -> Labels] /\ verdict \in [Calls -> Verdicts]
      /\ Redirects \subseteq Calls
  BY DEF TypeOK, Calls
<1>1. ASSUME NEW c \in Callbacks, CallbackStep(c), StepTypes(c)
      PROVE  StatesOnce'
  <2>1. \A q \in Redirects : pc'[q] = pc[q] /\ verdict'[q] = verdict[q]
    <3>1. Moves(c) /\ c \in Calls /\ c \notin Redirects
      BY <1>1, CallbackMoves, OAuthAssumption DEF Calls
    <3>2. QED
      BY <1>0, <3>1, MovesOK DEF TypeOK, ControlOK
  <2>2. CASE taken' = taken
    BY <1>1, <2>1, <2>2 DEF StatesOnce, StepTypes
  <2>3. CASE taken' # taken
    <3>1. Take(c)
      BY <1>1, <2>3 DEF CallbackStep, ResolveStep, Exchange, LookUpProvider, FetchOwner,
         FindTarget, LookUpEmail, FetchByEmail, CreateUser, FetchExisting, ReadTarget, Link,
         VerifyLink, Finish, CommandFails, history
    <3>2. PICK r \in Redirects : Present(c, r) /\ states' = states \ {r}
      BY <3>1 DEF Take
    <3>3. r \in states /\ taken' = [taken EXCEPT ![r] = @ \cup {c}] /\ verdict[r] = "redirected"
      BY <2>3, <3>2 DEF Present
    <3>4. taken[r] = {} /\ pc[r] # "idle"
      BY <3>3 DEF StatesOnce
    <3>5. \A q \in Redirects : taken'[q] = IF q = r THEN {c} ELSE taken[q]
      BY <1>0, <3>3, <3>4
    <3>6. QED
      BY <2>1, <3>2, <3>4, <3>5 DEF StatesOnce
  <2>4. QED
    BY <2>2, <2>3
<1>2. ASSUME NEW r \in Redirects, Redirect(r)
      PROVE  StatesOnce'
  <2>1. /\ pc[r] = "idle" /\ pc'[r] = "done" /\ states' = states \cup {r} /\ taken' = taken
        /\ \A q \in Redirects \ {r} : pc'[q] = pc[q] /\ verdict'[q] = verdict[q]
    BY <1>0, <1>2 DEF Redirect, End, Reject, history
  <2>2. QED
    BY <2>1 DEF StatesOnce
<1>3. ASSUME NEW r \in Redirects, StateExpires(r)
      PROVE  StatesOnce'
  BY <1>3 DEF StateExpires, StatesOnce, history
<1>4. QED
  BY <1>1, <1>2, <1>3

-----------------------------------------------------------------------------
(* The invariant *)

\* The store is consistent at first.
LEMMA InitStore == Init => StoreOK
<1> SUFFICES ASSUME Init PROVE StoreOK
  OBVIOUS
<1>1. TypeOK /\ Nobody \notin Users /\ NoRecord.providers = {}
  BY InitTypes, RecordTypes, OAuthAssumption
<1>2. CASE /\ users = [u \in Users |-> NoRecord]
           /\ emailIndex = [e \in Emails |-> Nobody]
           /\ providerIndex = [p \in Identities |-> Nobody]
           /\ invited = {}
  <2>1. \A u \in Users : users[u].providers = {} /\ ~ Exists(u)
    BY <1>1, <1>2 DEF Exists
  <2>2. QED
    BY <1>1, <1>2, <2>1, FS_EmptySet DEF StoreOK, IndexesAgree, OnlyInvitedLinks
<1>3. CASE \E v \in Users, r \in Profiles :
             /\ users = [u \in Users |->
                   IF u = v THEN [email |-> r.email, providers |-> {r.identity}]
                   ELSE NoRecord]
             /\ emailIndex = [e \in Emails |-> IF e = r.email THEN v ELSE Nobody]
             /\ providerIndex = [p \in Identities |-> IF p = r.identity THEN v ELSE Nobody]
             /\ invited = {<<r.identity, v>>}
  <2>1. PICK v \in Users, r \in Profiles :
             /\ users = [u \in Users |->
                   IF u = v THEN [email |-> r.email, providers |-> {r.identity}]
                   ELSE NoRecord]
             /\ emailIndex = [e \in Emails |-> IF e = r.email THEN v ELSE Nobody]
             /\ providerIndex = [p \in Identities |-> IF p = r.identity THEN v ELSE Nobody]
             /\ invited = {<<r.identity, v>>}
    BY <1>3
  <2>2. /\ users[v].providers = {r.identity} /\ users[v].email = r.email
        /\ \A u \in Users \ {v} : users[u].providers = {}
    BY <1>1, <2>1
  <2>3. \A u \in Users : Exists(u) <=> u = v
    BY <2>2 DEF Exists
  <2>4. ASSUME NEW u \in Users PROVE IsFiniteSet(users[u].providers)
    <3>1. users[u].providers = {r.identity} \/ users[u].providers = {}
      BY <2>2
    <3>2. QED
      BY <3>1, FS_EmptySet, FS_Singleton
  <2>5. \A p \in Identities, u \in Users : p \in users[u].providers <=> providerIndex[p] = u
    BY <1>1, <2>1, <2>2
  <2>6. \A e \in Emails, u \in Users : Exists(u) /\ users[u].email = e <=> emailIndex[e] = u
    BY <1>1, <2>1, <2>2, <2>3
  <2>7. \A u \in Users : \A p \in users[u].providers : <<p, u>> \in invited
    BY <2>1, <2>2
  <2>8. QED
    BY <2>4, <2>5, <2>6, <2>7 DEF StoreOK, IndexesAgree, OnlyInvitedLinks
<1>4. QED
  BY <1>2, <1>3 DEF Init

\* The invariant holds at first.
LEMMA InitOInv == Init => OInv
<1> SUFFICES ASSUME Init PROVE OInv
  OBVIOUS
<1>1. TypeOK /\ StoreOK
  BY InitTypes, InitStore
<1>2. StatesOnce
  BY DEF Init, StatesOnce, Calls
<1>3. ASSUME NEW c \in Callbacks PROVE OnCourse(c)
  <2>1. pc[c] = "idle" /\ verdict[c] = "none" /\ attempt[c] = 0
    BY DEF Init, Calls
  <2>2. QED
    BY <2>1 DEF OnCourse, FoundOK, TargetOK, AttemptOK, BeforeLink
<1>4. QED
  BY <1>1, <1>2, <1>3 DEF OInv

\* The invariant is inductive.
LEMMA NextOInv == OInv /\ [Next]_vars => OInv'
<1> SUFFICES ASSUME OInv, [Next]_vars PROVE OInv'
  OBVIOUS
<1>0. TypeOK /\ StoreOK /\ StatesOnce /\ \A c \in Callbacks : OnCourse(c)
  BY DEF OInv
<1>1. ASSUME NEW c \in Callbacks, CallbackStep(c), UNCHANGED autoLinkVerified
      PROVE  OInv'
  <2>1. StepTypes(c) /\ Moves(c)
    BY <1>1, CallbackTypes, CallbackMoves
  <2>2. TypeOK'
    BY <1>0, <1>1, <2>1, StepTypesOK
  <2>3. StoreOK' /\ Grows
    BY <1>1, NextStore
  <2>4. StatesOnce'
    BY <1>0, <1>1, <2>1, StatesStep
  <2>5. ASSUME NEW d \in Callbacks PROVE OnCourse(d)'
    <3>1. CASE d = c
      BY <1>1, <2>2, <2>3, <3>1, SelfOnCourse
    <3>2. CASE d # c
      BY <1>0, <1>1, <2>1, <2>3, <3>2, OthersSame, OthersOnCourse
    <3>3. QED
      BY <3>1, <3>2
  <2>6. QED
    BY <2>2, <2>3, <2>4, <2>5 DEF OInv
<1>2. ASSUME NEW r \in Redirects, Redirect(r) \/ StateExpires(r), UNCHANGED autoLinkVerified
      PROVE  OInv'
  <2>1. TypeOK'
    BY <1>0, <1>2, RedirectTypes
  <2>2. StoreOK' /\ Grows
    <3>1. UNCHANGED <<store, invited>>
      BY <1>2 DEF Redirect, StateExpires, history
    <3>2. QED
      BY <1>0, <3>1, QuietStore
  <2>3. StatesOnce'
    BY <1>0, <1>2, StatesStep
  <2>4. \A d \in Callbacks : OnCourse(d)'
    BY <1>0, <1>2, <2>2, RedirectSame, OthersOnCourse
  <2>5. QED
    BY <2>1, <2>2, <2>3, <2>4 DEF OInv
<1>3. CASE UNCHANGED vars
  <2>1. TypeOK'
    BY <1>0, <1>3 DEF vars, store, local, history, TypeOK
  <2>2. StoreOK' /\ Grows
    BY <1>0, <1>3, QuietStore DEF vars, history
  <2>3. StatesOnce'
    BY <1>0, <1>3 DEF vars, history, StatesOnce
  <2>4. ASSUME NEW d \in Callbacks PROVE OnCourse(d)'
    <3>1. LocalsSame(d) /\ UNCHANGED autoLinkVerified
      BY <1>3 DEF vars, local, LocalsSame
    <3>2. QED
      BY <1>0, <2>2, <3>1, OthersOnCourse
  <2>5. QED
    BY <2>1, <2>2, <2>3, <2>4 DEF OInv
<1>4. QED
  BY <1>1, <1>2, <1>3 DEF Next

\* The strengthened invariant: it relates where each callback is to what the
\* store holds, which the properties below, taken alone, do not preserve.
THEOREM OInvHolds == Spec => []OInv
<1>1. Init => OInv
  BY InitOInv
<1>2. OInv /\ [Next]_vars => OInv'
  BY NextOInv
<1>3. QED
  BY <1>1, <1>2, PTL DEF Spec

\* Every variable keeps its type, through every interleaving of callbacks.
THEOREM TypeCorrect == Spec => []TypeOK
<1>1. OInv => TypeOK
  BY DEF OInv
<1>2. QED
  BY <1>1, OInvHolds, PTL

\* However many callbacks present a state, one at most gets past the check:
\* take removes what it reads.
THEOREM StateIsOneTime == Spec => []StateTakenOnce
<1>1. OInv => StateTakenOnce
  <2> SUFFICES ASSUME OInv, NEW r \in Redirects PROVE Cardinality(taken[r]) <= 1
    BY DEF StateTakenOnce
  <2>1. \A c, d \in taken[r] : c = d
    BY DEF OInv, StatesOnce
  <2>2. CASE taken[r] = {}
    BY <2>2, FS_EmptySet
  <2>3. CASE taken[r] # {}
    <3>1. PICK c \in taken[r] : taken[r] = {c}
      BY <2>1, <2>3
    <3>2. QED
      BY <3>1, FS_Singleton
  <2>4. QED
    BY <2>2, <2>3
<1>2. QED
  BY <1>1, OInvHolds, PTL

\* The two Lua scripts leave the indexes and the records in agreement whatever
\* other callbacks did since the lookups.
THEOREM StoreStaysConsistent == Spec => []IndexesAgree
<1>1. OInv => IndexesAgree
  BY DEF OInv, StoreOK
<1>2. QED
  BY <1>1, OInvHolds, PTL

\* No callback ends with an integrity error: between an index read and the read
\* of the record it named, nothing is taken from a record.
THEOREM NoIntegrityError == Spec => []LookupsAgree
<1>1. OInv => LookupsAgree
  BY DEF OInv, OnCourse, TargetOK, LookupsAgree
<1>2. QED
  BY <1>1, OInvHolds, PTL

\* Every identity of every account was invited: by the account's creation with
\* a verified address, by its signed-in user, or by the policy for such addresses.
THEOREM LinksAreInvited == Spec => []OnlyInvitedLinks
<1>1. OInv => OnlyInvitedLinks
  BY DEF OInv, StoreOK
<1>2. QED
  BY <1>1, OInvHolds, PTL

\* A link given up for contention lost each of its attempts to a link that succeeded.
THEOREM ContentionMeansProgress == Spec => []ContentionIsProgress
<1>1. OInv => ContentionIsProgress
  BY DEF OInv, OnCourse, AttemptOK, ContentionIsProgress
<1>2. QED
  BY <1>1, OInvHolds, PTL

-----------------------------------------------------------------------------
(* Action properties *)

RequesterOnly ==
    \A c \in Callbacks :
        pc'[c] # pc[c] /\ request[c].mode = "link" =>
            \A u \in Users \ {request[c].user} : users'[u] = users[u]

\* No step of a link request changes another user.
LEMMA StepLinksRequester ==
    ASSUME OInv, [Next]_vars
    PROVE  RequesterOnly
<1>0. TypeOK /\ \A c \in Callbacks : OnCourse(c)
  BY DEF OInv
<1> SUFFICES ASSUME NEW c \in Callbacks, pc'[c] # pc[c], request[c].mode = "link",
                    NEW u \in Users \ {request[c].user}
             PROVE  users'[u] = users[u]
  BY DEF RequesterOnly
<1>1. PICK d \in Callbacks : CallbackStep(d)
  <2>1. ~ UNCHANGED vars
    BY DEF vars
  <2>2. \A r \in Redirects : ~ (Redirect(r) \/ StateExpires(r))
    BY <1>0, RedirectSame DEF LocalsSame
  <2>3. QED
    BY <2>1, <2>2 DEF Next
<1>2. d = c
  <2>1. StepTypes(d) /\ Moves(d)
    BY <1>1, CallbackTypes, CallbackMoves
  <2>2. QED
    BY <1>0, <2>1, OthersSame DEF LocalsSame
<1>3. TargetOK(c) /\ users \in [Users -> Record]
  BY <1>0 DEF OnCourse, TypeOK
<1>4. CASE CreateUser(c)
  BY <1>3, <1>4 DEF CreateUser, TargetOK
<1>5. CASE Link(c)
  <2>1. target[c] = request[c].user
    BY <1>3, <1>5 DEF Link, TargetOK
  <2>2. CASE WriteLink(c)
    BY <1>3, <2>1, <2>2 DEF WriteLink
  <2>3. CASE UNCHANGED store
    BY <2>3 DEF store
  <2>4. QED
    BY <1>5, <2>2, <2>3 DEF Link, Refuse, Retry, Commit
<1>6. CASE ~ CreateUser(c) /\ ~ Link(c)
  <2>1. UNCHANGED store
    BY <1>1, <1>2, <1>6 DEF CallbackStep, ResolveStep, Take, Present, Exchange, LookUpProvider,
       FetchOwner, FindTarget, LookUpEmail, FetchByEmail, FetchExisting, ReadTarget, VerifyLink,
       Finish, CommandFails
  <2>2. QED
    BY <2>1 DEF store
<1>7. QED
  BY <1>4, <1>5, <1>6

\* A step of a link callback changes only the record of the user its state names.
THEOREM LinkKeepsToRequester == Spec => LinksOnlyRequester
<1>1. OInv /\ [Next]_vars => [RequesterOnly]_vars
  BY StepLinksRequester
<1>2. QED
  BY <1>1, OInvHolds, PTL DEF Spec, LinksOnlyRequester, RequesterOnly

-----------------------------------------------------------------------------
(* Refinement *)

\* The users the registry knows are those with a record.
LEMMA KnownIsExists ==
    ASSUME TypeOK, StoreOK, NEW u \in Users
    PROVE  Registry!Known(u) <=> Exists(u)
<1>1. \A e \in Emails : Exists(u) /\ users[u].email = e <=> emailIndex[e] = u
  BY DEF StoreOK, IndexesAgree
<1>2. users[u].email \in Emails
  BY DEF TypeOK, Record
<1>3. QED
  BY <1>1, <1>2 DEF Registry!Known

\* createUser is Create and a committed link is Link; a command sent again after
\* it took effect finds the identity where it put it.
LEMMA StepRegisters ==
    ASSUME OInv, [Next]_vars
    PROVE  [Registry!RNext]_<<providerIndex, emailIndex>>
<1>0. /\ TypeOK /\ StoreOK /\ Nobody \notin Users
      /\ emailIndex \in [Emails -> Users \cup {Nobody}]
      /\ providerIndex \in [Identities -> Users \cup {Nobody}]
  BY OAuthAssumption DEF OInv, TypeOK
<1> SUFFICES ASSUME ~ UNCHANGED <<providerIndex, emailIndex>>
             PROVE  Registry!RNext
  OBVIOUS
<1>1. PICK c \in Callbacks : CallbackStep(c)
  BY DEF Next, vars, store, Redirect, StateExpires
<1>2. TargetOK(c) /\ profile[c].email \in Emails /\ Id(c) \in Identities
  BY <1>0, ProfileVouched DEF OInv, OnCourse, TypeOK, Id
<1>3. CASE CreateUser(c)
  <2>1. providerIndex[Id(c)] = Nobody /\ emailIndex[profile[c].email] = Nobody
    BY <1>3 DEF CreateUser, store
  <2>2. PICK u \in Users : ~ Exists(u) /\ AddUser(c, u)
    BY <1>3, <2>1 DEF CreateUser
  <2>3. ~ Registry!Known(u)
    BY <1>0, <2>2, KnownIsExists
  <2>4. Registry!Create(u, profile[c].email, Id(c))
    BY <2>1, <2>2, <2>3 DEF AddUser, Registry!Create
  <2>5. QED
    BY <1>2, <2>4 DEF Registry!RNext
<1>4. CASE Link(c)
  <2> DEFINE u == target[c]
  <2>1. Commit(c) /\ pc[c] = "link"
    BY <1>4 DEF Link, Refuse, Retry, store
  <2>2. /\ Exists(u) /\ u \in Users /\ seen[c] = users[u]
        /\ emailIndex' = [emailIndex EXCEPT ![seen[c].email] = u]
        /\ providerIndex' = [providerIndex EXCEPT ![Id(c)] = u]
        /\ providerIndex[Id(c)] \in {Nobody, u}
    BY <1>2, <2>1 DEF TargetOK, Exists, Commit, Stale, Conflict, WriteLink
  <2>3. users[u].email \in Emails /\ emailIndex[users[u].email] = u
    BY <1>0, <2>2 DEF TypeOK, Record, StoreOK, IndexesAgree
  <2>4. emailIndex' = emailIndex
    BY <1>0, <2>2, <2>3
  <2>5. providerIndex[Id(c)] = Nobody
    BY <1>0, <1>2, <2>2, <2>4
  <2>6. Registry!Known(u)
    BY <1>0, <2>2, KnownIsExists
  <2>7. Registry!Link(u, Id(c))
    BY <2>2, <2>4, <2>5, <2>6 DEF Registry!Link
  <2>8. QED
    BY <1>2, <2>2, <2>7 DEF Registry!RNext
<1>5. CASE ~ CreateUser(c) /\ ~ Link(c)
  <2>1. UNCHANGED store
    BY <1>1, <1>5 DEF CallbackStep, ResolveStep, Take, Present, Exchange, LookUpProvider,
       FetchOwner, FindTarget, LookUpEmail, FetchByEmail, FetchExisting, ReadTarget, VerifyLink,
       Finish, CommandFails
  <2>2. QED
    BY <2>1 DEF store
<1>6. QED
  BY <1>3, <1>4, <1>5

\* An empty store is an empty registry.
LEMMA InitRegisters == Init => Registry!RInit
<1> SUFFICES ASSUME Init PROVE Registry!RInit
  OBVIOUS
<1>1. TypeOK /\ StoreOK
  BY InitTypes, InitStore
<1>2. ASSUME NEW p \in Identities, providerIndex[p] # Nobody
      PROVE  providerIndex[p] \in {u \in Users : Registry!Known(u)}
  <2>1. providerIndex[p] \in Users
    BY <1>1, <1>2 DEF TypeOK
  <2>2. Exists(providerIndex[p])
    BY <1>1, <2>1 DEF StoreOK, IndexesAgree, Exists
  <2>3. QED
    BY <1>1, <2>1, <2>2, KnownIsExists
<1>3. QED
  BY <1>1, <1>2 DEF Registry!RInit, TypeOK

\* The identity store implements the registry: no identity and no address ever
\* changes hands, whatever interleaving and whatever replies are lost.
THEOREM StoreImplementsRegistry == Spec => ImplementsRegistry
<1>1. Init => Registry!RInit
  BY InitRegisters
<1>2. OInv /\ [Next]_vars => [Registry!RNext]_<<providerIndex, emailIndex>>
  BY StepRegisters
<1>3. QED
  BY <1>1, <1>2, OInvHolds, PTL DEF Spec, ImplementsRegistry, Registry!RSpec
=============================================================================
