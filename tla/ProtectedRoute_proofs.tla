------------------------ MODULE ProtectedRoute_proofs ------------------------
(***************************************************************************)
(* For every key ring, route, set of claims and number of requests: the    *)
(* invariants that ProtectedRoute states, and what a valid ring promises.  *)
(***************************************************************************)
EXTENDS ProtectedRoute, FiniteSetTheorems, FunctionTheorems, SequenceTheorems, TLAPS

-----------------------------------------------------------------------------
(* Key rings *)

RingTypes == [keys : Seq(Keys), activeKid : Kids, strict : BOOLEAN]

\* validateJwkConfig counts kids; no two keys of the ring share one.
LEMMA ValidRingUnambiguous ==
    ASSUME NEW ring \in RingTypes, ValidRing(ring)
    PROVE  /\ Len(ring.keys) \in Nat
           /\ \A i \in 1 .. Len(ring.keys) : ring.keys[i] \in Keys
           /\ \A i, j \in 1 .. Len(ring.keys) : ring.keys[i].kid = ring.keys[j].kid => i = j
<1> DEFINE n == Len(ring.keys)
           K == {k.kid : k \in KeysOf(ring)}
           f == [i \in 1 .. n |-> ring.keys[i].kid]
<1>1. n \in Nat /\ \A i \in 1 .. n : ring.keys[i] \in Keys
  BY LenProperties DEF RingTypes
<1>2. f \in Surjection(1 .. n, K)
  <2>1. f \in [1 .. n -> K]
    BY DEF KeysOf
  <2>2. \A x \in K : \E i \in 1 .. n : f[i] = x
    BY DEF KeysOf
  <2> HIDE DEF n, K, f
  <2>3. QED
    BY <2>1, <2>2, Fun_IsSurj
<1>3. IsFiniteSet(1 .. n) /\ Cardinality(1 .. n) = n
  BY <1>1, FS_Interval
<1>4. Cardinality(K) = n
  BY DEF ValidRing
<1>5. f \in Injection(1 .. n, K)
  <2> HIDE DEF n, K, f
  <2> QED
    BY <1>2, <1>3, <1>4, FS_Surjection
<1>6. \A i, j \in 1 .. n : f[i] = f[j] => i = j
  <2> HIDE DEF n, K, f
  <2> QED
    BY <1>5 DEF Injection, IsInjective
<1>7. QED
  BY <1>1, <1>6

\* What a valid ring publishes is a valid key set.
LEMMA ValidRingPublishes ==
    ASSUME NEW ring \in RingTypes, ValidRing(ring)
    PROVE  ValidJwks(GetJwks(ring))
<1> DEFINE n == Len(ring.keys)
           J == GetJwks(ring)
           K == {k.kid : k \in J}
           g == [i \in 1 .. n |-> [kid |-> ring.keys[i].kid, pair |-> ring.keys[i].pair]]
           h == [j \in J |-> j.kid]
<1>1. n \in Nat /\ n \in 1 .. MaxKeys
  BY ValidRingUnambiguous DEF ValidRing
<1>2. IsFiniteSet(1 .. n) /\ Cardinality(1 .. n) = n
  BY <1>1, FS_Interval
<1>3. g \in Surjection(1 .. n, J)
  <2>1. g \in [1 .. n -> J]
    BY DEF GetJwks, KeysOf
  <2>2. \A x \in J : \E i \in 1 .. n : g[i] = x
    BY DEF GetJwks, KeysOf
  <2> HIDE DEF n, J, g
  <2>3. QED
    BY <2>1, <2>2, Fun_IsSurj
<1>4. h \in Surjection(J, K)
  <2>1. h \in [J -> K]
    OBVIOUS
  <2>2. \A x \in K : \E j \in J : h[j] = x
    OBVIOUS
  <2> HIDE DEF J, K, h
  <2>3. QED
    BY <2>1, <2>2, Fun_IsSurj
<1>5. Cardinality(K) = n
  <2>1. K = {k.kid : k \in KeysOf(ring)}
    <3>1. ASSUME NEW k \in KeysOf(ring) PROVE k.kid \in K
      <4>1. [kid |-> k.kid, pair |-> k.pair] \in J
        BY DEF GetJwks
      <4>2. QED
        BY <4>1
    <3>2. ASSUME NEW j \in J PROVE j.kid \in {k.kid : k \in KeysOf(ring)}
      BY DEF GetJwks
    <3>3. QED
      BY <3>1, <3>2
  <2>2. QED
    BY <2>1 DEF ValidRing
<1>6. /\ IsFiniteSet(J) /\ Cardinality(J) <= n /\ Cardinality(J) \in Nat
      /\ Cardinality(K) <= Cardinality(J)
  <2> HIDE DEF n, J, K, g, h
  <2> QED
    BY <1>2, <1>3, <1>4, FS_Surjection, FS_CardinalityType
<1>7. Cardinality(J) = n
  <2> HIDE DEF n, J, K
  <2> QED
    BY <1>1, <1>5, <1>6
<1>8. QED
  BY <1>1, <1>5, <1>7 DEF ValidJwks

\* A valid ring signs with one of its own keys.
LEMMA SignsWithOwnKey ==
    ASSUME NEW ring \in RingTypes, ValidRing(ring)
    PROVE  /\ ActiveKey(ring) \in KeysOf(ring)
           /\ Signature(ring) \in GetJwks(ring)
           /\ Signature(ring) \in [kid : Kids, pair : Pairs]
<1> DEFINE n == Len(ring.keys)
           Active(i) == /\ ring.keys[i].kid = ring.activeKid
                        /\ \A j \in 1 .. i - 1 : ring.keys[j].kid # ring.activeKid
<1>1. /\ n \in Nat /\ \A i \in 1 .. n : ring.keys[i] \in Keys
      /\ \A i, j \in 1 .. n : ring.keys[i].kid = ring.keys[j].kid => i = j
  BY ValidRingUnambiguous
<1>2. PICK i \in 1 .. n : ring.keys[i].kid = ring.activeKid
  BY DEF ValidRing, KeysOf
<1>3. Active(i)
  <2>1. ASSUME NEW j \in 1 .. i - 1, ring.keys[j].kid = ring.activeKid PROVE FALSE
    <3>1. j \in 1 .. n /\ j # i
      BY <1>1
    <3>2. QED
      BY <1>1, <1>2, <2>1, <3>1
  <2>2. QED
    BY <1>2, <2>1
<1>4. PICK a \in 1 .. n : ActiveKey(ring) = ring.keys[a]
  BY <1>3 DEF ActiveKey
<1>5. ActiveKey(ring) \in KeysOf(ring) /\ ActiveKey(ring) \in Keys
  BY <1>1, <1>4 DEF KeysOf
<1>6. QED
  BY <1>5 DEF Signature, GetJwks, Keys

\* A service that has only the published keys accepts what the ring itself accepts.
LEMMA PublishedKeysAgree ==
    ASSUME NEW ring \in RingTypes, ValidRing(ring), NEW token
    PROVE  VerifiesWithJwks(GetJwks(ring), token) <=> Verifies(ring, token, "access")
<1>1. /\ ValidJwks(GetJwks(ring))
      /\ \A i, j \in 1 .. Len(ring.keys) : ring.keys[i].kid = ring.keys[j].kid => i = j
  BY ValidRingUnambiguous, ValidRingPublishes
<1>2. QED
  BY <1>1 DEF VerifiesWithJwks, Verifies

-----------------------------------------------------------------------------
(* The strengthening of the invariants *)

NoClaims == [granted |-> {}, tenants |-> {}, admin |-> FALSE]

SignedToken == [signature : [kid : Kids, pair : Pairs], tokenUse : {"access", "guest"},
                claims : Claims \cup {NoClaims}]

\* TypeOK, and the domains it leaves open.
Typed ==
    /\ TypeOK
    /\ tokens \in Seq(SignedToken)
    /\ request \in [Requests -> [token : Nat, tenant : Tenants \cup {NoTenant},
                                 config : Configs]]
    /\ wasActive \in [Requests -> BOOLEAN]
    /\ wasClear \in [Requests -> BOOLEAN]
    /\ wasSuspect \in [Requests -> BOOLEAN]
    /\ \A config \in deployed : ValidRing(config)

Verified == {"session", "quarantine", "context", "tenant", "served"}

\* The token a request has shown, as far as the first guard has come with it.
TokenChecked(r) ==
    /\ pc[r] = "verify" \/ pc[r] \in Verified => request[r].token # 0
    /\ pc[r] \in Verified => Verifies(request[r].config, Token(r), "access")
    /\ pc[r] = "verify" =>
          wasActive[r] \/ request[r].token \in expired \/ request[r].token # current
    /\ pc[r] = "session" => wasActive[r] \/ request[r].token # current
    /\ pc[r] \in {"quarantine", "context", "tenant", "served"} => wasActive[r]

\* What the request can have met of the session's quarantine.
QuarantineMet(r) ==
    /\ pc[r] \in Waits => (wasClear[r] \/ quarantined) /\ (wasSuspect[r] \/ ~ quarantined)
    /\ pc[r] \in {"context", "tenant", "served"} => wasClear[r]

\* The guards it is past have let it through.
GuardsPassed(r) ==
    /\ pc[r] \in {"idle", "verify", "session", "quarantine", "context"} => guard[r] = 1
    /\ pc[r] = "tenant" =>
          /\ marked[r]
          /\ \A i \in 1 .. guard[r] - 1 :
                /\ ClaimsAllow(Route[i], Token(r).claims)
                /\ AdminAllows(Route[i], Token(r).claims)
                /\ TenantAllowed(request[r].tenant, Token(r).claims)
    /\ pc[r] = "served" => Entitled(r)

Cause(r) ==
    \/ ~ Entitled(r)
    \/ request[r].token \in expired
    \/ request[r].token # current
    \/ wasSuspect[r]

CauseKnown(r) == pc[r] \in {"audit", "refused"} => Cause(r)

\* The audit of the one refusal a request can get.
AuditInStep(r) ==
    /\ waiting[r] \cup rejected[r] \cup recorded[r] \in {{}, Sinks}
    /\ pc[r] = "audit" => waiting[r] \cup rejected[r] \cup recorded[r] = Sinks
    /\ pc[r] = "refused" =>
          /\ waiting[r] = {}
          /\ \/ TurnedAwayByAdmin(r)
             \/ /\ recorded[r] \cup rejected[r] = Sinks
                /\ request[r].config.strict => rejected[r] = {}
    /\ pc[r] \notin {"audit", "refused", "failed"} =>
          waiting[r] = {} /\ rejected[r] = {} /\ recorded[r] = {}

OnCourse(r) ==
    TokenChecked(r) /\ QuarantineMet(r) /\ GuardsPassed(r) /\ CauseKnown(r) /\ AuditInStep(r)

RInv == Typed /\ \A r \in Requests : OnCourse(r)


-----------------------------------------------------------------------------
(* Types *)

AuditMoves(r) ==
    \/ UNCHANGED auditVars
    \/ Emit(r)
    \/ \E s \in Sinks : Accept(r, s) \/ Refuse(r, s)

\* A step of the dispatcher keeps its types.
LEMMA AuditTypes ==
    ASSUME AuditTypeOK, NEW r \in Requests, AuditMoves(r)
    PROVE  AuditTypeOK'
BY DEF AuditTypeOK, AuditMoves, auditVars, Emit, Accept, Refuse, Requests

\* A token once signed is not changed, an expired one stays so, and the session
\* record holds what it held, nothing, or a token signed just now.
Grown ==
    /\ Len(tokens) \in Nat /\ Len(tokens') \in Nat /\ Len(tokens) <= Len(tokens')
    /\ \A t \in 1 .. Len(tokens) : tokens'[t] = tokens[t]
    /\ expired \subseteq expired'
    /\ current' \in {current, 0} \/ current' > Len(tokens)

\* A step that leaves the session alone lets tokens grow, trivially.
LEMMA SessionGrown ==
    ASSUME Typed, UNCHANGED session
    PROVE  Grown
<1>1. Len(tokens) \in Nat
  BY LenProperties DEF Typed
<1>2. QED
  BY <1>1 DEF Grown, session

SessionTypes ==
    /\ Len(tokens) <= MaxTokens
    /\ expired \subseteq 1 .. Len(tokens)
    /\ current \in 0 .. Len(tokens)
    /\ tokens \in Seq(SignedToken)

\* A signed token is appended, and may become the session's.
LEMMA SignTypes ==
    ASSUME Typed, NEW x \in SignedToken, Len(tokens) < MaxTokens,
           tokens' = Append(tokens, x), UNCHANGED expired, current' \in {current, Len(tokens')}
    PROVE  SessionTypes' /\ Grown
<1>0. /\ tokens \in Seq(SignedToken) /\ Len(tokens) \in Nat /\ MaxTokens \in Nat
      /\ expired \subseteq 1 .. Len(tokens) /\ current \in 0 .. Len(tokens)
  BY RouteAssumption, LenProperties DEF Typed, TypeOK
<1>1. /\ tokens' \in Seq(SignedToken) /\ Len(tokens') = Len(tokens) + 1
      /\ \A i \in 1 .. Len(tokens) : tokens'[i] = tokens[i]
  BY <1>0, AppendProperties
<1> HIDE DEF SignedToken
<1>2. SessionTypes'
  BY <1>0, <1>1 DEF SessionTypes
<1>3. Grown
  BY <1>0, <1>1 DEF Grown
<1>4. QED
  BY <1>2, <1>3

\* The requests' locals keep their types when the tokens grow.
LocalTypes ==
    /\ pc \in [Requests -> {"idle"} \cup Waits \cup Answers]
    /\ guard \in [Requests -> 1 .. Len(Route)]
    /\ marked \in [Requests -> BOOLEAN]
    /\ request \in [Requests -> [token : Nat, tenant : Tenants \cup {NoTenant}, config : Configs]]
    /\ \A r \in Requests : request[r].token \in 0 .. Len(tokens) /\ ValidRing(request[r].config)
    /\ wasActive \in [Requests -> BOOLEAN]
    /\ wasClear \in [Requests -> BOOLEAN]
    /\ wasSuspect \in [Requests -> BOOLEAN]
    /\ faults \in 0 .. MaxFaults
    /\ AuditTypeOK

WorldTypes ==
    /\ deployed \subseteq Configs /\ \A config \in deployed : ValidRing(config)
    /\ quarantined \in BOOLEAN
    /\ deploys \in 0 .. MaxDeploys

\* The types by what they are about: session, requests, surroundings.
LEMMA TypedParts == Typed => SessionTypes /\ LocalTypes /\ WorldTypes
BY DEF Typed, TypeOK, SessionTypes, LocalTypes, WorldTypes

\* The converse of TypedParts.
LEMMA PartsTyped == SessionTypes /\ LocalTypes /\ WorldTypes => Typed
<1> SUFFICES ASSUME SessionTypes, LocalTypes, WorldTypes PROVE Typed
  OBVIOUS
<1>1. \A r \in Requests : request[r].tenant \in Tenants \cup {NoTenant}
  BY DEF LocalTypes
<1>2. QED
  BY <1>1 DEF Typed, TypeOK, SessionTypes, LocalTypes, WorldTypes

\* The same of the next state.
LEMMA PartsTypedNext == SessionTypes' /\ LocalTypes' /\ WorldTypes' => Typed'
<1> SUFFICES ASSUME SessionTypes', LocalTypes', WorldTypes' PROVE Typed'
  OBVIOUS
<1>1. \A r \in Requests : request'[r].tenant \in Tenants \cup {NoTenant}
  BY DEF LocalTypes
<1>2. QED
  BY <1>1 DEF Typed, TypeOK, SessionTypes, LocalTypes, WorldTypes

\* A request that is left alone still names a token and a valid ring.
LEMMA RequestStays ==
    ASSUME Typed, Grown, UNCHANGED request
    PROVE  \A r \in Requests :
              request'[r].token \in 0 .. Len(tokens') /\ ValidRing(request'[r].config)
BY DEF Typed, TypeOK, Grown

SignStep ==
    \/ \E config \in deployed, claims \in Claims : SignToken(config, claims)
    \/ \E config \in deployed : GuestToken(config)

AroundStep ==
    \/ TokenExpires \/ RevokeSession \/ Quarantine \/ Release
    \/ \E config \in Configs : Deploy(config) \/ Retire(config)

RequestStep(r) ==
    \/ \E t \in 0 .. Len(tokens), tenant \in Tenants \cup {NoTenant}, config \in deployed :
          Arrive(r, t, tenant, config)
    \/ VerifyToken(r) \/ ReadSession(r) \/ CheckQuarantine(r) \/ AssessContext(r)
    \/ Authorize(r) \/ AnswerRefusal(r) \/ AwaitRejects(r)

SinkStep(r) == \E s \in Sinks : SinkAccepts(r, s) \/ SinkRejects(r, s)

\* A step is a signature, one around the requests, or one of a request.
LEMMA NextSteps ==
    Next <=> SignStep \/ AroundStep \/ \E r \in Requests : RequestStep(r) \/ SinkStep(r)
BY DEF Next, SignStep, AroundStep, RequestStep, SinkStep

\* Signatures keep the types.
LEMMA SignTyped ==
    ASSUME Typed, SignStep
    PROVE  Typed' /\ Grown
<1>1. /\ UNCHANGED <<deployed, quarantined, pc, guard, marked, request, deploys, faults,
                     history, auditVars>>
      /\ SessionTypes' /\ Grown
  <2>1. ASSUME NEW config \in deployed PROVE config \in RingTypes /\ ValidRing(config)
    BY RouteAssumption DEF Typed, TypeOK, RingTypes
  <2>2. ASSUME NEW config \in deployed, NEW claims \in Claims, SignToken(config, claims)
        PROVE  SessionTypes' /\ Grown
    <3>1. [signature |-> Signature(config), tokenUse |-> "access", claims |-> claims]
             \in SignedToken
      BY <2>1, SignsWithOwnKey DEF SignedToken
    <3>2. QED
      BY <2>2, <3>1, SignTypes DEF SignToken
  <2>3. ASSUME NEW config \in deployed, GuestToken(config)
        PROVE  SessionTypes' /\ Grown
    <3>1. [signature |-> Signature(config), tokenUse |-> "guest", claims |-> NoClaims]
             \in SignedToken
      BY <2>1, SignsWithOwnKey DEF SignedToken
    <3>2. QED
      BY <2>3, <3>1, SignTypes DEF GuestToken, NoClaims
  <2>4. QED
    BY <2>2, <2>3 DEF SignStep, SignToken, GuestToken
<1>2. LocalTypes'
  <2>1. LocalTypes
    BY TypedParts
  <2>2. QED
    BY <1>1, <2>1, RequestStays DEF LocalTypes, history, auditVars, AuditTypeOK
<1>3. WorldTypes'
  BY <1>1, TypedParts DEF WorldTypes
<1>4. QED
  BY <1>1, <1>2, <1>3, PartsTypedNext

\* Steps around the requests keep the types.
LEMMA AroundTyped ==
    ASSUME Typed, AroundStep
    PROVE  Typed' /\ Grown
<1>0. SessionTypes /\ LocalTypes /\ WorldTypes /\ Len(tokens) \in Nat
  BY TypedParts, LenProperties DEF SessionTypes
<1>1. UNCHANGED <<tokens, pc, guard, marked, request, faults, wasActive, auditVars>>
  BY DEF AroundStep, TokenExpires, RevokeSession, Quarantine, Release, Deploy, Retire,
     session, history
<1>2. expired \subseteq expired' /\ expired' \subseteq 1 .. Len(tokens) /\ current' \in {current, 0}
  BY <1>0 DEF AroundStep, TokenExpires, RevokeSession, Quarantine, Release, Deploy, Retire,
     session, SessionTypes
<1>3. SessionTypes' /\ Grown
  BY <1>0, <1>1, <1>2 DEF SessionTypes, Grown
<1>4. wasClear' \in [Requests -> BOOLEAN] /\ wasSuspect' \in [Requests -> BOOLEAN]
  <2>1. wasClear' = wasClear \/ wasClear' = [r \in Requests |-> wasClear[r] \/ pc[r] \in Waits]
    BY DEF AroundStep, TokenExpires, RevokeSession, Quarantine, Release, Deploy, Retire, history
  <2>2. \/ wasSuspect' = wasSuspect
        \/ wasSuspect' = [r \in Requests |-> wasSuspect[r] \/ pc[r] \in Waits]
    BY DEF AroundStep, TokenExpires, RevokeSession, Quarantine, Release, Deploy, Retire, history
  <2>3. QED
    BY <1>0, <2>1, <2>2 DEF LocalTypes
<1>5. LocalTypes'
  BY <1>0, <1>1, <1>3, <1>4, RequestStays DEF LocalTypes, auditVars, AuditTypeOK
<1>6. WorldTypes'
  <2>1. CASE \E config \in Configs : Deploy(config) \/ Retire(config)
    <3>1. deploys' \in 0 .. MaxDeploys
      BY <1>0, <2>1, RouteAssumption DEF Deploy, Retire, WorldTypes
    <3>2. QED
      BY <1>0, <2>1, <3>1 DEF Deploy, Retire, WorldTypes
  <2>2. CASE TokenExpires \/ RevokeSession \/ Quarantine \/ Release
    BY <1>0, <2>2 DEF TokenExpires, RevokeSession, Quarantine, Release, WorldTypes
  <2>3. QED
    BY <2>1, <2>2 DEF AroundStep
<1>7. QED
  BY <1>3, <1>5, <1>6, PartsTypedNext

\* What a step of request r does to its own locals, and to nobody else's.
RequestTypes(r) ==
    /\ UNCHANGED <<deployed, session, deploys>>
    /\ quarantined' \in BOOLEAN
    /\ faults' \in 0 .. MaxFaults
    /\ pc' = pc \/ \E x \in Waits \cup Answers : pc' = [pc EXCEPT ![r] = x]
    /\ guard' = guard \/ \E g \in 1 .. Len(Route) : guard' = [guard EXCEPT ![r] = g]
    /\ marked' = marked \/ marked' = [marked EXCEPT ![r] = TRUE]
    /\ \/ request' = request
       \/ \E t \in 0 .. Len(tokens), tenant \in Tenants \cup {NoTenant}, config \in deployed :
             request' =
               [request EXCEPT ![r] = [token |-> t, tenant |-> tenant, config |-> config]]
    /\ wasActive' = wasActive \/ \E b \in BOOLEAN : wasActive' = [wasActive EXCEPT ![r] = b]
    /\ wasClear' = wasClear \/ \E b \in BOOLEAN : wasClear' = [wasClear EXCEPT ![r] = b]
    /\ \/ wasSuspect' = wasSuspect
       \/ \E b \in BOOLEAN : wasSuspect' = [wasSuspect EXCEPT ![r] = b]
       \/ wasSuspect' = [q \in Requests |-> wasSuspect[q] \/ pc[q] \in Waits]
    /\ AuditMoves(r)

\* A step of a request assigns within the types.
LEMMA StepTypes ==
    ASSUME Typed, NEW r \in Requests, RequestStep(r) \/ SinkStep(r)
    PROVE  RequestTypes(r)
<1>0. /\ quarantined \in BOOLEAN /\ faults \in 0 .. MaxFaults /\ MaxFaults \in Nat
      /\ guard[r] \in 1 .. Len(Route) /\ Len(Route) \in Nat
  BY RouteAssumption DEF Typed, TypeOK
<1> USE DEF Waits, Answers, history
<1>1. CASE \E t \in 0 .. Len(tokens), tenant \in Tenants \cup {NoTenant}, config \in deployed :
             Arrive(r, t, tenant, config)
  <2>1. PICK t \in 0 .. Len(tokens), tenant \in Tenants \cup {NoTenant}, config \in deployed :
             Arrive(r, t, tenant, config)
    BY <1>1
  <2>2. /\ UNCHANGED <<deployed, session, quarantined, deploys, guard, marked, faults>>
        /\ AuditMoves(r)
        /\ \E x \in Waits \cup Answers : pc' = [pc EXCEPT ![r] = x]
    BY <2>1 DEF Arrive, RefuseRequest, Proceed, Goto, AuditMoves
  <2>3. /\ request' =
             [request EXCEPT ![r] = [token |-> t, tenant |-> tenant, config |-> config]]
        /\ \E b \in BOOLEAN : wasActive' = [wasActive EXCEPT ![r] = b]
        /\ \E b \in BOOLEAN : wasClear' = [wasClear EXCEPT ![r] = b]
        /\ \E b \in BOOLEAN : wasSuspect' = [wasSuspect EXCEPT ![r] = b]
    BY <1>0, <2>1 DEF Arrive
  <2>4. QED
    BY <1>0, <2>2, <2>3 DEF RequestTypes
<1>2. CASE VerifyToken(r)
  BY <1>0, <1>2 DEF VerifyToken, RefuseRequest, Proceed, Goto, RequestKept, RequestTypes, AuditMoves
<1>3. CASE ReadSession(r)
  BY <1>0, <1>3 DEF ReadSession, RefuseRequest, Proceed, Goto, RequestKept, RequestTypes, AuditMoves
<1>4. CASE CheckQuarantine(r)
  BY <1>0, <1>4
  DEF CheckQuarantine, RefuseRequest, Proceed, Goto, RequestKept, RequestTypes, AuditMoves
<1>5. CASE AssessContext(r)
  <2>1. /\ UNCHANGED <<deployed, session, request, deploys, wasActive, wasClear, guard, faults>>
        /\ quarantined' \in {quarantined, TRUE}
        /\ marked' = marked \/ marked' = [marked EXCEPT ![r] = TRUE]
        /\ wasSuspect' = wasSuspect
           \/ wasSuspect' = [q \in Requests |-> wasSuspect[q] \/ pc[q] \in Waits]
        /\ \E x \in Waits \cup Answers : pc' = [pc EXCEPT ![r] = x]
        /\ AuditMoves(r)
    BY <1>5 DEF AssessContext, RefuseRequest, Goto, AuditMoves
  <2>2. QED
    BY <1>0, <2>1 DEF RequestTypes
<1>6. CASE Authorize(r)
  <2>1. /\ UNCHANGED <<deployed, session, request, deploys, wasActive, wasClear, wasSuspect,
                       faults, quarantined, marked>>
        /\ guard' = guard \/ (guard[r] # Len(Route) /\ guard' = [guard EXCEPT ![r] = @ + 1])
        /\ \E x \in Waits \cup Answers : pc' = [pc EXCEPT ![r] = x]
        /\ AuditMoves(r)
    <3>1. RequestKept /\ UNCHANGED quarantined
      BY <1>6 DEF Authorize
    <3>2. \/ RefuseRequest(r)
          \/ Proceed(r, "refused")
          \/ Proceed(r, "served")
          \/ /\ guard[r] # Len(Route) /\ guard' = [guard EXCEPT ![r] = @ + 1]
             /\ Goto(r, "tenant") \/ Goto(r, "verify")
             /\ UNCHANGED <<marked, faults, auditVars>>
      BY <1>6 DEF Authorize
    <3>3. QED
      BY <3>1, <3>2 DEF RefuseRequest, Proceed, Goto, RequestKept, AuditMoves
  <2>2. guard' = guard \/ \E g \in 1 .. Len(Route) : guard' = [guard EXCEPT ![r] = g]
    <3>1. guard[r] # Len(Route) => guard[r] + 1 \in 1 .. Len(Route)
      BY <1>0
    <3>2. QED
      BY <2>1, <3>1
  <2>3. QED
    BY <1>0, <2>1, <2>2 DEF RequestTypes
<1>7. CASE AnswerRefusal(r)
  BY <1>0, <1>7 DEF AnswerRefusal, Proceed, Goto, RequestKept, RequestTypes, AuditMoves
<1>8. CASE AwaitRejects(r)
  BY <1>0, <1>8 DEF AwaitRejects, Goto, RequestTypes, AuditMoves
<1>9. CASE SinkStep(r)
  <2>1. /\ UNCHANGED <<deployed, session, quarantined, pc, guard, marked, request, deploys, history>>
        /\ faults' = faults \/ (faults < MaxFaults /\ faults' = faults + 1)
        /\ AuditMoves(r)
    <3>1. PICK s \in Sinks : SinkAccepts(r, s) \/ SinkRejects(r, s)
      BY <1>9 DEF SinkStep
    <3>2. QED
      BY <3>1 DEF SinkAccepts, SinkRejects, AuditMoves
  <2>2. faults' \in 0 .. MaxFaults
    BY <1>0, <2>1
  <2>3. QED
    BY <1>0, <2>1, <2>2 DEF RequestTypes
<1>10. QED
  BY <1>1, <1>2, <1>3, <1>4, <1>5, <1>6, <1>7, <1>8, <1>9 DEF RequestStep

\* So it keeps them.
LEMMA RequestTyped ==
    ASSUME Typed, NEW r \in Requests, RequestTypes(r)
    PROVE  Typed' /\ Grown
<1>0. SessionTypes /\ LocalTypes /\ WorldTypes
  BY TypedParts
<1>1. Grown /\ SessionTypes'
  BY <1>0, SessionGrown DEF RequestTypes, SessionTypes, session
<1>2. WorldTypes'
  <2>1. UNCHANGED <<deployed, deploys>> /\ quarantined' \in BOOLEAN
    BY DEF RequestTypes
  <2>2. QED
    BY <1>0, <2>1 DEF WorldTypes
<1>3. pc' \in [Requests -> {"idle"} \cup Waits \cup Answers]
  <2>1. pc' = pc \/ \E x \in Waits \cup Answers : pc' = [pc EXCEPT ![r] = x]
    BY DEF RequestTypes
  <2>2. pc \in [Requests -> {"idle"} \cup Waits \cup Answers]
    BY <1>0 DEF LocalTypes
  <2>3. QED
    BY <2>1, <2>2
<1>4. guard' \in [Requests -> 1 .. Len(Route)] /\ marked' \in [Requests -> BOOLEAN]
  <2>1. /\ guard' = guard \/ \E g \in 1 .. Len(Route) : guard' = [guard EXCEPT ![r] = g]
        /\ marked' = marked \/ marked' = [marked EXCEPT ![r] = TRUE]
    BY DEF RequestTypes
  <2>2. guard \in [Requests -> 1 .. Len(Route)] /\ marked \in [Requests -> BOOLEAN]
    BY <1>0 DEF LocalTypes
  <2>3. QED
    BY <2>1, <2>2
<1>5. /\ request' \in [Requests -> [token : Nat, tenant : Tenants \cup {NoTenant},
                                    config : Configs]]
      /\ \A q \in Requests :
            request'[q].token \in 0 .. Len(tokens') /\ ValidRing(request'[q].config)
  <2>1. CASE request' = request
    BY <1>0, <1>1, <2>1, RequestStays DEF LocalTypes
  <2>2. CASE \E t \in 0 .. Len(tokens), tenant \in Tenants \cup {NoTenant}, config \in deployed :
             request' =
               [request EXCEPT ![r] = [token |-> t, tenant |-> tenant, config |-> config]]
    <3>1. PICK t \in 0 .. Len(tokens), tenant \in Tenants \cup {NoTenant}, config \in deployed :
             request' =
               [request EXCEPT ![r] = [token |-> t, tenant |-> tenant, config |-> config]]
      BY <2>2
    <3>2. config \in Configs /\ ValidRing(config) /\ t \in Nat /\ t \in 0 .. Len(tokens')
      BY <1>0, <1>1 DEF WorldTypes, Grown
    <3>3. ASSUME NEW q \in Requests
          PROVE  request'[q].token \in 0 .. Len(tokens') /\ ValidRing(request'[q].config)
      <4>1. CASE q = r
        BY <1>0, <3>1, <3>2, <4>1 DEF LocalTypes
      <4>2. CASE q # r
        <5>1. request'[q] = request[q] /\ request[q].token \in 0 .. Len(tokens)
              /\ ValidRing(request[q].config)
          BY <1>0, <3>1, <4>2 DEF LocalTypes
        <5>2. QED
          BY <1>1, <5>1 DEF Grown
      <4>3. QED
        BY <4>1, <4>2
    <3>4. QED
      BY <1>0, <3>1, <3>2, <3>3 DEF LocalTypes
  <2>3. QED
    BY <2>1, <2>2 DEF RequestTypes
<1>6. wasActive' \in [Requests -> BOOLEAN] /\ wasClear' \in [Requests -> BOOLEAN]
  <2>1. /\ wasActive' = wasActive \/ \E b \in BOOLEAN : wasActive' = [wasActive EXCEPT ![r] = b]
        /\ wasClear' = wasClear \/ \E b \in BOOLEAN : wasClear' = [wasClear EXCEPT ![r] = b]
    BY DEF RequestTypes
  <2>2. wasActive \in [Requests -> BOOLEAN] /\ wasClear \in [Requests -> BOOLEAN]
    BY <1>0 DEF LocalTypes
  <2>3. QED
    BY <2>1, <2>2
<1>7. wasSuspect' \in [Requests -> BOOLEAN]
  <2>1. \/ wasSuspect' = wasSuspect
        \/ \E b \in BOOLEAN : wasSuspect' = [wasSuspect EXCEPT ![r] = b]
        \/ wasSuspect' = [q \in Requests |-> wasSuspect[q] \/ pc[q] \in Waits]
    BY DEF RequestTypes
  <2>2. wasSuspect \in [Requests -> BOOLEAN]
    BY <1>0 DEF LocalTypes
  <2>3. QED
    BY <2>1, <2>2
<1>8. AuditTypeOK' /\ faults' \in 0 .. MaxFaults
  BY <1>0, AuditTypes DEF RequestTypes, LocalTypes
<1>9. QED
  BY <1>1, <1>2, <1>3, <1>4, <1>5, <1>6, <1>7, <1>8, PartsTypedNext DEF LocalTypes

\* The types hold at first.
LEMMA InitTyped == Init => Typed
<1> SUFFICES ASSUME Init PROVE Typed
  OBVIOUS
<1>1. NoRequest \in [token : Nat, tenant : Tenants \cup {NoTenant}, config : Configs]
  BY RouteAssumption DEF NoRequest
<1>2. tokens \in Seq(SignedToken) /\ Len(tokens) = 0
  BY EmptySeq DEF Init
<1>3. 1 \in 1 .. Len(Route) /\ MaxTokens \in Nat /\ 0 \in 0 .. MaxFaults /\ 0 \in 0 .. MaxDeploys
  BY RouteAssumption
<1>4. SessionTypes
  BY <1>2, <1>3 DEF Init, SessionTypes
<1>5. LocalTypes
  BY <1>1, <1>2, <1>3, RouteAssumption DEF Init, LocalTypes, NoRequest, AuditInit, AuditTypeOK, Requests
<1>6. WorldTypes
  BY <1>3, RouteAssumption DEF Init, WorldTypes
<1>7. QED
  BY <1>4, <1>5, <1>6, PartsTyped

-----------------------------------------------------------------------------
(* The course of a request *)

Same(r) ==
    /\ pc'[r] = pc[r] /\ guard'[r] = guard[r] /\ marked'[r] = marked[r]
    /\ request'[r] = request[r] /\ wasActive'[r] = wasActive[r]

\* A change of the session's quarantine is on record with whoever is waiting.
Watched(r) ==
    /\ wasClear[r] => wasClear'[r]
    /\ wasSuspect[r] => wasSuspect'[r]
    /\ pc[r] \in Waits /\ quarantined' # quarantined =>
          IF quarantined' THEN wasSuspect'[r] ELSE wasClear'[r]

\* Tokens never change: what a request was entitled to it still is.
LEMMA SameToken ==
    ASSUME Typed, Grown, NEW r \in Requests, request'[r] = request[r], guard'[r] = guard[r]
    PROVE  /\ request[r].token # 0 => Token(r)' = Token(r)
           /\ Entitled(r)' = Entitled(r)
           /\ TurnedAwayByAdmin(r)' = TurnedAwayByAdmin(r)
<1>1. request[r].token \in 0 .. Len(tokens) /\ Len(tokens) \in Nat
  BY DEF Typed, TypeOK, Grown
<1>2. request[r].token # 0 => Token(r)' = Token(r)
  BY <1>1 DEF Grown, Token
<1>3. Entitled(r)' = Entitled(r)
  <2>1. CASE request[r].token = 0
    BY <2>1 DEF Entitled
  <2>2. CASE request[r].token # 0
    BY <1>2, <2>2 DEF Entitled
  <2>3. QED
    BY <2>1, <2>2
<1>4. TurnedAwayByAdmin(r)' = TurnedAwayByAdmin(r)
  <2>1. CASE request[r].token = 0
    BY <2>1 DEF TurnedAwayByAdmin
  <2>2. CASE request[r].token # 0
    BY <1>2, <2>2 DEF TurnedAwayByAdmin
  <2>3. QED
    BY <2>1, <2>2
<1>5. QED
  BY <1>2, <1>3, <1>4

\* A token that expired, or was replaced, stays so.
LEMMA TokenStaysOut ==
    ASSUME Typed, Grown, NEW r \in Requests, request'[r] = request[r]
    PROVE  /\ request[r].token \in expired => request'[r].token \in expired'
           /\ request[r].token # 0 /\ request[r].token # current => request'[r].token # current'
BY DEF Typed, TypeOK, Grown

\* A request keeps its cause.
LEMMA CauseStays ==
    ASSUME Typed, Grown, NEW r \in Requests, request'[r] = request[r], guard'[r] = guard[r],
           wasSuspect[r] => wasSuspect'[r], Cause(r)
    PROVE  Cause(r)'
<1>1. CASE ~ Entitled(r)
  BY <1>1, SameToken DEF Cause
<1>2. CASE Entitled(r)
  <2>1. request[r].token # 0
    BY <1>2 DEF Entitled
  <2>2. QED
    BY <1>2, <2>1, TokenStaysOut DEF Cause
<1>3. QED
  BY <1>1, <1>2

Course(r) == TokenChecked(r) /\ QuarantineMet(r) /\ GuardsPassed(r) /\ CauseKnown(r)

\* A request stays on course while the session, the processes and others move.
LEMMA SameCourse ==
    ASSUME Typed, Grown, NEW r \in Requests, Course(r), Same(r), Watched(r),
           quarantined' \in BOOLEAN
    PROVE  Course(r)'
<1>0. /\ request[r].token # 0 => Token(r)' = Token(r)
      /\ Entitled(r)' = Entitled(r)
      /\ pc'[r] = pc[r] /\ guard'[r] = guard[r] /\ marked'[r] = marked[r]
      /\ request'[r] = request[r] /\ wasActive'[r] = wasActive[r]
  BY SameToken DEF Same
<1>1. TokenChecked(r)'
  BY <1>0, TokenStaysOut DEF Course, TokenChecked, Verified
<1>2. QuarantineMet(r)'
  <2>1. quarantined \in BOOLEAN /\ wasClear[r] \in BOOLEAN /\ wasSuspect[r] \in BOOLEAN
    BY DEF Typed, TypeOK
  <2>2. CASE quarantined' = quarantined
    BY <1>0, <2>1, <2>2 DEF Course, QuarantineMet, Watched
  <2>3. CASE quarantined' # quarantined
    BY <1>0, <2>1, <2>3 DEF Course, QuarantineMet, Watched, Waits
  <2>4. QED
    BY <2>2, <2>3
<1>3. GuardsPassed(r)'
  <2>1. pc[r] = "tenant" => request[r].token # 0
    BY DEF Course, TokenChecked, Verified
  <2>2. QED
    BY <1>0, <2>1 DEF Course, GuardsPassed
<1>4. CauseKnown(r)'
  BY <1>0, CauseStays DEF Course, CauseKnown, Watched
<1>5. QED
  BY <1>1, <1>2, <1>3, <1>4 DEF Course

\* A step that touches neither a request nor its audit keeps both in step.
LEMMA SameAudit ==
    ASSUME Typed, Grown, NEW r \in Requests, AuditInStep(r), Same(r),
           waiting'[r] = waiting[r], rejected'[r] = rejected[r], recorded'[r] = recorded[r]
    PROVE  AuditInStep(r)'
BY SameToken DEF Same, AuditInStep

\* A sink settles: what it had in hand it has recorded or rejected.
LEMMA SinkAudit ==
    ASSUME Typed, Grown, NEW r \in Requests, AuditInStep(r), Same(r),
           NEW s \in Sinks, Accept(r, s) \/ Refuse(r, s)
    PROVE  AuditInStep(r)'
<1>1. /\ s \in waiting[r] /\ waiting'[r] = waiting[r] \ {s}
      /\ \/ recorded'[r] = recorded[r] \cup {s} /\ rejected'[r] = rejected[r]
         \/ rejected'[r] = rejected[r] \cup {s} /\ recorded'[r] = recorded[r]
  BY DEF Accept, Refuse, Typed, TypeOK, AuditTypeOK, Requests
<1>2. waiting'[r] \cup rejected'[r] \cup recorded'[r] = waiting[r] \cup rejected[r] \cup recorded[r]
  <2>1. CASE recorded'[r] = recorded[r] \cup {s} /\ rejected'[r] = rejected[r]
    BY <1>1, <2>1
  <2>2. CASE rejected'[r] = rejected[r] \cup {s} /\ recorded'[r] = recorded[r]
    BY <1>1, <2>2
  <2>3. QED
    BY <1>1, <2>1, <2>2
<1>3. pc[r] \in {"audit", "failed"}
  BY <1>1 DEF AuditInStep
<1>4. QED
  BY <1>2, <1>3 DEF AuditInStep, Same

\* The course of a request, and that of its audit.
LEMMA OnCourseParts ==
    ASSUME NEW r \in Requests
    PROVE  /\ OnCourse(r) <=> Course(r) /\ AuditInStep(r)
           /\ OnCourse(r)' <=> Course(r)' /\ AuditInStep(r)'
BY DEF OnCourse, Course

\* A refusal: it has a cause, and every sink has its record in hand.
LEMMA RefusalOnCourse ==
    ASSUME Typed, Typed', NEW r \in Requests, OnCourse(r), pc[r] \notin {"audit", "refused", "failed"},
           RefuseRequest(r), Cause(r)', QuarantineMet(r)'
    PROVE  OnCourse(r)'
<1>1. pc'[r] = "audit"
  BY DEF RefuseRequest, Goto, Typed, TypeOK
<1>2. waiting'[r] = Sinks /\ rejected'[r] = {} /\ recorded'[r] = {}
  <2>1. rejected[r] = {} /\ recorded[r] = {}
    BY DEF OnCourse, AuditInStep
  <2>2. QED
    BY <2>1 DEF RefuseRequest, Emit, Typed, TypeOK, AuditTypeOK, Requests
<1>3. TokenChecked(r)' /\ GuardsPassed(r)' /\ CauseKnown(r)'
  BY <1>1 DEF TokenChecked, GuardsPassed, CauseKnown, Verified
<1>4. AuditInStep(r)'
  BY <1>1, <1>2 DEF AuditInStep
<1>5. QED
  BY <1>3, <1>4 DEF OnCourse

\* A request arrives at the first guard with nothing audited.
LEMMA ArriveOnCourse ==
    ASSUME RInv, Typed', NEW r \in Requests, NEW t \in 0 .. Len(tokens),
           NEW tenant \in Tenants \cup {NoTenant}, NEW config \in deployed,
           Arrive(r, t, tenant, config)
    PROVE  OnCourse(r)'
<1>0. /\ Typed /\ OnCourse(r) /\ pc[r] = "idle" /\ quarantined' = quarantined
      /\ quarantined \in BOOLEAN /\ UNCHANGED <<tokens, expired, current>>
  BY DEF RInv, Typed, TypeOK, Arrive, session
<1>1. /\ request'[r] = [token |-> t, tenant |-> tenant, config |-> config]
      /\ wasActive'[r] = (t # 0 /\ t = current /\ t \notin expired)
      /\ wasClear'[r] = ~ quarantined /\ wasSuspect'[r] = quarantined
  BY <1>0 DEF Arrive, Typed
<1>2. QuarantineMet(r)'
  <2>1. pc'[r] \in {"audit", "verify"}
    BY <1>0 DEF Arrive, RefuseRequest, Proceed, Goto, Typed, TypeOK
  <2>2. QED
    BY <1>0, <1>1, <2>1 DEF QuarantineMet
<1>3. CASE t = 0
  <2>1. Cause(r)'
    BY <1>1, <1>3 DEF Cause, Entitled
  <2>2. QED
    BY <1>0, <1>2, <1>3, <2>1, RefusalOnCourse DEF Arrive
<1>4. CASE t # 0
  <2>1. pc'[r] = "verify" /\ guard' = guard /\ UNCHANGED auditVars
    BY <1>0, <1>4 DEF Arrive, Proceed, Goto, Typed, TypeOK
  <2>2. TokenChecked(r)'
    <3>1. request'[r].token = t
      BY <1>1
    <3>2. wasActive'[r] \/ t \in expired' \/ t # current'
      BY <1>0, <1>1, <1>4
    <3>3. QED
      BY <1>4, <2>1, <3>1, <3>2 DEF TokenChecked, Verified
  <2>3. GuardsPassed(r)'
    BY <1>0, <2>1 DEF GuardsPassed, OnCourse
  <2>4. CauseKnown(r)'
    BY <2>1 DEF CauseKnown
  <2>5. AuditInStep(r)'
    BY <1>0, <2>1 DEF AuditInStep, OnCourse, auditVars
  <2>6. QED
    BY <1>2, <2>2, <2>3, <2>4, <2>5 DEF OnCourse
<1>5. QED
  BY <1>3, <1>4

\* What the steps after Arrive leave alone.
RequestFrame ==
    UNCHANGED <<tokens, expired, current, request, wasActive, wasClear, deployed>>

\* The steps of a request leave the tokens alone.
LEMMA FrameSame ==
    ASSUME Typed, RequestFrame, NEW r \in Requests
    PROVE  /\ Grown /\ request'[r] = request[r] /\ Token(r)' = Token(r)
           /\ Entitled(r)' = Entitled(r)
<1>1. UNCHANGED session
  BY DEF RequestFrame, session
<1>2. request' = request /\ tokens' = tokens
  BY DEF RequestFrame
<1>3. QED
  BY <1>1, <1>2, SessionGrown DEF Token, Entitled

\* A cause to refuse remains one.
LEMMA FrameCause ==
    ASSUME Typed, RequestFrame, NEW r \in Requests, Cause(r), wasSuspect[r] => wasSuspect'[r]
    PROVE  Cause(r)'
BY FrameSame DEF Cause, RequestFrame

\* The quarantine is as it was, and so is what the request met of it.
LEMMA MetKept ==
    ASSUME Typed, NEW r \in Requests, OnCourse(r), pc[r] \in Waits, RequestFrame,
           UNCHANGED <<quarantined, wasSuspect>>,
           pc'[r] \notin {"context", "tenant", "served"}
    PROVE  QuarantineMet(r)'
BY DEF OnCourse, QuarantineMet, RequestFrame

\* A token that verifies was the session's at arrival, or is caught later.
LEMMA VerifyOnCourse ==
    ASSUME RInv, Typed', NEW r \in Requests, VerifyToken(r)
    PROVE  OnCourse(r)'
<1>0. /\ Typed /\ OnCourse(r) /\ pc[r] = "verify" /\ RequestFrame
      /\ UNCHANGED <<quarantined, wasSuspect>> /\ pc[r] \in Waits
  BY DEF RInv, VerifyToken, RequestKept, session, history, RequestFrame, Waits
<1>1. CASE /\ Verifies(request[r].config, Token(r), "access")
           /\ request[r].token \notin expired
           /\ Proceed(r, "session")
  <2>1. pc'[r] = "session" /\ UNCHANGED <<guard, marked, auditVars>>
    BY <1>0, <1>1 DEF Proceed, Goto, Typed, TypeOK
  <2>2. TokenChecked(r)'
    <3>1. /\ request[r].token # 0 /\ (wasActive[r] \/ request[r].token # current)
          /\ Verifies(request[r].config, Token(r), "access")
      BY <1>0, <1>1 DEF OnCourse, TokenChecked
    <3>2. QED
      BY <1>0, <2>1, <3>1, FrameSame DEF TokenChecked, RequestFrame, Verified
  <2>3. QuarantineMet(r)'
    BY <1>0, <2>1, MetKept
  <2>4. GuardsPassed(r)' /\ CauseKnown(r)'
    BY <1>0, <2>1 DEF GuardsPassed, CauseKnown, OnCourse
  <2>5. AuditInStep(r)'
    BY <1>0, <2>1 DEF AuditInStep, OnCourse, auditVars
  <2>6. QED
    BY <2>2, <2>3, <2>4, <2>5 DEF OnCourse
<1>2. CASE /\ ~ (/\ Verifies(request[r].config, Token(r), "access")
                 /\ request[r].token \notin expired)
           /\ RefuseRequest(r)
  <2>1. Cause(r)
    <3>1. request[r].config \in RingTypes /\ ValidRing(request[r].config)
      BY <1>0, RouteAssumption DEF Typed, TypeOK, RingTypes
    <3>2. \A i, j \in 1 .. Len(request[r].config.keys) :
             request[r].config.keys[i].kid = request[r].config.keys[j].kid => i = j
      BY <3>1, ValidRingUnambiguous
    <3>3. Entitled(r) => Verifies(request[r].config, Token(r), "access")
      BY <3>2 DEF Entitled, Verifies
    <3>4. QED
      BY <1>2, <3>3 DEF Cause
  <2>2. pc'[r] = "audit"
    BY <1>0, <1>2 DEF RefuseRequest, Goto, Typed, TypeOK
  <2>3. Cause(r)' /\ QuarantineMet(r)'
    BY <1>0, <2>1, <2>2, FrameCause, MetKept
  <2>4. QED
    BY <1>0, <1>2, <2>3, RefusalOnCourse
<1>3. QED
  BY <1>1, <1>2 DEF VerifyToken

\* A session that is read active was active.
LEMMA ReadOnCourse ==
    ASSUME RInv, Typed', NEW r \in Requests, ReadSession(r)
    PROVE  OnCourse(r)'
<1>0. /\ Typed /\ OnCourse(r) /\ pc[r] = "session" /\ RequestFrame
      /\ UNCHANGED <<quarantined, wasSuspect>> /\ pc[r] \in Waits
  BY DEF RInv, ReadSession, RequestKept, session, history, RequestFrame, Waits
<1>1. CASE current = request[r].token /\ Proceed(r, "quarantine")
  <2>1. pc'[r] = "quarantine" /\ UNCHANGED <<guard, marked, auditVars>>
    BY <1>0, <1>1 DEF Proceed, Goto, Typed, TypeOK
  <2>2. TokenChecked(r)'
    <3>1. /\ request[r].token # 0 /\ wasActive[r]
          /\ Verifies(request[r].config, Token(r), "access")
      BY <1>0, <1>1 DEF OnCourse, TokenChecked, Verified
    <3>2. QED
      BY <1>0, <2>1, <3>1, FrameSame DEF TokenChecked, RequestFrame, Verified
  <2>3. QuarantineMet(r)'
    BY <1>0, <2>1, MetKept
  <2>4. GuardsPassed(r)' /\ CauseKnown(r)'
    BY <1>0, <2>1 DEF GuardsPassed, CauseKnown, OnCourse
  <2>5. AuditInStep(r)'
    BY <1>0, <2>1 DEF AuditInStep, OnCourse, auditVars
  <2>6. QED
    BY <2>2, <2>3, <2>4, <2>5 DEF OnCourse
<1>2. CASE current # request[r].token /\ RefuseRequest(r)
  <2>1. Cause(r)
    BY <1>2 DEF Cause
  <2>2. pc'[r] = "audit"
    BY <1>0, <1>2 DEF RefuseRequest, Goto, Typed, TypeOK
  <2>3. Cause(r)' /\ QuarantineMet(r)'
    BY <1>0, <2>1, <2>2, FrameCause, MetKept
  <2>4. QED
    BY <1>0, <1>2, <2>3, RefusalOnCourse
<1>3. QED
  BY <1>1, <1>2 DEF ReadSession

\* A quarantine that is not found was absent at that moment.
LEMMA CheckOnCourse ==
    ASSUME RInv, Typed', NEW r \in Requests, CheckQuarantine(r)
    PROVE  OnCourse(r)'
<1>0. /\ Typed /\ OnCourse(r) /\ pc[r] = "quarantine" /\ RequestFrame
      /\ UNCHANGED <<quarantined, wasSuspect>> /\ pc[r] \in Waits
  BY DEF RInv, CheckQuarantine, RequestKept, session, history, RequestFrame, Waits
<1>1. CASE ~ quarantined /\ Proceed(r, "context")
  <2>1. pc'[r] = "context" /\ UNCHANGED <<guard, marked, auditVars>>
    BY <1>0, <1>1 DEF Proceed, Goto, Typed, TypeOK
  <2>2. TokenChecked(r)'
    <3>1. /\ request[r].token # 0 /\ wasActive[r]
          /\ Verifies(request[r].config, Token(r), "access")
      BY <1>0, <1>1 DEF OnCourse, TokenChecked, Verified
    <3>2. QED
      BY <1>0, <2>1, <3>1, FrameSame DEF TokenChecked, RequestFrame, Verified
  <2>3. QuarantineMet(r)'
    BY <1>0, <1>1, <2>1 DEF QuarantineMet, OnCourse, RequestFrame
  <2>4. GuardsPassed(r)' /\ CauseKnown(r)'
    BY <1>0, <2>1 DEF GuardsPassed, CauseKnown, OnCourse
  <2>5. AuditInStep(r)'
    BY <1>0, <2>1 DEF AuditInStep, OnCourse, auditVars
  <2>6. QED
    BY <2>2, <2>3, <2>4, <2>5 DEF OnCourse
<1>2. CASE quarantined /\ RefuseRequest(r)
  <2>1. Cause(r)
    BY <1>0, <1>2 DEF Cause, OnCourse, QuarantineMet
  <2>2. pc'[r] = "audit"
    BY <1>0, <1>2 DEF RefuseRequest, Goto, Typed, TypeOK
  <2>3. Cause(r)' /\ QuarantineMet(r)'
    BY <1>0, <2>1, <2>2, FrameCause, MetKept
  <2>4. QED
    BY <1>0, <1>2, <2>3, RefusalOnCourse
<1>3. QED
  BY <1>1, <1>2 DEF CheckQuarantine

\* A change of context quarantines, which is a cause.
LEMMA AssessOnCourse ==
    ASSUME RInv, Typed', NEW r \in Requests, AssessContext(r)
    PROVE  OnCourse(r)'
<1>0. /\ Typed /\ OnCourse(r) /\ pc[r] = "context" /\ RequestFrame /\ pc[r] \in Waits
      /\ wasClear[r] /\ UNCHANGED wasClear
  BY DEF RInv, AssessContext, session, history, RequestFrame, Waits, OnCourse, QuarantineMet
<1>1. CASE /\ quarantined' = TRUE
           /\ wasSuspect' = [q \in Requests |-> wasSuspect[q] \/ pc[q] \in Waits]
           /\ RefuseRequest(r)
  <2>1. pc'[r] = "audit" /\ wasSuspect'[r]
    BY <1>0, <1>1 DEF RefuseRequest, Goto, Typed, TypeOK
  <2>2. Cause(r)' /\ QuarantineMet(r)'
    BY <1>0, <1>1, <2>1 DEF Cause, QuarantineMet
  <2>3. QED
    BY <1>0, <1>1, <2>2, RefusalOnCourse
<1>2. CASE quarantined /\ RefuseRequest(r) /\ UNCHANGED <<quarantined, wasSuspect>>
  <2>1. Cause(r)
    BY <1>0, <1>2 DEF Cause, OnCourse, QuarantineMet
  <2>2. pc'[r] = "audit"
    BY <1>0, <1>2 DEF RefuseRequest, Goto, Typed, TypeOK
  <2>3. Cause(r)' /\ QuarantineMet(r)'
    BY <1>0, <1>2, <2>1, <2>2, FrameCause, MetKept
  <2>4. QED
    BY <1>0, <1>2, <2>3, RefusalOnCourse
<1>3. CASE /\ marked' = [marked EXCEPT ![r] = TRUE] /\ Goto(r, "tenant")
           /\ UNCHANGED <<guard, faults, auditVars, quarantined, wasSuspect>>
  <2>1. pc'[r] = "tenant" /\ marked'[r] /\ guard'[r] = 1
    BY <1>0, <1>3 DEF Goto, Typed, TypeOK, OnCourse, GuardsPassed
  <2>2. TokenChecked(r)'
    <3>1. /\ request[r].token # 0 /\ wasActive[r]
          /\ Verifies(request[r].config, Token(r), "access")
      BY <1>0 DEF OnCourse, TokenChecked, Verified
    <3>2. QED
      BY <1>0, <2>1, <3>1, FrameSame DEF TokenChecked, RequestFrame, Verified
  <2>3. QuarantineMet(r)'
    BY <1>0, <1>3, <2>1 DEF QuarantineMet, OnCourse
  <2>4. GuardsPassed(r)' /\ CauseKnown(r)'
    BY <2>1 DEF GuardsPassed, CauseKnown
  <2>5. AuditInStep(r)'
    BY <1>0, <1>3, <2>1 DEF AuditInStep, OnCourse, auditVars
  <2>6. QED
    BY <2>2, <2>3, <2>4, <2>5 DEF OnCourse
<1>4. QED
  BY <1>1, <1>2, <1>3 DEF AssessContext

\* A guard that allows is passed; one that does not has a cause.
LEMMA AuthorizeOnCourse ==
    ASSUME RInv, Typed', NEW r \in Requests, Authorize(r)
    PROVE  OnCourse(r)'
<1>0. /\ Typed /\ OnCourse(r) /\ pc[r] = "tenant" /\ RequestFrame
      /\ UNCHANGED <<quarantined, wasSuspect>> /\ pc[r] \in Waits
      /\ guard[r] \in 1 .. Len(Route) /\ Len(Route) \in Nat
      /\ guard \in [Requests -> 1 .. Len(Route)]
      /\ pc \in [Requests -> {"idle"} \cup Waits \cup Answers]
  BY RouteAssumption DEF RInv, Authorize, RequestKept, session, history, RequestFrame, Waits,
     Typed, TypeOK
<1>a. /\ request[r].token # 0 /\ wasActive[r] /\ wasClear[r] /\ marked[r]
      /\ Verifies(request[r].config, Token(r), "access")
      /\ \A i \in 1 .. guard[r] - 1 :
            /\ ClaimsAllow(Route[i], Token(r).claims)
            /\ AdminAllows(Route[i], Token(r).claims)
            /\ TenantAllowed(request[r].tenant, Token(r).claims)
      /\ waiting[r] = {} /\ rejected[r] = {} /\ recorded[r] = {}
  BY <1>0 DEF OnCourse, TokenChecked, QuarantineMet, GuardsPassed, AuditInStep, Verified
<1>b. /\ request'[r] = request[r] /\ Token(r)' = Token(r) /\ Entitled(r)' = Entitled(r)
      /\ wasActive'[r] = wasActive[r] /\ wasClear'[r] = wasClear[r]
  BY <1>0, FrameSame DEF RequestFrame
<1>1. CASE RefuseRequest(r) /\ ~ (/\ ClaimsAllow(Route[guard[r]], Token(r).claims)
                                  /\ TenantAllowed(request[r].tenant, Token(r).claims))
  <2>1. Cause(r)
    BY <1>0, <1>1 DEF Cause, Entitled
  <2>2. pc'[r] = "audit"
    BY <1>0, <1>1 DEF RefuseRequest, Goto
  <2>3. Cause(r)' /\ QuarantineMet(r)'
    BY <1>0, <2>1, <2>2, FrameCause, MetKept
  <2>4. QED
    BY <1>0, <1>1, <2>3, RefusalOnCourse
<1>2. CASE /\ ClaimsAllow(Route[guard[r]], Token(r).claims)
           /\ ~ AdminAllows(Route[guard[r]], Token(r).claims)
           /\ Proceed(r, "refused")
  <2>1. pc'[r] = "refused" /\ UNCHANGED <<guard, auditVars>>
    BY <1>0, <1>2 DEF Proceed, Goto
  <2>2. Cause(r) /\ TurnedAwayByAdmin(r)
    BY <1>0, <1>a, <1>2 DEF Cause, Entitled, TurnedAwayByAdmin
  <2>3. Cause(r)' /\ TurnedAwayByAdmin(r)'
    BY <1>0, <2>1, <2>2, FrameCause, FrameSame, SameToken
  <2>4. TokenChecked(r)' /\ QuarantineMet(r)' /\ GuardsPassed(r)' /\ CauseKnown(r)'
    BY <2>1, <2>3 DEF TokenChecked, QuarantineMet, GuardsPassed, CauseKnown, Verified, Waits
  <2>5. AuditInStep(r)'
    BY <1>a, <2>1, <2>3 DEF AuditInStep, auditVars
  <2>6. QED
    BY <2>4, <2>5 DEF OnCourse
<1>3. CASE /\ ClaimsAllow(Route[guard[r]], Token(r).claims)
           /\ TenantAllowed(request[r].tenant, Token(r).claims)
           /\ AdminAllows(Route[guard[r]], Token(r).claims)
           /\ guard[r] = Len(Route)
           /\ Proceed(r, "served")
  <2>1. pc'[r] = "served" /\ UNCHANGED <<guard, auditVars>>
    BY <1>0, <1>3 DEF Proceed, Goto
  <2>2. Entitled(r)
    <3>1. ASSUME NEW i \in 1 .. Len(Route)
          PROVE  ClaimsAllow(Route[i], Token(r).claims) /\ AdminAllows(Route[i], Token(r).claims)
      <4>1. i = guard[r] \/ i \in 1 .. guard[r] - 1
        BY <1>0, <1>3
      <4>2. QED
        BY <1>a, <1>3, <4>1
    <3>2. QED
      BY <1>a, <1>3, <3>1 DEF Entitled, Verifies
  <2>3. TokenChecked(r)'
    BY <1>a, <1>b, <2>1 DEF TokenChecked, Verified
  <2>4. QuarantineMet(r)' /\ GuardsPassed(r)' /\ CauseKnown(r)'
    BY <1>a, <1>b, <2>1, <2>2 DEF QuarantineMet, GuardsPassed, CauseKnown, Waits
  <2>5. AuditInStep(r)'
    BY <1>a, <2>1 DEF AuditInStep, auditVars
  <2>6. QED
    BY <2>3, <2>4, <2>5 DEF OnCourse
<1>4. CASE /\ ClaimsAllow(Route[guard[r]], Token(r).claims)
           /\ TenantAllowed(request[r].tenant, Token(r).claims)
           /\ AdminAllows(Route[guard[r]], Token(r).claims)
           /\ guard' = [guard EXCEPT ![r] = @ + 1]
           /\ Goto(r, "tenant")
           /\ UNCHANGED <<marked, faults, auditVars>>
  <2>1. pc'[r] = "tenant" /\ guard'[r] = guard[r] + 1 /\ marked'[r]
    BY <1>0, <1>a, <1>4 DEF Goto
  <2>2. ASSUME NEW i \in 1 .. guard'[r] - 1
        PROVE  ClaimsAllow(Route[i], Token(r).claims) /\ AdminAllows(Route[i], Token(r).claims)
    <3>1. i = guard[r] \/ i \in 1 .. guard[r] - 1
      BY <1>0, <2>1
    <3>2. QED
      BY <1>a, <1>4, <3>1
  <2>3. TokenChecked(r)'
    BY <1>a, <1>b, <2>1 DEF TokenChecked, Verified
  <2>4. QuarantineMet(r)'
    BY <1>0, <1>a, <1>b, <2>1 DEF QuarantineMet, OnCourse
  <2>5. GuardsPassed(r)' /\ CauseKnown(r)'
    BY <1>b, <1>4, <2>1, <2>2 DEF GuardsPassed, CauseKnown
  <2>6. AuditInStep(r)'
    BY <1>a, <1>4, <2>1 DEF AuditInStep, auditVars
  <2>7. QED
    BY <2>3, <2>4, <2>5, <2>6 DEF OnCourse
<1>5. QED
  BY <1>a, <1>1, <1>2, <1>3, <1>4 DEF Authorize

\* A refusal is answered once its emission has settled.
LEMMA AnswerOnCourse ==
    ASSUME RInv, Typed', NEW r \in Requests, AnswerRefusal(r)
    PROVE  OnCourse(r)'
<1>0. /\ Typed /\ OnCourse(r) /\ pc[r] = "audit" /\ RequestFrame
      /\ UNCHANGED <<quarantined, wasSuspect, auditVars, guard>>
      /\ waiting[r] \cup rejected[r] \cup recorded[r] = Sinks /\ waiting[r] = {} /\ Cause(r)
      /\ \/ pc'[r] = "refused" /\ (request[r].config.strict => rejected[r] = {})
         \/ pc'[r] = "failed"
  BY DEF RInv, AnswerRefusal, RequestKept, session, history, RequestFrame, OnCourse, AuditInStep,
     CauseKnown, Resolves, Rejects, Proceed, Goto, Typed, TypeOK
<1>1. TokenChecked(r)' /\ QuarantineMet(r)' /\ GuardsPassed(r)'
  BY <1>0 DEF TokenChecked, QuarantineMet, GuardsPassed, Verified, Waits
<1>2. CauseKnown(r)'
  BY <1>0, FrameCause DEF CauseKnown
<1>3. AuditInStep(r)'
  BY <1>0, FrameSame DEF AuditInStep, auditVars
<1>4. QED
  BY <1>1, <1>2, <1>3 DEF OnCourse

\* A rejected await fails the request without a verdict.
LEMMA RejectOnCourse ==
    ASSUME RInv, Typed', NEW r \in Requests, AwaitRejects(r)
    PROVE  OnCourse(r)'
<1>1. pc'[r] = "failed" /\ UNCHANGED auditVars /\ AuditInStep(r)
  BY DEF RInv, AwaitRejects, Goto, Typed, TypeOK, OnCourse
<1>2. QED
  BY <1>1 DEF OnCourse, TokenChecked, QuarantineMet, GuardsPassed, CauseKnown, AuditInStep,
     Verified, Waits, auditVars

\* Every step of a request leaves it on its course.
LEMMA RequestOnCourse ==
    ASSUME RInv, Typed', NEW r \in Requests, RequestStep(r)
    PROVE  OnCourse(r)'
BY ArriveOnCourse, VerifyOnCourse, ReadOnCourse, CheckOnCourse, AssessOnCourse,
   AuthorizeOnCourse, AnswerOnCourse, RejectOnCourse DEF RequestStep

-----------------------------------------------------------------------------
(* The invariant *)

\* Steps around the requests touch none, and are watched by all.
LEMMA AroundWatched ==
    ASSUME Typed, AroundStep, NEW r \in Requests
    PROVE  Same(r) /\ Watched(r) /\ UNCHANGED auditVars
<1>1. UNCHANGED <<pc, guard, marked, request, wasActive, auditVars>>
  BY DEF AroundStep, TokenExpires, RevokeSession, Quarantine, Release, Deploy, Retire, history
<1>2. quarantined \in BOOLEAN
  BY DEF Typed, TypeOK
<1>3. CASE Quarantine
  BY <1>1, <1>2, <1>3 DEF Quarantine, Watched, Same
<1>4. CASE Release
  BY <1>1, <1>2, <1>4 DEF Release, Watched, Same
<1>5. CASE UNCHANGED <<quarantined, wasClear, wasSuspect>>
  BY <1>1, <1>5 DEF Watched, Same
<1>6. QED
  BY <1>1, <1>3, <1>4, <1>5 DEF AroundStep, TokenExpires, RevokeSession, Deploy, Retire, history

\* A step of one request, as the others see it.
LEMMA OthersWatched ==
    ASSUME Typed, NEW q \in Requests, RequestStep(q) \/ SinkStep(q), NEW r \in Requests, r # q
    PROVE  /\ Same(r) /\ Watched(r)
           /\ waiting'[r] = waiting[r] /\ rejected'[r] = rejected[r] /\ recorded'[r] = recorded[r]
<1>0. RequestTypes(q) /\ LocalTypes /\ quarantined \in BOOLEAN
  BY StepTypes, TypedParts DEF Typed, TypeOK
<1>1. pc'[r] = pc[r] /\ guard'[r] = guard[r]
  <2>1. /\ pc' = pc \/ \E x \in Waits \cup Answers : pc' = [pc EXCEPT ![q] = x]
        /\ guard' = guard \/ \E g \in 1 .. Len(Route) : guard' = [guard EXCEPT ![q] = g]
    BY <1>0 DEF RequestTypes
  <2>2. QED
    BY <1>0, <2>1 DEF LocalTypes
<1>2. marked'[r] = marked[r] /\ request'[r] = request[r]
  BY <1>0 DEF RequestTypes, LocalTypes
<1>3. wasActive'[r] = wasActive[r] /\ wasClear'[r] = wasClear[r]
  BY <1>0 DEF RequestTypes, LocalTypes
<1>4. wasSuspect[r] => wasSuspect'[r]
  BY <1>0 DEF RequestTypes, LocalTypes
<1>5. pc[r] \in Waits /\ quarantined' # quarantined => quarantined' /\ wasSuspect'[r]
  <2>1. \/ quarantined' = quarantined
        \/ /\ quarantined' = TRUE
           /\ wasSuspect' = [p \in Requests |-> wasSuspect[p] \/ pc[p] \in Waits]
    BY DEF RequestStep, SinkStep, Arrive, VerifyToken, ReadSession, CheckQuarantine,
       AssessContext, Authorize, AnswerRefusal, AwaitRejects, SinkAccepts, SinkRejects
  <2>2. QED
    BY <2>1
<1>6. waiting'[r] = waiting[r] /\ rejected'[r] = rejected[r] /\ recorded'[r] = recorded[r]
  BY <1>0 DEF RequestTypes, AuditMoves, auditVars, Emit, Accept, Refuse, LocalTypes, AuditTypeOK,
     Requests
<1>7. QED
  BY <1>0, <1>1, <1>2, <1>3, <1>4, <1>5, <1>6 DEF Same, Watched

\* A sink that settles moves no request.
LEMMA SinkOnCourse ==
    ASSUME RInv, Typed', Grown, NEW r \in Requests, SinkStep(r)
    PROVE  OnCourse(r)'
<1>1. PICK s \in Sinks : SinkAccepts(r, s) \/ SinkRejects(r, s)
  BY DEF SinkStep
<1>2. /\ Same(r) /\ Watched(r) /\ (Accept(r, s) \/ Refuse(r, s)) /\ quarantined' = quarantined
  BY <1>1 DEF SinkAccepts, SinkRejects, Same, Watched, history
<1>3. Typed /\ Course(r) /\ AuditInStep(r) /\ quarantined' \in BOOLEAN
  BY <1>2, OnCourseParts DEF RInv, Typed, TypeOK
<1>4. Course(r)' /\ AuditInStep(r)'
  BY <1>2, <1>3, SameCourse, SinkAudit
<1>5. QED
  BY <1>4, OnCourseParts

\* The invariant is inductive.
LEMMA NextRInv == RInv /\ [Next]_vars => RInv'
<1> SUFFICES ASSUME RInv, [Next]_vars PROVE RInv'
  OBVIOUS
<1>0. Typed /\ \A r \in Requests : OnCourse(r) /\ Course(r) /\ AuditInStep(r)
  BY OnCourseParts DEF RInv
<1>1. CASE SignStep
  <2>1. Typed' /\ Grown /\ quarantined' \in BOOLEAN
    BY <1>0, <1>1, SignTyped DEF Typed, TypeOK
  <2>2. ASSUME NEW r \in Requests PROVE OnCourse(r)'
    <3>1. UNCHANGED <<quarantined, pc, guard, marked, request, history, auditVars>>
      BY <1>1 DEF SignStep, SignToken, GuestToken
    <3>2. Same(r) /\ Watched(r)
      BY <3>1 DEF Same, Watched, history
    <3>3. Course(r)' /\ AuditInStep(r)'
      BY <1>0, <2>1, <3>1, <3>2, SameCourse, SameAudit DEF auditVars
    <3>4. QED
      BY <3>3, OnCourseParts
  <2>3. QED
    BY <2>1, <2>2 DEF RInv
<1>2. CASE AroundStep
  <2>1. Typed' /\ Grown /\ quarantined' \in BOOLEAN
    <3>1. Typed' /\ Grown
      BY <1>0, <1>2, AroundTyped
    <3>2. QED
      BY <3>1 DEF Typed, TypeOK
  <2>2. ASSUME NEW r \in Requests PROVE OnCourse(r)'
    <3>1. Same(r) /\ Watched(r) /\ UNCHANGED auditVars
      BY <1>0, <1>2, AroundWatched
    <3>2. Course(r)' /\ AuditInStep(r)'
      BY <1>0, <2>1, <3>1, SameCourse, SameAudit DEF auditVars
    <3>3. QED
      BY <3>2, OnCourseParts
  <2>3. QED
    BY <2>1, <2>2 DEF RInv
<1>3. ASSUME NEW q \in Requests, RequestStep(q) \/ SinkStep(q) PROVE RInv'
  <2>1. Typed' /\ Grown /\ quarantined' \in BOOLEAN
    <3>1. RequestTypes(q)
      BY <1>0, <1>3, StepTypes
    <3>2. Typed' /\ Grown
      BY <1>0, <3>1, RequestTyped
    <3>3. QED
      BY <3>2 DEF Typed, TypeOK
  <2>2. ASSUME NEW r \in Requests PROVE OnCourse(r)'
    <3>1. CASE r = q
      BY <1>3, <2>1, <3>1, RequestOnCourse, SinkOnCourse
    <3>2. CASE r # q
      <4>1. /\ Same(r) /\ Watched(r)
            /\ waiting'[r] = waiting[r] /\ rejected'[r] = rejected[r]
            /\ recorded'[r] = recorded[r]
        BY <1>0, <1>3, <3>2, OthersWatched
      <4>2. Course(r)' /\ AuditInStep(r)'
        BY <1>0, <2>1, <4>1, SameCourse, SameAudit
      <4>3. QED
        BY <4>2, OnCourseParts
    <3>3. QED
      BY <3>1, <3>2
  <2>3. QED
    BY <2>1, <2>2 DEF RInv
<1>4. CASE UNCHANGED vars
  <2>1. UNCHANGED <<deployed, session, quarantined, pc, guard, marked, request, deploys, faults,
                    history, auditVars>>
    BY <1>4 DEF vars
  <2>2. Typed'
    <3>1. SessionTypes' /\ WorldTypes'
      BY <1>0, <2>1, TypedParts DEF SessionTypes, WorldTypes, session
    <3>2. LocalTypes'
      <4>1. LocalTypes /\ tokens' = tokens
        BY <1>0, <2>1, TypedParts DEF session
      <4>2. AuditTypeOK'
        BY <2>1, <4>1 DEF LocalTypes, AuditTypeOK, auditVars
      <4>3. QED
        BY <2>1, <4>1, <4>2 DEF LocalTypes, history
    <3>3. QED
      BY <3>1, <3>2, PartsTypedNext
  <2>3. Grown /\ quarantined' \in BOOLEAN
    BY <1>0, <2>1, <2>2, SessionGrown DEF Typed, TypeOK
  <2>4. ASSUME NEW r \in Requests PROVE OnCourse(r)'
    <3>1. Same(r) /\ Watched(r)
      BY <2>1 DEF Same, Watched, history
    <3>2. Course(r)' /\ AuditInStep(r)'
      BY <1>0, <2>1, <2>3, <3>1, SameCourse, SameAudit DEF auditVars
    <3>3. QED
      BY <3>2, OnCourseParts
  <2>5. QED
    BY <2>2, <2>4 DEF RInv
<1>5. QED
  BY <1>1, <1>2, <1>3, <1>4, NextSteps

\* The invariant holds at first.
LEMMA InitRInv == Init => RInv
<1> SUFFICES ASSUME Init PROVE RInv
  OBVIOUS
<1>1. Typed
  BY InitTyped
<1>2. ASSUME NEW r \in Requests PROVE OnCourse(r)
  <2>1. /\ pc[r] = "idle" /\ guard[r] = 1
        /\ waiting[r] = {} /\ rejected[r] = {} /\ recorded[r] = {}
    BY DEF Init, AuditInit, Requests
  <2>2. QED
    BY <2>1 DEF OnCourse, TokenChecked, QuarantineMet, GuardsPassed, CauseKnown, AuditInStep,
       Verified, Waits
<1>3. QED
  BY <1>1, <1>2 DEF RInv

\* The strengthened invariant: at each await, what the request has shown so far.
THEOREM RInvHolds == Spec => []RInv
<1>1. QED
  BY InitRInv, NextRInv, PTL DEF Spec

\* Every variable keeps its type, for every route and every number of requests.
THEOREM TypeCorrect == Spec => []TypeOK
<1>1. RInv => TypeOK
  BY DEF RInv, Typed
<1>2. QED
  BY <1>1, RInvHolds, PTL

\* authenticateJWT and authorize: nothing that happens between two awaits gets
\* a request served that was not entitled, or that followed a logout, a rotation
\* or an unreleased quarantine.
THEOREM OnlyEntitledServed == Spec => []ServedWasEntitled
<1>1. RInv => ServedWasEntitled
  BY DEF RInv, OnCourse, TokenChecked, QuarantineMet, GuardsPassed, ServedWasEntitled
<1>2. QED
  BY <1>1, RInvHolds, PTL

\* A request is refused for a cause, never for the rotation of keys alone.
THEOREM RefusalsHaveCause == Spec => []RefusedForCause
<1>1. RInv => RefusedForCause
  BY DEF RInv, OnCourse, CauseKnown, Cause, RefusedForCause
<1>2. QED
  BY <1>1, RInvHolds, PTL

\* The audit trail agrees with the answers, whatever sinks fail and when.
THEOREM AuditAgrees == Spec => []RefusalsRecorded
<1>1. RInv => RefusalsRecorded
  <2> SUFFICES ASSUME RInv, NEW r \in Requests
               PROVE  /\ pc[r] = "refused" /\ ~ TurnedAwayByAdmin(r) =>
                            /\ recorded[r] \cup rejected[r] = Sinks
                            /\ request[r].config.strict => recorded[r] = Sinks
                      /\ pc[r] = "served" => recorded[r] = {}
    BY DEF RefusalsRecorded
  <2>1. AuditInStep(r)
    BY DEF RInv, OnCourse
  <2>2. QED
    BY <2>1 DEF AuditInStep
<1>2. QED
  BY <1>1, RInvHolds, PTL

\* Whoever verifies with a process's published keys decides as the process does:
\* every configuration that its constructor accepts publishes an unambiguous set.
THEOREM PublishedKeysSuffice == Spec => []ResourceServersAgree
<1>1. RInv => ResourceServersAgree
  <2> SUFFICES ASSUME RInv PROVE ResourceServersAgree
    OBVIOUS
  <2>0. Typed /\ TypeOK
    BY DEF RInv, Typed
  <2>1. ASSUME NEW config \in deployed, NEW i \in 1 .. Len(tokens)
        PROVE  VerifiesWithJwks(GetJwks(config), tokens[i])
                  <=> Verifies(config, tokens[i], "access")
    <3>1. config \in RingTypes /\ ValidRing(config)
      BY <2>0, RouteAssumption DEF Typed, TypeOK, RingTypes
    <3>2. QED
      BY <3>1, PublishedKeysAgree
  <2>2. ASSUME NEW r \in Requests, pc[r] = "served"
        PROVE  VerifiesWithJwks(GetJwks(request[r].config), Token(r))
    <3>1. request[r].config \in RingTypes /\ ValidRing(request[r].config)
      BY <2>0, RouteAssumption DEF Typed, TypeOK, RingTypes
    <3>2. Verifies(request[r].config, Token(r), "access")
      BY <2>2 DEF RInv, OnCourse, TokenChecked, Verified
    <3>3. QED
      BY <3>1, <3>2, PublishedKeysAgree
  <2>3. QED
    BY <2>1, <2>2 DEF ResourceServersAgree
<1>2. QED
  BY <1>1, RInvHolds, PTL
=============================================================================
