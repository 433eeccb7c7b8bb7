--------------------------- MODULE ProtectedRoute ----------------------------
(***************************************************************************)
(* Requests to a route behind requireRole, requirePermission, requireScope,*)
(* requireTenant and requireAdmin guards.  The first guard authenticates (authenticate- *)
(* JWT: key ring, session record, quarantine, context) and marks the       *)
(* request; every guard then resolves the tenant and compares claims.  A   *)
(* refusal is audited before it is answered.  Each await is one step.      *)
(*                                                                         *)
(* One session of one user is followed.  Around the requests its tokens    *)
(* are reissued, it is revoked, quarantined and released, tokens expire,   *)
(* and processes with other key rings join and leave.  What those services *)
(* do step by step is the matter of RefreshService and SessionRisk.        *)
(***************************************************************************)
EXTENDS KeyRing, AuditDispatcher

CONSTANTS
    Configs,       \* [keys, activeKid, strict]: configurations of a process
    FirstConfig,   \* the one every process starts with
    Route,         \* the guards: a sequence of [any, admin : BOOLEAN, need : set]
    Claims,        \* [granted, tenants, admin]: the claims a token may carry
    Tenants,       \* tenants a request may name
    NoTenant,      \* the resolver found none
    TenantScoped,  \* authorization.resolveTenant is configured
    MoveQuarantines,   \* a changed ip or device is answered with quarantine
    MaxTokens,     \* tokens signed
    MaxDeploys,    \* processes that join or leave
    MaxFaults      \* Redis commands, resolvers and sinks that fail

ASSUME RouteAssumption ==
    /\ Configs \subseteq [keys : Seq(Keys), activeKid : Kids, strict : BOOLEAN]
    /\ FirstConfig \in Configs
    /\ ValidRing(FirstConfig)
    /\ Len(Route) \in Nat \ {0}
    /\ NoTenant \notin Tenants
    /\ \A c \in Claims : c.tenants \subseteq Tenants
    /\ TenantScoped \in BOOLEAN
    /\ MoveQuarantines \in BOOLEAN
    /\ MaxTokens \in Nat
    /\ MaxDeploys \in Nat
    /\ MaxFaults \in Nat

Requests == Emitters

VARIABLES
    deployed,      \* configurations that some process runs with
    tokens,        \* the tokens signed so far; a token is named by its index
    expired,       \* those whose exp has passed
    current,       \* the token the session record holds; 0: no record
    quarantined,   \* the risk service's verdict on the session
    pc,            \* the await each request is suspended at, or its answer
    guard,         \* the guard it has reached
    marked,        \* markAuthenik8Authenticated
    request,       \* what it carries: [token, tenant, config]
    deploys,
    faults,
    wasActive,     \* history: its token was the session's, unexpired, on arrival
    wasClear,      \* history: the session was out of quarantine at some moment since
    wasSuspect     \* history: it was in quarantine at some moment since

session == <<tokens, expired, current>>
history == <<wasActive, wasClear, wasSuspect>>
vars == <<deployed, session, quarantined, pc, guard, marked, request,
          deploys, faults, history, auditVars>>

Answers == {"served", "refused", "failed"}
Waits   == {"verify", "session", "quarantine", "context", "tenant", "audit"}

NoRequest == [token |-> 0, tenant |-> NoTenant, config |-> FirstConfig]

TypeOK ==
    /\ deployed \subseteq Configs
    /\ Len(tokens) <= MaxTokens
    /\ expired \subseteq 1 .. Len(tokens)
    /\ current \in 0 .. Len(tokens)
    /\ quarantined \in BOOLEAN
    /\ pc \in [Requests -> {"idle"} \cup Waits \cup Answers]
    /\ guard \in [Requests -> 1 .. Len(Route)]
    /\ marked \in [Requests -> BOOLEAN]
    /\ \A r \in Requests :
          /\ request[r].token \in 0 .. Len(tokens)
          /\ request[r].tenant \in Tenants \cup {NoTenant}
          /\ ValidRing(request[r].config)
    /\ deploys \in 0 .. MaxDeploys
    /\ faults \in 0 .. MaxFaults
    /\ AuditTypeOK

Init ==
    /\ deployed = {FirstConfig}
    /\ tokens = <<>>
    /\ expired = {}
    /\ current = 0
    /\ quarantined = FALSE
    /\ pc = [r \in Requests |-> "idle"]
    /\ guard = [r \in Requests |-> 1]
    /\ marked = [r \in Requests |-> FALSE]
    /\ request = [r \in Requests |-> NoRequest]
    /\ deploys = 0
    /\ faults = 0
    /\ wasActive = [r \in Requests |-> FALSE]
    /\ wasClear = [r \in Requests |-> FALSE]
    /\ wasSuspect = [r \in Requests |-> FALSE]
    /\ AuditInit

Token(r) == tokens[request[r].token]

-----------------------------------------------------------------------------
(* Around the requests.                                                     *)

\* signToken, by a login or a refresh: the new token takes the session record.
SignToken(config, claims) ==
    /\ Len(tokens) < MaxTokens
    /\ tokens' = Append(tokens, [signature |-> Signature(config),
                                 tokenUse |-> "access", claims |-> claims])
    /\ current' = Len(tokens')
    /\ UNCHANGED <<deployed, expired, quarantined, pc, guard, marked, request,
                   deploys, faults, history, auditVars>>

\* guestToken: a token of another use, with no session.
GuestToken(config) ==
    /\ Len(tokens) < MaxTokens
    /\ tokens' = Append(tokens, [signature |-> Signature(config), tokenUse |-> "guest",
                                 claims |-> [granted |-> {}, tenants |-> {}, admin |-> FALSE]])
    /\ UNCHANGED <<deployed, expired, current, quarantined, pc, guard, marked, request,
                   deploys, faults, history, auditVars>>

TokenExpires ==
    /\ \E t \in 1 .. Len(tokens) : expired' = expired \cup {t}
    /\ UNCHANGED <<deployed, tokens, current, quarantined, pc, guard, marked, request,
                   deploys, faults, history, auditVars>>

\* revokeSession, or the record's TTL.
RevokeSession ==
    /\ current' = 0
    /\ UNCHANGED <<deployed, tokens, expired, quarantined, pc, guard, marked, request,
                   deploys, faults, history, auditVars>>

Quarantine ==
    /\ quarantined' = TRUE
    /\ wasSuspect' = [r \in Requests |-> wasSuspect[r] \/ pc[r] \in Waits]
    /\ UNCHANGED <<deployed, session, pc, guard, marked, request,
                   deploys, faults, wasActive, wasClear, auditVars>>

Release ==
    /\ quarantined' = FALSE
    /\ wasClear' = [r \in Requests |-> wasClear[r] \/ pc[r] \in Waits]
    /\ UNCHANGED <<deployed, session, pc, guard, marked, request,
                   deploys, faults, wasActive, wasSuspect, auditVars>>

\* Seeded fault: the configuration is not validated.
DeployUnchecked(config) ==
    /\ deploys < MaxDeploys
    /\ deployed' = deployed \cup {config}
    /\ deploys' = deploys + 1
    /\ UNCHANGED <<session, quarantined, pc, guard, marked, request,
                   faults, history, auditVars>>

\* A process starts: the key ring's constructor throws on an invalid configuration.
Deploy(config) ==
    /\ deploys < MaxDeploys
    /\ ValidRing(config)
    /\ deployed' = deployed \cup {config}
    /\ deploys' = deploys + 1
    /\ UNCHANGED <<session, quarantined, pc, guard, marked, request,
                   faults, history, auditVars>>

\* The last process with a configuration leaves, once its requests are answered.
Retire(config) ==
    /\ deploys < MaxDeploys
    /\ deployed \ {config} # {}
    /\ deployed' = deployed \ {config}
    /\ deploys' = deploys + 1
    /\ UNCHANGED <<session, quarantined, pc, guard, marked, request,
                   faults, history, auditVars>>

-----------------------------------------------------------------------------
(* Helpers of the request's steps.                                          *)

Goto(r, where) == pc' = [pc EXCEPT ![r] = where]

RequestKept == UNCHANGED <<deployed, session, request, deploys, history>>

\* Every refusal is audited before it is answered (audit.emit in
\* authenticateJWT and in deny).
RefuseRequest(r) ==
    /\ Goto(r, "audit")
    /\ Emit(r)
    /\ UNCHANGED <<guard, marked, faults>>

Proceed(r, where) ==
    /\ Goto(r, where)
    /\ UNCHANGED <<guard, marked, faults, auditVars>>

-----------------------------------------------------------------------------
(* A request.                                                               *)

\* The request reaches the first guard; tokenFromRequest finds no token, or one
\* that was signed some time.
Arrive(r, t, tenant, config) ==
    /\ pc[r] = "idle"
    /\ request' = [request EXCEPT ![r] = [token |-> t, tenant |-> tenant, config |-> config]]
    /\ wasActive' = [wasActive EXCEPT ![r] = t # 0 /\ t = current /\ t \notin expired]
    /\ wasClear' = [wasClear EXCEPT ![r] = ~quarantined]
    /\ wasSuspect' = [wasSuspect EXCEPT ![r] = quarantined]
    /\ IF t = 0 THEN RefuseRequest(r) ELSE Proceed(r, "verify")
    /\ UNCHANGED <<deployed, session, quarantined, deploys>>

\* verifyToken.
VerifyToken(r) ==
    /\ pc[r] = "verify"
    /\ IF /\ Verifies(request[r].config, Token(r), "access")
          /\ request[r].token \notin expired
       THEN Proceed(r, "session")
       ELSE RefuseRequest(r)
    /\ UNCHANGED quarantined
    /\ RequestKept

\* Seeded fault: any record of the session will do.
ReadAnySession(r) ==
    /\ pc[r] = "session"
    /\ IF current # 0 THEN Proceed(r, "quarantine") ELSE RefuseRequest(r)
    /\ UNCHANGED quarantined
    /\ RequestKept

\* sessionIsValid: sessionStore.get and sessionTokenMatches.
ReadSession(r) ==
    /\ pc[r] = "session"
    /\ IF current = request[r].token THEN Proceed(r, "quarantine") ELSE RefuseRequest(r)
    /\ UNCHANGED quarantined
    /\ RequestKept

\* sessionIsValid: risk.isQuarantined.
CheckQuarantine(r) ==
    /\ pc[r] = "quarantine"
    /\ IF quarantined THEN RefuseRequest(r) ELSE Proceed(r, "context")
    /\ UNCHANGED quarantined
    /\ RequestKept

\* sessionIsValid: risk.assessContext.  The change of a context that was not
\* reported before quarantines the session; one that was, like no change, is
\* answered with the session's state.
AssessContext(r) ==
    /\ pc[r] = "context"
    /\ \E moved, reported \in BOOLEAN :
          IF moved /\ MoveQuarantines /\ ~reported
          THEN /\ quarantined' = TRUE
               /\ wasSuspect' = [q \in Requests |-> wasSuspect[q] \/ pc[q] \in Waits]
               /\ RefuseRequest(r)
          ELSE /\ IF quarantined
                  THEN RefuseRequest(r)
                  ELSE /\ marked' = [marked EXCEPT ![r] = TRUE]
                       /\ Goto(r, "tenant")
                       /\ UNCHANGED <<guard, faults, auditVars>>
               /\ UNCHANGED <<quarantined, wasSuspect>>
    /\ UNCHANGED <<deployed, session, request, deploys, wasActive, wasClear>>

\* requireRole matches any, requirePermission and requireScope all of the
\* required values; requireTenant requires none.
ClaimsAllow(g, claims) ==
    IF g.any THEN g.need \cap claims.granted # {} ELSE g.need \subseteq claims.granted

TenantAllowed(tenant, claims) == TenantScoped => tenant \in claims.tenants

\* requireAdmin wants the one role of the token, not one of its roles, to be admin.
AdminAllows(g, claims) == g.admin => claims.admin

\* authorize, from its tenantResolver on, and requireAdmin, which answers what
\* its role guard lets through with a 403 of its own, unaudited: the last guard's next() is the route's
\* handler, any other's the following guard, which finds the request marked and
\* does not authenticate again.
Authorize(r) ==
    /\ pc[r] = "tenant"
    /\ IF ClaimsAllow(Route[guard[r]], Token(r).claims)
             /\ TenantAllowed(request[r].tenant, Token(r).claims)
       THEN IF ~AdminAllows(Route[guard[r]], Token(r).claims)
            THEN Proceed(r, "refused")
            ELSE IF guard[r] = Len(Route)
            THEN Proceed(r, "served")
            ELSE /\ guard' = [guard EXCEPT ![r] = @ + 1]
                 /\ Goto(r, IF marked[r] THEN "tenant" ELSE "verify")
                 /\ UNCHANGED <<marked, faults, auditVars>>
       ELSE RefuseRequest(r)
    /\ UNCHANGED quarantined
    /\ RequestKept

\* The emission settles: 401 or 403, or express answers the rejection.
AnswerRefusal(r) ==
    /\ pc[r] = "audit"
    /\ \/ Resolves(r, request[r].config.strict) /\ Proceed(r, "refused")
       \/ Rejects(r, request[r].config.strict) /\ Proceed(r, "failed")
    /\ UNCHANGED quarantined
    /\ RequestKept

SinkAccepts(r, s) ==
    /\ Accept(r, s)
    /\ UNCHANGED <<deployed, session, quarantined, pc, guard, marked, request,
                   deploys, faults, history>>

SinkRejects(r, s) ==
    /\ faults < MaxFaults
    /\ faults' = faults + 1
    /\ Refuse(r, s)
    /\ UNCHANGED <<deployed, session, quarantined, pc, guard, marked, request,
                   deploys, history>>

\* A Redis command or the application's tenant resolver rejects: nothing
\* catches it before express.  Quarantine just before it is a context change
\* that was answered with quarantine and whose report then rejected.
AwaitRejects(r) ==
    /\ faults < MaxFaults
    /\ faults' = faults + 1
    /\ pc[r] \in {"session", "quarantine", "context", "tenant"}
    /\ Goto(r, "failed")
    /\ UNCHANGED <<deployed, session, quarantined, guard, marked, request,
                   deploys, history, auditVars>>

-----------------------------------------------------------------------------
Next ==
    \/ \E config \in deployed, claims \in Claims : SignToken(config, claims)
    \/ \E config \in deployed : GuestToken(config)
    \/ TokenExpires
    \/ RevokeSession
    \/ Quarantine
    \/ Release
    \/ \E config \in Configs : Deploy(config)
    \/ \E config \in Configs : Retire(config)
    \/ \E r \in Requests, t \in 0 .. Len(tokens), tenant \in Tenants \cup {NoTenant},
          config \in deployed : Arrive(r, t, tenant, config)
    \/ \E r \in Requests :
          \/ VerifyToken(r)
          \/ ReadSession(r)
          \/ CheckQuarantine(r)
          \/ AssessContext(r)
          \/ Authorize(r)
          \/ AnswerRefusal(r)
          \/ AwaitRejects(r)
    \/ \E r \in Requests, s \in Sinks : SinkAccepts(r, s) \/ SinkRejects(r, s)

Spec == Init /\ [][Next]_vars

-----------------------------------------------------------------------------
(* What a request needs of its token, whatever happens around it.           *)
Entitled(r) ==
    /\ request[r].token # 0
    /\ Token(r).tokenUse = "access"
    /\ Token(r).signature \in GetJwks(request[r].config)
    /\ \A i \in 1 .. Len(Route) : ClaimsAllow(Route[i], Token(r).claims)
    /\ \A i \in 1 .. Len(Route) : AdminAllows(Route[i], Token(r).claims)
    /\ TenantAllowed(request[r].tenant, Token(r).claims)

(***************************************************************************)
(* A request is served only when its token had the use, the key, the       *)
(* claims and the tenant the route asks for, was the session's unexpired   *)
(* token when it arrived, and the session was out of quarantine at some    *)
(* moment since: a request that follows a logout, a rotation or an         *)
(* unreleased quarantine is not served, whichever guard it is at and       *)
(* whatever happens between two awaits (authenticateJWT, authorize).       *)
(***************************************************************************)
ServedWasEntitled ==
    \A r \in Requests :
        pc[r] = "served" => Entitled(r) /\ wasActive[r] /\ wasClear[r]

(***************************************************************************)
(* A request is refused with 401 or 403 only for a cause: a lack of its    *)
(* own, a token that has expired or lost its session record, or a          *)
(* quarantine at some moment since its arrival.  Key rotation as such, or  *)
(* an earlier key kept for verification, refuses nobody.                   *)
(***************************************************************************)
RefusedForCause ==
    \A r \in Requests :
        pc[r] = "refused" =>
            \/ ~Entitled(r)
            \/ request[r].token \in expired
            \/ request[r].token # current
            \/ wasSuspect[r]

(***************************************************************************)
(* The audit trail agrees with the answers: under strict delivery a        *)
(* refusal is answered only when every sink holds its record, under        *)
(* best-effort when every sink has settled, and no sink ever holds the     *)
(* refusal of a request that was served (deny, emit).  The one refusal     *)
(* that is not audited is requireAdmin's, of a token whose roles include   *)
(* admin while its role is another.                                        *)
(***************************************************************************)
TurnedAwayByAdmin(r) ==
    /\ request[r].token # 0
    /\ ~AdminAllows(Route[guard[r]], Token(r).claims)
    /\ ClaimsAllow(Route[guard[r]], Token(r).claims)

RefusalsRecorded ==
    \A r \in Requests :
        /\ pc[r] = "refused" /\ ~TurnedAwayByAdmin(r) =>
              /\ recorded[r] \cup rejected[r] = Sinks
              /\ request[r].config.strict => recorded[r] = Sinks
        /\ pc[r] = "served" => recorded[r] = {}

(***************************************************************************)
(* A service that holds only a process's published keys accepts the tokens *)
(* this process accepts as access tokens, and no other: not a guest's, nor *)
(* one of a key outside the rotation (verifyAccessTokenWithJwks, verify).  *)
(* What was served here, it would have accepted.                           *)
(***************************************************************************)
ResourceServersAgree ==
    /\ \A config \in deployed, i \in 1 .. Len(tokens) :
          VerifiesWithJwks(GetJwks(config), tokens[i])
              <=> Verifies(config, tokens[i], "access")
    /\ \A r \in Requests :
          pc[r] = "served" => VerifiesWithJwks(GetJwks(request[r].config), Token(r))
=============================================================================
