---------------------------- MODULE AgentIdentity ----------------------------
(***************************************************************************)
(* AgentIdentityService for ONE agent and one delegating human session:    *)
(* calls of issueToken, issueDelegatedToken, revokeAgent, activateAgent    *)
(* and revokeSession, and requests through requireAgent or requireScopes   *)
(* (which call verifyToken), interleave at every await with changes of the *)
(* registry (resolveAgent) and the end of the human session.               *)
(*                                                                         *)
(* A token is named by the call that issued it.  A session id may be       *)
(* chosen by the caller, so two calls may use the same one.  A human       *)
(* session that has ended does not come back, and the registry only        *)
(* withdraws scopes.                                                       *)
(***************************************************************************)
EXTENDS Naturals, FiniteSets

CONSTANTS
    Issues,        \* calls of issueToken or issueDelegatedToken
    Verifies,      \* requests through requireAgent or requireScopes
    Revokes,       \* calls of revokeAgent
    Activations,   \* calls of activateAgent
    Drops,         \* calls of revokeSession
    SessionIds,    \* session ids of the agent
    Scopes,        \* registered scopes; none registered stands for no agent
    RouteScopes,   \* scopes a route may require
    NoToken,
    AgentThreshold,  \* suspiciousAgentThreshold
    FaultKinds,    \* "audit", "store", "crash"
    MaxFaults

AllFaultKinds == {"audit", "store", "crash"}

Calls == Issues \cup Verifies \cup Revokes \cup Activations \cup Drops

ASSUME AgentAssumption ==
    /\ NoToken \notin Issues
    /\ Issues \cap (Verifies \cup Revokes \cup Activations \cup Drops) = {}
    /\ Verifies \cap (Revokes \cup Activations \cup Drops) = {}
    /\ Revokes \cap (Activations \cup Drops) = {}
    /\ Activations \cap Drops = {}
    /\ SessionIds # {}
    /\ AgentThreshold \in Nat \ {0}
    /\ FaultKinds \subseteq AllFaultKinds
    /\ MaxFaults \in Nat

VARIABLES
    revoked,      \* is the agent's revocation marker set?
    sessions,     \* the token whose fingerprint is at each session field
    registered,   \* the scopes resolveAgent grants
    human,        \* is the delegating human session active?
    suspicion,    \* suspicious_agent_activity counter of each session, capped
    quarantined,  \* sessions under quarantine
    pc,           \* the await each call is suspended at
    verdict,      \* what a call ended with
    sid,          \* the session an issue is for
    scopes,       \* the scopes it grants
    delegated,    \* the issues that delegate a human's authority
    token,        \* the token a verification was given
    faults,       \* failures so far
    handed,       \* history: tokens handed out when a revokeAgent began
    dead,         \* history: those of the revokeAgent calls that returned
    entitled,     \* history: verifications whose token had not been revoked,
                  \* outgrown or cut off from its human when they began
    clean,        \* history: those whose token was in force until the verdict
    fresh         \* history: revokeAgent calls begun since the last activation

agentStore == <<revoked, sessions, suspicion, quarantined>>
outside    == <<registered, human>>
local      == <<sid, scopes, delegated, token>>
history    == <<handed, dead, entitled, fresh>>
vars       == <<agentStore, outside, pc, verdict, local, faults, history, clean>>

-----------------------------------------------------------------------------

Labels == {"idle", "check", "resolve", "human", "active", "authorize", "upsert",
           "recheck", "audit", "undo", "quarantine", "marker", "session", "lookup",
           "registry", "owner", "report", "alert", "drop", "denied", "done"}

\* "refused": verifyToken returns null; "forbidden": the route requires more.
Verdicts == {"none", "ok", "refused", "forbidden", "error"}

TypeOK ==
    /\ revoked \in BOOLEAN
    /\ sessions \in [SessionIds -> Issues \cup {NoToken}]
    /\ registered \subseteq Scopes
    /\ human \in BOOLEAN
    /\ suspicion \in [SessionIds -> 0..AgentThreshold]
    /\ quarantined \subseteq SessionIds
    /\ pc \in [Calls -> Labels]
    /\ verdict \in [Calls -> Verdicts]
    /\ sid \in [Issues -> SessionIds]
    /\ scopes \in [Issues -> SUBSET Scopes]
    /\ delegated \subseteq Issues
    /\ token \in [Verifies -> Issues \cup {NoToken}]
    /\ faults \in [AllFaultKinds -> 0..MaxFaults]
    /\ handed \in [Revokes -> SUBSET Issues]
    /\ dead \subseteq Issues
    /\ entitled \subseteq Verifies
    /\ clean \subseteq Verifies
    /\ fresh \subseteq Revokes

Init ==
    /\ revoked = FALSE
    /\ sessions = [s \in SessionIds |-> NoToken]
    /\ registered = Scopes
    /\ human = TRUE
    /\ suspicion = [s \in SessionIds |-> 0]
    /\ quarantined = {}
    /\ pc = [c \in Calls |-> "idle"]
    /\ verdict = [c \in Calls |-> "none"]
    /\ sid \in [Issues -> SessionIds]
    /\ scopes = [i \in Issues |-> {}]
    /\ delegated \in SUBSET Issues
    /\ token = [v \in Verifies |-> NoToken]
    /\ faults = [k \in AllFaultKinds |-> 0]
    /\ handed = [k \in Revokes |-> {}]
    /\ dead = {}
    /\ entitled = {}
    /\ clean = {}
    /\ fresh = {}

-----------------------------------------------------------------------------
(* Control *)

Delivered == {i \in Issues : pc[i] = "done" /\ verdict[i] = "ok"}

Goto(c, label) == pc' = [pc EXCEPT ![c] = label] /\ UNCHANGED <<verdict, faults>>

End(c, v) ==
    /\ pc' = [pc EXCEPT ![c] = "done"]
    /\ verdict' = [verdict EXCEPT ![c] = v]
    /\ UNCHANGED faults

\* Call c decides on its verdict, and goes on.
Decide(c, v, label) ==
    /\ verdict' = [verdict EXCEPT ![c] = v]
    /\ pc' = [pc EXCEPT ![c] = label]
    /\ UNCHANGED faults

\* Seeded fault: an issue whose audit rejects is not undone.
OnThrowKeeps(c) == IF c \in Issues THEN "denied" ELSE "done"

\* The emission of agent_token.issued has a handler of its own; what an issue
\* throws is audited.
OnThrow(c) ==
    IF c \in Issues /\ pc[c] = "audit" THEN "undo"
    ELSE IF c \in Issues /\ pc[c] # "denied" THEN "denied" ELSE "done"

\* How a request that fails in verifyToken ends: with null, from
\* the try block, an error from the rejection it returns without awaiting it.
Thrown(c) == IF c \in Verifies /\ pc[c] \notin {"report", "alert"} THEN "refused" ELSE "error"

CountFault(kind) ==
    /\ kind \in FaultKinds
    /\ faults["audit"] + faults["store"] + faults["crash"] < MaxFaults
    /\ faults' = [faults EXCEPT ![kind] = @ + 1]

Reject(c, kind) ==
    /\ CountFault(kind)
    /\ pc' = [pc EXCEPT ![c] = OnThrow(c)]
    /\ verdict' = [verdict EXCEPT ![c] = Thrown(c)]

\* A Redis command took effect: its reply arrives, or is lost and it rejects.
Reply(c, label) == Goto(c, label) \/ Reject(c, "store")

-----------------------------------------------------------------------------
(* issueToken and issueDelegatedToken *)

\* The call throws: the rejection is audited first.
Deny(i) == Decide(i, "error", "denied")

\* resolveActiveAgent: isRevoked, then resolveAgent.
BeginIssue(i) ==
    /\ pc[i] = "idle"
    /\ IF revoked THEN Deny(i) ELSE Goto(i, "resolve")
    /\ UNCHANGED <<agentStore, outside, local, history>>

\* resolveAgent and authorizedScopes: an unknown agent, or a request for more
\* than is registered, is refused.
Resolve(i) ==
    /\ pc[i] = "resolve"
    /\ \/ Deny(i) /\ UNCHANGED scopes
       \/ \E requested \in (SUBSET registered) \ {{}} :
             /\ scopes' = [scopes EXCEPT ![i] = requested]
             /\ Goto(i, IF i \in delegated THEN "human" ELSE "upsert")
    /\ UNCHANGED <<agentStore, outside, sid, delegated, token, history>>

\* verifyHumanToken, then hasHumanSession: both look the human session up.
CheckHuman(i) ==
    /\ pc[i] \in {"human", "active"}
    /\ IF ~ human THEN Deny(i)
       ELSE Goto(i, IF pc[i] = "human" THEN "active" ELSE "authorize")
    /\ UNCHANGED <<agentStore, outside, local, history>>

\* authorizeDelegation is the application's.
Authorize(i) ==
    /\ pc[i] = "authorize"
    /\ Goto(i, "upsert") \/ Deny(i)
    /\ UNCHANGED <<agentStore, outside, local, history>>

\* The token is signed and its session stored.
StoreSession(i) ==
    /\ pc[i] = "upsert"
    /\ sessions' = [sessions EXCEPT ![sid[i]] = i]
    /\ Reply(i, "recheck")
    /\ UNCHANGED <<revoked, suspicion, quarantined, outside, local, history>>

\* Seeded fault: the marker is not looked at again.
RecheckSkipped(i) ==
    /\ pc[i] = "recheck"
    /\ Goto(i, "audit")
    /\ UNCHANGED <<agentStore, outside, local, history>>

\* The agent may have been revoked since it was resolved.
Recheck(i) ==
    /\ pc[i] = "recheck"
    /\ Goto(i, IF revoked THEN "undo" ELSE "audit")
    /\ UNCHANGED <<agentStore, outside, local, history>>

AuditIssued(i) ==
    /\ i \in Issues
    /\ pc[i] = "audit"
    /\ End(i, "ok") \/ Reject(i, "audit")
    /\ UNCHANGED <<agentStore, outside, local, history>>

\* The session is removed, and the call throws.
Undo(i) ==
    /\ pc[i] = "undo"
    /\ sessions' = [sessions EXCEPT ![sid[i]] = NoToken]
    /\ Deny(i) \/ Reject(i, "store")
    /\ UNCHANGED <<revoked, suspicion, quarantined, outside, local, history>>

\* auditAgentRejection; what it throws takes the place of the error.
AuditDenial(i) ==
    /\ i \in Issues
    /\ pc[i] = "denied"
    /\ End(i, "error") \/ Reject(i, "audit")
    /\ UNCHANGED <<agentStore, outside, local, history>>

-----------------------------------------------------------------------------
(* verifyToken *)

Cut(t) == t \in delegated /\ ~ human

\* rejectVerifiedAgent: the token is refused, after a report and an audit event.
Refuse(v) == Decide(v, "refused", "report")

\* The token stands: authenticate compares its scopes with the route's.
Accept(v) ==
    \E required \in SUBSET RouteScopes :
        IF required \subseteq scopes[token[v]] THEN End(v, "ok")
        ELSE Decide(v, "forbidden", "report")

\* A token that was handed out; its session's quarantine is looked up.
BeginVerify(v) ==
    /\ pc[v] = "idle"
    /\ \E t \in Delivered :
          /\ token' = [token EXCEPT ![v] = t]
          /\ entitled' = IF t \in dead \/ ~ scopes[t] \subseteq registered \/ Cut(t)
                         THEN entitled ELSE entitled \cup {v}
          /\ IF sid[t] \in quarantined THEN Refuse(v) ELSE Goto(v, "marker")
    /\ UNCHANGED <<agentStore, outside, sid, scopes, delegated, handed, dead, fresh>>

CheckMarker(v) ==
    /\ pc[v] = "marker"
    /\ IF revoked THEN Refuse(v) ELSE Goto(v, "session")
    /\ UNCHANGED <<agentStore, outside, local, history>>

CheckSession(v) ==
    /\ pc[v] = "session"
    /\ IF sessions[sid[token[v]]] = token[v] THEN Goto(v, "lookup") ELSE Refuse(v)
    /\ UNCHANGED <<agentStore, outside, local, history>>

\* resolveActiveAgent: isRevoked again; its errors are not reported.
Lookup(v) ==
    /\ pc[v] = "lookup"
    /\ IF revoked THEN End(v, "refused") ELSE Goto(v, "registry")
    /\ UNCHANGED <<agentStore, outside, local, history>>

\* Seeded fault: every token is taken for a delegated one.
RegistryThenOwner(v) ==
    /\ pc[v] = "registry"
    /\ IF registered = {} THEN End(v, "refused")
       ELSE IF ~ scopes[token[v]] \subseteq registered THEN Refuse(v)
       ELSE Goto(v, "owner")
    /\ UNCHANGED <<agentStore, outside, local, history>>

\* The token's scopes must still be registered.
CheckRegistry(v) ==
    /\ pc[v] = "registry"
    /\ IF registered = {} THEN End(v, "refused")
       ELSE IF ~ scopes[token[v]] \subseteq registered THEN Refuse(v)
       ELSE IF token[v] \in delegated THEN Goto(v, "owner") ELSE Accept(v)
    /\ UNCHANGED <<agentStore, outside, local, history>>

\* hasHumanSession of the delegating session.
CheckOwner(v) ==
    /\ pc[v] = "owner"
    /\ IF human THEN Accept(v) ELSE Refuse(v)
    /\ UNCHANGED <<agentStore, outside, local, history>>

\* A suspicious-agent signal, as SessionRisk counts it ...
ReportSuspicion(v) ==
    /\ pc[v] = "report"
    /\ LET s == sid[token[v]]
           n == IF suspicion[s] < AgentThreshold THEN suspicion[s] + 1 ELSE AgentThreshold
       IN /\ suspicion' = [suspicion EXCEPT ![s] = n]
          /\ quarantined' = IF n = AgentThreshold THEN quarantined \cup {s} ELSE quarantined
    /\ Reply(v, "alert") \/ Reject(v, "audit")
    /\ UNCHANGED <<revoked, sessions, outside, local, history>>

\* ... and an audit event, before the request is answered.
AuditRejected(v) ==
    /\ pc[v] = "alert"
    /\ Goto(v, "done") \/ Reject(v, "audit")
    /\ UNCHANGED <<agentStore, outside, local, history>>

-----------------------------------------------------------------------------
(* revokeAgent, activateAgent and revokeSession *)

BeginRevoke(k) ==
    /\ pc[k] = "idle"
    /\ handed' = [handed EXCEPT ![k] = Delivered]
    /\ revoked' = TRUE
    /\ fresh' = fresh \cup {k}
    /\ Reply(k, "drop")
    /\ UNCHANGED <<sessions, suspicion, quarantined, outside, local, dead, entitled>>

\* What the deletion of the agent's sessions leaves for the audit.
SessionsDropped(k) ==
    /\ Reply(k, "audit")
    /\ UNCHANGED <<revoked, suspicion, quarantined, outside, local, history>>

\* Seeded fault: the marker is trusted to keep the sessions out.
DropNothing(k) ==
    /\ pc[k] = "drop"
    /\ UNCHANGED sessions
    /\ SessionsDropped(k)

DropSessions(k) ==
    /\ k \in Revokes
    /\ pc[k] = "drop"
    /\ sessions' = [s \in SessionIds |-> NoToken]
    /\ SessionsDropped(k)

AuditRevoked(k) ==
    /\ k \in Revokes
    /\ pc[k] = "audit"
    /\ \/ End(k, "ok") /\ dead' = dead \cup handed[k]
       \/ Reject(k, "audit") /\ UNCHANGED dead
    /\ UNCHANGED <<agentStore, outside, local, handed, entitled, fresh>>

Activate(a) ==
    /\ pc[a] = "idle"
    /\ revoked' = FALSE
    /\ fresh' = {}
    /\ Reply(a, "audit")
    /\ UNCHANGED <<sessions, suspicion, quarantined, outside, local, handed, dead, entitled>>

AuditActivated(a) ==
    /\ a \in Activations
    /\ pc[a] = "audit"
    /\ End(a, "ok") \/ Reject(a, "audit")
    /\ UNCHANGED <<agentStore, outside, local, history>>

RevokeSession(d) ==
    /\ pc[d] = "idle"
    /\ \E s \in SessionIds : sessions' = [sessions EXCEPT ![s] = NoToken]
    /\ Reply(d, "done")
    /\ UNCHANGED <<revoked, suspicion, quarantined, outside, local, history>>

-----------------------------------------------------------------------------
(* The world outside, and failures *)

WithdrawScope ==
    /\ \E s \in registered : registered' = registered \ {s}
    /\ UNCHANGED <<agentStore, human, pc, verdict, local, faults, history>>

HumanLogsOut ==
    /\ human
    /\ human' = FALSE
    /\ UNCHANGED <<agentStore, registered, pc, verdict, local, faults, history>>

QuarantineEnds(s) ==
    /\ s \in quarantined
    /\ quarantined' = quarantined \ {s}
    /\ suspicion' = [suspicion EXCEPT ![s] = 0]
    /\ UNCHANGED <<revoked, sessions, outside, pc, verdict, local, faults, history>>

\* A lookup or command rejects without effect, or the process dies.
Fails(c) ==
    /\ pc[c] \notin {"idle", "done", "audit", "denied", "alert"}
    /\ Reject(c, "store")
    /\ UNCHANGED <<agentStore, outside, local, history>>

Crash(c) ==
    /\ pc[c] \notin {"idle", "done"}
    /\ CountFault("crash")
    /\ pc' = [pc EXCEPT ![c] = "done"]
    /\ verdict' = [verdict EXCEPT ![c] = "error"]
    /\ UNCHANGED <<agentStore, outside, local, history>>

-----------------------------------------------------------------------------

IssueStep(i) ==
    \/ BeginIssue(i) \/ Resolve(i) \/ CheckHuman(i) \/ Authorize(i)
    \/ StoreSession(i) \/ Recheck(i) \/ AuditIssued(i) \/ Undo(i)
    \/ AuditDenial(i)

VerifyStep(v) ==
    \/ BeginVerify(v) \/ CheckMarker(v) \/ CheckSession(v) \/ Lookup(v)
    \/ CheckRegistry(v) \/ CheckOwner(v) \/ ReportSuspicion(v) \/ AuditRejected(v)

RevokeStep(k) == BeginRevoke(k) \/ DropSessions(k) \/ AuditRevoked(k)

Step ==
    \/ \E i \in Issues : IssueStep(i)
    \/ \E v \in Verifies : VerifyStep(v)
    \/ \E k \in Revokes : RevokeStep(k)
    \/ \E a \in Activations : Activate(a) \/ AuditActivated(a)
    \/ \E d \in Drops : RevokeSession(d)
    \/ \E c \in Calls : Fails(c) \/ Crash(c)
    \/ WithdrawScope
    \/ HumanLogsOut
    \/ \E s \in SessionIds : QuarantineEnds(s)

\* The token of request v is in force.
InForce(v) ==
    LET t == token[v]
    IN /\ t # NoToken
       /\ ~ revoked
       /\ sessions[sid[t]] = t
       /\ sid[t] \notin quarantined
       /\ scopes[t] \subseteq registered
       /\ ~ Cut(t)

NothingFailed == \A k \in AllFaultKinds : faults[k] = 0

\* The history of the requests whose token was in force at every step until
\* their verdict, while nothing failed.
KeepClean ==
    clean' = {v \in Verifies :
                /\ NothingFailed'
                /\ IF verdict[v] # "none" THEN v \in clean
                   ELSE (pc[v] = "idle" \/ v \in clean) /\ InForce(v)'}

Next == Step /\ KeepClean

Spec == Init /\ [][Next]_vars

-----------------------------------------------------------------------------
(* Properties *)

\* A token handed out before revokeAgent was called is not accepted by a
\* verification that begins after it returned, not even once the agent has
\* been activated again; nor is one whose scopes the registry has withdrawn,
\* or whose delegating human session has ended.
AcceptedIsEntitled ==
    \A v \in Verifies : pc[v] = "done" /\ verdict[v] = "ok" => v \in entitled

\* When revokeAgent has returned and the agent was not activated since, no
\* session of the agent is stored once the issues in flight have ended: an
\* issue that overtook the revocation withdraws its token.
InFlight(i) == pc[i] \in {"recheck", "audit", "undo"}

RevokedHasNoSession ==
    /\ \E k \in fresh : verdict[k] = "ok"
    /\ faults["store"] + faults["crash"] = 0
    =>
        \A s \in SessionIds :
            sessions[s] # NoToken => \E i \in Issues : sid[i] = s /\ InFlight(i)

\* An issue that ended with an error left no session of its token, whether the
\* audit sink rejected or the agent was revoked meanwhile.
FailedIssueLeavesNothing ==
    \A i \in Issues :
        /\ pc[i] = "done"
        /\ verdict[i] = "error"
        /\ faults["store"] + faults["crash"] = 0
        => sessions[sid[i]] # i

\* A request whose token stayed in force from its first step to its verdict is
\* served, or told that the route requires more, unless something failed: no
\* interleaving of issues, revocations and logouts turns an honest agent away.
HonestAgentServed ==
    \A v \in clean : pc[v] = "done" => verdict[v] \in {"ok", "forbidden"}

=============================================================================
