------------------------- MODULE AgentIdentity_proofs -------------------------
(***************************************************************************)
(* For every number of calls, sessions, scopes and failures: the           *)
(* invariants that AgentIdentity states.                                   *)
(***************************************************************************)
EXTENDS AgentIdentity, TLAPS

-----------------------------------------------------------------------------
(* The strengthening of the invariants *)

NoLoss == faults["store"] + faults["crash"] = 0

\* A session holds a token whose call has stored it.
Stored ==
    \A s \in SessionIds :
        sessions[s] # NoToken =>
            /\ sid[sessions[s]] = s
            /\ pc[sessions[s]] \in {"recheck", "audit", "undo", "denied", "done"}

\* An issue grants some scope, hands its token out as its last step, and has
\* removed what it stored when it throws.
IssueCourse(i) ==
    /\ pc[i] \in {"idle", "resolve", "human", "active", "authorize", "upsert", "recheck",
                  "audit", "undo", "denied", "done"}
    /\ pc[i] \in {"human", "active", "authorize", "upsert", "recheck", "audit"}
          \/ verdict[i] = "ok" => scopes[i] # {}
    /\ verdict[i] = "ok" => pc[i] = "done"
    /\ NoLoss /\ (pc[i] = "denied" \/ (pc[i] = "done" /\ verdict[i] = "error")) =>
          sessions[sid[i]] # i

\* A revocation that deleted the sessions took every token it is to end with
\* them; while the marker it set stands, what is stored since will be undone.
RevokeCourse(k) ==
    /\ verdict[k] = "ok" => pc[k] = "done"
    /\ \A t \in handed[k] : pc[t] = "done"
    /\ pc[k] = "audit" => \A t \in handed[k] : sessions[sid[t]] # t
    /\ k \in fresh => revoked
    /\ k \in fresh /\ (pc[k] = "audit" \/ verdict[k] = "ok") /\ NoLoss =>
          \A s \in SessionIds : sessions[s] # NoToken => pc[sessions[s]] \in {"recheck", "undo"}

\* A dead token is not stored, and never will be.
DeadGone == \A t \in dead : pc[t] = "done" /\ sessions[sid[t]] # t

\* A token that is not entitled is caught by one of the checks still to come.
Caught(v) ==
    /\ pc[v] \in {"marker", "session"} =>
          \/ token[v] \in dead
          \/ ~ scopes[token[v]] \subseteq registered
          \/ Cut(token[v])
    /\ pc[v] \in {"lookup", "registry"} =>
          ~ scopes[token[v]] \subseteq registered \/ Cut(token[v])
    /\ pc[v] = "owner" => Cut(token[v])
    /\ verdict[v] # "ok"

VerifyCourse(v) ==
    /\ pc[v] \in {"idle", "marker", "session", "lookup", "registry", "owner", "report",
                  "alert", "done"}
    /\ pc[v] = "idle" => token[v] = NoToken
    /\ pc[v] # "idle" => token[v] \in Delivered
    /\ pc[v] = "owner" => token[v] \in delegated
    /\ verdict[v] = "none" <=> pc[v] \notin {"report", "alert", "done"}
    /\ v \in entitled \/ Caught(v)

\* A clean request passes every check, for its token is in force at each.
CleanCourse(v) ==
    v \in clean =>
        /\ NothingFailed
        /\ verdict[v] \in {"none", "ok", "forbidden"}
        /\ verdict[v] = "none" => InForce(v)

AInv ==
    /\ TypeOK
    /\ Stored
    /\ DeadGone
    /\ \A i \in Issues : IssueCourse(i)
    /\ \A k \in Revokes : RevokeCourse(k)
    /\ \A v \in Verifies : VerifyCourse(v)
    /\ \A v \in Verifies : CleanCourse(v)


-----------------------------------------------------------------------------
(* The steps of a call *)

\* The kinds of calls are disjoint.
LEMMA Apart ==
    /\ NoToken \notin Issues
    /\ Issues \cap Verifies = {} /\ Issues \cap Revokes = {} /\ Issues \cap Activations = {}
    /\ Issues \cap Drops = {} /\ Verifies \cap Revokes = {} /\ Verifies \cap Activations = {}
    /\ Verifies \cap Drops = {} /\ Revokes \cap Activations = {} /\ Revokes \cap Drops = {}
    /\ Activations \cap Drops = {}
    /\ Issues \subseteq Calls /\ Verifies \subseteq Calls /\ Revokes \subseteq Calls
    /\ Activations \subseteq Calls /\ Drops \subseteq Calls
BY AgentAssumption DEF Calls

\* What AgentAssumption says of the numbers and the kinds of faults.
LEMMA Constants ==
    /\ AgentThreshold \in Nat /\ AgentThreshold > 0 /\ MaxFaults \in Nat
    /\ FaultKinds \subseteq AllFaultKinds /\ AllFaultKinds = {"audit", "store", "crash"}
BY AgentAssumption DEF AllFaultKinds

CallStep(c) ==
    \/ c \in Issues /\ IssueStep(c)
    \/ c \in Verifies /\ VerifyStep(c)
    \/ c \in Revokes /\ RevokeStep(c)
    \/ c \in Activations /\ (Activate(c) \/ AuditActivated(c))
    \/ c \in Drops /\ RevokeSession(c)
    \/ Fails(c)
    \/ Crash(c)

World == WithdrawScope \/ HumanLogsOut \/ \E s \in SessionIds : QuarantineEnds(s)

\* A step of the system is one of the world or one of a call.
LEMMA NextSteps ==
    Next <=> KeepClean /\ (World \/ \E c \in Calls : CallStep(c))
BY Apart DEF Next, Step, CallStep, World

Passed == {"resolve", "human", "active", "authorize", "upsert", "recheck", "audit", "undo",
           "marker", "session", "lookup", "registry", "owner", "report", "alert", "drop",
           "denied", "done"}

\* Call c goes on, perhaps with a verdict; at most one failure is counted.
Turn(c) ==
    /\ \E x \in Passed : pc' = [pc EXCEPT ![c] = x]
    /\ UNCHANGED verdict \/ \E u \in Verdicts \ {"none"} : verdict' = [verdict EXCEPT ![c] = u]
    /\ UNCHANGED faults \/ \E k \in AllFaultKinds : CountFault(k)

\* The labels a step can lead to.
LEMMA PassedFacts ==
    /\ "resolve" \in Passed /\ "human" \in Passed /\ "active" \in Passed /\ "authorize" \in Passed
    /\ "upsert" \in Passed /\ "recheck" \in Passed /\ "audit" \in Passed /\ "undo" \in Passed
    /\ "marker" \in Passed /\ "session" \in Passed /\ "lookup" \in Passed
    /\ "registry" \in Passed /\ "owner" \in Passed /\ "report" \in Passed /\ "alert" \in Passed
    /\ "drop" \in Passed /\ "denied" \in Passed /\ "done" \in Passed
    /\ Passed \subseteq Labels /\ "idle" \notin Passed
BY DEF Passed, Labels

\* The verdicts a call can end with.
LEMMA VerdictFacts ==
    /\ "ok" \in Verdicts \ {"none"} /\ "refused" \in Verdicts \ {"none"}
    /\ "forbidden" \in Verdicts \ {"none"} /\ "error" \in Verdicts \ {"none"}
BY DEF Verdicts

\* The ways a step can end each move one call, and count at most one fault.
LEMMA GotoTurns ==
    ASSUME NEW c \in Calls, NEW x \in Passed, Goto(c, x)
    PROVE  Turn(c)
BY DEF Goto, Turn

\* An answer moves its call.
LEMMA EndTurns ==
    ASSUME NEW c \in Calls, NEW u \in Verdicts \ {"none"}, End(c, u)
    PROVE  Turn(c)
BY PassedFacts DEF End, Turn

\* So does an answer that something follows.
LEMMA DecideTurns ==
    ASSUME NEW c \in Calls, NEW u \in Verdicts \ {"none"}, NEW x \in Passed, Decide(c, u, x)
    PROVE  Turn(c)
BY DEF Decide, Turn

\* So does a rejection.
LEMMA RejectTurns ==
    ASSUME NEW c \in Calls, NEW k \in AllFaultKinds, Reject(c, k)
    PROVE  Turn(c)
BY PassedFacts, VerdictFacts DEF Reject, OnThrow, Thrown, Turn

\* So does a reply, which may be lost.
LEMMA ReplyTurns ==
    ASSUME NEW c \in Calls, NEW x \in Passed, Reply(c, x)
    PROVE  Turn(c)
BY GotoTurns, RejectTurns, Constants DEF Reply

\* So does a verification's verdict.
LEMMA AcceptTurns ==
    ASSUME NEW v \in Verifies, Accept(v) \/ Refuse(v)
    PROVE  Turn(v)
BY EndTurns, DecideTurns, PassedFacts, VerdictFacts, Apart DEF Accept, Refuse

\* Every step of a call moves that call and no other.
LEMMA StepTurns ==
    ASSUME NEW c \in Calls, CallStep(c)
    PROVE  Turn(c)
<1> USE PassedFacts, VerdictFacts, Constants
<1>1. CASE c \in Issues /\ BeginIssue(c)
  BY <1>1, GotoTurns, DecideTurns DEF BeginIssue, Deny
<1>2. CASE c \in Issues /\ Resolve(c)
  BY <1>2, GotoTurns, DecideTurns DEF Resolve, Deny
<1>3. CASE c \in Issues /\ CheckHuman(c)
  BY <1>3, GotoTurns, DecideTurns DEF CheckHuman, Deny
<1>4. CASE c \in Issues /\ Authorize(c)
  BY <1>4, GotoTurns, DecideTurns DEF Authorize, Deny
<1>5. CASE c \in Issues /\ StoreSession(c)
  BY <1>5, ReplyTurns DEF StoreSession
<1>6. CASE c \in Issues /\ Recheck(c)
  BY <1>6, GotoTurns DEF Recheck
<1>7. CASE c \in Issues /\ AuditIssued(c)
  BY <1>7, EndTurns, RejectTurns DEF AuditIssued
<1>8. CASE c \in Issues /\ Undo(c)
  BY <1>8, DecideTurns, RejectTurns DEF Undo, Deny
<1>9. CASE c \in Issues /\ AuditDenial(c)
  BY <1>9, EndTurns, RejectTurns DEF AuditDenial
<1>10. CASE c \in Verifies /\ BeginVerify(c)
  BY <1>10, GotoTurns, AcceptTurns DEF BeginVerify
<1>11. CASE c \in Verifies /\ CheckMarker(c)
  BY <1>11, GotoTurns, AcceptTurns DEF CheckMarker
<1>12. CASE c \in Verifies /\ CheckSession(c)
  BY <1>12, GotoTurns, AcceptTurns DEF CheckSession
<1>13. CASE c \in Verifies /\ Lookup(c)
  BY <1>13, GotoTurns, EndTurns DEF Lookup
<1>14. CASE c \in Verifies /\ CheckRegistry(c)
  BY <1>14, GotoTurns, EndTurns, AcceptTurns DEF CheckRegistry
<1>15. CASE c \in Verifies /\ CheckOwner(c)
  BY <1>15, AcceptTurns DEF CheckOwner
<1>16. CASE c \in Verifies /\ ReportSuspicion(c)
  BY <1>16, ReplyTurns, RejectTurns DEF ReportSuspicion
<1>17. CASE c \in Verifies /\ AuditRejected(c)
  BY <1>17, GotoTurns, RejectTurns DEF AuditRejected
<1>18. CASE c \in Revokes /\ BeginRevoke(c)
  BY <1>18, ReplyTurns DEF BeginRevoke
<1>19. CASE c \in Revokes /\ DropSessions(c)
  BY <1>19, ReplyTurns DEF DropSessions, SessionsDropped
<1>20. CASE c \in Revokes /\ AuditRevoked(c)
  BY <1>20, EndTurns, RejectTurns DEF AuditRevoked
<1>21. CASE c \in Activations /\ (Activate(c) \/ AuditActivated(c))
  BY <1>21, ReplyTurns, EndTurns, RejectTurns DEF Activate, AuditActivated
<1>22. CASE c \in Drops /\ RevokeSession(c)
  BY <1>22, ReplyTurns DEF RevokeSession
<1>23. CASE Fails(c)
  BY <1>23, RejectTurns DEF Fails
<1>24. CASE Crash(c)
  BY <1>24 DEF Crash, Turn
<1>25. QED
  BY <1>1, <1>2, <1>3, <1>4, <1>5, <1>6, <1>7, <1>8, <1>9, <1>10, <1>11, <1>12, <1>13, <1>14,
     <1>15, <1>16, <1>17, <1>18, <1>19, <1>20, <1>21, <1>22, <1>23, <1>24
  DEF CallStep, IssueStep, VerifyStep, RevokeStep

-----------------------------------------------------------------------------
(* What a step does to the rest *)

StoreMove(c) ==
    /\ revoked' \in {revoked, TRUE, FALSE}
    /\ \/ UNCHANGED sessions
       \/ /\ c \in Issues /\ pc[c] = "upsert"
          /\ sessions' = [sessions EXCEPT ![sid[c]] = c]
          /\ Reply(c, "recheck")
       \/ \E s \in SessionIds : sessions' = [sessions EXCEPT ![s] = NoToken]
       \/ sessions' = [s \in SessionIds |-> NoToken]
    /\ \/ UNCHANGED <<suspicion, quarantined>>
       \/ \E s \in SessionIds, n \in 0..AgentThreshold :
             /\ suspicion' = [suspicion EXCEPT ![s] = n]
             /\ quarantined' \subseteq quarantined \cup {s}

LocalMove(c) ==
    /\ UNCHANGED <<sid, delegated, registered, human>>
    /\ \/ UNCHANGED scopes
       \/ /\ c \in Issues /\ pc[c] = "resolve"
          /\ \E S \in (SUBSET registered) \ {{}} : scopes' = [scopes EXCEPT ![c] = S]
    /\ \/ UNCHANGED <<token, entitled>>
       \/ c \in Verifies /\ BeginVerify(c)
    /\ \/ UNCHANGED handed
       \/ /\ c \in Revokes /\ pc[c] = "idle"
          /\ handed' = [handed EXCEPT ![c] = Delivered]
    /\ \/ UNCHANGED dead
       \/ /\ c \in Revokes /\ pc[c] = "audit" /\ dead' = dead \cup handed[c]
    /\ \/ UNCHANGED <<fresh, revoked>>
       \/ c \in Revokes /\ fresh' = fresh \cup {c} /\ revoked' = TRUE /\ pc[c] = "idle"
       \/ fresh' = {}

\* What a step of a call can do to what Redis holds.
LEMMA StepStore ==
    ASSUME AInv, NEW c \in Calls, CallStep(c)
    PROVE  StoreMove(c)
<1>0. /\ suspicion \in [SessionIds -> 0..AgentThreshold] /\ sid \in [Issues -> SessionIds]
      /\ revoked \in BOOLEAN
  BY DEF AInv, TypeOK
<1>1. CASE c \in Issues /\ StoreSession(c)
  BY <1>1 DEF StoreSession, StoreMove
<1>2. CASE c \in Issues /\ Undo(c)
  BY <1>0, <1>2 DEF Undo, StoreMove
<1>3. CASE c \in Revokes /\ DropSessions(c)
  BY <1>3 DEF DropSessions, SessionsDropped, StoreMove
<1>4. CASE c \in Drops /\ RevokeSession(c)
  BY <1>4 DEF RevokeSession, StoreMove
<1>5. CASE c \in Revokes /\ BeginRevoke(c)
  BY <1>5 DEF BeginRevoke, StoreMove
<1>6. CASE c \in Activations /\ Activate(c)
  BY <1>6 DEF Activate, StoreMove
<1>7. CASE c \in Verifies /\ ReportSuspicion(c)
  <2>1. token[c] \in Issues
    BY <1>7 DEF ReportSuspicion, AInv, VerifyCourse, Delivered
  <2> DEFINE s == sid[token[c]]
             n == IF suspicion[s] < AgentThreshold THEN suspicion[s] + 1 ELSE AgentThreshold
  <2>2. s \in SessionIds /\ n \in 0..AgentThreshold
    BY <1>0, <2>1, Constants
  <2>3. /\ suspicion' = [suspicion EXCEPT ![s] = n]
        /\ quarantined' = IF n = AgentThreshold THEN quarantined \cup {s} ELSE quarantined
        /\ UNCHANGED <<revoked, sessions>>
    BY <1>7 DEF ReportSuspicion
  <2> HIDE DEF s, n
  <2>4. QED
    BY <2>2, <2>3 DEF StoreMove
<1>8. CASE UNCHANGED agentStore
  BY <1>8 DEF agentStore, StoreMove
<1>9. QED
  BY <1>1, <1>2, <1>3, <1>4, <1>5, <1>6, <1>7, <1>8
  DEF CallStep, IssueStep, VerifyStep, RevokeStep, BeginIssue, Resolve, CheckHuman, Authorize,
      Recheck, AuditIssued, AuditDenial, BeginVerify, CheckMarker, CheckSession, Lookup,
      CheckRegistry, CheckOwner, AuditRejected, AuditRevoked, AuditActivated, Fails, Crash

\* What a step of a call can do to what the calls remember.
LEMMA StepLocals ==
    ASSUME AInv, NEW c \in Calls, CallStep(c)
    PROVE  LocalMove(c)
<1>1. CASE c \in Issues /\ Resolve(c)
  BY <1>1 DEF Resolve, LocalMove, outside, history, agentStore
<1>2. CASE c \in Verifies /\ BeginVerify(c)
  BY <1>2 DEF BeginVerify, LocalMove, outside, agentStore
<1>3. CASE c \in Revokes /\ BeginRevoke(c)
  BY <1>3 DEF BeginRevoke, LocalMove, outside, local
<1>4. CASE c \in Revokes /\ AuditRevoked(c)
  BY <1>4 DEF AuditRevoked, LocalMove, outside, local, agentStore
<1>5. CASE c \in Activations /\ Activate(c)
  BY <1>5 DEF Activate, LocalMove, outside, local
<1>6. CASE UNCHANGED <<outside, local, history, revoked>>
  BY <1>6 DEF LocalMove, outside, local, history
<1>7. UNCHANGED agentStore => UNCHANGED revoked
  BY DEF agentStore
<1>8. QED
  BY <1>1, <1>2, <1>3, <1>4, <1>5, <1>6, <1>7
  DEF CallStep, IssueStep, VerifyStep, RevokeStep, BeginIssue, CheckHuman, Authorize,
      StoreSession, Recheck, AuditIssued, Undo, AuditDenial, CheckMarker, CheckSession, Lookup,
      CheckRegistry, CheckOwner, ReportSuspicion, AuditRejected, DropSessions, SessionsDropped,
      AuditActivated, RevokeSession, Fails, Crash

\* A step of one call leaves the locals of every other alone.
LEMMA Others ==
    ASSUME AInv, NEW c \in Calls, CallStep(c), NEW d \in Calls, d # c
    PROVE  /\ pc'[d] = pc[d] /\ verdict'[d] = verdict[d]
           /\ d \in Issues => scopes'[d] = scopes[d]
           /\ d \in Verifies => token'[d] = token[d] /\ (d \in entitled' <=> d \in entitled)
           /\ d \in Revokes => handed'[d] = handed[d]
<1>1. Turn(c) /\ LocalMove(c) /\ TypeOK
  BY StepTurns, StepLocals DEF AInv
<1>2. pc'[d] = pc[d]
  BY <1>1 DEF TypeOK, Turn
<1>3. verdict'[d] = verdict[d]
  BY <1>1 DEF TypeOK, Turn
<1>4. d \in Issues => scopes'[d] = scopes[d]
  BY <1>1 DEF TypeOK, LocalMove
<1>5. d \in Verifies => token'[d] = token[d] /\ (d \in entitled' <=> d \in entitled)
  BY <1>1 DEF TypeOK, LocalMove, BeginVerify
<1>6. d \in Revokes => handed'[d] = handed[d]
  BY <1>1 DEF TypeOK, LocalMove
<1>7. QED
  BY <1>2, <1>3, <1>4, <1>5, <1>6

\* A step of a call keeps the types.
LEMMA StepTypes ==
    ASSUME AInv, KeepClean, NEW c \in Calls, CallStep(c)
    PROVE  TypeOK'
<1>1. Turn(c) /\ StoreMove(c) /\ LocalMove(c) /\ TypeOK
  BY StepTurns, StepStore, StepLocals DEF AInv
<1>2. pc' \in [Calls -> Labels]
  BY <1>1, PassedFacts DEF TypeOK, Turn
<1>3. verdict' \in [Calls -> Verdicts]
  BY <1>1 DEF TypeOK, Turn
<1>4. faults' \in [AllFaultKinds -> 0..MaxFaults]
  BY <1>1, Constants DEF TypeOK, Turn, CountFault
<1>5. revoked' \in BOOLEAN
  BY <1>1 DEF TypeOK, StoreMove
<1>6. sessions' \in [SessionIds -> Issues \cup {NoToken}]
  BY <1>1 DEF TypeOK, StoreMove
<1>7. suspicion' \in [SessionIds -> 0..AgentThreshold] /\ quarantined' \subseteq SessionIds
  BY <1>1 DEF TypeOK, StoreMove
<1>8. scopes' \in [Issues -> SUBSET Scopes]
  BY <1>1 DEF TypeOK, LocalMove
<1>9. token' \in [Verifies -> Issues \cup {NoToken}] /\ entitled' \subseteq Verifies
  BY <1>1 DEF TypeOK, LocalMove, BeginVerify, Delivered
<1>10. Delivered \in SUBSET Issues
  BY DEF Delivered
<1>11. handed' \in [Revokes -> SUBSET Issues] /\ dead' \subseteq Issues /\ fresh' \subseteq Revokes
  BY <1>1, <1>10 DEF TypeOK, LocalMove
<1>12. clean' \subseteq Verifies
  BY DEF KeepClean
<1>13. QED
  BY <1>1, <1>2, <1>3, <1>4, <1>5, <1>6, <1>7, <1>8, <1>9, <1>11, <1>12 DEF TypeOK, LocalMove


-----------------------------------------------------------------------------
(* The course of an issue *)

\* A fault of Redis or of the process is never forgotten.
LEMMA Losses ==
    ASSUME TypeOK
    PROVE  /\ \A k \in AllFaultKinds : faults[k] \in Nat
           /\ CountFault("store") => ~ NoLoss'
           /\ CountFault("crash") => ~ NoLoss'
           /\ \A c \in Calls : Turn(c) /\ NoLoss' => NoLoss
<1>1. faults \in [AllFaultKinds -> 0..MaxFaults]
  BY DEF TypeOK
<1>2. \A k \in AllFaultKinds : faults[k] \in Nat
  BY <1>1, Constants
<1>3. (CountFault("store") => ~ NoLoss') /\ (CountFault("crash") => ~ NoLoss')
  BY <1>1, <1>2, Constants DEF CountFault, NoLoss
<1>4. ASSUME NEW k \in AllFaultKinds, CountFault(k), NoLoss' PROVE NoLoss
  BY <1>1, <1>2, <1>4, Constants DEF CountFault, NoLoss
<1>5. \A c \in Calls : Turn(c) /\ NoLoss' => NoLoss
  BY <1>4 DEF Turn, NoLoss
<1>6. QED
  BY <1>2, <1>3, <1>5

\* Where each way to end a step leaves its call.
LEMMA Lands ==
    ASSUME TypeOK, NEW c \in Calls
    PROVE  /\ \A x : Goto(c, x) => pc'[c] = x /\ verdict'[c] = verdict[c]
           /\ \A u : End(c, u) => pc'[c] = "done" /\ verdict'[c] = u
           /\ \A u, x : Decide(c, u, x) => pc'[c] = x /\ verdict'[c] = u
           /\ \A k : Reject(c, k) => /\ pc'[c] = OnThrow(c) /\ verdict'[c] = Thrown(c)
                                     /\ CountFault(k)
           /\ Crash(c) => pc'[c] = "done" /\ verdict'[c] = "error" /\ CountFault("crash")
BY DEF TypeOK, Goto, End, Decide, Reject, Crash

\* A call that is done takes no step.
LEMMA NotDone ==
    ASSUME NEW c \in Calls, CallStep(c)
    PROVE  pc[c] # "done"
BY DEF CallStep, IssueStep, VerifyStep, RevokeStep, BeginIssue, Resolve, CheckHuman, Authorize,
       StoreSession, Recheck, AuditIssued, Undo, AuditDenial, BeginVerify, CheckMarker,
       CheckSession, Lookup, CheckRegistry, CheckOwner, ReportSuspicion, AuditRejected,
       BeginRevoke, DropSessions, AuditRevoked, Activate, AuditActivated, RevokeSession, Fails,
       Crash

Early == {"idle", "resolve", "human", "active", "authorize"}

\* An issue, from its first step to its last.
IssueMove(i) ==
    \/ /\ pc[i] \in Early
       /\ UNCHANGED sessions
       /\ pc'[i] \in {"resolve", "human", "active", "authorize", "upsert", "denied", "done"}
       /\ pc'[i] \in {"human", "active", "authorize", "upsert"} => scopes'[i] # {}
       /\ verdict'[i] # "ok"
    \/ /\ pc[i] = "upsert"
       /\ scopes'[i] = scopes[i] /\ verdict'[i] # "ok"
       /\ \/ pc'[i] = "recheck"
          \/ pc'[i] \in {"denied", "done"} /\ ~ NoLoss'
    \/ /\ pc[i] = "recheck"
       /\ UNCHANGED sessions
       /\ scopes'[i] = scopes[i] /\ verdict'[i] # "ok"
       /\ \/ pc'[i] = "undo" /\ revoked
          \/ pc'[i] = "audit" /\ ~ revoked
          \/ pc'[i] \in {"denied", "done"} /\ ~ NoLoss'
    \/ /\ pc[i] = "audit"
       /\ UNCHANGED sessions
       /\ scopes'[i] = scopes[i]
       /\ \/ pc'[i] = "done" /\ verdict'[i] = "ok"
          \/ pc'[i] = "undo" /\ verdict'[i] = "error"
          \/ pc'[i] = "done" /\ verdict'[i] = "error" /\ ~ NoLoss'
    \/ /\ pc[i] = "undo"
       /\ pc'[i] \in {"denied", "done"} /\ verdict'[i] # "ok"
       /\ sessions' = [sessions EXCEPT ![sid[i]] = NoToken] \/ ~ NoLoss'
    \/ /\ pc[i] = "denied"
       /\ UNCHANGED sessions
       /\ pc'[i] = "done" /\ verdict'[i] = "error"

\* Every step of an issue is one of its await, in order.
LEMMA IssueMoves ==
    ASSUME AInv, NEW i \in Issues, CallStep(i)
    PROVE  IssueMove(i)
<1>0. /\ TypeOK /\ IssueCourse(i) /\ i \in Calls /\ i \notin Verifies /\ i \notin Revokes
      /\ i \notin Activations /\ i \notin Drops
      /\ scopes \in [Issues -> SUBSET Scopes]
  BY Apart DEF AInv, TypeOK
<1>a. pc[i] # "done" => verdict[i] # "ok"
  BY <1>0 DEF IssueCourse
<1>b. /\ UNCHANGED agentStore => UNCHANGED <<sessions, revoked>>
      /\ UNCHANGED local => scopes'[i] = scopes[i]
  BY DEF agentStore, local
<1> USE DEF Early
<1>1. CASE BeginIssue(i)
  BY <1>0, <1>a, <1>b, <1>1, Lands DEF BeginIssue, Deny, IssueMove
<1>2. CASE Resolve(i)
  <2>1. /\ pc[i] = "resolve" /\ UNCHANGED sessions
        /\ pc'[i] \in {"human", "upsert", "denied"} /\ verdict'[i] # "ok"
    BY <1>0, <1>a, <1>b, <1>2, Lands DEF Resolve, Deny
  <2>2. pc'[i] = "denied" \/ \E S \in SUBSET registered : S # {} /\ scopes' = [scopes EXCEPT ![i] = S]
    <3>1. CASE Deny(i)
      BY <1>0, <3>1, Lands DEF Deny
    <3>2. CASE ~ Deny(i)
      <4>1. PICK S \in (SUBSET registered) \ {{}} : scopes' = [scopes EXCEPT ![i] = S]
        BY <1>2, <3>2 DEF Resolve
      <4>2. QED
        BY <4>1
    <3>3. QED
      BY <3>1, <3>2
  <2>3. pc'[i] = "denied" \/ scopes'[i] # {}
    BY <1>0, <2>2
  <2>4. QED
    BY <2>1, <2>3 DEF IssueMove
<1>3. CASE CheckHuman(i)
  <2>1. /\ pc[i] \in {"human", "active"} /\ UNCHANGED sessions /\ scopes'[i] = scopes[i]
        /\ pc'[i] \in {"active", "authorize", "denied"} /\ verdict'[i] # "ok"
    BY <1>0, <1>a, <1>b, <1>3, Lands DEF CheckHuman, Deny
  <2>2. QED
    BY <1>0, <2>1 DEF IssueMove, IssueCourse
<1>4. CASE Authorize(i)
  <2>1. /\ pc[i] = "authorize" /\ UNCHANGED sessions /\ scopes'[i] = scopes[i]
        /\ pc'[i] \in {"upsert", "denied"} /\ verdict'[i] # "ok"
    BY <1>0, <1>a, <1>b, <1>4, Lands DEF Authorize, Deny
  <2>2. QED
    BY <1>0, <2>1 DEF IssueMove, IssueCourse
<1>5. CASE StoreSession(i)
  <2>1. pc[i] = "upsert" /\ scopes'[i] = scopes[i] /\ Reply(i, "recheck")
    BY <1>b, <1>5 DEF StoreSession
  <2>2. \/ pc'[i] = "recheck" /\ verdict'[i] = verdict[i]
        \/ pc'[i] = "denied" /\ verdict'[i] = "error" /\ ~ NoLoss'
    BY <1>0, <2>1, Lands, Losses DEF Reply, OnThrow, Thrown
  <2>3. QED
    BY <1>a, <2>1, <2>2 DEF IssueMove
<1>6. CASE Recheck(i)
  BY <1>0, <1>a, <1>b, <1>6, Lands DEF Recheck, IssueMove
<1>7. CASE AuditIssued(i)
  <2>1. pc[i] = "audit" /\ UNCHANGED sessions /\ scopes'[i] = scopes[i]
    BY <1>b, <1>7 DEF AuditIssued
  <2>2. \/ pc'[i] = "done" /\ verdict'[i] = "ok"
        \/ pc'[i] = "undo" /\ verdict'[i] = "error"
    BY <1>0, <1>7, <2>1, Lands DEF AuditIssued, OnThrow, Thrown
  <2>3. QED
    BY <2>1, <2>2 DEF IssueMove
<1>8. CASE Undo(i)
  <2>1. pc[i] = "undo" /\ sessions' = [sessions EXCEPT ![sid[i]] = NoToken]
    BY <1>8 DEF Undo
  <2>2. pc'[i] = "denied" /\ verdict'[i] = "error"
    BY <1>0, <1>8, <2>1, Lands DEF Undo, Deny, OnThrow, Thrown
  <2>3. QED
    BY <2>1, <2>2 DEF IssueMove
<1>9. CASE AuditDenial(i)
  <2>1. pc[i] = "denied" /\ UNCHANGED sessions
    BY <1>b, <1>9 DEF AuditDenial
  <2>2. pc'[i] = "done" /\ verdict'[i] = "error"
    BY <1>0, <1>9, <2>1, Lands DEF AuditDenial, OnThrow, Thrown
  <2>3. QED
    BY <2>1, <2>2 DEF IssueMove
<1>10. CASE Fails(i) \/ Crash(i)
  <2>1. /\ pc[i] \notin {"idle", "done"} /\ UNCHANGED sessions /\ scopes'[i] = scopes[i]
        /\ pc'[i] \in {"denied", "done"} /\ verdict'[i] = "error" /\ ~ NoLoss'
        /\ pc[i] = "audit" => pc'[i] = "done"
        /\ pc[i] = "denied" => pc'[i] = "done"
    BY <1>0, <1>b, <1>10, Lands, Losses DEF Fails, Crash, OnThrow, Thrown
  <2>2. pc[i] \in {"resolve", "human", "active", "authorize", "upsert", "recheck", "audit",
                   "undo", "denied"}
    BY <1>0, <2>1 DEF IssueCourse
  <2>3. QED
    BY <2>1, <2>2 DEF IssueMove
<1>11. QED
  BY <1>0, <1>1, <1>2, <1>3, <1>4, <1>5, <1>6, <1>7, <1>8, <1>9, <1>10 DEF CallStep, IssueStep

\* A step of any call leaves every issue on its course.
LEMMA StepIssue ==
    ASSUME AInv, NEW c \in Calls, CallStep(c), NEW i \in Issues
    PROVE  IssueCourse(i)'
<1>0. /\ TypeOK /\ IssueCourse(i) /\ Stored /\ Turn(c) /\ StoreMove(c) /\ i \in Calls
      /\ sessions \in [SessionIds -> Issues \cup {NoToken}] /\ sid \in [Issues -> SessionIds]
      /\ sid' = sid
  BY StepTurns, StepStore, StepLocals, Apart DEF AInv, TypeOK, LocalMove
<1>1. CASE i = c
  <2>0. IssueMove(i)
    BY <1>1, IssueMoves
  <2>1. ASSUME NoLoss', pc'[i] = "denied" \/ (pc'[i] = "done" /\ verdict'[i] = "error")
        PROVE  sessions'[sid'[i]] # i
    <3>1. sid'[i] = sid[i] /\ NoLoss
      BY <1>0, <2>1, Losses
    <3>2. CASE pc[i] \in Early
      BY <1>0, <2>0, <3>1, <3>2, Apart DEF IssueMove, Early, Stored
    <3>3. CASE pc[i] = "undo"
      <4>1. sessions' = [sessions EXCEPT ![sid[i]] = NoToken]
        BY <2>0, <2>1, <3>3 DEF IssueMove, Early
      <4>2. QED
        BY <1>0, <3>1, <4>1, Apart
    <3>4. CASE pc[i] = "denied"
      BY <1>0, <2>0, <3>1, <3>4 DEF IssueMove, Early, IssueCourse
    <3>5. QED
      BY <2>0, <2>1, <3>2, <3>3, <3>4 DEF IssueMove
  <2>2. /\ pc'[i] \in {"human", "active", "authorize", "upsert", "recheck", "audit"}
              \/ verdict'[i] = "ok" => scopes'[i] # {}
        /\ verdict'[i] = "ok" => pc'[i] = "done"
        /\ pc'[i] \in {"idle", "resolve", "human", "active", "authorize", "upsert", "recheck",
                       "audit", "undo", "denied", "done"}
    BY <1>0, <2>0 DEF IssueMove, Early, IssueCourse
  <2>3. QED
    BY <2>1, <2>2 DEF IssueCourse
<1>2. CASE i # c
  <2>1. pc'[i] = pc[i] /\ verdict'[i] = verdict[i] /\ scopes'[i] = scopes[i] /\ sid'[i] = sid[i]
    BY <1>0, <1>2, Others
  <2>2. sessions'[sid[i]] = i => sessions[sid[i]] = i
    BY <1>0, <1>2, Apart DEF StoreMove
  <2>3. NoLoss' => NoLoss
    BY <1>0, Losses
  <2>4. QED
    BY <1>0, <2>1, <2>2, <2>3 DEF IssueCourse
<1>3. QED
  BY <1>1, <1>2

\* What a session holds after the step it held before, or is the token of the
\* issue that has just stored it.
LEMMA Holds ==
    ASSUME AInv, NEW c \in Calls, CallStep(c), NEW s \in SessionIds, sessions'[s] # NoToken
    PROVE  /\ sessions'[s] \in Issues
           /\ \/ sessions'[s] = sessions[s]
              \/ /\ sessions'[s] = c /\ c \in Issues /\ sid[c] = s /\ pc[c] = "upsert"
<1>1. /\ StoreMove(c) /\ sessions \in [SessionIds -> Issues \cup {NoToken}]
      /\ sid \in [Issues -> SessionIds]
  BY StepStore DEF AInv, TypeOK
<1>2. QED
  BY <1>1 DEF StoreMove

\* What a session field holds was stored by its call.
LEMMA StepStored ==
    ASSUME AInv, NEW c \in Calls, CallStep(c)
    PROVE  Stored'
<1>0. Stored /\ sid' = sid
  BY StepLocals DEF AInv, LocalMove
<1>1. SUFFICES ASSUME NEW s \in SessionIds, sessions'[s] # NoToken
               PROVE  /\ sid[sessions'[s]] = s
                      /\ pc'[sessions'[s]] \in {"recheck", "audit", "undo", "denied", "done"}
  BY <1>0 DEF Stored
<1>2. CASE sessions'[s] = c /\ c \in Issues /\ sid[c] = s /\ pc[c] = "upsert"
  BY <1>2, IssueMoves DEF IssueMove, Early
<1>3. CASE sessions'[s] = sessions[s]
  <2>1. /\ sid[sessions[s]] = s /\ sessions[s] \in Issues
        /\ pc[sessions[s]] \in {"recheck", "audit", "undo", "denied", "done"}
    BY <1>0, <1>1, <1>3, Holds DEF Stored
  <2>2. CASE sessions[s] = c
    BY <1>3, <2>1, <2>2, IssueMoves, NotDone DEF IssueMove, Early
  <2>3. CASE sessions[s] # c
    BY <1>3, <2>1, <2>3, Others, Apart
  <2>4. QED
    BY <2>2, <2>3
<1>4. QED
  BY <1>1, <1>2, <1>3, Holds

\* A token that was handed out and is not stored never is again.
LEMMA GoneStays ==
    ASSUME AInv, NEW c \in Calls, CallStep(c), NEW t \in Issues, pc[t] = "done"
    PROVE  /\ pc'[t] = "done" /\ verdict'[t] = verdict[t] /\ scopes'[t] = scopes[t]
           /\ sessions[sid[t]] # t => sessions'[sid'[t]] # t
<1>1. t # c /\ t \in Calls
  BY NotDone, Apart
<1>2. pc'[t] = "done" /\ verdict'[t] = verdict[t] /\ scopes'[t] = scopes[t]
  BY <1>1, Others
<1>3. sid' = sid /\ sid[t] \in SessionIds
  BY StepLocals DEF AInv, TypeOK, LocalMove
<1>4. sessions[sid[t]] # t => sessions'[sid[t]] # t
  BY <1>1, <1>3, Holds, Apart
<1>5. QED
  BY <1>2, <1>3, <1>4

-----------------------------------------------------------------------------
(* The course of a revocation *)

RevokeMove(k) ==
    \/ BeginRevoke(k) /\ pc[k] = "idle" /\ pc'[k] \in {"drop", "done"} /\ verdict'[k] # "ok"
    \/ /\ DropSessions(k)
       /\ pc[k] = "drop" /\ pc'[k] \in {"audit", "done"} /\ verdict'[k] # "ok"
       /\ sessions' = [s \in SessionIds |-> NoToken]
    \/ /\ pc[k] = "audit" /\ pc'[k] = "done" /\ verdict'[k] = "ok"
       /\ UNCHANGED sessions
    \/ pc'[k] = "done" /\ verdict'[k] = "error"

\* A revocation sets the marker, takes the sessions and is audited, in this
\* order.
LEMMA RevokeMoves ==
    ASSUME AInv, NEW k \in Revokes, CallStep(k)
    PROVE  RevokeMove(k)
<1>0. /\ TypeOK /\ RevokeCourse(k) /\ k \in Calls /\ k \notin Verifies /\ k \notin Issues
      /\ k \notin Activations /\ k \notin Drops
  BY Apart DEF AInv
<1>a. verdict[k] # "ok"
  BY <1>0, NotDone DEF RevokeCourse
<1>b. OnThrow(k) = "done" /\ Thrown(k) = "error"
  BY <1>0 DEF OnThrow, Thrown
<1>1. CASE BeginRevoke(k)
  BY <1>0, <1>a, <1>b, <1>1, Lands DEF BeginRevoke, Reply, RevokeMove
<1>2. CASE DropSessions(k)
  BY <1>0, <1>a, <1>b, <1>2, Lands DEF DropSessions, SessionsDropped, Reply, RevokeMove
<1>3. CASE AuditRevoked(k)
  BY <1>0, <1>a, <1>b, <1>3, Lands DEF AuditRevoked, RevokeMove, agentStore
<1>4. CASE Fails(k) \/ Crash(k)
  BY <1>0, <1>b, <1>4, Lands DEF Fails, RevokeMove
<1>5. QED
  BY <1>0, <1>1, <1>2, <1>3, <1>4 DEF CallStep, RevokeStep

\* A step of any call leaves every revocation on its course.
LEMMA StepRevoke ==
    ASSUME AInv, NEW c \in Calls, CallStep(c), NEW k \in Revokes
    PROVE  RevokeCourse(k)'
<1>0. /\ TypeOK /\ RevokeCourse(k) /\ Stored /\ Turn(c) /\ StoreMove(c) /\ LocalMove(c)
      /\ k \in Calls /\ sessions \in [SessionIds -> Issues \cup {NoToken}]
      /\ sid \in [Issues -> SessionIds] /\ sid' = sid
      /\ handed \in [Revokes -> SUBSET Issues]
  BY StepTurns, StepStore, StepLocals, Apart DEF AInv, TypeOK, LocalMove
<1>1. ASSUME NEW t \in handed'[k] PROVE t \in Issues /\ pc[t] = "done"
  <2>1. handed'[k] = handed[k] \/ handed'[k] = Delivered
    BY <1>0 DEF LocalMove
  <2>2. QED
    BY <1>0, <2>1 DEF RevokeCourse, Delivered
<1>2. \A t \in handed'[k] : pc'[t] = "done"
  BY <1>1, GoneStays
<1>3. ASSUME pc'[k] = "audit", NEW t \in handed'[k] PROVE sessions'[sid'[t]] # t
  <2>1. CASE k = c
    <3>1. sessions' = [s \in SessionIds |-> NoToken]
      BY <1>3, <2>1, RevokeMoves DEF RevokeMove
    <3>2. QED
      BY <1>0, <1>1, <3>1, Apart
  <2>2. CASE k # c
    <3>1. pc[k] = "audit" /\ handed'[k] = handed[k]
      BY <1>0, <1>3, <2>2, Others
    <3>2. QED
      BY <1>0, <1>1, <3>1, GoneStays DEF RevokeCourse
  <2>3. QED
    BY <2>1, <2>2
<1>4. verdict'[k] = "ok" => pc'[k] = "done"
  <2>1. CASE k = c
    BY <2>1, RevokeMoves DEF RevokeMove
  <2>2. CASE k # c
    BY <1>0, <2>2, Others DEF RevokeCourse
  <2>3. QED
    BY <2>1, <2>2
<1>5. k \in fresh' => revoked'
  BY <1>0 DEF LocalMove, RevokeCourse
<1>6. ASSUME k \in fresh', pc'[k] = "audit" \/ verdict'[k] = "ok", NoLoss',
             NEW s \in SessionIds, sessions'[s] # NoToken
      PROVE  pc'[sessions'[s]] \in {"recheck", "undo"}
  <2>0. NoLoss /\ sessions'[s] \in Issues
    BY <1>0, <1>6, Losses, Holds
  <2>1. CASE sessions'[s] = c /\ c \in Issues /\ sid[c] = s /\ pc[c] = "upsert"
    BY <1>6, <2>1, IssueMoves DEF IssueMove, Early
  <2>2. CASE sessions'[s] = sessions[s]
    <3>1. k \in fresh /\ (pc[k] = "audit" \/ verdict[k] = "ok")
      <4>1. CASE k = c
        <5>1. sessions' # [q \in SessionIds |-> NoToken]
          BY <1>6
        <5>2. pc[k] = "audit"
          BY <1>6, <4>1, <5>1, RevokeMoves DEF RevokeMove
        <5>3. k \in fresh
          BY <1>0, <1>6, <4>1, <5>2 DEF LocalMove
        <5>4. QED
          BY <5>2, <5>3
      <4>2. CASE k # c
        BY <1>0, <1>6, <4>2, Others DEF LocalMove
      <4>3. QED
        BY <4>1, <4>2
    <3>2. pc[sessions[s]] \in {"recheck", "undo"} /\ revoked /\ sid[sessions[s]] = s
      BY <1>0, <1>6, <2>0, <2>2, <3>1 DEF RevokeCourse, Stored
    <3>3. CASE sessions[s] = c
      <4>1. pc[c] = "undo" => sessions'[s] = NoToken
        BY <1>0, <1>6, <2>0, <2>2, <3>2, <3>3, IssueMoves DEF IssueMove, Early
      <4>2. pc[c] = "recheck"
        BY <1>6, <3>2, <3>3, <4>1
      <4>3. pc'[c] = "undo"
        BY <1>6, <2>0, <2>2, <3>2, <3>3, <4>2, IssueMoves DEF IssueMove, Early
      <4>4. QED
        BY <2>2, <3>3, <4>3
    <3>4. CASE sessions[s] # c
      BY <2>0, <2>2, <3>2, <3>4, Others, Apart
    <3>5. QED
      BY <3>3, <3>4
  <2>3. QED
    BY <1>6, <2>1, <2>2, Holds
<1>7. QED
  BY <1>2, <1>3, <1>4, <1>5, <1>6 DEF RevokeCourse

\* No step stores a dead token again, for its call is done.
LEMMA StepDead ==
    ASSUME AInv, NEW c \in Calls, CallStep(c)
    PROVE  DeadGone'
<1>0. /\ DeadGone /\ LocalMove(c) /\ dead \subseteq Issues
      /\ handed \in [Revokes -> SUBSET Issues]
      /\ \A k \in Revokes : RevokeCourse(k)
  BY StepLocals DEF AInv, TypeOK
<1>1. ASSUME NEW t \in dead' PROVE t \in Issues /\ pc[t] = "done" /\ sessions[sid[t]] # t
  <2>1. t \in dead \/ (c \in Revokes /\ pc[c] = "audit" /\ t \in handed[c])
    BY <1>0 DEF LocalMove
  <2>2. QED
    BY <1>0, <2>1 DEF DeadGone, RevokeCourse
<1>2. QED
  BY <1>1, GoneStays DEF DeadGone


-----------------------------------------------------------------------------
(* The course of a verification *)

\* A request is not clean once something has failed.
LEMMA Clears ==
    ASSUME TypeOK
    PROVE  \A k \in AllFaultKinds : CountFault(k) => ~ NothingFailed'
<1>1. faults \in [AllFaultKinds -> 0..MaxFaults]
  BY DEF TypeOK
<1>2. ASSUME NEW k \in AllFaultKinds, CountFault(k) PROVE ~ NothingFailed'
  <2>1. faults'[k] = faults[k] + 1 /\ faults[k] \in Nat
    BY <1>1, <1>2, Constants DEF CountFault
  <2>2. faults'[k] # 0
    BY <2>1
  <2>3. QED
    BY <2>2 DEF NothingFailed
<1>3. QED
  BY <1>2

\* The token was accepted, for the route or not.
Judged(v) ==
    \/ pc'[v] = "done" /\ verdict'[v] = "ok"
    \/ pc'[v] = "report" /\ verdict'[v] = "forbidden"

Refused(v) == pc'[v] = "report" /\ verdict'[v] = "refused"

On(v, label) == pc'[v] = label /\ verdict'[v] = verdict[v]

\* A verification, from its first step to its last.
VerifyMove(v) ==
    \/ /\ BeginVerify(v)
       /\ pc[v] = "idle"
       /\ token'[v] \in Delivered
       /\ v \in entitled' \/ \/ token'[v] \in dead
                             \/ ~ scopes[token'[v]] \subseteq registered
                             \/ Cut(token'[v])
       /\ v \in entitled => v \in entitled'
       /\ \/ On(v, "marker")
          \/ Refused(v) /\ sid[token'[v]] \in quarantined
    \/ /\ UNCHANGED <<token, entitled>>
       /\ \/ pc[v] = "marker" /\ (On(v, "session") \/ (Refused(v) /\ revoked))
          \/ /\ pc[v] = "session"
             /\ \/ On(v, "lookup") /\ sessions[sid[token[v]]] = token[v]
                \/ Refused(v) /\ sessions[sid[token[v]]] # token[v]
          \/ /\ pc[v] = "lookup"
             /\ \/ On(v, "registry")
                \/ pc'[v] = "done" /\ verdict'[v] = "refused" /\ revoked
          \/ /\ pc[v] = "registry"
             /\ \/ pc'[v] = "done" /\ verdict'[v] = "refused" /\ registered = {}
                \/ Refused(v) /\ ~ scopes[token[v]] \subseteq registered
                \/ /\ scopes[token[v]] \subseteq registered
                   /\ \/ On(v, "owner") /\ token[v] \in delegated
                      \/ Judged(v) /\ token[v] \notin delegated
          \/ pc[v] = "owner" /\ ((Judged(v) /\ human) \/ (Refused(v) /\ ~ human))
          \/ /\ pc[v] \in {"report", "alert"} /\ pc'[v] \in {"alert", "done"}
             /\ \/ verdict'[v] = verdict[v]
                \/ verdict'[v] = "error" /\ ~ NothingFailed'
          \/ /\ pc[v] # "idle" /\ pc'[v] = "done"
             /\ verdict'[v] \in {"refused", "error"} /\ ~ NothingFailed'

\* A verification either stops or passes one check more.
LEMMA VerifyMoves ==
    ASSUME AInv, NEW v \in Verifies, CallStep(v)
    PROVE  VerifyMove(v)
<1>0. /\ TypeOK /\ VerifyCourse(v) /\ v \in Calls /\ v \notin Revokes /\ v \notin Issues
      /\ v \notin Activations /\ v \notin Drops
      /\ token \in [Verifies -> Issues \cup {NoToken}]
  BY Apart DEF AInv, TypeOK
<1>a. OnThrow(v) = "done" /\ Thrown(v) \in {"refused", "error"}
  BY <1>0 DEF OnThrow, Thrown
<1>b. \A k \in FaultKinds : CountFault(k) => ~ NothingFailed'
  BY <1>0, Clears, Constants
<1>c. \A k : Reject(v, k) => ~ NothingFailed' /\ pc'[v] = "done" /\ verdict'[v] = Thrown(v)
  BY <1>0, <1>a, <1>b, Lands DEF CountFault
<1>d. Refuse(v) => Refused(v)
  BY <1>0, Lands DEF Refuse, Refused
<1>e. Accept(v) => Judged(v)
  BY <1>0, Lands DEF Accept, Judged
<1>f. \A x : Goto(v, x) => On(v, x)
  BY <1>0, Lands DEF On
<1>g. UNCHANGED <<local, history>> => UNCHANGED <<token, entitled>>
  BY DEF local, history
<1>1. CASE BeginVerify(v)
  <2>1. PICK t \in Delivered :
          /\ token' = [token EXCEPT ![v] = t]
          /\ entitled' = IF t \in dead \/ ~ scopes[t] \subseteq registered \/ Cut(t)
                         THEN entitled ELSE entitled \cup {v}
          /\ IF sid[t] \in quarantined THEN Refuse(v) ELSE Goto(v, "marker")
    BY <1>1 DEF BeginVerify
  <2>2. token'[v] = t /\ pc[v] = "idle"
    BY <1>0, <1>1, <2>1 DEF BeginVerify
  <2>3. On(v, "marker") \/ (Refused(v) /\ sid[t] \in quarantined)
    BY <1>d, <1>f, <2>1
  <2>4. v \in entitled' \/ t \in dead \/ ~ scopes[t] \subseteq registered \/ Cut(t)
    BY <2>1
  <2>5. v \in entitled => v \in entitled'
    BY <2>1
  <2>6. QED
    BY <1>1, <2>2, <2>3, <2>4, <2>5 DEF VerifyMove
<1>2. CASE CheckMarker(v)
  BY <1>d, <1>f, <1>g, <1>2 DEF CheckMarker, VerifyMove
<1>3. CASE CheckSession(v)
  BY <1>d, <1>f, <1>g, <1>3 DEF CheckSession, VerifyMove
<1>4. CASE Lookup(v)
  BY <1>0, <1>f, <1>g, <1>4, Lands DEF Lookup, VerifyMove
<1>5. CASE CheckRegistry(v)
  <2>1. End(v, "refused") => pc'[v] = "done" /\ verdict'[v] = "refused"
    BY <1>0, Lands
  <2>2. QED
    BY <1>d, <1>e, <1>f, <1>g, <1>5, <2>1 DEF CheckRegistry, VerifyMove
<1>6. CASE CheckOwner(v)
  BY <1>d, <1>e, <1>g, <1>6 DEF CheckOwner, VerifyMove
<1>7. CASE ReportSuspicion(v)
  <2>1. /\ pc[v] = "report" /\ UNCHANGED <<token, entitled>>
        /\ Goto(v, "alert") \/ Reject(v, "store") \/ Reject(v, "audit")
    BY <1>g, <1>7 DEF ReportSuspicion, Reply
  <2>2. Thrown(v) = "error"
    BY <1>0, <2>1 DEF Thrown
  <2>3. QED
    BY <1>c, <1>f, <2>1, <2>2 DEF VerifyMove, On
<1>8. CASE AuditRejected(v)
  <2>1. Thrown(v) = "error"
    BY <1>0, <1>8 DEF AuditRejected, Thrown
  <2>2. QED
    BY <1>c, <1>f, <1>g, <1>8, <2>1 DEF AuditRejected, VerifyMove, On
<1>9. CASE Fails(v)
  BY <1>a, <1>c, <1>g, <1>9 DEF Fails, VerifyMove
<1>10. CASE Crash(v)
  <2>1. pc'[v] = "done" /\ verdict'[v] = "error" /\ ~ NothingFailed'
    BY <1>0, <1>b, <1>10, Lands DEF CountFault
  <2>2. QED
    BY <1>g, <1>10, <2>1 DEF Crash, VerifyMove
<1>11. QED
  BY <1>0, <1>1, <1>2, <1>3, <1>4, <1>5, <1>6, <1>7, <1>8, <1>9, <1>10 DEF CallStep, VerifyStep

\* A token that was handed out keeps its session and its scopes.
LEMMA DeliveredStays ==
    ASSUME AInv, NEW c \in Calls, CallStep(c), NEW t \in Delivered
    PROVE  /\ t \in Delivered' /\ scopes'[t] = scopes[t] /\ sid'[t] = sid[t]
           /\ (t \in dead => t \in dead') /\ (Cut(t)' <=> Cut(t)) /\ registered' = registered
<1>1. t \in Issues /\ pc[t] = "done" /\ verdict[t] = "ok"
  BY DEF Delivered
<1>2. pc'[t] = "done" /\ verdict'[t] = verdict[t] /\ scopes'[t] = scopes[t]
  BY <1>1, GoneStays
<1>3. UNCHANGED <<sid, delegated, registered, human>> /\ dead \subseteq dead'
  BY StepLocals DEF LocalMove
<1>4. Cut(t)' <=> Cut(t)
  BY <1>3 DEF Cut
<1>5. QED
  BY <1>1, <1>2, <1>3, <1>4 DEF Delivered

\* A step of any call leaves a check to catch what is not entitled.
LEMMA StepVerify ==
    ASSUME AInv, NEW c \in Calls, CallStep(c), NEW v \in Verifies
    PROVE  VerifyCourse(v)'
<1>0. TypeOK /\ VerifyCourse(v) /\ DeadGone /\ v \in Calls
  BY Apart DEF AInv
<1>1. CASE v # c
  <2>1. /\ pc'[v] = pc[v] /\ verdict'[v] = verdict[v] /\ token'[v] = token[v]
        /\ v \in entitled' <=> v \in entitled
    BY <1>0, <1>1, Others
  <2>2. CASE pc[v] = "idle"
    BY <1>0, <2>1, <2>2 DEF VerifyCourse, Caught
  <2>3. CASE pc[v] # "idle"
    <3>1. token[v] \in Delivered
      BY <1>0, <2>3 DEF VerifyCourse
    <3>2. /\ token[v] \in Delivered' /\ scopes'[token[v]] = scopes[token[v]]
          /\ token[v] \in dead => token[v] \in dead'
          /\ registered' = registered /\ human' = human /\ delegated' = delegated
      BY <3>1, DeliveredStays, StepLocals DEF LocalMove
    <3>3. Caught(v) => Caught(v)'
      BY <2>1, <3>2 DEF Caught, Cut
    <3>4. token'[v] \in Delivered'
      BY <2>1, <3>2
    <3>5. QED
      BY <1>0, <2>1, <2>3, <3>2, <3>3, <3>4 DEF VerifyCourse
  <2>4. QED
    BY <2>2, <2>3
<1>2. CASE v = c
  <2>0. VerifyMove(v)
    BY <1>2, VerifyMoves
  <2>1. token'[v] \in Delivered /\ pc'[v] # "idle"
    BY <1>0, <2>0 DEF VerifyMove, VerifyCourse, On, Refused, Judged
  <2>2. /\ token'[v] \in Delivered' /\ scopes'[token'[v]] = scopes[token'[v]]
        /\ token'[v] \in dead => token'[v] \in dead'
        /\ registered' = registered /\ human' = human /\ delegated' = delegated
    BY <1>2, <2>1, DeliveredStays, StepLocals DEF LocalMove
  <2>3. /\ pc'[v] \in {"marker", "session", "lookup", "registry", "owner", "report", "alert",
                       "done"}
        /\ pc'[v] = "owner" => token'[v] \in delegated'
        /\ verdict'[v] = "none" <=> pc'[v] \notin {"report", "alert", "done"}
    BY <1>0, <2>0, <2>2 DEF VerifyMove, VerifyCourse, On, Refused, Judged
  <2>4. v \in entitled' \/ Caught(v)'
    <3>1. CASE BeginVerify(v) /\ VerifyMove(v) /\ pc[v] = "idle"
      <4>1. /\ v \in entitled' \/ \/ token'[v] \in dead
                                  \/ ~ scopes[token'[v]] \subseteq registered
                                  \/ Cut(token'[v])
            /\ On(v, "marker") \/ Refused(v)
        BY <1>0, <2>0, <3>1, NotDone DEF VerifyMove
      <4>2. QED
        BY <1>0, <2>2, <3>1, <4>1 DEF VerifyCourse, Caught, Cut, On, Refused
    <3>2. CASE UNCHANGED <<token, entitled>> /\ v \notin entitled
      <4>1. Caught(v)
        BY <1>0, <3>2 DEF VerifyCourse
      <4>2. CASE pc[v] \in {"idle", "marker", "session", "lookup"}
        BY <1>0, <2>0, <2>2, <3>2, <4>1, <4>2
        DEF VerifyMove, VerifyCourse, Caught, Cut, DeadGone, On, Refused, Judged, BeginVerify
      <4>3. CASE pc[v] \in {"registry", "owner"}
        BY <2>0, <2>2, <3>2, <4>1, <4>3 DEF VerifyMove, Caught, Cut, On, Refused, Judged
      <4>4. CASE pc[v] \in {"report", "alert"}
        BY <2>0, <3>2, <4>1, <4>4 DEF VerifyMove, Caught
      <4>5. QED
        BY <1>0, <1>2, <4>2, <4>3, <4>4, NotDone DEF VerifyCourse
    <3>3. QED
      BY <2>0, <3>1, <3>2 DEF VerifyMove
  <2>5. QED
    BY <2>1, <2>2, <2>3, <2>4 DEF VerifyCourse
<1>3. QED
  BY <1>1, <1>2

\* A request whose token is in force passes the check that comes next.
LEMMA StepClean ==
    ASSUME AInv, KeepClean, NEW c \in Calls, CallStep(c), NEW v \in Verifies
    PROVE  CleanCourse(v)'
<1>0. /\ TypeOK /\ VerifyCourse(v) /\ CleanCourse(v) /\ v \in Calls
      /\ \A i \in Issues : IssueCourse(i)
  BY Apart DEF AInv
<1>1. SUFFICES ASSUME v \in clean'
               PROVE  /\ verdict'[v] \in {"none", "ok", "forbidden"}
                      /\ NothingFailed'
                      /\ verdict'[v] = "none" => InForce(v)'
  BY DEF CleanCourse
<1>2. /\ NothingFailed'
      /\ verdict[v] # "none" => v \in clean
      /\ verdict[v] = "none" => (pc[v] = "idle" \/ v \in clean) /\ InForce(v)'
  BY <1>1 DEF KeepClean
<1>3. CASE v # c
  <2>1. verdict'[v] = verdict[v]
    BY <1>0, <1>3, Others
  <2>2. QED
    BY <1>0, <1>2, <2>1 DEF CleanCourse
<1>4. CASE v = c /\ verdict[v] # "none"
  <2>1. pc[v] \in {"report", "alert"}
    BY <1>0, <1>4, NotDone DEF VerifyCourse
  <2>2. verdict'[v] = verdict[v]
    BY <1>2, <1>4, <2>1, VerifyMoves DEF VerifyMove
  <2>3. QED
    BY <1>0, <1>2, <1>4, <2>2 DEF CleanCourse
<1>5. CASE v = c /\ verdict[v] = "none" /\ pc[v] = "idle"
  <2>1. BeginVerify(v) /\ (On(v, "marker") \/ (Refused(v) /\ sid[token'[v]] \in quarantined))
    BY <1>2, <1>5, VerifyMoves DEF VerifyMove
  <2>2. sid' = sid /\ quarantined' = quarantined
    BY <2>1 DEF BeginVerify, agentStore
  <2>3. sid[token'[v]] \notin quarantined
    BY <1>2, <1>5, <2>2 DEF InForce
  <2>4. QED
    BY <1>2, <1>5, <2>1, <2>3 DEF On
<1>6. CASE v = c /\ verdict[v] = "none" /\ pc[v] # "idle"
  <2>1. InForce(v) /\ token[v] \in Delivered
    BY <1>0, <1>2, <1>6 DEF CleanCourse, VerifyCourse
  <2>2. scopes[token[v]] # {}
    BY <1>0, <2>1 DEF Delivered, IssueCourse
  <2>3. registered # {} /\ ~ revoked /\ sessions[sid[token[v]]] = token[v]
        /\ scopes[token[v]] \subseteq registered /\ (token[v] \in delegated => human)
    BY <2>1, <2>2 DEF InForce, Cut
  <2>4. pc[v] \in {"marker", "session", "lookup", "registry", "owner"}
    BY <1>0, <1>6 DEF VerifyCourse
  <2>5. pc[v] = "owner" => human
    BY <1>0, <2>3 DEF VerifyCourse
  <2>6. verdict'[v] \in {"none", "ok", "forbidden"}
    BY <1>2, <1>6, <2>3, <2>4, <2>5, VerifyMoves DEF VerifyMove, On, Judged, Refused
  <2>7. QED
    BY <1>2, <1>6, <2>6
<1>7. QED
  BY <1>3, <1>4, <1>5, <1>6


-----------------------------------------------------------------------------
(* The world outside, and the whole *)

\* What the registry, the delegating human and the risk service can change.
LEMMA WorldMoves ==
    ASSUME TypeOK, World
    PROVE  /\ UNCHANGED <<revoked, sessions, pc, verdict, local, faults, history>>
           /\ registered' \subseteq registered /\ registered' \subseteq Scopes
           /\ human' \in BOOLEAN /\ (human' => human)
           /\ suspicion' \in [SessionIds -> 0..AgentThreshold]
           /\ quarantined' \subseteq SessionIds
<1>0. /\ suspicion \in [SessionIds -> 0..AgentThreshold] /\ quarantined \subseteq SessionIds
      /\ registered \subseteq Scopes /\ human \in BOOLEAN
  BY DEF TypeOK
<1>1. CASE WithdrawScope
  BY <1>0, <1>1 DEF WithdrawScope, agentStore
<1>2. CASE HumanLogsOut
  BY <1>0, <1>2 DEF HumanLogsOut, agentStore
<1>3. CASE \E s \in SessionIds : QuarantineEnds(s)
  <2>1. PICK s \in SessionIds : QuarantineEnds(s)
    BY <1>3
  <2>2. 0 \in 0..AgentThreshold
    BY Constants
  <2>3. QED
    BY <1>0, <2>1, <2>2 DEF QuarantineEnds, outside
<1>4. QED
  BY <1>1, <1>2, <1>3 DEF World

\* Their steps keep the invariant: they only take entitlements away.
LEMMA WorldKeeps ==
    ASSUME AInv, KeepClean, World
    PROVE  AInv'
<1>0. /\ AInv /\ TypeOK
      /\ UNCHANGED <<revoked, sessions, pc, verdict, sid, scopes, delegated, token, faults,
                     handed, dead, entitled, fresh>>
      /\ registered' \subseteq registered /\ registered' \subseteq Scopes
      /\ human' \in BOOLEAN /\ (human' => human)
      /\ suspicion' \in [SessionIds -> 0..AgentThreshold] /\ quarantined' \subseteq SessionIds
  BY WorldMoves DEF AInv, local, history
<1>1. TypeOK'
  BY <1>0 DEF TypeOK, KeepClean
<1>2. Stored' /\ DeadGone'
  BY <1>0 DEF AInv, Stored, DeadGone
<1>3. ASSUME NEW i \in Issues PROVE IssueCourse(i)'
  <2>1. IssueCourse(i)
    BY DEF AInv
  <2>2. QED
    BY <1>0, <2>1 DEF IssueCourse, NoLoss
<1>4. ASSUME NEW k \in Revokes PROVE RevokeCourse(k)'
  <2>1. RevokeCourse(k)
    BY DEF AInv
  <2>2. QED
    BY <1>0, <2>1 DEF RevokeCourse, NoLoss
<1>5. ASSUME NEW v \in Verifies PROVE VerifyCourse(v)'
  <2>1. VerifyCourse(v)
    BY DEF AInv
  <2>2. Caught(v) => Caught(v)'
    BY <1>0 DEF Caught, Cut
  <2>3. Delivered' = Delivered
    BY <1>0 DEF Delivered
  <2>4. token'[v] = token[v] /\ pc'[v] = pc[v] /\ verdict'[v] = verdict[v]
    BY <1>0
  <2>5. QED
    BY <1>0, <2>1, <2>2, <2>3, <2>4 DEF VerifyCourse
<1>6. ASSUME NEW v \in Verifies PROVE CleanCourse(v)'
  <2>1. CleanCourse(v)
    BY DEF AInv
  <2>2. SUFFICES ASSUME v \in clean'
                 PROVE  /\ NothingFailed' /\ verdict'[v] \in {"none", "ok", "forbidden"}
                        /\ verdict'[v] = "none" => InForce(v)'
    BY DEF CleanCourse
  <2>3. /\ NothingFailed'
        /\ verdict[v] # "none" => v \in clean
        /\ verdict[v] = "none" => InForce(v)'
    BY <2>2 DEF KeepClean
  <2>4. QED
    BY <1>0, <2>1, <2>3 DEF CleanCourse
<1>7. QED
  BY <1>1, <1>2, <1>3, <1>4, <1>5, <1>6 DEF AInv

\* The invariant holds at first.
LEMMA InitAInv == Init => AInv
<1> SUFFICES ASSUME Init PROVE AInv
  OBVIOUS
<1>1. TypeOK
  <2>1. 0 \in 0..AgentThreshold /\ 0 \in 0..MaxFaults
    BY Constants
  <2>2. /\ suspicion \in [SessionIds -> 0..AgentThreshold] /\ faults \in [AllFaultKinds -> 0..MaxFaults]
        /\ pc \in [Calls -> Labels] /\ verdict \in [Calls -> Verdicts]
    BY <2>1 DEF Init, Labels, Verdicts
  <2>3. /\ scopes \in [Issues -> SUBSET Scopes] /\ handed \in [Revokes -> SUBSET Issues]
        /\ token \in [Verifies -> Issues \cup {NoToken}]
        /\ sessions \in [SessionIds -> Issues \cup {NoToken}]
    BY DEF Init
  <2>4. QED
    BY <2>2, <2>3 DEF Init, TypeOK
<1>2. Stored /\ DeadGone
  BY DEF Init, Stored, DeadGone
<1>3. \A i \in Issues : IssueCourse(i)
  BY Apart DEF Init, IssueCourse
<1>4. \A k \in Revokes : RevokeCourse(k)
  BY Apart DEF Init, RevokeCourse
<1>5. \A v \in Verifies : VerifyCourse(v)
  BY Apart DEF Init, VerifyCourse, Caught
<1>6. \A v \in Verifies : CleanCourse(v)
  BY DEF Init, CleanCourse
<1>7. QED
  BY <1>1, <1>2, <1>3, <1>4, <1>5, <1>6 DEF AInv

\* The invariant is inductive.
LEMMA NextAInv == AInv /\ [Next]_vars => AInv'
<1>1. ASSUME AInv, Next PROVE AInv'
  <2>1. CASE World
    BY <1>1, <2>1, WorldKeeps, NextSteps
  <2>2. ASSUME NEW c \in Calls, CallStep(c) PROVE AInv'
    <3>1. KeepClean
      BY <1>1, NextSteps
    <3>2. TypeOK' /\ Stored' /\ DeadGone'
      BY <1>1, <2>2, <3>1, StepTypes, StepStored, StepDead
    <3>3. \A i \in Issues : IssueCourse(i)'
      BY <1>1, <2>2, StepIssue
    <3>4. \A k \in Revokes : RevokeCourse(k)'
      BY <1>1, <2>2, StepRevoke
    <3>5. \A v \in Verifies : VerifyCourse(v)'
      BY <1>1, <2>2, StepVerify
    <3>6. \A v \in Verifies : CleanCourse(v)'
      BY <1>1, <2>2, <3>1, StepClean
    <3>7. QED
      BY <3>2, <3>3, <3>4, <3>5, <3>6 DEF AInv
  <2>3. QED
    BY <1>1, <2>1, <2>2, NextSteps
<1>2. ASSUME AInv, UNCHANGED vars PROVE AInv'
  <2> USE <1>2 DEF vars, agentStore, outside, local, history
  <2>1. TypeOK' /\ Stored' /\ DeadGone'
    BY DEF AInv, TypeOK, Stored, DeadGone
  <2>2. \A i \in Issues : IssueCourse(i)'
    BY DEF AInv, IssueCourse, NoLoss
  <2>3. \A k \in Revokes : RevokeCourse(k)'
    BY DEF AInv, RevokeCourse, NoLoss
  <2>4. \A v \in Verifies : VerifyCourse(v)'
    BY DEF AInv, VerifyCourse, Caught, Cut, Delivered
  <2>5. \A v \in Verifies : CleanCourse(v)'
    BY DEF AInv, CleanCourse, InForce, Cut, NothingFailed
  <2>6. QED
    BY <2>1, <2>2, <2>3, <2>4, <2>5 DEF AInv
<1>3. QED
  BY <1>1, <1>2

\* The whole inductive invariant: what is stored, dead tokens, and how far each
\* issue, revocation and request has come (issueToken, revokeAgent, verifyToken).
THEOREM AInvHolds == Spec => []AInv
<1>1. QED
  BY InitAInv, NextAInv, PTL DEF Spec

-----------------------------------------------------------------------------
(* What it gives *)

\* The state of AgentIdentityService and of its calls has the stated types.
THEOREM TypeCorrect == Spec => []TypeOK
<1>1. AInv => TypeOK
  BY DEF AInv
<1>2. QED
  BY <1>1, AInvHolds, PTL

\* verifyToken accepts no token that a returned revokeAgent had ended, whose
\* scopes the registry has withdrawn, or whose human session has ended, before
\* the verification began, whatever was activated and issued since.
THEOREM AcceptedWereEntitled == Spec => []AcceptedIsEntitled
<1>1. AInv => AcceptedIsEntitled
  BY DEF AInv, VerifyCourse, Caught, AcceptedIsEntitled
<1>2. QED
  BY <1>1, AInvHolds, PTL

\* After revokeAgent has returned, and until the agent is activated, a session
\* is stored only for an issue that is about to look at the marker or to undo
\* its session, unless a Redis command was lost.
THEOREM RevocationEmpties == Spec => []RevokedHasNoSession
<1>1. ASSUME AInv, \E k \in fresh : verdict[k] = "ok", NoLoss,
             NEW s \in SessionIds, sessions[s] # NoToken
      PROVE  \E i \in Issues : sid[i] = s /\ InFlight(i)
  <2>1. PICK k \in fresh : verdict[k] = "ok"
    BY <1>1
  <2>2. k \in Revokes /\ RevokeCourse(k) /\ sessions[s] \in Issues
    BY <1>1, <2>1 DEF AInv, TypeOK
  <2>3. pc[sessions[s]] \in {"recheck", "undo"} /\ sid[sessions[s]] = s
    BY <1>1, <2>1, <2>2 DEF RevokeCourse, AInv, Stored
  <2>4. QED
    BY <2>2, <2>3 DEF InFlight
<1>2. AInv => RevokedHasNoSession
  BY <1>1 DEF RevokedHasNoSession, NoLoss
<1>3. QED
  BY <1>2, AInvHolds, PTL

\* An issueToken or issueDelegatedToken that threw has left no session of its
\* token, whichever step threw, unless a Redis command was lost.
THEOREM FailedIssuesLeaveNothing == Spec => []FailedIssueLeavesNothing
<1>1. AInv => FailedIssueLeavesNothing
  BY DEF AInv, IssueCourse, FailedIssueLeavesNothing, NoLoss
<1>2. QED
  BY <1>1, AInvHolds, PTL

\* A request whose token is in force from its first step to its verdict passes
\* every check of verifyToken, if nothing failed meanwhile.
THEOREM HonestAgentsAreServed == Spec => []HonestAgentServed
<1>1. AInv => HonestAgentServed
  <2> SUFFICES ASSUME AInv, NEW v \in clean, pc[v] = "done"
               PROVE  verdict[v] \in {"ok", "forbidden"}
    BY DEF HonestAgentServed
  <2>1. v \in Verifies /\ VerifyCourse(v) /\ CleanCourse(v)
    BY DEF AInv, TypeOK
  <2>2. QED
    BY <2>1 DEF VerifyCourse, CleanCourse
<1>2. QED
  BY <1>1, AInvHolds, PTL

=============================================================================
