--------------------------- MODULE RefreshService ---------------------------
(***************************************************************************)
(* The refresh-token family of ONE session: concurrent calls of            *)
(* RefreshService.refresh, of issueTokens for that session and of          *)
(* RefreshService.revokeSession, interleaved at every await, over the      *)
(* Redis keys they share.                                                  *)
(*                                                                         *)
(* A call is named by a constant and runs once.  A token is named by the   *)
(* call that signed it: signRefreshToken puts a fresh jti in every token,  *)
(* so no two calls ever sign the same one.  The same name stands for the   *)
(* refresh token and for the access token of a call; "stored" holds        *)
(* refresh tokens and "session" access tokens.                             *)
(*                                                                         *)
(* Every awaited operation is one action.  An awaited operation that       *)
(* rejects transfers control to the handler of the enclosing try           *)
(* statement (OnThrow); a Redis command may reject before or after it took *)
(* effect (the reply is lost), or be executed twice: a connection that     *)
(* breaks before the reply resends the command when it is back, and other  *)
(* calls' commands may come in between.  An audit emission rejects in      *)
(* strict mode.                                                            *)
(***************************************************************************)
EXTENDS Naturals

CONSTANTS
    Refreshes,            \* calls of RefreshService.refresh
    Logins,               \* calls of issueTokens for this session id
    Logouts,              \* calls of revokeSession for this session id
    NoToken,              \* the key or hash field is absent
    ConcurrentThreshold,  \* concurrentRefreshThreshold of the risk service
    FaultKinds,           \* the faults that may happen: see AllFaultKinds
    MaxFaults             \* how many may happen

Tokens == Refreshes \cup Logins
Calls  == Tokens \cup Logouts

\* An audit emission rejects, a Redis command rejects, a process dies, a
\* command is sent again after a reconnection (autoResendUnfulfilledCommands).
AllFaultKinds == {"audit", "store", "crash", "resend"}

ASSUME CallsAssumption ==
    /\ NoToken \notin Calls
    /\ Refreshes \cap Logins = {}
    /\ Tokens \cap Logouts = {}

ASSUME BoundsAssumption ==
    /\ ConcurrentThreshold \in Nat \ {0}
    /\ FaultKinds \subseteq AllFaultKinds
    /\ MaxFaults \in Nat

VARIABLES
    stored,       \* the fingerprint at the refresh key
    indexed,      \* is the session a field of the user's refresh-family hash?
    session,      \* the access token at the session's field of the user's hash
    lock,         \* the holder whose value is at the lock key, or NoToken
    signals,      \* concurrent_refresh counter, capped at the threshold
    quarantined,  \* is there a quarantine record?
    pc,           \* the await each call is suspended at
    presented,    \* the refresh token a refresh call was given
    seen,         \* what its tokenStore.get returned
    verdict,      \* what a call has decided so far
    faults,       \* rejections and crashes so far, by kind
    issued,       \* history: refresh tokens that were ever stored
    won,          \* history: refreshes whose compare-and-set succeeded
    root,         \* history: the login a token descends from
    lost,         \* history: refreshes whose lock expired under them
    reused        \* history: refreshes given a token whose successor was already returned

redis   == <<stored, indexed, session, lock, signals, quarantined>>
local   == <<presented, seen>>
history == <<issued, won, root, lost, reused>>
vars    == <<redis, pc, local, verdict, faults, history>>

-----------------------------------------------------------------------------
(* Types and initial state *)

Labels == {"idle", "acquire", "read", "rotate", "report", "alert",
           "del", "unindex", "unsession", "sign", "signed", "unsign",
           "rotated", "release", "store", "index", "unstore", "issued",
           "undo", "logged", "done", "crashed"}

Verdicts == {"none", "ok", "error", "quarantined", "locked", "replay", "raced"}

TypeOK ==
    /\ stored \in Tokens \cup {NoToken}
    /\ indexed \in BOOLEAN
    /\ session \in Tokens \cup {NoToken}
    /\ lock \in Refreshes \cup {NoToken}
    /\ signals \in 0..ConcurrentThreshold
    /\ quarantined \in BOOLEAN
    /\ pc \in [Calls -> Labels]
    /\ presented \in [Refreshes -> Tokens \cup {NoToken}]
    /\ seen \in [Refreshes -> Tokens \cup {NoToken}]
    /\ verdict \in [Calls -> Verdicts]
    /\ faults \in [AllFaultKinds -> 0..MaxFaults]
    /\ issued \subseteq Tokens
    /\ won \subseteq Refreshes
    /\ root \in [Tokens -> Logins \cup {NoToken}]
    /\ lost \subseteq Refreshes
    /\ reused \subseteq Refreshes

Init ==
    /\ stored = NoToken
    /\ indexed = FALSE
    /\ session = NoToken
    /\ lock = NoToken
    /\ signals = 0
    /\ quarantined = FALSE
    /\ pc = [c \in Calls |-> "idle"]
    /\ presented = [r \in Refreshes |-> NoToken]
    /\ seen = [r \in Refreshes |-> NoToken]
    /\ verdict = [c \in Calls |-> "none"]
    /\ faults = [k \in AllFaultKinds |-> 0]
    /\ issued = {}
    /\ won = {}
    /\ root = [t \in Tokens |-> NoToken]
    /\ lost = {}
    /\ reused = {}

-----------------------------------------------------------------------------
(* Control *)

\* Tokens a client can hold: those a call returned to it.
Delivered == {t \in Tokens : pc[t] = "done" /\ verdict[t] = "ok"}

Goto(c, label) ==
    /\ pc' = [pc EXCEPT ![c] = label]
    /\ UNCHANGED <<verdict, faults>>

Decide(c, v, label) ==
    /\ pc' = [pc EXCEPT ![c] = label]
    /\ verdict' = [verdict EXCEPT ![c] = v]
    /\ UNCHANGED faults

\* Seeded fault: no finally block, an exception leaves the call at once.
OnThrowLeaksLock(c) == "done"

\* Seeded fault: no catch block revokes, an exception only releases the lock.
OnThrowOnlyReleases(c) ==
    IF c \in Refreshes /\ pc[c] \notin {"acquire", "release"} THEN "release" ELSE "done"

\* Where control goes when the operation a call is suspended at rejects: the
\* catch or finally block around it, or out of the call.
RefreshHandler(r) ==
    CASE pc[r] \in {"read", "rotate", "del", "unindex", "unsession"} -> "release"
      [] pc[r] \in {"report", "alert"} -> IF verdict[r] = "locked" THEN "done" ELSE "del"
      [] pc[r] \in {"sign", "unsign", "rotated"} -> "del"
      [] pc[r] = "signed" -> "unsign"
      [] OTHER -> "done"

LoginHandler(l) ==
    CASE pc[l] = "signed" -> "unsign"
      [] pc[l] = "index" -> "unstore"
      [] pc[l] = "issued" -> "del"
      [] pc[l] \in {"store", "unstore", "del", "unindex", "unsession"} -> "undo"
      [] OTHER -> "done"

OnThrow(c) ==
    IF c \in Refreshes THEN RefreshHandler(c)
    ELSE IF c \in Logins THEN LoginHandler(c) ELSE "done"

\* The budget allows one more fault of the kind given, and it is recorded.
CountFault(kind) ==
    /\ kind \in FaultKinds
    /\ faults["audit"] + faults["store"] + faults["crash"] + faults["resend"] < MaxFaults
    /\ faults' = [faults EXCEPT ![kind] = @ + 1]

\* The operation call c is suspended at rejects, with a fault of the kind given.
Reject(c, kind) ==
    /\ CountFault(kind)
    /\ pc' = [pc EXCEPT ![c] = OnThrow(c)]
    /\ verdict' = [verdict EXCEPT ![c] = IF @ \in {"none", "ok"} THEN "error" ELSE @]

\* The call still awaits its command, which will be executed once more.
Resend(c) == CountFault("resend") /\ UNCHANGED <<pc, verdict>>

\* A Redis command took effect: its reply arrives, or is lost and the command
\* rejects or is sent again.
Reply(c, label) == Goto(c, label) \/ Reject(c, "store") \/ Resend(c)

-----------------------------------------------------------------------------
(* RefreshService.refresh *)

\* A client presents a token it holds; verifyRefreshToken accepts it; the first
\* await reads the quarantine record.
Begin(r) ==
    /\ pc[r] = "idle"
    /\ \E t \in Delivered :
          /\ presented' = [presented EXCEPT ![r] = t]
          /\ reused' = IF \E q \in won \cap Delivered : presented[q] = t
                       THEN reused \cup {r} ELSE reused
    /\ IF quarantined THEN Decide(r, "quarantined", "done") ELSE Goto(r, "acquire")
    /\ UNCHANGED <<redis, seen, issued, won, root, lost>>

\* SET lock NX PX: the lock is taken, or the call goes on to report a
\* concurrent refresh without having looked at the stored token.
Acquire(r) ==
    /\ pc[r] = "acquire"
    /\ \/ /\ lock = NoToken
          /\ lock' = r
          /\ Reply(r, "read")
       \/ /\ lock # NoToken
          /\ Decide(r, "locked", "report")
          /\ UNCHANGED lock
    /\ UNCHANGED <<stored, indexed, session, signals, quarantined, local, history>>

\* tokenStore.get and refreshTokenMatches.
Read(r) ==
    /\ pc[r] = "read"
    /\ seen' = [seen EXCEPT ![r] = stored]
    /\ IF stored = presented[r] THEN Goto(r, "rotate") ELSE Decide(r, "replay", "report")
    /\ UNCHANGED <<redis, presented, history>>

\* What every successful form of the rotation records.
Rotated(r) ==
    /\ issued' = issued \cup {r}
    /\ won' = won \cup {r}
    /\ root' = [root EXCEPT ![r] = root[presented[r]]]
    /\ Reply(r, "sign")

\* Seeded fault: SET instead of compare-and-set.
RotateBySet(r) ==
    /\ pc[r] = "rotate"
    /\ stored' = r
    /\ Rotated(r)
    /\ UNCHANGED <<indexed, session, lock, signals, quarantined, local, lost, reused>>

\* Seeded fault: the script treats an absent key as a match.
RotateIfAbsent(r) ==
    /\ pc[r] = "rotate"
    /\ stored \in {seen[r], NoToken}
    /\ stored' = r
    /\ Rotated(r)
    /\ UNCHANGED <<indexed, session, lock, signals, quarantined, local, lost, reused>>

\* Seeded fault: the new token is returned but its fingerprint is not stored.
RotateForgotten(r) ==
    /\ pc[r] = "rotate"
    /\ Rotated(r)
    /\ UNCHANGED <<stored, indexed, session, lock, signals, quarantined, local, lost, reused>>

\* tokenStore.compareAndSet in rotateTokenIfEnabled.
Rotate(r) ==
    /\ pc[r] = "rotate"
    /\ \/ /\ stored = seen[r]
          /\ stored' = r
          /\ Rotated(r)
       \/ /\ stored # seen[r]
          /\ Decide(r, "raced", "report")
          /\ UNCHANGED <<stored, issued, won, root>>
    /\ UNCHANGED <<indexed, session, lock, signals, quarantined, local, lost, reused>>

\* risk.report, which SessionRisk models step by step: one replay, or the
\* threshold's number of concurrent refreshes, quarantines the session.  Its
\* own audit emissions come last, so the record stands when they reject.
ReportRisk(r) ==
    /\ pc[r] = "report"
    /\ LET count == IF verdict[r] = "replay" THEN signals
                    ELSE IF signals < ConcurrentThreshold THEN signals + 1 ELSE signals
       IN /\ signals' = count
          /\ quarantined' = (quarantined \/ verdict[r] = "replay"
                                         \/ count >= ConcurrentThreshold)
    /\ Goto(r, "alert") \/ Reject(r, "store") \/ Reject(r, "audit")
    /\ UNCHANGED <<stored, indexed, session, lock, local, history>>

\* Seeded fault: the detection is audited and the family left alone.
AlertOnly(r) ==
    /\ pc[r] = "alert"
    /\ Goto(r, IF verdict[r] = "locked" THEN "done" ELSE "release")
    /\ UNCHANGED <<redis, local, history>>

\* The detection is audited; a call that lost the lock ends there, a replay or
\* a lost compare-and-set goes on to revoke the family.
Alert(r) ==
    /\ pc[r] = "alert"
    /\ Goto(r, IF verdict[r] = "locked" THEN "done" ELSE "del") \/ Reject(r, "audit")
    /\ UNCHANGED <<redis, local, history>>

\* audit "refresh_token.rotated", the last step before the finally block.
AuditRotated(r) ==
    /\ pc[r] = "rotated"
    /\ Decide(r, "ok", "release") \/ Reject(r, "audit")
    /\ UNCHANGED <<redis, local, history>>

\* Seeded fault: DEL without comparing the lock's value.
ReleaseUnowned(r) ==
    /\ pc[r] = "release"
    /\ lock' = NoToken
    /\ Reply(r, "done")
    /\ UNCHANGED <<stored, indexed, session, signals, quarantined, local, history>>

\* RedisLock.release: the script deletes the key only if it holds this call's value.
Release(r) ==
    /\ pc[r] = "release"
    /\ lock' = IF lock = r THEN NoToken ELSE lock
    /\ Reply(r, "done")
    /\ UNCHANGED <<stored, indexed, session, signals, quarantined, local, history>>

-----------------------------------------------------------------------------
(* JwtAuth.signToken, called by issueTokens and by the accessTokenSigner *)

\* persistSessionToken: HSET of the session field; EXPIRE may still reject.
StoreSession(c) ==
    /\ pc[c] = "sign"
    /\ session' = c
    /\ Reply(c, "signed")
    /\ UNCHANGED <<stored, indexed, lock, signals, quarantined, local, history>>

\* audit "access_token.issued".
AuditSigned(c) ==
    /\ pc[c] = "signed"
    /\ Goto(c, IF c \in Refreshes THEN "rotated" ELSE "store") \/ Reject(c, "audit")
    /\ UNCHANGED <<redis, local, history>>

\* The catch block of signToken removes the session and rethrows.
UndoSession(c) ==
    /\ pc[c] = "unsign"
    /\ session' = NoToken
    /\ Reply(c, IF c \in Refreshes THEN "del" ELSE "done")
    /\ UNCHANGED <<stored, indexed, lock, signals, quarantined, local, history>>

-----------------------------------------------------------------------------
(* revokeRefreshFamily: three commands, shared by every caller *)

DeleteRefreshKey(c) ==
    /\ pc[c] = "del"
    /\ stored' = NoToken
    /\ Reply(c, "unindex")
    /\ UNCHANGED <<indexed, session, lock, signals, quarantined, local, history>>

RemoveFromIndex(c) ==
    /\ pc[c] = "unindex"
    /\ indexed' = FALSE
    /\ Reply(c, "unsession")
    /\ UNCHANGED <<stored, session, lock, signals, quarantined, local, history>>

RevokeSessionField(c) ==
    /\ pc[c] = "unsession"
    /\ session' = NoToken
    /\ Reply(c, IF c \in Refreshes THEN "release"
                ELSE IF c \in Logins THEN "undo" ELSE "logged")
    /\ UNCHANGED <<stored, indexed, lock, signals, quarantined, local, history>>

-----------------------------------------------------------------------------
(* issueTokens and generateRefreshToken *)

BeginLogin(l) ==
    /\ pc[l] = "idle"
    /\ Goto(l, "sign")
    /\ UNCHANGED <<redis, local, history>>

\* tokenStore.set of the refresh key.
StoreRefreshToken(l) ==
    /\ pc[l] = "store"
    /\ stored' = l
    /\ issued' = issued \cup {l}
    /\ root' = [root EXCEPT ![l] = l]
    /\ Reply(l, "index")
    /\ UNCHANGED <<indexed, session, lock, signals, quarantined, local, won, lost, reused>>

\* trackRefreshFamily.
TrackFamily(l) ==
    /\ pc[l] = "index"
    /\ indexed' = TRUE
    /\ Reply(l, "issued")
    /\ UNCHANGED <<stored, session, lock, signals, quarantined, local, history>>

\* The catch block around trackRefreshFamily deletes the refresh key.
DeleteUntracked(l) ==
    /\ pc[l] = "unstore"
    /\ stored' = NoToken
    /\ Reply(l, "undo")
    /\ UNCHANGED <<indexed, session, lock, signals, quarantined, local, history>>

\* audit "refresh_token.issued"; issueTokens then returns the pair.
AuditIssued(l) ==
    /\ pc[l] = "issued"
    /\ Decide(l, "ok", "done") \/ Reject(l, "audit")
    /\ UNCHANGED <<redis, local, history>>

\* The catch block of issueTokens: jwtService.revokeSession.
RollbackLogin(l) ==
    /\ pc[l] = "undo"
    /\ session' = NoToken
    /\ Reply(l, "done") \/ Reject(l, "audit")
    /\ UNCHANGED <<stored, indexed, lock, signals, quarantined, local, history>>

-----------------------------------------------------------------------------
(* RefreshService.revokeSession: takes no lock *)

BeginLogout(o) ==
    /\ pc[o] = "idle"
    /\ Goto(o, "del")
    /\ UNCHANGED <<redis, local, history>>

AuditLogout(o) ==
    /\ pc[o] = "logged"
    /\ Decide(o, "ok", "done") \/ Reject(o, "audit")
    /\ UNCHANGED <<redis, local, history>>

-----------------------------------------------------------------------------
(* Failures and Redis expiry *)

Active(c) == pc[c] \notin {"idle", "done", "crashed"}

AuditLabels == {"alert", "signed", "rotated", "issued", "logged"}

\* A Redis command rejects without having taken effect.
CommandFails(c) ==
    /\ Active(c)
    /\ pc[c] \notin AuditLabels
    /\ Reject(c, "store")
    /\ UNCHANGED <<redis, local, history>>

\* The process running the call dies: no handler and no finally block runs.
Crash(c) ==
    /\ Active(c)
    /\ CountFault("crash")
    /\ pc' = [pc EXCEPT ![c] = "crashed"]
    /\ UNCHANGED <<redis, local, verdict, history>>

\* REFRESH_LOCK_TTL_MS elapses while the holder is still running.
LockExpires ==
    /\ lock # NoToken
    /\ lock' = NoToken
    /\ lost' = lost \cup {lock}
    /\ UNCHANGED <<stored, indexed, session, signals, quarantined,
                   pc, local, verdict, faults, issued, won, root, reused>>

\* The TTL of the refresh key elapses.
RefreshKeyExpires ==
    /\ stored # NoToken
    /\ stored' = NoToken
    /\ UNCHANGED <<indexed, session, lock, signals, quarantined,
                   pc, local, verdict, faults, history>>

\* The risk record lapses, or an operator releases it.
QuarantineEnds ==
    /\ quarantined
    /\ quarantined' = FALSE
    /\ signals' = 0
    /\ UNCHANGED <<stored, indexed, session, lock,
                   pc, local, verdict, faults, history>>

-----------------------------------------------------------------------------

RefreshStep(r) ==
    \/ Acquire(r) \/ Read(r) \/ Rotate(r) \/ ReportRisk(r) \/ Alert(r)
    \/ AuditRotated(r) \/ Release(r)

LoginStep(l) ==
    \/ StoreRefreshToken(l) \/ TrackFamily(l) \/ DeleteUntracked(l)
    \/ AuditIssued(l) \/ RollbackLogin(l)

SignStep(c) == StoreSession(c) \/ AuditSigned(c) \/ UndoSession(c)

RevokeStep(c) == DeleteRefreshKey(c) \/ RemoveFromIndex(c) \/ RevokeSessionField(c)

\* A call that has begun takes its next step.
Proceed(c) ==
    \/ c \in Refreshes /\ RefreshStep(c)
    \/ c \in Logins /\ LoginStep(c)
    \/ c \in Logouts /\ AuditLogout(c)
    \/ c \in Tokens /\ SignStep(c)
    \/ RevokeStep(c)

Next ==
    \/ \E r \in Refreshes : Begin(r)
    \/ \E l \in Logins : BeginLogin(l)
    \/ \E o \in Logouts : BeginLogout(o)
    \/ \E c \in Calls : Proceed(c) \/ CommandFails(c) \/ Crash(c)
    \/ LockExpires
    \/ RefreshKeyExpires
    \/ QuarantineEnds

Spec == Init /\ [][Next]_vars

\* The event loop resumes every suspended call, and every command is answered
\* or rejected (maxRetriesPerRequest).  Clients, operators and expiry are not
\* obliged to act.
FairSpec == Spec /\ \A c \in Calls : WF_vars(Proceed(c))

-----------------------------------------------------------------------------
(* Properties *)

\* "Concurrent refresh requests are handled safely, ensuring only one
\* succeeds": no two calls of refresh consume the same refresh token, even
\* when the lock expires under its holder.
SingleUse ==
    \A q, r \in won : presented[q] = presented[r] => q = r

\* Between taking the lock and asking for its release a refresh is alone, unless the
\* lock expired under it: a late release never frees the next holder's lock.
HoldsLock(r) ==
    /\ pc[r] \in {"read", "rotate", "report", "alert", "del", "unindex",
                 "unsession", "sign", "signed", "unsign", "rotated"}
    /\ verdict[r] # "locked"

LockExcludes ==
    \A q, r \in Refreshes :
        HoldsLock(q) /\ HoldsLock(r) => q = r \/ q \in lost \/ r \in lost

\* The login a stored value descends from; NoToken for an absent key.
Root(t) == IF t = NoToken THEN NoToken ELSE root[t]

Reliable == faults["store"] = 0 /\ faults["crash"] = 0

\* "Replay or a lost rotation race revokes the refresh family": when refresh
\* returns after detecting either, no token descending from the login whose
\* token it found stored is live, and none ever is again, whether or not its
\* risk report and audit emissions rejected.  (A Redis failure or a crash can
\* stop the revocation itself; a login still storing its token can revive
\* another family than that of the token presented, if its SET is resent.)
ReplayKillsFamily ==
    \A r \in Refreshes :
        /\ Reliable
        /\ faults["resend"] = 0 \/ Root(seen[r]) = Root(presented[r])
        /\ pc[r] \in {"release", "done"}
        /\ verdict[r] \in {"replay", "raced"}
        /\ seen[r] # NoToken
        => Root(stored) # Root(seen[r])

\* The strengthening under which SingleUse is inductive: before its call
\* reaches its write a token is not stored (a login's may be written twice); a
\* consumed token is not stored, a call about to rotate read the token it
\* presents, and a token is presented only when the call that signed it is over
\* and writes it no more.
NotYetRotated == {"idle", "acquire", "read"}
NotYetStored  == {"idle", "sign", "signed"}

StoredOnce ==
    /\ stored \in issued \cup {NoToken}
    /\ won \subseteq issued
    /\ \A r \in Refreshes : r \in issued => r \in won
    /\ \A r \in Refreshes : pc[r] \in NotYetRotated => r \notin won
    /\ \A l \in Logins : pc[l] \in NotYetStored => l \notin issued
    /\ \A l \in Logins : pc[l] = "store" /\ l \in issued => "resend" \in FaultKinds

ConsumedIsGone ==
    /\ \A q \in won : presented[q] \in issued /\ presented[q] # stored
    /\ \A r \in Refreshes :
          /\ pc[r] \in {"acquire", "read", "rotate"} => presented[r] \in Tokens
          /\ pc[r] = "rotate" => seen[r] = presented[r]
          /\ presented[r] # NoToken => pc[presented[r]] = "done"

IInv == TypeOK /\ StoredOnce /\ ConsumedIsGone /\ SingleUse

\* "If a dependent security operation fails, the affected family is rolled
\* back or revoked rather than leaving partially issued credentials": a call
\* that ended with an error after signing left neither its refresh token nor
\* its access token live.
FailureLeavesNothing ==
    \A c \in Tokens :
        Reliable /\ pc[c] = "done" /\ verdict[c] = "error"
            => stored # c /\ session # c

\* A client that presents every refresh token at most once is never refused,
\* as long as nothing else touched the family: one login, no logout, no
\* failure, and the key has not expired.
HonestClientServed ==
    /\ \A q, r \in Refreshes : presented[q] = presented[r] /\ q # r => presented[q] = NoToken
    /\ \A k \in AllFaultKinds : faults[k] = 0
    /\ \A o \in Logouts : pc[o] = "idle"
    /\ \A l, m \in Logins : pc[l] # "idle" /\ pc[m] # "idle" => l = m
    /\ stored # NoToken
    => \A r \in Refreshes : verdict[r] \in {"none", "ok"}

\* The family implements its abstract specification: a token is live at most
\* once, and a revoked family is revived only by a login.
Family == INSTANCE TokenFamily
    WITH Token <- Tokens, live <- stored, used <- issued,
         rotations <- {<<presented[r], r>> : r \in won}

ImplementsTokenFamily == Family!FamilySpec

\* Every refresh that takes the lock gives it up, by its own finally block on
\* every path, the lock's expiry not being needed for it.
LockIsReleased ==
    \A r \in Refreshes : lock = r ~> lock # r

\* A detected replay leads to a revoked family whatever the audit sinks do.
ReplayLeadsToRevocation ==
    \A r \in Refreshes :
        verdict[r] = "replay" /\ seen[r] # NoToken ~>
            [](Root(stored) # Root(seen[r]))

\* "Reject access tokens after logout": once a logout has returned and the
\* family is gone, no access token a refresh handed out is active.
LogoutEndsSession ==
    \A o \in Logouts :
        pc[o] = "done" /\ verdict[o] = "ok" /\ stored = NoToken
            => session \notin Refreshes \cap Delivered

\* "When a previously rotated refresh token is reused", the SDK "revokes the
\* affected refresh family" and "quarantines the affected session": a call
\* given a token whose successor had been returned before the call began ends
\* with one or the other in force.
ReuseRevokes ==
    \A r \in reused :
        pc[r] = "done" =>
            Root(stored) # Root(presented[r]) \/ quarantined

=============================================================================
