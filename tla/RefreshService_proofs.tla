------------------------ MODULE RefreshService_proofs ------------------------
(***************************************************************************)
(* For every set of calls, every threshold and every number of faults: the *)
(* type invariant of RefreshService, that a refresh token is consumed by   *)
(* at most one call, that the service implements TokenFamily, that the     *)
(* lock excludes, that a failed call leaves no token, that a client using  *)
(* each token once is served, and that a detected replay leaves its family *)
(* dead.                                                                   *)
(***************************************************************************)
EXTENDS RefreshService, TLAPS

\* The labels an exception can lead to.
Handlers == {"done", "release", "del", "unsign", "unstore", "undo"}

\* The control part of the type invariant.
ControlOK ==
    /\ pc \in [Calls -> Labels]
    /\ verdict \in [Calls -> Verdicts]
    /\ faults \in [AllFaultKinds -> 0..MaxFaults]

\* Call c, and no other, moves to one of the labels in L.
MovesTo(c, L) == \E x \in L : pc' = [pc EXCEPT ![c] = x]

-----------------------------------------------------------------------------
(* How the control operators move a call *)

\* An exception leads to a handler, or ends the call.
LEMMA OnThrowHandler ==
    ASSUME NEW c \in Calls
    PROVE  OnThrow(c) \in Handlers
BY DEF OnThrow, RefreshHandler, LoginHandler, Handlers

\* The ways a step can end each move one call, within the types.
LEMMA GotoMoves ==
    ASSUME ControlOK, NEW c \in Calls, NEW x \in Labels, Goto(c, x)
    PROVE  ControlOK' /\ MovesTo(c, {x})
BY DEF ControlOK, Goto, MovesTo

\* A verdict moves its call.
LEMMA DecideMoves ==
    ASSUME ControlOK, NEW c \in Calls, NEW x \in Labels, NEW v \in Verdicts,
           Decide(c, v, x)
    PROVE  ControlOK' /\ MovesTo(c, {x})
BY DEF ControlOK, Decide, MovesTo

\* The budget of faults is kept.
LEMMA CountFaultOK ==
    ASSUME ControlOK, NEW k, CountFault(k)
    PROVE  faults' \in [AllFaultKinds -> 0..MaxFaults]
BY BoundsAssumption DEF ControlOK, CountFault, AllFaultKinds

\* A rejection moves its call to a handler.
LEMMA RejectMoves ==
    ASSUME ControlOK, NEW c \in Calls, NEW k, Reject(c, k)
    PROVE  ControlOK' /\ MovesTo(c, Handlers)
<1>1. OnThrow(c) \in Handlers
  BY OnThrowHandler
<1>2. Handlers \subseteq Labels
  BY DEF Handlers, Labels
<1>3. faults' \in [AllFaultKinds -> 0..MaxFaults]
  BY CountFaultOK DEF Reject
<1>4. pc' = [pc EXCEPT ![c] = OnThrow(c)] /\ pc' \in [Calls -> Labels]
  BY <1>1, <1>2 DEF Reject, ControlOK
<1>5. verdict' \in [Calls -> Verdicts]
  BY DEF Reject, ControlOK, Verdicts
<1>6. QED
  BY <1>1, <1>3, <1>4, <1>5 DEF ControlOK, MovesTo

\* A reply arrives, is lost, or finds its command to be sent again.
LEMMA ReplyMoves ==
    ASSUME ControlOK, NEW c \in Calls, NEW x \in Labels, Reply(c, x)
    PROVE  ControlOK' /\ MovesTo(c, Handlers \cup {x, pc[c]})
<1>1. CASE Goto(c, x)
  BY <1>1, GotoMoves DEF MovesTo
<1>2. CASE Reject(c, "store")
  BY <1>2, RejectMoves DEF MovesTo
<1>3. CASE Resend(c)
  <2>1. faults' \in [AllFaultKinds -> 0..MaxFaults]
    BY <1>3, CountFaultOK DEF Resend
  <2>2. pc' = [pc EXCEPT ![c] = pc[c]]
    BY <1>3 DEF Resend, ControlOK
  <2>3. QED
    BY <1>3, <2>1, <2>2 DEF Resend, ControlOK, MovesTo
<1>4. QED
  BY <1>1, <1>2, <1>3 DEF Reply

-----------------------------------------------------------------------------
(* Steps that neither write a refresh token nor approach a rotation *)

Approaching == NotYetRotated \cup {"rotate"}
BeforeStore == NotYetStored \cup {"store"}

\* Call c, not yet over, moves on without getting ready to rotate or to store
\* a token again.
Onward(c) ==
    /\ pc[c] # "done"
    /\ \E x \in Labels :
          /\ pc' = [pc EXCEPT ![c] = x]
          /\ c \in Refreshes => x \notin Approaching
          /\ c \in Logins /\ x \in BeforeStore => pc[c] \in NotYetStored

\* At most, the refresh key is deleted.
NothingIssued ==
    /\ stored' = stored \/ stored' = NoToken
    /\ UNCHANGED <<presented, seen, issued, won>>

\* Going to label x is such a move.
Away(c, x) ==
    /\ x \in Labels
    /\ c \in Refreshes => x \notin Approaching
    /\ c \in Logins /\ x \in BeforeStore => pc[c] \in NotYetStored

\* No handler leads back to a write of a token.
LEMMA HandlersAway ==
    ASSUME NEW c \in Calls, NEW h \in Handlers
    PROVE  Away(c, h)
BY DEF Handlers, Away, Labels, Approaching, BeforeStore, NotYetRotated, NotYetStored

\* The ways a step can end lead a call onward, if not to a write of its token.
LEMMA GotoOnward ==
    ASSUME ControlOK, NEW c \in Calls, NEW x, Goto(c, x), pc[c] # "done", Away(c, x)
    PROVE  ControlOK' /\ Onward(c)
<1>1. ControlOK'
  BY GotoMoves DEF Away
<1>2. QED
  BY <1>1 DEF Goto, Away, Onward

\* So does a verdict.
LEMMA DecideOnward ==
    ASSUME ControlOK, NEW c \in Calls, NEW x, NEW v \in Verdicts, Decide(c, v, x),
           pc[c] # "done", Away(c, x)
    PROVE  ControlOK' /\ Onward(c)
<1>1. ControlOK'
  BY DecideMoves DEF Away
<1>2. QED
  BY <1>1 DEF Decide, Away, Onward

\* So does a rejection, whatever it interrupts.
LEMMA RejectOnward ==
    ASSUME ControlOK, NEW c \in Calls, NEW k, Reject(c, k), pc[c] # "done"
    PROVE  ControlOK' /\ Onward(c)
<1>1. ControlOK'
  BY RejectMoves
<1>2. Away(c, OnThrow(c))
  BY OnThrowHandler, HandlersAway
<1>3. QED
  BY <1>1, <1>2 DEF Reject, Away, Onward

\* So does a reply, if sending the command again is no such write.
LEMMA ReplyOnward ==
    ASSUME ControlOK, NEW c \in Calls, NEW x, Reply(c, x), pc[c] # "done",
           Away(c, x), Away(c, pc[c])
    PROVE  ControlOK' /\ Onward(c)
<1>1. CASE Goto(c, x)
  BY <1>1, GotoOnward
<1>2. CASE Reject(c, "store")
  BY <1>2, RejectOnward
<1>3. CASE Resend(c)
  <2>1. ControlOK'
    BY <1>3, ReplyMoves DEF Reply, Away
  <2>2. pc' = [pc EXCEPT ![c] = pc[c]]
    BY <1>3 DEF Resend, ControlOK
  <2>3. QED
    BY <2>1, <2>2 DEF Away, Onward
<1>4. QED
  BY <1>1, <1>2, <1>3 DEF Reply

\* A step that leads a call onward and issues nothing keeps the invariant.
LEMMA OnwardKeepsIInv ==
    ASSUME IInv, TypeOK', NothingIssued,
           UNCHANGED pc \/ \E c \in Calls : Onward(c)
    PROVE  IInv'
<1>1. StoredOnce'
  <2>1. CASE UNCHANGED pc
    BY <2>1 DEF IInv, StoredOnce, NothingIssued
  <2>2. ASSUME NEW c \in Calls, Onward(c)
        PROVE  StoredOnce'
    BY <2>2, CallsAssumption
    DEF IInv, TypeOK, StoredOnce, NothingIssued, Onward, Calls, Tokens, Approaching,
        BeforeStore, NotYetRotated
  <2>3. QED
    BY <2>1, <2>2
<1>2. ConsumedIsGone'
  <2>1. CASE UNCHANGED pc
    BY <2>1, CallsAssumption
    DEF IInv, TypeOK, StoredOnce, ConsumedIsGone, NothingIssued, Calls, Tokens
  <2>2. ASSUME NEW c \in Calls, Onward(c)
        PROVE  ConsumedIsGone'
    BY <2>2, CallsAssumption
    DEF IInv, TypeOK, StoredOnce, ConsumedIsGone, NothingIssued, Onward, Calls, Tokens,
        Approaching, NotYetRotated
  <2>3. QED
    BY <2>1, <2>2
<1>3. SingleUse'
  BY DEF IInv, SingleUse, NothingIssued
<1>4. QED
  BY <1>1, <1>2, <1>3 DEF IInv

-----------------------------------------------------------------------------
(* One lemma per group of actions *)

\* Steps of a refresh that write no refresh token.
LEMMA RefreshStepOnward ==
    ASSUME IInv, NEW r \in Refreshes,
           ReportRisk(r) \/ Alert(r) \/ AuditRotated(r) \/ Release(r)
    PROVE  IInv'
<1> USE DEF Labels, Verdicts, Handlers, NotYetRotated, NotYetStored,
           Approaching, BeforeStore
<1>0. ControlOK /\ r \in Calls /\ r \notin Logins
  BY CallsAssumption DEF IInv, TypeOK, ControlOK, Calls, Tokens
<1>a. pc[r] \notin Approaching \cup {"done"}
  BY DEF ReportRisk, Alert, AuditRotated, Release
<1>1. CASE ReportRisk(r)
  <2>1. ControlOK' /\ Onward(r)
    <3>1. CASE Goto(r, "alert")
      BY <1>0, <3>1, GotoOnward, <1>a DEF Away
    <3>2. ASSUME NEW k, Reject(r, k)
          PROVE  ControlOK' /\ Onward(r)
      BY <1>0, <3>2, RejectOnward, <1>a
    <3>3. QED
      BY <1>1, <3>1, <3>2 DEF ReportRisk
  <2>2. signals' \in 0..ConcurrentThreshold /\ quarantined' \in BOOLEAN
    <3>1. signals \in 0..ConcurrentThreshold /\ quarantined \in BOOLEAN
      BY DEF IInv, TypeOK
    <3>2. signals' \in 0..ConcurrentThreshold
      BY <1>1, <3>1, BoundsAssumption DEF ReportRisk
    <3>3. quarantined' \in BOOLEAN
      BY <1>1, <3>1 DEF ReportRisk
    <3>4. QED
      BY <3>2, <3>3
  <2>3. TypeOK' /\ NothingIssued
    BY <1>1, <2>1, <2>2
    DEF ReportRisk, IInv, TypeOK, ControlOK, NothingIssued, local, history
  <2>4. QED
    BY <1>0, <2>1, <2>3, OnwardKeepsIInv
<1>2. CASE Alert(r)
  <2>1. ControlOK' /\ Onward(r)
    <3>1. CASE Goto(r, IF verdict[r] = "locked" THEN "done" ELSE "del")
      BY <1>0, <3>1, GotoOnward, <1>a DEF Away
    <3>2. CASE Reject(r, "audit")
      BY <1>0, <3>2, RejectOnward, <1>a
    <3>3. QED
      BY <1>2, <3>1, <3>2 DEF Alert
  <2>2. TypeOK' /\ NothingIssued
    BY <1>2, <2>1 DEF Alert, IInv, TypeOK, ControlOK, NothingIssued, redis, local, history
  <2>3. QED
    BY <1>0, <2>1, <2>2, OnwardKeepsIInv
<1>3. CASE AuditRotated(r)
  <2>1. ControlOK' /\ Onward(r)
    <3>1. CASE Decide(r, "ok", "release")
      BY <1>0, <3>1, DecideOnward, <1>a DEF Away
    <3>2. CASE Reject(r, "audit")
      BY <1>0, <3>2, RejectOnward, <1>a
    <3>3. QED
      BY <1>3, <3>1, <3>2 DEF AuditRotated
  <2>2. TypeOK' /\ NothingIssued
    BY <1>3, <2>1 DEF AuditRotated, IInv, TypeOK, ControlOK, NothingIssued, redis, local, history
  <2>3. QED
    BY <1>0, <2>1, <2>2, OnwardKeepsIInv
<1>4. CASE Release(r)
  <2>1. ControlOK' /\ Onward(r)
    BY <1>0, <1>4, ReplyOnward, <1>a DEF Away, Release
  <2>2. TypeOK' /\ NothingIssued
    BY <1>4, <2>1 DEF Release, IInv, TypeOK, ControlOK, NothingIssued, local, history
  <2>3. QED
    BY <1>0, <2>1, <2>2, OnwardKeepsIInv
<1>5. QED
  BY <1>1, <1>2, <1>3, <1>4

\* A refresh on its way to the compare-and-set.
LEMMA RefreshApproach ==
    ASSUME IInv, NEW r \in Refreshes, Begin(r) \/ Acquire(r) \/ Read(r)
    PROVE  IInv'
<1> USE DEF Labels, Verdicts, Handlers
<1>0. ControlOK /\ r \in Calls /\ r \notin Logins
  BY CallsAssumption DEF IInv, TypeOK, ControlOK, Calls, Tokens
<1>1. CASE Begin(r)
  <2>1. ControlOK' /\ MovesTo(r, {"acquire", "done"})
    <3>1. CASE Goto(r, "acquire")
      BY <1>0, <3>1, GotoMoves DEF MovesTo
    <3>2. CASE Decide(r, "quarantined", "done")
      BY <1>0, <3>2, DecideMoves DEF MovesTo
    <3>3. QED
      BY <1>1, <3>1, <3>2 DEF Begin
  <2>2. PICK t \in Tokens :
            /\ pc[t] = "done"
            /\ presented' = [presented EXCEPT ![r] = t]
            /\ reused' \in {reused, reused \cup {r}}
    BY <1>1 DEF Begin, Delivered
  <2>3. TypeOK'
    BY <1>1, <2>1, <2>2 DEF Begin, IInv, TypeOK, ControlOK, redis
  <2>4. r \notin won
    BY <1>1 DEF Begin, IInv, StoredOnce, NotYetRotated
  <2>5. StoredOnce' /\ ConsumedIsGone' /\ SingleUse'
    BY <1>0, <1>1, <2>1, <2>2, <2>4
    DEF Begin, IInv, TypeOK, StoredOnce, ConsumedIsGone, SingleUse, MovesTo, redis,
        NotYetRotated, NotYetStored, Calls, Tokens
  <2>6. QED
    BY <2>3, <2>5 DEF IInv
<1>2. CASE Acquire(r)
  <2>1. ControlOK' /\ MovesTo(r, Handlers \cup {"acquire", "read", "report"})
    <3>1. CASE Reply(r, "read")
      BY <1>0, <1>2, <3>1, ReplyMoves DEF Acquire, MovesTo
    <3>2. CASE Decide(r, "locked", "report")
      BY <1>0, <3>2, DecideMoves DEF MovesTo
    <3>3. QED
      BY <1>2, <3>1, <3>2 DEF Acquire
  <2>2. TypeOK'
    BY <1>2, <2>1 DEF Acquire, IInv, TypeOK, ControlOK, local, history
  <2>3. StoredOnce' /\ ConsumedIsGone' /\ SingleUse'
    BY <1>0, <1>2, <2>1
    DEF Acquire, IInv, TypeOK, StoredOnce, ConsumedIsGone, SingleUse, MovesTo, local,
        history, NotYetRotated, NotYetStored, Calls, Tokens
  <2>4. QED
    BY <2>2, <2>3 DEF IInv
<1>3. CASE Read(r)
  <2>1. ControlOK' /\ MovesTo(r, {"rotate", "report"})
    <3>1. CASE Goto(r, "rotate")
      BY <1>0, <3>1, GotoMoves DEF MovesTo
    <3>2. CASE Decide(r, "replay", "report")
      BY <1>0, <3>2, DecideMoves DEF MovesTo
    <3>3. QED
      BY <1>3, <3>1, <3>2 DEF Read
  <2>2. TypeOK'
    BY <1>3, <2>1 DEF Read, IInv, TypeOK, ControlOK, redis, history
  <2>3. stored = presented[r] \/ pc'[r] = "report"
    BY <1>0, <1>3 DEF Read, Decide, ControlOK
  <2>4. StoredOnce' /\ ConsumedIsGone' /\ SingleUse'
    BY <1>0, <1>3, <2>1, <2>3
    DEF Read, IInv, TypeOK, StoredOnce, ConsumedIsGone, SingleUse, MovesTo, redis,
        history, NotYetRotated, NotYetStored, Calls, Tokens
  <2>5. QED
    BY <2>2, <2>4 DEF IInv
<1>4. QED
  BY <1>1, <1>2, <1>3

\* The compare-and-set: the step the invariant is for.
LEMMA RotateKeepsIInv ==
    ASSUME IInv, NEW r \in Refreshes, Rotate(r)
    PROVE  IInv'
<1> USE DEF Labels, Verdicts, Handlers
<1>0. ControlOK /\ r \in Calls /\ r \notin Logins /\ r \in Tokens /\ NoToken \notin Tokens
  BY CallsAssumption DEF IInv, TypeOK, ControlOK, Calls, Tokens
<1>1. /\ pc[r] = "rotate"
      /\ presented[r] \in Tokens
      /\ seen[r] = presented[r]
      /\ pc[presented[r]] = "done"
  BY <1>0 DEF Rotate, IInv, ConsumedIsGone
<1>2. CASE stored = seen[r]
  <2>0. r \notin won /\ r \notin issued
    BY <1>1, <1>2 DEF IInv, ConsumedIsGone, StoredOnce
  <2>1. ControlOK' /\ MovesTo(r, Handlers \cup {"rotate", "sign"})
    <3>1. Reply(r, "sign")
      BY <1>2 DEF Rotate, Rotated
    <3>2. "sign" \in Labels
      OBVIOUS
    <3>3. ControlOK' /\ MovesTo(r, Handlers \cup {"sign", pc[r]})
      BY <1>0, <3>1, <3>2, ReplyMoves
    <3>4. QED
      BY <1>1, <3>3 DEF MovesTo
  <2>2. /\ stored' = r
        /\ issued' = issued \cup {r}
        /\ won' = won \cup {r}
        /\ root' = [root EXCEPT ![r] = root[presented[r]]]
        /\ UNCHANGED <<indexed, session, lock, signals, quarantined, presented, seen, lost, reused>>
    BY <1>2 DEF Rotate, Rotated, local
  <2>3. TypeOK'
    BY <1>0, <1>1, <2>1, <2>2 DEF IInv, TypeOK, ControlOK
  <2>4. StoredOnce'
    BY <1>0, <2>1, <2>2
    DEF IInv, TypeOK, StoredOnce, MovesTo, NotYetRotated, NotYetStored, Calls, Tokens
  <2>5. stored = presented[r] /\ stored \in issued
    BY <1>0, <1>1, <1>2 DEF IInv, StoredOnce
  <2>6. ConsumedIsGone'
    BY <1>0, <1>1, <2>0, <2>1, <2>2, <2>5
    DEF IInv, TypeOK, StoredOnce, ConsumedIsGone, MovesTo, Calls, Tokens
  <2>7. SingleUse'
    BY <2>2, <2>5 DEF IInv, ConsumedIsGone, SingleUse
  <2>8. QED
    BY <2>3, <2>4, <2>6, <2>7 DEF IInv
<1>3. CASE stored # seen[r]
  <2>1. Decide(r, "raced", "report")
    BY <1>3 DEF Rotate
  <2>2. ControlOK' /\ Onward(r)
    BY <1>0, <1>1, <2>1, DecideOnward
    DEF Away, Labels, Verdicts, NotYetRotated, NotYetStored, Approaching, BeforeStore
  <2>3. TypeOK' /\ NothingIssued
    BY <1>3, <2>2 DEF Rotate, IInv, TypeOK, ControlOK, NothingIssued, local
  <2>4. QED
    BY <1>0, <2>2, <2>3, OnwardKeepsIInv
<1>4. QED
  BY <1>2, <1>3

\* Signing an access token, for a refresh or a login.
LEMMA SignStepKeepsIInv ==
    ASSUME IInv, NEW c \in Tokens, SignStep(c)
    PROVE  IInv'
<1> USE DEF Labels, Verdicts, Handlers, NotYetRotated, NotYetStored,
           Approaching, BeforeStore
<1>0. ControlOK /\ c \in Calls /\ (c \in Refreshes <=> c \notin Logins)
  BY CallsAssumption DEF IInv, TypeOK, ControlOK, Calls, Tokens
<1>a. pc[c] \in {"sign", "signed", "unsign"}
  BY DEF SignStep, StoreSession, AuditSigned, UndoSession
<1>1. CASE StoreSession(c)
  <2>1. ControlOK' /\ Onward(c)
    BY <1>0, <1>1, ReplyOnward, <1>a DEF Away, StoreSession
  <2>2. TypeOK' /\ NothingIssued
    BY <1>1, <2>1 DEF StoreSession, IInv, TypeOK, ControlOK, NothingIssued, local, history
  <2>3. QED
    BY <1>0, <2>1, <2>2, OnwardKeepsIInv
<1>2. CASE AuditSigned(c)
  <2>1. ControlOK' /\ Onward(c)
    <3>1. CASE Goto(c, IF c \in Refreshes THEN "rotated" ELSE "store")
      BY <1>0, <1>2, <3>1, GotoOnward, <1>a DEF Away, AuditSigned
    <3>2. CASE Reject(c, "audit")
      BY <1>0, <3>2, RejectOnward, <1>a
    <3>3. QED
      BY <1>2, <3>1, <3>2 DEF AuditSigned
  <2>2. TypeOK' /\ NothingIssued
    BY <1>2, <2>1 DEF AuditSigned, IInv, TypeOK, ControlOK, NothingIssued, redis, local, history
  <2>3. QED
    BY <1>0, <2>1, <2>2, OnwardKeepsIInv
<1>3. CASE UndoSession(c)
  <2>1. ControlOK' /\ Onward(c)
    BY <1>0, <1>3, ReplyOnward, <1>a DEF Away, UndoSession
  <2>2. TypeOK' /\ NothingIssued
    BY <1>3, <2>1 DEF UndoSession, IInv, TypeOK, ControlOK, NothingIssued, local, history
  <2>3. QED
    BY <1>0, <2>1, <2>2, OnwardKeepsIInv
<1>4. QED
  BY <1>1, <1>2, <1>3 DEF SignStep

\* Revoking the family, for any caller.
LEMMA RevokeStepKeepsIInv ==
    ASSUME IInv, NEW c \in Calls, RevokeStep(c)
    PROVE  IInv'
<1> USE DEF Labels, Verdicts, Handlers, NotYetRotated, NotYetStored,
           Approaching, BeforeStore
<1>0. ControlOK
  BY DEF IInv, TypeOK, ControlOK
<1>a. pc[c] \in {"del", "unindex", "unsession"}
  BY DEF RevokeStep, DeleteRefreshKey, RemoveFromIndex, RevokeSessionField
<1>1. CASE DeleteRefreshKey(c)
  <2>1. ControlOK' /\ Onward(c)
    BY <1>0, <1>1, ReplyOnward, <1>a DEF Away, DeleteRefreshKey
  <2>2. TypeOK' /\ NothingIssued
    BY <1>1, <2>1 DEF DeleteRefreshKey, IInv, TypeOK, ControlOK, NothingIssued, local, history
  <2>3. QED
    BY <2>1, <2>2, OnwardKeepsIInv
<1>2. CASE RemoveFromIndex(c)
  <2>1. ControlOK' /\ Onward(c)
    BY <1>0, <1>2, ReplyOnward, <1>a DEF Away, RemoveFromIndex
  <2>2. TypeOK' /\ NothingIssued
    BY <1>2, <2>1 DEF RemoveFromIndex, IInv, TypeOK, ControlOK, NothingIssued, local, history
  <2>3. QED
    BY <2>1, <2>2, OnwardKeepsIInv
<1>3. CASE RevokeSessionField(c)
  <2>1. ControlOK' /\ Onward(c)
    <3>1. PICK x \in {"release", "undo", "logged"} : Reply(c, x)
      BY <1>3 DEF RevokeSessionField
    <3>2. QED
      BY <1>0, <1>a, <3>1, ReplyOnward DEF Away
  <2>2. TypeOK' /\ NothingIssued
    BY <1>3, <2>1 DEF RevokeSessionField, IInv, TypeOK, ControlOK, NothingIssued, local, history
  <2>3. QED
    BY <2>1, <2>2, OnwardKeepsIInv
<1>4. QED
  BY <1>1, <1>2, <1>3 DEF RevokeStep

\* A login, before and after it stores its refresh token.
LEMMA LoginKeepsIInv ==
    ASSUME IInv, NEW l \in Logins, BeginLogin(l) \/ LoginStep(l)
    PROVE  IInv'
<1> USE DEF Labels, Verdicts, Handlers, NotYetRotated, NotYetStored,
           Approaching, BeforeStore
<1>0. ControlOK /\ l \in Calls /\ l \notin Refreshes /\ l \in Tokens /\ NoToken \notin Tokens
  BY CallsAssumption DEF IInv, TypeOK, ControlOK, Calls, Tokens
<1>1. CASE BeginLogin(l)
  <2>1. ControlOK' /\ Onward(l)
    BY <1>0, <1>1, GotoOnward DEF Away, BeginLogin
  <2>2. TypeOK' /\ NothingIssued
    BY <1>1, <2>1 DEF BeginLogin, IInv, TypeOK, ControlOK, NothingIssued, redis, local, history
  <2>3. QED
    BY <1>0, <2>1, <2>2, OnwardKeepsIInv
<1>2. CASE StoreRefreshToken(l)
  <2>1. ControlOK' /\ MovesTo(l, Handlers \cup {"index", "store"})
    BY <1>0, <1>2, ReplyMoves DEF StoreRefreshToken
  <2>2. /\ stored' = l
        /\ issued' = issued \cup {l}
        /\ root' = [root EXCEPT ![l] = l]
        /\ UNCHANGED <<indexed, session, lock, signals, quarantined, presented, seen,
                       won, lost, reused>>
    BY <1>2 DEF StoreRefreshToken, local
  <2>3. \A q \in won : presented[q] # l
    <3>1. ASSUME NEW q \in won PROVE pc[presented[q]] = "done"
      BY <1>0, <3>1 DEF IInv, TypeOK, StoredOnce, ConsumedIsGone
    <3>2. QED
      BY <1>2, <3>1 DEF StoreRefreshToken
  <2>9. pc'[l] = "store" => "resend" \in FaultKinds
    <3>1. CASE Goto(l, "index")
      BY <1>0, <3>1 DEF Goto, ControlOK
    <3>2. CASE Reject(l, "store")
      BY <1>0, <3>2, OnThrowHandler DEF Reject, ControlOK
    <3>3. CASE Resend(l)
      BY <3>3 DEF Resend, CountFault
    <3>4. QED
      BY <1>2, <3>1, <3>2, <3>3 DEF StoreRefreshToken, Reply
  <2>4. TypeOK'
    BY <1>0, <2>1, <2>2 DEF IInv, TypeOK, ControlOK
  <2>5. StoredOnce'
    BY <1>0, <2>1, <2>2, <2>9 DEF IInv, TypeOK, StoredOnce, MovesTo, Calls, Tokens
  <2>6. ConsumedIsGone'
    BY <1>0, <1>2, <2>1, <2>2, <2>3
    DEF StoreRefreshToken, IInv, TypeOK, StoredOnce, ConsumedIsGone, MovesTo, Calls, Tokens
  <2>7. SingleUse'
    BY <2>2 DEF IInv, SingleUse
  <2>8. QED
    BY <2>4, <2>5, <2>6, <2>7 DEF IInv
<1>3. CASE TrackFamily(l)
  <2>1. ControlOK' /\ Onward(l)
    BY <1>0, <1>3, ReplyOnward DEF Away, TrackFamily
  <2>2. TypeOK' /\ NothingIssued
    BY <1>3, <2>1 DEF TrackFamily, IInv, TypeOK, ControlOK, NothingIssued, local, history
  <2>3. QED
    BY <1>0, <2>1, <2>2, OnwardKeepsIInv
<1>4. CASE DeleteUntracked(l)
  <2>1. ControlOK' /\ Onward(l)
    BY <1>0, <1>4, ReplyOnward DEF Away, DeleteUntracked
  <2>2. TypeOK' /\ NothingIssued
    BY <1>4, <2>1 DEF DeleteUntracked, IInv, TypeOK, ControlOK, NothingIssued, local, history
  <2>3. QED
    BY <1>0, <2>1, <2>2, OnwardKeepsIInv
<1>5. CASE AuditIssued(l)
  <2>1. ControlOK' /\ Onward(l)
    <3>0. pc[l] = "issued"
      BY <1>5 DEF AuditIssued
    <3>1. CASE Decide(l, "ok", "done")
      BY <1>0, <3>0, <3>1, DecideOnward DEF Away
    <3>2. CASE Reject(l, "audit")
      BY <1>0, <3>0, <3>2, RejectOnward
    <3>3. QED
      BY <1>5, <3>1, <3>2 DEF AuditIssued
  <2>2. TypeOK' /\ NothingIssued
    BY <1>5, <2>1 DEF AuditIssued, IInv, TypeOK, ControlOK, NothingIssued, redis, local, history
  <2>3. QED
    BY <1>0, <2>1, <2>2, OnwardKeepsIInv
<1>6. CASE RollbackLogin(l)
  <2>1. ControlOK' /\ Onward(l)
    <3>0. pc[l] = "undo"
      BY <1>6 DEF RollbackLogin
    <3>1. CASE Reply(l, "done")
      BY <1>0, <3>0, <3>1, ReplyOnward DEF Away
    <3>2. CASE Reject(l, "audit")
      BY <1>0, <3>0, <3>2, RejectOnward
    <3>3. QED
      BY <1>6, <3>1, <3>2 DEF RollbackLogin
  <2>2. TypeOK' /\ NothingIssued
    BY <1>6, <2>1 DEF RollbackLogin, IInv, TypeOK, ControlOK, NothingIssued, local, history
  <2>3. QED
    BY <1>0, <2>1, <2>2, OnwardKeepsIInv
<1>7. QED
  BY <1>1, <1>2, <1>3, <1>4, <1>5, <1>6 DEF LoginStep

\* The first and last steps of a logout are such.
LEMMA LogoutKeepsIInv ==
    ASSUME IInv, NEW o \in Logouts, BeginLogout(o) \/ AuditLogout(o)
    PROVE  IInv'
<1> USE DEF Labels, Verdicts, Handlers, NotYetRotated, NotYetStored,
           Approaching, BeforeStore
<1>0. ControlOK /\ o \in Calls /\ o \notin Refreshes /\ o \notin Logins
  BY CallsAssumption DEF IInv, TypeOK, ControlOK, Calls, Tokens
<1>a. pc[o] # "done"
  BY DEF BeginLogout, AuditLogout
<1>1. ControlOK' /\ Onward(o)
  <2>1. CASE BeginLogout(o)
    BY <1>0, <2>1, GotoOnward, <1>a DEF Away, BeginLogout
  <2>2. CASE AuditLogout(o) /\ Decide(o, "ok", "done")
    BY <1>0, <2>2, DecideOnward, <1>a DEF Away
  <2>3. CASE AuditLogout(o) /\ Reject(o, "audit")
    BY <1>0, <2>3, RejectOnward, <1>a
  <2>4. QED
    BY <2>1, <2>2, <2>3 DEF AuditLogout
<1>2. TypeOK' /\ NothingIssued
  BY <1>1 DEF BeginLogout, AuditLogout, IInv, TypeOK, ControlOK, NothingIssued, redis, local, history
<1>3. QED
  BY <1>0, <1>1, <1>2, OnwardKeepsIInv

\* Failures of a call, and expiry in Redis.
LEMMA FailureKeepsIInv ==
    ASSUME IInv, NEW c \in Calls, CommandFails(c) \/ Crash(c)
    PROVE  IInv'
<1> USE DEF Labels, Verdicts, Handlers, NotYetRotated, NotYetStored,
           Approaching, BeforeStore
<1>0. ControlOK
  BY DEF IInv, TypeOK, ControlOK
<1>a. pc[c] # "done"
  BY DEF CommandFails, Crash, Active
<1>1. ControlOK' /\ Onward(c)
  <2>1. CASE CommandFails(c)
    BY <1>0, <2>1, RejectOnward, <1>a DEF CommandFails
  <2>2. CASE Crash(c)
    <3>1. faults' \in [AllFaultKinds -> 0..MaxFaults]
      BY <1>0, <2>2, CountFaultOK DEF Crash
    <3>2. pc' = [pc EXCEPT ![c] = "crashed"] /\ UNCHANGED verdict
      BY <2>2 DEF Crash
    <3>3. QED
      BY <1>0, <1>a, <3>1, <3>2 DEF ControlOK, Onward
  <2>3. QED
    BY <2>1, <2>2
<1>2. TypeOK' /\ NothingIssued
  BY <1>1 DEF CommandFails, Crash, IInv, TypeOK, ControlOK, NothingIssued, redis, local, history
<1>3. QED
  BY <1>1, <1>2, OnwardKeepsIInv

\* So are the expiries.
LEMMA ExpiryKeepsIInv ==
    ASSUME IInv, LockExpires \/ RefreshKeyExpires \/ QuarantineEnds
    PROVE  IInv'
<1>1. CASE LockExpires
  <2>1. TypeOK' /\ NothingIssued /\ UNCHANGED pc
    BY <1>1 DEF LockExpires, IInv, TypeOK, NothingIssued, local
  <2>2. QED
    BY <2>1, OnwardKeepsIInv
<1>2. CASE RefreshKeyExpires
  <2>1. TypeOK' /\ NothingIssued /\ UNCHANGED pc
    BY <1>2 DEF RefreshKeyExpires, IInv, TypeOK, NothingIssued, local, history
  <2>2. QED
    BY <2>1, OnwardKeepsIInv
<1>3. CASE QuarantineEnds
  <2>1. 0 \in 0..ConcurrentThreshold
    BY BoundsAssumption
  <2>2. TypeOK' /\ NothingIssued /\ UNCHANGED pc
    BY <1>3, <2>1 DEF QuarantineEnds, IInv, TypeOK, NothingIssued, local, history
  <2>3. QED
    BY <2>2, OnwardKeepsIInv
<1>4. QED
  BY <1>1, <1>2, <1>3

-----------------------------------------------------------------------------
(* The invariant *)

\* The invariant holds at first.
LEMMA InitIInv == Init => IInv
<1> SUFFICES ASSUME Init PROVE IInv
  OBVIOUS
<1>1. TypeOK
  <2>1. 0 \in 0..MaxFaults /\ 0 \in 0..ConcurrentThreshold
    BY BoundsAssumption
  <2>2. QED
    BY <2>1 DEF Init, TypeOK, Labels, Verdicts
<1>2. StoredOnce /\ SingleUse
  BY DEF Init, StoredOnce, SingleUse
<1>3. ConsumedIsGone
  BY DEF Init, ConsumedIsGone, Calls, Tokens
<1>4. QED
  BY <1>1, <1>2, <1>3 DEF IInv

\* The invariant is inductive.
LEMMA NextIInv == IInv /\ [Next]_vars => IInv'
<1> SUFFICES ASSUME IInv, [Next]_vars PROVE IInv'
  OBVIOUS
<1>1. CASE UNCHANGED vars
  BY <1>1 DEF vars, redis, local, history, IInv, TypeOK, StoredOnce, ConsumedIsGone, SingleUse
<1>2. ASSUME NEW r \in Refreshes, Begin(r) PROVE IInv'
  BY <1>2, RefreshApproach
<1>3. ASSUME NEW l \in Logins, BeginLogin(l) PROVE IInv'
  BY <1>3, LoginKeepsIInv
<1>4. ASSUME NEW o \in Logouts, BeginLogout(o) PROVE IInv'
  BY <1>4, LogoutKeepsIInv
<1>5. ASSUME NEW c \in Calls, Proceed(c) PROVE IInv'
  <2>1. CASE c \in Refreshes /\ RefreshStep(c)
    BY <2>1, RefreshApproach, RotateKeepsIInv, RefreshStepOnward DEF RefreshStep
  <2>2. CASE c \in Logins /\ LoginStep(c)
    BY <2>2, LoginKeepsIInv
  <2>3. CASE c \in Logouts /\ AuditLogout(c)
    BY <2>3, LogoutKeepsIInv
  <2>4. CASE c \in Tokens /\ SignStep(c)
    BY <2>4, SignStepKeepsIInv
  <2>5. CASE RevokeStep(c)
    BY <2>5, RevokeStepKeepsIInv
  <2>6. QED
    BY <1>5, <2>1, <2>2, <2>3, <2>4, <2>5 DEF Proceed
<1>6. ASSUME NEW c \in Calls, CommandFails(c) \/ Crash(c) PROVE IInv'
  BY <1>6, FailureKeepsIInv
<1>7. CASE LockExpires \/ RefreshKeyExpires \/ QuarantineEnds
  BY <1>7, ExpiryKeepsIInv
<1>8. QED
  BY <1>1, <1>2, <1>3, <1>4, <1>5, <1>6, <1>7 DEF Next

\* The inductive invariant holds of every behaviour.
THEOREM IInvHolds == Spec => []IInv
BY InitIInv, NextIInv, PTL DEF Spec

\* Every variable keeps its type.
THEOREM TypeCorrect == Spec => []TypeOK
<1>1. IInv => TypeOK
  BY DEF IInv
<1>2. QED
  BY IInvHolds, <1>1, PTL

\* No two calls of refresh consume the same token, whatever the number of
\* concurrent calls, however often the lock expires, and whatever fails.
THEOREM RefreshSingleUse == Spec => []SingleUse
<1>1. IInv => SingleUse
  BY DEF IInv
<1>2. QED
  BY IInvHolds, <1>1, PTL

-----------------------------------------------------------------------------
(* The refinement *)

Rotations == {<<presented[r], r>> : r \in won}

\* A step that writes neither the refresh key nor the history of rotations
\* stutters; one that deletes the key is a revocation.
LEMMA QuietStepRefines ==
    ASSUME stored' = stored \/ stored' = NoToken,
           UNCHANGED issued, Rotations' = Rotations
    PROVE  [Family!FamilyNext]_(Family!familyVars)
BY DEF Family!FamilyNext, Family!Revoke, Family!familyVars, Rotations

\* Presenting a token changes nothing the family sees.
LEMMA BeginRefines ==
    ASSUME IInv, NEW r \in Refreshes, Begin(r)
    PROVE  [Family!FamilyNext]_(Family!familyVars)
<1>1. r \notin won
  BY DEF Begin, IInv, StoredOnce, NotYetRotated
<1>2. \A q \in won : presented'[q] = presented[q]
  BY <1>1 DEF Begin, IInv, TypeOK
<1>3. Rotations' = Rotations
  BY <1>2 DEF Begin, Rotations
<1>4. QED
  BY <1>3, QuietStepRefines DEF Begin, redis

\* A compare-and-set that succeeds is the family's Succeed.
LEMMA RotateRefines ==
    ASSUME IInv, NEW r \in Refreshes, Rotate(r)
    PROVE  [Family!FamilyNext]_(Family!familyVars)
<1>1. CASE stored = seen[r]
  <2>1. /\ presented[r] \in Tokens
        /\ stored = presented[r]
        /\ r \notin issued
    BY <1>1 DEF Rotate, IInv, ConsumedIsGone, StoredOnce
  <2>2. /\ stored' = r
        /\ issued' = issued \cup {r}
        /\ won' = won \cup {r}
        /\ presented' = presented
    BY <1>1 DEF Rotate, Rotated, local
  <2>3. Rotations' = Rotations \cup {<<stored, r>>}
    BY <2>1, <2>2 DEF Rotations
  <2>4. stored # NoToken /\ r \in Tokens
    BY <2>1, CallsAssumption DEF Tokens, Calls
  <2>5. Family!Succeed(r)
    BY <2>1, <2>2, <2>3, <2>4 DEF Family!Succeed, Rotations
  <2>6. QED
    BY <2>4, <2>5 DEF Family!FamilyNext
<1>2. CASE stored # seen[r]
  BY <1>2, QuietStepRefines DEF Rotate, Rotations, local
<1>3. QED
  BY <1>1, <1>2

\* A login's SET is the family's Issue, if it is executed once.
LEMMA StoreRefines ==
    ASSUME IInv, "resend" \notin FaultKinds, NEW l \in Logins, StoreRefreshToken(l)
    PROVE  [Family!FamilyNext]_(Family!familyVars)
<1>1. l \notin issued
  BY DEF StoreRefreshToken, IInv, StoredOnce
<1>2. Rotations' = Rotations
  BY DEF StoreRefreshToken, Rotations, local
<1>3. Family!Issue(l)
  BY <1>1, <1>2 DEF StoreRefreshToken, Family!Issue, Rotations
<1>4. QED
  BY <1>3 DEF Family!FamilyNext, Tokens

\* Every step is one of the family's or a stutter.
LEMMA NextRefines ==
    ASSUME "resend" \notin FaultKinds
    PROVE  IInv /\ [Next]_vars => [Family!FamilyNext]_(Family!familyVars)
<1> SUFFICES ASSUME IInv, [Next]_vars PROVE [Family!FamilyNext]_(Family!familyVars)
  OBVIOUS
<1> DEFINE Quiet == /\ stored' = stored \/ stored' = NoToken
                    /\ UNCHANGED <<issued, won, presented>>
<1>1. ASSUME Quiet PROVE [Family!FamilyNext]_(Family!familyVars)
  BY <1>1, QuietStepRefines DEF Rotations
<1>2. CASE UNCHANGED vars
  BY <1>1, <1>2 DEF vars, redis, local, history
<1>3. CASE \E c \in Logins \cup Logouts : BeginLogin(c) \/ BeginLogout(c)
  BY <1>1, <1>3 DEF BeginLogin, BeginLogout, redis, local, history
<1>4. ASSUME NEW c \in Calls, Proceed(c)
      PROVE  [Family!FamilyNext]_(Family!familyVars)
  <2>1. CASE c \in Refreshes /\ Rotate(c)
    BY <2>1, RotateRefines
  <2>2. CASE c \in Logins /\ StoreRefreshToken(c)
    BY <2>2, StoreRefines
  <2>3. CASE \/ Acquire(c) \/ Read(c) \/ ReportRisk(c) \/ Alert(c)
             \/ AuditRotated(c) \/ Release(c)
    BY <1>1, <2>3
    DEF Acquire, Read, ReportRisk, Alert, AuditRotated, Release, redis, local, history
  <2>4. CASE \/ TrackFamily(c) \/ DeleteUntracked(c) \/ AuditIssued(c)
             \/ RollbackLogin(c) \/ AuditLogout(c)
    BY <1>1, <2>4
    DEF TrackFamily, DeleteUntracked, AuditIssued, RollbackLogin, AuditLogout, redis, local, history
  <2>5. CASE SignStep(c) \/ RevokeStep(c)
    BY <1>1, <2>5
    DEF SignStep, StoreSession, AuditSigned, UndoSession, RevokeStep, DeleteRefreshKey,
        RemoveFromIndex, RevokeSessionField, redis, local, history
  <2>6. QED
    BY <1>4, <2>1, <2>2, <2>3, <2>4, <2>5 DEF Proceed, RefreshStep, LoginStep
<1>5. ASSUME NEW c \in Calls, CommandFails(c) \/ Crash(c)
      PROVE  [Family!FamilyNext]_(Family!familyVars)
  BY <1>1, <1>5 DEF CommandFails, Crash, redis, local, history
<1>6. CASE LockExpires \/ RefreshKeyExpires \/ QuarantineEnds
  BY <1>1, <1>6 DEF LockExpires, RefreshKeyExpires, QuarantineEnds, local, history
<1>7. QED
  BY <1>2, <1>3, <1>4, <1>5, <1>6, BeginRefines DEF Next

\* The service implements the abstract token family: every behaviour of the
\* concurrent, failing, lock-expiring service is one in which each token is
\* live at most once and only a login revives a revoked family.  (A login's
\* SET that is sent again after a logout revives the login's own token: the
\* connection is assumed not to do so.)
THEOREM RefreshImplementsFamily ==
    ASSUME "resend" \notin FaultKinds
    PROVE  Spec => ImplementsTokenFamily
<1>1. Init => Family!FamilyInit
  BY DEF Init, Family!FamilyInit
<1>2. QED
  BY <1>1, NextRefines, IInvHolds, PTL DEF Spec, ImplementsTokenFamily, Family!FamilySpec


-----------------------------------------------------------------------------
(* The strengthening of LockExcludes, FailureLeavesNothing and             *)
(* ReplayKillsFamily: where a call can be, given its verdict.              *)

\* What a refresh has done when it holds a verdict.
RefreshFlow(r) ==
    /\ verdict[r] = "locked" => pc[r] \in {"report", "alert", "done", "crashed"}
    /\ verdict[r] \in {"replay", "raced"} =>
          pc[r] \in {"report", "alert", "del", "unindex", "unsession", "release",
                     "done", "crashed"}
    /\ pc[r] \in {"sign", "signed", "rotated"} \/ verdict[r] = "ok" => r \in won
    /\ HoldsLock(r) /\ r \notin lost => lock = r

\* A call that throws on the way has undone what it stored before it ends.
RefreshUndone(r) ==
    Reliable /\ verdict[r] = "error" =>
        /\ pc[r] \in {"unsign", "del", "unindex", "unsession", "release", "done"}
        /\ pc[r] \in {"unindex", "unsession", "release", "done"} => stored # r
        /\ pc[r] \in {"release", "done"} => session # r

LoginFlow(l) ==
    /\ pc[l] \in {"index", "issued"} \/ verdict[l] = "ok" => l \in issued
    /\ pc[l] = "store" /\ l \in issued => faults["resend"] # 0
    /\ verdict[l] \in {"none", "ok", "error"}
    /\ pc[l] \in {"unsign", "unstore", "del", "unindex", "unsession", "undo"} =>
          verdict[l] = "error"

LoginUndone(l) ==
    Reliable /\ verdict[l] = "error" =>
        /\ pc[l] \in {"unsign", "del", "unindex", "unsession", "undo", "done"}
        /\ pc[l] # "del" => stored # l
        /\ pc[l] = "done" => session # l

Flow ==
    /\ \A r \in Refreshes : RefreshFlow(r) /\ RefreshUndone(r)
    /\ \A l \in Logins : LoginFlow(l) /\ LoginUndone(l)

\* Every token descends from a login, and a token is presented only when the
\* login it descends from is over.
RootsKnown ==
    /\ \A t \in issued : root[t] \in Logins \cap issued
    /\ \A l \in Logins \cap issued : root[l] = l
    /\ \A r \in Refreshes : seen[r] \in issued \cup {NoToken}
    /\ \A r \in Refreshes :
          presented[r] # NoToken => presented[r] \in issued /\ pc[root[presented[r]]] = "done"
    /\ \A r \in won : root[r] = root[presented[r]]

\* Once a refresh that detected a replay or a lost race has deleted the key,
\* no token of the family it found is live.
Revoked(r) ==
    /\ Reliable
    /\ faults["resend"] = 0 \/ Root(seen[r]) = Root(presented[r])
    /\ pc[r] \in {"unindex", "unsession", "release", "done"}
    /\ verdict[r] \in {"replay", "raced"}
    /\ seen[r] # NoToken
    => Root(stored) # Root(seen[r])

FlowInv == IInv /\ Flow /\ RootsKnown /\ \A r \in Refreshes : Revoked(r)

-----------------------------------------------------------------------------
(* How a step moves the call that takes it, and no other *)

\* Call c moves to label x with verdict v.
Turn(c, x, v) ==
    /\ pc' = [pc EXCEPT ![c] = x]
    /\ verdict' = [verdict EXCEPT ![c] = v]

Thrown(c) == IF verdict[c] \in {"none", "ok"} THEN "error" ELSE verdict[c]

\* Failures are never forgotten.
FaultsGrow ==
    /\ Reliable' => Reliable
    /\ faults'["resend"] = 0 => faults["resend"] = 0
    /\ faults'["audit"] = 0 => faults["audit"] = 0

\* A fault that is counted is never forgotten.
LEMMA CountFaultGrows ==
    ASSUME ControlOK, NEW k, CountFault(k)
    PROVE  FaultsGrow /\ faults'[k] # 0
<1>1. k \in AllFaultKinds /\ faults[k] \in Nat
  BY BoundsAssumption DEF ControlOK, CountFault
<1>2. faults' = [faults EXCEPT ![k] = faults[k] + 1]
  BY DEF CountFault
<1>3. faults'[k] = faults[k] + 1 /\ \A j \in AllFaultKinds \ {k} : faults'[j] = faults[j]
  BY <1>1, <1>2 DEF ControlOK
<1>4. QED
  BY <1>1, <1>3 DEF FaultsGrow, Reliable, AllFaultKinds

\* The label and the verdict each way to end a step leaves its call with.
LEMMA GotoTurns ==
    ASSUME ControlOK, NEW c \in Calls, NEW x, Goto(c, x)
    PROVE  FaultsGrow /\ Turn(c, x, verdict[c])
BY DEF ControlOK, Goto, Turn, FaultsGrow, Reliable

\* Those of a verdict.
LEMMA DecideTurns ==
    ASSUME ControlOK, NEW c \in Calls, NEW x, NEW v, Decide(c, v, x)
    PROVE  FaultsGrow /\ Turn(c, x, v)
BY DEF ControlOK, Decide, Turn, FaultsGrow, Reliable

\* Those of a rejection; one of Redis ends what is called reliable.
LEMMA RejectTurns ==
    ASSUME ControlOK, NEW c \in Calls, NEW k, Reject(c, k)
    PROVE  /\ FaultsGrow /\ Turn(c, OnThrow(c), Thrown(c))
           /\ k = "store" => ~ Reliable'
<1>1. FaultsGrow /\ faults'[k] # 0
  BY CountFaultGrows DEF Reject
<1>2. Turn(c, OnThrow(c), Thrown(c))
  BY DEF Reject, Turn, Thrown, ControlOK
<1>3. QED
  BY <1>1, <1>2 DEF Reliable

\* Those of a reply: it arrives, is sent again, or is a fault of Redis.
LEMMA ReplyTurns ==
    ASSUME ControlOK, NEW c \in Calls, NEW x, Reply(c, x)
    PROVE  /\ FaultsGrow
           /\ \/ Turn(c, x, verdict[c])
              \/ Turn(c, pc[c], verdict[c]) /\ faults'["resend"] # 0
              \/ Turn(c, OnThrow(c), Thrown(c)) /\ ~ Reliable'
<1>1. CASE Goto(c, x)
  BY <1>1, GotoTurns
<1>2. CASE Reject(c, "store")
  BY <1>2, RejectTurns
<1>3. CASE Resend(c)
  <2>1. FaultsGrow /\ faults'["resend"] # 0
    BY <1>3, CountFaultGrows DEF Resend
  <2>2. Turn(c, pc[c], verdict[c])
    BY <1>3 DEF Resend, Turn, ControlOK
  <2>3. QED
    BY <2>1, <2>2
<1>4. QED
  BY <1>1, <1>2, <1>3 DEF Reply

\* The handlers, label by label.
LEMMA RefreshThrow ==
    ASSUME NEW r \in Refreshes
    PROVE  /\ pc[r] \in {"acquire", "release"} => OnThrow(r) = "done"
           /\ pc[r] \in {"read", "rotate", "del", "unindex", "unsession"} =>
                 OnThrow(r) = "release"
           /\ pc[r] \in {"report", "alert"} =>
                 OnThrow(r) = IF verdict[r] = "locked" THEN "done" ELSE "del"
           /\ pc[r] \in {"sign", "unsign", "rotated"} => OnThrow(r) = "del"
           /\ pc[r] = "signed" => OnThrow(r) = "unsign"
BY DEF OnThrow, RefreshHandler

\* Which handler undoes a login, by what it had done.
LEMMA LoginThrow ==
    ASSUME NEW l \in Logins
    PROVE  /\ pc[l] \in {"sign", "unsign", "undo"} => OnThrow(l) = "done"
           /\ pc[l] = "signed" => OnThrow(l) = "unsign"
           /\ pc[l] = "index" => OnThrow(l) = "unstore"
           /\ pc[l] = "issued" => OnThrow(l) = "del"
           /\ pc[l] \in {"store", "unstore", "del", "unindex", "unsession"} =>
                 OnThrow(l) = "undo"
BY CallsAssumption DEF OnThrow, LoginHandler, Tokens

\* What a step of call c may do to the keys and histories that the others'
\* invariants are about.
Frame(c) ==
    /\ FaultsGrow /\ pc[c] # "done"
    /\ \E x, v : Turn(c, x, v) /\ x # "idle"
    /\ stored' \in {stored, NoToken, c}
    /\ session' \in {session, NoToken, c}
    /\ lock' = lock \/ lock \in {NoToken, c}
    /\ issued \subseteq issued' /\ issued' \subseteq issued \cup {c}
    /\ won \subseteq won'
    /\ lost' = lost

\* A refresh that detected a replay or a lost race gets past the deletion of the
\* key only by deleting it.
RevokesFirst(r) ==
    LET after == {"unindex", "unsession", "release", "done"}
    IN Reliable' /\ verdict'[r] \in {"replay", "raced"} /\ pc'[r] \in after =>
           stored' = NoToken \/ (pc[r] \in after /\ verdict'[r] = verdict[r])

\* A step of one call leaves the flow of the others.
LEMMA OthersFlow ==
    ASSUME ControlOK, Flow, NEW c \in Calls, Frame(c)
    PROVE  /\ \A r \in Refreshes \ {c} : RefreshFlow(r)' /\ RefreshUndone(r)'
           /\ \A l \in Logins \ {c} : LoginFlow(l)' /\ LoginUndone(l)'
<1>1. \A d \in Calls \ {c} : pc'[d] = pc[d] /\ verdict'[d] = verdict[d]
  BY DEF Frame, Turn, ControlOK
<1>2. \A d \in Tokens : NoToken # d
  BY CallsAssumption DEF Calls
<1>3. ASSUME NEW r \in Refreshes \ {c} PROVE RefreshFlow(r)'
  BY <1>1, <1>2 DEF Flow, RefreshFlow, Frame, HoldsLock, Calls, Tokens
<1>4. ASSUME NEW r \in Refreshes \ {c} PROVE RefreshUndone(r)'
  BY <1>1, <1>2 DEF Flow, RefreshUndone, Frame, FaultsGrow, Calls, Tokens
<1>5. ASSUME NEW l \in Logins \ {c} PROVE LoginFlow(l)'
  BY <1>1, <1>2 DEF Flow, LoginFlow, Frame, FaultsGrow, Calls, Tokens
<1>6. ASSUME NEW l \in Logins \ {c} PROVE LoginUndone(l)'
  BY <1>1, <1>2 DEF Flow, LoginUndone, Frame, FaultsGrow, Calls, Tokens
<1>7. QED
  BY <1>3, <1>4, <1>5, <1>6

-----------------------------------------------------------------------------
(* The call that takes the step keeps its own invariants *)

\* A step of a refresh keeps what its label says of it.
LEMMA RefreshKeepsFlow ==
    ASSUME IInv, Flow, NEW r \in Refreshes, RefreshStep(r)
    PROVE  Frame(r) /\ RefreshFlow(r)' /\ RefreshUndone(r)' /\ RevokesFirst(r)
<1>0. ControlOK /\ r \in Calls /\ r \in Tokens /\ NoToken \notin Tokens /\ lock \in Refreshes \cup {NoToken}
  BY CallsAssumption DEF IInv, TypeOK, ControlOK, Calls, Tokens
<1>1. RefreshFlow(r) /\ RefreshUndone(r)
  BY DEF Flow
<1>2. CASE Acquire(r)
  <2>1. \/ /\ lock = NoToken /\ lock' = r /\ FaultsGrow
           /\ \/ Turn(r, "read", verdict[r])
              \/ Turn(r, "acquire", verdict[r])
              \/ Turn(r, "done", Thrown(r)) /\ ~ Reliable'
        \/ lock' = lock /\ FaultsGrow /\ Turn(r, "report", "locked")
    BY <1>0, <1>2, ReplyTurns, DecideTurns, RefreshThrow DEF Acquire
  <2>2. /\ pc[r] = "acquire"
        /\ UNCHANGED <<stored, session, issued, won, lost>>
    BY <1>2 DEF Acquire, history
  <2>3. Frame(r)
    BY <2>1, <2>2 DEF Frame
  <2>4. RefreshFlow(r)' /\ RefreshUndone(r)' /\ RevokesFirst(r)
    BY <1>0, <1>1, <2>1, <2>2
    DEF RefreshFlow, RefreshUndone, RevokesFirst, Turn, Thrown, FaultsGrow, HoldsLock, ControlOK
  <2>5. QED
    BY <2>3, <2>4
<1>3. CASE Read(r)
  <2>1. FaultsGrow /\ (Turn(r, "rotate", verdict[r]) \/ Turn(r, "report", "replay"))
    BY <1>0, <1>3, GotoTurns, DecideTurns DEF Read
  <2>2. /\ pc[r] = "read"
        /\ UNCHANGED <<lock, stored, session, issued, won, lost>>
    BY <1>3 DEF Read, redis, history
  <2>3. Frame(r)
    BY <2>1, <2>2 DEF Frame
  <2>4. RefreshFlow(r)' /\ RefreshUndone(r)' /\ RevokesFirst(r)
    BY <1>0, <1>1, <2>1, <2>2
    DEF RefreshFlow, RefreshUndone, RevokesFirst, Turn, FaultsGrow, HoldsLock, ControlOK
  <2>5. QED
    BY <2>3, <2>4
<1>4. CASE Rotate(r)
  <2>1. FaultsGrow /\ \/ Turn(r, "report", "raced") /\ UNCHANGED <<stored, issued, won>>
                      \/ /\ \/ Turn(r, "sign", verdict[r])
                            \/ Turn(r, "rotate", verdict[r])
                            \/ Turn(r, "release", Thrown(r)) /\ ~ Reliable'
                         /\ stored' = r /\ issued' = issued \cup {r} /\ won' = won \cup {r}
    BY <1>0, <1>4, ReplyTurns, DecideTurns, RefreshThrow DEF Rotate, Rotated
  <2>2. /\ pc[r] = "rotate"
        /\ UNCHANGED <<lock, session, lost>>
    BY <1>4 DEF Rotate
  <2>3. Frame(r)
    BY <2>1, <2>2 DEF Frame
  <2>4. RefreshFlow(r)' /\ RefreshUndone(r)' /\ RevokesFirst(r)
    BY <1>0, <1>1, <2>1, <2>2
    DEF RefreshFlow, RefreshUndone, RevokesFirst, Turn, Thrown, FaultsGrow, HoldsLock, ControlOK
  <2>5. QED
    BY <2>3, <2>4
<1>5. CASE ReportRisk(r) \/ Alert(r)
  <2>0. pc[r] \in {"report", "alert"}
    BY <1>5 DEF ReportRisk, Alert
  <2> DEFINE after == IF verdict[r] = "locked" THEN "done" ELSE "del"
  <2>1. FaultsGrow /\ \/ Turn(r, "alert", verdict[r])
                      \/ Turn(r, after, verdict[r])
                      \/ Turn(r, after, Thrown(r))
    <3>1. CASE Goto(r, "alert")
      BY <1>0, <3>1, GotoTurns
    <3>2. CASE Goto(r, after)
      BY <1>0, <3>2, GotoTurns
    <3>3. ASSUME NEW k, Reject(r, k)
          PROVE  FaultsGrow /\ Turn(r, after, Thrown(r))
      BY <1>0, <2>0, <3>3, RejectTurns, RefreshThrow
    <3>4. QED
      BY <1>5, <3>1, <3>2, <3>3 DEF ReportRisk, Alert
  <2>2. /\ pc[r] \in {"report", "alert"}
        /\ UNCHANGED <<lock, stored, session, issued, won, lost>>
    BY <1>5 DEF ReportRisk, Alert, redis, history
  <2>3. Frame(r)
    BY <2>1, <2>2 DEF Frame
  <2>4. RefreshFlow(r)' /\ RefreshUndone(r)' /\ RevokesFirst(r)
    BY <1>0, <1>1, <2>1, <2>2
    DEF RefreshFlow, RefreshUndone, RevokesFirst, Turn, Thrown, FaultsGrow, HoldsLock, ControlOK
  <2>5. QED
    BY <2>3, <2>4
<1>6. CASE AuditRotated(r)
  <2>1. FaultsGrow /\ (Turn(r, "release", "ok") \/ Turn(r, "del", Thrown(r)))
    BY <1>0, <1>6, DecideTurns, RejectTurns, RefreshThrow DEF AuditRotated, Verdicts
  <2>2. /\ pc[r] = "rotated"
        /\ UNCHANGED <<lock, stored, session, issued, won, lost>>
    BY <1>6 DEF AuditRotated, redis, history
  <2>3. Frame(r)
    BY <2>1, <2>2 DEF Frame
  <2>4. RefreshFlow(r)' /\ RefreshUndone(r)' /\ RevokesFirst(r)
    BY <1>0, <1>1, <2>1, <2>2
    DEF RefreshFlow, RefreshUndone, RevokesFirst, Turn, Thrown, FaultsGrow, HoldsLock, ControlOK
  <2>5. QED
    BY <2>3, <2>4
<1>7. CASE Release(r)
  <2>1. FaultsGrow /\ \/ Turn(r, "done", verdict[r])
                      \/ Turn(r, "release", verdict[r])
                      \/ Turn(r, "done", Thrown(r)) /\ ~ Reliable'
    BY <1>0, <1>7, ReplyTurns, RefreshThrow DEF Release
  <2>2. /\ pc[r] = "release"
        /\ lock' = lock \/ lock = r
        /\ UNCHANGED <<stored, session, issued, won, lost>>
    BY <1>7 DEF Release, history
  <2>3. Frame(r)
    BY <2>1, <2>2 DEF Frame
  <2>4. RefreshFlow(r)' /\ RefreshUndone(r)' /\ RevokesFirst(r)
    BY <1>0, <1>1, <2>1, <2>2
    DEF RefreshFlow, RefreshUndone, RevokesFirst, Turn, Thrown, FaultsGrow, HoldsLock, ControlOK
  <2>5. QED
    BY <2>3, <2>4
<1>8. QED
  BY <1>2, <1>3, <1>4, <1>5, <1>6, <1>7 DEF RefreshStep

\* So does its first.
LEMMA BeginKeepsFlow ==
    ASSUME IInv, Flow, NEW r \in Refreshes, Begin(r)
    PROVE  Frame(r) /\ RefreshFlow(r)' /\ RefreshUndone(r)' /\ RevokesFirst(r)
<1>0. ControlOK /\ r \in Calls
  BY DEF IInv, TypeOK, ControlOK, Calls, Tokens
<1>1. RefreshFlow(r) /\ RefreshUndone(r)
  BY DEF Flow
<1>2. FaultsGrow /\ (Turn(r, "acquire", verdict[r]) \/ Turn(r, "done", "quarantined"))
  BY <1>0, GotoTurns, DecideTurns DEF Begin
<1>3. pc[r] = "idle" /\ UNCHANGED <<lock, stored, session, issued, won, lost>>
  BY DEF Begin, redis
<1>4. Frame(r)
  BY <1>2, <1>3 DEF Frame
<1>5. RefreshFlow(r)' /\ RefreshUndone(r)' /\ RevokesFirst(r)
  BY <1>0, <1>1, <1>2, <1>3
  DEF RefreshFlow, RefreshUndone, RevokesFirst, Turn, FaultsGrow, HoldsLock, ControlOK
<1>6. QED
  BY <1>4, <1>5

\* Signing, and what undoes it.
LEMMA SignKeepsFlow ==
    ASSUME IInv, Flow, NEW c \in Tokens, SignStep(c)
    PROVE  /\ Frame(c)
           /\ c \in Refreshes => RefreshFlow(c)' /\ RefreshUndone(c)' /\ RevokesFirst(c)
           /\ c \in Logins => LoginFlow(c)' /\ LoginUndone(c)'
<1>0. /\ ControlOK /\ c \in Calls /\ NoToken # c
      /\ c \in Refreshes <=> c \notin Logins
  BY CallsAssumption DEF IInv, TypeOK, ControlOK, Calls, Tokens
<1>1. /\ c \in Refreshes => RefreshFlow(c) /\ RefreshUndone(c)
      /\ c \in Logins => LoginFlow(c) /\ LoginUndone(c) /\ (pc[c] \in NotYetStored => stored # c)
  BY <1>0 DEF Flow, IInv, StoredOnce
<1>2. UNCHANGED <<stored, lock, issued, won, lost>>
  BY DEF SignStep, StoreSession, AuditSigned, UndoSession, redis, history
<1>3. CASE StoreSession(c)
  <2>1. pc[c] = "sign" /\ session' = c
    BY <1>3 DEF StoreSession
  <2>2. FaultsGrow /\ \/ Turn(c, "signed", verdict[c])
                      \/ Turn(c, "sign", verdict[c])
                      \/ Turn(c, "del", Thrown(c)) /\ ~ Reliable' /\ c \in Refreshes
                      \/ Turn(c, "done", Thrown(c)) /\ ~ Reliable' /\ c \in Logins
    BY <1>0, <1>3, <2>1, ReplyTurns, RefreshThrow, LoginThrow DEF StoreSession
  <2>3. Frame(c)
    BY <1>2, <2>1, <2>2 DEF Frame
  <2>4. c \in Refreshes => RefreshFlow(c)' /\ RefreshUndone(c)' /\ RevokesFirst(c)
    BY <1>0, <1>1, <1>2, <2>1, <2>2
    DEF RefreshFlow, RefreshUndone, RevokesFirst, Turn, Thrown, FaultsGrow, HoldsLock, ControlOK
  <2>5. c \in Logins => LoginFlow(c)' /\ LoginUndone(c)'
    BY <1>0, <1>1, <1>2, <2>1, <2>2
    DEF LoginFlow, LoginUndone, Turn, Thrown, FaultsGrow, ControlOK
  <2>6. QED
    BY <2>3, <2>4, <2>5
<1>4. CASE AuditSigned(c)
  <2>1. pc[c] = "signed" /\ session' = session
    BY <1>4 DEF AuditSigned, redis
  <2>2. FaultsGrow /\ \/ Turn(c, "rotated", verdict[c]) /\ c \in Refreshes
                      \/ Turn(c, "store", verdict[c]) /\ c \in Logins
                      \/ Turn(c, "unsign", Thrown(c))
    BY <1>0, <1>4, <2>1, GotoTurns, RejectTurns, RefreshThrow, LoginThrow DEF AuditSigned
  <2>3. Frame(c)
    BY <1>2, <2>1, <2>2 DEF Frame
  <2>4. c \in Refreshes => RefreshFlow(c)' /\ RefreshUndone(c)' /\ RevokesFirst(c)
    BY <1>0, <1>1, <1>2, <2>1, <2>2
    DEF RefreshFlow, RefreshUndone, RevokesFirst, Turn, Thrown, FaultsGrow, HoldsLock, ControlOK
  <2>5. c \in Logins => c \notin issued
    BY <2>1 DEF IInv, StoredOnce, NotYetStored
  <2>6. c \in Logins => LoginFlow(c)' /\ LoginUndone(c)'
    BY <1>0, <1>1, <1>2, <2>1, <2>2, <2>5
    DEF LoginFlow, LoginUndone, Turn, Thrown, FaultsGrow, ControlOK, NotYetStored
  <2>7. QED
    BY <2>3, <2>4, <2>6
<1>5. CASE UndoSession(c)
  <2>1. pc[c] = "unsign" /\ session' = NoToken
    BY <1>5 DEF UndoSession
  <2>2. FaultsGrow /\ \/ Turn(c, "del", verdict[c]) /\ c \in Refreshes
                      \/ Turn(c, "done", verdict[c]) /\ c \in Logins
                      \/ Turn(c, "unsign", verdict[c])
                      \/ Turn(c, "del", Thrown(c)) /\ ~ Reliable' /\ c \in Refreshes
                      \/ Turn(c, "done", Thrown(c)) /\ ~ Reliable' /\ c \in Logins
    BY <1>0, <1>5, <2>1, ReplyTurns, RefreshThrow, LoginThrow DEF UndoSession
  <2>3. Frame(c)
    BY <1>2, <2>1, <2>2 DEF Frame
  <2>4. c \in Refreshes => RefreshFlow(c)' /\ RefreshUndone(c)' /\ RevokesFirst(c)
    BY <1>0, <1>1, <1>2, <2>1, <2>2
    DEF RefreshFlow, RefreshUndone, RevokesFirst, Turn, Thrown, FaultsGrow, HoldsLock, ControlOK
  <2>5. c \in Logins => LoginFlow(c)' /\ LoginUndone(c)'
    BY <1>0, <1>1, <1>2, <2>1, <2>2
    DEF LoginFlow, LoginUndone, Turn, Thrown, FaultsGrow, ControlOK
  <2>6. QED
    BY <2>3, <2>4, <2>5
<1>6. QED
  BY <1>3, <1>4, <1>5 DEF SignStep

\* The three commands of a revocation; a logout has no invariant of its own.
LEMMA RevokeKeepsFlow ==
    ASSUME IInv, Flow, NEW c \in Calls, RevokeStep(c)
    PROVE  /\ Frame(c)
           /\ c \in Refreshes => RefreshFlow(c)' /\ RefreshUndone(c)' /\ RevokesFirst(c)
           /\ c \in Logins => LoginFlow(c)' /\ LoginUndone(c)'
<1>0. ControlOK /\ NoToken # c /\ ~ (c \in Refreshes /\ c \in Logins)
  BY CallsAssumption DEF IInv, TypeOK, ControlOK
<1>1. /\ c \in Refreshes => RefreshFlow(c) /\ RefreshUndone(c)
      /\ c \in Logins => LoginFlow(c) /\ LoginUndone(c)
  BY DEF Flow
<1>2. UNCHANGED <<lock, issued, won, lost>>
  BY DEF RevokeStep, DeleteRefreshKey, RemoveFromIndex, RevokeSessionField, history
<1>3. /\ stored' \in {stored, NoToken} /\ session' \in {session, NoToken}
      /\ pc[c] \in {"del", "unindex", "unsession"}
      /\ pc[c] = "del" => stored' = NoToken
      /\ pc[c] = "unsession" => session' = NoToken
  BY DEF RevokeStep, DeleteRefreshKey, RemoveFromIndex, RevokeSessionField
<1>4. PICK x : /\ Reply(c, x)
               /\ pc[c] = "del" => x = "unindex"
               /\ pc[c] = "unindex" => x = "unsession"
               /\ pc[c] = "unsession" =>
                     x = IF c \in Refreshes THEN "release"
                         ELSE IF c \in Logins THEN "undo" ELSE "logged"
  <2>1. CASE DeleteRefreshKey(c)
    BY <2>1 DEF DeleteRefreshKey
  <2>2. CASE RemoveFromIndex(c)
    BY <2>2 DEF RemoveFromIndex
  <2>3. CASE RevokeSessionField(c)
    BY <2>3 DEF RevokeSessionField
  <2>4. QED
    BY <2>1, <2>2, <2>3 DEF RevokeStep
<1>5. FaultsGrow /\ \/ Turn(c, x, verdict[c])
                    \/ Turn(c, pc[c], verdict[c])
                    \/ Turn(c, OnThrow(c), Thrown(c)) /\ ~ Reliable'
  BY <1>0, <1>4, ReplyTurns
<1>6. Frame(c)
  <2>1. pc[c] # "idle" /\ pc[c] # "done" /\ x # "idle"
    BY <1>3, <1>4
  <2>2. OnThrow(c) # "idle"
    BY OnThrowHandler DEF Handlers
  <2>3. QED
    BY <1>2, <1>3, <1>5, <2>1, <2>2 DEF Frame
<1>7. c \in Refreshes => RefreshFlow(c)' /\ RefreshUndone(c)' /\ RevokesFirst(c)
  <2> SUFFICES ASSUME c \in Refreshes PROVE RefreshFlow(c)' /\ RefreshUndone(c)' /\ RevokesFirst(c)
    OBVIOUS
  <2>1. OnThrow(c) = "release"
    BY <1>3, RefreshThrow
  <2>2. QED
    BY <1>0, <1>1, <1>2, <1>3, <1>4, <1>5, <2>1
    DEF RefreshFlow, RefreshUndone, RevokesFirst, Turn, Thrown, FaultsGrow, HoldsLock, ControlOK
<1>8. c \in Logins => LoginFlow(c)' /\ LoginUndone(c)'
  <2> SUFFICES ASSUME c \in Logins PROVE LoginFlow(c)' /\ LoginUndone(c)'
    OBVIOUS
  <2>1. OnThrow(c) = "undo"
    BY <1>3, LoginThrow
  <2>2. QED
    BY <1>0, <1>1, <1>2, <1>3, <1>4, <1>5, <2>1
    DEF LoginFlow, LoginUndone, Turn, Thrown, FaultsGrow, ControlOK
<1>9. QED
  BY <1>6, <1>7, <1>8

\* A step of a login keeps what its label says of it.
LEMMA LoginKeepsFlow ==
    ASSUME IInv, Flow, NEW l \in Logins, BeginLogin(l) \/ LoginStep(l)
    PROVE  Frame(l) /\ LoginFlow(l)' /\ LoginUndone(l)'
<1>0. ControlOK /\ l \in Calls /\ NoToken # l /\ l \notin Refreshes
  BY CallsAssumption DEF IInv, TypeOK, ControlOK, Calls, Tokens
<1>1. LoginFlow(l) /\ LoginUndone(l)
  BY DEF Flow
<1>2. CASE BeginLogin(l)
  <2>1. /\ pc[l] = "idle" /\ FaultsGrow /\ Turn(l, "sign", verdict[l])
        /\ UNCHANGED <<stored, session, lock, issued, won, lost>>
    BY <1>0, <1>2, GotoTurns DEF BeginLogin, redis, history
  <2>2. QED
    BY <1>0, <1>1, <2>1 DEF Frame, LoginFlow, LoginUndone, Turn, FaultsGrow, ControlOK
<1>3. CASE StoreRefreshToken(l)
  <2>1. pc[l] = "store"
    BY <1>3 DEF StoreRefreshToken
  <2>2. FaultsGrow /\ \/ Turn(l, "index", verdict[l])
                      \/ Turn(l, "store", verdict[l]) /\ faults'["resend"] # 0
                      \/ Turn(l, "undo", Thrown(l)) /\ ~ Reliable'
    BY <1>0, <1>3, <2>1, ReplyTurns, LoginThrow DEF StoreRefreshToken
  <2>3. /\ stored' = l /\ issued' = issued \cup {l}
        /\ UNCHANGED <<session, lock, won, lost>>
    BY <1>3 DEF StoreRefreshToken
  <2>4. QED
    BY <1>0, <1>1, <2>1, <2>2, <2>3
    DEF Frame, LoginFlow, LoginUndone, Turn, Thrown, FaultsGrow, ControlOK
<1>4. CASE TrackFamily(l)
  <2>1. pc[l] = "index" /\ UNCHANGED <<stored, session, lock, issued, won, lost>>
    BY <1>4 DEF TrackFamily, history
  <2>2. FaultsGrow /\ \/ Turn(l, "issued", verdict[l])
                      \/ Turn(l, "index", verdict[l])
                      \/ Turn(l, "unstore", Thrown(l)) /\ ~ Reliable'
    BY <1>0, <1>4, <2>1, ReplyTurns, LoginThrow DEF TrackFamily
  <2>3. QED
    BY <1>0, <1>1, <2>1, <2>2
    DEF Frame, LoginFlow, LoginUndone, Turn, Thrown, FaultsGrow, ControlOK
<1>5. CASE DeleteUntracked(l)
  <2>1. /\ pc[l] = "unstore" /\ stored' = NoToken
        /\ UNCHANGED <<session, lock, issued, won, lost>>
    BY <1>5 DEF DeleteUntracked, history
  <2>2. FaultsGrow /\ \/ Turn(l, "undo", verdict[l])
                      \/ Turn(l, "unstore", verdict[l])
                      \/ Turn(l, "undo", Thrown(l)) /\ ~ Reliable'
    BY <1>0, <1>5, <2>1, ReplyTurns, LoginThrow DEF DeleteUntracked
  <2>3. QED
    BY <1>0, <1>1, <2>1, <2>2
    DEF Frame, LoginFlow, LoginUndone, Turn, Thrown, FaultsGrow, ControlOK
<1>6. CASE AuditIssued(l)
  <2>1. pc[l] = "issued" /\ UNCHANGED <<stored, session, lock, issued, won, lost>>
    BY <1>6 DEF AuditIssued, redis, history
  <2>2. FaultsGrow /\ (Turn(l, "done", "ok") \/ Turn(l, "del", Thrown(l)))
    BY <1>0, <1>6, <2>1, DecideTurns, RejectTurns, LoginThrow DEF AuditIssued
  <2>3. QED
    BY <1>0, <1>1, <2>1, <2>2
    DEF Frame, LoginFlow, LoginUndone, Turn, Thrown, FaultsGrow, ControlOK
<1>7. CASE RollbackLogin(l)
  <2>1. /\ pc[l] = "undo" /\ session' = NoToken
        /\ UNCHANGED <<stored, lock, issued, won, lost>>
    BY <1>7 DEF RollbackLogin, history
  <2>2. FaultsGrow /\ \/ Turn(l, "done", verdict[l])
                      \/ Turn(l, "undo", verdict[l])
                      \/ Turn(l, "done", Thrown(l))
    BY <1>0, <1>7, <2>1, ReplyTurns, RejectTurns, LoginThrow DEF RollbackLogin
  <2>3. QED
    BY <1>0, <1>1, <2>1, <2>2
    DEF Frame, LoginFlow, LoginUndone, Turn, Thrown, FaultsGrow, ControlOK
<1>8. QED
  BY <1>2, <1>3, <1>4, <1>5, <1>6, <1>7 DEF LoginStep

\* A command that fails, or a crash, promises nothing any more.
LEMMA FailureKeepsFlow ==
    ASSUME IInv, Flow, NEW c \in Calls, CommandFails(c) \/ Crash(c)
    PROVE  /\ Frame(c) /\ ~ Reliable'
           /\ c \in Refreshes => RefreshFlow(c)' /\ RefreshUndone(c)' /\ RevokesFirst(c)
           /\ c \in Logins => LoginFlow(c)' /\ LoginUndone(c)'
<1>0. ControlOK
  BY DEF IInv, TypeOK, ControlOK
<1>1. UNCHANGED <<stored, session, lock, issued, won, lost>> /\ Active(c)
  BY DEF CommandFails, Crash, redis, history
<1>2. FaultsGrow /\ ~ Reliable' /\ (Turn(c, OnThrow(c), Thrown(c)) \/ Turn(c, "crashed", verdict[c]))
  <2>1. CASE CommandFails(c)
    BY <1>0, <2>1, RejectTurns DEF CommandFails
  <2>2. CASE Crash(c)
    <3>1. FaultsGrow /\ ~ Reliable'
      BY <1>0, <2>2, CountFaultGrows DEF Crash, Reliable
    <3>2. Turn(c, "crashed", verdict[c])
      BY <1>0, <2>2 DEF Crash, Turn, ControlOK
    <3>3. QED
      BY <3>1, <3>2
  <2>3. QED
    BY <2>1, <2>2
<1>3. Frame(c)
  <2>1. OnThrow(c) # "idle"
    BY OnThrowHandler DEF Handlers
  <2>2. QED
    BY <1>1, <1>2, <2>1 DEF Frame, Active
<1>4. ASSUME c \in Refreshes PROVE RefreshFlow(c)' /\ RefreshUndone(c)' /\ RevokesFirst(c)
  <2>1. /\ OnThrow(c) \in {"done", "release", "del", "unsign"}
        /\ OnThrow(c) \in {"del", "unsign"} =>
              /\ pc[c] \in {"report", "alert", "sign", "unsign", "rotated", "signed"}
              /\ pc[c] \in {"report", "alert"} => verdict[c] # "locked"
        /\ verdict[c] = "locked" /\ pc[c] \in {"report", "alert"} => OnThrow(c) = "done"
        /\ OnThrow(c) = "unsign" => pc[c] = "signed"
    BY <1>4 DEF OnThrow, RefreshHandler
  <2>2. RefreshFlow(c) /\ RefreshUndone(c)
    BY <1>4 DEF Flow
  <2>3. RefreshFlow(c)'
    <3>1. UNCHANGED <<lock, won, lost>> /\ pc[c] \notin {"done", "crashed"}
      BY <1>1 DEF Active
    <3>2. CASE Turn(c, "crashed", verdict[c])
      BY <1>0, <2>2, <3>1, <3>2 DEF RefreshFlow, Turn, HoldsLock, ControlOK
    <3>3. CASE Turn(c, OnThrow(c), Thrown(c))
      <4>1. pc'[c] = OnThrow(c) /\ verdict'[c] = Thrown(c)
        BY <1>0, <3>3 DEF Turn, ControlOK
      <4>2. /\ verdict'[c] # "ok"
            /\ verdict'[c] \in {"locked", "replay", "raced"} => verdict'[c] = verdict[c]
            /\ verdict[c] \in {"locked", "replay", "raced"} => verdict'[c] = verdict[c]
        BY <4>1 DEF Thrown
      <4>3. HoldsLock(c)' => HoldsLock(c)
        BY <2>1, <4>1, <4>2 DEF HoldsLock
      <4>4. QED
        BY <2>1, <2>2, <3>1, <4>1, <4>2, <4>3 DEF RefreshFlow
    <3>4. QED
      BY <1>2, <3>2, <3>3
  <2>4. QED
    BY <1>2, <2>3 DEF RefreshUndone, RevokesFirst
<1>5. ASSUME c \in Logins PROVE LoginFlow(c)' /\ LoginUndone(c)'
  <2>1. OnThrow(c) \in {"done", "unsign", "unstore", "del", "undo"}
    BY <1>5, CallsAssumption DEF OnThrow, LoginHandler, Tokens
  <2>2. QED
    BY <1>0, <1>1, <1>2, <1>5, <2>1
    DEF Flow, LoginFlow, LoginUndone, Turn, Thrown, FaultsGrow, ControlOK, Active
<1>6. QED
  BY <1>2, <1>3, <1>4, <1>5

\* A logout moves no refresh and no login.
LEMMA LogoutKeepsFlow ==
    ASSUME IInv, NEW o \in Logouts, BeginLogout(o) \/ AuditLogout(o)
    PROVE  Frame(o) /\ o \notin Refreshes /\ o \notin Logins
<1>0. ControlOK /\ o \in Calls /\ o \notin Refreshes /\ o \notin Logins
  BY CallsAssumption DEF IInv, TypeOK, ControlOK, Calls, Tokens
<1>1. FaultsGrow /\ \E x, v : Turn(o, x, v) /\ x # "idle"
  <2>1. OnThrow(o) # "idle"
    BY <1>0, OnThrowHandler DEF Handlers
  <2>2. QED
    BY <1>0, <2>1, GotoTurns, DecideTurns, RejectTurns DEF BeginLogout, AuditLogout
<1>2. UNCHANGED <<stored, session, lock, issued, won, lost>> /\ pc[o] # "done"
  BY DEF BeginLogout, AuditLogout, redis, history
<1>3. QED
  BY <1>0, <1>1, <1>2 DEF Frame

\* Expiry moves no call.
LEMMA ExpiryKeepsFlow ==
    ASSUME IInv, Flow, LockExpires \/ RefreshKeyExpires \/ QuarantineEnds
    PROVE  Flow'
<1>1. /\ UNCHANGED <<pc, verdict, faults, session, issued, won>>
      /\ stored' \in {stored, NoToken}
      /\ (lock' = lock /\ lost' = lost) \/ lost' = lost \cup {lock}
  BY DEF LockExpires, RefreshKeyExpires, QuarantineEnds, history
<1>2. \A d \in Tokens : NoToken # d
  BY CallsAssumption DEF Calls
<1>3. ASSUME NEW r \in Refreshes PROVE RefreshFlow(r)' /\ RefreshUndone(r)'
  BY <1>1, <1>2 DEF Flow, RefreshFlow, RefreshUndone, HoldsLock, Reliable, Tokens
<1>4. ASSUME NEW l \in Logins PROVE LoginFlow(l)' /\ LoginUndone(l)'
  BY <1>1, <1>2 DEF Flow, LoginFlow, LoginUndone, Reliable, Tokens
<1>5. QED
  BY <1>3, <1>4 DEF Flow

\* What every step is: expiry, or the move of one call that keeps its invariants.
Moves(c) ==
    /\ Frame(c)
    /\ c \in Refreshes => RefreshFlow(c)' /\ RefreshUndone(c)' /\ RevokesFirst(c)
    /\ c \in Logins => LoginFlow(c)' /\ LoginUndone(c)'

\* Every step is an expiry or moves one call on its flow.
LEMMA NextMoves ==
    ASSUME IInv, Flow, Next
    PROVE  \/ LockExpires \/ RefreshKeyExpires \/ QuarantineEnds
           \/ \E c \in Calls : Moves(c)
<1>1. /\ Refreshes \subseteq Calls /\ Logins \subseteq Calls /\ Logouts \subseteq Calls
      /\ Tokens \subseteq Calls /\ Refreshes \cap Logins = {}
  BY CallsAssumption DEF Calls, Tokens
<1>2. ASSUME NEW r \in Refreshes, Begin(r) \/ RefreshStep(r) PROVE Moves(r)
  BY <1>1, <1>2, BeginKeepsFlow, RefreshKeepsFlow DEF Moves
<1>3. ASSUME NEW l \in Logins, BeginLogin(l) \/ LoginStep(l) PROVE Moves(l)
  BY <1>1, <1>3, LoginKeepsFlow DEF Moves
<1>4. ASSUME NEW o \in Logouts, BeginLogout(o) \/ AuditLogout(o) PROVE Moves(o)
  BY <1>1, <1>4, LogoutKeepsFlow DEF Moves
<1>5. ASSUME NEW c \in Tokens, SignStep(c) PROVE Moves(c)
  BY <1>1, <1>5, SignKeepsFlow DEF Moves
<1>6. ASSUME NEW c \in Calls, RevokeStep(c) \/ CommandFails(c) \/ Crash(c) PROVE Moves(c)
  BY <1>6, RevokeKeepsFlow, FailureKeepsFlow DEF Moves
<1>7. ASSUME NEW c \in Calls, Proceed(c) PROVE Moves(c)
  BY <1>2, <1>3, <1>4, <1>5, <1>6, <1>7 DEF Proceed
<1>8. QED
  BY <1>1, <1>2, <1>3, <1>4, <1>6, <1>7 DEF Next

\* Every step keeps the flow of all calls.
LEMMA NextFlow ==
    ASSUME IInv, Flow, [Next]_vars
    PROVE  Flow'
<1>1. CASE UNCHANGED vars
  BY <1>1
  DEF vars, redis, history, Flow, RefreshFlow, RefreshUndone, LoginFlow, LoginUndone,
      HoldsLock, Reliable
<1>2. CASE LockExpires \/ RefreshKeyExpires \/ QuarantineEnds
  BY <1>2, ExpiryKeepsFlow
<1>3. ASSUME NEW c \in Calls, Moves(c) PROVE Flow'
  <2>1. ControlOK
    BY DEF IInv, TypeOK, ControlOK
  <2>2. QED
    BY <1>3, <2>1, OthersFlow DEF Flow, Moves
<1>4. QED
  BY <1>1, <1>2, <1>3, NextMoves

\* A call that is over stays over, and failures stay recorded.
LEMMA DoneStays ==
    ASSUME IInv, Flow, [Next]_vars
    PROVE  FaultsGrow /\ \A c \in Calls : pc[c] = "done" => pc'[c] = "done"
<1>1. CASE UNCHANGED vars \/ LockExpires \/ RefreshKeyExpires \/ QuarantineEnds
  BY <1>1 DEF vars, LockExpires, RefreshKeyExpires, QuarantineEnds, FaultsGrow, Reliable
<1>2. ASSUME NEW d \in Calls, Frame(d)
      PROVE  FaultsGrow /\ \A c \in Calls : pc[c] = "done" => pc'[c] = "done"
  BY <1>2 DEF Frame, Turn, IInv, TypeOK
<1>3. QED
  BY <1>1, <1>2, NextMoves DEF Moves

\* The flow holds at first, when every call is idle.
LEMMA InitFlow == Init => Flow
BY CallsAssumption
DEF Init, Flow, RefreshFlow, RefreshUndone, LoginFlow, LoginUndone, HoldsLock, Calls, Tokens

-----------------------------------------------------------------------------
(* Which login a token descends from *)

\* A step that neither issues a token nor reads or presents one.
Calm ==
    /\ UNCHANGED <<issued, won, root, presented, seen>>
    /\ stored' \in {stored, NoToken}

\* The steps that change what is stored, presented or read.
LEMMA NextCalm ==
    ASSUME [Next]_vars
    PROVE  \/ Calm
           \/ \E r \in Refreshes : Begin(r) \/ Read(r) \/ Rotate(r)
           \/ \E l \in Logins : StoreRefreshToken(l)
<1> USE DEF Calm, redis, history, local
<1>1. CASE UNCHANGED vars
  BY <1>1 DEF vars
<1>2. CASE LockExpires \/ RefreshKeyExpires \/ QuarantineEnds
  BY <1>2 DEF LockExpires, RefreshKeyExpires, QuarantineEnds
<1>3. ASSUME NEW c, CommandFails(c) \/ Crash(c) PROVE Calm
  BY <1>3 DEF CommandFails, Crash
<1>4. ASSUME NEW c, SignStep(c) \/ RevokeStep(c) PROVE Calm
  BY <1>4 DEF SignStep, StoreSession, AuditSigned, UndoSession,
              RevokeStep, DeleteRefreshKey, RemoveFromIndex, RevokeSessionField
<1>5. ASSUME NEW c, BeginLogin(c) \/ BeginLogout(c) \/ AuditLogout(c) PROVE Calm
  BY <1>5 DEF BeginLogin, BeginLogout, AuditLogout
<1>6. ASSUME NEW r \in Refreshes, RefreshStep(r) PROVE Calm \/ Read(r) \/ Rotate(r)
  BY <1>6 DEF RefreshStep, Acquire, ReportRisk, Alert, AuditRotated, Release
<1>7. ASSUME NEW l \in Logins, LoginStep(l) PROVE Calm \/ StoreRefreshToken(l)
  BY <1>7 DEF LoginStep, TrackFamily, DeleteUntracked, AuditIssued, RollbackLogin
<1>8. ASSUME NEW c \in Calls, Proceed(c)
      PROVE  \/ Calm
             \/ \E r \in Refreshes : Read(r) \/ Rotate(r)
             \/ \E l \in Logins : StoreRefreshToken(l)
  BY <1>4, <1>5, <1>6, <1>7, <1>8 DEF Proceed
<1>9. QED
  BY <1>1, <1>2, <1>3, <1>5, <1>8 DEF Next

\* A token that has been stored keeps its root, and a rotation passes it on.
LEMMA RotateRoots ==
    ASSUME IInv, RootsKnown, NEW r \in Refreshes, Rotate(r), stored = seen[r]
    PROVE  /\ stored' = r /\ issued' = issued \cup {r} /\ won' = won \cup {r}
           /\ UNCHANGED <<presented, seen>>
           /\ \A t \in issued : root'[t] = root[t]
           /\ root'[r] = root[presented[r]]
           /\ presented[r] \in issued /\ seen[r] = presented[r] /\ r \notin Logins
<1>0. r \in Tokens /\ root \in [Tokens -> Logins \cup {NoToken}] /\ r \notin Logins
  BY CallsAssumption DEF IInv, TypeOK, Tokens
<1>1. /\ stored' = r /\ issued' = issued \cup {r} /\ won' = won \cup {r}
      /\ root' = [root EXCEPT ![r] = root[presented[r]]]
      /\ UNCHANGED <<presented, seen>>
  BY DEF Rotate, Rotated, local
<1>2. presented[r] \in Tokens /\ seen[r] = presented[r] /\ presented[r] # NoToken
  BY CallsAssumption DEF Rotate, IInv, ConsumedIsGone, Calls
<1>3. presented[r] \in issued
  BY <1>2 DEF RootsKnown
<1>4. r \in issued => root[r] = root[presented[r]]
  BY DEF IInv, StoredOnce, RootsKnown
<1>5. QED
  BY <1>0, <1>1, <1>2, <1>3, <1>4

\* A login's SET founds a family, its own.
LEMMA StoreRoots ==
    ASSUME IInv, RootsKnown, NEW l \in Logins, StoreRefreshToken(l)
    PROVE  /\ stored' = l /\ issued' = issued \cup {l} /\ UNCHANGED <<won, presented, seen>>
           /\ \A t \in issued : root'[t] = root[t]
           /\ root'[l] = l
<1>0. l \in Tokens /\ root \in [Tokens -> Logins \cup {NoToken}]
  BY DEF IInv, TypeOK, Tokens
<1>1. /\ stored' = l /\ issued' = issued \cup {l}
      /\ root' = [root EXCEPT ![l] = l]
      /\ UNCHANGED <<won, presented, seen>>
  BY DEF StoreRefreshToken, local
<1>2. l \in issued => root[l] = l
  BY DEF RootsKnown
<1>3. QED
  BY <1>0, <1>1, <1>2

\* Every step keeps the descent of the tokens.
LEMMA NextRoots ==
    ASSUME IInv, Flow, RootsKnown, [Next]_vars
    PROVE  RootsKnown'
<1>0. /\ issued \subseteq Tokens /\ Tokens \subseteq Calls /\ Logins \subseteq Tokens
      /\ Refreshes \subseteq Tokens /\ NoToken \notin Tokens
      /\ won \subseteq issued /\ won \subseteq Refreshes
      /\ stored \in issued \cup {NoToken}
      /\ \A q \in won : presented[q] \in issued
  BY CallsAssumption DEF IInv, TypeOK, StoredOnce, ConsumedIsGone, Calls, Tokens
<1>1. \A c \in Calls : pc[c] = "done" => pc'[c] = "done"
  BY DoneStays
<1>2. CASE Calm
  BY <1>0, <1>1, <1>2 DEF RootsKnown, Calm
<1>3. ASSUME NEW r \in Refreshes, Begin(r) PROVE RootsKnown'
  <2>1. PICK t \in Delivered : presented' = [presented EXCEPT ![r] = t]
    BY <1>3 DEF Begin
  <2>2. UNCHANGED <<issued, won, root, seen>> /\ pc[r] = "idle"
    BY <1>3 DEF Begin
  <2>3. t \in issued
    <3>1. t \in Tokens /\ verdict[t] = "ok" /\ pc[t] = "done"
      BY DEF Delivered
    <3>2. QED
      BY <1>0, <3>1 DEF Flow, RefreshFlow, LoginFlow, Tokens
  <2>4. pc[root[t]] = "done"
    <3>1. CASE t \in Logins
      BY <2>3, <3>1 DEF RootsKnown, Delivered
    <3>2. CASE t \in Refreshes
      <4>1. t \in won
        BY <2>3, <3>2 DEF IInv, StoredOnce
      <4>2. presented[t] \in issued /\ presented[t] # NoToken /\ root[t] = root[presented[t]]
        BY <1>0, <4>1 DEF RootsKnown
      <4>3. QED
        BY <3>2, <4>2 DEF RootsKnown
    <3>3. QED
      BY <3>1, <3>2 DEF Delivered, Tokens
  <2>5. r \notin won
    BY <2>2 DEF IInv, StoredOnce, NotYetRotated
  <2>6. \A q \in Refreshes : presented'[q] = IF q = r THEN t ELSE presented[q]
    BY <2>1 DEF IInv, TypeOK
  <2>7. QED
    BY <1>0, <1>1, <2>2, <2>3, <2>4, <2>5, <2>6 DEF RootsKnown
<1>4. ASSUME NEW r \in Refreshes, Read(r) PROVE RootsKnown'
  <2>1. /\ \A q \in Refreshes : seen'[q] = IF q = r THEN stored ELSE seen[q]
        /\ UNCHANGED <<issued, won, root, presented>>
    BY <1>4 DEF Read, IInv, TypeOK, history
  <2>2. QED
    BY <1>0, <1>1, <2>1 DEF RootsKnown
<1>5. ASSUME NEW r \in Refreshes, Rotate(r) PROVE RootsKnown'
  <2>1. CASE stored = seen[r]
    <3>1. /\ issued' = issued \cup {r} /\ won' = won \cup {r}
          /\ UNCHANGED <<presented, seen>>
          /\ \A t \in issued : root'[t] = root[t]
          /\ root'[r] = root[presented[r]]
          /\ presented[r] \in issued /\ r \notin Logins
      BY <1>5, <2>1, RotateRoots
    <3>2. QED
      BY <1>0, <1>1, <3>1 DEF RootsKnown
  <2>2. CASE stored # seen[r]
    BY <1>0, <1>1, <1>5, <2>2 DEF Rotate, RootsKnown, local
  <2>3. QED
    BY <2>1, <2>2
<1>6. ASSUME NEW l \in Logins, StoreRefreshToken(l) PROVE RootsKnown'
  <2>1. /\ issued' = issued \cup {l} /\ UNCHANGED <<won, presented, seen>>
        /\ \A t \in issued : root'[t] = root[t]
        /\ root'[l] = l
    BY <1>6, StoreRoots
  <2>2. QED
    BY <1>0, <1>1, <2>1 DEF RootsKnown
<1>7. QED
  BY <1>2, <1>3, <1>4, <1>5, <1>6, NextCalm

\* A family whose key a replay or a lost race has deleted stays without a token.
LEMMA NextRevoked ==
    ASSUME IInv, Flow, RootsKnown, [Next]_vars, NEW r \in Refreshes, Revoked(r)
    PROVE  Revoked(r)'
<1> SUFFICES ASSUME Reliable',
                    (faults["resend"] = 0 \/ Root(seen[r]) = Root(presented[r]))',
                    pc'[r] \in {"unindex", "unsession", "release", "done"},
                    verdict'[r] \in {"replay", "raced"},
                    seen'[r] # NoToken
             PROVE  (Root(stored) # Root(seen[r]))'
  BY DEF Revoked
<1>0. /\ issued \subseteq Tokens /\ Tokens \subseteq Calls /\ Logins \subseteq Tokens
      /\ NoToken \notin Tokens
  BY CallsAssumption DEF IInv, TypeOK, Calls, Tokens
<1>1. FaultsGrow
  BY DoneStays
<1>2. ASSUME stored' = NoToken PROVE (Root(stored) # Root(seen[r]))'
  BY <1>0, <1>2, NextRoots DEF RootsKnown, Root
<1>3. CASE stored' # NoToken
  <2>1. /\ pc[r] \in {"unindex", "unsession", "release", "done"}
        /\ verdict[r] \in {"replay", "raced"}
    <3>1. CASE UNCHANGED vars \/ LockExpires \/ RefreshKeyExpires \/ QuarantineEnds
      BY <3>1 DEF vars, LockExpires, RefreshKeyExpires, QuarantineEnds
    <3>2. ASSUME NEW c \in Calls, Moves(c), c # r
          PROVE  pc'[r] = pc[r] /\ verdict'[r] = verdict[r]
      BY <1>0, <3>2 DEF Moves, Frame, Turn, IInv, TypeOK, Tokens
    <3>3. ASSUME Moves(r)
          PROVE  /\ pc[r] \in {"unindex", "unsession", "release", "done"}
                 /\ verdict[r] \in {"replay", "raced"}
      BY <1>3, <3>3 DEF Moves, RevokesFirst
    <3>4. QED
      BY <3>1, <3>2, <3>3, NextMoves
  <2>2. /\ Reliable
        /\ faults'["resend"] = 0 => faults["resend"] = 0
    BY <1>1 DEF FaultsGrow
  <2>3. ASSUME seen'[r] = seen[r], presented'[r] = presented[r],
               \A t \in issued : root'[t] = root[t],
               Root(stored)' = Root(stored)
        PROVE  (Root(stored) # Root(seen[r]))'
    <3>1. seen[r] \in issued /\ presented[r] \in issued \cup {NoToken}
      BY <2>3 DEF RootsKnown
    <3>2. Root(seen[r])' = Root(seen[r]) /\ Root(presented[r])' = Root(presented[r])
      BY <2>3, <3>1 DEF Root
    <3>3. QED
      BY <2>1, <2>2, <2>3, <3>2 DEF Revoked
  <2>4. CASE Calm
    <3>1. stored' = stored /\ UNCHANGED <<seen, presented, root>>
      BY <1>3, <2>4 DEF Calm
    <3>2. QED
      BY <2>3, <3>1 DEF Root
  <2>5. ASSUME NEW q \in Refreshes, Begin(q) \/ Read(q)
        PROVE  (Root(stored) # Root(seen[r]))'
    <3>1. q # r /\ UNCHANGED <<stored, root>>
      BY <2>1, <2>5 DEF Begin, Read, redis, history
    <3>2. seen'[r] = seen[r] /\ presented'[r] = presented[r]
      BY <2>5, <3>1 DEF Begin, Read, IInv, TypeOK
    <3>3. QED
      BY <2>3, <3>1, <3>2 DEF Root
  <2>6. ASSUME NEW q \in Refreshes, Rotate(q)
        PROVE  (Root(stored) # Root(seen[r]))'
    <3>1. CASE stored = seen[q]
      <4>1. /\ stored' = q /\ UNCHANGED <<presented, seen>>
            /\ \A t \in issued : root'[t] = root[t]
            /\ root'[q] = root[presented[q]]
            /\ presented[q] \in issued /\ seen[q] = presented[q]
        BY <2>6, <3>1, RotateRoots
      <4>2. Root(stored)' = Root(stored)
        BY <1>0, <1>3, <3>1, <4>1 DEF Root
      <4>3. QED
        BY <2>3, <4>1, <4>2
    <3>2. CASE stored # seen[q]
      <4>1. UNCHANGED <<stored, root, seen, presented>>
        BY <2>6, <3>2 DEF Rotate, local
      <4>2. QED
        BY <2>3, <4>1 DEF Root
    <3>3. QED
      BY <3>1, <3>2
  <2>7. ASSUME NEW l \in Logins, StoreRefreshToken(l)
        PROVE  (Root(stored) # Root(seen[r]))'
    <3>1. /\ stored' = l /\ UNCHANGED <<presented, seen>>
          /\ \A t \in issued : root'[t] = root[t]
          /\ root'[l] = l
      BY <2>7, StoreRoots
    <3>2. seen[r] \in issued /\ seen[r] # NoToken
      BY <3>1 DEF RootsKnown
    <3>3. Root(stored)' = l /\ Root(seen[r])' = root[seen[r]]
      BY <1>0, <3>1, <3>2 DEF Root
    <3>4. pc[l] = "store"
      BY <2>7 DEF StoreRefreshToken
    <3>5. CASE faults["resend"] = 0
      <4>1. l \notin issued
        BY <3>4, <3>5 DEF Flow, LoginFlow
      <4>2. root[seen[r]] \in issued
        BY <3>2 DEF RootsKnown
      <4>3. QED
        BY <3>3, <4>1, <4>2
    <3>6. CASE (Root(seen[r]) = Root(presented[r]))'
      <4>1. presented[r] # NoToken /\ root'[presented[r]] = root[seen[r]]
        <5>1. root[seen[r]] # NoToken
          BY <1>0, <3>2 DEF RootsKnown
        <5>2. QED
          BY <3>1, <3>3, <3>6, <5>1 DEF Root
      <4>2. presented[r] \in issued /\ pc[root[presented[r]]] = "done"
        BY <4>1 DEF RootsKnown
      <4>3. pc[root[seen[r]]] = "done"
        BY <3>1, <4>1, <4>2
      <4>4. QED
        BY <3>3, <3>4, <4>3
    <3>7. QED
      BY <2>2, <3>5, <3>6
  <2>8. QED
    BY <2>4, <2>5, <2>6, <2>7, NextCalm
<1>4. QED
  BY <1>2, <1>3

-----------------------------------------------------------------------------
(* The theorems *)

\* The invariant holds at first.
LEMMA InitFlowInv == Init => FlowInv
<1> SUFFICES ASSUME Init PROVE FlowInv
  OBVIOUS
<1>1. IInv /\ Flow
  BY InitIInv, InitFlow
<1>2. RootsKnown
  BY DEF Init, RootsKnown
<1>3. ASSUME NEW r \in Refreshes PROVE Revoked(r)
  BY DEF Init, Revoked
<1>4. QED
  BY <1>1, <1>2, <1>3 DEF FlowInv

\* The invariant is inductive.
LEMMA NextFlowInv == FlowInv /\ [Next]_vars => FlowInv'
<1> SUFFICES ASSUME FlowInv, [Next]_vars PROVE FlowInv'
  OBVIOUS
<1>1. IInv /\ Flow /\ RootsKnown /\ \A r \in Refreshes : Revoked(r)
  BY DEF FlowInv
<1>2. IInv' /\ Flow' /\ RootsKnown'
  BY <1>1, NextIInv, NextFlow, NextRoots
<1>3. \A r \in Refreshes : Revoked(r)'
  BY <1>1, NextRevoked
<1>4. QED
  BY <1>2, <1>3 DEF FlowInv

\* Where a call is tells what it has done, and what it has revoked: the
\* invariant the next three theorems follow from.
THEOREM FlowInvHolds == Spec => []FlowInv
BY InitFlowInv, NextFlowInv, PTL DEF Spec

\* Two refreshes are never at work under the lock together, unless it expired
\* under one of them: a release deletes only the value of the call releasing.
THEOREM RefreshLockExcludes == Spec => []LockExcludes
<1>1. FlowInv => LockExcludes
  BY DEF FlowInv, Flow, RefreshFlow, LockExcludes
<1>2. QED
  BY <1>1, FlowInvHolds, PTL

\* Whatever audit emissions reject, a call that ends with an error leaves
\* neither of the tokens it signed live, however the calls interleave.
THEOREM RefreshFailureLeavesNothing == Spec => []FailureLeavesNothing
<1>1. FlowInv => FailureLeavesNothing
  BY DEF FlowInv, Flow, RefreshUndone, LoginUndone, FailureLeavesNothing, Tokens
<1>2. QED
  BY <1>1, FlowInvHolds, PTL

\* A refresh that detected a replay or a lost race returns only when no token
\* of the family it found is live, and none is revived, by any number of calls.
THEOREM RefreshReplayKillsFamily == Spec => []ReplayKillsFamily
<1>1. FlowInv => ReplayKillsFamily
  BY DEF FlowInv, Revoked, ReplayKillsFamily
<1>2. QED
  BY <1>1, FlowInvHolds, PTL

-----------------------------------------------------------------------------
(* The strengthening of HonestClientServed *)

\* Every token is presented at most once, nothing has failed, no logout has
\* begun, and one login at most.
Undisturbed ==
    /\ \A q, r \in Refreshes : presented[q] = presented[r] /\ q # r => presented[q] = NoToken
    /\ \A k \in AllFaultKinds : faults[k] = 0
    /\ \A o \in Logouts : pc[o] = "idle"
    /\ \A l, m \in Logins : pc[l] # "idle" /\ pc[m] # "idle" => l = m

AtWork == {"read", "rotate", "sign", "signed", "rotated", "release"}

\* Where a refresh that nothing has disturbed can be.
OnItsWay(r) ==
    /\ verdict[r] \in {"none", "ok"}
    /\ pc[r] \in AtWork \cup {"idle", "acquire", "done"}
    /\ pc[r] = "release" => verdict[r] = "ok"
    /\ pc[r] = "rotate" => r \notin won
    /\ issued = {} => pc[r] = "idle"

\* Whoever holds the lock is at work on it, and the only token that no refresh
\* has consumed is the stored one.
Smooth ==
    /\ ~ quarantined
    /\ lock # NoToken => pc[lock] \in AtWork
    /\ \A t \in issued : t = stored \/ \E w \in won : presented[w] = t
    /\ \A r \in Refreshes : OnItsWay(r)

\* The key is there, or has never been.
Live == stored # NoToken \/ issued = {}

Served ==
    /\ \A r \in Refreshes : pc[r] = "idle" => presented[r] = NoToken
    /\ Undisturbed /\ Live => Smooth

\* Where no fault was counted, nothing was rejected or lost.
LEMMA NoFaultStep ==
    ASSUME ControlOK, NEW c \in Calls, \A k \in AllFaultKinds : faults'[k] = 0
    PROVE  /\ \A k : ~ CountFault(k) /\ ~ Reject(c, k)
           /\ \A x : Reply(c, x) => Goto(c, x)
<1>1. ASSUME NEW k, CountFault(k) PROVE FALSE
  <2>1. faults'[k] # 0
    BY <1>1, CountFaultGrows
  <2>2. k \in AllFaultKinds
    BY <1>1, BoundsAssumption DEF CountFault
  <2>3. QED
    BY <2>1, <2>2
<1>2. QED
  BY <1>1 DEF Reject, Resend, Reply

\* A refresh that has not begun has presented nothing.
LEMMA IdleUnpresented ==
    ASSUME IInv, Flow, Served, [Next]_vars
    PROVE  \A r \in Refreshes : pc'[r] = "idle" => presented'[r] = NoToken
<1>0. Refreshes \subseteq Calls
  BY DEF Calls, Tokens
<1>1. ASSUME NEW r \in Refreshes, pc'[r] = "idle" PROVE pc[r] = "idle"
  <2>1. CASE UNCHANGED vars \/ LockExpires \/ RefreshKeyExpires \/ QuarantineEnds
    BY <1>1, <2>1 DEF vars, LockExpires, RefreshKeyExpires, QuarantineEnds
  <2>2. ASSUME NEW c \in Calls, Frame(c) PROVE pc[r] = "idle"
    BY <1>0, <1>1, <2>2 DEF Frame, Turn, IInv, TypeOK
  <2>3. QED
    BY <2>1, <2>2, NextMoves DEF Moves
<1>2. ASSUME NEW r \in Refreshes, pc'[r] = "idle" PROVE presented'[r] = presented[r]
  <2>1. ASSUME NEW q \in Refreshes, Begin(q) PROVE presented'[r] = presented[r]
    <3>1. pc'[q] # "idle"
      BY <1>0, <2>1 DEF Begin, Goto, Decide, IInv, TypeOK
    <3>2. QED
      BY <1>2, <2>1, <3>1 DEF Begin, IInv, TypeOK
  <2>2. ASSUME NEW q \in Refreshes, Read(q) \/ Rotate(q) PROVE presented'[r] = presented[r]
    BY <2>2 DEF Read, Rotate, local
  <2>3. ASSUME NEW l \in Logins, StoreRefreshToken(l) PROVE presented'[r] = presented[r]
    BY <2>3 DEF StoreRefreshToken, local
  <2>4. QED
    BY <2>1, <2>2, <2>3, NextCalm DEF Calm
<1>3. QED
  BY <1>1, <1>2 DEF Served

\* What is undisturbed now was so before.
LEMMA UndisturbedBefore ==
    ASSUME IInv, Flow, Served, [Next]_vars, Undisturbed'
    PROVE  Undisturbed
<1>0. /\ Refreshes \subseteq Calls /\ Logins \subseteq Calls /\ Logouts \subseteq Calls
  BY DEF Calls, Tokens
<1>1. \A k \in AllFaultKinds : faults[k] = 0
  <2>1. FaultsGrow
    BY DoneStays
  <2>2. QED
    BY <2>1 DEF FaultsGrow, Reliable, Undisturbed, AllFaultKinds
<1>2. \A c \in Calls : pc'[c] = "idle" => pc[c] = "idle"
  <2>1. CASE UNCHANGED vars \/ LockExpires \/ RefreshKeyExpires \/ QuarantineEnds
    BY <2>1 DEF vars, LockExpires, RefreshKeyExpires, QuarantineEnds
  <2>2. ASSUME NEW c \in Calls, Frame(c), NEW d \in Calls, pc'[d] = "idle"
        PROVE  pc[d] = "idle"
    BY <2>2 DEF Frame, Turn, IInv, TypeOK
  <2>3. QED
    BY <2>1, <2>2, NextMoves DEF Moves
<1>3. \A r \in Refreshes : presented[r] # NoToken => presented'[r] = presented[r]
  <2>1. ASSUME NEW q \in Refreshes, Begin(q), NEW r \in Refreshes, presented[r] # NoToken
        PROVE  presented'[r] = presented[r]
    <3>1. pc[q] = "idle" /\ r # q
      BY <2>1 DEF Begin, Served
    <3>2. QED
      BY <2>1, <3>1 DEF Begin, IInv, TypeOK
  <2>2. ASSUME NEW q \in Refreshes, Read(q) \/ Rotate(q) PROVE presented' = presented
    BY <2>2 DEF Read, Rotate, local
  <2>3. ASSUME NEW l \in Logins, StoreRefreshToken(l) PROVE presented' = presented
    BY <2>3 DEF StoreRefreshToken, local
  <2>4. QED
    BY <2>1, <2>2, <2>3, NextCalm DEF Calm
<1>4. \A q, r \in Refreshes : presented[q] = presented[r] /\ q # r => presented[q] = NoToken
  BY <1>3 DEF Undisturbed
<1>5. QED
  BY <1>0, <1>1, <1>2, <1>4 DEF Undisturbed

\* A family without any token: no refresh has begun.
LEMMA FirstStore ==
    ASSUME IInv, Flow, RootsKnown, Undisturbed, NEW l \in Logins, StoreRefreshToken(l)
    PROVE  issued = {}
<1>1. pc[l] = "store" /\ l \notin issued
  BY DEF StoreRefreshToken, Flow, LoginFlow, Undisturbed, AllFaultKinds
<1>2. ASSUME NEW m \in Logins \cap issued PROVE FALSE
  <2>1. pc[m] # "idle"
    BY DEF IInv, StoredOnce, NotYetStored
  <2>2. QED
    BY <1>1, <2>1 DEF Undisturbed
<1>3. QED
  BY <1>2 DEF RootsKnown

\* Undisturbed, a key that is there now was there, or had never been.
LEMMA LiveBefore ==
    ASSUME IInv, Flow, RootsKnown, Undisturbed, [Next]_vars, Live'
    PROVE  Live
<1>1. CASE Calm
  BY <1>1 DEF Calm, Live
<1>2. ASSUME NEW r \in Refreshes, Begin(r) \/ Read(r) PROVE Live
  BY <1>2 DEF Begin, Read, redis, history, Live
<1>3. ASSUME NEW r \in Refreshes, Rotate(r) PROVE Live
  <2>1. seen[r] \in Tokens /\ seen[r] # NoToken
    BY <1>3, CallsAssumption DEF Rotate, IInv, ConsumedIsGone, Calls
  <2>2. QED
    BY <1>3, <2>1 DEF Rotate, Live
<1>4. ASSUME NEW l \in Logins, StoreRefreshToken(l) PROVE Live
  BY <1>4, FirstStore DEF Live
<1>5. QED
  BY <1>1, <1>2, <1>3, <1>4, NextCalm

\* A refresh that has not consumed its token yet presents the stored one.
LEMMA PresentsStored ==
    ASSUME IInv, RootsKnown, Undisturbed, Smooth, NEW r \in Refreshes,
           pc[r] \in {"acquire", "read", "rotate"}, r \notin won
    PROVE  presented[r] = stored /\ stored \in issued
<1>1. presented[r] \in issued
  <2>1. presented[r] \in Tokens /\ presented[r] # NoToken
    BY CallsAssumption DEF IInv, ConsumedIsGone, Calls
  <2>2. QED
    BY <2>1 DEF RootsKnown
<1>2. NoToken \notin issued /\ won \subseteq Refreshes
  BY CallsAssumption DEF IInv, TypeOK, Calls
<1>3. ASSUME NEW w \in won, presented[w] = presented[r] PROVE FALSE
  BY <1>1, <1>2, <1>3 DEF Undisturbed
<1>4. QED
  BY <1>1, <1>3 DEF Smooth

\* While nothing disturbs it, a refresh at work under the lock is the only one
\* with a token left to present.
LEMMA LockFree ==
    ASSUME IInv, Flow, RootsKnown, Undisturbed, Smooth, NEW r \in Refreshes, pc[r] = "acquire"
    PROVE  lock = NoToken
<1> SUFFICES ASSUME lock # NoToken PROVE FALSE
  OBVIOUS
<1>1. lock \in Refreshes /\ pc[lock] \in AtWork
  BY DEF IInv, TypeOK, Smooth
<1>2. r \notin won
  BY DEF IInv, StoredOnce, NotYetRotated
<1>3. presented[r] = stored /\ stored \in issued /\ stored # NoToken
  BY <1>2, PresentsStored, CallsAssumption DEF IInv, TypeOK, Calls
<1>4. CASE pc[lock] \in {"read", "rotate"}
  <2>1. lock \notin won
    BY <1>1, <1>4 DEF IInv, StoredOnce, NotYetRotated, Smooth, OnItsWay
  <2>2. presented[lock] = stored
    BY <1>1, <1>4, <2>1, PresentsStored
  <2>3. QED
    BY <1>1, <1>3, <1>4, <2>2 DEF Undisturbed
<1>5. CASE pc[lock] \in {"sign", "signed", "rotated", "release"}
  <2>1. lock \in won
    BY <1>1, <1>5 DEF Flow, RefreshFlow, Smooth, OnItsWay
  <2>2. lock \in issued /\ ~ \E w \in won : presented[w] = lock
    <3>1. ASSUME NEW w \in won, presented[w] = lock PROVE FALSE
      <4>1. w \in Refreshes /\ presented[w] # NoToken
        BY <3>1 DEF IInv, TypeOK
      <4>2. pc[lock] = "done"
        BY <3>1, <4>1 DEF IInv, ConsumedIsGone
      <4>3. QED
        BY <1>5, <4>2
    <3>2. QED
      BY <2>1, <3>1 DEF IInv, StoredOnce
  <2>3. stored = lock
    BY <2>2 DEF Smooth
  <2>4. pc[presented[r]] = "done"
    BY <1>3 DEF IInv, ConsumedIsGone
  <2>5. QED
    BY <1>3, <1>5, <2>3, <2>4
<1>6. QED
  BY <1>1, <1>4, <1>5 DEF AtWork

\* A step that moves no refresh.
LEMMA ElsewhereSmooth ==
    ASSUME IInv, Smooth,
           \A r \in Refreshes : pc'[r] = pc[r] /\ verdict'[r] = verdict[r],
           UNCHANGED <<issued, won, presented>>, stored' = stored \/ issued = {},
           lock' \in {lock, NoToken}, quarantined' => quarantined
    PROVE  Smooth'
<1>1. lock \in Refreshes \cup {NoToken}
  BY DEF IInv, TypeOK
<1>2. QED
  BY <1>1 DEF Smooth, OnItsWay

\* A step of a refresh that consumes nothing.
LEMMA RefreshSmooth ==
    ASSUME IInv, Smooth, NEW r \in Refreshes, NEW x,
           pc' = [pc EXCEPT ![r] = x], verdict'[r] \in {"none", "ok"},
           \A q \in Refreshes \ {r} : verdict'[q] = verdict[q],
           x \in AtWork \cup {"acquire", "done"},
           x = "release" => verdict'[r] = "ok",
           x = "rotate" => r \notin won,
           UNCHANGED <<issued, won, stored, quarantined>>, issued # {},
           \A t \in Tokens, w \in won : presented[w] = t => presented'[w] = t,
           lock' = NoToken \/ (lock' = lock /\ lock # r) \/ (lock' = r /\ x \in AtWork)
    PROVE  Smooth'
<1>1. /\ \A q \in Refreshes : pc'[q] = IF q = r THEN x ELSE pc[q]
      /\ lock \in Refreshes \cup {NoToken} /\ won \subseteq Refreshes
      /\ issued \subseteq Tokens
  BY DEF IInv, TypeOK, Calls, Tokens
<1>2. (lock # NoToken => pc[lock] \in AtWork)'
  BY <1>1 DEF Smooth
<1>3. \A q \in Refreshes : OnItsWay(q)'
  BY <1>1 DEF Smooth, OnItsWay
<1>4. (\A t \in issued : t = stored \/ \E w \in won : presented[w] = t)'
  BY <1>1 DEF Smooth
<1>5. QED
  BY <1>2, <1>3, <1>4 DEF Smooth

\* A step of a refresh keeps the service smooth while nothing disturbs it.
LEMMA RefreshStepSmooth ==
    ASSUME IInv, Flow, RootsKnown, Undisturbed, Undisturbed', Smooth,
           NEW r \in Refreshes, Begin(r) \/ RefreshStep(r) \/ SignStep(r) \/ RevokeStep(r)
    PROVE  Smooth'
<1>0. ControlOK /\ r \in Calls /\ r \in Tokens /\ lock \in Refreshes \cup {NoToken}
  BY DEF IInv, TypeOK, ControlOK, Calls, Tokens
<1>1. OnItsWay(r)
  BY DEF Smooth
<1>2. \A k, x : ~ Reject(r, k) /\ (Reply(r, x) => Goto(r, x))
  BY <1>0, NoFaultStep DEF Undisturbed
<1>3. pc[r] # "idle" => issued # {}
  BY <1>1 DEF OnItsWay
<1>4. CASE Begin(r)
  <2>1. PICK t \in Delivered : presented' = [presented EXCEPT ![r] = t]
    BY <1>4 DEF Begin
  <2>2. t \in issued
    <3>1. t \in Tokens /\ verdict[t] = "ok"
      BY DEF Delivered
    <3>2. QED
      BY <3>1 DEF IInv, StoredOnce, Flow, RefreshFlow, LoginFlow, Tokens
  <2>3. /\ pc[r] = "idle" /\ ~ quarantined /\ Goto(r, "acquire")
        /\ UNCHANGED <<stored, lock, quarantined, issued, won>>
    BY <1>4 DEF Begin, redis, Smooth
  <2>4. r \notin won /\ lock # r
    BY <1>0, <2>3, CallsAssumption
    DEF IInv, StoredOnce, NotYetRotated, Smooth, AtWork, Calls
  <2>5. \A w \in won : presented'[w] = presented[w]
    BY <2>1, <2>4 DEF IInv, TypeOK
  <2>6. QED
    BY <1>0, <1>1, <2>2, <2>3, <2>4, <2>5, RefreshSmooth DEF Goto, OnItsWay
<1>5. CASE Acquire(r)
  <2>1. pc[r] = "acquire"
    BY <1>5 DEF Acquire
  <2>2. lock = NoToken
    BY <2>1, LockFree
  <2>3. lock' = r /\ Goto(r, "read")
    BY <1>2, <1>5, <2>2 DEF Acquire
  <2>4. QED
    BY <1>1, <1>3, <1>5, <2>1, <2>3, RefreshSmooth DEF Acquire, Goto, OnItsWay, AtWork, local, history
<1>6. CASE Read(r)
  <2>1. pc[r] = "read" /\ r \notin won
    BY <1>6 DEF Read, IInv, StoredOnce, NotYetRotated
  <2>2. stored = presented[r]
    BY <2>1, PresentsStored
  <2>3. Goto(r, "rotate") /\ UNCHANGED <<stored, lock, quarantined, issued, won, presented>>
    BY <1>6, <2>2 DEF Read, redis, history
  <2>4. QED
    BY <1>1, <1>3, <2>1, <2>3, RefreshSmooth DEF Goto, OnItsWay, AtWork
<1>7. CASE Rotate(r)
  <2>1. pc[r] = "rotate" /\ r \notin won /\ seen[r] = presented[r]
    BY <1>1, <1>7 DEF Rotate, OnItsWay, IInv, ConsumedIsGone
  <2>2. stored = seen[r]
    BY <2>1, PresentsStored
  <2>3. /\ Goto(r, "sign") /\ stored' = r /\ issued' = issued \cup {r} /\ won' = won \cup {r}
        /\ UNCHANGED <<lock, quarantined, presented>>
    BY <1>2, <1>7, <2>2 DEF Rotate, Rotated, local
  <2>4. /\ \A q \in Refreshes : pc'[q] = IF q = r THEN "sign" ELSE pc[q]
        /\ verdict' = verdict
    BY <2>3 DEF Goto, IInv, TypeOK, Calls, Tokens
  <2>5. (lock # NoToken => pc[lock] \in AtWork)'
    BY <1>0, <2>3, <2>4 DEF Smooth, AtWork
  <2>6. (\A t \in issued : t = stored \/ \E w \in won : presented[w] = t)'
    BY <2>1, <2>2, <2>3 DEF Smooth
  <2>7. \A q \in Refreshes : OnItsWay(q)'
    BY <1>3, <2>1, <2>3, <2>4 DEF Smooth, OnItsWay, AtWork
  <2>8. QED
    BY <2>3, <2>5, <2>6, <2>7 DEF Smooth
<1>8. CASE ReportRisk(r) \/ Alert(r) \/ RevokeStep(r) \/ UndoSession(r)
  BY <1>1, <1>8
  DEF ReportRisk, Alert, RevokeStep, DeleteRefreshKey, RemoveFromIndex, RevokeSessionField,
      UndoSession, OnItsWay, AtWork
<1>9. CASE AuditRotated(r)
  <2>1. /\ Decide(r, "ok", "release") /\ pc[r] = "rotated"
        /\ UNCHANGED <<stored, lock, quarantined, issued, won, presented>>
    BY <1>2, <1>9 DEF AuditRotated, redis, local, history
  <2>2. \A q \in Refreshes : verdict'[q] = IF q = r THEN "ok" ELSE verdict[q]
    BY <2>1 DEF Decide, IInv, TypeOK, Calls, Tokens
  <2>3. QED
    BY <1>1, <1>3, <2>1, <2>2, RefreshSmooth DEF Decide, OnItsWay, AtWork
<1>10. CASE Release(r)
  <2>1. /\ Goto(r, "done") /\ pc[r] = "release"
        /\ lock' = IF lock = r THEN NoToken ELSE lock
        /\ UNCHANGED <<stored, quarantined, issued, won, presented>>
    BY <1>2, <1>10 DEF Release, local, history
  <2>2. QED
    BY <1>1, <1>3, <2>1, RefreshSmooth DEF Goto, OnItsWay, AtWork
<1>11. CASE StoreSession(r) \/ AuditSigned(r)
  <2>1. /\ pc[r] \in {"sign", "signed"} /\ (Goto(r, "signed") \/ Goto(r, "rotated"))
        /\ UNCHANGED <<stored, lock, quarantined, issued, won, presented>>
    BY <1>2, <1>11 DEF StoreSession, AuditSigned, redis, local, history
  <2>2. QED
    BY <1>1, <1>3, <2>1, RefreshSmooth DEF Goto, OnItsWay, AtWork
<1>12. QED
  BY <1>4, <1>5, <1>6, <1>7, <1>8, <1>9, <1>10, <1>11 DEF RefreshStep, SignStep

\* So do the steps of other calls that store nothing.
LEMMA ElsewhereStepSmooth ==
    ASSUME IInv, Flow, RootsKnown, Undisturbed, Live', Smooth, NEW c \in Calls \ Refreshes,
           \/ BeginLogin(c) \/ BeginLogout(c) \/ AuditLogout(c)
           \/ TrackFamily(c) \/ DeleteUntracked(c) \/ AuditIssued(c) \/ RollbackLogin(c)
           \/ SignStep(c) \/ RevokeStep(c),
           Moves(c)
    PROVE  Smooth'
<1>1. \A r \in Refreshes : pc'[r] = pc[r] /\ verdict'[r] = verdict[r]
  BY DEF Moves, Frame, Turn, IInv, TypeOK, Calls, Tokens
<1>2. /\ UNCHANGED <<issued, won, presented, lock, quarantined>>
      /\ stored' \in {stored, NoToken}
  BY DEF BeginLogin, BeginLogout, AuditLogout, TrackFamily, DeleteUntracked, AuditIssued,
         RollbackLogin, SignStep, StoreSession, AuditSigned, UndoSession, RevokeStep,
         DeleteRefreshKey, RemoveFromIndex, RevokeSessionField, redis, local, history
<1>3. stored' = stored \/ issued = {}
  BY <1>2 DEF Live
<1>4. QED
  BY <1>1, <1>2, <1>3, ElsewhereSmooth

\* So does the login's SET.
LEMMA StoreSmooth ==
    ASSUME IInv, Flow, RootsKnown, Undisturbed, Smooth, NEW l \in Logins,
           StoreRefreshToken(l), Moves(l)
    PROVE  Smooth'
<1>1. issued = {} /\ won = {}
  BY FirstStore DEF IInv, StoredOnce
<1>2. \A r \in Refreshes : pc'[r] = pc[r] /\ verdict'[r] = verdict[r]
  BY CallsAssumption DEF Moves, Frame, Turn, IInv, TypeOK, Calls, Tokens
<1>3. /\ stored' = l /\ issued' = issued \cup {l}
      /\ UNCHANGED <<won, lock, quarantined>>
  BY DEF StoreRefreshToken
<1>4. lock \in Refreshes \cup {NoToken}
  BY DEF IInv, TypeOK
<1>5. QED
  BY <1>1, <1>2, <1>3, <1>4 DEF Smooth, OnItsWay

\* So do the expiries, if the key stays.
LEMMA ExpirySmooth ==
    ASSUME IInv, Smooth, Live', LockExpires \/ RefreshKeyExpires \/ QuarantineEnds
    PROVE  Smooth'
<1>1. /\ UNCHANGED <<pc, verdict, issued, won, presented>>
      /\ lock' \in {lock, NoToken}
      /\ stored' \in {stored, NoToken}
      /\ quarantined' => quarantined
  BY DEF LockExpires, RefreshKeyExpires, QuarantineEnds, local, history
<1>2. stored' = stored \/ issued = {}
  BY <1>1 DEF Live
<1>3. QED
  BY <1>1, <1>2, ElsewhereSmooth

\* As long as the client is honest, every step keeps the service smooth.
LEMMA NextServed == FlowInv /\ Served /\ [Next]_vars => Served'
<1> SUFFICES ASSUME FlowInv, Served, [Next]_vars PROVE Served'
  OBVIOUS
<1>0. /\ IInv /\ Flow /\ RootsKnown
      /\ Logins \subseteq Calls \ Refreshes /\ Logouts \subseteq Calls \ Refreshes
      /\ Refreshes \subseteq Tokens /\ Tokens \subseteq Calls
  BY CallsAssumption DEF FlowInv, Calls, Tokens
<1>1. \A r \in Refreshes : pc'[r] = "idle" => presented'[r] = NoToken
  BY <1>0, IdleUnpresented
<1>2. ASSUME Undisturbed', Live' PROVE Smooth'
  <2>0. Undisturbed
    BY <1>0, <1>2, UndisturbedBefore
  <2>1. Smooth
    BY <1>0, <1>2, <2>0, LiveBefore DEF Served
  <2>2. CASE UNCHANGED vars
    BY <2>1, <2>2 DEF vars, redis, local, history, Smooth, OnItsWay
  <2>3. CASE LockExpires \/ RefreshKeyExpires \/ QuarantineEnds
    BY <1>0, <1>2, <2>1, <2>3, ExpirySmooth
  <2>4. ASSUME NEW r \in Refreshes, Begin(r) \/ RefreshStep(r) \/ SignStep(r) \/ RevokeStep(r)
        PROVE  Smooth'
    BY <1>0, <1>2, <2>0, <2>1, <2>4, RefreshStepSmooth
  <2>5. ASSUME NEW c \in Calls, CommandFails(c) \/ Crash(c) PROVE FALSE
    <3>1. ControlOK
      BY <1>0 DEF IInv, TypeOK, ControlOK
    <3>2. QED
      BY <1>2, <2>5, <3>1, NoFaultStep DEF CommandFails, Crash, Undisturbed
  <2>6. ASSUME NEW l \in Logins, BeginLogin(l) \/ LoginStep(l) PROVE Smooth'
    <3>1. Moves(l) /\ l \in Calls \ Refreshes
      BY <1>0, <2>6, LoginKeepsFlow DEF Moves
    <3>2. CASE StoreRefreshToken(l)
      BY <1>0, <2>0, <2>1, <3>1, <3>2, StoreSmooth
    <3>3. CASE ~ StoreRefreshToken(l)
      BY <1>0, <1>2, <2>0, <2>1, <2>6, <3>1, <3>3, ElsewhereStepSmooth DEF LoginStep
    <3>4. QED
      BY <3>2, <3>3
  <2>7. ASSUME NEW o \in Logouts, BeginLogout(o) \/ AuditLogout(o) PROVE Smooth'
    <3>1. Moves(o) /\ o \in Calls \ Refreshes
      BY <1>0, <2>7, LogoutKeepsFlow DEF Moves
    <3>2. QED
      BY <1>0, <1>2, <2>0, <2>1, <2>7, <3>1, ElsewhereStepSmooth
  <2>8. ASSUME NEW c \in Calls \ Refreshes, (c \in Tokens /\ SignStep(c)) \/ RevokeStep(c)
        PROVE  Smooth'
    <3>1. Moves(c)
      BY <1>0, <2>8, SignKeepsFlow, RevokeKeepsFlow DEF Moves
    <3>2. QED
      BY <1>0, <1>2, <2>0, <2>1, <2>8, <3>1, ElsewhereStepSmooth
  <2>9. ASSUME NEW c \in Calls, Proceed(c) PROVE Smooth'
    BY <1>0, <2>4, <2>6, <2>7, <2>8, <2>9 DEF Proceed
  <2>10. QED
    BY <2>2, <2>3, <2>4, <2>5, <2>6, <2>7, <2>9 DEF Next
<1>3. QED
  BY <1>1, <1>2 DEF Served

\* The service is smooth at first.
LEMMA InitServed == Init => Served
<1> SUFFICES ASSUME Init PROVE Served
  OBVIOUS
<1>1. \A r \in Refreshes : pc[r] = "idle" /\ verdict[r] = "none" /\ presented[r] = NoToken
  BY DEF Init, Calls, Tokens
<1>2. QED
  BY <1>1 DEF Init, Served, Smooth, OnItsWay, AtWork

\* As long as nothing but honest refreshes touches the family, every refresh is
\* accepted, with any number of them in flight and even when locks expire: the
\* one token a client has left to present is the one stored.
THEOREM HonestClientAlwaysServed == Spec => []HonestClientServed
<1>1. Spec => []Served
  BY InitServed, NextServed, FlowInvHolds, PTL DEF Spec
<1>2. Served => HonestClientServed
  BY DEF Served, Undisturbed, Live, Smooth, OnItsWay, HonestClientServed
<1>3. QED
  BY <1>1, <1>2, PTL
=============================================================================
