---------------------------- MODULE UserSessions ----------------------------
(***************************************************************************)
(* All the sessions of ONE user: logins, refreshes, logouts and            *)
(* revokeAllSessions interleave over the user's three kinds of key, each   *)
(* with a TTL of its own: a refresh key per session, the hash that indexes *)
(* the refresh families, and the hash of access-session records.           *)
(*                                                                         *)
(* RefreshService looks at one session and at every failure; here calls    *)
(* do not fail, except revokeAllSessions, and time passes.  The refresh    *)
(* lock is left out: it can expire at any moment, so it excludes no        *)
(* interleaving of the commands modelled here.  Tokens are named by the    *)
(* call that signed them, as in RefreshService.                            *)
(***************************************************************************)
EXTENDS Naturals, FiniteSets

CONSTANTS
    Sessions,      \* session ids of the user
    Logins,        \* calls of issueTokens
    Refreshes,     \* calls of RefreshService.refresh
    Logouts,       \* calls of revokeSession
    RevokeAlls,    \* calls of revokeAllSessions
    NoToken,       \* no refresh key
    NoSession,     \* a call that has not begun
    AccessLife,    \* TTL of access tokens and of their records
    RefreshLife,   \* TTL of refresh keys and of the index
    MaxFallback,   \* MAX_FALLBACK_SESSION_IDS
    Rotates,       \* rotateRefreshTokens
    Prompt         \* does time stand still while a call is in flight?

Tokens == Logins \cup Refreshes
Calls  == Tokens \cup Logouts

ASSUME UserAssumption ==
    /\ NoToken \notin Tokens
    /\ NoSession \notin Sessions
    /\ Logins \cap Refreshes = {}
    /\ Tokens \cap Logouts = {}
    /\ Calls \cap RevokeAlls = {}

ASSUME LifeAssumption ==
    /\ AccessLife \in Nat \ {0}
    /\ RefreshLife \in Nat \ {0}
    /\ AccessLife <= RefreshLife
    /\ MaxFallback \in Nat
    /\ Rotates \in BOOLEAN
    /\ Prompt \in BOOLEAN

VARIABLES
    stored,      \* the fingerprint at each session's refresh key
    life,        \* that key's remaining TTL, 0 when it is absent
    index,       \* fields of the refresh-family hash
    indexLife,   \* its remaining TTL; Forever until the first EXPIRE
    records,     \* fields of the access-session hash
    recordLife,  \* its remaining TTL
    pc,          \* the await each call is suspended at
    of,          \* the session a call is about
    presented,   \* the refresh token a refresh was given
    found,       \* the sessions a revokeAllSessions set out to revoke
    left,        \* those whose refresh key it has not deleted yet
    issued,      \* history: refresh tokens that were stored
    root,        \* history: the login a token descends from
    accessLife,  \* history: remaining life of a session's newest access token, 0 if revoked
    lapsed,      \* history: sessions whose record expired between HSET and EXPIRE
    before       \* history: logins that had returned when a revokeAllSessions began

families == <<stored, life, issued, root>>
indexed  == <<index, indexLife>>
sessions == <<records, recordLife, accessLife, lapsed>>
sweep    == <<found, left, before>>
vars     == <<families, indexed, sessions, pc, of, presented, sweep>>

-----------------------------------------------------------------------------

\* A key without a TTL.
Forever == RefreshLife + 1

Labels == {"idle", "hset", "expire", "set", "track", "renew", "rotate",
           "del", "unindex", "unrecord", "done"}

SweepLabels == {"idle", "families", "batch", "drop", "done", "failed"}

TypeOK ==
    /\ stored \in [Sessions -> Tokens \cup {NoToken}]
    /\ life \in [Sessions -> 0..RefreshLife]
    /\ \A s \in Sessions : life[s] = 0 <=> stored[s] = NoToken
    /\ index \subseteq Sessions
    /\ indexLife \in 0..Forever
    /\ records \subseteq Sessions
    /\ recordLife \in 0..AccessLife \cup {Forever}
    /\ index = {} <=> indexLife = 0
    /\ records = {} <=> recordLife = 0
    /\ pc \in [Calls \cup RevokeAlls -> Labels \cup SweepLabels]
    /\ of \in [Calls -> Sessions \cup {NoSession}]
    /\ presented \in [Refreshes -> Tokens \cup {NoToken}]
    /\ found \in [RevokeAlls -> SUBSET Sessions]
    /\ left \in [RevokeAlls -> SUBSET Sessions]
    /\ issued \subseteq Tokens
    /\ root \in [Tokens -> Logins \cup {NoToken}]
    /\ accessLife \in [Sessions -> 0..AccessLife]
    /\ lapsed \subseteq Sessions
    /\ before \in [RevokeAlls -> SUBSET Logins]

Init ==
    /\ stored = [s \in Sessions |-> NoToken]
    /\ life = [s \in Sessions |-> 0]
    /\ index = {}
    /\ indexLife = 0
    /\ records = {}
    /\ recordLife = 0
    /\ pc = [c \in Calls \cup RevokeAlls |-> "idle"]
    /\ of = [c \in Calls |-> NoSession]
    /\ presented = [r \in Refreshes |-> NoToken]
    /\ found = [a \in RevokeAlls |-> {}]
    /\ left = [a \in RevokeAlls |-> {}]
    /\ issued = {}
    /\ root = [t \in Tokens |-> NoToken]
    /\ accessLife = [s \in Sessions |-> 0]
    /\ lapsed = {}
    /\ before = [a \in RevokeAlls |-> {}]

Goto(c, label) == pc' = [pc EXCEPT ![c] = label]

Delivered == {t \in issued : pc[t] = "done"}

\* DEL and HDEL remove a hash with its last field; HSET creates it without a TTL.
LifeWithout(hash, ttl, s) == IF hash \subseteq {s} THEN 0 ELSE ttl
LifeWith(hash, ttl)       == IF hash = {} THEN Forever ELSE ttl
LifeRenewed(hash, ttl)    == IF hash = {} THEN 0 ELSE ttl

-----------------------------------------------------------------------------
(* SessionStore.upsert, reached through signToken *)

\* HSET of call c's new access token into session s.
StoreRecord(c, s) ==
    /\ records' = records \cup {s}
    /\ recordLife' = LifeWith(records, recordLife)
    /\ accessLife' = [accessLife EXCEPT ![s] = AccessLife]
    /\ lapsed' = lapsed \ {s}
    /\ Goto(c, "expire")

\* Seeded fault: a rotated session's record keeps the TTL it has.
ExpireAtLoginOnly(c) ==
    /\ pc[c] = "expire"
    /\ recordLife' = IF c \in Logins THEN LifeRenewed(records, AccessLife) ELSE recordLife
    /\ Goto(c, IF c \in Logins THEN "set" ELSE "done")
    /\ UNCHANGED <<families, indexed, records, accessLife, lapsed, of, presented, sweep>>

\* EXPIRE of the whole hash, for every session of the user.
ExpireRecords(c) ==
    /\ pc[c] = "expire"
    /\ recordLife' = LifeRenewed(records, AccessLife)
    /\ Goto(c, IF c \in Logins THEN "set" ELSE "done")
    /\ UNCHANGED <<families, indexed, records, accessLife, lapsed, of, presented, sweep>>

-----------------------------------------------------------------------------
(* issueTokens: signToken, then generateRefreshToken *)

BeginLogin(l) ==
    /\ pc[l] = "idle"
    /\ \E s \in Sessions : of' = [of EXCEPT ![l] = s] /\ StoreRecord(l, s)
    /\ UNCHANGED <<families, indexed, presented, sweep>>

StoreRefreshToken(l) ==
    /\ pc[l] = "set"
    /\ stored' = [stored EXCEPT ![of[l]] = l]
    /\ life' = [life EXCEPT ![of[l]] = RefreshLife]
    /\ issued' = issued \cup {l}
    /\ root' = [root EXCEPT ![l] = l]
    /\ Goto(l, "track")
    /\ UNCHANGED <<indexed, sessions, of, presented, sweep>>

TrackFamily(l) ==
    /\ pc[l] = "track"
    /\ index' = index \cup {of[l]}
    /\ indexLife' = LifeWith(index, indexLife)
    /\ Goto(l, "renew")
    /\ UNCHANGED <<families, sessions, of, presented, sweep>>

RenewIndex(l) ==
    /\ pc[l] = "renew"
    /\ indexLife' = LifeRenewed(index, RefreshLife)
    /\ Goto(l, "done")
    /\ UNCHANGED <<families, index, sessions, of, presented, sweep>>

-----------------------------------------------------------------------------
(* RefreshService.refresh *)

\* The token presented decides the session; the stored fingerprint is read.
BeginRefresh(r) ==
    /\ pc[r] = "idle"
    /\ \E t \in Delivered :
          /\ presented' = [presented EXCEPT ![r] = t]
          /\ of' = [of EXCEPT ![r] = of[t]]
          /\ Goto(r, IF stored[of[t]] # t THEN "del"
                     ELSE IF Rotates THEN "rotate" ELSE "hset")
    /\ UNCHANGED <<families, indexed, sessions, sweep>>

\* What a successful compare-and-set changes.
Rotated(r) ==
    /\ stored' = [stored EXCEPT ![of[r]] = r]
    /\ life' = [life EXCEPT ![of[r]] = RefreshLife]
    /\ issued' = issued \cup {r}
    /\ root' = [root EXCEPT ![r] = root[presented[r]]]
    /\ Goto(r, "hset")

\* Seeded fault: the script writes the key without its TTL.
RotateWithoutTtl(r) ==
    /\ pc[r] = "rotate"
    /\ stored[of[r]] = presented[r]
    /\ stored' = [stored EXCEPT ![of[r]] = r]
    /\ life' = [life EXCEPT ![of[r]] = Forever]
    /\ issued' = issued \cup {r}
    /\ root' = [root EXCEPT ![r] = root[presented[r]]]
    /\ Goto(r, "hset")
    /\ UNCHANGED <<indexed, sessions, of, presented, sweep>>

\* Seeded fault: SET in place of the compare-and-set.
RotateBySet(r) ==
    /\ pc[r] = "rotate"
    /\ Rotated(r)
    /\ UNCHANGED <<indexed, sessions, of, presented, sweep>>

\* The compare-and-set renews the refresh key's TTL, and no other's.
Rotate(r) ==
    /\ pc[r] = "rotate"
    /\ \/ stored[of[r]] = presented[r] /\ Rotated(r)
       \/ stored[of[r]] # presented[r] /\ Goto(r, "del") /\ UNCHANGED families
    /\ UNCHANGED <<indexed, sessions, of, presented, sweep>>

\* The access token signer of a refresh.
SignAccessToken(r) ==
    /\ pc[r] = "hset"
    /\ StoreRecord(r, of[r])
    /\ UNCHANGED <<families, indexed, of, presented, sweep>>

-----------------------------------------------------------------------------
(* revokeRefreshFamily: a logout, a replay or a lost race *)

\* DEL of session s's refresh key.
DeleteRefreshKey(c, s) ==
    /\ stored' = [stored EXCEPT ![s] = NoToken]
    /\ life' = [life EXCEPT ![s] = 0]
    /\ Goto(c, "unindex")
    /\ UNCHANGED <<issued, root, indexed, sessions, presented, sweep>>

BeginLogout(o) ==
    /\ pc[o] = "idle"
    /\ \E s \in Sessions : of' = [of EXCEPT ![o] = s] /\ DeleteRefreshKey(o, s)

EndFamily(r) ==
    /\ pc[r] = "del"
    /\ DeleteRefreshKey(r, of[r])
    /\ UNCHANGED of

RemoveFromIndex(c) ==
    /\ pc[c] = "unindex"
    /\ index' = index \ {of[c]}
    /\ indexLife' = LifeWithout(index, indexLife, of[c])
    /\ Goto(c, "unrecord")
    /\ UNCHANGED <<families, sessions, of, presented, sweep>>

RemoveRecord(c) ==
    /\ pc[c] = "unrecord"
    /\ records' = records \ {of[c]}
    /\ recordLife' = LifeWithout(records, recordLife, of[c])
    /\ accessLife' = [accessLife EXCEPT ![of[c]] = 0]
    /\ Goto(c, "done")
    /\ UNCHANGED <<families, indexed, lapsed, of, presented, sweep>>

-----------------------------------------------------------------------------
(* revokeAllSessions: list the records, read the index, delete *)

ListSessions(a) ==
    /\ pc[a] = "idle"
    /\ found' = [found EXCEPT ![a] = records]
    /\ before' = [before EXCEPT ![a] = {l \in Logins : pc[l] = "done"}]
    /\ Goto(a, IF Cardinality(records) > MaxFallback THEN "failed" ELSE "families")
    /\ UNCHANGED <<families, indexed, sessions, of, presented, left>>

ReadIndex(a) ==
    /\ pc[a] = "families"
    /\ found' = [found EXCEPT ![a] = @ \cup index]
    /\ left' = [left EXCEPT ![a] = found'[a]]
    /\ Goto(a, "batch")
    /\ UNCHANGED <<families, indexed, sessions, of, presented, before>>

\* The deletions of a batch run concurrently, and those in flight go on when
\* one of them rejects.
DeleteFamily(a, s) ==
    /\ pc[a] \in {"batch", "failed"}
    /\ s \in left[a]
    /\ stored' = [stored EXCEPT ![s] = NoToken]
    /\ life' = [life EXCEPT ![s] = 0]
    /\ left' = [left EXCEPT ![a] = @ \ {s}]
    /\ UNCHANGED <<issued, root, indexed, sessions, pc, of, presented, found, before>>

\* Seeded fault: the deletions are not awaited.
DropIndexEarly(a) ==
    /\ pc[a] = "batch"
    /\ index' = {}
    /\ indexLife' = 0
    /\ Goto(a, "drop")
    /\ UNCHANGED <<families, sessions, of, presented, sweep>>

DropIndex(a) ==
    /\ pc[a] = "batch"
    /\ left[a] = {}
    /\ index' = {}
    /\ indexLife' = 0
    /\ Goto(a, "drop")
    /\ UNCHANGED <<families, sessions, of, presented, sweep>>

DropRecords(a) ==
    /\ pc[a] = "drop"
    /\ records' = {}
    /\ recordLife' = 0
    /\ accessLife' = [s \in Sessions |-> 0]
    /\ Goto(a, "done")
    /\ UNCHANGED <<families, indexed, lapsed, of, presented, sweep>>

\* One of its commands rejects: revokeAllSessions throws and does not go on.
SweepFails(a) ==
    /\ pc[a] \in {"families", "batch", "drop"}
    /\ Goto(a, "failed")
    /\ UNCHANGED <<families, indexed, sessions, of, presented, sweep>>

-----------------------------------------------------------------------------
(* Time *)

Aged(ttl) == IF ttl \in {0, Forever} THEN ttl ELSE ttl - 1

\* One unit of time passes, and Redis drops the keys whose TTL it ends.
Tick ==
    /\ Prompt => \A c \in Calls \cup RevokeAlls : pc[c] \in {"idle", "done", "failed"}
    /\ life' = [s \in Sessions |-> Aged(life[s])]
    /\ stored' = [s \in Sessions |-> IF life'[s] = 0 THEN NoToken ELSE stored[s]]
    /\ indexLife' = Aged(indexLife)
    /\ index' = IF indexLife' = 0 THEN {} ELSE index
    /\ recordLife' = Aged(recordLife)
    /\ records' = IF recordLife' = 0 THEN {} ELSE records
    /\ accessLife' = [s \in Sessions |-> Aged(accessLife[s])]
    /\ lapsed' = IF recordLife' = 0
                 THEN lapsed \cup {of[c] : c \in {d \in Tokens : pc[d] = "expire"}}
                 ELSE lapsed
    /\ UNCHANGED <<issued, root, pc, of, presented, sweep>>

-----------------------------------------------------------------------------

LoginStep(l) ==
    BeginLogin(l) \/ StoreRefreshToken(l) \/ TrackFamily(l) \/ RenewIndex(l)

RefreshStep(r) ==
    BeginRefresh(r) \/ Rotate(r) \/ SignAccessToken(r) \/ EndFamily(r)

RevokeStep(c) == RemoveFromIndex(c) \/ RemoveRecord(c)

SweepStep(a) ==
    \/ ListSessions(a) \/ ReadIndex(a) \/ DropIndex(a) \/ DropRecords(a)
    \/ \E s \in Sessions : DeleteFamily(a, s)

Next ==
    \/ \E l \in Logins : LoginStep(l)
    \/ \E r \in Refreshes : RefreshStep(r)
    \/ \E t \in Tokens : ExpireRecords(t)
    \/ \E o \in Logouts : BeginLogout(o)
    \/ \E c \in Calls : RevokeStep(c)
    \/ \E a \in RevokeAlls : SweepStep(a) \/ SweepFails(a)
    \/ Tick

Spec == Init /\ [][Next]_vars

-----------------------------------------------------------------------------
(* Properties *)

\* No refresh token of the session descends from a login that had returned
\* when the revokeAllSessions began.
Ended(s, a) == stored[s] # NoToken => root[stored[s]] \notin before[a]

\* revokeAllSessions ends every family it found, for good: no refresh that was
\* in flight brings one back, and it does not forget the index (by which it
\* could be repeated when a deletion fails) while one of them may be alive.
RevokeAllCovers ==
    \A a \in RevokeAlls : \A s \in found[a] :
        \/ pc[a] \in {"drop", "done"}
        \/ pc[a] = "batch" /\ s \notin left[a]
        => Ended(s, a)

\* "Stateful verification requires the token fingerprint to match the current
\* Redis session": an access token that is neither expired nor revoked still
\* has its record, though all the user's records share one TTL, unless the
\* hash expired between the two commands that wrote the record.
RecordOutlivesToken ==
    \A s \in Sessions : accessLife[s] > 0 => s \in records \cup lapsed

\* Each session implements the abstract token family: whatever is done to the
\* user's other sessions or to all of them, a token is live at most once and
\* only a login revives a revoked family.
Family(s) == INSTANCE TokenFamily
    WITH Token <- Tokens, live <- stored[s],
         used <- {t \in issued : of[t] = s},
         rotations <- {<<presented[r], r>> : r \in {q \in Refreshes \cap issued : of[q] = s}}

ImplementsFamilies ==
    /\ \A s \in Sessions : Family(s)!FamilyInit
    /\ [][\A s \in Sessions : [Family(s)!FamilyNext]_(Family(s)!familyVars)]_vars

\* "Per-user refresh-family indexes so user-wide revocation also removes
\* refresh sessions whose access-token records have expired": when
\* revokeAllSessions has returned, no refresh token of an earlier login is live.
RevokeAllEndsEverySession ==
    \A a \in RevokeAlls : pc[a] = "done" => \A s \in Sessions : Ended(s, a)

=============================================================================
