------------------------- MODULE UserSessions_proofs -------------------------
(***************************************************************************)
(* For every number of sessions and calls and every pair of lifetimes: the *)
(* invariants that UserSessions states, and its implementation of one      *)
(* abstract token family per session.                                      *)
(***************************************************************************)
EXTENDS UserSessions, TLAPS

-----------------------------------------------------------------------------
(* The strengthening of the invariants *)

\* A call that has begun is about a session; a refresh that has begun presented
\* a token that was issued.
CallsBegun ==
    /\ \A c \in Calls : pc[c] # "idle" => of[c] \in Sessions
    /\ \A r \in Refreshes : pc[r] # "idle" => presented[r] \in issued

\* A token is issued by one step of its call, and only issued tokens are stored.
IssuedOnce ==
    /\ \A l \in Logins : pc[l] \in {"idle", "expire", "set"} => l \notin issued
    /\ \A r \in Refreshes : pc[r] \in {"idle", "rotate"} => r \notin issued
    /\ \A s \in Sessions : stored[s] # NoToken => stored[s] \in issued

\* The logins a sweep is to end had returned when it began.
BeforeDone == \A a \in RevokeAlls : \A l \in before[a] : pc[l] = "done"

\* The shared TTL of the records covers each of them, or the EXPIRE that will
\* renew it is on its way.
Covered(s) ==
    accessLife[s] > 0 /\ s \notin lapsed =>
        /\ s \in records
        /\ \/ recordLife >= accessLife[s]
           \/ \E c \in Tokens : pc[c] = "expire" /\ of[c] = s

UInv ==
    /\ TypeOK
    /\ CallsBegun
    /\ IssuedOnce
    /\ BeforeDone
    /\ RevokeAllCovers
    /\ \A s \in Sessions : Covered(s)


-----------------------------------------------------------------------------
(* Types *)

StoreTypes ==
    /\ stored \in [Sessions -> Tokens \cup {NoToken}]
    /\ life \in [Sessions -> 0..RefreshLife]
    /\ \A s \in Sessions : life[s] = 0 <=> stored[s] = NoToken
    /\ issued \subseteq Tokens
    /\ root \in [Tokens -> Logins \cup {NoToken}]

IndexTypes ==
    /\ index \subseteq Sessions
    /\ indexLife \in 0..Forever
    /\ index = {} <=> indexLife = 0

RecordTypes ==
    /\ records \subseteq Sessions
    /\ recordLife \in 0..AccessLife \cup {Forever}
    /\ records = {} <=> recordLife = 0
    /\ accessLife \in [Sessions -> 0..AccessLife]
    /\ lapsed \subseteq Sessions

CallTypes ==
    /\ pc \in [Calls \cup RevokeAlls -> Labels \cup SweepLabels]
    /\ of \in [Calls -> Sessions \cup {NoSession}]
    /\ presented \in [Refreshes -> Tokens \cup {NoToken}]
    /\ found \in [RevokeAlls -> SUBSET Sessions]
    /\ left \in [RevokeAlls -> SUBSET Sessions]
    /\ before \in [RevokeAlls -> SUBSET Logins]

\* The types by what they are about: keys, index, records, calls.
LEMMA TypeParts ==
    /\ TypeOK <=> StoreTypes /\ IndexTypes /\ RecordTypes /\ CallTypes
    /\ TypeOK' <=> StoreTypes' /\ IndexTypes' /\ RecordTypes' /\ CallTypes'
BY DEF TypeOK, StoreTypes, IndexTypes, RecordTypes, CallTypes

\* Token t takes the refresh key of session s.
Places(s, t) ==
    /\ stored' = [stored EXCEPT ![s] = t]
    /\ life' = [life EXCEPT ![s] = RefreshLife]
    /\ issued' = issued \cup {t}
    /\ \E l \in Logins \cup {NoToken} : root' = [root EXCEPT ![t] = l]

Deletes(s) ==
    /\ stored' = [stored EXCEPT ![s] = NoToken]
    /\ life' = [life EXCEPT ![s] = 0]
    /\ UNCHANGED <<issued, root>>

\* What LifeAssumption says of the lifetimes.
LEMMA LifeFacts ==
    /\ RefreshLife \in Nat /\ AccessLife \in Nat /\ RefreshLife > 0 /\ AccessLife > 0
    /\ AccessLife <= RefreshLife /\ Forever \in Nat /\ Forever > RefreshLife
    /\ NoToken \notin Tokens
BY LifeAssumption, UserAssumption DEF Forever

\* The ways the refresh keys change keep their types.
LEMMA StoreMoves ==
    ASSUME StoreTypes,
           \/ UNCHANGED families
           \/ \E s \in Sessions, t \in Tokens : Places(s, t)
           \/ \E s \in Sessions : Deletes(s)
           \/ Tick
    PROVE  StoreTypes'
<1>0. /\ stored \in [Sessions -> Tokens \cup {NoToken}]
      /\ life \in [Sessions -> 0..RefreshLife]
      /\ \A s \in Sessions : life[s] = 0 <=> stored[s] = NoToken
      /\ RefreshLife \in Nat /\ RefreshLife > 0 /\ NoToken \notin Tokens
      /\ RefreshLife \in 0..RefreshLife /\ 0 \in 0..RefreshLife
  BY LifeFacts DEF StoreTypes
<1>1. CASE UNCHANGED families
  BY <1>1 DEF StoreTypes, families
<1>2. CASE \E s \in Sessions, t \in Tokens : Places(s, t)
  <2>1. PICK s \in Sessions, t \in Tokens : Places(s, t)
    BY <1>2
  <2>2. /\ stored' \in [Sessions -> Tokens \cup {NoToken}]
        /\ life' \in [Sessions -> 0..RefreshLife]
    BY <1>0, <2>1 DEF Places
  <2>3. \A q \in Sessions : life'[q] = 0 <=> stored'[q] = NoToken
    BY <1>0, <2>1 DEF Places
  <2>4. issued' \subseteq Tokens /\ root' \in [Tokens -> Logins \cup {NoToken}]
    BY <2>1 DEF Places, StoreTypes
  <2>5. QED
    BY <2>2, <2>3, <2>4 DEF StoreTypes
<1>3. CASE \E s \in Sessions : Deletes(s)
  BY <1>0, <1>3 DEF Deletes, StoreTypes
<1>4. CASE Tick
  <2>1. \A s \in Sessions : Aged(life[s]) \in 0..RefreshLife
    BY <1>0 DEF Aged, Forever
  <2>2. /\ life' = [s \in Sessions |-> Aged(life[s])]
        /\ stored' = [s \in Sessions |-> IF life'[s] = 0 THEN NoToken ELSE stored[s]]
        /\ UNCHANGED <<issued, root>>
    BY <1>4 DEF Tick
  <2>3. \A s \in Sessions : life[s] = 0 => life'[s] = 0
    BY <2>2 DEF Aged
  <2>4. \A s \in Sessions : life'[s] = 0 <=> stored'[s] = NoToken
    BY <1>0, <2>2, <2>3
  <2>5. /\ stored' \in [Sessions -> Tokens \cup {NoToken}]
        /\ life' \in [Sessions -> 0..RefreshLife]
    BY <1>0, <2>1, <2>2
  <2>6. QED
    BY <2>2, <2>4, <2>5 DEF StoreTypes
<1>5. QED
  BY <1>1, <1>2, <1>3, <1>4

\* The ways the family index changes keep its types.
LEMMA IndexMoves ==
    ASSUME IndexTypes,
           \/ UNCHANGED indexed
           \/ \E s \in Sessions : index' = index \cup {s} /\ indexLife' = LifeWith(index, indexLife)
           \/ index' = index /\ indexLife' = LifeRenewed(index, RefreshLife)
           \/ \E s \in Sessions :
                 index' = index \ {s} /\ indexLife' = LifeWithout(index, indexLife, s)
           \/ index' = {} /\ indexLife' = 0
           \/ Tick
    PROVE  IndexTypes'
<1>0. /\ RefreshLife \in Nat /\ RefreshLife > 0 /\ Forever = RefreshLife + 1
      /\ index \subseteq Sessions /\ indexLife \in 0..Forever /\ (index = {} <=> indexLife = 0)
  BY LifeFacts DEF IndexTypes, Forever
<1>1. CASE UNCHANGED indexed
  BY <1>1 DEF IndexTypes, indexed
<1>2. CASE \E s \in Sessions :
              index' = index \cup {s} /\ indexLife' = LifeWith(index, indexLife)
  BY <1>0, <1>2 DEF IndexTypes, LifeWith
<1>3. CASE index' = index /\ indexLife' = LifeRenewed(index, RefreshLife)
  BY <1>0, <1>3 DEF IndexTypes, LifeRenewed
<1>4. CASE \E s \in Sessions :
              index' = index \ {s} /\ indexLife' = LifeWithout(index, indexLife, s)
  <2>1. PICK s \in Sessions :
              index' = index \ {s} /\ indexLife' = LifeWithout(index, indexLife, s)
    BY <1>4
  <2>2. index' = {} <=> index \subseteq {s}
    BY <2>1
  <2>3. ~ (index \subseteq {s}) => index # {}
    OBVIOUS
  <2>4. QED
    BY <1>0, <2>1, <2>2, <2>3 DEF IndexTypes, LifeWithout
<1>5. CASE index' = {} /\ indexLife' = 0
  BY <1>0, <1>5 DEF IndexTypes
<1>6. CASE Tick
  <2>1. indexLife' = Aged(indexLife) /\ index' = IF indexLife' = 0 THEN {} ELSE index
    BY <1>6 DEF Tick
  <2>2. Aged(indexLife) \in 0..Forever /\ (indexLife = 0 => Aged(indexLife) = 0)
    BY <1>0 DEF Aged
  <2>3. QED
    BY <1>0, <2>1, <2>2 DEF IndexTypes
<1>7. QED
  BY <1>1, <1>2, <1>3, <1>4, <1>5, <1>6

\* The steps on the records, by what they do to them.
Records(s) ==
    /\ records' = records \cup {s}
    /\ recordLife' = LifeWith(records, recordLife)
    /\ accessLife' = [accessLife EXCEPT ![s] = AccessLife]
    /\ lapsed' = lapsed \ {s}

Renews ==
    /\ recordLife' = LifeRenewed(records, AccessLife)
    /\ UNCHANGED <<records, accessLife, lapsed>>

Unrecords(s) ==
    /\ records' = records \ {s}
    /\ recordLife' = LifeWithout(records, recordLife, s)
    /\ accessLife' = [accessLife EXCEPT ![s] = 0]
    /\ UNCHANGED lapsed

Clears ==
    /\ records' = {}
    /\ recordLife' = 0
    /\ accessLife' = [s \in Sessions |-> 0]
    /\ UNCHANGED lapsed

\* The ways the session records change keep their types.
LEMMA RecordMoves ==
    ASSUME RecordTypes, CallsBegun,
           \/ UNCHANGED sessions
           \/ \E s \in Sessions : Records(s) \/ Unrecords(s)
           \/ Renews \/ Clears \/ Tick
    PROVE  RecordTypes'
<1>0. /\ AccessLife \in Nat /\ AccessLife > 0 /\ Forever \in Nat /\ Forever > AccessLife
      /\ records \subseteq Sessions /\ recordLife \in 0..AccessLife \cup {Forever}
      /\ (records = {} <=> recordLife = 0)
      /\ accessLife \in [Sessions -> 0..AccessLife] /\ lapsed \subseteq Sessions
  BY LifeFacts DEF RecordTypes
<1>1. CASE UNCHANGED sessions
  BY <1>1 DEF RecordTypes, sessions
<1>2. ASSUME NEW s \in Sessions, Records(s) PROVE RecordTypes'
  <2>1. /\ records' # {} /\ records' \subseteq Sessions
        /\ recordLife' \in 1..AccessLife \cup {Forever}
    BY <1>0, <1>2 DEF Records, LifeWith
  <2>2. accessLife' \in [Sessions -> 0..AccessLife] /\ lapsed' \subseteq Sessions
    BY <1>0, <1>2 DEF Records
  <2>3. QED
    BY <1>0, <2>1, <2>2 DEF RecordTypes
<1>3. CASE Renews
  BY <1>0, <1>3 DEF RecordTypes, Renews, LifeRenewed
<1>4. ASSUME NEW s \in Sessions, Unrecords(s) PROVE RecordTypes'
  <2>1. records' = {} <=> records \subseteq {s}
    BY <1>4 DEF Unrecords
  <2>2. ~ (records \subseteq {s}) => records # {}
    OBVIOUS
  <2>3. records' \subseteq Sessions /\ recordLife' = IF records \subseteq {s} THEN 0 ELSE recordLife
    BY <1>0, <1>4 DEF Unrecords, LifeWithout
  <2>4. accessLife' \in [Sessions -> 0..AccessLife] /\ lapsed' \subseteq Sessions
    BY <1>0, <1>4 DEF Unrecords
  <2>5. QED
    BY <1>0, <2>1, <2>2, <2>3, <2>4 DEF RecordTypes
<1>5. CASE Clears
  BY <1>0, <1>5 DEF RecordTypes, Clears
<1>6. CASE Tick
  <2>1. /\ recordLife' = Aged(recordLife)
        /\ records' = IF recordLife' = 0 THEN {} ELSE records
        /\ accessLife' = [s \in Sessions |-> Aged(accessLife[s])]
        /\ \A s \in lapsed' : s \in lapsed \/ \E d \in Tokens : pc[d] = "expire" /\ s = of[d]
    BY <1>6 DEF Tick
  <2>2. /\ Aged(recordLife) \in 0..AccessLife \cup {Forever}
        /\ (recordLife = 0 => Aged(recordLife) = 0)
    BY <1>0 DEF Aged
  <2>3. \A s \in Sessions : Aged(accessLife[s]) \in 0..AccessLife
    BY <1>0 DEF Aged
  <2>4. lapsed' \subseteq Sessions
    BY <1>0, <2>1 DEF CallsBegun, Calls
  <2>5. QED
    BY <1>0, <2>1, <2>2, <2>3, <2>4 DEF RecordTypes
<1>7. QED
  BY <1>1, <1>2, <1>3, <1>4, <1>5, <1>6

StoreMove ==
    \/ UNCHANGED families
    \/ \E s \in Sessions, t \in Tokens : Places(s, t)
    \/ \E s \in Sessions : Deletes(s)
    \/ Tick

IndexMove ==
    \/ UNCHANGED indexed
    \/ \E s \in Sessions : index' = index \cup {s} /\ indexLife' = LifeWith(index, indexLife)
    \/ index' = index /\ indexLife' = LifeRenewed(index, RefreshLife)
    \/ \E s \in Sessions :
          index' = index \ {s} /\ indexLife' = LifeWithout(index, indexLife, s)
    \/ index' = {} /\ indexLife' = 0
    \/ Tick

RecordMove ==
    \/ UNCHANGED sessions
    \/ \E s \in Sessions : Records(s) \/ Unrecords(s)
    \/ Renews \/ Clears \/ Tick

\* What a step of call or sweep c does to the locals.
CallMove(c) ==
    /\ UNCHANGED pc \/ \E x \in Labels \cup SweepLabels : pc' = [pc EXCEPT ![c] = x]
    /\ UNCHANGED of \/ \E s \in Sessions : of' = [of EXCEPT ![c] = s]
    /\ UNCHANGED presented \/ \E t \in issued : presented' = [presented EXCEPT ![c] = t]

SweepMove(a) ==
    /\ UNCHANGED found \/ \E S \in SUBSET Sessions : found' = [found EXCEPT ![a] = S]
    /\ UNCHANGED left \/ \E S \in SUBSET Sessions : left' = [left EXCEPT ![a] = S]
    /\ UNCHANGED before \/ \E S \in SUBSET Logins : before' = [before EXCEPT ![a] = S]

CallStep(c) ==
    \/ c \in Logins /\ LoginStep(c)
    \/ c \in Refreshes /\ RefreshStep(c)
    \/ c \in Tokens /\ ExpireRecords(c)
    \/ c \in Logouts /\ BeginLogout(c)
    \/ c \in Calls /\ RevokeStep(c)
    \/ c \in RevokeAlls /\ (SweepStep(c) \/ SweepFails(c))

\* A step is a tick or one of a call.
LEMMA NextSteps == Next <=> Tick \/ \E c \in Calls \cup RevokeAlls : CallStep(c)
BY DEF Next, CallStep, Calls, Tokens

Stages == Labels \cup SweepLabels

\* The labels a step can lead to.
LEMMA StageFacts ==
    /\ "idle" \in Stages /\ "hset" \in Stages /\ "expire" \in Stages /\ "set" \in Stages
    /\ "track" \in Stages /\ "renew" \in Stages /\ "rotate" \in Stages /\ "del" \in Stages
    /\ "unindex" \in Stages /\ "unrecord" \in Stages /\ "done" \in Stages
    /\ "families" \in Stages /\ "batch" \in Stages /\ "drop" \in Stages /\ "failed" \in Stages
BY DEF Stages, Labels, SweepLabels

\* The session of a call in its course.
LEMMA CallFacts ==
    ASSUME UInv, NEW c \in Calls
    PROVE  /\ c \in Tokens => c \in Calls
           /\ pc[c] # "idle" => of[c] \in Sessions
           /\ c \in Refreshes /\ pc[c] # "idle" => presented[c] \in issued
           /\ \A t \in Delivered : t \in issued /\ t \in Tokens /\ t \in Calls /\ of[t] \in Sessions
BY DEF UInv, TypeOK, CallsBegun, Delivered, Calls, Tokens

\* Every step of a call changes the refresh keys in one of these ways.
LEMMA StepStore ==
    ASSUME UInv, NEW c \in Calls \cup RevokeAlls, CallStep(c)
    PROVE  StoreMove
<1>1. CASE c \in Logins /\ StoreRefreshToken(c)
  <2>1. of[c] \in Sessions /\ c \in Tokens /\ c \in Logins \cup {NoToken}
    BY <1>1, CallFacts DEF StoreRefreshToken, Tokens, Calls
  <2>2. Places(of[c], c)
    BY <1>1, <2>1 DEF StoreRefreshToken, Places
  <2>3. QED
    BY <2>1, <2>2 DEF StoreMove
<1>2. CASE c \in Refreshes /\ Rotate(c)
  <2>1. of[c] \in Sessions /\ c \in Tokens /\ presented[c] \in issued
    BY <1>2, CallFacts DEF Rotate, Tokens, Calls
  <2>2. root[presented[c]] \in Logins \cup {NoToken}
    BY <2>1 DEF UInv, TypeOK
  <2>3. UNCHANGED families \/ Places(of[c], c)
    BY <1>2, <2>2 DEF Rotate, Rotated, Places
  <2>4. QED
    BY <2>1, <2>3 DEF StoreMove
<1>3. CASE c \in Refreshes /\ EndFamily(c)
  <2>1. of[c] \in Sessions
    BY <1>3, CallFacts DEF EndFamily, Tokens, Calls
  <2>2. QED
    BY <1>3, <2>1 DEF EndFamily, DeleteRefreshKey, Deletes, StoreMove
<1>4. CASE c \in Logouts /\ BeginLogout(c)
  BY <1>4 DEF BeginLogout, DeleteRefreshKey, Deletes, StoreMove
<1>5. CASE c \in RevokeAlls /\ \E s \in Sessions : DeleteFamily(c, s)
  BY <1>5 DEF DeleteFamily, Deletes, StoreMove
<1>6. CASE UNCHANGED families
  BY <1>6 DEF StoreMove
<1>7. QED
  BY <1>1, <1>2, <1>3, <1>4, <1>5, <1>6
  DEF CallStep, LoginStep, RefreshStep, RevokeStep, SweepStep, BeginLogin, TrackFamily,
      RenewIndex, BeginRefresh, SignAccessToken, ExpireRecords, RemoveFromIndex, RemoveRecord,
      ListSessions, ReadIndex, DropIndex, DropRecords, SweepFails

\* And the family index.
LEMMA StepIndex ==
    ASSUME UInv, NEW c \in Calls \cup RevokeAlls, CallStep(c)
    PROVE  IndexMove
<1>1. CASE c \in Logins /\ TrackFamily(c)
  <2>1. of[c] \in Sessions
    BY <1>1, CallFacts DEF TrackFamily, Tokens, Calls
  <2>2. QED
    BY <1>1, <2>1 DEF TrackFamily, IndexMove
<1>2. CASE c \in Logins /\ RenewIndex(c)
  BY <1>2 DEF RenewIndex, IndexMove
<1>3. CASE c \in Calls /\ RemoveFromIndex(c)
  <2>1. of[c] \in Sessions
    BY <1>3, CallFacts DEF RemoveFromIndex
  <2>2. QED
    BY <1>3, <2>1 DEF RemoveFromIndex, IndexMove
<1>4. CASE c \in RevokeAlls /\ DropIndex(c)
  BY <1>4 DEF DropIndex, IndexMove
<1>5. CASE UNCHANGED indexed
  BY <1>5 DEF IndexMove
<1>6. QED
  BY <1>1, <1>2, <1>3, <1>4, <1>5
  DEF CallStep, LoginStep, RefreshStep, RevokeStep, SweepStep, BeginLogin, StoreRefreshToken,
      BeginRefresh, Rotate, EndFamily, BeginLogout, DeleteRefreshKey, SignAccessToken,
      ExpireRecords, RemoveRecord, ListSessions, ReadIndex, DropRecords, DeleteFamily, SweepFails

\* And the session records.
LEMMA StepRecord ==
    ASSUME UInv, NEW c \in Calls \cup RevokeAlls, CallStep(c)
    PROVE  RecordMove
<1>1. CASE c \in Logins /\ BeginLogin(c)
  BY <1>1 DEF BeginLogin, StoreRecord, Records, RecordMove
<1>2. CASE c \in Refreshes /\ SignAccessToken(c)
  <2>1. of[c] \in Sessions
    BY <1>2, CallFacts DEF SignAccessToken, Tokens, Calls
  <2>2. QED
    BY <1>2, <2>1 DEF SignAccessToken, StoreRecord, Records, RecordMove
<1>3. CASE c \in Tokens /\ ExpireRecords(c)
  BY <1>3 DEF ExpireRecords, Renews, RecordMove
<1>4. CASE c \in Calls /\ RemoveRecord(c)
  <2>1. of[c] \in Sessions
    BY <1>4, CallFacts DEF RemoveRecord
  <2>2. QED
    BY <1>4, <2>1 DEF RemoveRecord, Unrecords, RecordMove
<1>5. CASE c \in RevokeAlls /\ DropRecords(c)
  BY <1>5 DEF DropRecords, Clears, RecordMove
<1>6. CASE UNCHANGED sessions
  BY <1>6 DEF RecordMove
<1>7. QED
  BY <1>1, <1>2, <1>3, <1>4, <1>5, <1>6
  DEF CallStep, LoginStep, RefreshStep, RevokeStep, SweepStep, StoreRefreshToken, TrackFamily,
      RenewIndex, BeginRefresh, Rotate, EndFamily, BeginLogout, DeleteRefreshKey,
      RemoveFromIndex, ListSessions, ReadIndex, DropIndex, DeleteFamily, SweepFails

\* Where each step leads, and the only locals it changes.
LEMMA StepCall ==
    ASSUME UInv, NEW c \in Calls \cup RevokeAlls, CallStep(c)
    PROVE  CallMove(c)
<1>1. UNCHANGED pc \/ \E x \in Stages : pc' = [pc EXCEPT ![c] = x]
  BY StageFacts
  DEF CallStep, LoginStep, RefreshStep, RevokeStep, SweepStep, BeginLogin, StoreRecord,
      StoreRefreshToken, TrackFamily, RenewIndex, BeginRefresh, Rotate, Rotated,
      SignAccessToken, ExpireRecords, EndFamily, BeginLogout, DeleteRefreshKey,
      RemoveFromIndex, RemoveRecord, ListSessions, ReadIndex, DropIndex, DropRecords,
      DeleteFamily, SweepFails, Goto
<1>2. UNCHANGED of \/ \E s \in Sessions : of' = [of EXCEPT ![c] = s]
  <2>1. CASE c \in Refreshes /\ BeginRefresh(c)
    BY <2>1, CallFacts DEF BeginRefresh, Tokens, Calls
  <2>2. CASE c \in Logins /\ BeginLogin(c)
    BY <2>2 DEF BeginLogin
  <2>3. CASE c \in Logouts /\ BeginLogout(c)
    BY <2>3 DEF BeginLogout
  <2>4. CASE UNCHANGED of
    BY <2>4
  <2>5. QED
    BY <2>1, <2>2, <2>3, <2>4
    DEF CallStep, LoginStep, RefreshStep, RevokeStep, SweepStep, StoreRefreshToken, TrackFamily,
        RenewIndex, Rotate, SignAccessToken, ExpireRecords, EndFamily, RemoveFromIndex,
        RemoveRecord, ListSessions, ReadIndex, DropIndex, DropRecords, DeleteFamily, SweepFails
<1>3. UNCHANGED presented \/ \E t \in issued : presented' = [presented EXCEPT ![c] = t]
  <2>1. CASE c \in Refreshes /\ BeginRefresh(c)
    BY <2>1 DEF BeginRefresh, Delivered
  <2>2. CASE UNCHANGED presented
    BY <2>2
  <2>3. QED
    BY <2>1, <2>2
    DEF CallStep, LoginStep, RefreshStep, RevokeStep, SweepStep, BeginLogin, StoreRefreshToken,
        TrackFamily, RenewIndex, Rotate, SignAccessToken, ExpireRecords, EndFamily, BeginLogout,
        DeleteRefreshKey, RemoveFromIndex, RemoveRecord, ListSessions, ReadIndex, DropIndex,
        DropRecords, DeleteFamily, SweepFails
<1>4. QED
  BY <1>1, <1>2, <1>3 DEF CallMove, Stages

\* And what a sweep has found and has left.
LEMMA StepSweep ==
    ASSUME UInv, NEW c \in Calls \cup RevokeAlls, CallStep(c)
    PROVE  SweepMove(c)
<1>0. /\ records \in SUBSET Sessions /\ index \in SUBSET Sessions
      /\ found \in [RevokeAlls -> SUBSET Sessions] /\ left \in [RevokeAlls -> SUBSET Sessions]
  BY DEF UInv, TypeOK
<1>1. CASE c \in RevokeAlls /\ ListSessions(c)
  <2>1. {l \in Logins : pc[l] = "done"} \in SUBSET Logins
    OBVIOUS
  <2>2. QED
    BY <1>0, <1>1, <2>1 DEF ListSessions, SweepMove
<1>2. CASE c \in RevokeAlls /\ ReadIndex(c)
  <2>1. found[c] \cup index \in SUBSET Sessions
    BY <1>0, <1>2
  <2>2. /\ found' = [found EXCEPT ![c] = found[c] \cup index]
        /\ left' = [left EXCEPT ![c] = found[c] \cup index]
        /\ before' = before
    BY <1>0, <1>2 DEF ReadIndex
  <2>3. QED
    BY <2>1, <2>2 DEF SweepMove
<1>3. CASE c \in RevokeAlls /\ \E s \in Sessions : DeleteFamily(c, s)
  <2>1. PICK s \in Sessions : DeleteFamily(c, s)
    BY <1>3
  <2>2. left[c] \ {s} \in SUBSET Sessions
    BY <1>0, <1>3
  <2>3. left' = [left EXCEPT ![c] = left[c] \ {s}] /\ found' = found /\ before' = before
    BY <2>1 DEF DeleteFamily
  <2>4. QED
    BY <2>2, <2>3 DEF SweepMove
<1>4. CASE UNCHANGED sweep
  BY <1>4 DEF SweepMove, sweep
<1>5. QED
  BY <1>1, <1>2, <1>3, <1>4
  DEF CallStep, LoginStep, RefreshStep, RevokeStep, SweepStep, BeginLogin, StoreRefreshToken,
      TrackFamily, RenewIndex, BeginRefresh, Rotate, SignAccessToken, ExpireRecords, EndFamily,
      BeginLogout, DeleteRefreshKey, RemoveFromIndex, RemoveRecord, DropIndex, DropRecords,
      SweepFails

\* A step of a call moves that call and no other, within the types.
LEMMA CallMoves ==
    ASSUME CallTypes, issued \subseteq Tokens, NEW c \in Calls \cup RevokeAlls, CallMove(c),
           SweepMove(c)
    PROVE  CallTypes'
<1>1. pc' \in [Calls \cup RevokeAlls -> Labels \cup SweepLabels]
  BY DEF CallTypes, CallMove
<1>2. of' \in [Calls -> Sessions \cup {NoSession}]
  BY DEF CallTypes, CallMove
<1>3. presented' \in [Refreshes -> Tokens \cup {NoToken}]
  BY DEF CallTypes, CallMove
<1>4. found' \in [RevokeAlls -> SUBSET Sessions] /\ left' \in [RevokeAlls -> SUBSET Sessions]
  BY DEF CallTypes, SweepMove
<1>5. before' \in [RevokeAlls -> SUBSET Logins]
  BY DEF CallTypes, SweepMove
<1>6. QED
  BY <1>1, <1>2, <1>3, <1>4, <1>5 DEF CallTypes

\* A step of a call keeps the types.
LEMMA StepTypes ==
    ASSUME UInv, NEW c \in Calls \cup RevokeAlls, CallStep(c)
    PROVE  TypeOK'
<1>1. StoreTypes /\ IndexTypes /\ RecordTypes /\ CallTypes /\ CallsBegun /\ issued \subseteq Tokens
  BY TypeParts DEF UInv, TypeOK
<1>2. StoreMove /\ IndexMove /\ RecordMove /\ CallMove(c) /\ SweepMove(c)
  BY StepStore, StepIndex, StepRecord, StepCall, StepSweep
<1>3. StoreTypes' /\ IndexTypes' /\ RecordTypes'
  BY <1>1, <1>2, StoreMoves, IndexMoves, RecordMoves DEF StoreMove, IndexMove, RecordMove
<1>4. CallTypes'
  BY <1>1, <1>2, CallMoves
<1>5. QED
  BY <1>3, <1>4, TypeParts

\* So does a tick.
LEMMA TickTypes ==
    ASSUME UInv, Tick
    PROVE  TypeOK'
<1>1. StoreTypes /\ IndexTypes /\ RecordTypes /\ CallTypes /\ CallsBegun
  BY TypeParts DEF UInv
<1>2. StoreTypes' /\ IndexTypes' /\ RecordTypes'
  BY <1>1, StoreMoves, IndexMoves, RecordMoves
<1>3. CallTypes'
  BY <1>1 DEF Tick, CallTypes, sweep
<1>4. QED
  BY <1>2, <1>3, TypeParts

-----------------------------------------------------------------------------
(* The parts of UInv, step by step *)

\* The kinds of calls are disjoint.
LEMMA Apart ==
    /\ Logins \cap Refreshes = {} /\ Tokens \cap Logouts = {} /\ Calls \cap RevokeAlls = {}
    /\ Logins \subseteq Tokens /\ Refreshes \subseteq Tokens /\ Tokens \subseteq Calls
    /\ Tokens = Logins \cup Refreshes /\ Calls = Tokens \cup Logouts
    /\ NoToken \notin Tokens
BY UserAssumption DEF Tokens, Calls

\* A step of one call leaves the locals of every other alone.
LEMMA Others ==
    ASSUME UInv, NEW c \in Calls \cup RevokeAlls, CallStep(c),
           NEW d \in Calls \cup RevokeAlls, d # c
    PROVE  /\ pc'[d] = pc[d]
           /\ d \in Calls => of'[d] = of[d]
           /\ d \in Refreshes => presented'[d] = presented[d]
           /\ d \in RevokeAlls =>
                 found'[d] = found[d] /\ left'[d] = left[d] /\ before'[d] = before[d]
<1>1. CallMove(c) /\ SweepMove(c) /\ CallTypes
  BY StepCall, StepSweep, TypeParts DEF UInv
<1>2. pc'[d] = pc[d]
  BY <1>1 DEF CallMove, CallTypes
<1>3. d \in Calls => of'[d] = of[d]
  BY <1>1 DEF CallMove, CallTypes
<1>4. d \in Refreshes => presented'[d] = presented[d]
  BY <1>1 DEF CallMove, CallTypes
<1>5. d \in RevokeAlls =>
         found'[d] = found[d] /\ left'[d] = left[d] /\ before'[d] = before[d]
  BY <1>1 DEF SweepMove, CallTypes
<1>6. QED
  BY <1>2, <1>3, <1>4, <1>5

\* The steps on the store, with the token each one leaves behind.
LEMMA StepStoreExactly ==
    ASSUME UInv, NEW c \in Calls \cup RevokeAlls, CallStep(c)
    PROVE  \/ UNCHANGED families
           \/ c \in Logins /\ StoreRefreshToken(c)
           \/ c \in Refreshes /\ Rotate(c) /\ Rotated(c) /\ stored[of[c]] = presented[c]
           \/ \E s \in Sessions : Deletes(s)
<1>1. CASE c \in Refreshes /\ Rotate(c)
  BY <1>1 DEF Rotate
<1>2. CASE c \in Refreshes /\ EndFamily(c)
  <2>1. of[c] \in Sessions
    BY <1>2, CallFacts, Apart DEF EndFamily
  <2>2. QED
    BY <1>2, <2>1 DEF EndFamily, DeleteRefreshKey, Deletes
<1>3. CASE c \in Logouts /\ BeginLogout(c)
  BY <1>3 DEF BeginLogout, DeleteRefreshKey, Deletes
<1>4. CASE c \in RevokeAlls /\ \E s \in Sessions : DeleteFamily(c, s)
  BY <1>4 DEF DeleteFamily, Deletes
<1>5. QED
  BY <1>1, <1>2, <1>3, <1>4
  DEF CallStep, LoginStep, RefreshStep, RevokeStep, SweepStep, BeginLogin, TrackFamily,
      RenewIndex, BeginRefresh, SignAccessToken, ExpireRecords, RemoveFromIndex, RemoveRecord,
      ListSessions, ReadIndex, DropIndex, DropRecords, SweepFails

\* A call issues no token but its own, and none but issued ones are stored.
LEMMA StepIssues ==
    ASSUME UInv, NEW c \in Calls \cup RevokeAlls, CallStep(c)
    PROVE  /\ issued \subseteq issued' /\ issued' \subseteq issued \cup {c}
           /\ \A s \in Sessions : stored'[s] \in {stored[s], NoToken} \/ stored'[s] \in issued'
<1>1. UNCHANGED families => UNCHANGED <<issued, stored>>
  BY DEF families
<1>2. CASE c \in Logins /\ StoreRefreshToken(c)
  BY <1>2 DEF StoreRefreshToken, UInv, TypeOK
<1>3. CASE c \in Refreshes /\ Rotated(c)
  BY <1>3 DEF Rotated, UInv, TypeOK
<1>4. ASSUME NEW s \in Sessions, Deletes(s)
      PROVE  UNCHANGED issued /\ \A q \in Sessions : stored'[q] \in {stored[q], NoToken}
  BY <1>4 DEF Deletes, UInv, TypeOK
<1>5. QED
  BY <1>1, <1>2, <1>3, <1>4, StepStoreExactly

\* The first step of a call names its session.
LEMMA FirstStep ==
    ASSUME UInv, NEW c \in Calls, CallStep(c), pc[c] = "idle"
    PROVE  of'[c] \in Sessions /\ (c \in Refreshes => presented'[c] \in issued)
<1>1. of \in [Calls -> Sessions \cup {NoSession}] /\ presented \in [Refreshes -> Tokens \cup {NoToken}]
  BY DEF UInv, TypeOK
<1>2. CASE c \in Logins /\ BeginLogin(c)
  BY <1>1, <1>2, Apart DEF BeginLogin
<1>3. CASE c \in Refreshes /\ BeginRefresh(c)
  BY <1>1, <1>3, CallFacts DEF BeginRefresh, Delivered
<1>4. CASE c \in Logouts /\ BeginLogout(c)
  BY <1>1, <1>4, Apart DEF BeginLogout
<1>5. QED
  BY <1>2, <1>3, <1>4, Apart
  DEF CallStep, LoginStep, RefreshStep, RevokeStep, StoreRefreshToken, TrackFamily,
      RenewIndex, Rotate, SignAccessToken, ExpireRecords, EndFamily, RemoveFromIndex, RemoveRecord

\* A call that begins is given a session and an issued token.
LEMMA StepCallsBegun ==
    ASSUME UInv, NEW c \in Calls \cup RevokeAlls, CallStep(c)
    PROVE  CallsBegun'
<1>0. /\ of \in [Calls -> Sessions \cup {NoSession}]
      /\ presented \in [Refreshes -> Tokens \cup {NoToken}] /\ CallsBegun
  BY DEF UInv, TypeOK
<1>1. ASSUME NEW d \in Calls, pc'[d] # "idle" PROVE of'[d] \in Sessions
  <2>1. CASE d # c
    BY <1>0, <1>1, <2>1, Others DEF CallsBegun
  <2>2. CASE d = c /\ pc[c] = "idle"
    BY <2>2, FirstStep
  <2>3. CASE d = c /\ pc[c] # "idle"
    <3>1. of[c] \in Sessions
      BY <1>0, <2>3 DEF CallsBegun
    <3>2. UNCHANGED of \/ \E s \in Sessions : of' = [of EXCEPT ![c] = s]
      BY StepCall DEF CallMove
    <3>3. QED
      BY <1>0, <2>3, <3>1, <3>2
  <2>4. QED
    BY <2>1, <2>2, <2>3
<1>2. ASSUME NEW r \in Refreshes, pc'[r] # "idle" PROVE presented'[r] \in issued
  <2>1. CASE r # c
    BY <1>0, <1>2, <2>1, Others, Apart DEF CallsBegun
  <2>2. CASE r = c /\ pc[c] = "idle"
    BY <2>2, FirstStep, Apart
  <2>3. CASE r = c /\ pc[c] # "idle"
    <3>1. presented[c] \in issued
      BY <1>0, <2>3 DEF CallsBegun
    <3>2. UNCHANGED presented \/ \E t \in issued : presented' = [presented EXCEPT ![c] = t]
      BY StepCall DEF CallMove
    <3>3. QED
      BY <1>0, <2>3, <3>1, <3>2
  <2>4. QED
    BY <2>1, <2>2, <2>3
<1>3. QED
  BY <1>1, <1>2, StepIssues DEF CallsBegun

\* No step of a call leads back before the one that issues its token.
LEMMA NotYetIssued ==
    ASSUME UInv, NEW c \in Tokens, CallStep(c)
    PROVE  /\ c \in Logins /\ pc'[c] \in {"idle", "expire", "set"} =>
                 UNCHANGED issued /\ pc[c] \in {"idle", "expire", "set"}
           /\ c \in Refreshes /\ pc'[c] \in {"idle", "rotate"} =>
                 UNCHANGED issued /\ pc[c] \in {"idle", "rotate"}
<1>0. pc \in [Calls \cup RevokeAlls -> Stages] /\ c \in Calls /\ c \notin Logouts /\ c \notin RevokeAlls
  BY Apart DEF UInv, TypeOK, Stages
<1>1. CASE c \in Logins
  BY <1>0, <1>1, Apart
  DEF CallStep, LoginStep, RevokeStep, BeginLogin, StoreRecord, StoreRefreshToken, TrackFamily,
      RenewIndex, ExpireRecords, RemoveFromIndex, RemoveRecord, Goto, families
<1>2. CASE c \in Refreshes
  BY <1>0, <1>2, Apart
  DEF CallStep, RefreshStep, RevokeStep, BeginRefresh, Rotate, Rotated, SignAccessToken,
      StoreRecord, EndFamily, DeleteRefreshKey, ExpireRecords, RemoveFromIndex, RemoveRecord,
      Goto, families
<1>3. QED
  BY <1>1, <1>2, Apart

\* A call issues its token once.
LEMMA StepIssuedOnce ==
    ASSUME UInv, NEW c \in Calls \cup RevokeAlls, CallStep(c)
    PROVE  IssuedOnce'
<1>0. IssuedOnce
  BY DEF UInv
<1>1. ASSUME NEW l \in Logins, pc'[l] \in {"idle", "expire", "set"} PROVE l \notin issued'
  <2>1. CASE l = c
    BY <1>0, <1>1, <2>1, NotYetIssued, Apart DEF IssuedOnce
  <2>2. CASE l # c
    BY <1>0, <1>1, <2>2, Others, StepIssues, Apart DEF IssuedOnce
  <2>3. QED
    BY <2>1, <2>2
<1>2. ASSUME NEW r \in Refreshes, pc'[r] \in {"idle", "rotate"} PROVE r \notin issued'
  <2>1. CASE r = c
    BY <1>0, <1>2, <2>1, NotYetIssued, Apart DEF IssuedOnce
  <2>2. CASE r # c
    BY <1>0, <1>2, <2>2, Others, StepIssues, Apart DEF IssuedOnce
  <2>3. QED
    BY <2>1, <2>2
<1>3. \A s \in Sessions : stored'[s] # NoToken => stored'[s] \in issued'
  BY <1>0, StepIssues DEF IssuedOnce
<1>4. QED
  BY <1>1, <1>2, <1>3 DEF IssuedOnce

\* A login that has returned takes no more steps.
LEMMA StepBeforeDone ==
    ASSUME UInv, NEW c \in Calls \cup RevokeAlls, CallStep(c)
    PROVE  BeforeDone'
<1>0. BeforeDone /\ before \in [RevokeAlls -> SUBSET Logins]
  BY DEF UInv, TypeOK
<1>1. ASSUME NEW l \in Logins, pc[l] = "done" PROVE pc'[l] = "done"
  <2>1. l # c
    BY <1>1, Apart
    DEF CallStep, LoginStep, RevokeStep, BeginLogin, StoreRefreshToken, TrackFamily, RenewIndex,
        ExpireRecords, RemoveFromIndex, RemoveRecord
  <2>2. QED
    BY <1>1, <2>1, Others, Apart
<1>2. UNCHANGED before \/ (c \in RevokeAlls /\ ListSessions(c))
  BY DEF CallStep, LoginStep, RefreshStep, RevokeStep, SweepStep, BeginLogin, StoreRefreshToken,
         TrackFamily, RenewIndex, BeginRefresh, Rotate, SignAccessToken, ExpireRecords, EndFamily,
         BeginLogout, DeleteRefreshKey, RemoveFromIndex, RemoveRecord, ReadIndex, DropIndex,
         DropRecords, DeleteFamily, SweepFails, sweep
<1>3. ASSUME NEW a \in RevokeAlls PROVE \A l \in before'[a] : pc[l] = "done" /\ l \in Logins
  <2>1. CASE UNCHANGED before
    BY <1>0, <2>1 DEF BeforeDone
  <2>2. CASE c \in RevokeAlls /\ ListSessions(c)
    <3>1. before' = [before EXCEPT ![c] = {l \in Logins : pc[l] = "done"}]
      BY <2>2 DEF ListSessions
    <3>2. before'[a] = before[a] \/ before'[a] = {l \in Logins : pc[l] = "done"}
      BY <1>0, <3>1
    <3>3. before[a] \subseteq Logins
      BY <1>0
    <3>4. QED
      BY <1>0, <3>2, <3>3 DEF BeforeDone
  <2>3. QED
    BY <1>2, <2>1, <2>2
<1>4. QED
  BY <1>1, <1>3 DEF BeforeDone

-----------------------------------------------------------------------------
(* A family that a sweep has ended does not come back *)

\* A token that was issued keeps its root, and a stored one is never an
\* earlier login's unless it was already there.
LEMMA EndedStays ==
    ASSUME UInv, NEW c \in Calls \cup RevokeAlls, CallStep(c),
           NEW a \in RevokeAlls, before'[a] = before[a],
           NEW s \in Sessions, Ended(s, a)
    PROVE  Ended(s, a)'
<1>0. /\ stored \in [Sessions -> Tokens \cup {NoToken}] /\ root \in [Tokens -> Logins \cup {NoToken}]
      /\ stored[s] # NoToken => stored[s] \in issued /\ stored[s] \in Tokens
      /\ before[a] \subseteq Logins /\ \A l \in before[a] : pc[l] = "done"
      /\ NoToken \notin Tokens
  BY Apart DEF UInv, TypeOK, IssuedOnce, BeforeDone
<1>1. CASE UNCHANGED families
  BY <1>1 DEF Ended, families
<1>2. CASE c \in Logins /\ StoreRefreshToken(c)
  <2>1. /\ stored' = [stored EXCEPT ![of[c]] = c] /\ root' = [root EXCEPT ![c] = c]
        /\ pc[c] = "set"
    BY <1>2 DEF StoreRefreshToken
  <2>2. c \notin issued /\ c \notin before[a] /\ c \in Tokens
    BY <1>0, <1>2, <2>1, Apart DEF UInv, IssuedOnce
  <2>3. root'[c] = c /\ \A t \in issued : t \in Tokens => root'[t] = root[t]
    BY <1>0, <2>1, <2>2
  <2>4. stored'[s] = c \/ stored'[s] = stored[s]
    BY <1>0, <2>1
  <2>5. QED
    BY <1>0, <2>2, <2>3, <2>4 DEF Ended
<1>3. CASE c \in Refreshes /\ Rotate(c) /\ Rotated(c) /\ stored[of[c]] = presented[c]
  <2>1. /\ stored' = [stored EXCEPT ![of[c]] = c]
        /\ root' = [root EXCEPT ![c] = root[presented[c]]]
        /\ pc[c] = "rotate"
    BY <1>3 DEF Rotate, Rotated
  <2>2. c \notin issued /\ c \in Tokens /\ presented[c] \in issued
    BY <1>0, <1>3, <2>1, Apart, CallFacts DEF UInv, IssuedOnce
  <2>3. root'[c] = root[presented[c]] /\ \A t \in issued : t \in Tokens => root'[t] = root[t]
    BY <1>0, <2>1, <2>2
  <2>4. presented[c] \in Tokens
    BY <2>2 DEF UInv, TypeOK
  <2>5. (s = of[c] /\ stored'[s] = c) \/ stored'[s] = stored[s]
    BY <1>0, <2>1
  <2>6. CASE s = of[c] /\ stored'[s] = c
    <3>1. stored[s] = presented[c] /\ stored[s] # NoToken
      BY <1>0, <1>3, <2>4, <2>6
    <3>2. root'[c] \notin before[a]
      BY <2>3, <3>1 DEF Ended
    <3>3. QED
      BY <2>6, <3>2 DEF Ended
  <2>7. CASE stored'[s] = stored[s]
    BY <1>0, <2>3, <2>7 DEF Ended
  <2>8. QED
    BY <2>5, <2>6, <2>7
<1>4. ASSUME NEW q \in Sessions, Deletes(q) PROVE Ended(s, a)'
  <2>1. stored'[s] \in {stored[s], NoToken} /\ root' = root
    BY <1>0, <1>4 DEF Deletes
  <2>2. QED
    BY <2>1 DEF Ended
<1>5. QED
  BY <1>1, <1>2, <1>3, <1>4, StepStoreExactly

\* What a sweep does to its own locals.
LEMMA SweepLocals ==
    ASSUME UInv, NEW a \in RevokeAlls, CallStep(a)
    PROVE  \/ /\ ListSessions(a)
              /\ pc'[a] \in {"failed", "families"}
           \/ /\ ReadIndex(a)
              /\ pc'[a] = "batch" /\ left'[a] = found'[a]
           \/ /\ DropIndex(a)
              /\ pc[a] = "batch" /\ left[a] = {}
              /\ found'[a] = found[a] /\ before'[a] = before[a]
           \/ /\ DropRecords(a)
              /\ pc[a] = "drop"
              /\ found'[a] = found[a] /\ before'[a] = before[a]
           \/ /\ \E s \in Sessions : DeleteFamily(a, s)
              /\ pc'[a] = pc[a]
              /\ found'[a] = found[a] /\ before'[a] = before[a]
           \/ /\ SweepFails(a)
              /\ pc'[a] = "failed"
<1>0. /\ pc \in [Calls \cup RevokeAlls -> Stages] /\ a \notin Calls
      /\ found \in [RevokeAlls -> SUBSET Sessions] /\ left \in [RevokeAlls -> SUBSET Sessions]
  BY Apart DEF UInv, TypeOK, Stages
<1>1. SweepStep(a) \/ SweepFails(a)
  BY <1>0, Apart DEF CallStep
<1>2. ListSessions(a) => pc'[a] \in {"failed", "families"}
  BY <1>0 DEF ListSessions, Goto
<1>3. ReadIndex(a) => pc'[a] = "batch" /\ left'[a] = found'[a]
  BY <1>0 DEF ReadIndex, Goto
<1>4. DropIndex(a) => pc[a] = "batch" /\ left[a] = {} /\ found' = found /\ before' = before
  BY DEF DropIndex, sweep
<1>5. DropRecords(a) => pc[a] = "drop" /\ found' = found /\ before' = before
  BY DEF DropRecords, sweep
<1>6. (\E s \in Sessions : DeleteFamily(a, s)) => UNCHANGED <<pc, found, before>>
  BY DEF DeleteFamily
<1>7. SweepFails(a) => pc'[a] = "failed"
  BY <1>0 DEF SweepFails, Goto
<1>8. QED
  BY <1>1, <1>2, <1>3, <1>4, <1>5, <1>6, <1>7 DEF SweepStep

\* What a sweep has deleted, no call in flight stores again.
LEMMA StepCovers ==
    ASSUME UInv, NEW c \in Calls \cup RevokeAlls, CallStep(c)
    PROVE  RevokeAllCovers'
<1>0. /\ RevokeAllCovers /\ TypeOK'
      /\ found \in [RevokeAlls -> SUBSET Sessions] /\ left \in [RevokeAlls -> SUBSET Sessions]
      /\ stored \in [Sessions -> Tokens \cup {NoToken}]
  BY StepTypes DEF UInv, TypeOK
<1>1. SUFFICES ASSUME NEW a \in RevokeAlls, NEW s \in found'[a],
                      \/ pc'[a] \in {"drop", "done"}
                      \/ pc'[a] = "batch" /\ s \notin left'[a]
               PROVE  Ended(s, a)'
  BY DEF RevokeAllCovers, Ended
<1>2. s \in Sessions
  BY <1>0 DEF TypeOK
<1>3. CASE c # a
  <2>1. pc'[a] = pc[a] /\ found'[a] = found[a] /\ left'[a] = left[a] /\ before'[a] = before[a]
    BY <1>3, Others
  <2>2. Ended(s, a)
    BY <1>0, <1>1, <2>1 DEF RevokeAllCovers
  <2>3. QED
    BY <1>2, <2>1, <2>2, EndedStays
<1>4. CASE c = a
  <2>1. CASE DropIndex(a) /\ pc[a] = "batch" /\ left[a] = {} /\ found'[a] = found[a]
             /\ before'[a] = before[a]
    <3>1. Ended(s, a)
      BY <1>0, <1>1, <2>1 DEF RevokeAllCovers
    <3>2. QED
      BY <1>2, <2>1, <3>1, EndedStays
  <2>2. CASE DropRecords(a) /\ pc[a] = "drop" /\ found'[a] = found[a] /\ before'[a] = before[a]
    <3>1. Ended(s, a)
      BY <1>0, <1>1, <2>2 DEF RevokeAllCovers
    <3>2. QED
      BY <1>2, <1>4, <2>2, <3>1, EndedStays
  <2>3. CASE /\ \E q \in Sessions : DeleteFamily(a, q)
             /\ pc'[a] = pc[a] /\ found'[a] = found[a] /\ before'[a] = before[a]
    <3>1. PICK q \in Sessions : DeleteFamily(a, q)
      BY <2>3
    <3>2. /\ pc[a] \in {"batch", "failed"}
          /\ left' = [left EXCEPT ![a] = left[a] \ {q}]
          /\ stored' = [stored EXCEPT ![q] = NoToken]
      BY <3>1 DEF DeleteFamily
    <3>3. CASE s = q
      BY <1>0, <1>2, <3>2, <3>3 DEF Ended
    <3>4. CASE s # q
      <4>1. pc[a] = "batch" /\ s \notin left[a]
        BY <1>0, <1>1, <2>3, <3>2, <3>4
      <4>2. Ended(s, a)
        BY <1>0, <1>1, <2>3, <4>1 DEF RevokeAllCovers
      <4>3. QED
        BY <1>2, <1>4, <2>3, <4>2, EndedStays
    <3>5. QED
      BY <3>3, <3>4
  <2>4. QED
    BY <1>1, <1>4, <2>1, <2>2, <2>3, SweepLocals
<1>5. QED
  BY <1>3, <1>4

-----------------------------------------------------------------------------
(* The records and their shared TTL *)

\* How a step changes the records, by the call that takes it.
LEMMA StepRecordExactly ==
    ASSUME UInv, NEW c \in Calls \cup RevokeAlls, CallStep(c)
    PROVE  \/ UNCHANGED sessions /\ (c \in Calls => pc[c] # "expire")
           \/ /\ c \in Tokens /\ pc[c] # "expire" /\ pc'[c] = "expire"
              /\ of'[c] \in Sessions /\ Records(of'[c])
           \/ Renews
           \/ c \in Calls /\ pc[c] # "expire" /\ (Clears \/ \E s \in Sessions : Unrecords(s))
           \/ c \in RevokeAlls /\ Clears
<1>0. /\ pc \in [Calls \cup RevokeAlls -> Stages] /\ of \in [Calls -> Sessions \cup {NoSession}]
  BY DEF UInv, TypeOK, Stages
<1>1. CASE c \in Logins /\ BeginLogin(c)
  <2>1. PICK s \in Sessions : of' = [of EXCEPT ![c] = s] /\ StoreRecord(c, s)
    BY <1>1 DEF BeginLogin
  <2>2. of'[c] = s /\ pc'[c] = "expire" /\ c \in Tokens /\ pc[c] = "idle"
    BY <1>0, <1>1, <2>1, Apart DEF BeginLogin, StoreRecord, Goto
  <2>3. QED
    BY <2>1, <2>2 DEF StoreRecord, Records
<1>2. CASE c \in Refreshes /\ SignAccessToken(c)
  <2>1. of'[c] = of[c] /\ pc'[c] = "expire" /\ c \in Tokens /\ pc[c] = "hset" /\ of[c] \in Sessions
    BY <1>0, <1>2, Apart, CallFacts DEF SignAccessToken, StoreRecord, Goto
  <2>2. QED
    BY <1>2, <2>1 DEF SignAccessToken, StoreRecord, Records
<1>3. CASE c \in Tokens /\ ExpireRecords(c)
  BY <1>3 DEF ExpireRecords, Renews
<1>4. CASE c \in Calls /\ RemoveRecord(c)
  <2>1. of[c] \in Sessions
    BY <1>4, CallFacts DEF RemoveRecord
  <2>2. QED
    BY <1>4, <2>1 DEF RemoveRecord, Unrecords
<1>5. CASE c \in RevokeAlls /\ DropRecords(c)
  BY <1>5 DEF DropRecords, Clears
<1>6. CASE UNCHANGED sessions /\ (c \in Calls => pc[c] # "expire")
  BY <1>6
<1>7. QED
  BY <1>1, <1>2, <1>3, <1>4, <1>5, <1>6, Apart
  DEF CallStep, LoginStep, RefreshStep, RevokeStep, SweepStep, StoreRefreshToken, TrackFamily,
      RenewIndex, BeginRefresh, Rotate, EndFamily, BeginLogout, DeleteRefreshKey,
      RemoveFromIndex, ListSessions, ReadIndex, DropIndex, DeleteFamily, SweepFails

\* An EXPIRE that is on its way stays so until its own call sends it.
Pending(s) == \E t \in Tokens : pc[t] = "expire" /\ of[t] = s

\* An EXPIRE that is pending stays so until its call is there.
LEMMA PendingStays ==
    ASSUME UInv, NEW c \in Calls \cup RevokeAlls, CallStep(c), c \in Calls => pc[c] # "expire",
           NEW s \in Sessions, Pending(s)
    PROVE  Pending(s)'
<1>1. PICK t \in Tokens : pc[t] = "expire" /\ of[t] = s
  BY DEF Pending
<1>2. t \in Calls /\ t # c
  BY <1>1, Apart
<1>3. QED
  BY <1>1, <1>2, Others DEF Pending

\* A record and its TTL last as long as the access token, after a step of a
\* call.
LEMMA StepCovered ==
    ASSUME UInv, NEW c \in Calls \cup RevokeAlls, CallStep(c), NEW s \in Sessions
    PROVE  Covered(s)'
<1>0. /\ records \subseteq Sessions /\ recordLife \in 0..AccessLife \cup {Forever}
      /\ (records = {} <=> recordLife = 0)
      /\ accessLife \in [Sessions -> 0..AccessLife] /\ lapsed \subseteq Sessions
      /\ AccessLife \in Nat /\ Forever \in Nat
  BY LifeFacts DEF UInv, TypeOK
<1>a. accessLife[s] > 0 /\ s \notin lapsed =>
         s \in records /\ (recordLife >= accessLife[s] \/ Pending(s))
  BY DEF UInv, Covered, Pending
<1>b. SUFFICES accessLife'[s] > 0 /\ s \notin lapsed' =>
                  s \in records' /\ (recordLife' >= accessLife'[s] \/ Pending(s)')
  BY DEF Covered, Pending
<1>1. CASE UNCHANGED sessions /\ (c \in Calls => pc[c] # "expire")
  BY <1>a, <1>1, PendingStays DEF sessions
<1>2. CASE /\ c \in Tokens /\ pc[c] # "expire" /\ pc'[c] = "expire"
           /\ of'[c] \in Sessions /\ Records(of'[c])
  <2>1. CASE s = of'[c]
    <3>1. Pending(s)'
      BY <1>2, <2>1 DEF Pending
    <3>2. QED
      BY <1>2, <2>1, <3>1 DEF Records
  <2>2. CASE s # of'[c]
    <3>1. accessLife'[s] = accessLife[s] /\ (s \notin lapsed' => s \notin lapsed)
      BY <1>0, <1>2, <2>2 DEF Records
    <3>2. s \in records => s \in records' /\ recordLife' = recordLife
      BY <1>2 DEF Records, LifeWith
    <3>3. Pending(s) => Pending(s)'
      BY <1>2, PendingStays
    <3>4. QED
      BY <1>a, <3>1, <3>2, <3>3
  <2>3. QED
    BY <2>1, <2>2
<1>3. CASE Renews
  <2>1. s \in records => recordLife' = AccessLife
    BY <1>3 DEF Renews, LifeRenewed
  <2>2. QED
    BY <1>0, <1>a, <1>3, <2>1 DEF Renews
<1>4. CASE Clears
  BY <1>4 DEF Clears
<1>5. ASSUME NEW q \in Sessions, Unrecords(q), c \in Calls, pc[c] # "expire"
      PROVE  accessLife'[s] > 0 /\ s \notin lapsed' =>
                  s \in records' /\ (recordLife' >= accessLife'[s] \/ Pending(s)')
  <2>1. CASE s = q
    BY <1>0, <1>5, <2>1 DEF Unrecords
  <2>2. CASE s # q
    <3>1. accessLife'[s] = accessLife[s] /\ lapsed' = lapsed
      BY <1>0, <1>5, <2>2 DEF Unrecords
    <3>2. s \in records => s \in records' /\ recordLife' = recordLife
      BY <1>5, <2>2 DEF Unrecords, LifeWithout
    <3>3. Pending(s) => Pending(s)'
      BY <1>5, PendingStays
    <3>4. QED
      BY <1>a, <3>1, <3>2, <3>3
  <2>3. QED
    BY <2>1, <2>2
<1>6. QED
  BY <1>1, <1>2, <1>3, <1>4, <1>5, StepRecordExactly

\* And after a tick, which ages both.
LEMMA TickCovered ==
    ASSUME UInv, Tick, NEW s \in Sessions
    PROVE  Covered(s)'
<1>0. /\ records \subseteq Sessions /\ recordLife \in 0..AccessLife \cup {Forever}
      /\ (records = {} <=> recordLife = 0)
      /\ accessLife \in [Sessions -> 0..AccessLife]
      /\ AccessLife \in Nat /\ Forever \in Nat /\ Forever > AccessLife
  BY LifeFacts DEF UInv, TypeOK
<1>1. /\ recordLife' = Aged(recordLife)
      /\ records' = IF recordLife' = 0 THEN {} ELSE records
      /\ accessLife'[s] = Aged(accessLife[s])
      /\ recordLife' = 0 => lapsed' = lapsed \cup {of[c] : c \in {d \in Tokens : pc[d] = "expire"}}
      /\ recordLife' # 0 => lapsed' = lapsed
      /\ pc' = pc /\ of' = of
  BY DEF Tick
<1>2. Pending(s)' <=> Pending(s)
  BY <1>1 DEF Pending
<1>3. accessLife[s] > 0 /\ s \notin lapsed =>
         s \in records /\ (recordLife >= accessLife[s] \/ Pending(s))
  BY DEF UInv, Covered, Pending
<1>4. SUFFICES ASSUME accessLife'[s] > 0, s \notin lapsed'
               PROVE  s \in records' /\ (recordLife' >= accessLife'[s] \/ Pending(s)')
  BY DEF Covered, Pending
<1>5. /\ accessLife[s] \in 0..AccessLife /\ accessLife[s] > 0
      /\ accessLife'[s] = accessLife[s] - 1
  BY <1>0, <1>1, <1>4 DEF Aged
<1>6. s \notin lapsed
  BY <1>1, <1>4
<1>7. s \in records /\ (recordLife >= accessLife[s] \/ Pending(s))
  BY <1>3, <1>5, <1>6
<1>8. CASE recordLife' = 0
  <2>1. ~ Pending(s)
    BY <1>1, <1>4, <1>8 DEF Pending
  <2>2. recordLife >= accessLife[s] /\ recordLife # 0
    BY <1>0, <1>7, <2>1
  <2>3. recordLife = 1
    BY <1>0, <1>1, <1>8, <2>2 DEF Aged
  <2>4. QED
    BY <1>4, <1>5, <2>2, <2>3
<1>9. CASE recordLife' # 0
  <2>1. records' = records
    BY <1>1, <1>9
  <2>2. recordLife >= accessLife[s] => recordLife' >= accessLife'[s]
    BY <1>0, <1>1, <1>5 DEF Aged
  <2>3. QED
    BY <1>2, <1>7, <2>1, <2>2
<1>10. QED
  BY <1>8, <1>9

\* A tick moves no call.
LEMMA TickKeeps ==
    ASSUME UInv, Tick
    PROVE  CallsBegun' /\ IssuedOnce' /\ BeforeDone' /\ RevokeAllCovers'
<1>1. /\ UNCHANGED <<issued, root, pc, of, presented, found, left, before>>
      /\ \A s \in Sessions : stored'[s] \in {stored[s], NoToken}
  BY DEF Tick, sweep
<1>2. CallsBegun' /\ BeforeDone'
  BY <1>1 DEF UInv, CallsBegun, BeforeDone
<1>3. IssuedOnce'
  BY <1>1 DEF UInv, IssuedOnce
<1>4. \A s \in Sessions, a \in RevokeAlls : Ended(s, a) => Ended(s, a)'
  BY <1>1 DEF Ended
<1>5. found \in [RevokeAlls -> SUBSET Sessions]
  BY DEF UInv, TypeOK
<1>6. RevokeAllCovers'
  <2>1. SUFFICES ASSUME NEW a \in RevokeAlls, NEW s \in found'[a],
                        \/ pc'[a] \in {"drop", "done"}
                        \/ pc'[a] = "batch" /\ s \notin left'[a]
                 PROVE  Ended(s, a)'
    BY DEF RevokeAllCovers, Ended
  <2>2. Ended(s, a)
    BY <1>1, <2>1 DEF UInv, RevokeAllCovers
  <2>3. QED
    BY <1>1, <1>4, <1>5, <2>2
<1>7. QED
  BY <1>2, <1>3, <1>6

-----------------------------------------------------------------------------
(* The inductive invariant *)

\* The invariant holds at first.
LEMMA InitUInv == Init => UInv
<1> SUFFICES ASSUME Init PROVE UInv
  OBVIOUS
<1>1. \A c \in Calls \cup RevokeAlls : pc[c] = "idle"
  BY DEF Init
<1>2. TypeOK
  BY LifeFacts DEF Init, TypeOK, Labels, SweepLabels
<1>3. CallsBegun /\ IssuedOnce /\ BeforeDone
  BY <1>1, Apart DEF Init, CallsBegun, IssuedOnce, BeforeDone
<1>4. RevokeAllCovers
  BY <1>1 DEF Init, RevokeAllCovers
<1>5. \A s \in Sessions : Covered(s)
  BY DEF Init, Covered
<1>6. QED
  BY <1>2, <1>3, <1>4, <1>5 DEF UInv

\* The invariant is inductive.
LEMMA NextUInv == UInv /\ [Next]_vars => UInv'
<1> SUFFICES ASSUME UInv, [Next]_vars PROVE UInv'
  OBVIOUS
<1>1. ASSUME NEW c \in Calls \cup RevokeAlls, CallStep(c) PROVE UInv'
  <2>1. TypeOK' /\ CallsBegun' /\ IssuedOnce' /\ BeforeDone' /\ RevokeAllCovers'
    BY <1>1, StepTypes, StepCallsBegun, StepIssuedOnce, StepBeforeDone, StepCovers
  <2>2. \A s \in Sessions : Covered(s)'
    BY <1>1, StepCovered
  <2>3. QED
    BY <2>1, <2>2 DEF UInv
<1>2. CASE Tick
  <2>1. TypeOK' /\ CallsBegun' /\ IssuedOnce' /\ BeforeDone' /\ RevokeAllCovers'
    BY <1>2, TickTypes, TickKeeps
  <2>2. \A s \in Sessions : Covered(s)'
    BY <1>2, TickCovered
  <2>3. QED
    BY <2>1, <2>2 DEF UInv
<1>3. CASE UNCHANGED vars
  <2>1. /\ UNCHANGED <<stored, life, issued, root, index, indexLife>>
        /\ UNCHANGED <<records, recordLife, accessLife, lapsed>>
        /\ UNCHANGED <<pc, of, presented, found, left, before>>
    BY <1>3 DEF vars, families, indexed, sessions, sweep
  <2>2. TypeOK' /\ CallsBegun' /\ IssuedOnce' /\ BeforeDone'
    BY <2>1 DEF UInv, TypeOK, CallsBegun, IssuedOnce, BeforeDone
  <2>3. RevokeAllCovers' /\ \A s \in Sessions : Covered(s)'
    BY <2>1 DEF UInv, RevokeAllCovers, Ended, Covered
  <2>4. QED
    BY <2>2, <2>3 DEF UInv
<1>4. QED
  BY <1>1, <1>2, <1>3, NextSteps


\* All that is said below of the keys and the calls follows from this.
THEOREM UInvHolds == Spec => []UInv
BY InitUInv, NextUInv, PTL DEF Spec

\* Every variable keeps its type; a refresh key has a TTL exactly while it
\* exists, and neither hash outlives its last field.
THEOREM TypeCorrect == Spec => []TypeOK
<1>1. UInv => TypeOK
  BY DEF UInv
<1>2. QED
  BY <1>1, UInvHolds, PTL

\* revokeAllSessions ends every family it found, for good: whatever refresh was
\* in flight, and however many sessions, calls and sweeps there are.
THEOREM SweepEndsWhatItFound == Spec => []RevokeAllCovers
<1>1. UInv => RevokeAllCovers
  BY DEF UInv
<1>2. QED
  BY <1>1, UInvHolds, PTL

\* An access token that is neither expired nor revoked still has its record,
\* for every pair of lifetimes in which access tokens do not outlive refresh
\* tokens, unless the hash expired between the two commands that wrote it.
THEOREM RecordsOutliveTokens == Spec => []RecordOutlivesToken
<1>1. UInv => RecordOutlivesToken
  <2>1. SUFFICES ASSUME UInv, NEW s \in Sessions, accessLife[s] > 0
                 PROVE  s \in records \cup lapsed
    BY DEF RecordOutlivesToken
  <2>2. Covered(s)
    BY <2>1 DEF UInv
  <2>3. QED
    BY <2>1, <2>2 DEF Covered
<1>2. QED
  BY <1>1, UInvHolds, PTL

-----------------------------------------------------------------------------
(* Every session implements the abstract token family *)

\* A call settles its session and its token before it issues one of its own.
LEMMA Settled ==
    ASSUME UInv, NEW c \in Calls \cup RevokeAlls, CallStep(c), NEW t \in issued
    PROVE  of'[t] = of[t] /\ (t \in Refreshes => presented'[t] = presented[t])
<1>1. t \in Tokens /\ t \in Calls /\ pc[t] # "idle"
  BY Apart DEF UInv, TypeOK, IssuedOnce
<1>2. CASE t # c
  BY <1>1, <1>2, Others, Apart
<1>3. CASE t = c
  <2>0. c \in Tokens /\ c \notin Logouts /\ c \notin RevokeAlls /\ pc[c] # "idle"
    BY <1>1, <1>3, Apart
  <2>1. UNCHANGED <<of, presented>>
    BY <2>0
    DEF CallStep, LoginStep, RefreshStep, RevokeStep, BeginLogin, StoreRefreshToken, TrackFamily,
        RenewIndex, BeginRefresh, Rotate, SignAccessToken, ExpireRecords, EndFamily,
        DeleteRefreshKey, RemoveFromIndex, RemoveRecord
  <2>2. QED
    BY <1>3, <2>1
<1>4. QED
  BY <1>2, <1>3

\* A step that issues nothing leaves the family as it is, or revokes it.
LEMMA QuietRefines ==
    ASSUME NEW s \in Sessions, UNCHANGED issued, stored'[s] \in {stored[s], NoToken},
           \A t \in issued : of'[t] = of[t] /\ (t \in Refreshes => presented'[t] = presented[t])
    PROVE  [Family(s)!FamilyNext]_(Family(s)!familyVars)
<1>1. {t \in issued' : of'[t] = s} = {t \in issued : of[t] = s}
  OBVIOUS
<1>2. {q \in Refreshes \cap issued' : of'[q] = s} = {q \in Refreshes \cap issued : of[q] = s}
  OBVIOUS
<1>3. {<<presented'[r], r>> : r \in {q \in Refreshes \cap issued' : of'[q] = s}}
         = {<<presented[r], r>> : r \in {q \in Refreshes \cap issued : of[q] = s}}
  BY <1>2
<1>4. QED
  BY <1>1, <1>3 DEF Family!FamilyNext, Family!Revoke, Family!familyVars

\* The SET of a login issues its token in its own session.
LEMMA LoginRefines ==
    ASSUME UInv, NEW s \in Sessions, NEW c \in Logins, StoreRefreshToken(c),
           \A t \in issued : of'[t] = of[t] /\ (t \in Refreshes => presented'[t] = presented[t])
    PROVE  [Family(s)!FamilyNext]_(Family(s)!familyVars)
<1>1. /\ of' = of /\ presented' = presented /\ issued' = issued \cup {c}
      /\ stored' = [stored EXCEPT ![of[c]] = c] /\ pc[c] = "set"
  BY DEF StoreRefreshToken
<1>2. /\ c \notin issued /\ c \in Tokens /\ c \notin Refreshes
      /\ stored \in [Sessions -> Tokens \cup {NoToken}]
  BY <1>1, Apart DEF UInv, IssuedOnce, TypeOK
<1>3. Refreshes \cap issued' = Refreshes \cap issued
  BY <1>1, <1>2
<1>4. {<<presented'[r], r>> : r \in {q \in Refreshes \cap issued' : of'[q] = s}}
         = {<<presented[r], r>> : r \in {q \in Refreshes \cap issued : of[q] = s}}
  BY <1>1, <1>3
<1>5. CASE s = of[c]
  <2>1. {t \in issued' : of'[t] = s} = {t \in issued : of[t] = s} \cup {c}
    BY <1>1, <1>5
  <2>2. stored'[s] = c /\ c \notin {t \in issued : of[t] = s}
    BY <1>1, <1>2, <1>5
  <2>3. Family(s)!Issue(c)
    BY <1>4, <2>1, <2>2 DEF Family!Issue
  <2>4. QED
    BY <1>2, <2>3 DEF Family!FamilyNext
<1>6. CASE s # of[c]
  <2>1. {t \in issued' : of'[t] = s} = {t \in issued : of[t] = s}
    BY <1>1, <1>6
  <2>2. stored'[s] = stored[s]
    BY <1>1, <1>2, <1>6
  <2>3. QED
    BY <1>4, <2>1, <2>2 DEF Family!familyVars
<1>7. QED
  BY <1>5, <1>6

\* The compare-and-set consumes the token that the refresh presented.
LEMMA RotateRefines ==
    ASSUME UInv, NEW s \in Sessions, NEW c \in Refreshes,
           Rotate(c), Rotated(c), stored[of[c]] = presented[c]
    PROVE  [Family(s)!FamilyNext]_(Family(s)!familyVars)
<1>1. /\ of' = of /\ presented' = presented /\ issued' = issued \cup {c}
      /\ stored' = [stored EXCEPT ![of[c]] = c] /\ pc[c] = "rotate"
  BY DEF Rotate, Rotated
<1>2. /\ c \notin issued /\ c \in Tokens /\ presented[c] \in issued
      /\ presented[c] # NoToken /\ stored \in [Sessions -> Tokens \cup {NoToken}]
  BY <1>1, Apart, CallFacts DEF UInv, IssuedOnce, TypeOK
<1>3. CASE s = of[c]
  <2>1. {t \in issued' : of'[t] = s} = {t \in issued : of[t] = s} \cup {c}
    BY <1>1, <1>3
  <2>2. {q \in Refreshes \cap issued' : of'[q] = s}
           = {q \in Refreshes \cap issued : of[q] = s} \cup {c}
    BY <1>1, <1>3
  <2>3. {<<presented'[r], r>> : r \in {q \in Refreshes \cap issued' : of'[q] = s}}
           = {<<presented[r], r>> : r \in {q \in Refreshes \cap issued : of[q] = s}}
                \cup {<<stored[s], c>>}
    BY <1>1, <1>3, <2>2
  <2>4. stored'[s] = c /\ c \notin {t \in issued : of[t] = s} /\ stored[s] # NoToken
    BY <1>1, <1>2, <1>3
  <2>5. Family(s)!Succeed(c)
    BY <2>1, <2>3, <2>4 DEF Family!Succeed
  <2>6. QED
    BY <1>2, <2>5 DEF Family!FamilyNext
<1>4. CASE s # of[c]
  <2>1. {t \in issued' : of'[t] = s} = {t \in issued : of[t] = s}
    BY <1>1, <1>4
  <2>2. {q \in Refreshes \cap issued' : of'[q] = s} = {q \in Refreshes \cap issued : of[q] = s}
    BY <1>1, <1>4
  <2>3. {<<presented'[r], r>> : r \in {q \in Refreshes \cap issued' : of'[q] = s}}
           = {<<presented[r], r>> : r \in {q \in Refreshes \cap issued : of[q] = s}}
    BY <1>1, <2>2
  <2>4. stored'[s] = stored[s]
    BY <1>1, <1>2, <1>4
  <2>5. QED
    BY <2>1, <2>3, <2>4 DEF Family!familyVars
<1>5. QED
  BY <1>3, <1>4

\* Every step is, for each session, one of its family or none.
LEMMA NextRefines ==
    UInv /\ [Next]_vars => [\A s \in Sessions : [Family(s)!FamilyNext]_(Family(s)!familyVars)]_vars
<1> SUFFICES ASSUME UInv, [Next]_vars, NEW s \in Sessions
             PROVE  [Family(s)!FamilyNext]_(Family(s)!familyVars)
  OBVIOUS
<1>0. stored \in [Sessions -> Tokens \cup {NoToken}]
  BY DEF UInv, TypeOK
<1>1. ASSUME NEW c \in Calls \cup RevokeAlls, CallStep(c)
      PROVE  [Family(s)!FamilyNext]_(Family(s)!familyVars)
  <2>0. \A t \in issued : of'[t] = of[t] /\ (t \in Refreshes => presented'[t] = presented[t])
    BY <1>1, Settled
  <2>1. CASE UNCHANGED families
    BY <2>0, <2>1, QuietRefines DEF families
  <2>2. CASE c \in Logins /\ StoreRefreshToken(c)
    BY <2>0, <2>2, LoginRefines
  <2>3. CASE c \in Refreshes /\ Rotate(c) /\ Rotated(c) /\ stored[of[c]] = presented[c]
    BY <2>3, RotateRefines
  <2>4. ASSUME NEW q \in Sessions, Deletes(q)
        PROVE  [Family(s)!FamilyNext]_(Family(s)!familyVars)
    <3>1. UNCHANGED issued /\ stored'[s] \in {stored[s], NoToken}
      BY <1>0, <2>4 DEF Deletes
    <3>2. QED
      BY <2>0, <3>1, QuietRefines
  <2>5. QED
    BY <1>1, <2>1, <2>2, <2>3, <2>4, StepStoreExactly
<1>2. CASE Tick
  BY <1>2, QuietRefines DEF Tick
<1>3. CASE UNCHANGED vars
  <2>1. UNCHANGED <<issued, stored, of, presented>>
    BY <1>3 DEF vars, families
  <2>2. QED
    BY <2>1, QuietRefines
<1>4. QED
  BY <1>1, <1>2, <1>3, NextSteps

\* Each session implements TokenFamily, whatever is done to the user's other
\* sessions or to all of them: at any time at most one token is live, a
\* rotation consumes it, and only a login revives a revoked family.
THEOREM SessionsImplementFamilies == Spec => ImplementsFamilies
<1>1. Init => \A s \in Sessions : Family(s)!FamilyInit
  BY DEF Init, Family!FamilyInit
<1>2. QED
  BY <1>1, NextRefines, UInvHolds, PTL DEF Spec, ImplementsFamilies

=============================================================================
