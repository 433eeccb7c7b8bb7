----------------------------- MODULE IpAllowList -----------------------------
(***************************************************************************)
(* The IP allow list of SecurityModule: calls of addIP, removeIP, listIPs  *)
(* and of the white-list middleware, command by command.  An entry, an     *)
(* address or a network, is a member of a Redis set and has a marker key   *)
(* whose TTL is the entry's; a member whose marker is gone is removed from *)
(* the set by whoever meets it.  A request that is admitted goes on to the *)
(* module's rate limiter, a library's.                                     *)
(***************************************************************************)
EXTENDS ClientIp, FiniteSets

CONSTANTS
    Networks,    \* CIDR entries
    Covers,      \* isIpInCidr: the <<network, address>> pairs
    Adds,        \* calls of addIP
    Removes,     \* calls of removeIP
    Checks,      \* requests through the white-list middleware
    Lists,       \* calls of listIPs
    BatchSize,   \* REDIS_ENTRY_BATCH_SIZE
    MaxFaults    \* failures of a command or of the audit sink

Entries == Addresses \cup Networks
Kinds   == {"exact", "cidr"}

\* listIPs scans both sets at once; the middleware scans the networks.
Halves   == Lists \X Kinds
Scanners == Checks \cup Halves
Calls    == Adds \cup Removes \cup Scanners

ASSUME AllowListAssumption ==
    /\ (Addresses \cup {Unknown}) \cap Networks = {}
    /\ Covers \subseteq Networks \X Addresses
    /\ Adds \cap Removes = {}
    /\ (Adds \cup Removes) \cap Scanners = {}
    /\ Checks \cap Halves = {}
    /\ BatchSize \in Nat \ {0}
    /\ MaxFaults \in Nat

VARIABLES
    members,   \* the entries in the two sets
    marked,    \* the entries whose marker key exists
    pc,        \* the await each call is suspended at
    verdict,   \* what a check ended with
    request,   \* the peer and header of a check, until its address is resolved
    ip,        \* the address it resolved
    todo,      \* the entries a scan has yet to look up
    active,    \* those it found marked
    expired,   \* those it found unmarked and has yet to remove
    faults,    \* failures so far
    live,      \* history: the entries marked at some moment of a check
    steady,    \* history: the entries marked, and not raced, at every moment of
               \* a check
    raced      \* history: the entries last added while a scan that had found
               \* them unmarked had yet to remove them

store   == <<members, marked>>
scan    == <<todo, active, expired>>
history == <<live, steady, raced>>
vars    == <<store, pc, verdict, request, ip, scan, faults, history>>

-----------------------------------------------------------------------------

Headers == {NoHeader} \cup UNION {[1..n -> Addresses \cup {Unknown}] : n \in 1..MaxHops + 1}

Request == [peer : Addresses \cup {Unknown}, header : Headers]
Direct  == [peer |-> Unknown, header |-> NoHeader]

Labels == {"idle", "audit", "resolve", "exact", "members", "mget", "srem", "deny",
           "consume", "limit", "done"}

\* "limited" and "unavailable": admitted by the list, stopped by the limiter.
Verdicts == {"none", "allowed", "denied", "limited", "unavailable"}

TypeOK ==
    /\ members \subseteq Entries
    /\ marked \subseteq Entries
    /\ pc \in [Calls -> Labels]
    /\ verdict \in [Checks -> Verdicts]
    /\ request \in [Checks -> Request]
    /\ ip \in [Checks -> Addresses \cup {Unknown}]
    /\ todo \in [Scanners -> SUBSET Entries]
    /\ active \in [Scanners -> SUBSET Entries]
    /\ expired \in [Scanners -> SUBSET Entries]
    /\ faults \in 0..MaxFaults
    /\ live \in [Checks -> SUBSET Entries]
    /\ steady \in [Checks -> SUBSET Entries]
    /\ raced \subseteq Entries
    /\ \A s \in Scanners : active[s] \cap expired[s] = {}

Init ==
    /\ members = {}
    /\ marked = {}
    /\ pc = [c \in Calls |-> "idle"]
    /\ verdict = [c \in Checks |-> "none"]
    /\ request = [c \in Checks |-> Direct]
    /\ ip = [c \in Checks |-> Unknown]
    /\ todo = [s \in Scanners |-> {}]
    /\ active = [s \in Scanners |-> {}]
    /\ expired = [s \in Scanners |-> {}]
    /\ faults = 0
    /\ live = [c \in Checks |-> {}]
    /\ steady = [c \in Checks |-> {}]
    /\ raced = {}

-----------------------------------------------------------------------------
(* Control *)

Goto(c, label) == pc' = [pc EXCEPT ![c] = label] /\ UNCHANGED <<verdict, faults>>

Decide(c, v) ==
    /\ verdict' = [verdict EXCEPT ![c] = v]
    /\ pc' = [pc EXCEPT ![c] = CASE v = "denied"  -> "deny"
                                 [] v = "allowed" -> "consume"
                                 [] v = "limited" -> "limit"
                                 [] OTHER         -> "done"]
    /\ UNCHANGED faults

\* A call throws; isAllowed catches, and answers no; what the audit of a
\* refusal throws goes to the application.
Reject(c) ==
    /\ faults < MaxFaults
    /\ faults' = faults + 1
    /\ IF c \in Checks /\ pc[c] \notin {"deny", "limit"}
       THEN /\ verdict' = [verdict EXCEPT ![c] = "denied"]
            /\ pc' = [pc EXCEPT ![c] = "deny"]
       ELSE pc' = [pc EXCEPT ![c] = "done"] /\ UNCHANGED verdict

Reply(c, label) == Goto(c, label) \/ Reject(c)

Scanned(s) == IF s \in Checks THEN Networks
              ELSE IF s[2] = "exact" THEN Addresses ELSE Networks

\* The list has not begun to judge a request, or has judged it.
Judged(c) == pc[c] = "idle" \/ verdict[c] # "none"

\* The checks under way witness the entries that are marked now.
Witness ==
    /\ live' = [c \in Checks |-> IF Judged(c) THEN live[c] ELSE live[c] \cup marked']
    /\ steady' = [c \in Checks |->
                     IF Judged(c) THEN steady[c] ELSE steady[c] \cap (marked' \ raced')]

-----------------------------------------------------------------------------
(* addIP and removeIP: a MULTI each *)

AddIP(a) ==
    /\ pc[a] = "idle"
    /\ \E e \in Entries :
          /\ members' = members \cup {e}
          /\ marked' = marked \cup {e}
          /\ raced' = IF \E s \in Scanners : e \in expired[s] THEN raced \cup {e}
                      ELSE raced \ {e}
    /\ Witness
    /\ Reply(a, "audit")
    /\ UNCHANGED <<request, ip, scan>>

RemoveIP(r) ==
    /\ pc[r] = "idle"
    /\ \E e \in Entries :
          /\ members' = members \ {e}
          /\ marked' = marked \ {e}
    /\ UNCHANGED <<request, ip, scan, raced>>
    /\ Witness
    /\ Reply(r, "audit")

AuditChange(c) ==
    /\ pc[c] = "audit"
    /\ Reply(c, "done")
    /\ UNCHANGED <<store, request, ip, scan, history>>

\* The TTL of a marker ends.
MarkerExpires(e) ==
    /\ e \in marked
    /\ marked' = marked \ {e}
    /\ UNCHANGED <<members, pc, verdict, request, ip, scan, faults, raced>>
    /\ Witness

-----------------------------------------------------------------------------
(* whiteListMiddleware and isAllowed *)

BeginCheck(c) ==
    /\ pc[c] = "idle"
    /\ \E q \in Request : request' = [request EXCEPT ![c] = q]
    /\ live' = [live EXCEPT ![c] = marked]
    /\ steady' = [steady EXCEPT ![c] = marked \ raced]
    /\ Goto(c, "resolve")
    /\ UNCHANGED <<store, ip, scan, raced>>

ResolveIp(c) ==
    /\ pc[c] = "resolve"
    /\ ip' = [ip EXCEPT ![c] = ResolveClientIp(request[c].peer, request[c].header)]
    /\ request' = [request EXCEPT ![c] = Direct]
    /\ IF ip'[c] = Unknown THEN Decide(c, "denied") ELSE Goto(c, "exact")
    /\ UNCHANGED <<store, scan, history>>

\* Seeded fault: membership alone admits.
CheckMembership(c) ==
    /\ pc[c] = "exact"
    /\ IF ip[c] \in members THEN Decide(c, "allowed") ELSE Goto(c, "members")
    /\ UNCHANGED <<store, request, ip, scan, history>>

\* EXACT_ALLOW_SCRIPT: a member without its marker is removed.
CheckExact(c) ==
    /\ pc[c] = "exact"
    /\ IF ip[c] \in members \cap marked
       THEN Decide(c, "allowed") /\ UNCHANGED members
       ELSE /\ members' = members \ {ip[c]}
            /\ Reply(c, "members")
    /\ UNCHANGED <<marked, request, ip, scan, history>>

-----------------------------------------------------------------------------
(* activeEntries: for a check over the networks, for a list over both sets *)

BeginList(l) ==
    /\ \A k \in Kinds : pc[<<l, k>>] = "idle"
    /\ pc' = [c \in Calls |-> IF c \in {l} \X Kinds THEN "members" ELSE pc[c]]
    /\ UNCHANGED <<store, verdict, request, ip, scan, faults, history>>

\* What is left of a scan whose look-ups and removals are done.
Finish(s) ==
    IF s \notin Checks THEN Goto(s, "done")
    ELSE IF \E n \in active'[s] : <<n, ip[s]>> \in Covers THEN Decide(s, "allowed")
    ELSE Decide(s, "denied")

\* SMEMBERS.
ReadMembers(s) ==
    /\ pc[s] = "members"
    /\ todo' = [todo EXCEPT ![s] = members \cap Scanned(s)]
    /\ UNCHANGED <<active, expired>>
    /\ IF todo'[s] = {} THEN Finish(s) ELSE Goto(s, "mget")
    /\ UNCHANGED <<store, request, ip, history>>

\* A listing looks entries up once it has read both sets.
BothRead(s) ==
    IF s \in Checks THEN TRUE ELSE \A k \in Kinds : pc[<<s[1], k>>] # "members"

\* A batch: as many of the entries left as it holds.
BatchOf(left) ==
    IF Cardinality(left) <= BatchSize THEN {left}
    ELSE {b \in SUBSET left : Cardinality(b) = BatchSize}

\* Seeded fault: the batches overlap.
ReadMarkersAgain(s) ==
    /\ pc[s] = "mget"
    /\ BothRead(s)
    /\ \E b \in BatchOf(todo[s]) :
          /\ todo' = [todo EXCEPT ![s] = @ \ b]
          /\ active' = [active EXCEPT ![s] = @ \cup (b \cap marked)]
          /\ expired' = [expired EXCEPT ![s] = @ \cup ((b \cup active[s]) \ marked)]
    /\ IF todo'[s] # {} THEN Goto(s, "mget")
       ELSE IF expired'[s] # {} THEN Goto(s, "srem") ELSE Finish(s)
    /\ UNCHANGED <<store, request, ip, history>>

\* MGET of a batch of markers.
ReadMarkers(s) ==
    /\ pc[s] = "mget"
    /\ BothRead(s)
    /\ \E b \in BatchOf(todo[s]) :
          /\ todo' = [todo EXCEPT ![s] = @ \ b]
          /\ active' = [active EXCEPT ![s] = @ \cup (b \cap marked)]
          /\ expired' = [expired EXCEPT ![s] = @ \cup (b \ marked)]
    /\ IF todo'[s] # {} THEN Goto(s, "mget")
       ELSE IF expired'[s] # {} THEN Goto(s, "srem") ELSE Finish(s)
    /\ UNCHANGED <<store, request, ip, history>>

\* Seeded fault: everything that was looked up is removed.
RemoveScanned(s) ==
    /\ pc[s] = "srem"
    /\ members' = members \ (expired[s] \cup active[s])
    /\ expired' = [expired EXCEPT ![s] = {}]
    /\ UNCHANGED <<todo, active>>
    /\ Finish(s) \/ Reject(s)
    /\ UNCHANGED <<marked, request, ip, history>>

\* SREM of a batch of the entries found unmarked.
RemoveExpired(s) ==
    /\ pc[s] = "srem"
    /\ \E b \in BatchOf(expired[s]) :
          /\ members' = members \ b
          /\ expired' = [expired EXCEPT ![s] = @ \ b]
    /\ UNCHANGED <<todo, active>>
    /\ (IF expired'[s] # {} THEN Goto(s, "srem") ELSE Finish(s)) \/ Reject(s)
    /\ UNCHANGED <<marked, request, ip, history>>

AuditDenied(c) ==
    /\ pc[c] = "deny"
    /\ Reply(c, "done")
    /\ UNCHANGED <<store, request, ip, scan, history>>

-----------------------------------------------------------------------------
(* rateLimiterMiddleware *)

\* consume of rate-limiter-flexible: the request goes on, is over the limit, or
\* the limiter cannot tell, which is not held to be over the limit.
ConsumePoint(c) ==
    /\ pc[c] = "consume"
    /\ \/ Goto(c, "done")
       \/ Decide(c, "limited")
       \/ /\ faults < MaxFaults
          /\ faults' = faults + 1
          /\ verdict' = [verdict EXCEPT ![c] = "unavailable"]
          /\ pc' = [pc EXCEPT ![c] = "done"]
    /\ UNCHANGED <<store, request, ip, scan, history>>

AuditLimited(c) ==
    /\ pc[c] = "limit"
    /\ Reply(c, "done")
    /\ UNCHANGED <<store, request, ip, scan, history>>

-----------------------------------------------------------------------------

\* A command rejects without effect.
CommandFails(s) ==
    /\ pc[s] \in {"exact", "members", "mget", "srem"}
    /\ Reject(s)
    /\ UNCHANGED <<store, request, ip, scan, history>>

-----------------------------------------------------------------------------

ScanStep(s) ==
    ReadMembers(s) \/ ReadMarkers(s) \/ RemoveExpired(s) \/ CommandFails(s)

Interleaved ==
    \/ \E a \in Adds : AddIP(a)
    \/ \E r \in Removes : RemoveIP(r)
    \/ \E c \in Adds \cup Removes : AuditChange(c)
    \/ \E c \in Checks : BeginCheck(c) \/ CheckExact(c) \/ AuditDenied(c)
                          \/ ConsumePoint(c) \/ AuditLimited(c)
    \/ \E l \in Lists : BeginList(l)
    \/ \E s \in Scanners : ScanStep(s)
    \/ \E e \in Entries : MarkerExpires(e)

\* The middleware resolves the address before its first await: no other step
\* comes between.
Awaiting == \A c \in Checks : pc[c] # "resolve"

Next ==
    \/ \E c \in Checks : ResolveIp(c)
    \/ Awaiting /\ Interleaved

Spec == Init /\ [][Next]_vars

-----------------------------------------------------------------------------
(* Properties *)

CoveredBy(e, c) == e = ip[c] \/ <<e, ip[c]>> \in Covers

\* A request is admitted only if an entry for its address was in force at some
\* moment of the check, however its commands interleave with removals and
\* expiry: a member left behind by its marker admits nobody.
AllowedWasListed ==
    \A c \in Checks :
        verdict[c] \in {"allowed", "limited", "unavailable"} => \E e \in live[c] : CoveredBy(e, c)

\* A request is denied, when nothing failed, only if every entry for its address
\* was, at some moment of the check, not in force, or in force by an addition
\* made while a scan that had found its predecessor expired was about to remove
\* it from the set.
DeniedForCause ==
    \A c \in Checks :
        verdict[c] = "denied" /\ faults = 0 =>
            \A e \in steady[c] : ~ CoveredBy(e, c)

\* "X-Forwarded-For is ignored unless trustedProxyCidrs is configured. The
\* chain is walked right-to-left and stops at the first untrusted hop": the
\* address stands in the chain, every hop to its right is a trusted proxy, and
\* it is no trusted proxy itself unless the chain ends there.
BehindTrustedProxies ==
    \A c \in Checks :
        pc[c] = "resolve" =>
            LET q     == request[c]
                a     == ResolveClientIp(q.peer, q.header)
                chain == IF q.header = NoHeader THEN <<q.peer>> ELSE Append(q.header, q.peer)
            IN a # Unknown =>
                  \E i \in DOMAIN chain :
                      /\ chain[i] = a
                      /\ \A j \in DOMAIN chain : j > i => chain[j] \in Trusted
                      /\ a \in Trusted => i = 1

=============================================================================
