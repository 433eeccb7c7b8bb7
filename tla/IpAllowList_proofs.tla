-------------------------- MODULE IpAllowList_proofs --------------------------
(***************************************************************************)
(* For every number of addresses, networks, calls and failures, and every  *)
(* batch size and length of a chain: the invariants that IpAllowList and   *)
(* ClientIp state.                                                         *)
(***************************************************************************)
EXTENDS IpAllowList, TLAPS, WellFoundedInduction

-----------------------------------------------------------------------------
(* The strengthening of the invariants *)

\* The set holds every entry in force that no removal is about to meet.
MembersKept == marked \ raced \subseteq members

\* A scan looks each entry up once; what it found unmarked and is marked again
\* was added meanwhile.
ScanCourse(s) ==
    /\ pc[s] \in {"idle", "resolve", "exact", "members"} =>
          todo[s] = {} /\ active[s] = {} /\ expired[s] = {}
    /\ todo[s] \cap (active[s] \cup expired[s]) = {}
    /\ pc[s] = "srem" => todo[s] = {}
    /\ expired[s] \cap marked \subseteq raced

Searching == {"resolve", "exact", "members", "mget", "srem"}

\* What a check has found was in force, and what was in force all along it has
\* found, or will.
CheckCourse(c) ==
    /\ pc[c] \in Searching \cup {"idle", "deny", "consume", "limit", "done"}
    /\ verdict[c] = "none" <=> pc[c] \in Searching \cup {"idle"}
    /\ pc[c] = "consume" => verdict[c] = "allowed"
    /\ pc[c] \in Searching =>
          /\ marked \cup active[c] \subseteq live[c]
          /\ steady[c] \subseteq marked \ raced
    /\ pc[c] \in {"members", "mget", "srem"} => ip[c] \notin steady[c]
    /\ pc[c] = "mget" => steady[c] \cap Networks \subseteq todo[c] \cup active[c]
    /\ pc[c] = "srem" => steady[c] \cap Networks \subseteq active[c]
    /\ verdict[c] \in {"allowed", "limited", "unavailable"} => \E e \in live[c] : CoveredBy(e, c)
    /\ verdict[c] = "denied" /\ faults = 0 => \A e \in steady[c] : ~ CoveredBy(e, c)

LInv ==
    /\ TypeOK
    /\ MembersKept
    /\ \A s \in Scanners : ScanCourse(s)
    /\ \A c \in Checks : CheckCourse(c)

-----------------------------------------------------------------------------
(* Where the walk of a chain ends *)

\* A set of natural numbers has a least element.
LEMMA Smallest ==
    ASSUME NEW T, T \subseteq Nat, T # {}
    PROVE  \E x \in T : \A y \in T : x <= y
<1> DEFINE R == OpToRel(<, Nat)
<1>1. IsWellFoundedOn(R, Nat)
  BY NatLessThanWellFounded
<1>2. ASSUME NEW x \in Nat, NEW y \in Nat, y < x PROVE <<y, x>> \in R
  BY <1>2 DEF OpToRel
<1> HIDE DEF R
<1>3. PICK x \in T : \A y \in T : ~ (<<y, x>> \in R)
  BY <1>1, WFMin
<1>4. ASSUME NEW y \in T PROVE x <= y
  <2>1. ~ (y < x)
    BY <1>2, <1>3
  <2>2. x \in Nat /\ y \in Nat
    OBVIOUS
  <2>3. QED
    BY <2>1, <2>2
<1>5. QED
  BY <1>4

\* A set of positions has a last one.
LEMMA Last ==
    ASSUME NEW n \in Nat, NEW T, T \subseteq 1..n, T # {}
    PROVE  \E x \in T : \A y \in T : y <= x
<1> DEFINE U == {n - y : y \in T}
<1>1. U \subseteq Nat /\ U # {}
  <2>1. ASSUME NEW y \in T PROVE n - y \in Nat
    <3>1. y \in 1..n
      OBVIOUS
    <3>2. QED
      BY <3>1
  <2>2. QED
    BY <2>1
<1>2. PICK u \in U : \A w \in U : u <= w
  BY <1>1, Smallest
<1>3. PICK x \in T : u = n - x
  OBVIOUS
<1>4. ASSUME NEW y \in T PROVE y <= x
  <2>1. n - x <= n - y
    BY <1>2, <1>3
  <2>2. x \in Nat /\ y \in Nat
    OBVIOUS
  <2>3. QED
    BY <2>1, <2>2
<1>5. QED
  BY <1>4

\* The walk of createClientIpResolver from the right: it ends at a hop behind
\* which all are trusted, the first that is not trusted itself or the leftmost.
LEMMA WalkEnds ==
    ASSUME NEW hops, NEW n \in Nat, n > 0, n = Len(hops)
    PROVE  \E k \in 1..n : /\ Walk(hops) = hops[k]
                           /\ \A j \in 1..n : j > k => hops[j] \in Trusted
                           /\ hops[k] \in Trusted => k = 1
<1> DEFINE Stop(i) == i = 1 \/ hops[i] \notin Trusted
           stop(i, k) == Stop(k) /\ \A j \in 1..i : Stop(j) => j <= k
           last(i) == CHOOSE k \in 1..i : stop(i, k)
           g == [i \in 1..n |-> hops[last(i)]]
<1>1. ASSUME NEW i \in 1..n PROVE last(i) \in 1..i /\ stop(i, last(i))
  <2> DEFINE T == {k \in 1..i : Stop(k)}
  <2>1. 1 \in T /\ T \subseteq 1..i /\ i \in Nat
    OBVIOUS
  <2>2. \E k \in T : \A j \in T : j <= k
    BY <2>1, Last
  <2>3. \E k \in 1..i : stop(i, k)
    BY <2>2
  <2> HIDE DEF stop
  <2>4. QED
    BY <2>3
<1>2. ASSUME NEW i \in 1..n, NEW k \in 1..i, stop(i, k) PROVE last(i) = k
  <2>1. last(i) \in 1..i /\ stop(i, last(i))
    BY <1>1
  <2>2. last(i) <= k /\ k <= last(i)
    BY <1>2, <2>1
  <2> HIDE DEF last
  <2>3. QED
    BY <2>1, <2>2
<1>3. ASSUME NEW i \in 1..n PROVE g[i] = IF Stop(i) THEN hops[i] ELSE g[i - 1]
  <2>1. CASE Stop(i)
    <3>1. stop(i, i) /\ i \in 1..i
      BY <2>1
    <3>2. last(i) = i
      BY <1>2, <3>1
    <3>3. QED
      BY <2>1, <3>2
  <2>2. CASE ~ Stop(i)
    <3>1. i - 1 \in 1..n /\ 1..(i - 1) \subseteq 1..i
      BY <2>2
    <3>2. last(i - 1) \in 1..(i - 1) /\ stop(i - 1, last(i - 1))
      BY <1>1, <3>1
    <3> DEFINE k == last(i - 1)
    <3>3. k \in 1..i /\ Stop(k) /\ \A j \in 1..(i - 1) : Stop(j) => j <= k
      BY <3>1, <3>2
    <3> HIDE DEF k
    <3>4. \A j \in 1..i : Stop(j) => j <= k
      BY <2>2, <3>3
    <3>5. last(i) = k
      BY <1>2, <3>3, <3>4
    <3>6. g[i] = hops[k] /\ g[i - 1] = hops[k]
      BY <3>1, <3>5 DEF k
    <3>7. QED
      BY <2>2, <3>6
  <2>3. QED
    BY <2>1, <2>2
<1> DEFINE F(f) == [i \in 1..n |-> IF i = 1 \/ hops[i] \notin Trusted THEN hops[i]
                                   ELSE f[i - 1]]
           from == CHOOSE f : f = F(f)
<1>4. g = F(g)
  <2>1. g = [i \in 1..n |-> g[i]]
    OBVIOUS
  <2> HIDE DEF g
  <2>2. QED
    BY <1>3, <2>1
<1>5. from = F(from)
  <2> HIDE DEF g, F
  <2>1. QED
    BY <1>4
<1>6. Walk(hops) = from[n]
  BY DEF Walk
<1> DEFINE wrong == {i \in 1..n : from[i] # g[i]}
<1>7. wrong = {}
  <2> SUFFICES ASSUME wrong # {} PROVE FALSE
    OBVIOUS
  <2> HIDE DEF g, from
  <2>1. wrong \subseteq Nat
    OBVIOUS
  <2>2. PICK i \in wrong : \A j \in wrong : i <= j
    BY <2>1, Smallest
  <2>3. from[i] = IF Stop(i) THEN hops[i] ELSE from[i - 1]
    BY <1>5
  <2>4. ~ Stop(i)
    BY <1>3, <2>3
  <2>5. i - 1 \in 1..n /\ i - 1 \notin wrong
    BY <2>2, <2>4
  <2>6. from[i - 1] = g[i - 1]
    BY <2>5
  <2>7. QED
    BY <1>3, <2>3, <2>4, <2>6
<1>8. from[n] = hops[last(n)] /\ n \in 1..n
  <2>1. n \in 1..n
    OBVIOUS
  <2>2. from[n] = g[n]
    BY <1>7, <2>1
  <2> HIDE DEF from, last
  <2>3. QED
    BY <2>1, <2>2
<1>9. last(n) \in 1..n /\ stop(n, last(n))
  BY <1>1, <1>8
<1> HIDE DEF last, from
<1>10. QED
  BY <1>6, <1>8, <1>9

\* The address that is resolved stands in the chain where the walk ends.
LEMMA Resolved ==
    ASSUME NEW peer \in Addresses \cup {Unknown}, NEW header \in Headers,
           ResolveClientIp(peer, header) # Unknown
    PROVE  LET a     == ResolveClientIp(peer, header)
               chain == IF header = NoHeader THEN <<peer>> ELSE Append(header, peer)
           IN  /\ a \in Addresses
               /\ \E i \in DOMAIN chain :
                     /\ chain[i] = a
                     /\ \A j \in DOMAIN chain : j > i => chain[j] \in Trusted
                     /\ a \in Trusted => i = 1
<1> DEFINE a == ResolveClientIp(peer, header)
           chain == IF header = NoHeader THEN <<peer>> ELSE Append(header, peer)
           Ends(i) == /\ chain[i] = a
                      /\ \A j \in DOMAIN chain : j > i => chain[j] \in Trusted
                      /\ a \in Trusted => i = 1
<1> SUFFICES a \in Addresses /\ \E i \in DOMAIN chain : Ends(i)
  OBVIOUS
<1>0. peer \in Addresses
  BY DEF ResolveClientIp
<1>1. CASE header = NoHeader
  <2>1. a = peer
    BY <1>0, <1>1, ClientIpAssumption DEF ResolveClientIp
  <2>2. chain = <<peer>>
    BY <1>1
  <2>3. DOMAIN chain = {1} /\ chain[1] = a
    BY <2>1, <2>2
  <2>4. Ends(1)
    BY <2>3
  <2>5. QED
    BY <1>0, <2>1, <2>3, <2>4
<1>2. CASE header # NoHeader
  <2>1. PICK n \in 1..MaxHops + 1 : header \in [1..n -> Addresses \cup {Unknown}]
    BY <1>2 DEF Headers
  <2>2. n \in Nat /\ header \in Seq(Addresses \cup {Unknown}) /\ Len(header) = n
    BY <2>1, ClientIpAssumption
  <2> DEFINE hops == Append(header, peer)
  <2>3. /\ Len(hops) = n + 1 /\ DOMAIN hops = 1..(n + 1) /\ hops[n + 1] = peer
        /\ \A i \in 1..n : hops[i] = header[i]
    BY <1>0, <2>2
  <2>4. chain = hops
    BY <1>2
  <2> HIDE DEF hops, chain
  <2>5. CASE peer \notin Trusted
    <3>1. a = peer
      BY <1>0, <2>5, ClientIpAssumption DEF ResolveClientIp
    <3>2. n + 1 \in DOMAIN chain /\ Ends(n + 1)
      <4> HIDE DEF a
      <4>1. QED
        BY <1>0, <2>2, <2>3, <2>4, <2>5, <3>1
    <3>3. QED
      BY <1>0, <3>1, <3>2
  <2>6. CASE peer \in Trusted
    <3>1. a = Walk(hops) /\ ~ Malformed(header)
      BY <1>0, <1>2, <2>6, ClientIpAssumption DEF ResolveClientIp, hops
    <3>2. PICK k \in 1..(n + 1) :
             /\ Walk(hops) = hops[k]
             /\ \A j \in 1..(n + 1) : j > k => hops[j] \in Trusted
             /\ hops[k] \in Trusted => k = 1
      BY <2>2, <2>3, WalkEnds
    <3>3. Ends(k) /\ k \in DOMAIN chain
      <4> HIDE DEF a
      <4>1. QED
        BY <2>3, <2>4, <3>1, <3>2
    <3>4. hops[k] \in Addresses
      <4>1. DOMAIN header = 1..n
        BY <2>1
      <4>2. \A i \in 1..n : header[i] \in Addresses
        BY <2>1, <3>1, <4>1 DEF Malformed
      <4>3. k = n + 1 \/ k \in 1..n
        BY <2>2
      <4>4. QED
        BY <1>0, <2>3, <4>2, <4>3
    <3>5. a \in Addresses
      BY <3>1, <3>2, <3>4
    <3> HIDE DEF Ends
    <3>6. QED
      BY <3>3, <3>5
  <2>7. QED
    BY <2>5, <2>6
<1>3. QED
  BY <1>1, <1>2


-----------------------------------------------------------------------------
(* How a call goes on *)

\* The kinds of calls and of entries are disjoint.
LEMMA Apart ==
    /\ Adds \subseteq Calls /\ Removes \subseteq Calls /\ Checks \subseteq Scanners
    /\ Scanners \subseteq Calls /\ Adds \cap Removes = {}
    /\ Adds \cap Scanners = {} /\ Removes \cap Scanners = {}
    /\ Unknown \notin Entries /\ Covers \subseteq Networks \X Addresses
    /\ MaxFaults \in Nat /\ Addresses \subseteq Entries /\ Networks \subseteq Entries
    /\ Addresses \cap Networks = {}
BY AllowListAssumption, ClientIpAssumption DEF Calls, Scanners, Entries

\* At most the call, its verdict and the count of failures change.
Turned(c) ==
    /\ pc' \in [Calls -> Labels] /\ verdict' \in [Checks -> Verdicts] /\ faults' \in 0..MaxFaults
    /\ faults <= faults'
    /\ \A t \in Calls \ {c} : pc'[t] = pc[t]
    /\ \A t \in Checks \ {c} : verdict'[t] = verdict[t]

\* The ways a step can end each move one call.
LEMMA GotoTurns ==
    ASSUME TypeOK, NEW c \in Calls, NEW x \in Labels, Goto(c, x)
    PROVE  Turned(c) /\ pc'[c] = x /\ verdict' = verdict /\ faults' = faults
BY Apart DEF TypeOK, Goto, Turned

\* A decision moves its check to what answers it.
LEMMA DecideTurns ==
    ASSUME TypeOK, NEW c \in Checks, NEW v \in {"denied", "allowed", "limited"}, Decide(c, v)
    PROVE  /\ Turned(c) /\ verdict'[c] = v /\ faults' = faults
           /\ v = "denied" => pc'[c] = "deny"
           /\ v = "allowed" => pc'[c] = "consume"
           /\ v = "limited" => pc'[c] = "limit"
<1> DEFINE x == CASE v = "denied"  -> "deny"
                  [] v = "allowed" -> "consume"
                  [] v = "limited" -> "limit"
                  [] OTHER         -> "done"
<1>1. /\ v = "denied" => x = "deny"
      /\ v = "allowed" => x = "consume"
      /\ v = "limited" => x = "limit"
  <2>1. CASE v = "denied"
    BY <2>1
  <2>2. CASE v = "allowed"
    BY <2>2
  <2>3. CASE v = "limited"
    BY <2>3
  <2>4. QED
    BY <2>1, <2>2, <2>3
<1>2. pc' = [pc EXCEPT ![c] = x] /\ verdict' = [verdict EXCEPT ![c] = v] /\ faults' = faults
  BY DEF Decide
<1> HIDE DEF x
<1>3. x \in Labels /\ v \in Verdicts
  BY <1>1 DEF Labels, Verdicts
<1>4. QED
  BY <1>1, <1>2, <1>3, Apart DEF TypeOK, Turned

\* A rejection ends its call, and denies a check that was not answered.
LEMMA RejectTurns ==
    ASSUME TypeOK, NEW c \in Calls, Reject(c)
    PROVE  /\ Turned(c) /\ faults' > 0
           /\ c \in Checks /\ pc[c] \notin {"deny", "limit"} =>
                 pc'[c] = "deny" /\ verdict'[c] = "denied"
           /\ ~ (c \in Checks /\ pc[c] \notin {"deny", "limit"}) =>
                 pc'[c] = "done" /\ verdict' = verdict
BY Apart DEF TypeOK, Reject, Turned, Labels, Verdicts

\* A scan that is over has found a network of the address, or none.
Concluded(s) ==
    /\ s \notin Checks => pc'[s] = "done" /\ verdict' = verdict
    /\ s \in Checks =>
          \/ /\ pc'[s] = "consume" /\ verdict'[s] = "allowed"
             /\ \E n \in active'[s] : <<n, ip[s]>> \in Covers
          \/ /\ pc'[s] = "deny" /\ verdict'[s] = "denied"
             /\ \A n \in active'[s] : <<n, ip[s]>> \notin Covers

\* The end of a scan answers a check by what the scan has found.
LEMMA FinishTurns ==
    ASSUME TypeOK, NEW s \in Scanners, Finish(s)
    PROVE  Turned(s) /\ faults' = faults /\ Concluded(s)
<1>1. CASE s \notin Checks
  BY <1>1, GotoTurns, Apart DEF Finish, Concluded, Labels
<1>2. CASE s \in Checks /\ \E n \in active'[s] : <<n, ip[s]>> \in Covers
  <2>1. Decide(s, "allowed")
    BY <1>2 DEF Finish
  <2>2. QED
    BY <1>2, <2>1, DecideTurns DEF Concluded
<1>3. CASE s \in Checks /\ ~ \E n \in active'[s] : <<n, ip[s]>> \in Covers
  <2>1. Decide(s, "denied")
    BY <1>3 DEF Finish
  <2>2. QED
    BY <1>3, <2>1, DecideTurns DEF Concluded
<1>4. QED
  BY <1>1, <1>2, <1>3

-----------------------------------------------------------------------------
(* Additions, removals and expiry *)

\* What the store does without a scan: the checks under way witness it.
StoreStep ==
    /\ UNCHANGED <<request, ip, scan>>
    /\ Witness
    /\ \A s \in Scanners : pc'[s] = pc[s]
    /\ verdict' = verdict /\ faults <= faults'
    /\ MembersKept'
    /\ \A s \in Scanners : expired[s] \cap marked' \subseteq raced'

\* An addition changes the store as StoreStep says.
LEMMA AddSteps ==
    ASSUME LInv, NEW a \in Adds, AddIP(a)
    PROVE  StoreStep /\ TypeOK'
<1>0. /\ TypeOK /\ MembersKept /\ a \in Calls /\ a \notin Scanners /\ a \notin Checks
      /\ \A s \in Scanners : expired[s] \cap marked \subseteq raced
  BY Apart DEF LInv, ScanCourse
<1>1. PICK e \in Entries :
          /\ members' = members \cup {e}
          /\ marked' = marked \cup {e}
          /\ raced' = IF \E s \in Scanners : e \in expired[s] THEN raced \cup {e}
                      ELSE raced \ {e}
  BY DEF AddIP
<1>2. Turned(a) /\ verdict' = verdict
  BY <1>0, GotoTurns, RejectTurns DEF AddIP, Reply, Labels
<1>3. Witness /\ UNCHANGED <<request, ip, scan>>
  BY DEF AddIP
<1>4. MembersKept'
  BY <1>0, <1>1 DEF MembersKept
<1>5. \A s \in Scanners : expired[s] \cap marked' \subseteq raced'
  BY <1>0, <1>1
<1>6. \A s \in Scanners : pc'[s] = pc[s]
  BY <1>0, <1>2, Apart DEF Turned
<1>7. live' \in [Checks -> SUBSET Entries] /\ steady' \in [Checks -> SUBSET Entries]
  BY <1>0, <1>1, <1>3 DEF Witness, TypeOK
<1>8. TypeOK'
  BY <1>0, <1>1, <1>2, <1>3, <1>7 DEF TypeOK, Turned, scan
<1>9. QED
  BY <1>2, <1>3, <1>4, <1>5, <1>6, <1>8 DEF StoreStep, Turned

\* So does a removal.
LEMMA RemoveSteps ==
    ASSUME LInv, NEW r \in Removes, RemoveIP(r)
    PROVE  StoreStep /\ TypeOK'
<1>0. /\ TypeOK /\ MembersKept /\ r \in Calls /\ r \notin Scanners /\ r \notin Checks
      /\ \A s \in Scanners : expired[s] \cap marked \subseteq raced
  BY Apart DEF LInv, ScanCourse
<1>1. PICK e \in Entries : members' = members \ {e} /\ marked' = marked \ {e}
  BY DEF RemoveIP
<1>2. Turned(r) /\ verdict' = verdict
  BY <1>0, GotoTurns, RejectTurns DEF RemoveIP, Reply, Labels
<1>3. Witness /\ UNCHANGED <<request, ip, scan, raced>>
  BY DEF RemoveIP
<1>4. MembersKept'
  BY <1>0, <1>1, <1>3 DEF MembersKept
<1>5. \A s \in Scanners : expired[s] \cap marked' \subseteq raced'
  BY <1>0, <1>1, <1>3
<1>6. \A s \in Scanners : pc'[s] = pc[s]
  BY <1>0, <1>2, Apart DEF Turned
<1>7. live' \in [Checks -> SUBSET Entries] /\ steady' \in [Checks -> SUBSET Entries]
  BY <1>0, <1>1, <1>3 DEF Witness, TypeOK
<1>8. TypeOK'
  BY <1>0, <1>1, <1>2, <1>3, <1>7 DEF TypeOK, Turned, scan
<1>9. QED
  BY <1>2, <1>3, <1>4, <1>5, <1>6, <1>8 DEF StoreStep, Turned

\* So does the expiry of a marker.
LEMMA ExpirySteps ==
    ASSUME LInv, NEW e \in Entries, MarkerExpires(e)
    PROVE  StoreStep /\ TypeOK'
<1>0. /\ TypeOK /\ MembersKept
      /\ \A s \in Scanners : expired[s] \cap marked \subseteq raced
  BY DEF LInv, ScanCourse
<1>1. /\ marked' = marked \ {e} /\ Witness
      /\ UNCHANGED <<members, pc, verdict, request, ip, scan, faults, raced>>
  BY DEF MarkerExpires
<1>2. MembersKept' /\ \A s \in Scanners : expired[s] \cap marked' \subseteq raced'
  BY <1>0, <1>1 DEF MembersKept
<1>3. live' \in [Checks -> SUBSET Entries] /\ steady' \in [Checks -> SUBSET Entries]
  BY <1>0, <1>1 DEF Witness, TypeOK
<1>4. TypeOK'
  BY <1>0, <1>1, <1>3 DEF TypeOK, scan
<1>5. QED
  BY <1>0, <1>1, <1>2, <1>4 DEF StoreStep, TypeOK

\* A change of the store keeps the invariant: what it takes away leaves steady.
LEMMA StoreKeeps ==
    ASSUME LInv, StoreStep, TypeOK'
    PROVE  LInv'
<1>0. /\ TypeOK /\ UNCHANGED <<ip, todo, active, expired>> /\ Witness /\ verdict' = verdict
      /\ \A s \in Scanners : pc'[s] = pc[s]
      /\ faults <= faults' /\ faults \in Nat /\ faults' \in Nat
  BY Apart DEF LInv, StoreStep, scan, TypeOK
<1>1. ASSUME NEW s \in Scanners PROVE ScanCourse(s)'
  BY <1>0 DEF LInv, ScanCourse, StoreStep
<1>2. ASSUME NEW c \in Checks PROVE CheckCourse(c)'
  <2>0. CheckCourse(c) /\ pc'[c] = pc[c]
    BY <1>0, Apart DEF LInv
  <2>1. CASE pc[c] \in Searching
    <3>1. ~ Judged(c)
      BY <2>0, <2>1 DEF CheckCourse, Judged, Searching
    <3>2. live'[c] = live[c] \cup marked' /\ steady'[c] = steady[c] \cap (marked' \ raced')
      BY <1>0, <3>1 DEF Witness
    <3>3. verdict[c] = "none"
      BY <2>0, <2>1 DEF CheckCourse
    <3>4. QED
      BY <1>0, <2>0, <2>1, <3>2, <3>3 DEF CheckCourse
  <2>2. CASE pc[c] \notin Searching
    <3>1. Judged(c)
      BY <2>0, <2>2 DEF CheckCourse, Judged
    <3>2. live'[c] = live[c] /\ steady'[c] = steady[c]
      BY <1>0, <3>1 DEF Witness
    <3>3. faults' = 0 => faults = 0
      BY <1>0
    <3>4. QED
      BY <1>0, <2>0, <2>2, <3>2, <3>3 DEF CheckCourse, CoveredBy, Searching
  <2>3. QED
    BY <2>1, <2>2
<1>3. QED
  BY <1>1, <1>2 DEF LInv, StoreStep

-----------------------------------------------------------------------------
(* The steps of a scan or of a check *)

\* A step of the calls in A leaves the others alone and removes from the set
\* nothing that is in force, unless it was raced.
Quiet(A) ==
    /\ UNCHANGED <<marked, raced>> /\ members' \subseteq members
    /\ (marked \ raced) \cap members \subseteq members'
    /\ faults \in Nat /\ faults' \in Nat /\ faults <= faults'
    /\ \A t \in Scanners \ A : /\ pc'[t] = pc[t] /\ todo'[t] = todo[t]
                               /\ active'[t] = active[t] /\ expired'[t] = expired[t]
    /\ \A c \in Checks \ A : /\ verdict'[c] = verdict[c] /\ ip'[c] = ip[c]
                             /\ live'[c] = live[c] /\ steady'[c] = steady[c]

\* Other steps need only keep the course of the calls they move.
LEMMA QuietKeeps ==
    ASSUME LInv, NEW A, Quiet(A), TypeOK',
           \A s \in Scanners \cap A : ScanCourse(s)',
           \A c \in Checks \cap A : CheckCourse(c)'
    PROVE  LInv'
<1>1. MembersKept'
  BY DEF LInv, MembersKept, Quiet
<1>2. ASSUME NEW s \in Scanners \ A PROVE ScanCourse(s)'
  BY DEF LInv, ScanCourse, Quiet
<1>3. ASSUME NEW c \in Checks \ A PROVE CheckCourse(c)'
  <2>1. /\ CheckCourse(c) /\ UNCHANGED <<marked, raced>>
        /\ pc'[c] = pc[c] /\ todo'[c] = todo[c] /\ active'[c] = active[c]
        /\ verdict'[c] = verdict[c] /\ ip'[c] = ip[c] /\ live'[c] = live[c]
        /\ steady'[c] = steady[c]
        /\ faults' = 0 => faults = 0
    BY Apart DEF LInv, Quiet
  <2>2. QED
    BY <2>1 DEF CheckCourse, CoveredBy, Searching
<1>4. QED
  BY <1>1, <1>2, <1>3 DEF LInv

\* What a scanner's own step may touch, given how it goes on.
LEMMA OwnTurn ==
    ASSUME LInv, NEW s \in Calls, Turned(s), UNCHANGED <<marked, raced>>,
           members' \subseteq members, (marked \ raced) \cap members \subseteq members',
           \A t \in Scanners \ {s} : /\ todo'[t] = todo[t] /\ active'[t] = active[t]
                                     /\ expired'[t] = expired[t],
           \A c \in Checks \ {s} : ip'[c] = ip[c] /\ live'[c] = live[c] /\ steady'[c] = steady[c]
    PROVE  Quiet({s})
<1>1. faults \in Nat /\ faults' \in Nat
  BY Apart DEF LInv, TypeOK, Turned
<1>2. QED
  BY <1>1, Apart DEF Quiet, Turned

\* The audit of a change touches no scan.
LEMMA ChangeAudited ==
    ASSUME LInv, NEW a \in Adds \cup Removes, AuditChange(a)
    PROVE  LInv'
<1>1. TypeOK /\ a \in Calls /\ a \notin Scanners
  BY Apart DEF LInv
<1>2. Turned(a) /\ UNCHANGED <<store, request, ip, scan, history>>
  BY <1>1, GotoTurns, RejectTurns DEF AuditChange, Reply, Labels
<1>3. TypeOK'
  BY <1>1, <1>2 DEF TypeOK, Turned, store, scan, history
<1>4. Quiet({a})
  BY <1>1, <1>2, OwnTurn DEF store, scan, history
<1>5. QED
  BY <1>1, <1>3, <1>4, QuietKeeps, Apart

\* A check begins with every entry in force in steady, but for the raced.
LEMMA CheckBegun ==
    ASSUME LInv, NEW c \in Checks, BeginCheck(c)
    PROVE  LInv'
<1>0. TypeOK /\ c \in Calls /\ c \in Scanners /\ ScanCourse(c) /\ CheckCourse(c)
  BY Apart DEF LInv
<1>1. /\ pc[c] = "idle" /\ UNCHANGED <<store, ip, scan, raced>>
      /\ \E q \in Request : request' = [request EXCEPT ![c] = q]
      /\ live' = [live EXCEPT ![c] = marked] /\ steady' = [steady EXCEPT ![c] = marked \ raced]
  BY DEF BeginCheck
<1>2. Turned(c) /\ pc'[c] = "resolve" /\ verdict' = verdict
  BY <1>0, GotoTurns DEF BeginCheck, Labels
<1>3. TypeOK'
  BY <1>0, <1>1, <1>2 DEF TypeOK, Turned, store, scan
<1>4. Quiet({c})
  BY <1>0, <1>1, <1>2, OwnTurn DEF store, scan, TypeOK
<1>5. ScanCourse(c)'
  BY <1>0, <1>1, <1>2 DEF ScanCourse, store, scan
<1>6. live'[c] = marked /\ steady'[c] = marked \ raced
  BY <1>0, <1>1 DEF TypeOK
<1>7. CheckCourse(c)'
  BY <1>0, <1>1, <1>2, <1>6 DEF CheckCourse, ScanCourse, Searching, store, scan
<1>8. QED
  BY <1>3, <1>4, <1>5, <1>7, QuietKeeps

\* The resolved address is an address, or unknown.
LEMMA AddressResolved ==
    ASSUME LInv, NEW c \in Checks, ResolveIp(c)
    PROVE  LInv'
<1>0. TypeOK /\ c \in Calls /\ c \in Scanners /\ ScanCourse(c) /\ CheckCourse(c)
  BY Apart DEF LInv
<1> DEFINE a == ResolveClientIp(request[c].peer, request[c].header)
<1>1. /\ pc[c] = "resolve" /\ UNCHANGED <<store, scan, history>>
      /\ ip' = [ip EXCEPT ![c] = a] /\ request' = [request EXCEPT ![c] = Direct]
      /\ IF ip'[c] = Unknown THEN Decide(c, "denied") ELSE Goto(c, "exact")
  BY DEF ResolveIp
<1>2. a \in Addresses \cup {Unknown}
  <2>1. request[c] \in Request
    BY <1>0 DEF TypeOK
  <2>2. request[c].peer \in Addresses \cup {Unknown} /\ request[c].header \in Headers
    BY <2>1 DEF Request
  <2>3. QED
    BY <2>2, Resolved
<1>3. Direct \in Request
  BY DEF Direct, Request, Headers
<1> HIDE DEF a
<1>4. ip'[c] = a
  BY <1>0, <1>1 DEF TypeOK
<1>5. /\ Turned(c)
      /\ \/ a = Unknown /\ pc'[c] = "deny" /\ verdict'[c] = "denied"
         \/ a # Unknown /\ pc'[c] = "exact" /\ verdict'[c] = verdict[c]
  BY <1>0, <1>1, <1>4, GotoTurns, DecideTurns DEF Labels
<1>6. TypeOK'
  BY <1>0, <1>1, <1>2, <1>3, <1>5 DEF TypeOK, Turned, store, scan, history
<1>7. Quiet({c})
  BY <1>0, <1>1, <1>5, OwnTurn DEF store, scan, history, TypeOK
<1>8. ScanCourse(c)'
  BY <1>0, <1>1, <1>5 DEF ScanCourse, store, scan, history
<1>9. a = Unknown => \A e \in steady[c] : ~ (e = a \/ <<e, a>> \in Covers)
  BY <1>0, Apart, ClientIpAssumption DEF TypeOK
<1>10. CheckCourse(c)'
  BY <1>0, <1>1, <1>4, <1>5, <1>9 DEF CheckCourse, CoveredBy, Searching, store, scan, history
<1>11. QED
  BY <1>6, <1>7, <1>8, <1>10, QuietKeeps

\* An address found exactly is in force; one not found is not steady.
LEMMA ExactChecked ==
    ASSUME LInv, NEW c \in Checks, CheckExact(c)
    PROVE  LInv'
<1>0. /\ TypeOK /\ MembersKept /\ c \in Calls /\ c \in Scanners /\ ScanCourse(c) /\ CheckCourse(c)
  BY Apart DEF LInv
<1>1. /\ pc[c] = "exact" /\ UNCHANGED <<marked, request, ip, scan, history>>
  BY DEF CheckExact
<1>a. /\ verdict[c] = "none" /\ marked \subseteq live[c] /\ steady[c] \subseteq marked \ raced
  BY <1>0, <1>1 DEF CheckCourse, Searching
<1>2. \/ /\ ip[c] \in members \cap marked /\ Decide(c, "allowed") /\ UNCHANGED members
      \/ /\ ip[c] \notin members \cap marked /\ members' = members \ {ip[c]}
         /\ Goto(c, "members") \/ Reject(c)
  BY DEF CheckExact, Reply
<1>3. /\ Turned(c) /\ members' \subseteq members
      /\ \/ pc'[c] = "consume" /\ verdict'[c] = "allowed" /\ ip[c] \in marked
         \/ pc'[c] = "members" /\ verdict'[c] = "none" /\ ip[c] \notin members \cap marked
         \/ pc'[c] = "deny" /\ verdict'[c] = "denied" /\ faults' > 0
  <2>1. CASE ip[c] \in members \cap marked /\ Decide(c, "allowed") /\ UNCHANGED members
    BY <1>0, <2>1, DecideTurns
  <2>2. CASE ip[c] \notin members \cap marked /\ members' = members \ {ip[c]} /\ Goto(c, "members")
    BY <1>0, <1>a, <2>2, GotoTurns DEF Labels
  <2>3. CASE members' = members \ {ip[c]} /\ Reject(c)
    BY <1>0, <1>1, <2>3, RejectTurns
  <2>4. QED
    BY <1>2, <2>1, <2>2, <2>3
<1>4. (marked \ raced) \cap members \subseteq members'
  BY <1>2
<1>5. TypeOK'
  BY <1>0, <1>1, <1>3 DEF TypeOK, Turned, scan, history
<1>6. Quiet({c})
  BY <1>0, <1>1, <1>3, <1>4, OwnTurn DEF scan, history, TypeOK
<1>7. ScanCourse(c)'
  BY <1>0, <1>1, <1>3 DEF ScanCourse, scan, history
<1>8. ip[c] \notin members \cap marked => ip[c] \notin steady[c]
  BY <1>0, <1>a DEF MembersKept
<1>9. ip[c] \in marked => \E e \in live[c] : CoveredBy(e, c)
  BY <1>a DEF CoveredBy
<1>b. faults' \in Nat /\ ip'[c] = ip[c] /\ UNCHANGED <<live, steady, raced, todo, active, expired>>
  BY <1>1, <1>3, Apart DEF Turned, scan, history
<1>10. CheckCourse(c)'
  BY <1>0, <1>1, <1>a, <1>b, <1>3, <1>8, <1>9 DEF CheckCourse, CoveredBy, Searching
<1>11. QED
  BY <1>5, <1>6, <1>7, <1>10, QuietKeeps

\* A list begins with nothing scanned.
LEMMA ListBegun ==
    ASSUME LInv, NEW l \in Lists, BeginList(l)
    PROVE  LInv'
<1> DEFINE A == {l} \X Kinds
<1>0. TypeOK /\ A \subseteq Halves /\ A \subseteq Calls /\ A \cap Checks = {}
  BY AllowListAssumption DEF LInv, Halves, Scanners, Calls
<1>1. /\ \A t \in A : pc[t] = "idle"
      /\ pc' = [c \in Calls |-> IF c \in A THEN "members" ELSE pc[c]]
      /\ UNCHANGED <<store, verdict, request, ip, scan, faults, history>>
  BY DEF BeginList
<1> HIDE DEF A
<1>2. TypeOK'
  BY <1>0, <1>1 DEF TypeOK, store, scan, history, Labels
<1>3. Quiet(A)
  BY <1>0, <1>1, Apart DEF Quiet, TypeOK, store, scan, history
<1>4. ASSUME NEW s \in Scanners \cap A PROVE ScanCourse(s)'
  BY <1>1, Apart DEF LInv, ScanCourse, store, scan, history
<1>5. QED
  BY <1>0, <1>2, <1>3, <1>4, QuietKeeps

\* A scan that is over: what it found in force is what was in force all along.
LEMMA Closes ==
    ASSUME TypeOK, NEW s \in Scanners, Concluded(s), faults' \in Nat, ip' = ip,
           UNCHANGED <<live, steady>>,
           s \in Checks => /\ steady[s] \cap Networks \subseteq active'[s]
                           /\ ip[s] \notin steady[s]
                           /\ active'[s] \subseteq live[s]
    PROVE  s \in Checks => CheckCourse(s)'
<1> SUFFICES ASSUME s \in Checks PROVE CheckCourse(s)'
  OBVIOUS
<1>1. CASE pc'[s] = "consume" /\ verdict'[s] = "allowed" /\ \E n \in active'[s] : <<n, ip[s]>> \in Covers
  BY <1>1 DEF CheckCourse, CoveredBy, Searching
<1>2. CASE pc'[s] = "deny" /\ verdict'[s] = "denied" /\ \A n \in active'[s] : <<n, ip[s]>> \notin Covers
  <2>1. ASSUME NEW e \in steady[s] PROVE ~ (e = ip[s] \/ <<e, ip[s]>> \in Covers)
    <3>1. <<e, ip[s]>> \in Covers => e \in Networks
      BY Apart
    <3>2. QED
      BY <1>2, <2>1, <3>1
  <2>2. QED
    BY <1>2, <2>1 DEF CheckCourse, CoveredBy, Searching
<1>3. QED
  BY <1>1, <1>2 DEF Concluded

\* A scan has every steady network to do, for the set holds them.
LEMMA MembersRead ==
    ASSUME LInv, NEW s \in Scanners, ReadMembers(s)
    PROVE  LInv'
<1>0. /\ TypeOK /\ MembersKept /\ s \in Calls /\ ScanCourse(s)
      /\ s \in Checks => CheckCourse(s)
  BY Apart DEF LInv
<1>1. /\ pc[s] = "members" /\ UNCHANGED <<store, request, ip, history, active, expired>>
      /\ todo' = [todo EXCEPT ![s] = members \cap Scanned(s)]
      /\ IF todo'[s] = {} THEN Finish(s) ELSE Goto(s, "mget")
  BY DEF ReadMembers
<1>2. todo'[s] = members \cap Scanned(s) /\ (s \in Checks => Scanned(s) = Networks)
  BY <1>0, <1>1 DEF TypeOK, Scanned
<1>3. /\ Turned(s) /\ faults' = faults
      /\ \/ todo'[s] # {} /\ pc'[s] = "mget" /\ verdict' = verdict
         \/ todo'[s] = {} /\ Concluded(s)
  BY <1>0, <1>1, FinishTurns, GotoTurns DEF Labels
<1>4. active[s] = {} /\ expired[s] = {}
  BY <1>0, <1>1 DEF ScanCourse
<1>5. TypeOK'
  BY <1>0, <1>1, <1>3, <1>4 DEF TypeOK, Turned, store, history
<1>6. Quiet({s})
  BY <1>0, <1>1, <1>3, OwnTurn DEF store, history, TypeOK
<1>7. /\ UNCHANGED <<live, steady, marked, raced, ip, active>> /\ faults' \in Nat
      /\ expired'[s] = {} /\ active'[s] = {}
  BY <1>1, <1>3, <1>4, Apart DEF store, history, Turned
<1>8. ScanCourse(s)'
  <2>1. pc'[s] = "mget" \/ todo'[s] = {}
    BY <1>3
  <2>2. QED
    BY <1>7, <2>1 DEF ScanCourse
<1>9. s \in Checks => /\ steady[s] \cap Networks \subseteq todo'[s] /\ ip[s] \notin steady[s]
                      /\ marked \subseteq live[s] /\ steady[s] \subseteq marked \ raced
                      /\ verdict[s] = "none"
  BY <1>0, <1>1, <1>2 DEF CheckCourse, MembersKept, Searching
<1>10. s \in Checks => CheckCourse(s)'
  <2>1. CASE todo'[s] = {} /\ Concluded(s)
    BY <1>0, <1>7, <1>9, <2>1, Closes
  <2>2. CASE pc'[s] = "mget" /\ verdict' = verdict
    BY <1>7, <1>9, <2>2 DEF CheckCourse, Searching
  <2>3. QED
    BY <1>3, <2>1, <2>2
<1>11. QED
  BY <1>5, <1>6, <1>8, <1>10, QuietKeeps

\* A batch is a part of what is left.
LEMMA Batches ==
    ASSUME NEW left, NEW b \in BatchOf(left)
    PROVE  b \subseteq left
BY DEF BatchOf

\* What a batch finds unmarked is neither marked nor steady.
LEMMA MarkersRead ==
    ASSUME LInv, NEW s \in Scanners, ReadMarkers(s)
    PROVE  LInv'
<1>0. /\ TypeOK /\ MembersKept /\ s \in Calls /\ ScanCourse(s)
      /\ s \in Checks => CheckCourse(s)
  BY Apart DEF LInv
<1>1. PICK b \in BatchOf(todo[s]) :
          /\ todo' = [todo EXCEPT ![s] = @ \ b]
          /\ active' = [active EXCEPT ![s] = @ \cup (b \cap marked)]
          /\ expired' = [expired EXCEPT ![s] = @ \cup (b \ marked)]
  BY DEF ReadMarkers
<1>2. /\ pc[s] = "mget" /\ UNCHANGED <<store, request, ip, history>>
      /\ IF todo'[s] # {} THEN Goto(s, "mget")
         ELSE IF expired'[s] # {} THEN Goto(s, "srem") ELSE Finish(s)
  BY DEF ReadMarkers
<1>3. /\ todo'[s] = todo[s] \ b /\ active'[s] = active[s] \cup (b \cap marked)
      /\ expired'[s] = expired[s] \cup (b \ marked)
      /\ b \subseteq todo[s]
  BY <1>0, <1>1, Batches DEF TypeOK
<1>4. /\ Turned(s) /\ faults' = faults
      /\ \/ pc'[s] = "mget" /\ verdict' = verdict
         \/ todo'[s] = {} /\ pc'[s] = "srem" /\ verdict' = verdict
         \/ todo'[s] = {} /\ expired'[s] = {} /\ Concluded(s)
  BY <1>0, <1>2, FinishTurns, GotoTurns DEF Labels
<1>5. todo[s] \cap (active[s] \cup expired[s]) = {} /\ expired[s] \cap marked \subseteq raced
  BY <1>0 DEF ScanCourse
<1>6. TypeOK'
  <2>1. todo[s] \subseteq Entries /\ active[s] \cap expired[s] = {}
    BY <1>0 DEF TypeOK
  <2>2. /\ todo' \in [Scanners -> SUBSET Entries] /\ active' \in [Scanners -> SUBSET Entries]
        /\ expired' \in [Scanners -> SUBSET Entries]
    BY <1>0, <1>1, <1>3, <2>1 DEF TypeOK
  <2>3. active'[s] \cap expired'[s] = {}
    BY <1>3, <1>5, <2>1
  <2>4. \A t \in Scanners : active'[t] \cap expired'[t] = {}
    BY <1>0, <1>1, <2>3 DEF TypeOK
  <2>5. QED
    BY <1>0, <1>2, <1>4, <2>2, <2>4 DEF TypeOK, Turned, store, history
<1>7. Quiet({s})
  BY <1>0, <1>1, <1>2, <1>4, OwnTurn DEF store, history, TypeOK
<1>8. UNCHANGED <<live, steady, marked, raced, ip>> /\ faults' \in Nat
  BY <1>2, <1>4, Apart DEF store, history, Turned
<1>9. ScanCourse(s)'
  <2>1. pc'[s] \in {"mget", "srem", "consume", "deny", "done"} /\ (pc'[s] = "srem" => todo'[s] = {})
    BY <1>4 DEF Concluded
  <2>2. todo'[s] \cap (active'[s] \cup expired'[s]) = {}
    BY <1>3, <1>5
  <2>3. expired'[s] \cap marked \subseteq raced
    BY <1>3, <1>5
  <2>4. QED
    BY <1>8, <2>1, <2>2, <2>3 DEF ScanCourse
<1>10. s \in Checks => /\ steady[s] \cap Networks \subseteq todo[s] \cup active[s]
                       /\ ip[s] \notin steady[s] /\ verdict[s] = "none"
                       /\ marked \cup active[s] \subseteq live[s]
                       /\ steady[s] \subseteq marked \ raced
  BY <1>0, <1>2 DEF CheckCourse, Searching
<1>11. s \in Checks => /\ steady[s] \cap Networks \subseteq todo'[s] \cup active'[s]
                       /\ marked \cup active'[s] \subseteq live[s]
  BY <1>3, <1>10
<1>12. s \in Checks => CheckCourse(s)'
  <2>1. CASE todo'[s] = {} /\ Concluded(s)
    BY <1>0, <1>8, <1>10, <1>11, <2>1, Closes
  <2>2. CASE pc'[s] = "mget" /\ verdict' = verdict
    BY <1>8, <1>10, <1>11, <2>2 DEF CheckCourse, Searching
  <2>3. CASE todo'[s] = {} /\ pc'[s] = "srem" /\ verdict' = verdict
    BY <1>8, <1>10, <1>11, <2>3 DEF CheckCourse, Searching
  <2>4. QED
    BY <1>4, <2>1, <2>2, <2>3
<1>13. QED
  BY <1>6, <1>7, <1>9, <1>12, QuietKeeps

\* Removing expired members takes away none but unmarked and raced ones.
LEMMA ExpiredRemoved ==
    ASSUME LInv, NEW s \in Scanners, RemoveExpired(s)
    PROVE  LInv'
<1>0. /\ TypeOK /\ MembersKept /\ s \in Calls /\ ScanCourse(s)
      /\ s \in Checks => CheckCourse(s)
  BY Apart DEF LInv
<1>1. PICK b \in BatchOf(expired[s]) :
          members' = members \ b /\ expired' = [expired EXCEPT ![s] = @ \ b]
  BY DEF RemoveExpired
<1>2. /\ pc[s] = "srem" /\ UNCHANGED <<marked, request, ip, history, todo, active>>
      /\ (IF expired'[s] # {} THEN Goto(s, "srem") ELSE Finish(s)) \/ Reject(s)
  BY DEF RemoveExpired
<1>3. expired'[s] = expired[s] \ b /\ b \subseteq expired[s]
  BY <1>0, <1>1, Batches DEF TypeOK
<1>4. /\ Turned(s)
      /\ \/ pc'[s] = "srem" /\ verdict' = verdict
         \/ Concluded(s)
         \/ /\ faults' > 0
            /\ s \in Checks => pc'[s] = "deny" /\ verdict'[s] = "denied"
            /\ s \notin Checks => pc'[s] = "done"
  BY <1>0, <1>2, FinishTurns, GotoTurns, RejectTurns DEF Labels
<1>5. todo[s] = {} /\ expired[s] \cap marked \subseteq raced
  BY <1>0, <1>2 DEF ScanCourse
<1>6. TypeOK'
  BY <1>0, <1>1, <1>2, <1>4 DEF TypeOK, Turned, history
<1>7. members' \subseteq members /\ (marked \ raced) \cap members \subseteq members'
  BY <1>1, <1>3, <1>5
<1>8. Quiet({s})
  BY <1>0, <1>1, <1>2, <1>4, <1>7, OwnTurn DEF history, TypeOK
<1>9. UNCHANGED <<live, steady, marked, raced, ip, todo, active>> /\ faults' \in Nat
  BY <1>2, <1>4, Apart DEF history, Turned
<1>10. ScanCourse(s)'
  <2>1. pc'[s] \in {"srem", "consume", "deny", "done"}
    BY <1>4 DEF Concluded
  <2>2. todo'[s] = {} /\ expired'[s] \cap marked \subseteq raced
    BY <1>3, <1>5, <1>9
  <2>3. QED
    BY <1>9, <2>1, <2>2 DEF ScanCourse
<1>11. s \in Checks => /\ steady[s] \cap Networks \subseteq active[s] /\ ip[s] \notin steady[s]
                       /\ marked \cup active[s] \subseteq live[s] /\ verdict[s] = "none"
                       /\ steady[s] \subseteq marked \ raced
  BY <1>0, <1>2 DEF CheckCourse, Searching
<1>12. s \in Checks => CheckCourse(s)'
  <2>1. CASE Concluded(s)
    BY <1>0, <1>9, <1>11, <2>1, Closes
  <2>2. CASE pc'[s] = "srem" /\ verdict' = verdict
    BY <1>9, <1>11, <2>2 DEF CheckCourse, Searching
  <2>3. CASE faults' > 0 /\ pc'[s] = "deny" /\ verdict'[s] = "denied"
    BY <1>9, <2>3 DEF CheckCourse, Searching
  <2>4. QED
    BY <1>4, <2>1, <2>2, <2>3
<1>13. QED
  BY <1>6, <1>8, <1>10, <1>12, QuietKeeps

\* A failed command denies, and counts as a fault.
LEMMA CommandFailed ==
    ASSUME LInv, NEW s \in Scanners, CommandFails(s)
    PROVE  LInv'
<1>0. /\ TypeOK /\ s \in Calls /\ ScanCourse(s)
      /\ s \in Checks => CheckCourse(s)
  BY Apart DEF LInv
<1>1. /\ pc[s] \in {"exact", "members", "mget", "srem"}
      /\ UNCHANGED <<store, request, ip, scan, history>>
  BY DEF CommandFails
<1>2. /\ Turned(s) /\ faults' > 0
      /\ s \in Checks => pc'[s] = "deny" /\ verdict'[s] = "denied"
      /\ s \notin Checks => pc'[s] = "done"
  BY <1>0, <1>1, RejectTurns DEF CommandFails
<1>3. TypeOK'
  BY <1>0, <1>1, <1>2 DEF TypeOK, Turned, store, scan, history
<1>4. Quiet({s})
  BY <1>0, <1>1, <1>2, OwnTurn DEF store, scan, history
<1>5. ScanCourse(s)'
  BY <1>0, <1>1, <1>2 DEF ScanCourse, store, scan, history
<1>6. s \in Checks => CheckCourse(s)'
  BY <1>2 DEF CheckCourse, Searching
<1>7. QED
  BY <1>3, <1>4, <1>5, <1>6, QuietKeeps

\* The answer to a request that the list has judged.
LEMMA Answered ==
    ASSUME LInv, NEW c \in Checks, AuditDenied(c) \/ ConsumePoint(c) \/ AuditLimited(c)
    PROVE  LInv'
<1>0. TypeOK /\ c \in Calls /\ c \in Scanners /\ ScanCourse(c) /\ CheckCourse(c)
  BY Apart DEF LInv
<1>1. pc[c] \in {"deny", "consume", "limit"} /\ UNCHANGED <<store, request, ip, scan, history>>
  BY DEF AuditDenied, ConsumePoint, AuditLimited
<1>2. CASE AuditDenied(c) \/ AuditLimited(c)
  <2>1. pc[c] \in {"deny", "limit"} /\ (Goto(c, "done") \/ Reject(c))
    BY <1>2 DEF AuditDenied, AuditLimited, Reply
  <2>2. Turned(c) /\ pc'[c] = "done" /\ verdict' = verdict
    BY <1>0, <2>1, GotoTurns, RejectTurns DEF Labels
  <2>3. TypeOK'
    BY <1>0, <1>1, <2>2 DEF TypeOK, Turned, store, scan, history
  <2>4. Quiet({c})
    BY <1>0, <1>1, <2>2, OwnTurn DEF store, scan, history
  <2>5. ScanCourse(c)'
    BY <1>0, <1>1, <2>2 DEF ScanCourse, store, scan, history
  <2>6. faults' = 0 => faults = 0
    BY <2>4 DEF Quiet
  <2>7. CheckCourse(c)'
    BY <1>0, <1>1, <2>2, <2>6 DEF CheckCourse, CoveredBy, Searching, store, scan, history
  <2>8. QED
    BY <2>3, <2>4, <2>5, <2>7, QuietKeeps
<1>3. CASE ConsumePoint(c)
  <2>1. pc[c] = "consume"
    BY <1>3 DEF ConsumePoint
  <2>2. /\ Turned(c) /\ pc'[c] \in {"done", "limit"}
        /\ verdict'[c] \in {verdict[c], "limited", "unavailable"}
    <3>1. CASE Goto(c, "done")
      BY <1>0, <3>1, GotoTurns DEF Labels
    <3>2. CASE Decide(c, "limited")
      BY <1>0, <3>2, DecideTurns
    <3>3. CASE /\ faults < MaxFaults /\ faults' = faults + 1
               /\ verdict' = [verdict EXCEPT ![c] = "unavailable"]
               /\ pc' = [pc EXCEPT ![c] = "done"]
      BY <1>0, <3>3, Apart DEF TypeOK, Turned, Labels, Verdicts
    <3>4. QED
      BY <1>3, <3>1, <3>2, <3>3 DEF ConsumePoint
  <2>3. TypeOK'
    BY <1>0, <1>1, <2>2 DEF TypeOK, Turned, store, scan, history
  <2>4. Quiet({c})
    BY <1>0, <1>1, <2>2, OwnTurn DEF store, scan, history
  <2>5. ScanCourse(c)'
    BY <1>0, <1>1, <2>2 DEF ScanCourse, store, scan, history
  <2>6. \E e \in live[c] : CoveredBy(e, c)
    BY <1>0, <2>1 DEF CheckCourse
  <2>7. /\ verdict'[c] \in {"allowed", "limited", "unavailable"} /\ ip' = ip /\ live' = live
        /\ pc'[c] \in {"done", "limit"}
    BY <1>0, <1>1, <2>1, <2>2 DEF CheckCourse, scan, history
  <2>8. CheckCourse(c)'
    BY <2>6, <2>7 DEF CheckCourse, CoveredBy, Searching
  <2>9. QED
    BY <2>3, <2>4, <2>5, <2>8, QuietKeeps
<1>4. QED
  BY <1>2, <1>3

-----------------------------------------------------------------------------
(* The whole *)

\* The invariant holds at first.
LEMMA InitLInv == Init => LInv
<1> SUFFICES ASSUME Init PROVE LInv
  OBVIOUS
<1>1. TypeOK
  <2>1. Direct \in Request
    BY DEF Direct, Request, Headers
  <2>2. pc \in [Calls -> Labels] /\ verdict \in [Checks -> Verdicts] /\ faults \in 0..MaxFaults
    BY Apart DEF Init, Labels, Verdicts
  <2>3. QED
    BY <2>1, <2>2 DEF Init, TypeOK
<1>2. MembersKept
  BY DEF Init, MembersKept
<1>3. ASSUME NEW s \in Scanners PROVE ScanCourse(s)
  BY Apart DEF Init, ScanCourse
<1>4. ASSUME NEW c \in Checks PROVE CheckCourse(c)
  BY Apart DEF Init, CheckCourse, Searching
<1>5. QED
  BY <1>1, <1>2, <1>3, <1>4 DEF LInv

\* The invariant is inductive.
LEMMA NextLInv == LInv /\ [Next]_vars => LInv'
<1> SUFFICES ASSUME LInv, [Next]_vars PROVE LInv'
  OBVIOUS
<1>1. CASE \E c \in Checks : ResolveIp(c)
  BY <1>1, AddressResolved
<1>2. CASE Interleaved
  <2>1. CASE \E a \in Adds : AddIP(a)
    BY <2>1, AddSteps, StoreKeeps
  <2>2. CASE \E r \in Removes : RemoveIP(r)
    BY <2>2, RemoveSteps, StoreKeeps
  <2>3. CASE \E c \in Adds \cup Removes : AuditChange(c)
    BY <2>3, ChangeAudited
  <2>4. CASE \E c \in Checks : BeginCheck(c)
    BY <2>4, CheckBegun
  <2>5. CASE \E c \in Checks : CheckExact(c)
    BY <2>5, ExactChecked
  <2>6. CASE \E c \in Checks : AuditDenied(c) \/ ConsumePoint(c) \/ AuditLimited(c)
    BY <2>6, Answered
  <2>7. CASE \E l \in Lists : BeginList(l)
    BY <2>7, ListBegun
  <2>8. CASE \E s \in Scanners : ScanStep(s)
    BY <2>8, MembersRead, MarkersRead, ExpiredRemoved, CommandFailed DEF ScanStep
  <2>9. CASE \E e \in Entries : MarkerExpires(e)
    BY <2>9, ExpirySteps, StoreKeeps
  <2>10. QED
    BY <1>2, <2>1, <2>2, <2>3, <2>4, <2>5, <2>6, <2>7, <2>8, <2>9 DEF Interleaved
<1>3. CASE UNCHANGED vars
  <2> USE <1>3 DEF vars, store, scan, history
  <2>1. TypeOK' /\ MembersKept'
    BY DEF LInv, TypeOK, MembersKept
  <2>2. ASSUME NEW s \in Scanners PROVE ScanCourse(s)'
    BY DEF LInv, ScanCourse
  <2>3. ASSUME NEW c \in Checks PROVE CheckCourse(c)'
    BY DEF LInv, CheckCourse, CoveredBy, Searching
  <2>4. QED
    BY <2>1, <2>2, <2>3 DEF LInv
<1>4. QED
  BY <1>1, <1>2, <1>3 DEF Next

\* The whole inductive invariant: what the set keeps of the entries in force,
\* and how far each activeEntries and each isAllowed has come.
THEOREM LInvHolds == Spec => []LInv
<1>1. QED
  BY InitLInv, NextLInv, PTL DEF Spec

-----------------------------------------------------------------------------
(* What it gives *)

\* The two sets, the markers and the calls of SecurityModule have the stated
\* types, and no scan holds an entry both for marked and for unmarked.
THEOREM TypeCorrect == Spec => []TypeOK
<1>1. LInv => TypeOK
  BY DEF LInv
<1>2. QED
  BY <1>1, LInvHolds, PTL

\* isAllowed answers yes only for an address that an entry in force at some
\* moment of the call covers.
THEOREM OnlyListedAllowed == Spec => []AllowedWasListed
<1>1. LInv => AllowedWasListed
  BY DEF LInv, CheckCourse, AllowedWasListed
<1>2. QED
  BY <1>1, LInvHolds, PTL

\* When nothing fails, isAllowed answers no only if each entry of the address
\* had a moment of the call when it was not in force, or when the removal of
\* its expired predecessor was still to come.
THEOREM DenialsHaveCause == Spec => []DeniedForCause
<1>1. LInv => DeniedForCause
  BY DEF LInv, CheckCourse, DeniedForCause
<1>2. QED
  BY <1>1, LInvHolds, PTL

\* createClientIpResolver names a hop that only trusted proxies are behind, and
\* a proxy only at the far end, whatever chain a request brings.
THEOREM ResolvedBehindProxies == Spec => []BehindTrustedProxies
<1>1. LInv => BehindTrustedProxies
  <2> SUFFICES ASSUME LInv, NEW c \in Checks, pc[c] = "resolve",
                      ResolveClientIp(request[c].peer, request[c].header) # Unknown
               PROVE  LET q     == request[c]
                          a     == ResolveClientIp(q.peer, q.header)
                          chain == IF q.header = NoHeader THEN <<q.peer>>
                                   ELSE Append(q.header, q.peer)
                      IN  \E i \in DOMAIN chain :
                             /\ chain[i] = a
                             /\ \A j \in DOMAIN chain : j > i => chain[j] \in Trusted
                             /\ a \in Trusted => i = 1
    BY DEF BehindTrustedProxies
  <2>1. request[c] \in Request
    BY DEF LInv, TypeOK
  <2>2. request[c].peer \in Addresses \cup {Unknown} /\ request[c].header \in Headers
    BY <2>1 DEF Request
  <2>3. QED
    BY <2>2, Resolved
<1>2. QED
  BY <1>1, LInvHolds, PTL

=============================================================================
