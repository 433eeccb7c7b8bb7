------------------------------ MODULE ClientIp ------------------------------
(***************************************************************************)
(* createClientIpResolver: the address a request is judged by, from the    *)
(* peer of its socket and its X-Forwarded-For header.  An address is a     *)
(* model value; Unknown stands for text that is no address, and is also    *)
(* the resolver's answer when it refuses the header.                       *)
(***************************************************************************)
EXTENDS Naturals, Sequences

CONSTANTS
    Addresses,
    Trusted,    \* the addresses inside the trusted proxy networks
    Unknown,
    NoHeader,
    MaxHops     \* MAX_PROXY_HOPS

ASSUME ClientIpAssumption ==
    /\ Trusted \subseteq Addresses
    /\ Unknown \notin Addresses
    /\ NoHeader \notin Seq(Addresses \cup {Unknown})
    /\ MaxHops \in Nat \ {0}

\* Seeded fault: the header's first address is believed.
WalkToTheLeft(hops) == hops[1]

\* The first untrusted address from the right of hops, or the leftmost.
Walk(hops) ==
    LET from[i \in 1..Len(hops)] ==
            IF i = 1 \/ hops[i] \notin Trusted THEN hops[i] ELSE from[i - 1]
    IN from[Len(hops)]

Malformed(header) == \E i \in DOMAIN header : header[i] = Unknown

ResolveClientIp(peer, header) ==
    CASE peer = Unknown -> Unknown
      [] peer # Unknown /\ (header = NoHeader \/ peer \notin Trusted) -> peer
      [] OTHER ->
            IF header = <<>> \/ Len(header) > MaxHops \/ Malformed(header) THEN Unknown
            ELSE Walk(Append(header, peer))

=============================================================================
