------------------------------- MODULE KeyRing -------------------------------
(***************************************************************************)
(* JwtKeyRing: which configurations it accepts, what it signs with, and    *)
(* what it verifies.  A key is named by its kid and by the pair of private *)
(* and public parts it belongs to; cryptography is the rule that a token   *)
(* verifies under exactly the pair that signed it.  The legacy shared      *)
(* secret is a ring of one key, which no getJwks publishes; issuer and     *)
(* audience are the same for every ring.                                   *)
(***************************************************************************)
EXTENDS Naturals, Sequences, FiniteSets

CONSTANTS
    Kids,          \* key ids
    Pairs,         \* key pairs
    MaxKeys        \* MAX_JWK_KEYS

ASSUME KeyRingAssumption == MaxKeys \in Nat \ {0}

\* A configured JWK: "private" when it has its scalar d.
Keys == [kid : Kids, pair : Pairs, private : BOOLEAN]

KeysOf(ring) == {ring.keys[i] : i \in 1 .. Len(ring.keys)}

\* Seeded fault: a kid may be used twice.
AnyRingWithActive(ring) ==
    /\ Len(ring.keys) \in 1 .. MaxKeys
    /\ \E k \in KeysOf(ring) : k.kid = ring.activeKid /\ k.private

\* validateJwkConfig: bounded, no kid twice, and the active key can sign.
ValidRing(ring) ==
    /\ Len(ring.keys) \in 1 .. MaxKeys
    /\ Cardinality({k.kid : k \in KeysOf(ring)}) = Len(ring.keys)
    /\ \E k \in KeysOf(ring) : k.kid = ring.activeKid /\ k.private

\* activePrivateJwk: the first key with the active kid.
ActiveKey(ring) ==
    ring.keys[CHOOSE i \in 1 .. Len(ring.keys) :
                /\ ring.keys[i].kid = ring.activeKid
                /\ \A j \in 1 .. i - 1 : ring.keys[j].kid # ring.activeKid]

\* sign: the signature of a new token, under the active key.
Signature(ring) == [kid |-> ActiveKey(ring).kid, pair |-> ActiveKey(ring).pair]

\* getJwks: what verification, and everybody else, may know of the keys.
GetJwks(ring) == {[kid |-> k.kid, pair |-> k.pair] : k \in KeysOf(ring)}

\* verify, apart from the expiry: the JWKS resolver takes the one key the
\* header names and refuses an unknown or ambiguous kid.
Verifies(ring, token, tokenUse) ==
    /\ token.signature \in GetJwks(ring)
    /\ \A j, k \in 1 .. Len(ring.keys) :
          ring.keys[j].kid = token.signature.kid /\ ring.keys[k].kid = token.signature.kid
              => j = k
    /\ token.tokenUse = tokenUse

\* validatePublicJwks: bounded, and no kid twice.
ValidJwks(jwks) ==
    /\ Cardinality(jwks) \in 1 .. MaxKeys
    /\ Cardinality({k.kid : k \in jwks}) = Cardinality(jwks)

\* Seeded fault: a token of any use will do.
VerifiesAnyUse(jwks, token) == ValidJwks(jwks) /\ token.signature \in jwks

\* verifyAccessTokenWithJwks, apart from the expiry: what a service without
\* the private keys accepts.
VerifiesWithJwks(jwks, token) ==
    /\ ValidJwks(jwks)
    /\ token.signature \in jwks
    /\ token.tokenUse = "access"
=============================================================================
