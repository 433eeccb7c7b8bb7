----------------------------- MODULE TokenBucket -----------------------------
(***************************************************************************)
(* The token buckets of security/limiter.ts and the middleware that        *)
(* consumes from them.  A bucket lives in Redis; the script that refills   *)
(* it is given the caller's clock, read before the command is sent, while  *)
(* the bucket's TTL runs on the clock of Redis.                            *)
(*                                                                         *)
(* Tokens are counted in units, One to a token, and time in ticks, Second  *)
(* to a second.  Instants are relative to the present: Tick moves every    *)
(* recorded instant one tick into the past, so no run has a last moment.   *)
(***************************************************************************)
EXTENDS Integers, FiniteSets

CONSTANTS
    Keys,         \* what keyGenerator yields: an address, an e-mail, ...
    Limited,      \* requests under way; a name is used again when answered
    MaxKeys,      \* keys of one request
    One,          \* units of a token
    Capacity,     \* units of a full bucket
    Rate,         \* units refilled in a tick
    Second,       \* ticks of a second
    MinTtl,       \* the least and the greatest TTL of a bucket, in seconds
    MaxTtl,
    MaxSkew,      \* how far a caller's clock is ahead of the slowest, at most
    MaxDelay,     \* how long a command waits to be executed, at most
    MaxOutages,   \* rejections of the connection or of a command
    Never

Least(a, b)    == IF a < b THEN a ELSE b
Greatest(a, b) == IF a > b THEN a ELSE b
CeilDiv(a, b)  == (a + b - 1) \div b

\* consume: twice the time a bucket takes to fill, within the two limits.
Ttl == Second * Greatest(MinTtl, Least(MaxTtl, CeilDiv(2 * Capacity, Rate * Second)))

\* A bucket fills up before its TTL ends, by whichever clock and however late
\* its commands are.  The code checks capacity and rate one by one and accepts
\* others, whose buckets expire, and are full again, too early.
FillsWithinTtl == Capacity + Rate * (MaxSkew + MaxDelay) <= Rate * Ttl

ASSUME BucketAssumption ==
    /\ MaxKeys \in Nat \ {0}
    /\ {One, Capacity, Rate, Second, MinTtl, MaxTtl} \subseteq Nat \ {0}
    /\ {MaxSkew, MaxDelay, MaxOutages} \subseteq Nat
    /\ One <= Capacity
    /\ FillsWithinTtl
    /\ Never \notin Int \cup [tokens : Int, refilled : Int, expires : Int]

VARIABLES
    bucket,    \* the hash of each key, or Never: no such key
    client,    \* the process's connection: "none", "pending", "ready"
    stage,     \* where a request is, or what it was answered
    unpaid,    \* the keys whose consume call has yet to execute
    refusing,  \* the keys that denied it
    stamp,     \* the clock the request read
    outages,   \* failures so far
    meter,     \* history: the units admitted to a key, leaking at Rate
    promise    \* history: the instant a denial named, until a token is taken

bucketStore == <<bucket, meter, promise>>
bucketVars  == <<bucketStore, client, stage, unpaid, refusing, stamp, outages>>

-----------------------------------------------------------------------------

Clocks   == -MaxDelay..MaxSkew
Answers  == {"passed", "limited", "unavailable"}
Oldest   == -(Ttl + MaxDelay)

BucketTypeOK ==
    /\ bucket \in [Keys -> [tokens : 0..Capacity, refilled : Oldest..MaxSkew, expires : 1..Ttl]
                           \cup {Never}]
    /\ client \in {"none", "pending", "ready"}
    /\ stage \in [Limited -> {"idle", "init", "consume"} \cup Answers]
    /\ unpaid \in [Limited -> SUBSET Keys]
    /\ refusing \in [Limited -> SUBSET Keys]
    /\ stamp \in [Limited -> Clocks]
    /\ outages \in 0..MaxOutages
    /\ meter \in [Keys -> Nat]
    /\ promise \in [Keys -> Int \cup {Never}]

BucketInit ==
    /\ bucket = [k \in Keys |-> Never]
    /\ client = "none"
    /\ stage = [r \in Limited |-> "idle"]
    /\ unpaid = [r \in Limited |-> {}]
    /\ refusing = [r \in Limited |-> {}]
    /\ stamp = [r \in Limited |-> 0]
    /\ outages = 0
    /\ meter = [k \in Keys |-> 0]
    /\ promise = [k \in Keys |-> Never]

-----------------------------------------------------------------------------
(* TOKEN_BUCKET_SCRIPT *)

\* What a bucket holds by the clock of the caller.
Available(k, now) ==
    IF bucket[k] = Never THEN Capacity
    ELSE Least(Capacity, bucket[k].tokens + Rate * Greatest(0, now - bucket[k].refilled))

\* Seeded fault: the wait is rounded down.
RetryAfterFloor(k, now) == Greatest(1, (One - Available(k, now)) \div (Rate * Second))

\* Retry-After, in seconds.
RetryAfter(k, now) == Greatest(1, CeilDiv(One - Available(k, now), Rate * Second))

\* Seeded fault: the time of refill is set when the bucket is created only.
StoreUnstamped(k, now, left) ==
    bucket' = [bucket EXCEPT ![k] =
                  [tokens |-> left, refilled |-> IF @ = Never THEN now ELSE @.refilled,
                   expires |-> Ttl]]

\* HSET and EXPIRE, whether a token was taken or not.
Store(k, now, left) ==
    bucket' = [bucket EXCEPT ![k] = [tokens |-> left, refilled |-> now, expires |-> Ttl]]

\* A caller whose clock is behind the bucket's sets it back, and the time in
\* between is refilled again: the meter leaks for it as well.
SetBack(k, now) ==
    IF bucket[k] = Never THEN 0 ELSE Greatest(0, bucket[k].refilled - now)

Admit(k, now) ==
    /\ Available(k, now) >= One
    /\ Store(k, now, Available(k, now) - One)
    /\ meter' = [meter EXCEPT ![k] = Greatest(0, @ - Rate * SetBack(k, now)) + One]
    /\ promise' = [promise EXCEPT ![k] = Never]

Deny(k, now) ==
    /\ Available(k, now) < One
    /\ Store(k, now, Available(k, now))
    /\ meter' = [meter EXCEPT ![k] = Greatest(0, @ - Rate * SetBack(k, now))]
    /\ promise' = [promise EXCEPT ![k] =
                      LET instant == now + Second * RetryAfter(k, now)
                      IN IF @ = Never THEN instant ELSE Least(@, instant)]

-----------------------------------------------------------------------------
(* The middleware of createRatelimiter *)

\* getTokenBucket: the first request connects, those that come meanwhile share
\* its promise, later ones find the bucket.
BeginLimited(r) ==
    /\ stage[r] \in {"idle"} \cup Answers
    /\ unpaid[r] = {}
    /\ client' = IF client = "none" THEN "pending" ELSE client
    /\ stage' = [stage EXCEPT ![r] = "init"]
    /\ refusing' = [refusing EXCEPT ![r] = {}]
    /\ UNCHANGED <<bucketStore, unpaid, stamp, outages>>

Connected ==
    /\ client = "pending"
    /\ client' = "ready"
    /\ UNCHANGED <<bucketStore, stage, unpaid, refusing, stamp, outages>>

\* The promise rejects, and is forgotten: the next request connects anew.
ConnectFails ==
    /\ client = "pending"
    /\ outages < MaxOutages
    /\ outages' = outages + 1
    /\ client' = "none"
    /\ stage' = [r \in Limited |-> IF stage[r] = "init" THEN "unavailable" ELSE stage[r]]
    /\ UNCHANGED <<bucketStore, unpaid, refusing, stamp>>

\* Promise.all sends a command for each key, with the clock read before.
Send(r) ==
    /\ stage[r] = "init"
    /\ client = "ready"
    /\ \E ks \in (SUBSET Keys) \ {{}}, now \in 0..MaxSkew :
          /\ Cardinality(ks) <= MaxKeys
          /\ unpaid' = [unpaid EXCEPT ![r] = ks]
          /\ stamp' = [stamp EXCEPT ![r] = now]
    /\ stage' = [stage EXCEPT ![r] = "consume"]
    /\ UNCHANGED <<bucketStore, client, refusing, outages>>

\* The commands a request has sent execute, even if it was answered already;
\* a key that denies it does not give back what the others took.
Consume(r, k) ==
    /\ k \in unpaid[r]
    /\ unpaid' = [unpaid EXCEPT ![r] = @ \ {k}]
    /\ \/ Admit(k, stamp[r]) /\ UNCHANGED refusing
       \/ Deny(k, stamp[r]) /\ refusing' = [refusing EXCEPT ![r] = @ \cup {k}]
    /\ UNCHANGED <<client, stage, stamp, outages>>

\* next(), or 429 with the wait of a key that denied.
Answer(r) ==
    /\ stage[r] = "consume"
    /\ unpaid[r] = {}
    /\ stage' = [stage EXCEPT ![r] = IF refusing[r] = {} THEN "passed" ELSE "limited"]
    /\ UNCHANGED <<bucketStore, client, unpaid, refusing, stamp, outages>>

\* A command rejects, executed or not: 503, and the others still execute.
ConsumeFails(r) ==
    /\ stage[r] = "consume"
    /\ outages < MaxOutages
    /\ outages' = outages + 1
    /\ stage' = [stage EXCEPT ![r] = "unavailable"]
    /\ \/ UNCHANGED unpaid
       \/ \E k \in unpaid[r] : unpaid' = [unpaid EXCEPT ![r] = @ \ {k}]
    /\ UNCHANGED <<bucketStore, client, refusing, stamp>>

-----------------------------------------------------------------------------

\* A tick passes; a bucket whose TTL has ended is gone.
Tick ==
    /\ \A r \in Limited : unpaid[r] # {} => stamp[r] > -MaxDelay
    /\ bucket' = [k \in Keys |->
                     IF bucket[k] = Never \/ bucket[k].expires = 1 THEN Never
                     ELSE [bucket[k] EXCEPT !.refilled = @ - 1, !.expires = @ - 1]]
    /\ stamp' = [r \in Limited |-> IF unpaid[r] = {} THEN stamp[r] ELSE stamp[r] - 1]
    /\ meter' = [k \in Keys |-> Greatest(0, meter[k] - Rate)]
    /\ promise' = [k \in Keys |-> IF promise[k] = Never THEN Never
                                  ELSE Greatest(-MaxDelay, promise[k] - 1)]
    /\ UNCHANGED <<client, stage, unpaid, refusing, outages>>

BucketNext ==
    \/ Connected \/ ConnectFails \/ Tick
    \/ \E r \in Limited : BeginLimited(r) \/ Send(r) \/ Answer(r) \/ ConsumeFails(r)
    \/ \E r \in Limited, k \in Keys : Consume(r, k)

BucketSpec == BucketInit /\ [][BucketNext]_bucketVars

-----------------------------------------------------------------------------
(* Properties *)

\* In any period a key is admitted at most a full bucket and what is refilled
\* in that period, its end measured by the fastest clock, plus what clocks that
\* went back refill again; the bucket may expire in between.  (The meter is the
\* greatest excess of any period that ends now.)
AdmittedWithinRate ==
    \A k \in Keys : meter[k] <= Capacity + Rate * (MaxSkew + MaxDelay)

\* A request that waits for the time a denial named, and whose key nobody took
\* a token of since, finds a token, by whichever clock it is measured and
\* however many were denied in the meantime.
RetrySuffices ==
    \A k \in Keys, now \in Clocks :
        promise[k] # Never /\ now >= promise[k] => Available(k, now) >= One

=============================================================================
