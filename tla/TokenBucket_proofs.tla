------------------------- MODULE TokenBucket_proofs -------------------------
(***************************************************************************)
(* For every capacity, rate and TTL, every skew of the clocks and delay of *)
(* the commands, and every number of keys and requests: the invariants     *)
(* that TokenBucket states.                                                *)
(***************************************************************************)
EXTENDS TokenBucket, TLAPS

-----------------------------------------------------------------------------
(* The strengthening of the invariants *)

\* A bucket was stored Ttl - expires ticks ago, by a clock that was right then.
Dated(k) ==
    /\ bucket[k].refilled <= MaxSkew - (Ttl - bucket[k].expires)
    /\ bucket[k].refilled >= -MaxDelay - (Ttl - bucket[k].expires)

\* What was admitted beyond the rate is missing from the bucket.
Metered(k) ==
    meter[k] = 0 \/
    meter[k] <= Capacity - bucket[k].tokens + Rate * (bucket[k].refilled + MaxDelay)

\* At the instant that was promised, the bucket holds a token.
Promised(k) ==
    promise[k] # Never =>
        bucket[k].tokens + Rate * (promise[k] - bucket[k].refilled) >= One

KeyCourse(k) ==
    IF bucket[k] = Never THEN meter[k] = 0
    ELSE Dated(k) /\ Metered(k) /\ Promised(k)

BInv == BucketTypeOK /\ \A k \in Keys : KeyCourse(k)

-----------------------------------------------------------------------------
(* Quotients and products *)

\* What BucketAssumption says of the numbers.
LEMMA Constants ==
    /\ One \in Nat /\ One > 0 /\ Capacity \in Nat /\ One <= Capacity
    /\ Rate \in Nat /\ Rate > 0 /\ Second \in Nat /\ Second > 0
    /\ MinTtl \in Nat /\ MinTtl > 0 /\ MaxTtl \in Nat
    /\ MaxSkew \in Nat /\ MaxDelay \in Nat /\ MaxOutages \in Nat
    /\ Never \notin Int
BY BucketAssumption

\* A quotient that is rounded up covers the dividend.
LEMMA CeilDivCovers ==
    ASSUME NEW a \in Int, NEW b \in Nat, b > 0
    PROVE  CeilDiv(a, b) \in Int /\ b * CeilDiv(a, b) >= a
<1> DEFINE x == a + b - 1
           q == x \div b
<1>1. x \in Int /\ q \in Int
  OBVIOUS
<1>2. x = b * q + (x % b) /\ x % b \in 0..(b - 1)
  OBVIOUS
<1>3. b * q \in Int /\ b * q >= a
  <2>1. b * q \in Int
    BY <1>1
  <2> DEFINE p == b * q
             w == x % b
  <2>2. p \in Int /\ w \in 0..(b - 1) /\ a + b - 1 = p + w
    BY <1>2, <2>1
  <2> HIDE DEF p, w
  <2>3. p >= a
    BY <2>2
  <2>4. QED
    BY <2>1, <2>3 DEF p
<1>4. QED
  BY <1>1, <1>3 DEF CeilDiv

\* What is refilled grows with the time, tick by tick.
LEMMA Refilled ==
    /\ \A x \in Int : Rate * x \in Int
    /\ \A x, y \in Int : Rate * (x + y) = Rate * x + Rate * y
    /\ \A x, y \in Int : Rate * (x - y) = Rate * x - Rate * y
    /\ \A x, y \in Int : x <= y => Rate * x <= Rate * y
    /\ Rate * 0 = 0 /\ Rate * 1 = Rate
<1>1. ASSUME NEW x \in Int, NEW y \in Int PROVE Rate * (x + y) = Rate * x + Rate * y
  BY Constants
<1>2. ASSUME NEW x \in Int, NEW y \in Int PROVE Rate * (x - y) = Rate * x - Rate * y
  BY Constants
<1>3. ASSUME NEW x \in Int, NEW y \in Int, x <= y PROVE Rate * x <= Rate * y
  BY Constants, <1>3
<1>4. \A x \in Int : Rate * x \in Int
  BY Constants
<1>5. Rate * 0 = 0 /\ Rate * 1 = Rate
  BY Constants
<1>6. QED
  BY <1>1, <1>2, <1>3, <1>4, <1>5

\* The TTL is positive, and a bucket fills within it.
LEMMA TtlFacts ==
    /\ Ttl \in Nat /\ Ttl > 0
    /\ Capacity + Rate * (MaxSkew + MaxDelay) <= Rate * Ttl
<1>1. Rate * Second \in Nat /\ Rate * Second > 0 /\ 2 * Capacity \in Int
  BY Constants
<1>2. CeilDiv(2 * Capacity, Rate * Second) \in Int
  BY <1>1, CeilDivCovers
<1> DEFINE g == Greatest(MinTtl, Least(MaxTtl, CeilDiv(2 * Capacity, Rate * Second)))
<1>3. g \in Nat /\ g > 0
  BY <1>2, Constants DEF Greatest, Least
<1> HIDE DEF g
<1>4. Second * g \in Nat /\ Second * g > 0
  BY <1>3, Constants
<1>5. Ttl = Second * g
  BY DEF Ttl, g
<1>6. QED
  BY <1>4, <1>5, BucketAssumption DEF FillsWithinTtl


-----------------------------------------------------------------------------
(* What a command finds and leaves *)

\* The excess that is left of m when a caller sets the bucket back from f to now.
Leaked(m, f, now) == Greatest(0, m - Rate * Greatest(0, f - now))

Found(t, f, now) == Least(Capacity, t + Rate * Greatest(0, now - f))

\* A command's refill keeps the balance of what was admitted and what is left.
LEMMA Refill ==
    ASSUME NEW t \in 0..Capacity, NEW f \in Int, NEW now \in Clocks, NEW m \in Nat,
           m = 0 \/ m <= Capacity - t + Rate * (f + MaxDelay)
    PROVE  /\ Found(t, f, now) \in 0..Capacity
           /\ Leaked(m, f, now) \in Nat
           /\ Leaked(m, f, now) <= Capacity - Found(t, f, now) + Rate * (now + MaxDelay)
<1> USE Constants
<1>0. now \in Int /\ now + MaxDelay \in Int /\ 0 <= now + MaxDelay /\ t \in Int
  BY DEF Clocks
<1>1. /\ Rate * (now + MaxDelay) \in Int /\ 0 <= Rate * (now + MaxDelay)
      /\ Rate * (f + MaxDelay) \in Int
  BY <1>0, Refilled
<1>2. CASE now >= f
  <2>1. now - f \in Int /\ 0 <= now - f /\ f - now <= 0
    BY <1>0, <1>2
  <2>2. Greatest(0, now - f) = now - f /\ Greatest(0, f - now) = 0
    BY <1>0, <1>2, <2>1 DEF Greatest
  <2>3. Rate * (now - f) \in Int /\ 0 <= Rate * (now - f)
    BY <2>1, Refilled
  <2>4. Rate * (now + MaxDelay) = Rate * (f + MaxDelay) + Rate * (now - f)
    <3>1. now + MaxDelay = (f + MaxDelay) + (now - f)
      BY <1>0
    <3>2. f + MaxDelay \in Int
      OBVIOUS
    <3>3. QED
      BY <2>1, <3>1, <3>2, Refilled
  <2>5. Leaked(m, f, now) = m
    BY <2>2, Refilled DEF Leaked, Greatest
  <2> DEFINE d == Rate * (now - f)
             x == Rate * (now + MaxDelay)
             y == Rate * (f + MaxDelay)
  <2>6. Found(t, f, now) = Least(Capacity, t + d)
    BY <2>2 DEF Found
  <2>7. d \in Int /\ 0 <= d /\ x \in Int /\ 0 <= x /\ y \in Int /\ x = y + d
        /\ (m = 0 \/ m <= Capacity - t + y)
    BY <1>1, <2>3, <2>4
  <2> HIDE DEF d, x, y
  <2>8. Least(Capacity, t + d) \in 0..Capacity /\ m <= Capacity - Least(Capacity, t + d) + x
    BY <1>0, <2>7 DEF Least
  <2>9. QED
    BY <2>5, <2>6, <2>8 DEF x
<1>3. CASE now < f
  <2>1. f - now \in Int /\ 0 <= f - now /\ now - f <= 0
    BY <1>0, <1>3
  <2>2. Greatest(0, now - f) = 0 /\ Greatest(0, f - now) = f - now
    BY <1>0, <1>3, <2>1 DEF Greatest
  <2>3. Rate * (f - now) \in Int /\ 0 <= Rate * (f - now)
    BY <2>1, Refilled
  <2>4. Rate * (f + MaxDelay) = Rate * (now + MaxDelay) + Rate * (f - now)
    <3>1. f + MaxDelay = (now + MaxDelay) + (f - now)
      BY <1>0
    <3>2. QED
      BY <1>0, <2>1, <3>1, Refilled
  <2>5. Found(t, f, now) = t
    BY <1>0, <2>2, Refilled DEF Found, Least
  <2> DEFINE d == Rate * (f - now)
             x == Rate * (now + MaxDelay)
             y == Rate * (f + MaxDelay)
  <2>6. Leaked(m, f, now) = Greatest(0, m - d)
    BY <2>2 DEF Leaked
  <2>7. d \in Int /\ 0 <= d /\ x \in Int /\ 0 <= x /\ y \in Int /\ y = x + d
        /\ (m = 0 \/ m <= Capacity - t + y)
    BY <1>1, <2>3, <2>4
  <2> HIDE DEF d, x, y
  <2>8. Greatest(0, m - d) \in Nat /\ Greatest(0, m - d) <= Capacity - t + x
    BY <1>0, <2>7 DEF Greatest
  <2>9. QED
    BY <2>5, <2>6, <2>8 DEF x
<1>4. QED
  BY <1>0, <1>2, <1>3

\* A bucket that holds a token at instant p holds it then by what a command
\* that found too few leaves.
LEMMA Keeps ==
    ASSUME NEW t \in 0..Capacity, NEW f \in Int, NEW now \in Clocks, NEW p \in Int,
           Found(t, f, now) < One, t + Rate * (p - f) >= One
    PROVE  Found(t, f, now) + Rate * (p - now) >= One
<1> USE Constants
<1>0. now \in Int /\ t \in Int
  BY DEF Clocks
<1>1. Rate * (p - f) \in Int /\ Rate * (p - now) \in Int
  BY <1>0, Refilled
<1>2. CASE now >= f
  <2>1. now - f \in Int /\ Greatest(0, now - f) = now - f
    BY <1>0, <1>2 DEF Greatest
  <2>2. Rate * (now - f) \in Int
    BY <2>1, Refilled
  <2>3. Rate * (p - f) = Rate * (p - now) + Rate * (now - f)
    <3> DEFINE x == p - now
               y == now - f
    <3>1. p - f = x + y /\ x \in Int /\ y \in Int
      BY <1>0
    <3> HIDE DEF x, y
    <3>2. Rate * (x + y) = Rate * x + Rate * y
      BY <3>1, Refilled
    <3>3. QED
      BY <3>1, <3>2 DEF x, y
  <2>4. Found(t, f, now) = t + Rate * (now - f)
    BY <1>0, <2>1, <2>2 DEF Found, Least
  <2>5. QED
    BY <1>0, <1>1, <2>2, <2>3, <2>4
<1>3. CASE now < f
  <2>1. Found(t, f, now) = t
    <3>1. Greatest(0, now - f) = 0
      BY <1>0, <1>3 DEF Greatest
    <3>2. QED
      BY <1>0, <3>1, Refilled DEF Found, Least
  <2>2. p - f <= p - now /\ p - f \in Int /\ p - now \in Int
    BY <1>0, <1>3
  <2>3. Rate * (p - f) <= Rate * (p - now)
    BY <2>2, Refilled
  <2>4. QED
    BY <1>0, <1>1, <2>1, <2>3
<1>4. QED
  BY <1>0, <1>2, <1>3

\* Retry-After is long enough for what is missing.
LEMMA Waits ==
    ASSUME NEW a \in 0..Capacity
    PROVE  LET w == Second * Greatest(1, CeilDiv(One - a, Rate * Second))
           IN  w \in Int /\ a + Rate * w >= One
<1> DEFINE b == Rate * Second
           u == CeilDiv(One - a, b)
           n == Greatest(1, u)
           w == Second * n
<1> USE Constants
<1>1. b \in Nat /\ b > 0 /\ One - a \in Int
  OBVIOUS
<1>2. Rate * (Second * n) = b * n
  <2>1. u \in Int
    BY <1>1, CeilDivCovers
  <2>2. n \in Int
    BY <2>1 DEF Greatest
  <2> HIDE DEF n
  <2>3. QED
    BY <2>2
<1> HIDE DEF b
<1>3. u \in Int /\ b * u >= One - a
  BY <1>1, CeilDivCovers
<1> HIDE DEF u
<1>4. n \in Int /\ n >= u
  BY <1>3 DEF Greatest
<1> HIDE DEF n
<1>5. w \in Int
  BY <1>4
<1>6. b * n >= b * u
  BY <1>1, <1>3, <1>4
<1>7. b * u \in Int /\ b * n \in Int
  BY <1>1, <1>3, <1>4
<1>8. b * n >= One - a
  BY <1>1, <1>3, <1>6, <1>7
<1>9. a + Rate * w >= One
  BY <1>1, <1>2, <1>7, <1>8
<1>10. w = Second * Greatest(1, CeilDiv(One - a, Rate * Second))
  BY DEF n, u, b
<1> HIDE DEF w
<1>11. QED
  BY <1>5, <1>9, <1>10

-----------------------------------------------------------------------------
(* The steps *)

Hash == [tokens : 0..Capacity, refilled : Oldest..MaxSkew, expires : 1..Ttl]

\* The types of what is known of a key.
LEMMA KeyTypes ==
    ASSUME BInv, NEW k \in Keys
    PROVE  /\ bucket[k] = Never \/ bucket[k] \in Hash
           /\ bucket[k] \in Hash => /\ bucket[k].tokens \in 0..Capacity /\ bucket[k].refilled \in Int
                                    /\ bucket[k].refilled \in Oldest..MaxSkew
                                    /\ bucket[k].expires \in 1..Ttl /\ bucket[k].expires \in Int
           /\ meter[k] \in Nat /\ promise[k] \in Int \cup {Never}
<1>1. Oldest \in Int /\ Ttl \in Nat
  BY Constants, TtlFacts DEF Oldest
<1>2. bucket[k] = Never \/ bucket[k] \in Hash
  BY DEF BInv, BucketTypeOK, Hash
<1>3. bucket[k] \in Hash => /\ bucket[k].tokens \in 0..Capacity
                            /\ bucket[k].refilled \in Oldest..MaxSkew
                            /\ bucket[k].expires \in 1..Ttl
  BY DEF Hash
<1>4. Oldest..MaxSkew \subseteq Int /\ 1..Ttl \subseteq Int
  BY <1>1, Constants
<1>5. meter[k] \in Nat /\ promise[k] \in Int \cup {Never}
  BY DEF BInv, BucketTypeOK
<1>6. QED
  BY <1>2, <1>3, <1>4, <1>5

\* What a command finds: a bucket that is not there is full.
LEMMA Finds ==
    ASSUME BInv, NEW k \in Keys, NEW now \in Clocks
    PROVE  LET a == Available(k, now)
               m == Greatest(0, meter[k] - Rate * SetBack(k, now))
           IN  /\ a \in 0..Capacity /\ m \in Nat
               /\ m <= Capacity - a + Rate * (now + MaxDelay)
               /\ bucket[k] # Never => a = Found(bucket[k].tokens, bucket[k].refilled, now)
               /\ a < One => bucket[k] # Never
<1>0. KeyCourse(k) /\ now \in Int /\ 0 <= now + MaxDelay
  BY Constants DEF BInv, Clocks
<1>1. CASE bucket[k] = Never
  <2>1. meter[k] = 0 /\ Available(k, now) = Capacity /\ SetBack(k, now) = 0
    BY <1>0, <1>1 DEF KeyCourse, Available, SetBack
  <2>2. Greatest(0, meter[k] - Rate * SetBack(k, now)) = 0
    BY <2>1, Refilled DEF Greatest
  <2>3. now + MaxDelay \in Int /\ 0 <= Rate * (now + MaxDelay) /\ Rate * (now + MaxDelay) \in Int
    BY <1>0, Constants, Refilled
  <2>4. QED
    BY <1>1, <2>1, <2>2, <2>3, Constants
<1>2. CASE bucket[k] # Never
  <2> DEFINE t == bucket[k].tokens
             f == bucket[k].refilled
  <2>1. t \in 0..Capacity /\ f \in Int /\ meter[k] \in Nat
    BY <1>2, KeyTypes
  <2>2. meter[k] = 0 \/ meter[k] <= Capacity - t + Rate * (f + MaxDelay)
    BY <1>0, <1>2 DEF KeyCourse, Metered
  <2>3. Available(k, now) = Found(t, f, now)
    BY <1>2 DEF Available, Found
  <2>4. Greatest(0, meter[k] - Rate * SetBack(k, now)) = Leaked(meter[k], f, now)
    BY <1>2 DEF SetBack, Leaked
  <2> HIDE DEF t, f
  <2>5. /\ Found(t, f, now) \in 0..Capacity /\ Leaked(meter[k], f, now) \in Nat
        /\ Leaked(meter[k], f, now) <= Capacity - Found(t, f, now) + Rate * (now + MaxDelay)
    BY <2>1, <2>2, Refill
  <2>6. QED
    BY <1>2, <2>3, <2>4, <2>5 DEF t, f
<1>3. QED
  BY <1>1, <1>2

\* A bucket that has just been stored.
LEMMA Stores ==
    ASSUME BInv, NEW k \in Keys, NEW now \in Clocks, NEW left \in 0..Capacity,
           Store(k, now, left), NEW n \in Nat, meter' = [meter EXCEPT ![k] = n],
           n <= Capacity - left + Rate * (now + MaxDelay),
           NEW p \in Int \cup {Never}, promise' = [promise EXCEPT ![k] = p],
           p # Never => left + Rate * (p - now) >= One
    PROVE  /\ bucket' \in [Keys -> Hash \cup {Never}] /\ meter' \in [Keys -> Nat]
           /\ promise' \in [Keys -> Int \cup {Never}]
           /\ \A j \in Keys : KeyCourse(j)'
<1>0. /\ bucket \in [Keys -> Hash \cup {Never}] /\ meter \in [Keys -> Nat]
      /\ promise \in [Keys -> Int \cup {Never}]
  BY DEF BInv, BucketTypeOK, Hash
<1> DEFINE h == [tokens |-> left, refilled |-> now, expires |-> Ttl]
<1>1. bucket' = [bucket EXCEPT ![k] = h]
  BY DEF Store
<1>2. now \in Int /\ -MaxDelay <= now /\ now <= MaxSkew
  BY Constants DEF Clocks
<1>3. now \in Oldest..MaxSkew /\ Ttl \in 1..Ttl /\ Ttl \in Int
  BY <1>2, Constants, TtlFacts DEF Oldest
<1>4. h \in Hash
  BY <1>3 DEF Hash
<1>5. h # Never
  <2>1. h \in [tokens : Int, refilled : Int, expires : Int]
    BY <1>2, <1>3
  <2>2. QED
    BY <2>1, BucketAssumption
<1>6. bucket'[k] = h /\ meter'[k] = n /\ promise'[k] = p
  BY <1>0, <1>1
<1>7. /\ h.tokens = left /\ h.refilled = now /\ h.expires = Ttl
  OBVIOUS
<1> HIDE DEF h
<1>8. ASSUME NEW j \in Keys PROVE KeyCourse(j)'
  <2>1. CASE j = k
    <3>1. Dated(k)'
      BY <1>2, <1>3, <1>6, <1>7, Constants DEF Dated
    <3>2. Metered(k)'
      BY <1>6, <1>7 DEF Metered
    <3>3. Promised(k)'
      BY <1>6, <1>7 DEF Promised
    <3>4. QED
      BY <1>5, <1>6, <2>1, <3>1, <3>2, <3>3 DEF KeyCourse
  <2>2. CASE j # k
    <3>1. bucket'[j] = bucket[j] /\ meter'[j] = meter[j] /\ promise'[j] = promise[j]
      BY <1>0, <1>1, <2>2
    <3>2. KeyCourse(j)
      BY DEF BInv
    <3>3. QED
      BY <3>1, <3>2 DEF KeyCourse, Dated, Metered, Promised
  <2>3. QED
    BY <2>1, <2>2
<1>9. QED
  BY <1>0, <1>1, <1>4, <1>8

\* An admission empties the bucket as it fills the meter; a denial keeps both.
LEMMA ConsumeStep ==
    ASSUME BInv, NEW r \in Limited, NEW k \in Keys, Consume(r, k)
    PROVE  BInv'
<1> DEFINE now == stamp[r]
           a == Available(k, now)
           m == Greatest(0, meter[k] - Rate * SetBack(k, now))
<1> USE Constants
<1>1. now \in Clocks /\ now \in Int
  BY DEF BInv, BucketTypeOK, Clocks
<1>2. /\ a \in 0..Capacity /\ m \in Nat
      /\ m <= Capacity - a + Rate * (now + MaxDelay)
      /\ bucket[k] # Never => a = Found(bucket[k].tokens, bucket[k].refilled, now)
      /\ a < One => bucket[k] # Never
  BY <1>1, Finds
<1>3. meter[k] \in Nat /\ promise[k] \in Int \cup {Never} /\ KeyCourse(k)
  BY KeyTypes DEF BInv
<1>4. Rate * (now + MaxDelay) \in Int
  BY <1>1, Refilled
<1>5. /\ client \in {"none", "pending", "ready"}
      /\ stage \in [Limited -> {"idle", "init", "consume"} \cup Answers]
      /\ unpaid \in [Limited -> SUBSET Keys] /\ refusing \in [Limited -> SUBSET Keys]
      /\ stamp \in [Limited -> Clocks] /\ outages \in 0..MaxOutages
  BY DEF BInv, BucketTypeOK
<1>6. /\ client' = client /\ stage' = stage /\ stamp' = stamp /\ outages' = outages
      /\ unpaid' \in [Limited -> SUBSET Keys] /\ refusing' \in [Limited -> SUBSET Keys]
  <2>1. unpaid' \in [Limited -> SUBSET Keys]
    <3>1. unpaid' = [unpaid EXCEPT ![r] = unpaid[r] \ {k}]
      BY DEF Consume
    <3>2. QED
      BY <1>5, <3>1
  <2>2. refusing' \in [Limited -> SUBSET Keys]
    <3>1. refusing' = refusing \/ refusing' = [refusing EXCEPT ![r] = refusing[r] \cup {k}]
      BY DEF Consume
    <3>2. refusing[r] \cup {k} \in SUBSET Keys
      BY <1>5
    <3>3. QED
      BY <1>5, <3>1, <3>2
  <2>3. QED
    BY <2>1, <2>2 DEF Consume
<1>7. /\ bucket' \in [Keys -> Hash \cup {Never}] /\ meter' \in [Keys -> Nat]
      /\ promise' \in [Keys -> Int \cup {Never}]
      /\ \A j \in Keys : KeyCourse(j)'
  <2>1. CASE Admit(k, now)
    <3>1. a >= One /\ Store(k, now, a - One)
      BY <2>1 DEF Admit
    <3>2. meter' = [meter EXCEPT ![k] = m + One] /\ promise' = [promise EXCEPT ![k] = Never]
      BY <2>1 DEF Admit
    <3> HIDE DEF a, m, now
    <3>3. /\ a - One \in 0..Capacity /\ m + One \in Nat
          /\ m + One <= Capacity - (a - One) + Rate * (now + MaxDelay)
      BY <1>1, <1>2, <1>4, <3>1
    <3>4. QED
      BY <1>1, <3>1, <3>2, <3>3, Stores
  <2>2. CASE Deny(k, now)
    <3> DEFINE w == Second * RetryAfter(k, now)
               p == IF promise[k] = Never THEN now + w ELSE Least(promise[k], now + w)
               t == bucket[k].tokens
               f == bucket[k].refilled
    <3>1. a < One /\ Store(k, now, a)
      BY <2>2 DEF Deny
    <3>2. meter' = [meter EXCEPT ![k] = m] /\ promise' = [promise EXCEPT ![k] = p]
      BY <2>2 DEF Deny
    <3>3. w \in Int /\ a + Rate * w >= One
      BY <1>2, Waits DEF RetryAfter
    <3>4. bucket[k] # Never /\ t \in 0..Capacity /\ f \in Int
      BY <1>2, <3>1, KeyTypes
    <3>5. promise[k] # Never => t + Rate * (promise[k] - f) >= One
      BY <1>3, <3>4 DEF KeyCourse, Promised
    <3>6. Found(t, f, now) = a
      BY <1>2, <3>4
    <3> HIDE DEF a, m, w, t, f, now
    <3>7. promise[k] # Never => a + Rate * (promise[k] - now) >= One
      BY <1>1, <1>3, <3>1, <3>4, <3>5, <3>6, Keeps
    <3>8. p \in Int /\ p # Never
      BY <1>1, <1>3, <3>3 DEF Least
    <3>9. p = now + w \/ (p = promise[k] /\ promise[k] # Never)
      BY DEF Least
    <3>10. a + Rate * (p - now) >= One
      <4>1. CASE p = now + w
        <5> HIDE DEF p
        <5>1. p - now = w
          BY <1>1, <3>3, <4>1
        <5>2. QED
          BY <3>3, <5>1
      <4>2. CASE p = promise[k] /\ promise[k] # Never
        <5> HIDE DEF p
        <5>1. QED
          BY <3>7, <4>2
      <4>3. QED
        BY <3>9, <4>1, <4>2
    <3> HIDE DEF p
    <3>11. QED
      BY <1>1, <1>2, <3>1, <3>2, <3>8, <3>10, Stores
  <2>3. QED
    BY <2>1, <2>2 DEF Consume
<1>8. QED
  BY <1>5, <1>6, <1>7 DEF BInv, BucketTypeOK, Hash

\* A tick later every instant is one tick earlier, and a bucket that expires
\* was full again.
LEMMA TickKey ==
    ASSUME BInv, Tick, NEW k \in Keys
    PROVE  /\ bucket'[k] \in Hash \cup {Never} /\ meter'[k] \in Nat
           /\ promise'[k] \in Int \cup {Never} /\ KeyCourse(k)'
<1> USE Constants, TtlFacts
<1> DEFINE t == bucket[k].tokens
           f == bucket[k].refilled
           e == bucket[k].expires
           m == meter[k]
           p == promise[k]
<1>1. m \in Nat /\ p \in Int \cup {Never} /\ KeyCourse(k)
  BY KeyTypes DEF BInv
<1>2. meter'[k] = Greatest(0, m - Rate)
  BY DEF Tick
<1>3. promise'[k] = IF p = Never THEN Never ELSE Greatest(-MaxDelay, p - 1)
  BY DEF Tick
<1>4. bucket'[k] = IF bucket[k] = Never \/ e = 1 THEN Never
                   ELSE [bucket[k] EXCEPT !.refilled = @ - 1, !.expires = @ - 1]
  BY DEF Tick
<1>5. meter'[k] \in Nat /\ promise'[k] \in Int \cup {Never}
  BY <1>1, <1>2, <1>3 DEF Greatest
<1>6. CASE bucket[k] = Never
  <2>1. m = 0
    BY <1>1, <1>6 DEF KeyCourse
  <2>2. bucket'[k] = Never /\ meter'[k] = 0
    BY <1>2, <1>4, <1>6, <2>1 DEF Greatest
  <2>3. QED
    BY <1>5, <2>2 DEF KeyCourse
<1>7. CASE bucket[k] # Never
  <2>1. /\ bucket[k] \in Hash /\ t \in 0..Capacity /\ f \in Int /\ f \in Oldest..MaxSkew
        /\ e \in 1..Ttl /\ e \in Int
    BY <1>7, KeyTypes
  <2>2. f <= MaxSkew - (Ttl - e) /\ f >= -MaxDelay - (Ttl - e)
    BY <1>1, <1>7 DEF KeyCourse, Dated
  <2>3. m = 0 \/ m <= Capacity - t + Rate * (f + MaxDelay)
    BY <1>1, <1>7 DEF KeyCourse, Metered
  <2>4. p # Never => t + Rate * (p - f) >= One
    BY <1>1, <1>7 DEF KeyCourse, Promised
  <2>5. CASE e = 1
    <3>1. Rate * (f + MaxDelay) <= Rate - Capacity /\ Rate * (f + MaxDelay) \in Int
      <4>1. f + MaxDelay \in Int /\ MaxSkew + MaxDelay \in Int /\ Ttl \in Int
        BY <2>1
      <4> DEFINE s == MaxSkew + MaxDelay
      <4>2. f + MaxDelay <= (s - Ttl) + 1
        BY <2>1, <2>2, <2>5
      <4>3. Rate * (f + MaxDelay) <= Rate * ((s - Ttl) + 1)
        BY <4>1, <4>2, Refilled
      <4>4. Rate * ((s - Ttl) + 1) = Rate * (s - Ttl) + Rate * 1
        BY <4>1, Refilled
      <4>5. Rate * (s - Ttl) = Rate * s - Rate * Ttl
        BY <4>1, Refilled
      <4>6. /\ Rate * (f + MaxDelay) \in Int /\ Rate * s \in Int /\ Rate * Ttl \in Int
            /\ Rate * 1 = Rate
        BY <4>1, Refilled
      <4>7. Capacity + Rate * s <= Rate * Ttl
        BY TtlFacts
      <4> HIDE DEF s
      <4>8. QED
        BY <4>3, <4>4, <4>5, <4>6, <4>7
    <3> HIDE DEF t, f, e, m, p
    <3>2. m <= Rate
      BY <1>1, <2>1, <2>3, <3>1
    <3>3. bucket'[k] = Never /\ meter'[k] = 0
      BY <1>1, <1>2, <1>4, <2>5, <3>2 DEF Greatest
    <3>4. QED
      BY <1>5, <3>3 DEF KeyCourse
  <2>6. CASE e # 1
    <3> DEFINE h == [bucket[k] EXCEPT !.refilled = f - 1, !.expires = e - 1]
    <3>1. bucket'[k] = h
      BY <1>4, <1>7, <2>6
    <3>2. h.tokens = t /\ h.refilled = f - 1 /\ h.expires = e - 1
      BY <2>1 DEF Hash
    <3>3. e - 1 \in 1..Ttl /\ f - 1 \in Oldest..MaxSkew
      BY <2>1, <2>2, <2>6 DEF Oldest
    <3>4. h \in Hash
      BY <2>1, <3>3 DEF Hash
    <3>5. h # Never
      <4>1. h \in [tokens : Int, refilled : Int, expires : Int]
        <5>1. h \in [tokens : 0..Capacity, refilled : Oldest..MaxSkew, expires : 1..Ttl]
          BY <3>4 DEF Hash
        <5>2. /\ 0..Capacity \subseteq Int /\ Oldest..MaxSkew \subseteq Int
              /\ 1..Ttl \subseteq Int
          BY DEF Oldest
        <5>3. QED
          BY <5>1, <5>2
      <4>2. QED
        BY <4>1, BucketAssumption
    <3> HIDE DEF h
    <3>6. Dated(k)'
      BY <2>1, <2>2, <3>1, <3>2 DEF Dated
    <3>7. Metered(k)'
      <4>1. Rate * (f - 1 + MaxDelay) = Rate * (f + MaxDelay) - Rate
        <5>1. f - 1 + MaxDelay = (f + MaxDelay) - 1 /\ f + MaxDelay \in Int
          BY <2>1
        <5> DEFINE g == f + MaxDelay
        <5>2. g \in Int
          BY <5>1
        <5> HIDE DEF g
        <5>3. Rate * (g - 1) = Rate * g - Rate * 1
          BY <5>2, Refilled
        <5>4. Rate * 1 = Rate
          BY Refilled
        <5>5. QED
          BY <5>1, <5>3, <5>4 DEF g
      <4>2. Rate * (f + MaxDelay) \in Int
        BY <2>1, Refilled
      <4> DEFINE y == Rate * (f + MaxDelay)
                 z == Rate * (f - 1 + MaxDelay)
      <4>3. z = y - Rate /\ y \in Int /\ (m = 0 \/ m <= Capacity - t + y)
        BY <2>3, <4>1, <4>2
      <4>4. meter'[k] = 0 \/ meter'[k] <= Capacity - t + z
        <5> HIDE DEF y, z, t, f, m
        <5>1. QED
          BY <1>1, <1>2, <2>1, <4>3 DEF Greatest
      <4>5. QED
        BY <3>1, <3>2, <4>4 DEF Metered
    <3>8. Promised(k)'
      <4>1. SUFFICES ASSUME promise'[k] # Never
                     PROVE  t + Rate * (promise'[k] - (f - 1)) >= One
        BY <3>1, <3>2 DEF Promised
      <4>2. p # Never /\ p \in Int
        BY <1>1, <1>3, <4>1
      <4>3. promise'[k] \in Int /\ promise'[k] >= p - 1
        BY <1>3, <4>2 DEF Greatest
      <4> DEFINE x == p - f
                 y == promise'[k] - (f - 1)
      <4>4. x \in Int /\ y \in Int /\ x <= y
        BY <2>1, <4>2, <4>3
      <4>5. t + Rate * x >= One
        BY <2>4, <4>2
      <4> HIDE DEF x, y
      <4>6. Rate * x <= Rate * y /\ Rate * x \in Int /\ Rate * y \in Int
        BY <4>4, Refilled
      <4>7. t + Rate * y >= One
        BY <2>1, <4>5, <4>6
      <4>8. QED
        BY <4>7 DEF y
    <3>9. QED
      BY <1>5, <3>1, <3>4, <3>5, <3>6, <3>7, <3>8 DEF KeyCourse
  <2>7. QED
    BY <2>5, <2>6
<1>8. QED
  BY <1>6, <1>7

\* A tick keeps the types and the course of every key.
LEMMA TickStep ==
    ASSUME BInv, Tick
    PROVE  BInv'
<1>1. /\ client \in {"none", "pending", "ready"}
      /\ stage \in [Limited -> {"idle", "init", "consume"} \cup Answers]
      /\ unpaid \in [Limited -> SUBSET Keys] /\ refusing \in [Limited -> SUBSET Keys]
      /\ stamp \in [Limited -> Clocks] /\ outages \in 0..MaxOutages
  BY DEF BInv, BucketTypeOK
<1>2. /\ client' = client /\ stage' = stage /\ unpaid' = unpaid
      /\ refusing' = refusing /\ outages' = outages
  BY DEF Tick
<1>3. stamp' \in [Limited -> Clocks]
  <2>1. ASSUME NEW r \in Limited
        PROVE  (IF unpaid[r] = {} THEN stamp[r] ELSE stamp[r] - 1) \in Clocks
    <3>1. stamp[r] \in Clocks /\ (unpaid[r] # {} => stamp[r] > -MaxDelay)
      BY <1>1 DEF Tick
    <3>2. QED
      BY <3>1, Constants DEF Clocks
  <2>2. stamp' = [r \in Limited |-> IF unpaid[r] = {} THEN stamp[r] ELSE stamp[r] - 1]
    BY DEF Tick
  <2>3. QED
    BY <2>1, <2>2
<1>4. /\ bucket' \in [Keys -> Hash \cup {Never}] /\ meter' \in [Keys -> Nat]
      /\ promise' \in [Keys -> Int \cup {Never}]
  <2>1. /\ bucket' = [k \in Keys |-> bucket'[k]] /\ meter' = [k \in Keys |-> meter'[k]]
        /\ promise' = [k \in Keys |-> promise'[k]]
    BY DEF Tick
  <2>2. QED
    BY <2>1, TickKey
<1>5. QED
  BY <1>1, <1>2, <1>3, <1>4, TickKey DEF BInv, BucketTypeOK, Hash

\* The steps of the middleware, and none, leave the buckets alone.
LEMMA OtherSteps ==
    ASSUME BInv,
           \/ Connected \/ ConnectFails \/ UNCHANGED bucketVars
           \/ \E r \in Limited : BeginLimited(r) \/ Send(r) \/ Answer(r) \/ ConsumeFails(r)
    PROVE  BInv'
<1>1. /\ client \in {"none", "pending", "ready"}
      /\ stage \in [Limited -> {"idle", "init", "consume"} \cup Answers]
      /\ unpaid \in [Limited -> SUBSET Keys] /\ refusing \in [Limited -> SUBSET Keys]
      /\ stamp \in [Limited -> Clocks] /\ outages \in 0..MaxOutages
  BY DEF BInv, BucketTypeOK
<1>2. bucket' = bucket /\ meter' = meter /\ promise' = promise
  BY DEF Connected, ConnectFails, bucketVars, BeginLimited, Send, Answer, ConsumeFails, bucketStore
<1>3. \A k \in Keys : KeyCourse(k)'
  BY <1>2 DEF BInv, KeyCourse, Dated, Metered, Promised
<1>4. /\ client' \in {"none", "pending", "ready"}
      /\ stage' \in [Limited -> {"idle", "init", "consume"} \cup Answers]
      /\ unpaid' \in [Limited -> SUBSET Keys] /\ refusing' \in [Limited -> SUBSET Keys]
      /\ stamp' \in [Limited -> Clocks] /\ outages' \in 0..MaxOutages
  <2>1. CASE Connected
    BY <1>1, <2>1 DEF Connected
  <2>2. CASE ConnectFails
    <3>1. outages' \in 0..MaxOutages
      BY <1>1, <2>2, Constants DEF ConnectFails
    <3>2. stage' \in [Limited -> {"idle", "init", "consume"} \cup Answers]
      BY <1>1, <2>2 DEF ConnectFails, Answers
    <3>3. QED
      BY <1>1, <2>2, <3>1, <3>2 DEF ConnectFails
  <2>3. CASE UNCHANGED bucketVars
    BY <1>1, <2>3 DEF bucketVars
  <2>4. CASE \E r \in Limited : BeginLimited(r)
    <3>1. PICK r \in Limited : BeginLimited(r)
      BY <2>4
    <3>2. QED
      BY <1>1, <3>1 DEF BeginLimited
  <2>5. CASE \E r \in Limited : Send(r)
    <3>1. PICK r \in Limited : Send(r)
      BY <2>5
    <3>2. PICK ks \in (SUBSET Keys) \ {{}}, now \in 0..MaxSkew :
            /\ unpaid' = [unpaid EXCEPT ![r] = ks]
            /\ stamp' = [stamp EXCEPT ![r] = now]
      BY <3>1 DEF Send
    <3>3. now \in Clocks
      BY Constants DEF Clocks
    <3>4. unpaid' \in [Limited -> SUBSET Keys] /\ stamp' \in [Limited -> Clocks]
      BY <1>1, <3>2, <3>3
    <3>5. QED
      BY <1>1, <3>1, <3>4 DEF Send
  <2>6. CASE \E r \in Limited : Answer(r)
    <3>1. PICK r \in Limited : Answer(r)
      BY <2>6
    <3>2. QED
      BY <1>1, <3>1 DEF Answer, Answers
  <2>7. CASE \E r \in Limited : ConsumeFails(r)
    <3>1. PICK r \in Limited : ConsumeFails(r)
      BY <2>7
    <3>2. outages' \in 0..MaxOutages
      BY <1>1, <3>1, Constants DEF ConsumeFails
    <3>3. unpaid' \in [Limited -> SUBSET Keys]
      <4>1. unpaid' = unpaid \/ \E k \in unpaid[r] : unpaid' = [unpaid EXCEPT ![r] = unpaid[r] \ {k}]
        BY <3>1 DEF ConsumeFails
      <4>2. QED
        BY <1>1, <4>1
    <3>4. stage' \in [Limited -> {"idle", "init", "consume"} \cup Answers]
      BY <1>1, <3>1 DEF ConsumeFails, Answers
    <3>5. QED
      BY <1>1, <3>1, <3>2, <3>3, <3>4 DEF ConsumeFails
  <2>8. QED
    BY <2>1, <2>2, <2>3, <2>4, <2>5, <2>6, <2>7
<1>5. QED
  BY <1>2, <1>3, <1>4 DEF BInv, BucketTypeOK

-----------------------------------------------------------------------------
(* The theorems *)

\* The invariant holds at first.
LEMMA BInit ==
    ASSUME BucketInit
    PROVE  BInv
<1>1. BucketTypeOK
  BY Constants DEF BucketInit, BucketTypeOK, Clocks
<1>2. \A k \in Keys : KeyCourse(k)
  BY DEF BucketInit, KeyCourse
<1>3. QED
  BY <1>1, <1>2 DEF BInv

\* The invariant is inductive.
LEMMA BStep ==
    ASSUME BInv, [BucketNext]_bucketVars
    PROVE  BInv'
BY ConsumeStep, TickStep, OtherSteps DEF BucketNext

\* The invariant the others follow from: what a key was admitted beyond its
\* rate is missing from its bucket, which expires no earlier than it is full.
THEOREM BInvHolds == BucketSpec => []BInv
<1>1. BucketInit => BInv
  BY BInit
<1>2. BInv /\ [BucketNext]_bucketVars => BInv'
  BY BStep
<1>3. QED
  BY <1>1, <1>2, PTL DEF BucketSpec

\* A bucket holds at most its capacity, was refilled at most a TTL and the
\* delay of a command ago, and no command waits longer than it may.
THEOREM TypeCorrect == BucketSpec => []BucketTypeOK
<1>1. BInv => BucketTypeOK
  BY DEF BInv
<1>2. QED
  BY <1>1, BInvHolds, PTL

\* Whatever the commands' order, delay and clocks, no key is admitted more
\* than a full bucket and what is refilled while it is, though its bucket may
\* expire and be created again in between (TOKEN_BUCKET_SCRIPT).
THEOREM AdmissionsWithinRate == BucketSpec => []AdmittedWithinRate
<1>1. BInv => AdmittedWithinRate
  <2>1. SUFFICES ASSUME BInv, NEW k \in Keys
                 PROVE  meter[k] <= Capacity + Rate * (MaxSkew + MaxDelay)
    BY DEF AdmittedWithinRate
  <2> DEFINE t == bucket[k].tokens
             f == bucket[k].refilled
             z == Rate * (MaxSkew + MaxDelay)
  <2>2. z \in Int /\ 0 <= z
    BY Constants, Refilled
  <2>3. CASE meter[k] = 0
    BY <2>2, <2>3, Constants
  <2>4. CASE meter[k] # 0
    <3>1. bucket[k] # Never /\ Metered(k)
      BY <2>1, <2>4 DEF BInv, KeyCourse
    <3>2. meter[k] <= Capacity - t + Rate * (f + MaxDelay)
      BY <2>4, <3>1 DEF Metered
    <3>3. t \in 0..Capacity /\ f \in Int /\ f \in Oldest..MaxSkew /\ meter[k] \in Nat
      BY <2>1, <3>1, KeyTypes
    <3>4. Oldest \in Int
      BY Constants, TtlFacts DEF Oldest
    <3>5. /\ f + MaxDelay \in Int /\ MaxSkew + MaxDelay \in Int
          /\ f + MaxDelay <= MaxSkew + MaxDelay
      BY <3>3, <3>4, Constants
    <3>6. Rate * (f + MaxDelay) <= z /\ Rate * (f + MaxDelay) \in Int
      BY <3>5, Refilled
    <3> HIDE DEF z, t, f
    <3>7. meter[k] <= Capacity + z
      BY <2>2, <3>2, <3>3, <3>6, Constants
    <3>8. QED
      BY <3>7 DEF z
  <2>5. QED
    BY <2>3, <2>4
<1>2. QED
  BY <1>1, BInvHolds, PTL

\* Retry-After is never too short, though other requests are denied while the
\* client waits and the clocks that measure the wait differ.
THEOREM WaitsSuffice == BucketSpec => []RetrySuffices
<1>1. BInv => RetrySuffices
  <2>1. SUFFICES ASSUME BInv, NEW k \in Keys, NEW now \in Clocks,
                        promise[k] # Never, now >= promise[k]
                 PROVE  Available(k, now) >= One
    BY DEF RetrySuffices
  <2> USE Constants
  <2>2. CASE bucket[k] = Never
    BY <2>2 DEF Available
  <2>3. CASE bucket[k] # Never
    <3> DEFINE t == bucket[k].tokens
               f == bucket[k].refilled
               p == promise[k]
               d == Greatest(0, now - f)
    <3>1. t \in 0..Capacity /\ f \in Int /\ p \in Int /\ now \in Int
      BY <2>1, <2>3, KeyTypes DEF Clocks
    <3>2. t + Rate * (p - f) >= One
      BY <2>1, <2>3 DEF BInv, KeyCourse, Promised
    <3>3. Available(k, now) = Least(Capacity, t + Rate * d)
      BY <2>3 DEF Available
    <3>4. d \in Int /\ p - f \in Int /\ p - f <= d
      BY <2>1, <3>1 DEF Greatest
    <3> HIDE DEF d, t, f, p
    <3>5. Rate * (p - f) <= Rate * d /\ Rate * d \in Int /\ Rate * (p - f) \in Int
      BY <3>4, Refilled
    <3>6. t + Rate * d >= One
      BY <3>1, <3>2, <3>5
    <3>7. QED
      BY <3>1, <3>3, <3>5, <3>6 DEF Least
  <2>4. QED
    BY <2>2, <2>3
<1>2. QED
  BY <1>1, BInvHolds, PTL

=============================================================================
