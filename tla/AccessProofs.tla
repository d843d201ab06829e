------------------------------ MODULE AccessProofs ------------------------------
(***************************************************************************)
(* What a request has to pass before the gate acts on it, for every value  *)
(* of the constants: the rate limiters, the replay cache of DPoP proofs,   *)
(* the session that its lease names, the learned allowlist and the policy. *)
(***************************************************************************)
EXTENDS RateLimiter, ReplayCache, LeaseSession, LearnedAllowlist, PolicyAdmin,
        FiniteSetTheorems, TLAPS

(***************************************************************************)
(* The token bucket for every number of threads, every rate and every      *)
(* horizon: the bucket keeps its type, and what it admits is bounded by    *)
(* the seconds shown and the stale readings used.                          *)
(***************************************************************************)

--------------------------------------------------------------------------------
(* The inductive invariant.                                                *)

\* No reading and no refill is ahead of the clock.
NothingFromTheFuture ==
    /\ bucket.last <= second
    /\ \A c \in Threads : check[c].now <= second

\* A thread about to swap has a token to take, and has added none of its own
\* unless its reading differs from the last refill.
SwapsAreJustified ==
    \A c \in Threads : check[c].pc = "swap" =>
        /\ check[c].refilled >= 1
        /\ check[c].now = check[c].seen.last =>
               check[c].refilled = check[c].seen.tokens

\* Tokens in the bucket count as admissions still to come; while the current
\* second has not been used for a refill, one bucket is in reserve.
TokensAccounted ==
    /\ admitted + bucket.tokens <= Rps * (1 + second + 2 * stale)
    /\ bucket.last < second =>
           admitted + bucket.tokens <= Rps * (second + 2 * stale)

RateInv ==
    /\ RateTypeOK
    /\ NothingFromTheFuture
    /\ SwapsAreJustified
    /\ TokensAccounted

--------------------------------------------------------------------------------
(* Arithmetic.                                                             *)

\* A longer time allows no less.
LEMMA MoreBuckets ==
    ASSUME NEW r \in Nat, NEW m \in Nat, NEW n \in Nat, m <= n
    PROVE  r * m <= r * n
<1> DEFINE d == n - m
<1>1. d \in Nat /\ n = m + d
  OBVIOUS
<1>2. r * (m + d) = r * m + r * d /\ r * d \in Nat /\ r * m \in Nat
  BY <1>1
<1> QED
  BY <1>1, <1>2

\* A later second brings at least the bucket that the earlier one counts.
LEMMA LaterAllowsMore ==
    ASSUME NEW r \in Nat, NEW s \in Nat, NEW t \in Nat, NEW k \in Nat, s < t
    PROVE  /\ r * (1 + s + 2 * k) <= r * (t + 2 * k)
           /\ r * (t + 2 * k) <= r * (1 + t + 2 * k)
<1> DEFINE early == 1 + s + 2 * k
           late == t + 2 * k
           next == 1 + t + 2 * k
<1>1. /\ early \in Nat /\ late \in Nat /\ next \in Nat
      /\ early <= late /\ late <= next
  OBVIOUS
<1> HIDE DEF early, late, next
<1>2. r * early <= r * late /\ r * late <= r * next
  BY <1>1, MoreBuckets
<1> QED
  BY <1>2 DEF early, late, next

\* Refill (the refill arithmetic of check()) never exceeds the capacity, and
\* adds nothing within the second of the last refill.
LEMMA RefillBounds ==
    ASSUME NEW word \in Bucket, NEW now \in Nat
    PROVE  /\ Refill(word, now) \in 0..Rps
           /\ now = word.last => Refill(word, now) = word.tokens
<1> DEFINE elapsed == (now - word.last) % ClockModulus
<1>1. word.last \in Nat /\ word.tokens \in 0..Rps /\ Rps \in Nat
  BY RateAssumption DEF Bucket
<1>2. elapsed \in Nat /\ (now = word.last => elapsed = 0)
  BY <1>1, RateAssumption
<1>3. elapsed * Rps \in Nat /\ (elapsed = 0 => elapsed * Rps = 0)
  BY <1>1, <1>2
<1> DEFINE added == elapsed * Rps
<1>4. Refill(word, now) = IF word.tokens + added < Rps
                          THEN word.tokens + added ELSE Rps
  BY DEF Refill, AtMost
<1> HIDE DEF added, elapsed
<1>5. added \in Nat /\ (now = word.last => added = 0)
  BY <1>2, <1>3 DEF added
<1> QED
  BY <1>1, <1>4, <1>5

--------------------------------------------------------------------------------
(* The invariant is preserved.                                             *)

LEMMA RateInitInv == RateInit => RateInv
<1> SUFFICES ASSUME RateInit PROVE RateInv
  OBVIOUS
<1>1. Rps \in Nat /\ Rps * 1 = Rps /\ bucket \in Bucket
  BY RateAssumption DEF RateInit, Bucket
<1>2. RateTypeOK
  BY <1>1 DEF RateInit, RateTypeOK, Check
<1>3. NothingFromTheFuture /\ SwapsAreJustified
  BY DEF RateInit, NothingFromTheFuture, SwapsAreJustified
<1>4. TokensAccounted
  BY <1>1 DEF RateInit, TokensAccounted
<1> QED
  BY <1>2, <1>3, <1>4 DEF RateInv

\* The ticker: the new second brings the reserve the old one had used.
LEMMA PublishInv == RateInv /\ Publish => RateInv'
<1> SUFFICES ASSUME RateInv, Publish PROVE RateInv'
  OBVIOUS
<1> USE DEF RateInv
<1>1. /\ second \in Nat /\ second' \in Nat /\ second < second'
      /\ stale \in Nat /\ admitted \in Nat /\ Rps \in Nat
      /\ bucket \in Bucket
  BY RateAssumption DEF RateTypeOK, Publish
<1>2. RateTypeOK' /\ SwapsAreJustified'
  BY <1>1 DEF RateTypeOK, SwapsAreJustified, Publish
<1>3. NothingFromTheFuture'
  BY <1>1 DEF NothingFromTheFuture, Publish, RateTypeOK, Check, Bucket
<1>4. /\ Rps * (1 + second + 2 * stale) <= Rps * (second' + 2 * stale)
      /\ Rps * (second' + 2 * stale) <= Rps * (1 + second' + 2 * stale)
  BY <1>1, LaterAllowsMore
<1>5. TokensAccounted'
  <2> DEFINE old == Rps * (1 + second + 2 * stale)
             mid == Rps * (second' + 2 * stale)
             new == Rps * (1 + second' + 2 * stale)
             all == admitted + bucket.tokens
  <2>1. all \in Int /\ old \in Int /\ mid \in Int /\ new \in Int
    BY <1>1 DEF Bucket
  <2>2. all <= old /\ old <= mid /\ mid <= new
    BY <1>4 DEF TokensAccounted
  <2>3. bucket' = bucket /\ admitted' = admitted /\ stale' = stale
    BY DEF Publish
  <2> HIDE DEF old, mid, new, all
  <2>4. all <= new /\ all <= mid
    BY <2>1, <2>2
  <2> QED
    BY <2>3, <2>4 DEF TokensAccounted, mid, new, all
<1> QED
  BY <1>2, <1>3, <1>5

\* The first step of check().
LEMMA ReadClockInv == ASSUME NEW c \in Threads PROVE RateInv /\ ReadClock(c) => RateInv'
<1> SUFFICES ASSUME RateInv, ReadClock(c) PROVE RateInv'
  OBVIOUS
<1> USE DEF RateInv
<1>1. RateTypeOK'
  BY DEF RateTypeOK, ReadClock, Check
<1>2. NothingFromTheFuture'
  BY DEF RateTypeOK, NothingFromTheFuture, ReadClock, Check
<1>3. SwapsAreJustified'
  BY DEF RateTypeOK, SwapsAreJustified, ReadClock, Check
<1>4. TokensAccounted'
  BY DEF TokensAccounted, ReadClock
<1> QED
  BY <1>1, <1>2, <1>3, <1>4

\* The load and the refill computation of check().
LEMMA LoadInv == ASSUME NEW c \in Threads PROVE RateInv /\ Load(c) => RateInv'
<1> SUFFICES ASSUME RateInv, Load(c) PROVE RateInv'
  OBVIOUS
<1> USE DEF RateInv
<1> DEFINE refilled == Refill(bucket, check[c].now)
<1>1. /\ check' = [check EXCEPT ![c].pc = IF refilled < 1 THEN "idle" ELSE "swap",
                                ![c].seen = bucket, ![c].refilled = refilled]
      /\ UNCHANGED <<second, bucket, admitted, stale>>
  BY DEF Load
<1>2. bucket \in Bucket /\ check \in [Threads -> Check] /\ check[c].now \in Nat
  BY DEF RateTypeOK, Check
<1>3. refilled \in 0..Rps /\ (check[c].now = bucket.last => refilled = bucket.tokens)
  BY <1>2, RefillBounds
<1> HIDE DEF refilled
<1> DEFINE pc == IF refilled < 1 THEN "idle" ELSE "swap"
<1>4. RateTypeOK'
  <2>1. pc \in {"idle", "load", "swap"}
    OBVIOUS
  <2> HIDE DEF pc
  <2>2. check' = [check EXCEPT ![c].pc = pc, ![c].seen = bucket,
                               ![c].refilled = refilled]
    BY <1>1 DEF pc
  <2>3. check' \in [Threads -> Check]
    BY <1>2, <1>3, <2>1, <2>2 DEF Check
  <2> QED
    BY <1>1, <2>3 DEF RateTypeOK
<1>5. NothingFromTheFuture'
  BY <1>1, <1>2 DEF NothingFromTheFuture, Check
<1>6. SwapsAreJustified'
  BY <1>1, <1>2, <1>3, RateAssumption DEF SwapsAreJustified, Check
<1>7. TokensAccounted'
  BY <1>1 DEF TokensAccounted
<1> QED
  BY <1>4, <1>5, <1>6, <1>7

\* The successful compare_exchange: a current reading spends the reserve of its
\* second at most once, an outdated one is charged two buckets.
LEMMA AdmitAccounted ==
    ASSUME NEW c \in Threads, RateInv, check[c].pc = "swap",
           bucket = check[c].seen, Admit(c), UNCHANGED second
    PROVE  TokensAccounted'
<1> USE DEF RateInv
<1> DEFINE base == second + 2 * stale
           now == check[c].now
           refilled == check[c].refilled
<1>1. /\ base \in Nat /\ stale \in Nat /\ second \in Nat /\ Rps \in Nat
      /\ admitted \in Nat /\ bucket.tokens \in 0..Rps /\ bucket.last \in Nat
      /\ now \in Nat /\ refilled \in 0..Rps
  BY RateAssumption DEF RateTypeOK, Check, Bucket
<1>2. /\ bucket.last <= second /\ now <= second /\ refilled >= 1
      /\ now = bucket.last => refilled = bucket.tokens
  BY DEF NothingFromTheFuture, SwapsAreJustified
<1>3. /\ bucket'.last = now /\ bucket'.tokens = refilled - 1
      /\ admitted' = admitted + 1 /\ second' = second
      /\ stale' = IF now < second THEN stale + 1 ELSE stale
  BY DEF Admit
<1>4. /\ Rps * (base + 1) = Rps * base + Rps /\ Rps * base \in Nat
      /\ Rps * (base + 2) = Rps * base + Rps + Rps
      /\ Rps * (base + 3) = Rps * base + Rps + Rps + Rps
  <2> HIDE DEF base
  <2> QED
    BY <1>1
<1>5. 1 + second + 2 * stale = base + 1
  BY <1>1
<1> DEFINE x == Rps * base
<1>6. x \in Nat /\ admitted + bucket.tokens <= x + Rps
      /\ (bucket.last < second => admitted + bucket.tokens <= x)
  BY <1>4, <1>5 DEF TokensAccounted
<1>7. admitted' + bucket'.tokens = admitted + refilled
  BY <1>1, <1>3
<1>8. CASE now = second
  <2>1. admitted + refilled <= x + Rps
    <3> HIDE DEF x, base, now, refilled
    <3> QED
      BY <1>1, <1>2, <1>6, <1>8
  <2>2. 1 + second' + 2 * stale' = base + 1 /\ ~(bucket'.last < second')
    BY <1>1, <1>3, <1>8
  <2>3. admitted' + bucket'.tokens <= Rps * (base + 1)
    BY <2>1, <1>4, <1>7
  <2> QED
    BY <2>2, <2>3 DEF TokensAccounted
<1>9. CASE now < second
  <2>1. admitted + refilled <= x + Rps + Rps /\ x + Rps + Rps <= x + Rps + Rps + Rps
    <3> HIDE DEF x, base, now, refilled
    <3> QED
      BY <1>1, <1>6
  <2>2. 1 + second' + 2 * stale' = base + 3 /\ second' + 2 * stale' = base + 2
    BY <1>1, <1>3, <1>9
  <2>3. admitted' + bucket'.tokens <= Rps * (base + 2)
    BY <2>1, <1>4, <1>7
  <2>4. admitted' + bucket'.tokens <= Rps * (base + 3)
    <3> HIDE DEF base, now, refilled
    <3> QED
      BY <2>1, <1>1, <1>4, <1>7, <1>6
  <2> QED
    BY <2>2, <2>3, <2>4 DEF TokensAccounted
<1> QED
  BY <1>1, <1>2, <1>8, <1>9

\* The compare_exchange of check(): won, or lost and tried again.
LEMMA SwapInv == ASSUME NEW c \in Threads PROVE RateInv /\ Swap(c) => RateInv'
<1> SUFFICES ASSUME RateInv, Swap(c) PROVE RateInv'
  OBVIOUS
<1> USE DEF RateInv
<1>1. check[c].pc = "swap" /\ UNCHANGED second
  BY DEF Swap
<1>2. CASE bucket = check[c].seen /\ Admit(c)
  <2>1. check[c].now \in Nat /\ check[c].refilled \in 0..Rps /\ check[c].refilled >= 1
    BY <1>1 DEF RateTypeOK, Check, SwapsAreJustified
  <2>2. RateTypeOK'
    <3>1. bucket' \in Bucket
      BY <1>2, <2>1, RateAssumption DEF Admit, Bucket
    <3>2. admitted' \in Nat /\ stale' \in Nat /\ second' \in Nat
      BY <1>1, <1>2 DEF Admit, RateTypeOK
    <3>3. check' \in [Threads -> Check]
      BY <1>2 DEF Admit, RateTypeOK, Check
    <3> QED
      BY <3>1, <3>2, <3>3 DEF RateTypeOK
  <2>3. NothingFromTheFuture'
    BY <1>1, <1>2 DEF NothingFromTheFuture, Admit, RateTypeOK, Check
  <2>4. SwapsAreJustified'
    BY <1>1, <1>2 DEF SwapsAreJustified, Admit, RateTypeOK, Check
  <2>5. TokensAccounted'
    BY <1>1, <1>2, AdmitAccounted
  <2> QED
    BY <2>2, <2>3, <2>4, <2>5
<1>3. CASE /\ check' = [check EXCEPT ![c].pc = "load"]
           /\ UNCHANGED <<bucket, admitted, stale>>
  <2>1. RateTypeOK'
    BY <1>1, <1>3 DEF RateTypeOK, Check
  <2>2. NothingFromTheFuture' /\ SwapsAreJustified'
    BY <1>1, <1>3 DEF RateTypeOK, Check, NothingFromTheFuture, SwapsAreJustified
  <2>3. TokensAccounted'
    BY <1>1, <1>3 DEF TokensAccounted
  <2> QED
    BY <2>1, <2>2, <2>3
<1> QED
  BY <1>2, <1>3 DEF Swap

--------------------------------------------------------------------------------
(* Theorems.                                                               *)

\* RateInv holds in every reachable state of the limiter, whatever the number
\* of threads in check() and wherever the ticker's store falls between their
\* steps.
THEOREM RateInvariant == RateSpec => []RateInv
<1>1. RateInv /\ [RateNext]_rateVars => RateInv'
  <2> SUFFICES ASSUME RateInv, [RateNext]_rateVars PROVE RateInv'
    OBVIOUS
  <2>1. CASE Publish
    BY <2>1, PublishInv
  <2>2. ASSUME NEW c \in Threads, ReadClock(c) PROVE RateInv'
    BY <2>2, ReadClockInv
  <2>3. ASSUME NEW c \in Threads, Load(c) PROVE RateInv'
    BY <2>3, LoadInv
  <2>4. ASSUME NEW c \in Threads, Swap(c) PROVE RateInv'
    BY <2>4, SwapInv
  <2>5. CASE UNCHANGED rateVars
    BY <2>5 DEF rateVars, RateInv, RateTypeOK, NothingFromTheFuture,
                SwapsAreJustified, TokensAccounted
  <2> QED
    BY <2>1, <2>2, <2>3, <2>4, <2>5 DEF RateNext
<1> QED
  BY <1>1, RateInitInv, PTL DEF RateSpec

\* TokenBucketRateLimiter keeps its shape; in particular the bucket never holds
\* more than its capacity.
THEOREM RateTypes == RateSpec => []RateTypeOK
<1>1. RateInv => RateTypeOK
  BY DEF RateInv
<1> QED
  BY <1>1, RateInvariant, PTL

\* check() admits at most one bucket, one per second shown, and two for each
\* admission that went by an outdated reading.
THEOREM RateIsBounded == RateSpec => []RateBounded
<1>1. RateInv => RateBounded
  <2> SUFFICES ASSUME RateInv PROVE RateBounded
    OBVIOUS
  <2> DEFINE cap == Rps * (1 + second + 2 * stale)
  <2>1. admitted \in Nat /\ bucket.tokens \in Nat /\ admitted + bucket.tokens <= cap
    BY RateAssumption DEF RateInv, RateTypeOK, TokensAccounted, Bucket
  <2>2. cap \in Int
    BY RateAssumption DEF RateInv, RateTypeOK
  <2> HIDE DEF cap
  <2>3. admitted <= cap
    BY <2>1, <2>2
  <2> QED
    BY <2>3 DEF cap, RateBounded
<1> QED
  BY <1>1, RateInvariant, PTL

--------------------------------------------------------------------------------
(***************************************************************************)
(* The limiter map.  A thread inside check() read its stamp at most        *)
(* MaxStall ago, so a bucket was used for the last time at most MaxStall   *)
(* after its stamp.  A bucket whose stamp is MaxIdle old has had a second   *)
(* to fill since, and a new one is full too.                               *)
(***************************************************************************)

\* A thread inside check() has a recent stamp.
StampInv ==
    \A c \in Callers : caller[c].pc # "idle" =>
        caller[c].now <= tick /\ tick <= caller[c].now + MaxStall

\* The last deduction was at most MaxStall after the stamp of the entry.
LastUseInv ==
    \A k \in Keys :
        /\ kept[k].last <= tick /\ entry[k].bucket.last <= tick
        /\ InMap(k) => kept[k].last <= entry[k].used + MaxStall

LimiterInv == LimiterTypeOK /\ StampInv /\ LastUseInv /\ SweepUnobservable

\* What a deduction leaves: a bucket of this second, or the empty one it found.
LEMMA DeductedBucket ==
    ASSUME LimiterTypeOK, NEW k \in Keys, NEW b \in [last : Nat, tokens : Nat],
           b.last <= tick
    PROVE  /\ Deducted(k, b) \in [last : Nat, tokens : Nat]
           /\ Deducted(k, b).last <= tick
           /\ Refilled(k, b) \in Nat
           /\ Refilled(k, Deducted(k, b)) =
                 IF Refilled(k, b) = 0 THEN 0 ELSE Refilled(k, b) - 1
  <1>1. Refilled(k, b) \in Nat /\ tick \in Nat
    BY LimiterAssumption DEF Refilled, LimiterTypeOK
  <1>2. CASE Refilled(k, b) = 0
    BY <1>1, <1>2 DEF Deducted
  <1>3. CASE Refilled(k, b) # 0
    <2>1. Deducted(k, b) = [last |-> tick, tokens |-> Refilled(k, b) - 1]
      BY <1>3 DEF Deducted
    <2>2. Refilled(k, b) - 1 \in Nat
      BY <1>1, <1>3
    <2>3. Refilled(k, Deducted(k, b)) = Refilled(k, b) - 1
      <3> DEFINE v == Refilled(k, b) - 1
      <3>1. Deducted(k, b) = [last |-> tick, tokens |-> v]
        BY <2>1
      <3> HIDE DEF v
      <3>2. Refilled(k, Deducted(k, b)) = v
        BY <1>1, <3>1 DEF Refilled
      <3> QED
        BY <3>2 DEF v
    <2> QED
      BY <1>1, <1>3, <2>1, <2>2, <2>3
  <1> QED
    BY <1>2, <1>3

\* A bucket that shows as many tokens as the shadow keeps doing so when both are
\* charged, whichever thread made it.
LEMMA UsePreserves ==
    ASSUME LimiterInv, NEW c \in Callers, caller[c].pc # "idle",
           NEW b \in [last : Nat, tokens : Nat], b.last <= tick,
           Refilled(caller[c].key, b) = Refilled(caller[c].key, kept[caller[c].key]),
           Use(c, b)
    PROVE  LimiterInv'
  <1>1. PICK k \in Keys : k = caller[c].key
    BY DEF LimiterInv, LimiterTypeOK
  <1>2. /\ entry' = [entry EXCEPT ![k] = [used |-> caller[c].now, bucket |-> Deducted(k, b)]]
        /\ kept' = [kept EXCEPT ![k] = Deducted(k, kept[k])]
        /\ caller' = [caller EXCEPT ![c].pc = "idle"]
        /\ tick' = tick
    BY <1>1 DEF Use
  <1>3. /\ LimiterTypeOK /\ tick \in Nat /\ caller[c].now \in Nat
        /\ kept[k] \in [last : Nat, tokens : Nat] /\ kept[k].last <= tick
        /\ caller[c].now <= tick /\ tick <= caller[c].now + MaxStall
    BY DEF LimiterInv, LimiterTypeOK, LastUseInv, StampInv
  <1>4. /\ Deducted(k, b) \in [last : Nat, tokens : Nat] /\ Deducted(k, b).last <= tick
        /\ Deducted(k, kept[k]) \in [last : Nat, tokens : Nat]
        /\ Deducted(k, kept[k]).last <= tick
        /\ Refilled(k, Deducted(k, b)) = Refilled(k, Deducted(k, kept[k]))
    BY <1>1, <1>3, DeductedBucket
  <1>5. /\ entry'[k] = [used |-> caller[c].now, bucket |-> Deducted(k, b)]
        /\ kept'[k] = Deducted(k, kept[k])
        /\ \A j \in Keys : j # k => entry'[j] = entry[j] /\ kept'[j] = kept[j]
    BY <1>2, <1>3 DEF LimiterTypeOK
  <1>6. LimiterTypeOK'
    BY <1>2, <1>3, <1>4 DEF LimiterTypeOK
  <1>7. StampInv'
    BY <1>2, <1>3 DEF LimiterInv, StampInv, LimiterTypeOK
  <1>8. LastUseInv'
    <2>1. Deducted(k, kept[k]).last <= caller[c].now + MaxStall
      BY <1>3, <1>4, LimiterAssumption
    <2> QED
      BY <1>2, <1>4, <1>5, <2>1 DEF LimiterInv, LastUseInv, InMap
  <1>9. SweepUnobservable'
    <2>1. \A j \in Keys : \A x : Refilled(j, x)' = Refilled(j, x)
      BY <1>2 DEF Refilled
    <2>2. InMap(k)'
      BY <1>3, <1>5, LimiterAssumption DEF InMap
    <2>3. Refilled(k, kept[k])' = Refilled(k, entry[k].bucket)'
      BY <1>2, <1>4, <1>5 DEF Refilled
    <2>4. \A j \in Keys : j # k =>
             /\ Refilled(j, kept[j])' = Refilled(j, kept[j])
             /\ Refilled(j, entry[j].bucket)' = Refilled(j, entry[j].bucket)
             /\ InMap(j)' = InMap(j)
      BY <1>2, <1>5 DEF Refilled, InMap
    <2> QED
      BY <2>2, <2>3, <2>4 DEF LimiterInv, SweepUnobservable
  <1> QED
    BY <1>6, <1>7, <1>8, <1>9 DEF LimiterInv

LEMMA LimiterTickPreserves ==
    ASSUME LimiterInv, CoarseTick
    PROVE  LimiterInv'
  <1> USE DEF CoarseTick
  <1>1. LimiterTypeOK /\ tick \in Nat
    BY DEF LimiterInv, LimiterTypeOK
  <1>2. LimiterTypeOK'
    BY <1>1 DEF LimiterTypeOK
  <1>3. StampInv'
    <2> SUFFICES ASSUME NEW c \in Callers, caller[c].pc # "idle"
                 PROVE  caller[c].now <= tick + 1 /\ tick + 1 <= caller[c].now + MaxStall
      BY DEF StampInv
    <2>1. caller[c].now \in Nat
      BY <1>1 DEF LimiterTypeOK
    <2> QED
      BY <1>1, <2>1, LimiterAssumption DEF LimiterInv, StampInv
  <1>4. \A k \in Keys : kept[k].last \in Nat /\ entry[k].bucket.last \in Nat
    BY <1>1 DEF LimiterTypeOK
  <1>5. LastUseInv'
    BY <1>1, <1>4 DEF LimiterInv, LastUseInv, InMap
  <1>6. \A k \in Keys : Refilled(k, kept[k])' = KeyRps[k]
                        /\ Refilled(k, entry[k].bucket)' = KeyRps[k]
    BY <1>1, <1>4 DEF LimiterInv, LastUseInv, Refilled
  <1>7. SweepUnobservable'
    BY <1>6 DEF SweepUnobservable
  <1> QED
    BY <1>2, <1>3, <1>5, <1>7 DEF LimiterInv

LEMMA LimiterSweepPreserves ==
    ASSUME LimiterInv, SweepStale
    PROVE  LimiterInv'
  <1>1. PICK now \in 0..tick, K \in SUBSET Keys :
            /\ \A k \in K : Stale(k, now)
            /\ entry' = [k \in Keys |-> IF k \in K THEN NoEntry(k) ELSE entry[k]]
            /\ UNCHANGED <<tick, kept, caller>>
    BY DEF SweepStale
  <1>2. LimiterTypeOK /\ tick \in Nat
    BY DEF LimiterInv, LimiterTypeOK
  <1>3. \A k \in Keys : NoEntry(k) \in [used : Nat \cup {Never},
                                        bucket : [last : Nat, tokens : Nat]]
    BY LimiterAssumption DEF NoEntry, Full
  <1>4. LimiterTypeOK'
    <2> DEFINE E == [used : Nat \cup {Never}, bucket : [last : Nat, tokens : Nat]]
    <2>1. \A k \in Keys : NoEntry(k) \in E /\ entry[k] \in E
      BY <1>2, <1>3 DEF LimiterTypeOK
    <2> HIDE DEF E
    <2>2. entry' \in [Keys -> E]
      BY <1>1, <2>1
    <2> QED
      BY <1>1, <1>2, <2>2 DEF LimiterTypeOK, E
  <1>5. StampInv'
    BY <1>1 DEF LimiterInv, StampInv
  <1>6. \A k \in K : ~InMap(k)' /\ entry'[k].bucket.last = 0
    BY <1>1 DEF InMap, NoEntry, Full
  <1>7. \A k \in Keys \ K : entry'[k] = entry[k]
    BY <1>1
  <1>8. LastUseInv'
    <2> SUFFICES ASSUME NEW k \in Keys
                 PROVE  /\ kept[k].last <= tick /\ entry'[k].bucket.last <= tick
                        /\ InMap(k)' => kept[k].last <= entry'[k].used + MaxStall
      BY <1>1 DEF LastUseInv
    <2>1. CASE k \in K
      BY <1>2, <1>6, <2>1 DEF LimiterInv, LastUseInv
    <2>2. CASE k \notin K
      BY <1>7, <2>2 DEF LimiterInv, LastUseInv, InMap
    <2> QED
      BY <2>1, <2>2
  <1>9. ASSUME NEW k \in K PROVE Refilled(k, kept[k]) = KeyRps[k]
    <2>1. InMap(k) /\ now - entry[k].used >= MaxIdle
      BY <1>1, <1>9 DEF Stale
    <2>2. entry[k].used \in Nat /\ kept[k].last \in Nat /\ now \in Nat /\ now <= tick
      BY <1>2, <2>1 DEF LimiterTypeOK, InMap
    <2>3. kept[k].last <= entry[k].used + MaxStall
      BY <2>1 DEF LimiterInv, LastUseInv
    <2>4. kept[k].last < tick
      BY <1>2, <2>1, <2>2, <2>3, LimiterAssumption
    <2> QED
      BY <2>4 DEF Refilled
  <1>10. SweepUnobservable'
    <2> SUFFICES ASSUME NEW k \in Keys
                 PROVE  Refilled(k, kept[k])' =
                            IF InMap(k)' THEN Refilled(k, entry[k].bucket)' ELSE KeyRps[k]
      BY DEF SweepUnobservable
    <2>1. Refilled(k, kept[k])' = Refilled(k, kept[k])
      BY <1>1 DEF Refilled
    <2>2. CASE k \in K
      BY <1>6, <1>9, <2>1, <2>2
    <2>3. CASE k \notin K
      <3>1. InMap(k)' = InMap(k) /\ Refilled(k, entry[k].bucket)' = Refilled(k, entry[k].bucket)
        BY <1>1, <1>7, <2>3 DEF InMap, Refilled
      <3> QED
        BY <2>1, <3>1 DEF LimiterInv, SweepUnobservable
    <2> QED
      BY <2>2, <2>3
  <1> QED
    BY <1>4, <1>5, <1>8, <1>10 DEF LimiterInv

\* A step of a thread that leaves the map alone.
LEMMA CallerStepPreserves ==
    ASSUME LimiterInv, UNCHANGED <<tick, entry, kept>>,
           caller' \in [Callers -> [pc : {"idle", "get", "insert"}, key : Keys, now : Nat]],
           StampInv'
    PROVE  LimiterInv'
  <1>1. LimiterTypeOK' /\ LastUseInv'
    BY DEF LimiterInv, LimiterTypeOK, LastUseInv, InMap
  <1>2. SweepUnobservable'
    BY DEF LimiterInv, SweepUnobservable, Refilled, InMap
  <1> QED
    BY <1>1, <1>2 DEF LimiterInv

LEMMA LimiterCallerPreserves ==
    ASSUME LimiterInv, NEW c \in Callers,
           (\E k \in Keys : ReadNow(c, k)) \/ FastPath(c) \/ Miss(c) \/ SlowPath(c)
    PROVE  LimiterInv'
  <1>1. LimiterTypeOK /\ tick \in Nat
        /\ caller \in [Callers -> [pc : {"idle", "get", "insert"}, key : Keys, now : Nat]]
    BY DEF LimiterInv, LimiterTypeOK
  <1>2. ASSUME NEW k \in Keys, ReadNow(c, k) PROVE LimiterInv'
    <2>1. caller' = [caller EXCEPT ![c] = [pc |-> "get", key |-> k, now |-> tick]]
          /\ UNCHANGED <<tick, entry, kept>>
      BY <1>2 DEF ReadNow
    <2>2. StampInv'
      BY <1>1, <2>1, LimiterAssumption DEF LimiterInv, StampInv
    <2> QED
      BY <1>1, <2>1, <2>2, CallerStepPreserves
  <1>3. CASE Miss(c)
    <2>1. caller' = [caller EXCEPT ![c].pc = "insert"] /\ caller[c].pc = "get"
          /\ UNCHANGED <<tick, entry, kept>>
      BY <1>3 DEF Miss
    <2>2. StampInv'
      BY <1>1, <2>1 DEF LimiterInv, StampInv
    <2> QED
      BY <1>1, <2>1, <2>2, CallerStepPreserves
  <1>4. PICK k \in Keys : k = caller[c].key
    BY <1>1
  <1>5. entry[k].bucket \in [last : Nat, tokens : Nat] /\ entry[k].bucket.last <= tick
    BY <1>1 DEF LimiterTypeOK, LimiterInv, LastUseInv
  <1>6. InMap(k) => Refilled(k, entry[k].bucket) = Refilled(k, kept[k])
    BY DEF LimiterInv, SweepUnobservable
  <1>7. CASE FastPath(c)
    <2>1. caller[c].pc # "idle" /\ InMap(k) /\ Use(c, entry[k].bucket)
      BY <1>4, <1>7 DEF FastPath
    <2> QED
      BY <1>4, <1>5, <1>6, <2>1, UsePreserves
  <1>8. CASE SlowPath(c)
    <2>1. caller[c].pc # "idle" /\ Use(c, IF InMap(k) THEN entry[k].bucket ELSE Full(k, tick))
      BY <1>4, <1>8 DEF SlowPath
    <2>2. CASE InMap(k)
      BY <1>4, <1>5, <1>6, <2>1, <2>2, UsePreserves
    <2>3. CASE ~InMap(k)
      <3>1. Full(k, tick) \in [last : Nat, tokens : Nat] /\ Full(k, tick).last <= tick
            /\ Refilled(k, Full(k, tick)) = KeyRps[k]
        BY <1>1, LimiterAssumption DEF Full, Refilled
      <3>2. Refilled(k, kept[k]) = KeyRps[k]
        BY <2>3 DEF LimiterInv, SweepUnobservable
      <3>3. Use(c, Full(k, tick))
        BY <2>1, <2>3
      <3> QED
        BY <1>4, <2>1, <3>1, <3>2, <3>3, UsePreserves
    <2> QED
      BY <2>2, <2>3
  <1> QED
    BY <1>2, <1>3, <1>7, <1>8

\* Dropping an idle limiter and making it again cannot be observed by its callers,
\* as long as no thread spends MaxIdle inside one check.
THEOREM LimitersAreSafe == LimiterSpec => []LimitersSafe
<1>1. LimiterInit => LimiterInv
  <2> SUFFICES ASSUME LimiterInit PROVE LimiterInv
    OBVIOUS
  <2>1. \A k \in Keys : /\ Full(k, 0) \in [last : Nat, tokens : Nat]
                        /\ kept[k] = Full(k, 0) /\ entry[k] = NoEntry(k)
                        /\ ~InMap(k)
    BY LimiterAssumption DEF LimiterInit, Full, NoEntry, InMap
  <2>2. LimiterTypeOK
    BY <2>1 DEF LimiterInit, LimiterTypeOK, NoEntry
  <2>3. StampInv /\ LastUseInv
    BY <2>1 DEF LimiterInit, StampInv, LastUseInv, NoEntry, Full
  <2>4. SweepUnobservable
    BY <2>1 DEF LimiterInit, SweepUnobservable, Refilled, Full
  <2> QED
    BY <2>2, <2>3, <2>4 DEF LimiterInv
<1>2. LimiterInv /\ [LimiterNext]_limiterVars => LimiterInv'
  <2> SUFFICES ASSUME LimiterInv, [LimiterNext]_limiterVars PROVE LimiterInv'
    OBVIOUS
  <2>1. CASE UNCHANGED limiterVars
    <3>1. UNCHANGED <<tick, entry, kept>> /\ caller' = caller
      BY <2>1 DEF limiterVars
    <3>2. StampInv'
      BY <3>1 DEF LimiterInv, StampInv
    <3> QED
      BY <3>1, <3>2, CallerStepPreserves DEF LimiterInv, LimiterTypeOK
  <2> QED
    BY <2>1, LimiterTickPreserves, LimiterSweepPreserves, LimiterCallerPreserves
    DEF LimiterNext
<1>3. LimiterInv => LimitersSafe
  BY DEF LimiterInv, LimitersSafe
<1> QED
  BY <1>1, <1>2, <1>3, PTL DEF LimiterSpec

--------------------------------------------------------------------------------
(***************************************************************************)
(* Why a proof admits one request, for every number of proofs, requests,   *)
(* restarts and seconds.  The entry of an admitted proof is dropped or     *)
(* overwritten only by somebody whose reading of the clock is Ttl past the *)
(* stored one.  By then the proof's iat lies outside the window, and stays *)
(* outside; a request that passed the window before has been over for at   *)
(* least Ttl - MaxAge - Skew - MaxDelay seconds.  A restart forgets the    *)
(* entry, and with it the key every older proof's lease was signed with.   *)
(***************************************************************************)

Holding(r) == req[r].at \in {"reserved", "refused"}

\* A proof is signed under a key that exists, and counted once.
ProofInv ==
    \A p \in Proofs :
        /\ proof[p] = NotSigned \/ proof[p].epoch \in 0..epoch
        /\ accepted[p] \in {0, 1}
        /\ accepted[p] = 1 => proof[p].epoch # -1

\* An entry stands for an admission under the present key, and was stored no
\* earlier than the window lets a proof be signed ahead.
EntryInv ==
    \A p \in Proofs :
        seenAt[p] # Absent =>
            /\ accepted[p] = 1 /\ proof[p].epoch = epoch
            /\ proof[p].iat <= seenAt[p] + Skew

\* An admitted proof without entry is too old to be verified again.
DroppedInv ==
    \A p \in Proofs :
        accepted[p] = 1 /\ proof[p].epoch = epoch /\ seenAt[p] = Absent =>
            proof[p].iat + Ttl <= clock + Skew

\* Request r carries proof p, whose window was open at most MaxDelay ago.
Carries(r, p) ==
    /\ req[r].proof = {p} /\ proof[p].epoch = epoch
    /\ req[r].since <= clock /\ clock <= req[r].since + MaxDelay
    /\ req[r].since <= proof[p].iat + MaxAge
    /\ proof[p].iat <= req[r].since + Skew
    /\ req[r].at # "verified" => req[r].since <= req[r].instant /\ req[r].instant <= clock
    /\ Holding(r) => seenAt[p] = Absent

CarryInv == \A r \in Requests : Underway(r) => \E p \in Proofs : Carries(r, p)

\* The shard of a jti is held by one request.
ShardInv ==
    \A r, s \in Requests :
        Holding(r) /\ Holding(s) /\ req[r].proof = req[s].proof => r = s

ReplayInv ==
    /\ ReplayTypeOK /\ sweep.at <= clock
    /\ ProofInv /\ EntryInv /\ DroppedInv /\ CarryInv /\ ShardInv

--------------------------------------------------------------------------------
(***************************************************************************)
(* What the steps of a request need to know of it.                         *)
(***************************************************************************)

LEMMA ModStays ==
    ASSUME NEW n \in Nat, Wrap \in Nat, Wrap > 0
    PROVE  n % Wrap \in 0..(Wrap - 1)
  OBVIOUS

LEMMA WrapPositive == Wrap \in Nat /\ Wrap > 0
  BY ReplayAssumption, FS_CardinalityType

\* A request underway has one proof, the one ProofOf names.
LEMMA ItsProof ==
    ASSUME CarryInv, NEW r \in Requests, Underway(r)
    PROVE  /\ ProofOf(r) \in Proofs
           /\ Carries(r, ProofOf(r))
  <1>1. PICK p \in Proofs : Carries(r, p)
    BY DEF CarryInv
  <1>2. req[r].proof = {p}
    BY <1>1 DEF Carries
  <1>3. ProofOf(r) = p
    BY <1>2 DEF ProofOf
  <1> QED
    BY <1>1, <1>3

\* While a request is underway, its proof's entry is not old enough to be dropped.
LEMMA EntryOutlivesRequest ==
    ASSUME ReplayInv, NEW r \in Requests, NEW p \in Proofs, Underway(r), Carries(r, p),
           seenAt[p] # Absent, req[r].at # "verified"
    PROVE  IsSeen(p, req[r].instant)
  <1>1. /\ proof[p].iat \in Nat /\ seenAt[p] \in Nat /\ clock \in Nat
        /\ req[r].since \in Nat /\ req[r].instant \in Nat
    BY DEF ReplayInv, ReplayTypeOK, Request, Absent
  <1>2. proof[p].iat <= seenAt[p] + Skew
    BY DEF ReplayInv, EntryInv
  <1> QED
    BY <1>1, <1>2, ReplayAssumption DEF Carries, IsSeen

\* A proof whose window was open MaxDelay ago or later and that has no entry has
\* not been admitted.
LEMMA NoEntryNotAdmitted ==
    ASSUME ReplayInv, NEW r \in Requests, NEW p \in Proofs, Underway(r), Carries(r, p),
           seenAt[p] = Absent
    PROVE  accepted[p] = 0
  <1>1. /\ proof[p].iat \in Nat /\ clock \in Nat /\ req[r].since \in Nat
    BY DEF ReplayInv, ReplayTypeOK, Request
  <1>2. accepted[p] \in {0, 1}
    BY DEF ReplayInv, ProofInv
  <1>3. SUFFICES ASSUME accepted[p] = 1 PROVE FALSE
    BY <1>2
  <1>4. proof[p].iat + Ttl <= clock + Skew
    BY <1>3 DEF ReplayInv, DroppedInv, Carries
  <1> QED
    BY <1>1, <1>4, ReplayAssumption DEF Carries

--------------------------------------------------------------------------------
(***************************************************************************)
(* The invariant is preserved.  Most steps leave the proofs, the entries   *)
(* and the clock alone: for those the request's own part is all there is.  *)
(***************************************************************************)

\* Nothing but requests, the counter and the sweep moved, and no request that was
\* not underway has become so.
LEMMA RestOfTheRequests ==
    ASSUME ReplayInv, ReplayTypeOK', sweep'.at <= clock',
           UNCHANGED <<clock, epoch, proof, seenAt, accepted>>,
           NEW r \in Requests,
           \A s \in Requests : s # r => req'[s] = req[s],
           Underway(r)' => \E p \in Proofs : Carries(r, p)',
           Holding(r)' => \A s \in Requests \ {r} : Holding(s) => req[s].proof # req'[r].proof
    PROVE  ReplayInv'
  <1>1. ProofInv' /\ EntryInv' /\ DroppedInv'
    BY DEF ReplayInv, ProofInv, EntryInv, DroppedInv
  <1>2. CarryInv'
    <2> SUFFICES ASSUME NEW s \in Requests, Underway(s)'
                 PROVE  \E p \in Proofs : Carries(s, p)'
      BY DEF CarryInv
    <2>1. CASE s = r
      BY <2>1
    <2>2. CASE s # r
      <3>1. Underway(s)
        BY <2>2 DEF Underway
      <3>2. PICK p \in Proofs : Carries(s, p)
        BY <3>1 DEF ReplayInv, CarryInv
      <3>3. Carries(s, p)'
        BY <2>2, <3>2 DEF Carries, Holding
      <3> QED
        BY <3>3
    <2> QED
      BY <2>1, <2>2
  <1>3. ShardInv'
    BY DEF ReplayInv, ShardInv, Holding
  <1> QED
    BY <1>1, <1>2, <1>3 DEF ReplayInv

LEMMA TickPreserves ==
    ASSUME ReplayInv, ReplayTick
    PROVE  ReplayInv'
  <1> USE DEF ReplayTick
  <1>1. ReplayTypeOK' /\ clock \in Nat
    BY DEF ReplayInv, ReplayTypeOK
  <1>2. sweep'.at <= clock'
    BY <1>1 DEF ReplayInv, ReplayTypeOK, Sweeper
  <1>3. ProofInv' /\ EntryInv' /\ ShardInv'
    BY DEF ReplayInv, ProofInv, EntryInv, ShardInv, Holding
  <1>4. DroppedInv'
    <2> SUFFICES ASSUME NEW p \in Proofs, accepted[p] = 1, proof[p].epoch = epoch,
                        seenAt[p] = Absent
                 PROVE  proof[p].iat + Ttl <= clock + 1 + Skew
      BY DEF DroppedInv
    <2>1. proof[p].iat \in Nat
      BY DEF ReplayInv, ReplayTypeOK
    <2>2. proof[p].iat + Ttl <= clock + Skew
      BY DEF ReplayInv, DroppedInv
    <2> QED
      BY <1>1, <2>1, <2>2, ReplayAssumption
  <1>5. CarryInv'
    <2> SUFFICES ASSUME NEW r \in Requests, Underway(r)
                 PROVE  \E p \in Proofs : Carries(r, p)'
      BY DEF CarryInv, Underway
    <2>1. PICK p \in Proofs : Carries(r, p)
      BY DEF ReplayInv, CarryInv
    <2>2. req[r].since \in Nat /\ req[r].instant \in Nat
      BY DEF ReplayInv, ReplayTypeOK, Request
    <2>3. Carries(r, p)'
      BY <1>1, <2>1, <2>2, ReplayAssumption DEF Carries, Holding
    <2> QED
      BY <2>3
  <1> QED
    BY <1>1, <1>2, <1>3, <1>4, <1>5 DEF ReplayInv

LEMMA SignPreserves ==
    ASSUME ReplayInv, NEW p \in Proofs, NEW iat \in Nat, SignDpopProof(p, iat)
    PROVE  ReplayInv'
  <1> USE DEF SignDpopProof
  <1>1. /\ proof \in [Proofs -> [iat : Nat, epoch : {-1} \cup Nat]]
        /\ epoch \in Nat /\ proof[p].epoch = -1
    BY DEF ReplayInv, ReplayTypeOK, NotSigned
  <1>2. /\ proof'[p] = [iat |-> iat, epoch |-> epoch]
        /\ \A q \in Proofs : q # p => proof'[q] = proof[q]
    BY <1>1
  <1>3. ReplayTypeOK'
    BY <1>1 DEF ReplayInv, ReplayTypeOK
  <1>4. accepted[p] = 0 /\ seenAt[p] = Absent
    BY <1>1 DEF ReplayInv, ProofInv, EntryInv
  <1>5. ProofInv'
    BY <1>1, <1>2, <1>4 DEF ReplayInv, ProofInv
  <1>6. EntryInv'
    BY <1>2, <1>4 DEF ReplayInv, EntryInv
  <1>7. DroppedInv'
    BY <1>2, <1>4 DEF ReplayInv, DroppedInv
  <1>8. CarryInv'
    <2> SUFFICES ASSUME NEW r \in Requests, Underway(r)
                 PROVE  \E q \in Proofs : Carries(r, q)'
      BY DEF CarryInv, Underway
    <2>1. PICK q \in Proofs : Carries(r, q)
      BY DEF ReplayInv, CarryInv
    <2>2. q # p
      BY <1>1, <2>1 DEF Carries
    <2>3. Carries(r, q)'
      BY <1>2, <2>1, <2>2 DEF Carries, Holding
    <2> QED
      BY <2>3
  <1> QED
    BY <1>3, <1>5, <1>6, <1>7, <1>8 DEF ReplayInv, ShardInv, Holding

LEMMA VerifyPreserves ==
    ASSUME ReplayInv, NEW r \in Requests, NEW p \in Proofs, VerifyDpopProof(r, p)
    PROVE  ReplayInv'
  <1> USE DEF VerifyDpopProof
  <1>1. /\ req \in [Requests -> Request] /\ clock \in Nat /\ proof[p].iat \in Nat
        /\ ReplayTypeOK
    BY DEF ReplayInv, ReplayTypeOK
  <1>2. req'[r] = [at |-> "verified", proof |-> {p}, since |-> clock, instant |-> 0]
    BY <1>1
  <1>3. ReplayTypeOK'
    BY <1>1 DEF ReplayTypeOK, Request
  <1>4. Carries(r, p)' /\ ~Holding(r)'
    BY <1>1, <1>2, ReplayAssumption DEF Carries, Holding, ValidateIatWindow
  <1> QED
    BY <1>1, <1>3, <1>4, RestOfTheRequests DEF ReplayInv

LEMMA ReadPreserves ==
    ASSUME ReplayInv, NEW r \in Requests, ReadInstant(r)
    PROVE  ReplayInv'
  <1> USE DEF ReadInstant
  <1>1. req \in [Requests -> Request] /\ clock \in Nat /\ ReplayTypeOK
    BY DEF ReplayInv, ReplayTypeOK
  <1>2. req'[r] = [req[r] EXCEPT !.at = "timed", !.instant = clock]
    BY <1>1
  <1>3. ReplayTypeOK'
    BY <1>1 DEF ReplayTypeOK, Request
  <1>4. PICK p \in Proofs : Carries(r, p)
    BY DEF ReplayInv, CarryInv, Underway
  <1>5. Carries(r, p)' /\ ~Holding(r)'
    BY <1>1, <1>2, <1>4 DEF Carries, Holding, Request
  <1> QED
    BY <1>1, <1>3, <1>5, RestOfTheRequests DEF ReplayInv

LEMMA OccupiedPreserves ==
    ASSUME ReplayInv, NEW r \in Requests, CheckOccupied(r)
    PROVE  ReplayInv'
  <1> USE DEF CheckOccupied
  <1>1. req \in [Requests -> Request] /\ ReplayTypeOK
    BY DEF ReplayInv, ReplayTypeOK
  <1>2. ProofOf(r) \in Proofs /\ Carries(r, ProofOf(r)) /\ Underway(r)
    BY ItsProof DEF ReplayInv, Underway
  <1>3. IsSeen(ProofOf(r), req[r].instant)
    BY <1>2, EntryOutlivesRequest DEF Entries
  <1>4. req' = [req EXCEPT ![r].at = "out"] /\ UNCHANGED <<seenAt, accepted>>
    BY <1>3
  <1>5. ReplayTypeOK'
    BY <1>1, <1>4 DEF ReplayTypeOK, Request
  <1>6. ~Underway(r)' /\ ~Holding(r)'
    BY <1>1, <1>4 DEF Underway, Holding
  <1> QED
    BY <1>1, <1>4, <1>5, <1>6, RestOfTheRequests DEF ReplayInv

LEMMA ReservePreserves ==
    ASSUME ReplayInv, NEW r \in Requests, ReserveEntry(r)
    PROVE  ReplayInv'
  <1> USE DEF ReserveEntry
  <1>1. req \in [Requests -> Request] /\ ReplayTypeOK
    BY DEF ReplayInv, ReplayTypeOK
  <1>2. PICK p \in Proofs : p = ProofOf(r) /\ Carries(r, p)
    BY ItsProof DEF ReplayInv, Underway
  <1>3. /\ req'[r].at \in {"reserved", "refused"} /\ req'[r].proof = req[r].proof
        /\ req'[r].since = req[r].since /\ req'[r].instant = req[r].instant
    BY <1>1
  <1>4. ReplayTypeOK'
    <2>1. count' \in 0..(Wrap - 1)
      BY <1>1, ModStays, WrapPositive DEF ReplayTypeOK
    <2>2. req' \in [Requests -> Request]
      BY <1>1 DEF Request
    <2> QED
      BY <1>1, <2>1, <2>2 DEF ReplayTypeOK
  <1>5. Carries(r, p)'
    <2>1. seenAt[p] = Absent
      BY <1>2 DEF Entries
    <2> QED
      BY <1>2, <1>3, <2>1 DEF Carries, Holding
  <1>6. \A s \in Requests \ {r} : Holding(s) => req[s].proof # req'[r].proof
    BY <1>2, <1>3 DEF ShardFree, Holding, Carries
  <1> QED
    BY <1>1, <1>2, <1>4, <1>5, <1>6, RestOfTheRequests DEF ReplayInv

LEMMA InsertPreserves ==
    ASSUME ReplayInv, NEW r \in Requests, InsertEntry(r)
    PROVE  ReplayInv'
  <1>1. ReplayTypeOK
    BY DEF ReplayInv
  <1>2. PICK p \in Proofs : p = ProofOf(r) /\ Carries(r, p) /\ Underway(r)
    BY ItsProof DEF ReplayInv, Underway, InsertEntry
  <1>3. /\ seenAt' = [seenAt EXCEPT ![p] = req[r].instant]
        /\ req' = [req EXCEPT ![r].at = "in"]
        /\ accepted' = [accepted EXCEPT ![p] = @ + 1]
        /\ req[r].at = "reserved"
        /\ UNCHANGED <<clock, epoch, proof, count, sweep, missed>>
    BY <1>2 DEF InsertEntry, AdmitProof
  <1>4. seenAt[p] = Absent
    BY <1>2, <1>3 DEF Carries, Holding
  <1>5. accepted[p] = 0
    BY <1>2, <1>4, NoEntryNotAdmitted
  <1>6. /\ seenAt'[p] = req[r].instant /\ accepted'[p] = 1
        /\ \A q \in Proofs : q # p => seenAt'[q] = seenAt[q] /\ accepted'[q] = accepted[q]
        /\ req'[r].at = "in"
        /\ \A s \in Requests : s # r => req'[s] = req[s]
    BY <1>1, <1>2, <1>3, <1>5 DEF ReplayTypeOK
  <1>7. req[r].instant \in Nat
    BY <1>1 DEF ReplayTypeOK, Request
  <1>8. ReplayTypeOK'
    <2>1. req' \in [Requests -> Request]
      BY <1>1, <1>3 DEF ReplayTypeOK, Request
    <2>2. seenAt' \in [Proofs -> {Absent} \cup Nat]
      BY <1>1, <1>3, <1>7 DEF ReplayTypeOK
    <2>3. accepted' \in [Proofs -> Nat]
      <3>1. accepted \in [Proofs -> Nat] /\ accepted[p] + 1 \in Nat
        BY <1>1, <1>5 DEF ReplayTypeOK
      <3> QED
        BY <1>3, <3>1
    <2> QED
      BY <1>1, <1>3, <2>1, <2>2, <2>3 DEF ReplayTypeOK
  <1>9. proof[p].epoch = epoch /\ epoch \in Nat
    BY <1>1, <1>2 DEF Carries, ReplayTypeOK
  <1>10. ProofInv'
    BY <1>3, <1>6, <1>9 DEF ReplayInv, ProofInv
  <1>11. EntryInv'
    <2>1. proof[p].iat <= req[r].instant + Skew
      <3>1. proof[p].iat \in Nat /\ req[r].since \in Nat
        BY <1>1, <1>2 DEF ReplayTypeOK, Request
      <3> QED
        BY <1>2, <1>3, <1>7, <3>1, ReplayAssumption DEF Carries
    <2> QED
      BY <1>3, <1>6, <1>9, <2>1 DEF ReplayInv, EntryInv
  <1>12. DroppedInv'
    <2>1. seenAt'[p] # Absent
      BY <1>6, <1>7 DEF Absent
    <2> QED
      BY <1>3, <1>6, <2>1 DEF ReplayInv, DroppedInv
  <1>13. CarryInv'
    <2> SUFFICES ASSUME NEW s \in Requests, Underway(s)'
                 PROVE  \E q \in Proofs : Carries(s, q)'
      BY DEF CarryInv
    <2>1. s # r
      BY <1>6 DEF Underway
    <2>2. Underway(s)
      BY <1>6, <2>1 DEF Underway
    <2>3. PICK q \in Proofs : Carries(s, q)
      BY <2>2 DEF ReplayInv, CarryInv
    <2>4. Holding(s) => q # p
      BY <1>2, <1>3, <2>1, <2>3 DEF ReplayInv, ShardInv, Holding, Carries
    <2>5. Carries(s, q)'
      BY <1>3, <1>6, <2>1, <2>3, <2>4 DEF Carries, Holding
    <2> QED
      BY <2>5
  <1>14. ShardInv'
    BY <1>6 DEF ReplayInv, ShardInv, Holding
  <1> QED
    BY <1>3, <1>8, <1>10, <1>11, <1>12, <1>13, <1>14 DEF ReplayInv

LEMMA GiveBackPreserves ==
    ASSUME ReplayInv, NEW r \in Requests, GiveBack(r)
    PROVE  ReplayInv'
  <1> USE DEF GiveBack
  <1>1. req \in [Requests -> Request] /\ ReplayTypeOK
    BY DEF ReplayInv, ReplayTypeOK
  <1>2. ReplayTypeOK'
    <2>1. count' \in 0..(Wrap - 1)
      <3>1. count \in Nat
        BY <1>1 DEF ReplayTypeOK
      <3>2. count + Wrap - 1 \in Nat
        BY <3>1, WrapPositive
      <3> QED
        BY <3>2, ModStays, WrapPositive
    <2>2. req' \in [Requests -> Request]
      BY <1>1 DEF Request
    <2> QED
      BY <1>1, <2>1, <2>2 DEF ReplayTypeOK
  <1>3. ~Underway(r)' /\ ~Holding(r)'
    BY <1>1 DEF Underway, Holding
  <1> QED
    BY <1>1, <1>2, <1>3, RestOfTheRequests DEF ReplayInv

--------------------------------------------------------------------------------
\* Steps of the sweep that leave the map alone.
LEMMA SweepStepPreserves ==
    ASSUME ReplayInv,
           UNCHANGED <<clock, epoch, proof, seenAt, req, accepted, missed>>,
           count' \in 0..(Wrap - 1), sweep' \in Sweeper, sweep'.at <= clock
    PROVE  ReplayInv'
  <1>1. ReplayTypeOK'
    BY DEF ReplayInv, ReplayTypeOK
  <1>2. ProofInv' /\ EntryInv' /\ DroppedInv' /\ ShardInv'
    BY DEF ReplayInv, ProofInv, EntryInv, DroppedInv, ShardInv, Holding
  <1>3. CarryInv'
    BY DEF ReplayInv, CarryInv, Carries, Holding, Underway
  <1> QED
    BY <1>1, <1>2, <1>3 DEF ReplayInv

LEMMA RetainPreserves ==
    ASSUME ReplayInv, NEW p \in Proofs, RetainShard(p)
    PROVE  ReplayInv'
  <1> USE DEF RetainShard
  <1>1. ReplayTypeOK /\ sweep \in Sweeper /\ seenAt \in [Proofs -> {Absent} \cup Nat]
    BY DEF ReplayInv, ReplayTypeOK
  <1>2. sweep' \in Sweeper /\ sweep'.at = sweep.at
    BY <1>1 DEF Sweeper
  <1>3. CASE IsSeen(p, sweep.at)
    BY <1>1, <1>2, <1>3, SweepStepPreserves DEF ReplayInv, ReplayTypeOK
  <1>4. CASE ~IsSeen(p, sweep.at)
    <2>1. /\ seenAt'[p] = Absent
          /\ \A q \in Proofs : q # p => seenAt'[q] = seenAt[q]
          /\ seenAt' \in [Proofs -> {Absent} \cup Nat]
      BY <1>1, <1>4
    <2>2. ReplayTypeOK' /\ sweep'.at <= clock'
      BY <1>1, <1>2, <2>1 DEF ReplayInv, ReplayTypeOK
    <2>3. ProofInv' /\ ShardInv'
      BY DEF ReplayInv, ProofInv, ShardInv, Holding
    <2>4. EntryInv'
      BY <2>1 DEF ReplayInv, EntryInv
    <2>5. DroppedInv'
      <3> SUFFICES ASSUME NEW q \in Proofs, accepted[q] = 1, proof[q].epoch = epoch,
                          seenAt'[q] = Absent
                   PROVE  proof[q].iat + Ttl <= clock + Skew
        BY DEF DroppedInv
      <3>1. CASE seenAt[q] = Absent
        BY <3>1 DEF ReplayInv, DroppedInv
      <3>2. CASE seenAt[q] # Absent
        <4>1. q = p
          BY <2>1, <3>2
        <4>2. proof[q].iat \in Nat /\ seenAt[q] \in Nat /\ clock \in Nat /\ sweep.at \in Nat
          BY <1>1, <3>2 DEF ReplayTypeOK, Sweeper
        <4>3. proof[q].iat <= seenAt[q] + Skew
          BY <3>2 DEF ReplayInv, EntryInv
        <4>4. sweep.at - seenAt[q] >= Ttl /\ sweep.at <= clock
          BY <1>4, <3>2, <4>1, <4>2, ReplayAssumption DEF IsSeen, ReplayInv
        <4> QED
          BY <4>2, <4>3, <4>4, ReplayAssumption
      <3> QED
        BY <3>1, <3>2
    <2>6. CarryInv'
      <3> SUFFICES ASSUME NEW r \in Requests, Underway(r)
                   PROVE  \E q \in Proofs : Carries(r, q)'
        BY DEF CarryInv, Underway
      <3>1. PICK q \in Proofs : Carries(r, q)
        BY DEF ReplayInv, CarryInv
      <3>2. Carries(r, q)'
        BY <2>1, <3>1 DEF Carries, Holding
      <3> QED
        BY <3>2
    <2> QED
      BY <2>2, <2>3, <2>4, <2>5, <2>6 DEF ReplayInv
  <1> QED
    BY <1>3, <1>4

LEMMA SweepPreserves ==
    ASSUME ReplayInv, SweepStarts \/ SweepStep
    PROVE  ReplayInv'
  <1>1. /\ sweep \in Sweeper /\ clock \in Nat /\ count \in 0..(Wrap - 1)
        /\ sweep.at <= clock
    BY DEF ReplayInv, ReplayTypeOK
  <1>2. CASE SweepStarts
    <2>1. sweep' \in Sweeper /\ sweep'.at <= clock
      BY <1>1, <1>2 DEF SweepStarts, Sweeper
    <2> QED
      BY <1>1, <1>2, <2>1, SweepStepPreserves DEF SweepStarts
  <1>3. CASE RetainEnds
    <2>1. sweep' \in Sweeper /\ sweep'.at <= clock
      BY <1>1, <1>3 DEF RetainEnds, Sweeper
    <2> QED
      BY <1>1, <1>3, <2>1, SweepStepPreserves DEF RetainEnds
  <1>4. CASE StoreCount
    <2>1. sweep' \in Sweeper /\ sweep'.at <= clock
      BY <1>1, <1>4 DEF StoreCount, Sweeper, Resting
    <2>2. count' \in 0..(Wrap - 1)
      BY <1>1, <1>4, ModStays, WrapPositive DEF StoreCount, Sweeper
    <2> QED
      BY <1>1, <1>4, <2>1, <2>2, SweepStepPreserves DEF StoreCount
  <1>5. ASSUME NEW p \in Proofs, CountShard(p) PROVE ReplayInv'
    <2> DEFINE sum == IF p \in Entries THEN sweep.sum + 1 ELSE sweep.sum
               phase == IF sweep.left = {p} THEN "store" ELSE sweep.phase
    <2>a. sum \in Nat /\ phase \in {"len", "store"}
      BY <1>1, <1>5 DEF CountShard, Sweeper
    <2>b. sweep' = [sweep EXCEPT !.left = @ \ {p}, !.sum = sum, !.phase = phase]
      BY <1>5 DEF CountShard
    <2> HIDE DEF sum, phase
    <2>1. sweep' \in Sweeper /\ sweep'.at <= clock
      BY <1>1, <2>a, <2>b DEF Sweeper
    <2> QED
      BY <1>1, <1>5, <2>1, SweepStepPreserves DEF CountShard
  <1> QED
    BY <1>2, <1>3, <1>4, <1>5, RetainPreserves DEF SweepStep

LEMMA RestartPreserves ==
    ASSUME ReplayInv, Restart
    PROVE  ReplayInv'
  <1> USE DEF Restart
  <1>1. ReplayTypeOK /\ epoch \in Nat /\ req \in [Requests -> Request]
    BY DEF ReplayInv, ReplayTypeOK
  <1>2. ReplayTypeOK' /\ sweep'.at <= clock'
    <2>1. req' \in [Requests -> Request]
      BY <1>1 DEF Request
    <2>2. sweep' \in Sweeper /\ sweep'.at <= clock'
      BY <1>1 DEF Sweeper, Resting, ReplayTypeOK
    <2> QED
      BY <1>1, <2>1, <2>2, WrapPositive DEF ReplayTypeOK
  <1>3. \A p \in Proofs : proof[p].epoch # epoch'
    BY <1>1 DEF ReplayInv, ProofInv, NotSigned
  <1>4. ProofInv'
    BY <1>1 DEF ReplayInv, ProofInv
  <1>5. EntryInv' /\ DroppedInv'
    BY <1>3 DEF EntryInv, DroppedInv
  <1>6. \A r \in Requests : ~Underway(r)'
    BY <1>1 DEF Underway
  <1>7. CarryInv' /\ ShardInv'
    BY <1>6 DEF CarryInv, ShardInv, Holding, Underway
  <1> QED
    BY <1>2, <1>4, <1>5, <1>7 DEF ReplayInv

--------------------------------------------------------------------------------
(***************************************************************************)
(* The invariant of the replay cache.                                      *)
(***************************************************************************)
THEOREM ReplayInvariant == ReplaySpec => []ReplayInv
  <1>1. ReplayInit => ReplayInv
    BY WrapPositive
    DEF ReplayInit, ReplayInv, ReplayTypeOK, ProofInv, EntryInv, DroppedInv, CarryInv,
        ShardInv, Underway, Holding, NewRequest, Request, Resting, Sweeper, NotSigned, Absent
  <1>2. ReplayInv /\ [ReplayNext]_replayVars => ReplayInv'
    <2> SUFFICES ASSUME ReplayInv, [ReplayNext]_replayVars PROVE ReplayInv'
      OBVIOUS
    <2>1. CASE ReplayTick
      BY <2>1, TickPreserves
    <2>2. CASE SweepStarts \/ SweepStep
      BY <2>2, SweepPreserves
    <2>3. CASE Restart
      BY <2>3, RestartPreserves
    <2>4. ASSUME NEW p \in Proofs, NEW iat \in SomeIats, SignDpopProof(p, iat)
          PROVE  ReplayInv'
      BY <2>4, SignPreserves DEF SomeIats
    <2>5. ASSUME NEW r \in Requests, RequestStep(r) PROVE ReplayInv'
      BY <2>5, ReadPreserves, OccupiedPreserves, ReservePreserves, InsertPreserves,
         GiveBackPreserves DEF RequestStep
    <2>6. ASSUME NEW r \in Requests, NEW p \in Proofs, VerifyDpopProof(r, p)
          PROVE  ReplayInv'
      BY <2>6, VerifyPreserves
    <2>7. CASE UNCHANGED replayVars
      <3>1. /\ UNCHANGED <<clock, epoch, proof, seenAt, req, accepted, missed>>
            /\ count' = count /\ sweep' = sweep
        BY <2>7 DEF replayVars
      <3> QED
        BY <3>1, SweepStepPreserves DEF ReplayInv, ReplayTypeOK
    <2> QED
      BY <2>1, <2>2, <2>3, <2>4, <2>5, <2>6, <2>7 DEF ReplayNext
  <1> QED
    BY <1>1, <1>2, PTL DEF ReplaySpec

\* Every variable keeps the shape the code gives it.
THEOREM ReplayTypes == ReplaySpec => []ReplayTypeOK
  BY ReplayInvariant, PTL DEF ReplayInv

\* A proof admits one request, whichever requests carry it, whenever the sweep runs
\* and the process restarts, as long as an entry outlives the window by more than a
\* request takes from the check of iat to the cache.
THEOREM ReplayAdmitsOnce == ReplaySpec => []ProofAdmittedOnce
  <1>1. ReplayInv => ProofAdmittedOnce
    BY DEF ReplayInv, ProofInv, ProofAdmittedOnce
  <1> QED
    BY <1>1, ReplayInvariant, PTL

--------------------------------------------------------------------------------
(***************************************************************************)
(* The bound on the map.                                                   *)
(***************************************************************************)

Reserved == {r \in Requests : req[r].at = "reserved"}
Refused == {r \in Requests : req[r].at = "refused"}
Holders == {r \in Requests : Holding(r)}

\* What the counter stands for: taken below zero it wraps to the top.
SignedOf(n) == IF n > Cap + 2 * Cardinality(Requests) THEN n - Wrap ELSE n
Signed == SignedOf(count)

\* The part of the map the counting pass has been at.
Visited == Entries \ sweep.left
HoldersBehind == {r \in Holders : req[r].proof \cap sweep.left = {}}

MissedInv ==
    /\ \A r \in missed : req[r].at \in {"reserved", "refused", "in", "out"}
    /\ sweep.phase = "store" => sweep.left = {}
    /\ sweep.phase = "retain" => sweep.sum = 0

\* Entries and reservations are within the cap; the counter is behind the map by no
\* more than the requests it missed, and ahead of the cap by no more than those it
\* refuses just now.
BoundInv ==
    /\ Cardinality(Entries) + Cardinality(Reserved) <= Cap + Cardinality(missed)
    /\ Cardinality(Entries) + Cardinality(Holders) <= Signed + Cardinality(missed)
    /\ Signed <= Cap + Cardinality(missed) + Cardinality(Refused)

\* The same of the sum the counting pass is about to store.
PassInv ==
    sweep.phase \in {"len", "store"} =>
        /\ sweep.sum <= Cardinality(Visited)
        /\ Cardinality(Visited) + Cardinality(HoldersBehind) <= sweep.sum + Cardinality(missed)

SlotInv == MissedInv /\ BoundInv /\ PassInv

\* Sets of requests and of proofs can be counted.
LEMMA RequestSets ==
    ASSUME NEW S \in SUBSET Requests
    PROVE  /\ IsFiniteSet(S) /\ Cardinality(S) \in Nat
           /\ Cardinality(S) <= Cardinality(Requests) /\ Cardinality(Requests) \in Nat
           /\ \A r \in Requests \ S : Cardinality(S \cup {r}) = Cardinality(S) + 1
           /\ \A r \in S : Cardinality(S \ {r}) = Cardinality(S) - 1
  BY ReplayAssumption, FS_Subset, FS_CardinalityType, FS_AddElement, FS_RemoveElement

LEMMA ProofSets ==
    ASSUME NEW S \in SUBSET Proofs
    PROVE  /\ IsFiniteSet(S) /\ Cardinality(S) \in Nat
           /\ \A p \in Proofs \ S : Cardinality(S \cup {p}) = Cardinality(S) + 1
           /\ \A p \in S : Cardinality(S \ {p}) = Cardinality(S) - 1
  BY ReplayAssumption, FS_Subset, FS_CardinalityType, FS_AddElement, FS_RemoveElement

LEMMA ModSmall ==
    ASSUME NEW n \in Nat, NEW w \in Nat, n < w
    PROVE  n % w = n
  OBVIOUS

LEMMA ModOnce ==
    ASSUME NEW k \in Nat, NEW w \in Nat, k < w
    PROVE  (k + w) % w = k
  OBVIOUS

\* The counter raised, lowered and overwritten, as long as what it stands for is
\* within what 64 bits can tell apart.
LEMMA RaiseSigned ==
    ASSUME NEW n \in 0..(Wrap - 1),
           -Cardinality(Requests) <= SignedOf(n),
           SignedOf(n) < Cap + 2 * Cardinality(Requests)
    PROVE  SignedOf((n + 1) % Wrap) = SignedOf(n) + 1
  <1>1. /\ Cardinality(Requests) \in Nat /\ Cap \in Nat /\ Wrap \in Nat
        /\ Cap + 3 * Cardinality(Requests) < Wrap
    BY RequestSets, ReplayAssumption
  <1>2. CASE n + 1 < Wrap
    <2>1. (n + 1) % Wrap = n + 1
      BY <1>1, <1>2, ModSmall
    <2> QED
      BY <1>1, <1>2, <2>1 DEF SignedOf
  <1>3. CASE n + 1 = Wrap
    <2>1. n + 1 = 0 + Wrap /\ 0 < Wrap
      BY <1>1, <1>3
    <2>2. (n + 1) % Wrap = 0
      BY <1>1, <2>1, ModOnce
    <2> QED
      BY <1>1, <1>3, <2>2 DEF SignedOf
  <1> QED
    BY <1>1, <1>2, <1>3

LEMMA LowerSigned ==
    ASSUME NEW n \in 0..(Wrap - 1), -Cardinality(Requests) < SignedOf(n)
    PROVE  SignedOf((n + Wrap - 1) % Wrap) = SignedOf(n) - 1
  <1>1. /\ Cardinality(Requests) \in Nat /\ Cap \in Nat /\ Wrap \in Nat
        /\ Cap + 3 * Cardinality(Requests) < Wrap
    BY RequestSets, ReplayAssumption
  <1>2. CASE n = 0
    <2>1. (n + Wrap - 1) % Wrap = Wrap - 1
      BY <1>1, <1>2, ModSmall
    <2> QED
      BY <1>1, <1>2, <2>1 DEF SignedOf
  <1>3. CASE n # 0
    <2>1. n + Wrap - 1 = (n - 1) + Wrap /\ n - 1 \in Nat /\ n - 1 < Wrap
      BY <1>1, <1>3
    <2>2. (n + Wrap - 1) % Wrap = n - 1
      BY <1>1, <2>1, ModOnce
    <2> QED
      BY <1>1, <1>3, <2>2 DEF SignedOf
  <1> QED
    BY <1>2, <1>3

\* Where everybody is counted.
LEMMA SlotSets ==
    ASSUME ReplayTypeOK
    PROVE  /\ Entries \in SUBSET Proofs /\ Visited \in SUBSET Proofs
           /\ Reserved \in SUBSET Requests /\ Refused \in SUBSET Requests
           /\ Holders \in SUBSET Requests /\ HoldersBehind \in SUBSET Requests
           /\ missed \in SUBSET Requests
           /\ Cardinality(Entries) \in Nat /\ Cardinality(Visited) \in Nat
           /\ Cardinality(Reserved) \in Nat /\ Cardinality(Refused) \in Nat
           /\ Cardinality(Holders) \in Nat /\ Cardinality(HoldersBehind) \in Nat
           /\ Cardinality(missed) \in Nat
           /\ sweep.sum \in Nat /\ count \in 0..(Wrap - 1) /\ Cap \in Nat /\ Wrap \in Nat
           /\ Signed \in Int
  <1>1. /\ Entries \in SUBSET Proofs /\ Visited \in SUBSET Proofs
        /\ Reserved \in SUBSET Requests /\ Refused \in SUBSET Requests
        /\ Holders \in SUBSET Requests /\ HoldersBehind \in SUBSET Requests
        /\ missed \in SUBSET Requests
    BY DEF Entries, Visited, Reserved, Refused, Holders, HoldersBehind, ReplayTypeOK
  <1>2. /\ Cardinality(Entries) \in Nat /\ Cardinality(Visited) \in Nat
    BY <1>1, ProofSets
  <1>3. /\ Cardinality(Reserved) \in Nat /\ Cardinality(Refused) \in Nat
        /\ Cardinality(Holders) \in Nat /\ Cardinality(HoldersBehind) \in Nat
        /\ Cardinality(missed) \in Nat
    BY <1>1, RequestSets
  <1>4. sweep.sum \in Nat /\ count \in 0..(Wrap - 1) /\ Cap \in Nat /\ Wrap \in Nat
    BY ReplayAssumption DEF ReplayTypeOK, Sweeper
  <1>5. Signed \in Int
    BY <1>4, RequestSets, ReplayAssumption DEF Signed, SignedOf
  <1> QED
    BY <1>1, <1>2, <1>3, <1>4, <1>5

\* The counter stands for more than minus the number of requests that hold a shard
\* and less than the cap and twice the requests.
LEMMA SignedWithin ==
    ASSUME ReplayTypeOK, SlotInv
    PROVE  /\ Cardinality(Holders) - Cardinality(Requests) <= Signed
           /\ Cardinality(Requests) \in Nat
  <1>1. Cardinality(missed) <= Cardinality(Requests) /\ Cardinality(Requests) \in Nat
    BY RequestSets, SlotSets
  <1> QED
    BY <1>1, SlotSets DEF SlotInv, BoundInv

\* A step of one request that neither takes nor gives up a shard.
LEMMA SameSlots ==
    ASSUME SlotInv, NEW r \in Requests, req[r].at \in {"idle", "verified", "timed"},
           ~Holding(r)', \A s \in Requests : s # r => req'[s] = req[s],
           missed \in SUBSET Requests,
           UNCHANGED <<seenAt, count, sweep, missed>>
    PROVE  SlotInv'
  <1>1. r \notin missed
    BY DEF SlotInv, MissedInv
  <1>2. ~Holding(r)
    BY DEF Holding
  <1>3. /\ Entries' = Entries /\ Reserved' = Reserved /\ Refused' = Refused
        /\ Holders' = Holders /\ HoldersBehind' = HoldersBehind /\ Visited' = Visited
        /\ Signed' = Signed
    BY <1>2
    DEF Entries, Reserved, Refused, Holders, HoldersBehind, Visited, Signed, SignedOf, Holding
  <1>4. MissedInv'
    BY <1>1 DEF SlotInv, MissedInv
  <1> QED
    BY <1>3, <1>4 DEF SlotInv, BoundInv, PassInv

LEMMA ReserveSlots ==
    ASSUME ReplayInv, SlotInv, NEW r \in Requests, ReserveEntry(r)
    PROVE  SlotInv'
  <1> USE DEF ReserveEntry
  <1>1. ReplayTypeOK /\ req \in [Requests -> Request]
    BY DEF ReplayInv, ReplayTypeOK
  <1>2. PICK p \in Proofs : p = ProofOf(r) /\ req[r].proof = {p}
    BY ItsProof DEF ReplayInv, Underway, Carries
  <1>3. /\ req'[r].at = (IF count >= Cap THEN "refused" ELSE "reserved")
        /\ req'[r].proof = {p}
        /\ \A s \in Requests : s # r => req'[s] = req[s]
    BY <1>1, <1>2
  <1>4. r \notin missed /\ r \notin Holders /\ r \notin Reserved /\ r \notin Refused
        /\ r \notin HoldersBehind
    BY DEF SlotInv, MissedInv, Holders, Holding, Reserved, Refused, HoldersBehind
  <1>5. /\ Entries' = Entries /\ Visited' = Visited /\ Holders' = Holders \cup {r}
    BY <1>3 DEF Entries, Visited, Holders, Holding
  <1>6. Cardinality(Holders') = Cardinality(Holders) + 1
    BY <1>1, <1>4, <1>5, RequestSets, SlotSets
  <1>7. MissedInv'
    BY <1>3 DEF SlotInv, MissedInv
  <1>8. Cardinality(missed') \in {Cardinality(missed), Cardinality(missed) + 1}
    BY <1>1, <1>4, RequestSets, SlotSets
  <1>9. Signed < Cap + 2 * Cardinality(Requests)
    <2>1. CASE count < Cap
      BY <1>1, <2>1, SlotSets, SignedWithin DEF Signed, SignedOf
    <2>2. CASE count >= Cap
      <3>1. Cardinality(Refused) + 1 <= Cardinality(Requests)
        <4>1. Refused \cup {r} \in SUBSET Requests
          BY <1>1, SlotSets
        <4> QED
          BY <1>1, <1>4, <4>1, RequestSets, SlotSets
      <3>2. Cardinality(missed) <= Cardinality(Requests)
        BY <1>1, RequestSets, SlotSets
      <3> QED
        BY <1>1, <3>1, <3>2, SlotSets, SignedWithin DEF SlotInv, BoundInv
    <2> QED
      BY <1>1, <2>1, <2>2, SlotSets
  <1>10. Signed' = Signed + 1
    <2>1. -Cardinality(Requests) <= Signed
      BY <1>1, SignedWithin, SlotSets
    <2> QED
      BY <1>1, <1>9, <2>1, RaiseSigned, SlotSets DEF Signed
  <1>11. BoundInv'
    <2>1. CASE count >= Cap
      <3>1. Reserved' = Reserved /\ Refused' = Refused \cup {r}
        BY <1>3, <1>4, <2>1 DEF Reserved, Refused
      <3>2. Cardinality(Refused') = Cardinality(Refused) + 1
        BY <1>1, <1>4, <3>1, RequestSets, SlotSets
      <3> QED
        BY <1>1, <1>5, <1>6, <1>8, <1>10, <3>1, <3>2, SlotSets DEF SlotInv, BoundInv
    <2>2. CASE count < Cap
      <3>1. Refused' = Refused /\ Reserved' = Reserved \cup {r}
        <4>1. ~(count >= Cap)
          BY <1>1, <2>2, SlotSets
        <4> QED
          BY <1>3, <1>4, <4>1 DEF Reserved, Refused
      <3>2. Cardinality(Reserved') = Cardinality(Reserved) + 1
        BY <1>1, <1>4, <3>1, RequestSets, SlotSets
      <3>3. Signed = count
        BY <1>1, <2>2, SlotSets, SignedWithin DEF Signed, SignedOf
      <3>4. Cardinality(Reserved) <= Cardinality(Holders)
        <4>1. Reserved \in SUBSET Holders
          BY DEF Reserved, Holders, Holding
        <4> QED
          BY <1>1, <4>1, FS_Subset, RequestSets, SlotSets
      <3> QED
        BY <1>1, <1>5, <1>6, <1>8, <1>10, <2>2, <3>1, <3>2, <3>3, <3>4, SlotSets
        DEF SlotInv, BoundInv
    <2> QED
      BY <1>1, <2>1, <2>2, SlotSets
  <1>12. PassInv'
    <2> SUFFICES ASSUME sweep.phase \in {"len", "store"}
                 PROVE  /\ sweep.sum <= Cardinality(Visited)
                        /\ Cardinality(Visited) + Cardinality(HoldersBehind')
                             <= sweep.sum + Cardinality(missed')
      BY <1>5 DEF PassInv
    <2>1. /\ sweep.sum <= Cardinality(Visited)
          /\ Cardinality(Visited) + Cardinality(HoldersBehind)
                <= sweep.sum + Cardinality(missed)
      BY DEF SlotInv, PassInv
    <2>2. CASE p \in sweep.left
      <3>1. HoldersBehind' = HoldersBehind
        BY <1>2, <1>3, <1>4, <2>2 DEF HoldersBehind, Holders, Holding
      <3> QED
        BY <1>1, <1>8, <2>1, <3>1, SlotSets
    <2>3. CASE p \notin sweep.left
      <3>1. HoldersBehind' = HoldersBehind \cup {r}
        BY <1>2, <1>3, <1>4, <2>3 DEF HoldersBehind, Holders, Holding
      <3>2. Cardinality(HoldersBehind') = Cardinality(HoldersBehind) + 1
        BY <1>1, <1>4, <3>1, RequestSets, SlotSets
      <3>3. missed' = missed \cup {r}
        BY <1>2, <2>3 DEF Overlooked
      <3>4. Cardinality(missed') = Cardinality(missed) + 1
        BY <1>1, <1>4, <3>3, RequestSets, SlotSets
      <3> QED
        BY <1>1, <2>1, <3>2, <3>4, SlotSets
    <2> QED
      BY <2>2, <2>3
  <1> QED
    BY <1>7, <1>11, <1>12 DEF SlotInv

LEMMA InsertSlots ==
    ASSUME ReplayInv, SlotInv, NEW r \in Requests, InsertEntry(r)
    PROVE  SlotInv'
  <1>1. ReplayTypeOK
    BY DEF ReplayInv
  <1>2. PICK p \in Proofs : p = ProofOf(r) /\ Carries(r, p) /\ Underway(r)
    BY ItsProof DEF ReplayInv, Underway, InsertEntry
  <1>3. /\ seenAt' = [seenAt EXCEPT ![p] = req[r].instant]
        /\ req' = [req EXCEPT ![r].at = "in"]
        /\ req[r].at = "reserved"
        /\ UNCHANGED <<count, sweep, missed>>
    BY <1>2 DEF InsertEntry, AdmitProof
  <1>4. seenAt[p] = Absent /\ req[r].proof = {p}
    BY <1>2, <1>3 DEF Carries, Holding
  <1>5. req[r].instant # Absent
    BY <1>1 DEF ReplayTypeOK, Request, Absent
  <1>6. /\ req'[r].at = "in" /\ \A s \in Requests : s # r => req'[s] = req[s]
        /\ seenAt'[p] # Absent /\ \A q \in Proofs : q # p => seenAt'[q] = seenAt[q]
    BY <1>1, <1>3, <1>5 DEF ReplayTypeOK
  <1>7. /\ Entries' = Entries \cup {p} /\ p \notin Entries
        /\ Reserved' = Reserved \ {r} /\ r \in Reserved
        /\ Holders' = Holders \ {r} /\ r \in Holders
        /\ Refused' = Refused
    BY <1>3, <1>4, <1>6 DEF Entries, Reserved, Holders, Refused, Holding
  <1>8. /\ Cardinality(Entries') = Cardinality(Entries) + 1
        /\ Cardinality(Reserved') = Cardinality(Reserved) - 1
        /\ Cardinality(Holders') = Cardinality(Holders) - 1
    BY <1>1, <1>7, ProofSets, RequestSets, SlotSets
  <1>9. MissedInv'
    BY <1>3, <1>6 DEF SlotInv, MissedInv
  <1>10. BoundInv'
    <2>1. Signed' = Signed
      BY <1>3 DEF Signed, SignedOf
    <2> QED
      BY <1>1, <1>3, <1>7, <1>8, <2>1, SlotSets DEF SlotInv, BoundInv
  <1>11. PassInv'
    <2>1. CASE p \in sweep.left
      <3>1. Visited' = Visited /\ HoldersBehind' = HoldersBehind
        BY <1>3, <1>4, <1>6, <1>7, <2>1 DEF Visited, HoldersBehind, Holders
      <3> QED
        BY <1>3, <3>1 DEF SlotInv, PassInv
    <2>2. CASE p \notin sweep.left
      <3>1. /\ Visited' = Visited \cup {p} /\ p \notin Visited
            /\ HoldersBehind' = HoldersBehind \ {r} /\ r \in HoldersBehind
        BY <1>3, <1>4, <1>6, <1>7, <2>2 DEF Visited, HoldersBehind, Holders
      <3>2. /\ Cardinality(Visited') = Cardinality(Visited) + 1
            /\ Cardinality(HoldersBehind') = Cardinality(HoldersBehind) - 1
        BY <1>1, <3>1, ProofSets, RequestSets, SlotSets
      <3> QED
        BY <1>1, <1>3, <3>2, SlotSets DEF SlotInv, PassInv
    <2> QED
      BY <2>1, <2>2
  <1> QED
    BY <1>9, <1>10, <1>11 DEF SlotInv

LEMMA GiveBackSlots ==
    ASSUME ReplayInv, SlotInv, NEW r \in Requests, GiveBack(r)
    PROVE  SlotInv'
  <1> USE DEF GiveBack
  <1>1. ReplayTypeOK
    BY DEF ReplayInv
  <1>2. req'[r].at = "out" /\ \A s \in Requests : s # r => req'[s] = req[s]
    BY <1>1 DEF ReplayTypeOK
  <1>3. /\ Entries' = Entries /\ Visited' = Visited /\ Reserved' = Reserved
        /\ Refused' = Refused \ {r} /\ r \in Refused
        /\ Holders' = Holders \ {r} /\ r \in Holders
        /\ HoldersBehind' = HoldersBehind \ {r}
    BY <1>2 DEF Entries, Visited, Reserved, Refused, Holders, Holding, HoldersBehind
  <1>4. /\ Cardinality(Refused') = Cardinality(Refused) - 1
        /\ Cardinality(Holders') = Cardinality(Holders) - 1
    BY <1>1, <1>3, RequestSets, SlotSets
  <1>5. Cardinality(HoldersBehind') <= Cardinality(HoldersBehind)
        /\ Cardinality(HoldersBehind') \in Nat
    <2>1. HoldersBehind' \in SUBSET HoldersBehind /\ HoldersBehind' \in SUBSET Requests
      BY <1>1, <1>3, SlotSets
    <2> QED
      BY <1>1, <2>1, FS_Subset, RequestSets, SlotSets
  <1>6. Signed' = Signed - 1
    <2>1. Cardinality(Holders) >= 1
      BY <1>1, <1>3, <1>4, RequestSets, SlotSets
    <2>2. -Cardinality(Requests) < Signed
      BY <1>1, <2>1, SignedWithin, SlotSets
    <2> QED
      BY <1>1, <2>2, LowerSigned, SlotSets DEF Signed
  <1>7. MissedInv'
    BY <1>2 DEF SlotInv, MissedInv
  <1>8. BoundInv'
    BY <1>1, <1>3, <1>4, <1>6, SlotSets DEF SlotInv, BoundInv
  <1>9. PassInv'
    BY <1>1, <1>3, <1>5, SlotSets DEF SlotInv, PassInv
  <1> QED
    BY <1>7, <1>8, <1>9 DEF SlotInv

--------------------------------------------------------------------------------
(* The counter of entries: every step of a request or of the sweep keeps it.  *)

LEMMA RetainSlots ==
    ASSUME ReplayInv, SlotInv, NEW p \in Proofs, RetainShard(p)
    PROVE  SlotInv'
  <1> USE DEF RetainShard
  <1>1. ReplayTypeOK /\ sweep \in Sweeper
    BY DEF ReplayInv, ReplayTypeOK
  <1>2. sweep'.phase = "retain"
    BY <1>1 DEF Sweeper
  <1>3. Entries' \in SUBSET Entries
    BY <1>1 DEF Entries, ReplayTypeOK
  <1>4. Cardinality(Entries') <= Cardinality(Entries) /\ Cardinality(Entries') \in Nat
    <2>1. Entries' \in SUBSET Proofs
      BY DEF Entries
    <2> QED
      BY <1>1, <1>3, <2>1, FS_Subset, ProofSets, SlotSets
  <1>5. Reserved' = Reserved /\ Refused' = Refused /\ Holders' = Holders /\ Signed' = Signed
    BY DEF Reserved, Refused, Holders, Holding, Signed, SignedOf
  <1> QED
    BY <1>1, <1>2, <1>4, <1>5, SlotSets DEF SlotInv, MissedInv, BoundInv, PassInv

\* Where the requests are, the map and the counter stay.
LEMMA SameBounds ==
    ASSUME SlotInv, UNCHANGED <<seenAt, count, req, missed>>
    PROVE  BoundInv'
  BY DEF SlotInv, BoundInv, Entries, Reserved, Refused, Holders, Holding, Signed, SignedOf

LEMMA CountSlots ==
    ASSUME ReplayInv, SlotInv, NEW p \in Proofs, CountShard(p)
    PROVE  SlotInv'
  <1> USE DEF CountShard
  <1>1. ReplayTypeOK /\ sweep \in Sweeper
    BY DEF ReplayInv, ReplayTypeOK
  <1>2. /\ sweep'.left = sweep.left \ {p} /\ p \in sweep.left
        /\ sweep'.sum = (IF p \in Entries THEN sweep.sum + 1 ELSE sweep.sum)
        /\ sweep'.phase = (IF sweep.left = {p} THEN "store" ELSE "len")
    BY <1>1 DEF Sweeper
  <1>3. MissedInv'
    BY <1>2 DEF SlotInv, MissedInv
  <1>4. BoundInv'
    BY SameBounds
  <1>5. PassInv'
    <2>1. HoldersBehind' = HoldersBehind
      <3>1. \A r \in Requests : Holding(r) => p \notin req[r].proof
        BY DEF ShardFree, Holding
      <3> QED
        BY <1>2, <3>1 DEF HoldersBehind, Holders, Holding
    <2>2. /\ sweep.sum <= Cardinality(Visited)
          /\ Cardinality(Visited) + Cardinality(HoldersBehind)
                <= sweep.sum + Cardinality(missed)
      BY DEF SlotInv, PassInv
    <2>3. CASE p \in Entries
      <3>1. Visited' = Visited \cup {p} /\ p \notin Visited
        BY <1>2, <2>3 DEF Visited, Entries
      <3>2. Cardinality(Visited') = Cardinality(Visited) + 1
        BY <1>1, <3>1, ProofSets, SlotSets
      <3> QED
        BY <1>1, <1>2, <2>1, <2>2, <2>3, <3>2, SlotSets DEF PassInv
    <2>4. CASE p \notin Entries
      <3>1. Visited' = Visited
        BY <1>2, <2>4 DEF Visited, Entries
      <3> QED
        BY <1>1, <1>2, <2>1, <2>2, <2>4, <3>1, SlotSets DEF PassInv
    <2> QED
      BY <2>3, <2>4
  <1> QED
    BY <1>3, <1>4, <1>5 DEF SlotInv

LEMMA StoreSlots ==
    ASSUME ReplayInv, SlotInv, StoreCount
    PROVE  SlotInv'
  <1> USE DEF StoreCount
  <1>1. ReplayTypeOK
    BY DEF ReplayInv
  <1>2. sweep'.phase = "idle"
    BY DEF Resting
  <1>3. /\ Entries' = Entries /\ Reserved' = Reserved /\ Refused' = Refused
        /\ Holders' = Holders
    BY DEF Entries, Reserved, Refused, Holders, Holding
  <1>4. Visited = Entries /\ HoldersBehind = Holders
    <2>1. sweep.left = {}
      BY DEF SlotInv, MissedInv
    <2> QED
      BY <2>1 DEF Visited, HoldersBehind
  <1>5. /\ sweep.sum <= Cardinality(Entries)
        /\ Cardinality(Entries) + Cardinality(Holders) <= sweep.sum + Cardinality(missed)
    BY <1>4 DEF SlotInv, PassInv
  <1>6. Signed' = sweep.sum
    <2>1. sweep.sum <= Cap + Cardinality(missed)
      BY <1>1, <1>5, SlotSets DEF SlotInv, BoundInv
    <2>2. Cardinality(missed) <= Cardinality(Requests) /\ Cardinality(Requests) \in Nat
      BY <1>1, RequestSets, SlotSets
    <2>3. sweep.sum < Wrap /\ sweep.sum <= Cap + 2 * Cardinality(Requests)
      BY <1>1, <2>1, <2>2, SlotSets, ReplayAssumption
    <2>4. sweep.sum % Wrap = sweep.sum
      BY <1>1, <2>3, ModSmall, SlotSets
    <2> QED
      BY <1>1, <2>2, <2>3, <2>4, SlotSets DEF Signed, SignedOf
  <1>7. BoundInv'
    BY <1>1, <1>3, <1>5, <1>6, SlotSets DEF SlotInv, BoundInv
  <1> QED
    BY <1>2, <1>7 DEF SlotInv, MissedInv, PassInv

\* The pass of len() starts with nothing counted and nothing visited.
LEMMA RetainEndSlots ==
    ASSUME ReplayInv, SlotInv, RetainEnds
    PROVE  SlotInv'
  <1> USE DEF RetainEnds
  <1>1. ReplayTypeOK /\ sweep \in Sweeper
    BY DEF ReplayInv, ReplayTypeOK
  <1>2. sweep'.phase = "len" /\ sweep'.left = Proofs /\ sweep'.sum = sweep.sum
    BY <1>1 DEF Sweeper
  <1>3. Visited' = {}
    BY <1>2 DEF Visited, Entries
  <1>4. HoldersBehind' = {}
    <2> SUFFICES ASSUME NEW r \in Requests, Holding(r)
                 PROVE  req[r].proof \cap Proofs # {}
      BY <1>2 DEF HoldersBehind, Holders, Holding
    <2>1. PICK q \in Proofs : Carries(r, q)
      BY DEF ReplayInv, CarryInv, Underway, Holding
    <2> QED
      BY <2>1 DEF Carries
  <1>5. sweep.sum = 0
    BY DEF SlotInv, MissedInv
  <1>6. PassInv'
    BY <1>1, <1>2, <1>3, <1>4, <1>5, FS_EmptySet, SlotSets DEF PassInv
  <1>7. BoundInv'
    BY SameBounds
  <1> QED
    BY <1>2, <1>6, <1>7 DEF SlotInv, MissedInv

LEMMA RestartSlots ==
    ASSUME ReplayInv, Restart
    PROVE  SlotInv'
  <1> USE DEF Restart
  <1>1. ReplayTypeOK
    BY DEF ReplayInv
  <1>2. \A r \in Requests : ~Holding(r)'
    BY <1>1 DEF Holding, Underway, ReplayTypeOK
  <1>3. Entries' = {} /\ Reserved' = {} /\ Refused' = {} /\ Holders' = {} /\ missed' = {}
    BY <1>2 DEF Entries, Reserved, Refused, Holders, Holding
  <1>4. Signed' = 0
    BY RequestSets, ReplayAssumption DEF Signed, SignedOf
  <1>5. sweep'.phase = "idle"
    BY DEF Resting
  <1>6. BoundInv'
    BY <1>3, <1>4, FS_EmptySet, ReplayAssumption DEF BoundInv
  <1> QED
    BY <1>3, <1>5, <1>6 DEF SlotInv, MissedInv, PassInv

\* Reservations and entries are within the cap, but for the requests missed.
THEOREM SlotInvariant == ReplaySpec => []SlotInv
  <1>1. ReplayInit => SlotInv
    <2> SUFFICES ASSUME ReplayInit PROVE SlotInv
      OBVIOUS
    <2>1. Entries = {} /\ Reserved = {} /\ Refused = {} /\ Holders = {} /\ missed = {}
      BY DEF ReplayInit, Entries, Reserved, Refused, Holders, Holding, NewRequest
    <2>2. Signed = 0
      BY RequestSets, ReplayAssumption DEF ReplayInit, Signed, SignedOf
    <2>3. BoundInv
      BY <2>1, <2>2, FS_EmptySet, ReplayAssumption DEF BoundInv
    <2> QED
      BY <2>1, <2>3 DEF ReplayInit, Resting, SlotInv, MissedInv, PassInv
  <1>2. ReplayInv /\ SlotInv /\ [ReplayNext]_replayVars => SlotInv'
    <2> SUFFICES ASSUME ReplayInv, SlotInv, [ReplayNext]_replayVars PROVE SlotInv'
      OBVIOUS
    <2>1. ReplayTypeOK /\ missed \in SUBSET Requests /\ req \in [Requests -> Request]
      BY DEF ReplayInv, ReplayTypeOK
    <2>2. ASSUME UNCHANGED <<seenAt, count, req, sweep, missed>> PROVE SlotInv'
      BY <2>2
      DEF SlotInv, MissedInv, BoundInv, PassInv, Entries, Reserved, Refused, Holders,
          Holding, Signed, SignedOf, Visited, HoldersBehind
    <2>3. CASE ReplayTick
      BY <2>2, <2>3 DEF ReplayTick
    <2>4. CASE SweepStarts
      <3>1. BoundInv'
        BY <2>4, SameBounds DEF SweepStarts
      <3> QED
        BY <2>4, <3>1 DEF SweepStarts, SlotInv, MissedInv, PassInv
    <2>5. CASE SweepStep
      BY <2>5, RetainEndSlots, StoreSlots, RetainSlots, CountSlots DEF SweepStep
    <2>6. CASE Restart
      BY <2>6, RestartSlots
    <2>7. ASSUME NEW p \in Proofs, NEW iat \in SomeIats, SignDpopProof(p, iat)
          PROVE  SlotInv'
      BY <2>2, <2>7 DEF SignDpopProof
    <2>8. ASSUME NEW r \in Requests, ReadInstant(r) PROVE SlotInv'
      BY <2>1, <2>8, SameSlots DEF ReadInstant, Holding
    <2>9. ASSUME NEW r \in Requests, CheckOccupied(r) PROVE SlotInv'
      <3>1. ProofOf(r) \in Proofs /\ Carries(r, ProofOf(r)) /\ Underway(r)
        BY <2>9, ItsProof DEF CheckOccupied, ReplayInv, Underway
      <3>2. IsSeen(ProofOf(r), req[r].instant)
        BY <2>9, <3>1, EntryOutlivesRequest DEF CheckOccupied, Entries
      <3>3. /\ req' = [req EXCEPT ![r].at = "out"] /\ req[r].at = "timed"
            /\ UNCHANGED <<seenAt, count, sweep, missed>>
        BY <2>9, <3>2 DEF CheckOccupied
      <3>4. ~Holding(r)' /\ \A s \in Requests : s # r => req'[s] = req[s]
        BY <2>1, <3>3 DEF Holding
      <3> QED
        BY <2>1, <3>3, <3>4, SameSlots
    <2>10. ASSUME NEW r \in Requests, RequestStep(r) PROVE SlotInv'
      BY <2>8, <2>9, <2>10, ReserveSlots, InsertSlots, GiveBackSlots DEF RequestStep
    <2>11. ASSUME NEW r \in Requests, NEW p \in Proofs, VerifyDpopProof(r, p)
           PROVE  SlotInv'
      BY <2>1, <2>11, SameSlots DEF VerifyDpopProof, Holding
    <2>12. CASE UNCHANGED replayVars
      BY <2>2, <2>12 DEF replayVars
    <2> QED
      BY <2>3, <2>4, <2>5, <2>6, <2>7, <2>10, <2>11, <2>12 DEF ReplayNext
  <1> QED
    BY <1>1, <1>2, ReplayInvariant, PTL DEF ReplaySpec

\* A proof admits one request, and the cap bounds the map but for the requests whose
\* reservation the sweep's store has undone: all the cache promises.
THEOREM ReplayIsSafe == ReplaySpec => []ReplaySafe
  <1>1. ReplayInv /\ SlotInv => ReplaySafe
    <2> SUFFICES ASSUME ReplayInv, SlotInv PROVE CacheBounded /\ ProofAdmittedOnce
      BY DEF ReplayInv, ReplaySafe
    <2>1. ReplayTypeOK
      BY DEF ReplayInv
    <2>2. CacheBounded
      BY <2>1, SlotSets DEF SlotInv, BoundInv, CacheBounded
    <2> QED
      BY <2>2 DEF ReplayInv, ProofInv, ProofAdmittedOnce
  <1> QED
    BY <1>1, ReplayInvariant, SlotInvariant, PTL

--------------------------------------------------------------------------------
(***************************************************************************)
(* What a session may rely on, for every number of sessions, restarts and  *)
(* seconds.  The budget's key and the root are dropped no sooner than       *)
(* GracePeriod after the lease has run out; a key that lost its expiry      *)
(* belongs to a lease that was never handed out or has run out; and the     *)
(* calls made, directly or approved, and the calls left never exceed what   *)
(* was asked for, since a key made anew by a rollback holds only what was   *)
(* given back.                                                              *)
(***************************************************************************)

Kinds == {"direct", "approved"} \X {"session", "global"}

\* How far the set-up of a session has got, and what that says of its key.
SetupOK(s) ==
    /\ lease[s].gate <= gateRuns /\ lease[s].at <= sessionTime
    /\ lease[s].step = "none" => lease[s] = NoLease
    /\ lease[s].step \in {"init", "expire"} => lease[s].wish # NoBudget
    /\ lease[s].step = "expire" => budget[s].there /\ budget[s].expires = NoExpiry
    /\ lease[s].wish = NoBudget => budget[s] = NoKey
    /\ lease[s].step # "issued" => made[s] = 0 /\ <<"direct", "global">> \notin ranIn[s]

\* Calls made and calls left; a key that is gone has no expiry.
CallsOK(s) ==
    /\ lease[s].wish \in Nat =>
          budget[s].calls >= 0 /\ budget[s].calls + made[s] <= lease[s].wish
    /\ lease[s].wish = Unset => budget[s].calls \in {-1, 0} /\ made[s] = 0
    /\ ~budget[s].there => budget[s].expires = NoExpiry

\* Lives of the key and of the root.
LivesOK(s) ==
    /\ lease[s].step \in {"store", "issued"} /\ lease[s].wish # NoBudget =>
          IF budget[s].there /\ budget[s].expires # NoExpiry
          THEN lease[s].at + BudgetLife <= budget[s].expires
          ELSE lease[s].at + BudgetLife <= sessionTime
    /\ lease[s].step = "issued" /\ lease[s].rooted /\ lease[s].gate = gateRuns =>
          \/ root[s] # NoRoot /\ lease[s].at <= root[s]
          \/ lease[s].at + RootLife <= sessionTime
    /\ lease[s].rooted => <<"direct", "global">> \notin ranIn[s]

SessionTypes ==
    /\ sessionTime \in Nat /\ gateRuns \in Nat
    /\ lease \in [Sessions -> Lease]
    /\ budget \in [Sessions -> Budget]
    /\ root \in [Sessions -> {NoRoot} \cup Nat]
    /\ pending \in [Sessions -> {NoRoot} \cup Nat]
    /\ made \in [Sessions -> Nat] /\ refused \subseteq Sessions
    /\ ranIn \in [Sessions -> SUBSET Kinds]

SessionParts ==
    /\ SessionTypes
    /\ \A s \in Sessions : SetupOK(s) /\ CallsOK(s) /\ LivesOK(s)

\* A pending approval belongs to a session whose lease was handed out.
PendingIssued == \A s \in Sessions : pending[s] # NoRoot => lease[s].step = "issued"

SessionInv == SessionParts /\ PendingIssued

SessionOK(s) == SetupOK(s) /\ CallsOK(s) /\ LivesOK(s)

--------------------------------------------------------------------------------
(* What the constants and the fields of a session are.                        *)

\* The key and the root outlive the lease.
LEMMA LivesAreLong ==
    /\ BudgetLife \in Nat /\ RootLife \in Nat /\ Smaller(LeaseTtl, MaxLeaseTtl) \in Nat
    /\ Smaller(LeaseTtl, MaxLeaseTtl) < BudgetLife
    /\ Smaller(LeaseTtl, MaxLeaseTtl) < RootLife
  BY SessionAssumption DEF BudgetLife, RootLife, Smaller

\* A number of calls that was asked for, or is left of it, fits the word.
LEMMA CallsFit ==
    ASSUME NEW w \in Wishes, w \in Nat, NEW n \in Int, 0 <= n, n <= w
    PROVE  n \in (-(Word \div 2))..(Word \div 2)
  <1>1. 2 * w < Word /\ Word \in Nat
    BY SessionAssumption
  <1>2. w <= Word \div 2 /\ Word \div 2 \in Nat
    BY <1>1
  <1> QED
    BY <1>2

LEMMA MinusOneFits == -1 \in (-(Word \div 2))..(Word \div 2) /\ 0 \in (-(Word \div 2))..(Word \div 2)
  <1>1. Word \in Nat /\ Word > 1
    BY SessionAssumption
  <1>2. Word \div 2 \in Nat /\ Word \div 2 >= 1
    BY <1>1
  <1> QED
    BY <1>2

\* "u64::MAX as i64" is minus one.
LEMMA CallsGivenValue ==
    ASSUME NEW w \in Wishes, w # NoBudget
    PROVE  /\ w = Unset => CallsGiven(w) = -1
           /\ w # Unset => w \in Nat /\ CallsGiven(w) = w
           /\ CallsGiven(w) \in (-(Word \div 2))..(Word \div 2)
  <1>1. Word \in Nat /\ Word > 1
    BY SessionAssumption
  <1>2. CASE w = Unset
    <2>1. CallsGiven(w) = -1
      BY <1>1, <1>2 DEF CallsGiven, AsI64
    <2> QED
      BY <1>2, <2>1, MinusOneFits
  <1>3. CASE w # Unset
    <2>1. w \in Nat /\ 2 * w < Word
      BY <1>3, SessionAssumption
    <2>2. CallsGiven(w) = w
      BY <1>1, <1>3, <2>1 DEF CallsGiven, AsI64
    <2> QED
      BY <1>3, <2>1, <2>2, CallsFit
  <1> QED
    BY <1>2, <1>3

\* What a session's fields are.
LEMMA SessionFields ==
    ASSUME SessionTypes, NEW s \in Sessions
    PROVE  /\ lease[s] \in Lease /\ lease[s].at \in Nat /\ lease[s].gate \in Nat
           /\ lease[s].wish \in Wishes \cup {NoBudget} /\ lease[s].rooted \in BOOLEAN
           /\ budget[s] \in Budget /\ budget[s].calls \in Int /\ budget[s].expires \in Int
           /\ budget[s].calls \in (-(Word \div 2))..(Word \div 2)
           /\ budget[s].there \in BOOLEAN
           /\ made[s] \in Nat /\ root[s] \in {NoRoot} \cup Nat /\ ranIn[s] \in SUBSET Kinds
           /\ sessionTime \in Nat /\ gateRuns \in Nat
  <1>1. /\ lease[s] \in Lease /\ budget[s] \in Budget
        /\ made[s] \in Nat /\ root[s] \in {NoRoot} \cup Nat /\ ranIn[s] \in SUBSET Kinds
        /\ sessionTime \in Nat /\ gateRuns \in Nat
    BY DEF SessionTypes
  <1>2. /\ lease[s].at \in Nat /\ lease[s].gate \in Nat
        /\ lease[s].wish \in Wishes \cup {NoBudget} /\ lease[s].rooted \in BOOLEAN
    BY <1>1 DEF Lease
  <1>3. budget[s].calls \in (-(Word \div 2))..(Word \div 2) /\ budget[s].there \in BOOLEAN
        /\ budget[s].expires \in Int
    BY <1>1 DEF Budget
  <1>4. budget[s].calls \in Int
    BY <1>3
  <1> QED
    BY <1>1, <1>2, <1>3, <1>4

\* The part of a session that a step leaves alone, or that only time touches.
LEMMA OtherSessions ==
    ASSUME SessionParts, NEW s \in Sessions, sessionTime' = sessionTime, gateRuns' = gateRuns,
           lease'[s] = lease[s], budget'[s] = budget[s], root'[s] = root[s],
           made'[s] = made[s], ranIn'[s] = ranIn[s]
    PROVE  SessionOK(s)'
  <1>1. SessionOK(s)
    BY DEF SessionParts, SessionOK
  <1>2. SetupOK(s)' /\ CallsOK(s)' /\ LivesOK(s)'
    BY <1>1 DEF SessionOK, SetupOK, CallsOK, LivesOK
  <1> QED
    BY <1>2 DEF SessionOK

\* A step of one session: the others are as they were.
LEMMA OneSession ==
    ASSUME SessionParts, SessionTypes', NEW s \in Sessions,
           sessionTime' = sessionTime, gateRuns' = gateRuns,
           \A z \in Sessions : z # s =>
              /\ lease'[z] = lease[z] /\ budget'[z] = budget[z] /\ root'[z] = root[z]
              /\ made'[z] = made[z] /\ ranIn'[z] = ranIn[z],
           SessionOK(s)'
    PROVE  SessionParts'
  <1>1. \A z \in Sessions : SessionOK(z)'
    BY OtherSessions
  <1> QED
    BY <1>1 DEF SessionParts, SessionOK

\* While a lease is valid its key and its root are there, and the key will expire.
LEMMA ValidLease ==
    ASSUME SessionParts, NEW s \in Sessions, LeaseValid(s)
    PROVE  /\ lease[s].wish # NoBudget =>
                 budget[s].there /\ budget[s].expires # NoExpiry
           /\ lease[s].rooted => root[s] # NoRoot
  <1>1. /\ lease[s].at \in Nat /\ sessionTime \in Nat /\ budget[s].there \in BOOLEAN
    BY SessionFields DEF SessionParts
  <1>2. sessionTime < lease[s].at + BudgetLife /\ sessionTime < lease[s].at + RootLife
    BY <1>1, LivesAreLong DEF LeaseValid
  <1>3. LivesOK(s) /\ lease[s].step = "issued" /\ lease[s].gate = gateRuns
    BY DEF SessionParts, LeaseValid
  <1> QED
    BY <1>1, <1>2, <1>3, LivesAreLong DEF LivesOK

--------------------------------------------------------------------------------
(* One lemma per action of a session.                                         *)

LEMMA SessionTickPreserves ==
    ASSUME SessionParts, SessionTick
    PROVE  SessionParts'
  <1> USE DEF SessionTick
  <1>1. SessionTypes'
    BY DEF SessionParts, SessionTypes
  <1>2. ASSUME NEW s \in Sessions PROVE SessionOK(s)'
    <2>1. lease[s].at \in Nat /\ sessionTime \in Nat
      BY SessionFields DEF SessionParts
    <2>2. SetupOK(s) /\ CallsOK(s) /\ LivesOK(s)
      BY DEF SessionParts
    <2>3. SetupOK(s)' /\ CallsOK(s)'
      BY <2>1, <2>2 DEF SetupOK, CallsOK
    <2>4. LivesOK(s)'
      BY <2>1, <2>2, LivesAreLong DEF LivesOK
    <2> QED
      BY <2>3, <2>4 DEF SessionOK
  <1> QED
    BY <1>1, <1>2 DEF SessionParts, SessionOK

LEMMA IssuePreserves ==
    ASSUME SessionParts, NEW s \in Sessions, NEW wish \in Wishes, NEW rooted \in BOOLEAN,
           IssueLease(s, wish, rooted)
    PROVE  SessionParts'
  <1> USE DEF IssueLease
  <1>1. SessionTypes
    BY DEF SessionParts
  <1>2. /\ lease'[s] = [step |-> IF wish = NoBudget THEN "store" ELSE "init", wish |-> wish,
                        rooted |-> rooted, at |-> sessionTime, gate |-> gateRuns]
        /\ \A z \in Sessions : z # s => lease'[z] = lease[z]
    BY <1>1 DEF SessionTypes
  <1>3. SessionTypes'
    <2>1. lease'[s] \in Lease
      BY <1>1, <1>2 DEF Lease, SessionTypes
    <2> QED
      BY <1>1, <2>1 DEF SessionTypes
  <1>4. lease[s] = NoLease /\ budget[s] = NoKey /\ made[s] = 0
        /\ <<"direct", "global">> \notin ranIn[s]
    <2>1. SetupOK(s) /\ lease[s].step = "none"
      BY DEF SessionParts
    <2>2. lease[s] = NoLease
      BY <2>1 DEF SetupOK
    <2>3. lease[s].wish = NoBudget
      BY <2>2 DEF NoLease
    <2> QED
      BY <2>1, <2>2, <2>3 DEF SetupOK
  <1>5. sessionTime \in Nat /\ gateRuns \in Nat
    BY <1>1 DEF SessionTypes
  <1>6. SetupOK(s)'
    BY <1>2, <1>4, <1>5 DEF SetupOK
  <1>7. CallsOK(s)'
    BY <1>2, <1>4 DEF CallsOK, NoKey
  <1>8. LivesOK(s)'
    BY <1>2, <1>4 DEF LivesOK
  <1> QED
    BY <1>2, <1>3, <1>6, <1>7, <1>8, OneSession DEF SessionOK

LEMMA InitBudgetPreserves ==
    ASSUME SessionParts, NEW s \in Sessions, NEW ok \in BOOLEAN, InitBudget(s, ok)
    PROVE  SessionParts'
  <1> USE DEF InitBudget
  <1>1. SessionTypes /\ SetupOK(s) /\ CallsOK(s) /\ LivesOK(s)
    BY DEF SessionParts
  <1>2. lease[s].wish \in Wishes /\ lease[s].wish # NoBudget
    BY <1>1, SessionFields DEF SetupOK
  <1>3. /\ lease'[s] = [lease[s] EXCEPT !.step = IF ok THEN "expire" ELSE "failed"]
        /\ \A z \in Sessions : z # s => lease'[z] = lease[z] /\ budget'[z] = budget[z]
        /\ budget'[s] = IF ok THEN [there |-> TRUE, calls |-> CallsGiven(lease[s].wish),
                                    expires |-> NoExpiry]
                              ELSE budget[s]
    BY <1>1 DEF SessionTypes
  <1>4. lease[s] \in Lease /\ budget[s] \in Budget /\ made[s] = 0
        /\ <<"direct", "global">> \notin ranIn[s]
    BY <1>1, SessionFields DEF SetupOK
  <1>5. /\ lease'[s].step \in {"expire", "failed"} /\ lease'[s].wish = lease[s].wish
        /\ lease'[s].rooted = lease[s].rooted /\ lease'[s].at = lease[s].at
        /\ lease'[s].gate = lease[s].gate /\ lease'[s] \in Lease
        /\ ok <=> lease'[s].step = "expire"
    BY <1>3, <1>4 DEF Lease
  <1>6. budget'[s] \in Budget
    BY <1>2, <1>3, <1>4, CallsGivenValue DEF Budget, NoExpiry
  <1>7. SessionTypes'
    BY <1>1, <1>5, <1>6 DEF SessionTypes
  <1>8. SetupOK(s)'
    BY <1>1, <1>2, <1>3, <1>4, <1>5 DEF SetupOK
  <1>9. CallsOK(s)'
    <2>1. CASE ok
      <3>1. budget'[s].calls = CallsGiven(lease[s].wish)
        BY <1>3, <2>1
      <3>2. budget'[s].there = TRUE
        BY <1>3, <2>1
      <3> QED
        BY <1>2, <1>4, <1>5, <3>1, <3>2, CallsGivenValue, SessionAssumption DEF CallsOK
    <2>2. CASE ~ok
      BY <1>1, <1>3, <1>5, <2>2 DEF CallsOK
    <2> QED
      BY <2>1, <2>2
  <1>10. LivesOK(s)'
    BY <1>4, <1>5 DEF LivesOK
  <1> QED
    BY <1>3, <1>7, <1>8, <1>9, <1>10, OneSession DEF SessionOK

LEMMA ExpirePreserves ==
    ASSUME SessionParts, NEW s \in Sessions, NEW ok \in BOOLEAN, ExpireBudget(s, ok)
    PROVE  SessionParts'
  <1> USE DEF ExpireBudget
  <1>1. SessionTypes /\ SetupOK(s) /\ CallsOK(s) /\ LivesOK(s)
    BY DEF SessionParts
  <1>2. lease[s] \in Lease /\ budget[s] \in Budget /\ made[s] = 0
        /\ <<"direct", "global">> \notin ranIn[s]
        /\ lease[s].at \in Nat /\ sessionTime \in Nat
    BY <1>1, SessionFields DEF SetupOK
  <1>3. /\ lease'[s] = [lease[s] EXCEPT !.step = IF ok THEN "store" ELSE "failed"]
        /\ \A z \in Sessions : z # s => lease'[z] = lease[z] /\ budget'[z] = budget[z]
        /\ budget'[s] = IF ok THEN [budget[s] EXCEPT !.expires = sessionTime + BudgetLife]
                              ELSE budget[s]
    BY <1>1 DEF SessionTypes
  <1>4. /\ lease'[s].step = (IF ok THEN "store" ELSE "failed")
        /\ lease'[s].wish = lease[s].wish
        /\ lease'[s].rooted = lease[s].rooted /\ lease'[s].at = lease[s].at
        /\ lease'[s].gate = lease[s].gate /\ lease'[s] \in Lease
    BY <1>2, <1>3 DEF Lease
  <1>5. /\ budget'[s] \in Budget /\ budget'[s].calls = budget[s].calls
        /\ budget'[s].there = budget[s].there
        /\ ok => budget'[s].expires = sessionTime + BudgetLife
    BY <1>2, <1>3, LivesAreLong DEF Budget
  <1>6. SessionTypes'
    BY <1>1, <1>4, <1>5 DEF SessionTypes
  <1>7. SetupOK(s)'
    BY <1>1, <1>2, <1>4 DEF SetupOK
  <1>8. CallsOK(s)'
    BY <1>1, <1>4, <1>5 DEF CallsOK, SetupOK
  <1>9. LivesOK(s)'
    BY <1>1, <1>2, <1>4, <1>5, LivesAreLong DEF LivesOK, SetupOK, NoExpiry
  <1> QED
    BY <1>3, <1>6, <1>7, <1>8, <1>9, OneSession DEF SessionOK

\* A step of one session that is past its set-up and changes neither its lease nor
\* its root.
LEMMA LaterStep ==
    ASSUME SessionParts, SessionTypes', NEW s \in Sessions, lease[s].step = "issued",
           UNCHANGED <<sessionTime, gateRuns, lease, root>>,
           \A z \in Sessions : z # s =>
              budget'[z] = budget[z] /\ made'[z] = made[z] /\ ranIn'[z] = ranIn[z],
           lease[s].wish = NoBudget => budget'[s] = NoKey,
           CallsOK(s)',
           lease[s].wish # NoBudget =>
              IF budget'[s].there /\ budget'[s].expires # NoExpiry
              THEN lease[s].at + BudgetLife <= budget'[s].expires
              ELSE lease[s].at + BudgetLife <= sessionTime,
           lease[s].rooted => <<"direct", "global">> \notin ranIn'[s]
    PROVE  SessionParts'
  <1>1. SetupOK(s) /\ LivesOK(s)
    BY DEF SessionParts
  <1>2. SetupOK(s)'
    BY <1>1 DEF SetupOK
  <1>3. LivesOK(s)'
    BY <1>1 DEF LivesOK
  <1> QED
    BY <1>2, <1>3, OneSession DEF SessionOK

LEMMA AnswerPreserves ==
    ASSUME SessionParts, NEW s \in Sessions, AnswerLease(s)
    PROVE  SessionParts'
  <1> USE DEF AnswerLease
  <1>1. SessionTypes /\ SetupOK(s) /\ CallsOK(s) /\ LivesOK(s)
    BY DEF SessionParts
  <1>2. lease[s] \in Lease /\ lease[s].at \in Nat /\ sessionTime \in Nat
    BY <1>1, SessionFields
  <1>3. /\ lease'[s] = [lease[s] EXCEPT !.step = "issued"]
        /\ \A z \in Sessions : z # s => lease'[z] = lease[z] /\ root'[z] = root[z]
        /\ lease[s].rooted => root'[s] = sessionTime
    BY <1>1 DEF SessionTypes
  <1>4. /\ lease'[s].step = "issued" /\ lease'[s].wish = lease[s].wish
        /\ lease'[s].rooted = lease[s].rooted /\ lease'[s].at = lease[s].at
        /\ lease'[s].gate = lease[s].gate /\ lease'[s] \in Lease
    BY <1>2, <1>3 DEF Lease
  <1>5. SessionTypes'
    BY <1>1, <1>4 DEF SessionTypes
  <1>6. SetupOK(s)' /\ CallsOK(s)'
    BY <1>1, <1>4 DEF SetupOK, CallsOK
  <1>7. LivesOK(s)'
    BY <1>1, <1>2, <1>3, <1>4 DEF LivesOK, SetupOK, NoRoot
  <1> QED
    BY <1>3, <1>5, <1>6, <1>7, OneSession DEF SessionOK

\* The budget refuses a call: only that it did so is new.
LEMMA RefusePreserves ==
    ASSUME SessionParts, NEW s \in Sessions, Refuse(s), SessionTypes',
           UNCHANGED <<sessionTime, gateRuns, lease, root>>
    PROVE  SessionParts'
  <1>1. UNCHANGED <<budget, made, ranIn>>
    BY DEF Refuse
  <1>2. SessionOK(s)'
    BY <1>1, OtherSessions
  <1> QED
    BY <1>1, <1>2, OneSession

\* A debit, of a direct call under a valid lease or of an approved call at any time.
LEMMA DebitPreserves ==
    ASSUME SessionParts, NEW s \in Sessions, lease[s].step = "issued",
           NEW kind \in {"direct", "approved"}, kind = "direct" => LeaseValid(s),
           Debit(s, kind), UNCHANGED <<sessionTime, gateRuns, lease, root>>,
           pending' \in [Sessions -> {NoRoot} \cup Nat]
    PROVE  SessionParts'
  <1> DEFINE capped == lease[s].wish # NoBudget
             pays == budget[s].there /\ budget[s].calls > 0
  <1>0. SessionTypes /\ SetupOK(s) /\ CallsOK(s) /\ LivesOK(s)
    BY DEF SessionParts
  <1>1. /\ budget' = IF capped THEN [budget EXCEPT ![s].calls = @ - 1] ELSE budget
        /\ made' = [made EXCEPT ![s] = @ + 1]
        /\ \/ ranIn' = [ranIn EXCEPT ![s] = @ \cup {<<kind, RootFor(s)>>}]
           \/ ranIn' = ranIn
        /\ refused' = refused
        /\ capped => pays
    BY DEF Debit, Capped
  <1>2. /\ budget[s] \in Budget /\ made[s] \in Nat /\ budget[s].calls \in Int
        /\ lease[s].wish \in Wishes \cup {NoBudget} /\ ranIn[s] \in SUBSET Kinds
    BY <1>0, SessionFields
  <1>3. <<kind, RootFor(s)>> \in Kinds
    BY DEF RootFor, Kinds
  <1>4. /\ made'[s] = made[s] + 1
        /\ ranIn'[s] \in {ranIn[s], ranIn[s] \cup {<<kind, RootFor(s)>>}}
        /\ \A z \in Sessions : z # s =>
              budget'[z] = budget[z] /\ made'[z] = made[z] /\ ranIn'[z] = ranIn[z]
    BY <1>0, <1>1 DEF SessionTypes
  <1>5. capped => budget[s].there /\ budget[s].calls > 0 /\ lease[s].wish \in Nat
                  /\ lease[s].wish \in Wishes
    <2>1. capped => lease[s].wish \in Wishes /\ pays
      BY <1>1, <1>2
    <2>2. lease[s].wish # Unset \/ ~pays
      BY <1>0, <1>2 DEF CallsOK
    <2> QED
      BY <2>1, <2>2, SessionAssumption
  <1>6. budget'[s] = IF capped THEN [budget[s] EXCEPT !.calls = @ - 1] ELSE budget[s]
    BY <1>0, <1>1 DEF SessionTypes
  <1>7. /\ budget'[s] \in Budget /\ budget'[s].there = budget[s].there
        /\ budget'[s].expires = budget[s].expires
        /\ budget'[s].calls = IF capped THEN budget[s].calls - 1 ELSE budget[s].calls
    <2>1. CASE capped
      <3>1. budget[s].calls - 1 \in (-(Word \div 2))..(Word \div 2)
        <4>1. budget[s].calls - 1 <= lease[s].wish /\ 0 <= budget[s].calls - 1
          BY <1>0, <1>2, <1>5, <2>1 DEF CallsOK
        <4> QED
          BY <1>2, <1>5, <2>1, <4>1, CallsFit
      <3> DEFINE c == budget[s].calls - 1
      <3>2. budget'[s] = [budget[s] EXCEPT !.calls = c]
        BY <1>6, <2>1
      <3> HIDE DEF c
      <3>3. c \in (-(Word \div 2))..(Word \div 2)
        BY <3>1 DEF c
      <3>4. budget'[s] \in Budget /\ budget'[s].there = budget[s].there
            /\ budget'[s].expires = budget[s].expires /\ budget'[s].calls = c
        BY <1>2, <3>2, <3>3 DEF Budget
      <3> QED
        BY <2>1, <3>4 DEF c
    <2>2. CASE ~capped
      BY <1>2, <1>6, <2>2
    <2> QED
      BY <2>1, <2>2
  <1>8. SessionTypes'
    <2>1. made' \in [Sessions -> Nat] /\ ranIn' \in [Sessions -> SUBSET Kinds]
      BY <1>0, <1>1, <1>2, <1>3 DEF SessionTypes
    <2>2. budget' \in [Sessions -> Budget]
      BY <1>0, <1>1, <1>7 DEF SessionTypes
    <2> QED
      BY <1>0, <1>1, <2>1, <2>2 DEF SessionTypes
  <1>9. CallsOK(s)'
    BY <1>0, <1>2, <1>4, <1>5, <1>7, SessionAssumption DEF CallsOK
  <1>10. lease[s].rooted => <<"direct", "global">> \notin ranIn'[s]
    <2>1. lease[s].rooted /\ kind = "direct" => RootFor(s) = "session"
      BY ValidLease DEF RootFor
    <2> QED
      BY <1>0, <1>4, <2>1 DEF LivesOK
  <1>11. lease[s].wish = NoBudget => budget'[s] = NoKey
    BY <1>0, <1>6 DEF SetupOK
  <1>12. lease[s].wish # NoBudget =>
            IF budget'[s].there /\ budget'[s].expires # NoExpiry
            THEN lease[s].at + BudgetLife <= budget'[s].expires
            ELSE lease[s].at + BudgetLife <= sessionTime
    BY <1>0, <1>7 DEF LivesOK
  <1> QED
    BY <1>4, <1>8, <1>9, <1>10, <1>11, <1>12, LaterStep

LEMMA CallPreserves ==
    ASSUME SessionParts, NEW s \in Sessions, CallAction(s)
    PROVE  SessionParts'
  <1>1. UNCHANGED <<sessionTime, gateRuns, lease, root, pending>> /\ LeaseValid(s)
        /\ lease[s].step = "issued" /\ SessionTypes
    BY DEF SessionParts, CallAction, LeaseValid
  <1>2. CASE Refuse(s)
    <2>1. SessionTypes'
      BY <1>1, <1>2 DEF SessionTypes, Refuse
    <2> QED
      BY <1>1, <1>2, <2>1, RefusePreserves
  <1>3. CASE Debit(s, "direct")
    <2>1. pending' \in [Sessions -> {NoRoot} \cup Nat]
      BY <1>1 DEF SessionTypes
    <2> QED
      BY <1>1, <1>3, <2>1, DebitPreserves
  <1> QED
    BY <1>2, <1>3 DEF CallAction

LEMMA RequestPreserves ==
    ASSUME SessionParts, NEW s \in Sessions, RequestApproval(s)
    PROVE  SessionParts'
  <1>1. SessionTypes /\ sessionTime \in Nat /\ ApprovalTtl \in Nat
    BY SessionAssumption DEF SessionParts, SessionTypes
  <1>2. UNCHANGED <<sessionTime, gateRuns, lease, budget, root, made, refused, ranIn>>
        /\ pending' = [pending EXCEPT ![s] = sessionTime + ApprovalTtl]
    BY DEF RequestApproval
  <1>3. SessionTypes'
    BY <1>1, <1>2 DEF SessionTypes
  <1>4. SessionOK(s)'
    BY <1>2, OtherSessions
  <1> QED
    BY <1>2, <1>3, <1>4, OneSession

LEMMA ApprovalPreserves ==
    ASSUME SessionInv, NEW s \in Sessions, ApproveExecution(s)
    PROVE  SessionParts'
  <1>1. SessionParts /\ SessionTypes /\ lease[s].step = "issued"
    BY DEF SessionInv, PendingIssued, SessionParts, ApproveExecution
  <1>2. UNCHANGED <<sessionTime, gateRuns, lease, root>>
        /\ pending' \in [Sessions -> {NoRoot} \cup Nat]
    BY <1>1 DEF ApproveExecution, SessionTypes
  <1>3. CASE Refuse(s)
    <2>1. SessionTypes'
      BY <1>1, <1>2, <1>3 DEF SessionTypes, Refuse
    <2> QED
      BY <1>1, <1>2, <1>3, <2>1, RefusePreserves
  <1>4. CASE Debit(s, "approved")
    BY <1>1, <1>2, <1>4, DebitPreserves
  <1> QED
    BY <1>3, <1>4 DEF ApproveExecution

\* What HINCRBY leaves of a key.
GivenBack(b, c) == [b EXCEPT !.there = TRUE, !.calls = c]

LEMMA KeyGivenBack ==
    ASSUME NEW b \in Budget, NEW c \in (-(Word \div 2))..(Word \div 2),
           NEW k, k = GivenBack(b, c)
    PROVE  /\ k.calls = c /\ k.there = TRUE /\ k.expires = b.expires
           /\ k \in Budget
  <1>1. b = [there |-> b.there, calls |-> b.calls, expires |-> b.expires] /\ b.expires \in Int
    BY DEF Budget
  <1>2. k = [there |-> TRUE, calls |-> c, expires |-> b.expires]
    BY <1>1 DEF GivenBack
  <1> QED
    BY <1>1, <1>2 DEF Budget

LEMMA RollbackPreserves ==
    ASSUME SessionParts, NEW s \in Sessions, RollbackBudget(s)
    PROVE  SessionParts'
  <1> USE DEF RollbackBudget, Capped
  <1>1. SessionTypes /\ SetupOK(s) /\ CallsOK(s) /\ LivesOK(s)
    BY DEF SessionParts
  <1>2. /\ budget[s] \in Budget /\ made[s] \in Nat /\ budget[s].calls \in Int
        /\ lease[s].wish \in Wishes /\ budget[s].there \in BOOLEAN
    BY <1>1, SessionFields
  <1>3. lease[s].step = "issued"
    BY <1>1, <1>2 DEF SetupOK
  <1>4. lease[s].wish \in Nat
    BY <1>1, <1>2, SessionAssumption DEF CallsOK
  <1> DEFINE c == budget[s].calls + 1
             m == made[s] - 1
  <1>5. /\ budget' = [budget EXCEPT ![s].there = TRUE, ![s].calls = c]
        /\ made' = [made EXCEPT ![s] = m]
    BY <1>1, <1>2 DEF SessionTypes
  <1>6. m \in Nat /\ c \in (-(Word \div 2))..(Word \div 2) /\ c \in Int /\ 0 <= c
        /\ c + m <= lease[s].wish
    <2>1. c \in Int /\ 0 <= c /\ c <= lease[s].wish /\ m \in Nat /\ c + m <= lease[s].wish
      BY <1>1, <1>2, <1>4 DEF CallsOK
    <2> QED
      BY <1>2, <1>4, <2>1, CallsFit
  <1> HIDE DEF c, m
  <1>7. /\ budget'[s] = GivenBack(budget[s], c)
        /\ made'[s] = m
        /\ \A z \in Sessions : z # s => budget'[z] = budget[z] /\ made'[z] = made[z]
    BY <1>1, <1>5 DEF SessionTypes, GivenBack
  <1> HIDE DEF RollbackBudget, Capped
  <1>8. /\ budget'[s].calls = c /\ budget'[s].there = TRUE
        /\ budget'[s].expires = budget[s].expires /\ budget'[s] \in Budget
    <2>1. budget[s] \in Budget /\ c \in (-(Word \div 2))..(Word \div 2)
      BY <1>2, <1>6
    <2>2. \A k : k = GivenBack(budget[s], c) =>
             /\ k.calls = c /\ k.there = TRUE /\ k.expires = budget[s].expires
             /\ k \in Budget
      BY <2>1, KeyGivenBack, Zenon
    <2> QED
      BY <1>7, <2>2, Zenon
  <1> USE DEF RollbackBudget, Capped
  <1>9. SessionTypes'
    BY <1>1, <1>5, <1>6, <1>8 DEF SessionTypes
  <1>10. CallsOK(s)'
    BY <1>4, <1>6, <1>7, <1>8, SessionAssumption DEF CallsOK
  <1>11. IF budget'[s].there /\ budget'[s].expires # NoExpiry
         THEN lease[s].at + BudgetLife <= budget'[s].expires
         ELSE lease[s].at + BudgetLife <= sessionTime
    BY <1>1, <1>2, <1>3, <1>8 DEF LivesOK, CallsOK
  <1>12. lease[s].rooted => <<"direct", "global">> \notin ranIn'[s]
    BY <1>1 DEF LivesOK
  <1> QED
    BY <1>3, <1>7, <1>9, <1>10, <1>11, <1>12, LaterStep

LEMMA KeyExpiresPreserves ==
    ASSUME SessionParts, NEW s \in Sessions, KeyExpires(s)
    PROVE  SessionParts'
  <1> USE DEF KeyExpires
  <1>1. SessionTypes /\ SetupOK(s) /\ CallsOK(s) /\ LivesOK(s)
    BY DEF SessionParts
  <1>2. /\ budget[s].calls \in Int /\ budget[s].expires \in Int /\ made[s] \in Nat
        /\ lease[s].at \in Nat /\ sessionTime \in Nat /\ BudgetLife \in Nat
        /\ lease[s].wish \in Wishes \cup {NoBudget}
    BY <1>1, SessionFields, LivesAreLong
  <1>3. NoKey \in Budget
    BY MinusOneFits DEF NoKey, Budget, NoExpiry
  <1>4. budget'[s] = NoKey /\ \A z \in Sessions : z # s => budget'[z] = budget[z]
    BY <1>1 DEF SessionTypes
  <1>5. SessionTypes'
    BY <1>1, <1>3 DEF SessionTypes
  <1>6. ~budget'[s].there /\ budget'[s].calls = 0 /\ budget'[s].expires = NoExpiry
    BY <1>4 DEF NoKey
  <1>7. SetupOK(s)'
    BY <1>1, <1>4 DEF SetupOK
  <1>8. CallsOK(s)'
    BY <1>1, <1>2, <1>6 DEF CallsOK
  <1>9. LivesOK(s)'
    <2>1. /\ lease[s].step \in {"store", "issued"} /\ lease[s].wish # NoBudget =>
                lease[s].at + BudgetLife <= sessionTime
      BY <1>1, <1>2 DEF LivesOK
    <2> QED
      BY <1>1, <1>6, <2>1 DEF LivesOK
  <1> QED
    BY <1>4, <1>5, <1>7, <1>8, <1>9, OneSession DEF SessionOK

LEMMA EvictPreserves ==
    ASSUME SessionParts, EvictFsRoots
    PROVE  SessionParts'
  <1> USE DEF EvictFsRoots
  <1>1. SessionTypes
    BY DEF SessionParts
  <1>2. SessionTypes'
    BY <1>1 DEF SessionTypes
  <1>3. ASSUME NEW s \in Sessions PROVE SessionOK(s)'
    <2>1. SetupOK(s) /\ CallsOK(s) /\ LivesOK(s)
      BY DEF SessionParts
    <2>2. SetupOK(s)' /\ CallsOK(s)'
      BY <2>1 DEF SetupOK, CallsOK
    <2>3. /\ root'[s] = IF sessionTime - root[s] < RootLife THEN root[s] ELSE NoRoot
          /\ root[s] \in {NoRoot} \cup Nat /\ lease[s].at \in Nat /\ sessionTime \in Nat
          /\ RootLife \in Nat
      BY <1>1, SessionFields, LivesAreLong
    <2>4. lease[s].step = "issued" /\ lease[s].rooted /\ lease[s].gate = gateRuns =>
             \/ root'[s] # NoRoot /\ lease[s].at <= root'[s]
             \/ lease[s].at + RootLife <= sessionTime
      <3>1. CASE root[s] = NoRoot
        BY <2>1, <2>3, <3>1 DEF LivesOK
      <3>2. CASE root[s] # NoRoot
        <4>1. root[s] \in Nat
          BY <2>3, <3>2
        <4> QED
          BY <2>1, <2>3, <3>2, <4>1 DEF LivesOK
      <3> QED
        BY <3>1, <3>2
    <2>5. LivesOK(s)'
      BY <2>1, <2>4 DEF LivesOK
    <2> QED
      BY <2>2, <2>5 DEF SessionOK
  <1> QED
    BY <1>2, <1>3 DEF SessionParts, SessionOK

LEMMA GateRestartPreserves ==
    ASSUME SessionParts, RestartGate
    PROVE  SessionParts'
  <1> USE DEF RestartGate
  <1>1. SessionTypes
    BY DEF SessionParts
  <1>2. ASSUME NEW s \in Sessions
        PROVE  /\ lease'[s] \in Lease
               /\ lease'[s].wish = lease[s].wish /\ lease'[s].rooted = lease[s].rooted
               /\ lease'[s].at = lease[s].at /\ lease'[s].gate = lease[s].gate
               /\ IF lease[s].step \in {"init", "expire", "store"}
                  THEN lease'[s].step = "failed" ELSE lease'[s] = lease[s]
    <2>1. lease[s] \in Lease
      BY <1>1, SessionFields
    <2>2. lease'[s] = IF lease[s].step \in {"init", "expire", "store"}
                      THEN [lease[s] EXCEPT !.step = "failed"] ELSE lease[s]
      OBVIOUS
    <2>3. CASE lease[s].step \in {"init", "expire", "store"}
      BY <2>1, <2>2, <2>3 DEF Lease
    <2>4. CASE lease[s].step \notin {"init", "expire", "store"}
      BY <2>1, <2>2, <2>4
    <2> QED
      BY <2>3, <2>4
  <1>3. SessionTypes'
    <2>1. lease' \in [Sessions -> Lease]
      BY <1>2
    <2>2. root' \in [Sessions -> {NoRoot} \cup Nat] /\ gateRuns' \in Nat
      BY <1>1 DEF SessionTypes
    <2> QED
      BY <1>1, <2>1, <2>2 DEF SessionTypes
  <1>4. ASSUME NEW s \in Sessions PROVE SessionOK(s)'
    <2>1. SetupOK(s) /\ CallsOK(s) /\ LivesOK(s)
      BY DEF SessionParts
    <2>2. lease[s].gate \in Nat /\ gateRuns \in Nat /\ lease[s].gate <= gateRuns
          /\ lease'[s].gate # gateRuns' /\ lease'[s].gate <= gateRuns'
      BY <1>1, <1>2, <2>1, SessionFields DEF SetupOK
    <2>3. /\ lease'[s].step = "issued" <=> lease[s].step = "issued"
          /\ lease'[s].step \notin {"init", "expire", "store"}
          /\ lease'[s].step = "none" => lease'[s] = lease[s]
      BY <1>2
    <2>4. SetupOK(s)'
      BY <1>2, <2>1, <2>2, <2>3 DEF SetupOK
    <2>5. CallsOK(s)'
      BY <1>2, <2>1 DEF CallsOK
    <2>6. LivesOK(s)'
      BY <1>2, <2>1, <2>2, <2>3 DEF LivesOK
    <2> QED
      BY <2>4, <2>5, <2>6 DEF SessionOK
  <1> QED
    BY <1>3, <1>4 DEF SessionParts, SessionOK

\* Approvals are asked for under a valid lease, and a lease once handed out stays so.
LEMMA PendingPreserved ==
    ASSUME SessionInv, SessionNext
    PROVE  PendingIssued'
  <1>1. SessionTypes /\ PendingIssued
    BY DEF SessionInv, SessionParts
  <1>2. ASSUME NEW s \in Sessions, pending'[s] # NoRoot PROVE lease'[s].step = "issued"
    <2>1. \A z \in Sessions : lease[z].step = "issued" => lease'[z].step = "issued"
      <3>1. CASE \E z \in Sessions, wish \in Wishes, rooted \in BOOLEAN :
                   IssueLease(z, wish, rooted)
        BY <1>1, <3>1 DEF IssueLease, SessionTypes, Lease
      <3>2. CASE \E z \in Sessions, ok \in BOOLEAN : InitBudget(z, ok) \/ ExpireBudget(z, ok)
        BY <1>1, <3>2 DEF InitBudget, ExpireBudget, SessionTypes, Lease
      <3>3. CASE \E z \in Sessions : AnswerLease(z)
        BY <1>1, <3>3 DEF AnswerLease, SessionTypes, Lease
      <3>4. CASE RestartGate
        BY <1>1, <3>4 DEF RestartGate, SessionTypes
      <3>5. CASE UNCHANGED lease
        BY <3>5
      <3> QED
        BY <3>1, <3>2, <3>3, <3>4, <3>5
           DEF SessionNext, SessionTick, EvictFsRoots, CallAction, RequestApproval,
               ApproveExecution, RollbackBudget, KeyExpires
    <2>2. CASE pending'[s] = pending[s]
      BY <1>1, <1>2, <2>1, <2>2 DEF PendingIssued
    <2>3. CASE pending'[s] # pending[s]
      <3>1. PICK z \in Sessions : RequestApproval(z) \/ ApproveExecution(z)
        BY <2>3 DEF SessionNext, SessionTick, EvictFsRoots, RestartGate, IssueLease,
           InitBudget, ExpireBudget, AnswerLease, CallAction, RollbackBudget, KeyExpires
      <3>2. z = s
        BY <1>1, <2>3, <3>1 DEF RequestApproval, ApproveExecution, SessionTypes
      <3>3. RequestApproval(s)
        BY <1>1, <1>2, <3>1, <3>2 DEF ApproveExecution, SessionTypes
      <3> QED
        BY <2>1, <3>3 DEF RequestApproval, LeaseValid
    <2> QED
      BY <2>2, <2>3
  <1> QED
    BY <1>2 DEF PendingIssued

--------------------------------------------------------------------------------
\* The invariant of the sessions: every step of a lease's life, of the stores and of
\* the gate preserves it.
THEOREM SessionInvariant == SessionSpec => []SessionInv
  <1>1. SessionInit => SessionInv
    <2> SUFFICES ASSUME SessionInit PROVE SessionInv
      OBVIOUS
    <2> USE DEF SessionInit
    <2>1. NoLease \in Lease /\ NoKey \in Budget
      BY MinusOneFits DEF NoLease, Lease, NoKey, Budget, NoExpiry
    <2>2. SessionTypes
      BY <2>1 DEF SessionTypes
    <2>3. ASSUME NEW s \in Sessions PROVE SessionOK(s)
      <3>1. SetupOK(s)
        BY DEF SetupOK, NoLease
      <3>2. CallsOK(s)
        BY SessionAssumption DEF CallsOK, NoLease, NoKey
      <3>3. LivesOK(s)
        BY DEF LivesOK, NoLease
      <3> QED
        BY <3>1, <3>2, <3>3 DEF SessionOK
    <2>4. PendingIssued
      BY DEF PendingIssued
    <2> QED
      BY <2>2, <2>3, <2>4 DEF SessionInv, SessionParts, SessionOK
  <1>2. SessionInv /\ [SessionNext]_sessionVars => SessionInv'
    <2> SUFFICES ASSUME SessionInv, [SessionNext]_sessionVars PROVE SessionInv'
      OBVIOUS
    <2>1. CASE UNCHANGED sessionVars
      <3>1. SessionTypes'
        BY <2>1 DEF SessionInv, SessionParts, SessionTypes, sessionVars
      <3>2. \A s \in Sessions : SessionOK(s)'
        BY <2>1, OtherSessions DEF SessionInv, sessionVars
      <3>3. PendingIssued'
        BY <2>1 DEF SessionInv, PendingIssued, sessionVars
      <3> QED
        BY <3>1, <3>2, <3>3 DEF SessionInv, SessionParts, SessionOK
    <2>2. CASE SessionNext
      <3>1. SessionParts'
        BY <2>2, SessionTickPreserves, EvictPreserves, GateRestartPreserves, IssuePreserves,
           InitBudgetPreserves, ExpirePreserves, AnswerPreserves, CallPreserves,
           RequestPreserves, ApprovalPreserves, RollbackPreserves, KeyExpiresPreserves
           DEF SessionNext, SessionInv
      <3> QED
        BY <2>2, <3>1, PendingPreserved DEF SessionInv
    <2> QED
      BY <2>1, <2>2
  <1> QED
    BY <1>1, <1>2, PTL DEF SessionSpec

\* What a client may rely on while its lease is valid (issue_lease, the budget key and
\* the fs_root entry): the key and the root are there and the key will expire, what
\* was debited for direct and approved calls stays within what was asked for, and direct
\* calls run in the root.
THEOREM SessionIsSafe == SessionSpec => []SessionSafe
  <1>1. SessionInv => SessionSafe
    <2> SUFFICES ASSUME SessionInv PROVE SessionSafe
      OBVIOUS
    <2>1. SessionTypeOK
      BY DEF SessionInv, SessionParts, SessionTypes, SessionTypeOK, Kinds
    <2>2. StateOutlivesLease
      BY ValidLease DEF SessionInv, StateOutlivesLease
    <2>3. EternalKeysAreUnusable
      <3> SUFFICES ASSUME NEW s \in Sessions, budget[s].there, budget[s].expires = NoExpiry,
                          LeaseValid(s)
                   PROVE  FALSE
        BY DEF EternalKeysAreUnusable
      <3>1. lease[s].wish = NoBudget
        BY ValidLease DEF SessionInv
      <3>2. budget[s] = NoKey
        BY <3>1 DEF SessionInv, SessionParts, SetupOK
      <3> QED
        BY <3>2 DEF NoKey
    <2>4. CallsWithinWish
      <3> SUFFICES ASSUME NEW s \in Sessions, lease[s].wish \in Nat
                   PROVE  made[s] <= lease[s].wish
        BY DEF CallsWithinWish
      <3>1. CallsOK(s) /\ budget[s].calls \in Int /\ made[s] \in Nat
        BY SessionFields DEF SessionInv, SessionParts
      <3> QED
        BY <3>1 DEF CallsOK
    <2>5. DirectCallsInSessionRoot
      BY DEF SessionInv, SessionParts, LivesOK, DirectCallsInSessionRoot
    <2> QED
      BY <2>1, <2>2, <2>3, <2>4, <2>5 DEF SessionSafe
  <1> QED
    BY <1>1, SessionInvariant, PTL

--------------------------------------------------------------------------------
(***************************************************************************)
(* Why a change of the learned rows takes effect at once, for every number *)
(* of actions, domains and requests.  The snapshot differs from the table  *)
(* only by rows whose change has not been answered; a read that began      *)
(* counts those as open, and the changes that come while it lasts too.     *)
(***************************************************************************)

LearnedTypes ==
    /\ table \subseteq Rows
    /\ snapshot \in [held : BOOLEAN, fresh : BOOLEAN, rows : SUBSET Rows]
    /\ task \in [Tasks -> Task]
    /\ maybe \in [Tasks -> SUBSET Rows] /\ sure \in [Tasks -> SUBSET Rows]

\* The snapshot is the table, but for what is being changed.
SnapshotInv ==
    /\ ~snapshot.held => snapshot.rows = {}
    /\ snapshot.held => snapshot.rows \subseteq table \cup Unsettled
                        /\ table \subseteq snapshot.rows \cup Unsettled

\* What a read may and should find is what it would find now.
ReadInv(t) ==
    Reading(t) => /\ table \subseteq maybe[t] /\ snapshot.rows \subseteq maybe[t]
                  /\ sure[t] \subseteq table
                  /\ snapshot.held => sure[t] \subseteq snapshot.rows

ChangeInv(t) == task[t].at \in {"change", "invalidate"} => task[t].op # "call"

ResolvedInv(t) ==
    Resolved(t) =>
        /\ task[t].sinks \subseteq EffectiveSinks(task[t].action, maybe[t])
        /\ \/ EffectiveSinks(task[t].action, sure[t]) \subseteq task[t].sinks
           \/ task[t].sinks = EffectiveSinks(task[t].action, {})

LearnedInv ==
    /\ LearnedTypes
    /\ SnapshotInv
    /\ \A t \in Tasks : ReadInv(t) /\ ChangeInv(t) /\ ResolvedInv(t)

--------------------------------------------------------------------------------
(* Tasks as records, and the rows of changes not yet answered.                 *)

LEMMA TaskFields ==
    ASSUME NEW x \in Task
    PROVE  /\ x.op \in {"none", "call", "approve", "add", "remove", "clear"}
           /\ x.at \in {"idle", "change", "invalidate", "list", "write", "read", "fill",
                        "reread", "done"}
           /\ x.action \in Actions /\ x.domain \in Domains /\ x.changed \subseteq Rows
           /\ x.listed \subseteq Domains /\ x.sinks \subseteq Domains
  BY DEF Task

LEMMA AnyDomainIsOne == AnyDomain \in Domains
  BY LearnedAssumption DEF AnyDomain

LEMMA SnapshotFields ==
    ASSUME snapshot \in [held : BOOLEAN, fresh : BOOLEAN, rows : SUBSET Rows]
    PROVE  snapshot.held \in BOOLEAN /\ snapshot.fresh \in BOOLEAN /\ snapshot.rows \subseteq Rows
  OBVIOUS

LEMMA UnsettledRows ==
    ASSUME NEW row
    PROVE  row \in Unsettled <=> \E u \in Tasks : task[u].at = "invalidate" /\ row \in task[u].changed
  BY DEF Unsettled

LEMMA UnsettledRowsNext ==
    ASSUME NEW row
    PROVE  row \in Unsettled' <=>
              \E u \in Tasks : task'[u].at = "invalidate" /\ row \in task'[u].changed
  BY DEF Unsettled

LEMMA UnsettledAreRows ==
    ASSUME LearnedTypes
    PROVE  Unsettled \subseteq Rows
  BY UnsettledRows, TaskFields DEF LearnedTypes

\* More rows, more sinks.
LEMMA SinksGrow ==
    ASSUME NEW a, NEW R, NEW S, R \subseteq S
    PROVE  EffectiveSinks(a, R) \subseteq EffectiveSinks(a, S)
  BY DEF EffectiveSinks, Of

\* What a call may reach is among the domains.
LEMMA SinksAreDomains ==
    ASSUME NEW a, NEW R
    PROVE  EffectiveSinks(a, R) \subseteq Domains
  BY LearnedAssumption DEF EffectiveSinks

--------------------------------------------------------------------------------
(* The steps of one request.                                                   *)

\* A step that leaves the table and the snapshot alone and neither makes nor
\* answers a change: the request's own part is all there is.
LEMMA OwnStep ==
    ASSUME LearnedInv, NEW t \in Tasks, NEW x \in Task, task' = [task EXCEPT ![t] = x],
           task[t].at # "invalidate", x.at # "invalidate",
           table' = table, snapshot' = snapshot,
           maybe' \in [Tasks -> SUBSET Rows], sure' \in [Tasks -> SUBSET Rows],
           \A u \in Tasks : u # t => maybe'[u] = maybe[u] /\ sure'[u] = sure[u],
           ReadInv(t)', ChangeInv(t)', ResolvedInv(t)'
    PROVE  LearnedInv'
  <1>1. LearnedTypes /\ SnapshotInv
    BY DEF LearnedInv
  <1>2. task' \in [Tasks -> Task] /\ task'[t] = x /\ \A u \in Tasks : u # t => task'[u] = task[u]
    BY <1>1 DEF LearnedTypes
  <1>3. Unsettled' = Unsettled
    <2>1. \A u \in Tasks : (task'[u].at = "invalidate" <=> task[u].at = "invalidate")
                           /\ (task[u].at = "invalidate" => task'[u] = task[u])
      BY <1>2
    <2>2. ASSUME NEW row PROVE row \in Unsettled' <=> row \in Unsettled
      BY <2>1, UnsettledRows, UnsettledRowsNext
    <2> QED
      BY <2>2
  <1>4. LearnedTypes' /\ SnapshotInv'
    BY <1>1, <1>2, <1>3 DEF LearnedTypes, SnapshotInv
  <1>5. ASSUME NEW u \in Tasks, u # t PROVE ReadInv(u)' /\ ChangeInv(u)' /\ ResolvedInv(u)'
    <2>1. task'[u] = task[u] /\ maybe'[u] = maybe[u] /\ sure'[u] = sure[u]
          /\ ReadInv(u) /\ ChangeInv(u) /\ ResolvedInv(u)
      BY <1>2, <1>5 DEF LearnedInv
    <2>2. ReadInv(u)'
      BY <2>1 DEF ReadInv, Reading
    <2> QED
      BY <2>1, <2>2 DEF ChangeInv, ResolvedInv, Resolved
  <1> QED
    BY <1>4, <1>5 DEF LearnedInv

\* A read begins with the table and what is open.
LEMMA ReadBegins ==
    ASSUME LearnedInv, NEW t \in Tasks, BeginRead(t), table' = table, snapshot' = snapshot
    PROVE  /\ maybe' \in [Tasks -> SUBSET Rows] /\ sure' \in [Tasks -> SUBSET Rows]
           /\ \A u \in Tasks : u # t => maybe'[u] = maybe[u] /\ sure'[u] = sure[u]
           /\ ReadInv(t)'
  <1>1. LearnedTypes /\ SnapshotInv /\ Unsettled \subseteq Rows
    BY UnsettledAreRows DEF LearnedInv
  <1> DEFINE m == table \cup Unsettled
             s == table \ Unsettled
  <1>2. maybe' = [maybe EXCEPT ![t] = m] /\ sure' = [sure EXCEPT ![t] = s]
    BY DEF BeginRead
  <1>3. m \in SUBSET Rows /\ s \in SUBSET Rows
    BY <1>1 DEF LearnedTypes
  <1>4. /\ table \subseteq m /\ snapshot.rows \subseteq m /\ s \subseteq table
        /\ snapshot.held => s \subseteq snapshot.rows
    BY <1>1, SnapshotFields DEF SnapshotInv, LearnedTypes
  <1> HIDE DEF m, s
  <1>5. /\ maybe' \in [Tasks -> SUBSET Rows] /\ sure' \in [Tasks -> SUBSET Rows]
        /\ \A u \in Tasks : u # t => maybe'[u] = maybe[u] /\ sure'[u] = sure[u]
        /\ maybe'[t] = m /\ sure'[t] = s
    BY <1>1, <1>2, <1>3 DEF LearnedTypes
  <1> QED
    BY <1>4, <1>5 DEF ReadInv

LEMMA BeginKeeps ==
    ASSUME LearnedInv, NEW t \in Tasks, NEW a \in Actions, NEW d \in Domains,
           NEW op \in {"call", "approve", "add", "remove", "clear"}, Begin(t, op, a, d)
    PROVE  LearnedInv'
  <1> DEFINE at == IF op = "call" THEN "read" ELSE "change"
             x == [op |-> op, action |-> a, domain |-> d, at |-> at,
                   changed |-> {}, listed |-> {}, sinks |-> {}]
  <1>1. LearnedTypes /\ task[t].at # "invalidate" /\ task' = [task EXCEPT ![t] = x]
        /\ table' = table /\ snapshot' = snapshot
    BY DEF LearnedInv, Begin
  <1>2. x \in Task /\ x.op = op /\ x.at = at
    BY DEF Task
  <1>3. at \in {"read", "change"} /\ (op = "call" <=> at = "read")
    OBVIOUS
  <1> HIDE DEF x, at
  <1>4. task'[t] = x
    BY <1>1 DEF LearnedTypes
  <1>5. ChangeInv(t)' /\ ResolvedInv(t)'
    BY <1>2, <1>3, <1>4 DEF ChangeInv, ResolvedInv, Resolved
  <1>6. /\ maybe' \in [Tasks -> SUBSET Rows] /\ sure' \in [Tasks -> SUBSET Rows]
        /\ \A u \in Tasks : u # t => maybe'[u] = maybe[u] /\ sure'[u] = sure[u]
        /\ ReadInv(t)'
    <2>1. CASE op = "call"
      <3>1. BeginRead(t)
        BY <2>1 DEF Begin
      <3> QED
        BY <1>1, <3>1, ReadBegins
    <2>2. CASE op # "call"
      <3>1. maybe' = [maybe EXCEPT ![t] = {}] /\ sure' = [sure EXCEPT ![t] = {}]
        BY <2>2 DEF Begin
      <3>2. ReadInv(t)'
        BY <1>2, <1>3, <1>4, <2>2 DEF ReadInv, Reading
      <3> QED
        BY <1>1, <3>1, <3>2 DEF LearnedTypes
    <2> QED
      BY <2>1, <2>2
  <1> QED
    BY <1>1, <1>2, <1>3, <1>5, <1>6, OwnStep

\* A request that changes no row.
LEMMA UnchangedKeeps ==
    ASSUME LearnedInv, NEW t \in Tasks, NEW learned \in BOOLEAN, task[t].at = "change",
           Unchanged(t, learned)
    PROVE  LearnedInv'
  <1> DEFINE at == AfterChange(t, learned)
             x == [task[t] EXCEPT !.at = at]
  <1>1. LearnedTypes /\ task[t] \in Task /\ task[t].op # "call" /\ table' = table
        /\ snapshot' = snapshot
    BY DEF LearnedInv, LearnedTypes, ChangeInv, Unchanged
  <1>2. /\ at \in {"done", "list", "read"}
        /\ at = "done" => task[t].op # "approve"
    BY DEF AfterChange
  <1>3. task' = [task EXCEPT ![t] = x]
    BY <1>1 DEF Unchanged, LearnedTypes
  <1>4. IF at = "read" THEN BeginRead(t) ELSE UNCHANGED <<maybe, sure>>
    BY DEF Unchanged
  <1> HIDE DEF at
  <1>5. x \in Task /\ x.at = at /\ x.op = task[t].op
    BY <1>1, <1>2 DEF Task
  <1> HIDE DEF x
  <1>6. task'[t] = x
    BY <1>1, <1>3 DEF LearnedTypes
  <1>7. ChangeInv(t)' /\ ResolvedInv(t)'
    BY <1>1, <1>2, <1>5, <1>6 DEF ChangeInv, ResolvedInv, Resolved
  <1>8. /\ maybe' \in [Tasks -> SUBSET Rows] /\ sure' \in [Tasks -> SUBSET Rows]
        /\ \A u \in Tasks : u # t => maybe'[u] = maybe[u] /\ sure'[u] = sure[u]
        /\ ReadInv(t)'
    <2>1. CASE at = "read"
      BY <1>1, <1>4, <2>1, ReadBegins
    <2>2. CASE at # "read"
      <3>1. ReadInv(t)'
        BY <1>2, <1>5, <1>6, <2>2 DEF ReadInv, Reading
      <3> QED
        BY <1>1, <1>4, <2>2, <3>1 DEF LearnedTypes
    <2> QED
      BY <2>1, <2>2
  <1>9. task[t].at # "invalidate" /\ x.at # "invalidate"
    BY <1>2, <1>5
  <1> QED
    BY <1>1, <1>3, <1>5, <1>7, <1>8, <1>9, OwnStep

\* A request that changes rows: they are open until it is answered, and the reads
\* under way learn of them.
LEMMA ChangedKeeps ==
    ASSUME LearnedInv, NEW t \in Tasks, NEW rows \in SUBSET Rows, task[t].at = "change",
           Changed(t, rows)
    PROVE  LearnedInv'
  <1> DEFINE diff == (rows \ table) \cup (table \ rows)
             x == [task[t] EXCEPT !.at = "invalidate", !.changed = diff]
  <1>1. LearnedTypes /\ SnapshotInv /\ task[t] \in Task /\ task[t].op # "call" /\ table' = rows
        /\ snapshot' = snapshot /\ Witness(rows)
    BY DEF LearnedInv, LearnedTypes, ChangeInv, Changed
  <1>2. task' = [task EXCEPT ![t] = x]
    BY <1>1 DEF Changed, LearnedTypes
  <1>3. /\ diff \in SUBSET Rows /\ table \subseteq rows \cup diff /\ rows \subseteq table \cup diff
    BY <1>1 DEF LearnedTypes
  <1> HIDE DEF diff
  <1>4. x \in Task /\ x.at = "invalidate" /\ x.changed = diff /\ x.op = task[t].op
    BY <1>1, <1>3 DEF Task
  <1> HIDE DEF x
  <1>5. task' \in [Tasks -> Task] /\ task'[t] = x /\ \A u \in Tasks : u # t => task'[u] = task[u]
    BY <1>1, <1>2, <1>4 DEF LearnedTypes
  <1>6. Unsettled \subseteq Unsettled' /\ diff \subseteq Unsettled'
    <2>1. ASSUME NEW row \in Unsettled PROVE row \in Unsettled'
      <3>1. PICK u \in Tasks : task[u].at = "invalidate" /\ row \in task[u].changed
        BY UnsettledRows
      <3>2. task'[u] = task[u]
        BY <1>5, <3>1
      <3> QED
        BY <3>1, <3>2, UnsettledRowsNext
    <2>2. ASSUME NEW row \in diff PROVE row \in Unsettled'
      BY <1>4, <1>5, UnsettledRowsNext
    <2> QED
      BY <2>1, <2>2
  <1>7. SnapshotInv'
    <2> DEFINE V == Unsettled'
               U == Unsettled
    <2>1. U \subseteq V /\ diff \subseteq V
      BY <1>6
    <2>2. snapshot.held => snapshot.rows \subseteq table \cup U /\ table \subseteq snapshot.rows \cup U
      BY <1>1 DEF SnapshotInv
    <2> HIDE DEF U, V
    <2>3. snapshot.held => snapshot.rows \subseteq rows \cup V /\ rows \subseteq snapshot.rows \cup V
      BY <1>3, <2>1, <2>2
    <2> QED
      BY <1>1, <2>3 DEF SnapshotInv, V
  <1>8. /\ maybe' = [u \in Tasks |-> IF Reading(u) THEN maybe[u] \cup rows ELSE maybe[u]]
        /\ sure' = [u \in Tasks |-> IF Reading(u) THEN sure[u] \cap rows ELSE sure[u]]
    BY <1>1 DEF Witness
  <1>9. maybe' \in [Tasks -> SUBSET Rows] /\ sure' \in [Tasks -> SUBSET Rows]
    BY <1>1, <1>8 DEF LearnedTypes
  <1>10. LearnedTypes'
    BY <1>1, <1>5, <1>9 DEF LearnedTypes
  <1>11. ASSUME NEW u \in Tasks PROVE ReadInv(u)' /\ ChangeInv(u)' /\ ResolvedInv(u)'
    <2>1. CASE u = t
      BY <1>1, <1>4, <1>5, <2>1 DEF ReadInv, Reading, ChangeInv, ResolvedInv, Resolved
    <2>2. CASE u # t
      <3>1. task'[u] = task[u] /\ ReadInv(u) /\ ChangeInv(u) /\ ResolvedInv(u)
        BY <1>5, <2>2 DEF LearnedInv
      <3>2. ChangeInv(u)'
        BY <3>1 DEF ChangeInv
      <3>3. CASE Reading(u)
        <4>1. maybe'[u] = maybe[u] \cup rows /\ sure'[u] = sure[u] \cap rows
          BY <1>8, <3>3
        <4>2. ReadInv(u)'
          BY <1>1, <3>1, <3>3, <4>1 DEF ReadInv
        <4>3. ResolvedInv(u)'
          BY <3>1, <3>3 DEF Reading, ResolvedInv, Resolved
        <4> QED
          BY <3>2, <4>2, <4>3
      <3>4. CASE ~Reading(u)
        <4>1. maybe'[u] = maybe[u] /\ sure'[u] = sure[u] /\ ~Reading(u)'
          BY <1>8, <3>1, <3>4 DEF Reading
        <4> QED
          BY <3>1, <3>2, <4>1 DEF ReadInv, ResolvedInv, Resolved
      <3> QED
        BY <3>3, <3>4
    <2> QED
      BY <2>1, <2>2
  <1> QED
    BY <1>7, <1>10, <1>11 DEF LearnedInv

LEMMA InsertRowKeeps ==
    ASSUME LearnedInv, NEW t \in Tasks, InsertRow(t)
    PROVE  LearnedInv'
  <1> DEFINE row == <<task[t].action, task[t].domain>>
  <1>1. task[t].at = "change" /\ table \subseteq Rows /\ task[t] \in Task
    BY DEF LearnedInv, LearnedTypes, InsertRow
  <1>2. row \in Rows
    BY <1>1, TaskFields DEF Rows
  <1> HIDE DEF row
  <1>3. table \cup {row} \in SUBSET Rows
    BY <1>1, <1>2
  <1>4. \/ Unchanged(t, FALSE) \/ Unchanged(t, TRUE) \/ Changed(t, table \cup {row})
    BY DEF InsertRow, row
  <1> QED
    BY <1>1, <1>3, <1>4, UnchangedKeeps, ChangedKeeps

LEMMA DeleteRowsKeeps ==
    ASSUME LearnedInv, NEW t \in Tasks, DeleteRows(t)
    PROVE  LearnedInv'
  <1> DEFINE rows == IF task[t].op = "clear" THEN {r \in table : r[1] = task[t].action}
                     ELSE {<<task[t].action, task[t].domain>>} \cap table
  <1>1. task[t].at = "change" /\ table \subseteq Rows
    BY DEF LearnedInv, LearnedTypes, DeleteRows
  <1>2. Unchanged(t, FALSE) \/ Changed(t, table \ rows)
    BY DEF DeleteRows
  <1> HIDE DEF rows
  <1>3. table \ rows \in SUBSET Rows
    BY <1>1
  <1> QED
    BY <1>1, <1>2, <1>3, UnchangedKeeps, ChangedKeeps

\* The answer to a change comes after the snapshot is gone.
LEMMA InvalidateKeeps ==
    ASSUME LearnedInv, NEW t \in Tasks, InvalidateCache(t)
    PROVE  LearnedInv'
  <1> DEFINE at == AfterChange(t, TRUE)
             x == [task[t] EXCEPT !.at = at, !.changed = {}]
  <1>1. LearnedTypes /\ task[t] \in Task /\ task[t].op # "call" /\ snapshot' = NoSnapshot
        /\ UNCHANGED <<table, maybe, sure>>
    BY DEF LearnedInv, LearnedTypes, ChangeInv, InvalidateCache
  <1>2. at \in {"done", "list"} /\ (at = "done" => task[t].op # "approve")
    BY DEF AfterChange
  <1>3. task' = [task EXCEPT ![t] = x]
    BY <1>1 DEF InvalidateCache, LearnedTypes
  <1> HIDE DEF at
  <1>4. x \in Task /\ x.at = at /\ x.op = task[t].op
    BY <1>1, <1>2 DEF Task
  <1> HIDE DEF x
  <1>5. task' \in [Tasks -> Task] /\ task'[t] = x /\ \A u \in Tasks : u # t => task'[u] = task[u]
    BY <1>1, <1>3, <1>4 DEF LearnedTypes
  <1>6. /\ snapshot' \in [held : BOOLEAN, fresh : BOOLEAN, rows : SUBSET Rows]
        /\ snapshot'.held = FALSE /\ snapshot'.rows = {}
    BY <1>1 DEF NoSnapshot
  <1>7. LearnedTypes' /\ SnapshotInv'
    BY <1>1, <1>5, <1>6 DEF LearnedTypes, SnapshotInv
  <1>8. ASSUME NEW u \in Tasks PROVE ReadInv(u)' /\ ChangeInv(u)' /\ ResolvedInv(u)'
    <2>1. CASE u = t
      BY <1>1, <1>2, <1>4, <1>5, <2>1 DEF ReadInv, Reading, ChangeInv, ResolvedInv, Resolved
    <2>2. CASE u # t
      <3>1. task'[u] = task[u] /\ maybe'[u] = maybe[u] /\ sure'[u] = sure[u] /\ table' = table
            /\ ReadInv(u) /\ ChangeInv(u) /\ ResolvedInv(u)
        BY <1>1, <1>5, <2>2 DEF LearnedInv
      <3>2. ReadInv(u)'
        BY <1>6, <3>1 DEF ReadInv, Reading
      <3> QED
        BY <3>1, <3>2 DEF ChangeInv, ResolvedInv, Resolved
    <2> QED
      BY <2>1, <2>2
  <1> QED
    BY <1>7, <1>8 DEF LearnedInv

--------------------------------------------------------------------------------
(* The proxy's file, and what a call reads.                                    *)

LEMMA ListForSyncKeeps ==
    ASSUME LearnedInv, NEW t \in Tasks, ListForSync(t)
    PROVE  LearnedInv'
  <1> DEFINE l == Runtime \cap UNION {Manifest[a] \cup Of(table, a) : a \in Actions}
             x == [task[t] EXCEPT !.at = "write", !.listed = l]
  <1>1. LearnedTypes /\ task[t] \in Task /\ task[t].at = "list"
        /\ UNCHANGED <<table, snapshot, maybe, sure>>
    BY DEF LearnedInv, LearnedTypes, ListForSync
  <1>2. task' = [task EXCEPT ![t] = x]
    BY <1>1 DEF ListForSync, LearnedTypes
  <1>3. l \in SUBSET Domains
    BY LearnedAssumption
  <1> HIDE DEF l
  <1>4. x \in Task /\ x.at = "write"
    BY <1>1, <1>3 DEF Task
  <1> HIDE DEF x
  <1>5. task'[t] = x
    BY <1>1, <1>2 DEF LearnedTypes
  <1>6. ReadInv(t)' /\ ChangeInv(t)' /\ ResolvedInv(t)'
    BY <1>4, <1>5 DEF ReadInv, Reading, ChangeInv, ResolvedInv, Resolved
  <1> QED
    BY <1>1, <1>2, <1>4, <1>6, OwnStep DEF LearnedTypes

\* An approval goes on to execute, whatever became of the file.
LEMMA SyncedKeeps ==
    ASSUME LearnedInv, NEW t \in Tasks, task[t].at \in {"list", "write"},
           task' = [task EXCEPT ![t].at = "read", ![t].listed = {}], BeginRead(t),
           UNCHANGED <<table, snapshot>>
    PROVE  LearnedInv'
  <1> DEFINE x == [task[t] EXCEPT !.at = "read", !.listed = {}]
  <1>1. LearnedTypes /\ task[t] \in Task
    BY DEF LearnedInv, LearnedTypes
  <1>2. task' = [task EXCEPT ![t] = x]
    BY <1>1 DEF LearnedTypes
  <1>3. x \in Task /\ x.at = "read"
    BY <1>1 DEF Task
  <1> HIDE DEF x
  <1>4. task'[t] = x
    BY <1>1, <1>2 DEF LearnedTypes
  <1>5. ChangeInv(t)' /\ ResolvedInv(t)'
    BY <1>3, <1>4 DEF ChangeInv, ResolvedInv, Resolved
  <1>6. /\ maybe' \in [Tasks -> SUBSET Rows] /\ sure' \in [Tasks -> SUBSET Rows]
        /\ \A u \in Tasks : u # t => maybe'[u] = maybe[u] /\ sure'[u] = sure[u]
        /\ ReadInv(t)'
    BY ReadBegins
  <1> QED
    BY <1>2, <1>3, <1>5, <1>6, OwnStep

\* A read ends with rows it may return, and with all it should or none.
LEMMA FinishKeeps ==
    ASSUME LearnedInv, NEW t \in Tasks, NEW rows \in SUBSET Rows, Finish(t, rows), Reading(t),
           rows \subseteq maybe[t], NEW s \in SUBSET Rows, s \subseteq rows \/ rows = {},
           sure' = [sure EXCEPT ![t] = s], UNCHANGED <<table, snapshot, maybe>>
    PROVE  LearnedInv'
  <1> DEFINE sinks == EffectiveSinks(task[t].action, rows)
             x == [task[t] EXCEPT !.at = "done", !.sinks = sinks]
  <1>1. LearnedTypes /\ task[t] \in Task /\ task[t].at # "invalidate"
    BY DEF LearnedInv, LearnedTypes, Reading
  <1>2. task' = [task EXCEPT ![t] = x]
    BY <1>1 DEF Finish, LearnedTypes
  <1>3. sinks \in SUBSET Domains
    BY SinksAreDomains
  <1>4. /\ sinks \subseteq EffectiveSinks(task[t].action, maybe[t])
        /\ \/ EffectiveSinks(task[t].action, s) \subseteq sinks
           \/ sinks = EffectiveSinks(task[t].action, {})
    BY SinksGrow
  <1> HIDE DEF sinks
  <1>5. x \in Task /\ x.at = "done" /\ x.sinks = sinks /\ x.action = task[t].action
    BY <1>1, <1>3 DEF Task
  <1> HIDE DEF x
  <1>6. /\ task'[t] = x /\ sure'[t] = s /\ maybe'[t] = maybe[t]
        /\ maybe' \in [Tasks -> SUBSET Rows] /\ sure' \in [Tasks -> SUBSET Rows]
        /\ \A u \in Tasks : u # t => maybe'[u] = maybe[u] /\ sure'[u] = sure[u]
    BY <1>1, <1>2 DEF LearnedTypes
  <1>7. ReadInv(t)' /\ ChangeInv(t)'
    BY <1>5, <1>6 DEF ReadInv, Reading, ChangeInv
  <1>8. ResolvedInv(t)'
    BY <1>4, <1>5, <1>6 DEF ResolvedInv
  <1> QED
    BY <1>1, <1>2, <1>5, <1>6, <1>7, <1>8, OwnStep

\* A read that goes on.
LEMMA LookAgainKeeps ==
    ASSUME LearnedInv, NEW t \in Tasks, Reading(t), NEW at \in {"fill", "reread"},
           task' = [task EXCEPT ![t].at = at], UNCHANGED <<table, snapshot, maybe, sure>>
    PROVE  LearnedInv'
  <1> DEFINE x == [task[t] EXCEPT !.at = at]
  <1>1. LearnedTypes /\ task[t] \in Task /\ task[t].at # "invalidate" /\ ReadInv(t)
    BY DEF LearnedInv, LearnedTypes, Reading
  <1>2. task' = [task EXCEPT ![t] = x]
    BY <1>1 DEF LearnedTypes
  <1>3. x \in Task /\ x.at = at
    BY <1>1 DEF Task
  <1> HIDE DEF x
  <1>4. task'[t] = x
    BY <1>1, <1>2 DEF LearnedTypes
  <1>5. ReadInv(t)' /\ ChangeInv(t)' /\ ResolvedInv(t)'
    BY <1>1, <1>3, <1>4 DEF ReadInv, ChangeInv, ResolvedInv, Resolved
  <1> QED
    BY <1>1, <1>2, <1>3, <1>5, OwnStep DEF LearnedTypes

LEMMA ReadSnapshotKeeps ==
    ASSUME LearnedInv, NEW t \in Tasks, ReadSnapshot(t)
    PROVE  LearnedInv'
  <1>1. LearnedTypes /\ Reading(t) /\ ReadInv(t) /\ snapshot.rows \in SUBSET Rows
        /\ UNCHANGED <<table, snapshot, maybe, sure>>
    BY SnapshotFields DEF LearnedInv, LearnedTypes, ReadSnapshot, Reading
  <1>2. CASE snapshot.held /\ snapshot.fresh
    <2>1. Finish(t, snapshot.rows)
      BY <1>2 DEF ReadSnapshot
    <2>2. snapshot.rows \subseteq maybe[t] /\ sure[t] \subseteq snapshot.rows
      BY <1>1, <1>2 DEF ReadInv
    <2>3. sure[t] \in SUBSET Rows /\ sure' = [sure EXCEPT ![t] = sure[t]]
      BY <1>1 DEF LearnedTypes
    <2> QED
      BY <1>1, <2>1, <2>2, <2>3, FinishKeeps
  <1>3. CASE ~(snapshot.held /\ snapshot.fresh)
    <2>1. task' = [task EXCEPT ![t].at = "fill"]
      BY <1>3 DEF ReadSnapshot
    <2> QED
      BY <1>1, <2>1, LookAgainKeeps
  <1> QED
    BY <1>2, <1>3

\* The snapshot is filled from the table, which every read under way allows for.
LEMMA SnapshotFilled ==
    ASSUME LearnedInv, snapshot' = SnapshotOf(table), UNCHANGED <<table, maybe, sure>>,
           NEW t \in Tasks, Reading(t), task' = [task EXCEPT ![t].at = "reread"]
    PROVE  LearnedInv'
  <1> DEFINE x == [task[t] EXCEPT !.at = "reread"]
  <1>1. LearnedTypes /\ task[t] \in Task /\ task[t].at # "invalidate" /\ ReadInv(t)
    BY DEF LearnedInv, LearnedTypes, Reading
  <1>2. task' = [task EXCEPT ![t] = x]
    BY <1>1 DEF LearnedTypes
  <1>3. x \in Task /\ x.at = "reread"
    BY <1>1 DEF Task
  <1> HIDE DEF x
  <1>4. task' \in [Tasks -> Task] /\ task'[t] = x /\ \A u \in Tasks : u # t => task'[u] = task[u]
    BY <1>1, <1>2, <1>3 DEF LearnedTypes
  <1>5. /\ snapshot' \in [held : BOOLEAN, fresh : BOOLEAN, rows : SUBSET Rows]
        /\ snapshot'.held = TRUE /\ snapshot'.rows = table
    BY <1>1 DEF SnapshotOf, LearnedTypes
  <1>6. LearnedTypes' /\ SnapshotInv'
    BY <1>1, <1>4, <1>5 DEF LearnedTypes, SnapshotInv
  <1>7. ASSUME NEW u \in Tasks PROVE ReadInv(u)' /\ ChangeInv(u)' /\ ResolvedInv(u)'
    <2>1. CASE u = t
      BY <1>1, <1>3, <1>4, <1>5, <2>1 DEF ReadInv, ChangeInv, ResolvedInv, Resolved
    <2>2. CASE u # t
      <3>1. task'[u] = task[u] /\ ReadInv(u) /\ ChangeInv(u) /\ ResolvedInv(u)
        BY <1>4, <2>2 DEF LearnedInv
      <3>2. ReadInv(u)'
        BY <1>5, <3>1 DEF ReadInv, Reading
      <3> QED
        BY <3>1, <3>2 DEF ChangeInv, ResolvedInv, Resolved
    <2> QED
      BY <2>1, <2>2
  <1> QED
    BY <1>6, <1>7 DEF LearnedInv

LEMMA PopulateKeeps ==
    ASSUME LearnedInv, NEW t \in Tasks, PopulateCache(t)
    PROVE  LearnedInv'
  <1>1. Reading(t) /\ task' = [task EXCEPT ![t].at = "reread"] /\ UNCHANGED <<table, maybe, sure>>
        /\ (snapshot' = snapshot \/ snapshot' = SnapshotOf(table))
    BY DEF PopulateCache, Reading
  <1> QED
    BY <1>1, LookAgainKeeps, SnapshotFilled

LEMMA PopulateFailsKeeps ==
    ASSUME LearnedInv, NEW t \in Tasks, PopulateFails(t)
    PROVE  LearnedInv'
  <1>1. /\ Reading(t) /\ Finish(t, {}) /\ sure' = [sure EXCEPT ![t] = {}]
        /\ UNCHANGED <<table, snapshot, maybe>>
    BY DEF PopulateFails, Reading
  <1>2. {} \in SUBSET Rows /\ {} \subseteq maybe[t]
    OBVIOUS
  <1> QED
    BY <1>1, <1>2, FinishKeeps

LEMMA RereadKeeps ==
    ASSUME LearnedInv, NEW t \in Tasks, Reread(t)
    PROVE  LearnedInv'
  <1>1. LearnedTypes /\ Reading(t) /\ ReadInv(t) /\ SnapshotInv /\ snapshot.rows \in SUBSET Rows
        /\ UNCHANGED <<table, snapshot, maybe, sure>> /\ Finish(t, snapshot.rows)
    BY SnapshotFields DEF LearnedInv, LearnedTypes, Reread, Reading
  <1>2. snapshot.rows \subseteq maybe[t] /\ (sure[t] \subseteq snapshot.rows \/ snapshot.rows = {})
    BY <1>1 DEF ReadInv, SnapshotInv
  <1>3. sure[t] \in SUBSET Rows /\ sure' = [sure EXCEPT ![t] = sure[t]]
    BY <1>1 DEF LearnedTypes
  <1> QED
    BY <1>1, <1>2, <1>3, FinishKeeps

LEMMA AgesKeeps ==
    ASSUME LearnedInv, SnapshotAges
    PROVE  LearnedInv'
  <1>1. LearnedTypes /\ SnapshotInv /\ UNCHANGED <<table, task, maybe, sure>>
        /\ snapshot' = [snapshot EXCEPT !.fresh = FALSE]
    BY DEF LearnedInv, SnapshotAges
  <1>2. /\ snapshot' \in [held : BOOLEAN, fresh : BOOLEAN, rows : SUBSET Rows]
        /\ snapshot'.held = snapshot.held /\ snapshot'.rows = snapshot.rows
    BY <1>1 DEF LearnedTypes
  <1>3. Unsettled' = Unsettled
    BY <1>1 DEF Unsettled
  <1>4. LearnedTypes' /\ SnapshotInv'
    BY <1>1, <1>2, <1>3 DEF LearnedTypes, SnapshotInv
  <1>5. ASSUME NEW u \in Tasks PROVE ReadInv(u)' /\ ChangeInv(u)' /\ ResolvedInv(u)'
    BY <1>1, <1>2 DEF LearnedInv, ReadInv, Reading, ChangeInv, ResolvedInv, Resolved
  <1> QED
    BY <1>4, <1>5 DEF LearnedInv

--------------------------------------------------------------------------------
(* The invariant, and what it means.                                           *)

\* LearnedInv holds in every reachable state, whichever requests read and change the
\* learned rows at the same time (learned store, egress_sync, resolve).
THEOREM LearnedInvariant == LearnedSpec => []LearnedInv
  <1>1. LearnedInit => LearnedInv
    <2> SUFFICES ASSUME LearnedInit PROVE LearnedInv
      OBVIOUS
    <2>1. /\ table = {} /\ snapshot = NoSnapshot
          /\ task \in [Tasks -> Task] /\ \A t \in Tasks : task[t].at = "idle"
          /\ maybe = [t \in Tasks |-> {}] /\ sure = [t \in Tasks |-> {}]
      BY LearnedAssumption, AnyDomainIsOne DEF LearnedInit, Task
    <2>2. LearnedTypes /\ SnapshotInv
      BY <2>1 DEF LearnedTypes, SnapshotInv, NoSnapshot
    <2>3. ASSUME NEW t \in Tasks PROVE ReadInv(t) /\ ChangeInv(t) /\ ResolvedInv(t)
      BY <2>1 DEF ReadInv, Reading, ChangeInv, ResolvedInv, Resolved
    <2> QED
      BY <2>2, <2>3 DEF LearnedInv
  <1>2. LearnedInv /\ [LearnedNext]_learnedVars => LearnedInv'
    <2> SUFFICES ASSUME LearnedInv, [LearnedNext]_learnedVars PROVE LearnedInv'
      OBVIOUS
    <2>1. ASSUME NEW t \in Tasks, TaskStep(t) PROVE LearnedInv'
      <3>1. CASE WriteAllowfile(t) \/ SyncFails(t)
        BY <3>1, SyncedKeeps DEF WriteAllowfile, SyncFails
      <3> QED
        BY <2>1, <3>1, InsertRowKeeps, DeleteRowsKeeps, InvalidateKeeps, ListForSyncKeeps,
           ReadSnapshotKeeps, PopulateKeeps, PopulateFailsKeeps, RereadKeeps DEF TaskStep
    <2>2. ASSUME NEW t \in Tasks, NEW a \in Actions,
                 Begin(t, "call", a, AnyDomain) \/ Begin(t, "clear", a, AnyDomain)
          PROVE  LearnedInv'
      BY <2>2, AnyDomainIsOne, BeginKeeps
    <2>3. ASSUME NEW t \in Tasks, NEW op \in {"approve", "add", "remove"}, NEW a \in Actions,
                 NEW d \in Domains, Begin(t, op, a, d)
          PROVE  LearnedInv'
      BY <2>3, BeginKeeps
    <2>4. CASE UNCHANGED learnedVars
      <3>1. UNCHANGED <<table, snapshot, task, maybe, sure>>
        BY <2>4 DEF learnedVars
      <3>2. LearnedTypes' /\ SnapshotInv'
        BY <3>1 DEF LearnedInv, LearnedTypes, SnapshotInv, Unsettled
      <3>3. ASSUME NEW u \in Tasks PROVE ReadInv(u)' /\ ChangeInv(u)' /\ ResolvedInv(u)'
        BY <3>1 DEF LearnedInv, ReadInv, Reading, ChangeInv, ResolvedInv, Resolved
      <3> QED
        BY <3>2, <3>3 DEF LearnedInv
    <2> QED
      BY <2>1, <2>2, <2>3, <2>4, AgesKeeps DEF LearnedNext
  <1> QED
    BY <1>1, <1>2, PTL DEF LearnedSpec

\* What an operator may rely on after a change of the learned rows: a call reaches only
\* what was allowed, or not yet answered as removed, while it read; and it finds what
\* was learned before, or nothing learned at all.
THEOREM LearnedRowsTakeEffect == LearnedSpec => []AllowlistSafe
  <1>1. LearnedInv => AllowlistSafe
    BY DEF LearnedInv, ResolvedInv, AllowlistSafe, RemovalTakesEffect, LearningTakesEffect
  <1> QED
    BY <1>1, LearnedInvariant, PTL

--------------------------------------------------------------------------------
(***************************************************************************)
(* Why an evaluation goes by a policy that was in force while it ran, for  *)
(* every number of threads, administrators and restarts, and why requests  *)
(* that do not overlap are atomic.  A generation is given to one document, *)
(* so an engine whose generation is the one just seen has the document     *)
(* just seen.  Alone, a request owns the temporary name from its creation  *)
(* to its rename.                                                          *)
(***************************************************************************)

EditOps == GateOps \cup CliOps

\* What has been given a generation and is still known to somebody.
Engines == {sources, NoEngine} \cup {worker[w].engine : w \in Workers}
                               \cup {worker[w].seen : w \in Workers}

EngineInv ==
    /\ \A x \in Engines : x.generation <= sources.generation
    /\ \A x, y \in Engines : x.generation = y.generation => x.doc = y.doc

WorkerInv(w) ==
    /\ worker[w].at \in {"snapshot", "engine"} => sources.doc \in worker[w].during
    /\ worker[w].at = "engine" => worker[w].seen.doc \in worker[w].during
    /\ worker[w].at = "decided" => worker[w].by \in worker[w].during

\* A file has a name only after its request has created it.
NameInv ==
    /\ name.tmp # name.target
    /\ \A r \in AdminRequests : r \in {name.target, name.tmp} =>
          request[r].at \notin {"idle", "manifests", "read", "create"}

OpInv(r) ==
    /\ request[r].at = "idle" => request[r].op = "none"
    /\ request[r].at # "idle" => request[r].op \in EditOps \cup {"reload"}
    /\ request[r].at \in {"create", "write", "rename"} => request[r].op \in EditOps

\* How far a request is that nobody gets in the way of.
StepInv(r) ==
    /\ request[r].at \in {"create", "write", "rename"} =>
          request[r].doc \in Edits(request[r].op, request[r].entry, wanted)
    /\ request[r].at = "write" => name.tmp = request[r].file /\ bytes[request[r].file] = {}
    /\ request[r].at = "rename" => name.tmp \in Files /\ bytes[name.tmp] = {request[r].doc}
    /\ request[r].at = "load" => request[r].doc = wanted

\* The evaluator has the document, or is about to get it.
LoadedInv ==
    ~behind => sources.doc = wanted \/ \E r \in AdminRequests : request[r].at = "load"

AloneInv ==
    ~overlapped =>
        /\ \A r, s \in AdminRequests : UnderWay(r) /\ UnderWay(s) => r = s
        /\ bytes[name.target] = {wanted}
        /\ \A r \in AdminRequests : StepInv(r)
        /\ LoadedInv

PolicyInv ==
    /\ PolicyTypeOK
    /\ EngineInv
    /\ \A w \in Workers : WorkerInv(w)
    /\ NameInv
    /\ \A r \in AdminRequests : OpInv(r)
    /\ AloneInv

--------------------------------------------------------------------------------
(* Records and documents.                                                      *)

LEMMA RequestFields ==
    ASSUME NEW x \in AdminRequest
    PROVE  /\ x.op \in EditOps \cup {"reload", "none"} /\ x.entry \in Entry
           /\ x.at \in {"idle", "manifests", "read", "create", "write", "rename", "load", "done"}
           /\ x.doc \in Doc /\ x.file \in Files /\ x.did \subseteq {"registry", "policy"}
           /\ x.gone \in BOOLEAN
  BY DEF AdminRequest, EditOps

LEMMA WorkerFields ==
    ASSUME NEW x \in Worker
    PROVE  /\ x.at \in {"idle", "snapshot", "engine", "decided"} /\ x.seen \in Engine
           /\ x.engine \in Engine /\ x.by \in Doc /\ x.during \in SUBSET Doc
  BY DEF Worker

LEMMA EngineFields ==
    ASSUME NEW x \in Engine
    PROVE  x.doc \in Doc /\ x.generation \in Nat
  BY DEF Engine

LEMMA NoEngineIsOne == NoEngine \in Engine /\ NoEngine.doc = {} /\ NoEngine.generation = 0
  BY DEF NoEngine, Engine, Doc

LEMMA AnyEntryIsOne == AnyEntry \in Entry
  <1>1. PICK p \in Principals : TRUE
    BY PolicyAssumption
  <1>2. PICK a \in ActionIds : TRUE
    BY PolicyAssumption
  <1>3. <<"acl", p, a>> \in Entry
    BY <1>1, <1>2 DEF Entry
  <1> QED
    BY <1>3 DEF AnyEntry

\* A change has one outcome or none.
LEMMA EditsAreOne ==
    ASSUME NEW op \in EditOps, NEW e \in Entry, NEW d \in Doc
    PROVE  /\ \A x \in Edits(op, e, d) : x \in Doc
           /\ \A x, y \in Edits(op, e, d) : x = y
  <1>1. \/ Edits(op, e, d) \subseteq {d \cup {e}}
        \/ Edits(op, e, d) \subseteq {d \ {e}}
    BY DEF Edits, EditOps, GateOps, CliOps, GrantActions, RevokeActions, AddAllowlistEntry,
           RemoveAllowlistEntry, RunGrant, RunRevoke
  <1>2. d \cup {e} \in Doc /\ d \ {e} \in Doc
    BY DEF Doc
  <1> QED
    BY <1>1, <1>2

LEMMA WholeHasDoc ==
    ASSUME bytes \in [Files -> SUBSET Doc], NEW f \in Files, Whole(f)
    PROVE  DocIn(f) \in Doc /\ DocIn(f) \in bytes[f]
  <1>1. bytes[f] # {}
    BY FS_EmptySet DEF Whole
  <1>2. DocIn(f) \in bytes[f]
    BY <1>1 DEF DocIn
  <1> QED
    BY <1>2

\* Alone, data.json is the document that is wanted.
LEMMA AloneReads ==
    ASSUME bytes[name.target] = {wanted}
    PROVE  DocIn(name.target) = wanted
  BY DEF DocIn

LEMMA NameFields ==
    ASSUME name \in [target : Files, tmp : Files \cup {NoFile}]
    PROVE  name.target \in Files /\ name.tmp \in Files \cup {NoFile}
  OBVIOUS

--------------------------------------------------------------------------------
(* Steps of administrators.                                                    *)

\* What the engines and the threads rely on is left alone.
LEMMA EvaluatorsKept ==
    ASSUME EngineInv, \A w \in Workers : WorkerInv(w), UNCHANGED <<sources, worker>>
    PROVE  EngineInv' /\ \A w \in Workers : WorkerInv(w)'
  BY DEF EngineInv, Engines, WorkerInv

\* A request under way takes a step: alone, the others have nothing under way.
LEMMA AdminStep ==
    ASSUME PolicyInv, NEW r \in AdminRequests, UnderWay(r), NEW x \in AdminRequest,
           request' = [request EXCEPT ![r] = x], overlapped' = overlapped,
           x.op = request[r].op, x.at # "idle",
           x.at \in {"create", "write", "rename"} => x.op \in EditOps,
           PolicyTypeOK', EngineInv', \A w \in Workers : WorkerInv(w)', NameInv',
           ~overlapped => bytes'[name'.target] = {wanted'} /\ StepInv(r)',
           ~overlapped =>
               \/ behind' \/ sources'.doc = wanted' \/ x.at = "load"
               \/ (behind' = behind /\ sources'.doc = sources.doc /\ wanted' = wanted
                     /\ request[r].at # "load")
    PROVE  PolicyInv'
  <1>1. PolicyTypeOK /\ AloneInv /\ \A q \in AdminRequests : OpInv(q)
    BY DEF PolicyInv
  <1>2. request'[r] = x /\ \A q \in AdminRequests : q # r => request'[q] = request[q]
    BY <1>1 DEF PolicyTypeOK
  <1>3. \A q \in AdminRequests : OpInv(q)'
    BY <1>1, <1>2 DEF OpInv, UnderWay
  <1>4. ASSUME ~overlapped
        PROVE  /\ \A q, s \in AdminRequests : UnderWay(q)' /\ UnderWay(s)' => q = s
               /\ \A q \in AdminRequests : StepInv(q)'
               /\ LoadedInv'
    <2>1. \A q \in AdminRequests : q # r => ~UnderWay(q) /\ ~UnderWay(q)'
      BY <1>1, <1>2, <1>4 DEF AloneInv, UnderWay
    <2>2. ASSUME NEW q \in AdminRequests PROVE StepInv(q)'
      <3>1. CASE q = r
        BY <1>4, <3>1
      <3>2. CASE q # r
        <4>1. request'[q].at \in {"idle", "done"}
          BY <2>1, <3>2 DEF UnderWay
        <4> QED
          BY <4>1 DEF StepInv
      <3> QED
        BY <3>1, <3>2
    <2>3. LoadedInv'
      <3> SUFFICES ASSUME ~behind'
                   PROVE  sources'.doc = wanted' \/ \E q \in AdminRequests : request'[q].at = "load"
        BY DEF LoadedInv
      <3>1. ~behind => sources.doc = wanted \/ \E q \in AdminRequests : request[q].at = "load"
        BY <1>1, <1>4 DEF AloneInv, LoadedInv
      <3>2. ASSUME NEW q \in AdminRequests, request[q].at = "load" PROVE q = r
        BY <2>1, <3>2 DEF UnderWay
      <3> QED
        BY <1>2, <1>4, <3>1, <3>2
    <2> QED
      BY <2>1, <2>2, <2>3
  <1>5. AloneInv'
    BY <1>4 DEF AloneInv
  <1> QED
    BY <1>3, <1>5 DEF PolicyInv

LEMMA AskForKeeps ==
    ASSUME PolicyInv, NEW r \in AdminRequests, NEW op \in EditOps \cup {"reload"},
           NEW e \in Entry, AskFor(r, op, e)
    PROVE  PolicyInv'
  <1> DEFINE at == IF op = "reload" THEN "manifests" ELSE "read"
             x == [request[r] EXCEPT !.op = op, !.entry = e, !.at = at]
  <1>1. PolicyTypeOK /\ AloneInv /\ NameInv /\ request[r] \in AdminRequest
        /\ request[r].at = "idle" /\ (\A q \in AdminRequests : OpInv(q))
        /\ EngineInv /\ (\A w \in Workers : WorkerInv(w)) /\ overlapped' = (overlapped \/ ~Quiet)
        /\ UNCHANGED <<bytes, name, sources, worker, policyRestarts, wanted, behind>>
    BY DEF PolicyInv, PolicyTypeOK, AskFor
  <1>2. request' = [request EXCEPT ![r] = x]
    BY <1>1 DEF AskFor, PolicyTypeOK
  <1>3. at \in {"manifests", "read"}
    OBVIOUS
  <1> HIDE DEF at
  <1>4. x \in AdminRequest /\ x.op = op /\ x.at = at
    BY <1>1, <1>3 DEF AdminRequest, EditOps
  <1> HIDE DEF x
  <1>5. /\ request' \in [AdminRequests -> AdminRequest] /\ request'[r] = x
        /\ \A q \in AdminRequests : q # r => request'[q] = request[q]
    BY <1>1, <1>2, <1>4 DEF PolicyTypeOK
  <1>6. PolicyTypeOK'
    <2>1. overlapped' \in BOOLEAN
      BY <1>1
    <2> QED
      BY <1>1, <1>5, <2>1 DEF PolicyTypeOK
  <1>7. NameInv'
    BY <1>1, <1>5 DEF NameInv
  <1>8. \A q \in AdminRequests : OpInv(q)'
    BY <1>1, <1>3, <1>4, <1>5 DEF OpInv
  <1>9. EngineInv' /\ \A w \in Workers : WorkerInv(w)'
    BY <1>1, EvaluatorsKept
  <1>10. AloneInv'
    <2> SUFFICES ASSUME ~overlapped'
                 PROVE  /\ \A q, s \in AdminRequests : UnderWay(q)' /\ UnderWay(s)' => q = s
                        /\ bytes'[name'.target] = {wanted'}
                        /\ \A q \in AdminRequests : StepInv(q)'
                        /\ LoadedInv'
      BY DEF AloneInv
    <2>1. ~overlapped /\ \A q \in AdminRequests : request[q].at \in {"idle", "done"}
      BY <1>1 DEF Quiet, UnderWay
    <2>2. \A q \in AdminRequests : q # r => request'[q].at \in {"idle", "done"}
      BY <1>5, <2>1
    <2>3. \A q \in AdminRequests : StepInv(q)'
      BY <1>3, <1>4, <1>5, <2>2 DEF StepInv
    <2>4. LoadedInv'
      <3>1. \A q \in AdminRequests : request[q].at # "load"
        BY <2>1
      <3> QED
        BY <1>1, <2>1, <3>1 DEF AloneInv, LoadedInv
    <2> QED
      BY <1>1, <2>1, <2>2, <2>3, <2>4 DEF AloneInv, UnderWay
  <1> QED
    BY <1>6, <1>7, <1>8, <1>9, <1>10 DEF PolicyInv

\* A request that ends, or goes on in a way that touches neither files nor evaluator.
LEMMA OnlyRequest ==
    ASSUME PolicyInv, NEW r \in AdminRequests, UnderWay(r), NEW x \in AdminRequest,
           request' = [request EXCEPT ![r] = x],
           UNCHANGED <<bytes, name, sources, worker, policyRestarts, wanted, behind, overlapped>>,
           x.op = request[r].op, request[r].at # "load", x.at \notin {"idle", "manifests"},
           x.at \in {"read", "create"} => request[r].at \in {"manifests", "read"},
           x.at = "create" => x.op \in EditOps, x.at \notin {"write", "rename"},
           ~overlapped => /\ x.at = "create" => x.doc \in Edits(x.op, x.entry, wanted)
                          /\ x.at = "load" => x.doc = wanted
    PROVE  PolicyInv'
  <1>1. PolicyTypeOK /\ EngineInv /\ (\A w \in Workers : WorkerInv(w)) /\ NameInv /\ AloneInv
    BY DEF PolicyInv
  <1>2. /\ request' \in [AdminRequests -> AdminRequest] /\ request'[r] = x
        /\ \A q \in AdminRequests : q # r => request'[q] = request[q]
    BY <1>1 DEF PolicyTypeOK
  <1>3. PolicyTypeOK'
    BY <1>1, <1>2 DEF PolicyTypeOK
  <1>4. NameInv'
    BY <1>1, <1>2 DEF NameInv
  <1>5. EngineInv' /\ \A w \in Workers : WorkerInv(w)'
    BY <1>1, EvaluatorsKept
  <1>6. ~overlapped => bytes'[name'.target] = {wanted'} /\ StepInv(r)'
    BY <1>1, <1>2 DEF AloneInv, StepInv
  <1> QED
    BY <1>2, <1>3, <1>4, <1>5, <1>6, AdminStep

\* Any request may be over.
LEMMA DoneKeeps ==
    ASSUME PolicyInv, NEW r \in AdminRequests, UnderWay(r), request[r].at # "load",
           request' = [request EXCEPT ![r].at = "done"],
           UNCHANGED <<bytes, name, sources, worker, policyRestarts, wanted, behind, overlapped>>
    PROVE  PolicyInv'
  <1> DEFINE x == [request[r] EXCEPT !.at = "done"]
  <1>1. PolicyTypeOK /\ request[r] \in AdminRequest
    BY DEF PolicyInv, PolicyTypeOK
  <1>2. request' = [request EXCEPT ![r] = x]
    BY <1>1 DEF PolicyTypeOK
  <1>3. x \in AdminRequest /\ x.at = "done" /\ x.op = request[r].op
    BY <1>1 DEF AdminRequest
  <1> HIDE DEF x
  <1> QED
    BY <1>2, <1>3, OnlyRequest

LEMMA ReadDataKeeps ==
    ASSUME PolicyInv, NEW r \in AdminRequests, ReadData(r)
    PROVE  PolicyInv'
  <1> DEFINE new == Edits(request[r].op, request[r].entry, DocIn(name.target))
  <1>1. PolicyTypeOK /\ AloneInv /\ request[r] \in AdminRequest /\ request[r].at = "read"
        /\ request[r].op \in EditOps /\ UnderWay(r) /\ request[r].entry \in Entry
        /\ UNCHANGED <<bytes, name, sources, worker, policyRestarts, wanted, behind, overlapped>>
    BY RequestFields DEF PolicyInv, PolicyTypeOK, OpInv, ReadData, UnderWay
  <1>2. CASE ~Whole(name.target) \/ new = {}
    <2>1. request' = [request EXCEPT ![r].at = "done"]
      BY <1>2 DEF ReadData
    <2> QED
      BY <1>1, <2>1, DoneKeeps
  <1>3. CASE ~(~Whole(name.target) \/ new = {})
    <2>1. PICK doc \in new : request' = [request EXCEPT ![r].at = "create", ![r].doc = doc]
      BY <1>3 DEF ReadData
    <2>2. name.target \in Files /\ DocIn(name.target) \in Doc
      BY <1>1, <1>3, WholeHasDoc, NameFields DEF PolicyTypeOK
    <2>3. doc \in Doc
      BY <1>1, <2>1, <2>2, EditsAreOne
    <2> DEFINE x == [request[r] EXCEPT !.at = "create", !.doc = doc]
    <2>4. request' = [request EXCEPT ![r] = x]
      BY <1>1, <2>1 DEF PolicyTypeOK
    <2>5. x \in AdminRequest /\ x.at = "create" /\ x.op = request[r].op /\ x.doc = doc
          /\ x.entry = request[r].entry
      BY <1>1, <2>3 DEF AdminRequest
    <2> HIDE DEF x
    <2>6. ~overlapped => DocIn(name.target) = wanted
      BY <1>1, AloneReads DEF AloneInv
    <2>7. ~overlapped => x.doc \in Edits(x.op, x.entry, wanted)
      BY <2>1, <2>5, <2>6
    <2> QED
      BY <1>1, <2>4, <2>5, <2>7, OnlyRequest
  <1> QED
    BY <1>2, <1>3

\* The temporary file is nobody's data.json, and alone it is empty.
LEMMA CreateTmpKeeps ==
    ASSUME PolicyInv, NEW r \in AdminRequests, CreateTmp(r)
    PROVE  PolicyInv'
  <1> DEFINE f == IF name.tmp = NoFile THEN r ELSE name.tmp
             x == [request[r] EXCEPT !.at = "write", !.file = f]
  <1>1. PolicyTypeOK /\ AloneInv /\ NameInv /\ request[r] \in AdminRequest
        /\ request[r].at = "create" /\ request[r].op \in EditOps /\ UnderWay(r)
        /\ EngineInv /\ (\A w \in Workers : WorkerInv(w))
        /\ UNCHANGED <<sources, worker, policyRestarts, wanted, behind, overlapped>>
    BY DEF PolicyInv, PolicyTypeOK, OpInv, CreateTmp, UnderWay
  <1>2. name.target \in Files /\ name.tmp \in Files \cup {NoFile}
    BY <1>1, NameFields DEF PolicyTypeOK
  <1>3. f \in Files /\ f # name.target /\ (f = r \/ f = name.tmp)
    BY <1>1, <1>2 DEF NameInv, Files
  <1>4. /\ name' = [name EXCEPT !.tmp = f] /\ bytes' = [bytes EXCEPT ![f] = {}]
        /\ request' = [request EXCEPT ![r] = x]
    BY <1>1 DEF CreateTmp, PolicyTypeOK
  <1> HIDE DEF f
  <1>5. x \in AdminRequest /\ x.at = "write" /\ x.file = f /\ x.op = request[r].op
        /\ x.doc = request[r].doc /\ x.entry = request[r].entry
    BY <1>1, <1>3 DEF AdminRequest
  <1> HIDE DEF x
  <1>6. /\ request' \in [AdminRequests -> AdminRequest] /\ request'[r] = x
        /\ \A q \in AdminRequests : q # r => request'[q] = request[q]
    BY <1>1, <1>4, <1>5 DEF PolicyTypeOK
  <1>7. /\ name' \in [target : Files, tmp : Files \cup {NoFile}] /\ name'.tmp = f
        /\ name'.target = name.target
    BY <1>1, <1>3, <1>4 DEF PolicyTypeOK
  <1>8. bytes' \in [Files -> SUBSET Doc] /\ bytes'[f] = {} /\ bytes'[name.target] = bytes[name.target]
    BY <1>1, <1>2, <1>3, <1>4 DEF PolicyTypeOK
  <1>9. PolicyTypeOK'
    BY <1>1, <1>6, <1>7, <1>8 DEF PolicyTypeOK
  <1>10. NameInv'
    <2>1. ASSUME NEW q \in AdminRequests, q \in {name'.target, name'.tmp}
          PROVE  request'[q].at \notin {"idle", "manifests", "read", "create"}
      <3>1. CASE q = r
        BY <1>5, <1>6, <3>1
      <3>2. CASE q # r
        <4>1. q \in {name.target, name.tmp}
          BY <1>3, <1>7, <2>1, <3>2
        <4> QED
          BY <1>1, <1>6, <3>2, <4>1 DEF NameInv
      <3> QED
        BY <3>1, <3>2
    <2> QED
      BY <1>3, <1>7, <2>1 DEF NameInv
  <1>11. EngineInv' /\ \A w \in Workers : WorkerInv(w)'
    BY <1>1, EvaluatorsKept
  <1>12. ~overlapped => bytes'[name'.target] = {wanted'} /\ StepInv(r)'
    BY <1>1, <1>5, <1>6, <1>7, <1>8 DEF AloneInv, StepInv
  <1> QED
    BY <1>1, <1>4, <1>5, <1>9, <1>10, <1>11, <1>12, AdminStep

LEMMA WriteTmpKeeps ==
    ASSUME PolicyInv, NEW r \in AdminRequests, WriteTmp(r)
    PROVE  PolicyInv'
  <1> DEFINE f == request[r].file
             d == request[r].doc
             x == [request[r] EXCEPT !.at = "rename"]
  <1>1. PolicyTypeOK /\ AloneInv /\ NameInv /\ request[r] \in AdminRequest
        /\ request[r].at = "write" /\ request[r].op \in EditOps /\ UnderWay(r)
        /\ EngineInv /\ (\A w \in Workers : WorkerInv(w)) /\ f \in Files /\ d \in Doc
        /\ UNCHANGED <<name, sources, worker, policyRestarts, wanted, behind, overlapped>>
    BY RequestFields DEF PolicyInv, PolicyTypeOK, OpInv, WriteTmp, UnderWay
  <1>2. name.target \in Files
    BY <1>1, NameFields DEF PolicyTypeOK
  <1>3. PICK rest \in {{}, bytes[f]} : bytes' = [bytes EXCEPT ![f] = rest \cup {d}]
    BY DEF WriteTmp
  <1>4. request' = [request EXCEPT ![r] = x]
    BY <1>1 DEF WriteTmp, PolicyTypeOK
  <1>5. x \in AdminRequest /\ x.at = "rename" /\ x.op = request[r].op
        /\ x.doc = d /\ x.entry = request[r].entry
    BY <1>1 DEF AdminRequest
  <1> HIDE DEF x
  <1>6. /\ request' \in [AdminRequests -> AdminRequest] /\ request'[r] = x
        /\ \A q \in AdminRequests : q # r => request'[q] = request[q]
    BY <1>1, <1>4, <1>5 DEF PolicyTypeOK
  <1>7. ~overlapped => name.tmp = f /\ bytes[f] = {} /\ f # name.target
                       /\ d \in Edits(request[r].op, request[r].entry, wanted)
    BY <1>1 DEF AloneInv, StepInv, NameInv
  <1> HIDE DEF f, d
  <1>8. rest \cup {d} \in SUBSET Doc
    BY <1>1, <1>3 DEF PolicyTypeOK
  <1>9. /\ bytes' \in [Files -> SUBSET Doc]
        /\ ~overlapped => bytes'[f] = {d} /\ bytes'[name.target] = bytes[name.target]
    <2>1. bytes' \in [Files -> SUBSET Doc] /\ bytes'[f] = rest \cup {d}
          /\ \A g \in Files : g # f => bytes'[g] = bytes[g]
      BY <1>1, <1>3, <1>8 DEF PolicyTypeOK
    <2> QED
      BY <1>2, <1>3, <1>7, <2>1
  <1>10. PolicyTypeOK'
    BY <1>1, <1>6, <1>9 DEF PolicyTypeOK
  <1>11. NameInv'
    BY <1>1, <1>5, <1>6 DEF NameInv
  <1>12. EngineInv' /\ \A w \in Workers : WorkerInv(w)'
    BY <1>1, EvaluatorsKept
  <1>13. ~overlapped => bytes'[name'.target] = {wanted'} /\ StepInv(r)'
    BY <1>1, <1>5, <1>6, <1>7, <1>9 DEF AloneInv, StepInv
  <1> QED
    BY <1>1, <1>4, <1>5, <1>10, <1>11, <1>12, <1>13, AdminStep

\* Alone, the rename makes what is wanted the content of data.json.
LEMMA RenameTmpKeeps ==
    ASSUME PolicyInv, NEW r \in AdminRequests, RenameTmp(r)
    PROVE  PolicyInv'
  <1>1. PolicyTypeOK /\ AloneInv /\ NameInv /\ request[r] \in AdminRequest
        /\ request[r].at = "rename" /\ request[r].op \in EditOps /\ UnderWay(r)
        /\ EngineInv /\ (\A w \in Workers : WorkerInv(w)) /\ request[r].entry \in Entry
        /\ UNCHANGED <<bytes, sources, worker, policyRestarts, overlapped>> /\ wanted \in Doc
    BY RequestFields DEF PolicyInv, PolicyTypeOK, OpInv, RenameTmp, UnderWay
  <1>2. CASE name.tmp = NoFile
    <2>1. request' = [request EXCEPT ![r].at = "done"] /\ UNCHANGED <<name, wanted, behind>>
      BY <1>2 DEF RenameTmp
    <2> QED
      BY <1>1, <2>1, DoneKeeps
  <1>3. CASE name.tmp # NoFile
    <2> DEFINE at == AfterRename(r)
               x == [request[r] EXCEPT !.at = at]
    <2>1. /\ name' = [target |-> name.tmp, tmp |-> NoFile]
          /\ wanted' = Applied(request[r].op, request[r].entry)
          /\ request' = [request EXCEPT ![r] = x] /\ behind' = (behind \/ at = "done")
      BY <1>1, <1>3 DEF RenameTmp, PolicyTypeOK
    <2>2. at \in {"load", "done"}
      BY DEF AfterRename
    <2> HIDE DEF at
    <2>3. x \in AdminRequest /\ x.at = at /\ x.op = request[r].op
          /\ x.doc = request[r].doc /\ x.entry = request[r].entry
      BY <1>1, <2>2 DEF AdminRequest
    <2> HIDE DEF x
    <2>4. /\ request' \in [AdminRequests -> AdminRequest] /\ request'[r] = x
          /\ \A q \in AdminRequests : q # r => request'[q] = request[q]
      BY <1>1, <2>1, <2>3 DEF PolicyTypeOK
    <2>5. name.tmp \in Files /\ NoFile \notin Files /\ name'.target = name.tmp /\ name'.tmp = NoFile
          /\ name' \in [target : Files, tmp : Files \cup {NoFile}]
      BY <1>1, <1>3, <2>1, NameFields, PolicyAssumption DEF PolicyTypeOK, Files
    <2>6. wanted' \in Doc /\ (~overlapped => wanted' = request[r].doc)
      <3> DEFINE D == Edits(request[r].op, request[r].entry, wanted)
                 A == Applied(request[r].op, request[r].entry)
      <3>1. (\A y \in D : y \in Doc) /\ (\A y, z \in D : y = z)
        BY <1>1, EditsAreOne
      <3>2. A = IF D = {} THEN wanted ELSE CHOOSE y \in D : TRUE
        BY DEF Applied
      <3>3. ~overlapped => request[r].doc \in D
        BY <1>1 DEF AloneInv, StepInv
      <3> HIDE DEF D, A
      <3>4. A = wanted \/ A \in D
        BY <3>2
      <3>5. D # {} => A \in D
        BY <3>2
      <3> QED
        BY <1>1, <2>1, <3>1, <3>3, <3>4, <3>5 DEF A
    <2>7. PolicyTypeOK'
      <3>1. behind' \in BOOLEAN
        BY <2>1
      <3> QED
        BY <1>1, <2>4, <2>5, <2>6, <3>1 DEF PolicyTypeOK
    <2>8. NameInv'
      <3>1. ASSUME NEW q \in AdminRequests, q \in {name'.target, name'.tmp}
            PROVE  request'[q].at \notin {"idle", "manifests", "read", "create"}
        <4>1. q = name.tmp
          BY <2>5, <3>1 DEF Files
        <4> QED
          BY <1>1, <2>2, <2>3, <2>4, <4>1 DEF NameInv
      <3> QED
        BY <2>5, <3>1 DEF NameInv
    <2>9. EngineInv' /\ \A w \in Workers : WorkerInv(w)'
      BY <1>1, EvaluatorsKept
    <2>10. ~overlapped => bytes'[name'.target] = {wanted'} /\ StepInv(r)'
      BY <1>1, <2>2, <2>3, <2>4, <2>5, <2>6 DEF AloneInv, StepInv
    <2> QED
      BY <1>1, <2>1, <2>2, <2>3, <2>7, <2>8, <2>9, <2>10, AdminStep
  <1> QED
    BY <1>2, <1>3

LEMMA FileErrorKeeps ==
    ASSUME PolicyInv, NEW r \in AdminRequests, FileError(r)
    PROVE  PolicyInv'
  BY DoneKeeps DEF FileError, UnderWay

\* A dropped handler leaves the file and the evaluator as they are; if it was about to
\* load, the evaluator stays behind.
LEMMA DropHandlerKeeps ==
    ASSUME PolicyInv, NEW r \in AdminRequests, DropHandler(r)
    PROVE  PolicyInv'
  <1> DEFINE at == IF request[r].at = "load" THEN "done" ELSE request[r].at
             x == [request[r] EXCEPT !.gone = TRUE, !.at = at]
  <1>1. PolicyTypeOK /\ AloneInv /\ NameInv /\ EngineInv /\ (\A w \in Workers : WorkerInv(w))
        /\ OpInv(r) /\ request[r] \in AdminRequest /\ UnderWay(r)
        /\ request[r].at \in {"read", "create", "write", "rename", "load"}
        /\ behind' = (behind \/ request[r].at = "load")
        /\ UNCHANGED <<bytes, name, sources, worker, policyRestarts, wanted, overlapped>>
    BY DEF PolicyInv, PolicyTypeOK, DropHandler, UnderWay
  <1>2. request' = [request EXCEPT ![r] = x]
    BY <1>1 DEF DropHandler, PolicyTypeOK
  <1>3. at \in {"read", "create", "write", "rename", "done"} /\ (at = request[r].at \/ at = "done")
    BY <1>1
  <1>4. at = "done" <=> request[r].at = "load"
    BY <1>1
  <1> HIDE DEF at
  <1>5. x \in AdminRequest /\ x.at = at /\ x.op = request[r].op /\ x.doc = request[r].doc
        /\ x.entry = request[r].entry /\ x.file = request[r].file
    BY <1>1, <1>3 DEF AdminRequest
  <1> HIDE DEF x
  <1>6. /\ request' \in [AdminRequests -> AdminRequest] /\ request'[r] = x
        /\ \A q \in AdminRequests : q # r => request'[q] = request[q]
    BY <1>1, <1>2, <1>5 DEF PolicyTypeOK
  <1>7. PolicyTypeOK'
    <2>1. behind' \in BOOLEAN
      BY <1>1
    <2> QED
      BY <1>1, <1>6, <2>1 DEF PolicyTypeOK
  <1>8. NameInv'
    BY <1>1, <1>3, <1>5, <1>6 DEF NameInv
  <1>9. EngineInv' /\ \A w \in Workers : WorkerInv(w)'
    BY <1>1, EvaluatorsKept
  <1>10. ~overlapped => bytes'[name'.target] = {wanted'} /\ StepInv(r)'
    BY <1>1, <1>3, <1>5, <1>6 DEF AloneInv, StepInv
  <1>11. x.at \in {"create", "write", "rename"} => x.op \in EditOps
    BY <1>1, <1>3, <1>5 DEF OpInv
  <1>12. behind' \/ (behind' = behind /\ request[r].at # "load")
    BY <1>1 DEF PolicyTypeOK
  <1> QED
    BY <1>1, <1>2, <1>3, <1>5, <1>7, <1>8, <1>9, <1>10, <1>11, <1>12, AdminStep

LEMMA ReloadRegistryKeeps ==
    ASSUME PolicyInv, NEW r \in AdminRequests, ReloadRegistry(r)
    PROVE  PolicyInv'
  <1>1. PolicyTypeOK /\ request[r] \in AdminRequest /\ request[r].at = "manifests" /\ UnderWay(r)
        /\ UNCHANGED <<bytes, name, sources, worker, policyRestarts, wanted, behind, overlapped>>
    BY DEF PolicyInv, PolicyTypeOK, ReloadRegistry, UnderWay
  <1>2. CASE request' = [request EXCEPT ![r].at = "done"]
    BY <1>1, <1>2, DoneKeeps
  <1>3. CASE request' = [request EXCEPT ![r].at = "read", ![r].did = {"registry"}]
    <2> DEFINE x == [request[r] EXCEPT !.at = "read", !.did = {"registry"}]
    <2>1. request' = [request EXCEPT ![r] = x]
      BY <1>1, <1>3 DEF PolicyTypeOK
    <2>2. x \in AdminRequest /\ x.at = "read" /\ x.op = request[r].op
      BY <1>1 DEF AdminRequest
    <2> HIDE DEF x
    <2> QED
      BY <1>1, <2>1, <2>2, OnlyRequest
  <1> QED
    BY <1>2, <1>3 DEF ReloadRegistry

LEMMA ReadForReloadKeeps ==
    ASSUME PolicyInv, NEW r \in AdminRequests, ReadForReload(r)
    PROVE  PolicyInv'
  <1> DEFINE d == DocIn(name.target)
  <1>1. PolicyTypeOK /\ AloneInv /\ request[r] \in AdminRequest /\ request[r].at = "read"
        /\ UnderWay(r)
        /\ UNCHANGED <<bytes, name, sources, worker, policyRestarts, wanted, behind, overlapped>>
    BY DEF PolicyInv, PolicyTypeOK, ReadForReload, UnderWay
  <1>2. CASE ~Whole(name.target)
    <2>1. request' = [request EXCEPT ![r].at = "done"]
      BY <1>2 DEF ReadForReload
    <2> QED
      BY <1>1, <2>1, DoneKeeps
  <1>3. CASE Whole(name.target)
    <2> DEFINE x == [request[r] EXCEPT !.at = "load", !.doc = d]
    <2>1. request' = [request EXCEPT ![r] = x]
      BY <1>1, <1>3 DEF ReadForReload, PolicyTypeOK
    <2>2. d \in Doc /\ (~overlapped => d = wanted)
      BY <1>1, <1>3, WholeHasDoc, NameFields, AloneReads DEF PolicyTypeOK, AloneInv
    <2> HIDE DEF d
    <2>3. x \in AdminRequest /\ x.at = "load" /\ x.op = request[r].op /\ x.doc = d
      BY <1>1, <2>2 DEF AdminRequest
    <2> HIDE DEF x
    <2> QED
      BY <1>1, <2>1, <2>2, <2>3, OnlyRequest
  <1> QED
    BY <1>2, <1>3

--------------------------------------------------------------------------------
(* Steps of the evaluator.                                                     *)

LEMMA EnginesAre ==
    ASSUME NEW x
    PROVE  x \in Engines <=> \/ x = sources \/ x = NoEngine
                            \/ \E w \in Workers : x = worker[w].engine \/ x = worker[w].seen
  BY DEF Engines

LEMMA EnginesAreNext ==
    ASSUME NEW x
    PROVE  x \in Engines' <=> \/ x = sources' \/ x = NoEngine
                             \/ \E w \in Workers : x = worker'[w].engine \/ x = worker'[w].seen
  BY DEF Engines

LEMMA EnginesTyped ==
    ASSUME PolicyTypeOK, NEW x \in Engines
    PROVE  x \in Engine /\ x.generation \in Nat /\ x.doc \in Doc
  <1>1. x \in Engine
    BY EnginesAre, NoEngineIsOne, WorkerFields DEF PolicyTypeOK
  <1> QED
    BY <1>1, EngineFields

\* A document gets a generation of its own.
LEMMA NewGeneration ==
    ASSUME PolicyTypeOK, EngineInv, NEW d \in Doc, sources' = Loaded(d),
           \A x \in Engines' : x = sources' \/ x \in Engines
    PROVE  /\ EngineInv' /\ sources' \in Engine /\ sources'.generation > 0 /\ sources'.doc = d
  <1>1. sources.generation \in Nat
    BY EngineFields DEF PolicyTypeOK
  <1>2. /\ sources' \in Engine /\ sources'.doc = d
        /\ sources'.generation = sources.generation + 1
    BY <1>1 DEF Loaded, Engine
  <1>3. ASSUME NEW x \in Engines'
        PROVE  /\ x.generation <= sources'.generation
               /\ x = sources' \/ (x \in Engines /\ x.generation < sources'.generation)
    <2>1. CASE x = sources'
      BY <1>1, <1>2, <2>1
    <2>2. CASE x \in Engines
      <3>1. x.generation \in Nat /\ x.generation <= sources.generation
        BY <2>2, EnginesTyped DEF EngineInv
      <3> QED
        BY <1>1, <1>2, <2>2, <3>1
    <2> QED
      BY <2>1, <2>2
  <1>4. ASSUME NEW x \in Engines', NEW y \in Engines', x.generation = y.generation
        PROVE  x.doc = y.doc
    <2>1. x.generation \in Nat /\ y.generation \in Nat
      BY <1>1, <1>2, <1>3, EnginesTyped
    <2>2. CASE x \in Engines /\ y \in Engines
      BY <1>4, <2>2 DEF EngineInv
    <2> QED
      BY <1>1, <1>2, <1>3, <1>4, <2>1, <2>2
  <1>5. EngineInv'
    BY <1>3, <1>4 DEF EngineInv
  <1> QED
    BY <1>1, <1>2, <1>5

\* A new document: the threads in evaluate() learn of it.
LEMMA ObservedKeeps ==
    ASSUME PolicyInv, NEW d \in Doc, sources' = Loaded(d), worker' = Observed(d)
    PROVE  /\ EngineInv' /\ sources' \in Engine /\ sources'.generation > 0 /\ sources'.doc = d
           /\ worker' \in [Workers -> Worker] /\ \A w \in Workers : WorkerInv(w)'
  <1>1. PolicyTypeOK /\ EngineInv /\ \A w \in Workers : worker[w] \in Worker /\ WorkerInv(w)
    BY DEF PolicyInv, PolicyTypeOK
  <1>2. ASSUME NEW w \in Workers
        PROVE  /\ worker'[w] \in Worker /\ worker'[w].at = worker[w].at
               /\ worker'[w].engine = worker[w].engine /\ worker'[w].seen = worker[w].seen
               /\ worker'[w].by = worker[w].by /\ worker[w].during \subseteq worker'[w].during
               /\ worker[w].at \in {"snapshot", "engine"} => d \in worker'[w].during
    <2>1. CASE worker[w].at \in {"snapshot", "engine"}
      <3> DEFINE n == worker[w].during \cup {d}
      <3>1. worker'[w] = [worker[w] EXCEPT !.during = n]
        BY <2>1 DEF Observed
      <3>2. n \in SUBSET Doc /\ d \in n /\ worker[w].during \subseteq n
        BY <1>1, WorkerFields
      <3> HIDE DEF n
      <3>3. /\ worker'[w] \in Worker /\ worker'[w].at = worker[w].at
            /\ worker'[w].engine = worker[w].engine /\ worker'[w].seen = worker[w].seen
            /\ worker'[w].by = worker[w].by /\ worker'[w].during = n
        BY <1>1, <3>1, <3>2 DEF Worker
      <3> QED
        BY <3>2, <3>3
    <2>2. CASE worker[w].at \notin {"snapshot", "engine"}
      BY <1>1, <2>2 DEF Observed
    <2> QED
      BY <2>1, <2>2
  <1>3. worker' \in [Workers -> Worker]
    BY <1>2 DEF Observed
  <1>4. \A x \in Engines' : x = sources' \/ x \in Engines
    <2> SUFFICES ASSUME NEW x \in Engines' PROVE x = sources' \/ x \in Engines
      OBVIOUS
    <2>1. \/ x = sources' \/ x = NoEngine
          \/ \E w \in Workers : x = worker'[w].engine \/ x = worker'[w].seen
      BY EnginesAreNext
    <2> QED
      BY <1>2, <2>1, EnginesAre
  <1>5. EngineInv' /\ sources' \in Engine /\ sources'.generation > 0 /\ sources'.doc = d
    BY <1>1, <1>4, NewGeneration
  <1>6. ASSUME NEW w \in Workers PROVE WorkerInv(w)'
    BY <1>1, <1>2, <1>5 DEF WorkerInv
  <1> QED
    BY <1>3, <1>5, <1>6

LEMMA LoadPolicyKeeps ==
    ASSUME PolicyInv, NEW r \in AdminRequests, LoadPolicy(r)
    PROVE  PolicyInv'
  <1> DEFINE d == request[r].doc
             p == request[r].did \cup {"policy"}
             x == [request[r] EXCEPT !.at = "done", !.did = p]
  <1>1. PolicyTypeOK /\ AloneInv /\ NameInv /\ request[r] \in AdminRequest
        /\ request[r].at = "load" /\ UnderWay(r) /\ d \in Doc /\ sources' = Loaded(d)
        /\ worker' = Observed(d) /\ behind' = FALSE
        /\ UNCHANGED <<bytes, name, policyRestarts, wanted, overlapped>>
    BY RequestFields DEF PolicyInv, PolicyTypeOK, LoadPolicy, UnderWay
  <1>2. request' = [request EXCEPT ![r] = x]
    BY <1>1 DEF LoadPolicy, PolicyTypeOK
  <1>3. p \in SUBSET {"registry", "policy"}
    BY <1>1, RequestFields
  <1> HIDE DEF p
  <1>4. x \in AdminRequest /\ x.at = "done" /\ x.op = request[r].op
    BY <1>1, <1>3 DEF AdminRequest
  <1> HIDE DEF x
  <1>5. /\ request' \in [AdminRequests -> AdminRequest] /\ request'[r] = x
        /\ \A q \in AdminRequests : q # r => request'[q] = request[q]
    BY <1>1, <1>2, <1>4 DEF PolicyTypeOK
  <1>6. /\ EngineInv' /\ sources' \in Engine /\ sources'.generation > 0 /\ sources'.doc = d
        /\ worker' \in [Workers -> Worker] /\ \A w \in Workers : WorkerInv(w)'
    BY <1>1, ObservedKeeps
  <1>7. PolicyTypeOK'
    BY <1>1, <1>5, <1>6 DEF PolicyTypeOK
  <1>8. NameInv'
    BY <1>1, <1>4, <1>5 DEF NameInv
  <1>9. ~overlapped => bytes'[name'.target] = {wanted'} /\ StepInv(r)' /\ sources'.doc = wanted'
    BY <1>1, <1>4, <1>5, <1>6 DEF AloneInv, StepInv
  <1> QED
    BY <1>1, <1>2, <1>4, <1>6, <1>7, <1>8, <1>9, AdminStep

\* The gate dies with its requests; what the command line does goes on.
LEMMA RestartKeeps ==
    ASSUME PolicyInv, RestartWithPolicy
    PROVE  PolicyInv'
  <1> DEFINE d == DocIn(name.target)
  <1>1. PolicyTypeOK /\ AloneInv /\ NameInv /\ EngineInv /\ (\A r \in AdminRequests : OpInv(r))
        /\ sources' = Loaded(d) /\ Whole(name.target) /\ policyRestarts' = policyRestarts + 1
        /\ policyRestarts < MaxPolicyRestarts /\ behind' = FALSE
        /\ UNCHANGED <<bytes, name, wanted, overlapped>>
    BY DEF PolicyInv, RestartWithPolicy
  <1>2. d \in Doc /\ (~overlapped => d = wanted)
    BY <1>1, WholeHasDoc, NameFields, AloneReads DEF PolicyTypeOK, AloneInv
  <1> HIDE DEF d
  <1>3. ASSUME NEW w \in Workers
        PROVE  /\ worker'[w] \in Worker /\ worker'[w].at = "idle"
               /\ worker'[w].engine = NoEngine /\ worker'[w].seen = NoEngine
    <2>1. worker'[w] = [worker[w] EXCEPT !.at = "idle", !.engine = NoEngine, !.seen = NoEngine]
          /\ worker[w] \in Worker
      BY <1>1 DEF RestartWithPolicy, PolicyTypeOK
    <2> QED
      BY <2>1, NoEngineIsOne DEF Worker
  <1>4. worker' \in [Workers -> Worker]
    BY <1>3 DEF RestartWithPolicy
  <1>5. \A x \in Engines' : x = sources' \/ x \in Engines
    <2> SUFFICES ASSUME NEW x \in Engines' PROVE x = sources' \/ x \in Engines
      OBVIOUS
    <2>1. \/ x = sources' \/ x = NoEngine
          \/ \E w \in Workers : x = worker'[w].engine \/ x = worker'[w].seen
      BY EnginesAreNext
    <2> QED
      BY <1>3, <2>1, EnginesAre
  <1>6. EngineInv' /\ sources' \in Engine /\ sources'.generation > 0 /\ sources'.doc = d
    BY <1>1, <1>2, <1>5, NewGeneration
  <1>7. \A w \in Workers : WorkerInv(w)'
    BY <1>3 DEF WorkerInv
  <1>8. ASSUME NEW r \in AdminRequests
        PROVE  /\ request'[r] \in AdminRequest /\ request'[r].op = request[r].op
               /\ request'[r] = request[r] \/ (request'[r].at = "done" /\ request[r].at # "idle")
    <2>1. request[r] \in AdminRequest
      BY <1>1 DEF PolicyTypeOK
    <2>2. CASE UnderWay(r) /\ request[r].op \notin CliOps
      <3>1. request'[r] = [request[r] EXCEPT !.at = "done", !.did = {}]
        BY <2>2 DEF RestartWithPolicy
      <3>2. /\ request'[r] \in AdminRequest /\ request'[r].op = request[r].op
            /\ request'[r].at = "done"
        BY <2>1, <3>1 DEF AdminRequest
      <3> QED
        BY <2>2, <3>2 DEF UnderWay
    <2>3. CASE ~(UnderWay(r) /\ request[r].op \notin CliOps)
      BY <2>1, <2>3 DEF RestartWithPolicy
    <2> QED
      BY <2>2, <2>3
  <1>9. request' \in [AdminRequests -> AdminRequest]
    BY <1>8 DEF RestartWithPolicy
  <1>10. PolicyTypeOK'
    <2>1. policyRestarts' \in 0..MaxPolicyRestarts
      BY <1>1, PolicyAssumption DEF PolicyTypeOK
    <2> QED
      BY <1>1, <1>4, <1>6, <1>9, <2>1 DEF PolicyTypeOK
  <1>11. NameInv'
    BY <1>1, <1>8 DEF NameInv
  <1>12. \A r \in AdminRequests : OpInv(r)'
    BY <1>1, <1>8 DEF OpInv
  <1>13. ASSUME ~overlapped
         PROVE  /\ \A r, s \in AdminRequests : UnderWay(r)' /\ UnderWay(s)' => r = s
                /\ \A r \in AdminRequests : StepInv(r)'
    <2>1. \A r \in AdminRequests : UnderWay(r)' => UnderWay(r)
      BY <1>8 DEF UnderWay
    <2>2. ASSUME NEW r \in AdminRequests PROVE StepInv(r)'
      BY <1>1, <1>8, <1>13 DEF AloneInv, StepInv
    <2> QED
      BY <1>1, <1>13, <2>1, <2>2 DEF AloneInv
  <1>14. AloneInv'
    BY <1>1, <1>2, <1>6, <1>13 DEF AloneInv, LoadedInv
  <1> QED
    BY <1>6, <1>7, <1>10, <1>11, <1>12, <1>14 DEF PolicyInv

\* A step of one thread that ends up with engines already known.
LEMMA WorkerStep ==
    ASSUME PolicyInv, NEW w \in Workers, NEW x \in Worker, worker' = [worker EXCEPT ![w] = x],
           UNCHANGED <<bytes, name, sources, request, policyRestarts, wanted, behind, overlapped>>,
           x.engine \in Engines, x.seen \in Engines, WorkerInv(w)'
    PROVE  PolicyInv'
  <1>1. PolicyTypeOK /\ EngineInv /\ AloneInv /\ NameInv
    BY DEF PolicyInv
  <1>2. worker' \in [Workers -> Worker] /\ worker'[w] = x
        /\ \A v \in Workers : v # w => worker'[v] = worker[v]
    BY <1>1 DEF PolicyTypeOK
  <1>3. ASSUME NEW y \in Engines' PROVE y \in Engines
    <2>1. \/ y = sources \/ y = NoEngine
          \/ \E v \in Workers : y = worker'[v].engine \/ y = worker'[v].seen
      BY EnginesAreNext
    <2> QED
      BY <1>2, <2>1, EnginesAre
  <1>4. EngineInv'
    BY <1>1, <1>3 DEF EngineInv
  <1>5. ASSUME NEW v \in Workers PROVE WorkerInv(v)'
    BY <1>2 DEF PolicyInv, WorkerInv
  <1>6. PolicyTypeOK'
    BY <1>1, <1>2 DEF PolicyTypeOK
  <1>7. NameInv' /\ AloneInv' /\ \A r \in AdminRequests : OpInv(r)'
    BY DEF PolicyInv, NameInv, AloneInv, OpInv, UnderWay, StepInv, LoadedInv
  <1> QED
    BY <1>4, <1>5, <1>6, <1>7 DEF PolicyInv

LEMMA BeginEvaluationKeeps ==
    ASSUME PolicyInv, NEW w \in Workers, BeginEvaluation(w)
    PROVE  PolicyInv'
  <1> DEFINE d == sources.doc
             x == [worker[w] EXCEPT !.at = "snapshot", !.during = {d}]
  <1>1. PolicyTypeOK /\ worker[w] \in Worker /\ d \in Doc
        /\ UNCHANGED <<bytes, name, sources, request, policyRestarts, wanted, behind, overlapped>>
    BY EngineFields DEF PolicyInv, PolicyTypeOK, BeginEvaluation
  <1>2. worker' = [worker EXCEPT ![w] = x]
    BY <1>1 DEF BeginEvaluation, PolicyTypeOK
  <1> HIDE DEF d
  <1>3. x \in Worker /\ x.at = "snapshot" /\ x.during = {d} /\ x.engine = worker[w].engine
        /\ x.seen = worker[w].seen
    BY <1>1 DEF Worker
  <1> HIDE DEF x
  <1>4. x.engine \in Engines /\ x.seen \in Engines
    BY <1>3, EnginesAre
  <1>5. worker'[w] = x
    BY <1>1, <1>2 DEF PolicyTypeOK
  <1>6. WorkerInv(w)'
    BY <1>1, <1>3, <1>5 DEF WorkerInv, d
  <1> QED
    BY <1>1, <1>2, <1>3, <1>4, <1>6, WorkerStep

LEMMA SnapshotKeeps ==
    ASSUME PolicyInv, NEW w \in Workers, Snapshot(w)
    PROVE  PolicyInv'
  <1> DEFINE x == [worker[w] EXCEPT !.at = "engine", !.seen = sources]
  <1>1. PolicyTypeOK /\ worker[w] \in Worker /\ WorkerInv(w) /\ worker[w].at = "snapshot"
        /\ UNCHANGED <<bytes, name, sources, request, policyRestarts, wanted, behind, overlapped>>
        /\ sources \in Engine
    BY DEF PolicyInv, PolicyTypeOK, Snapshot
  <1>2. worker' = [worker EXCEPT ![w] = x]
    BY <1>1 DEF Snapshot, PolicyTypeOK
  <1>3. x \in Worker /\ x.at = "engine" /\ x.during = worker[w].during
        /\ x.engine = worker[w].engine /\ x.seen = sources
    BY <1>1 DEF Worker
  <1> HIDE DEF x
  <1>4. x.engine \in Engines /\ x.seen \in Engines
    BY <1>3, EnginesAre
  <1>5. worker'[w] = x
    BY <1>1, <1>2 DEF PolicyTypeOK
  <1>6. WorkerInv(w)'
    BY <1>1, <1>3, <1>5 DEF WorkerInv
  <1> QED
    BY <1>1, <1>2, <1>3, <1>4, <1>6, WorkerStep

\* The engine of the generation just seen has the document just seen.
LEMMA EvalRuleKeeps ==
    ASSUME PolicyInv, NEW w \in Workers, EvalRule(w)
    PROVE  PolicyInv'
  <1> DEFINE e == EngineFor(worker[w].engine, worker[w].seen)
             d == e.doc
             x == [worker[w] EXCEPT !.at = "decided", !.engine = e, !.by = d]
  <1>1. PolicyTypeOK /\ EngineInv /\ worker[w] \in Worker /\ WorkerInv(w)
        /\ worker[w].at = "engine"
        /\ UNCHANGED <<bytes, name, sources, request, policyRestarts, wanted, behind, overlapped>>
    BY DEF PolicyInv, PolicyTypeOK, EvalRule
  <1>2. worker' = [worker EXCEPT ![w] = x]
    BY <1>1 DEF EvalRule, PolicyTypeOK
  <1>3. worker[w].engine \in Engines /\ worker[w].seen \in Engines
    BY EnginesAre
  <1>4. e \in Engines /\ d = worker[w].seen.doc
    BY <1>1, <1>3 DEF EngineFor, EngineInv
  <1>5. e \in Engine /\ d \in Doc /\ d \in worker[w].during
    BY <1>1, <1>4, EnginesTyped DEF WorkerInv
  <1> HIDE DEF e, d
  <1>6. x \in Worker /\ x.at = "decided" /\ x.during = worker[w].during
        /\ x.engine = e /\ x.seen = worker[w].seen /\ x.by = d
    BY <1>1, <1>5 DEF Worker
  <1> HIDE DEF x
  <1>7. worker'[w] = x
    BY <1>1, <1>2 DEF PolicyTypeOK
  <1>8. WorkerInv(w)'
    BY <1>5, <1>6, <1>7 DEF WorkerInv
  <1> QED
    BY <1>1, <1>2, <1>3, <1>4, <1>6, <1>8, WorkerStep

LEMMA EvalPanicsKeeps ==
    ASSUME PolicyInv, NEW w \in Workers, EvalPanics(w)
    PROVE  PolicyInv'
  <1> DEFINE x == [worker[w] EXCEPT !.at = "idle", !.engine = NoEngine]
  <1>1. PolicyTypeOK /\ worker[w] \in Worker
        /\ UNCHANGED <<bytes, name, sources, request, policyRestarts, wanted, behind, overlapped>>
    BY DEF PolicyInv, PolicyTypeOK, EvalPanics
  <1>2. worker' = [worker EXCEPT ![w] = x]
    BY <1>1 DEF EvalPanics, PolicyTypeOK
  <1>3. x \in Worker /\ x.at = "idle" /\ x.engine = NoEngine /\ x.seen = worker[w].seen
    BY <1>1, NoEngineIsOne DEF Worker
  <1> HIDE DEF x
  <1>4. x.engine \in Engines /\ x.seen \in Engines
    BY <1>3, EnginesAre
  <1>5. worker'[w] = x
    BY <1>1, <1>2 DEF PolicyTypeOK
  <1>6. WorkerInv(w)'
    BY <1>3, <1>5 DEF WorkerInv
  <1> QED
    BY <1>1, <1>2, <1>3, <1>4, <1>6, WorkerStep

--------------------------------------------------------------------------------
(* The invariant, and what it means.                                           *)

\* PolicyInv holds in every reachable state, however administrators, the command line,
\* evaluations, panics, failing files and restarts interleave.
THEOREM PolicyInvariant == PolicySpec => []PolicyInv
  <1>1. PolicyInit => PolicyInv
    <2> SUFFICES ASSUME PolicyInit PROVE PolicyInv
      OBVIOUS
    <2>1. /\ bytes = [f \in Files |-> IF f = Original THEN {{}} ELSE {}]
          /\ name = [target |-> Original, tmp |-> NoFile]
          /\ sources = [doc |-> {}, generation |-> 1]
          /\ policyRestarts = 0 /\ wanted = {} /\ behind = FALSE /\ overlapped = FALSE
      BY DEF PolicyInit
    <2>2. /\ request \in [AdminRequests -> AdminRequest]
          /\ \A r \in AdminRequests : request[r].at = "idle" /\ request[r].op = "none"
      <3>1. Original \in Files /\ {} \in Doc
        BY DEF Files, Doc
      <3> QED
        BY <3>1, AnyEntryIsOne DEF PolicyInit, AdminRequest
    <2>3. /\ worker \in [Workers -> Worker]
          /\ \A w \in Workers : worker[w].at = "idle" /\ worker[w].engine = NoEngine
                                 /\ worker[w].seen = NoEngine
      <3>1. {} \in Doc
        BY DEF Doc
      <3> QED
        BY <3>1, NoEngineIsOne DEF PolicyInit, Worker
    <2>4. sources \in Engine /\ sources.generation = 1 /\ sources.doc = {}
          /\ name.target = Original /\ name.tmp = NoFile /\ Original \in Files
      BY <2>1 DEF Engine, Doc, Files
    <2>5. PolicyTypeOK
      <3>1. bytes \in [Files -> SUBSET Doc] /\ wanted \in Doc
        BY <2>1 DEF Doc
      <3>2. /\ name \in [target : Files, tmp : Files \cup {NoFile}]
            /\ policyRestarts \in 0..MaxPolicyRestarts
        BY <2>1, <2>4, PolicyAssumption
      <3>3. overlapped \in BOOLEAN /\ behind \in BOOLEAN
        BY <2>1
      <3>4. sources.generation > 0
        BY <2>4
      <3> QED
        BY <2>2, <2>3, <2>4, <3>1, <3>2, <3>3, <3>4 DEF PolicyTypeOK
    <2>6. EngineInv
      <3>1. \A x \in Engines : x = sources \/ x = NoEngine
        BY <2>3, EnginesAre
      <3> QED
        BY <2>4, <3>1, NoEngineIsOne DEF EngineInv
    <2>7. \A w \in Workers : WorkerInv(w)
      BY <2>3 DEF WorkerInv
    <2>8. NameInv
      BY <2>4, PolicyAssumption DEF NameInv
    <2>9. \A r \in AdminRequests : OpInv(r) /\ StepInv(r) /\ ~UnderWay(r)
      BY <2>2 DEF OpInv, StepInv, UnderWay
    <2>10. bytes[name.target] = {wanted} /\ sources.doc = wanted
      BY <2>1, <2>4
    <2>11. AloneInv
      BY <2>9, <2>10 DEF AloneInv, LoadedInv
    <2> QED
      BY <2>5, <2>6, <2>7, <2>8, <2>9, <2>11 DEF PolicyInv
  <1>2. PolicyInv /\ [PolicyNext]_policyVars => PolicyInv'
    <2> SUFFICES ASSUME PolicyInv, [PolicyNext]_policyVars PROVE PolicyInv'
      OBVIOUS
    <2>1. ASSUME NEW r \in AdminRequests, NEW op \in GateOps \cup CliOps, NEW e \in Entry,
                 AskFor(r, op, e)
          PROVE  PolicyInv'
      BY <2>1, AskForKeeps DEF EditOps
    <2>2. ASSUME NEW r \in AdminRequests, AskFor(r, "reload", AnyEntry) PROVE PolicyInv'
      BY <2>2, AskForKeeps, AnyEntryIsOne
    <2>3. ASSUME NEW r \in AdminRequests,
                 \/ ReadData(r) \/ CreateTmp(r) \/ WriteTmp(r) \/ RenameTmp(r) \/ FileError(r)
                 \/ DropHandler(r) \/ LoadPolicy(r) \/ ReloadRegistry(r) \/ ReadForReload(r)
          PROVE  PolicyInv'
      BY <2>3, ReadDataKeeps, CreateTmpKeeps, WriteTmpKeeps, RenameTmpKeeps, FileErrorKeeps,
         DropHandlerKeeps, LoadPolicyKeeps, ReloadRegistryKeeps, ReadForReloadKeeps
    <2>4. ASSUME NEW w \in Workers,
                 BeginEvaluation(w) \/ Snapshot(w) \/ EvalRule(w) \/ EvalPanics(w)
          PROVE  PolicyInv'
      BY <2>4, BeginEvaluationKeeps, SnapshotKeeps, EvalRuleKeeps, EvalPanicsKeeps
    <2>5. CASE UNCHANGED policyVars
      <3>1. UNCHANGED <<bytes, name, sources, request, worker, policyRestarts, wanted, behind,
                      overlapped>>
        BY <2>5 DEF policyVars
      <3>2. PolicyTypeOK' /\ NameInv' /\ (\A r \in AdminRequests : OpInv(r)') /\ AloneInv'
        BY <3>1 DEF PolicyInv, PolicyTypeOK, NameInv, AloneInv, OpInv, UnderWay, StepInv, LoadedInv
      <3>3. EngineInv' /\ \A w \in Workers : WorkerInv(w)'
        BY <3>1, EvaluatorsKept DEF PolicyInv
      <3> QED
        BY <3>2, <3>3 DEF PolicyInv
    <2> QED
      BY <2>1, <2>2, <2>3, <2>4, <2>5, RestartKeeps DEF PolicyNext
  <1> QED
    BY <1>1, <1>2, PTL DEF PolicySpec

\* What an evaluation may rely on while operators edit and reload the policy: it goes by
\* a document the evaluator had while it ran, a generation names one document, and
\* requests that do not overlap are atomic over failures and restarts.
THEOREM PolicyIsSafe == PolicySpec => []PolicySafe
  <1>1. PolicyInv => PolicySafe
    <2> SUFFICES ASSUME PolicyInv PROVE PolicySafe
      OBVIOUS
    <2>1. PolicyTypeOK /\ EngineInv /\ AloneInv
      BY DEF PolicyInv
    <2>2. EvaluationIsCurrent
      BY DEF PolicyInv, WorkerInv, EvaluationIsCurrent
    <2>3. AloneIsAtomic
      <3> SUFFICES ASSUME ~overlapped
                   PROVE  /\ bytes[name.target] = {wanted}
                          /\ Quiet /\ ~behind => sources.doc = wanted
        BY DEF AloneIsAtomic
      <3>1. Quiet => \A r \in AdminRequests : request[r].at # "load"
        BY DEF Quiet, UnderWay
      <3> QED
        BY <2>1, <3>1 DEF AloneInv, LoadedInv
    <2>4. GenerationNamesOnePolicy
      <3>1. sources \in Engines /\ \A w \in Workers : worker[w].engine \in Engines
        BY EnginesAre
      <3> QED
        BY <2>1, <3>1 DEF EngineInv, GenerationNamesOnePolicy
    <2> QED
      BY <2>1, <2>2, <2>3, <2>4 DEF PolicySafe
  <1> QED
    BY <1>1, PolicyInvariant, PTL
================================================================================
