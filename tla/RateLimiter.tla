---------------------------- MODULE RateLimiter ----------------------------
(***************************************************************************)
(* TokenBucketRateLimiter and the CoarseClock it reads                     *)
(* (crates/latchgate-kernel): a lock-free token bucket shared by all       *)
(* threads.  check() reads the cached second once, then loops: load the    *)
(* packed (last_refill, tokens) word, compute the refill, and swap the     *)
(* word if nobody changed it.  The clock may be published, and other       *)
(* threads may run, between any two of these.                              *)
(*                                                                         *)
(* The code keeps tokens in hundredths.  The capacity and the refill per   *)
(* second are both 100 * rps and a check takes 100, so every stored value  *)
(* is a multiple of 100 and whole tokens lose nothing.  Seconds are        *)
(* counted from the construction of the bucket.                            *)
(***************************************************************************)
EXTENDS Integers

CONSTANTS
    Threads,        \* threads that call check()
    Rps,            \* bucket capacity, and refill per second
    ClockModulus,   \* 2^32: the width of last_refill_secs
    MaxSeconds,     \* bound on the modelled time
    MaxAdmitted     \* bound on the admissions counted

ASSUME RateAssumption ==
    /\ Rps \in Nat
    /\ ClockModulus \in Nat \ {0}
    /\ MaxSeconds \in Nat /\ MaxAdmitted \in Nat
    /\ MaxSeconds < ClockModulus

VARIABLES
    second,     \* the second the coarse clock shows
    bucket,     \* the packed word: [last, tokens]
    check,      \* thread -> its progress through check()
    admitted,   \* number of checks that returned true
    stale       \* those of them that went by a reading no longer current

rateVars == <<second, bucket, check, admitted, stale>>

Bucket == [last : Nat, tokens : 0..Rps]

\* now: the clock reading; seen: the word loaded; refilled: tokens computed.
Check == [pc : {"idle", "load", "swap"}, now : Nat, seen : Bucket,
          refilled : 0..Rps]

--------------------------------------------------------------------------------
AtMost(n, cap) == IF n < cap THEN n ELSE cap

\* wrapping_sub, saturating_mul and min: a reading older than last_refill wraps
\* around to almost 2^32 seconds.
Refill(word, now) ==
    AtMost(word.tokens + ((now - word.last) % ClockModulus) * Rps, Rps)

RateInit ==
    /\ second = 0
    /\ bucket = [last |-> 0, tokens |-> Rps]
    /\ check = [c \in Threads |->
                  [pc |-> "idle", now |-> 0, seen |-> bucket, refilled |-> 0]]
    /\ admitted = 0
    /\ stale = 0

\* The ticker stores the wall clock; a stalled ticker skips seconds.  The wall
\* clock is assumed never to be set back.
Publish ==
    /\ second' \in (second + 1)..MaxSeconds
    /\ UNCHANGED <<bucket, check, admitted, stale>>

ReadClock(c) ==
    /\ check[c].pc = "idle"
    /\ admitted < MaxAdmitted
    /\ check' = [check EXCEPT ![c].pc = "load", ![c].now = second]
    /\ UNCHANGED <<second, bucket, admitted, stale>>

\* Less than a token: rejected, and nothing is written.
Load(c) ==
    LET refilled == Refill(bucket, check[c].now) IN
    /\ check[c].pc = "load"
    /\ check' = [check EXCEPT ![c].pc = IF refilled < 1 THEN "idle" ELSE "swap",
                              ![c].seen = bucket, ![c].refilled = refilled]
    /\ UNCHANGED <<second, bucket, admitted, stale>>

Admit(c) ==
    /\ bucket' = [last |-> check[c].now, tokens |-> check[c].refilled - 1]
    /\ admitted' = admitted + 1
    /\ stale' = IF check[c].now < second THEN stale + 1 ELSE stale
    /\ check' = [check EXCEPT ![c].pc = "idle"]

\* A variant with a fault: the bucket is stored without comparing it
\* first.
SwapBlindly(c) ==
    /\ check[c].pc = "swap"
    /\ Admit(c)
    /\ UNCHANGED second

\* compare_exchange_weak may also fail for no reason; the loop loads again and
\* keeps the reading of the clock.
Swap(c) ==
    /\ check[c].pc = "swap"
    /\ \/ bucket = check[c].seen /\ Admit(c)
       \/ /\ check' = [check EXCEPT ![c].pc = "load"]
          /\ UNCHANGED <<bucket, admitted, stale>>
    /\ UNCHANGED second

RateNext ==
    \/ Publish
    \/ \E c \in Threads : ReadClock(c) \/ Load(c) \/ Swap(c)

RateSpec == RateInit /\ [][RateNext]_rateVars

--------------------------------------------------------------------------------
\* Every variable has the shape the code gives it; the bucket never holds more
\* than its capacity.
RateTypeOK ==
    /\ second \in Nat /\ admitted \in Nat /\ stale \in Nat
    /\ bucket \in Bucket
    /\ check \in [Threads -> Check]

\* How far the limit can be trusted.  What was admitted is at most one bucket to
\* begin with, one for each second the clock has shown (none while the ticker
\* stalls), and two for each admission whose clock reading was out of date when
\* its swap succeeded: one because it wraps around, one because it sets
\* last_refill back.  No token is spent by two threads.
RateBounded == admitted <= Rps * (1 + second + 2 * stale)

\* rate_limit.rs: "bursts are limited to the bucket size, so a client cannot
\* double the intended rate".
BurstWithinBucket == admitted <= Rps * (1 + second)

--------------------------------------------------------------------------------
(***************************************************************************)
(* ExecuteRateLimitMap (crates/latchgate-kernel/src/rate_limit.rs): one    *)
(* token bucket for each session or peer, created on first use and dropped *)
(* by the background sweep (crates/latchgate-api/src/server.rs) when it    *)
(* has been idle for max_idle_secs.                                        *)
(*                                                                         *)
(* check() reads the coarse clock, then looks the key up.  The guard that  *)
(* the lookup returns holds a lock on the key's shard until check()        *)
(* returns, and retain() takes the same lock, so lookup, touch and         *)
(* deduction are one step here (the races of the deduction itself are      *)
(* RateLimiter's).  A lookup that finds nothing lets go of the lock before *)
(* entry() takes it again.  Whatever happens between these, `now` stays    *)
(* what it was: the stamp that touch_at stores may be old.                 *)
(*                                                                         *)
(* `kept` is a shadow: the bucket each key would have if nothing were ever *)
(* dropped.                                                                *)
(***************************************************************************)

CONSTANTS
    Keys,           \* sessions and peers
    Callers,        \* threads in check()
    KeyRps,         \* session_rps or anonymous_rps of a key
    MaxIdle,        \* IDLE_TTL_SECS of the sweep
    MaxStall,       \* longest time a thread may spend inside check()
    LastTick,       \* bound on the modelled time
    Never           \* the stamp of a key that is not in the map

ASSUME LimiterAssumption ==
    /\ KeyRps \in [Keys -> Nat]
    /\ MaxIdle \in Nat /\ MaxStall \in Nat /\ LastTick \in Nat
    /\ MaxStall < MaxIdle
    /\ Never \notin Nat

VARIABLES
    tick,       \* the second the coarse clock shows
    entry,      \* key -> its bucket, and when it was last used (or Never)
    kept,       \* key -> the bucket it would have without the sweep
    caller      \* thread -> its progress through check()

limiterVars == <<tick, entry, kept, caller>>

Full(k, now) == [last |-> now, tokens |-> KeyRps[k]]
NoEntry(k) == [used |-> Never, bucket |-> Full(k, 0)]
InMap(k) == entry[k].used # Never

LimiterInit ==
    /\ tick = 0
    /\ entry = [k \in Keys |-> NoEntry(k)]
    /\ kept = [k \in Keys |-> Full(k, 0)]
    /\ caller \in [Callers -> [pc : {"idle"}, key : Keys, now : {0}]]

\* TokenBucketRateLimiter::check, run to its end by one thread: a second that
\* passed fills the bucket, and a token is taken if there is one.
Refilled(k, b) ==
    IF b.last < tick THEN KeyRps[k] ELSE b.tokens

Deducted(k, b) ==
    IF Refilled(k, b) = 0 THEN b
    ELSE [last |-> tick, tokens |-> Refilled(k, b) - 1]

CoarseTick ==
    /\ tick < LastTick
    /\ \A c \in Callers : caller[c].pc # "idle" => tick < caller[c].now + MaxStall
    /\ tick' = tick + 1
    /\ UNCHANGED <<entry, kept, caller>>

ReadNow(c, k) ==
    /\ caller[c].pc = "idle"
    /\ caller' = [caller EXCEPT ![c] = [pc |-> "get", key |-> k, now |-> tick]]
    /\ UNCHANGED <<tick, entry, kept>>

Use(c, b) ==
    LET k == caller[c].key IN
    /\ entry' = [entry EXCEPT ![k] = [used |-> caller[c].now,
                                      bucket |-> Deducted(k, b)]]
    /\ kept' = [kept EXCEPT ![k] = Deducted(k, @)]
    /\ caller' = [caller EXCEPT ![c].pc = "idle"]
    /\ UNCHANGED tick

\* The entry exists: touch_at(now) and limiter.check() under its guard.
FastPath(c) ==
    /\ caller[c].pc = "get"
    /\ InMap(caller[c].key)
    /\ Use(c, entry[caller[c].key].bucket)

Miss(c) ==
    /\ caller[c].pc = "get"
    /\ ~InMap(caller[c].key)
    /\ caller' = [caller EXCEPT ![c].pc = "insert"]
    /\ UNCHANGED <<tick, entry, kept>>

\* A variant with a fault: the slow path inserts a new bucket over one
\* inserted meanwhile.
SlowPathOverwrites(c) ==
    /\ caller[c].pc = "insert"
    /\ Use(c, Full(caller[c].key, tick))

\* entry().or_insert_with: a bucket another thread put there meanwhile stays.
SlowPath(c) ==
    LET k == caller[c].key IN
    /\ caller[c].pc = "insert"
    /\ Use(c, IF InMap(k) THEN entry[k].bucket ELSE Full(k, tick))

\* sweep_stale: `now` is read before retain() reaches the shard of the key, so
\* an entry may meanwhile have been used at a later time (saturating_sub).
Stale(k, now) == InMap(k) /\ now - entry[k].used >= MaxIdle

SweepStale ==
    \E now \in 0..tick, K \in SUBSET Keys :
        /\ K # {}
        /\ \A k \in K : Stale(k, now)
        /\ entry' = [k \in Keys |-> IF k \in K THEN NoEntry(k) ELSE entry[k]]
        /\ UNCHANGED <<tick, kept, caller>>

LimiterNext ==
    \/ CoarseTick
    \/ SweepStale
    \/ \E c \in Callers :
        \/ \E k \in Keys : ReadNow(c, k)
        \/ FastPath(c) \/ Miss(c) \/ SlowPath(c)

LimiterSpec == LimiterInit /\ [][LimiterNext]_limiterVars

--------------------------------------------------------------------------------
LimiterTypeOK ==
    /\ tick \in Nat
    /\ entry \in [Keys -> [used : Nat \cup {Never},
                           bucket : [last : Nat, tokens : Nat]]]
    /\ kept \in [Keys -> [last : Nat, tokens : Nat]]
    /\ caller \in [Callers -> [pc : {"idle", "get", "insert"}, key : Keys, now : Nat]]

\* The sweep cannot be noticed.  At any time a check of a key finds as many
\* tokens as it would had nothing ever been dropped: dropping an idle limiter
\* and making it again gives a session no second burst, although the stamp of
\* its last use may be older than the use, and two threads may make it at once.
SweepUnobservable ==
    \A k \in Keys :
        Refilled(k, kept[k]) =
            IF InMap(k) THEN Refilled(k, entry[k].bucket) ELSE KeyRps[k]

\* What the limiter map promises its callers: dropping and remaking buckets
\* cannot be observed.
LimitersSafe == LimiterTypeOK /\ SweepUnobservable
================================================================================
