------------------------------- MODULE ReplayCache -------------------------------
(***************************************************************************)
(* Admission of a request by lease and DPoP proof (crates/latchgate-auth:   *)
(* auth.rs, dpop/verify.rs) with the in-memory replay cache (replay.rs) and *)
(* the sweep that empties it.  The cache is a concurrent map whose shards   *)
(* are locked one at a time, and a counter beside it that no lock covers.   *)
(* A restart loses the cache and replaces the key that signs leases.        *)
(*                                                                         *)
(* A proof is what the client signed: its jti, its iat and the lease it is  *)
(* bound to.  Several requests may carry one proof.  Every jti has a shard  *)
(* of its own, the finest locking the map can have.                        *)
(***************************************************************************)
EXTENDS Integers, FiniteSets

CONSTANTS
    Proofs,     \* DPoP proofs, by jti
    Requests,   \* requests, each served by a task of its own
    MaxAge,     \* IAT_MAX_AGE_SECS
    Skew,       \* IAT_CLOCK_SKEW_SECS
    Ttl,        \* REPLAY_TTL_SECS
    MaxDelay,   \* longest time from the check of iat to the end of the request
    Cap,        \* max_in_memory_entries
    Wrap,       \* 2^64: the counter's width
    MaxTime,    \* bound on the clock
    MaxRestarts \* bound on restarts

\* 180 > 60 + 5 + MaxDelay: a request may take up to 114 s to reach the cache.
\* The counter has 64 bits: it can tell below zero from full.
ASSUME ReplayAssumption ==
    /\ MaxAge \in Nat /\ Skew \in Nat /\ MaxDelay \in Nat /\ Ttl \in Nat
    /\ Ttl > MaxAge + Skew + MaxDelay
    /\ IsFiniteSet(Proofs) /\ IsFiniteSet(Requests)
    /\ Cap \in Nat \ {0} /\ Wrap \in Nat /\ Cap + 3 * Cardinality(Requests) < Wrap
    /\ MaxTime \in Nat /\ MaxRestarts \in Nat

VARIABLES
    clock,      \* seconds
    epoch,      \* which signing key the issuer holds
    proof,      \* proof -> what the client signed, NotSigned before
    seenAt,     \* the map: jti -> the instant stored, Absent without entry
    count,      \* entry_count
    req,        \* request -> where it is
    sweep,      \* the sweeper
    accepted,   \* proof -> times it passed
    missed      \* requests whose reservation a store undoes (history)

replayVars == <<clock, epoch, proof, seenAt, count, req, sweep, accepted, missed>>

Absent == -1
NotSigned == [iat |-> 0, epoch |-> -1]

\* at: step; proof: the one it carries; since: when iat was checked; instant:
\* its Instant::now().
Request == [at : {"idle", "verified", "timed", "reserved", "refused", "in", "out"},
            proof : SUBSET Proofs, since : Nat, instant : Nat]

NewRequest == [at |-> "idle", proof |-> {}, since |-> 0, instant |-> 0]

\* left: shards the current pass has not visited; sum: entries counted so far.
Sweeper == [phase : {"idle", "retain", "len", "store"}, at : Nat,
            left : SUBSET Proofs, sum : Nat]

Resting == [phase |-> "idle", at |-> 0, left |-> {}, sum |-> 0]

ProofOf(r) == CHOOSE p \in Proofs : p \in req[r].proof

\* A request between its two steps on the counter holds the shard of its jti.
ShardFree(p) ==
    \A r \in Requests : req[r].at \in {"reserved", "refused"} => p \notin req[r].proof

Underway(r) == req[r].at \in {"verified", "timed", "reserved", "refused"}

Entries == {p \in Proofs : seenAt[p] # Absent}

--------------------------------------------------------------------------------
ReplayInit ==
    /\ clock = 0 /\ epoch = 0
    /\ proof = [p \in Proofs |-> NotSigned]
    /\ seenAt = [p \in Proofs |-> Absent]
    /\ count = 0
    /\ req = [r \in Requests |-> NewRequest]
    /\ sweep = Resting
    /\ accepted = [p \in Proofs |-> 0]
    /\ missed = {}

ReplayTick ==
    /\ clock < MaxTime
    /\ \A r \in Requests : Underway(r) => clock < req[r].since + MaxDelay
    /\ clock' = clock + 1
    /\ UNCHANGED <<epoch, proof, seenAt, count, req, sweep, accepted, missed>>

\* The client signs with a clock of its own; the proof is bound to its lease.
SignDpopProof(p, iat) ==
    /\ proof[p] = NotSigned
    /\ proof' = [proof EXCEPT ![p] = [iat |-> iat, epoch |-> epoch]]
    /\ UNCHANGED <<clock, epoch, seenAt, count, req, sweep, accepted, missed>>

ValidateIatWindow(iat) == iat >= clock - MaxAge /\ iat <= clock + Skew

\* A variant with a fault: the proof's lease is not looked at.
VerifyIgnoresLease(r, p) ==
    /\ req[r].at = "idle" /\ proof[p] # NotSigned
    /\ ValidateIatWindow(proof[p].iat)
    /\ req' = [req EXCEPT ![r] = [at |-> "verified", proof |-> {p},
                                  since |-> clock, instant |-> 0]]
    /\ UNCHANGED <<clock, epoch, proof, seenAt, count, sweep, accepted, missed>>

\* verify_lease and verify_dpop_proof: a lease of another signing key, or a proof
\* outside the window, is refused.
VerifyDpopProof(r, p) ==
    /\ req[r].at = "idle" /\ proof[p] # NotSigned
    /\ proof[p].epoch = epoch /\ ValidateIatWindow(proof[p].iat)
    /\ req' = [req EXCEPT ![r] = [at |-> "verified", proof |-> {p},
                                  since |-> clock, instant |-> 0]]
    /\ UNCHANGED <<clock, epoch, proof, seenAt, count, sweep, accepted, missed>>

\* Instant::now(), before the entry is locked.
ReadInstant(r) ==
    /\ req[r].at = "verified"
    /\ req' = [req EXCEPT ![r].at = "timed", ![r].instant = clock]
    /\ UNCHANGED <<clock, epoch, proof, seenAt, count, sweep, accepted, missed>>

\* duration_since saturates: an entry stored later than our reading is fresh.
IsSeen(p, instant) == seenAt[p] # Absent /\ instant - seenAt[p] < Ttl

AdmitProof(r) ==
    /\ seenAt' = [seenAt EXCEPT ![ProofOf(r)] = req[r].instant]
    /\ req' = [req EXCEPT ![r].at = "in"]
    /\ accepted' = [accepted EXCEPT ![ProofOf(r)] = @ + 1]

\* Entry::Occupied: AlreadySeen, or the expired entry is overwritten.
CheckOccupied(r) ==
    /\ req[r].at = "timed" /\ ShardFree(ProofOf(r)) /\ ProofOf(r) \in Entries
    /\ IF IsSeen(ProofOf(r), req[r].instant)
       THEN /\ req' = [req EXCEPT ![r].at = "out"]
            /\ UNCHANGED <<seenAt, accepted>>
       ELSE AdmitProof(r)
    /\ UNCHANGED <<clock, epoch, proof, count, sweep, missed>>

\* The pass of len() has been at this shard: the store undoes a reservation made now.
Overlooked(p) == sweep.phase = "store" \/ (sweep.phase = "len" /\ p \notin sweep.left)

\* Entry::Vacant: the counter is raised before it is compared with the cap.
ReserveEntry(r) ==
    /\ req[r].at = "timed" /\ ShardFree(ProofOf(r)) /\ ProofOf(r) \notin Entries
    /\ count' = (count + 1) % Wrap
    /\ req' = [req EXCEPT ![r].at = IF count >= Cap THEN "refused" ELSE "reserved"]
    /\ missed' = IF Overlooked(ProofOf(r)) THEN missed \cup {r} ELSE missed
    /\ UNCHANGED <<clock, epoch, proof, seenAt, sweep, accepted>>

InsertEntry(r) ==
    /\ req[r].at = "reserved"
    /\ AdmitProof(r)
    /\ UNCHANGED <<clock, epoch, proof, count, sweep, missed>>

\* Over the cap: the reservation is taken back and the request denied.
GiveBack(r) ==
    /\ req[r].at = "refused"
    /\ count' = (count + Wrap - 1) % Wrap
    /\ req' = [req EXCEPT ![r].at = "out"]
    /\ UNCHANGED <<clock, epoch, proof, seenAt, sweep, accepted, missed>>

\* evict_expired: its Instant::now(), then a pass that drops expired entries, a
\* pass that counts, and the store into the counter.
SweepStarts ==
    /\ sweep.phase = "idle"
    /\ sweep' = [phase |-> "retain", at |-> clock, left |-> Proofs, sum |-> 0]
    /\ UNCHANGED <<clock, epoch, proof, seenAt, count, req, accepted, missed>>

RetainShard(p) ==
    /\ sweep.phase = "retain" /\ p \in sweep.left /\ ShardFree(p)
    /\ seenAt' = IF IsSeen(p, sweep.at) THEN seenAt ELSE [seenAt EXCEPT ![p] = Absent]
    /\ sweep' = [sweep EXCEPT !.left = @ \ {p}]
    /\ UNCHANGED <<clock, epoch, proof, count, req, accepted, missed>>

RetainEnds ==
    /\ sweep.phase = "retain" /\ sweep.left = {}
    /\ sweep' = [sweep EXCEPT !.phase = "len", !.left = Proofs]
    /\ UNCHANGED <<clock, epoch, proof, seenAt, count, req, accepted, missed>>

CountShard(p) ==
    /\ sweep.phase = "len" /\ p \in sweep.left /\ ShardFree(p)
    /\ sweep' = [sweep EXCEPT !.left = @ \ {p}, !.sum = IF p \in Entries THEN @ + 1 ELSE @,
                              !.phase = IF sweep.left = {p} THEN "store" ELSE @]
    /\ UNCHANGED <<clock, epoch, proof, seenAt, count, req, accepted, missed>>

StoreCount ==
    /\ sweep.phase = "store"
    /\ count' = sweep.sum % Wrap
    /\ sweep' = Resting
    /\ UNCHANGED <<clock, epoch, proof, seenAt, req, accepted, missed>>

\* The process is replaced: Issuer::new draws a signing key, the cache is empty.
Restart ==
    /\ epoch < MaxRestarts
    /\ epoch' = epoch + 1
    /\ seenAt' = [p \in Proofs |-> Absent]
    /\ count' = 0
    /\ req' = [r \in Requests |-> IF Underway(r) THEN [req[r] EXCEPT !.at = "out"] ELSE req[r]]
    /\ sweep' = Resting
    /\ missed' = {}
    /\ UNCHANGED <<clock, proof, accepted>>

\* Clients whose clock is right, as slow or as fast as the window bears.
SomeIats == {clock - MaxAge, clock, clock + Skew} \cap Nat

RequestStep(r) ==
    \/ ReadInstant(r) \/ CheckOccupied(r) \/ ReserveEntry(r)
    \/ InsertEntry(r) \/ GiveBack(r)

SweepStep ==
    \/ RetainEnds \/ StoreCount
    \/ \E p \in Proofs : RetainShard(p) \/ CountShard(p)

ReplayNext ==
    \/ ReplayTick \/ SweepStarts \/ SweepStep \/ Restart
    \/ \E p \in Proofs : \E iat \in SomeIats : SignDpopProof(p, iat)
    \/ \E r \in Requests : RequestStep(r) \/ \E p \in Proofs : VerifyDpopProof(r, p)

ReplaySpec == ReplayInit /\ [][ReplayNext]_replayVars

--------------------------------------------------------------------------------
\* Every variable has the shape the code gives it.
ReplayTypeOK ==
    /\ clock \in Nat /\ epoch \in Nat /\ count \in 0..(Wrap - 1)
    /\ proof \in [Proofs -> [iat : Nat, epoch : {-1} \cup Nat]]
    /\ seenAt \in [Proofs -> {Absent} \cup Nat]
    /\ req \in [Requests -> Request]
    /\ sweep \in Sweeper
    /\ accepted \in [Proofs -> Nat]
    /\ missed \subseteq Requests

\* The anti-replay promise: a proof admits one request, whatever requests carry
\* it at once or later, whenever the sweep runs and the process restarts.
ProofAdmittedOnce == \A p \in Proofs : accepted[p] <= 1

\* The cap bounds the map ("a memory-safety bound") but for what the sweep's store
\* into the counter undoes: a request that reserved behind the counting pass lets in
\* one entry more, its own, or, refused and then taken back, somebody else's.
CacheBounded == Cardinality(Entries) <= Cap + Cardinality(missed)

\* What the replay cache promises the requests that present a proof.
ReplaySafe == ReplayTypeOK /\ ProofAdmittedOnce /\ CacheBounded
================================================================================
