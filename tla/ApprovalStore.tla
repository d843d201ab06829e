----------------------------- MODULE ApprovalStore -----------------------------
(***************************************************************************)
(* The approval store (crates/latchgate-state): one record per approval,   *)
(* created by the pipeline when a policy asks for a human decision, claimed *)
(* by the operator call that decides it, and closed by that call in two     *)
(* writes: an outcome marker, then the terminal state.                     *)
(*                                                                         *)
(* Every operation is one atomic step of its backend: a Lua script for     *)
(* Redis, a transaction for SQLite, a write lock for the in-memory store.  *)
(* The backends differ in when a record can still be found, so the backend *)
(* is a parameter.  The clock a claim is judged by is read by the CALLER   *)
(* before the atomic step runs, so it may lag behind the store's.          *)
(***************************************************************************)
EXTENDS Naturals, FiniteSets

CONSTANTS
    Approvals,      \* approval identifiers (fresh UUIDs, each created once)
    Tokens,         \* claim tokens (16 random bytes, each used by one claim)
    Nil,            \* no token, no approval
    Backend,        \* "redis", "sqlite" or "memory"
    ClaimTTL,       \* claim_ttl_secs
    RecordTTL,      \* default_ttl: life of a record that is not closed
    ForensicsTTL,   \* forensics_ttl_secs: life of a closed Redis record
    ClockLag,       \* bound on how far a caller's reading of the clock lags
    MaxNow          \* bound on the modelled time

Backends == {"redis", "sqlite", "memory"}

ASSUME StoreAssumption ==
    /\ Backend \in Backends
    /\ Nil \notin Tokens \cup Approvals
    /\ ClaimTTL \in Nat \ {0} /\ RecordTTL \in Nat \ {0}
    /\ ForensicsTTL \in Nat /\ ClockLag \in Nat /\ MaxNow \in Nat

VARIABLES
    now,      \* the store's clock, in seconds
    rec,      \* approval -> its record
    issued    \* token -> the claim it stands for, as its holder knows it

storeVars == <<now, rec, issued>>

--------------------------------------------------------------------------------
(* Records and claims.                                                         *)

TerminalStates == {"approved", "denied", "failed"}     \* is_terminal
States == {"absent", "pending", "claimed"} \cup TerminalStates

None == "none"                 \* an Option that is None

IsTerminal(state) == state \in TerminalStates

\* What the store keeps: state, claim token, claim expiry, outcome marker,
\* expiry of the whole record (the Redis key's TTL, or expires_at_unix), and, of
\* the immutable payload, the expiry of the plan it holds.
Record == [state  : States,
           token  : Tokens \cup {Nil},
           exp    : Nat,
           marker : TerminalStates \cup {None},
           expiresAt : Nat,
           plan   : Nat]

AbsentRecord == [state |-> "absent", token |-> Nil, exp |-> 0,
                 marker |-> None, expiresAt |-> 0, plan |-> 0]

PendingRecord == [state |-> "pending", token |-> Nil, exp |-> 0,
                  marker |-> None, expiresAt |-> now + RecordTTL,
                  plan |-> now + RecordTTL]

\* What a claim's holder has: the approval, the window [from, exp) its claim
\* was granted for, and the one outcome it will close the approval with.
Claim == [approval : Approvals \cup {Nil}, from : Nat, exp : Nat,
          outcome : TerminalStates \cup {None}]

Unissued == [approval |-> Nil, from |-> 0, exp |-> 0, outcome |-> None]

IsIssued(tok) == issued[tok].approval # Nil

--------------------------------------------------------------------------------
(* Which records an operation can see.                                         *)

\* Redis drops a key when its TTL runs out; the other backends keep the row.
Exists(a) == /\ rec[a].state # "absent"
             /\ Backend = "redis" => now < rec[a].expiresAt

\* Claiming has a check of its own in the backends that keep the row: SQLite
\* accepts it for one more RecordTTL, the in-memory store while it is not older
\* than RecordTTL or is closed.  t is the caller's reading of the clock.
ClaimFinds(a, t) ==
    /\ Exists(a)
    /\ Backend = "sqlite" => rec[a].expiresAt + RecordTTL > t
    /\ Backend = "memory" => now < rec[a].expiresAt \/ IsTerminal(rec[a].state)

\* A variant with a fault: a claim may be taken over a second before it
\* lapses.
ClaimOneSecondEarly(r, t) ==
    CASE r.marker # None \/ IsTerminal(r.state) -> "AlreadyCompleted"
      [] r.state = "claimed" /\ t + 1 < r.exp -> "AlreadyClaimed"
      [] OTHER -> "ok"

\* A variant with a fault: a record in a terminal state can be claimed
\* again.
ClaimReopensClosed(r, t) ==
    CASE r.marker # None -> "AlreadyCompleted"
      [] r.state = "claimed" /\ t < r.exp -> "AlreadyClaimed"
      [] OTHER -> "ok"

\* validate_claim_transition and the body of LUA_CLAIM: the marker first, then
\* the state, then the expiry of the claim that is there.
ValidateClaimTransition(r, t) ==
    CASE r.marker # None \/ IsTerminal(r.state) -> "AlreadyCompleted"
      [] r.state = "claimed" /\ t < r.exp -> "AlreadyClaimed"
      [] OTHER -> "ok"

ClaimResult(a, t) ==
    IF ClaimFinds(a, t) THEN ValidateClaimTransition(rec[a], t) ELSE "NotFound"

\* A variant with a fault: the token of the caller is not compared with
\* the claim's.
RequireClaimedAnyToken(r, tok) ==
    CASE IsTerminal(r.state) -> "AlreadyCompleted"
      [] r.state # "claimed" -> "NotClaimed"
      [] OTHER -> "ok"

\* require_claimed_with_token and the guards of LUA_COMPLETE.
RequireClaimedWithToken(r, tok) ==
    CASE IsTerminal(r.state) -> "AlreadyCompleted"
      [] r.state # "claimed" -> "NotClaimed"
      [] r.token # tok -> "TokenMismatch"
      [] OTHER -> "ok"

CompleteResult(a, tok) ==
    IF Exists(a) THEN RequireClaimedWithToken(rec[a], tok) ELSE "NotFound"

\* An existing marker makes the write succeed without looking at the token.
MarkerResult(a, tok) ==
    CASE ~Exists(a) -> "NotFound"
      [] rec[a].marker # None -> "Idempotent"
      [] OTHER -> RequireClaimedWithToken(rec[a], tok)

\* effective_state: a claimed record with a marker already counts as closed.
EffectiveState(r) ==
    IF r.state = "claimed" /\ r.marker # None THEN r.marker ELSE r.state

\* The clock readings a caller may hold when its operation reaches the store.
CallerClock == {t \in 0..now : now <= t + ClockLag}

--------------------------------------------------------------------------------
Init ==
    /\ now = 0
    /\ rec = [a \in Approvals |-> AbsentRecord]
    /\ issued = [tok \in Tokens |-> Unissued]

CreatePending(a) ==
    /\ rec[a].state = "absent"
    /\ rec' = [rec EXCEPT ![a] = PendingRecord]
    /\ UNCHANGED <<now, issued>>

\* Redis and SQLite set the claim fields and nothing else: a claim does not
\* extend the life of the record.
ClaimPending(a, tok, t) ==
    /\ ~IsIssued(tok)
    /\ t \in CallerClock
    /\ ClaimResult(a, t) = "ok"
    /\ rec' = [rec EXCEPT ![a].state = "claimed", ![a].token = tok,
                          ![a].exp = t + ClaimTTL]
    /\ issued' = [issued EXCEPT ![tok] = [approval |-> a, from |-> t,
                                          exp |-> t + ClaimTTL,
                                          outcome |-> None]]
    /\ UNCHANGED now

\* The holder settles on the outcome it closes the approval with: one kind is
\* passed to both writes of finalize_outcome, and the holder never changes it.
Decide(tok, kind) ==
    /\ IsIssued(tok)
    /\ issued[tok].outcome = None
    /\ issued' = [issued EXCEPT ![tok].outcome = kind]
    /\ UNCHANGED <<now, rec>>

WriteOutcomeMarker(tok) ==
    /\ issued[tok].outcome # None
    /\ MarkerResult(issued[tok].approval, tok) = "ok"
    /\ rec' = [rec EXCEPT ![issued[tok].approval].marker = issued[tok].outcome]
    /\ UNCHANGED <<now, issued>>

\* The records once a is closed with kind: LUA_COMPLETE also renews the key's
\* TTL; the row backends keep the expiry they had.
Completed(a, kind) ==
    [rec EXCEPT ![a].state = kind,
                ![a].expiresAt = IF Backend = "redis" THEN now + ForensicsTTL ELSE @]

Complete(tok) ==
    LET a == issued[tok].approval IN
    /\ issued[tok].outcome # None
    /\ CompleteResult(a, tok) = "ok"
    /\ rec' = Completed(a, issued[tok].outcome)
    /\ UNCHANGED <<now, issued>>

Tick ==
    /\ now < MaxNow
    /\ now' = now + 1
    /\ UNCHANGED <<rec, issued>>

Next ==
    \/ \E a \in Approvals : CreatePending(a)
    \/ \E a \in Approvals, tok \in Tokens, t \in CallerClock :
           ClaimPending(a, tok, t)
    \/ \E tok \in Tokens, kind \in TerminalStates : Decide(tok, kind)
    \/ \E tok \in Tokens : WriteOutcomeMarker(tok) \/ Complete(tok)
    \/ Tick

Spec == Init /\ [][Next]_storeVars

--------------------------------------------------------------------------------
(* What makes the store correct.                                               *)

\* Every variable has the shape the code gives it.
StoreTypeOK ==
    /\ now \in Nat
    /\ rec \in [Approvals -> Record]
    /\ issued \in [Tokens -> Claim]

\* "At most one caller succeeds": the windows of two claims on one approval never
\* overlap, although each caller judges the claim it displaces by a clock of its
\* own that may lag.  Exclusive ownership of an approval rests on this.
ClaimWindowsDisjoint ==
    \A t1, t2 \in Tokens :
        (t1 # t2 /\ IsIssued(t1) /\ issued[t1].approval = issued[t2].approval) =>
            issued[t1].exp <= issued[t2].from \/ issued[t2].exp <= issued[t1].from

\* The record belongs to the claim issued last: an older holder, whose claim ran
\* out and was taken over, can no longer mark or close it (TokenMismatch).
RecordHeldByLatestClaim ==
    \A a \in Approvals, tok \in Tokens :
        (IsIssued(tok) /\ issued[tok].approval = a) =>
            /\ rec[a].token \in Tokens
            /\ issued[rec[a].token].approval = a
            /\ issued[tok].from <= issued[rec[a].token].from

\* A marker, and a terminal state, are the verdict of the claim that holds the
\* record: no verdict is ever attributed to an approval by someone else's claim.
VerdictIsTheHolders ==
    \A a \in Approvals :
        /\ rec[a].marker # None => rec[a].marker = issued[rec[a].token].outcome
        /\ IsTerminal(rec[a].state) => rec[a].state = issued[rec[a].token].outcome

\* Once there is a marker the approval can never be claimed again, even if the
\* write of the terminal state is lost: "the primary defense against double
\* execution" (LUA_CLAIM, validate_claim_transition).
MarkedNeverReclaimed ==
    [][\A a \in Approvals :
          rec[a].marker # None => rec'[a].token = rec[a].token]_storeVars

Lifecycle == INSTANCE ApprovalLifecycle WITH
    Items <- Approvals, Verdicts <- TerminalStates,
    verdict <- [a \in Approvals |-> EffectiveState(rec[a])]

\* As effective_state shows it, an approval is opened once and closed once, and a
\* verdict never changes: not by the second write of the closing, not by a late
\* holder, not by another claim.
ImplementsLifecycle == Lifecycle!LifecycleSpec
================================================================================
