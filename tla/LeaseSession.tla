------------------------------ MODULE LeaseSession ------------------------------
(***************************************************************************)
(* A session from its lease to its last execution: issue_lease             *)
(* (crates/latchgate-api leases.rs, crates/latchgate-auth issuer), the     *)
(* session's budget in Redis (crates/latchgate-state budgets.rs) and its   *)
(* filesystem root in the gate's memory (crates/latchgate-kernel state.rs),*)
(* each with a lifetime of its own, and the executions that look them up,  *)
(* directly or after an operator's approval.                               *)
(*                                                                         *)
(* The store can fail between the two commands that set a budget up, a key *)
(* expires on its own, a sweep drops old roots, and a restart of the gate  *)
(* loses the roots and the key that signs leases but not budgets and       *)
(* pending approvals.                                                      *)
(***************************************************************************)
EXTENDS Integers

CONSTANTS
    Sessions,       \* server-issued session ids
    Wishes,         \* what a client may ask as max_calls: numbers, Unset, NoBudget
    Unset,          \* budgets without max_calls
    NoBudget,       \* no budgets in the request
    LeaseTtl,       \* config policy.lease_ttl_seconds
    MaxLeaseTtl,    \* MAX_LEASE_TTL_SECS
    GracePeriod,    \* 60 s: budget grace, SESSION_FS_ROOT_EVICTION_GRACE_SECS
    ApprovalTtl,    \* APPROVAL_TTL_SECS
    Word,           \* 2^64: the width of the budget
    LastSecond,     \* bound on time
    MaxCallsMade,   \* bound on the calls of a session
    MaxRestart      \* bound on restarts of the gate

ASSUME SessionAssumption ==
    /\ Wishes \subseteq Nat \cup {Unset, NoBudget} /\ Unset # NoBudget
    /\ Unset \notin Int /\ NoBudget \notin Int
    /\ \A w \in Wishes : w \in Nat => 2 * w < Word - 2    \* less than i64::MAX
    /\ LeaseTtl \in Nat \ {0} /\ MaxLeaseTtl \in Nat \ {0} /\ GracePeriod \in Nat \ {0}
    /\ ApprovalTtl \in Nat /\ Word \in Nat /\ Word > 1
    /\ LastSecond \in Nat /\ MaxCallsMade \in Nat /\ MaxRestart \in Nat

VARIABLES
    sessionTime,    \* the clock
    gateRuns,   \* restarts of the gate so far
    lease,      \* session -> its lease, and how far issue_lease has got
    budget,     \* session -> its key in the store
    root,       \* session -> creation time of its fs_root entry, NoRoot without
    pending,    \* session -> deadline of its pending approval, NoRoot without
    made,       \* session -> calls, direct or approved, debited and not given back
    refused,    \* sessions with a call refused by the budget store
    ranIn       \* session -> roots its executions were given

sessionVars == <<sessionTime, gateRuns, lease, budget, root, pending, made, refused, ranIn>>

NoRoot == -1
NoExpiry == -1

\* wish, rooted: the request; at: now_secs() of the issuer; gate: restarts at
\* that time, which tells the signing key.
Lease == [step : {"none", "init", "expire", "store", "issued", "failed"},
          wish : Wishes \cup {NoBudget}, rooted : BOOLEAN, at : Nat, gate : Nat]

NoLease == [step |-> "none", wish |-> NoBudget, rooted |-> FALSE, at |-> 0, gate |-> 0]

Budget == [there : BOOLEAN, calls : (-(Word \div 2))..(Word \div 2), expires : Int]

NoKey == [there |-> FALSE, calls |-> 0, expires |-> NoExpiry]

Smaller(a, b) == IF a <= b THEN a ELSE b

\* verify_lease: signed by this process's key and not expired (leeway 0).
LeaseValid(s) ==
    /\ lease[s].step = "issued" /\ lease[s].gate = gateRuns
    /\ sessionTime < lease[s].at + Smaller(LeaseTtl, MaxLeaseTtl)

\* "calls as i64".
AsI64(u) == IF 2 * u >= Word THEN u - Word ELSE u

\* max_calls.unwrap_or(u64::MAX)
CallsGiven(wish) == AsI64(IF wish = Unset THEN Word - 1 ELSE wish)

--------------------------------------------------------------------------------
SessionInit ==
    /\ sessionTime = 0 /\ gateRuns = 0
    /\ lease = [s \in Sessions |-> NoLease]
    /\ budget = [s \in Sessions |-> NoKey]
    /\ root = [s \in Sessions |-> NoRoot]
    /\ pending = [s \in Sessions |-> NoRoot]
    /\ made = [s \in Sessions |-> 0]
    /\ refused = {}
    /\ ranIn = [s \in Sessions |-> {}]

SessionTick ==
    /\ sessionTime < LastSecond
    /\ sessionTime' = sessionTime + 1
    /\ UNCHANGED <<gateRuns, lease, budget, root, pending, made, refused, ranIn>>

\* Identity, scopes and fs_root are accepted and the lease is signed.
IssueLease(s, wish, rooted) ==
    /\ lease[s].step = "none"
    /\ lease' = [lease EXCEPT ![s] =
          [step |-> IF wish = NoBudget THEN "store" ELSE "init", wish |-> wish,
           rooted |-> rooted, at |-> sessionTime, gate |-> gateRuns]]
    /\ UNCHANGED <<sessionTime, gateRuns, budget, root, pending, made, refused, ranIn>>

\* HSETNX; a failing store ends the request with 503.
InitBudget(s, ok) ==
    /\ lease[s].step = "init"
    /\ lease' = [lease EXCEPT ![s].step = IF ok THEN "expire" ELSE "failed"]
    /\ budget' = IF ok THEN [budget EXCEPT ![s] =
                               [there |-> TRUE, calls |-> CallsGiven(lease[s].wish),
                                expires |-> NoExpiry]]
                 ELSE budget
    /\ UNCHANGED <<sessionTime, gateRuns, root, pending, made, refused, ranIn>>

\* A variant with a fault: the budget's key does not live as long as the
\* lease.
BudgetLifeShort == 1

\* The life given to the key: lease_ttl_seconds + 60.
BudgetLife == LeaseTtl + GracePeriod

\* EXPIRE; when it fails the key stays for ever and the client gets no lease.
ExpireBudget(s, ok) ==
    /\ lease[s].step = "expire"
    /\ lease' = [lease EXCEPT ![s].step = IF ok THEN "store" ELSE "failed"]
    /\ budget' = IF ok THEN [budget EXCEPT ![s].expires = sessionTime + BudgetLife] ELSE budget
    /\ UNCHANGED <<sessionTime, gateRuns, root, pending, made, refused, ranIn>>

\* The fs_root entry, the audit event and the answer.
AnswerLease(s) ==
    /\ lease[s].step = "store"
    /\ root' = IF lease[s].rooted THEN [root EXCEPT ![s] = sessionTime] ELSE root
    /\ lease' = [lease EXCEPT ![s].step = "issued"]
    /\ UNCHANGED <<sessionTime, gateRuns, budget, pending, made, refused, ranIn>>

\* The root build_fs_host_config uses: the session's or the gate's own.
RootFor(s) == IF root[s] # NoRoot THEN "session" ELSE "global"

\* A lease with budgets: the plan's calls_remaining is not i64::MAX.
Capped(s) == lease[s].wish # NoBudget

\* get_and_debit refuses (SessionNotFound, Exhausted): the call ends, denied.
Refuse(s) ==
    /\ Capped(s) /\ ~(budget[s].there /\ budget[s].calls > 0)
    /\ refused' = refused \cup {s}
    /\ UNCHANGED <<budget, made, ranIn>>

\* get_and_debit grants; then the execution is built and runs in its root, or
\* building it fails and RollbackBudget may follow.
Debit(s, kind) ==
    /\ made[s] < MaxCallsMade
    /\ Capped(s) => budget[s].there /\ budget[s].calls > 0
    /\ budget' = IF Capped(s) THEN [budget EXCEPT ![s].calls = @ - 1] ELSE budget
    /\ made' = [made EXCEPT ![s] = @ + 1]
    /\ \/ ranIn' = [ranIn EXCEPT ![s] = @ \cup {<<kind, RootFor(s)>>}]
       \/ UNCHANGED ranIn
    /\ UNCHANGED refused

\* A direct call under a valid lease.
CallAction(s) ==
    /\ LeaseValid(s)
    /\ Refuse(s) \/ Debit(s, "direct")
    /\ UNCHANGED <<sessionTime, gateRuns, lease, root, pending>>

\* A call that policy refers to an operator leaves a pending approval, unless the
\* snapshot of its budget finds no key (refused as in CallAction).
RequestApproval(s) ==
    /\ LeaseValid(s) /\ pending[s] = NoRoot
    /\ Capped(s) => budget[s].there
    /\ pending' = [pending EXCEPT ![s] = sessionTime + ApprovalTtl]
    /\ UNCHANGED <<sessionTime, gateRuns, lease, budget, root, made, refused, ranIn>>

\* approve: the lease is not looked at again, the session's budget and root are,
\* as the approval finds them.
ApproveExecution(s) ==
    /\ pending[s] # NoRoot /\ sessionTime < pending[s]
    /\ pending' = [pending EXCEPT ![s] = NoRoot]
    /\ Refuse(s) \/ Debit(s, "approved")
    /\ UNCHANGED <<sessionTime, gateRuns, lease, root>>

\* A late rollback: HINCRBY makes an expired key anew, without expiry.
RollbackBudget(s) ==
    /\ made[s] > 0 /\ Capped(s)
    /\ budget' = [budget EXCEPT ![s].there = TRUE, ![s].calls = @ + 1]
    /\ made' = [made EXCEPT ![s] = @ - 1]
    /\ UNCHANGED <<sessionTime, gateRuns, lease, root, pending, refused, ranIn>>

\* Redis drops a key whose time is up.
KeyExpires(s) ==
    /\ budget[s].there /\ budget[s].expires # NoExpiry /\ sessionTime >= budget[s].expires
    /\ budget' = [budget EXCEPT ![s] = NoKey]
    /\ UNCHANGED <<sessionTime, gateRuns, lease, root, pending, made, refused, ranIn>>

RootLife == LeaseTtl + GracePeriod

\* evict_expired_session_fs_roots.
EvictFsRoots ==
    /\ root' = [s \in Sessions |->
                  IF sessionTime - root[s] < RootLife THEN root[s] ELSE NoRoot]
    /\ root' # root
    /\ UNCHANGED <<sessionTime, gateRuns, lease, budget, pending, made, refused, ranIn>>

\* A new process: no roots, a new signing key; requests under way are gone.
RestartGate ==
    /\ gateRuns < MaxRestart
    /\ gateRuns' = gateRuns + 1
    /\ root' = [s \in Sessions |-> NoRoot]
    /\ lease' = [s \in Sessions |->
                   IF lease[s].step \in {"init", "expire", "store"}
                   THEN [lease[s] EXCEPT !.step = "failed"] ELSE lease[s]]
    /\ UNCHANGED <<sessionTime, budget, pending, made, refused, ranIn>>

SessionNext ==
    \/ SessionTick \/ EvictFsRoots \/ RestartGate
    \/ \E s \in Sessions :
          \/ \E wish \in Wishes, rooted \in BOOLEAN : IssueLease(s, wish, rooted)
          \/ \E ok \in BOOLEAN : InitBudget(s, ok) \/ ExpireBudget(s, ok)
          \/ AnswerLease(s) \/ CallAction(s) \/ RequestApproval(s)
          \/ ApproveExecution(s) \/ RollbackBudget(s) \/ KeyExpires(s)

SessionSpec == SessionInit /\ [][SessionNext]_sessionVars

--------------------------------------------------------------------------------
\* Every variable has the shape the code gives it.
SessionTypeOK ==
    /\ sessionTime \in Nat /\ gateRuns \in Nat
    /\ lease \in [Sessions -> Lease]
    /\ budget \in [Sessions -> Budget]
    /\ root \in [Sessions -> {NoRoot} \cup Nat]
    /\ pending \in [Sessions -> {NoRoot} \cup Nat]
    /\ made \in [Sessions -> Nat] /\ refused \subseteq Sessions
    /\ \A s \in Sessions : ranIn[s] \subseteq {"direct", "approved"} \X {"session", "global"}

\* The budget and the root of a session live as long as its lease: a client with
\* a valid lease never loses its budget key, so that it is refused only because
\* its calls are used up, and never falls back to the gate's root.
StateOutlivesLease ==
    \A s \in Sessions : LeaseValid(s) =>
        /\ lease[s].wish # NoBudget => budget[s].there
        /\ lease[s].rooted => root[s] # NoRoot

\* redis_init sets field and expiry in two commands and a rollback may make a key
\* anew: a key that never expires belongs to no session with a valid lease, so no
\* direct call draws on it.  (An approved call may: the lease is not checked again.)
EternalKeysAreUnusable ==
    \A s \in Sessions :
        budget[s].there /\ budget[s].expires = NoExpiry => ~LeaseValid(s)

\* The calls of a session, direct and approved, that were debited and not given
\* back never exceed what it asked for, over failed set-ups, rollbacks that make an
\* expired key anew, approvals answered after the lease has ended, and restarts.
CallsWithinWish ==
    \A s \in Sessions : lease[s].wish \in Nat => made[s] <= lease[s].wish

\* A direct call of a session with a root of its own runs in it.
DirectCallsInSessionRoot ==
    \A s \in Sessions : lease[s].rooted => <<"direct", "global">> \notin ranIn[s]

\* security_constants.rs: the grace period "ensures in-flight executions at lease
\* expiry are not disrupted": an approved execution too runs in the session's root.
ApprovedInSessionRoot ==
    \A s \in Sessions : lease[s].rooted => <<"approved", "global">> \notin ranIn[s]

\* jwt.rs: "absent = unconstrained for that dimension": a lease whose budgets leave
\* max_calls out is never refused by the budget store.
AbsentIsUnconstrained ==
    \A s \in Sessions : lease[s].wish = Unset => s \notin refused

\* What a lease may rely on while its session lives.
SessionSafe ==
    /\ SessionTypeOK
    /\ StateOutlivesLease
    /\ EternalKeysAreUnusable
    /\ CallsWithinWish
    /\ DirectCallsInSessionRoot
================================================================================
