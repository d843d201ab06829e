----------------------------- MODULE ExecutionTail -----------------------------
(***************************************************************************)
(* What an action call does once a policy or an operator has allowed it    *)
(* (crates/latchgate-kernel): debit the session's budget, build a grant,   *)
(* validate it, record the intent and consume the grant in one ledger      *)
(* transaction, dispatch the provider, check its output, and persist the   *)
(* evidence before any success is reported.  execute_authorized_plan is    *)
(* the only place a provider is dispatched; both the automatic path        *)
(* (Pipeline) and the operator's path (ApprovalFlow) end in it, so its     *)
(* steps are written once, here, as actions on a "run".                    *)
(*                                                                         *)
(* Every step below ends at an await of the code: other runs, a            *)
(* revocation or the loss of the request can come between any two of them. *)
(***************************************************************************)
EXTENDS Naturals, FiniteSets

CONSTANTS
    Runs,          \* one per execution attempt; names its grant and its trace
    Traces,        \* keys of audit_events (UNIQUE trace_id); includes Runs
    Sessions,
    Budgeted,      \* the sessions whose lease carries a budget
    InitBudget,    \* calls granted to each of them
    MaxEpoch,      \* bound on the revocations modelled
    StoreFaults,   \* may a call to the state store (Redis, SQLite) fail?
    LedgerFaults,  \* may a write to the ledger fail?
    Abandons       \* may a request be lost (crash, client gone) midway?

ASSUME TailAssumption ==
    /\ Runs \subseteq Traces
    /\ IsFiniteSet(Runs)
    /\ Budgeted \subseteq Sessions
    /\ InitBudget \in Nat /\ MaxEpoch \in Nat
    /\ {StoreFaults, LedgerFaults, Abandons} \subseteq BOOLEAN

VARIABLES
    budget,    \* session -> calls_remaining
    epoch,     \* revocation_epoch
    audit,     \* trace -> the one event audit_events holds for it
    intents,   \* execution_intents and consumed_grants, written together
    receipts,  \* receipts
    effects,   \* runs whose provider has acted on the outside world
    run        \* run -> its progress

tailVars == <<budget, epoch, audit, intents, receipts, effects, run>>

--------------------------------------------------------------------------------
NoEvent == "none"
Events == {"PendingApproval", "Allow", "Deny", "Error", "BudgetRollbackFailed"}

FrontSteps == {"idle", "policy", "plan"}          \* used by the two paths
BuildSteps == {"debit", "build"}
TailSteps == {"validate", "intent", "dispatch", "output", "evidence"}
\* How a failing run cleans up.  refund_audit: roll back, then audit
\* (deny_pre_dispatch and the operator's path); audit_refund: the other order
\* (the automatic path's build errors); audit and refund: one step left.
CleanupSteps == {"refund_audit", "audit_refund", "audit", "refund"}
EndSteps == {"done", "lost"}
Steps == FrontSteps \cup BuildSteps \cup TailSteps \cup CleanupSteps \cup EndSteps

Risks == {"low", "high"}           \* high stands for High and Critical
Shed == {"limited", "draining"}    \* refused unread: by the limiter, at a drain

\* approved: the grant carries an approval_hash.  debited: budget_debited,
\* cleared when the debit is given back.  at: the trace its failure events
\* carry.  event: the failure event to write.
Run == [pc : Steps, session : Sessions, risk : Risks, approved : BOOLEAN,
        debited : BOOLEAN, epoch : Nat, at : Traces,
        event : Events \cup {NoEvent}, result : {"none", "ok", "error"} \cup Shed]

NewRun(e, s, risk, approved, at) ==
    [pc |-> "idle", session |-> s, risk |-> risk, approved |-> approved,
     debited |-> FALSE, epoch |-> 0, at |-> at, event |-> NoEvent,
     result |-> "none"]

InFlight(e) == run[e].pc \notin {"idle"} \cup EndSteps

\* What get_unresolved_intents reports to the operator.
UnresolvedIntents == intents \ receipts

--------------------------------------------------------------------------------
(* Writes to the ledger.                                                       *)

\* audit_events has UNIQUE(trace_id): a second event for a trace is refused.
AppendEvent(tr, event) ==
    audit' = IF audit[tr] = NoEvent THEN [audit EXCEPT ![tr] = event] ELSE audit

\* write_audit logs a refused or failed write and goes on.
WriteAudit(tr, event) ==
    \/ AppendEvent(tr, event)
    \/ LedgerFaults /\ audit' = audit

GoTo(e, pc) == run' = [run EXCEPT ![e].pc = pc]

\* Leave the straight path: note what to record, and how to clean up.
FailTo(e, pc, event) ==
    run' = [run EXCEPT ![e].pc = pc, ![e].event = event, ![e].result = "error"]

--------------------------------------------------------------------------------
(* The budget.                                                                 *)

\* The two atomic operations of the store that change a session's budget.
Debit(s) == budget' = [budget EXCEPT ![s] = @ - 1]
Rollback(s) == budget' = [budget EXCEPT ![s] = @ + 1]

\* A variant with a fault: a call goes on when the store cannot be
\* reached.
DebitFailsOpen(e) ==
    LET s == run[e].session IN
    /\ run[e].pc = "debit"
    /\ \/ /\ s \in Budgeted /\ budget[s] > 0
          /\ Debit(s)
          /\ run' = [run EXCEPT ![e].pc = "build", ![e].debited = TRUE]
       \/ (s \notin Budgeted \/ StoreFaults) /\ GoTo(e, "build") /\ UNCHANGED budget
    /\ UNCHANGED <<epoch, audit, intents, receipts, effects>>

\* A variant with a fault: a debit whose reply was lost is sent once more.
DebitSentAgain(e) ==
    LET s == run[e].session IN
    /\ run[e].pc = "debit"
    /\ \/ s \notin Budgeted /\ GoTo(e, "build") /\ UNCHANGED budget
       \/ /\ s \in Budgeted /\ budget[s] > 0
          /\ \/ Debit(s)
             \/ StoreFaults /\ budget[s] > 1 /\ budget' = [budget EXCEPT ![s] = @ - 2]
          /\ run' = [run EXCEPT ![e].pc = "build", ![e].debited = TRUE]
       \/ /\ s \in Budgeted
          /\ budget[s] = 0 \/ StoreFaults
          /\ FailTo(e, "audit", "Deny") /\ UNCHANGED budget
    /\ UNCHANGED <<epoch, audit, intents, receipts, effects>>

\* get_and_debit is atomic in the store.  When its reply is lost the caller sees
\* Unavailable although the call was charged.
DebitBudget(e) ==
    LET s == run[e].session IN
    /\ run[e].pc = "debit"
    /\ \/ /\ s \notin Budgeted
          /\ GoTo(e, "build")
          /\ UNCHANGED budget
       \/ /\ s \in Budgeted /\ budget[s] > 0
          /\ Debit(s)
          /\ run' = [run EXCEPT ![e].pc = "build", ![e].debited = TRUE]
       \/ /\ s \in Budgeted /\ budget[s] = 0
          /\ FailTo(e, "audit", "Deny")
          /\ UNCHANGED budget
       \/ /\ StoreFaults /\ s \in Budgeted
          /\ \/ UNCHANGED budget
             \/ budget[s] > 0 /\ Debit(s)
          /\ FailTo(e, "audit", "Deny")
    /\ UNCHANGED <<epoch, audit, intents, receipts, effects>>

\* rollback_budget_if_debited: a failed rollback is written to the ledger under
\* the run's own trace.  A rollback whose reply is lost looks failed too.
RefundBudget(e, next) ==
    LET s == run[e].session IN
    /\ \/ /\ ~run[e].debited
          /\ GoTo(e, next)
          /\ UNCHANGED <<budget, audit>>
       \/ /\ run[e].debited
          /\ Rollback(s)
          /\ run' = [run EXCEPT ![e].pc = next, ![e].debited = FALSE]
          /\ UNCHANGED audit
       \/ /\ run[e].debited /\ StoreFaults
          /\ \/ /\ GoTo(e, next)
                /\ UNCHANGED budget
             \/ /\ run' = [run EXCEPT ![e].pc = next, ![e].debited = FALSE]
                /\ Rollback(s)
          /\ WriteAudit(e, "BudgetRollbackFailed")
    /\ UNCHANGED <<epoch, intents, receipts, effects>>

--------------------------------------------------------------------------------
(* The grant, the dispatch and the evidence.                                   *)

\* A variant with a fault: a grant that cannot be built keeps the debited
\* call.
BuildForgetsRefund(e, cleanup) ==
    /\ run[e].pc = "build"
    /\ \/ run' = [run EXCEPT ![e].pc = "validate", ![e].epoch = epoch, ![e].at = e]
       \/ FailTo(e, "audit", "Error")
    /\ UNCHANGED <<budget, epoch, audit, intents, receipts, effects>>

\* The grant is new: a fresh id, signed, stamped with the epoch of this moment.
\* Secrets, arguments or the provider module may turn out to be missing; the
\* two paths clean up in different orders.  Once built, the run reports failures
\* under its own trace.
BuildRun(e, cleanup) ==
    /\ run[e].pc = "build"
    /\ \/ run' = [run EXCEPT ![e].pc = "validate", ![e].epoch = epoch,
                             ![e].at = e]
       \/ FailTo(e, cleanup, "Error")
    /\ UNCHANGED <<budget, epoch, audit, intents, receipts, effects>>

\* A variant with a fault: the grant of a high-risk run needs no approval.
GrantNeedsNoApproval(e, expired) == ~expired /\ run[e].epoch >= epoch

\* A variant with a fault: the epoch of the grant is not compared.
GrantOutlivesRevocation(e, expired) == ~expired /\ (run[e].risk = "high" => run[e].approved)

\* is_valid (the expiry is the environment's choice) and the approval check; the
\* signature was made a moment ago by this process.
GrantIsValid(e, expired) ==
    /\ ~expired
    /\ run[e].epoch >= epoch
    /\ run[e].risk = "high" => run[e].approved

ValidateGrant(e) ==
    /\ run[e].pc = "validate"
    /\ \E expired \in BOOLEAN :
          IF GrantIsValid(e, expired) THEN GoTo(e, "intent")
                                      ELSE FailTo(e, "refund_audit", "Deny")
    /\ UNCHANGED <<budget, epoch, audit, intents, receipts, effects>>

\* A variant with a fault: the dispatch goes on when the intent was not
\* written.
IntentIsBestEffort(e) ==
    /\ run[e].pc = "intent"
    /\ intents' = intents \cup {e} \/ (LedgerFaults /\ UNCHANGED intents)
    /\ GoTo(e, "dispatch")
    /\ UNCHANGED <<budget, epoch, audit, receipts, effects>>

\* One BEGIN IMMEDIATE transaction for both tables.
WriteIntentAndConsumeGrant(e) ==
    /\ run[e].pc = "intent"
    /\ \/ /\ e \notin intents
          /\ intents' = intents \cup {e}
          /\ GoTo(e, "dispatch")
       \/ /\ e \in intents \/ LedgerFaults
          /\ FailTo(e, "refund_audit", "Deny")
          /\ UNCHANGED intents
    /\ UNCHANGED <<budget, epoch, audit, receipts, effects>>

\* A variant with a fault: an error of the provider gives the call back.
DispatchErrorRefunds(e) ==
    /\ run[e].pc = "dispatch"
    /\ \/ effects' = effects \cup {e} /\ GoTo(e, "output")
       \/ effects' \in {effects, effects \cup {e}} /\ FailTo(e, "refund_audit", "Error")
    /\ UNCHANGED <<budget, epoch, audit, intents, receipts>>

\* The provider may act and still report an error (a timeout, say); the budget
\* is kept in either case.
Dispatch(e) ==
    /\ run[e].pc = "dispatch"
    /\ \/ /\ effects' = effects \cup {e}
          /\ GoTo(e, "output")
       \/ /\ effects' \in {effects, effects \cup {e}}
          /\ FailTo(e, "audit", "Error")
    /\ UNCHANGED <<budget, epoch, audit, intents, receipts>>

\* deny_high_risk_verification_failure keeps the receipt if it can.
WriteForensicReceipt(e) ==
    \/ receipts' = receipts \cup {e}
    \/ LedgerFaults /\ UNCHANGED receipts

\* enforce_response_schema, then the verifier: a failed verification ends a
\* high-risk run, and only marks a low-risk one as unverified.
CheckOutput(e) ==
    /\ run[e].pc = "output"
    /\ \/ GoTo(e, "evidence") /\ UNCHANGED receipts
       \/ FailTo(e, "audit", "Deny") /\ UNCHANGED receipts
       \/ /\ run[e].risk = "high"
          /\ FailTo(e, "audit", "Deny")
          /\ WriteForensicReceipt(e)
    /\ UNCHANGED <<budget, epoch, audit, intents, effects>>

\* A variant with a fault: a failure to verify high-risk evidence is let
\* through.
EvidenceIsBestEffort(e) ==
    /\ run[e].pc = "evidence"
    /\ run' = [run EXCEPT ![e].pc = "done", ![e].result = "ok"]
    /\ \/ receipts' = receipts \cup {e} /\ audit' = [audit EXCEPT ![e] = "Allow"]
       \/ LedgerFaults /\ UNCHANGED <<audit, receipts>>
    /\ UNCHANGED <<budget, epoch, intents, effects>>

\* Receipt and final event, in one transaction.
CommitEvidence(e) ==
    /\ audit[e] = NoEvent
    /\ receipts' = receipts \cup {e}
    /\ audit' = [audit EXCEPT ![e] = "Allow"]

\* Success is reported only if the evidence commits.  A fault may also strike
\* after the commit, when the event's hash is computed.  An output that cannot be
\* hashed fails before the transaction, and no event is written for it.
FinalizeEvidence(e) ==
    LET Report(result) == run' = [run EXCEPT ![e].pc = "done", ![e].result = result]
    IN
    /\ run[e].pc = "evidence"
    /\ \/ CommitEvidence(e) /\ Report("ok")
       \/ LedgerFaults /\ CommitEvidence(e) /\ Report("error")
       \/ Report("error") /\ UNCHANGED <<audit, receipts>>
    /\ UNCHANGED <<budget, epoch, intents, effects>>

--------------------------------------------------------------------------------
(* Cleaning up after a failure.                                                *)

WriteFailureAudit(e) ==
    /\ run[e].pc \in {"audit", "audit_refund"}
    /\ WriteAudit(run[e].at, run[e].event)
    /\ GoTo(e, IF run[e].pc = "audit" THEN "done" ELSE "refund")
    /\ UNCHANGED <<budget, epoch, intents, receipts, effects>>

RollBack(e) ==
    \/ run[e].pc = "refund_audit" /\ RefundBudget(e, "audit")
    \/ run[e].pc = "refund" /\ RefundBudget(e, "done")

--------------------------------------------------------------------------------
(* The environment.                                                            *)

\* advance_revocation_epoch: one atomic increment, at any moment.
RevokeAll ==
    /\ epoch < MaxEpoch
    /\ epoch' = epoch + 1
    /\ UNCHANGED <<budget, audit, intents, receipts, effects, run>>

\* The request's future is dropped at an await, or the process dies: nothing
\* after this point runs, and nothing already written is undone.
Abandon(e) ==
    /\ Abandons
    /\ InFlight(e)
    /\ GoTo(e, "lost")
    /\ UNCHANGED <<budget, epoch, audit, intents, receipts, effects>>

\* The steps a run takes on its own behalf, from the debit to its end.
RunStep(e, cleanup) ==
    \/ DebitBudget(e)
    \/ BuildRun(e, cleanup)
    \/ ValidateGrant(e)
    \/ WriteIntentAndConsumeGrant(e)
    \/ Dispatch(e)
    \/ CheckOutput(e)
    \/ FinalizeEvidence(e)
    \/ WriteFailureAudit(e)
    \/ RollBack(e)

TailInit ==
    /\ budget = [s \in Sessions |-> InitBudget]
    /\ epoch = 0
    /\ audit = [tr \in Traces |-> NoEvent]
    /\ intents = {} /\ receipts = {} /\ effects = {}

TailTypeOK ==
    /\ budget \in [Sessions -> Nat]
    /\ epoch \in Nat
    /\ audit \in [Traces -> Events \cup {NoEvent}]
    /\ intents \subseteq Runs /\ receipts \subseteq Runs /\ effects \subseteq Runs
    /\ run \in [Runs -> Run]
================================================================================
