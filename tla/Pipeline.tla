-------------------------------- MODULE Pipeline --------------------------------
(***************************************************************************)
(* The automatic path of an action call: run_action_call from the request  *)
(* to the answer, for any number of concurrent calls.  The steps before    *)
(* the budget is touched only read; they are two actions here, one for the *)
(* checks that come before the policy and one for the policy itself.  The  *)
(* branch where the policy asks for an operator is ApprovalFlow's.         *)
(***************************************************************************)
EXTENDS ExecutionTail

\* A call's trace and grant are its own (TraceId::new, GrantId::new), and an
\* automatic grant carries no approval_hash.
Init ==
    /\ TailInit
    /\ \E session \in [Runs -> Sessions], risk \in [Runs -> Risks] :
          run = [e \in Runs |-> NewRun(e, session[e], risk[e], FALSE, e)]

\* Rate limit, drain guard, authentication, registry, trust, schema and hash.
\* Shedding is not audited; every other refusal is.
Admit(e) ==
    /\ run[e].pc = "idle"
    /\ \/ \E why \in Shed : run' = [run EXCEPT ![e].pc = "done", ![e].result = why]
       \/ FailTo(e, "audit", "Deny")
       \/ GoTo(e, "policy")
    /\ UNCHANGED <<budget, epoch, audit, intents, receipts, effects>>

\* A variant with a fault: policy denials are returned and not audited.
PolicyDenialNotAudited(e) ==
    /\ run[e].pc = "policy"
    /\ GoTo(e, "debit") \/ FailTo(e, "done", "Deny")
    /\ UNCHANGED <<budget, epoch, audit, intents, receipts, effects>>

\* step_evaluate_policy: a store or policy-engine failure is an Error, a
\* refusal a Deny; the budget is only read.
EvaluatePolicy(e) ==
    /\ run[e].pc = "policy"
    /\ \/ GoTo(e, "debit")
       \/ FailTo(e, "audit", "Deny")
       \/ FailTo(e, "audit", "Error")
    /\ UNCHANGED <<budget, epoch, audit, intents, receipts, effects>>

\* A build error audits first and rolls back afterwards.
CallStep(e) == Admit(e) \/ EvaluatePolicy(e) \/ RunStep(e, "audit_refund")

Next ==
    \/ \E e \in Runs : CallStep(e) \/ Abandon(e)
    \/ RevokeAll

Spec == Init /\ [][Next]_tailVars

--------------------------------------------------------------------------------
(* What makes the pipeline correct.                                            *)

\* Every variable has the shape the code gives it.
TypeOK == TailTypeOK

\* "No concurrent requests can exceed the budget": the calls left to a session
\* and the effects it has caused never add up to more than it was given, whatever
\* fails, is refunded, or is lost (budgets.rs, deny_pre_dispatch).
EffectsWithinBudget ==
    \A s \in Budgeted :
        budget[s] + Cardinality({e \in effects : run[e].session = s}) <= InitBudget

\* The calls that may have been charged and were never recorded.
MayHaveBeenCharged(s) ==
    {e \in Runs \ intents : /\ run[e].session = s
                            /\ run[e].pc \notin FrontSteps
                            /\ run[e].result \notin Shed}

\* What an unreliable store can cost a session.  The caller of a debit or of a
\* rollback whose reply is lost does not know whether it was made, and gives up:
\* the account is then off by at most one call for each call that failed, was
\* lost or is under way, and never in the session's favour (budgets.rs,
\* rollback_budget_if_debited).
LostRepliesCostOneCall ==
    \A s \in Budgeted :
        LET accounted == budget[s] + Cardinality({e \in intents : run[e].session = s})
        IN  /\ accounted <= InitBudget
            /\ accounted + Cardinality(MayHaveBeenCharged(s)) >= InitBudget

\* When no store call fails and no request is lost, the budget is exact once the
\* session is quiet: it has paid for every dispatched call and for no other.  A
\* refund that is forgotten, or made twice, or made after dispatch, breaks it.
QuietSessionsPaidExactly ==
    \A s \in Budgeted :
        (\A e \in Runs : run[e].session = s => ~InFlight(e)) =>
            budget[s] + Cardinality({e \in intents : run[e].session = s}) = InitBudget

\* A success is reported only for a call whose effect happened, whose intent was
\* recorded and whose receipt and Allow event are durable (write_evidence).
EvidenceGate ==
    \A e \in Runs : run[e].result = "ok" =>
        /\ e \in effects /\ e \in intents /\ e \in receipts
        /\ audit[e] = "Allow"

\* Whatever becomes of a call, an effect without a receipt is one the operator
\* can find: it is among get_unresolved_intents.
EffectsAreTraceable == effects \subseteq receipts \cup UnresolvedIntents

\* Which ends leave no audit event when the ledger works: calls that were shed,
\* and calls whose provider acted and whose evidence could not be formed or
\* written (finalize_evidence emits a domain event and no audit event); of those
\* the unresolved intent is left.  Every refusal and every other failure has its
\* event, in whichever order it was refunded and audited.
NoSilentEnd ==
    \A e \in Runs : (run[e].pc = "done" /\ run[e].result \notin Shed) =>
        \/ audit[e] # NoEvent
        \/ run[e].result = "error" /\ e \in effects /\ e \in UnresolvedIntents

\* A high-risk action is never dispatched without an operator's approval, not
\* even when the policy allows it (step 3 of validate_grant_pre_dispatch).
NoUnapprovedHighRisk ==
    \A e \in intents : run[e].risk = "high" => run[e].approved

\* How far a revocation reaches: a call whose grant is not yet validated when the
\* epoch moves on never acts, not at any later time (execution.rs compares the
\* epochs once, before the intent is written; a call past that point may finish).
RevokedBeforeCheckNeverActs ==
    \A e \in Runs :
        [](run[e].pc = "validate" /\ run[e].epoch < epoch => [](e \notin effects))

--------------------------------------------------------------------------------
(* The pipeline implements the kernel's promise.                               *)

PhaseOf(e) ==
    CASE run[e].result = "ok" -> "reported"
      [] run[e].result # "ok" /\ e \in receipts -> "attested"
      [] run[e].result # "ok" /\ e \in effects \ receipts -> "acted"
      [] run[e].result # "ok" /\ e \in intents \ (effects \cup receipts) -> "recorded"
      [] OTHER -> "none"

Contract == INSTANCE ExecutionContract WITH
    Grants <- Runs, Allowance <- InitBudget,
    phase <- [e \in Runs |-> PhaseOf(e)],
    owner <- [e \in Runs |-> run[e].session]

\* Recorded before acted, acted before attested, attested before reported, each
\* at most once per grant, and never more per session than its allowance.
ImplementsContract == Contract!ContractSpec

--------------------------------------------------------------------------------
(* Statements of the repository that the code does not keep.                   *)

\* The matrix of terminal paths in steps/auth.rs: "only drain_rejection should be
\* audit-exempt".
TerminalPathsAudited ==
    \A e \in Runs : (run[e].pc = "done" /\ run[e].result # "draining") =>
        audit[e] # NoEvent

\* pipeline_audit.rs: a failed rollback is recorded in the ledger, "so it cannot
\* be lost".
OrphanedDebitRecorded ==
    \A e \in Runs :
        (run[e].pc = "done" /\ run[e].debited /\ e \notin intents) =>
            audit[e] = "BudgetRollbackFailed"
================================================================================
