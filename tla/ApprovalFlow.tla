------------------------------ MODULE ApprovalFlow ------------------------------
(***************************************************************************)
(* The operator's path: a call whose policy asks for a human decision       *)
(* leaves an immutable plan in the approval store; approve_call and        *)
(* deny_call (crates/latchgate-api/src/approvals.rs) claim it, decide it   *)
(* and close it.  This module composes the approval store, the shared      *)
(* execution tail and the ledger's approval_outcomes table.                *)
(*                                                                         *)
(* An operator's HTTP call is named by the claim token it draws; when it   *)
(* executes, the same name stands for the run, its fresh trace and its     *)
(* fresh grant.  The trace of the request that asked for the approval is   *)
(* named by the approval, and its one audit event is PendingApproval.      *)
(***************************************************************************)
EXTENDS ApprovalStore, ExecutionTail

CONSTANTS
    SessionOf,   \* approval -> the session of the agent that asked
    RiskOf,      \* approval -> the risk level frozen in its plan
    Prompt       \* does every operator call end before its claim runs out?

ASSUME FlowAssumption ==
    /\ Runs = Tokens
    /\ Traces = Tokens \cup Approvals
    /\ SessionOf \in [Approvals -> Sessions]
    /\ RiskOf \in [Approvals -> Risks]
    /\ Sessions # {}
    /\ Prompt \in BOOLEAN

VARIABLES
    request,   \* approval -> progress of the agent's call that creates it
    call,      \* token -> progress of the operator's call
    outcome    \* approval_outcomes: approval -> its durable outcome

flowVars == <<storeVars, tailVars, request, call, outcome>>

CallSteps == {"idle", "guard", "reconcile", "learn", "execute", "deny_audit",
              "outcome", "marker", "complete", "end", "lost"}

Answers == {"none", "conflict", "not_found", "unavailable", "bad_request"}
             \cup TerminalStates

\* op: which handler; approval: the path parameter; answer: what it replied.
OperatorCall == [pc : CallSteps, op : {"approve", "deny"},
                 approval : Approvals \cup {Nil}, answer : Answers]

Acting(tok) == call[tok].pc \notin {"idle", "end", "lost"}

Of(tok) == call[tok].approval

Proceed(tok, pc) == call' = [call EXCEPT ![tok].pc = pc]

Answer(tok, pc, answer) ==
    call' = [call EXCEPT ![tok].pc = pc, ![tok].answer = answer]

noTail == UNCHANGED tailVars
noFlow == UNCHANGED <<request, outcome>>

FlowInit ==
    /\ Init
    /\ TailInit
    /\ run = [e \in Runs |->
                 NewRun(e, CHOOSE s \in Sessions : TRUE, "low", TRUE, e)]
    /\ request = [a \in Approvals |-> "idle"]
    /\ call = [tok \in Tokens |->
                 [pc |-> "idle", op |-> "approve", approval |-> Nil,
                  answer |-> "none"]]
    /\ outcome = [a \in Approvals |-> None]

--------------------------------------------------------------------------------
(* The agent's call.                                                           *)

\* step_store_pending_approval: create the record, then write the event.  A
\* store that fails, or whose reply is lost, turns the event into an Error.
StorePendingApproval(a) ==
    /\ request[a] = "idle"
    /\ \/ /\ CreatePending(a)
          /\ \/ request' = [request EXCEPT ![a] = "PendingApproval"]
             \/ StoreFaults /\ request' = [request EXCEPT ![a] = "Error"]
       \/ /\ StoreFaults
          /\ request' = [request EXCEPT ![a] = "Error"]
          /\ UNCHANGED storeVars
    /\ noTail /\ UNCHANGED <<call, outcome>>

AuditRequest(a) ==
    /\ request[a] \in {"PendingApproval", "Error"}
    /\ WriteAudit(a, request[a])
    /\ request' = [request EXCEPT ![a] = "done"]
    /\ UNCHANGED <<budget, epoch, intents, receipts, effects, run>>
    /\ UNCHANGED <<storeVars, call, outcome>>

--------------------------------------------------------------------------------
(* claim_or_short_circuit.                                                     *)

ClaimApproval(tok, a, op, t) ==
    /\ call[tok].pc = "idle"
    /\ ClaimPending(a, tok, t)
    /\ call' = [call EXCEPT ![tok] = [pc |-> "guard", op |-> op,
                                      approval |-> a, answer |-> "none"]]
    /\ noTail /\ noFlow

\* What the ledger knows, read when the store cannot answer; a read that fails
\* counts as no outcome.
LedgerAnswer(a, otherwise) ==
    {IF outcome[a] # None THEN outcome[a] ELSE otherwise}
        \cup (IF LedgerFaults THEN {otherwise} ELSE {})

\* The answers of a call that gets no claim.  AlreadyCompleted reads the status
\* back; by then it may have run out of time, or be unreadable.
RefusalAnswers(a, t) ==
    LET result == ClaimResult(a, t) IN
    CASE result = "AlreadyCompleted" ->
             {EffectiveState(rec[a]), "not_found"}
      [] result = "AlreadyClaimed" -> {"conflict"}
      [] result = "NotFound" -> LedgerAnswer(a, "not_found")
      [] OTHER -> {}

RefuseClaim(tok, a, op, t) ==
    /\ call[tok].pc = "idle"
    /\ t \in CallerClock
    /\ request[a] # "idle"
    /\ \E answer \in RefusalAnswers(a, t)
                        \cup (IF StoreFaults THEN LedgerAnswer(a, "unavailable") ELSE {}) :
          call' = [call EXCEPT ![tok] = [pc |-> "end", op |-> op,
                                         approval |-> a, answer |-> answer]]
    /\ UNCHANGED storeVars /\ noTail /\ noFlow

\* The store grants the claim and the reply is lost: nobody holds the token, and
\* the approval stays claimed until the claim runs out.
ClaimReplyLost(tok, a, op, t) ==
    /\ StoreFaults
    /\ call[tok].pc = "idle"
    /\ ClaimPending(a, tok, t)
    /\ \E answer \in LedgerAnswer(a, "unavailable") :
          call' = [call EXCEPT ![tok] = [pc |-> "end", op |-> op,
                                         approval |-> a, answer |-> answer]]
    /\ noTail /\ noFlow

\* A variant with a fault: the guard against a second execution is
\* missing.
NoReexecutionGuard(tok) ==
    /\ call[tok].pc = "guard"
    /\ Proceed(tok, IF call[tok].op = "approve" THEN "learn" ELSE "deny_audit")
    /\ UNCHANGED storeVars /\ noTail /\ noFlow

\* has_durable_outcome: checked after the claim; a failed read counts as FALSE.
GuardReexecution(tok) ==
    /\ call[tok].pc = "guard"
    /\ \/ outcome[Of(tok)] # None /\ Proceed(tok, "reconcile")
       \/ /\ outcome[Of(tok)] = None \/ LedgerFaults
          /\ Proceed(tok, IF call[tok].op = "approve" THEN "learn" ELSE "deny_audit")
    /\ UNCHANGED storeVars /\ noTail /\ noFlow

\* fail_already_executed: complete_failed with no marker, errors ignored.
Reconcile(tok) ==
    LET a == Of(tok) IN
    /\ call[tok].pc = "reconcile"
    /\ issued' = [issued EXCEPT ![tok].outcome = "failed"]
    /\ \/ /\ CompleteResult(a, tok) = "ok"
          /\ rec' = Completed(a, "failed")
       \/ /\ CompleteResult(a, tok) # "ok" \/ StoreFaults
          /\ UNCHANGED rec
    /\ Answer(tok, "end", "conflict")
    /\ UNCHANGED now /\ noTail /\ noFlow

--------------------------------------------------------------------------------
(* approve_call after the claim.                                               *)

\* The learn path is resolved only now, with the claim in hand: a bad one ends
\* the call and leaves the claim behind.  (The domain or path then joins the
\* allowlist, before anything is executed; the allowlist is not modelled.)
Learn(tok) ==
    LET a == Of(tok) IN
    /\ call[tok].pc = "learn"
    /\ \/ /\ Answer(tok, "end", "bad_request")
          /\ UNCHANGED run
       \/ /\ Proceed(tok, "execute")
          /\ run' = [run EXCEPT ![tok] =
                        [NewRun(tok, SessionOf[a], RiskOf[a], TRUE, a)
                            EXCEPT !.pc = "plan"]]
    /\ UNCHANGED <<budget, epoch, audit, intents, receipts, effects>>
    /\ UNCHANGED <<storeVars, request, outcome>>

\* The plan names its expiry; what it was hashed from cannot have changed.
PlanIsFresh(tok) == now < rec[Of(tok)].plan

\* prepare_approved_execution up to the debit: hash, expiry, trust, request hash
\* and secrets.  Its failure events carry the trace of the original request; a
\* missing manifest is not audited at all.
CheckPlan(tok) ==
    /\ run[tok].pc = "plan"
    /\ \/ PlanIsFresh(tok) /\ GoTo(tok, "debit")
       \/ \E event \in {"Deny", "Error"} : FailTo(tok, "audit", event)
       \/ FailTo(tok, "done", NoEvent)
    /\ UNCHANGED <<budget, epoch, audit, intents, receipts, effects>>
    /\ UNCHANGED <<storeVars, request, call, outcome>>

\* From the debit on, the steps are the tail's; a build error rolls back first
\* and audits afterwards.
ExecuteStep(tok) ==
    /\ call[tok].pc = "execute"
    /\ RunStep(tok, "refund_audit")
    /\ UNCHANGED <<storeVars, request, call, outcome>>

--------------------------------------------------------------------------------
(* deny_call after the claim, and the end of both.                             *)

\* A variant with a fault: a denial is never finalized.
DenialNeverFinalized(tok) ==
    /\ call[tok].pc = "deny_audit"
    /\ WriteAudit(tok, "Deny")
    /\ Answer(tok, "end", "denied")
    /\ UNCHANGED <<budget, epoch, intents, receipts, effects, run>>
    /\ UNCHANGED storeVars /\ noFlow

\* The denial is audited under a fresh trace.
AuditDenial(tok) ==
    /\ call[tok].pc = "deny_audit"
    /\ WriteAudit(tok, "Deny")
    /\ Proceed(tok, "outcome")
    /\ UNCHANGED <<budget, epoch, intents, receipts, effects, run>>
    /\ UNCHANGED storeVars /\ noFlow

\* A variant with a fault: a failed execution is answered as approved.
ApproveMeansApproved(tok) == IF call[tok].op = "deny" THEN "denied" ELSE "approved"

Verdict(tok) ==
    CASE call[tok].op = "deny" -> "denied"
      [] call[tok].op = "approve" /\ run[tok].result = "ok" -> "approved"
      [] OTHER -> "failed"

Decided(tok) ==
    \/ call[tok].pc = "outcome"
    \/ call[tok].pc = "execute" /\ run[tok].pc = "done"

\* A variant with a fault: the outcome of a denial is not recorded.
OutcomeOnlyForApprovals(tok) ==
    /\ Decided(tok)
    /\ outcome' = IF call[tok].op = "approve" /\ outcome[Of(tok)] = None
                  THEN [outcome EXCEPT ![Of(tok)] = Verdict(tok)] ELSE outcome
    /\ issued' = [issued EXCEPT ![tok].outcome = Verdict(tok)]
    /\ Proceed(tok, "marker")
    /\ UNCHANGED <<now, rec, request>> /\ noTail

\* write_durable_outcome: INSERT OR IGNORE, the first outcome stays; a failure is
\* logged and the call goes on.
WriteDurableOutcome(tok) ==
    LET a == Of(tok) IN
    /\ Decided(tok)
    /\ \/ outcome' = IF outcome[a] = None
                     THEN [outcome EXCEPT ![a] = Verdict(tok)] ELSE outcome
       \/ LedgerFaults /\ UNCHANGED outcome
    /\ issued' = [issued EXCEPT ![tok].outcome = Verdict(tok)]
    /\ Proceed(tok, "marker")
    /\ UNCHANGED <<now, rec, request>> /\ noTail

\* finalize_outcome, phase 1: an error is logged and phase 2 is tried anyway.
FinalizeMarker(tok) ==
    /\ call[tok].pc = "marker"
    /\ \/ WriteOutcomeMarker(tok)
       \/ /\ MarkerResult(Of(tok), tok) # "ok" \/ StoreFaults
          /\ UNCHANGED storeVars
    /\ Proceed(tok, "complete")
    /\ noTail /\ noFlow

\* Phase 2, and the answer to the operator.
FinalizeComplete(tok) ==
    /\ call[tok].pc = "complete"
    /\ \/ Complete(tok)
       \/ /\ CompleteResult(Of(tok), tok) # "ok" \/ StoreFaults
          /\ UNCHANGED storeVars
    /\ Answer(tok, "end", Verdict(tok))
    /\ noTail /\ noFlow

--------------------------------------------------------------------------------
(* The environment.                                                            *)

\* With Prompt, time does not run past the claim of a call that is still acting.
PassTime ==
    /\ Prompt => \A tok \in Tokens : Acting(tok) => now + 1 < issued[tok].exp
    /\ Tick
    /\ noTail /\ noFlow /\ UNCHANGED call

AbandonCall(tok) ==
    /\ Abandons
    /\ Acting(tok)
    /\ Proceed(tok, "lost")
    /\ run' = IF InFlight(tok) THEN [run EXCEPT ![tok].pc = "lost"] ELSE run
    /\ UNCHANGED <<budget, epoch, audit, intents, receipts, effects>>
    /\ UNCHANGED storeVars /\ noFlow

AbandonRequest(a) ==
    /\ Abandons
    /\ request[a] \in {"PendingApproval", "Error"}
    /\ request' = [request EXCEPT ![a] = "done"]
    /\ UNCHANGED <<storeVars, call, outcome>> /\ noTail

Revoke ==
    /\ RevokeAll
    /\ UNCHANGED <<storeVars, request, call, outcome>>

\* What an operator's call does once it holds a claim.
HandlerStep(tok) ==
    \/ GuardReexecution(tok)
    \/ Reconcile(tok)
    \/ Learn(tok)
    \/ CheckPlan(tok)
    \/ ExecuteStep(tok)
    \/ AuditDenial(tok)
    \/ WriteDurableOutcome(tok)
    \/ FinalizeMarker(tok)
    \/ FinalizeComplete(tok)

FlowNext ==
    \/ \E a \in Approvals :
          StorePendingApproval(a) \/ AuditRequest(a) \/ AbandonRequest(a)
    \/ \E tok \in Tokens, a \in Approvals, op \in {"approve", "deny"},
          t \in CallerClock :
             \/ ClaimApproval(tok, a, op, t)
             \/ RefuseClaim(tok, a, op, t)
             \/ ClaimReplyLost(tok, a, op, t)
    \/ \E tok \in Tokens : HandlerStep(tok) \/ AbandonCall(tok)
    \/ PassTime
    \/ Revoke

FlowSpec == FlowInit /\ [][FlowNext]_flowVars

\* tokio runs every handler that can go on; no operator is obliged to call, and
\* nothing is obliged to fail.
FlowFairness == \A tok \in Tokens : WF_flowVars(HandlerStep(tok))

FairFlowSpec == FlowSpec /\ FlowFairness

--------------------------------------------------------------------------------
(* What makes the operator's path correct.                                     *)

\* Every variable has the shape the code gives it.
FlowTypeOK ==
    /\ StoreTypeOK /\ TailTypeOK
    /\ request \in [Approvals -> {"idle", "PendingApproval", "Error", "done"}]
    /\ call \in [Tokens -> OperatorCall]
    /\ outcome \in [Approvals -> TerminalStates \cup {None}]

ExecutedFor(a) == {e \in effects : Of(e) = a}

\* One approval, one execution.  It holds as long as calls end within their claim
\* and only one of the two stores fails: the ledger's outcome and the store's
\* marker each stop a second execution alone.
OneShot == \A a \in Approvals : Cardinality(ExecutedFor(a)) <= 1

\* An operator is told "approved" (now, or on an idempotent retry from the store
\* or the ledger) only if an execution of this approval did succeed, and its
\* receipt is durable.
ApprovedAnswerIsTrue ==
    \A tok \in Tokens : call[tok].answer = "approved" =>
        \E e \in receipts : Of(e) = Of(tok) /\ run[e].result = "ok"

\* Under every fault and however late a call ends, a record that reads "approved"
\* belongs to a call that executed the plan and whose evidence is durable: a
\* holder that lost its claim never gets to vouch for another one's execution.
ApprovedRecordIsBacked ==
    \A a \in Approvals : EffectiveState(rec[a]) = "approved" =>
        LET e == rec[a].token IN
        e \in effects \cap receipts /\ Of(e) = a /\ run[e].result = "ok"

\* An approval reads "denied" only if an operator denied it while holding it, and
\* nothing was executed for it before or since.
DeniedNeverExecuted ==
    \A a \in Approvals : EffectiveState(rec[a]) = "denied" => ExecutedFor(a) = {}

\* The store's verdict and the ledger's agree whenever the ledger works: a closed
\* record has a durable outcome, the same one unless the record was failed by
\* fail_already_executed.
VerdictsAgree ==
    \A a \in Approvals :
        LET v == EffectiveState(rec[a]) IN
        IsTerminal(v) => outcome[a] = v \/ (v = "failed" /\ outcome[a] # None)

\* An answer given once is never contradicted: two calls that are told a verdict
\* on the same approval are told the same one, or one of them is told "failed".
AnswersConsistent ==
    \A t1, t2 \in Tokens :
        (Of(t1) = Of(t2) /\ {call[t1].answer, call[t2].answer} \subseteq TerminalStates)
            => call[t1].answer = call[t2].answer
               \/ "failed" \in {call[t1].answer, call[t2].answer}

\* An operator's call that got a claim closes the approval, unless it was refused
\* for its learn path, lost, or the store failed.
ClaimsGetClosed ==
    \A tok \in Tokens, a \in Approvals :
        (call[tok].pc = "guard" /\ Of(tok) = a) ~>
            \/ IsTerminal(EffectiveState(rec[a]))
            \/ call[tok].answer = "bad_request" \/ call[tok].pc = "lost"

\* Whatever fails, what operators and records say of an approval is true.
ApprovalsAreTrue == FlowTypeOK /\ ApprovedAnswerIsTrue /\ ApprovedRecordIsBacked

\* With a working ledger a decision stands: what was denied is not executed, the
\* two stores agree and so do the answers.
DecisionsHold == DeniedNeverExecuted /\ VerdictsAgree /\ AnswersConsistent

\* With a working store claims end in a verdict, after one execution at the most
\* and none when the verdict is "denied".
ClaimsEndWell == [](OneShot /\ DeniedNeverExecuted) /\ ClaimsGetClosed

--------------------------------------------------------------------------------
(* A statement of the repository that the code does not keep.                  *)

\* approved_execution.rs: "On any enforcement failure, writes the appropriate
\* audit event".  The event it builds carries the trace of the original request,
\* which already has one.
PrepareFailureAudited ==
    \A tok \in Tokens :
        (/\ run[tok].pc = "done" /\ tok \notin intents
         /\ run[tok].event \in {"Deny", "Error"}) =>
            \E tr \in {tok, Of(tok)} : audit[tr] = run[tok].event
================================================================================
