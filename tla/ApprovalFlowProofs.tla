--------------------------- MODULE ApprovalFlowProofs ---------------------------
(***************************************************************************)
(* The operator's path, for any number of approvals, operator calls and    *)
(* sessions, on every backend.  The invariants of the approval store and   *)
(* of the execution tail are kept by the composition; CallOK ties the two  *)
(* to the handler that drives them.  At the end, the console at which the  *)
(* operator decides, and the screens from which it changes what is stored. *)
(***************************************************************************)
EXTENDS ApprovalFlow, OperatorConsole, Screens, ApprovalStoreProofs,
        ExecutionTailProofs, SequenceTheorems

\* Where a call is before it has executed or denied anything.
Undecided == {"guard", "reconcile", "learn", "execute", "deny_audit", "outcome"}

\* What an operator's call, its claim and its run have to do with each other.
CallOK(tok) ==
    /\ call[tok].pc = "idle" => call[tok].answer = "none"
    /\ IsIssued(tok) => issued[tok].approval = Of(tok) /\ call[tok].pc # "idle"
    /\ Acting(tok) => IsIssued(tok)
    /\ call[tok].pc \in Undecided => issued[tok].outcome = None
    /\ call[tok].pc \in {"marker", "complete"} => issued[tok].outcome = Verdict(tok)
    /\ run[tok].pc \notin {"idle"} \cup EndSteps => call[tok].pc = "execute"
    /\ call[tok].pc \in {"idle"} \cup (Undecided \ {"execute"}) => run[tok].pc = "idle"
    /\ issued[tok].outcome = "approved" => run[tok].result = "ok"

\* Approval a was executed, successfully, and its receipt is durable.
Backed(a) == \E e \in receipts : Of(e) = a /\ run[e].result = "ok"

BackedInv ==
    /\ \A a \in Approvals : outcome[a] = "approved" => Backed(a)
    /\ \A tok \in Tokens : call[tok].answer = "approved" => Backed(Of(tok))

\* The types of the variables that are neither the store's nor the tail's.
OwnTypes ==
    /\ request \in [Approvals -> {"idle", "PendingApproval", "Error", "done"}]
    /\ call \in [Tokens -> OperatorCall]
    /\ outcome \in [Approvals -> TerminalStates \cup {None}]

FlowInv ==
    /\ StoreInv /\ TailInv /\ OwnTypes
    /\ \A tok \in Tokens : CallOK(tok)
    /\ BackedInv

--------------------------------------------------------------------------------
(* What a step may do to the parts it does not own.                            *)

\* A call whose claim, run and progress are as they were.
Untouched(tok) ==
    call'[tok] = call[tok] /\ run'[tok] = run[tok] /\ issued'[tok] = issued[tok]

\* An untouched call keeps its part of the invariant.
LEMMA UntouchedKeeps ==
    ASSUME NEW tok \in Tokens, CallOK(tok), Untouched(tok) PROVE CallOK(tok)'
  BY DEF CallOK, Untouched, IsIssued, Of, Acting, Verdict

\* A success is never taken back: receipts only grow, and neither the run nor the
\* call it belongs to changes any more.
SuccessStays ==
    /\ receipts \subseteq receipts'
    /\ \A e \in Runs : run[e].result = "ok" =>
          run'[e].result = "ok" /\ call'[e].approval = call[e].approval

\* What was backed stays backed.
LEMMA BackedStays ==
    ASSUME TailInv, SuccessStays, NEW a, Backed(a) PROVE Backed(a)'
  BY DEF TailInv, TailTypeOK, SuccessStays, Backed, Of

\* A successful run backs the approval of its call.
LEMMA SuccessBacks ==
    ASSUME TailInv, NEW tok \in Runs, run[tok].result = "ok"
    PROVE  Backed(Of(tok)) /\ tok \in effects \cap receipts
  BY DEF TailInv, RunOK, Proven, Backed

\* The verdict on a call is "approved" only if its run succeeded.
LEMMA VerdictFacts ==
    ASSUME NEW tok \in Tokens
    PROVE  /\ Verdict(tok) \in TerminalStates
           /\ Verdict(tok) = "approved" => run[tok].result = "ok"
  BY DEF Verdict, TerminalStates

\* Names stand for calls, runs and traces alike.
LEMMA FlowNames ==
    /\ Runs = Tokens /\ Tokens \subseteq Traces /\ Approvals \subseteq Traces
    /\ Nil \notin Approvals /\ Nil \notin Tokens
    /\ SessionOf \in [Approvals -> Sessions] /\ RiskOf \in [Approvals -> Risks]
  BY FlowAssumption, StoreAssumption DEF FlowAssumption, StoreAssumption

\* A step that records no outcome and gives no answer of "approved".
LEMMA BackedKept ==
    ASSUME TailInv, BackedInv, SuccessStays, UNCHANGED outcome,
           \A tok \in Tokens : call'[tok].answer = "approved" =>
              \/ call[tok].answer = "approved" /\ call'[tok].approval = call[tok].approval
              \/ Backed(call'[tok].approval)
    PROVE  BackedInv'
  <1>1. ASSUME NEW a \in Approvals, outcome'[a] = "approved" PROVE Backed(a)'
    BY <1>1, BackedStays DEF BackedInv
  <1>2. ASSUME NEW tok \in Tokens, call'[tok].answer = "approved"
        PROVE  \E e \in receipts' : /\ call'[e].approval = call'[tok].approval
                                    /\ run'[e].result = "ok"
    <2>1. Backed(call'[tok].approval)
      BY <1>2 DEF BackedInv, Of
    <2>2. PICK e \in receipts : call[e].approval = call'[tok].approval
                                  /\ run[e].result = "ok"
      BY <2>1 DEF Backed, Of
    <2>3. e \in receipts' /\ call'[e].approval = call[e].approval /\ run'[e].result = "ok"
      BY <2>2 DEF SuccessStays, TailInv, TailTypeOK
    <2> QED BY <2>2, <2>3
  <1>3. \A a \in Approvals : outcome'[a] = "approved" => Backed(a)'
    BY <1>1
  <1> QED BY <1>2, <1>3 DEF BackedInv, Backed, Of

\* A step of one call keeps the invariant if it looks after that call.
LEMMA FlowStep ==
    ASSUME FlowInv, StoreInv', TailInv', OwnTypes', BackedInv',
           NEW tok \in Tokens, \A f \in Tokens : f # tok => Untouched(f), CallOK(tok)'
    PROVE  FlowInv'
  <1>1. \A f \in Tokens : CallOK(f)'
    BY UntouchedKeeps DEF FlowInv
  <1> QED BY <1>1 DEF FlowInv

\* What the invariant says of one call.
LEMMA FlowFacts ==
    ASSUME FlowInv, NEW tok \in Tokens
    PROVE  /\ call \in [Tokens -> OperatorCall] /\ call[tok] \in OperatorCall
           /\ outcome \in [Approvals -> TerminalStates \cup {None}]
           /\ request \in [Approvals -> {"idle", "PendingApproval", "Error", "done"}]
           /\ issued \in [Tokens -> Claim] /\ rec \in [Approvals -> Record]
           /\ run \in [Runs -> Run] /\ tok \in Runs /\ run[tok] \in Run
           /\ CallOK(tok) /\ StoreInv /\ TailInv /\ BackedInv
  BY FlowNames DEF FlowInv, OwnTypes, StoreInv, StoreTypeOK, TailInv, TailTypeOK

\* The claim of an acting call is on the approval it was asked about.
LEMMA ActingHasApproval ==
    ASSUME FlowInv, NEW tok \in Tokens, Acting(tok)
    PROVE  /\ Of(tok) \in Approvals /\ IsIssued(tok)
           /\ issued[tok].approval = Of(tok)
  <1>1. IsIssued(tok) /\ issued[tok].approval = Of(tok) /\ issued[tok] \in Claim
    BY FlowFacts DEF CallOK
  <1> QED BY <1>1 DEF IsIssued, Claim

\* Proceed and Answer move one call.
LEMMA CallMoves ==
    ASSUME NEW tok \in Tokens, call \in [Tokens -> OperatorCall], NEW pc \in CallSteps,
           NEW answer \in Answers,
           \/ Proceed(tok, pc) /\ answer = call[tok].answer
           \/ Answer(tok, pc, answer)
    PROVE  /\ call' \in [Tokens -> OperatorCall]
           /\ call'[tok].pc = pc /\ call'[tok].op = call[tok].op
           /\ call'[tok].approval = call[tok].approval /\ call'[tok].answer = answer
           /\ \A f \in Tokens : f # tok => call'[f] = call[f]
  BY DEF Proceed, Answer, OperatorCall

\* Nothing that happens to the handler alone touches a success.
LEMMA SuccessKept ==
    ASSUME UNCHANGED <<receipts, run>>,
           \A e \in Runs : run[e].result = "ok" => call'[e].approval = call[e].approval
    PROVE  SuccessStays
  BY DEF SuccessStays

--------------------------------------------------------------------------------
(* The agent's call.                                                           *)

\* Creating the record, writing the event and losing the request leave the
\* operator's calls alone.
LEMMA RequestKeeps ==
    ASSUME FlowInv, NEW a \in Approvals,
           StorePendingApproval(a) \/ AuditRequest(a) \/ AbandonRequest(a)
    PROVE  FlowInv'
  <1>1. /\ UNCHANGED <<call, outcome, issued, receipts, run>>
        /\ request' \in [Approvals -> {"idle", "PendingApproval", "Error", "done"}]
    BY DEF StorePendingApproval, AuditRequest, AbandonRequest, CreatePending, FlowInv,
           OwnTypes, noTail, tailVars, storeVars
  <1>2. StoreInv /\ TailInv
    BY DEF FlowInv
  <1>3. StoreInv'
    <2>1. CreatePending(a) \/ UNCHANGED storeVars
      BY DEF StorePendingApproval, AuditRequest, AbandonRequest
    <2> QED BY <1>2, <2>1, CreateKeeps, StutterKeeps
  <1>4. TailInv'
    <2>1. CASE UNCHANGED tailVars
      <3>1. epoch' \in Nat /\ UNCHANGED <<budget, audit, intents, receipts, effects, run>>
        BY <1>2, <2>1 DEF tailVars, TailInv, TailTypeOK
      <3> QED BY <1>2, <3>1, EpochKeeps
    <2>2. CASE AuditRequest(a)
      <3>1. /\ WriteAudit(a, request[a]) /\ request[a] \in Events
            /\ UNCHANGED <<budget, epoch, intents, receipts, effects, run>>
        BY <2>2 DEF AuditRequest, Events
      <3> QED BY <1>2, <3>1, AuditKeeps, FlowNames
    <2> QED BY <2>1, <2>2 DEF StorePendingApproval, AbandonRequest, noTail
  <1>5. SuccessStays
    BY <1>1, SuccessKept
  <1>6. BackedInv'
    BY <1>1, <1>2, <1>5, BackedKept DEF FlowInv
  <1>7. \A tok \in Tokens : CallOK(tok)'
    BY <1>1, UntouchedKeeps DEF Untouched, FlowInv
  <1>8. OwnTypes'
    BY <1>1 DEF FlowInv, OwnTypes
  <1> QED BY <1>3, <1>4, <1>6, <1>7, <1>8 DEF FlowInv

--------------------------------------------------------------------------------
(* claim_or_short_circuit.                                                     *)

\* A step that leaves the tail alone.
LEMMA TailStutters == ASSUME TailInv, noTail PROVE TailInv' /\ UNCHANGED <<receipts, run>>
  <1>1. epoch' \in Nat /\ UNCHANGED <<budget, audit, intents, receipts, effects, run>>
    BY DEF noTail, tailVars, TailInv, TailTypeOK
  <1> QED BY <1>1, EpochKeeps

\* An approval that reads "approved" was executed.
LEMMA RecordBacked ==
    ASSUME FlowInv, NEW a \in Approvals, EffectiveState(rec[a]) = "approved"
    PROVE  LET e == rec[a].token IN
           /\ e \in Tokens /\ Of(e) = a /\ run[e].result = "ok"
           /\ e \in effects \cap receipts /\ Backed(a)
  <1> DEFINE e == rec[a].token
  <1>1. rec \in [Approvals -> Record] /\ StoreInv
    BY DEF FlowInv, StoreInv, StoreTypeOK
  <1>2. issued[e].outcome = "approved" /\ e # Nil
    BY <1>1 DEF StoreInv, VerdictIsTheHolders, HolderInv, EffectiveState, IsTerminal,
                TerminalStates, None
  <1>3. e \in Tokens
    BY <1>1, <1>2 DEF Record
  <1>4. issued[e].approval = a
    BY <1>2, <1>1 DEF StoreInv, HolderInv
  <1>5. CallOK(e) /\ TailInv /\ e \in Runs
    BY <1>3, FlowFacts
  <1>6. Of(e) = a /\ run[e].result = "ok"
    BY <1>2, <1>4, <1>5, FlowNames DEF CallOK, IsIssued
  <1> HIDE DEF e
  <1>7. Backed(Of(e)) /\ e \in effects \cap receipts
    BY <1>5, <1>6, SuccessBacks
  <1> QED BY <1>3, <1>6, <1>7 DEF e

\* What a call is told without a claim of its own is a legal answer, and it is told
\* "approved" only of an approval that was executed.
LEMMA RefusalFacts ==
    ASSUME FlowInv, NEW a \in Approvals, NEW t,
           NEW answer \in RefusalAnswers(a, t) \cup LedgerAnswer(a, "unavailable")
    PROVE  answer \in Answers /\ (answer = "approved" => Backed(a))
  <1>1. /\ outcome[a] \in TerminalStates \cup {None}
        /\ outcome[a] = "approved" => Backed(a)
    BY DEF FlowInv, OwnTypes, BackedInv
  <1>2. ASSUME NEW other \in {"not_found", "unavailable"},
               answer \in LedgerAnswer(a, other)
        PROVE  answer \in Answers /\ (answer = "approved" => Backed(a))
    BY <1>1, <1>2 DEF LedgerAnswer, Answers
  <1>3. CASE answer = EffectiveState(rec[a]) /\ ClaimResult(a, t) = "AlreadyCompleted"
    <2>1. rec[a].marker # None \/ IsTerminal(rec[a].state)
      BY <1>3 DEF ClaimResult, ValidateClaimTransition
    <2>2. rec[a] \in Record /\ (rec[a].marker # None => rec[a].state \notin {"absent", "pending"})
      BY DEF FlowInv, StoreInv, StoreTypeOK, HolderInv
    <2>3. answer \in TerminalStates
      BY <1>3, <2>1, <2>2 DEF EffectiveState, IsTerminal, Record, States
    <2> QED BY <1>3, <2>3, RecordBacked DEF Answers
  <1>4. CASE answer \in {"not_found", "conflict"}
    BY <1>4 DEF Answers
  <1> QED BY <1>2, <1>3, <1>4 DEF RefusalAnswers

\* A call that takes up a fresh claim has decided nothing yet.
LEMMA ClaimApprovalKeeps ==
    ASSUME FlowInv, NEW tok \in Tokens, NEW a \in Approvals, NEW op \in {"approve", "deny"},
           NEW t \in CallerClock, ClaimApproval(tok, a, op, t)
    PROVE  FlowInv'
  <1> DEFINE q == [pc |-> "guard", op |-> op, approval |-> a, answer |-> "none"]
  <1>1. /\ call \in [Tokens -> OperatorCall] /\ issued \in [Tokens -> Claim]
        /\ run[tok] \in Run /\ CallOK(tok) /\ StoreInv /\ TailInv /\ BackedInv
        /\ tok \in Runs
    BY FlowFacts
  <1>2. /\ call[tok].pc = "idle" /\ ClaimPending(a, tok, t)
        /\ call' = [call EXCEPT ![tok] = q] /\ noTail /\ noFlow
    BY DEF ClaimApproval
  <1>3. q \in OperatorCall
    BY DEF OperatorCall, CallSteps, Answers
  <1> HIDE DEF q
  <1>4. /\ call' \in [Tokens -> OperatorCall] /\ call'[tok] = q
        /\ \A f \in Tokens : f # tok => call'[f] = call[f]
    BY <1>1, <1>2, <1>3
  <1>5. /\ issued'[tok].approval = a /\ issued'[tok].outcome = None
        /\ \A f \in Tokens : f # tok => issued'[f] = issued[f]
    BY <1>1, <1>2 DEF ClaimPending
  <1>6. StoreInv'
    BY <1>1, <1>2, ClaimKeeps
  <1>7. TailInv' /\ UNCHANGED <<receipts, run>>
    BY <1>1, <1>2, TailStutters
  <1>8. run[tok].pc = "idle" /\ run[tok].result # "ok"
    BY <1>1, <1>2, TailFacts DEF CallOK, Proven
  <1>9. SuccessStays
    BY <1>4, <1>7, <1>8, SuccessKept, FlowNames
  <1>10. BackedInv'
    BY <1>1, <1>2, <1>4, <1>9, BackedKept DEF noFlow, q
  <1>11. CallOK(tok)'
    BY <1>4, <1>5, <1>7, <1>8, FlowNames
       DEF CallOK, q, Of, IsIssued, Acting, Undecided, EndSteps, None
  <1>12. OwnTypes'
    BY <1>2, <1>4 DEF FlowInv, OwnTypes, noFlow
  <1>13. \A f \in Tokens : f # tok => Untouched(f)
    BY <1>4, <1>5, <1>7 DEF Untouched
  <1> QED BY <1>6, <1>7, <1>10, <1>11, <1>12, <1>13, FlowStep

\* A call that ends without holding a claim repeats what is known, whether the
\* store turned it down, failed, or granted a claim nobody hears of.
LEMMA RefusedKeeps ==
    ASSUME FlowInv, NEW tok \in Tokens, NEW a \in Approvals, NEW op \in {"approve", "deny"},
           NEW t \in CallerClock, RefuseClaim(tok, a, op, t) \/ ClaimReplyLost(tok, a, op, t)
    PROVE  FlowInv'
  <1>1. /\ call \in [Tokens -> OperatorCall] /\ issued \in [Tokens -> Claim]
        /\ run[tok] \in Run /\ CallOK(tok) /\ StoreInv /\ TailInv /\ BackedInv
        /\ tok \in Runs
    BY FlowFacts
  <1>2. PICK answer \in RefusalAnswers(a, t) \cup LedgerAnswer(a, "unavailable") :
          call' = [call EXCEPT ![tok] = [pc |-> "end", op |-> op, approval |-> a,
                                         answer |-> answer]]
    BY DEF RefuseClaim, ClaimReplyLost
  <1>3. /\ call[tok].pc = "idle" /\ noTail /\ noFlow
        /\ ClaimPending(a, tok, t) \/ UNCHANGED storeVars
    BY DEF RefuseClaim, ClaimReplyLost
  <1>4. answer \in Answers /\ (answer = "approved" => Backed(a))
    BY RefusalFacts
  <1> DEFINE q == [pc |-> "end", op |-> op, approval |-> a, answer |-> answer]
  <1>5. q \in OperatorCall
    BY <1>4 DEF OperatorCall, CallSteps
  <1> HIDE DEF q
  <1>6. /\ call' \in [Tokens -> OperatorCall] /\ call'[tok] = q
        /\ \A f \in Tokens : f # tok => call'[f] = call[f]
    BY <1>1, <1>2, <1>5 DEF q
  <1>7. /\ issued'[tok].approval = a \/ ~IsIssued(tok)'
        /\ issued'[tok].outcome = None
        /\ \A f \in Tokens : f # tok => issued'[f] = issued[f]
    <2>1. CASE ClaimPending(a, tok, t)
      BY <1>1, <2>1 DEF ClaimPending
    <2>2. CASE UNCHANGED storeVars
      <3>1. ~IsIssued(tok) /\ issued[tok].outcome = None
        BY <1>1, <1>3 DEF CallOK, StoreInv, ClaimInv
      <3> QED BY <2>2, <3>1 DEF storeVars, IsIssued
    <2> QED BY <1>3, <2>1, <2>2
  <1>8. StoreInv'
    BY <1>1, <1>3, ClaimKeeps, StutterKeeps
  <1>9. TailInv' /\ UNCHANGED <<receipts, run>>
    BY <1>1, <1>3, TailStutters
  <1>10. run[tok].pc = "idle" /\ run[tok].result # "ok"
    BY <1>1, <1>3, TailFacts DEF CallOK, Proven
  <1>11. SuccessStays
    BY <1>6, <1>9, <1>10, SuccessKept, FlowNames
  <1>12. BackedInv'
    BY <1>1, <1>3, <1>4, <1>6, <1>11, BackedKept DEF noFlow, q
  <1>13. CallOK(tok)'
    BY <1>6, <1>7, <1>9, <1>10, FlowNames
       DEF CallOK, q, Of, IsIssued, Acting, Undecided, EndSteps, None
  <1>14. OwnTypes'
    BY <1>3, <1>6 DEF FlowInv, OwnTypes, noFlow
  <1>15. \A f \in Tokens : f # tok => Untouched(f)
    BY <1>6, <1>7, <1>9 DEF Untouched
  <1> QED BY <1>8, <1>9, <1>12, <1>13, <1>14, <1>15, FlowStep

--------------------------------------------------------------------------------
(* The handler, once it holds a claim.                                         *)

\* A step of the handler that moves nothing but the call itself.
LEMMA HandlerMoves ==
    ASSUME FlowInv, NEW tok \in Tokens, NEW pc \in CallSteps, NEW answer \in Answers,
           \/ Proceed(tok, pc) /\ answer = call[tok].answer
           \/ Answer(tok, pc, answer),
           StoreInv', TailInv', UNCHANGED <<receipts, run, request, outcome>>,
           \A f \in Tokens : f # tok => issued'[f] = issued[f],
           call'[tok].pc = pc => CallOK(tok)',
           answer = "approved" => answer = call[tok].answer \/ Backed(Of(tok))
    PROVE  FlowInv'
  <1>1. call \in [Tokens -> OperatorCall] /\ TailInv /\ BackedInv
    BY FlowFacts
  <1>2. /\ call' \in [Tokens -> OperatorCall]
        /\ call'[tok].pc = pc
        /\ call'[tok].approval = call[tok].approval /\ call'[tok].answer = answer
        /\ \A f \in Tokens : f # tok => call'[f] = call[f]
    BY <1>1, CallMoves
  <1>3. SuccessStays
    BY <1>2, SuccessKept, FlowNames
  <1>4. BackedInv'
    BY <1>1, <1>2, <1>3, BackedKept DEF Of
  <1>5. OwnTypes'
    BY <1>2 DEF FlowInv, OwnTypes
  <1>6. \A f \in Tokens : f # tok => Untouched(f)
    BY <1>2 DEF Untouched
  <1> QED BY <1>2, <1>4, <1>5, <1>6, FlowStep

\* has_durable_outcome.
LEMMA GuardKeeps ==
    ASSUME FlowInv, NEW tok \in Tokens, GuardReexecution(tok) PROVE FlowInv'
  <1>1. /\ call \in [Tokens -> OperatorCall] /\ call[tok] \in OperatorCall
        /\ CallOK(tok) /\ StoreInv /\ TailInv
    BY FlowFacts
  <1>2. PICK pc \in {"reconcile", "learn", "deny_audit"} : Proceed(tok, pc)
    BY DEF GuardReexecution
  <1>3. /\ call[tok].pc = "guard" /\ UNCHANGED <<now, rec, issued, request, outcome>>
        /\ noTail /\ UNCHANGED storeVars
    BY DEF GuardReexecution, storeVars, noFlow
  <1>4. StoreInv' /\ TailInv' /\ UNCHANGED <<receipts, run>>
    BY <1>1, <1>3, StutterKeeps, TailStutters
  <1>5. call[tok].answer \in Answers /\ pc \in CallSteps
    BY <1>1 DEF OperatorCall, CallSteps
  <1>6. /\ call'[tok].pc = pc /\ call'[tok].approval = call[tok].approval
    BY <1>1, <1>2, <1>5, CallMoves
  <1>7. CallOK(tok)'
    BY <1>1, <1>3, <1>4, <1>6
       DEF CallOK, Of, IsIssued, Acting, Undecided, EndSteps
  <1> QED BY <1>2, <1>3, <1>4, <1>5, <1>7, HandlerMoves

\* fail_already_executed: the holder decides "failed" and closes in one step; it had
\* decided nothing before, so no verdict of its own is contradicted.
LEMMA ReconcileStore ==
    ASSUME FlowInv, NEW tok \in Tokens, Reconcile(tok) PROVE StoreInv'
  <1> USE StoreAssumption
  <1> DEFINE a == Of(tok)
             c == [issued[tok] EXCEPT !.outcome = "failed"]
  <1>1. /\ rec \in [Approvals -> Record] /\ issued \in [Tokens -> Claim]
        /\ StoreInv /\ CallOK(tok) /\ now \in Nat
    BY FlowFacts DEF StoreInv, StoreTypeOK
  <1>2. call[tok].pc = "reconcile" /\ UNCHANGED now
    BY DEF Reconcile
  <1>3. a \in Approvals /\ IsIssued(tok) /\ issued[tok].approval = a
    BY <1>2, ActingHasApproval DEF Acting
  <1>4. issued[tok].outcome = None
    BY <1>1, <1>2 DEF CallOK, Undecided
  <1>5. issued' = [issued EXCEPT ![tok] = c]
    BY <1>1 DEF Reconcile
  <1>6. /\ c \in Claim /\ c.approval = a /\ c.outcome = "failed"
        /\ c.from = issued[tok].from /\ c.exp = issued[tok].exp
    BY <1>1, <1>3 DEF Claim, TerminalStates
  <1> HIDE DEF c
  <1>7. /\ issued' \in [Tokens -> Claim] /\ issued'[tok].outcome = "failed"
        /\ \A k \in Tokens : /\ issued'[k].approval = issued[k].approval
                             /\ issued'[k].from = issued[k].from
                             /\ issued'[k].exp = issued[k].exp
                             /\ k # tok => issued'[k] = issued[k]
    BY <1>1, <1>3, <1>5, <1>6
  <1>8. PICK r \in Record :
          /\ rec' = [rec EXCEPT ![a] = r]
          /\ r.token = rec[a].token /\ r.exp = rec[a].exp /\ r.marker = rec[a].marker
          /\ \/ r.state = rec[a].state
             \/ r.state = "failed" /\ rec[a].token = tok /\ rec[a].state = "claimed"
    <2>1. CASE UNCHANGED rec
      BY <1>1, <1>3, <2>1
    <2>2. CASE CompleteResult(a, tok) = "ok" /\ rec' = Completed(a, "failed")
      <3> DEFINE x == IF Backend = "redis" THEN now + ForensicsTTL ELSE rec[a].expiresAt
                 r == [rec[a] EXCEPT !.state = "failed", !.expiresAt = x]
      <3>1. rec[a].state = "claimed" /\ rec[a].token = tok
        BY <2>2 DEF CompleteResult, RequireClaimedWithToken
      <3>2. x \in Nat
        BY <1>1, <1>3 DEF StoreAssumption, Record
      <3>3. rec' = [rec EXCEPT ![a] = r]
        BY <1>1, <1>3, <2>2 DEF Completed
      <3>4. /\ r \in Record /\ r.token = rec[a].token /\ r.exp = rec[a].exp
            /\ r.marker = rec[a].marker /\ r.state = "failed"
        BY <1>1, <1>3, <3>2 DEF Record, States, TerminalStates
      <3> HIDE DEF r, x
      <3> QED BY <3>1, <3>3, <3>4
    <2> QED BY <2>1, <2>2 DEF Reconcile
  <1>9. /\ rec' \in [Approvals -> Record] /\ rec'[a] = r
        /\ \A b \in Approvals : /\ b # a => rec'[b] = rec[b]
                                /\ rec'[b].token = rec[b].token
                                /\ rec'[b].exp = rec[b].exp /\ rec'[b].marker = rec[b].marker
    BY <1>1, <1>3, <1>8
  <1>10. StoreTypeOK'
    BY <1>1, <1>2, <1>7, <1>9 DEF StoreTypeOK
  <1>11. \A b \in Approvals : rec[b].token # Nil => rec[b].token \in Tokens
    BY <1>1 DEF Record
  <1>12. HolderInv'
    <2>1. \A b \in Approvals : rec'[b].state \in {"absent", "pending"} <=>
                                 rec[b].state \in {"absent", "pending"}
      BY <1>8, <1>9
    <2> QED BY <1>1, <1>7, <1>9, <1>11, <2>1 DEF StoreInv, HolderInv
  <1>13. LatestInv'
    <2> SUFFICES ASSUME NEW k \in Tokens, issued'[k].approval # Nil
                 PROVE  LET h == rec'[issued'[k].approval].token IN
                        /\ h \in Tokens
                        /\ k = h \/ issued'[k].exp <= issued'[h].from
      BY DEF LatestInv, IsIssued
    <2>1. IsIssued(k) /\ issued[k].approval \in Approvals
      BY <1>1, <1>7 DEF IsIssued, Claim
    <2> QED BY <1>1, <1>7, <1>9, <2>1 DEF StoreInv, LatestInv
  <1>14. ClaimInv' /\ ClaimWindowsDisjoint'
    BY <1>1, <1>3, <1>7 DEF StoreInv, ClaimInv, ClaimWindowsDisjoint, IsIssued
  <1>15. VerdictIsTheHolders'
    <2> SUFFICES ASSUME NEW b \in Approvals
                 PROVE /\ rec'[b].marker # None =>
                             rec'[b].marker = issued'[rec'[b].token].outcome
                       /\ IsTerminal(rec'[b].state) =>
                             rec'[b].state = issued'[rec'[b].token].outcome
      BY DEF VerdictIsTheHolders
    <2>1. rec[b].marker # None \/ IsTerminal(rec[b].state) =>
              rec[b].token \in Tokens /\ rec[b].token # tok
      BY <1>1, <1>4, <1>11
         DEF StoreInv, HolderInv, VerdictIsTheHolders, IsTerminal, TerminalStates, None
    <2>2. CASE b # a \/ r.state = rec[a].state
      BY <1>1, <1>7, <1>9, <2>1, <2>2 DEF StoreInv, VerdictIsTheHolders
    <2>3. CASE b = a /\ r.state = "failed" /\ rec[a].token = tok
      BY <1>7, <1>9, <2>1, <2>3
    <2> QED BY <1>8, <2>2, <2>3
  <1> QED BY <1>10, <1>12, <1>13, <1>14, <1>15 DEF StoreInv

\* fail_already_executed, the whole step.
LEMMA ReconcileKeeps ==
    ASSUME FlowInv, NEW tok \in Tokens, Reconcile(tok) PROVE FlowInv'
  <1>1. /\ call \in [Tokens -> OperatorCall] /\ issued \in [Tokens -> Claim]
        /\ CallOK(tok) /\ StoreInv /\ TailInv
    BY FlowFacts
  <1>2. /\ call[tok].pc = "reconcile" /\ noTail /\ UNCHANGED <<request, outcome>>
        /\ issued' = [issued EXCEPT ![tok].outcome = "failed"]
        /\ Answer(tok, "end", "conflict")
    BY DEF Reconcile, noFlow
  <1>3. StoreInv' /\ TailInv' /\ UNCHANGED <<receipts, run>>
    BY <1>1, <1>2, ReconcileStore, TailStutters
  <1>4. "conflict" \in Answers /\ "end" \in CallSteps
    BY DEF Answers, CallSteps
  <1>5. /\ call'[tok].pc = "end" /\ call'[tok].approval = call[tok].approval
    BY <1>1, <1>2, <1>4, CallMoves
  <1>6. /\ issued'[tok].approval = issued[tok].approval /\ issued'[tok].outcome = "failed"
        /\ \A f \in Tokens : f # tok => issued'[f] = issued[f]
    BY <1>1, <1>2 DEF Claim
  <1>7. CallOK(tok)'
    BY <1>1, <1>2, <1>3, <1>5, <1>6
       DEF CallOK, Of, IsIssued, Acting, Undecided, EndSteps
  <1> QED BY <1>2, <1>3, <1>4, <1>6, <1>7, HandlerMoves

\* The learn path ends the call, or a run is taken up for it.
LEMMA LearnKeeps ==
    ASSUME FlowInv, NEW tok \in Tokens, Learn(tok) PROVE FlowInv'
  <1> DEFINE a == Of(tok)
             q == [NewRun(tok, SessionOf[a], RiskOf[a], TRUE, a) EXCEPT !.pc = "plan"]
  <1>1. /\ call \in [Tokens -> OperatorCall] /\ call[tok] \in OperatorCall
        /\ run \in [Runs -> Run] /\ tok \in Runs
        /\ CallOK(tok) /\ StoreInv /\ TailInv /\ BackedInv
    BY FlowFacts
  <1>2. /\ call[tok].pc = "learn" /\ UNCHANGED <<request, outcome, issued>>
        /\ UNCHANGED <<budget, epoch, audit, intents, receipts, effects>>
        /\ UNCHANGED storeVars
    BY DEF Learn, storeVars
  <1>3. StoreInv'
    BY <1>1, <1>2, StutterKeeps
  <1>4. run[tok].pc = "idle" /\ issued[tok].outcome = None /\ run[tok].result # "ok"
    BY <1>1, <1>2, TailFacts DEF CallOK, Undecided, Proven
  <1>5. CASE Answer(tok, "end", "bad_request") /\ UNCHANGED run
    <2>1. TailInv'
      BY <1>1, <1>2, <1>5, TailStutters DEF noTail, tailVars
    <2>2. "bad_request" \in Answers /\ "end" \in CallSteps
      BY DEF Answers, CallSteps
    <2>3. call'[tok].pc = "end" /\ call'[tok].approval = call[tok].approval
      BY <1>1, <1>5, <2>2, CallMoves
    <2>4. CallOK(tok)'
      BY <1>1, <1>2, <1>4, <1>5, <2>3
         DEF CallOK, Of, IsIssued, Acting, Undecided, EndSteps, None
    <2> QED BY <1>2, <1>3, <1>5, <2>1, <2>2, <2>4, HandlerMoves
  <1>6. CASE Proceed(tok, "execute") /\ run' = [run EXCEPT ![tok] = q]
    <2>1. a \in Approvals
      BY <1>2, ActingHasApproval DEF Acting
    <2>2. /\ q \in Run /\ q.pc = "plan" /\ q.debited = FALSE /\ q.result = "none"
      BY <2>1, FlowNames DEF NewRun, Run, Steps, FrontSteps
    <2> HIDE DEF q
    <2>3. TailInv'
      BY <1>1, <1>2, <1>4, <1>6, <2>2, FreshRunKeeps
    <2>4. call[tok].answer \in Answers /\ "execute" \in CallSteps
      BY <1>1 DEF OperatorCall, CallSteps
    <2>5. /\ call' \in [Tokens -> OperatorCall] /\ call'[tok].pc = "execute"
          /\ call'[tok].approval = call[tok].approval
          /\ call'[tok].answer = call[tok].answer
          /\ \A f \in Tokens : f # tok => call'[f] = call[f]
      BY <1>1, <1>6, <2>4, CallMoves
    <2>6. run'[tok] = q /\ \A f \in Tokens : f # tok => run'[f] = run[f]
      BY <1>1, <1>6, FlowNames
    <2>7. SuccessStays
      BY <1>2, <1>4, <2>5, <2>6, FlowNames DEF SuccessStays
    <2>8. BackedInv'
      BY <1>1, <1>2, <2>5, <2>7, BackedKept
    <2>9. OwnTypes'
      BY <1>2, <2>5 DEF FlowInv, OwnTypes
    <2>10. CallOK(tok)'
      BY <1>1, <1>2, <1>4, <2>2, <2>5, <2>6
         DEF CallOK, Of, IsIssued, Acting, Undecided, EndSteps, None
    <2>11. \A f \in Tokens : f # tok => Untouched(f)
      BY <1>2, <2>5, <2>6 DEF Untouched
    <2> QED BY <1>3, <2>3, <2>8, <2>9, <2>10, <2>11, FlowStep
  <1> QED BY <1>5, <1>6 DEF Learn

\* A step of the run of a call that executes: the handler waits for it.
LEMMA ExecutionMoves ==
    ASSUME FlowInv, NEW tok \in Tokens, call[tok].pc = "execute", Alone(tok), TailInv',
           receipts \subseteq receipts', run[tok].result = "ok" => run'[tok].result = "ok",
           UNCHANGED <<storeVars, request, call, outcome>>
    PROVE  FlowInv'
  <1>1. CallOK(tok) /\ StoreInv /\ TailInv /\ BackedInv
    BY FlowFacts
  <1>2. StoreInv' /\ UNCHANGED issued
    BY <1>1, StutterKeeps DEF storeVars
  <1>3. \A f \in Tokens : f # tok => Untouched(f)
    BY <1>2, FlowNames DEF Alone, Untouched
  <1>4. SuccessStays
    BY FlowNames DEF SuccessStays, Alone
  <1>5. BackedInv'
    BY <1>1, <1>4, BackedKept
  <1>6. CallOK(tok)'
    BY <1>1, <1>2 DEF CallOK, Of, IsIssued, Acting, Undecided, None
  <1>7. OwnTypes'
    BY DEF FlowInv, OwnTypes
  <1> QED BY <1>2, <1>3, <1>5, <1>6, <1>7, FlowStep

\* prepare_approved_execution: the run goes on to the debit or fails, uncharged.
LEMMA CheckPlanKeeps ==
    ASSUME FlowInv, NEW tok \in Tokens, CheckPlan(tok) PROVE FlowInv'
  <1>1. /\ CallOK(tok) /\ TailInv /\ run \in [Runs -> Run] /\ tok \in Runs
        /\ Progress(tok) /\ Charged(tok) /\ Approved(tok)
    BY FlowFacts, TailFacts
  <1>2. /\ run[tok].pc = "plan" /\ UNCHANGED <<storeVars, request, call, outcome>>
        /\ UNCHANGED <<budget, epoch, audit, intents, receipts, effects>>
    BY DEF CheckPlan
  <1>3. call[tok].pc = "execute"
    BY <1>1, <1>2 DEF CallOK, EndSteps
  <1>4. PICK pc \in {"debit", "audit", "done"} :
           /\ Moved(tok, pc) /\ run'[tok].debited = run[tok].debited
           /\ run'[tok].result = run[tok].result \/ run'[tok].result # "ok"
    <2>1. {"debit", "audit", "done"} \subseteq Steps /\ {"Deny", "Error", NoEvent} \subseteq Events \cup {NoEvent}
      BY DEF Steps, BuildSteps, CleanupSteps, EndSteps, Events
    <2>2. CASE GoTo(tok, "debit")
      BY <1>1, <2>1, <2>2, GoToMoves
    <2>3. CASE \E pc \in {"audit", "done"}, event \in {"Deny", "Error", NoEvent} :
                 FailTo(tok, pc, event)
      <3>1. PICK pc \in {"audit", "done"}, event \in {"Deny", "Error", NoEvent} :
               FailTo(tok, pc, event)
        BY <2>3
      <3>2. Moved(tok, pc) /\ run'[tok].debited = run[tok].debited /\ run'[tok].result = "error"
        BY <1>1, <2>1, <3>1, FailToMoves
      <3> QED BY <3>2
    <2> QED BY <2>2, <2>3 DEF CheckPlan
  <1>5. TailInv'
    <2>1. tok \notin intents /\ run[tok].debited = FALSE
      BY <1>1, <1>2, TailFacts DEF Progress, Charged, BeforeIntent, FrontSteps
    <2>2. run'[tok].debited = FALSE /\ run'[tok].pc = pc /\ tok \notin intents'
      BY <1>2, <1>4, <2>1 DEF Moved
    <2>3. Progress(tok)' /\ Charged(tok)' /\ Approved(tok)'
      BY <2>2 DEF Progress, Charged, Approved, FrontSteps
    <2> QED BY <1>1, <1>2, <1>4, <2>3, PlainMove
  <1>6. Alone(tok)
    BY <1>4 DEF Alone, Moved
  <1>7. run[tok].result # "ok"
    BY <1>1, <1>2, TailFacts DEF Proven
  <1> QED BY <1>2, <1>3, <1>5, <1>6, <1>7, ExecutionMoves

\* execute_authorized_plan, step by step.
LEMMA ExecuteKeeps ==
    ASSUME FlowInv, NEW tok \in Tokens, ExecuteStep(tok) PROVE FlowInv'
  <1>1. TailInv /\ tok \in Runs
    BY FlowFacts
  <1>2. /\ call[tok].pc = "execute" /\ RunStep(tok, "refund_audit")
        /\ UNCHANGED <<storeVars, request, call, outcome>>
    BY DEF ExecuteStep
  <1>3. TailInv' /\ Alone(tok) /\ Marked(tok)
    BY <1>1, <1>2, RunStepKeeps, RunStepMarks
  <1>4. receipts \subseteq receipts' /\ (run[tok].result = "ok" => run'[tok].result = "ok")
    BY <1>3 DEF Marked, Unmarked, Recorded, Acted, Attested
  <1> QED BY <1>2, <1>3, <1>4, ExecutionMoves

\* A denial is audited under the call's own trace.
LEMMA AuditDenialKeeps ==
    ASSUME FlowInv, NEW tok \in Tokens, AuditDenial(tok) PROVE FlowInv'
  <1>1. /\ call \in [Tokens -> OperatorCall] /\ call[tok] \in OperatorCall
        /\ CallOK(tok) /\ StoreInv /\ TailInv
    BY FlowFacts
  <1>2. /\ call[tok].pc = "deny_audit" /\ UNCHANGED <<issued, request, outcome>>
        /\ UNCHANGED storeVars /\ WriteAudit(tok, "Deny") /\ Proceed(tok, "outcome")
        /\ UNCHANGED <<budget, epoch, intents, receipts, effects, run>>
    BY DEF AuditDenial, storeVars, noFlow
  <1>3. "Deny" \in Events \cup {NoEvent} /\ tok \in Traces
    BY FlowNames DEF Events
  <1>4. StoreInv' /\ TailInv'
    BY <1>1, <1>2, <1>3, StutterKeeps, AuditKeeps
  <1>5. call[tok].answer \in Answers /\ "outcome" \in CallSteps
    BY <1>1 DEF OperatorCall, CallSteps
  <1>6. /\ call'[tok].pc = "outcome" /\ call'[tok].approval = call[tok].approval
    BY <1>1, <1>2, <1>5, CallMoves
  <1>7. CallOK(tok)'
    BY <1>1, <1>2, <1>6 DEF CallOK, Of, IsIssued, Acting, Undecided, EndSteps
  <1> QED BY <1>2, <1>4, <1>5, <1>7, HandlerMoves

\* The verdict of a call is settled: write_durable_outcome keeps the first one.
LEMMA OutcomeKeeps ==
    ASSUME FlowInv, NEW tok \in Tokens, WriteDurableOutcome(tok) PROVE FlowInv'
  <1> DEFINE a == Of(tok)
             v == Verdict(tok)
  <1>1. /\ call \in [Tokens -> OperatorCall] /\ call[tok] \in OperatorCall
        /\ outcome \in [Approvals -> TerminalStates \cup {None}]
        /\ issued \in [Tokens -> Claim] /\ tok \in Runs
        /\ CallOK(tok) /\ StoreInv /\ TailInv /\ BackedInv
    BY FlowFacts
  <1>2. /\ call[tok].pc \in {"outcome", "execute"} /\ noTail /\ Proceed(tok, "marker")
        /\ issued' = [issued EXCEPT ![tok].outcome = v]
        /\ UNCHANGED <<now, rec, request>>
        /\ run[tok].pc \in {"idle", "done"}
        /\ \/ outcome' = [outcome EXCEPT ![a] = v]
           \/ UNCHANGED outcome
    BY <1>1 DEF WriteDurableOutcome, Decided, CallOK, Undecided
  <1>3. /\ a \in Approvals /\ IsIssued(tok) /\ issued[tok].approval = a
        /\ issued[tok].outcome = None
    BY <1>1, <1>2, ActingHasApproval DEF Acting, CallOK, Undecided
  <1>4. v \in TerminalStates /\ (v = "approved" => run[tok].result = "ok")
    BY VerdictFacts
  <1>5. v = "approved" => Backed(a)
    BY <1>1, <1>4, SuccessBacks
  <1> HIDE DEF v
  <1>6. StoreInv'
    <2>1. Decide(tok, v)
      BY <1>2, <1>3 DEF Decide
    <2> QED BY <1>1, <1>4, <2>1, DecideKeeps
  <1>7. TailInv' /\ UNCHANGED <<receipts, run>>
    BY <1>1, <1>2, TailStutters
  <1>8. call[tok].answer \in Answers /\ "marker" \in CallSteps
    BY <1>1 DEF OperatorCall, CallSteps
  <1>9. /\ call' \in [Tokens -> OperatorCall] /\ call'[tok].pc = "marker"
        /\ call'[tok].op = call[tok].op
        /\ call'[tok].approval = call[tok].approval /\ call'[tok].answer = call[tok].answer
        /\ \A f \in Tokens : f # tok => call'[f] = call[f]
    BY <1>1, <1>2, <1>8, CallMoves
  <1>10. /\ issued'[tok].outcome = v /\ issued'[tok].approval = issued[tok].approval
         /\ \A f \in Tokens : f # tok => issued'[f] = issued[f]
    BY <1>1, <1>2 DEF Claim
  <1>11. SuccessStays
    BY <1>7, <1>9, SuccessKept, FlowNames
  <1>12. OwnTypes'
    BY <1>1, <1>2, <1>3, <1>4, <1>9 DEF FlowInv, OwnTypes
  <1>13. BackedInv'
    <2>1. \A b \in Approvals : outcome'[b] = "approved" => Backed(b)
      BY <1>1, <1>2, <1>3, <1>5 DEF BackedInv
    <2>2. \A f \in Tokens : call'[f].answer = "approved" => Backed(Of(f))
      BY <1>1, <1>9 DEF BackedInv
    <2>3. \A b : Backed(b) => Backed(b)'
      BY <1>1, <1>11, BackedStays
    <2>4. \A b \in Approvals : outcome'[b] = "approved" => Backed(b)'
      BY <2>1, <2>3
    <2>5. \A f \in Tokens : call'[f].approval = call[f].approval
      BY <1>9
    <2>6. \A f \in Tokens : call'[f].answer = "approved" =>
             \E e \in receipts' : call'[e].approval = call'[f].approval /\ run'[e].result = "ok"
      BY <2>2, <2>3, <2>5 DEF Backed, Of
    <2> QED BY <2>4, <2>6 DEF BackedInv, Backed, Of
  <1>14. Verdict(tok)' = v
    BY <1>7, <1>9 DEF Verdict, v
  <1>15. CallOK(tok)'
    BY <1>1, <1>2, <1>3, <1>4, <1>7, <1>9, <1>10, <1>14
       DEF CallOK, Of, IsIssued, Acting, Undecided, EndSteps
  <1>16. \A f \in Tokens : f # tok => Untouched(f)
    BY <1>7, <1>9, <1>10 DEF Untouched
  <1> QED BY <1>6, <1>7, <1>12, <1>13, <1>15, <1>16, FlowStep

\* finalize_outcome, both phases: the store is given the verdict of the call, or
\* nothing.
LEMMA FinalizeKeeps ==
    ASSUME FlowInv, NEW tok \in Tokens, FinalizeMarker(tok) \/ FinalizeComplete(tok)
    PROVE  FlowInv'
  <1>1. /\ call \in [Tokens -> OperatorCall] /\ call[tok] \in OperatorCall
        /\ CallOK(tok) /\ StoreInv /\ TailInv /\ tok \in Runs
    BY FlowFacts
  <1>2. /\ noTail /\ UNCHANGED <<request, outcome, issued>>
        /\ call[tok].pc \in {"marker", "complete"}
        /\ WriteOutcomeMarker(tok) \/ Complete(tok) \/ UNCHANGED storeVars
    BY DEF FinalizeMarker, FinalizeComplete, WriteOutcomeMarker, Complete, storeVars, noFlow
  <1>3. StoreInv' /\ TailInv' /\ UNCHANGED <<receipts, run>>
    BY <1>1, <1>2, MarkerKeeps, CompleteKeeps, StutterKeeps, TailStutters
  <1>4. /\ Verdict(tok) \in Answers /\ call[tok].answer \in Answers
        /\ {"complete", "end"} \subseteq CallSteps
        /\ Verdict(tok) = "approved" => Backed(Of(tok))
    BY <1>1, VerdictFacts, SuccessBacks DEF OperatorCall, CallSteps, Answers
  <1>5. ASSUME NEW pc \in {"complete", "end"}, call'[tok].pc = pc,
               call'[tok].approval = call[tok].approval, call'[tok].op = call[tok].op
        PROVE  CallOK(tok)'
    BY <1>1, <1>2, <1>3, <1>5
       DEF CallOK, Of, IsIssued, Acting, Undecided, EndSteps, Verdict
  <1>6. CASE FinalizeMarker(tok)
    <2>1. Proceed(tok, "complete")
      BY <1>6 DEF FinalizeMarker
    <2>2. /\ call'[tok].pc = "complete" /\ call'[tok].op = call[tok].op
          /\ call'[tok].approval = call[tok].approval
      BY <1>1, <1>4, <2>1, CallMoves
    <2>3. CallOK(tok)'
      BY <1>5, <2>2
    <2> QED BY <1>2, <1>3, <1>4, <2>1, <2>3, HandlerMoves
  <1>7. CASE FinalizeComplete(tok)
    <2>1. Answer(tok, "end", Verdict(tok))
      BY <1>7 DEF FinalizeComplete
    <2>2. /\ call'[tok].pc = "end" /\ call'[tok].op = call[tok].op
          /\ call'[tok].approval = call[tok].approval
      BY <1>1, <1>4, <2>1, CallMoves
    <2>3. CallOK(tok)'
      BY <1>5, <2>2
    <2> QED BY <1>2, <1>3, <1>4, <2>1, <2>3, HandlerMoves
  <1> QED BY <1>6, <1>7

--------------------------------------------------------------------------------
(* The environment, and the whole path.                                        *)

\* Time and revocations leave the calls alone.
LEMMA EnvironmentKeeps ==
    ASSUME FlowInv, PassTime \/ Revoke \/ UNCHANGED flowVars PROVE FlowInv'
  <1>1. StoreInv /\ TailInv /\ BackedInv
    BY DEF FlowInv
  <1>2. UNCHANGED <<request, call, outcome, issued, receipts, run>>
    BY DEF PassTime, Revoke, Tick, noTail, noFlow, tailVars, storeVars, flowVars, RevokeAll
  <1>3. StoreInv'
    BY <1>1, TickKeeps, StutterKeeps DEF PassTime, Revoke, flowVars
  <1>4. TailInv'
    <2>1. epoch' \in Nat /\ UNCHANGED <<budget, audit, intents, receipts, effects, run>>
      BY <1>1 DEF PassTime, Revoke, noTail, tailVars, flowVars, RevokeAll, TailInv, TailTypeOK
    <2> QED BY <1>1, <2>1, EpochKeeps
  <1>5. BackedInv'
    BY <1>1, <1>2, SuccessKept, BackedKept
  <1>6. \A tok \in Tokens : CallOK(tok)'
    BY <1>2, UntouchedKeeps DEF FlowInv, Untouched
  <1>7. OwnTypes'
    BY <1>2 DEF FlowInv, OwnTypes
  <1> QED BY <1>3, <1>4, <1>5, <1>6, <1>7 DEF FlowInv

\* A call that is lost takes its run along.
LEMMA LostCallKeeps ==
    ASSUME FlowInv, NEW tok \in Tokens, AbandonCall(tok) PROVE FlowInv'
  <1>1. /\ call \in [Tokens -> OperatorCall] /\ call[tok] \in OperatorCall
        /\ run \in [Runs -> Run] /\ tok \in Runs
        /\ CallOK(tok) /\ StoreInv /\ TailInv /\ BackedInv
    BY FlowFacts
  <1>2. /\ Acting(tok) /\ Proceed(tok, "lost") /\ UNCHANGED <<request, outcome, issued>>
        /\ UNCHANGED storeVars
        /\ UNCHANGED <<budget, epoch, audit, intents, receipts, effects>>
        /\ Abandon(tok) \/ (~InFlight(tok) /\ UNCHANGED run)
    BY DEF AbandonCall, storeVars, noFlow, Abandon, GoTo
  <1>3. StoreInv'
    BY <1>1, <1>2, StutterKeeps
  <1>4. TailInv'
    <2>1. CASE Abandon(tok)
      BY <1>1, <2>1, AbandonKeeps
    <2>2. CASE UNCHANGED run
      BY <1>1, <1>2, <2>2, TailStutters DEF noTail, tailVars
    <2> QED BY <1>2, <2>1, <2>2
  <1>5. call[tok].answer \in Answers /\ "lost" \in CallSteps /\ "lost" \in Steps
    BY <1>1 DEF OperatorCall, CallSteps, Steps, EndSteps
  <1>6. /\ call' \in [Tokens -> OperatorCall] /\ call'[tok].pc = "lost"
        /\ call'[tok].approval = call[tok].approval /\ call'[tok].answer = call[tok].answer
        /\ \A f \in Tokens : f # tok => call'[f] = call[f]
    BY <1>1, <1>2, <1>5, CallMoves
  <1>7. /\ run'[tok].result = run[tok].result /\ run'[tok].pc \in {"idle"} \cup EndSteps
        /\ \A f \in Tokens : f # tok => run'[f] = run[f]
    <2>1. CASE Abandon(tok)
      BY <1>1, <1>5, <2>1, GoToMoves, FlowNames DEF Abandon, Moved, EndSteps
    <2>2. CASE ~InFlight(tok) /\ UNCHANGED run
      BY <2>2 DEF InFlight
    <2> QED BY <1>2, <2>1, <2>2
  <1>8. SuccessStays
    BY <1>2, <1>6, <1>7, FlowNames DEF SuccessStays
  <1>9. BackedInv'
    BY <1>1, <1>2, <1>6, <1>8, BackedKept
  <1>10. CallOK(tok)'
    BY <1>1, <1>2, <1>6, <1>7 DEF CallOK, Of, IsIssued, Acting, Undecided
  <1>11. OwnTypes'
    BY <1>2, <1>6 DEF FlowInv, OwnTypes
  <1>12. \A f \in Tokens : f # tok => Untouched(f)
    BY <1>2, <1>6, <1>7 DEF Untouched
  <1> QED BY <1>3, <1>4, <1>9, <1>10, <1>11, <1>12, FlowStep

\* Every step of the handler keeps the invariant.
LEMMA HandlerKeeps ==
    ASSUME FlowInv, NEW tok \in Tokens, HandlerStep(tok) PROVE FlowInv'
  BY GuardKeeps, ReconcileKeeps, LearnKeeps, CheckPlanKeeps, ExecuteKeeps,
     AuditDenialKeeps, OutcomeKeeps, FinalizeKeeps DEF HandlerStep

\* Every step of the path keeps the invariant.
LEMMA FlowNextKeeps == ASSUME FlowInv, [FlowNext]_flowVars PROVE FlowInv'
  BY RequestKeeps, ClaimApprovalKeeps, RefusedKeeps, HandlerKeeps, LostCallKeeps,
     EnvironmentKeeps DEF FlowNext

\* Nothing claimed, nothing run, nothing answered.
LEMMA FlowInitEstablishes == ASSUME FlowInit PROVE FlowInv
  <1> DEFINE s == CHOOSE x \in Sessions : TRUE
  <1>1. s \in Sessions
    BY FlowAssumption DEF FlowAssumption
  <1> HIDE DEF s
  <1>2. StoreInv /\ TailInit /\ issued = [tok \in Tokens |-> Unissued]
    BY InitEstablishes DEF FlowInit, Init
  <1>3. run = [e \in Runs |-> NewRun(e, s, "low", TRUE, e)]
    BY DEF FlowInit, s
  <1>4. /\ run \in [Runs -> Run]
        /\ \A e \in Runs : /\ run[e].pc = "idle" /\ run[e].debited = FALSE
                           /\ run[e].result = "none"
    BY <1>1, <1>3, FlowNames DEF NewRun, Run, Risks, Steps, FrontSteps
  <1>5. TailInv
    BY <1>2, <1>4, InitialTail
  <1>6. OwnTypes /\ BackedInv
    BY DEF FlowInit, OwnTypes, BackedInv, OperatorCall, CallSteps, Answers, None
  <1>7. ASSUME NEW tok \in Tokens PROVE CallOK(tok)
    <2>1. call[tok].pc = "idle" /\ call[tok].answer = "none" /\ issued[tok] = Unissued
      BY <1>2 DEF FlowInit
    <2>2. run[tok].pc = "idle"
      BY <1>4, FlowNames
    <2> QED BY <2>1, <2>2
            DEF CallOK, IsIssued, Unissued, Acting, Undecided, EndSteps, None
  <1> QED BY <1>2, <1>5, <1>6, <1>7 DEF FlowInv

\* FlowInv holds in every reachable state of the composition.
THEOREM FlowInvariant == FlowSpec => []FlowInv
  <1>1. FlowInit => FlowInv
    BY FlowInitEstablishes
  <1>2. FlowInv /\ [FlowNext]_flowVars => FlowInv'
    BY FlowNextKeeps
  <1> QED BY <1>1, <1>2, PTL DEF FlowSpec

\* Whatever fails and however late a call ends, an operator is told "approved", and
\* a record reads "approved", only of an approval whose plan was executed with
\* success and whose receipt is durable (approve_call, finalize_outcome,
\* claim_or_short_circuit).
THEOREM FlowAnswersAreTrue == FlowSpec => []ApprovalsAreTrue
  <1>1. FlowInv => ApprovalsAreTrue
    <2> SUFFICES ASSUME FlowInv PROVE ApprovalsAreTrue
      OBVIOUS
    <2>1. FlowTypeOK
      BY DEF FlowInv, StoreInv, TailInv, OwnTypes, FlowTypeOK
    <2>2. ApprovedAnswerIsTrue
      BY DEF FlowInv, BackedInv, Backed, ApprovedAnswerIsTrue
    <2>3. ApprovedRecordIsBacked
      BY RecordBacked DEF ApprovedRecordIsBacked
    <2> QED BY <2>1, <2>2, <2>3 DEF ApprovalsAreTrue
  <1> QED BY <1>1, FlowInvariant, PTL

--------------------------------------------------------------------------------
(* One approval, one execution.  From here on calls end within their claim and *)
(* none is lost.                                                               *)

\* A call that has passed the guard and decided nothing yet.
OpenSteps == {"learn", "execute", "deny_audit", "outcome"}

\* Nobody has settled a verdict on a.
NobodyDecided(a) == \A e \in Tokens : Of(e) = a => issued[e].outcome = None

\* No claim is from the future, and the claim of an acting call has not run out.
Timely ==
    \A tok \in Tokens :
        /\ IsIssued(tok) => issued[tok].from <= now
        /\ Acting(tok) => now < issued[tok].exp

\* What has acted belongs to a call that still executes or has settled its verdict.
EffectsAreOwned ==
    \A e \in effects : /\ call[e].op = "approve"
                       /\ call[e].pc = "execute" \/ issued[e].outcome # None

\* The calls of one approval take turns.
SerialInv ==
    /\ Timely
    /\ \A tok \in Tokens : call[tok].pc \in {"learn", "execute"} => call[tok].op = "approve"
    /\ \A tok \in Tokens : call[tok].pc \in OpenSteps => NobodyDecided(Of(tok))
    /\ EffectsAreOwned
    /\ \A e, f \in effects : Of(e) = Of(f) => e = f
    /\ \A tok \in Tokens, e \in effects : issued[tok].outcome = "denied" => Of(e) # Of(tok)

\* An acting call is the holder of its approval: whoever claimed it later did so after
\* this claim had run out.
LEMMA ActingHolds ==
    ASSUME FlowInv, Timely, NEW tok \in Tokens, Acting(tok)
    PROVE  rec[Of(tok)].token = tok /\ rec[Of(tok)].exp = issued[tok].exp
  <1> DEFINE h == rec[Of(tok)].token
  <1>1. Of(tok) \in Approvals /\ IsIssued(tok) /\ issued[tok].approval = Of(tok)
    BY ActingHasApproval
  <1>2. /\ StoreInv /\ issued \in [Tokens -> Claim] /\ now \in Nat
        /\ rec \in [Approvals -> Record]
    BY DEF FlowInv, StoreInv, StoreTypeOK
  <1>3. h \in Tokens /\ (tok = h \/ issued[tok].exp <= issued[h].from)
    BY <1>1, <1>2 DEF StoreInv, LatestInv
  <1>4. issued[h].approval = Of(tok) /\ issued[h].exp = rec[Of(tok)].exp
    BY <1>1, <1>2, <1>3, FlowNames DEF StoreInv, HolderInv
  <1>5. IsIssued(h)
    BY <1>1, <1>4 DEF IsIssued
  <1>6. issued[h].from <= now /\ now < issued[tok].exp
    BY <1>3, <1>5 DEF Timely
  <1>7. issued[h].from \in Nat /\ issued[tok].exp \in Nat
    BY <1>2, <1>3 DEF Claim
  <1> QED BY <1>2, <1>3, <1>4, <1>6, <1>7

\* Two calls never act on one approval.
LEMMA ActingAlone ==
    ASSUME FlowInv, Timely, NEW t1 \in Tokens, NEW t2 \in Tokens,
           Acting(t1), Acting(t2), Of(t1) = Of(t2)
    PROVE  t1 = t2
  BY ActingHolds

\* A claim is granted only on an approval nobody acts on.
LEMMA ClaimIsFree ==
    ASSUME FlowInv, Timely, NEW tok \in Tokens, NEW a \in Approvals, NEW t \in CallerClock,
           ClaimPending(a, tok, t), NEW f \in Tokens, Acting(f)
    PROVE  Of(f) # a
  <1> SUFFICES ASSUME Of(f) = a PROVE FALSE
    OBVIOUS
  <1>1. StoreInv /\ now \in Nat /\ issued \in [Tokens -> Claim]
    BY DEF FlowInv, StoreInv, StoreTypeOK
  <1>2. rec[a].token = f /\ rec[a].exp = issued[f].exp /\ now < issued[f].exp
    BY ActingHolds DEF Timely
  <1>3. t \in Nat /\ t <= now /\ ClaimResult(a, t) = "ok"
    BY <1>1 DEF CallerClock, ClaimPending
  <1>4. rec[a].token = Nil \/ rec[a].exp <= t
    BY <1>1, <1>3, ClaimPrecondition
  <1>5. issued[f].exp \in Nat
    BY <1>1 DEF Claim
  <1> QED BY <1>1, <1>2, <1>3, <1>4, <1>5, FlowNames

(* The steps, as far as the calls and their claims can tell them apart.        *)

OthersWait(tok) == \A f \in Tokens : f # tok => call'[f] = call[f] /\ issued'[f] = issued[f]

SameRequest(tok) ==
    call'[tok].op = call[tok].op /\ call'[tok].approval = call[tok].approval

Waits ==
    /\ UNCHANGED <<call, issued, effects, outcome>>
    /\ \/ now' = now
       \/ /\ now' = now + 1
          /\ Prompt => \A tok \in Tokens : Acting(tok) => now + 1 < issued[tok].exp

Acts(tok) ==
    /\ call[tok].pc = "execute" /\ effects' = effects \cup {tok}
    /\ UNCHANGED <<call, issued, outcome, now>>

Begins(tok, a, t) ==
    /\ call[tok].pc = "idle" /\ OthersWait(tok) /\ UNCHANGED <<effects, outcome, now>>
    /\ call'[tok].approval = a /\ issued'[tok].outcome = None
    /\ \/ /\ call'[tok].pc = "guard" /\ call'[tok].answer = "none"
          /\ ClaimPending(a, tok, t)
       \/ /\ call'[tok].pc = "end"
          /\ call'[tok].answer \in RefusalAnswers(a, t) \cup LedgerAnswer(a, "unavailable")
          /\ issued'[tok] = issued[tok] \/ ClaimPending(a, tok, t)

Passes(tok) ==
    /\ call[tok].pc = "guard" /\ call'[tok].answer = call[tok].answer
    /\ \/ call'[tok].pc = "reconcile" /\ outcome[Of(tok)] # None
       \/ /\ call'[tok].pc = IF call[tok].op = "approve" THEN "learn" ELSE "deny_audit"
          /\ outcome[Of(tok)] = None \/ LedgerFaults

GoesOn(tok) ==
    \/ /\ call'[tok].answer = call[tok].answer
       /\ \/ call[tok].pc = "learn" /\ call'[tok].pc = "execute"
          \/ call[tok].pc = "deny_audit" /\ call'[tok].pc = "outcome"
          \/ call[tok].pc = "marker" /\ call'[tok].pc = "complete" /\ FinalizeMarker(tok)
    \/ call[tok].pc = "learn" /\ call'[tok].pc = "end" /\ call'[tok].answer = "bad_request"
    \/ call[tok].pc = "complete" /\ call'[tok].pc = "end" /\ call'[tok].answer = Verdict(tok)

Moves(tok) ==
    /\ OthersWait(tok) /\ SameRequest(tok) /\ UNCHANGED <<issued, effects, outcome, now>>
    /\ Passes(tok) \/ GoesOn(tok)

Decides(tok, kind) ==
    /\ OthersWait(tok) /\ SameRequest(tok) /\ UNCHANGED <<effects, now>>
    /\ issued'[tok].approval = issued[tok].approval /\ issued'[tok].from = issued[tok].from
    /\ issued'[tok].exp = issued[tok].exp /\ issued'[tok].outcome = kind
    /\ \/ /\ call[tok].pc = "reconcile" /\ call'[tok].pc = "end"
          /\ call'[tok].answer = "conflict" /\ kind = "failed" /\ UNCHANGED outcome
          /\ Reconcile(tok)
       \/ /\ call[tok].pc \in {"outcome", "execute"} /\ call'[tok].pc = "marker"
          /\ call'[tok].answer = call[tok].answer /\ kind = Verdict(tok)
          /\ \/ outcome' = IF outcome[Of(tok)] = None
                           THEN [outcome EXCEPT ![Of(tok)] = kind] ELSE outcome
             \/ LedgerFaults /\ UNCHANGED outcome

\* Every step that loses no call is one of these.
LEMMA FlowMoves ==
    ASSUME FlowInv, ~Abandons, [FlowNext]_flowVars
    PROVE  \/ Waits
           \/ \E tok \in Tokens : Acts(tok) \/ Moves(tok)
           \/ \E tok \in Tokens, kind \in TerminalStates : Decides(tok, kind)
           \/ \E tok \in Tokens, a \in Approvals, t \in CallerClock : Begins(tok, a, t)
  <1>1. CASE \E a \in Approvals : StorePendingApproval(a) \/ AuditRequest(a) \/ AbandonRequest(a)
    BY <1>1 DEF StorePendingApproval, AuditRequest, AbandonRequest, CreatePending, Waits,
                noTail, tailVars, storeVars
  <1>2. ASSUME NEW tok \in Tokens, NEW a \in Approvals, NEW op \in {"approve", "deny"},
               NEW t \in CallerClock,
               \/ ClaimApproval(tok, a, op, t)
               \/ RefuseClaim(tok, a, op, t)
               \/ ClaimReplyLost(tok, a, op, t)
        PROVE  Begins(tok, a, t)
    <2>1. /\ call \in [Tokens -> OperatorCall] /\ issued \in [Tokens -> Claim]
          /\ CallOK(tok) /\ StoreInv
      BY FlowFacts
    <2>2. /\ call[tok].pc = "idle" /\ UNCHANGED <<effects, outcome, now>>
          /\ ClaimPending(a, tok, t) \/ UNCHANGED issued
      BY <1>2 DEF ClaimApproval, RefuseClaim, ClaimReplyLost, ClaimPending, noTail, noFlow,
                  tailVars, storeVars
    <2>3. issued[tok].outcome = None
      BY <2>1, <2>2 DEF CallOK, StoreInv, ClaimInv
    <2>4. issued'[tok].outcome = None /\ \A f \in Tokens : f # tok => issued'[f] = issued[f]
      BY <2>1, <2>2, <2>3 DEF ClaimPending
    <2>5. CASE ClaimApproval(tok, a, op, t)
      <3>1. /\ call' = [call EXCEPT ![tok] = [pc |-> "guard", op |-> op, approval |-> a,
                                              answer |-> "none"]]
            /\ ClaimPending(a, tok, t)
        BY <2>5 DEF ClaimApproval
      <3> QED BY <2>1, <2>2, <2>4, <3>1 DEF Begins, OthersWait
    <2>6. CASE RefuseClaim(tok, a, op, t) \/ ClaimReplyLost(tok, a, op, t)
      <3>1. PICK answer \in RefusalAnswers(a, t) \cup LedgerAnswer(a, "unavailable") :
               call' = [call EXCEPT ![tok] = [pc |-> "end", op |-> op, approval |-> a,
                                              answer |-> answer]]
        BY <2>6 DEF RefuseClaim, ClaimReplyLost
      <3>2. /\ call'[tok].pc = "end" /\ call'[tok].approval = a /\ call'[tok].answer = answer
            /\ \A f \in Tokens : f # tok => call'[f] = call[f]
        BY <2>1, <3>1
      <3>3. issued'[tok] = issued[tok] \/ ClaimPending(a, tok, t)
        BY <2>2
      <3> QED BY <2>2, <2>4, <3>2, <3>3 DEF Begins, OthersWait
    <2> QED BY <1>2, <2>5, <2>6
  <1>3. ASSUME NEW tok \in Tokens, HandlerStep(tok)
        PROVE  \/ Waits \/ Acts(tok) \/ Moves(tok)
               \/ \E kind \in TerminalStates : Decides(tok, kind)
    <2>1. /\ call \in [Tokens -> OperatorCall] /\ call[tok] \in OperatorCall
          /\ issued \in [Tokens -> Claim] /\ tok \in Runs /\ CallOK(tok) /\ TailInv
      BY FlowFacts
    <2>2. /\ call[tok].answer \in Answers /\ Verdict(tok) \in Answers
          /\ {"conflict", "bad_request"} \subseteq Answers
          /\ {"reconcile", "learn", "deny_audit", "execute", "outcome", "marker", "complete",
              "end"} \subseteq CallSteps
      BY <2>1, VerdictFacts DEF OperatorCall, Answers, CallSteps
    <2>3. CASE GuardReexecution(tok)
      <3>1. PICK pc \in {"reconcile", "learn", "deny_audit"} :
              /\ Proceed(tok, pc)
              /\ \/ pc = "reconcile" /\ outcome[Of(tok)] # None
                 \/ /\ pc = IF call[tok].op = "approve" THEN "learn" ELSE "deny_audit"
                    /\ outcome[Of(tok)] = None \/ LedgerFaults
        BY <2>3 DEF GuardReexecution
      <3>2. /\ call'[tok].pc = pc /\ SameRequest(tok) /\ call'[tok].answer = call[tok].answer
            /\ \A f \in Tokens : f # tok => call'[f] = call[f]
        BY <2>1, <2>2, <3>1, CallMoves DEF SameRequest
      <3>3. UNCHANGED <<issued, effects, outcome, now>> /\ call[tok].pc = "guard"
        BY <2>3 DEF GuardReexecution, noTail, noFlow, tailVars, storeVars
      <3> QED BY <3>1, <3>2, <3>3 DEF Moves, OthersWait, Passes
    <2>4. CASE Reconcile(tok)
      <3>1. /\ Answer(tok, "end", "conflict") /\ call[tok].pc = "reconcile"
            /\ UNCHANGED <<effects, outcome, now>>
            /\ issued' = [issued EXCEPT ![tok].outcome = "failed"]
        BY <2>4 DEF Reconcile, noTail, noFlow, tailVars
      <3>2. /\ call'[tok].pc = "end" /\ SameRequest(tok) /\ call'[tok].answer = "conflict"
            /\ \A f \in Tokens : f # tok => call'[f] = call[f]
        BY <2>1, <2>2, <3>1, CallMoves DEF SameRequest
      <3>3. /\ issued'[tok].approval = issued[tok].approval /\ issued'[tok].outcome = "failed"
            /\ issued'[tok].from = issued[tok].from /\ issued'[tok].exp = issued[tok].exp
            /\ \A f \in Tokens : f # tok => issued'[f] = issued[f]
        BY <2>1, <3>1 DEF Claim
      <3> QED BY <2>4, <3>1, <3>2, <3>3 DEF Decides, OthersWait, TerminalStates
    <2>5. CASE Learn(tok)
      <3>1. UNCHANGED <<issued, effects, outcome, now>> /\ call[tok].pc = "learn"
        BY <2>5 DEF Learn, storeVars
      <3>2. PICK pc \in {"end", "execute"}, answer \in Answers :
              /\ \/ Proceed(tok, pc) /\ answer = call[tok].answer
                 \/ Answer(tok, pc, answer)
              /\ \/ pc = "end" /\ answer = "bad_request"
                 \/ pc = "execute" /\ answer = call[tok].answer
        BY <2>2, <2>5 DEF Learn
      <3>3. /\ call'[tok].pc = pc /\ SameRequest(tok) /\ call'[tok].answer = answer
            /\ \A f \in Tokens : f # tok => call'[f] = call[f]
        BY <2>1, <2>2, <3>2, CallMoves DEF SameRequest
      <3> QED BY <3>1, <3>2, <3>3 DEF Moves, OthersWait, GoesOn
    <2>6. CASE CheckPlan(tok)
      BY <2>6 DEF CheckPlan, Waits, storeVars
    <2>7. CASE ExecuteStep(tok)
      <3>1. Marked(tok)
        BY <2>1, <2>7, RunStepMarks DEF ExecuteStep
      <3>2. /\ call[tok].pc = "execute" /\ UNCHANGED <<call, issued, outcome, now>>
            /\ effects' \in {effects, effects \cup {tok}}
        BY <2>7, <3>1
           DEF ExecuteStep, Marked, Unmarked, Recorded, Acted, Attested, storeVars
      <3> QED BY <3>2 DEF Waits, Acts
    <2>8. CASE AuditDenial(tok)
      <3>1. /\ UNCHANGED <<issued, effects, outcome, now>> /\ call[tok].pc = "deny_audit"
            /\ Proceed(tok, "outcome")
        BY <2>8 DEF AuditDenial, noFlow, storeVars
      <3>2. /\ call'[tok].pc = "outcome" /\ SameRequest(tok)
            /\ call'[tok].answer = call[tok].answer
            /\ \A f \in Tokens : f # tok => call'[f] = call[f]
        BY <2>1, <2>2, <3>1, CallMoves DEF SameRequest
      <3> QED BY <3>1, <3>2 DEF Moves, OthersWait, GoesOn
    <2>9. CASE WriteDurableOutcome(tok)
      <3>1. /\ call[tok].pc \in {"outcome", "execute"} /\ Proceed(tok, "marker")
            /\ issued' = [issued EXCEPT ![tok].outcome = Verdict(tok)]
            /\ UNCHANGED <<effects, now>>
            /\ \/ outcome' = IF outcome[Of(tok)] = None
                              THEN [outcome EXCEPT ![Of(tok)] = Verdict(tok)] ELSE outcome
               \/ LedgerFaults /\ UNCHANGED outcome
        BY <2>9 DEF WriteDurableOutcome, Decided, noTail, tailVars
      <3>2. /\ call'[tok].pc = "marker" /\ SameRequest(tok)
            /\ call'[tok].answer = call[tok].answer
            /\ \A f \in Tokens : f # tok => call'[f] = call[f]
        BY <2>1, <2>2, <3>1, CallMoves DEF SameRequest
      <3>3. /\ issued'[tok].approval = issued[tok].approval
            /\ issued'[tok].outcome = Verdict(tok)
            /\ issued'[tok].from = issued[tok].from /\ issued'[tok].exp = issued[tok].exp
            /\ \A f \in Tokens : f # tok => issued'[f] = issued[f]
        BY <2>1, <3>1 DEF Claim
      <3>4. Decides(tok, Verdict(tok))
        BY <3>1, <3>2, <3>3 DEF Decides, OthersWait
      <3> QED BY <3>4, VerdictFacts
    <2>10. CASE FinalizeMarker(tok)
      <3>1. /\ UNCHANGED <<issued, effects, outcome, now>> /\ call[tok].pc = "marker"
            /\ Proceed(tok, "complete")
        BY <2>10 DEF FinalizeMarker, WriteOutcomeMarker, noTail, noFlow, tailVars, storeVars
      <3>2. /\ call'[tok].pc = "complete" /\ SameRequest(tok)
            /\ call'[tok].answer = call[tok].answer
            /\ \A f \in Tokens : f # tok => call'[f] = call[f]
        BY <2>1, <2>2, <3>1, CallMoves DEF SameRequest
      <3> QED BY <2>10, <3>1, <3>2 DEF Moves, OthersWait, GoesOn
    <2>11. CASE FinalizeComplete(tok)
      <3>1. /\ UNCHANGED <<issued, effects, outcome, now>> /\ call[tok].pc = "complete"
            /\ Answer(tok, "end", Verdict(tok))
        BY <2>11 DEF FinalizeComplete, Complete, noTail, noFlow, tailVars, storeVars
      <3>2. /\ call'[tok].pc = "end" /\ SameRequest(tok)
            /\ call'[tok].answer = Verdict(tok)
            /\ \A f \in Tokens : f # tok => call'[f] = call[f]
        BY <2>1, <2>2, <3>1, CallMoves DEF SameRequest
      <3> QED BY <3>1, <3>2 DEF Moves, OthersWait, GoesOn
    <2> QED BY <1>3, <2>3, <2>4, <2>5, <2>6, <2>7, <2>8, <2>9, <2>10, <2>11 DEF HandlerStep
  <1>4. CASE PassTime
    BY <1>4 DEF PassTime, Tick, noTail, noFlow, tailVars, Waits
  <1>5. CASE Revoke \/ UNCHANGED flowVars
    BY <1>5 DEF Revoke, RevokeAll, flowVars, storeVars, tailVars, Waits
  <1>6. \A tok \in Tokens : ~AbandonCall(tok)
    BY DEF AbandonCall
  <1> QED BY <1>1, <1>2, <1>3, <1>4, <1>5, <1>6 DEF FlowNext

\* A call that passes the guard finds nothing decided.
GuardIsSound ==
    \A tok \in Tokens :
        (call[tok].pc = "guard" /\ call'[tok].pc \in OpenSteps) => NobodyDecided(Of(tok))

\* Whoever has acted is a call that was granted a claim on an approval.
LEMMA EffectFacts ==
    ASSUME FlowInv, NEW e \in effects PROVE e \in Tokens /\ call[e].pc # "idle"
  <1>1. e \in Runs /\ e \in Tokens
    BY FlowNames DEF FlowInv, TailInv, TailTypeOK
  <1>2. CallOK(e) /\ TailInv
    BY <1>1, FlowFacts
  <1>3. run[e].pc # "idle"
    BY <1>1, <1>2, TailFacts DEF Progress, BeforeIntent, FrontSteps
  <1> QED BY <1>1, <1>2, <1>3 DEF CallOK

\* Waiting: time passes only while every acting call is within its claim.
LEMMA WaitsSerial ==
    ASSUME FlowInv, SerialInv, Prompt, Waits PROVE SerialInv'
  <1>1. now \in Nat /\ issued \in [Tokens -> Claim]
    BY DEF FlowInv, StoreInv, StoreTypeOK
  <1>2. UNCHANGED <<call, issued, effects>>
    BY DEF Waits
  <1>3. Timely'
    <2>1. ASSUME NEW tok \in Tokens
          PROVE  /\ IsIssued(tok) => issued[tok].from <= now'
                 /\ Acting(tok) => now' < issued[tok].exp
      <3>1. issued[tok].from \in Nat /\ issued[tok].exp \in Nat
        BY <1>1 DEF Claim
      <3> QED BY <1>1, <3>1 DEF SerialInv, Timely, Waits
    <2> QED BY <1>2, <2>1 DEF Timely, IsIssued, Acting
  <1> QED BY <1>2, <1>3 DEF SerialInv, NobodyDecided, EffectsAreOwned, Of

\* A provider acts for a call whose approval nobody has decided, and for which
\* nobody has acted: such a call would still be executing.
LEMMA ActsSerial ==
    ASSUME FlowInv, SerialInv, NEW tok \in Tokens, Acts(tok) PROVE SerialInv'
  <1>1. /\ call[tok].pc = "execute" /\ effects' = effects \cup {tok}
        /\ UNCHANGED <<call, issued, outcome, now>>
    BY DEF Acts
  <1>2. Acting(tok) /\ NobodyDecided(Of(tok)) /\ call[tok].op = "approve"
    BY <1>1 DEF Acting, SerialInv, OpenSteps
  <1>3. ASSUME NEW e \in effects, Of(e) = Of(tok) PROVE e = tok
    <2>1. e \in Tokens
      BY EffectFacts
    <2>2. call[e].pc = "execute"
      BY <1>2, <1>3, <2>1 DEF SerialInv, EffectsAreOwned, NobodyDecided
    <2> QED BY <1>2, <1>3, <2>1, <2>2, ActingAlone DEF Acting, SerialInv
  <1>4. \A e, f \in effects' : Of(e) = Of(f) => e = f
    BY <1>1, <1>3 DEF SerialInv
  <1>5. \A k \in Tokens, e \in effects' : issued[k].outcome = "denied" => Of(e) # Of(k)
    BY <1>1, <1>2 DEF SerialInv, NobodyDecided, None
  <1>6. \A e \in effects' : call[e].op = "approve" /\ (call[e].pc = "execute" \/ issued[e].outcome # None)
    BY <1>1, <1>2 DEF SerialInv, EffectsAreOwned
  <1> QED BY <1>1, <1>4, <1>5, <1>6
          DEF SerialInv, Timely, NobodyDecided, EffectsAreOwned, Of, IsIssued, Acting

\* A new claim runs from a reading of the clock that is not too old.
LEMMA BeginsSerial ==
    ASSUME FlowInv, SerialInv, ClockLag < ClaimTTL, NEW tok \in Tokens,
           NEW a \in Approvals, NEW t \in CallerClock, Begins(tok, a, t)
    PROVE  SerialInv'
  <1>1. now \in Nat /\ issued \in [Tokens -> Claim] /\ CallOK(tok)
    BY FlowFacts DEF FlowInv, StoreInv, StoreTypeOK
  <1>2. /\ call[tok].pc = "idle" /\ OthersWait(tok) /\ UNCHANGED <<effects, outcome, now>>
        /\ call'[tok].pc \in {"guard", "end"} /\ issued'[tok].outcome = None
        /\ call'[tok].approval = a
    BY DEF Begins
  <1>3. tok \notin effects
    BY <1>2, EffectFacts
  <1>4. \A e \in effects : e \in Tokens /\ e # tok /\ call'[e] = call[e] /\ issued'[e] = issued[e]
    BY <1>2, <1>3, EffectFacts DEF OthersWait
  <1>5. Timely'
    <2>1. ASSUME ClaimPending(a, tok, t)
          PROVE  issued'[tok].from <= now /\ now < issued'[tok].exp
      <3>1. /\ t \in Nat /\ t <= now /\ now <= t + ClockLag
            /\ issued'[tok].from = t /\ issued'[tok].exp = t + ClaimTTL
        BY <1>1, <2>1 DEF ClaimPending, CallerClock
      <3>2. ClockLag \in Nat /\ ClaimTTL \in Nat
        BY StoreAssumption DEF StoreAssumption
      <3> QED BY <1>1, <3>1, <3>2
    <2>2. /\ issued'[tok].approval # Nil => issued'[tok].from <= now
          /\ call'[tok].pc = "guard" => now < issued'[tok].exp
      <3>1. issued[tok].approval # Nil => issued[tok].from <= now
        BY DEF SerialInv, Timely, IsIssued
      <3> QED BY <2>1, <3>1 DEF Begins
    <2>3. ASSUME NEW f \in Tokens
          PROVE  /\ issued'[f].approval # Nil => issued'[f].from <= now
                 /\ call'[f].pc \notin {"idle", "end", "lost"} => now < issued'[f].exp
      <3>1. CASE f = tok
        BY <1>2, <2>2, <3>1
      <3>2. CASE f # tok
        BY <1>2, <3>2 DEF OthersWait, SerialInv, Timely, IsIssued, Acting
      <3> QED BY <3>1, <3>2
    <2> QED BY <1>2, <2>3 DEF Timely, IsIssued, Acting
  <1>6. ASSUME NEW f \in Tokens, call'[f].pc \in {"learn", "execute"} PROVE call'[f].op = "approve"
    BY <1>2, <1>6 DEF OthersWait, SerialInv
  <1>7. ASSUME NEW f \in Tokens, call'[f].pc \in OpenSteps,
               NEW e \in Tokens, call'[e].approval = call'[f].approval
        PROVE  issued'[e].outcome = None
    <2>1. f # tok
      BY <1>2, <1>7 DEF OpenSteps
    <2>2. CASE e = tok
      BY <1>2, <2>2
    <2>3. CASE e # tok
      BY <1>2, <1>7, <2>1, <2>3 DEF OthersWait, SerialInv, NobodyDecided, Of
    <2> QED BY <2>2, <2>3
  <1>8. EffectsAreOwned'
    BY <1>2, <1>4 DEF EffectsAreOwned, SerialInv
  <1>9. \A e, f \in effects : call'[e].approval = call'[f].approval => e = f
    BY <1>4 DEF SerialInv, Of
  <1>10. ASSUME NEW f \in Tokens, NEW e \in effects, issued'[f].outcome = "denied"
         PROVE  call'[e].approval # call'[f].approval
    <2>1. f # tok
      BY <1>2, <1>10 DEF None
    <2> QED BY <1>2, <1>4, <1>10, <2>1 DEF OthersWait, SerialInv, Of
  <1> QED BY <1>2, <1>5, <1>6, <1>7, <1>8, <1>9, <1>10 DEF SerialInv, NobodyDecided, Of

\* The handler goes on: it opens only what the guard found undecided.
LEMMA MovesSerial ==
    ASSUME FlowInv, SerialInv, GuardIsSound, NEW tok \in Tokens, Moves(tok)
    PROVE  SerialInv'
  <1>1. /\ OthersWait(tok) /\ SameRequest(tok) /\ UNCHANGED <<issued, effects, outcome, now>>
        /\ Passes(tok) \/ GoesOn(tok)
    BY DEF Moves
  <1>2. \A f \in Tokens : call'[f].approval = call[f].approval /\ call'[f].op = call[f].op
    BY <1>1 DEF OthersWait, SameRequest
  <1>3. /\ call[tok].pc \notin {"idle", "end", "lost", "execute"}
        /\ call'[tok].pc \in {"learn", "execute"} => call[tok].op = "approve"
        /\ call'[tok].pc \in OpenSteps =>
              call[tok].pc \in OpenSteps \/ call[tok].pc = "guard"
    BY <1>1 DEF Passes, GoesOn, OpenSteps, SerialInv
  <1>4. Timely'
    <2>1. \A f \in Tokens : call'[f].pc \notin {"idle", "end", "lost"} =>
                              call[f].pc \notin {"idle", "end", "lost"}
      BY <1>1, <1>3 DEF OthersWait
    <2> QED BY <1>1, <2>1 DEF SerialInv, Timely, IsIssued, Acting
  <1>5. \A f \in Tokens : call'[f].pc \in {"learn", "execute"} => call'[f].op = "approve"
    BY <1>1, <1>2, <1>3 DEF OthersWait, SerialInv
  <1>6. \A f \in Tokens : call'[f].pc \in OpenSteps => NobodyDecided(Of(f))
    BY <1>1, <1>3 DEF OthersWait, SerialInv, GuardIsSound
  <1>7. \A f \in Tokens, e \in Tokens :
          (call'[f].pc \in OpenSteps /\ call'[e].approval = call'[f].approval)
             => issued'[e].outcome = None
    BY <1>1, <1>2, <1>6 DEF NobodyDecided, Of
  <1>8. \A e \in effects : /\ call'[e].op = "approve"
                           /\ call'[e].pc = "execute" \/ issued[e].outcome # None
    <2> SUFFICES ASSUME NEW e \in effects
                 PROVE  /\ call'[e].op = "approve"
                        /\ call'[e].pc = "execute" \/ issued[e].outcome # None
      OBVIOUS
    <2>1. e \in Tokens
      BY EffectFacts
    <2> QED BY <1>1, <1>2, <1>3, <2>1 DEF OthersWait, SerialInv, EffectsAreOwned
  <1>9. \A e \in effects : e \in Tokens
    BY EffectFacts
  <1>10. /\ \A e, f \in effects : call'[e].approval = call'[f].approval => e = f
         /\ \A f \in Tokens, e \in effects :
               issued[f].outcome = "denied" => call'[e].approval # call'[f].approval
    BY <1>2, <1>9 DEF SerialInv, Of
  <1> QED BY <1>1, <1>4, <1>5, <1>7, <1>8, <1>10 DEF SerialInv, NobodyDecided, EffectsAreOwned, Of

\* A verdict is settled: no other call is open on this approval, and a denial comes
\* from a call that has not acted.
LEMMA DecidesSerial ==
    ASSUME FlowInv, SerialInv, NEW tok \in Tokens, NEW kind \in TerminalStates,
           Decides(tok, kind)
    PROVE  SerialInv'
  <1>1. /\ OthersWait(tok) /\ SameRequest(tok) /\ UNCHANGED <<effects, now>>
        /\ issued'[tok].approval = issued[tok].approval /\ issued'[tok].from = issued[tok].from
        /\ issued'[tok].exp = issued[tok].exp /\ issued'[tok].outcome = kind
        /\ call[tok].pc \in {"reconcile", "outcome", "execute"}
        /\ call'[tok].pc \in {"end", "marker"}
        /\ kind = "failed" \/ (call[tok].pc \in OpenSteps /\ kind = Verdict(tok))
    BY DEF Decides, OpenSteps
  <1>2. /\ Acting(tok)
        /\ \A f \in Tokens : call'[f].approval = call[f].approval /\ call'[f].op = call[f].op
    BY <1>1 DEF OthersWait, SameRequest, Acting
  <1>3. \A e \in effects : e \in Tokens
    BY EffectFacts
  <1>4. Timely'
    <2>1. \A f \in Tokens : /\ issued'[f].approval = issued[f].approval
                            /\ issued'[f].from = issued[f].from
                            /\ issued'[f].exp = issued[f].exp
                            /\ call'[f].pc \notin {"idle", "end", "lost"} =>
                                  call[f].pc \notin {"idle", "end", "lost"}
      BY <1>1 DEF OthersWait
    <2> QED BY <1>1, <2>1 DEF SerialInv, Timely, IsIssued, Acting
  <1>5. \A f \in Tokens : call'[f].pc \in {"learn", "execute"} => call'[f].op = "approve"
    BY <1>1, <1>2 DEF OthersWait, SerialInv
  <1>6. ASSUME NEW f \in Tokens, call'[f].pc \in OpenSteps,
               NEW e \in Tokens, call'[e].approval = call'[f].approval
        PROVE  issued'[e].outcome = None
    <2>1. f # tok /\ call[f].pc \in OpenSteps
      BY <1>1, <1>6 DEF OthersWait, OpenSteps
    <2>2. Acting(f)
      BY <2>1 DEF Acting, OpenSteps
    <2>3. Of(e) = Of(f)
      BY <1>2, <1>6 DEF Of
    <2>4. e # tok
      BY <1>2, <2>1, <2>2, <2>3, ActingAlone DEF SerialInv
    <2> QED BY <1>1, <2>1, <2>3, <2>4 DEF OthersWait, SerialInv, NobodyDecided
  <1>7. \A e \in effects : /\ call'[e].op = "approve"
                           /\ call'[e].pc = "execute" \/ issued'[e].outcome # None
    <2> SUFFICES ASSUME NEW e \in effects
                 PROVE  /\ call'[e].op = "approve"
                        /\ call'[e].pc = "execute" \/ issued'[e].outcome # None
      OBVIOUS
    <2>1. e \in Tokens
      BY <1>3
    <2>2. CASE e = tok
      BY <1>1, <1>2, <2>1, <2>2 DEF SerialInv, EffectsAreOwned, TerminalStates, None
    <2>3. CASE e # tok
      BY <1>1, <2>1, <2>3 DEF OthersWait, SerialInv, EffectsAreOwned
    <2> QED BY <2>2, <2>3
  <1>8. \A e, f \in effects : call'[e].approval = call'[f].approval => e = f
    BY <1>2, <1>3 DEF SerialInv, Of
  <1>9. ASSUME NEW f \in Tokens, NEW e \in effects, issued'[f].outcome = "denied"
        PROVE  call'[e].approval # call'[f].approval
    <2>1. CASE f # tok
      BY <1>1, <1>2, <1>3, <1>9, <2>1 DEF OthersWait, SerialInv, Of
    <2>2. CASE f = tok
      <3>1. call[tok].pc \in OpenSteps /\ call[tok].op = "deny"
        BY <1>1, <1>9, <2>2 DEF Verdict
      <3>2. SUFFICES ASSUME Of(e) = Of(tok) PROVE FALSE
        BY <1>2, <1>3, <2>2 DEF Of
      <3>3. call[e].op = "approve" /\ call[e].pc = "execute"
        BY <1>3, <3>1, <3>2 DEF SerialInv, EffectsAreOwned, NobodyDecided
      <3>4. e = tok
        BY <1>2, <1>3, <3>2, <3>3, ActingAlone DEF SerialInv, Acting
      <3> QED BY <3>1, <3>3, <3>4
    <2> QED BY <2>1, <2>2
  <1> QED BY <1>1, <1>4, <1>5, <1>6, <1>7, <1>8, <1>9
          DEF SerialInv, NobodyDecided, EffectsAreOwned, Of

\* Calls take turns as long as the guard is sound.
LEMMA SerialStep ==
    ASSUME FlowInv, SerialInv, Prompt, ~Abandons, ClockLag < ClaimTTL,
           GuardIsSound, [FlowNext]_flowVars
    PROVE  SerialInv'
  BY FlowMoves, WaitsSerial, ActsSerial, BeginsSerial, MovesSerial, DecidesSerial

\* At the start nobody acts and nothing is decided.
LEMMA SerialInit == ASSUME FlowInit PROVE SerialInv
  <1>1. /\ effects = {} /\ issued = [tok \in Tokens |-> Unissued]
        /\ call = [tok \in Tokens |-> [pc |-> "idle", op |-> "approve", approval |-> Nil,
                                        answer |-> "none"]]
    BY DEF FlowInit, Init, TailInit
  <1>2. \A tok \in Tokens : call[tok].pc = "idle" /\ issued[tok] = Unissued
    BY <1>1
  <1> QED BY <1>1, <1>2
          DEF SerialInv, Timely, EffectsAreOwned, OpenSteps, Unissued, IsIssued, Acting, None

\* With calls that take turns an approval is executed once.
LEMMA SerialIsOneShot == ASSUME FlowInv, SerialInv PROVE OneShot
  <1> SUFFICES ASSUME NEW a \in Approvals PROVE Cardinality(ExecutedFor(a)) <= 1
    BY DEF OneShot
  <1>1. CASE ExecutedFor(a) = {}
    BY <1>1, FS_EmptySet
  <1>2. CASE ExecutedFor(a) # {}
    <2>1. PICK e : e \in ExecutedFor(a)
      BY <1>2
    <2>2. ExecutedFor(a) = {e}
      BY <2>1 DEF ExecutedFor, SerialInv
    <2> QED BY <2>2, FS_Singleton
  <1> QED BY <1>1, <1>2

\* The state of a closed approval is the verdict of a call on it.
LEMMA ClosedByHolder ==
    ASSUME FlowInv, NEW a \in Approvals, NEW v \in TerminalStates, EffectiveState(rec[a]) = v
    PROVE  \E h \in Tokens : Of(h) = a /\ issued[h].outcome = v
  <1> DEFINE h == rec[a].token
  <1>1. rec \in [Approvals -> Record] /\ StoreInv
    BY DEF FlowInv, StoreInv, StoreTypeOK
  <1>2. issued[h].outcome = v /\ h # Nil
    BY <1>1 DEF StoreInv, VerdictIsTheHolders, HolderInv, EffectiveState, IsTerminal,
                TerminalStates, None
  <1>3. h \in Tokens
    BY <1>1, <1>2 DEF Record
  <1>4. issued[h].approval = a
    BY <1>1, <1>2 DEF StoreInv, HolderInv
  <1>5. Of(h) = a
    BY <1>3, <1>4, FlowFacts, FlowNames DEF CallOK, IsIssued
  <1> QED BY <1>2, <1>3, <1>5

\* With calls that take turns nothing is executed for what was denied.
LEMMA SerialDenies == ASSUME FlowInv, SerialInv PROVE DeniedNeverExecuted
  <1> SUFFICES ASSUME NEW a \in Approvals, EffectiveState(rec[a]) = "denied"
               PROVE  ExecutedFor(a) = {}
    BY DEF DeniedNeverExecuted
  <1>1. PICK h \in Tokens : Of(h) = a /\ issued[h].outcome = "denied"
    BY ClosedByHolder DEF TerminalStates
  <1> QED BY <1>1 DEF SerialInv, ExecutedFor

--------------------------------------------------------------------------------
(* A ledger that works.                                                        *)

\* v is the durable outcome of a, or "failed" where there is one.
Told(v, a) == outcome[a] # None /\ v \in {outcome[a], "failed"}

LedgerInv ==
    \A tok \in Tokens :
        /\ call[tok].pc \in OpenSteps => outcome[Of(tok)] = None
        /\ call[tok].pc = "reconcile" => outcome[Of(tok)] # None
        /\ issued[tok].outcome # None => Told(issued[tok].outcome, Of(tok))
        /\ call[tok].answer \in TerminalStates => Told(call[tok].answer, Of(tok))

\* The guard asks the ledger, which knows of every decision.
LEMMA LedgerGuards ==
    ASSUME FlowInv, LedgerInv, ~LedgerFaults, ~Abandons, [FlowNext]_flowVars
    PROVE  GuardIsSound
  <1> SUFFICES ASSUME NEW tok \in Tokens, call[tok].pc = "guard", call'[tok].pc \in OpenSteps
               PROVE  NobodyDecided(Of(tok))
    BY DEF GuardIsSound
  <1>1. outcome[Of(tok)] = None
    <2>1. ~Waits
      BY DEF Waits, OpenSteps
    <2>2. \A f \in Tokens : ~Acts(f)
      BY DEF Acts, OpenSteps
    <2>3. \A f \in Tokens, kind \in TerminalStates : ~Decides(f, kind)
      BY DEF Decides, OthersWait, OpenSteps
    <2>4. \A f \in Tokens, a \in Approvals, t \in CallerClock : ~Begins(f, a, t)
      BY DEF Begins, OthersWait, OpenSteps
    <2>5. \A f \in Tokens : Moves(f) => outcome[Of(tok)] = None
      BY DEF Moves, OthersWait, Passes, GoesOn, OpenSteps
    <2> QED BY FlowMoves, <2>5, <2>1, <2>2, <2>4, <2>3
  <1> QED BY <1>1 DEF LedgerInv, Told, NobodyDecided

\* What a call without a claim is told was decided, as the ledger has it.
LEMMA RefusalsAgree ==
    ASSUME FlowInv, LedgerInv, NEW a \in Approvals, NEW t,
           NEW answer \in RefusalAnswers(a, t) \cup LedgerAnswer(a, "unavailable"),
           answer \in TerminalStates
    PROVE  Told(answer, a)
  <1>1. CASE answer \in LedgerAnswer(a, "unavailable") \cup LedgerAnswer(a, "not_found")
    BY <1>1 DEF LedgerAnswer, Told, TerminalStates
  <1>2. CASE answer = EffectiveState(rec[a])
    <2>1. PICK h \in Tokens : Of(h) = a /\ issued[h].outcome = answer
      BY <1>2, ClosedByHolder
    <2> QED BY <2>1 DEF LedgerInv, TerminalStates, None
  <1>3. CASE answer \in {"not_found", "conflict"}
    BY <1>3 DEF TerminalStates
  <1> QED BY <1>1, <1>2, <1>3 DEF RefusalAnswers

\* Every step keeps the ledger ahead of what is settled and said.
LEMMA LedgerStep ==
    ASSUME FlowInv, SerialInv, LedgerInv, ~LedgerFaults, ~Abandons, [FlowNext]_flowVars
    PROVE  LedgerInv'
  <1> SUFFICES ASSUME NEW f \in Tokens
               PROVE  LET a == call'[f].approval IN
                      /\ call'[f].pc \in OpenSteps => outcome'[a] = None
                      /\ call'[f].pc = "reconcile" => outcome'[a] # None
                      /\ issued'[f].outcome # None =>
                            outcome'[a] # None /\ issued'[f].outcome \in {outcome'[a], "failed"}
                      /\ call'[f].answer \in TerminalStates =>
                            outcome'[a] # None /\ call'[f].answer \in {outcome'[a], "failed"}
    BY DEF LedgerInv, Told, Of
  <1>1. CASE Waits \/ \E tok \in Tokens : Acts(tok)
    BY <1>1 DEF Waits, Acts, LedgerInv, Told, Of
  <1>2. ASSUME NEW tok \in Tokens, NEW a \in Approvals, NEW t \in CallerClock, Begins(tok, a, t),
               f = tok
        PROVE  /\ call'[f].pc \in {"guard", "end"} /\ issued'[f].outcome = None
               /\ call'[f].approval = a /\ UNCHANGED outcome
               /\ call'[f].answer \in TerminalStates => Told(call'[f].answer, a)
    <2>1. /\ call'[f].pc \in {"guard", "end"} /\ issued'[f].outcome = None
          /\ call'[f].approval = a /\ UNCHANGED outcome
          /\ \/ call'[f].answer = "none"
             \/ call'[f].answer \in RefusalAnswers(a, t) \cup LedgerAnswer(a, "unavailable")
      BY <1>2 DEF Begins
    <2> QED BY <2>1, RefusalsAgree DEF TerminalStates
  <1>3. ASSUME NEW tok \in Tokens, f # tok, OthersWait(tok), UNCHANGED outcome
        PROVE  /\ call'[f] = call[f] /\ issued'[f] = issued[f] /\ UNCHANGED outcome
    BY <1>3 DEF OthersWait
  <1>4. CASE \E tok \in Tokens, a \in Approvals, t \in CallerClock : Begins(tok, a, t)
    <2>1. PICK tok \in Tokens, a \in Approvals, t \in CallerClock : Begins(tok, a, t)
      BY <1>4
    <2>2. CASE f = tok
      BY <1>2, <2>1, <2>2 DEF OpenSteps, Told
    <2>3. CASE f # tok
      <3>1. call'[f] = call[f] /\ issued'[f] = issued[f] /\ UNCHANGED outcome
        BY <1>3, <2>1, <2>3 DEF Begins
      <3> QED BY <3>1 DEF LedgerInv, Told, Of
    <2> QED BY <2>2, <2>3
  <1>5. CASE \E tok \in Tokens : Moves(tok)
    <2>1. PICK tok \in Tokens : Moves(tok)
      BY <1>5
    <2>2. /\ OthersWait(tok) /\ SameRequest(tok) /\ UNCHANGED <<issued, outcome>>
          /\ Passes(tok) \/ GoesOn(tok)
      BY <2>1 DEF Moves
    <2>3. CASE f = tok
      <3>1. /\ call'[f].pc \in OpenSteps => outcome[Of(f)] = None
            /\ call'[f].pc = "reconcile" => outcome[Of(f)] # None
        BY <2>2, <2>3 DEF Passes, GoesOn, OpenSteps, LedgerInv
      <3>2. call'[f].answer \in TerminalStates => Told(call'[f].answer, Of(f))
        <4>1. CASE call'[f].answer = call[f].answer
          BY <4>1 DEF LedgerInv
        <4>2. CASE call'[f].answer = "bad_request"
          BY <4>2 DEF TerminalStates
        <4>3. CASE call[f].pc = "complete" /\ call'[f].answer = Verdict(f)
          <5>1. issued[f].outcome = Verdict(f) /\ Verdict(f) \in TerminalStates
            BY <4>3, FlowFacts, VerdictFacts DEF CallOK
          <5> QED BY <4>3, <5>1 DEF LedgerInv, TerminalStates, None
        <4> QED BY <2>2, <2>3, <4>1, <4>2, <4>3 DEF Passes, GoesOn
      <3> QED BY <2>2, <2>3, <3>1, <3>2 DEF SameRequest, LedgerInv, Told, Of
    <2>4. CASE f # tok
      <3>1. call'[f] = call[f] /\ issued'[f] = issued[f] /\ UNCHANGED outcome
        BY <1>3, <2>2, <2>4
      <3> QED BY <3>1 DEF LedgerInv, Told, Of
    <2> QED BY <2>3, <2>4
  <1>6. CASE \E tok \in Tokens, kind \in TerminalStates : Decides(tok, kind)
    <2>1. PICK tok \in Tokens, kind \in TerminalStates : Decides(tok, kind)
      BY <1>6
    <2>2. OthersWait(tok) /\ SameRequest(tok) /\ issued'[tok].outcome = kind
      BY <2>1 DEF Decides
    <2>3. CASE /\ call[tok].pc = "reconcile" /\ call'[tok].pc = "end"
               /\ call'[tok].answer = "conflict" /\ kind = "failed" /\ UNCHANGED outcome
      <3>1. CASE f = tok
        BY <2>2, <2>3, <3>1 DEF SameRequest, LedgerInv, OpenSteps, TerminalStates, Of
      <3>2. CASE f # tok
        <4>1. call'[f] = call[f] /\ issued'[f] = issued[f] /\ UNCHANGED outcome
          BY <1>3, <2>2, <2>3, <3>2
        <4> QED BY <4>1 DEF LedgerInv, Told, Of
      <3> QED BY <3>1, <3>2
    <2>4. CASE /\ call[tok].pc \in {"outcome", "execute"} /\ call'[tok].pc = "marker"
               /\ call'[tok].answer = call[tok].answer
               /\ outcome' = IF outcome[Of(tok)] = None
                             THEN [outcome EXCEPT ![Of(tok)] = kind] ELSE outcome
      <3>1. outcome[Of(tok)] = None /\ Acting(tok)
        BY <2>4 DEF LedgerInv, OpenSteps, Acting
      <3>2. Of(tok) \in Approvals /\ outcome \in [Approvals -> TerminalStates \cup {None}]
        BY <3>1, ActingHasApproval, FlowFacts
      <3>3. /\ outcome'[Of(tok)] = kind /\ kind # None
            /\ \A b : b # Of(tok) => outcome'[b] = outcome[b]
        BY <2>4, <3>1, <3>2 DEF TerminalStates, None
      <3>4. CASE f = tok
        BY <2>2, <2>4, <3>1, <3>3, <3>4
           DEF SameRequest, LedgerInv, Told, OpenSteps, TerminalStates, Of
      <3>5. CASE f # tok
        <4>1. call'[f] = call[f] /\ issued'[f] = issued[f]
          BY <2>2, <3>5 DEF OthersWait
        <4>2. CASE Of(f) = Of(tok)
          <5>1. ~Acting(f)
            BY <3>1, <3>5, <4>2, ActingAlone DEF SerialInv
          <5>2. /\ call[f].pc \notin OpenSteps \cup {"reconcile"}
                /\ issued[f].outcome = None
                /\ call[f].answer \notin TerminalStates
            BY <3>1, <4>2, <5>1 DEF Acting, OpenSteps, LedgerInv, Told
          <5> QED BY <4>1, <5>2
        <4>3. CASE Of(f) # Of(tok)
          <5>1. outcome'[Of(f)] = outcome[Of(f)]
            BY <3>3, <4>3
          <5> QED BY <4>1, <5>1 DEF LedgerInv, Told, Of
        <4> QED BY <4>2, <4>3
      <3> QED BY <3>4, <3>5
    <2> QED BY <2>1, <2>3, <2>4 DEF Decides
  <1> QED BY <1>1, <1>4, <1>5, <1>6, FlowMoves

\* At the start nothing is decided and nobody was told anything.
LEMMA LedgerInit == ASSUME FlowInit PROVE LedgerInv
  <1>1. /\ issued = [tok \in Tokens |-> Unissued]
        /\ call = [tok \in Tokens |-> [pc |-> "idle", op |-> "approve", approval |-> Nil,
                                        answer |-> "none"]]
    BY DEF FlowInit, Init
  <1>2. \A tok \in Tokens : /\ call[tok].pc = "idle" /\ issued[tok].outcome = None
                            /\ call[tok].answer = "none"
    BY <1>1 DEF Unissued
  <1> QED BY <1>2 DEF LedgerInv, OpenSteps, TerminalStates

\* The ledger knows every verdict.
LEMMA LedgerDecides == ASSUME FlowInv, SerialInv, LedgerInv PROVE DecisionsHold
  <1>1. ASSUME NEW a \in Approvals, NEW v \in TerminalStates, EffectiveState(rec[a]) = v
        PROVE  Told(v, a)
    <2>1. PICK h \in Tokens : Of(h) = a /\ issued[h].outcome = v
      BY <1>1, ClosedByHolder
    <2> QED BY <2>1 DEF LedgerInv, TerminalStates, None
  <1>2. DeniedNeverExecuted
    BY SerialDenies
  <1>3. VerdictsAgree
    BY <1>1 DEF VerdictsAgree, Told, IsTerminal
  <1>4. AnswersConsistent
    BY DEF LedgerInv, Told, AnswersConsistent
  <1> QED BY <1>2, <1>3, <1>4 DEF DecisionsHold

\* However the state store fails, loses replies or forgets records, while the ledger
\* works and calls end within their claim, an approval is executed at most once and
\* its decision stands: what was denied is not executed, store and ledger agree, and
\* so do the answers (has_durable_outcome, write_durable_outcome).
THEOREM LedgerAloneSuffices ==
    ASSUME Prompt, ~Abandons, ~LedgerFaults, ClockLag < ClaimTTL
    PROVE  FlowSpec => [](OneShot /\ DecisionsHold)
  <1> DEFINE I == FlowInv /\ SerialInv /\ LedgerInv
  <1>1. FlowInit => I
    BY FlowInitEstablishes, SerialInit, LedgerInit
  <1>2. I /\ [FlowNext]_flowVars => I'
    BY FlowNextKeeps, LedgerGuards, SerialStep, LedgerStep
  <1>3. I => OneShot /\ DecisionsHold
    BY SerialIsOneShot, LedgerDecides
  <1> QED BY <1>1, <1>2, <1>3, PTL DEF FlowSpec

--------------------------------------------------------------------------------
(* A state store that works.                                                   *)

\* No claim on a will be granted any more.
Closed(a) ==
    /\ rec[a].state # "absent"
    /\ rec[a].marker # None \/ IsTerminal(rec[a].state) \/ ~Exists(a)

\* Whoever has settled a verdict is about to write the marker, or the approval is
\* closed; so nobody who is granted a claim finds it decided.
ClosedInv ==
    \A tok \in Tokens :
        /\ issued[tok].outcome # None => call[tok].pc = "marker" \/ Closed(Of(tok))
        /\ call[tok].pc = "guard" => NobodyDecided(Of(tok))

\* A closed approval is claimed by nobody.
LEMMA ClosedRefuses ==
    ASSUME NEW a \in Approvals, NEW t, ClaimResult(a, t) = "ok" PROVE ~Closed(a)
  BY DEF ClaimResult, ClaimFinds, ValidateClaimTransition, Closed

\* What a write to one record leaves of the others.
LEMMA OtherRecords ==
    ASSUME FlowInv, NEW a \in Approvals, Closed(a), NEW b, a # b, NEW r,
           rec' = [rec EXCEPT ![b] = r], UNCHANGED now
    PROVE  Closed(a)'
  <1>1. rec'[a] = rec[a]
    BY DEF FlowInv, StoreInv, StoreTypeOK
  <1> QED BY <1>1 DEF Closed, Exists

\* A marker or a terminal state closes.
LEMMA WritesClose ==
    ASSUME FlowInv, NEW a \in Approvals, NEW kind \in TerminalStates, rec[a].state # "absent",
           \/ rec' = [rec EXCEPT ![a].marker = kind]
           \/ rec' = Completed(a, kind)
    PROVE  Closed(a)'
  <1>1. rec \in [Approvals -> Record]
    BY DEF FlowInv, StoreInv, StoreTypeOK
  <1>2. rec[a] \in Record
    BY <1>1
  <1>3. CASE rec' = [rec EXCEPT ![a].marker = kind]
    <2>1. rec'[a].state = rec[a].state /\ rec'[a].marker = kind
      BY <1>1, <1>2, <1>3 DEF Record
    <2> QED BY <2>1 DEF Closed, TerminalStates, None
  <1>4. CASE rec' = Completed(a, kind)
    <2>1. rec'[a].state = kind
      BY <1>1, <1>2, <1>4 DEF Record, Completed
    <2> QED BY <2>1 DEF Closed, TerminalStates, IsTerminal
  <1> QED BY <1>3, <1>4

\* Once closed, closed for good: a record that Redis has dropped does not come back.
LEMMA ClosedStays ==
    ASSUME FlowInv, NEW a \in Approvals, Closed(a), [FlowNext]_flowVars PROVE Closed(a)'
  <1>1. rec \in [Approvals -> Record] /\ now \in Nat /\ issued \in [Tokens -> Claim]
    BY DEF FlowInv, StoreInv, StoreTypeOK
  <1>2. CASE UNCHANGED rec /\ now' \in {now, now + 1}
    <2>1. rec[a].expiresAt \in Nat
      BY <1>1 DEF Record
    <2> QED BY <1>1, <1>2, <2>1 DEF Closed, Exists
  <1>3. ASSUME NEW b \in Approvals, CreatePending(b) PROVE Closed(a)'
    <2>1. a # b
      BY <1>3 DEF CreatePending, Closed
    <2> QED BY <1>3, <2>1, OtherRecords DEF CreatePending
  <1>4. ASSUME NEW b \in Approvals, NEW tok \in Tokens, NEW t \in CallerClock,
               ClaimPending(b, tok, t)
        PROVE  Closed(a)'
    <2>1. a # b
      BY <1>4, ClosedRefuses DEF ClaimPending
    <2>2. rec' = [rec EXCEPT ![b] = [rec[b] EXCEPT !.state = "claimed", !.token = tok,
                                                   !.exp = t + ClaimTTL]]
      BY <1>1, <1>4 DEF ClaimPending
    <2>3. UNCHANGED now
      BY <1>4 DEF ClaimPending
    <2> QED BY <2>1, <2>2, <2>3, OtherRecords
  <1>5. ASSUME NEW b \in Approvals, NEW kind \in TerminalStates, UNCHANGED now,
               \/ rec' = [rec EXCEPT ![b].marker = kind]
               \/ rec' = Completed(b, kind)
        PROVE  Closed(a)'
    <2>1. CASE a = b
      BY <1>5, <2>1, WritesClose DEF Closed
    <2>2. CASE a # b
      <3>1. rec'[a] = rec[a]
        BY <1>1, <1>5, <2>2 DEF Completed
      <3> QED BY <1>5, <3>1 DEF Closed, Exists
    <2> QED BY <2>1, <2>2
  <1>6. ASSUME NEW tok \in Tokens, HandlerStep(tok) PROVE Closed(a)'
    <2>1. CASE FinalizeMarker(tok) \/ FinalizeComplete(tok)
      <3>1. UNCHANGED storeVars \/ WriteOutcomeMarker(tok) \/ Complete(tok)
        BY <2>1 DEF FinalizeMarker, FinalizeComplete
      <3>2. call[tok].pc \in {"marker", "complete"}
        BY <2>1 DEF FinalizeMarker, FinalizeComplete
      <3>3. issued[tok].approval \in Approvals /\ issued[tok].outcome \in TerminalStates
        BY <3>2, ActingHasApproval, FlowFacts, VerdictFacts DEF Acting, CallOK
      <3> QED BY <1>2, <1>5, <3>1, <3>3 DEF WriteOutcomeMarker, Complete, storeVars
    <2>2. CASE Reconcile(tok)
      <3>1. Of(tok) \in Approvals
        BY <2>2, ActingHasApproval DEF Reconcile, Acting
      <3>2. UNCHANGED now /\ (UNCHANGED rec \/ rec' = Completed(Of(tok), "failed"))
        BY <2>2 DEF Reconcile
      <3> QED BY <1>2, <1>5, <3>1, <3>2 DEF TerminalStates
    <2>3. CASE \/ GuardReexecution(tok) \/ Learn(tok) \/ CheckPlan(tok) \/ ExecuteStep(tok)
               \/ AuditDenial(tok) \/ WriteDurableOutcome(tok)
      <3>1. UNCHANGED <<rec, now>>
        BY <2>3 DEF GuardReexecution, Learn, CheckPlan, ExecuteStep, AuditDenial,
                    WriteDurableOutcome, storeVars
      <3> QED BY <1>2, <3>1
    <2> QED BY <1>6, <2>1, <2>2, <2>3 DEF HandlerStep
  <1>7. ASSUME NEW b \in Approvals,
               StorePendingApproval(b) \/ AuditRequest(b) \/ AbandonRequest(b)
        PROVE  Closed(a)'
    <2>1. CreatePending(b) \/ UNCHANGED storeVars
      BY <1>7 DEF StorePendingApproval, AuditRequest, AbandonRequest
    <2> QED BY <1>2, <1>3, <2>1 DEF storeVars
  <1>8. ASSUME NEW tok \in Tokens, NEW b \in Approvals, NEW op \in {"approve", "deny"},
               NEW t \in CallerClock,
               \/ ClaimApproval(tok, b, op, t)
               \/ RefuseClaim(tok, b, op, t)
               \/ ClaimReplyLost(tok, b, op, t)
        PROVE  Closed(a)'
    <2>1. ClaimPending(b, tok, t) \/ UNCHANGED storeVars
      BY <1>8 DEF ClaimApproval, RefuseClaim, ClaimReplyLost
    <2> QED BY <1>2, <1>4, <2>1 DEF storeVars
  <1>9. CASE \/ \E tok \in Tokens : AbandonCall(tok)
             \/ PassTime \/ Revoke \/ UNCHANGED flowVars
    BY <1>2, <1>9 DEF AbandonCall, PassTime, Tick, Revoke, flowVars, storeVars
  <1> QED BY <1>6, <1>7, <1>8, <1>9 DEF FlowNext

\* A store that works closes the approval when the holder writes its marker, unless
\* the record is closed or gone already.
LEMMA HolderCloses ==
    ASSUME FlowInv, Timely, ~StoreFaults, NEW tok \in Tokens,
           FinalizeMarker(tok) \/ Reconcile(tok), NEW a, a = Of(tok)
    PROVE  a \in Approvals /\ Closed(a)'
  <1>1. Acting(tok)
    BY DEF FinalizeMarker, Reconcile, Acting
  <1>2. a \in Approvals /\ issued[tok].approval = a /\ rec[a].token = tok
    BY <1>1, ActingHasApproval, ActingHolds
  <1>3. rec[a] \in Record /\ rec[a].state \notin {"absent", "pending"}
    BY <1>2, FlowNames DEF FlowInv, StoreInv, StoreTypeOK, HolderInv
  <1>4. rec[a].state = "claimed" \/ IsTerminal(rec[a].state)
    BY <1>3 DEF Record, States, IsTerminal
  <1>5. UNCHANGED now
    BY DEF FinalizeMarker, Reconcile, WriteOutcomeMarker, storeVars
  <1>6. CASE FinalizeMarker(tok)
    <2>1. CASE WriteOutcomeMarker(tok)
      <3>1. issued[tok].outcome \in TerminalStates
        BY <1>6, FlowFacts, VerdictFacts DEF FinalizeMarker, CallOK
      <3> QED BY <1>2, <1>3, <2>1, <3>1, WritesClose DEF WriteOutcomeMarker
    <2>2. CASE MarkerResult(a, tok) # "ok" /\ UNCHANGED storeVars
      BY <1>2, <1>3, <1>4, <2>2
         DEF MarkerResult, RequireClaimedWithToken, Closed, Exists, storeVars
    <2> QED BY <1>6, <2>1, <2>2 DEF FinalizeMarker
  <1>7. CASE Reconcile(tok)
    <2>1. CASE rec' = Completed(a, "failed")
      BY <1>2, <1>3, <2>1, WritesClose DEF TerminalStates
    <2>2. CASE CompleteResult(a, tok) # "ok" /\ UNCHANGED rec
      BY <1>2, <1>3, <1>4, <1>5, <2>2
         DEF CompleteResult, RequireClaimedWithToken, Closed, Exists
    <2> QED BY <1>7, <2>1, <2>2 DEF Reconcile
  <1> QED BY <1>2, <1>6, <1>7

\* Every step keeps what is decided closed, and what can be claimed undecided.
LEMMA ClosedStep ==
    ASSUME FlowInv, SerialInv, ClosedInv, ~StoreFaults, ~Abandons, [FlowNext]_flowVars
    PROVE  ClosedInv'
  <1>0. Timely
    BY DEF SerialInv
  <1>1. ASSUME NEW f \in Tokens, issued'[f].outcome # None, call'[f].pc # "marker",
               NEW a \in Approvals, a = call'[f].approval
        PROVE  Closed(a)'
    <2>1. CASE call'[f] = call[f] /\ issued'[f] = issued[f]
      BY <1>1, <2>1, ClosedStays DEF ClosedInv, Of
    <2>2. ASSUME NEW tok \in Tokens, f = tok, Moves(tok) PROVE Closed(a)'
      <3>1. a = Of(f) /\ issued[f].outcome # None
        BY <1>1, <2>2 DEF Moves, SameRequest, Of
      <3>2. call[f].pc = "marker" => FinalizeMarker(f)
        BY <2>2 DEF Moves, Passes, GoesOn
      <3>3. CASE call[f].pc = "marker"
        BY <1>0, <3>1, <3>2, <3>3, HolderCloses
      <3>4. CASE Closed(a)
        BY <3>4, ClosedStays
      <3> QED BY <3>1, <3>3, <3>4 DEF ClosedInv
    <2>3. ASSUME NEW tok \in Tokens, NEW kind \in TerminalStates, f = tok, Decides(tok, kind)
          PROVE  Closed(a)'
      <3>1. Reconcile(f) /\ a = Of(f)
        BY <1>1, <2>3 DEF Decides, SameRequest, Of
      <3> QED BY <1>0, <3>1, HolderCloses
    <2>4. ASSUME NEW tok \in Tokens, NEW b \in Approvals, NEW t \in CallerClock, Begins(tok, b, t)
          PROVE  f # tok
      BY <1>1, <2>4 DEF Begins
    <2>5. CASE Waits \/ \E tok \in Tokens : Acts(tok)
      BY <2>1, <2>5 DEF Waits, Acts
    <2>6. ASSUME NEW tok \in Tokens, f # tok, OthersWait(tok) PROVE Closed(a)'
      BY <2>1, <2>6 DEF OthersWait
    <2>7. CASE \E tok \in Tokens : Moves(tok)
      BY <2>2, <2>6, <2>7 DEF Moves
    <2>8. CASE \E tok \in Tokens, kind \in TerminalStates : Decides(tok, kind)
      BY <2>3, <2>6, <2>8 DEF Decides
    <2>9. CASE \E tok \in Tokens, b \in Approvals, t \in CallerClock : Begins(tok, b, t)
      BY <2>4, <2>6, <2>9 DEF Begins
    <2> QED BY <2>5, <2>7, <2>8, <2>9, FlowMoves
  <1>2. ASSUME NEW f \in Tokens, call'[f].pc = "guard",
               NEW e \in Tokens, call'[e].approval = call'[f].approval
        PROVE  issued'[e].outcome = None
    <2>1. CASE Waits \/ \E tok \in Tokens : Acts(tok)
      BY <1>2, <2>1 DEF Waits, Acts, ClosedInv, NobodyDecided, Of
    <2>2. CASE \E tok \in Tokens : Moves(tok)
      <3>1. PICK tok \in Tokens : Moves(tok)
        BY <2>2
      <3>2. /\ call'[tok].pc # "guard" /\ UNCHANGED issued
            /\ \A k \in Tokens : call'[k].approval = call[k].approval
        BY <3>1 DEF Moves, Passes, GoesOn, OthersWait, SameRequest
      <3>3. call[f].pc = "guard"
        BY <1>2, <3>1, <3>2 DEF Moves, OthersWait
      <3> QED BY <1>2, <3>2, <3>3 DEF ClosedInv, NobodyDecided, Of
    <2>3. CASE \E tok \in Tokens, kind \in TerminalStates : Decides(tok, kind)
      <3>1. PICK tok \in Tokens, kind \in TerminalStates : Decides(tok, kind)
        BY <2>3
      <3>2. /\ call'[tok].pc # "guard" /\ Acting(tok)
            /\ \A k \in Tokens : call'[k].approval = call[k].approval
            /\ \A k \in Tokens : k # tok => call'[k] = call[k] /\ issued'[k] = issued[k]
        BY <3>1 DEF Decides, OthersWait, SameRequest, Acting
      <3>3. call[f].pc = "guard" /\ f # tok /\ Of(e) = Of(f)
        BY <1>2, <3>2 DEF Of
      <3>4. e # tok
        BY <1>0, <3>2, <3>3, ActingAlone DEF Acting
      <3> QED BY <3>2, <3>3, <3>4 DEF ClosedInv, NobodyDecided
    <2>4. CASE \E tok \in Tokens, a \in Approvals, t \in CallerClock : Begins(tok, a, t)
      <3>1. PICK tok \in Tokens, a \in Approvals, t \in CallerClock : Begins(tok, a, t)
        BY <2>4
      <3>2. /\ issued'[tok].outcome = None /\ call'[tok].approval = a
            /\ \A k \in Tokens : k # tok => call'[k] = call[k] /\ issued'[k] = issued[k]
            /\ call'[tok].pc = "guard" => ClaimPending(a, tok, t)
        BY <3>1 DEF Begins, OthersWait
      <3>3. CASE e = tok
        BY <3>2, <3>3
      <3>4. CASE e # tok /\ f # tok
        BY <1>2, <3>2, <3>4 DEF ClosedInv, NobodyDecided, Of
      <3>5. CASE e # tok /\ f = tok
        <4>1. ClaimPending(a, tok, t) /\ Of(e) = a /\ issued'[e] = issued[e]
          BY <1>2, <3>2, <3>5 DEF Of
        <4>2. ~Closed(a)
          BY <4>1, ClosedRefuses DEF ClaimPending
        <4>3. call[e].pc # "marker"
          BY <1>0, <4>1, ClaimIsFree DEF Acting
        <4> QED BY <4>1, <4>2, <4>3 DEF ClosedInv
      <3> QED BY <3>3, <3>4, <3>5
    <2> QED BY <2>1, <2>2, <2>3, <2>4, FlowMoves
  <1>3. ASSUME NEW f \in Tokens, issued'[f].outcome # None PROVE call'[f].approval \in Approvals
    <2>1. FlowInv'
      BY FlowNextKeeps
    <2>2. issued' \in [Tokens -> Claim] /\ IsIssued(f)' /\ CallOK(f)'
      BY <1>3, <2>1 DEF FlowInv, StoreInv, StoreTypeOK, ClaimInv
    <2> QED BY <2>2 DEF CallOK, IsIssued, Claim, Of
  <1>4. \A f \in Tokens : issued'[f].outcome # None => call'[f].pc = "marker" \/ Closed(Of(f))'
    BY <1>1, <1>3 DEF Of
  <1> QED BY <1>2, <1>4 DEF ClosedInv, NobodyDecided, Of

\* At the start nothing is decided.
LEMMA ClosedInit == ASSUME FlowInit PROVE ClosedInv
  <1>1. /\ issued = [tok \in Tokens |-> Unissued]
        /\ call = [tok \in Tokens |-> [pc |-> "idle", op |-> "approve", approval |-> Nil,
                                        answer |-> "none"]]
    BY DEF FlowInit, Init
  <1>2. \A tok \in Tokens : call[tok].pc = "idle" /\ issued[tok].outcome = None
    BY <1>1 DEF Unissued
  <1> QED BY <1>2 DEF ClosedInv

\* However the ledger fails, while the state store works and calls end within their
\* claim, an approval is executed at most once, and not at all once it reads
\* "denied": the claim and the outcome marker are enough (write_outcome_marker,
\* complete, LUA_CLAIM).
THEOREM StoreAloneSuffices ==
    ASSUME Prompt, ~Abandons, ~StoreFaults, ClockLag < ClaimTTL
    PROVE  FlowSpec => [](OneShot /\ DeniedNeverExecuted)
  <1> DEFINE I == FlowInv /\ SerialInv /\ ClosedInv
  <1>1. FlowInit => I
    BY FlowInitEstablishes, SerialInit, ClosedInit
  <1>2. I /\ [FlowNext]_flowVars => I'
    <2>1. ClosedInv => GuardIsSound
      BY DEF ClosedInv, GuardIsSound
    <2> QED BY <2>1, FlowNextKeeps, SerialStep, ClosedStep
  <1>3. I => OneShot /\ DeniedNeverExecuted
    BY SerialIsOneShot, SerialDenies
  <1> QED BY <1>1, <1>2, <1>3, PTL DEF FlowSpec

--------------------------------------------------------------------------------
(***************************************************************************)
(* What the operator's console shows while it decides, for any number of   *)
(* approvals, keys, rows and sizes of a page.                              *)
(***************************************************************************)

(* Elements by their rank.                                                     *)

\* How many elements of S come before i in the order R.
Rank(S, R, i) == Cardinality({j \in S : <<j, i>> \in R})

\* R orders S, strictly and totally.
OrdersStrictly(R, S) ==
    /\ \A i \in S : <<i, i>> \notin R
    /\ \A i, j \in S : i # j => <<i, j>> \in R \/ <<j, i>> \in R
    /\ \A i, j, k \in S : <<i, j>> \in R /\ <<j, k>> \in R => <<i, k>> \in R

\* A set without one of its elements is smaller.
LEMMA PartIsSmaller ==
    ASSUME NEW S, IsFiniteSet(S), NEW T \in SUBSET S, NEW x \in S, x \notin T
    PROVE  /\ IsFiniteSet(T)
           /\ Cardinality(T) \in Nat /\ Cardinality(S) \in Nat
           /\ Cardinality(T) < Cardinality(S)
<1>1. IsFiniteSet(T) /\ Cardinality(T) <= Cardinality(S) /\ Cardinality(T) # Cardinality(S)
  BY FS_Subset
<1>2. Cardinality(T) \in Nat /\ Cardinality(S) \in Nat
  BY <1>1, FS_CardinalityType
<1> QED
  BY <1>1, <1>2

\* In a finite set with a strict total order, each rank is some element's, and
\* one element's only.
LEMMA RanksAreOnto ==
    ASSUME NEW S, IsFiniteSet(S), NEW R, OrdersStrictly(R, S)
    PROVE  /\ Cardinality(S) \in Nat
           /\ \A i \in S : Rank(S, R, i) \in 0 .. Cardinality(S) - 1
           /\ \A i, j \in S : Rank(S, R, i) = Rank(S, R, j) => i = j
           /\ \A k \in 1 .. Cardinality(S) : \E i \in S : Rank(S, R, i) = k - 1
<1> DEFINE Below(i) == {j \in S : <<j, i>> \in R}
           n == Cardinality(S)
<1>1. n \in Nat
  BY FS_CardinalityType
<1>2. \A i \in S : Below(i) \in SUBSET S /\ i \notin Below(i)
  BY DEF OrdersStrictly
<1>3. \A i, j \in S : <<i, j>> \in R =>
         Below(i) \in SUBSET Below(j) /\ i \in Below(j) /\ i \notin Below(i)
  BY DEF OrdersStrictly
<1>4. \A i \in S : Rank(S, R, i) = Cardinality(Below(i))
  BY DEF Rank
<1> HIDE DEF Below
<1>5. \A i \in S : /\ IsFiniteSet(Below(i))
                   /\ Cardinality(Below(i)) \in Nat /\ Cardinality(Below(i)) < n
  BY <1>2, PartIsSmaller
<1>6. \A i, j \in S : <<i, j>> \in R => Cardinality(Below(i)) < Cardinality(Below(j))
  BY <1>3, <1>5, PartIsSmaller
<1> HIDE DEF n
<1>7. \A i \in S : Rank(S, R, i) \in 0 .. n - 1
  BY <1>1, <1>4, <1>5
<1>8. \A i, j \in S : <<i, j>> \in R => Rank(S, R, i) # Rank(S, R, j)
  BY <1>4, <1>5, <1>6
<1>9. \A i, j \in S : Rank(S, R, i) = Rank(S, R, j) => i = j
  BY <1>8 DEF OrdersStrictly
<1> DEFINE f == [i \in S |-> Rank(S, R, i)]
           T == 0 .. n - 1
<1>10. f \in [S -> T] /\ \A i \in S : f[i] = Rank(S, R, i)
  BY <1>7
<1>11. IsFiniteSet(T) /\ Cardinality(T) = n
  <2>1. 0 \in Int /\ n - 1 \in Int
    BY <1>1
  <2>2. IsFiniteSet(T) /\ Cardinality(T) = IF 0 > n - 1 THEN 0 ELSE (n - 1) - 0 + 1
    BY <2>1, FS_Interval
  <2> QED
    BY <1>1, <2>2
<1>12. T = 0 .. n - 1
  OBVIOUS
<1> HIDE DEF f, T
<1>13. f \in Injection(S, T)
  BY <1>9, <1>10 DEF Injection, IsInjective
<1>14. f \in Surjection(S, T)
  BY <1>11, <1>13, FS_Injection DEF n
<1>15. \A t \in T : \E i \in S : f[i] = t
  BY <1>14 DEF Surjection
<1>16. \A k \in 1 .. n : \E i \in S : Rank(S, R, i) = k - 1
  <2> TAKE k \in 1 .. n
  <2>1. k - 1 \in T
    BY <1>1, <1>12
  <2> QED
    BY <1>10, <1>15, <2>1
<1> QED
  BY <1>1, <1>7, <1>9, <1>16 DEF n

\* Indices of a list are finitely many numbers.
LEMMA IndexSets ==
    ASSUME NEW n \in Nat, NEW K \in SUBSET (1 .. n)
    PROVE  IsFiniteSet(K) /\ Cardinality(K) \in Nat /\ \A i \in K : i \in Nat
<1>1. IsFiniteSet(1 .. n)
  BY FS_Interval
<1> QED
  <2>1. IsFiniteSet(K)
    BY <1>1, FS_Subset
  <2> QED
    BY <2>1, FS_CardinalityType

\* The elements of a finite set of numbers, from the least on.
LEMMA NumbersHaveRanks ==
    ASSUME NEW K, IsFiniteSet(K), \A i \in K : i \in Nat
    PROVE  \A k \in 1 .. Cardinality(K) : \E i \in K : Cardinality({j \in K : j < i}) = k - 1
<1>1. PICK R : R = {p \in K \X K : p[1] < p[2]}
  OBVIOUS
<1>2. \A i \in K : Rank(K, R, i) = Cardinality({j \in K : j < i})
  <2> TAKE i \in K
  <2>1. {j \in K : <<j, i>> \in R} = {j \in K : j < i}
    BY <1>1
  <2> QED
    BY <2>1 DEF Rank
<1>3. OrdersStrictly(R, K)
  BY <1>1 DEF OrdersStrictly
<1>4. \A k \in 1 .. Cardinality(K) : \E i \in K : Rank(K, R, i) = k - 1
  BY <1>3, RanksAreOnto
<1> QED
  BY <1>2, <1>4

\* The rows of a finite set, from the newest on.
NewerThan(S, i) == Cardinality({j \in S : Newer(j, i)})

LEMMA RowsHaveRanks ==
    ASSUME NEW S, IsFiniteSet(S), \A i \in S : i \in Nat /\ rows[i] \in Nat
    PROVE  /\ \A i \in S : NewerThan(S, i) \in 0 .. Cardinality(S) - 1
           /\ \A i, j \in S : NewerThan(S, i) = NewerThan(S, j) => i = j
           /\ \A k \in 1 .. Cardinality(S) : \E i \in S : NewerThan(S, i) = k - 1
<1>1. PICK R : R = {p \in S \X S : Newer(p[1], p[2])}
  OBVIOUS
<1>2. \A i \in S : Rank(S, R, i) = NewerThan(S, i)
  <2> TAKE i \in S
  <2>1. {j \in S : <<j, i>> \in R} = {j \in S : Newer(j, i)}
    BY <1>1
  <2> QED
    BY <2>1 DEF Rank, NewerThan
<1>3. /\ \A i \in S : ~Newer(i, i)
      /\ \A i, j \in S : i # j => Newer(i, j) \/ Newer(j, i)
      /\ \A i, j, k \in S : Newer(i, j) /\ Newer(j, k) => Newer(i, k)
  BY DEF Newer
<1>4. OrdersStrictly(R, S)
  BY <1>1, <1>3 DEF OrdersStrictly
<1>5. /\ \A i \in S : Rank(S, R, i) \in 0 .. Cardinality(S) - 1
      /\ \A i, j \in S : Rank(S, R, i) = Rank(S, R, j) => i = j
      /\ \A k \in 1 .. Cardinality(S) : \E i \in S : Rank(S, R, i) = k - 1
  BY <1>4, RanksAreOnto
<1> QED
  BY <1>2, <1>5

\* What is picked from a list of some kind is a list of that kind.
LEMMA PickedIsList ==
    ASSUME NEW S, NEW list \in Seq(S), NEW K \in SUBSET (1 .. Len(list))
    PROVE  Picked(list, K) \in Seq(S)
<1> DEFINE n == Cardinality(K)
<1>1. IsFiniteSet(K) /\ n \in Nat /\ \A i \in K : i \in Nat
  BY IndexSets, LenProperties
<1>2. \A i \in K : list[i] \in S
  BY ElementOfSeq
<1>3. \A k \in 1 .. n : \E i \in K : Cardinality({j \in K : j < i}) = k - 1
  BY <1>1, NumbersHaveRanks
<1>4. \A k \in 1 .. n : (CHOOSE i \in K : Cardinality({j \in K : j < i}) = k - 1) \in K
  <2> TAKE k \in 1 .. n
  <2>1. \E i \in K : Cardinality({j \in K : j < i}) = k - 1
    BY <1>3
  <2> QED
    BY <2>1
<1>5. Picked(list, K) \in [1 .. n -> S]
  BY <1>2, <1>4 DEF Picked
<1> QED
  BY <1>1, <1>5

\* The rows of a set, newest first: each of them, once.
LEMMA NewestFirstLists ==
    ASSUME rows \in Seq(0 .. MaxClock), MaxClock \in Nat, NEW S \in SUBSET (1 .. Len(rows))
    PROVE  /\ NewestFirst(S) \in Seq(S)
           /\ \A i \in S : \E k \in 1 .. Len(NewestFirst(S)) : NewestFirst(S)[k] = i
           /\ \A k, m \in 1 .. Len(NewestFirst(S)) :
                 NewestFirst(S)[k] = NewestFirst(S)[m] => k = m
<1> DEFINE n == Cardinality(S)
           s == NewestFirst(S)
<1>1. IsFiniteSet(S) /\ n \in Nat /\ \A i \in S : i \in Nat
  BY IndexSets, LenProperties
<1>2. \A i \in S : rows[i] \in Nat
  BY ElementOfSeq
<1>3. /\ \A i \in S : NewerThan(S, i) \in 0 .. n - 1
      /\ \A i, j \in S : NewerThan(S, i) = NewerThan(S, j) => i = j
      /\ \A k \in 1 .. n : \E i \in S : NewerThan(S, i) = k - 1
  BY <1>1, <1>2, RowsHaveRanks
<1>4. s = [k \in 1 .. n |-> CHOOSE i \in S : NewerThan(S, i) = k - 1]
  BY DEF NewestFirst, NewerThan
<1> HIDE DEF s, n
<1>5. \A k \in 1 .. n : s[k] \in S /\ NewerThan(S, s[k]) = k - 1
  BY <1>3, <1>4
<1>6. s \in [1 .. n -> S]
  BY <1>4, <1>5
<1>7. s \in Seq(S) /\ Len(s) = n
  BY <1>1, <1>6
<1>8. \A i \in S : \E k \in 1 .. n : s[k] = i
  <2> TAKE i \in S
  <2>1. NewerThan(S, i) + 1 \in 1 .. n /\ (NewerThan(S, i) + 1) - 1 = NewerThan(S, i)
    BY <1>1, <1>3
  <2> QED
    BY <1>3, <1>5, <2>1
<1>9. \A k, m \in 1 .. n : s[k] = s[m] => k = m
  BY <1>1, <1>5
<1> QED
  BY <1>7, <1>8, <1>9 DEF s

--------------------------------------------------------------------------------
(* The audit screen's feed.                                                    *)

\* What a fetch of the head has not seen was written after it, so with a timestamp at
\* most MaxLag before the newest one known.
UnseenInv ==
    feed # <<>> => \A i \in upTo + 1 .. Len(rows) : rows[i] + MaxLag >= cursor.newest

FeedInv ==
    /\ instant \in 0 .. MaxClock
    /\ cursor \in [newest : Nat, oldest : Nat]
    /\ upTo \in 0 .. Len(rows) /\ cut \in BOOLEAN
    /\ \A i \in 1 .. Len(rows) : rows[i] <= instant
    /\ UnseenInv
    /\ FeedTypeOK
    /\ FeedSkipsNothing

\* A query returns what is newest in its window, and all of a window that fits.
LEMMA PageFacts ==
    ASSUME rows \in Seq(0 .. MaxClock), MaxClock \in Nat, FetchLimit \in Nat \ {0},
           NEW W \in SUBSET (1 .. Len(rows))
    PROVE  /\ Page(W) \in SUBSET W
           /\ \A p \in Page(W), i \in W : rows[i] > rows[p] => i \in Page(W)
           /\ Cardinality(W) <= FetchLimit => Page(W) = W
<1> DEFINE Before(i) == {j \in W : Newer(j, i)}
<1>1. IsFiniteSet(W) /\ Cardinality(W) \in Nat /\ \A i \in W : i \in Nat
  BY IndexSets, LenProperties
<1>2. \A i \in W : rows[i] \in Nat
  BY ElementOfSeq
<1>3. \A i \in W : Before(i) \in SUBSET W /\ i \notin Before(i)
  BY <1>1, <1>2 DEF Newer
<1>4. \A p \in W, i \in W : rows[i] > rows[p] => Before(i) \in SUBSET Before(p)
  <2> TAKE p \in W, i \in W
  <2> HAVE rows[i] > rows[p]
  <2>1. \A j \in W : Newer(j, i) => Newer(j, p)
    BY <1>1, <1>2 DEF Newer
  <2> QED
    BY <2>1
<1>5. Page(W) = {i \in W : Cardinality(Before(i)) < FetchLimit}
  BY DEF Page
<1> HIDE DEF Before
<1>6. \A i \in W : /\ IsFiniteSet(Before(i))
                   /\ Cardinality(Before(i)) \in Nat
                   /\ Cardinality(Before(i)) < Cardinality(W)
  BY <1>1, <1>3, PartIsSmaller
<1>7. \A p \in W, i \in W :
         rows[i] > rows[p] => Cardinality(Before(i)) <= Cardinality(Before(p))
  BY <1>4, <1>6, FS_Subset
<1>8. Page(W) \in SUBSET W
  BY <1>5
<1>9. \A p \in Page(W), i \in W : rows[i] > rows[p] => i \in Page(W)
  <2> TAKE p \in Page(W), i \in W
  <2> HAVE rows[i] > rows[p]
  <2>1. p \in W /\ Cardinality(Before(p)) < FetchLimit
    BY <1>5
  <2>2. Cardinality(Before(i)) < FetchLimit
    BY <1>6, <1>7, <2>1
  <2> QED
    BY <1>5, <2>2
<1>10. Cardinality(W) <= FetchLimit => \A i \in W : Cardinality(Before(i)) < FetchLimit
  BY <1>1, <1>6
<1>11. Cardinality(W) <= FetchLimit => Page(W) = W
  BY <1>5, <1>10
<1> QED
  BY <1>8, <1>9, <1>11

\* The screen keeps the head of what it is given.
LEMMA HeldFacts ==
    ASSUME MaxEvents \in Nat \ {0}, NEW S, NEW s \in Seq(S)
    PROVE  /\ Held(s) \in Seq(S) /\ Len(Held(s)) <= MaxEvents /\ Len(Held(s)) <= Len(s)
           /\ \A k \in 1 .. Len(Held(s)) : Held(s)[k] = s[k]
           /\ Len(Held(s)) < MaxEvents => Held(s) = s
           /\ s # <<>> => Held(s) # <<>>
<1> DEFINE n == IF Len(s) < MaxEvents THEN Len(s) ELSE MaxEvents
<1>1. n \in 0 .. Len(s) /\ Len(s) \in Nat
  OBVIOUS
<1>2. Held(s) = SubSeq(s, 1, n)
  BY DEF Held
<1>3. /\ Held(s) \in Seq(S) /\ Len(Held(s)) = n
      /\ \A k \in 1 .. n : Held(s)[k] = s[k]
  BY <1>1, <1>2
<1>4. n < MaxEvents => Held(s) = s
  BY <1>1, <1>2, <1>3
<1>5. s # <<>> => n # 0
  OBVIOUS
<1>6. s # <<>> => Held(s) # <<>>
  BY <1>3, <1>5
<1> QED
  BY <1>1, <1>3, <1>4, <1>6

\* What a page adds is new, and with what is held it has the whole page.
LEMMA FreshFacts ==
    ASSUME FeedTypeOK, MaxClock \in Nat, NEW P \in SUBSET (1 .. Len(rows))
    PROVE  /\ FreshRows(P) \in Seq(1 .. Len(rows))
           /\ \A k \in 1 .. Len(FreshRows(P)) : FreshRows(P)[k] \in P
           /\ \A k \in 1 .. Len(FreshRows(P)), m \in 1 .. Len(feed) :
                 FreshRows(P)[k] # feed[m]
           /\ \A k, m \in 1 .. Len(FreshRows(P)) :
                 FreshRows(P)[k] = FreshRows(P)[m] => k = m
           /\ \A i \in P : \/ \E m \in 1 .. Len(feed) : feed[m] = i
                           \/ \E k \in 1 .. Len(FreshRows(P)) : FreshRows(P)[k] = i
<1> DEFINE S == P \ Range(feed)
           s == FreshRows(P)
<1>1. s = NewestFirst(S) /\ S \in SUBSET (1 .. Len(rows))
  BY DEF FreshRows
<1>2. /\ s \in Seq(S)
      /\ \A i \in S : \E k \in 1 .. Len(s) : s[k] = i
      /\ \A k, m \in 1 .. Len(s) : s[k] = s[m] => k = m
  <2> HIDE DEF S, s
  <2> QED
    BY <1>1, NewestFirstLists DEF FeedTypeOK
<1>3. Range(feed) = {feed[m] : m \in 1 .. Len(feed)}
  BY DEF FeedTypeOK, Range
<1>4. \A k \in 1 .. Len(s) : s[k] \in S
  BY <1>2
<1>5. s \in Seq(1 .. Len(rows))
  BY <1>1, <1>2
<1> HIDE DEF s
<1>6. \A i \in P : i \in S \/ \E m \in 1 .. Len(feed) : feed[m] = i
  BY <1>3
<1> QED
  BY <1>2, <1>3, <1>4, <1>5, <1>6 DEF s

\* A list that has nothing twice, and two that have nothing in common.
Distinct(s) == \A k, m \in 1 .. Len(s) : s[k] = s[m] => k = m
Apart(s, t) == \A k \in 1 .. Len(s), m \in 1 .. Len(t) : s[k] # t[m]

\* Two parts without a common event, each with its events once, are such a list.
LEMMA JoinedFacts ==
    ASSUME NEW S, NEW s \in Seq(S), NEW t \in Seq(S), Distinct(s), Distinct(t), Apart(s, t)
    PROVE  /\ s \o t \in Seq(S) /\ Len(s \o t) = Len(s) + Len(t)
           /\ Distinct(s \o t)
           /\ \A k \in 1 .. Len(s) : (s \o t)[k] = s[k]
           /\ \A k \in 1 .. Len(t) : (s \o t)[Len(s) + k] = t[k]
<1>1. /\ s \o t \in Seq(S) /\ Len(s \o t) = Len(s) + Len(t)
      /\ Len(s) \in Nat /\ Len(t) \in Nat
  OBVIOUS
<1>2. /\ \A k \in 1 .. Len(s) : (s \o t)[k] = s[k]
      /\ \A k \in 1 .. Len(t) : (s \o t)[Len(s) + k] = t[k]
  BY <1>1
<1>3. \A k \in 1 .. Len(s \o t) :
         \/ k \in 1 .. Len(s) /\ (s \o t)[k] = s[k]
         \/ k - Len(s) \in 1 .. Len(t) /\ (s \o t)[k] = t[k - Len(s)]
  BY <1>1
<1>4. Distinct(s \o t)
  <2> SUFFICES ASSUME NEW k \in 1 .. Len(s \o t), NEW m \in 1 .. Len(s \o t),
                      (s \o t)[k] = (s \o t)[m]
               PROVE  k = m
    BY DEF Distinct
  <2> QED
    BY <1>1, <1>3 DEF Distinct, Apart
<1> QED
  BY <1>1, <1>2, <1>4

\* The parts of the feed's invariant, as facts about numbers.
LEMMA FeedFacts ==
    ASSUME FeedInv
    PROVE  /\ rows \in Seq(0 .. MaxClock) /\ Len(rows) \in Nat
           /\ \A i \in 1 .. Len(rows) : rows[i] \in Nat
           /\ feed \in Seq(1 .. Len(rows)) /\ Len(feed) \in Nat
           /\ \A k \in 1 .. Len(feed) : feed[k] \in 1 .. Len(rows)
           /\ \A k, m \in 1 .. Len(feed) : feed[k] = feed[m] => k = m
           /\ Range(feed) = {feed[k] : k \in 1 .. Len(feed)}
           /\ feed # <<>> =>
                 Len(feed) >= 1 /\ Head(feed) = feed[1] /\ Last(feed) = feed[Len(feed)]
<1>1. MaxClock \in Nat
  BY FeedAssumption
<1>2. rows \in Seq(0 .. MaxClock) /\ feed \in Seq(1 .. Len(rows))
  BY DEF FeedInv, FeedTypeOK
<1>3. Len(rows) \in Nat /\ Len(feed) \in Nat /\ DOMAIN feed = 1 .. Len(feed)
  BY <1>2
<1>4. \A i \in 1 .. Len(rows) : rows[i] \in Nat
  BY <1>1, <1>2, ElementOfSeq
<1>5. \A k \in 1 .. Len(feed) : feed[k] \in 1 .. Len(rows)
  BY <1>2, ElementOfSeq
<1>6. \A k, m \in 1 .. Len(feed) : feed[k] = feed[m] => k = m
  BY <1>3 DEF FeedInv, FeedTypeOK, IsInjective
<1>7. Range(feed) = {feed[k] : k \in 1 .. Len(feed)}
  BY <1>3 DEF Range
<1>8. feed # <<>> => Len(feed) >= 1 /\ Head(feed) = feed[1] /\ Last(feed) = feed[Len(feed)]
  BY <1>2 DEF Last
<1> QED
  BY <1>2, <1>3, <1>4, <1>5, <1>6, <1>7, <1>8

LEMMA FeedInitInv == FeedInit => FeedInv
<1> SUFFICES ASSUME FeedInit PROVE FeedInv
  OBVIOUS
<1>1. feed = <<>> /\ rows = <<>> /\ Len(rows) = 0 /\ Len(feed) = 0 /\ DOMAIN feed = {}
  BY DEF FeedInit
<1>2. rows \in Seq(0 .. MaxClock) /\ feed \in Seq(1 .. Len(rows))
  BY <1>1
<1>3. FeedTypeOK
  BY <1>1, <1>2, FeedAssumption DEF FeedTypeOK, IsInjective
<1>4. UnseenInv /\ FeedSkipsNothing
  BY <1>1 DEF UnseenInv, FeedSkipsNothing
<1>5. \A i \in 1 .. Len(rows) : rows[i] <= instant
  BY <1>1
<1>6. /\ instant \in 0 .. MaxClock /\ upTo \in 0 .. Len(rows)
      /\ cut \in BOOLEAN
  <2>1. instant \in 0 .. MaxClock /\ upTo \in 0 .. Len(rows)
    BY <1>1, FeedAssumption DEF FeedInit
  <2>2. cut \in BOOLEAN
    BY Zenon DEF FeedInit
  <2> QED
    BY <2>1, <2>2
<1>7. cursor \in [newest : Nat, oldest : Nat]
  BY DEF FeedInit
<1> QED
  BY <1>3, <1>4, <1>5, <1>6, <1>7 DEF FeedInv

LEMMA TickClockKeeps == FeedInv /\ TickClock => FeedInv'
<1> SUFFICES ASSUME FeedInv, TickClock PROVE FeedInv'
  OBVIOUS
<1>1. instant' \in 0 .. MaxClock /\ instant <= instant'
  BY FeedAssumption DEF FeedInv, TickClock
<1>2. \A i \in 1 .. Len(rows) : rows[i] <= instant'
  BY <1>1, FeedFacts DEF FeedInv
<1> QED
  BY <1>1, <1>2
  DEF FeedInv, TickClock, UnseenInv, FeedTypeOK, FeedSkipsNothing

\* An event gets its row at most MaxLag after its timestamp.
LEMMA WriteRowKeeps == FeedInv /\ WriteRow => FeedInv'
<1> SUFFICES ASSUME FeedInv, WriteRow PROVE FeedInv'
  OBVIOUS
<1>1. PICK ts \in (IF instant < MaxLag THEN 0 ELSE instant - MaxLag) .. instant :
         rows' = Append(rows, ts)
  BY DEF WriteRow
<1>2. /\ ts \in 0 .. MaxClock /\ ts <= instant /\ ts + MaxLag >= instant /\ ts \in Nat
      /\ instant \in Nat /\ MaxLag \in Nat
  BY <1>1, FeedAssumption DEF FeedInv
<1>3. /\ rows' \in Seq(0 .. MaxClock) /\ Len(rows') = Len(rows) + 1
      /\ \A i \in 1 .. Len(rows) : rows'[i] = rows[i]
      /\ rows'[Len(rows) + 1] = ts
  BY <1>1, <1>2, FeedFacts
<1>4. feed' = feed /\ cursor' = cursor /\ upTo' = upTo /\ cut' = cut /\ instant' = instant
  BY DEF WriteRow
<1>5. feed \in Seq(1 .. Len(rows'))
  <2>1. feed \in [1 .. Len(feed) -> 1 .. Len(rows')] /\ Len(feed) \in Nat
    <3>1. \A k \in 1 .. Len(feed) : feed[k] \in 1 .. Len(rows')
      BY <1>3, FeedFacts
    <3> QED
      BY <3>1, FeedFacts
  <2> QED
    BY <2>1
<1>6. \A i \in 1 .. Len(rows') : rows'[i] <= instant'
  <2> TAKE i \in 1 .. Len(rows')
  <2>1. i \in 1 .. Len(rows) \/ i = Len(rows) + 1
    BY <1>3, FeedFacts
  <2>2. i \in 1 .. Len(rows) => rows[i] <= instant
    BY DEF FeedInv
  <2> QED
    BY <1>2, <1>3, <1>4, <2>1, <2>2
<1>7. feed # <<>> => /\ cursor = [newest |-> rows[feed[1]], oldest |-> rows[feed[Len(feed)]]]
                     /\ rows'[feed[1]] = rows[feed[1]]
                     /\ rows'[feed[Len(feed)]] = rows[feed[Len(feed)]]
                     /\ rows[feed[1]] <= instant
  <2> HAVE feed # <<>>
  <2>1. feed[1] \in 1 .. Len(rows) /\ feed[Len(feed)] \in 1 .. Len(rows)
    BY FeedFacts
  <2> QED
    BY <1>3, <2>1, FeedFacts DEF FeedInv, FeedTypeOK
<1>8. FeedTypeOK'
  BY <1>3, <1>4, <1>5, <1>7, FeedFacts DEF FeedInv, FeedTypeOK
<1>9. UnseenInv'
  <2> SUFFICES ASSUME feed # <<>>, NEW i \in upTo + 1 .. Len(rows')
               PROVE  rows'[i] + MaxLag >= cursor.newest
    BY <1>4 DEF UnseenInv
  <2>1. cursor.newest = rows[feed[1]] /\ cursor.newest \in Nat
    BY <1>7 DEF FeedInv
  <2>2. CASE i = Len(rows) + 1
    BY <1>2, <1>3, <1>7, <2>1, <2>2
  <2>3. CASE i # Len(rows) + 1
    <3>1. i \in upTo + 1 .. Len(rows) /\ i \in 1 .. Len(rows)
      BY <1>3, <2>3, FeedFacts DEF FeedInv
    <3> QED
      BY <1>3, <3>1 DEF FeedInv, UnseenInv
  <2> QED
    BY <2>2, <2>3
<1>10. FeedSkipsNothing'
  <2>1. \A i \in 1 .. upTo : i \in 1 .. Len(rows)
    BY FeedFacts DEF FeedInv
  <2> QED
    BY <1>3, <1>4, <2>1 DEF FeedInv, FeedSkipsNothing
<1>11. upTo' \in 0 .. Len(rows')
  BY <1>3, <1>4, FeedFacts DEF FeedInv
<1> QED
  BY <1>4, <1>6, <1>8, <1>9, <1>10, <1>11 DEF FeedInv

LEMMA ResetKeeps == FeedInv /\ Reset => FeedInv'
<1> SUFFICES ASSUME FeedInv, Reset PROVE FeedInv'
  OBVIOUS
<1>1. feed' = <<>> /\ rows' = rows /\ instant' = instant /\ upTo' = 0 /\ cut' = FALSE
  BY DEF Reset
<1>2. feed' \in Seq(1 .. Len(rows)) /\ Len(feed') = 0 /\ DOMAIN feed' = {}
  BY <1>1
<1>3. cursor' \in [newest : Nat, oldest : Nat]
  BY DEF Reset
<1>4. upTo' \in 0 .. Len(rows)
  BY <1>1, FeedFacts
<1>5. FeedTypeOK'
  BY <1>1, <1>2, FeedFacts, FeedAssumption DEF FeedTypeOK, IsInjective
<1>6. UnseenInv' /\ FeedSkipsNothing'
  BY <1>1 DEF UnseenInv, FeedSkipsNothing
<1> QED
  BY <1>1, <1>3, <1>4, <1>5, <1>6 DEF FeedInv

\* A feed made of a list that has each event once.
LEMMA HeldIsFeed ==
    ASSUME FeedInv, NEW s \in Seq(1 .. Len(rows)), s # <<>>,
           \A k, m \in 1 .. Len(s) : s[k] = s[m] => k = m
    PROVE  /\ Held(s) \in Seq(1 .. Len(rows)) /\ Held(s) # <<>>
           /\ Len(Held(s)) \in 1 .. MaxEvents /\ Len(Held(s)) <= Len(s)
           /\ IsInjective(Held(s))
           /\ Head(Held(s)) = s[1] /\ Last(Held(s)) = s[Len(Held(s))]
           /\ s[1] \in 1 .. Len(rows) /\ s[Len(Held(s))] \in 1 .. Len(rows)
           /\ Len(Held(s)) < MaxEvents => Held(s) = s
<1>1. MaxEvents \in Nat \ {0}
  BY FeedAssumption
<1>2. /\ Held(s) \in Seq(1 .. Len(rows)) /\ Len(Held(s)) <= MaxEvents /\ Len(Held(s)) <= Len(s)
      /\ \A k \in 1 .. Len(Held(s)) : Held(s)[k] = s[k]
      /\ Len(Held(s)) < MaxEvents => Held(s) = s
      /\ Held(s) # <<>>
  <2>1. PICK S : S = 1 .. Len(rows)
    OBVIOUS
  <2>2. s \in Seq(S)
    BY <2>1
  <2> QED
    BY <1>1, <2>1, <2>2, HeldFacts
<1> DEFINE h == Held(s)
           n == Len(h)
<1> HIDE DEF h
<1>3. n \in Nat /\ n >= 1 /\ Len(s) \in Nat /\ DOMAIN h = 1 .. n /\ Head(h) = h[1]
      /\ Last(h) = h[n]
  BY <1>2 DEF h, Last
<1>4. IsInjective(h)
  <2>1. \A k \in DOMAIN h : k \in 1 .. Len(s) /\ h[k] = s[k]
    BY <1>2, <1>3 DEF h
  <2> QED
    BY <2>1 DEF IsInjective
<1>5. h[1] = s[1] /\ h[n] = s[n] /\ 1 \in 1 .. Len(s) /\ n \in 1 .. Len(s)
  BY <1>2, <1>3 DEF h
<1>6. s[1] \in 1 .. Len(rows) /\ s[n] \in 1 .. Len(rows)
  BY <1>5, ElementOfSeq
<1> QED
  BY <1>1, <1>2, <1>3, <1>4, <1>5, <1>6 DEF h

\* What a fetch of the head leaves to find is in its window: what earlier fetches saw
\* and the feed does not have is older than the feed.
LEMMA UnknownIsInHeadWindow ==
    ASSUME FeedInv, ~cut, feed # <<>>, Len(feed) < MaxEvents,
           NEW i \in 1 .. Len(rows), rows[i] > cursor.oldest
    PROVE  i \in HeadWindow \/ i \in Range(feed)
<1>1. /\ rows[i] \in Nat /\ upTo \in Nat /\ cursor.newest \in Nat
      /\ MaxLag \in Nat /\ Overlap \in Nat /\ MaxLag < Overlap
  BY FeedFacts, FeedAssumption DEF FeedInv
<1>2. CASE i \in 1 .. upTo
  BY <1>2 DEF FeedInv, FeedSkipsNothing
<1>3. CASE i \notin 1 .. upTo
  <2>1. i \in upTo + 1 .. Len(rows)
    BY <1>1, <1>3, FeedFacts
  <2>2. rows[i] + MaxLag >= cursor.newest
    BY <2>1 DEF FeedInv, UnseenInv
  <2>3. rows[i] + Overlap > cursor.newest
    BY <1>1, <2>2
  <2> QED
    BY <2>3 DEF HeadWindow
<1> QED
  BY <1>2, <1>3

LEMMA FetchHeadKeeps == FeedInv /\ FetchHead => FeedInv'
<1> SUFFICES ASSUME FeedInv, FetchHead PROVE FeedInv'
  OBVIOUS
<1> DEFINE W == HeadWindow
           P == Page(W)
           a == FreshRows(P)
           m == a \o feed
<1>1. /\ upTo' = Len(rows) /\ instant' = instant /\ rows' = rows
      /\ cut' = (cut \/ (feed # <<>> /\ Cardinality(W) > FetchLimit))
      /\ a = <<>> => feed' = feed /\ cursor' = cursor
      /\ a # <<>> => /\ feed' = Held(m)
                     /\ cursor' = [newest |-> rows[Head(Held(m))],
                                   oldest |-> rows[Last(Held(m))]]
  BY DEF FetchHead
<1>2. W \in SUBSET (1 .. Len(rows))
  BY DEF HeadWindow
<1>3. /\ FetchLimit \in Nat \ {0} /\ MaxClock \in Nat /\ MaxEvents \in Nat \ {0}
      /\ FeedTypeOK /\ cut \in BOOLEAN /\ Len(rows) \in Nat
  BY FeedAssumption, FeedFacts DEF FeedInv
<1>4. /\ P \in SUBSET W
      /\ \A p \in P, i \in W : rows[i] > rows[p] => i \in P
      /\ Cardinality(W) <= FetchLimit => P = W
  <2> HIDE DEF W
  <2> QED
    BY <1>2, <1>3, FeedFacts, PageFacts
<1>5. feed = <<>> => W = 1 .. Len(rows)
  BY DEF HeadWindow
<1>6. Cardinality(W) \in Nat
  <2> HIDE DEF W
  <2> QED
    BY <1>2, <1>3, IndexSets
<1> HIDE DEF W, P
<1>7. /\ a \in Seq(1 .. Len(rows))
      /\ \A k \in 1 .. Len(a) : a[k] \in P
      /\ \A k \in 1 .. Len(a), n \in 1 .. Len(feed) : a[k] # feed[n]
      /\ \A k, n \in 1 .. Len(a) : a[k] = a[n] => k = n
      /\ \A i \in P : \/ \E n \in 1 .. Len(feed) : feed[n] = i
                      \/ \E k \in 1 .. Len(a) : a[k] = i
  <2>1. P \in SUBSET (1 .. Len(rows))
    BY <1>2, <1>4
  <2> QED
    BY <1>3, <2>1, FreshFacts
<1> HIDE DEF a
<1>8. /\ m \in Seq(1 .. Len(rows)) /\ Len(m) = Len(a) + Len(feed)
      /\ \A k, n \in 1 .. Len(m) : m[k] = m[n] => k = n
      /\ \A k \in 1 .. Len(a) : m[k] = a[k]
      /\ \A k \in 1 .. Len(feed) : m[Len(a) + k] = feed[k]
  <2>1. PICK S : S = 1 .. Len(rows)
    OBVIOUS
  <2>2. a \in Seq(S) /\ feed \in Seq(S)
    BY <1>7, <2>1, FeedFacts
  <2>3. Distinct(a) /\ Distinct(feed) /\ Apart(a, feed)
    BY <1>7, FeedFacts DEF Distinct, Apart
  <2>4. /\ m \in Seq(S) /\ Len(m) = Len(a) + Len(feed)
        /\ Distinct(m)
        /\ \A k \in 1 .. Len(a) : m[k] = a[k]
        /\ \A k \in 1 .. Len(feed) : m[Len(a) + k] = feed[k]
    BY <2>2, <2>3, JoinedFacts
  <2> HIDE DEF m
  <2> QED
    BY <2>1, <2>4 DEF Distinct
<1>9. Len(a) \in Nat /\ Len(feed) \in Nat /\ (a # <<>> => Len(a) >= 1 /\ m # <<>>)
  BY <1>7, <1>8, FeedFacts
<1> HIDE DEF m
<1>10. a # <<>> =>
         /\ feed' \in Seq(1 .. Len(rows)) /\ feed' # <<>>
         /\ Len(feed') \in 1 .. MaxEvents /\ Len(feed') <= Len(m)
         /\ IsInjective(feed')
         /\ Head(feed') = m[1] /\ Last(feed') = m[Len(feed')]
         /\ m[1] \in 1 .. Len(rows) /\ m[Len(feed')] \in 1 .. Len(rows)
         /\ Len(feed') < MaxEvents => feed' = m
  BY <1>1, <1>8, <1>9, HeldIsFeed
<1>11. a # <<>> => cursor' = [newest |-> rows[Head(feed')], oldest |-> rows[Last(feed')]]
  BY <1>1
<1>12. FeedTypeOK'
  <2>1. CASE a = <<>>
    BY <1>1, <1>3, <2>1 DEF FeedTypeOK
  <2>2. CASE a # <<>>
    BY <1>1, <1>3, <1>10, <1>11, <2>2, FeedFacts DEF FeedTypeOK
  <2> QED
    BY <2>1, <2>2
<1>13. UnseenInv'
  <2>1. \A i \in upTo' + 1 .. Len(rows') : FALSE
    BY <1>1, <1>3
  <2> QED
    BY <2>1 DEF UnseenInv
<1>14. cursor' \in [newest : Nat, oldest : Nat]
  <2>1. CASE a = <<>>
    BY <1>1, <2>1 DEF FeedInv
  <2>2. CASE a # <<>>
    BY <1>10, <1>11, <2>2, FeedFacts
  <2> QED
    BY <2>1, <2>2
<1>15. FeedSkipsNothing'
  <2> SUFFICES ASSUME ~cut', feed' # <<>>, Len(feed') < MaxEvents,
                      NEW i \in 1 .. Len(rows), rows[i] > cursor'.oldest
               PROVE  i \in Range(feed')
    BY <1>1 DEF FeedSkipsNothing
  <2>1. ~cut /\ (feed # <<>> => P = W)
    <3>1. ~cut /\ (feed # <<>> => ~(Cardinality(W) > FetchLimit))
      BY <1>1, Zenon
    <3>2. ~(Cardinality(W) > FetchLimit) => Cardinality(W) <= FetchLimit
      BY <1>3, <1>6
    <3> QED
      BY <1>4, <3>1, <3>2
  <2>2. \A x \in P \cup Range(feed) : x \in Range(feed')
    <3>1. CASE a = <<>>
      <4>1. feed' = feed /\ Len(a) = 0
        BY <1>1, <3>1
      <4> QED
        BY <1>7, <4>1, FeedFacts
    <3>2. CASE a # <<>>
      <4>1. feed' = m /\ Range(m) = {m[k] : k \in 1 .. Len(m)}
        <5>1. DOMAIN m = 1 .. Len(m)
          BY <1>8
        <5> QED
          BY <1>10, <3>2, <5>1 DEF Range
      <4>2. \A k \in 1 .. Len(a) : k \in 1 .. Len(m) /\ m[k] = a[k]
        BY <1>8, <1>9
      <4>3. \A k \in 1 .. Len(feed) : Len(a) + k \in 1 .. Len(m) /\ m[Len(a) + k] = feed[k]
        BY <1>8, <1>9
      <4>4. \A x \in P \cup Range(feed) : \/ \E n \in 1 .. Len(feed) : feed[n] = x
                                          \/ \E k \in 1 .. Len(a) : a[k] = x
        <5>1. \A x \in Range(feed) : \E n \in 1 .. Len(feed) : feed[n] = x
          BY FeedFacts
        <5> QED
          BY <1>7, <5>1
      <4>5. \A x \in P \cup Range(feed) : \E k \in 1 .. Len(m) : m[k] = x
        BY <4>2, <4>3, <4>4
      <4> QED
        BY <4>1, <4>5
    <3> QED
      BY <3>1, <3>2
  <2>3. CASE feed = <<>>
    <3>1. a # <<>> /\ feed' = m
      BY <1>1, <1>10, <2>3
    <3>2. Len(m) = Len(a) /\ m[Len(m)] = a[Len(a)] /\ Len(a) \in 1 .. Len(a)
      BY <1>8, <1>9, <2>3, <3>1
    <3>3. Last(feed') \in P
      BY <1>7, <1>10, <3>1, <3>2
    <3>4. rows[i] > rows[Last(feed')]
      BY <1>11, <3>1
    <3> QED
      BY <1>4, <1>5, <2>2, <2>3, <3>3, <3>4
  <2>4. CASE feed # <<>>
    <3>1. /\ Len(feed) < MaxEvents /\ cursor'.oldest = cursor.oldest
      <4>1. CASE a = <<>>
        BY <1>1, <4>1
      <4>2. CASE a # <<>>
        <5>1. feed' = m /\ Last(feed') = m[Len(a) + Len(feed)] /\ Len(m) = Len(a) + Len(feed)
          BY <1>8, <1>10, <4>2
        <5>2. Len(feed) \in 1 .. Len(feed) /\ Last(feed) = feed[Len(feed)]
          BY <2>4, FeedFacts
        <5>3. Last(feed') = Last(feed)
          BY <1>8, <5>1, <5>2
        <5>4. cursor.oldest = rows[Last(feed)]
          BY <1>3, <2>4 DEF FeedTypeOK
        <5>5. Len(feed) < MaxEvents
          BY <1>3, <1>9, <5>1
        <5> QED
          BY <1>11, <4>2, <5>3, <5>4, <5>5
      <4> QED
        BY <4>1, <4>2
    <3>2. i \in W \/ i \in Range(feed)
      BY <2>1, <2>4, <3>1, UnknownIsInHeadWindow DEF W
    <3> QED
      BY <2>1, <2>2, <2>4, <3>2
  <2> QED
    BY <2>3, <2>4
<1>16. upTo' \in 0 .. Len(rows') /\ cut' \in BOOLEAN /\ instant' \in 0 .. MaxClock
  BY <1>1, <1>3 DEF FeedInv
<1>17. \A i \in 1 .. Len(rows') : rows'[i] <= instant'
  BY <1>1 DEF FeedInv
<1> QED
  BY <1>12, <1>13, <1>14, <1>15, <1>16, <1>17 DEF FeedInv

LEMMA FetchOlderKeeps == FeedInv /\ FetchOlder => FeedInv'
<1> SUFFICES ASSUME FeedInv, FetchOlder PROVE FeedInv'
  OBVIOUS
<1> DEFINE W == TailWindow
           P == Page(W)
           a == FreshRows(P)
           m == feed \o a
<1>1. /\ upTo' = upTo /\ instant' = instant /\ rows' = rows /\ cut' = cut
      /\ feed # <<>> /\ feed' = Held(m)
      /\ cursor' = [cursor EXCEPT !.oldest = rows[Last(Held(m))]]
  BY DEF FetchOlder
<1>2. W \in SUBSET (1 .. Len(rows))
  BY DEF TailWindow
<1>3. /\ FetchLimit \in Nat \ {0} /\ MaxClock \in Nat /\ MaxEvents \in Nat \ {0}
      /\ FeedTypeOK /\ Len(rows) \in Nat
      /\ Overlap \in Nat /\ Overlap > 0
  BY FeedAssumption, FeedFacts DEF FeedInv
<1>4. /\ P \in SUBSET W
      /\ \A p \in P, i \in W : rows[i] > rows[p] => i \in P
  <2> HIDE DEF W
  <2> QED
    BY <1>2, <1>3, FeedFacts, PageFacts
<1>5. \A i \in 1 .. Len(rows) : rows[i] <= cursor.oldest => i \in W
  <2> TAKE i \in 1 .. Len(rows)
  <2>1. rows[i] \in Nat /\ cursor.oldest \in Nat
    BY FeedFacts DEF FeedInv
  <2> QED
    BY <1>3, <2>1 DEF TailWindow
<1> HIDE DEF W, P
<1>6. /\ a \in Seq(1 .. Len(rows))
      /\ \A k \in 1 .. Len(a) : a[k] \in P
      /\ \A k \in 1 .. Len(a), n \in 1 .. Len(feed) : a[k] # feed[n]
      /\ \A k, n \in 1 .. Len(a) : a[k] = a[n] => k = n
      /\ \A i \in P : \/ \E n \in 1 .. Len(feed) : feed[n] = i
                      \/ \E k \in 1 .. Len(a) : a[k] = i
  <2>1. P \in SUBSET (1 .. Len(rows))
    BY <1>2, <1>4
  <2> QED
    BY <1>3, <2>1, FreshFacts
<1> HIDE DEF a
<1>7. /\ m \in Seq(1 .. Len(rows)) /\ Len(m) = Len(feed) + Len(a)
      /\ \A k, n \in 1 .. Len(m) : m[k] = m[n] => k = n
      /\ \A k \in 1 .. Len(feed) : m[k] = feed[k]
      /\ \A k \in 1 .. Len(a) : m[Len(feed) + k] = a[k]
  <2>1. PICK S : S = 1 .. Len(rows)
    OBVIOUS
  <2>2. a \in Seq(S) /\ feed \in Seq(S)
    BY <1>6, <2>1, FeedFacts
  <2>3. Distinct(a) /\ Distinct(feed) /\ Apart(feed, a)
    BY <1>6, FeedFacts DEF Distinct, Apart
  <2>4. /\ m \in Seq(S) /\ Len(m) = Len(feed) + Len(a)
        /\ Distinct(m)
        /\ \A k \in 1 .. Len(feed) : m[k] = feed[k]
        /\ \A k \in 1 .. Len(a) : m[Len(feed) + k] = a[k]
    BY <2>2, <2>3, JoinedFacts
  <2> HIDE DEF m
  <2> QED
    BY <2>1, <2>4 DEF Distinct
<1>8. Len(a) \in Nat /\ Len(feed) \in Nat /\ Len(feed) >= 1 /\ m # <<>>
  BY <1>1, <1>6, <1>7, FeedFacts
<1> HIDE DEF m
<1>9. /\ feed' \in Seq(1 .. Len(rows)) /\ feed' # <<>>
      /\ Len(feed') \in 1 .. MaxEvents /\ Len(feed') <= Len(m)
      /\ IsInjective(feed')
      /\ Head(feed') = m[1] /\ Last(feed') = m[Len(feed')]
      /\ m[1] \in 1 .. Len(rows) /\ m[Len(feed')] \in 1 .. Len(rows)
      /\ Len(feed') < MaxEvents => feed' = m
  BY <1>1, <1>7, <1>8, HeldIsFeed
<1>10. cursor' = [newest |-> rows[Head(feed')], oldest |-> rows[Last(feed')]]
       /\ cursor.newest = cursor'.newest
  <2>1. cursor = [newest |-> rows[Head(feed)], oldest |-> rows[Last(feed)]]
    BY <1>1, <1>3 DEF FeedTypeOK
  <2>2. Head(feed') = Head(feed)
    <3>1. Head(feed) = feed[1] /\ 1 \in 1 .. Len(feed)
      BY <1>1, <1>8, FeedFacts
    <3> QED
      BY <1>7, <1>9, <3>1
  <2>3. cursor' = [cursor EXCEPT !.oldest = rows[Last(feed')]]
    BY <1>1
  <2> QED
    BY <2>1, <2>2, <2>3
<1>11. FeedTypeOK'
  <2>1. rows \in Seq(0 .. MaxClock) /\ Len(feed') <= MaxEvents
    BY <1>3, <1>9, FeedFacts
  <2> QED
    BY <1>1, <1>9, <1>10, <2>1 DEF FeedTypeOK
<1>12. UnseenInv'
  BY <1>1, <1>10 DEF FeedInv, UnseenInv
<1>13. cursor' \in [newest : Nat, oldest : Nat]
  BY <1>9, <1>10, FeedFacts
<1>14. FeedSkipsNothing'
  <2> SUFFICES ASSUME ~cut, Len(feed') < MaxEvents,
                      NEW i \in 1 .. upTo, rows[i] > cursor'.oldest
               PROVE  i \in Range(feed')
    BY <1>1 DEF FeedSkipsNothing
  <2>1. /\ feed' = m /\ Len(feed) < MaxEvents
        /\ i \in 1 .. Len(rows) /\ rows[i] \in Nat /\ cursor.oldest \in Nat
    <3>1. feed' = m
      BY <1>9
    <3>2. Len(feed) < MaxEvents
      BY <1>3, <1>7, <1>8, <3>1
    <3>3. upTo \in 0 .. Len(rows) /\ cursor.oldest \in Nat
      BY DEF FeedInv
    <3>4. i \in 1 .. Len(rows)
      BY <1>3, <3>3
    <3> QED
      BY <3>1, <3>2, <3>3, <3>4, FeedFacts
  <2>2. Range(m) = {m[k] : k \in 1 .. Len(m)}
    <3>1. DOMAIN m = 1 .. Len(m)
      BY <1>7
    <3> QED
      BY <3>1 DEF Range
  <2>3. \A x \in P \cup Range(feed) : x \in Range(feed')
    <3>1. \A k \in 1 .. Len(feed) : k \in 1 .. Len(m) /\ m[k] = feed[k]
      BY <1>7, <1>8
    <3>2. \A k \in 1 .. Len(a) : Len(feed) + k \in 1 .. Len(m) /\ m[Len(feed) + k] = a[k]
      BY <1>7, <1>8
    <3>3. \A x \in P \cup Range(feed) : \/ \E n \in 1 .. Len(feed) : feed[n] = x
                                        \/ \E k \in 1 .. Len(a) : a[k] = x
      <4>1. \A x \in Range(feed) : \E n \in 1 .. Len(feed) : feed[n] = x
        BY FeedFacts
      <4> QED
        BY <1>6, <4>1
    <3>4. \A x \in P \cup Range(feed) : \E k \in 1 .. Len(m) : m[k] = x
      BY <3>1, <3>2, <3>3
    <3> QED
      BY <2>1, <2>2, <3>4
  <2>4. CASE rows[i] > cursor.oldest
    <3>1. i \in Range(feed)
      BY <1>1, <2>1, <2>4 DEF FeedInv, FeedSkipsNothing
    <3> QED
      BY <2>3, <3>1
  <2>5. CASE ~(rows[i] > cursor.oldest)
    <3>1. i \in W
      BY <1>5, <2>1, <2>5
    <3>2. Len(a) >= 1
      <4> SUFFICES ASSUME Len(a) = 0 PROVE FALSE
        BY <1>8
      <4>1. Last(feed') = Last(feed)
        <5>1. Last(feed) = feed[Len(feed)] /\ Len(feed) \in 1 .. Len(feed)
          BY <1>1, <1>8, FeedFacts
        <5>2. Len(feed') = Len(feed)
          BY <1>7, <1>8, <2>1
        <5> QED
          BY <1>7, <1>9, <5>1, <5>2
      <4>2. cursor.oldest = rows[Last(feed)]
        BY <1>1, <1>3 DEF FeedTypeOK
      <4> QED
        BY <1>10, <2>5, <4>1, <4>2
    <3>3. Last(feed') \in P
      <4>1. Last(feed') = m[Len(feed) + Len(a)] /\ Len(a) \in 1 .. Len(a)
        <5>1. Len(feed') = Len(feed) + Len(a)
          BY <1>7, <2>1
        <5>2. Len(a) \in 1 .. Len(a)
          BY <1>8, <3>2
        <5> QED
          BY <1>9, <5>1, <5>2
      <4>2. m[Len(feed) + Len(a)] = a[Len(a)] /\ a[Len(a)] \in P
        BY <1>6, <1>7, <4>1
      <4> QED
        BY <4>1, <4>2
    <3>4. rows[i] > rows[Last(feed')]
      BY <1>10
    <3> QED
      BY <1>4, <2>3, <3>1, <3>3, <3>4
  <2> QED
    BY <2>4, <2>5
<1>15. upTo' \in 0 .. Len(rows') /\ cut' \in BOOLEAN /\ instant' \in 0 .. MaxClock
  BY <1>1 DEF FeedInv
<1>16. \A i \in 1 .. Len(rows') : rows'[i] <= instant'
  BY <1>1 DEF FeedInv
<1> QED
  BY <1>11, <1>12, <1>13, <1>14, <1>15, <1>16 DEF FeedInv

\* Every state of the feed, however late rows are written, has the invariant.
THEOREM FeedInvariant == FeedSpec => []FeedInv
<1>1. FeedInv /\ [FeedNext]_feedVars => FeedInv'
  <2> SUFFICES ASSUME FeedInv, [FeedNext]_feedVars PROVE FeedInv'
    OBVIOUS
  <2>1. CASE UNCHANGED feedVars
    BY <2>1 DEF feedVars, FeedInv, UnseenInv, FeedTypeOK, FeedSkipsNothing
  <2> QED
    BY <2>1, TickClockKeeps, WriteRowKeeps, FetchHeadKeeps, FetchOlderKeeps, ResetKeeps
    DEF FeedNext
<1> QED
  BY <1>1, FeedInitInv, PTL DEF FeedSpec

--------------------------------------------------------------------------------
(* The approvals screen.                                                       *)

Apps == [at : {"loop", "probe", "list", "detail", "act"},
         screen : {"approvals", "other"}, input : BOOLEAN,
         overlay : {"none", "revoke", "retype", "stop"}]
Views == [filter : {"all", "pending", "settled"}, list : Seq(Listed), sel : Nat \ {0},
          detail : OrNobody, dialog : Dialogs,
          sending : [dialog : Dialogs, shown : OrNobody, alone : BOOLEAN]]
KeyPresses == [key : Keystrokes, saw : OrNobody, alone : BOOLEAN]

\* What a dialog may teach the gate.
Teaches(d) == d.kind = "approve" => d.learns = IF d.id \in Unresolved THEN d.id ELSE Nobody

\* The selection is a row of the list, and a loaded detail is the selected approval's.
ListOK(v) ==
    /\ v.list # <<>> => v.sel \in 1 .. Len(v.list)
    /\ v.detail # Nobody => v.detail = SelectedId(v)

SentOK(v) ==
    /\ Teaches(v.dialog) /\ Teaches(v.sending.dialog)
    /\ v.sending.alone => v.sending.shown = v.sending.dialog.id \/ v.sending.dialog.gone

InputOK(a, v) ==
    /\ a.input <=> (v.dialog # NoDialog \/ a.overlay # "none")
    /\ v.dialog # NoDialog => a.screen = "approvals" /\ a.overlay = "none"

\* Behind an open dialog its approval is highlighted, unless it has left the list.
BehindOK(v) == v.dialog # NoDialog => SelectedId(v) = v.dialog.id \/ v.dialog.gone

ScreenOK(a, v) ==
    a \in Apps /\ v \in Views /\ ListOK(v) /\ SentOK(v) /\ BehindOK(v) /\ InputOK(a, v)

\* An answer typed with nothing before it was typed in view of the open dialog.
KeyOK(k, v) ==
    k.alone /\ k.key \in {"y", "enter"} /\ v.dialog # NoDialog =>
        k.saw = v.dialog.id \/ v.dialog.gone

ConsoleInv ==
    /\ ScreenOK(app, view)
    /\ asked \in Seq(Listed)
    /\ drawn \in OrNobody
    /\ view.dialog # NoDialog => drawn = view.dialog.id \/ view.dialog.gone
    /\ typed \in Seq(KeyPresses) /\ Len(typed) <= MaxTyped
    /\ \A i \in 1 .. Len(typed) : typed[i].alone => i = 1
    /\ typed # <<>> => KeyOK(typed[1], view)

LEMMA ConsoleInvGivesSafe == ConsoleInv => ConsoleSafe
<1> SUFFICES ASSUME ConsoleInv PROVE ConsoleSafe
  OBVIOUS
<1>1. app \in Apps /\ view \in Views /\ ListOK(view) /\ SentOK(view) /\ InputOK(app, view)
  BY DEF ConsoleInv, ScreenOK
<1>2. ConsoleTypeOK
  BY <1>1 DEF ConsoleInv, ConsoleTypeOK, Apps, Views, ListOK
<1>3. InputIsHeld
  BY <1>1 DEF InputIsHeld, InputOK
<1>4. LearnsWhatItApproves /\ AnswersTheHighlighted
  BY <1>1 DEF LearnsWhatItApproves, AnswersTheHighlighted, SentOK, Teaches
<1> QED
  BY <1>2, <1>3, <1>4 DEF ConsoleSafe

LEMMA NobodyIsTyped == Nobody \in OrNobody /\ NoDialog \in Dialogs /\ NoDialog.kind = "none"
  BY DEF OrNobody, NoDialog, Dialogs

LEMMA SelectedIsTyped == \A v \in Views : SelectedId(v) \in OrNobody
<1> SUFFICES ASSUME NEW v \in Views PROVE SelectedId(v) \in OrNobody
  OBVIOUS
<1>1. v.list \in Seq(Listed)
  BY DEF Views
<1>2. v.sel \in 1 .. Len(v.list) => v.list[v.sel] \in Listed
  BY <1>1, ElementOfSeq
<1> QED
  BY <1>2 DEF SelectedId, OrNobody, Listed

LEMMA ConsoleInitInv == ConsoleInit => ConsoleInv
<1> SUFFICES ASSUME ConsoleInit PROVE ConsoleInv
  OBVIOUS
<1>1. app \in Apps
  BY DEF ConsoleInit, Apps
<1>2. view \in Views
  <2>1. <<>> \in Seq(Listed)
    OBVIOUS
  <2> QED
    BY <2>1, NobodyIsTyped DEF ConsoleInit, Views, Unsent
<1>3. ListOK(view)
  BY DEF ConsoleInit, ListOK
<1>4. SentOK(view) /\ InputOK(app, view) /\ BehindOK(view)
  BY NobodyIsTyped DEF ConsoleInit, SentOK, InputOK, Teaches, Unsent, BehindOK
<1>5. drawn \in OrNobody
  BY NobodyIsTyped DEF ConsoleInit
<1>6. asked \in Seq(Listed) /\ typed \in Seq(KeyPresses) /\ Len(typed) = 0 /\ typed = <<>>
  BY DEF ConsoleInit
<1>7. view.dialog = NoDialog
  BY DEF ConsoleInit
<1> QED
  BY <1>1, <1>2, <1>3, <1>4, <1>5, <1>6, <1>7, ConsoleAssumption DEF ConsoleInv, ScreenOK

\* The gate settles an approval in its place.
LEMMA SettleIsTyped ==
    ASSUME asked \in Seq(Listed), NEW id
    PROVE  Settle(id) \in Seq(Listed)
<1>1. \A i \in 1 .. Len(asked) : asked[i] \in Listed
  BY ElementOfSeq
<1>2. \A i \in 1 .. Len(asked) : [asked[i] EXCEPT !.status = "settled"] \in Listed
  BY <1>1 DEF Listed
<1>3. Settle(id) \in [1 .. Len(asked) -> Listed] /\ Len(asked) \in Nat
  BY <1>1, <1>2 DEF Settle
<1> QED
  BY <1>3

\* What concerns the gate alone changes nothing on the screen.
LEMMA GateStepKeeps ==
    ASSUME ConsoleInv, asked' \in Seq(Listed), UNCHANGED <<app, view, drawn, typed>>
    PROVE  ConsoleInv'
  BY DEF ConsoleInv

LEMMA AskedKeeps ==
    ASSUME ConsoleInv, NEW id \in ApprovalIds, Asked(id)
    PROVE  ConsoleInv'
<1>1. [id |-> id, status |-> "pending"] \in Listed /\ asked \in Seq(Listed)
  BY DEF Listed, ConsoleInv
<1>2. asked' \in Seq(Listed)
  BY <1>1 DEF Asked
<1> QED
  BY <1>2, GateStepKeeps DEF Asked

LEMMA SettledElsewhereKeeps ==
    ASSUME ConsoleInv, NEW id \in ApprovalIds, SettledElsewhere(id)
    PROVE  ConsoleInv'
<1>1. asked' \in Seq(Listed)
  BY SettleIsTyped DEF ConsoleInv, SettledElsewhere
<1> QED
  BY <1>1, GateStepKeeps DEF SettledElsewhere

LEMMA PressKeeps ==
    ASSUME ConsoleInv, NEW key \in Keystrokes, Press(key)
    PROVE  ConsoleInv'
<1> DEFINE k == [key |-> key, saw |-> Noticed(key), alone |-> (typed = <<>>)]
<1>1. /\ typed' = Append(typed, k) /\ Len(typed) < MaxTyped
      /\ UNCHANGED <<asked, app, view, drawn>>
  BY DEF Press
<1>2. Noticed(key) \in OrNobody
  BY NobodyIsTyped DEF ConsoleInv, Noticed
<1>3. k \in KeyPresses
  <2>1. (typed = <<>>) \in BOOLEAN
    OBVIOUS
  <2> QED
    BY <1>2, <2>1 DEF KeyPresses
<1>4. KeyOK(k, view)
  BY DEF KeyOK, Noticed, ConsoleInv
<1>5. k.alone <=> typed = <<>>
  OBVIOUS
<1> HIDE DEF k
<1>6. typed \in Seq(KeyPresses) /\ Len(typed) \in Nat
  BY DEF ConsoleInv
<1>7. /\ typed' \in Seq(KeyPresses) /\ Len(typed') = Len(typed) + 1 /\ Len(typed') <= MaxTyped
      /\ \A i \in 1 .. Len(typed) : typed'[i] = typed[i]
      /\ typed'[Len(typed) + 1] = k
  BY <1>1, <1>3, <1>6, ConsoleAssumption
<1>8. \A i \in 1 .. Len(typed') : typed'[i].alone => i = 1
  <2> TAKE i \in 1 .. Len(typed')
  <2>1. CASE i = Len(typed) + 1
    <3>1. typed = <<>> => Len(typed) = 0
      OBVIOUS
    <3> QED
      BY <1>5, <1>7, <2>1, <3>1
  <2>2. CASE i # Len(typed) + 1
    <3>1. i \in 1 .. Len(typed)
      BY <1>6, <1>7, <2>2
    <3> QED
      BY <1>7, <3>1 DEF ConsoleInv
  <2> QED
    BY <2>1, <2>2
<1>9. KeyOK(typed'[1], view)
  <2>1. CASE typed = <<>>
    BY <1>4, <1>7, <2>1
  <2>2. CASE typed # <<>>
    <3>1. 1 \in 1 .. Len(typed)
      BY <1>6, <2>2
    <3> QED
      BY <1>7, <2>2, <3>1 DEF ConsoleInv
  <2> QED
    BY <2>1, <2>2
<1> QED
  BY <1>1, <1>7, <1>8, <1>9 DEF ConsoleInv

\* A screen with the same dialog and the same decision under way.
SameDialogs(v, w) ==
    /\ w.sending = v.sending
    /\ w.dialog = NoDialog <=> v.dialog = NoDialog
    /\ w.dialog.kind = v.dialog.kind /\ w.dialog.id = v.dialog.id
    /\ w.dialog.learns = v.dialog.learns /\ (v.dialog.gone => w.dialog.gone)

LEMMA MovedScreen ==
    ASSUME NEW a, NEW v, ScreenOK(a, v), NEW w \in Views, ListOK(w), BehindOK(w),
           SameDialogs(v, w),
           NEW x \in {"loop", "probe", "list", "detail", "act"}
    PROVE  ScreenOK([a EXCEPT !.at = x], w)
<1>1. a \in Apps /\ SentOK(v) /\ InputOK(a, v)
  BY DEF ScreenOK
<1> DEFINE b == [a EXCEPT !.at = x]
<1>2. b \in Apps /\ b.input = a.input /\ b.overlay = a.overlay /\ b.screen = a.screen
  BY <1>1 DEF Apps
<1> HIDE DEF b
<1>3. SentOK(w) /\ InputOK(b, w)
  BY <1>1, <1>2 DEF SentOK, Teaches, InputOK, SameDialogs
<1> QED
  BY <1>2, <1>3 DEF ScreenOK, b

LEMMA FrameFacts ==
    ASSUME NEW v \in Views
    PROVE  /\ Frame(v) \in OrNobody
           /\ BehindOK(v) /\ v.dialog # NoDialog => Frame(v) = v.dialog.id \/ v.dialog.gone
  BY SelectedIsTyped DEF Frame, BehindOK

\* A poll that leaves the dialogs alone.
LEMMA PollKeeps ==
    ASSUME ConsoleInv, view' \in Views, ListOK(view'), BehindOK(view'), SameDialogs(view, view'),
           NEW x \in {"loop", "probe", "list", "detail", "act"}, app' = [app EXCEPT !.at = x],
           drawn' \in {drawn, Frame(view), Frame(view')}, UNCHANGED <<asked, typed>>
    PROVE  ConsoleInv'
<1>1. ScreenOK(app', view')
  BY MovedScreen DEF ConsoleInv
<1>2. view \in Views /\ BehindOK(view)
  BY DEF ConsoleInv, ScreenOK
<1>3. /\ drawn' \in OrNobody
      /\ view'.dialog # NoDialog => drawn' = view'.dialog.id \/ view'.dialog.gone
  BY <1>2, FrameFacts DEF ConsoleInv, SameDialogs
<1>4. typed # <<>> => KeyOK(typed[1], view')
  BY DEF ConsoleInv, KeyOK, SameDialogs
<1> QED
  BY <1>1, <1>3, <1>4 DEF ConsoleInv

\* After a poll the selection is on the approval it was on, or on one whose detail is
\* still to be loaded.
LEMMA AnchoredFacts ==
    ASSUME NEW v \in Views, ListOK(v), NEW list \in Seq(Listed)
    PROVE  /\ Anchored(v, list) \in Views /\ ListOK(Anchored(v, list))
           /\ Anchored(v, list).dialog = v.dialog /\ Anchored(v, list).sending = v.sending
           /\ SelectedId(v) \in Ids(list) => SelectedId(Anchored(v, list)) = SelectedId(v)
<1> DEFINE prev == SelectedId(v)
           clamped == IF v.sel > Len(list) THEN Len(list) ELSE v.sel
           w == Anchored(v, list)
<1>1. v.sel \in Nat \ {0} /\ Len(list) \in Nat /\ (list # <<>> => Len(list) >= 1)
  BY DEF Views
<1>2. CASE list = <<>>
  <2>1. w = [v EXCEPT !.list = list, !.sel = 1, !.detail = Nobody]
    BY <1>2 DEF Anchored
  <2> HIDE DEF w
  <2>2. /\ w \in Views /\ w.list = list /\ w.detail = Nobody
        /\ w.dialog = v.dialog /\ w.sending = v.sending
    <3>1. 1 \in Nat \ {0}
      OBVIOUS
    <3>2. \A x \in Nat \ {0}, y \in OrNobody :
             [v EXCEPT !.list = list, !.sel = x, !.detail = y] \in Views
      BY DEF Views
    <3>3. w \in Views
      BY <2>1, <3>1, <3>2, NobodyIsTyped
    <3> QED
      BY <2>1, <3>3 DEF Views
  <2> QED
    <3>1. Ids(list) = {}
      BY <1>2 DEF Ids
    <3> QED
      BY <1>2, <2>2, <3>1 DEF ListOK, w
<1>3. CASE list # <<>> /\ prev \in Ids(list)
  <2>1. w = [v EXCEPT !.list = list, !.sel = Position(list, prev)]
    BY <1>3 DEF Anchored
  <2>2. Position(list, prev) \in 1 .. Len(list) /\ list[Position(list, prev)].id = prev
    BY <1>3 DEF Ids, Position
  <2> HIDE DEF w, prev
  <2>3. Position(list, prev) \in Nat \ {0}
    BY <1>1, <2>2
  <2>4. /\ w \in Views /\ w.list = list /\ w.sel = Position(list, prev)
        /\ w.detail = v.detail /\ w.dialog = v.dialog /\ w.sending = v.sending
    BY <2>1, <2>3 DEF Views
  <2>5. SelectedId(w) = prev
    BY <2>2, <2>4 DEF SelectedId
  <2> QED
    BY <2>2, <2>4, <2>5 DEF ListOK, w, prev
<1>4. CASE list # <<>> /\ prev \notin Ids(list)
  <2>1. /\ prev = Nobody => w = [v EXCEPT !.list = list, !.sel = clamped]
        /\ prev # Nobody => w = [v EXCEPT !.list = list, !.sel = clamped, !.detail = Nobody]
    BY <1>4 DEF Anchored
  <2>2. clamped \in 1 .. Len(list) /\ clamped \in Nat \ {0}
    BY <1>1, <1>4
  <2>3. prev = Nobody => v.detail = Nobody
    BY DEF ListOK
  <2> HIDE DEF w, prev, clamped
  <2>4. /\ w \in Views /\ w.list = list /\ w.sel = clamped
        /\ w.detail = Nobody /\ w.dialog = v.dialog /\ w.sending = v.sending
    BY <2>1, <2>2, <2>3, NobodyIsTyped DEF Views
  <2> QED
    BY <1>4, <2>2, <2>4 DEF ListOK, w, prev
<1> QED
  BY <1>2, <1>3, <1>4

LEMMA PolledFacts ==
    ASSUME NEW v \in Views, ListOK(v), BehindOK(v), NEW list \in Seq(Listed)
    PROVE  /\ Polled(v, list) \in Views /\ ListOK(Polled(v, list))
           /\ BehindOK(Polled(v, list)) /\ SameDialogs(v, Polled(v, list))
<1> DEFINE u == Anchored(v, list)
           left == v.dialog.gone \/ (v.dialog # NoDialog /\ v.dialog.id \notin Ids(list))
           w == Polled(v, list)
<1>1. /\ u \in Views /\ ListOK(u) /\ u.dialog = v.dialog /\ u.sending = v.sending
      /\ SelectedId(v) \in Ids(list) => SelectedId(u) = SelectedId(v)
  BY AnchoredFacts
<1>2. left \in BOOLEAN /\ v.dialog \in Dialogs
  BY DEF Views, Dialogs
<1>3. w = [u EXCEPT !.dialog = [v.dialog EXCEPT !.gone = left]]
  <2>1. u = [u EXCEPT !.dialog = v.dialog]
    BY <1>1 DEF Views
  <2> QED
    BY <1>1, <2>1 DEF Polled, Views
<1> HIDE DEF u, w
<1>4. [v.dialog EXCEPT !.gone = left] \in Dialogs
  BY <1>2 DEF Dialogs
<1>5. /\ w \in Views /\ w.list = u.list /\ w.sel = u.sel /\ w.detail = u.detail
      /\ w.sending = v.sending /\ w.dialog = [v.dialog EXCEPT !.gone = left]
  BY <1>1, <1>3, <1>4 DEF Views
<1>6. SelectedId(w) = SelectedId(u)
  BY <1>5 DEF SelectedId
<1>7. /\ w.dialog.kind = v.dialog.kind /\ w.dialog.id = v.dialog.id
      /\ w.dialog.learns = v.dialog.learns /\ w.dialog.gone = left
  BY <1>2, <1>5 DEF Dialogs
<1>8. w.dialog = NoDialog <=> v.dialog = NoDialog
  <2>1. NoDialog.gone = FALSE
    BY DEF NoDialog
  <2>2. v.dialog = NoDialog => left = v.dialog.gone
    BY <1>2, <2>1
  <2>3. w.dialog = NoDialog => left = FALSE
    BY <1>7, <2>1
  <2>4. w.dialog = NoDialog => left = v.dialog.gone
    BY <1>2, <2>3 DEF Dialogs
  <2>5. [v.dialog EXCEPT !.gone = v.dialog.gone] = v.dialog
    BY <1>2 DEF Dialogs
  <2> HIDE DEF left
  <2> QED
    BY <1>5, <2>2, <2>4, <2>5
<1>9. BehindOK(w)
  <2>1. CASE v.dialog # NoDialog /\ ~left
    <3>1. SelectedId(v) = v.dialog.id /\ v.dialog.id \in Ids(list)
      BY <2>1 DEF BehindOK
    <3> QED
      BY <1>1, <1>6, <1>7, <3>1 DEF BehindOK
  <2> QED
    BY <1>7, <1>8, <2>1 DEF BehindOK
<1>10. ListOK(w)
  BY <1>1, <1>5, <1>6 DEF ListOK
<1> QED
  BY <1>5, <1>7, <1>8, <1>9, <1>10 DEF SameDialogs, w

\* What the gate lists, and the console sorts, are approvals.
LEMMA ShownIsTyped ==
    ASSUME asked \in Seq(Listed), NEW filter
    PROVE  Sorted(filter, Shown(filter)) \in Seq(Listed)
<1>1. Shown(filter) \in Seq(Listed)
  <2> DEFINE K == {i \in 1 .. Len(asked) : filter \in {"all", asked[i].status}}
             kept == Picked(asked, K)
             n == IF Len(kept) < PageSize THEN Len(kept) ELSE PageSize
  <2>1. kept \in Seq(Listed)
    <3>1. K \in SUBSET (1 .. Len(asked))
      OBVIOUS
    <3> HIDE DEF K
    <3> QED
      BY <3>1, PickedIsList
  <2>2. Shown(filter) = SubSeq(kept, 1, n)
    BY DEF Shown
  <2> HIDE DEF kept
  <2>3. Len(kept) \in Nat /\ n \in 0 .. Len(kept)
    BY <2>1, ConsoleAssumption
  <2> HIDE DEF n
  <2> QED
    BY <2>1, <2>2, <2>3
<1> DEFINE list == Shown(filter)
           pending == {i \in 1 .. Len(list) : list[i].status = "pending"}
           rest == (1 .. Len(list)) \ pending
<1>2. pending \in SUBSET (1 .. Len(list)) /\ rest \in SUBSET (1 .. Len(list))
  OBVIOUS
<1>3. Sorted(filter, list) \in {list, Picked(list, pending) \o Picked(list, rest)}
  BY DEF Sorted
<1> HIDE DEF pending, rest, list
<1>4. list \in Seq(Listed)
  BY <1>1 DEF list
<1>5. Picked(list, pending) \in Seq(Listed) /\ Picked(list, rest) \in Seq(Listed)
  BY <1>2, <1>4, PickedIsList
<1>6. Picked(list, pending) \o Picked(list, rest) \in Seq(Listed)
  BY <1>5
<1> QED
  BY <1>3, <1>4, <1>6 DEF list

LEMMA TicksKeep ==
    ASSUME ConsoleInv, TickDue \/ TickHealth \/ TickList \/ TickDetail
    PROVE  ConsoleInv'
<1>1. /\ view \in Views /\ ListOK(view) /\ BehindOK(view) /\ SameDialogs(view, view)
      /\ app \in Apps
  BY DEF ConsoleInv, ScreenOK, SameDialogs
<1>2. ASSUME NEW v \in Views, ListOK(v), BehindOK(v), SameDialogs(view, v),
             BackToLoop(v, app), UNCHANGED <<asked, typed>>
      PROVE  ConsoleInv'
  BY <1>2, PollKeeps DEF BackToLoop
<1>3. CASE TickDue
  BY <1>1, <1>3, PollKeeps DEF TickDue
<1>4. CASE TickHealth
  <2>1. CASE BackToLoop(view, app)
    BY <1>1, <1>2, <1>4, <2>1 DEF TickHealth
  <2>2. CASE ~BackToLoop(view, app)
    <3> DEFINE x == IF app.screen = "approvals" THEN "list" ELSE "loop"
    <3>1. /\ app' = [app EXCEPT !.at = x] /\ view' = view /\ drawn' = Frame(view)
          /\ UNCHANGED <<asked, typed>> /\ x \in {"loop", "probe", "list", "detail", "act"}
      BY <1>4, <2>2 DEF TickHealth
    <3> HIDE DEF x
    <3> QED
      BY <1>1, <3>1, PollKeeps
  <2> QED
    BY <2>1, <2>2
<1>5. CASE TickList
  <2> DEFINE list == Sorted(view.filter, Shown(view.filter))
             v == Polled(view, list)
  <2>1. list \in Seq(Listed)
    BY ShownIsTyped DEF ConsoleInv
  <2> HIDE DEF list
  <2>2. v \in Views /\ ListOK(v) /\ BehindOK(v) /\ SameDialogs(view, v)
    BY <1>1, <2>1, PolledFacts
  <2>3. /\ Polled(view, <<>>) \in Views /\ ListOK(Polled(view, <<>>))
        /\ BehindOK(Polled(view, <<>>)) /\ SameDialogs(view, Polled(view, <<>>))
    <3>1. <<>> \in Seq(Listed)
      OBVIOUS
    <3> QED
      BY <1>1, <3>1, PolledFacts
  <2>4. /\ \/ BackToLoop(v, app)
           \/ view' = v /\ app' = [app EXCEPT !.at = "detail"] /\ drawn' = drawn
           \/ BackToLoop(Polled(view, <<>>), app)
           \/ BackToLoop(view, app)
        /\ UNCHANGED <<asked, typed>>
    BY <1>5 DEF TickList, list
  <2> HIDE DEF v
  <2>5. CASE view' = v /\ app' = [app EXCEPT !.at = "detail"] /\ drawn' = drawn
    BY <2>2, <2>4, <2>5, PollKeeps
  <2> QED
    BY <1>1, <1>2, <2>2, <2>3, <2>4, <2>5
<1>6. CASE TickDetail
  <2> DEFINE v == [view EXCEPT !.detail = SelectedId(view)]
  <2>1. v \in Views /\ SelectedId(v) = SelectedId(view) /\ v.detail = SelectedId(view)
        /\ v.list = view.list /\ v.sel = view.sel /\ v.dialog = view.dialog
        /\ SameDialogs(view, v)
    BY <1>1, SelectedIsTyped DEF Views, SelectedId, SameDialogs
  <2>2. ListOK(v) /\ BehindOK(v)
    BY <1>1, <2>1 DEF ListOK, BehindOK
  <2>3. (BackToLoop(v, app) \/ BackToLoop(view, app)) /\ UNCHANGED <<asked, typed>>
    BY <1>6 DEF TickDetail
  <2> HIDE DEF v
  <2> QED
    BY <1>1, <1>2, <2>1, <2>2, <2>3
<1> QED
  BY <1>3, <1>4, <1>5, <1>6

Consoles == [app : Apps, view : Views]

\* What a key leaves: a console in order, whose open dialog is new only if the loop has
\* not left to wait.
Left(c, r) ==
    /\ r \in Consoles /\ ScreenOK(r.app, r.view)
    /\ r.view.dialog # NoDialog /\ r.app.at # "loop" => r.view.dialog = c.view.dialog

LEMMA LeftAlone == ASSUME NEW c \in Consoles, ScreenOK(c.app, c.view) PROVE Left(c, c)
  BY DEF Left

LEMMA SwitchScreenLeaves ==
    ASSUME NEW c \in Consoles, ScreenOK(c.app, c.view),
           c.view.dialog = NoDialog, c.app.overlay = "none"
    PROVE  Left(c, SwitchScreen(c))
<1> DEFINE r == SwitchScreen(c)
<1>1. c.app \in Apps /\ c.view \in Views
  BY DEF Consoles
<1>2. r.view = c.view /\ r.app \in Apps /\ r.app.input = FALSE /\ r.app.overlay = "none"
      /\ r \in Consoles
  BY <1>1 DEF SwitchScreen, Consoles, Apps
<1> HIDE DEF r
<1>3. InputOK(r.app, r.view)
  BY <1>2 DEF InputOK
<1> QED
  BY <1>2, <1>3 DEF Left, ScreenOK, r

LEMMA OverlayKeyLeaves ==
    ASSUME NEW c \in Consoles, ScreenOK(c.app, c.view), NEW k \in KeyPresses,
           c.app.overlay # "none"
    PROVE  Left(c, OverlayKey(c, k))
<1> DEFINE r == OverlayKey(c, k)
           closed == [c EXCEPT !.app.overlay = "none", !.app.input = FALSE]
<1>1. c.app \in Apps /\ c.view \in Views /\ c.view.dialog = NoDialog /\ c.app.input = TRUE
  BY DEF Consoles, ScreenOK, InputOK, Apps
<1>2. ASSUME NEW q \in Consoles, q.view = c.view, q.app.overlay = "none", q.app.input = FALSE
      PROVE  Left(c, q)
  BY <1>1, <1>2 DEF Left, ScreenOK, InputOK, Consoles
<1>3. closed \in Consoles /\ closed.view = c.view /\ closed.app.overlay = "none"
      /\ closed.app.input = FALSE
  BY <1>1 DEF Consoles, Apps
<1>4. r \in {[c EXCEPT !.app.overlay = "retype"], [closed EXCEPT !.app.at = "probe"], c, closed}
  BY DEF OverlayKey
<1>5. CASE r = [c EXCEPT !.app.overlay = "retype"]
  <2>1. r \in Consoles /\ r.view = c.view /\ r.app.overlay = "retype" /\ r.app.input = TRUE
    BY <1>1, <1>5 DEF Consoles, Apps
  <2> HIDE DEF r
  <2> QED
    BY <1>1, <2>1 DEF Left, ScreenOK, InputOK, Consoles, r
<1>6. CASE r = [closed EXCEPT !.app.at = "probe"]
  <2> HIDE DEF closed
  <2>1. r \in Consoles /\ r.view = c.view /\ r.app.overlay = "none" /\ r.app.input = FALSE
    BY <1>3, <1>6 DEF Consoles, Apps
  <2> HIDE DEF r
  <2> QED
    BY <1>2, <2>1 DEF r
<1>7. CASE r = c
  BY <1>7, LeftAlone
<1>8. CASE r = closed
  BY <1>2, <1>3, <1>8
<1> QED
  BY <1>4, <1>5, <1>6, <1>7, <1>8

LEMMA DialogKeyLeaves ==
    ASSUME NEW c \in Consoles, ScreenOK(c.app, c.view), NEW k \in KeyPresses,
           c.view.dialog # NoDialog, KeyOK(k, c.view)
    PROVE  Left(c, DialogKey(c, k))
<1> DEFINE r == DialogKey(c, k)
           d == c.view.dialog
           sent == [dialog |-> d, shown |-> k.saw, alone |-> k.alone]
<1>1. /\ c.app \in Apps /\ c.view \in Views /\ c.app.overlay = "none"
      /\ ListOK(c.view) /\ SentOK(c.view)
  BY DEF Consoles, ScreenOK, InputOK
<1>2. CASE k.key = (IF d.kind = "deny" THEN "enter" ELSE "y")
  <2>1. r = [c EXCEPT !.view.dialog = NoDialog, !.view.detail = Nobody,
                      !.view.sending = sent, !.app.input = FALSE, !.app.at = "act"]
    BY <1>2 DEF DialogKey
  <2>2. sent \in [dialog : Dialogs, shown : OrNobody, alone : BOOLEAN]
        /\ sent.dialog = d /\ sent.shown = k.saw /\ sent.alone = k.alone
    BY <1>1 DEF Views, KeyPresses
  <2>3. sent.alone => sent.shown = sent.dialog.id \/ sent.dialog.gone
    <3>1. k.key \in {"y", "enter"}
      BY <1>2
    <3> QED
      BY <2>2, <3>1 DEF KeyOK
  <2>4. Teaches(sent.dialog)
    BY <1>1 DEF SentOK
  <2> HIDE DEF sent, r, d
  <2>5. /\ r \in Consoles /\ r.view.dialog = NoDialog /\ r.view.detail = Nobody
        /\ r.view.sending = sent /\ r.view.list = c.view.list /\ r.view.sel = c.view.sel
        /\ r.app.input = FALSE /\ r.app.overlay = "none"
    BY <1>1, <2>1, <2>2, NobodyIsTyped DEF Consoles, Apps, Views
  <2>6. ListOK(r.view) /\ InputOK(r.app, r.view) /\ BehindOK(r.view)
    BY <1>1, <2>5 DEF ListOK, InputOK, BehindOK
  <2>7. SentOK(r.view)
    BY <2>3, <2>4, <2>5, NobodyIsTyped DEF SentOK, Teaches
  <2> QED
    BY <2>5, <2>6, <2>7 DEF Left, ScreenOK, Consoles, r
<1>3. CASE r = [c EXCEPT !.view.dialog = NoDialog, !.app.input = FALSE]
  <2> HIDE DEF r
  <2>1. /\ r \in Consoles /\ r.view.dialog = NoDialog /\ r.view.detail = c.view.detail
        /\ r.view.sending = c.view.sending /\ r.view.list = c.view.list
        /\ r.view.sel = c.view.sel /\ r.app.input = FALSE /\ r.app.overlay = "none"
    BY <1>1, <1>3, NobodyIsTyped DEF Consoles, Apps, Views
  <2>2. ListOK(r.view) /\ InputOK(r.app, r.view) /\ BehindOK(r.view)
    BY <1>1, <2>1 DEF ListOK, InputOK, SelectedId, BehindOK
  <2>3. SentOK(r.view)
    BY <1>1, <2>1, NobodyIsTyped DEF SentOK, Teaches
  <2> QED
    BY <2>1, <2>2, <2>3 DEF Left, ScreenOK, Consoles, r
<1>4. CASE r = c
  BY <1>4, LeftAlone
<1> QED
  BY <1>2, <1>3, <1>4 DEF DialogKey

\* The list's keys change the selection and drop the detail with it, or open a dialog.
LEMMA ListKeyLeaves ==
    ASSUME NEW c \in Consoles, ScreenOK(c.app, c.view), NEW k \in KeyPresses,
           c.app.at = "loop", c.app.screen = "approvals", c.app.overlay = "none",
           c.view.dialog = NoDialog
    PROVE  Left(c, ListKey(c, k))
<1> DEFINE r == ListKey(c, k)
           v == c.view
<1>1. /\ c.app \in Apps /\ v \in Views /\ ListOK(v) /\ SentOK(v) /\ InputOK(c.app, v)
      /\ v.sel \in Nat \ {0} /\ Len(v.list) \in Nat /\ v.list \in Seq(Listed)
  BY DEF Consoles, ScreenOK, Views
<1>2. ASSUME NEW q \in Consoles, q.app = c.app, SameDialogs(v, q.view), ListOK(q.view)
      PROVE  Left(c, q)
  <2>1. SentOK(q.view) /\ InputOK(q.app, q.view) /\ BehindOK(q.view)
    BY <1>1, <1>2 DEF InputOK, SentOK, Teaches, SameDialogs, BehindOK
  <2> QED
    BY <1>1, <1>2, <2>1 DEF Left, ScreenOK, SameDialogs, Consoles
<1>3. CASE k.key = "up" /\ v.sel > 1
  <2>1. r = [c EXCEPT !.view.sel = v.sel - 1, !.view.detail = Nobody]
    BY <1>3 DEF ListKey
  <2>2. v.sel - 1 \in Nat \ {0} /\ (v.list # <<>> => v.sel - 1 \in 1 .. Len(v.list))
    BY <1>1, <1>3 DEF ListOK
  <2> HIDE DEF r
  <2>3. /\ r \in Consoles /\ r.app = c.app /\ SameDialogs(v, r.view)
        /\ r.view.list = v.list /\ r.view.sel = v.sel - 1 /\ r.view.detail = Nobody
    BY <1>1, <2>1, <2>2, NobodyIsTyped DEF Consoles, Views, SameDialogs
  <2> QED
    BY <1>2, <2>2, <2>3 DEF ListOK, r
<1>4. CASE k.key = "down" /\ v.sel < Len(v.list)
  <2>1. r = [c EXCEPT !.view.sel = v.sel + 1, !.view.detail = Nobody]
    BY <1>4 DEF ListKey
  <2>2. v.sel + 1 \in Nat \ {0} /\ v.sel + 1 \in 1 .. Len(v.list)
    BY <1>1, <1>4
  <2> HIDE DEF r
  <2>3. /\ r \in Consoles /\ r.app = c.app /\ SameDialogs(v, r.view)
        /\ r.view.list = v.list /\ r.view.sel = v.sel + 1 /\ r.view.detail = Nobody
    BY <1>1, <2>1, <2>2, NobodyIsTyped DEF Consoles, Views, SameDialogs
  <2> QED
    BY <1>2, <2>2, <2>3 DEF ListOK, r
<1>5. CASE k.key \in {"a", "d"} /\ MayDecide(v)
  <2> DEFINE d == OpensDialog(v, k)
  <2>1. r = [c EXCEPT !.view.dialog = d, !.app.input = TRUE]
    BY <1>5 DEF ListKey
  <2>2. v.detail = SelectedId(v) /\ v.detail # Nobody /\ v.detail \in OrNobody
    BY <1>1, <1>5 DEF MayDecide, ListOK, Views
  <2>3. d \in Dialogs /\ d.kind # "none" /\ d.id = SelectedId(v) /\ Teaches(d)
    BY <2>2, NobodyIsTyped DEF OpensDialog, Dialogs, Teaches, KeyPresses
  <2>4. d # NoDialog
    BY <2>3, NobodyIsTyped
  <2> HIDE DEF r, d
  <2>5. /\ r \in Consoles /\ r.view.dialog = d /\ r.view.detail = v.detail
        /\ r.view.sending = v.sending /\ r.view.list = v.list /\ r.view.sel = v.sel
        /\ r.app.input = TRUE /\ r.app.overlay = "none" /\ r.app.at = "loop"
        /\ r.app.screen = "approvals"
    BY <1>1, <2>1, <2>3 DEF Consoles, Apps, Views
  <2>6. SelectedId(r.view) = SelectedId(v)
    BY <2>5 DEF SelectedId
  <2>7. ListOK(r.view) /\ InputOK(r.app, r.view) /\ BehindOK(r.view)
    BY <1>1, <2>3, <2>4, <2>5, <2>6 DEF ListOK, InputOK, BehindOK
  <2>8. SentOK(r.view)
    BY <1>1, <2>3, <2>5 DEF SentOK
  <2> QED
    BY <2>5, <2>7, <2>8 DEF Left, ScreenOK, Consoles, r
<1>6. CASE k.key = "f"
  <2>1. r = [c EXCEPT !.view.filter = NextFilter[v.filter], !.view.list = <<>>,
                      !.view.sel = 1, !.view.detail = Nobody]
    BY <1>6 DEF ListKey
  <2>2. NextFilter[v.filter] \in {"all", "pending", "settled"} /\ <<>> \in Seq(Listed)
    BY <1>1 DEF NextFilter, Views
  <2> HIDE DEF r
  <2>3. /\ r \in Consoles /\ r.app = c.app /\ SameDialogs(v, r.view)
        /\ r.view.list = <<>> /\ r.view.detail = Nobody
    <3> DEFINE w == [v EXCEPT !.filter = NextFilter[v.filter], !.list = <<>>,
                              !.sel = 1, !.detail = Nobody]
    <3>1. 1 \in Nat \ {0}
      OBVIOUS
    <3>2. \A f \in {"all", "pending", "settled"}, l \in Seq(Listed), x \in Nat \ {0},
             y \in OrNobody :
             [v EXCEPT !.filter = f, !.list = l, !.sel = x, !.detail = y] \in Views
      BY <1>1 DEF Views
    <3>3. w \in Views
      BY <2>2, <3>1, <3>2, NobodyIsTyped
    <3>4. w.list = <<>> /\ w.detail = Nobody /\ SameDialogs(v, w)
      BY <1>1 DEF Views, SameDialogs
    <3>5. r = [app |-> c.app, view |-> w]
      BY <1>1, <2>1 DEF Consoles
    <3> HIDE DEF w
    <3> QED
      BY <1>1, <3>3, <3>4, <3>5 DEF Consoles
  <2> QED
    BY <1>2, <2>3 DEF ListOK, r
<1>7. CASE k.key = "enter" /\ v.list = <<>>
  <2>1. r = SwitchScreen(c)
    BY <1>7 DEF ListKey
  <2> QED
    BY <2>1, SwitchScreenLeaves
<1>8. CASE r = c
  BY <1>8, LeftAlone
<1> QED
  BY <1>3, <1>4, <1>5, <1>6, <1>7, <1>8 DEF ListKey

LEMMA RoutedLeaves ==
    ASSUME NEW c \in Consoles, ScreenOK(c.app, c.view), NEW k \in KeyPresses,
           c.app.at = "loop", KeyOK(k, c.view)
    PROVE  Left(c, Routed(c, k))
<1> DEFINE r == Routed(c, k)
<1>1. c.app \in Apps /\ c.view \in Views /\ InputOK(c.app, c.view)
  BY DEF Consoles, ScreenOK
<1>2. CASE c.app.overlay # "none"
  BY <1>2, OverlayKeyLeaves DEF Routed
<1>3. CASE c.app.overlay = "none" /\ k.key = "tab" /\ (c.app.input => ~IsModal(c))
  <2>1. c.view.dialog = NoDialog
    BY <1>1, <1>3 DEF IsModal, InputOK
  <2> QED
    BY <1>3, <2>1, SwitchScreenLeaves DEF Routed
<1>4. CASE c.app.overlay = "none" /\ k.key \in {"R", "S"} /\ ~c.app.input
  <2> DEFINE o == IF k.key = "R" THEN "revoke" ELSE "stop"
  <2>1. r = [c EXCEPT !.app.overlay = o, !.app.input = TRUE]
    BY <1>4 DEF Routed
  <2>2. o \in {"revoke", "stop"}
    OBVIOUS
  <2> HIDE DEF r, o
  <2>3. /\ r \in Consoles /\ r.view = c.view /\ r.app.input = TRUE /\ r.app.overlay = o
        /\ r.app.at = "loop" /\ c.view.dialog = NoDialog
    BY <1>1, <1>4, <2>1, <2>2 DEF Consoles, Apps, InputOK
  <2>4. InputOK(r.app, r.view)
    BY <2>2, <2>3 DEF InputOK
  <2> QED
    BY <2>3, <2>4 DEF Left, ScreenOK, Consoles, r
<1>5. CASE c.app.overlay = "none" /\ r = ScreenKey(c, k)
  <2>1. CASE c.app.screen # "approvals"
    BY <1>5, <2>1, LeftAlone DEF ScreenKey
  <2>2. CASE c.app.screen = "approvals" /\ c.view.dialog # NoDialog
    BY <1>5, <2>2, DialogKeyLeaves DEF ScreenKey
  <2>3. CASE c.app.screen = "approvals" /\ c.view.dialog = NoDialog
    BY <1>5, <2>3, ListKeyLeaves DEF ScreenKey
  <2> QED
    BY <2>1, <2>2, <2>3
<1> QED
  BY <1>2, <1>3, <1>4, <1>5 DEF Routed

LEMMA HandleKeyKeeps ==
    ASSUME ConsoleInv, HandleKey
    PROVE  ConsoleInv'
<1> DEFINE c == [app |-> app, view |-> view]
           k == Head(typed)
           r == Routed(c, k)
<1>1. /\ app.at = "loop" /\ typed # <<>> /\ typed' = Tail(typed)
      /\ app' = r.app /\ view' = r.view /\ asked' = asked
      /\ drawn' = IF r.app.at = "loop" THEN Frame(r.view) ELSE drawn
  BY DEF HandleKey
<1>2. /\ c \in Consoles /\ c.app = app /\ c.view = view /\ ScreenOK(app, view)
      /\ typed \in Seq(KeyPresses) /\ Len(typed) \in Nat
  BY DEF Consoles, ConsoleInv, ScreenOK
<1>3. k \in KeyPresses /\ k = typed[1] /\ KeyOK(k, view)
  BY <1>1, <1>2 DEF ConsoleInv
<1> HIDE DEF c, k
<1>4. Left(c, r)
  BY <1>1, <1>2, <1>3, RoutedLeaves
<1> HIDE DEF r
<1>5. ScreenOK(app', view') /\ view' \in Views /\ BehindOK(view')
  BY <1>1, <1>4 DEF Left, ScreenOK
<1>6. /\ drawn' \in OrNobody
      /\ view'.dialog # NoDialog => drawn' = view'.dialog.id \/ view'.dialog.gone
  <2>1. CASE r.app.at = "loop"
    BY <1>1, <1>5, <2>1, FrameFacts
  <2>2. CASE r.app.at # "loop"
    BY <1>1, <1>2, <1>4, <2>2 DEF Left, ConsoleInv
  <2> QED
    BY <2>1, <2>2
<1>7. /\ typed' \in Seq(KeyPresses) /\ Len(typed') = Len(typed) - 1
      /\ \A i \in 1 .. Len(typed') : i + 1 \in 1 .. Len(typed) /\ typed'[i] = typed[i + 1]
  BY <1>1, <1>2
<1>8. \A i \in 1 .. Len(typed') : ~typed'[i].alone
  <2> TAKE i \in 1 .. Len(typed')
  <2>1. i + 1 \in 1 .. Len(typed) /\ typed'[i] = typed[i + 1] /\ i + 1 # 1
    BY <1>2, <1>7
  <2> QED
    BY <2>1 DEF ConsoleInv
<1>9. Len(typed') <= MaxTyped
  BY <1>2, <1>7, ConsoleAssumption DEF ConsoleInv
<1>10. typed' # <<>> => KeyOK(typed'[1], view')
  <2>1. typed' # <<>> => 1 \in 1 .. Len(typed')
    BY <1>7
  <2> QED
    BY <1>8, <2>1 DEF KeyOK
<1> QED
  BY <1>1, <1>5, <1>6, <1>7, <1>8, <1>9, <1>10 DEF ConsoleInv

LEMMA SendDecisionKeeps ==
    ASSUME ConsoleInv, SendDecision
    PROVE  ConsoleInv'
<1>1. /\ asked' \in {asked, Settle(view.sending.dialog.id)}
      /\ app' = [app EXCEPT !.at = "probe"] /\ view' = [view EXCEPT !.sending = Unsent]
      /\ UNCHANGED <<drawn, typed>>
  BY DEF SendDecision
<1>2. /\ app \in Apps /\ view \in Views /\ ListOK(view) /\ SentOK(view)
      /\ BehindOK(view) /\ InputOK(app, view)
  BY DEF ConsoleInv, ScreenOK
<1>3. asked' \in Seq(Listed)
  BY <1>1, SettleIsTyped DEF ConsoleInv
<1>4. /\ Unsent \in [dialog : Dialogs, shown : OrNobody, alone : BOOLEAN]
      /\ Unsent.dialog = NoDialog /\ Unsent.alone = FALSE
  BY NobodyIsTyped DEF Unsent
<1>5. /\ view' \in Views /\ view'.list = view.list /\ view'.sel = view.sel
      /\ view'.detail = view.detail /\ view'.dialog = view.dialog /\ view'.sending = Unsent
  BY <1>1, <1>2, <1>4 DEF Views
<1>6. /\ app' \in Apps /\ app'.input = app.input /\ app'.overlay = app.overlay
      /\ app'.screen = app.screen
  BY <1>1, <1>2 DEF Apps
<1>7. ListOK(view') /\ InputOK(app', view') /\ BehindOK(view')
  BY <1>2, <1>5, <1>6 DEF ListOK, InputOK, SelectedId, BehindOK
<1>8. SentOK(view')
  BY <1>2, <1>4, <1>5, NobodyIsTyped DEF SentOK, Teaches
<1>9. typed # <<>> => KeyOK(typed[1], view')
  BY <1>5 DEF ConsoleInv, KeyOK
<1> QED
  BY <1>1, <1>3, <1>5, <1>6, <1>7, <1>8, <1>9 DEF ConsoleInv, ScreenOK

\* Whatever the gate does and however keys, polls and answers come between each other,
\* the console has the invariant.
THEOREM ConsoleInvariant == ConsoleSpec => []ConsoleInv
<1>1. ConsoleInv /\ [ConsoleNext]_consoleVars => ConsoleInv'
  <2> SUFFICES ASSUME ConsoleInv, [ConsoleNext]_consoleVars PROVE ConsoleInv'
    OBVIOUS
  <2>1. CASE UNCHANGED consoleVars
    BY <2>1 DEF consoleVars, ConsoleInv
  <2> QED
    BY <2>1, AskedKeeps, SettledElsewhereKeeps, PressKeeps, TicksKeep, HandleKeyKeeps,
       SendDecisionKeeps DEF ConsoleNext
<1> QED
  BY <1>1, ConsoleInitInv, PTL DEF ConsoleSpec

\* DecisionScreensSafe: what an operator is shown while deciding, and answers, is what is
\* meant (tui/approvals.rs), and the feed skips no event (tui/activity.rs).
THEOREM DecisionScreensAreSafe == ConsoleSpec /\ FeedSpec => []DecisionScreensSafe
<1>1. ConsoleInv /\ FeedInv => DecisionScreensSafe
  BY ConsoleInvGivesSafe DEF FeedInv, FeedSafe, DecisionScreensSafe
<1> QED
  BY <1>1, ConsoleInvariant, FeedInvariant, PTL

--------------------------------------------------------------------------------
(***************************************************************************)
(* What the screens of the console change, for any number of items, keys   *)
(* and changes from outside.                                               *)
(***************************************************************************)

FormKinds == {"none", "config", "principal", "grant", "revoke", "operator", "webhook", "secret", "preset"}

\* A form is at one of its steps.
FormOK(f) ==
    /\ f = [kind |-> f.kind, step |-> f.step, for |-> f.for]
    /\ f.kind \in FormKinds /\ f.step \in 1 .. Len(FormSteps(f.kind))

\* A setup screen: one thing is open.
SetupScreenOK(s) ==
    /\ s = [tab |-> s.tab, config |-> s.config, sel |-> s.sel, form |-> s.form,
            confirming |-> s.confirming, focus |-> s.focus, acl |-> s.acl,
            aclFetched |-> s.aclFetched, secrets |-> s.secrets,
            secretsFetched |-> s.secretsFetched, presets |-> s.presets,
            presetsFetched |-> s.presetsFetched, busy |-> s.busy, pending |-> s.pending,
            restart |-> s.restart]
    /\ s.tab \in {"overview", "principal", "operator", "webhook", "secret", "preset"}
    /\ s.busy \subseteq {"doctor", "webhook", "secrets"}
    /\ FormOK(s.form)
    /\ s.form.kind # "none" => s.confirming = "none"

FileContents == [lists : [Lists -> SUBSET Nat], sops : BOOLEAN]

\* What an edit that is about to write has read is still what its file says, unless a
\* change from outside came between.
HeldOK ==
    /\ held \in FileContents /\ raced \in BOOLEAN
    /\ console.at = "save" /\ ~raced => \A k \in FileLists(scr) : held.lists[k] = disk.lists[k]

\* An action waits only while the loop is about to run it, a restart only while
\* the loop is about to restart.
SetupInv ==
    /\ disk \in FileContents /\ HeldOK
    /\ acl \in [Principals -> SUBSET Actions]
    /\ console \in [at : {"loop", "act", "save", "restart", "editor", "init", "quit"}, on : {"setup", "other"},
                    input : BOOLEAN, diagnostic : BOOLEAN]
    /\ SetupScreenOK(scr)
    /\ console.at \notin {"act", "save", "quit"} => scr.pending = NoPending
    /\ scr.restart \in BOOLEAN /\ (scr.restart => console.at = "restart")
    /\ FormsHoldInput /\ NothingUndone

--------------------------------------------------------------------------------

Manifest == [risk : 0 .. 3, num : Nat, items : Seq(Entries)]

\* Per action at most one manifest.
ManifestsOK(f) ==
    /\ f = [a \in ActionIds |-> f[a]]
    /\ \A a \in ActionIds : f[a] = {} \/ \E m \in f[a] : f[a] = {m} /\ m \in Manifest

\* An open editor: the cursor is on an item, or at the start of a list without
\* one; a draft that is not marked as changed is what was read.
EditOK(e) ==
    /\ e \in [open : {TRUE}, id : ActionIds, spec : Manifest, read : Manifest, field : 1 .. 3,
              cursor : Nat \ {0}, editor : {"none", "number", "list"}, removing : BOOLEAN,
              discard : BOOLEAN, dirty : BOOLEAN]
    /\ OnList(e) => e.cursor <= (IF ListLen(e) = 0 THEN 1 ELSE ListLen(e))
    /\ ~e.dirty => e.spec = e.read

BoardFields(b) ==
    /\ b = [f \in DOMAIN b |-> b[f]]
    /\ DOMAIN b = {"actions", "selected", "detail", "fetched", "refresh", "create", "newId",
                   "edit", "pendings", "seek"}

\* The screen of the actions: whoever asks for a new list has dropped the detail.
BoardOK(b) ==
    /\ BoardFields(b)
    /\ b.actions \in Seq(ActionIds) /\ b.detail \in ActionIds \cup {0}
    /\ b.detail # 0 => SelectedAction(b) = {b.detail}
    /\ ~b.fetched \/ b.refresh => b.detail = 0
    /\ b.create \in {"none", "id", "provider", "method", "url", "fsops"}
    /\ b.create \notin {"none", "id"} => b.newId \in ActionIds
    /\ b.edit = NoEdit \/ (EditOK(b.edit) /\ b.create = "none")

\* An open editor has the input mode, unless a save of it was refused.
ActionsInv ==
    /\ ManifestsOK(manifests) /\ ManifestsOK(loaded)
    /\ loop \in [at : {"loop", "save", "reload", "quit"}, on : {"actions", "other"}, input : BOOLEAN,
                 revoke : BOOLEAN]
    /\ saves = [refused |-> saves.refused, retry |-> saves.retry] /\ saves.refused \in BOOLEAN
    /\ gone \in {"none", "discarded", "quit"}
    /\ gone = "quit" => loop.at = "quit" /\ saves.refused
    /\ BoardOK(board)
    /\ loop.at = "save" => board.edit.open
    /\ loop.at = "reload" \/ loop.revoke => ~Modal(board) \/ saves.refused
    /\ Modal(board) /\ ~saves.refused /\ loop.at = "loop" => loop.input /\ loop.on = "actions"

--------------------------------------------------------------------------------

PanelFields(p) ==
    /\ p = [f \in DOMAIN p |-> p[f]]
    /\ DOMAIN p = {"actions", "active", "items", "owner", "selected", "dialog", "matches",
                   "pick", "pending", "value", "whose"}

\* A list of learned entries: they are those of the active action, and the
\* cursors are on rows.
PanelOK(p) ==
    /\ PanelFields(p)
    /\ p.actions \in {<<>>, Registered}
    /\ p.dialog \in {"none", "add", "remove", "clear", "jump"}
    /\ p.selected \in Nat \ {0}
    /\ p.items # <<>> => /\ ActiveAction(p) = {p.owner}
                         /\ Len(p.items) \in Nat /\ p.selected <= Len(p.items)
    /\ p.matches # <<>> => Len(p.matches) \in Nat \ {0}
    /\ p.dialog = "jump" => p.pick \in 1 .. (IF p.matches = <<>> THEN 1 ELSE Len(p.matches))

\* A change waits only in the mode that is shown, and a removal for the action in
\* whose list its entry was.
LearnedInv ==
    /\ learned \in [Modes -> [ActionSet -> SUBSET Learnable]]
    /\ mode \in Modes
    /\ focus \in [at : {"loop", "act", "quit"}, input : BOOLEAN]
    /\ panel = [m \in Modes |-> panel[m]]
    /\ \A m \in Modes : PanelOK(panel[m])
    /\ focus.at = "act" =>
         /\ ~focus.input /\ ~PanelModal(panel[mode])
         /\ panel[mode].pending \in {"add", "remove", "clear"}
         /\ panel[mode].pending = "remove" => ActiveAction(panel[mode]) = {panel[mode].whose}
    /\ focus.at = "loop" => /\ focus.input <=> PanelModal(panel[mode])
                            /\ panel[mode].pending = "none"
    /\ \A m \in Modes \ {mode} : ~PanelModal(panel[m]) /\ panel[m].pending = "none"
    /\ changed.whose = changed.action

--------------------------------------------------------------------------------
(* The items of a list in the order of their numbers.                          *)

LEMMA RowsAreListed ==
    ASSUME NEW S, IsFiniteSet(S), \A i \in S : i \in Nat
    PROVE  Rows(S) \in Seq(S)
<1> DEFINE n == Cardinality(S)
<1>1. n \in Nat
  BY FS_CardinalityType
<1>2. \A k \in 1 .. n : (CHOOSE i \in S : Cardinality({j \in S : j < i}) = k - 1) \in S
  <2> TAKE k \in 1 .. n
  <2>1. \E i \in S : Cardinality({j \in S : j < i}) = k - 1
    BY NumbersHaveRanks
  <2> QED
    BY <2>1
<1>3. Rows(S) \in [1 .. n -> S]
  BY <1>2 DEF Rows
<1> QED
  BY <1>1, <1>3

LEMMA RowsHaveLength ==
    ASSUME NEW S, IsFiniteSet(S), \A i \in S : i \in Nat
    PROVE  Len(Rows(S)) \in Nat /\ (Rows(S) # <<>> => Len(Rows(S)) # 0)
<1>1. Rows(S) \in Seq(S)
  BY RowsAreListed
<1> QED
  BY <1>1, EmptySeq, LenProperties

--------------------------------------------------------------------------------
(* The setup screen.                                                           *)

LEMMA FormLengths ==
    ASSUME NEW kind \in FormKinds
    PROVE  Len(FormSteps(kind)) \in 1 .. 4
  BY DEF FormKinds, FormSteps, PrincipalForm, WebhookForm, KeyValueForm, PresetForm

LEMMA NewFormsOK ==
    /\ FormOK(NoForm) /\ NoForm.kind = "none"
    /\ \A kind \in FormKinds : \A for : FormOK(OpenForm(kind, for)) /\ OpenForm(kind, for).kind = kind
<1>1. ASSUME NEW kind \in FormKinds, NEW for
      PROVE  FormOK(OpenForm(kind, for)) /\ OpenForm(kind, for).kind = kind
  BY FormLengths DEF FormOK, OpenForm
<1>2. "none" \in FormKinds
  BY DEF FormKinds
<1>3. NoForm = OpenForm("none", 0)
  BY DEF NoForm, OpenForm
<1> QED
  BY <1>1, <1>2, <1>3

\* What a key may do to the screen: what is open afterwards was open before or
\* has just been opened, and only what is to be run is left pending.
SetupAnswerOK(s, r) ==
    /\ SetupScreenOK(r.s)
    /\ r.s.restart = s.restart
    /\ r.a \in {"noop", "flash", "begin", "end", "async", "editor", "init"}
    /\ InInput(r.s) => r.a \in {"begin", "noop", "flash"} /\ (r.a # "begin" => InInput(s))
    /\ r.a # "async" => r.s.pending = s.pending

LEMMA AnswersUnchanged ==
    ASSUME NEW s, SetupScreenOK(s), NEW a \in {"noop", "flash", "begin"}
    PROVE  SetupAnswerOK(s, AnswerPrompt(s, a))
  BY DEF SetupAnswerOK, AnswerPrompt

LEMMA FormReplaced ==
    ASSUME NEW s, SetupScreenOK(s), s.confirming = "none", NEW f, FormOK(f)
    PROVE  LET t == [s EXCEPT !.form = f]
           IN SetupScreenOK(t) /\ t.form = f /\ t.confirming = "none" /\ t.restart = s.restart /\ t.pending = s.pending
  BY DEF SetupScreenOK

LEMMA PendingReplaced ==
    ASSUME NEW s, SetupScreenOK(s), NEW p
    PROVE  LET t == [s EXCEPT !.pending = p]
           IN SetupScreenOK(t) /\ t.form = s.form /\ t.confirming = s.confirming /\ t.restart = s.restart /\ t.pending = p
  BY DEF SetupScreenOK

LEMMA FormKeyOK ==
    ASSUME NEW s, SetupScreenOK(s), s.form.kind # "none", NEW key, NEW text, NEW item
    PROVE  SetupAnswerOK(s, FormKey(s, key, text, item))
<1> DEFINE closed == [s EXCEPT !.form = NoForm]
           p == [op |-> s.form.kind, item |-> item, who |-> s.form.for]
           sent == [closed EXCEPT !.pending = p]
           more == [s EXCEPT !.form.step = @ + 1]
           r == FormKey(s, key, text, item)
<1>1. s.confirming = "none" /\ FormOK(s.form)
  BY DEF SetupScreenOK
<1>2. /\ SetupScreenOK(closed) /\ ~InInput(closed)
      /\ closed.restart = s.restart /\ closed.pending = s.pending
  BY <1>1, FormReplaced, NewFormsOK DEF InInput
<1>3. /\ SetupScreenOK(sent) /\ ~InInput(sent) /\ sent.restart = s.restart
  <2> HIDE DEF closed, p
  <2> QED
    BY <1>2, PendingReplaced DEF InInput
<1>4. Advance(s.form, text) \in {"cancelled", "invalid", "stay", "next", "complete"}
  BY DEF Advance
<1>5. Advance(s.form, text) = "next" => SetupScreenOK(more) /\ more.restart = s.restart /\ more.pending = s.pending
  <2> HAVE Advance(s.form, text) = "next"
  <2> DEFINE f == [s.form EXCEPT !.step = @ + 1]
  <2>1. s.form.step # Len(FormSteps(s.form.kind))
    BY DEF Advance
  <2>2. Len(FormSteps(s.form.kind)) \in 1 .. 4
    BY <1>1, FormLengths DEF FormOK
  <2>3. FormOK(f)
    BY <1>1, <2>1, <2>2 DEF FormOK
  <2>4. more = [s EXCEPT !.form = f]
    BY DEF SetupScreenOK
  <2> QED
    BY <1>1, <2>3, <2>4, FormReplaced
<1>6. \/ r = AnswerPrompt(closed, "end") \/ r = AnswerPrompt(closed, "flash")
      \/ r = AnswerPrompt(s, "noop") \/ r = AnswerPrompt(s, "flash")
      \/ Advance(s.form, text) = "next" /\ r = AnswerPrompt(more, "noop")
      \/ r = AnswerPrompt(sent, "async")
  BY <1>4, Zenon DEF FormKey
<1>7. InInput(s)
  BY DEF InInput
<1> HIDE DEF closed, sent, more, r
<1> QED
  BY <1>2, <1>3, <1>5, <1>6, <1>7 DEF SetupAnswerOK, AnswerPrompt, r

LEMMA ConfirmKeyOK ==
    ASSUME NEW s, SetupScreenOK(s), s.form.kind = "none", s.confirming # "none", NEW key
    PROVE  SetupAnswerOK(s, ConfirmKey(s, key))
<1> DEFINE closed == [s EXCEPT !.confirming = "none"]
           Starting(op, item) == [closed EXCEPT !.pending = Pending(op, item)]
           r == ConfirmKey(s, key)
<1>1. /\ SetupScreenOK(closed) /\ ~InInput(closed)
      /\ closed.restart = s.restart /\ closed.pending = s.pending
  BY DEF SetupScreenOK, InInput
<1>2. \A op, item : SetupScreenOK(Starting(op, item)) /\ ~InInput(Starting(op, item)) /\ Starting(op, item).restart = s.restart
  <2> TAKE op, item
  <2> HIDE DEF closed
  <2> QED
    BY <1>1, PendingReplaced DEF InInput
<1>3. \/ r = AnswerPrompt(closed, "end") \/ r = AnswerPrompt(closed, "noop") \/ r = AnswerPrompt(s, "noop")
      \/ \E op, item : r = AnswerPrompt(Starting(op, item), "async")
  BY Zenon DEF ConfirmKey
<1>4. InInput(s)
  BY DEF InInput
<1> HIDE DEF closed, Starting, r
<1> QED
  BY <1>1, <1>2, <1>3, <1>4 DEF SetupAnswerOK, AnswerPrompt, r

\* Without a form or a question, a key opens one, starts something or moves a cursor.
LEMMA OpeningOK ==
    ASSUME NEW s, SetupScreenOK(s), s.confirming = "none", NEW kind \in FormKinds, NEW for
    PROVE  SetupAnswerOK(s, Opening(s, kind, for))
<1> DEFINE t == [s EXCEPT !.form = OpenForm(kind, for)]
<1>1. SetupScreenOK(t) /\ t.restart = s.restart /\ t.pending = s.pending
  BY FormReplaced, NewFormsOK
<1> HIDE DEF t
<1> QED
  BY <1>1 DEF SetupAnswerOK, Opening, AnswerPrompt, t

LEMMA ConfirmingOK ==
    ASSUME NEW s, SetupScreenOK(s), s.form.kind = "none", NEW what
    PROVE  SetupAnswerOK(s, Confirming(s, what))
<1> DEFINE t == [s EXCEPT !.confirming = what]
<1>1. SetupScreenOK(t) /\ t.restart = s.restart /\ t.pending = s.pending
  BY DEF SetupScreenOK
<1> HIDE DEF t
<1> QED
  BY <1>1 DEF SetupAnswerOK, Confirming, AnswerPrompt, t

LEMMA BusyReplaced ==
    ASSUME NEW s, SetupScreenOK(s), NEW B, B \subseteq {"doctor", "webhook", "secrets"}
    PROVE  LET t == [s EXCEPT !.busy = B]
           IN SetupScreenOK(t) /\ t.form = s.form /\ t.confirming = s.confirming /\ t.restart = s.restart
  BY DEF SetupScreenOK

LEMMA BusyingOK ==
    ASSUME NEW s, SetupScreenOK(s), ~InInput(s), NEW what \in {"doctor", "webhook", "secrets"}, NEW op, NEW item
    PROVE  SetupAnswerOK(s, Busying(s, what, op, item))
<1> DEFINE p == Pending(op, item)
           B == s.busy \cup {what}
           u == [s EXCEPT !.busy = B]
           t == [u EXCEPT !.pending = p]
<1>2. B \subseteq {"doctor", "webhook", "secrets"}
  BY DEF SetupScreenOK
<1>3. Busying(s, what, op, item) = AnswerPrompt(t, "async")
  BY DEF Busying
<1> HIDE DEF p, B
<1>4. SetupScreenOK(u) /\ u.form = s.form /\ u.confirming = s.confirming /\ u.restart = s.restart
  BY <1>2, BusyReplaced
<1> HIDE DEF u
<1>5. SetupScreenOK(t) /\ ~InInput(t) /\ t.restart = s.restart
  BY <1>4, PendingReplaced DEF InInput
<1> HIDE DEF t
<1> QED
  BY <1>3, <1>5 DEF SetupAnswerOK, AnswerPrompt

LEMMA CursorsMoveOK ==
    ASSUME NEW s, SetupScreenOK(s), NEW x
    PROVE  /\ SetupAnswerOK(s, AnswerPrompt([s EXCEPT !.focus = x], "noop"))
           /\ SetupAnswerOK(s, AnswerPrompt([s EXCEPT !.sel = x], "noop"))
  BY DEF SetupAnswerOK, AnswerPrompt, SetupScreenOK, InInput

LEMMA OverviewKeyOK ==
    ASSUME NEW s, SetupScreenOK(s), ~InInput(s), NEW key
    PROVE  SetupAnswerOK(s, OverviewKey(s, key))
<1>1. s.confirming = "none" /\ s.form.kind = "none" /\ "config" \in FormKinds
  BY DEF InInput, FormKinds
<1>2. SetupAnswerOK(s, AnswerPrompt(s, "editor")) /\ SetupAnswerOK(s, AnswerPrompt(s, "init"))
  BY DEF SetupAnswerOK, AnswerPrompt
<1>3. SetupAnswerOK(s, AnswerPrompt(s, "noop"))
  BY AnswersUnchanged
<1>4. SetupAnswerOK(s, Busying(s, "doctor", "doctor", 0))
  BY BusyingOK
<1>5. SetupAnswerOK(s, Opening(s, "config", 0))
  BY <1>1, OpeningOK
<1> QED
  BY <1>2, <1>3, <1>4, <1>5, Zenon DEF OverviewKey

LEMMA DetailKeyOK ==
    ASSUME NEW s, SetupScreenOK(s), ~InInput(s), NEW key
    PROVE  SetupAnswerOK(s, DetailKey(s, key))
<1> DEFINE who == CHOOSE p \in PrincipalShown(s) : TRUE
           item == CHOOSE a \in At(ActionsShown(s), s.focus) : TRUE
           p == [op |-> "revoke", item |-> item, who |-> who]
           t == [s EXCEPT !.focus = 0, !.pending = p]
           r == DetailKey(s, key)
<1>1. SetupAnswerOK(s, AnswerPrompt(t, "async"))
  <2> HIDE DEF p
  <2> QED
    BY DEF SetupAnswerOK, AnswerPrompt, SetupScreenOK, InInput
<1>2. SetupAnswerOK(s, AnswerPrompt(s, "noop"))
  BY AnswersUnchanged
<1>3. \A x : SetupAnswerOK(s, AnswerPrompt([s EXCEPT !.focus = x], "noop"))
  BY CursorsMoveOK
<1>4. \/ r = AnswerPrompt(t, "async") \/ r = AnswerPrompt(s, "noop")
      \/ \E x : r = AnswerPrompt([s EXCEPT !.focus = x], "noop")
  BY Zenon DEF DetailKey
<1> HIDE DEF t, r
<1> QED
  BY <1>1, <1>2, <1>3, <1>4 DEF r

LEMMA PrincipalsKeyOK ==
    ASSUME NEW s, SetupScreenOK(s), ~InInput(s), NEW key
    PROVE  SetupAnswerOK(s, PrincipalsKey(s, key))
<1> DEFINE r == PrincipalsKey(s, key)
<1>1. /\ s.confirming = "none" /\ s.form.kind = "none"
      /\ "principal" \in FormKinds /\ "grant" \in FormKinds /\ "revoke" \in FormKinds
  BY DEF InInput, FormKinds
<1>2. SetupAnswerOK(s, AnswerPrompt(s, "noop"))
  BY AnswersUnchanged
<1>3. \A x : /\ SetupAnswerOK(s, AnswerPrompt([s EXCEPT !.focus = x], "noop"))
             /\ SetupAnswerOK(s, AnswerPrompt([s EXCEPT !.sel = x], "noop"))
  BY CursorsMoveOK
<1>4. \A for : /\ SetupAnswerOK(s, Opening(s, "principal", for))
               /\ SetupAnswerOK(s, Opening(s, "grant", for))
               /\ SetupAnswerOK(s, Opening(s, "revoke", for))
  BY <1>1, OpeningOK
<1>5. SetupAnswerOK(s, Confirming(s, "principal"))
  BY <1>1, ConfirmingOK
<1>6. \/ r = AnswerPrompt(s, "noop")
      \/ \E x : r = AnswerPrompt([s EXCEPT !.focus = x], "noop")
      \/ \E x : r = AnswerPrompt([s EXCEPT !.sel = x], "noop")
      \/ \E for : r = Opening(s, "principal", for) \/ r = Opening(s, "grant", for) \/ r = Opening(s, "revoke", for)
      \/ r = Confirming(s, "principal")
  BY Zenon DEF PrincipalsKey
<1> HIDE DEF r
<1> QED
  BY <1>2, <1>3, <1>4, <1>5, <1>6, Zenon DEF r

LEMMA OtherTabsOK ==
    ASSUME NEW s, SetupScreenOK(s), ~InInput(s), NEW key
    PROVE  /\ SetupAnswerOK(s, OperatorsKey(s, key)) /\ SetupAnswerOK(s, WebhooksKey(s, key))
           /\ SetupAnswerOK(s, SecretsKey(s, key)) /\ SetupAnswerOK(s, PresetsKey(s, key))
<1>1. /\ s.confirming = "none" /\ s.form.kind = "none"
      /\ {"operator", "webhook", "secret", "preset"} \subseteq FormKinds
  BY DEF InInput, FormKinds
<1>2. SetupAnswerOK(s, AnswerPrompt(s, "noop"))
  BY AnswersUnchanged
<1>3. \A kind \in {"operator", "webhook", "secret", "preset"} :
         SetupAnswerOK(s, Opening(s, kind, 0)) /\ SetupAnswerOK(s, Confirming(s, kind))
  BY <1>1, OpeningOK, ConfirmingOK
<1>4. \A item : SetupAnswerOK(s, Busying(s, "webhook", "test", item))
  BY BusyingOK
<1>5. SetupAnswerOK(s, Busying(s, "secrets", "sops", 0))
  BY BusyingOK
<1>6. SetupAnswerOK(s, OperatorsKey(s, key))
  BY <1>2, <1>3, Zenon DEF OperatorsKey
<1>7. SetupAnswerOK(s, WebhooksKey(s, key))
  BY <1>2, <1>3, <1>4, Zenon DEF WebhooksKey
<1>8. SetupAnswerOK(s, SecretsKey(s, key))
  BY <1>2, <1>3, <1>5, Zenon DEF SecretsKey
<1>9. SetupAnswerOK(s, PresetsKey(s, key))
  BY <1>2, <1>3, Zenon DEF PresetsKey
<1> QED
  BY <1>6, <1>7, <1>8, <1>9

LEMMA SetupScreenKeyOK ==
    ASSUME NEW s, SetupScreenOK(s), NEW key, NEW text, NEW item, key = "digit" => item \in 1 .. 6
    PROVE  SetupAnswerOK(s, SetupScreenKey(s, key, text, item))
<1>1. CASE s.form.kind # "none"
  BY <1>1, FormKeyOK DEF SetupScreenKey
<1>2. CASE s.form.kind = "none" /\ s.confirming # "none"
  BY <1>2, ConfirmKeyOK DEF SetupScreenKey
<1>3. CASE s.form.kind = "none" /\ s.confirming = "none"
  <2>1. ~InInput(s)
    BY <1>3 DEF InInput
  <2>2. CASE key = "digit"
    <3>1. SubTabs[item] \in {"overview", "principal", "operator", "webhook", "secret", "preset"}
      BY <2>2 DEF SubTabs
    <3> DEFINE tab == SubTabs[item]
               t == [s EXCEPT !.focus = 0, !.tab = tab]
    <3> HIDE DEF tab
    <3>2. SetupAnswerOK(s, AnswerPrompt(t, "noop"))
      BY <3>1 DEF SetupAnswerOK, AnswerPrompt, SetupScreenOK, InInput, tab
    <3> QED
      BY <1>3, <2>2, <3>2 DEF SetupScreenKey, tab
  <2>3. CASE key # "digit" /\ s.focus # 0
    BY <1>3, <2>1, <2>3, DetailKeyOK DEF SetupScreenKey
  <2>4. CASE key # "digit" /\ s.focus = 0
    <3>1. SetupAnswerOK(s, MoveKey(s, key))
      <4>1. PICK x : MoveKey(s, key) = AnswerPrompt([s EXCEPT !.sel = x], "noop")
        BY Zenon DEF MoveKey
      <4> QED
        BY <4>1, CursorsMoveOK
    <3>2. s.tab \in {"overview", "principal", "operator", "webhook", "secret", "preset"}
      BY DEF SetupScreenOK
    <3> QED
      BY <1>3, <2>1, <2>4, <3>1, <3>2, OverviewKeyOK, PrincipalsKeyOK, OtherTabsOK DEF SetupScreenKey
  <2> QED
    BY <2>2, <2>3, <2>4
<1> QED
  BY <1>1, <1>2, <1>3

--------------------------------------------------------------------------------
\* The steps of the loop on the setup screen.

LEMMA SetupKeyKeepsInv ==
    ASSUME SetupInv, NEW key, NEW text, NEW item, key = "digit" => item \in 1 .. 6,
           SetupKey(key, text, item)
    PROVE  SetupInv'
<1> USE DEF SetupInv
<1>1. console.at = "loop" /\ scr.pending = NoPending /\ scr.restart = FALSE
  BY DEF SetupKey
<1>2. UNCHANGED <<disk, meant, acl, held, raced>>
  BY DEF SetupKey
<1>3. NothingUndone' /\ (console'.at # "save" => HeldOK')
  BY <1>2 DEF NothingUndone, HeldOK
<1>4. CASE console' = [console EXCEPT !.diagnostic = FALSE] /\ UNCHANGED scr
  BY <1>1, <1>2, <1>3, <1>4 DEF FormsHoldInput, SetupScreenOK, InInput
<1>5. CASE ~console.input /\ console' = [console EXCEPT !.at = "quit"] /\ UNCHANGED scr
  BY <1>1, <1>2, <1>3, <1>5 DEF FormsHoldInput, SetupScreenOK, InInput
<1>6. ASSUME NEW to \in {"setup", "other"}, ~console.input \/ ~InInput(scr), Navigate(to)
      PROVE  SetupInv'
  BY <1>1, <1>2, <1>3, <1>6 DEF FormsHoldInput, SetupScreenOK, InInput, Navigate
<1>7. CASE console.on = "setup" /\ Applied(SetupScreenKey(scr, key, text, item))
  <2> DEFINE r == SetupScreenKey(scr, key, text, item)
  <2>1. SetupAnswerOK(scr, r)
    BY SetupScreenKeyOK
  <2> HIDE DEF r
  <2>2. /\ scr' = r.s
        /\ r.a = "begin" => console' = [console EXCEPT !.input = TRUE]
        /\ r.a = "end" => console' = [console EXCEPT !.input = FALSE]
        /\ r.a = "async" => console' = [console EXCEPT !.input = FALSE, !.at = "act"]
        /\ r.a \in {"editor", "init"} => console' = [console EXCEPT !.at = r.a]
        /\ r.a \in {"noop", "flash"} => console' = console
    BY <1>7, Zenon DEF Applied, r
  <2>3. /\ SetupScreenOK(scr)' /\ scr'.restart = FALSE
        /\ r.a \in {"noop", "flash", "begin", "end", "async", "editor", "init"}
        /\ InInput(scr') => r.a \in {"begin", "noop", "flash"} /\ (r.a # "begin" => InInput(scr))
        /\ r.a # "async" => scr'.pending = NoPending
    BY <1>1, <2>1, <2>2 DEF SetupAnswerOK
  <2>4. /\ console' \in [at : {"loop", "act", "save", "restart", "editor", "init", "quit"}, on : {"setup", "other"},
                         input : BOOLEAN, diagnostic : BOOLEAN]
        /\ console'.on = "setup"
        /\ r.a = "begin" => console'.at = "loop" /\ console'.input
        /\ r.a \in {"noop", "flash"} => console' = console
        /\ console'.at = "act" <=> r.a = "async"
        /\ console'.at # "save"
    BY <1>1, <1>7, <2>2, <2>3
  <2>5. FormsHoldInput'
    BY <1>1, <2>3, <2>4 DEF FormsHoldInput, InInput
  <2> QED
    BY <1>2, <1>3, <2>3, <2>4, <2>5
<1> QED
  BY <1>4, <1>5, <1>6, <1>7 DEF SetupKey

\* Another config takes the place of the file, and of what it is meant to be.
LEMMA InitialisedKeeps ==
    ASSUME disk \in FileContents, NothingUndone, UNCHANGED raced, disk' = Initialised,
           meant' = [k \in Lists |-> IF k = "secret" THEN meant[k] ELSE {}]
    PROVE  disk' \in FileContents /\ NothingUndone'
<1> DEFINE new == [k \in Lists |-> IF k = "secret" THEN disk.lists[k] ELSE {}]
<1>1. new \in [Lists -> SUBSET Nat]
  BY DEF FileContents
<1>2. disk' = [lists |-> new, sops |-> FALSE]
  BY DEF Initialised
<1>3. disk.lists = meant => meant' = new
  OBVIOUS
<1> HIDE DEF new
<1> QED
  BY <1>1, <1>2, <1>3 DEF FileContents, NothingUndone

\* The end of an action: nothing is open, nothing is pending.
LEMMA ActEndsKeepsInv ==
    ASSUME SetupInv, ActEnds, UNCHANGED <<held, raced>>, disk' \in FileContents,
           acl' \in [Principals -> SUBSET Actions], NothingUndone',
           SetupScreenOK(scr'), ~InInput(scr'), scr'.pending = NoPending, scr'.restart \in BOOLEAN
    PROVE  SetupInv'
<1> USE DEF SetupInv
<1>1. console' = [console EXCEPT !.at = IF scr'.restart THEN "restart" ELSE "loop",
                                 !.input = scr'.confirming # "none"]
  BY DEF ActEnds
<1>2. /\ console' \in [at : {"loop", "restart"}, on : {"setup", "other"}, input : BOOLEAN, diagnostic : BOOLEAN]
      /\ scr'.restart => console'.at = "restart"
  BY <1>1
<1>3. HeldOK'
  BY <1>2 DEF HeldOK
<1>4. FormsHoldInput'
  BY DEF FormsHoldInput, InInput
<1> HIDE DEF ActEnds
<1> QED
  BY <1>2, <1>3, <1>4

\* An action leaves the screen with nothing open.
LEMMA NothingOpen ==
    ASSUME SetupInv, console.at \in {"act", "save"}
    PROVE  /\ SetupScreenOK(scr) /\ scr.form.kind = "none" /\ scr.confirming = "none"
           /\ scr.restart = FALSE /\ ~InInput(scr)
  BY DEF SetupInv, FormsHoldInput, InInput

LEMMA ActKeepsInv ==
    ASSUME SetupInv, Act
    PROVE  SetupInv'
<1>1. /\ SetupScreenOK(scr) /\ scr.form.kind = "none" /\ scr.confirming = "none" /\ scr.restart = FALSE
  BY NothingOpen DEF Act
<1>2. /\ disk \in FileContents /\ acl \in [Principals -> SUBSET Actions] /\ NothingUndone
      /\ ActEnds /\ UNCHANGED <<held, raced>>
  BY DEF SetupInv, Act
<1> DEFINE Kept == /\ disk' \in FileContents /\ NothingUndone'
                   /\ acl' \in [Principals -> SUBSET Actions]
                   /\ SetupScreenOK(scr') /\ ~InInput(scr')
                   /\ scr'.pending = NoPending /\ scr'.restart \in BOOLEAN
<1>3. ASSUME RunAwaited PROVE Kept
  <2>1. PICK B : B \subseteq scr.busy /\ scr' = [scr EXCEPT !.pending = NoPending, !.busy = B]
    BY <1>3 DEF RunAwaited
  <2>2. SetupScreenOK(scr') /\ ~InInput(scr') /\ scr'.pending = NoPending /\ scr'.restart = FALSE
    BY <1>1, <2>1 DEF SetupScreenOK, InInput
  <2>3. UNCHANGED <<disk, meant, acl>>
    BY <1>3 DEF RunAwaited
  <2> QED
    BY <1>2, <2>2, <2>3 DEF NothingUndone
<1>4. ASSUME RunPolicy PROVE Kept
  <2>1. acl' \in [Principals -> SUBSET Actions]
    BY <1>2, <1>4 DEF RunPolicy
  <2>2. SetupScreenOK(scr') /\ ~InInput(scr') /\ scr'.pending = NoPending /\ scr'.restart = FALSE
    <3>1. \/ scr' = [scr EXCEPT !.pending = NoPending, !.aclFetched = FALSE]
          \/ scr' = [scr EXCEPT !.pending = NoPending]
      BY <1>4 DEF RunPolicy
    <3> QED
      BY <1>1, <3>1 DEF SetupScreenOK, InInput
  <2>3. UNCHANGED <<disk, meant>>
    BY <1>4 DEF RunPolicy
  <2> QED
    BY <1>2, <2>1, <2>2, <2>3 DEF NothingUndone
<1>5. ASSUME RunPreset PROVE Kept
  <2>1. CASE /\ disk' = Initialised
             /\ meant' = [k \in Lists |-> IF k = "secret" THEN meant[k] ELSE {}]
             /\ scr' = [scr EXCEPT !.pending = NoPending, !.config = disk', !.presetsFetched = FALSE, !.restart = TRUE]
    <3>1. disk' \in FileContents /\ NothingUndone'
      BY <1>2, <2>1, InitialisedKeeps
    <3>2. SetupScreenOK(scr') /\ ~InInput(scr') /\ scr'.pending = NoPending /\ scr'.restart = TRUE
      BY <1>1, <2>1 DEF SetupScreenOK, InInput
    <3> QED
      BY <1>2, <1>5, <3>1, <3>2 DEF RunPreset
  <2>2. CASE /\ scr' \in {[scr EXCEPT !.pending = NoPending, !.presetsFetched = x] : x \in {FALSE, scr.presetsFetched}}
             /\ UNCHANGED <<disk, meant>>
    <3>1. SetupScreenOK(scr') /\ ~InInput(scr') /\ scr'.pending = NoPending /\ scr'.restart = FALSE
      BY <1>1, <2>2 DEF SetupScreenOK, InInput
    <3> QED
      BY <1>2, <1>5, <2>2, <3>1 DEF RunPreset, NothingUndone
  <2> QED
    BY <1>5, <2>1, <2>2 DEF RunPreset
<1>6. Kept
  BY <1>3, <1>4, <1>5 DEF Act
<1> QED
  BY <1>2, <1>6, ActEndsKeepsInv

LEMMA LoadDocKeepsInv ==
    ASSUME SetupInv, LoadDoc
    PROVE  SetupInv'
<1>1. /\ SetupScreenOK(scr) /\ scr.form.kind = "none" /\ scr.confirming = "none" /\ scr.restart = FALSE
      /\ ~InInput(scr) /\ console.at = "act"
  BY NothingOpen DEF LoadDoc
<1>2. UNCHANGED <<disk, meant, acl, raced>>
  BY DEF LoadDoc
<1>3. CASE held' = disk /\ console' = [console EXCEPT !.at = "save"] /\ UNCHANGED scr
  <2>1. HeldOK'
    BY <1>2, <1>3 DEF SetupInv, HeldOK
  <2>2. NothingUndone' /\ FormsHoldInput'
    BY <1>1, <1>2, <1>3 DEF SetupInv, NothingUndone, FormsHoldInput, InInput
  <2> QED
    BY <1>1, <1>2, <1>3, <2>1, <2>2 DEF SetupInv, SetupScreenOK
<1>4. CASE /\ scr' = [scr EXCEPT !.pending = NoPending, !.busy = @ \ {"secrets"}]
           /\ ActEnds /\ UNCHANGED held
  <2>1. SetupScreenOK(scr') /\ ~InInput(scr') /\ scr'.pending = NoPending /\ scr'.restart = FALSE
    BY <1>1, <1>4 DEF SetupScreenOK, InInput
  <2>2. disk' \in FileContents /\ acl' \in [Principals -> SUBSET Actions] /\ NothingUndone'
    BY <1>2 DEF SetupInv, NothingUndone
  <2> QED
    BY <1>2, <1>4, <2>1, <2>2, ActEndsKeepsInv
<1> QED
  BY <1>3, <1>4 DEF LoadDoc

LEMMA SaveDocKeepsInv ==
    ASSUME SetupInv, SaveDoc
    PROVE  SetupInv'
<1> DEFINE list == ListChanged(scr)
           new(k) == IF k \notin FileLists(scr) THEN disk.lists[k]
                     ELSE IF k = list THEN Changed(scr, held.lists[k]) ELSE held.lists[k]
           sops == disk.sops \/ scr.pending.op = "sops"
           done == [scr EXCEPT !.pending = NoPending, !.busy = @ \ {"secrets"}]
<1>1. /\ SetupScreenOK(scr) /\ scr.form.kind = "none" /\ scr.confirming = "none" /\ scr.restart = FALSE
      /\ console.at = "save"
  BY NothingOpen DEF SaveDoc
<1>2. /\ ActEnds /\ UNCHANGED <<acl, held, raced>>
      /\ acl \in [Principals -> SUBSET Actions] /\ disk \in FileContents /\ held \in FileContents
  BY DEF SaveDoc, SetupInv, HeldOK
<1>3. CASE /\ disk' = [lists |-> [k \in Lists |-> new(k)], sops |-> sops]
           /\ meant' = [k \in Lists |-> IF k = list THEN Changed(scr, meant[k]) ELSE meant[k]]
           /\ \E c, x : scr' = [done EXCEPT !.config = c, !.secretsFetched = x]
  <2>1. \A k \in Lists : new(k) \in SUBSET Nat
    <3> SUFFICES ASSUME NEW k \in Lists PROVE new(k) \in SUBSET Nat
      OBVIOUS
    <3>1. disk.lists[k] \in SUBSET Nat /\ held.lists[k] \in SUBSET Nat
      BY <1>2 DEF FileContents
    <3>2. ASSUME k = list PROVE Changed(scr, held.lists[k]) \in SUBSET Nat
      <4>1. ItemsOf[list] \in SUBSET Nat
        BY <3>2, SetupAssumption DEF SetupAssumption, Lists
      <4> HIDE DEF list
      <4> QED
        BY <3>1, <4>1 DEF Changed, list
    <3> QED
      BY <3>1, <3>2
  <2>2. disk' \in FileContents
    <3>1. [k \in Lists |-> new(k)] \in [Lists -> SUBSET Nat]
      BY <2>1
    <3>2. sops \in BOOLEAN
      BY <1>2 DEF FileContents
    <3> HIDE DEF new, sops
    <3> QED
      BY <1>3, <3>1, <3>2 DEF FileContents
  <2>3. NothingUndone'
    <3>1. CASE raced
      BY <1>2, <3>1 DEF NothingUndone
    <3>2. CASE ~raced
      <4>1. disk.lists = meant /\ \A k \in FileLists(scr) : held.lists[k] = disk.lists[k]
        BY <1>1, <3>2 DEF SetupInv, NothingUndone, HeldOK
      <4>2. \A k \in Lists : k = list => k \in FileLists(scr)
        BY DEF FileLists
      <4>3. \A k \in Lists : new(k) = IF k = list THEN Changed(scr, meant[k]) ELSE meant[k]
        BY <4>1, <4>2
      <4>4. disk'.lists = [k \in Lists |-> new(k)]
        BY <1>3
      <4> HIDE DEF new, list
      <4> QED
        BY <1>3, <4>3, <4>4 DEF NothingUndone
    <3> QED
      BY <3>1, <3>2
  <2>4. SetupScreenOK(scr') /\ ~InInput(scr') /\ scr'.pending = NoPending /\ scr'.restart = FALSE
    BY <1>1, <1>3 DEF SetupScreenOK, InInput
  <2> QED
    BY <1>2, <2>2, <2>3, <2>4, ActEndsKeepsInv
<1>4. CASE scr' = done /\ UNCHANGED <<disk, meant>>
  <2>1. SetupScreenOK(scr') /\ ~InInput(scr') /\ scr'.pending = NoPending /\ scr'.restart = FALSE
    BY <1>1, <1>4 DEF SetupScreenOK, InInput
  <2>2. NothingUndone'
    BY <1>2, <1>4 DEF SetupInv, NothingUndone
  <2> QED
    BY <1>2, <1>4, <2>1, <2>2, ActEndsKeepsInv
<1>5. \/ /\ disk' = [lists |-> [k \in Lists |-> new(k)], sops |-> sops]
         /\ meant' = [k \in Lists |-> IF k = list THEN Changed(scr, meant[k]) ELSE meant[k]]
         /\ \E c, x : scr' = [done EXCEPT !.config = c, !.secretsFetched = x]
      \/ scr' = done /\ UNCHANGED <<disk, meant>>
  BY Zenon DEF SaveDoc
<1> QED
  BY <1>3, <1>4, <1>5

\* What the screen shows is changed, not what is open or pending.
SameOpen(t, s) ==
    /\ SetupScreenOK(t) /\ t.form = s.form /\ t.confirming = s.confirming
    /\ t.pending = s.pending /\ t.restart = s.restart

LEMMA ViewReplaced ==
    ASSUME NEW s, SetupScreenOK(s), NEW x
    PROVE  /\ SameOpen([s EXCEPT !.config = x], s) /\ SameOpen([s EXCEPT !.focus = x], s)
           /\ SameOpen([s EXCEPT !.secrets = x], s) /\ SameOpen([s EXCEPT !.secretsFetched = x], s)
           /\ SameOpen([s EXCEPT !.presetsFetched = x], s) /\ SameOpen([s EXCEPT !.aclFetched = x], s)
<1> USE DEF SameOpen, SetupScreenOK
<1>1. SameOpen([s EXCEPT !.config = x], s) /\ SameOpen([s EXCEPT !.focus = x], s)
  OBVIOUS
<1>2. SameOpen([s EXCEPT !.secrets = x], s) /\ SameOpen([s EXCEPT !.secretsFetched = x], s)
  OBVIOUS
<1>3. SameOpen([s EXCEPT !.presetsFetched = x], s) /\ SameOpen([s EXCEPT !.aclFetched = x], s)
  OBVIOUS
<1> QED
  BY <1>1, <1>2, <1>3, Zenon

\* A step that gives the screen another config.
LEMMA ConfigReplaced ==
    ASSUME NEW s, SetupScreenOK(s), NEW config
    PROVE  SameOpen(UpdateConfig(s, config), s)
<1> DEFINE s1 == [s EXCEPT !.config = config]
           s2 == [s1 EXCEPT !.secretsFetched = FALSE]
           s3 == [s2 EXCEPT !.secrets = {}]
           s4 == [s3 EXCEPT !.presetsFetched = FALSE]
           s5 == [s4 EXCEPT !.aclFetched = FALSE]
           s6 == [s5 EXCEPT !.focus = 0]
<1>1. UpdateConfig(s, config) = s6
  BY Zenon DEF UpdateConfig
<1>2. SameOpen(s1, s)
  BY ViewReplaced
<1> HIDE DEF s1
<1>3. SameOpen(s2, s1)
  BY <1>2, ViewReplaced DEF SameOpen
<1> HIDE DEF s2
<1>4. SameOpen(s3, s2)
  BY <1>3, ViewReplaced DEF SameOpen
<1> HIDE DEF s3
<1>5. SameOpen(s4, s3)
  BY <1>4, ViewReplaced DEF SameOpen
<1> HIDE DEF s4
<1>6. SameOpen(s5, s4)
  BY <1>5, ViewReplaced DEF SameOpen
<1> HIDE DEF s5
<1>7. SameOpen(s6, s5)
  BY <1>6, ViewReplaced DEF SameOpen
<1> HIDE DEF s6
<1> QED
  BY <1>1, <1>2, <1>3, <1>4, <1>5, <1>6, <1>7 DEF SameOpen

LEMMA RestartKeepsInv ==
    ASSUME SetupInv, Restart
    PROVE  SetupInv'
<1> USE DEF SetupInv
<1>1. /\ console.at = "restart" /\ ~InInput(scr) /\ scr.pending = NoPending
      /\ UNCHANGED <<disk, meant, acl, held, raced>>
  BY DEF Restart, FormsHoldInput
<1>2. PICK u : /\ SetupScreenOK(u) /\ u.form = scr.form /\ u.confirming = scr.confirming /\ u.pending = scr.pending
               /\ scr' = [u EXCEPT !.restart = FALSE]
  <2>1. CASE scr' = [UpdateConfig(scr, disk) EXCEPT !.restart = FALSE]
    <3> DEFINE v == UpdateConfig(scr, disk)
    <3>1. SetupScreenOK(v) /\ v.form = scr.form /\ v.confirming = scr.confirming /\ v.pending = scr.pending
      BY ConfigReplaced DEF SameOpen
    <3> HIDE DEF v
    <3> QED
      BY <2>1, <3>1 DEF v
  <2>2. CASE scr' = [scr EXCEPT !.restart = FALSE]
    BY <2>2
  <2> QED
    BY <2>1, <2>2 DEF Restart
<1>3. /\ SetupScreenOK(scr') /\ scr'.form = scr.form /\ scr'.confirming = scr.confirming
      /\ scr'.pending = NoPending /\ scr'.restart = FALSE
  BY <1>1, <1>2 DEF SetupScreenOK
<1>4. console' \in [at : {"loop"}, on : {"setup", "other"}, input : BOOLEAN, diagnostic : BOOLEAN]
  BY DEF Restart
<1>5. ~InInput(scr')
  BY <1>1, <1>3 DEF InInput
<1> QED
  BY <1>1, <1>3, <1>4, <1>5 DEF FormsHoldInput, NothingUndone, HeldOK, InInput

LEMMA EditorKeepsInv ==
    ASSUME SetupInv, Editor
    PROVE  SetupInv'
<1> USE DEF SetupInv
<1>1. /\ console.at = "editor" /\ ~InInput(scr) /\ scr.pending = NoPending /\ scr.restart = FALSE
      /\ UNCHANGED <<disk, meant, acl, scr, held, raced>>
  BY DEF Editor, FormsHoldInput
<1>2. console' \in [at : {"loop"}, on : {"setup", "other"}, input : BOOLEAN, diagnostic : BOOLEAN]
  BY DEF Editor
<1> QED
  BY <1>1, <1>2 DEF FormsHoldInput, NothingUndone, HeldOK, InInput, SetupScreenOK

LEMMA RunInitKeepsInv ==
    ASSUME SetupInv, RunInit
    PROVE  SetupInv'
<1> USE DEF SetupInv
<1>1. /\ console.at = "init" /\ ~InInput(scr) /\ scr.pending = NoPending /\ scr.restart = FALSE
      /\ UNCHANGED <<acl, held, raced>>
  BY DEF RunInit, FormsHoldInput
<1>2. console' \in [at : {"loop"}, on : {"setup", "other"}, input : BOOLEAN, diagnostic : BOOLEAN]
  BY DEF RunInit
<1>3. /\ disk' \in FileContents /\ NothingUndone'
      /\ scr' = scr \/ scr' = UpdateConfig(scr, disk')
  <2>1. CASE /\ disk' = Initialised
             /\ meant' = [k \in Lists |-> IF k = "secret" THEN meant[k] ELSE {}]
             /\ scr' = UpdateConfig(scr, disk')
    BY <1>1, <2>1, InitialisedKeeps
  <2>2. CASE UNCHANGED <<disk, meant, scr>>
    BY <1>1, <2>2 DEF NothingUndone
  <2> QED
    BY <2>1, <2>2 DEF RunInit
<1>4. /\ SetupScreenOK(scr') /\ scr'.form = scr.form /\ scr'.confirming = scr.confirming
      /\ scr'.pending = NoPending /\ scr'.restart = FALSE
  BY <1>1, <1>3, ConfigReplaced DEF SameOpen
<1> QED
  BY <1>1, <1>2, <1>3, <1>4 DEF FormsHoldInput, HeldOK, InInput

\* A tick that leaves alone what is open, what is pending and the marks.
LEMMA TickKeepsInv ==
    ASSUME SetupInv, UNCHANGED <<disk, meant, acl, console, held, raced>>, console.at = "loop",
           SetupScreenOK(scr'), scr'.form = scr.form, scr'.confirming = scr.confirming,
           scr'.pending = scr.pending, scr'.restart = scr.restart
    PROVE  SetupInv'
  BY DEF SetupInv, FormsHoldInput, NothingUndone, HeldOK, InInput

LEMMA TicksKeepInv ==
    ASSUME SetupInv, UpgradeAuth \/ TickPolicy \/ TickSecrets \/ TickPresets
    PROVE  SetupInv'
<1>1. SetupScreenOK(scr)
  BY DEF SetupInv
<1>2. CASE UpgradeAuth
  BY <1>1, <1>2, ConfigReplaced, TickKeepsInv DEF UpgradeAuth, SameOpen
<1>3. CASE TickPolicy
  <2>1. PICK a, n : scr' = [scr EXCEPT !.acl = a, !.aclFetched = TRUE, !.focus = n]
    <3> DEFINE seen == [scr EXCEPT !.acl = acl, !.aclFetched = TRUE]
               len == Cardinality(ActionsShown(seen))
               n == IF seen.focus > len THEN len ELSE seen.focus
    <3>1. scr' = [seen EXCEPT !.focus = n]
      BY <1>3, Zenon DEF TickPolicy
    <3> HIDE DEF n
    <3> QED
      BY <3>1
  <2>2. /\ SetupScreenOK(scr') /\ scr'.form = scr.form /\ scr'.confirming = scr.confirming
        /\ scr'.pending = scr.pending /\ scr'.restart = scr.restart
    BY <1>1, <2>1 DEF SetupScreenOK
  <2> QED
    BY <1>3, <2>2, TickKeepsInv DEF TickPolicy
<1>4. CASE TickSecrets
  <2>1. PICK x : \/ scr' = [scr EXCEPT !.secretsFetched = TRUE, !.secrets = x]
                 \/ scr' = [scr EXCEPT !.secretsFetched = TRUE]
    BY <1>4 DEF TickSecrets
  <2>2. /\ SetupScreenOK(scr') /\ scr'.form = scr.form /\ scr'.confirming = scr.confirming
        /\ scr'.pending = scr.pending /\ scr'.restart = scr.restart
    BY <1>1, <2>1 DEF SetupScreenOK
  <2> QED
    BY <1>4, <2>2, TickKeepsInv DEF TickSecrets
<1>5. CASE TickPresets
  <2>1. PICK x : scr' = [scr EXCEPT !.presetsFetched = TRUE, !.presets = Presets, !.sel = x]
    BY <1>5, Zenon DEF TickPresets
  <2>2. /\ SetupScreenOK(scr') /\ scr'.form = scr.form /\ scr'.confirming = scr.confirming
        /\ scr'.pending = scr.pending /\ scr'.restart = scr.restart
    BY <1>1, <2>1 DEF SetupScreenOK
  <2> QED
    BY <1>5, <2>2, TickKeepsInv DEF TickPresets
<1> QED
  BY <1>2, <1>3, <1>4, <1>5

LEMMA OutsideKeepsInv ==
    ASSUME SetupInv, Outside
    PROVE  SetupInv'
<1>1. UNCHANGED <<console, scr, held>>
  BY DEF Outside
<1>2. disk \in FileContents /\ NothingUndone /\ HeldOK /\ acl \in [Principals -> SUBSET Actions]
  BY DEF SetupInv
<1>3. ASSUME disk' \in FileContents, NothingUndone', HeldOK', acl' \in [Principals -> SUBSET Actions]
      PROVE  SetupInv'
  BY <1>1, <1>3 DEF SetupInv, FormsHoldInput, InInput, SetupScreenOK
<1>4. ASSUME UNCHANGED acl, NEW k \in Lists, NEW i \in ItemsOf[k],
             LET edited == IF i \in disk.lists[k] THEN disk.lists[k] \ {i} ELSE disk.lists[k] \cup {i}
             IN /\ disk' = [disk EXCEPT !.lists[k] = edited]
                /\ meant' = [meant EXCEPT ![k] = edited]
                /\ raced' = (raced \/ (console.at = "save" /\ k \in FileLists(scr)))
      PROVE  SetupInv'
  <2> DEFINE edited == IF i \in disk.lists[k] THEN disk.lists[k] \ {i} ELSE disk.lists[k] \cup {i}
  <2>1. edited \in SUBSET Nat
    <3>1. i \in Nat
      BY SetupAssumption DEF SetupAssumption, Lists
    <3>2. disk.lists[k] \in SUBSET Nat
      BY <1>2 DEF FileContents
    <3> QED
      BY <3>1, <3>2
  <2>2. /\ disk' = [disk EXCEPT !.lists[k] = edited] /\ meant' = [meant EXCEPT ![k] = edited]
        /\ raced' = (raced \/ (console.at = "save" /\ k \in FileLists(scr)))
    BY <1>4
  <2> HIDE DEF edited
  <2>3. /\ disk' \in FileContents
        /\ \A j \in Lists : j # k => disk'.lists[j] = disk.lists[j]
        /\ disk.lists = meant => disk'.lists = meant'
    BY <1>2, <2>1, <2>2 DEF FileContents
  <2>4. NothingUndone'
    BY <1>2, <2>2, <2>3 DEF NothingUndone
  <2>5. HeldOK'
    <3>1. FileLists(scr) \subseteq Lists
      BY DEF FileLists, Lists
    <3>2. raced' \in BOOLEAN /\ (~raced' => ~raced /\ (console.at = "save" => k \notin FileLists(scr)))
      BY <1>2, <2>2 DEF HeldOK
    <3>3. FileLists(scr') = FileLists(scr) /\ console'.at = console.at /\ held' = held
      BY <1>1
    <3> QED
      BY <1>2, <2>3, <3>1, <3>2, <3>3 DEF HeldOK
  <2> QED
    BY <1>2, <1>3, <1>4, <2>3, <2>4, <2>5
<1>5. CASE UNCHANGED <<disk, meant, raced>> /\ \E p \in Principals, a \in Actions :
              acl' = [acl EXCEPT ![p] = IF a \in @ THEN @ \ {a} ELSE @ \cup {a}]
  <2>1. acl' \in [Principals -> SUBSET Actions]
    BY <1>2, <1>5
  <2>2. NothingUndone' /\ HeldOK'
    BY <1>1, <1>2, <1>5 DEF NothingUndone, HeldOK
  <2> QED
    BY <1>2, <1>3, <1>5, <2>1, <2>2
<1> QED
  BY <1>4, <1>5 DEF Outside

LEMMA SetupInitInv ==
    ASSUME SetupInit
    PROVE  SetupInv
<1>1. SetupAssumption
  BY SetupAssumption
<1>2. disk \in FileContents /\ NothingUndone
  <2> DEFINE lists == [k \in Lists |-> IF k = "secret" THEN {} ELSE ItemsOf[k]]
  <2>1. lists \in [Lists -> SUBSET Nat]
    BY <1>1 DEF SetupAssumption, Lists
  <2>2. disk = [lists |-> lists, sops |-> FALSE] /\ meant = disk.lists
    BY DEF SetupInit
  <2> HIDE DEF lists
  <2> QED
    BY <2>1, <2>2 DEF NothingUndone, FileContents
<1>3. acl \in [Principals -> SUBSET Actions]
  BY DEF SetupInit
<1>4. /\ SetupScreenOK(scr) /\ scr.pending = NoPending /\ scr.restart = FALSE /\ ~InInput(scr)
  <2>1. FormOK(NoForm) /\ NoForm.kind = "none"
    BY NewFormsOK
  <2> QED
    BY <2>1 DEF SetupInit, SetupScreenOK, InInput
<1>5. console = [at |-> "loop", on |-> "setup", input |-> FALSE, diagnostic |-> FALSE]
  BY DEF SetupInit
<1>6. HeldOK
  BY <1>2, <1>5 DEF SetupInit, HeldOK
<1> QED
  BY <1>2, <1>3, <1>4, <1>5, <1>6 DEF SetupInv, FormsHoldInput

\* What SetupInv says holds of every behaviour of the setup screen and its loop.
THEOREM SetupInvariant == SetupSpec => []SetupInv
<1>1. SetupInit => SetupInv
  BY SetupInitInv
<1>2. SetupInv /\ [SetupNext]_setupVars => SetupInv'
  <2> SUFFICES ASSUME SetupInv, [SetupNext]_setupVars PROVE SetupInv'
    OBVIOUS
  <2>1. CASE UNCHANGED setupVars
    BY <2>1 DEF setupVars, SetupInv, FormsHoldInput, NothingUndone, HeldOK, InInput, SetupScreenOK
  <2>2. ASSUME NEW key \in SetupKeys \ {"digit"}, SetupKey(key, "good", 1) PROVE SetupInv'
    BY <2>2, SetupKeyKeepsInv
  <2>3. ASSUME NEW n \in 1 .. 6, SetupKey("digit", "good", n) PROVE SetupInv'
    BY <2>3, SetupKeyKeepsInv
  <2>4. ASSUME NEW text, SetupKey("enter", text, 1) PROVE SetupInv'
    BY <2>4, SetupKeyKeepsInv
  <2> QED
    BY <2>1, <2>2, <2>3, <2>4, LoadDocKeepsInv, SaveDocKeepsInv, ActKeepsInv, RestartKeepsInv, EditorKeepsInv, RunInitKeepsInv,
       TicksKeepInv, OutsideKeepsInv, Zenon DEF SetupNext
<1> QED BY <1>1, <1>2, PTL DEF SetupSpec

LEMMA SetupInvIsSafe ==
    ASSUME SetupInv
    PROVE  SetupTypeOK /\ SetupSafe
<1>1. scr.tab \in {SubTabs[n] : n \in 1 .. 6}
  <2>1. {"overview", "principal", "operator", "webhook", "secret", "preset"} \subseteq {SubTabs[n] : n \in 1 .. 6}
    BY DEF SubTabs
  <2> QED
    BY <2>1 DEF SetupInv, SetupScreenOK
<1>2. SetupTypeOK
  BY <1>1 DEF SetupTypeOK, SetupInv, HeldOK, FileContents, SetupScreenOK, FormOK
<1>3. NothingWaits
  BY DEF NothingWaits, SetupInv
<1> QED
  BY <1>2, <1>3 DEF SetupSafe, SetupInv

--------------------------------------------------------------------------------
(* The allowlists screen.                                                      *)

\* What a key may do to a list: the answer says whether a dialog is open after it,
\* and a removal that is to be sent is of the active action's list.
PanelAnswerOK(p, r) ==
    /\ PanelOK(r.p)
    /\ r.a \in {"noop", "begin", "end", "async"}
    /\ r.a = "noop" => (PanelModal(r.p) <=> PanelModal(p))
    /\ r.a = "begin" => PanelModal(r.p)
    /\ r.a \in {"end", "async"} => ~PanelModal(r.p)
    /\ r.a # "async" => r.p.pending = p.pending
    /\ r.a = "async" => /\ r.p.pending \in {"add", "remove", "clear"}
                        /\ r.p.pending = "remove" => ActiveAction(r.p) = {r.p.whose}

LEMMA PanelHasFields ==
    ASSUME NEW p, PanelOK(p)
    PROVE  PanelFields(p)
  BY DEF PanelOK

LEMMA NothingPressed ==
    ASSUME NEW p, PanelOK(p)
    PROVE  PanelAnswerOK(p, Shows(p, "noop"))
  BY DEF PanelAnswerOK, Shows

LEMMA DialogOpened ==
    ASSUME NEW p, PanelOK(p), NEW d \in {"add", "remove", "clear"}
    PROVE  PanelAnswerOK(p, Shows([p EXCEPT !.dialog = d], "begin"))
  BY DEF PanelAnswerOK, PanelOK, PanelFields, PanelModal, Shows, ActiveAction

LEMMA DialogEnded ==
    ASSUME NEW p, PanelOK(p)
    PROVE  PanelAnswerOK(p, Ended(p))
  BY DEF PanelAnswerOK, PanelOK, PanelFields, PanelModal, Ended, Shows, ActiveAction

LEMMA ChangeSent ==
    ASSUME NEW p, PanelOK(p), NEW what \in {"add", "remove", "clear"}, NEW value, NEW whose,
           what = "remove" => ActiveAction(p) = {whose}
    PROVE  PanelAnswerOK(p, Shows([p EXCEPT !.dialog = "none", !.pending = what, !.value = value,
                                            !.whose = whose], "async"))
  BY DEF PanelAnswerOK, PanelOK, PanelFields, PanelModal, Shows, ActiveAction

LEMMA QuestionKeyOK ==
    ASSUME NEW p, PanelOK(p), NEW key
    PROVE  PanelAnswerOK(p, QuestionKey(p, key))
<1>1. PanelAnswerOK(p, Ended(p))
  BY DialogEnded
<1>2. PanelAnswerOK(p, Sends(p, "clear", 0))
  BY ChangeSent DEF Sends
<1>3. ASSUME SelectedValue(p) # {}
      PROVE  PanelAnswerOK(p, Sends(p, "remove", p.items[p.selected]))
  <2>1. ActiveAction(p) = {p.owner}
    <3>1. p.selected \in 1 .. Len(p.items)
      BY <1>3 DEF SelectedValue
    <3>2. p.items # <<>>
      BY <3>1
    <3> QED
      BY <3>2 DEF PanelOK
  <2> QED
    BY <2>1, ChangeSent DEF Sends
<1> QED
  BY <1>1, <1>2, <1>3, Zenon DEF QuestionKey

LEMMA AddKeyOK ==
    ASSUME NEW p, PanelOK(p), NEW key, NEW value
    PROVE  PanelAnswerOK(p, AddKey(p, key, value))
<1>1. PanelAnswerOK(p, Ended(p)) /\ PanelAnswerOK(p, Shows(p, "noop"))
  BY DialogEnded, NothingPressed
<1>2. PanelAnswerOK(p, Shows([p EXCEPT !.dialog = "none", !.pending = "add", !.value = value, !.whose = 0], "async"))
  BY ChangeSent
<1> QED
  BY <1>1, <1>2, Zenon DEF AddKey

LEMMA SwitchActionOK ==
    ASSUME NEW p, PanelOK(p), NEW n
    PROVE  /\ PanelOK(SwitchAction(p, n))
           /\ SwitchAction(p, n).dialog = p.dialog /\ SwitchAction(p, n).pending = p.pending
<1> DEFINE t == SwitchAction(p, n)
<1>1. /\ PanelFields(t) /\ t.actions = p.actions /\ t.items = <<>> /\ t.selected = 1 /\ t.dialog = p.dialog
      /\ t.matches = p.matches /\ t.pick = p.pick /\ t.pending = p.pending
  BY PanelHasFields DEF PanelFields, SwitchAction
<1> HIDE DEF t
<1> QED
  BY <1>1 DEF PanelOK, PanelFields, t

LEMMA JumpMatchesOK ==
    ASSUME NEW p, PanelOK(p), NEW query
    PROVE  JumpMatches(p, query) # <<>> => Len(JumpMatches(p, query)) \in Nat \ {0}
<1> DEFINE K == {n \in 1 .. Len(p.actions) : query \in {0, p.actions[n]}}
<1>1. p.actions \in Seq(Nat)
  <2>1. <<>> \in Seq(Nat) /\ Registered \in Seq(Nat)
    BY PanelAssumption, EmptySeq DEF PanelAssumption
  <2> QED
    BY <2>1 DEF PanelOK
<1>2. IsFiniteSet(K) /\ \A i \in K : i \in Nat
  BY <1>1, IndexSets, LenProperties
<1>3. JumpMatches(p, query) = Rows(K)
  BY DEF JumpMatches
<1> HIDE DEF K
<1> QED
  BY <1>2, <1>3, RowsHaveLength

LEMMA MatchesReplaced ==
    ASSUME NEW p, PanelOK(p), NEW found, found # <<>> => Len(found) \in Nat \ {0}
    PROVE  LET t == [p EXCEPT !.matches = found, !.pick = 1]
           IN PanelOK(t) /\ t.dialog = p.dialog /\ t.pending = p.pending
<1> DEFINE t == [p EXCEPT !.matches = found, !.pick = 1]
<1>1. /\ PanelFields(t) /\ t.actions = p.actions /\ t.active = p.active /\ t.owner = p.owner
      /\ t.items = p.items /\ t.selected = p.selected /\ t.dialog = p.dialog
      /\ t.matches = found /\ t.pick = 1 /\ t.pending = p.pending
  BY PanelHasFields DEF PanelFields
<1> HIDE DEF t
<1>2. ActiveAction(t) = ActiveAction(p)
  BY <1>1 DEF ActiveAction
<1>3. PanelOK(t)
  BY <1>1, <1>2 DEF PanelOK, PanelFields
<1> QED
  BY <1>1, <1>3 DEF t

LEMMA JumpKeyOK ==
    ASSUME NEW p, PanelOK(p), p.dialog = "jump", NEW key, NEW query
    PROVE  PanelAnswerOK(p, JumpKey(p, key, query))
<1> DEFINE r == JumpKey(p, key, query)
           up == IF p.pick > 1 THEN p.pick - 1 ELSE 1
           down == IF p.pick < Len(p.matches) THEN p.pick + 1 ELSE p.pick
           found == JumpMatches(p, query)
<1>1. ASSUME NEW n, n \in 1 .. (IF p.matches = <<>> THEN 1 ELSE Len(p.matches))
      PROVE  PanelAnswerOK(p, Shows([p EXCEPT !.pick = n], "noop"))
  BY <1>1 DEF PanelAnswerOK, PanelOK, PanelFields, PanelModal, Shows, ActiveAction
<1>2. /\ p.pick \in 1 .. (IF p.matches = <<>> THEN 1 ELSE Len(p.matches))
      /\ p.matches # <<>> => Len(p.matches) \in Nat \ {0}
      /\ Len(<<>>) = 0
  BY DEF PanelOK
<1>3. /\ up \in 1 .. (IF p.matches = <<>> THEN 1 ELSE Len(p.matches))
      /\ down \in 1 .. (IF p.matches = <<>> THEN 1 ELSE Len(p.matches))
  BY <1>2
<1>4. PanelAnswerOK(p, Shows([p EXCEPT !.matches = found, !.pick = 1], "noop"))
  <2>1. found # <<>> => Len(found) \in Nat \ {0}
    BY JumpMatchesOK
  <2> QED
    BY <2>1, MatchesReplaced DEF PanelAnswerOK, PanelModal, Shows
<1>5. ASSUME NEW n PROVE PanelAnswerOK(p, Ended(SelectAction(p, n)))
  <2>1. PanelOK(SelectAction(p, n)) /\ SelectAction(p, n).pending = p.pending
    BY SwitchActionOK DEF SelectAction
  <2>2. PanelAnswerOK(SelectAction(p, n), Ended(SelectAction(p, n)))
    BY <2>1, DialogEnded
  <2> QED
    BY <2>1, <2>2 DEF PanelAnswerOK, Ended, Shows
<1>6. PanelAnswerOK(p, Ended(p))
  BY DialogEnded
<1>7. \/ r = Shows([p EXCEPT !.pick = up], "noop") \/ r = Shows([p EXCEPT !.pick = down], "noop")
      \/ r = Ended(SelectAction(p, p.matches[p.pick])) \/ r = Ended(p)
      \/ r = Shows([p EXCEPT !.matches = found, !.pick = 1], "noop")
  BY Zenon DEF JumpKey
<1> HIDE DEF r, up, down, found
<1> QED
  BY <1>1, <1>3, <1>4, <1>5, <1>6, <1>7 DEF r

LEMMA NormalKeyOK ==
    ASSUME NEW p, PanelOK(p), p.dialog = "none", NEW key
    PROVE  PanelAnswerOK(p, NormalKey(p, key))
<1> DEFINE r == NormalKey(p, key)
           all == JumpMatches(p, 0)
<1>1. \A n : PanelAnswerOK(p, Shows(SwitchAction(p, n), "noop"))
  BY SwitchActionOK DEF PanelAnswerOK, Shows, PanelModal
<1>2. PanelAnswerOK(p, Shows([p EXCEPT !.dialog = "jump", !.matches = all, !.pick = 1], "begin"))
  <2>1. all # <<>> => Len(all) \in Nat \ {0}
    BY JumpMatchesOK
  <2> DEFINE t == [p EXCEPT !.dialog = "jump", !.matches = all, !.pick = 1]
  <2> HIDE DEF all
  <2>2. /\ PanelFields(t) /\ t.actions = p.actions /\ t.active = p.active /\ t.owner = p.owner
        /\ t.items = p.items /\ t.selected = p.selected /\ t.dialog = "jump"
        /\ t.matches = all /\ t.pick = 1 /\ t.pending = p.pending
    BY PanelHasFields DEF PanelFields
  <2> HIDE DEF t
  <2>3. ActiveAction(t) = ActiveAction(p)
    BY <2>2 DEF ActiveAction
  <2>4. PanelOK(t)
    BY <2>1, <2>2, <2>3 DEF PanelOK, PanelFields
  <2> QED
    BY <2>2, <2>4 DEF PanelAnswerOK, PanelModal, Shows, t
<1>3. ASSUME NEW n \in Nat \ {0}, p.items # <<>> => n <= Len(p.items)
      PROVE  PanelAnswerOK(p, Shows([p EXCEPT !.selected = n], "noop"))
  BY <1>3 DEF PanelAnswerOK, PanelOK, PanelFields, PanelModal, Shows, ActiveAction
<1>4. /\ p.selected \in Nat \ {0}
      /\ p.items # <<>> => Len(p.items) \in Nat /\ p.selected <= Len(p.items)
  BY DEF PanelOK
<1>9. /\ p.selected > 1 /\ p.items # <<>> =>
            p.selected - 1 \in Nat \ {0} /\ p.selected - 1 <= Len(p.items)
      /\ p.items # <<>> /\ p.selected < Len(p.items) =>
            p.selected + 1 \in Nat \ {0} /\ p.selected + 1 <= Len(p.items)
      /\ p.selected + 1 \in Nat \ {0}
  BY <1>4
<1>5. /\ p.selected > 1 /\ p.items # <<>> => PanelAnswerOK(p, Shows([p EXCEPT !.selected = p.selected - 1], "noop"))
      /\ p.selected < Len(p.items) => PanelAnswerOK(p, Shows([p EXCEPT !.selected = p.selected + 1], "noop"))
  BY <1>3, <1>9
<1>6. PanelAnswerOK(p, Shows(p, "noop"))
  BY NothingPressed
<1>7. \A d \in {"add", "remove", "clear"} : PanelAnswerOK(p, Shows([p EXCEPT !.dialog = d], "begin"))
  BY DialogOpened
<1>8. \/ \E n : r = Shows(SwitchAction(p, n), "noop")
      \/ r = Shows([p EXCEPT !.dialog = "jump", !.matches = all, !.pick = 1], "begin")
      \/ /\ p.selected > 1 /\ p.items # <<>>
         /\ r = Shows([p EXCEPT !.selected = p.selected - 1], "noop")
      \/ p.selected < Len(p.items) /\ r = Shows([p EXCEPT !.selected = p.selected + 1], "noop")
      \/ \E d \in {"add", "remove", "clear"} : r = Shows([p EXCEPT !.dialog = d], "begin")
      \/ r = Shows(p, "noop")
  BY Zenon DEF NormalKey
<1> HIDE DEF r, all
<1> QED
  BY <1>1, <1>2, <1>5, <1>6, <1>7, <1>8, Zenon DEF r

LEMMA PanelKeyOK ==
    ASSUME NEW p, PanelOK(p), NEW key, NEW value
    PROVE  PanelAnswerOK(p, PanelKey(p, key, value))
<1>1. p.dialog \in {"none", "add", "remove", "clear", "jump"}
  BY DEF PanelOK
<1> QED
  BY <1>1, QuestionKeyOK, AddKeyOK, JumpKeyOK, NormalKeyOK DEF PanelKey

\* A list that is fetched belongs to the action it was fetched for.
LEMMA ItemsFetched ==
    ASSUME NEW p, PanelOK(p), NEW items, Len(items) \in Nat, items # <<>> => Len(items) # 0,
           NEW a, ActiveAction(p) = {a}
    PROVE  LET t == Clamped([p EXCEPT !.items = items, !.owner = a])
           IN PanelOK(t) /\ t.dialog = p.dialog /\ t.pending = p.pending
<1> DEFINE u == [p EXCEPT !.items = items, !.owner = a]
           n == IF u.items = <<>> THEN 1 ELSE IF u.selected > Len(u.items) THEN Len(u.items) ELSE u.selected
           t == [u EXCEPT !.selected = n]
<1>1. /\ PanelFields(u) /\ u.actions = p.actions /\ u.active = p.active /\ u.owner = a
      /\ u.items = items /\ u.selected = p.selected /\ u.dialog = p.dialog
      /\ u.matches = p.matches /\ u.pick = p.pick /\ u.pending = p.pending
  BY PanelHasFields DEF PanelFields
<1>2. Clamped(u) = t
  BY Zenon DEF Clamped
<1> HIDE DEF u
<1>3. n \in Nat \ {0} /\ (items # <<>> => n <= Len(items))
  <2>1. p.selected \in Nat \ {0}
    BY DEF PanelOK
  <2> QED
    BY <1>1, <2>1
<1> HIDE DEF n
<1>4. /\ PanelFields(t) /\ t.actions = p.actions /\ t.active = p.active /\ t.owner = a
      /\ t.items = items /\ t.selected = n /\ t.dialog = p.dialog
      /\ t.matches = p.matches /\ t.pick = p.pick /\ t.pending = p.pending
  BY <1>1 DEF PanelFields
<1> HIDE DEF t
<1>5. ActiveAction(t) = {a}
  BY <1>4 DEF ActiveAction
<1>6. PanelOK(t)
  BY <1>3, <1>4, <1>5 DEF PanelOK, PanelFields
<1> QED
  BY <1>2, <1>3, <1>4, <1>6 DEF u

LEMMA PressKeyKeepsInv ==
    ASSUME LearnedInv, NEW key, NEW value, PressKey(key, value)
    PROVE  LearnedInv'
<1> USE DEF LearnedInv
<1>1. focus.at = "loop" /\ UNCHANGED <<learned, changed>>
  BY DEF PressKey
<1>2. CASE ~focus.input /\ focus' = [focus EXCEPT !.at = "quit"] /\ UNCHANGED <<panel, mode>>
  BY <1>1, <1>2 DEF PanelModal
<1>3. CASE ~PanelModal(panel[mode]) /\ mode' \in Modes \ {mode} /\ UNCHANGED <<panel, focus>>
  BY <1>1, <1>3 DEF PanelModal
<1>4. CASE /\ panel' = [panel EXCEPT ![mode] = PanelKey(panel[mode], key, value).p]
           /\ LET shown == PanelKey(panel[mode], key, value)
              IN focus' = CASE shown.a = "begin" -> [focus EXCEPT !.input = TRUE]
                            [] shown.a = "end" -> [focus EXCEPT !.input = FALSE]
                            [] shown.a = "async" -> [focus EXCEPT !.input = FALSE, !.at = "act"]
                            [] OTHER -> focus
           /\ UNCHANGED mode
  <2> DEFINE r == PanelKey(panel[mode], key, value)
  <2>1. PanelAnswerOK(panel[mode], r)
    BY PanelKeyOK
  <2> HIDE DEF r
  <2>2. /\ mode' = mode /\ panel' = [panel EXCEPT ![mode] = r.p]
        /\ r.a = "begin" => focus' = [focus EXCEPT !.input = TRUE]
        /\ r.a = "end" => focus' = [focus EXCEPT !.input = FALSE]
        /\ r.a = "async" => focus' = [focus EXCEPT !.input = FALSE, !.at = "act"]
        /\ r.a = "noop" => focus' = focus
    BY <1>4, Zenon DEF r
  <2>3. /\ panel' = [m \in Modes |-> panel'[m]] /\ panel'[mode] = r.p
        /\ \A m \in Modes \ {mode} : panel'[m] = panel[m]
    BY <2>2
  <2>4. \A m \in Modes : PanelOK(panel'[m])
    BY <2>1, <2>3 DEF PanelAnswerOK
  <2>5. /\ focus' \in [at : {"loop", "act", "quit"}, input : BOOLEAN]
        /\ focus'.at = "act" <=> r.a = "async"
        /\ focus'.at \in {"loop", "act"}
        /\ r.a = "begin" => focus'.input
        /\ r.a \in {"end", "async"} => ~focus'.input
        /\ r.a = "noop" => focus'.input = focus.input
    BY <1>1, <2>1, <2>2 DEF PanelAnswerOK
  <2>6. focus'.at = "act" =>
          /\ ~focus'.input /\ ~PanelModal(panel'[mode])
          /\ panel'[mode].pending \in {"add", "remove", "clear"}
          /\ panel'[mode].pending = "remove" => ActiveAction(panel'[mode]) = {panel'[mode].whose}
    BY <2>1, <2>3, <2>5 DEF PanelAnswerOK
  <2>7. focus'.at = "loop" => /\ focus'.input <=> PanelModal(panel'[mode])
                              /\ panel'[mode].pending = "none"
    BY <1>1, <2>1, <2>3, <2>5 DEF PanelAnswerOK
  <2>8. \A m \in Modes \ {mode} : ~PanelModal(panel'[m]) /\ panel'[m].pending = "none"
    BY <2>3
  <2> QED
    BY <1>1, <2>2, <2>3, <2>4, <2>5, <2>6, <2>7, <2>8
<1> QED
  BY <1>2, <1>3, <1>4 DEF PressKey

LEMMA SendChangeKeepsInv ==
    ASSUME LearnedInv, SendChange
    PROVE  LearnedInv'
<1> USE DEF LearnedInv
<1> DEFINE p == panel[mode]
           q == [p EXCEPT !.pending = "none"]
<1>1. /\ focus.at = "act" /\ focus' = [focus EXCEPT !.at = "loop"] /\ mode' = mode
      /\ panel' = [panel EXCEPT ![mode] = q]
  BY DEF SendChange
<1>2. PanelOK(p) /\ ~focus.input /\ ~PanelModal(p) /\ p.pending \in {"add", "remove", "clear"}
  BY <1>1
<1>3. PanelOK(q) /\ q.dialog = p.dialog /\ q.pending = "none"
  <2> HIDE DEF p
  <2>1. /\ PanelFields(q) /\ q.actions = p.actions /\ q.active = p.active /\ q.owner = p.owner
        /\ q.items = p.items /\ q.selected = p.selected /\ q.dialog = p.dialog
        /\ q.matches = p.matches /\ q.pick = p.pick /\ q.pending = "none"
    BY <1>2, PanelHasFields DEF PanelFields
  <2> HIDE DEF q
  <2>2. ActiveAction(q) = ActiveAction(p)
    BY <2>1 DEF ActiveAction
  <2> QED
    BY <1>2, <2>1, <2>2 DEF PanelOK
<1> HIDE DEF q
<1>4. /\ panel' = [m \in Modes |-> panel'[m]] /\ panel'[mode] = q
      /\ \A m \in Modes \ {mode} : panel'[m] = panel[m]
  BY <1>1
<1>5. \A m \in Modes : PanelOK(panel'[m])
  BY <1>3, <1>4
<1>6. learned' \in [Modes -> [ActionSet -> SUBSET Learnable]] /\ changed'.whose = changed'.action
  <2>1. CASE ActiveAction(p) = {}
    BY <2>1 DEF SendChange
  <2>2. CASE ActiveAction(p) # {}
    <3> DEFINE a == p.actions[p.active]
               done == CASE p.pending = "add" -> learned[mode][a] \cup ({p.value} \cap Learnable)
                         [] p.pending = "remove" -> learned[mode][a] \ {p.value}
                         [] p.pending = "clear" -> {}
    <3>1. /\ learned' \in {learned, [learned EXCEPT ![mode][a] = done]}
          /\ changed' = [action |-> a, whose |-> IF p.pending = "remove" THEN p.whose ELSE a]
      BY <2>2 DEF SendChange
    <3>2. ActiveAction(p) = {a}
      BY <2>2 DEF ActiveAction
    <3>3. changed'.whose = changed'.action
      <4>1. p.pending = "remove" => p.whose = a
        BY <1>1, <3>2
      <4> HIDE DEF a, p
      <4> QED
        BY <3>1, <4>1
    <3>4. learned' \in [Modes -> [ActionSet -> SUBSET Learnable]]
      <4>0. a \in ActionSet
        <5>1. p.actions \in {<<>>, Registered} /\ p.active \in 1 .. Len(p.actions)
          BY <1>2, <2>2 DEF PanelOK, ActiveAction
        <5> QED
          BY <5>1 DEF ActionSet
      <4>1. done \in SUBSET Learnable
        <5>1. learned[mode][a] \in SUBSET Learnable
          BY <4>0
        <5> QED
          BY <1>2, <5>1
      <4> HIDE DEF a, done
      <4>2. CASE learned' = learned
        BY <4>2
      <4>3. CASE learned' = [learned EXCEPT ![mode][a] = done]
        <5> DEFINE row == [learned[mode] EXCEPT ![a] = done]
        <5>1. row \in [ActionSet -> SUBSET Learnable]
          <6>1. learned[mode] \in [ActionSet -> SUBSET Learnable]
            OBVIOUS
          <6> QED
            BY <4>0, <4>1, <6>1
        <5>2. learned' = [learned EXCEPT ![mode] = row]
          BY <4>3
        <5> HIDE DEF row
        <5> QED
          BY <5>1, <5>2
      <4> QED
        BY <3>1, <4>2, <4>3
    <3> QED
      BY <3>3, <3>4
  <2> QED
    BY <2>1, <2>2
<1>7. /\ focus' \in [at : {"loop", "act", "quit"}, input : BOOLEAN]
      /\ focus'.at = "loop" /\ ~focus'.input
  BY <1>1, <1>2
<1>8. ~PanelModal(panel'[mode]) /\ panel'[mode].pending = "none"
  BY <1>2, <1>3, <1>4 DEF PanelModal
<1> QED
  BY <1>1, <1>4, <1>5, <1>6, <1>7, <1>8

\* A tick changes what one list shows, not its dialog or what is pending.
LEMMA FetchKeepsInv ==
    ASSUME LearnedInv, NEW t, PanelOK(t), t.dialog = panel[mode].dialog, t.pending = panel[mode].pending,
           focus.at = "loop", panel' = [panel EXCEPT ![mode] = t],
           UNCHANGED <<learned, mode, focus, changed>>
    PROVE  LearnedInv'
<1> USE DEF LearnedInv
<1>1. /\ panel' = [m \in Modes |-> panel'[m]] /\ panel'[mode] = t
      /\ \A m \in Modes \ {mode} : panel'[m] = panel[m]
  OBVIOUS
<1>2. \A m \in Modes : PanelOK(panel'[m])
  BY <1>1
<1>3. (PanelModal(panel'[mode]) <=> PanelModal(panel[mode])) /\ panel'[mode].pending = "none"
  BY <1>1 DEF PanelModal
<1>4. \A m \in Modes \ {mode} : ~PanelModal(panel'[m]) /\ panel'[m].pending = "none"
  BY <1>1
<1> QED
  BY <1>1, <1>2, <1>3, <1>4

LEMMA FetchActionsKeepsInv ==
    ASSUME LearnedInv, FetchActions
    PROVE  LearnedInv'
<1> DEFINE p == panel[mode]
           n == IF p.active > Len(Registered) THEN 1 ELSE p.active
           t == [p EXCEPT !.actions = Registered, !.active = n]
<1>1. PanelOK(p) /\ p.actions = <<>>
  BY DEF LearnedInv, FetchActions
<1>2. p.items = <<>>
  <2>1. ActiveAction(p) = {}
    BY <1>1 DEF ActiveAction
  <2> QED
    BY <1>1, <2>1 DEF PanelOK
<1>3. panel' = [panel EXCEPT ![mode] = t]
  BY DEF FetchActions, LearnedInv
<1> HIDE DEF p, n
<1>4. /\ PanelFields(t) /\ t.actions = Registered /\ t.items = <<>>
      /\ t.selected = p.selected /\ t.dialog = p.dialog
      /\ t.matches = p.matches /\ t.pick = p.pick /\ t.pending = p.pending
  BY <1>1, <1>2, PanelHasFields DEF PanelFields
<1> HIDE DEF t
<1>5. PanelOK(t)
  BY <1>1, <1>4 DEF PanelOK
<1> QED
  BY <1>3, <1>4, <1>5, FetchKeepsInv DEF FetchActions, p

LEMMA FetchItemsKeepsInv ==
    ASSUME LearnedInv, FetchItems
    PROVE  LearnedInv'
<1> DEFINE p == panel[mode]
           a == p.actions[p.active]
           items == Rows(learned[mode][a])
           t == Clamped([p EXCEPT !.items = items, !.owner = a])
<1>1. PanelOK(p) /\ ActiveAction(p) = {a} /\ p.active \in 1 .. Len(p.actions)
  BY DEF LearnedInv, FetchItems, ActiveAction
<1>2. a \in ActionSet
  <2>1. p.actions = Registered
    <3>1. Len(<<>>) = 0
      OBVIOUS
    <3>2. p.actions # <<>>
      <4> HIDE DEF p
      <4> QED
        BY <1>1, <3>1
    <3> QED
      BY <1>1, <3>2 DEF PanelOK
  <2> QED
    BY <1>1, <2>1 DEF ActionSet
<1>3. Len(items) \in Nat /\ (items # <<>> => Len(items) # 0)
  <2>1. learned[mode][a] \in SUBSET Learnable
    <3> HIDE DEF a
    <3> QED
      BY <1>2 DEF LearnedInv
  <2>2. IsFiniteSet(Learnable) /\ Learnable \subseteq Nat
    BY PanelAssumption DEF PanelAssumption
  <2> DEFINE S == learned[mode][a]
  <2> HIDE DEF S, a
  <2>3. IsFiniteSet(S) /\ \A i \in S : i \in Nat
    BY <2>1, <2>2, FS_Subset DEF S
  <2> QED
    BY <2>3, RowsHaveLength DEF S
<1>4. panel' = [panel EXCEPT ![mode] = t] /\ focus.at = "loop" /\ UNCHANGED <<learned, mode, focus, changed>>
  BY Zenon DEF FetchItems
<1> HIDE DEF p, a, items
<1>5. PanelOK(t) /\ t.dialog = p.dialog /\ t.pending = p.pending
  BY <1>1, <1>3, ItemsFetched
<1> HIDE DEF t
<1> QED
  BY <1>4, <1>5, FetchKeepsInv DEF p

LEMMA LearnedElsewhereKeepsInv ==
    ASSUME LearnedInv, LearnedElsewhere
    PROVE  LearnedInv'
<1>1. learned' \in [Modes -> [ActionSet -> SUBSET Learnable]]
  <2>1. PICK m \in Modes, a \in ActionSet, e \in Learnable :
           learned' = [learned EXCEPT ![m][a] = IF e \in @ THEN @ \ {e} ELSE @ \cup {e}]
    BY DEF LearnedElsewhere
  <2>2. learned[m][a] \in SUBSET Learnable /\ learned \in [Modes -> [ActionSet -> SUBSET Learnable]]
    BY DEF LearnedInv
  <2> DEFINE edited == IF e \in learned[m][a] THEN learned[m][a] \ {e} ELSE learned[m][a] \cup {e}
  <2>3. edited \in SUBSET Learnable /\ learned' = [learned EXCEPT ![m][a] = edited]
    BY <2>1, <2>2
  <2> HIDE DEF edited
  <2> QED
    BY <2>2, <2>3
<1>2. UNCHANGED <<panel, mode, focus, changed>>
  BY DEF LearnedElsewhere
<1> QED
  BY <1>1, <1>2 DEF LearnedInv, PanelModal

LEMMA LearnedInitInv ==
    ASSUME LearnedInit
    PROVE  LearnedInv
<1>1. PanelOK(NewPanel) /\ NewPanel.dialog = "none" /\ NewPanel.pending = "none"
  BY DEF PanelOK, PanelFields, NewPanel
<1>2. learned \in [Modes -> [ActionSet -> SUBSET Learnable]]
  BY DEF LearnedInit
<1>3. /\ panel = [m \in Modes |-> NewPanel] /\ mode \in Modes
      /\ focus = [at |-> "loop", input |-> FALSE] /\ changed = [action |-> 0, whose |-> 0]
  BY DEF LearnedInit, Modes
<1> QED
  BY <1>1, <1>2, <1>3 DEF LearnedInv, PanelModal

\* What LearnedInv says holds of every behaviour of the allowlists screen and its loop.
THEOREM LearnedScreenInvariant == LearnedSpec => []LearnedInv
<1>1. LearnedInit => LearnedInv
  BY LearnedInitInv
<1>2. LearnedInv /\ [LearnedNext]_learnedVars => LearnedInv'
  <2> SUFFICES ASSUME LearnedInv, [LearnedNext]_learnedVars PROVE LearnedInv'
    OBVIOUS
  <2>1. CASE UNCHANGED learnedVars
    BY <2>1 DEF learnedVars, LearnedInv, PanelModal
  <2> QED
    BY <2>1, PressKeyKeepsInv, SendChangeKeepsInv, FetchActionsKeepsInv, FetchItemsKeepsInv,
       LearnedElsewhereKeepsInv, Zenon DEF LearnedNext
<1> QED BY <1>1, <1>2, PTL DEF LearnedSpec

LEMMA LearnedInvIsSafe ==
    ASSUME LearnedInv
    PROVE  LearnedTypeOK /\ LearnedSafe
<1>1. ASSUME NEW m \in Modes
      PROVE  /\ panel[m].items # <<>> => ActiveAction(panel[m]) = {panel[m].owner} /\ SelectedValue(panel[m]) # {}
             /\ panel[m].dialog = "jump" => panel[m].pick \in 1 .. (IF panel[m].matches = <<>> THEN 1 ELSE Len(panel[m].matches))
             /\ panel[m].dialog \in {"none", "add", "remove", "clear", "jump"}
  <2> DEFINE p == panel[m]
  <2>1. PanelOK(p)
    BY DEF LearnedInv
  <2> HIDE DEF p
  <2>2. p.items # <<>> => ActiveAction(p) = {p.owner} /\ SelectedValue(p) # {}
    BY <2>1 DEF PanelOK, SelectedValue
  <2> QED
    BY <2>1, <2>2 DEF PanelOK, p
<1>2. EntriesAreOfActive
  BY <1>1, Zenon DEF EntriesAreOfActive
<1>3. RemovedFromItsList /\ LearnedHoldsInput
  BY DEF LearnedInv, RemovedFromItsList, LearnedHoldsInput
<1>4. LearnedTypeOK
  BY <1>1 DEF LearnedInv, LearnedTypeOK
<1> QED
  BY <1>2, <1>3, <1>4 DEF LearnedSafe

--------------------------------------------------------------------------------
(* The actions screen.                                                         *)

\* What a key may do to the screen: its answer says whether something is open.
BoardAnswerOK(b, r) ==
    /\ BoardOK(r.b)
    /\ r.a \in {"noop", "flash", "begin", "end", "async", "reload"}
    /\ r.a \in {"end", "reload"} => ~Modal(r.b)
    /\ r.a = "async" => r.b = b /\ b.edit.open
    /\ Modal(r.b) => Modal(b) \/ r.a = "begin"

Creating == {"none", "id", "provider", "method", "url", "fsops"}

LEMMA BoardKept ==
    ASSUME NEW b, BoardOK(b), NEW c, BoardFields(c), c.actions = b.actions,
           \/ c.selected = b.selected /\ c.detail = b.detail /\ c.fetched = b.fetched /\ c.refresh = b.refresh
           \/ c.detail = 0,
           c.create \in Creating, c.create \notin {"none", "id"} => c.newId \in ActionIds,
           c.edit = NoEdit \/ (EditOK(c.edit) /\ c.create = "none")
    PROVE  BoardOK(c)
  BY DEF BoardOK, SelectedAction, Creating

LEMMA NothingTyped ==
    ASSUME NEW b, BoardOK(b), NEW a \in {"noop", "flash"}
    PROVE  BoardAnswerOK(b, Said(b, a))
  BY DEF BoardAnswerOK, Said

\* The selection is moved, or a new list asked for: the detail is dropped.
LEMMA DetailDropped ==
    ASSUME NEW b, BoardOK(b), NEW c, BoardFields(c), c.actions = b.actions, c.detail = 0,
           c.create = b.create, c.newId = b.newId, c.edit = b.edit
    PROVE  BoardAnswerOK(b, Said(c, "noop"))
<1>1. BoardOK(c)
  BY BoardKept DEF BoardOK, Creating
<1>2. Modal(c) <=> Modal(b)
  BY DEF Modal
<1> QED
  BY <1>1, <1>2 DEF BoardAnswerOK, Said

\* The editor is replaced, opened or closed.
LEMMA EditReplaced ==
    ASSUME NEW b, BoardOK(b), NEW e, e = NoEdit \/ EditOK(e)
    PROVE  BoardOK([b EXCEPT !.create = "none", !.edit = e])
<1> DEFINE c == [b EXCEPT !.create = "none", !.edit = e]
<1>1. /\ BoardFields(c) /\ c.actions = b.actions /\ c.selected = b.selected /\ c.detail = b.detail
      /\ c.fetched = b.fetched /\ c.refresh = b.refresh /\ c.create = "none" /\ c.edit = e
  BY DEF BoardOK, BoardFields
<1> HIDE DEF c
<1>2. BoardOK(c)
  BY <1>1, BoardKept DEF Creating
<1> QED
  BY <1>2 DEF c

LEMMA WizardMoved ==
    ASSUME NEW b, BoardOK(b), b.edit = NoEdit, NEW step \in Creating, NEW id,
           step \notin {"none", "id"} => id \in ActionIds
    PROVE  BoardOK([b EXCEPT !.create = step, !.newId = id])
<1> DEFINE c == [b EXCEPT !.create = step, !.newId = id]
<1>1. /\ BoardFields(c) /\ c.actions = b.actions /\ c.selected = b.selected /\ c.detail = b.detail
      /\ c.fetched = b.fetched /\ c.refresh = b.refresh /\ c.create = step /\ c.newId = id /\ c.edit = NoEdit
  BY DEF BoardOK, BoardFields
<1> HIDE DEF c
<1>2. BoardOK(c)
  BY <1>1, BoardKept
<1> QED
  BY <1>2 DEF c

\* A new editor, of a manifest.
LEMMA EditOpened ==
    ASSUME NEW id \in ActionIds, NEW spec \in Manifest
    PROVE  EditOK(NewEdit(id, spec)) /\ NewEdit(id, spec).open
<1> DEFINE e == NewEdit(id, spec)
<1>1. /\ e \in [open : {TRUE}, id : ActionIds, spec : Manifest, read : Manifest, field : 1 .. 3,
                cursor : Nat \ {0}, editor : {"none", "number", "list"}, removing : BOOLEAN,
                discard : BOOLEAN, dirty : BOOLEAN]
      /\ e.field = 1 /\ e.spec = e.read /\ e.open
  BY DEF NewEdit
<1> HIDE DEF e
<1>2. ~OnList(e)
  BY <1>1 DEF OnList, Fields
<1> QED
  BY <1>1, <1>2 DEF EditOK, e

LEMMA NoEditIsClosed == NoEdit.open = FALSE
  BY DEF NoEdit

Edit ==
    [open : {TRUE}, id : ActionIds, spec : Manifest, read : Manifest, field : 1 .. 3,
     cursor : Nat \ {0}, editor : {"none", "number", "list"}, removing : BOOLEAN,
     discard : BOOLEAN, dirty : BOOLEAN]

LEMMA EditIsRecord ==
    ASSUME NEW e, EditOK(e)
    PROVE  /\ e \in Edit /\ e.open /\ ListLen(e) \in Nat
           /\ OnList(e) => e.cursor <= (IF ListLen(e) = 0 THEN 1 ELSE ListLen(e))
           /\ ~e.dirty => e.spec = e.read
<1>1. e \in Edit
  BY DEF EditOK, Edit
<1>2. e.spec.items \in Seq(Entries) /\ e.open
  BY <1>1 DEF Edit, Manifest
<1>3. ListLen(e) \in Nat
  BY <1>2 DEF ListLen
<1> QED
  BY <1>1, <1>2, <1>3 DEF EditOK

\* A step of the editor that leaves the manifest, the field and the cursor.
LEMMA EditKept ==
    ASSUME NEW e, EditOK(e), NEW f \in Edit, f.field = e.field, f.cursor = e.cursor,
           f.spec = e.spec, f.read = e.read, f.dirty = e.dirty
    PROVE  EditOK(f)
  BY EditIsRecord DEF EditOK, Edit, OnList, ListLen

LEMMA FlagsChanged ==
    ASSUME NEW e, EditOK(e), NEW on \in BOOLEAN, NEW which \in {"none", "number", "list"}
    PROVE  /\ EditOK([e EXCEPT !.editor = which])
           /\ EditOK([e EXCEPT !.removing = on])
           /\ EditOK([e EXCEPT !.discard = on])
<1>1. e \in Edit
  BY EditIsRecord
<1>2. EditOK([e EXCEPT !.editor = which])
  BY <1>1, EditKept DEF Edit
<1>3. EditOK([e EXCEPT !.removing = on])
  BY <1>1, EditKept DEF Edit
<1>4. EditOK([e EXCEPT !.discard = on])
  BY <1>1, EditKept DEF Edit
<1> QED
  BY <1>2, <1>3, <1>4

\* The draft is changed, and marked as changed.
LEMMA DraftChanged ==
    ASSUME NEW e, EditOK(e), NEW f \in Edit, f.dirty, f.field = e.field, f.cursor = e.cursor,
           ListLen(f) \in Nat, ListLen(f) >= ListLen(e)
    PROVE  EditOK(f)
<1>1. OnList(f) <=> OnList(e)
  BY DEF OnList
<1>2. ListLen(e) \in Nat /\ e.cursor \in Nat
  BY EditIsRecord DEF Edit
<1>3. OnList(f) => f.cursor <= (IF ListLen(f) = 0 THEN 1 ELSE ListLen(f))
  BY <1>1, <1>2, EditIsRecord
<1> QED
  BY <1>3 DEF EditOK, Edit

LEMMA CycleRiskOK ==
    ASSUME NEW e, EditOK(e)
    PROVE  EditOK(CycleRisk(e))
<1> DEFINE f == CycleRisk(e)
<1>1. e \in Edit /\ e.spec \in Manifest /\ e.spec.risk \in 0 .. 3 /\ ListLen(e) \in Nat
  BY EditIsRecord DEF Edit, Manifest
<1> DEFINE risk == (e.spec.risk + 1) % 4
<1>2. risk \in 0 .. 3
  BY <1>1
<1> DEFINE spec == [e.spec EXCEPT !.risk = risk]
<1>3. f = [e EXCEPT !.spec = spec, !.dirty = TRUE]
  BY <1>1 DEF CycleRisk, Edit, Manifest
<1> HIDE DEF risk
<1>4. spec \in Manifest /\ spec.items = e.spec.items
  BY <1>1, <1>2 DEF Manifest
<1> HIDE DEF spec, f
<1>5. f \in Edit /\ f.dirty /\ f.field = e.field /\ f.cursor = e.cursor /\ f.spec = spec
  BY <1>1, <1>3, <1>4 DEF Edit
<1>6. ListLen(f) = ListLen(e)
  BY <1>4, <1>5 DEF ListLen
<1> QED
  BY <1>1, <1>5, <1>6, DraftChanged DEF f

LEMMA ApplyNumericOK ==
    ASSUME NEW e, EditOK(e), NEW n \in Nat
    PROVE  EditOK(ApplyNumeric(e, n))
<1> DEFINE f == ApplyNumeric(e, n)
           spec == [e.spec EXCEPT !.num = n]
<1>1. e \in Edit /\ e.spec \in Manifest /\ ListLen(e) \in Nat
  BY EditIsRecord DEF Edit
<1>3. f = [e EXCEPT !.spec = spec, !.dirty = TRUE, !.editor = "none"]
  BY <1>1 DEF ApplyNumeric, Edit, Manifest
<1>4. spec \in Manifest /\ spec.items = e.spec.items
  BY <1>1 DEF Manifest
<1> HIDE DEF spec, f
<1>5. f \in Edit /\ f.dirty /\ f.field = e.field /\ f.cursor = e.cursor /\ f.spec = spec
  BY <1>1, <1>3, <1>4 DEF Edit
<1>6. ListLen(f) = ListLen(e)
  BY <1>4, <1>5 DEF ListLen
<1> QED
  BY <1>1, <1>5, <1>6, DraftChanged DEF f

LEMMA ListAddOK ==
    ASSUME NEW e, EditOK(e), NEW x \in Entries
    PROVE  EditOK(ListAdd(e, x))
<1> DEFINE f == ListAdd(e, x)
           items == Append(e.spec.items, x)
           spec == [e.spec EXCEPT !.items = items]
<1>1. e \in Edit /\ e.spec \in Manifest /\ ListLen(e) \in Nat /\ e.spec.items \in Seq(Entries)
  BY EditIsRecord DEF Edit, Manifest
<1>2. items \in Seq(Entries) /\ Len(items) = ListLen(e) + 1
  BY <1>1 DEF ListLen
<1>3. f = [e EXCEPT !.spec = spec, !.dirty = TRUE, !.editor = "none"]
  BY <1>1 DEF ListAdd, Edit, Manifest
<1> HIDE DEF items
<1>4. spec \in Manifest /\ spec.items = items
  BY <1>1, <1>2 DEF Manifest
<1> HIDE DEF spec, f
<1>5. f \in Edit /\ f.dirty /\ f.field = e.field /\ f.cursor = e.cursor /\ f.spec = spec
  BY <1>1, <1>3, <1>4 DEF Edit
<1>6. ListLen(f) = ListLen(e) + 1
  BY <1>2, <1>4, <1>5 DEF ListLen
<1> QED
  BY <1>1, <1>5, <1>6, DraftChanged DEF f

\* A removal leaves the cursor on an item, or at the start of a list without one.
LEMMA ListRemoveOK ==
    ASSUME NEW e, EditOK(e)
    PROVE  EditOK(ListRemove(e))
<1>1. e \in Edit /\ e.spec \in Manifest /\ ListLen(e) \in Nat /\ e.spec.items \in Seq(Entries) /\ e.cursor \in Nat \ {0}
  <2>1. e \in Edit /\ ListLen(e) \in Nat
    BY EditIsRecord
  <2>2. e.spec \in Manifest /\ e.cursor \in Nat \ {0}
    BY <2>1 DEF Edit
  <2> QED
    BY <2>1, <2>2 DEF Manifest
<1>2. CASE e.cursor \notin 1 .. ListLen(e)
  BY <1>2, FlagsChanged DEF ListRemove
<1>3. CASE e.cursor \in 1 .. ListLen(e)
  <2> DEFINE f == ListRemove(e)
             s == e.spec.items
             left == RemoveAt(s, e.cursor)
             place == IF e.cursor > Len(left) /\ left # <<>> THEN Len(left) ELSE e.cursor
             spec == [e.spec EXCEPT !.items = left]
  <2>1. left \in Seq(Entries) /\ Len(left) = ListLen(e) - 1
    <3> HIDE DEF s
    <3>1. s \in Seq(Entries) /\ e.cursor \in 1 .. Len(s) /\ ListLen(e) = Len(s)
      BY <1>1, <1>3 DEF s, ListLen
    <3>2. /\ SubSeq(s, 1, e.cursor - 1) \in Seq(Entries) /\ Len(SubSeq(s, 1, e.cursor - 1)) = e.cursor - 1
      BY <3>1, SubSeqProperties
    <3>3. /\ SubSeq(s, e.cursor + 1, Len(s)) \in Seq(Entries)
          /\ Len(SubSeq(s, e.cursor + 1, Len(s))) = Len(s) - e.cursor
      BY <3>1, SubSeqProperties
    <3>4. left = SubSeq(s, 1, e.cursor - 1) \o SubSeq(s, e.cursor + 1, Len(s))
      BY DEF RemoveAt
    <3> QED
      BY <3>1, <3>2, <3>3, <3>4, ConcatProperties
  <2>2. f = [e EXCEPT !.spec = spec, !.dirty = TRUE, !.removing = FALSE, !.cursor = place]
    BY <1>1, <1>3 DEF ListRemove, Edit, Manifest
  <2>3. Len(left) \in Nat /\ (left # <<>> => Len(left) # 0) /\ (left = <<>> => Len(left) = 0)
    <3> HIDE DEF left
    <3> QED
      BY <2>1, EmptySeq, LenProperties
  <2>4. place \in Nat \ {0} /\ place <= (IF Len(left) = 0 THEN 1 ELSE Len(left))
    <3> HIDE DEF left
    <3> QED
      BY <1>1, <1>3, <2>1, <2>3
  <2> HIDE DEF left, place
  <2>5. spec \in Manifest /\ spec.items = left
    BY <1>1, <2>1 DEF Manifest
  <2> HIDE DEF spec, f
  <2>6. f \in Edit /\ f.dirty /\ f.field = e.field /\ f.cursor = place /\ f.spec = spec
    BY <1>1, <2>2, <2>4, <2>5 DEF Edit
  <2>7. ListLen(f) = Len(left)
    BY <2>5, <2>6 DEF ListLen
  <2>8. EditOK(f)
    BY <2>4, <2>6, <2>7 DEF EditOK, Edit
  <2> QED
    BY <2>8 DEF f
<1> QED
  BY <1>2, <1>3

LEMMA FieldKeyOK ==
    ASSUME NEW e, EditOK(e), NEW key, NEW text, NEW x \in Entries
    PROVE  EditOK(FieldKey(e, key, text, x))
<1>1. EditOK([e EXCEPT !.editor = "none"]) /\ EditOK(ApplyNumeric(e, 1)) /\ EditOK(ListAdd(e, x))
  BY FlagsChanged, ApplyNumericOK, ListAddOK
<1> QED
  BY <1>1, Zenon DEF FieldKey

\* Up and down within the items of a list, or to the first item of another field.
LEMMA MovesOK ==
    ASSUME NEW e, EditOK(e)
    PROVE  EditOK(MoveUp(e)) /\ EditOK(MoveDown(e))
<1>1. /\ e \in Edit /\ ListLen(e) \in Nat
      /\ OnList(e) => e.cursor <= (IF ListLen(e) = 0 THEN 1 ELSE ListLen(e))
      /\ ~e.dirty => e.spec = e.read
  BY EditIsRecord
<1>2. e.cursor \in Nat \ {0} /\ e.field \in 1 .. 3
  BY <1>1 DEF Edit
<1>3. ASSUME NEW n \in Nat \ {0}, OnList(e), n <= (IF ListLen(e) = 0 THEN 1 ELSE ListLen(e))
      PROVE  EditOK([e EXCEPT !.cursor = n])
  <2> DEFINE f == [e EXCEPT !.cursor = n]
  <2>1. f \in Edit /\ f.field = e.field /\ f.cursor = n /\ f.spec = e.spec /\ f.dirty = e.dirty /\ f.read = e.read
    BY <1>1 DEF Edit
  <2> HIDE DEF f
  <2>2. ListLen(f) = ListLen(e)
    BY <2>1 DEF ListLen
  <2>3. EditOK(f)
    BY <1>1, <1>3, <2>1, <2>2 DEF EditOK, Edit
  <2> QED
    BY <2>3 DEF f
<1>4. ASSUME NEW n \in 1 .. 3
      PROVE  EditOK([e EXCEPT !.field = n, !.cursor = 1])
  <2> DEFINE f == [e EXCEPT !.field = n, !.cursor = 1]
  <2>0. [e EXCEPT !.field = n] \in Edit
    BY <1>1 DEF Edit
  <2>1. f \in Edit /\ f.field = n /\ f.cursor = 1 /\ f.spec = e.spec /\ f.dirty = e.dirty /\ f.read = e.read
    <3> DEFINE g == [e EXCEPT !.field = n]
    <3>1. g.field = n /\ g.spec = e.spec /\ g.dirty = e.dirty /\ g.read = e.read
      BY <1>1 DEF Edit
    <3>2. f = [g EXCEPT !.cursor = 1]
      OBVIOUS
    <3> HIDE DEF g, f
    <3>3. g \in Edit
      BY <2>0 DEF g
    <3>4. 1 \in Nat \ {0}
      OBVIOUS
    <3> QED
      BY <3>1, <3>2, <3>3, <3>4 DEF Edit
  <2> HIDE DEF f
  <2>2. ListLen(f) = ListLen(e)
    BY <2>1 DEF ListLen
  <2>3. f.cursor <= (IF ListLen(f) = 0 THEN 1 ELSE ListLen(f))
    BY <1>1, <2>1, <2>2
  <2>4. EditOK(f)
    <3>1. ~f.dirty => f.spec = f.read
      BY <1>1, <2>1
    <3> QED
      BY <2>1, <2>3, <3>1 DEF EditOK, Edit
  <2> QED
    BY <2>4 DEF f
<1>5. EditOK(MoveUp(e))
  <2>1. CASE OnList(e) /\ e.cursor > 1
    <3>1. e.cursor - 1 \in Nat \ {0} /\ e.cursor - 1 <= (IF ListLen(e) = 0 THEN 1 ELSE ListLen(e))
      BY <1>1, <1>2, <2>1
    <3>2. EditOK([e EXCEPT !.cursor = e.cursor - 1])
      BY <1>3, <2>1, <3>1
    <3> QED
      BY <2>1, <3>2 DEF MoveUp
  <2>2. CASE ~(OnList(e) /\ e.cursor > 1) /\ e.field > 1
    <3>1. e.field - 1 \in 1 .. 3
      BY <1>2, <2>2
    <3>2. EditOK([e EXCEPT !.field = e.field - 1, !.cursor = 1])
      BY <1>4, <3>1
    <3> QED
      BY <2>2, <3>2 DEF MoveUp
  <2>3. CASE ~(OnList(e) /\ e.cursor > 1) /\ ~(e.field > 1)
    BY <2>3 DEF MoveUp
  <2> QED
    BY <2>1, <2>2, <2>3
<1>6. EditOK(MoveDown(e))
  <2>1. CASE OnList(e) /\ e.cursor < ListLen(e)
    <3>1. e.cursor + 1 \in Nat \ {0} /\ e.cursor + 1 <= (IF ListLen(e) = 0 THEN 1 ELSE ListLen(e))
      BY <1>1, <1>2, <2>1
    <3>2. EditOK([e EXCEPT !.cursor = e.cursor + 1])
      BY <1>3, <2>1, <3>1
    <3> QED
      BY <2>1, <3>2 DEF MoveDown
  <2>2. CASE ~(OnList(e) /\ e.cursor < ListLen(e)) /\ e.field < Len(Fields)
    <3>1. e.field + 1 \in 1 .. 3
      BY <1>2, <2>2 DEF Fields
    <3>2. EditOK([e EXCEPT !.field = e.field + 1, !.cursor = 1])
      BY <1>4, <3>1
    <3> QED
      BY <2>2, <3>2 DEF MoveDown
  <2>3. CASE ~(OnList(e) /\ e.cursor < ListLen(e)) /\ ~(e.field < Len(Fields))
    BY <2>3 DEF MoveDown
  <2> QED
    BY <2>1, <2>2, <2>3
<1> QED
  BY <1>5, <1>6

LEMMA EditorStays ==
    ASSUME NEW b, BoardOK(b), b.create = "none", b.edit.open, NEW f, EditOK(f)
    PROVE  BoardAnswerOK(b, Said([b EXCEPT !.edit = f], "noop"))
<1> DEFINE c == [b EXCEPT !.edit = f]
<1>1. /\ BoardFields(c) /\ c.actions = b.actions /\ c.selected = b.selected /\ c.detail = b.detail
      /\ c.fetched = b.fetched /\ c.refresh = b.refresh /\ c.create = "none" /\ c.edit = f
  BY DEF BoardOK, BoardFields
<1> HIDE DEF c
<1>2. BoardOK(c)
  BY <1>1, BoardKept DEF Creating
<1> QED
  BY <1>2 DEF BoardAnswerOK, Said, Modal, c

LEMMA EditorCloses ==
    ASSUME NEW b, BoardOK(b), b.create = "none"
    PROVE  BoardAnswerOK(b, Said([b EXCEPT !.edit = NoEdit], "end"))
<1> DEFINE c == [b EXCEPT !.edit = NoEdit]
<1>1. /\ BoardFields(c) /\ c.actions = b.actions /\ c.selected = b.selected /\ c.detail = b.detail
      /\ c.fetched = b.fetched /\ c.refresh = b.refresh /\ c.create = "none" /\ c.edit = NoEdit
  BY DEF BoardOK, BoardFields
<1> HIDE DEF c
<1>2. BoardOK(c)
  BY <1>1, BoardKept DEF Creating
<1>3. ~Modal(c)
  BY <1>1, NoEditIsClosed DEF Modal
<1> QED
  BY <1>2, <1>3 DEF BoardAnswerOK, Said, c

LEMMA EditKeyOK ==
    ASSUME NEW b, BoardOK(b), b.create = "none", b.edit.open, NEW key, NEW text, NEW x \in Entries
    PROVE  BoardAnswerOK(b, EditKey(b, key, text, x))
<1> DEFINE e == b.edit
           r == EditKey(b, key, text, x)
           stay(f) == Said([b EXCEPT !.edit = f], "noop")
<1>1. EditOK(e)
  BY NoEditIsClosed DEF BoardOK
<1>2. ASSUME NEW f, EditOK(f) PROVE BoardAnswerOK(b, stay(f))
  BY <1>2, EditorStays
<1>3. BoardAnswerOK(b, Said([b EXCEPT !.edit = NoEdit], "end"))
  BY EditorCloses
<1>4. BoardAnswerOK(b, Said(b, "async")) /\ BoardAnswerOK(b, Said(b, "noop"))
  BY NothingTyped DEF BoardAnswerOK, Said, Modal
<1>5. /\ EditOK(FieldKey(e, key, text, x)) /\ EditOK(ListRemove(e)) /\ EditOK(MoveUp(e))
      /\ EditOK(MoveDown(e)) /\ EditOK(CycleRisk(e))
      /\ \A on \in BOOLEAN : EditOK([e EXCEPT !.discard = on]) /\ EditOK([e EXCEPT !.removing = on])
      /\ \A which \in {"number", "list"} : EditOK([e EXCEPT !.editor = which])
  BY <1>1, FieldKeyOK, ListRemoveOK, MovesOK, CycleRiskOK, FlagsChanged
<1>6. /\ e.editor \in {"none", "number", "list"} /\ e.discard \in BOOLEAN /\ e.removing \in BOOLEAN
  BY <1>1 DEF EditOK
<1>7. \/ \E f : EditOK(f) /\ r = stay(f)
      \/ r \in {Said([b EXCEPT !.edit = NoEdit], "end"), Said(b, "async"), Said(b, "noop")}
  <2>1. CASE e.editor # "none"
    BY <1>5, <2>1, Zenon DEF EditKey
  <2>2. CASE e.editor = "none" /\ e.discard
    BY <1>5, <2>2, Zenon DEF EditKey
  <2>3. CASE e.editor = "none" /\ ~e.discard /\ e.removing
    <3>1. r = stay(IF key = "y" THEN ListRemove(e) ELSE [e EXCEPT !.removing = FALSE])
      BY <2>3, Zenon DEF EditKey
    <3> QED
      BY <1>5, <3>1, Zenon
  <2>4. CASE e.editor = "none" /\ ~e.discard /\ ~e.removing
    <3> DEFINE plain ==
            CASE key = "up" -> stay(MoveUp(e))
              [] key = "down" -> stay(MoveDown(e))
              [] key = "enter" /\ Fields[e.field] = "risk" -> stay(CycleRisk(e))
              [] key = "enter" /\ Fields[e.field] = "number" -> stay([e EXCEPT !.editor = "number"])
              [] key = "a" /\ OnList(e) -> stay([e EXCEPT !.editor = "list"])
              [] key = "d" /\ OnList(e) /\ ListLen(e) > 0 -> stay([e EXCEPT !.removing = TRUE])
              [] key = "s" /\ e.dirty -> Said(b, "async")
              [] key = "esc" -> IF e.dirty THEN stay([e EXCEPT !.discard = TRUE])
                                ELSE Said([b EXCEPT !.edit = NoEdit], "end")
              [] OTHER -> Said(b, "noop")
    <3>1. r = plain
      BY <2>4, Zenon DEF EditKey
    <3>2. \/ plain \in {stay(MoveUp(e)), stay(MoveDown(e)), stay(CycleRisk(e))}
          \/ plain \in {stay([e EXCEPT !.editor = "number"]), stay([e EXCEPT !.editor = "list"])}
          \/ plain \in {stay([e EXCEPT !.removing = TRUE]), stay([e EXCEPT !.discard = TRUE])}
          \/ plain \in {Said([b EXCEPT !.edit = NoEdit], "end"), Said(b, "async"), Said(b, "noop")}
      BY Zenon
    <3> HIDE DEF plain
    <3> QED
      BY <1>5, <3>1, <3>2, Zenon
  <2> QED
    BY <1>6, <2>1, <2>2, <2>3, <2>4
<1> HIDE DEF r
<1>8. BoardAnswerOK(b, r)
  BY <1>2, <1>3, <1>4, <1>7, Zenon
<1> QED
  BY <1>8 DEF r

LEMMA WizardAt ==
    ASSUME NEW b, BoardOK(b), b.edit = NoEdit, NEW step \in Creating,
           step \notin {"none", "id"} => b.newId \in ActionIds
    PROVE  /\ BoardOK([b EXCEPT !.create = step])
           /\ Modal([b EXCEPT !.create = step]) <=> step # "none"
<1> DEFINE c == [b EXCEPT !.create = step]
<1>1. /\ BoardFields(c) /\ c.actions = b.actions /\ c.selected = b.selected /\ c.detail = b.detail
      /\ c.fetched = b.fetched /\ c.refresh = b.refresh /\ c.create = step /\ c.newId = b.newId /\ c.edit = NoEdit
  BY DEF BoardOK, BoardFields
<1> HIDE DEF c
<1>2. BoardOK(c)
  BY <1>1, BoardKept
<1>3. Modal(c) <=> step # "none"
  BY <1>1, NoEditIsClosed DEF Modal
<1> QED
  BY <1>2, <1>3 DEF c

LEMMA CreateKeyOK ==
    ASSUME NEW b, BoardOK(b), b.create # "none", NEW key, NEW text, NEW id, NEW next \in {"method", "fsops"},
           key = "enter" /\ text = "good" => id \in ActionIds
    PROVE  BoardAnswerOK(b, CreateKey(b, key, text, id, next))
<1> DEFINE r == CreateKey(b, key, text, id, next)
           closed == [b EXCEPT !.create = "none"]
           step == IF next \in CreateSteps[b.create] THEN next ELSE IF b.create = "provider" THEN "method" ELSE "url"
           opened == [closed EXCEPT !.edit = NewEdit(b.newId, Built)]
<1>1. b.edit = NoEdit /\ Modal(b) /\ b.create \in Creating /\ (b.create # "id" => b.newId \in ActionIds)
  BY DEF BoardOK, Modal, Creating
<1>2. /\ BoardAnswerOK(b, Said(closed, "end")) /\ BoardAnswerOK(b, Said(closed, "flash"))
      /\ BoardAnswerOK(b, Said(b, "noop"))
  <2>1. BoardOK(closed) /\ ~Modal(closed)
    BY <1>1, WizardAt DEF Creating
  <2> HIDE DEF closed
  <2> QED
    BY <2>1, NothingTyped DEF BoardAnswerOK, Said
<1>3. id \in ActionIds => BoardAnswerOK(b, Said([b EXCEPT !.create = "provider", !.newId = id], "noop"))
  <2> DEFINE c == [b EXCEPT !.create = "provider", !.newId = id]
  <2>1. id \in ActionIds => BoardOK(c)
    BY <1>1, WizardMoved DEF Creating
  <2> HIDE DEF c
  <2>2. id \in ActionIds => BoardAnswerOK(b, Said(c, "noop"))
    BY <1>1, <2>1 DEF BoardAnswerOK, Said
  <2> QED
    BY <2>2 DEF c
<1>4. b.create # "id" => BoardAnswerOK(b, Said([b EXCEPT !.create = step], "noop"))
  <2> DEFINE c == [b EXCEPT !.create = step]
  <2>1. step \in Creating
    BY DEF Creating
  <2> HIDE DEF step
  <2>2. b.create # "id" => BoardOK(c)
    BY <1>1, <2>1, WizardAt
  <2> HIDE DEF c
  <2>3. b.create # "id" => BoardAnswerOK(b, Said(c, "noop"))
    BY <1>1, <2>2 DEF BoardAnswerOK, Said
  <2> QED
    BY <2>3 DEF c
<1>5. b.create # "id" => BoardAnswerOK(b, Said(opened, "begin"))
  <2>1. Built \in Manifest
    <3>1. <<>> \in Seq(Entries)
      OBVIOUS
    <3> QED
      BY <3>1 DEF Built, Manifest
  <2> DEFINE e == NewEdit(b.newId, Built)
  <2>2. b.create # "id" => EditOK(e)
    BY <1>1, <2>1, EditOpened
  <2> HIDE DEF e
  <2>3. opened = [b EXCEPT !.create = "none", !.edit = e]
    BY DEF e
  <2>4. b.create # "id" => BoardOK(opened)
    BY <2>2, <2>3, EditReplaced
  <2> HIDE DEF opened
  <2> QED
    BY <1>1, <2>4 DEF BoardAnswerOK, Said
<1>6. \/ r \in {Said(closed, "end"), Said(closed, "flash"), Said(b, "noop")}
      \/ id \in ActionIds /\ r = Said([b EXCEPT !.create = "provider", !.newId = id], "noop")
      \/ b.create # "id" /\ r = Said([b EXCEPT !.create = step], "noop")
      \/ b.create # "id" /\ r = Said(opened, "begin")
  <2> HIDE DEF step, closed, opened
  <2>1. r = CASE key = "esc" -> Said(closed, "end")
              [] key = "enter" /\ b.create \in {"id", "url"} /\ text = "empty" -> Said(closed, "end")
              [] key = "enter" /\ b.create = "id" /\ text = "bad" -> Said(closed, "flash")
              [] key = "enter" /\ b.create = "id" /\ text = "good" ->
                   Said([b EXCEPT !.create = "provider", !.newId = id], "noop")
              [] key = "enter" /\ b.create \in {"provider", "method"} -> Said([b EXCEPT !.create = step], "noop")
              [] key = "enter" /\ (b.create = "fsops" \/ (b.create = "url" /\ text # "empty")) -> Said(opened, "begin")
              [] OTHER -> Said(b, "noop")
    BY Zenon DEF CreateKey, step, closed, opened
  <2> HIDE DEF r
  <2>2. "provider" # "id" /\ "method" # "id" /\ "fsops" # "id" /\ "url" # "id"
    OBVIOUS
  <2> QED
    BY <2>1, <2>2, Zenon
<1> HIDE DEF r, step, closed, opened
<1>7. BoardAnswerOK(b, r)
  BY <1>2, <1>3, <1>4, <1>5, <1>6, Zenon
<1> QED
  BY <1>7 DEF r

LEMMA ManifestHeld ==
    ASSUME ManifestsOK(manifests), NEW id \in ActionIds, manifests[id] # {}
    PROVE  (CHOOSE m \in manifests[id] : TRUE) \in Manifest
  BY DEF ManifestsOK

LEMMA BrowseKeyOK ==
    ASSUME NEW b, BoardOK(b), ~Modal(b), ManifestsOK(manifests), NEW key
    PROVE  BoardAnswerOK(b, BrowseKey(b, key))
<1> DEFINE r == BrowseKey(b, key)
           id == b.actions[b.selected]
           edited == [b EXCEPT !.edit = NewEdit(id, CHOOSE m \in manifests[id] : TRUE)]
<1>1. b.create = "none" /\ b.edit = NoEdit
  BY DEF Modal, BoardOK, EditOK
<1>2. /\ \A n : BoardAnswerOK(b, Said([b EXCEPT !.selected = n, !.detail = 0], "noop"))
      /\ BoardAnswerOK(b, Said([b EXCEPT !.refresh = TRUE, !.detail = 0], "noop"))
  <2>1. ASSUME NEW n PROVE BoardAnswerOK(b, Said([b EXCEPT !.selected = n, !.detail = 0], "noop"))
    <3> DEFINE c == [b EXCEPT !.selected = n, !.detail = 0]
    <3>1. /\ BoardFields(c) /\ c.actions = b.actions /\ c.detail = 0
          /\ c.create = b.create /\ c.newId = b.newId /\ c.edit = b.edit
      BY DEF BoardOK, BoardFields
    <3> HIDE DEF c
    <3>2. BoardAnswerOK(b, Said(c, "noop"))
      BY <3>1, DetailDropped
    <3> QED
      BY <3>2 DEF c
  <2>2. BoardAnswerOK(b, Said([b EXCEPT !.refresh = TRUE, !.detail = 0], "noop"))
    <3> DEFINE c == [b EXCEPT !.refresh = TRUE, !.detail = 0]
    <3>1. /\ BoardFields(c) /\ c.actions = b.actions /\ c.detail = 0
          /\ c.create = b.create /\ c.newId = b.newId /\ c.edit = b.edit
      BY DEF BoardOK, BoardFields
    <3> HIDE DEF c
    <3>2. BoardAnswerOK(b, Said(c, "noop"))
      BY <3>1, DetailDropped
    <3> QED
      BY <3>2 DEF c
  <2> QED
    BY <2>1, <2>2
<1>3. BoardAnswerOK(b, Said([b EXCEPT !.create = "id"], "begin"))
  <2> DEFINE c == [b EXCEPT !.create = "id"]
  <2>1. BoardOK(c)
    BY <1>1, WizardAt DEF Creating
  <2> HIDE DEF c
  <2>2. BoardAnswerOK(b, Said(c, "begin"))
    BY <2>1 DEF BoardAnswerOK, Said
  <2> QED
    BY <2>2 DEF c
<1>4. SelectedAction(b) # {} /\ manifests[id] # {} => BoardAnswerOK(b, Said(edited, "begin"))
  <2> SUFFICES ASSUME SelectedAction(b) # {}, manifests[id] # {} PROVE BoardAnswerOK(b, Said(edited, "begin"))
    OBVIOUS
  <2>1. id \in ActionIds
    <3>1. b.selected \in 1 .. Len(b.actions) /\ b.actions \in Seq(ActionIds)
      BY DEF SelectedAction, BoardOK
    <3> QED
      BY <3>1
  <2> DEFINE m == CHOOSE m \in manifests[id] : TRUE
             e == NewEdit(id, m)
  <2> HIDE DEF id
  <2>2. m \in Manifest
    BY <2>1, ManifestHeld
  <2> HIDE DEF m
  <2>3. EditOK(e)
    BY <2>1, <2>2, EditOpened
  <2> HIDE DEF e
  <2> DEFINE c == [b EXCEPT !.edit = e]
  <2>4. /\ BoardFields(c) /\ c.actions = b.actions /\ c.selected = b.selected /\ c.detail = b.detail
        /\ c.fetched = b.fetched /\ c.refresh = b.refresh /\ c.create = "none" /\ c.edit = e
    BY <1>1 DEF BoardOK, BoardFields
  <2> HIDE DEF c
  <2>5. BoardOK(c)
    BY <2>3, <2>4, BoardKept DEF Creating
  <2>6. BoardAnswerOK(b, Said(c, "begin"))
    BY <2>5 DEF BoardAnswerOK, Said
  <2> QED
    BY <2>6 DEF c, e, m
<1>5. /\ BoardAnswerOK(b, Said(b, "noop")) /\ BoardAnswerOK(b, Said(b, "flash"))
      /\ BoardAnswerOK(b, Said(b, "reload"))
  BY DEF BoardAnswerOK, Said
<1>6. \/ r \in {Said([b EXCEPT !.selected = b.selected - 1, !.detail = 0], "noop"),
                Said([b EXCEPT !.selected = b.selected + 1, !.detail = 0], "noop"),
                Said([b EXCEPT !.refresh = TRUE, !.detail = 0], "noop")}
      \/ r = Said([b EXCEPT !.create = "id"], "begin")
      \/ SelectedAction(b) # {} /\ manifests[id] # {} /\ r = Said(edited, "begin")
      \/ r \in {Said(b, "noop"), Said(b, "flash"), Said(b, "reload")}
  BY Zenon DEF BrowseKey
<1> HIDE DEF r, edited
<1>7. BoardAnswerOK(b, r)
  BY <1>2, <1>3, <1>4, <1>5, <1>6, Zenon
<1> QED
  BY <1>7 DEF r

LEMMA BoardKeyOK ==
    ASSUME NEW b, BoardOK(b), ManifestsOK(manifests), NEW key, NEW text, NEW x \in Entries, NEW id,
           NEW next \in {"method", "fsops"}, key = "enter" /\ text = "good" => id \in ActionIds
    PROVE  BoardAnswerOK(b, BoardKey(b, key, text, x, id, next))
<1>1. CASE b.create # "none"
  BY <1>1, CreateKeyOK DEF BoardKey
<1>2. CASE b.create = "none" /\ b.edit.open
  BY <1>2, EditKeyOK DEF BoardKey
<1>3. CASE b.create = "none" /\ ~b.edit.open
  BY <1>3, BrowseKeyOK DEF BoardKey, Modal
<1> QED
  BY <1>1, <1>2, <1>3

LoopType == [at : {"loop", "save", "reload", "quit"}, on : {"actions", "other"}, input : BOOLEAN, revoke : BOOLEAN]

\* What relates the loop, the screen and the last save.
LoopHolds(l, b, s, g) ==
    /\ g = "quit" => l.at = "quit" /\ s.refused
    /\ l.at = "save" => b.edit.open
    /\ l.at = "reload" \/ l.revoke => ~Modal(b) \/ s.refused
    /\ Modal(b) /\ ~s.refused /\ l.at = "loop" => l.input /\ l.on = "actions"

LEMMA ActionsInvParts ==
    ActionsInv <=> /\ ManifestsOK(manifests) /\ ManifestsOK(loaded) /\ loop \in LoopType
                   /\ saves = [refused |-> saves.refused, retry |-> saves.retry] /\ saves.refused \in BOOLEAN
                   /\ gone \in {"none", "discarded", "quit"} /\ BoardOK(board)
                   /\ LoopHolds(loop, board, saves, gone)
  BY Zenon DEF ActionsInv, LoopType, LoopHolds

LEMMA ActionsInvPartsPrimed ==
    ActionsInv' <=> /\ ManifestsOK(manifests') /\ ManifestsOK(loaded') /\ loop' \in LoopType
                    /\ saves' = [refused |-> saves'.refused, retry |-> saves'.retry] /\ saves'.refused \in BOOLEAN
                    /\ gone' \in {"none", "discarded", "quit"} /\ BoardOK(board')
                    /\ LoopHolds(loop', board', saves', gone')
  BY Zenon DEF ActionsInv, LoopType, LoopHolds

LEMMA StrokeKeepsInv ==
    ASSUME ActionsInv, NEW key, NEW text, NEW x \in Entries, NEW id, NEW next \in {"method", "fsops"},
           key = "enter" /\ text = "good" => id \in ActionIds, Stroke(key, text, x, id, next)
    PROVE  ActionsInv'
<1> DEFINE said == BoardKey(board, key, text, x, id, next)
<1>1. /\ ManifestsOK(manifests) /\ ManifestsOK(loaded) /\ loop \in LoopType
      /\ saves = [refused |-> saves.refused, retry |-> saves.retry] /\ saves.refused \in BOOLEAN
      /\ gone \in {"none", "discarded", "quit"} /\ BoardOK(board)
      /\ LoopHolds(loop, board, saves, gone)
  BY ActionsInvParts
<1>2. loop.at = "loop" /\ gone \in {"none", "discarded"} /\ manifests' = manifests /\ loaded' = loaded
  <2>1. loop.at = "loop" /\ manifests' = manifests /\ loaded' = loaded
    BY Zenon DEF Stroke
  <2> QED
    BY <1>1, <2>1 DEF LoopHolds
<1>3. BoardAnswerOK(board, said)
  BY <1>1, BoardKeyOK
<1> HIDE DEF said
<1>4. CASE loop.revoke /\ loop' = [loop EXCEPT !.revoke = FALSE, !.input = FALSE] /\ UNCHANGED <<board, gone, saves>>
  <2>1. loop' \in LoopType /\ loop'.at = "loop" /\ ~loop'.revoke
    BY <1>1, <1>2, <1>4 DEF LoopType
  <2>2. LoopHolds(loop', board', saves', gone')
    BY <1>1, <1>2, <1>4, <2>1 DEF LoopHolds
  <2> QED
    BY <1>1, <1>2, <1>4, <2>1, <2>2, ActionsInvPartsPrimed
<1>5. CASE /\ ~loop.input /\ loop' = [loop EXCEPT !.at = "quit"] /\ gone' = (IF Dirty THEN "quit" ELSE gone)
           /\ ~loop.revoke /\ UNCHANGED <<board, saves>>
  <2>1. loop' \in LoopType /\ loop'.at = "quit" /\ ~loop'.revoke
    BY <1>1, <1>2, <1>5 DEF LoopType
  <2>2. gone' \in {"none", "discarded", "quit"} /\ (gone' = "quit" => saves.refused)
    <3>1. Dirty => Modal(board)
      BY DEF Dirty, Modal
    <3> QED
      BY <1>1, <1>2, <1>5, <3>1 DEF LoopHolds
  <2>3. LoopHolds(loop', board', saves', gone')
    BY <1>1, <1>5, <2>1, <2>2 DEF LoopHolds
  <2> QED
    BY <1>1, <1>2, <1>5, <2>1, <2>2, <2>3, ActionsInvPartsPrimed
<1>6. CASE /\ ~loop.input /\ loop' = [loop EXCEPT !.revoke = TRUE, !.input = TRUE]
           /\ saves' \in {saves, [saves EXCEPT !.retry = "revoke"]} /\ UNCHANGED <<board, gone>>
  <2>1. loop' \in LoopType /\ loop'.at = "loop" /\ loop'.on = loop.on /\ loop'.input
    BY <1>1, <1>2, <1>6 DEF LoopType
  <2>2. saves' = [refused |-> saves'.refused, retry |-> saves'.retry] /\ saves'.refused = saves.refused
    BY <1>1, <1>6
  <2>3. ~Modal(board) \/ saves.refused
    BY <1>1, <1>2, <1>6 DEF LoopHolds
  <2>4. LoopHolds(loop', board', saves', gone')
    BY <1>1, <1>2, <1>6, <2>1, <2>2, <2>3 DEF LoopHolds
  <2> QED
    BY <1>1, <1>2, <1>6, <2>1, <2>2, <2>4, ActionsInvPartsPrimed
<1>7. CASE /\ ~loop.revoke /\ (~loop.input \/ ~Modal(board))
           /\ loop' = [loop EXCEPT !.on = IF @ = "actions" THEN "other" ELSE "actions", !.input = FALSE]
           /\ UNCHANGED <<board, gone, saves>>
  <2>1. loop' \in LoopType /\ loop'.at = "loop" /\ ~loop'.revoke
    BY <1>1, <1>2, <1>7 DEF LoopType
  <2>2. ~Modal(board) \/ saves.refused
    BY <1>1, <1>2, <1>7 DEF LoopHolds
  <2>3. LoopHolds(loop', board', saves', gone')
    BY <1>1, <1>2, <1>7, <2>1, <2>2 DEF LoopHolds
  <2> QED
    BY <1>1, <1>2, <1>7, <2>1, <2>3, ActionsInvPartsPrimed
<1>8. CASE UNCHANGED <<loop, board, gone, saves>>
  BY <1>1, <1>2, <1>8, ActionsInvPartsPrimed
<1>9. CASE /\ ~loop.revoke /\ loop.on # "other"
           /\ board' = said.b
           /\ gone' = IF Dirty /\ ~said.b.edit.open THEN "discarded" ELSE gone
           /\ saves' = IF said.a = "reload" THEN [saves EXCEPT !.retry = "reload"] ELSE saves
           /\ loop' = CASE said.a = "begin" -> [loop EXCEPT !.input = TRUE]
                        [] said.a = "end" -> [loop EXCEPT !.input = FALSE]
                        [] said.a = "async" -> [loop EXCEPT !.input = FALSE, !.at = "save"]
                        [] said.a = "reload" -> [loop EXCEPT !.input = FALSE, !.at = "reload"]
                        [] OTHER -> loop
  <2>1. /\ said.a = "begin" => loop' = [loop EXCEPT !.input = TRUE]
        /\ said.a = "end" => loop' = [loop EXCEPT !.input = FALSE]
        /\ said.a = "async" => loop' = [loop EXCEPT !.input = FALSE, !.at = "save"]
        /\ said.a = "reload" => loop' = [loop EXCEPT !.input = FALSE, !.at = "reload"]
        /\ said.a \in {"noop", "flash"} => loop' = loop
    BY <1>9
  <2>2. said.a \in {"noop", "flash", "begin", "end", "async", "reload"}
    BY <1>3 DEF BoardAnswerOK
  <2>3. /\ loop' \in LoopType /\ ~loop'.revoke /\ loop'.on = "actions"
        /\ loop'.at = (IF said.a = "async" THEN "save" ELSE IF said.a = "reload" THEN "reload" ELSE "loop")
        /\ said.a = "begin" => loop'.input
        /\ said.a \in {"noop", "flash"} => loop'.input = loop.input
    BY <1>1, <1>2, <1>9, <2>1, <2>2 DEF LoopType
  <2>4. saves' = [refused |-> saves'.refused, retry |-> saves'.retry] /\ saves'.refused = saves.refused
    BY <1>1, <1>9
  <2>5. gone' \in {"none", "discarded"}
    BY <1>2, <1>9
  <2>6. BoardOK(board')
    BY <1>3, <1>9 DEF BoardAnswerOK
  <2>7. LoopHolds(loop', board', saves', gone')
    BY <1>1, <1>2, <1>3, <1>9, <2>2, <2>3, <2>4, <2>5 DEF LoopHolds, BoardAnswerOK
  <2> QED
    BY <1>1, <1>2, <2>3, <2>4, <2>5, <2>6, <2>7, ActionsInvPartsPrimed
<1> QED
  BY <1>4, <1>5, <1>6, <1>7, <1>8, <1>9, Zenon DEF Stroke, said

LEMMA SaveKeepsInv ==
    ASSUME ActionsInv, Save
    PROVE  ActionsInv'
<1> DEFINE e == board.edit
<1>1. /\ ManifestsOK(manifests) /\ ManifestsOK(loaded) /\ loop \in LoopType
      /\ saves = [refused |-> saves.refused, retry |-> saves.retry] /\ saves.refused \in BOOLEAN
      /\ gone \in {"none", "discarded", "quit"} /\ BoardOK(board)
      /\ LoopHolds(loop, board, saves, gone)
  BY ActionsInvParts
<1>2. loop.at = "save" /\ gone \in {"none", "discarded"} /\ loaded' = loaded /\ gone' = gone
  <2>1. loop.at = "save" /\ loaded' = loaded /\ gone' = gone
    BY DEF Save
  <2> QED
    BY <1>1, <2>1 DEF LoopHolds
<1>3. EditOK(e) /\ board.create = "none" /\ e.id \in ActionIds /\ e.spec \in Manifest
      /\ e.discard \in BOOLEAN /\ e.removing \in BOOLEAN
  <2>1. EditOK(e) /\ board.create = "none"
    BY <1>1, <1>2, NoEditIsClosed DEF LoopHolds, BoardOK
  <2> QED
    BY <2>1 DEF EditOK
<1>4. CASE /\ manifests' = [manifests EXCEPT ![e.id] = {e.spec}]
           /\ board' = [board EXCEPT !.pendings = @ \cup {e.id}, !.edit = NoEdit, !.refresh = TRUE, !.detail = 0,
                                     !.seek = e.id]
           /\ saves' = [saves EXCEPT !.refused = FALSE]
           /\ loop' = [loop EXCEPT !.at = "reload"]
  <2>1. ManifestsOK(manifests')
    <3> HIDE DEF e
    <3> QED
      BY <1>1, <1>3, <1>4 DEF ManifestsOK
  <2>2. /\ BoardFields(board') /\ board'.actions = board.actions /\ board'.detail = 0
        /\ board'.create = "none" /\ board'.edit = NoEdit
    BY <1>1, <1>3, <1>4 DEF BoardOK, BoardFields
  <2>3. BoardOK(board') /\ ~Modal(board')
    <3> DEFINE c == board'
    <3>1. BoardFields(c) /\ c.actions = board.actions /\ c.detail = 0 /\ c.create = "none" /\ c.edit = NoEdit
      BY <2>2
    <3> HIDE DEF c
    <3>2. BoardOK(c) /\ ~Modal(c)
      BY <1>1, <3>1, BoardKept, NoEditIsClosed DEF Creating, Modal
    <3> QED
      BY <3>2 DEF c
  <2>4. loop' \in LoopType /\ loop'.at = "reload"
    BY <1>1, <1>4 DEF LoopType
  <2>5. saves' = [refused |-> saves'.refused, retry |-> saves'.retry] /\ saves'.refused = FALSE
    BY <1>1, <1>4
  <2>6. LoopHolds(loop', board', saves', gone')
    BY <1>2, <2>3, <2>4 DEF LoopHolds
  <2> QED
    BY <1>1, <1>2, <2>1, <2>3, <2>4, <2>5, <2>6, ActionsInvPartsPrimed
<1>5. CASE /\ saves' = [saves EXCEPT !.refused = TRUE]
           /\ loop' = [loop EXCEPT !.at = "loop", !.input = e.discard \/ e.removing]
           /\ UNCHANGED <<manifests, board>>
  <2>1. loop' \in LoopType /\ loop'.at = "loop"
    BY <1>1, <1>3, <1>5 DEF LoopType
  <2>2. saves' = [refused |-> saves'.refused, retry |-> saves'.retry] /\ saves'.refused = TRUE
    BY <1>1, <1>5
  <2>3. LoopHolds(loop', board', saves', gone')
    BY <1>2, <2>1, <2>2 DEF LoopHolds
  <2> QED
    BY <1>1, <1>2, <1>5, <2>1, <2>2, <2>3, ActionsInvPartsPrimed
<1> QED
  BY <1>4, <1>5 DEF Save

LEMMA ReloadKeepsInv ==
    ASSUME ActionsInv, Reload
    PROVE  ActionsInv'
<1>1. /\ ManifestsOK(manifests) /\ ManifestsOK(loaded) /\ loop \in LoopType
      /\ saves = [refused |-> saves.refused, retry |-> saves.retry] /\ saves.refused \in BOOLEAN
      /\ gone \in {"none", "discarded", "quit"} /\ BoardOK(board)
      /\ LoopHolds(loop, board, saves, gone)
  BY ActionsInvParts
<1>2. /\ loop.at = "reload" /\ loop' = [loop EXCEPT !.at = "loop"] /\ loaded' \in {manifests, loaded}
      /\ UNCHANGED <<manifests, board, saves, gone>>
  BY DEF Reload
<1>3. loop' \in LoopType /\ loop'.at = "loop"
  BY <1>1, <1>2 DEF LoopType
<1>4. ManifestsOK(loaded')
  BY <1>1, <1>2
<1>5. LoopHolds(loop', board', saves', gone')
  BY <1>1, <1>2, <1>3 DEF LoopHolds
<1> QED
  BY <1>1, <1>2, <1>3, <1>4, <1>5, ActionsInvPartsPrimed

\* A tick changes what the list shows, while nothing is open.
LEMMA TickedKeepsInv ==
    ASSUME ActionsInv, loop.at = "loop", BoardOK(board'), ~Modal(board'), UNCHANGED <<manifests, loaded, loop, saves, gone>>
    PROVE  ActionsInv'
<1>1. /\ ManifestsOK(manifests) /\ ManifestsOK(loaded) /\ loop \in LoopType
      /\ saves = [refused |-> saves.refused, retry |-> saves.retry] /\ saves.refused \in BOOLEAN
      /\ gone \in {"none", "discarded", "quit"} /\ LoopHolds(loop, board, saves, gone)
  BY ActionsInvParts
<1>2. LoopHolds(loop', board', saves', gone')
  BY <1>1 DEF LoopHolds
<1> QED
  BY <1>1, <1>2, ActionsInvPartsPrimed

LEMMA TickActionsKeepsInv ==
    ASSUME ActionsInv, TickActions
    PROVE  ActionsInv'
<1> DEFINE listed == {a \in ActionIds : loaded[a] # {}}
           sorted == Rows(listed)
           c == board'
<1>1. BoardOK(board) /\ ~Modal(board) /\ loop.at = "loop" /\ UNCHANGED <<manifests, loaded, loop, saves, gone>>
  BY ActionsInvParts, Zenon DEF TickActions
<1>2. board.detail = 0
  <2>1. ~board.fetched \/ board.refresh
    BY Zenon DEF TickActions
  <2> QED
    BY <1>1, <2>1 DEF BoardOK
<1>3. sorted \in Seq(ActionIds)
  <2>1. IsFiniteSet(ActionIds) /\ \A a \in ActionIds : a \in Nat
    BY ActionsAssumption DEF ActionsAssumption
  <2>2. listed \subseteq ActionIds
    OBVIOUS
  <2> HIDE DEF listed
  <2>3. IsFiniteSet(listed) /\ \A a \in listed : a \in Nat
    BY <2>1, <2>2, FS_Subset
  <2>4. sorted \in Seq(listed)
    BY <2>3, RowsAreListed
  <2> HIDE DEF sorted
  <2> QED
    BY <2>2, <2>4
<1>4. /\ BoardFields(c) /\ c.actions = sorted /\ c.detail = 0
      /\ c.create = board.create /\ c.newId = board.newId /\ c.edit = board.edit
  <2> DEFINE sought == IF board.seek \in listed THEN CHOOSE n \in 1 .. Len(sorted) : sorted[n] = board.seek
                       ELSE board.selected
             n == IF sorted = <<>> THEN 1 ELSE IF sought > Len(sorted) THEN Len(sorted) ELSE sought
             detail == IF sorted = <<>> \/ board.seek \in listed \/ Len(sorted) # Len(board.actions)
                       THEN 0 ELSE board.detail
  <2>1. PICK old \in SUBSET board.pendings :
           board' = [board EXCEPT !.actions = sorted, !.fetched = TRUE, !.refresh = FALSE, !.seek = 0,
                       !.pendings = Reconciled(board.pendings, listed, old), !.selected = n, !.detail = detail]
    BY Zenon DEF TickActions
  <2>2. detail = 0
    BY <1>2
  <2> DEFINE pendings == Reconciled(board.pendings, listed, old)
  <2> HIDE DEF sorted, n, detail, pendings
  <2>3. board' = [board EXCEPT !.actions = sorted, !.fetched = TRUE, !.refresh = FALSE, !.seek = 0,
                    !.pendings = pendings, !.selected = n, !.detail = 0]
    BY <2>1, <2>2, Zenon DEF pendings
  <2> QED
    BY <1>1, <2>3 DEF BoardOK, BoardFields
<1> HIDE DEF listed, sorted, c
<1>5. BoardOK(c) /\ ~Modal(c)
  BY <1>1, <1>3, <1>4 DEF BoardOK, Modal, SelectedAction
<1> QED
  BY <1>1, <1>5, TickedKeepsInv DEF c

LEMMA TickActionDetailKeepsInv ==
    ASSUME ActionsInv, TickActionDetail
    PROVE  ActionsInv'
<1> DEFINE c == board'
           a == board.actions[board.selected]
<1>1. BoardOK(board) /\ ~Modal(board) /\ loop.at = "loop" /\ UNCHANGED <<manifests, loaded, loop, saves, gone>>
  BY ActionsInvParts, Zenon DEF TickActionDetail
<1>2. /\ board.fetched /\ ~board.refresh /\ SelectedAction(board) # {}
      /\ c = [board EXCEPT !.detail = a]
  BY Zenon DEF TickActionDetail
<1>3. a \in ActionIds /\ SelectedAction(board) = {a}
  <2>1. board.selected \in 1 .. Len(board.actions) /\ board.actions \in Seq(ActionIds)
    BY <1>1, <1>2 DEF SelectedAction, BoardOK
  <2> QED
    BY <2>1 DEF SelectedAction
<1> HIDE DEF a, c
<1>4. /\ BoardFields(c) /\ c.actions = board.actions /\ c.selected = board.selected /\ c.detail = a
      /\ c.fetched = board.fetched /\ c.refresh = board.refresh
      /\ c.create = board.create /\ c.newId = board.newId /\ c.edit = board.edit
  BY <1>1, <1>2 DEF BoardOK, BoardFields
<1>5. SelectedAction(c) = {a}
  BY <1>3, <1>4 DEF SelectedAction
<1>6. BoardOK(c) /\ ~Modal(c)
  BY <1>1, <1>2, <1>3, <1>4, <1>5 DEF BoardOK, Modal
<1> QED
  BY <1>1, <1>6, TickedKeepsInv DEF c

\* Others write manifests as well: per action none or one.
LEMMA SomeManifestsOK ==
    ASSUME NEW f \in [ActionIds -> {{}} \cup {{d} : d \in Drafts}]
    PROVE  ManifestsOK(f)
<1>1. Drafts \subseteq Manifest
  BY ActionsAssumption DEF ActionsAssumption, Manifest
<1> QED
  BY <1>1 DEF ManifestsOK

LEMMA ElsewhereKeepsInv ==
    ASSUME ActionsInv, Elsewhere
    PROVE  ActionsInv'
<1>1. ManifestsOK(manifests') /\ ManifestsOK(loaded')
  <2>1. manifests' \in [ActionIds -> {{}} \cup {{d} : d \in Drafts}] /\ loaded' \in {manifests', loaded}
    BY DEF Elsewhere
  <2> DEFINE f == manifests'
  <2>2. f \in [ActionIds -> {{}} \cup {{d} : d \in Drafts}]
    BY <2>1
  <2> HIDE DEF f
  <2>3. ManifestsOK(f)
    BY <2>2, SomeManifestsOK
  <2> QED
    BY <2>1, <2>3, ActionsInvParts DEF f
<1>2. UNCHANGED <<loop, board, saves, gone>>
  BY DEF Elsewhere
<1> QED
  BY <1>1, <1>2, ActionsInvParts, ActionsInvPartsPrimed

LEMMA ActionsInitInv ==
    ASSUME ActionsInit
    PROVE  ActionsInv
<1>1. ManifestsOK(manifests) /\ ManifestsOK(loaded)
  BY SomeManifestsOK DEF ActionsInit
<1>2. /\ loop = [at |-> "loop", on |-> "actions", input |-> FALSE, revoke |-> FALSE]
      /\ saves = [refused |-> FALSE, retry |-> "none"] /\ gone = "none"
      /\ board = [actions |-> <<>>, selected |-> 1, detail |-> 0, fetched |-> FALSE, refresh |-> FALSE,
                  create |-> "none", newId |-> 0, edit |-> NoEdit, pendings |-> {}, seek |-> 0]
  BY DEF ActionsInit
<1>3. BoardFields(board) /\ board.actions = <<>> /\ board.detail = 0 /\ board.create = "none" /\ board.edit = NoEdit
  BY <1>2 DEF BoardFields
<1>4. BoardOK(board) /\ ~Modal(board)
  BY <1>3, NoEditIsClosed DEF BoardOK, Modal
<1>5. loop \in LoopType /\ loop.at = "loop" /\ ~loop.revoke
  BY <1>2 DEF LoopType
<1>6. LoopHolds(loop, board, saves, gone)
  BY <1>2, <1>4, <1>5 DEF LoopHolds
<1>7. saves = [refused |-> saves.refused, retry |-> saves.retry] /\ saves.refused \in BOOLEAN
  BY <1>2
<1> QED
  BY <1>1, <1>2, <1>4, <1>5, <1>6, <1>7, ActionsInvParts

\* What ActionsInv says holds of every behaviour of the actions screen and its loop.
THEOREM ActionsScreenInvariant == ActionsSpec => []ActionsInv
<1>1. ActionsInit => ActionsInv
  BY ActionsInitInv
<1>2. ActionsInv /\ [ActionsNext]_actionsVars => ActionsInv'
  <2> SUFFICES ASSUME ActionsInv, [ActionsNext]_actionsVars PROVE ActionsInv'
    OBVIOUS
  <2>0. DefaultEntry \in Entries
    BY ActionsAssumption DEF ActionsAssumption, DefaultEntry
  <2>1. CASE UNCHANGED actionsVars
    <3>1. UNCHANGED <<manifests, loaded, loop, board, saves, gone>>
      BY <2>1 DEF actionsVars
    <3> QED
      BY <3>1, ActionsInvParts, ActionsInvPartsPrimed
  <2>2. ASSUME NEW key \in Strokes \ {"enter"}, Stroke(key, "good", DefaultEntry, 0, "method")
        PROVE  ActionsInv'
    BY <2>0, <2>2, StrokeKeepsInv
  <2>3. ASSUME NEW id \in ActionIds, NEW next \in {"method", "fsops"}, Stroke("enter", "good", DefaultEntry, id, next)
        PROVE  ActionsInv'
    BY <2>0, <2>3, StrokeKeepsInv
  <2>4. ASSUME NEW text \in {"empty", "bad"}, Stroke("enter", text, DefaultEntry, 0, "method")
        PROVE  ActionsInv'
    BY <2>0, <2>4, StrokeKeepsInv
  <2> QED
    BY <2>1, <2>2, <2>3, <2>4, SaveKeepsInv, ReloadKeepsInv, TickActionsKeepsInv, TickActionDetailKeepsInv,
       ElsewhereKeepsInv, Zenon DEF ActionsNext
<1> QED BY <1>1, <1>2, PTL DEF ActionsSpec

LEMMA ActionsInvIsSafe ==
    ASSUME ActionsInv
    PROVE  ActionsTypeOK /\ ActionsSafe
<1>1. /\ ManifestsOK(manifests) /\ ManifestsOK(loaded) /\ loop \in LoopType
      /\ gone \in {"none", "discarded", "quit"} /\ BoardOK(board)
      /\ LoopHolds(loop, board, saves, gone)
  BY ActionsInvParts
<1>2. ASSUME NEW f, ManifestsOK(f), NEW a \in ActionIds PROVE Cardinality(f[a]) <= 1
  <2>1. f[a] = {} \/ \E m \in f[a] : f[a] = {m}
    BY <1>2 DEF ManifestsOK
  <2> QED
    BY <2>1, FS_EmptySet, FS_Singleton
<1>3. ActionsTypeOK
  <2>1. \A a \in ActionIds : Cardinality(manifests[a]) <= 1 /\ Cardinality(loaded[a]) <= 1
    BY <1>1, <1>2
  <2> QED
    BY <1>1, <2>1 DEF ActionsTypeOK, BoardOK, LoopType
<1>4. DetailIsOfSelected
  BY <1>1 DEF DetailIsOfSelected, BoardOK
<1>5. board.edit.open => EditOK(board.edit)
  BY <1>1, NoEditIsClosed DEF BoardOK
<1>6. CursorOnItem
  <2> SUFFICES ASSUME board.edit.open, OnList(board.edit), ListLen(board.edit) > 0
               PROVE  board.edit.cursor \in 1 .. ListLen(board.edit)
    BY DEF CursorOnItem
  <2>1. /\ board.edit \in Edit /\ ListLen(board.edit) \in Nat
        /\ board.edit.cursor <= (IF ListLen(board.edit) = 0 THEN 1 ELSE ListLen(board.edit))
    BY <1>5, EditIsRecord
  <2>2. board.edit.cursor \in Nat \ {0}
    BY <2>1 DEF Edit
  <2> QED
    BY <2>1, <2>2
<1>7. DraftIsHeld
  <2>1. board.edit.open /\ ~board.edit.dirty => board.edit.spec = board.edit.read
    BY <1>5, EditIsRecord
  <2> QED
    BY <1>1, <2>1 DEF DraftIsHeld, LoopHolds
<1> QED
  BY <1>3, <1>4, <1>6, <1>7 DEF ActionsSafe

--------------------------------------------------------------------------------

\* What a screen changes is what it shows: the three screens, each with its own loop.
THEOREM ScreensAreSafe == SetupSpec /\ ActionsSpec /\ LearnedSpec => []ScreensSafe
<1>1. SetupInv /\ ActionsInv /\ LearnedInv => ScreensSafe
  BY SetupInvIsSafe, ActionsInvIsSafe, LearnedInvIsSafe DEF ScreensSafe
<1> QED
  BY <1>1, SetupInvariant, ActionsScreenInvariant, LearnedScreenInvariant, PTL
===============================================================================
