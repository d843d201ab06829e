----------------------------- MODULE PipelineProofs -----------------------------
(***************************************************************************)
(* The safety properties of the automatic path, for any number of calls,   *)
(* sessions and revocations, with and without budgets, and under every     *)
(* fault of the state store, the ledger and the connection.                *)
(***************************************************************************)
EXTENDS Pipeline, ExecutionTailProofs

\* Before the first call nothing is recorded, charged or done.
LEMMA PipelineInit == Init => TailInv
  <1> SUFFICES ASSUME Init PROVE TailInv
    OBVIOUS
  <1>1. PICK session \in [Runs -> Sessions], risk \in [Runs -> Risks] :
           run = [e \in Runs |-> NewRun(e, session[e], risk[e], FALSE, e)]
    BY DEF Init
  <1>2. \A e \in Runs : NewRun(e, session[e], risk[e], FALSE, e) \in Run
    BY TailAssumption DEF TailAssumption, NewRun, Run, Steps, FrontSteps
  <1>3. run \in [Runs -> Run]
    BY <1>1, <1>2
  <1>4. \A e \in Runs : /\ run[e].pc = "idle" /\ run[e].debited = FALSE
                        /\ run[e].result = "none"
    BY <1>1 DEF NewRun
  <1> QED BY <1>3, <1>4, InitialTail DEF Init

\* Admission and policy evaluation only move the run.
LEMMA FrontKeeps ==
    ASSUME TailInv, NEW e \in Runs, Admit(e) \/ EvaluatePolicy(e) PROVE TailInv'
  <1>1. /\ run \in [Runs -> Run] /\ Progress(e) /\ Charged(e) /\ Approved(e)
        /\ Proven(e)
    BY TailFacts
  <1>2. /\ run[e].pc \in {"idle", "policy"}
        /\ UNCHANGED <<budget, epoch, audit, intents, receipts, effects>>
    BY DEF Admit, EvaluatePolicy
  <1>3. e \notin intents /\ ~run[e].debited /\ run[e].result # "ok"
    BY <1>1, <1>2 DEF Progress, Charged, Proven, BeforeIntent, FrontSteps
  <1>4. \E pc \in {"done", "audit", "policy", "debit"} :
          /\ Moved(e, pc) /\ run'[e].debited = run[e].debited
          /\ run'[e].result # "ok"
    <2>1. ASSUME NEW why \in Shed,
                 run' = [run EXCEPT ![e].pc = "done", ![e].result = why]
          PROVE  \E pc \in {"done"} :
                   /\ Moved(e, pc) /\ run'[e].debited = run[e].debited
                   /\ run'[e].result # "ok"
      <3> DEFINE q == [run[e] EXCEPT !.pc = "done", !.result = why]
      <3>1. run' = [run EXCEPT ![e] = q]
        BY <2>1
      <3>2. /\ q \in Run /\ q.pc = "done" /\ q.session = run[e].session
            /\ q.risk = run[e].risk /\ q.approved = run[e].approved
            /\ q.debited = run[e].debited /\ q.result = why
        <4>1. run[e] \in Run
          BY <1>1
        <4> QED BY <4>1 DEF Run, Steps, EndSteps
      <3> HIDE DEF q
      <3> QED BY <1>1, <3>1, <3>2 DEF Moved, Shed
    <2>2. CASE \E event \in {"Deny", "Error"} : FailTo(e, "audit", event)
      BY <1>1, <2>2, FailToMoves DEF Steps, CleanupSteps, Events
    <2>3. CASE GoTo(e, "policy") \/ GoTo(e, "debit")
      BY <1>1, <1>3, <2>3, GoToMoves DEF Steps, FrontSteps, BuildSteps
    <2> QED BY <2>1, <2>2, <2>3 DEF Admit, EvaluatePolicy
  <1>5. PICK pc \in {"done", "audit", "policy", "debit"} :
          /\ Moved(e, pc) /\ run'[e].debited = run[e].debited
          /\ run'[e].result # "ok"
    BY <1>4
  <1>6. Progress(e)' /\ Charged(e)' /\ Approved(e)'
    BY <1>2, <1>3, <1>5 DEF Progress, Charged, Approved, Moved, FrontSteps
  <1> QED BY <1>2, <1>5, <1>6, PlainMove

\* The tail's invariant is an invariant of the pipeline.
THEOREM PipelineInvariant == Spec => []TailInv
  <1>1. ASSUME TailInv, [Next]_tailVars PROVE TailInv'
    <2>1. ASSUME NEW e \in Runs, CallStep(e) \/ Abandon(e) PROVE TailInv'
      BY <1>1, <2>1, FrontKeeps, RunStepKeeps, AbandonKeeps DEF CallStep
    <2>2. CASE RevokeAll
      <3>1. epoch' \in Nat /\ UNCHANGED <<budget, audit, intents, receipts, effects, run>>
        BY <1>1, <2>2 DEF RevokeAll, TailInv, TailTypeOK
      <3> QED BY <1>1, <3>1, EpochKeeps
    <2>3. CASE UNCHANGED tailVars
      <3>1. epoch' \in Nat /\ UNCHANGED <<budget, audit, intents, receipts, effects, run>>
        BY <1>1, <2>3 DEF tailVars, TailInv, TailTypeOK
      <3> QED BY <1>1, <3>1, EpochKeeps
    <2> QED BY <1>1, <2>1, <2>2, <2>3 DEF Next
  <1> QED BY <1>1, PipelineInit, PTL DEF Spec

\* The pipeline's variables always have their types.
THEOREM PipelineTypes == Spec => []TypeOK
  <1>1. TailInv => TypeOK
    BY DEF TailInv, TypeOK
  <1> QED BY <1>1, PipelineInvariant, PTL

\* No session ever causes more effects than it was given calls.
THEOREM PipelineBudget == Spec => []EffectsWithinBudget
  <1>1. TailInv => EffectsWithinBudget
    BY EffectsAreCharged DEF EffectsWithinBudget
  <1> QED BY <1>1, PipelineInvariant, PTL

\* A reported success has its effect, its intent, its receipt and its event.
THEOREM PipelineEvidence == Spec => []EvidenceGate
  <1>1. TailInv => EvidenceGate
    BY DEF TailInv, RunOK, Proven, EvidenceGate
  <1> QED BY <1>1, PipelineInvariant, PTL

\* An effect without a receipt is among the unresolved intents.
THEOREM PipelineTraceable == Spec => []EffectsAreTraceable
  <1>1. TailInv => EffectsAreTraceable
    BY DEF TailInv, EffectsAreTraceable, UnresolvedIntents
  <1> QED BY <1>1, PipelineInvariant, PTL

\* No high-risk action is recorded for dispatch without an approval.
THEOREM PipelineApproval == Spec => []NoUnapprovedHighRisk
  <1>1. TailInv => NoUnapprovedHighRisk
    BY DEF TailInv, TailTypeOK, RunOK, Approved, NoUnapprovedHighRisk
  <1> QED BY <1>1, PipelineInvariant, PTL
--------------------------------------------------------------------------------
(* The refinement of ExecutionContract.                                        *)

\* Every step of the pipeline moves one run and leaves at most one mark for it.
LEMMA PipelineMarks ==
    ASSUME TailInv, [Next]_tailVars
    PROVE  \/ \E e \in Runs : Alone(e) /\ Marked(e)
           \/ UNCHANGED <<intents, effects, receipts, run>>
  <1>1. ASSUME NEW e \in Runs, Admit(e) \/ EvaluatePolicy(e) \/ Abandon(e)
        PROVE  Alone(e) /\ Marked(e)
    <2>1. run \in [Runs -> Run] /\ run[e] \in Run /\ Proven(e)
      BY TailFacts
    <2>2. run[e].result # "ok" /\ UNCHANGED <<intents, effects, receipts>>
      BY <1>1, <2>1 DEF Admit, EvaluatePolicy, Abandon, InFlight, EndSteps, Proven
    <2>3. run'[e].result # "ok" /\ Alone(e)
      BY <1>1, <2>1, <2>2
         DEF Admit, EvaluatePolicy, Abandon, GoTo, FailTo, Alone, Run
    <2> QED BY <2>2, <2>3 DEF Marked, Unmarked
  <1>2. ASSUME NEW e \in Runs, RunStep(e, "audit_refund") PROVE Alone(e) /\ Marked(e)
    BY <1>2, RunStepMarks
  <1>3. CASE RevokeAll \/ UNCHANGED tailVars
    BY <1>3 DEF RevokeAll, tailVars
  <1> QED BY <1>1, <1>2, <1>3 DEF Next, CallStep

\* What has been recorded for session s is among what it is charged for.
LEMMA RecordedAreCharged ==
    ASSUME TailInv, NEW e \in Runs, NEW s \in Budgeted, run[e].session = s,
           run[e].debited, e \notin intents
    PROVE  Cardinality({f \in intents : run[f].session = s}) < InitBudget
  <1> DEFINE I == {f \in intents : run[f].session = s}
  <1>1. I \in SUBSET (Debited(s) \ {e}) /\ e \in Debited(s)
    BY DEF TailInv, TailTypeOK, RunOK, Charged, Debited
  <1>2. IsFiniteSet(Debited(s)) /\ Cardinality(Debited(s)) \in Nat
    BY DebitedFinite
  <1>3. /\ IsFiniteSet(Debited(s) \ {e})
        /\ Cardinality(Debited(s) \ {e}) = Cardinality(Debited(s)) - 1
    BY <1>1, <1>2, FS_RemoveElement
  <1>4. Cardinality(I) <= Cardinality(Debited(s) \ {e}) /\ Cardinality(I) \in Nat
    BY <1>1, <1>3, FS_Subset, FS_CardinalityType
  <1>5. /\ budget[s] + Cardinality(Debited(s)) <= InitBudget
        /\ budget[s] \in Nat /\ InitBudget \in Nat
    BY TailAssumption DEF TailAssumption, TailInv, TailTypeOK, BudgetInv
  <1> HIDE DEF I
  <1>6. Cardinality(I) < InitBudget
    BY <1>2, <1>3, <1>4, <1>5
  <1> QED BY <1>6 DEF I

\* A run has a phase as soon as its intent is recorded.
LEMMA PhasesFollowIntents ==
    ASSUME TailInv, ReceiptsFollow, NEW e \in Runs
    PROVE  PhaseOf(e) # "none" <=> e \in intents
  BY DEF TailInv, RunOK, Proven, ReceiptsFollow, PhaseOf

\* A marked run goes one phase further, or stays in the one it has.
LEMMA PhaseSteps ==
    ASSUME TailInv, ReceiptsFollow, NEW e \in Runs, Marked(e)
    PROVE  \/ PhaseOf(e)' = PhaseOf(e)
           \/ /\ PhaseOf(e) = "none" /\ PhaseOf(e)' = "recorded" /\ e \notin intents
              /\ run[e].session \in Budgeted => run[e].debited
           \/ PhaseOf(e) = "recorded" /\ PhaseOf(e)' = "acted"
           \/ PhaseOf(e) = "acted" /\ PhaseOf(e)' = "attested"
           \/ PhaseOf(e) \in {"acted", "attested"} /\ PhaseOf(e)' = "reported"
  <1>1. /\ e \in effects => e \in intents
        /\ e \in receipts => e \in effects
    BY DEF TailInv, ReceiptsFollow
  <1>2. CASE Unmarked(e)
    BY <1>2 DEF Unmarked, PhaseOf
  <1>3. CASE Recorded(e)
    BY <1>1, <1>3 DEF Recorded, PhaseOf
  <1>4. CASE Acted(e)
    BY <1>1, <1>4 DEF Acted, PhaseOf
  <1>5. CASE Attested(e)
    BY <1>1, <1>5 DEF Attested, PhaseOf
  <1> QED BY <1>2, <1>3, <1>4, <1>5 DEF Marked

\* The contract counts as the pipeline does.
LEMMA SameCardinality ==
    ASSUME NEW S PROVE Contract!Cardinality(S) = Cardinality(S)
  BY DEF Contract!Cardinality, Cardinality

\* The pipeline implements the contract: every grant goes through its phases in
\* order and once, and no session has more of them than its allowance.
THEOREM PipelineImplementsContract == Spec => ImplementsContract
  <1> DEFINE ph == [e \in Runs |-> PhaseOf(e)]
             ow == [e \in Runs |-> run[e].session]
  <1>1. Init => ReceiptsFollow /\ Contract!ContractInit
    <2> SUFFICES ASSUME Init PROVE ReceiptsFollow /\ Contract!ContractInit
      OBVIOUS
    <2>1. TailInv
      BY PipelineInit
    <2>2. intents = {} /\ receipts = {} /\ effects = {}
      BY DEF Init, TailInit
    <2>3. ReceiptsFollow
      BY <2>2 DEF ReceiptsFollow
    <2>4. \A e \in Runs : PhaseOf(e) = "none"
      BY <2>1, <2>2, <2>3, PhasesFollowIntents
    <2>5. ow \in [Runs -> Sessions]
      BY <2>1 DEF TailInv, TailTypeOK, Run
    <2> QED BY <2>3, <2>4, <2>5 DEF Contract!ContractInit
  <1>2. ASSUME TailInv, ReceiptsFollow, [Next]_tailVars
        PROVE  ReceiptsFollow' /\ [Contract!ContractNext]_<<ph, ow>>
    <2>1. CASE UNCHANGED <<intents, effects, receipts, run>>
      BY <1>2, <2>1 DEF ReceiptsFollow, PhaseOf
    <2>2. ASSUME NEW e \in Runs, Alone(e), Marked(e)
          PROVE  ReceiptsFollow' /\ [Contract!ContractNext]_<<ph, ow>>
      <3>1. ReceiptsFollow'
        BY <1>2, <2>2, MarksFollow
      <3>2. \A f \in Runs : f # e => PhaseOf(f)' = PhaseOf(f)
        BY <2>2 DEF Alone, Marked, Unmarked, Recorded, Acted, Attested, PhaseOf
      <3>3. ow' = ow
        BY <2>2 DEF Alone
      <3>4. ph' = [ph EXCEPT ![e] = PhaseOf(e)'] /\ ph[e] = PhaseOf(e)
        BY <3>2
      <3>5. CASE PhaseOf(e)' = PhaseOf(e)
        <4>1. ph' = ph
          BY <3>2, <3>5
        <4> QED BY <3>1, <3>3, <4>1
      <3>6. CASE /\ PhaseOf(e) = "none" /\ PhaseOf(e)' = "recorded" /\ e \notin intents
                 /\ run[e].session \in Budgeted => run[e].debited
        <4> DEFINE s == run[e].session
        <4>1. Contract!Spent(s) = {f \in intents : run[f].session = s}
          BY <1>2, PhasesFollowIntents DEF Contract!Spent, TailInv, TailTypeOK
        <4>2. s \in Budgeted => Cardinality(Contract!Spent(s)) < InitBudget
          BY <1>2, <3>6, <4>1, RecordedAreCharged
        <4>3. ow[e] \in Budgeted
                => Contract!Cardinality(Contract!Spent(ow[e])) < InitBudget
          BY <4>2, SameCardinality
        <4>4. Contract!Record(e)
          BY <3>3, <3>4, <3>6, <4>3 DEF Contract!Record, Contract!Move
        <4> QED BY <3>1, <4>4 DEF Contract!ContractNext
      <3>7. CASE PhaseOf(e) = "recorded" /\ PhaseOf(e)' = "acted"
        <4>1. Contract!Act(e)
          BY <3>3, <3>4, <3>7 DEF Contract!Act, Contract!Move
        <4> QED BY <3>1, <4>1 DEF Contract!ContractNext
      <3>8. CASE PhaseOf(e) = "acted" /\ PhaseOf(e)' = "attested"
        <4>1. Contract!Attest(e)
          BY <3>3, <3>4, <3>8 DEF Contract!Attest, Contract!Move
        <4> QED BY <3>1, <4>1 DEF Contract!ContractNext
      <3>9. CASE PhaseOf(e) \in {"acted", "attested"} /\ PhaseOf(e)' = "reported"
        <4>1. Contract!Report(e)
          BY <3>3, <3>4, <3>9 DEF Contract!Report, Contract!Move
        <4> QED BY <3>1, <4>1 DEF Contract!ContractNext
      <3> QED BY <1>2, <2>2, <3>5, <3>6, <3>7, <3>8, <3>9, PhaseSteps
    <2> QED BY <1>2, <2>1, <2>2, PipelineMarks
  <1> QED BY <1>1, <1>2, PipelineInvariant, PTL
      DEF Spec, ImplementsContract, Contract!ContractSpec, Contract!contractVars
--------------------------------------------------------------------------------
(* With a working ledger no call ends in silence.                              *)

\* What a run has left behind, or has still in hand, for its trace.
TraceOK(e) ==
    /\ run[e].at = e
    /\ run[e].pc \in {"audit", "audit_refund", "refund_audit"} => run[e].event # NoEvent
    /\ run[e].pc = "refund" => audit[e] # NoEvent
    /\ run[e].pc \in {"dispatch", "output", "evidence"} => e \notin receipts
    /\ (run[e].pc = "done" /\ run[e].result \notin Shed) =>
          \/ audit[e] # NoEvent
          \/ /\ run[e].result = "error"
             /\ e \in effects /\ e \in intents \ receipts

TraceInv ==
    /\ TailInv
    /\ ReceiptsFollow
    /\ \A e \in Runs : TraceOK(e)

\* The steps before the debit, and the loss of a request.
LEMMA FrontLeavesTrace ==
    ASSUME TraceInv, NEW e \in Runs, Admit(e) \/ EvaluatePolicy(e) \/ Abandon(e)
    PROVE  TraceOK(e)'
  <1>1. run \in [Runs -> Run] /\ run[e] \in Run
    BY TailFacts DEF TraceInv
  <1>2. TraceOK(e)
    BY DEF TraceInv
  <1> QED BY <1>1, <1>2 DEF Admit, EvaluatePolicy, Abandon, GoTo, FailTo, TraceOK, Run,
                            NoEvent

\* A run that moves on keeps its trace, or writes it: with a working ledger the
\* only write that is refused is one for a trace that has its event.
LEMMA StepLeavesTrace ==
    ASSUME TraceInv, ~LedgerFaults, NEW e \in Runs, RunStep(e, "audit_refund")
    PROVE  TraceOK(e)'
  <1>1. /\ run \in [Runs -> Run] /\ run[e] \in Run /\ Progress(e)
        /\ audit \in [Traces -> Events \cup {NoEvent}] /\ e \in Traces
    BY TailFacts DEF TraceInv
  <1>2. TraceOK(e) /\ (e \in receipts => e \in effects) /\ (e \in effects => e \in intents)
    BY DEF TraceInv, TailInv, ReceiptsFollow
  <1>3. CASE DebitBudget(e) \/ BuildRun(e, "audit_refund") \/ ValidateGrant(e)
    BY <1>1, <1>2, <1>3 DEF DebitBudget, BuildRun, ValidateGrant, GoTo, FailTo, TraceOK,
                            Run, NoEvent
  <1>4. CASE WriteIntentAndConsumeGrant(e)
    BY <1>1, <1>2, <1>4 DEF WriteIntentAndConsumeGrant, GoTo, FailTo, TraceOK, Run, NoEvent
  <1>5. CASE Dispatch(e) \/ CheckOutput(e)
    BY <1>1, <1>2, <1>5 DEF Dispatch, CheckOutput, GoTo, FailTo, TraceOK, Run, NoEvent
  <1>6. CASE FinalizeEvidence(e)
    <2>1. e \in intents /\ e \in effects /\ e \notin receipts
      BY <1>1, <1>2, <1>6 DEF FinalizeEvidence, Progress, TraceOK
    <2>2. audit'[e] # NoEvent \/ (run'[e].result = "error" /\ UNCHANGED receipts)
      BY <1>1, <1>6 DEF FinalizeEvidence, CommitEvidence, NoEvent, Run
    <2>3. /\ run'[e].pc = "done" /\ run'[e].at = run[e].at
          /\ intents' = intents /\ effects' = effects
      BY <1>1, <1>6 DEF FinalizeEvidence, Run
    <2> QED BY <1>2, <2>1, <2>2, <2>3 DEF TraceOK
  <1>7. CASE WriteFailureAudit(e)
    <2>1. audit'[e] # NoEvent
      BY <1>1, <1>2, <1>7 DEF WriteFailureAudit, WriteAudit, AppendEvent, TraceOK
    <2>2. run'[e].pc \in {"done", "refund"} /\ run'[e].at = run[e].at
      BY <1>1, <1>7 DEF WriteFailureAudit, GoTo, Run
    <2> QED BY <1>2, <2>1, <2>2 DEF TraceOK
  <1>8. CASE RollBack(e)
    <2>1. audit[e] # NoEvent => audit'[e] # NoEvent
      BY <1>1, <1>8, RunStepAudits DEF TraceInv, RunStep
    <2>2. /\ run[e].pc = "refund_audit" => run'[e].pc = "audit"
          /\ run[e].pc = "refund" => run'[e].pc = "done"
          /\ run[e].pc \in {"refund_audit", "refund"}
          /\ run'[e].at = run[e].at /\ run'[e].event = run[e].event
      BY <1>1, <1>8 DEF RollBack, RefundBudget, GoTo, Run
    <2> QED BY <1>2, <2>1, <2>2 DEF TraceOK
  <1> QED BY <1>3, <1>4, <1>5, <1>6, <1>7, <1>8 DEF RunStep

\* With a working ledger every call that was not shed leaves its audit event, or
\* acted and leaves an unresolved intent, whatever the store does and whoever
\* goes away.
THEOREM PipelineNeverSilent ==
    ASSUME ~LedgerFaults PROVE Spec => []NoSilentEnd
  <1>1. Init => TraceInv
    <2> SUFFICES ASSUME Init PROVE TraceInv
      OBVIOUS
    <2>1. TailInv /\ ReceiptsFollow
      BY PipelineInit DEF Init, TailInit, ReceiptsFollow
    <2>2. \A e \in Runs : run[e].pc = "idle" /\ run[e].at = e
      BY DEF Init, NewRun
    <2> QED BY <2>1, <2>2 DEF TraceInv, TraceOK
  <1>2. ASSUME TraceInv, TailInv', [Next]_tailVars PROVE TraceInv'
    <2>1. CASE RevokeAll \/ UNCHANGED tailVars
      <3>1. UNCHANGED <<audit, intents, receipts, effects, run>>
        BY <2>1 DEF RevokeAll, tailVars
      <3> QED BY <1>2, <3>1 DEF TraceInv, ReceiptsFollow, TraceOK
    <2>2. ASSUME NEW e \in Runs, CallStep(e) \/ Abandon(e) PROVE TraceInv'
      <3>1. TraceOK(e)'
        BY <1>2, <2>2, FrontLeavesTrace, StepLeavesTrace DEF CallStep
      <3>2. ReceiptsFollow'
        <4>1. Next
          BY <2>2 DEF Next
        <4> QED BY <1>2, <4>1, PipelineMarks, MarksFollow DEF TraceInv, ReceiptsFollow
      <3>3. \A f \in Runs : f # e =>
              /\ run'[f] = run[f]
              /\ f \in intents' <=> f \in intents
              /\ f \in effects' <=> f \in effects
              /\ f \in receipts' <=> f \in receipts
        <4>1. CASE RunStep(e, "audit_refund")
          BY <1>2, <4>1, RunStepMarks
             DEF TraceInv, Alone, Marked, Unmarked, Recorded, Acted, Attested
        <4>2. CASE Admit(e) \/ EvaluatePolicy(e) \/ Abandon(e)
          BY <1>2, <4>2
             DEF TraceInv, TailInv, TailTypeOK, Admit, EvaluatePolicy, Abandon, GoTo, FailTo
        <4> QED BY <2>2, <4>1, <4>2 DEF CallStep
      <3>4. \A x \in Traces : audit[x] # NoEvent => audit'[x] = audit[x]
        BY <1>2, <2>2, RunStepAudits
           DEF TraceInv, CallStep, Admit, EvaluatePolicy, Abandon
      <3>5. \A f \in Runs : f # e => TraceOK(f)'
        BY <1>2, <3>3, <3>4, TailAssumption DEF TailAssumption, TraceInv, TraceOK
      <3> QED BY <1>2, <3>1, <3>2, <3>5 DEF TraceInv
    <2> QED BY <1>2, <2>1, <2>2 DEF Next
  <1>3. TraceInv => NoSilentEnd
    BY DEF TraceInv, TraceOK, NoSilentEnd, UnresolvedIntents
  <1> QED BY <1>1, <1>2, <1>3, PipelineInvariant, PTL DEF Spec
--------------------------------------------------------------------------------
(* With a reliable store and no lost request the accounts are exact.           *)

\* A run that is before its debit, past its refund or at its end is charged only
\* if it was recorded.
Settled(e) ==
    /\ run[e].pc # "lost"
    /\ run[e].pc \in {"idle", "policy", "debit", "audit", "done"} =>
          (run[e].debited => e \in intents)

ExactInv ==
    /\ TailInv
    /\ \A s \in Budgeted : Balance(s) = InitBudget
    /\ \A e \in Runs : Settled(e)

\* What a step does to one run says all of Settled.
LEMMA OthersSettled ==
    ASSUME ExactInv, NEW e \in Runs, NEW pc, Moved(e, pc),
           intents' \in {intents, intents \cup {e}}, Settled(e)'
    PROVE  \A f \in Runs : Settled(f)'
  BY DEF ExactInv, Settled, Moved

\* A step that charges nobody and leaves the budget alone.
LEMMA BalancesUntouched ==
    ASSUME ExactInv, NEW e \in Runs, NEW pc, Moved(e, pc),
           run'[e].debited = run[e].debited, UNCHANGED budget
    PROVE  \A s \in Budgeted : Balance(s)' = InitBudget
  <1> SUFFICES ASSUME NEW s \in Budgeted PROVE Balance(s)' = InitBudget
    OBVIOUS
  <1>1. Debited(s)' = Debited(s)
    BY DEF Debited, Moved
  <1>2. Balance(s) = InitBudget
    BY DEF ExactInv
  <1> QED BY <1>1, <1>2 DEF Balance

\* The steps that touch neither the budget nor a charge.
LEMMA PlainStepsExact ==
    ASSUME ExactInv, TailInv', NEW e \in Runs,
           \/ Admit(e) \/ EvaluatePolicy(e) \/ BuildRun(e, "audit_refund")
           \/ ValidateGrant(e) \/ WriteIntentAndConsumeGrant(e) \/ Dispatch(e)
           \/ CheckOutput(e) \/ FinalizeEvidence(e) \/ WriteFailureAudit(e)
    PROVE  ExactInv'
  <1>1. /\ run \in [Runs -> Run] /\ run[e] \in Run /\ run' \in [Runs -> Run]
        /\ Progress(e) /\ Charged(e) /\ Settled(e)
    BY TailFacts DEF ExactInv, TailInv, TailTypeOK
  <1>2. UNCHANGED budget
    BY DEF Admit, EvaluatePolicy, BuildRun, ValidateGrant, WriteIntentAndConsumeGrant,
           Dispatch, CheckOutput, FinalizeEvidence, WriteFailureAudit
  <1>3. intents' \in {intents, intents \cup {e}}
    BY DEF Admit, EvaluatePolicy, BuildRun, ValidateGrant, WriteIntentAndConsumeGrant,
           Dispatch, CheckOutput, FinalizeEvidence, WriteFailureAudit
  <1>4. /\ Moved(e, run'[e].pc) /\ run'[e].debited = run[e].debited
    BY <1>1 DEF Admit, EvaluatePolicy, BuildRun, ValidateGrant,
           WriteIntentAndConsumeGrant, Dispatch, CheckOutput, FinalizeEvidence,
           WriteFailureAudit, GoTo, FailTo, Moved, Run
  <1>5. Settled(e)'
    <2>1. CASE Admit(e) \/ EvaluatePolicy(e)
      <3>1. run[e].pc \in {"idle", "policy"} /\ intents' = intents
        BY <2>1 DEF Admit, EvaluatePolicy
      <3>2. run'[e].pc # "lost"
        BY <1>1, <2>1 DEF Admit, EvaluatePolicy, GoTo, FailTo, Run
      <3> QED BY <1>1, <1>4, <3>1, <3>2 DEF Settled
    <2>2. CASE BuildRun(e, "audit_refund") \/ ValidateGrant(e)
      <3>1. run'[e].pc \in {"validate", "audit_refund", "intent", "refund_audit"}
        BY <1>1, <2>2 DEF BuildRun, ValidateGrant, GoTo, FailTo, Run
      <3> QED BY <3>1 DEF Settled
    <2>3. CASE WriteIntentAndConsumeGrant(e)
      <3>1. run'[e].pc \in {"dispatch", "refund_audit"}
        BY <1>1, <2>3 DEF WriteIntentAndConsumeGrant, GoTo, FailTo, Run
      <3> QED BY <3>1 DEF Settled
    <2>4. CASE Dispatch(e) \/ CheckOutput(e) \/ FinalizeEvidence(e)
      <3>1. e \in intents /\ intents' = intents
        BY <1>1, <2>4 DEF Dispatch, CheckOutput, FinalizeEvidence, Progress
      <3>2. run'[e].pc \in {"output", "evidence", "audit", "done"}
        BY <1>1, <2>4 DEF Dispatch, CheckOutput, FinalizeEvidence, GoTo, FailTo, Run
      <3> QED BY <3>1, <3>2 DEF Settled
    <2>5. CASE WriteFailureAudit(e)
      <3>1. /\ intents' = intents
            /\ \/ run[e].pc = "audit" /\ run'[e].pc = "done"
               \/ run'[e].pc = "refund"
        BY <1>1, <2>5 DEF WriteFailureAudit, GoTo, Run
      <3> QED BY <1>1, <1>4, <3>1 DEF Settled
    <2> QED BY <2>1, <2>2, <2>3, <2>4, <2>5
  <1>6. \A f \in Runs : Settled(f)'
    BY <1>3, <1>4, <1>5, OthersSettled
  <1>7. \A s \in Budgeted : Balance(s)' = InitBudget
    BY <1>2, <1>4, BalancesUntouched
  <1> QED BY <1>6, <1>7 DEF ExactInv

\* The debit: charged exactly when the budget goes down.
LEMMA DebitExact ==
    ASSUME ExactInv, TailInv', ~StoreFaults, NEW e \in Runs, DebitBudget(e)
    PROVE  ExactInv'
  <1> DEFINE s0 == run[e].session
  <1>1. /\ run \in [Runs -> Run] /\ run[e] \in Run /\ run' \in [Runs -> Run]
        /\ Charged(e) /\ Settled(e)
    BY TailFacts DEF ExactInv, TailInv, TailTypeOK
  <1>2. run[e].pc = "debit" /\ intents' = intents /\ ~run[e].debited
    BY <1>1 DEF DebitBudget, Charged
  <1>3. /\ Moved(e, run'[e].pc) /\ run'[e].pc \in {"build", "audit"}
        /\ run'[e].pc = "audit" => ~run'[e].debited
        /\ \/ run'[e].debited = run[e].debited /\ UNCHANGED budget
           \/ /\ run'[e].debited /\ budget[s0] > 0
              /\ budget' = [budget EXCEPT ![s0] = @ - 1]
    BY <1>1, <1>2 DEF DebitBudget, Debit, GoTo, FailTo, Moved, Run
  <1>4. Settled(e)'
    BY <1>3 DEF Settled
  <1>5. \A f \in Runs : Settled(f)'
    BY <1>2, <1>3, <1>4, OthersSettled
  <1>6. \A s \in Budgeted : Balance(s)' = InitBudget
    <2>1. CASE run'[e].debited = run[e].debited /\ UNCHANGED budget
      BY <1>3, <2>1, BalancesUntouched
    <2>2. CASE /\ run'[e].debited /\ budget[s0] > 0
               /\ budget' = [budget EXCEPT ![s0] = @ - 1]
      BY <1>2, <1>3, <2>2, DebitBalances DEF ExactInv
    <2> QED BY <1>3, <2>1, <2>2
  <1> QED BY <1>5, <1>6 DEF ExactInv

\* The refund: a charged run that was not recorded gets its call back, once.
LEMMA RefundExact ==
    ASSUME ExactInv, TailInv', ~StoreFaults, NEW e \in Runs, RollBack(e)
    PROVE  ExactInv'
  <1> DEFINE s0 == run[e].session
  <1>1. /\ run \in [Runs -> Run] /\ run[e] \in Run /\ run' \in [Runs -> Run]
    BY TailFacts DEF ExactInv, TailInv, TailTypeOK
  <1>2. intents' = intents
    BY DEF RollBack, RefundBudget
  <1>3. /\ Moved(e, run'[e].pc) /\ run'[e].pc \in {"audit", "done"}
        /\ ~run'[e].debited
        /\ \/ ~run[e].debited /\ UNCHANGED budget
           \/ run[e].debited /\ budget' = [budget EXCEPT ![s0] = @ + 1]
    BY <1>1 DEF RollBack, RefundBudget, Rollback, GoTo, Moved, Run
  <1>4. Settled(e)'
    BY <1>3 DEF Settled
  <1>5. \A f \in Runs : Settled(f)'
    BY <1>2, <1>3, <1>4, OthersSettled
  <1>6. \A s \in Budgeted : Balance(s)' = InitBudget
    <2>1. CASE ~run[e].debited /\ UNCHANGED budget
      <3>1. run'[e].debited = run[e].debited
        BY <1>1, <1>3, <2>1 DEF Run
      <3> QED BY <1>3, <2>1, <3>1, BalancesUntouched
    <2>2. CASE run[e].debited /\ budget' = [budget EXCEPT ![s0] = @ + 1]
      BY <1>3, <2>2, RefundBalances DEF ExactInv
    <2> QED BY <1>3, <2>1, <2>2
  <1> QED BY <1>5, <1>6 DEF ExactInv

\* When the store answers and no request is lost, a quiet session has paid for the
\* calls that were recorded for dispatch and for no other.
THEOREM PipelinePaysExactly ==
    ASSUME ~StoreFaults, ~Abandons PROVE Spec => []QuietSessionsPaidExactly
  <1>1. Init => ExactInv
    <2> SUFFICES ASSUME Init PROVE ExactInv
      OBVIOUS
    <2>1. TailInv /\ InitBudget \in Nat /\ Budgeted \subseteq Sessions
      BY PipelineInit, TailAssumption DEF TailAssumption
    <2>2. \A e \in Runs : run[e].pc = "idle" /\ run[e].debited = FALSE
      BY DEF Init, NewRun
    <2>3. ASSUME NEW s \in Budgeted PROVE Balance(s) = InitBudget
      <3>1. Debited(s) = {}
        BY <2>2 DEF Debited
      <3>2. Cardinality(Debited(s)) = 0
        BY <3>1, FS_EmptySet
      <3>3. budget[s] = InitBudget
        BY <2>1 DEF Init, TailInit
      <3> QED BY <2>1, <3>2, <3>3 DEF Balance
    <2> QED BY <2>1, <2>2, <2>3 DEF ExactInv, Settled
  <1>2. ASSUME ExactInv, TailInv', [Next]_tailVars PROVE ExactInv'
    <2>1. CASE RevokeAll \/ UNCHANGED tailVars
      <3>1. UNCHANGED <<budget, intents, run>>
        BY <2>1 DEF RevokeAll, tailVars
      <3> QED BY <1>2, <3>1 DEF ExactInv, Settled, Balance, Debited
    <2>2. ASSUME NEW e \in Runs, CallStep(e) PROVE ExactInv'
      BY <1>2, <2>2, PlainStepsExact, DebitExact, RefundExact DEF CallStep, RunStep
    <2> QED BY <1>2, <2>1, <2>2 DEF Next, Abandon
  <1>3. ExactInv => QuietSessionsPaidExactly
    <2> SUFFICES ASSUME ExactInv, NEW s \in Budgeted,
                        \A e \in Runs : run[e].session = s => ~InFlight(e)
                 PROVE  budget[s] + Cardinality({e \in intents : run[e].session = s})
                          = InitBudget
      BY DEF QuietSessionsPaidExactly
    <2>1. {e \in intents : run[e].session = s} = Debited(s)
      <3>1. \A e \in Runs : e \in intents /\ run[e].session = s => run[e].debited
        BY DEF ExactInv, TailInv, RunOK, Charged
      <3>2. \A e \in Debited(s) : e \in intents
        BY DEF ExactInv, Settled, Debited, InFlight, EndSteps
      <3>3. intents \subseteq Runs
        BY DEF ExactInv, TailInv, TailTypeOK
      <3> QED BY <3>1, <3>2, <3>3 DEF Debited
    <2> QED BY <2>1 DEF ExactInv, Balance
  <1> QED BY <1>1, <1>2, <1>3, PipelineInvariant, PTL DEF Spec

--------------------------------------------------------------------------------
(* A revocation stops the calls whose grant has not been checked.              *)

\* A run that will not act: its grant is older than the epoch and still to be
\* checked, or it has failed that check.
Stopped(e) ==
    /\ e \notin intents
    /\ \/ run[e].pc = "validate" /\ run[e].epoch < epoch
       \/ run[e].pc \in {"refund_audit", "audit"} \cup EndSteps

\* Nothing sets a stopped run going again.
LEMMA StoppedForGood ==
    ASSUME TailInv, [Next]_tailVars, NEW e \in Runs, Stopped(e) PROVE Stopped(e)'
  <1>1. run \in [Runs -> Run] /\ run[e] \in Run /\ epoch \in Nat
    BY TailFacts
  <1>2. ASSUME NEW f \in Runs, CallStep(f) \/ Abandon(f), f # e PROVE Stopped(e)'
    <2>1. run'[e] = run[e] /\ epoch' = epoch
      BY <1>1, <1>2 DEF CallStep, Admit, EvaluatePolicy, Abandon, RunStep, DebitBudget,
         BuildRun, ValidateGrant, WriteIntentAndConsumeGrant, Dispatch, CheckOutput,
         FinalizeEvidence, WriteFailureAudit, RollBack, RefundBudget, GoTo, FailTo
    <2>2. e \in intents' => e \in intents
      BY <1>2 DEF CallStep, Admit, EvaluatePolicy, Abandon, RunStep, DebitBudget,
         BuildRun, ValidateGrant, WriteIntentAndConsumeGrant, Dispatch, CheckOutput,
         FinalizeEvidence, WriteFailureAudit, RollBack, RefundBudget
    <2> QED BY <2>1, <2>2 DEF Stopped
  <1>3. CASE Abandon(e)
    BY <1>1, <1>3 DEF Abandon, GoTo, Stopped, EndSteps, Run
  <1>4. CASE CallStep(e)
    <2>1. \/ ValidateGrant(e) /\ run[e].epoch < epoch
          \/ WriteFailureAudit(e) /\ run[e].pc = "audit"
          \/ RollBack(e) /\ run[e].pc = "refund_audit"
      BY <1>4 DEF Stopped, CallStep, Admit, EvaluatePolicy, RunStep, DebitBudget,
         BuildRun, ValidateGrant, WriteIntentAndConsumeGrant, Dispatch, CheckOutput,
         FinalizeEvidence, WriteFailureAudit, RollBack, EndSteps
    <2>2. CASE ValidateGrant(e) /\ run[e].epoch < epoch
      <3>1. run[e].epoch \in Nat
        BY <1>1 DEF Run
      <3>2. \A expired \in BOOLEAN : ~GrantIsValid(e, expired)
        BY <1>1, <2>2, <3>1 DEF GrantIsValid
      <3>3. FailTo(e, "refund_audit", "Deny") /\ intents' = intents
        BY <2>2, <3>2 DEF ValidateGrant
      <3> QED BY <1>1, <3>3 DEF FailTo, Stopped, Run
    <2>3. CASE WriteFailureAudit(e) /\ run[e].pc = "audit"
      BY <1>1, <2>3 DEF WriteFailureAudit, GoTo, Stopped, EndSteps, Run
    <2>4. CASE RollBack(e) /\ run[e].pc = "refund_audit"
      <3>1. run'[e].pc = "audit" /\ intents' = intents
        BY <1>1, <2>4 DEF RollBack, RefundBudget, GoTo, Run
      <3> QED BY <3>1 DEF Stopped
    <2> QED BY <2>1, <2>2, <2>3, <2>4
  <1>5. CASE RevokeAll \/ UNCHANGED tailVars
    <2>1. run' = run /\ intents' = intents /\ (epoch' = epoch \/ epoch' = epoch + 1)
      BY <1>5 DEF RevokeAll, tailVars
    <2>2. run[e].epoch \in Nat
      BY <1>1 DEF Run
    <2> QED BY <1>1, <2>1, <2>2 DEF Stopped
  <1> QED BY <1>2, <1>3, <1>4, <1>5 DEF Next

\* A call whose grant is not yet checked when the epoch moves on never acts.
THEOREM PipelineHeedsRevocation == Spec => RevokedBeforeCheckNeverActs
  <1> SUFFICES ASSUME NEW e \in Runs
               PROVE  Spec => [](run[e].pc = "validate" /\ run[e].epoch < epoch
                                    => [](e \notin effects))
    BY DEF RevokedBeforeCheckNeverActs
  <1>1. TailInv => (run[e].pc = "validate" /\ run[e].epoch < epoch => Stopped(e))
    BY DEF TailInv, RunOK, Progress, BeforeIntent, Stopped
  <1>2. TailInv /\ [Next]_tailVars /\ Stopped(e) => Stopped(e)'
    BY StoppedForGood
  <1>3. TailInv /\ Stopped(e) => e \notin effects
    BY DEF TailInv, Stopped
  <1> QED BY <1>1, <1>2, <1>3, PipelineInvariant, PTL DEF Spec
================================================================================
