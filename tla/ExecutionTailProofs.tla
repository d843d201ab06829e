-------------------------- MODULE ExecutionTailProofs --------------------------
(***************************************************************************)
(* The inductive invariant of the execution tail, and a proof that every   *)
(* step of a run keeps it.  Both paths that lead into the tail (Pipeline   *)
(* and ApprovalFlow) build on these lemmas, so the parts of the invariant  *)
(* speak of a run's own progress and of nothing that happens before.       *)
(***************************************************************************)
EXTENDS ExecutionTail, FiniteSetTheorems, TLAPS

\* Where a run is while nothing has been recorded for it.
BeforeIntent == FrontSteps \cup BuildSteps \cup
                {"validate", "intent", "refund_audit", "audit_refund", "refund"}

\* How far a run has come, against what the ledger and the world show of it.
Progress(e) ==
    /\ run[e].pc \in BeforeIntent => e \notin intents
    /\ run[e].pc \in {"dispatch", "output", "evidence"} => e \in intents
    /\ run[e].pc \in {"output", "evidence"} => e \in effects

\* A budgeted run is charged from its debit on, and stays charged once recorded.
Charged(e) ==
    /\ run[e].pc \in FrontSteps \cup {"debit"} => ~run[e].debited
    /\ (run[e].pc \in {"build", "validate", "intent"} \/ e \in intents) =>
          (run[e].session \in Budgeted => run[e].debited)

\* Past the grant check a high-risk run is an approved one.
Approved(e) ==
    (run[e].pc = "intent" \/ e \in intents) => (run[e].risk = "high" => run[e].approved)

\* A success has its effect, its intent, its receipt and its Allow event.
Proven(e) ==
    run[e].result = "ok" =>
        /\ run[e].pc = "done"
        /\ e \in effects /\ e \in intents /\ e \in receipts
        /\ audit[e] = "Allow"

RunOK(e) == Progress(e) /\ Charged(e) /\ Approved(e) /\ Proven(e)

\* The runs that session s is being charged for.
Debited(s) == {e \in Runs : run[e].session = s /\ run[e].debited}

BudgetInv ==
    \A s \in Budgeted : budget[s] + Cardinality(Debited(s)) <= InitBudget

TailInv ==
    /\ TailTypeOK
    /\ effects \subseteq intents
    /\ \A e \in Runs : RunOK(e)
    /\ BudgetInv

--------------------------------------------------------------------------------
(* What a step does to the runs.                                               *)

\* Only run e moves, to pc, and it keeps its session, its risk and its approval.
Moved(e, pc) ==
    /\ run' \in [Runs -> Run]
    /\ run'[e].pc = pc
    /\ run'[e].session = run[e].session
    /\ run'[e].risk = run[e].risk
    /\ run'[e].approved = run[e].approved
    /\ \A f \in Runs : f # e => run'[f] = run[f]

\* GoTo moves one run and changes nothing else of it.
LEMMA GoToMoves ==
    ASSUME NEW e \in Runs, NEW pc \in Steps, run \in [Runs -> Run], GoTo(e, pc)
    PROVE  /\ Moved(e, pc)
           /\ run'[e].debited = run[e].debited
           /\ run'[e].result = run[e].result
  BY DEF GoTo, Moved, Run

\* FailTo moves one run and reports an error.
LEMMA FailToMoves ==
    ASSUME NEW e \in Runs, NEW pc \in Steps, NEW event \in Events \cup {NoEvent},
           run \in [Runs -> Run], FailTo(e, pc, event)
    PROVE  /\ Moved(e, pc)
           /\ run'[e].debited = run[e].debited
           /\ run'[e].result = "error"
  <1> DEFINE q == [run[e] EXCEPT !.pc = pc, !.event = event, !.result = "error"]
  <1>1. run' = [run EXCEPT ![e] = q]
    BY DEF FailTo
  <1>2. /\ q \in Run /\ q.pc = pc /\ q.session = run[e].session
        /\ q.risk = run[e].risk /\ q.approved = run[e].approved
        /\ q.debited = run[e].debited /\ q.result = "error"
    <2>1. run[e] \in Run
      OBVIOUS
    <2> QED BY <2>1 DEF Run
  <1> HIDE DEF q
  <1> QED BY <1>1, <1>2 DEF Moved

\* WriteAudit keeps the type of the table and every event it holds.
LEMMA WriteAuditKeeps ==
    ASSUME NEW tr \in Traces, NEW event \in Events \cup {NoEvent},
           audit \in [Traces -> Events \cup {NoEvent}], WriteAudit(tr, event)
    PROVE  /\ audit' \in [Traces -> Events \cup {NoEvent}]
           /\ \A x \in Traces : audit[x] # NoEvent => audit'[x] = audit[x]
  BY DEF WriteAudit, AppendEvent

\* The runs a step does not move keep their part of the invariant, as long as the
\* step records, acts and attests only for the run it moves.
LEMMA OthersKeep ==
    ASSUME TailInv, NEW e \in Runs,
           \A f \in Runs : f # e => run'[f] = run[f],
           intents' \in {intents, intents \cup {e}},
           effects' \in {effects, effects \cup {e}},
           receipts' \in {receipts, receipts \cup {e}},
           \A x \in Traces : audit[x] # NoEvent => audit'[x] = audit[x],
           NEW f \in Runs, f # e
    PROVE  RunOK(f)'
  <1>1. run'[f] = run[f]
    OBVIOUS
  <1>2. /\ f \in intents' <=> f \in intents
        /\ f \in effects' <=> f \in effects
        /\ f \in receipts' <=> f \in receipts
    OBVIOUS
  <1>3. RunOK(f)
    BY DEF TailInv
  <1>4. audit[f] = "Allow" => audit'[f] = "Allow"
    BY TailAssumption DEF TailAssumption, NoEvent
  <1>5. Progress(f)'
    BY <1>1, <1>2, <1>3 DEF RunOK, Progress
  <1>6. Charged(f)' /\ Approved(f)'
    BY <1>1, <1>2, <1>3 DEF RunOK, Charged, Approved
  <1>7. Proven(f)'
    BY <1>1, <1>2, <1>3, <1>4 DEF RunOK, Proven
  <1> QED BY <1>5, <1>6, <1>7 DEF RunOK

\* To keep the invariant a step has to look after the run it moves, the types and
\* the budget.
LEMMA StepKeeps ==
    ASSUME TailInv, NEW e \in Runs, NEW pc, Moved(e, pc),
           intents' \in {intents, intents \cup {e}},
           effects' \in {effects, effects \cup {e}},
           receipts' \in {receipts, receipts \cup {e}},
           audit' \in [Traces -> Events \cup {NoEvent}],
           \A x \in Traces : audit[x] # NoEvent => audit'[x] = audit[x],
           budget' \in [Sessions -> Nat], epoch' \in Nat,
           effects' \subseteq intents', RunOK(e)', BudgetInv'
    PROVE  TailInv'
  <1>1. TailTypeOK'
    BY DEF TailInv, TailTypeOK, Moved
  <1>2. \A f \in Runs : RunOK(f)'
    BY OthersKeep DEF Moved
  <1> QED BY <1>1, <1>2 DEF TailInv

--------------------------------------------------------------------------------
(* The budget.                                                                 *)

\* The charged runs are finitely many.
LEMMA DebitedFinite ==
    ASSUME NEW s PROVE IsFiniteSet(Debited(s)) /\ Cardinality(Debited(s)) \in Nat
  <1>1. Debited(s) \in SUBSET Runs
    BY DEF Debited
  <1> QED BY <1>1, TailAssumption, FS_Subset, FS_CardinalityType DEF TailAssumption

\* A step that charges and releases nobody, and gives nothing back.
LEMMA BudgetKept ==
    ASSUME TailInv, NEW e \in Runs, NEW pc, Moved(e, pc),
           run'[e].debited = run[e].debited,
           budget' \in [Sessions -> Nat],
           \A s \in Sessions : budget'[s] <= budget[s]
    PROVE  BudgetInv'
  <1> SUFFICES ASSUME NEW s \in Budgeted
               PROVE  budget'[s] + Cardinality(Debited(s)') <= InitBudget
    BY DEF BudgetInv
  <1>1. Debited(s)' = Debited(s)
    BY DEF Debited, Moved
  <1>2. budget[s] + Cardinality(Debited(s)) <= InitBudget
    BY DEF TailInv, BudgetInv
  <1>3. /\ s \in Sessions /\ InitBudget \in Nat
        /\ budget[s] \in Nat /\ budget'[s] \in Nat /\ budget'[s] <= budget[s]
    BY TailAssumption DEF TailAssumption, TailInv, TailTypeOK
  <1>4. Cardinality(Debited(s)) \in Nat
    BY DebitedFinite
  <1> QED BY <1>1, <1>2, <1>3, <1>4

\* What session s has left and what it is being charged for.
Balance(s) == budget[s] + Cardinality(Debited(s))

\* A debit: one call less, one run more.
LEMMA DebitBalances ==
    ASSUME TailInv, NEW e \in Runs, NEW pc, Moved(e, pc),
           ~run[e].debited, run'[e].debited, budget[run[e].session] > 0,
           budget' = [budget EXCEPT ![run[e].session] = @ - 1]
    PROVE  /\ \A s \in Budgeted : Balance(s)' = Balance(s)
           /\ budget' \in [Sessions -> Nat]
  <1> DEFINE s0 == run[e].session
  <1>1. /\ budget \in [Sessions -> Nat] /\ run \in [Runs -> Run] /\ s0 \in Sessions
        /\ Budgeted \subseteq Sessions
    BY TailAssumption DEF TailAssumption, TailInv, TailTypeOK, Run
  <1>2. ASSUME NEW s \in Budgeted PROVE Balance(s)' = Balance(s)
    <2>1. IsFiniteSet(Debited(s)) /\ Cardinality(Debited(s)) \in Nat /\ budget[s] \in Nat
      BY <1>1, DebitedFinite
    <2>2. CASE s = s0
      <3>1. Debited(s)' = Debited(s) \cup {e} /\ e \notin Debited(s)
        BY <2>2 DEF Debited, Moved
      <3>2. Cardinality(Debited(s)') = Cardinality(Debited(s)) + 1
        BY <2>1, <3>1, FS_AddElement
      <3>3. budget'[s] = budget[s] - 1
        BY <1>1, <2>2
      <3> QED BY <1>1, <2>1, <3>2, <3>3 DEF Balance
    <2>3. CASE s # s0
      <3>1. Debited(s)' = Debited(s) /\ budget'[s] = budget[s]
        BY <1>1, <2>3 DEF Debited, Moved
      <3> QED BY <3>1 DEF Balance
    <2> QED BY <2>2, <2>3
  <1>3. budget' \in [Sessions -> Nat]
    BY <1>1
  <1> QED BY <1>2, <1>3

\* A refund: one call more, one run less.
LEMMA RefundBalances ==
    ASSUME TailInv, NEW e \in Runs, NEW pc, Moved(e, pc),
           run[e].debited, ~run'[e].debited,
           budget' = [budget EXCEPT ![run[e].session] = @ + 1]
    PROVE  /\ \A s \in Budgeted : Balance(s)' = Balance(s)
           /\ budget' \in [Sessions -> Nat]
  <1> DEFINE s0 == run[e].session
  <1>1. /\ budget \in [Sessions -> Nat] /\ run \in [Runs -> Run] /\ s0 \in Sessions
        /\ Budgeted \subseteq Sessions
    BY TailAssumption DEF TailAssumption, TailInv, TailTypeOK, Run
  <1>2. ASSUME NEW s \in Budgeted PROVE Balance(s)' = Balance(s)
    <2>1. IsFiniteSet(Debited(s)) /\ Cardinality(Debited(s)) \in Nat /\ budget[s] \in Nat
      BY <1>1, DebitedFinite
    <2>2. CASE s = s0
      <3>1. Debited(s)' = Debited(s) \ {e} /\ e \in Debited(s)
        BY <2>2 DEF Debited, Moved
      <3>2. Cardinality(Debited(s)') = Cardinality(Debited(s)) - 1
        BY <2>1, <3>1, FS_RemoveElement
      <3>3. budget'[s] = budget[s] + 1
        BY <1>1, <2>2
      <3> QED BY <1>1, <2>1, <3>2, <3>3 DEF Balance
    <2>3. CASE s # s0
      <3>1. Debited(s)' = Debited(s) /\ budget'[s] = budget[s]
        BY <1>1, <2>3 DEF Debited, Moved
      <3> QED BY <3>1 DEF Balance
    <2> QED BY <2>2, <2>3
  <1>3. budget' \in [Sessions -> Nat]
    BY <1>1
  <1> QED BY <1>2, <1>3

\* A step that keeps every balance keeps the bound on it.
LEMMA BalanceKept ==
    ASSUME TailInv, \A s \in Budgeted : Balance(s)' = Balance(s) PROVE BudgetInv'
  BY DEF TailInv, BudgetInv, Balance

--------------------------------------------------------------------------------
(* The steps of a run.                                                         *)

\* A step that only moves the run: it keeps its charge and reports no success.
LEMMA PlainMove ==
    ASSUME TailInv, NEW e \in Runs, NEW pc, Moved(e, pc), run[e].pc # "done",
           run'[e].debited = run[e].debited,
           run'[e].result = run[e].result \/ run'[e].result # "ok",
           UNCHANGED <<budget, epoch, audit, intents, receipts, effects>>,
           Progress(e)', Charged(e)', Approved(e)'
    PROVE  TailInv'
  <1>1. Proven(e)'
    BY DEF TailInv, RunOK, Proven
  <1>2. /\ budget' \in [Sessions -> Nat] /\ epoch' \in Nat
        /\ audit' \in [Traces -> Events \cup {NoEvent}]
    BY DEF TailInv, TailTypeOK
  <1>3. BudgetInv'
    <2>1. \A s \in Sessions : budget'[s] <= budget[s]
      BY DEF TailInv, TailTypeOK
    <2> QED BY <1>2, <2>1, BudgetKept
  <1>4. effects' \subseteq intents'
    BY DEF TailInv
  <1>5. RunOK(e)'
    BY <1>1 DEF RunOK
  <1> QED BY <1>2, <1>3, <1>4, <1>5, StepKeeps

\* Before the intent there is nothing recorded, after it there is; what a run has
\* been through so far follows from where it is.
LEMMA TailFacts ==
    ASSUME TailInv, NEW e \in Runs
    PROVE  /\ run \in [Runs -> Run] /\ budget \in [Sessions -> Nat] /\ epoch \in Nat
           /\ audit \in [Traces -> Events \cup {NoEvent}]
           /\ Progress(e) /\ Charged(e) /\ Approved(e) /\ Proven(e)
           /\ effects \subseteq intents /\ e \in Traces
           /\ run[e].session \in Sessions /\ run[e].at \in Traces
           /\ run[e].event \in Events \cup {NoEvent}
           /\ run[e].debited \in BOOLEAN
  BY TailAssumption DEF TailAssumption, TailInv, TailTypeOK, RunOK, Run

\* debit: the run is charged exactly when the budget goes down and the caller
\* knows of it; a debit whose reply is lost only lowers the budget.
LEMMA DebitKeeps == ASSUME TailInv, NEW e \in Runs, DebitBudget(e) PROVE TailInv'
  <1> DEFINE s == run[e].session
  <1>1. /\ run \in [Runs -> Run] /\ budget \in [Sessions -> Nat] /\ epoch \in Nat
        /\ audit \in [Traces -> Events \cup {NoEvent}] /\ s \in Sessions
        /\ Progress(e) /\ Charged(e) /\ Approved(e) /\ Proven(e)
        /\ effects \subseteq intents
    BY TailFacts
  <1>2. run[e].pc = "debit" /\ UNCHANGED <<epoch, audit, intents, receipts, effects>>
    BY DEF DebitBudget, Debit
  <1>3. e \notin intents /\ ~run[e].debited /\ run[e].result # "ok"
    BY <1>1, <1>2 DEF Progress, Charged, Proven, BeforeIntent, BuildSteps
  <1>4. CASE s \notin Budgeted /\ GoTo(e, "build") /\ UNCHANGED budget
    <2>1. Moved(e, "build") /\ run'[e].debited = run[e].debited
            /\ run'[e].result = run[e].result
      BY <1>1, <1>4, GoToMoves DEF Steps, BuildSteps
    <2>2. Progress(e)' /\ Charged(e)' /\ Approved(e)'
      BY <1>2, <1>3, <1>4, <2>1 DEF Progress, Charged, Approved, Moved, FrontSteps
    <2> QED BY <1>2, <1>4, <2>1, <2>2, PlainMove
  <1>5. CASE /\ budget[s] > 0 /\ budget' = [budget EXCEPT ![s] = @ - 1]
             /\ run' = [run EXCEPT ![e].pc = "build", ![e].debited = TRUE]
    <2> DEFINE q == [run[e] EXCEPT !.pc = "build", !.debited = TRUE]
    <2>1. run' = [run EXCEPT ![e] = q]
      BY <1>5
    <2>2. /\ q \in Run /\ q.pc = "build" /\ q.session = s /\ q.risk = run[e].risk
          /\ q.approved = run[e].approved /\ q.debited = TRUE
          /\ q.result = run[e].result
      <3>1. run[e] \in Run
        BY <1>1
      <3> QED BY <3>1 DEF Run, Steps, BuildSteps
    <2> HIDE DEF q
    <2>3. /\ Moved(e, "build") /\ run'[e].debited = TRUE
          /\ run'[e].result = run[e].result
      BY <1>1, <2>1, <2>2 DEF Moved
    <2>4. BudgetInv' /\ budget' \in [Sessions -> Nat]
      BY <1>3, <1>5, <2>3, DebitBalances, BalanceKept
    <2>5. RunOK(e)'
      BY <1>2, <1>3, <2>3 DEF RunOK, Progress, Charged, Approved, Proven, Moved,
                              FrontSteps
    <2> QED BY <1>1, <1>2, <2>3, <2>4, <2>5, StepKeeps
  <1>6. CASE /\ FailTo(e, "audit", "Deny")
             /\ \/ UNCHANGED budget
                \/ budget[s] > 0 /\ budget' = [budget EXCEPT ![s] = @ - 1]
    <2>1. /\ Moved(e, "audit") /\ run'[e].debited = run[e].debited
          /\ run'[e].result = "error"
      BY <1>1, <1>6, FailToMoves DEF Steps, CleanupSteps, Events
    <2>2. budget' \in [Sessions -> Nat] /\ \A x \in Sessions : budget'[x] <= budget[x]
      BY <1>1, <1>6
    <2>3. BudgetInv'
      BY <2>1, <2>2, BudgetKept
    <2>4. RunOK(e)'
      BY <1>2, <1>3, <2>1 DEF RunOK, Progress, Charged, Approved, Proven, Moved,
                              FrontSteps
    <2> QED BY <1>1, <1>2, <2>1, <2>2, <2>3, <2>4, StepKeeps
  <1> QED BY <1>4, <1>5, <1>6 DEF DebitBudget, Debit

\* build_run_task, build_authorized_execution.
LEMMA BuildKeeps ==
    ASSUME TailInv, NEW e \in Runs, NEW cleanup \in {"refund_audit", "audit_refund"},
           BuildRun(e, cleanup)
    PROVE  TailInv'
  <1>1. /\ run \in [Runs -> Run] /\ epoch \in Nat /\ e \in Traces
        /\ Progress(e) /\ Charged(e) /\ Approved(e) /\ Proven(e)
    BY TailFacts
  <1>2. /\ run[e].pc = "build"
        /\ UNCHANGED <<budget, epoch, audit, intents, receipts, effects>>
    BY DEF BuildRun
  <1>3. e \notin intents /\ (run[e].session \in Budgeted => run[e].debited)
    BY <1>1, <1>2 DEF Progress, Charged, BeforeIntent, BuildSteps
  <1>4. CASE run' = [run EXCEPT ![e].pc = "validate", ![e].epoch = epoch, ![e].at = e]
    <2> DEFINE q == [run[e] EXCEPT !.pc = "validate", !.epoch = epoch, !.at = e]
    <2>1. run' = [run EXCEPT ![e] = q]
      BY <1>4
    <2>2. /\ q \in Run /\ q.pc = "validate" /\ q.session = run[e].session
          /\ q.risk = run[e].risk /\ q.approved = run[e].approved
          /\ q.debited = run[e].debited /\ q.result = run[e].result
      <3>1. run[e] \in Run
        BY <1>1
      <3> QED BY <1>1, <3>1 DEF Run, Steps, TailSteps
    <2> HIDE DEF q
    <2>3. /\ Moved(e, "validate") /\ run'[e].debited = run[e].debited
          /\ run'[e].result = run[e].result
      BY <1>1, <2>1, <2>2 DEF Moved
    <2>4. Progress(e)' /\ Charged(e)' /\ Approved(e)'
      BY <1>2, <1>3, <2>3 DEF Progress, Charged, Approved, Moved, FrontSteps
    <2> QED BY <1>2, <2>3, <2>4, PlainMove
  <1>5. CASE FailTo(e, cleanup, "Error")
    <2>1. /\ Moved(e, cleanup) /\ run'[e].debited = run[e].debited
          /\ run'[e].result = "error"
      BY <1>1, <1>5, FailToMoves DEF Steps, CleanupSteps, Events
    <2>2. Progress(e)' /\ Charged(e)' /\ Approved(e)'
      BY <1>2, <1>3, <2>1 DEF Progress, Charged, Approved, Moved, FrontSteps
    <2> QED BY <1>2, <2>1, <2>2, PlainMove
  <1> QED BY <1>4, <1>5 DEF BuildRun

\* validate_grant_pre_dispatch: the only way to "intent" is a valid grant.
LEMMA ValidateKeeps == ASSUME TailInv, NEW e \in Runs, ValidateGrant(e) PROVE TailInv'
  <1>1. run \in [Runs -> Run] /\ Progress(e) /\ Charged(e)
    BY TailFacts
  <1>2. /\ run[e].pc = "validate"
        /\ UNCHANGED <<budget, epoch, audit, intents, receipts, effects>>
    BY DEF ValidateGrant
  <1>3. e \notin intents /\ (run[e].session \in Budgeted => run[e].debited)
    BY <1>1, <1>2 DEF Progress, Charged, BeforeIntent
  <1>4. CASE GoTo(e, "intent") /\ (run[e].risk = "high" => run[e].approved)
    <2>1. /\ Moved(e, "intent") /\ run'[e].debited = run[e].debited
          /\ run'[e].result = run[e].result
      BY <1>1, <1>4, GoToMoves DEF Steps, TailSteps
    <2>2. Progress(e)' /\ Charged(e)' /\ Approved(e)'
      BY <1>2, <1>3, <1>4, <2>1 DEF Progress, Charged, Approved, Moved, FrontSteps
    <2> QED BY <1>2, <2>1, <2>2, PlainMove
  <1>5. CASE FailTo(e, "refund_audit", "Deny")
    <2>1. /\ Moved(e, "refund_audit") /\ run'[e].debited = run[e].debited
          /\ run'[e].result = "error"
      BY <1>1, <1>5, FailToMoves DEF Steps, CleanupSteps, Events
    <2>2. Progress(e)' /\ Charged(e)' /\ Approved(e)'
      BY <1>2, <1>3, <2>1 DEF Progress, Charged, Approved, Moved, FrontSteps
    <2> QED BY <1>2, <2>1, <2>2, PlainMove
  <1> QED BY <1>4, <1>5 DEF ValidateGrant, GrantIsValid

\* write_intent_and_consume_grant: a recorded run is charged and approved.
LEMMA IntentKeeps ==
    ASSUME TailInv, NEW e \in Runs, WriteIntentAndConsumeGrant(e) PROVE TailInv'
  <1>1. /\ run \in [Runs -> Run] /\ budget \in [Sessions -> Nat] /\ epoch \in Nat
        /\ audit \in [Traces -> Events \cup {NoEvent}]
        /\ Progress(e) /\ Charged(e) /\ Approved(e) /\ Proven(e)
        /\ effects \subseteq intents
    BY TailFacts
  <1>2. run[e].pc = "intent" /\ UNCHANGED <<budget, epoch, audit, receipts, effects>>
    BY DEF WriteIntentAndConsumeGrant
  <1>3. /\ e \notin intents /\ (run[e].session \in Budgeted => run[e].debited)
        /\ (run[e].risk = "high" => run[e].approved) /\ run[e].result # "ok"
    BY <1>1, <1>2 DEF Progress, Charged, Approved, Proven, BeforeIntent
  <1>4. CASE intents' = intents \cup {e} /\ GoTo(e, "dispatch")
    <2>1. /\ Moved(e, "dispatch") /\ run'[e].debited = run[e].debited
          /\ run'[e].result = run[e].result
      BY <1>1, <1>4, GoToMoves DEF Steps, TailSteps
    <2>2. RunOK(e)'
      BY <1>2, <1>3, <1>4, <2>1 DEF RunOK, Progress, Charged, Approved, Proven, Moved,
                                   BeforeIntent, FrontSteps, BuildSteps
    <2>3. budget' \in [Sessions -> Nat] /\ \A s \in Sessions : budget'[s] <= budget[s]
      BY <1>1, <1>2
    <2>4. BudgetInv'
      BY <2>1, <2>3, BudgetKept
    <2> QED BY <1>1, <1>2, <1>4, <2>1, <2>2, <2>3, <2>4, StepKeeps
  <1>5. CASE FailTo(e, "refund_audit", "Deny") /\ UNCHANGED intents
    <2>1. /\ Moved(e, "refund_audit") /\ run'[e].debited = run[e].debited
          /\ run'[e].result = "error"
      BY <1>1, <1>5, FailToMoves DEF Steps, CleanupSteps, Events
    <2>2. Progress(e)' /\ Charged(e)' /\ Approved(e)'
      BY <1>2, <1>3, <1>5, <2>1 DEF Progress, Charged, Approved, Moved, FrontSteps
    <2> QED BY <1>2, <1>5, <2>1, <2>2, PlainMove
  <1> QED BY <1>4, <1>5 DEF WriteIntentAndConsumeGrant

\* The provider acts for a recorded run only.
LEMMA DispatchKeeps == ASSUME TailInv, NEW e \in Runs, Dispatch(e) PROVE TailInv'
  <1>1. /\ run \in [Runs -> Run] /\ budget \in [Sessions -> Nat] /\ epoch \in Nat
        /\ audit \in [Traces -> Events \cup {NoEvent}]
        /\ Progress(e) /\ Charged(e) /\ Approved(e) /\ Proven(e)
        /\ effects \subseteq intents
    BY TailFacts
  <1>2. run[e].pc = "dispatch" /\ UNCHANGED <<budget, epoch, audit, intents, receipts>>
    BY DEF Dispatch
  <1>3. e \in intents /\ run[e].result # "ok"
    BY <1>1, <1>2 DEF Progress, Proven
  <1>4. \E pc \in {"output", "audit"} :
          /\ Moved(e, pc) /\ run'[e].debited = run[e].debited
          /\ run'[e].result # "ok"
          /\ effects' \in {effects, effects \cup {e}}
          /\ pc = "output" => effects' = effects \cup {e}
    <2>1. CASE effects' = effects \cup {e} /\ GoTo(e, "output")
      BY <1>1, <1>3, <2>1, GoToMoves DEF Steps, TailSteps
    <2>2. CASE effects' \in {effects, effects \cup {e}} /\ FailTo(e, "audit", "Error")
      BY <1>1, <2>2, FailToMoves DEF Steps, CleanupSteps, Events
    <2> QED BY <2>1, <2>2 DEF Dispatch
  <1>5. PICK pc \in {"output", "audit"} :
          /\ Moved(e, pc) /\ run'[e].debited = run[e].debited
          /\ run'[e].result # "ok"
          /\ effects' \in {effects, effects \cup {e}}
          /\ pc = "output" => effects' = effects \cup {e}
    BY <1>4
  <1>6. RunOK(e)'
    BY <1>1, <1>2, <1>3, <1>5 DEF RunOK, Progress, Charged, Approved, Proven, Moved,
                                 BeforeIntent, FrontSteps, BuildSteps
  <1>7. budget' \in [Sessions -> Nat] /\ \A s \in Sessions : budget'[s] <= budget[s]
    BY <1>1, <1>2
  <1>8. BudgetInv'
    BY <1>5, <1>7, BudgetKept
  <1>9. effects' \subseteq intents'
    BY <1>1, <1>2, <1>3, <1>5
  <1> QED BY <1>1, <1>2, <1>5, <1>6, <1>7, <1>8, <1>9, StepKeeps

\* Checking the output moves the run, and may leave a forensic receipt.
LEMMA CheckOutputKeeps == ASSUME TailInv, NEW e \in Runs, CheckOutput(e) PROVE TailInv'
  <1>1. /\ run \in [Runs -> Run] /\ budget \in [Sessions -> Nat] /\ epoch \in Nat
        /\ audit \in [Traces -> Events \cup {NoEvent}]
        /\ Progress(e) /\ Charged(e) /\ Approved(e) /\ Proven(e)
        /\ effects \subseteq intents
    BY TailFacts
  <1>2. /\ run[e].pc = "output"
        /\ receipts' \in {receipts, receipts \cup {e}}
        /\ UNCHANGED <<budget, epoch, audit, intents, effects>>
    BY DEF CheckOutput, WriteForensicReceipt
  <1>3. e \in intents /\ e \in effects /\ run[e].result # "ok"
    BY <1>1, <1>2 DEF Progress, Proven
  <1>4. \E pc \in {"evidence", "audit"} :
          /\ Moved(e, pc) /\ run'[e].debited = run[e].debited
          /\ run'[e].result # "ok"
    <2>1. CASE GoTo(e, "evidence")
      BY <1>1, <1>3, <2>1, GoToMoves DEF Steps, TailSteps
    <2>2. CASE FailTo(e, "audit", "Deny")
      BY <1>1, <2>2, FailToMoves DEF Steps, CleanupSteps, Events
    <2> QED BY <2>1, <2>2 DEF CheckOutput
  <1>5. PICK pc \in {"evidence", "audit"} :
          /\ Moved(e, pc) /\ run'[e].debited = run[e].debited
          /\ run'[e].result # "ok"
    BY <1>4
  <1>6. RunOK(e)'
    BY <1>1, <1>2, <1>3, <1>5 DEF RunOK, Progress, Charged, Approved, Proven, Moved,
                                 BeforeIntent, FrontSteps, BuildSteps
  <1>7. budget' \in [Sessions -> Nat] /\ \A s \in Sessions : budget'[s] <= budget[s]
    BY <1>1, <1>2
  <1>8. BudgetInv'
    BY <1>5, <1>7, BudgetKept
  <1> QED BY <1>1, <1>2, <1>5, <1>6, <1>7, <1>8, StepKeeps

\* The evidence gate: only the commit of receipt and event reports a success.
LEMMA EvidenceKeeps == ASSUME TailInv, NEW e \in Runs, FinalizeEvidence(e) PROVE TailInv'
  <1>1. /\ run \in [Runs -> Run] /\ budget \in [Sessions -> Nat] /\ epoch \in Nat
        /\ audit \in [Traces -> Events \cup {NoEvent}] /\ e \in Traces
        /\ Progress(e) /\ Charged(e) /\ Approved(e) /\ Proven(e)
        /\ effects \subseteq intents
    BY TailFacts
  <1>2. run[e].pc = "evidence" /\ UNCHANGED <<budget, epoch, intents, effects>>
    BY DEF FinalizeEvidence, CommitEvidence
  <1>3. e \in intents /\ e \in effects
    BY <1>1, <1>2 DEF Progress
  <1>4. PICK result \in {"ok", "error"} :
          /\ run' = [run EXCEPT ![e].pc = "done", ![e].result = result]
          /\ \/ /\ audit[e] = NoEvent /\ receipts' = receipts \cup {e}
                /\ audit' = [audit EXCEPT ![e] = "Allow"]
             \/ result = "error" /\ UNCHANGED <<audit, receipts>>
    BY DEF FinalizeEvidence, CommitEvidence
  <1>5. /\ Moved(e, "done") /\ run'[e].debited = run[e].debited
        /\ run'[e].result = result
    <2> DEFINE q == [run[e] EXCEPT !.pc = "done", !.result = result]
    <2>1. run' = [run EXCEPT ![e] = q]
      BY <1>4
    <2>2. /\ q \in Run /\ q.pc = "done" /\ q.session = run[e].session
          /\ q.risk = run[e].risk /\ q.approved = run[e].approved
          /\ q.debited = run[e].debited /\ q.result = result
      <3>1. run[e] \in Run
        BY <1>1
      <3> QED BY <3>1 DEF Run, Steps, EndSteps
    <2> HIDE DEF q
    <2> QED BY <1>1, <2>1, <2>2 DEF Moved
  <1>6. /\ receipts' \in {receipts, receipts \cup {e}}
        /\ audit' \in [Traces -> Events \cup {NoEvent}]
        /\ \A x \in Traces : audit[x] # NoEvent => audit'[x] = audit[x]
        /\ result = "ok" => audit'[e] = "Allow" /\ e \in receipts'
    BY <1>1, <1>4 DEF Events
  <1>7. RunOK(e)'
    BY <1>1, <1>2, <1>3, <1>5, <1>6 DEF RunOK, Progress, Charged, Approved, Proven,
                                       Moved, BeforeIntent, FrontSteps, BuildSteps
  <1>8. budget' \in [Sessions -> Nat] /\ \A s \in Sessions : budget'[s] <= budget[s]
    BY <1>1, <1>2
  <1>9. BudgetInv'
    BY <1>5, <1>8, BudgetKept
  <1> QED BY <1>1, <1>2, <1>5, <1>6, <1>7, <1>8, <1>9, StepKeeps

\* The failure event.
LEMMA FailureAuditKeeps ==
    ASSUME TailInv, NEW e \in Runs, WriteFailureAudit(e) PROVE TailInv'
  <1> DEFINE pc == IF run[e].pc = "audit" THEN "done" ELSE "refund"
  <1>1. /\ run \in [Runs -> Run] /\ budget \in [Sessions -> Nat] /\ epoch \in Nat
        /\ audit \in [Traces -> Events \cup {NoEvent}] /\ run[e].at \in Traces
        /\ run[e].event \in Events \cup {NoEvent}
        /\ Progress(e) /\ Charged(e) /\ Approved(e) /\ Proven(e)
        /\ effects \subseteq intents
    BY TailFacts
  <1>2. /\ run[e].pc \in {"audit", "audit_refund"} /\ GoTo(e, pc)
        /\ WriteAudit(run[e].at, run[e].event)
        /\ UNCHANGED <<budget, epoch, intents, receipts, effects>>
    BY DEF WriteFailureAudit
  <1>3. /\ Moved(e, pc) /\ run'[e].debited = run[e].debited
        /\ run'[e].result = run[e].result
    BY <1>1, <1>2, GoToMoves DEF Steps, EndSteps, CleanupSteps
  <1>4. /\ audit' \in [Traces -> Events \cup {NoEvent}]
        /\ \A x \in Traces : audit[x] # NoEvent => audit'[x] = audit[x]
    BY <1>1, <1>2, WriteAuditKeeps
  <1>5. run[e].result # "ok"
    BY <1>1, <1>2 DEF Proven
  <1>6. RunOK(e)'
    BY <1>1, <1>2, <1>3, <1>5 DEF RunOK, Progress, Charged, Approved, Proven, Moved,
                                 BeforeIntent, FrontSteps, BuildSteps
  <1>7. budget' \in [Sessions -> Nat] /\ \A s \in Sessions : budget'[s] <= budget[s]
    BY <1>1, <1>2
  <1>8. BudgetInv'
    BY <1>3, <1>7, BudgetKept
  <1> QED BY <1>1, <1>2, <1>3, <1>4, <1>6, <1>7, <1>8, StepKeeps

\* rollback_budget_if_debited: what is given back is given back once, to a run that
\* has not been recorded; a refund the caller does not hear of also counts.
LEMMA RefundKeeps ==
    ASSUME TailInv, NEW e \in Runs, NEW next \in {"audit", "done"},
           run[e].pc \in {"refund_audit", "refund"}, RefundBudget(e, next)
    PROVE  TailInv'
  <1> DEFINE s == run[e].session
  <1>1. /\ run \in [Runs -> Run] /\ budget \in [Sessions -> Nat] /\ epoch \in Nat
        /\ audit \in [Traces -> Events \cup {NoEvent}] /\ e \in Traces
        /\ Progress(e) /\ Charged(e) /\ Approved(e) /\ Proven(e)
        /\ effects \subseteq intents /\ run[e].debited \in BOOLEAN
    BY TailFacts
  <1>2. UNCHANGED <<epoch, intents, receipts, effects>>
    BY DEF RefundBudget, Rollback
  <1>3. e \notin intents /\ run[e].result # "ok"
    BY <1>1 DEF Progress, Proven, BeforeIntent
  <1>4. /\ audit' \in [Traces -> Events \cup {NoEvent}]
        /\ \A x \in Traces : audit[x] # NoEvent => audit'[x] = audit[x]
    <2>1. CASE UNCHANGED audit
      BY <1>1, <2>1
    <2>2. CASE WriteAudit(e, "BudgetRollbackFailed")
      BY <1>1, <2>2, WriteAuditKeeps DEF Events
    <2> QED BY <2>1, <2>2 DEF RefundBudget, Rollback
  <1>5. CASE GoTo(e, next) /\ UNCHANGED budget
    <2>1. /\ Moved(e, next) /\ run'[e].debited = run[e].debited
          /\ run'[e].result = run[e].result
      BY <1>1, <1>5, GoToMoves DEF Steps, EndSteps, CleanupSteps
    <2>2. RunOK(e)'
      BY <1>2, <1>3, <2>1 DEF RunOK, Progress, Charged, Approved, Proven, Moved,
                              FrontSteps
    <2>3. budget' \in [Sessions -> Nat] /\ \A x \in Sessions : budget'[x] <= budget[x]
      BY <1>1, <1>5
    <2>4. BudgetInv'
      BY <2>1, <2>3, BudgetKept
    <2> QED BY <1>1, <1>2, <1>4, <2>1, <2>2, <2>3, <2>4, StepKeeps
  <1>6. CASE /\ run[e].debited
             /\ run' = [run EXCEPT ![e].pc = next, ![e].debited = FALSE]
             /\ budget' = [budget EXCEPT ![s] = @ + 1]
    <2> DEFINE q == [run[e] EXCEPT !.pc = next, !.debited = FALSE]
    <2>1. run' = [run EXCEPT ![e] = q]
      BY <1>6
    <2>2. /\ q \in Run /\ q.pc = next /\ q.session = s /\ q.risk = run[e].risk
          /\ q.approved = run[e].approved /\ q.debited = FALSE
          /\ q.result = run[e].result
      <3>1. run[e] \in Run
        BY <1>1
      <3> QED BY <3>1 DEF Run, Steps, EndSteps, CleanupSteps
    <2> HIDE DEF q
    <2>3. /\ Moved(e, next) /\ run'[e].debited = FALSE
          /\ run'[e].result = run[e].result
      BY <1>1, <2>1, <2>2 DEF Moved
    <2>4. BudgetInv' /\ budget' \in [Sessions -> Nat]
      BY <1>6, <2>3, RefundBalances, BalanceKept
    <2>5. RunOK(e)'
      BY <1>2, <1>3, <2>3 DEF RunOK, Progress, Charged, Approved, Proven, Moved,
                              FrontSteps
    <2> QED BY <1>1, <1>2, <1>4, <2>3, <2>4, <2>5, StepKeeps
  <1> QED BY <1>5, <1>6 DEF RefundBudget, Rollback

\* A request that is lost leaves its run where it was, for good.
LEMMA AbandonKeeps == ASSUME TailInv, NEW e \in Runs, Abandon(e) PROVE TailInv'
  <1>1. /\ run \in [Runs -> Run] /\ Progress(e) /\ Charged(e) /\ Approved(e)
        /\ Proven(e)
    BY TailFacts
  <1>2. /\ run[e].pc # "done" /\ GoTo(e, "lost")
        /\ UNCHANGED <<budget, epoch, audit, intents, receipts, effects>>
    BY DEF Abandon, InFlight, EndSteps
  <1>3. /\ Moved(e, "lost") /\ run'[e].debited = run[e].debited
        /\ run'[e].result = run[e].result
    BY <1>1, <1>2, GoToMoves DEF Steps, EndSteps
  <1>4. Progress(e)' /\ Charged(e)' /\ Approved(e)'
    BY <1>1, <1>2, <1>3 DEF Progress, Charged, Approved, Moved, BeforeIntent,
                            FrontSteps, BuildSteps
  <1> QED BY <1>2, <1>3, <1>4, PlainMove

\* The invariant depends on the epoch for its type only, so a revocation and a
\* step that leaves the tail alone keep it.
LEMMA EpochKeeps ==
    ASSUME TailInv, epoch' \in Nat,
           UNCHANGED <<budget, audit, intents, receipts, effects, run>>
    PROVE  TailInv'
  BY DEF TailInv, TailTypeOK, RunOK, Progress, Charged, Approved, Proven, BudgetInv,
         Debited

\* A write to the audit table that overwrites nothing keeps it too.
LEMMA AuditKeeps ==
    ASSUME TailInv, NEW tr \in Traces, NEW event \in Events \cup {NoEvent},
           WriteAudit(tr, event),
           UNCHANGED <<budget, epoch, intents, receipts, effects, run>>
    PROVE  TailInv'
  <1>1. /\ audit' \in [Traces -> Events \cup {NoEvent}]
        /\ \A x \in Traces : audit[x] # NoEvent => audit'[x] = audit[x]
    BY WriteAuditKeeps DEF TailInv, TailTypeOK
  <1>2. TailTypeOK' /\ BudgetInv' /\ effects' \subseteq intents'
    BY <1>1 DEF TailInv, TailTypeOK, BudgetInv, Debited
  <1>3. ASSUME NEW e \in Runs PROVE RunOK(e)'
    <2>1. RunOK(e)
      BY DEF TailInv
    <2>2. audit[e] = "Allow" => audit'[e] = "Allow"
      BY <1>1, TailAssumption DEF TailAssumption, NoEvent
    <2> QED BY <2>1, <2>2 DEF RunOK, Progress, Charged, Approved, Proven
  <1> QED BY <1>2, <1>3 DEF TailInv

\* A run that has not begun may be taken up as a new one, with a session of its own.
LEMMA FreshRunKeeps ==
    ASSUME TailInv, NEW e \in Runs, run[e].pc = "idle",
           NEW q \in Run, q.pc = "plan", q.debited = FALSE, q.result = "none",
           run' = [run EXCEPT ![e] = q],
           UNCHANGED <<budget, epoch, audit, intents, receipts, effects>>
    PROVE  TailInv'
  <1>1. run \in [Runs -> Run] /\ Progress(e) /\ Charged(e)
    BY TailFacts
  <1>2. e \notin intents /\ ~run[e].debited
    BY <1>1 DEF Progress, Charged, BeforeIntent, FrontSteps
  <1>3. /\ run' \in [Runs -> Run] /\ run'[e] = q
        /\ \A f \in Runs : f # e => run'[f] = run[f]
    BY <1>1
  <1>4. RunOK(e)'
    BY <1>2, <1>3 DEF RunOK, Progress, Charged, Approved, Proven
  <1>5. \A f \in Runs : RunOK(f)'
    BY <1>3, <1>4, OthersKeep
  <1>6. \A s : Debited(s)' = Debited(s)
    BY <1>2, <1>3 DEF Debited
  <1>7. BudgetInv'
    BY <1>6 DEF TailInv, BudgetInv
  <1>8. TailTypeOK' /\ effects' \subseteq intents'
    BY <1>3 DEF TailInv, TailTypeOK
  <1> QED BY <1>5, <1>7, <1>8 DEF TailInv

\* Every step of a run keeps the invariant, however it cleans up.
LEMMA RunStepKeeps ==
    ASSUME TailInv, NEW e \in Runs, NEW cleanup \in {"refund_audit", "audit_refund"},
           RunStep(e, cleanup)
    PROVE  TailInv'
  <1>1. CASE RollBack(e)
    BY <1>1, RefundKeeps DEF RollBack
  <1> QED BY <1>1, DebitKeeps, BuildKeeps, ValidateKeeps, IntentKeeps, DispatchKeeps,
             CheckOutputKeeps, EvidenceKeeps, FailureAuditKeeps
          DEF RunStep

\* Runs that have not begun, with nothing recorded, satisfy the invariant.
LEMMA InitialTail ==
    ASSUME TailInit, run \in [Runs -> Run],
           \A e \in Runs : /\ run[e].pc = "idle" /\ run[e].debited = FALSE
                           /\ run[e].result = "none"
    PROVE  TailInv
  <1>1. TailTypeOK
    BY TailAssumption DEF TailAssumption, TailInit, TailTypeOK
  <1>2. \A e \in Runs : RunOK(e)
    BY DEF TailInit, RunOK, Progress, Charged, Approved, Proven
  <1>3. BudgetInv
    <2> SUFFICES ASSUME NEW s \in Budgeted
                 PROVE  budget[s] + Cardinality(Debited(s)) <= InitBudget
      BY DEF BudgetInv
    <2>1. Debited(s) = {}
      BY DEF Debited
    <2>2. Cardinality(Debited(s)) = 0
      BY <2>1, FS_EmptySet
    <2>3. budget[s] = InitBudget /\ InitBudget \in Nat
      BY TailAssumption DEF TailAssumption, TailInit
    <2> QED BY <2>2, <2>3
  <1> QED BY <1>1, <1>2, <1>3 DEF TailInv, TailInit

--------------------------------------------------------------------------------
(* What the invariant gives.                                                   *)

\* The effects of a session are among the runs it is charged for.
LEMMA EffectsAreCharged ==
    ASSUME TailInv, NEW s \in Budgeted
    PROVE  budget[s] + Cardinality({e \in effects : run[e].session = s}) <= InitBudget
  <1> DEFINE E == {e \in effects : run[e].session = s}
  <1>1. E \in SUBSET Debited(s)
    BY DEF TailInv, TailTypeOK, RunOK, Charged, Debited
  <1>2. IsFiniteSet(Debited(s)) /\ Cardinality(Debited(s)) \in Nat
    BY DebitedFinite
  <1>3. Cardinality(E) <= Cardinality(Debited(s)) /\ Cardinality(E) \in Nat
    BY <1>1, <1>2, FS_Subset, FS_CardinalityType
  <1>4. budget[s] + Cardinality(Debited(s)) <= InitBudget
    BY DEF TailInv, BudgetInv
  <1>5. budget[s] \in Nat /\ InitBudget \in Nat
    BY TailAssumption DEF TailAssumption, TailInv, TailTypeOK
  <1> HIDE DEF E
  <1>6. budget[s] + Cardinality(E) <= InitBudget
    BY <1>2, <1>3, <1>4, <1>5
  <1> QED BY <1>6 DEF E
--------------------------------------------------------------------------------
(* What a step of a run leaves in the ledger and the world, for the            *)
(* refinement: at most one new mark, and for the run that moves.               *)

\* A receipt is written only for a run that acted.
ReceiptsFollow == receipts \subseteq effects

\* Run e moves and nothing is marked; a report of success stays what it is.
Unmarked(e) ==
    /\ UNCHANGED <<intents, effects, receipts>>
    /\ run'[e].result = "ok" <=> run[e].result = "ok"

\* The intent of a charged run is recorded.
Recorded(e) ==
    /\ e \notin intents /\ intents' = intents \cup {e}
    /\ UNCHANGED <<effects, receipts>>
    /\ run[e].session \in Budgeted => run[e].debited
    /\ run[e].result # "ok" /\ run'[e].result # "ok"

\* A recorded run acts.
Acted(e) ==
    /\ e \in intents /\ effects' = effects \cup {e}
    /\ UNCHANGED <<intents, receipts>>
    /\ run[e].result # "ok" /\ run'[e].result # "ok"

\* A run that acted gets its receipt, and may be reported as a success.
Attested(e) ==
    /\ e \in effects /\ receipts' = receipts \cup {e}
    /\ UNCHANGED <<intents, effects>>
    /\ run[e].result # "ok"

Marked(e) == Unmarked(e) \/ Recorded(e) \/ Acted(e) \/ Attested(e)

\* Only run e moves, and it stays with its session.
Alone(e) ==
    /\ run'[e].session = run[e].session
    /\ \A f \in Runs : f # e => run'[f] = run[f]

\* Every step of a run leaves at most one mark, and in the order of the contract.
LEMMA RunStepMarks ==
    ASSUME TailInv, NEW e \in Runs, NEW cleanup \in {"refund_audit", "audit_refund"},
           RunStep(e, cleanup)
    PROVE  Alone(e) /\ Marked(e)
  <1>1. /\ run \in [Runs -> Run] /\ run[e] \in Run
        /\ Progress(e) /\ Charged(e) /\ Proven(e)
    BY TailFacts
  <1>2. Alone(e)
    BY <1>1 DEF RunStep, DebitBudget, BuildRun, ValidateGrant,
       WriteIntentAndConsumeGrant, Dispatch, CheckOutput, FinalizeEvidence,
       WriteFailureAudit, RollBack, RefundBudget, GoTo, FailTo, Alone, Run
  <1>3. run[e].pc # "done"
    BY DEF RunStep, DebitBudget, BuildRun, ValidateGrant,
       WriteIntentAndConsumeGrant, Dispatch, CheckOutput, FinalizeEvidence,
       WriteFailureAudit, RollBack
  <1>4. run[e].result # "ok"
    BY <1>1, <1>3 DEF Proven
  <1>5. CASE DebitBudget(e) \/ BuildRun(e, cleanup) \/ ValidateGrant(e)
             \/ WriteFailureAudit(e) \/ RollBack(e)
    <2>1. UNCHANGED <<intents, effects, receipts>>
      BY <1>5 DEF DebitBudget, Debit, BuildRun, ValidateGrant, WriteFailureAudit,
                  RollBack, RefundBudget
    <2>2. run'[e].result # "ok"
      BY <1>1, <1>4, <1>5 DEF DebitBudget, BuildRun, ValidateGrant, WriteFailureAudit,
                  RollBack, RefundBudget, GoTo, FailTo, Run
    <2> QED BY <1>2, <1>4, <2>1, <2>2 DEF Marked, Unmarked
  <1>6. CASE WriteIntentAndConsumeGrant(e)
    <2>1. run'[e].result # "ok"
      BY <1>1, <1>4, <1>6 DEF WriteIntentAndConsumeGrant, GoTo, FailTo, Run
    <2>2. run[e].session \in Budgeted => run[e].debited
      BY <1>1, <1>6 DEF WriteIntentAndConsumeGrant, Charged
    <2> QED BY <1>2, <1>4, <1>6, <2>1, <2>2
            DEF WriteIntentAndConsumeGrant, Marked, Unmarked, Recorded
  <1>7. CASE Dispatch(e)
    <2>1. run'[e].result # "ok"
      BY <1>1, <1>4, <1>7 DEF Dispatch, GoTo, FailTo, Run
    <2>2. e \in intents
      BY <1>1, <1>7 DEF Dispatch, Progress
    <2> QED BY <1>2, <1>4, <1>7, <2>1, <2>2 DEF Dispatch, Marked, Unmarked, Acted
  <1>8. CASE CheckOutput(e)
    <2>1. run'[e].result # "ok"
      BY <1>1, <1>4, <1>8 DEF CheckOutput, GoTo, FailTo, Run
    <2>2. e \in effects
      BY <1>1, <1>8 DEF CheckOutput, Progress
    <2> QED BY <1>2, <1>4, <1>8, <2>1, <2>2
            DEF CheckOutput, WriteForensicReceipt, Marked, Unmarked, Attested
  <1>9. CASE FinalizeEvidence(e)
    <2>1. e \in effects
      BY <1>1, <1>9 DEF FinalizeEvidence, Progress
    <2>2. \/ receipts' = receipts \cup {e}
          \/ receipts' = receipts /\ run'[e].result = "error"
      BY <1>1, <1>9 DEF FinalizeEvidence, CommitEvidence, Run
    <2>3. UNCHANGED <<intents, effects>>
      BY <1>9 DEF FinalizeEvidence
    <2> QED BY <1>2, <1>4, <2>1, <2>2, <2>3 DEF Marked, Unmarked, Attested
  <1> QED BY <1>2, <1>5, <1>6, <1>7, <1>8, <1>9 DEF RunStep

\* A step that marks in this order keeps the receipts behind the effects.
LEMMA MarksFollow ==
    ASSUME ReceiptsFollow, NEW e \in Runs, Marked(e) PROVE ReceiptsFollow'
  BY DEF ReceiptsFollow, Marked, Unmarked, Recorded, Acted, Attested

\* Events are never overwritten: audit_events has one per trace.
LEMMA RunStepAudits ==
    ASSUME TailInv, NEW e \in Runs, NEW cleanup \in {"refund_audit", "audit_refund"},
           RunStep(e, cleanup)
    PROVE  \A x \in Traces : audit[x] # NoEvent => audit'[x] = audit[x]
  <1>1. /\ audit \in [Traces -> Events \cup {NoEvent}] /\ e \in Traces
        /\ run[e].at \in Traces /\ run[e].event \in Events \cup {NoEvent}
    BY TailFacts
  <1>2. CASE UNCHANGED audit
    BY <1>2
  <1>3. CASE WriteAudit(e, "BudgetRollbackFailed")
    BY <1>1, <1>3, WriteAuditKeeps DEF Events
  <1>4. CASE WriteAudit(run[e].at, run[e].event)
    BY <1>1, <1>4, WriteAuditKeeps
  <1>5. CASE CommitEvidence(e)
    BY <1>1, <1>5 DEF CommitEvidence
  <1> QED BY <1>2, <1>3, <1>4, <1>5
          DEF RunStep, DebitBudget, BuildRun, ValidateGrant, WriteIntentAndConsumeGrant,
              Dispatch, CheckOutput, FinalizeEvidence, WriteFailureAudit, RollBack,
              RefundBudget
================================================================================
