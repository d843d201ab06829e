# LatchGate in TLA+

LatchGate is an execution gate between AI agents and the outside world. An agent
sends an *action call*; the gate authenticates it, asks a policy, perhaps asks a
human operator, debits the session's budget, dispatches a provider, and reports
success only when signed evidence of the effect is durable. This directory holds
TLA+ models of the system, TLC runs that check them on small instances, and TLAPS
proofs for all instances.

`PROJECT.json` lists the components, runs, mutants (a variant of a definition with
a fault that the property must catch), the definition-to-source map, hazards and
theorems. Source paths below are relative to `src/crates/latchgate-*/src/`, written
`crate/file`.

Contents: 1 the system, 2 modules and code, 3 runs, 4 what is proved, 5 what is only
model-checked, 6 disagreements between code and documentation, 7 not modelled, plan.

## 1. The system: inventory

| Component | State | Operations | What is hard | What makes it correct |
|---|---|---|---|---|
| Approval store (`state/approvals`, `approval_*`) | record per approval: state, claim, outcome marker, TTL | create, claim, mark, complete | claims that run out under their holder, lagging clocks, key TTLs, closing in two writes | claims never overlap; a verdict is given once, by its holder |
| Budgets (`state/budgets`) | calls left per session | init, debit, rollback | lost replies, refunds, key expiry | effects never exceed the budget; refunded once and only before dispatch |
| Execution tail (`kernel/execution`, `pipeline_audit`) | progress, grant and trace of each call | validate, intent, dispatch, check, evidence, clean up | a dozen exits with different clean-up; ledger failing after the effect | evidence before success; every effect traceable; high risk needs approval |
| Pipeline (`kernel/pipeline`, `steps/`) | per request | steps 0 to 9 | order of audit and rollback | which ends leave a record; what lost replies cost |
| Operator flow (`api/approvals`, `kernel/approved_execution`) | operator calls, `approval_outcomes` | approve, deny, reconcile | two stores without a common transaction; lost handlers | one approval, one execution; answers agree |
| Ledger (`ledger`) | events, chain, intents, grants, receipts, JSONL | append, evidence transaction, recover | partial writes, several gates, crashes | unbroken chain, durable answers, a grant dispatched once |
| Rate limiting (`kernel/rate_limit`, `coarse_clock`) | packed word, cached second, map of buckets | check, sweep, tick | lock-free loop against a clock, sweep against callers | admissions bounded; a sweep is not observable |
| Authentication (`auth`, `kernel/steps/auth`) | leases, key cache, replay cache | issue, verify, claim jti | cap, eviction, restarts, stale keys | a proof admitted once, signed by the bound key |
| Leases (`api/leases`) | session budget and root | issue, call, approve | separate lifetimes | state outlives the lease |
| Learned allowlists (`kernel/learned_allowlist`, `embed/egress_sync`) | table, set, proxy file | learn, remove, sync | three copies | a change has taken effect when it is answered |
| Policy (`policy`, `api/policy`, `cli/cmd/policy`) | data.json, engines, allowlist | grant, revoke, reload, evaluate | no lock, cached engines, two tools with two sources of manifests, dropped handlers | evaluations are current; rights were given |
| Registry (`registry`, `kernel/state`) | layers, served snapshot | load, reload, resolve | broken files, reload during a call | what runs is what is registered |
| Providers (`providers`) | permits, files, requests, secrets, transactions | execute, host calls | timeouts that do not stop threads, retries, TOCTOU | exclusive creation, sound evidence, guarded rows |
| Webhooks and expiry (`webhooks`, `api/outbox`, `api/expiry`) | outbox rows, channel, notified set | claim, deliver, retry, drain, scan | stale claims, shutdown | at least once, settled once, announced once in a life of the gate |
| Gate process (`api/server`, `listen`, `kernel/init`, `config`) | phase, socket, drain flag | start, serve, drain, stop, doctor | restart overlaps, validators, key history | a socket leads to a gate; nothing bypasses validation |
| MCP adapter and clients (`mcp`, `client`, `cli`) | lease, tool cache, commands | serve lines, reconnect, approve, install | gate restarts, lost answers | every line answered; success reported is a decision carried out |
| Sandbox (`sandbox`) | forwarder, proxy, namespaces, filters | launch, relay, tear down | half-closes, order of privilege drops | agent confined, relayed data complete, everything given back |
| Operator's machine (`cli/cmd`, `tui`) | files, containers, screens | init, config, secrets, up, down, keys | crashes between writes, stale screens | files fit together; a screen changes what it shows |

How they interact: an agent's call runs `run_action_call`. If the policy allows it, the
*execution tail* runs at once. If the policy asks for a human, an immutable plan goes
into the approval store; later an operator's HTTP call claims the record, rebuilds the
execution and runs the *same* tail, then writes three things that can each fail: the
durable outcome in the ledger, the outcome marker in the store, the terminal state in
the store. All of it is async Rust on tokio: every `.await` is a point where other
calls run, the request can be dropped, or the process can die.

## 2. Modules and how they correspond to the code

```
ApprovalLifecycle        ExecutionContract
      ^ implements             ^ implements
ApprovalStore            ExecutionTail <--- Pipeline
      |  \  \                  |    |          |
      |   \  +-- ApprovalFlow -+    |          |
      |    ExpiryScanner   |        |          |
ApprovalStoreProofs  ApprovalFlowProofs  ExecutionTailProofs--PipelineProofs

OperatorConsole--ApprovalFlowProofs
Ledger, Webhooks, ProviderRun, ExpiryScanner--EffectProofs
RateLimiter, ReplayCache, LeaseSession, LearnedAllowlist, PolicyAdmin--AccessProofs
GateLifecycle, McpAdapter, OperatorClients, Registry--GateProofs
Authentication, PolicyRules, DatabaseGuard--IdentityProofs
```

The other modules stand alone; an `MC...` module puts several of them side by side, one
of them active in each behaviour, so that one run checks them all.

**Core**

- **ApprovalStore**: `now`, `rec` (per approval: state, token, claim expiry, marker, record
  expiry, plan expiry) and `issued` (what the holder of a token knows). One atomic action
  per backend operation (Lua script, SQLite transaction or write lock): `CreatePending`,
  `ClaimPending`, `WriteOutcomeMarker`, `Complete`. `Backend` selects the differences that
  matter: when a record can still be found and whether completion renews the TTL. The
  caller reads the clock before its operation reaches the store, so a claim is judged by
  any `t` in `CallerClock`. `Decide` is the holder settling on the one outcome it passes to
  both closing writes.
- **ApprovalLifecycle**: the abstract promise: absent, pending, claimed, one verdict for
  ever. The store maps to it by `effective_state`.
- **ExecutionTail**: `budget`, `epoch`, `audit` (trace to its only event), `intents` (with
  `consumed_grants`, one transaction), `receipts`, `effects` (runs whose provider acted) and
  `run` (per call: position, session, risk, approval, debit, epoch of the grant, trace and
  event of a failure, result). Actions in the code's order: `DebitBudget`, `BuildRun`,
  `ValidateGrant`, `WriteIntentAndConsumeGrant`, `Dispatch`, `CheckOutput`,
  `FinalizeEvidence`; on failure `WriteFailureAudit` and `RollBack` in the order the failing
  site uses. `RevokeAll` and `Abandon` (a dropped future or a crash) come between any two.
- **Pipeline**: `Admit` (rate limit, drain, authentication, registry, trust, schema,
  pre-checks: they only read, so they are one step) and `EvaluatePolicy` before the tail.
- **ExecutionContract**: the abstract promise of the kernel: per grant none, recorded,
  acted, attested, reported, in this order and at most once, and never more grants of a
  budgeted session past "none" than its allowance.
- **ApprovalFlow** composes ApprovalStore, ExecutionTail and `approval_outcomes`. An
  operator's call is named by the claim token it draws, and so are its run, trace and
  grant. `StorePendingApproval` and `AuditRequest` are the agent's side; `ClaimApproval`,
  `RefuseClaim`, `ClaimReplyLost`, `GuardReexecution` are `claim_or_short_circuit`; `Learn`,
  `CheckPlan`, `ExecuteStep` are `approve_call`; `AuditDenial` is `deny_call`;
  `WriteDurableOutcome`, `FinalizeMarker`, `FinalizeComplete` are
  `write_outcome_and_finalize`; `Reconcile` is `fail_already_executed`.
- **Ledger**: the table with its hash chain and in-memory head, the JSONL export, intents
  and consumed grants, for several gate processes on one file, with crashes and recovery.
- **RateLimiter**: the compare-and-swap loop of `TokenBucketRateLimiter::check` over a
  packed word with the ticker; and `ExecuteRateLimitMap`, the per-key map with its fast and
  slow paths, its sweep, and `kept`, the buckets as they would be without a sweep.

**Around the core**

- **Authentication** (listeners, identities, leases, proofs, operator keys, key cache;
  `ClaimWithin` bounds the time between the check of a proof's headers and the claim of its
  jti) and **ReplayCache** (the jti map: shards, cap, sweep, restart, time windows).
- **LeaseSession** (budget keys, roots and leases with their lifetimes). `Debit` and `Refuse`
  are the budget's two answers, to a direct call and to an approved execution alike; either may
  be rolled back.
- **PolicyAdmin** (data.json, its rename, reload, per-worker engines; `DropHandler` is a request
  whose future is dropped at the await while its blocking thread goes on to the rename, after
  which nobody reloads) and **PolicyRules** (the rules of `latchgate.rego`, grant and revoke, the
  allowlist, the reading of a reply). A grant or revoke derives sinks from what its tool reads:
  the API from the registry's `manifests`, the CLI from the directory, `onDisk`, where embedded
  actions need not be.
- **Registry** (layers, reload under calls and approvals) and **ManifestLoad** (one load:
  validation, duplicates, overrides, strict and lenient).
- **NameRules** (hosts, addresses, paths, globs, as sequences of labels; a request leaves
  directly, to the pinned address, or through the proxy, which resolves the name again) and
  **LearnedAllowlist** (table, memory, proxy).
- **ProviderRun** (host calls, file threads, HTTP retries, evidence; an answer may come from the
  proxy or from the origin, and either may carry the proxy's header) and **DatabaseGuard**
  (classification, approval, transaction, row limit; what `classify_sql` takes for a read may
  write).
- **Webhooks** (outbox with pollers; dispatcher with its channel), **ExpiryScanner** (on
  ApprovalStore; `RestartScanner` begins again with an empty set of emitted ids).
- **GateLifecycle** (start, listeners, socket, drain, permits; the secrets cache) and
  **Startup** (configuration, validators, key history, readiness, doctor).
- **McpAdapter** (the stdio server, reconnection, tool cache, approval polling) and
  **OperatorClients** (commands of the CLI and operator tools against the admin API). The gate
  they talk to is `claim_or_short_circuit` with the answers of its stores: claims that run out
  under their holder, records that end, the ledger asked when the store has no record or does
  not answer, the guard on a durable outcome, a refusal after the claim, and closing writes that
  may each fail (`GateClaim`, `GateShortCircuit`, `StoreUnreachable`, `GateSettle`,
  `HandlerDropped`, `ClaimRunsOut`, `RecordEnds`).
- **Sandbox** (forwarder, proxy, tunnels, bytes that arrive with a request's head; launcher, helper, mounts, landlock, seccomp
  filter as a program, drops of privilege).
- **ProjectFiles** (init, configuration with what of it would fail validation, operators, secrets;
  the command line's edits, which are validated, and the TUI's, which are only parsed; IDE
  files), **StackUp** (up,
  down, containers, sessions).
- **OperatorConsole** (approvals and activity) and **Screens** (set-up, actions and
  allowlists): keys, ticks and answers of the TUI. The approval dialog names no approval; what
  the operator sees is the highlighted row behind it, `drawn`. A change of the set-up screen
  reads the file and writes it in two steps (`LoadDoc`, `SaveDoc`).

Abstractions common to all: identifiers, payloads and hashes are names; signatures verify
what they signed; what a policy author, a provider's guest or a verifier answers is a choice
of the environment where no module models it; log lines, metrics and drawing are left out.

## 3. Runs

Every run takes less than four minutes with two workers; names below are properties of
the run's cfg, in parentheses the parts of a conjunction.

| Run | Checks | Bounds |
|---|---|---|
| `components` | `ClaimWindowsDisjoint`, `VerdictIsTheHolders`, `ImplementsLifecycle`, `RateBounded`, `LimitersSafe` (`SweepUnobservable`), `ReplaySafe` (`ProofAdmittedOnce`, `CacheBounded`), `AllowlistSafe` (`RemovalTakesEffect`, `LearningTakesEffect`), `PolicySafe` (`EvaluationIsCurrent`, `AloneIsAtomic`, `GenerationNamesOnePolicy`), `LedgerSafe` (`ChainLinksHold`, `ExportFollowsTable`, `AnswersAreDurable`, `GrantDispatchedOnce`), `SessionSafe` (`StateOutlivesLease`, `EternalKeysAreUnusable`, `CallsWithinWish`, `DirectCallsInSessionRoot`), `RunSafe` (`CreationIsExclusive`, `RepeatsAreMarked`, `TornHasAWriter`, `EvidenceIsSound`), `DecisionScreensSafe` (`InputIsHeld`, `LearnsWhatItApproves`, `AnswersTheHighlighted`, `FeedSkipsNothing`) | one record with three claims; two threads and one token per second; two callers of one bucket over six ticks; two proofs in a cache of one; two domains; two policy requests and a restart; two gates with two deaths and three traces, one of which cannot be hashed; one session over six seconds; two runs on one path; two approvals; four rows of the feed |
| `background` | `OutboxSafe` (`PollersDisjoint`, `WorkIsClaimed`, `OneVerdict`, `DeliveredWasAccepted`), `NoticesSafe` (`AnnouncedOnce`, `AnnouncedIsExpired`, `DispatchedToSubscribers`, `QueuedBeforeShutdownDispatched`, `AcceptedIsKept`, `GaveUpAfterRetries`), `BackgroundProgress` (`ExpiredIsAnnounced`, `RowsGetSettled`, `ShutdownEnds`) | two rows and two pollers with a crash, a lost write and days of two ticks; two events, two endpoints, a channel of one, one retry; two approvals on SQLite, a scan limit of one and restarts of the scanner |
| `edges` | `GateSafe` (`SocketLeadsToGate`, `ClientWorkRecorded`), `RegistrySafe` (`RunsWhatIsRegistered`, `OverrideIsServed`), `CallersSafe` (`NeverFromTheFuture`, `StaleListAnnounced`, `SuccessIsDecided`, `TaughtIsKnown`, `OneClaimAtATime`), `EdgesProgress` (`WaitersGetPermits`, `StopEnds`, `RotationTakesOver`, `EveryLineAnswered`, `AdapterRecovers`, `CommandsEnd`) | two processes, two calls and one permit; three versions of a secret and of a manifest; one gate restart under the adapter; two operators with two commands, deciding or at the desk (reads and domains), and any number of gate restarts |
| `sandbox` | `SandboxSafe` (`CleanEndsAreComplete`, `AgentIsConfined`, `CallsWithinFilter`, `NothingLeftBehind`), `SandboxProgress` (`PermitsComeBack`, `SlotsComeBack`, `TeardownReachesHandlers`, `NothingOutlivesLauncher`) | two connections with one relay slot and one permit; Landlock absent, 1 and 4; x86-64 |
| `access` | `AuthSafe` (`AdmittedIsSigned`, `CacheIsSound`, `ProofOnce`, `LeasesAreLocal`), `RulesSafe` (`PermittedWasGiven`, `AllowlistOnlySkipsApproval`, `SinksFollowActions`, `GrantedIsCallable`, `FailuresRefuse`, `ShownIsHeld`, `TestEvaluatorAgrees`), `DatabaseSafe` (`OnlyAllowedWrites`, `ShownIsRun`, `GuardHolds`), `DeclarationsSafe` (`ServedIsSound`, `StrictLoadIsWhole`, `SourceFilesAreTrue`, `HighRiskResponsesAreChecked`, `SentIsCovered`, `LearnedIsNormal`, `OpenedIsContained`) | two callers, one lease, two keys, two lives, proofs valid in their own second, replay entries for two seconds, a claim within one second of its check, time to two; two principals, two actions of which one is in the directory, three edits; one database call with a reload, a WITH that writes two rows among its statements; two files in two directories; names of at most nine fragments, direct and proxied egress |
| `workstation` | `CommandsSafe` (`ConfigStaysValid`, `EditsKept`, `ConfigHasItsFiles`, `OperatorsHaveKeys`, `SecretsKept`, `OthersKept`, `SignsForItsGate`, `PostureWasAsked`, `ContainersCanBeStopped`, `SessionFits`, `OneGatePerLedger`, `NoGlobalBypass`, `HistoryKept`, `DoctorAgreesWithProbe`, `UpIsUsable`), `ScreensSafe` (`FormsHoldInput`, `NothingUndone`, `NothingWaits`, `DetailIsOfSelected`, `CursorOnItem`, `DraftIsHeld`, `EntriesAreOfActive`, `RemovedFromItsList`, `LearnedHoldsInput`) | two commands at once, three in all, two operator names; two lives of the gate; four keys per screen of the setup and the actions and three presses in the allowlists, with one change from outside |
| `pipeline_faults` | `EffectsWithinBudget`, `LostRepliesCostOneCall`, `EvidenceGate`, `EffectsAreTraceable`, `NoUnapprovedHighRisk`, `ImplementsContract` | three calls of a session with a budget of two, one revocation, all faults |
| `pipeline_accounting` | `QuietSessionsPaidExactly` | the same, store reliable and no lost requests |
| `pipeline_ends` | `NoSilentEnd`, `RevokedBeforeCheckNeverActs` | two calls, a budgeted and an unlimited session, ledger reliable |
| `flow_faults` | `ApprovalsAreTrue` (`ApprovedAnswerIsTrue`, `ApprovedRecordIsBacked`) | two operator calls that may outlive their claims, all faults, lost calls |
| `flow_store_faults` | `OneShot`, `DecisionsHold` (`DeniedNeverExecuted`, `VerdictsAgree`, `AnswersConsistent`) | three operator calls, store faults, ledger reliable |
| `flow_ledger_faults` | `ClaimsEndWell` (`OneShot`, `DeniedNeverExecuted`, `ClaimsGetClosed`) | two operator calls on SQLite, ledger faults, store reliable |

Why the bounds are enough to be interesting. Three calls against a budget of two make
exhaustion, refund and reuse of a refunded call meet. Three claims allow a holder, one
that takes over and one that takes over again, so a late first holder meets a record two
claims on. The times let a claim run out before, at and after the record does, and the
Redis key disappear under its holder. Two of each actor and one crash, restart or lost
write suffice for every race between two steps that the comments of the modules name; caps
(replay cache, relay slots, permits, channel, scan limit) are one so that they are reached.
`CHECK_DEADLOCK FALSE` everywhere: calls are finite in number and time is bounded, so
every behaviour ends. Symmetry is used for names that are created fresh and never compared,
and in no run with a liveness property; `ImplementsLifecycle` and `ImplementsContract` are
safety formulas, so symmetry is sound for them. `ClockModulus` and `Wrap` stand for 2^32
and a counter's width; the models need only that they exceed what is counted.

Where the properties need a condition, the run states it. `OneShot` and
`DeniedNeverExecuted` hold when calls end within their claim (`Prompt`), no handler is lost,
and only one of the two stores fails: `flow_store_faults` and `flow_ledger_faults` show that
each store alone prevents the second execution. `QuietSessionsPaidExactly` needs a store
whose replies arrive, `NoSilentEnd` a working ledger, `ChainLinksHold` is about the chain as
linked, not about payloads too large to write. `FeedSkipsNothing` leaves out the burst of
more than a page between two polls.

What some properties leave open, because the code does:

- `NoSilentEnd` names the ends without an audit event: calls shed by the rate limiter or a
  drain, and calls that acted and whose evidence could not be formed or written. The kernel's
  own matrix of terminal paths exempts only the drain (`TerminalPathsAudited`, section 6).
- `LostRepliesCostOneCall` bounds what an unreliable store costs a session, it does not exclude
  it: a call refused because the debit's reply was lost stays charged.
- `AloneIsAtomic` says that the evaluator has what the file has unless the command line wrote it
  or a handler was dropped before its reload (`behind`).
- `RepeatsAreMarked` allows a second arrival at an origin that itself sends `X-Squid-Error`;
  `TornHasAWriter` holds while the gate lives and allows I/O errors.
- `AnswersTheHighlighted` is about an answer typed in view of the dialog, and exempts an
  approval that left the list while its dialog was open.
- `ExpiredIsAnnounced` is about what the store still lists. On SQLite, where the run checks it,
  that is every expired approval nobody decided; on Redis and in memory it is none, and
  EffectProofs proves that those two announce nothing (`OnlySqliteAnnounces`). `AnnouncedOnce`
  counts within one life of the scanner.
- `SuccessIsDecided` says that a reported success is a decision the gate has carried out, by this
  or another operator; the record may still read claimed, since closing it is best effort.
  `OneClaimAtATime` allows a second holder once a claim has run out.
- `CleanEndsAreComplete` counts what the proxy relayed: bytes that came with a CONNECT head are
  dropped and appear as such (`early`). `NothingOutlivesLauncher` assumes that a launcher does not
  die between `spawn` (`sandbox/lib.rs:589`) and the moment die-with-parent takes hold.
- `GrantedIsCallable` and `SinksFollowActions` hold for entries derived from what the registry
  serves; a grant or revoke by the CLI may leave an entry short (`outdated`).
- `OnlyAllowedWrites` and `GuardHolds` go by the class `classify_sql` gives; a WITH that writes is
  classed as a read and has no row limit.
- `SentIsCovered` promises an address outside the documented blocks for direct egress only;
  through the proxy, only what the proxy's own rules (`cli/cmd/up.rs:908`) deny.
- `ConfigStaysValid` begins with the first command-line edit that passed validation; init's own
  config does not pass it, and edits of the TUI are not validated.
- `NothingUndone` exempts a change from outside between the read and the write of an edit.

**Fairness.** Weak fairness only. Of the steps of an operator's call that has been taken up:
tokio polls every ready future and every wait of the tail is bounded (store and HTTP timeouts,
the provider's own timeout). Of a client's own timer. Of the loops with a timer (scanner, outbox poller, dispatcher, MCP
server, reconnection) and of timeouts. Of the kernel's delivery of signals and ends of files
in the sandbox. Nothing is assumed about the arrival of calls, operators, remote hosts,
faults or revocation.

## 4. What is proved

TLAPS checks the following for every value of the constants, in eight modules. Each theorem
rests on an inductive invariant that TLC has checked as an invariant before it was proved.
The proofs have one lemma per action; the last step of each theorem joins initial states
and steps.

| Module | Theorem | States |
|---|---|---|
| ApprovalStoreProofs | `StoreInvariant` | `StoreInv`, for all three backends and every clock lag |
| | `ClaimsAreExclusive`, `LatestClaimHolds`, `VerdictsAreTheHolders` | `ClaimWindowsDisjoint`, `RecordHeldByLatestClaim`, `VerdictIsTheHolders` |
| | `MarkedStaysWithHolder` | the action property `MarkedNeverReclaimed` |
| | `StoreImplementsLifecycle` | the refinement `ImplementsLifecycle` |
| PipelineProofs | `PipelineInvariant`, `PipelineTypes` | `TailInv`, `TypeOK` |
| | `PipelineBudget`, `PipelineEvidence`, `PipelineTraceable`, `PipelineApproval` | `EffectsWithinBudget`, `EvidenceGate`, `EffectsAreTraceable`, `NoUnapprovedHighRisk`, under every fault |
| | `PipelineImplementsContract` | the refinement `ImplementsContract` |
| | `PipelineNeverSilent` | `NoSilentEnd`, if the ledger works: which ends leave no event |
| | `PipelinePaysExactly` | `QuietSessionsPaidExactly`, if the store works and no request is lost |
| | `PipelineHeedsRevocation` | the action property `RevokedBeforeCheckNeverActs` |
| ApprovalFlowProofs | `FlowInvariant`, `FlowAnswersAreTrue` | `FlowInv`, `ApprovalsAreTrue`, under every fault |
| | `LedgerAloneSuffices` | `OneShot` and `DecisionsHold`, if the ledger works and calls end within their claims |
| | `StoreAloneSuffices` | `OneShot` and `DeniedNeverExecuted`, if the store works and calls end within their claims |
| | `ConsoleInvariant`, `FeedInvariant`, `DecisionScreensAreSafe` | `ConsoleInv`, `FeedInv`, `DecisionScreensSafe` |
| | `SetupInvariant`, `ActionsScreenInvariant`, `LearnedScreenInvariant`, `ScreensAreSafe` | `SetupInv`, `ActionsInv`, `LearnedInv`, `ScreensSafe` |
| EffectProofs | `LedgerInvariant`, `LedgerIsSafe` | `LedgerInv`, `LedgerSafe` |
| | `OutboxInvariant`, `OutboxIsSafe` | `OutboxInv`, `OutboxSafe` |
| | `RunInvariant`, `RunIsSafe` | `RunInv`, `RunSafe` |
| | `ScannerInvariant`, `DispatcherInvariant`, `NoticesAreSafe` | `ScannerInv`, `DispatcherInv`, `NoticesSafe`; unlisted, `OnlySqliteAnnounces`: on Redis and in memory no expiry is announced |
| AccessProofs | `RateInvariant`, `RateTypes`, `RateIsBounded`, `LimitersAreSafe` | `RateInv`, `RateTypeOK`, `RateBounded`, `LimitersSafe` |
| | `ReplayInvariant`, `SlotInvariant`, `ReplayAdmitsOnce`, `ReplayIsSafe` | `ReplayInv`, `SlotInv`, `ProofAdmittedOnce`, `ReplaySafe` |
| | `SessionInvariant`, `SessionIsSafe` | `SessionInv`, `SessionSafe` |
| | `LearnedInvariant`, `LearnedRowsTakeEffect` | `LearnedInv`, `AllowlistSafe` |
| | `PolicyInvariant`, `PolicyIsSafe` | `PolicyInv`, `PolicySafe` |
| GateProofs | `LifeInvariant`, `GateIsSafe` | `LifeInv`, `GateSafe` |
| | `SecretsInvariant`, `StaleListsAreAnnounced`, `ClientsInvariant`, `CallersAreSafe` | the invariants of the secrets cache and the clients, `CallersSafe` |
| | `RegistryInvariant`, `RegistryIsSafe` | `RegistryInv`, `RegistrySafe` |
| IdentityProofs | `AuthInvariant`, `AuthIsSafe` | `AuthInv`, `AuthSafe` |
| | `RulesInvariant`, `RulesAreSafe` | `RulesInv`, `RulesSafe` |
| | `DatabaseInvariant`, `DatabaseIsGuarded` | `DatabaseInv`, `DatabaseSafe` |

ExecutionTailProofs holds the lemmas on the tail that PipelineProofs and
ApprovalFlowProofs share, so the tail is proved about once and used by both callers.

**The arguments.**

*Approval store.* `ClaimWindowsDisjoint` alone is not inductive: it speaks of claims that are
over. `StoreInv` adds `HolderInv` (the record's token is one that was issued for it, with the same
expiry), `LatestInv` (every other claim on the record had run out when the holder's began:
the caller's clock lags and never leads) and `ClaimInv` (a claim lasts `ClaimTTL`, and only
who was issued one decides). A verdict is written only under the token in the record, hence
by its holder.

*Execution tail.* `TailInv` has the types, that effects are among the intents, `RunOK` for
every run (what a run at each position has charged, may do and has recorded) and
`BudgetInv`: what is left, the runs that hold a debit and the effects together never exceed
the allowance. The last is a statement about the cardinality of a set that grows by one
run per debit. The refinement maps a run to the phase of its grant by what is durable
(intent, effect, receipt, answer), so that a failing step is a stutter. `NoSilentEnd` and
`QuietSessionsPaidExactly` need `TraceInv` (a run that is over has an event, or acted and has an
intent without receipt, and one that is not still has its trace to write to) and `ExactInv` (the
balance equals what `BudgetInv` bounds); `RevokedBeforeCheckNeverActs` needs that nothing sets
a `Stopped` run going again.

*Operator flow.* `FlowInv` is `StoreInv`, `TailInv`, `CallOK` for every operator's call (what
its position says of its claim, its run and its answer) and `BackedInv` (what reads
"approved" has a receipt). For at most one execution there are two arguments. Both use
`SerialInv`: when calls end within their claim, the call that acts is the record's holder,
so the calls take turns. With a working ledger, the `LedgerInv` of that module says that
whoever has decided left a durable outcome, which the next call's guard finds. With a working
store `ClosedInv` says that whoever has decided is about to write the marker or has closed the
record, so no later claim finds it decided.

*Ledger.* The chain is right because the writer's lock makes what a store remembers (its
head, the position of its export) true of the table and the file while it holds the lock:
`MemoryInv`, `ExportInv` and `LockInv`; `UniqueInv` and `InOrder` carry this over crashes, after
which memory is rebuilt from the table. A link may be wrong only behind an event that could
not be hashed.

*Outbox.* `OutboxInv` says that a row in a poller's hands is claimed, open and in nobody else's
(`HeldOK`), unless its claim was taken for abandoned: a poll takes what is free or what it has
just released, and who closes a row is the only one who has it. What counts attempts and
closes rows (`RowOK`) is then one poller's doing. `PollerOK` ties an answer of success to a
receiver that accepted.

*Provider runs.* `RunInv` counts: a call in hand is counted and has recorded nothing, and a
request in hand has reached its origin at most as often as the origin answered with the proxy's
header (`CallInv`), so arrivals exceed the calls by no more than that. A file that reads as torn
has the thread that emptied it, on the same inode, or an I/O error behind it. By
its last step a file operation has found out what the verifier will ask of its effect, also
when its execution is over (`EffectOK`). Creations and unlinkings are in step because the
test for the path and its creation are one step. That a first effect exists among those
recorded is the least element of a set of naturals, from the library's well-foundedness.

*Rate limiter.* Tokens in the bucket count as admissions still to come, one bucket is in
reserve while the current second is unused, and an outdated reading is charged two buckets:
`RateInv`. For the map: a thread's stamp is at most `MaxStall` old (`StampInv`) and a bucket
nobody touched for `MaxIdle` is full (`LastUseInv`), so dropping it changes nothing.

*Replay cache.* An entry is dropped only `Ttl` after it was stored; by then the proof's window
has closed (`DroppedInv`), and a request that passed the window earlier has ended
(`CarryInv`); a restart changes the key all older leases were signed with. For the cap,
`SlotInv` bounds entries and reservations by the counter and the requests in `missed`:
those that reserved in a shard the sweep had already counted when it stored its count. The
counter is signed within what 64 bits tell apart, so that an undone reservation that is given
back does not wrap into a large number.

*Sessions.* `SessionInv` relates the ends of the key and of the root to the end of the lease
(`LivesOK`), the calls left and made, direct and approved, to the wish (`CallsOK`), and the
set-up's position to the key (`SetupOK`); a key made anew by a late rollback belongs to a lease
that has run out, and holds no more calls than were given back.

*Learned rows.* A change leaves the table's mutex before it drops the snapshot, so between the
two the snapshot is wrong by that change. `SnapshotInv` says that it is wrong by nothing else:
snapshot and table differ at most by the rows of changes whose request has not been answered
(`Unsettled`). A read that begins counts those rows as open, and so it does with changes
made while it lasts; `ReadInv` says that snapshot and table stay between what the read may and
what it should find, whichever of the two it looks at in the end.

*Policy.* A generation is given to one document: `EngineInv` says so of the sources and of
every engine and source a worker remembers, and that none is ahead of the sources. So a worker
whose engine has the generation it has just seen evaluates the document it has just seen,
however many reloads came between (`WorkerInv`). For requests that do not overlap, `AloneInv`
follows one request through its steps: it owns the temporary name from its creation to its
rename, the file under the real name is whole all the time, and the evaluator has the document
asked for, or the request that will load it is still under way, or one that would have was dropped. An edit has one result
(`EditsAreOne`) unless it is refused, so "what was asked for" is well defined.

*Scanner and dispatcher.* An announced record stays in `emitted` until a list does not show it;
a complete list leaves out only what is no longer pending or no longer kept, and neither comes
back: `AnnouncedInv`, with `StoreInv` beside it because the scanner reads that store; a restart
forgets both the set and the count of what this scanner announced. For the
dispatcher, an event is emitted once, so it is in the channel at most once (`ChannelInv`); what
was queued at the signal has its tasks when the drain ends (`ShutdownInv`); `AttemptInv` counts
the attempts a delivery has used.

*Gate.* The writer's lock leaves at most one process alive, so what lies at a socket path is its
own (`ProcessInv`). A process ends by itself only after its client server has drained, so only a
kill cuts a client's request (`RequestInv`). `PermitInv` bounds the calls in flight by the
permits handed out.

*Secrets, adapter and clients.* Nothing in the secrets cache is newer than the file
(`SecretsInv`). A client that has a tool list has initialized, and the cache it was made from is
held or a change has been announced (`AdapterInv`). `ClientsInv` follows a command: an answer
below 400 to a decision means that the decision was carried out, since a terminal record and a
durable outcome are only ever written with one, and what an approval teaches was agreed to
(`PostedInv`), a waiting command's request fits the command (`CommandInv`), its report fits the
answer (`ReportInv`); requests are numbered and a claim names its holder's number, so two of them
work under claims of one approval only after one ran out.

*Registry.* What is served is built from the layers in their order, so `OverrideIsServed` is
inductive with the types. `InvocationInv` says of a call what it has seen: before the digest is
compared, a manifest that was served; afterwards a version that was registered with the digest
of the module it runs.

*Authentication.* `AuthInv` keeps the key cache sound whatever token arrives, and says of every
call what the checks behind it have established (`CallOK`) and of every admission what remains of
them (`AdmissionOK`). `ProofOnce` needs that the replay cache remembers a proof for as long as it
verifies, and longer by what a verified request may take to reach the cache (`Remembered`,
`LifeRemembers`, `OncePerLife`). The first attempt at this proof failed for a good reason: with
no bound on that time `ProofOnce` is false, and the earlier run was too short to show it. The
code has a margin of 180 - 60 - 5 = 115 seconds (`REPLAY_TTL_SECS`, `IAT_MAX_AGE_SECS`,
`IAT_CLOCK_SKEW_SECS`); verification does not suspend, the in-memory claim is synchronous and the
Redis client gives up by itself. The model has this as `ClaimWithin`, and
`ReplayTtl > MaxAge + Skew + ClaimWithin` as its assumption; with `ReplayTtl` smaller by one TLC
finds a proof admitted twice.

*Policy rules.* Entries are what was given and not taken back, those that are gone leave nothing
behind, the sinks are the ones the registry's manifests give for the actions unless the entry was derived
from the directory or a reload has outdated it, and the
evaluator's answer is that of the document in force: `RulesInv`. Everything `RulesSafe` says of
a decision follows from these by the definition of the decision.

*Database.* A call carries from its plan to its end what its operator was shown
(`CallIsGuarded`), so a reload of the configuration in between changes nothing of what it runs.
Rows are changed by what the statement does, the guard goes by its class.

*Console and feed.* `ConsoleInv`: the selection is on a row, a loaded detail is the selected
approval's (so a dialog opened on it learns its own domain), the approval an open dialog decides is
still the selected one unless it has left the list, because a poll re-anchors the selection by id,
and of the waiting keys only the first can be the one that answers, typed in view of the dialog.
`FeedInv`: what the fetches from the head have not seen has a timestamp at most `MaxLag` before
the newest one known (`UnseenInv`), so it lies in the next window, which reaches `Overlap` back;
and a page holds everything newer than any of its rows.

*Set-up, actions and allowlists.* Each screen has an inductive invariant of its own, and a lemma
per kind of key says what a key may do to the screen and what its answer then promises the loop
(`SetupAnswerOK`, `BoardAnswerOK`, `PanelAnswerOK`): an answer that ends input leaves nothing
open, one that opens something begins input, a save leaves the editor as it was.
`SetupInv`: what is open is one thing, only while the loop is in input mode and on this screen; and
between the read and the write of an edit the document in hand is what the file holds, unless
somebody else has written in between. `ActionsInv`: whoever asks for a new list
has dropped the detail, so a detail on the screen is the selected action's; the cursor of an open
editor is on an item, or at the start of an empty list; an open editor has the input mode unless
a save of it was refused, which is the one way in which `q` can still lose a draft. `LearnedInv`:
the entries shown are the active action's, and a change waits only in the mode that is shown. The
attempt to prove `ActionsInv` found the model wrong: its reload asked for a new list, which
`GateReload` (`tui/app.rs:1305`) does not.

**Assumptions.** All proofs are from the named assumptions of the modules
(`StoreAssumption`, `TailAssumption`, `FlowAssumption`, `LedgerAssumption`, `RateAssumption`,
`LimiterAssumption`, `ReplayAssumption`, `SessionAssumption`, `OutboxAssumption`,
`RunAssumption`, `LearnedAssumption`, `PolicyAssumption`, `ScannerAssumption`,
`DispatcherAssumption`, `LifecycleAssumption`, `SecretsAssumption`, `RegistryAssumption`,
`AdapterAssumption`, `ClientsAssumption`, `AuthAssumption`, `RulesAssumption`,
`DatabaseAssumption`, `ConsoleAssumption`, `FeedAssumption`, `SetupAssumption`,
`ActionsAssumption`, `PanelAssumption`), which TLC evaluates in the runs:
finite sets where something is counted, naturals and signs of the code's constants, and the
inequalities between them that the code's constants satisfy: a claim is longer than a clock
lags, `MaxStall` is below `MaxIdle`, a replay entry outlives the window by more than a request
takes, two windows of the feed overlap by more than a row is late, and what is counted fits the word that counts it. Conditions on faults (`LedgerFaults`,
`StoreFaults`, `Abandons`, `Prompt`) are hypotheses of the theorems that need them.

## 5. What is only model-checked

- Liveness: `ClaimsGetClosed` (in `ClaimsEndWell`), `BackgroundProgress`,
  `EdgesProgress`, `SandboxProgress`. Fairness and ENABLED are out of the prover's reach.
- Pure algorithms over data (`NameRules`, the seccomp program of `Sandbox`): what a recursion
  computes needs induction over data, which the installed provers cannot instantiate. They are
  compared with reference definitions over bounded inputs.
- `SandboxSafe` and `DeclarationsSafe`: their modules contain those recursions, and the prover
  has no SMT backend in a module that declares one.
- `LostRepliesCostOneCall`. Its upper bound follows from `BudgetInv`; the lower one is not proved.
- `CommandsSafe`: a model of many files and commands with little that holds for more of them
  than the run has; not proved.
- `OneShot` when calls outlive their claims, handlers are lost or both stores fail: it does not
  hold (section 6).

## 6. Disagreements between code and documentation

The models follow the code. Where a comment or document says something else, the statement
is a definition of the module that no run lists; adding it to the module's cfg makes TLC show
the behaviour. The first ones matter most.

| Definition | Statement | What happens |
|---|---|---|
| `OneShot` with `Abandons = TRUE` (ApprovalFlow) | "no double execution on crash or replay" (`README.md:82`) | a handler lost after dispatch and before the durable outcome: the claim runs out, a second approve builds a new grant and dispatches again; a deny may likewise close an executed approval |
| `BurstWithinBucket` (RateLimiter) | "bursts are limited to the bucket size" (`kernel/rate_limit.rs:47`) | a clock reading older than `last_refill` wraps around, fills the bucket and sets `last_refill` back (`:122`) |
| `OrphanedDebitRecorded` (Pipeline) | the orphaned debit is recorded "so it cannot be lost" (`kernel/pipeline_audit.rs:17`) | a build error has already used the trace's only event when the rollback fails |
| `TerminalPathsAudited` (Pipeline) | "only drain_rejection should be audit-exempt" (`kernel/steps/auth.rs:294`; the matrix from `:181` requires an event for `evidence_persistence_failure`) | a rate-limited call returns before anything is written (`pipeline.rs:464`); a failure of `finalize_evidence` (`execution.rs:801`, `:854`) emits a domain event and writes no audit event |
| `ReadsChangeNothing` (DatabaseGuard) | "intentionally conservative. Unknown or ambiguous => `Unknown` (DENY)" (`providers/database/classify.rs:11`) | every statement that begins with WITH is a select (`:25`), also one that inserts, updates or deletes; it runs with `fetch_all` in autocommit, without row limit (`wasm/host_database.rs:85`) |
| `EditsTakeEffect` (PolicyAdmin) | "Hot-reload the embedded OPA evaluator" follows the write (`api/policy.rs:332`) | the client goes away during the blocking write: the rename still happens, the handler is gone, and the evaluator keeps the old document until the next reload |
| `GrantCoversActions` (PolicyRules) | "Computes `allowed_sinks` automatically from `declared_side_effects`" (`cli/cmd/policy/mod.rs:33`) | the CLI looks only into the manifests directory (`manifest_index.rs:18`) and leaves out what it does not find: a grant or revoke drops the sinks of the entry's embedded actions, which are then denied |
| `SentIsPinned` (NameRules) | "DNS is resolved once and pinned at the transport layer, closing the TOCTOU window" (`providers/wasm/host_http.rs:189`) | through the proxy the pinned address is discarded (`:213`) and the proxy resolves the name again |
| `EveryExpiryIsAnnounced`, `NeverAnnouncedAgain` (ExpiryScanner) | "fires a domain event for each newly-expired approval", "prevents duplicate notifications" (`api/expiry.rs:5,6`) | Redis and the in-memory store never list an expired approval, so none is announced; a restarted scanner announces again what is still pending |
| `PrepareFailureAudited` (ApprovalFlow) | "On any enforcement failure, writes the appropriate audit event" (`kernel/approved_execution.rs:102`) | the event carries the original request's trace, whose row is taken (`:264`) |
| `AllWorkRecorded`, `DrainedIsQuiet` (GateLifecycle) | in-flight requests are drained (`api/listen.rs:38`, `api/admin.rs:253`) | only the client listener is waited for; a request without a permit is not counted |
| `OneSnapshotPerRun`, `ServedHasAllLayers` (Registry) | "Snapshot the registry once per pipeline run" (`kernel/pipeline.rs:494`) | `steps/resolve.rs:71` and `steps/validate.rs:68` load it again; a reload reads one directory where start-up layers several |
| `TunnelLosesNothing` (Sandbox) | "The caller is responsible for relaying the body" (`sandbox/proxy.rs:805`) | for a CONNECT the bytes read past the head are dropped (`:251-269`), and the tunnel still ends cleanly |
| `IdleTunnelsClosed` (Sandbox) | connections without data "are closed" (`sandbox/proxy.rs:46`) | a write to a peer that stopped reading is awaited outside the select (`:743`) |
| `OperatorProofOnce`, `OutageIsTransient`, `ScopesWithinConfigured` (Authentication) | `auth/dpop/operator.rs:16`, `auth/auth.rs:44`, `auth/identity/peercred.rs:34` | a restart forgets the in-memory cache while operator keys live on; an outage is answered as a replay; scopes are those of the wish |
| `UnapprovedWritesAreBounded`, `LoadedConfigIsValid` (DatabaseGuard) | `providers/database/validate.rs:62`, `types.rs:146` | a statement that requires approval skips the row guard on every path; a reloaded configuration is not validated |
| `OriginSeesOnce` (ProviderRun) | Squid sets `X-Squid-Error` "never on responses proxied through from an origin" (`providers/wasm/host_http.rs:331-333`) | an origin may set the header itself: the request has reached it and is sent again (`:250`, `:336`) |
| `NeverOnItsWordAlone` (ProviderRun) | `kernel/verification.rs:29` | without an answer seen by the host the provider's report is used (`:323`) |
| `OverwriteFindsExpected` (ProviderRun) | `providers/wit/io-fs.wit:80` | compare and truncate are two steps |
| `RevokeOnlyRemoves`, `GrantOnlyAdds` (PolicyRules) | `cli/cmd/policy/mod.rs:30,48`, `api/policy.rs:360` | removing the last entry gives the wildcard's rights; a grant replaces inheritance |
| `LenientKeepsHardErrors` (ManifestLoad) | `registry/store.rs:361` | a lenient load skips them |
| `LearnedPathIsFound`, `LearnedHostRuns` (NameRules), `ApprovedFindsItsDomain`, `AllowfileFollowsTable` (LearnedAllowlist) | `api/approvals.rs:435,655` | an absolute path is learned in another form than it is asked in; the proxy file may lag |
| `ReloadIsAllOrNothing`, `TargetIsWhole` (PolicyAdmin) | `core/atomic.rs:3` | two administrators share one temporary name |
| `ChainIntact` (Ledger, `Oversized # {}`) | `ledger/store_events.rs:3` | an event that cannot be written breaks the recomputed chain |
| `RotatedWithinTtl` (GateLifecycle) | `providers/secrets.rs:23` | a decryption begun before the rotation is cached for another TTL |
| `ReconnectHasLease` (McpAdapter), `AbsentIsUnconstrained`, `ApprovedInSessionRoot` (LeaseSession) | `mcp/server.rs:1273`, `auth/issuer/jwt.rs:51` | see the comments there |
| `StaleClaimsReleased` (Webhooks) | `webhooks/outbox.rs` | text comparison of two timestamp formats: a claim is stale only on a later calendar day |
| `DecidesWhatWasViewed` (OperatorConsole) | "so an operator never approves a different one than the one they were viewing" (`tui/approvals.rs:781-785`) | the dialog names no approval (`:538`); when its approval leaves the list the highlight and the detail are another's, and `y` decides the first; likewise an answer typed ahead |
| `FeedIsSorted`, `NoOlderIsTrue` (OperatorConsole), `MarksEnd`, `InputIsForSomething` (Screens), `EditOwnsKeys`, `RetryReloads`, `UnloadedIsPending` (Screens) | `tui/actions.rs:1711` and the modules' comments | keys are handled against a list newer than the frame; marks stay after a timeout |
| `OneTimeStaysOneTime`, `ReportedIsDone`, `FailedIsNotDone` (OperatorClients) | `cli/cmd/approvals.rs:535,566` | the gate learns a host on approval; a terminal record answers 200; the gate goes on after the client's timeout |
| `ReadyMeansStarts`, `ProxyByNameIsReady`, `OperatorReachesAdmin`, `HistoryOnlyGrows` (Startup) | `cli/cmd/doctor/mod.rs:178`, `client/transport.rs:99` | the doctor checks less than start-up; a garbled history is replaced |
| `ForwarderHasNoCaps`, `AgentNotInRootGroup` (Sandbox), `DropsAreNeeded` (Sandbox) | `sandbox/loopback_forward.rs:33`, `bwrap.rs:58` | the forwarder is forked before the drop; the group falls back to 0 |
| `InitIsValid` (ProjectFiles) | "JWKS export (optional" (`cli/cmd/init/config_gen.rs:167`) | init's config has no `receipt_keys_jwks_path`, which the validation of every later `config` edit and of the gate requires (`config/validate.rs:167`); a gate without identity is refused too (`:133`) |
| `TuiEditsAreChecked` (ProjectFiles) | "config validation failed after edit" (`cli/cmd/setup_ops.rs:76`) | `Config::from_file` only parses (`config/loader.rs:56`); the TUI reports an invalid edit, such as the removal of the last operator, as saved |
| `LinkedVaultOpens` (ProjectFiles) | `cli/cmd/setup_ops.rs` | an unencrypted vault can be linked |

Others, seen while modelling and without a definition: `deny_pre_dispatch` loses its deny
event when its rollback fails (`kernel/execution.rs:256`); `state/budgets.rs:21` says a
provider failure restores the budget, `execution.rs:401` keeps it on purpose;
`kernel/state.rs:107` says a revocation invalidates all outstanding grants, a validated one is
still dispatched; `WebhookOutbox::enqueue` has no caller outside tests; the MCP adapter says a
stale tool cache "is invalidated" and only refreshes it; `insert_entry` refuses an existing
row at its cap; two paths of `mcp/admin_client.rs` (234, 246) have no route; IDE files are
written by truncation and lose TOML and YAML comments; `mcp install` of Claude Code removes
the entry before it adds one; the TUI writes `{name}.operator.pem` where `mcp install` does
not look; an unreachable Redis does not refuse start-up; `tui/actions.rs:1326` says pending
markers are reconciled "after the gate reloads", which after `R` they are not, since no new list
is fetched.

## 7. What is not modelled, and the plan

Not modelled: templates (string substitution), the mathematics of signatures and hashes, what
a WASM guest computes, queue and e-mail providers, TOML and JSON-RPC parsing, routing,
read-only queries, drawing and printing, the SDKs, the identity provider `none` (development
only: `auth/identity/mod.rs:158`, every caller is `dev:anonymous` without bounds, and `AuthSafe` is
not claimed for it), and wall clocks set back by an administrator. Names of things the operating system does (namespaces, Landlock, seccomp,
signals) are modelled by their documented effect.

The map leaves out helpers that lie within the lines of the action that uses them, and the
environment's steps.

Plan: move the seccomp program of `Sandbox` to a module of its own, so that the egress part of
`SandboxSafe` can be proved; then `CommandsSafe`, command by command.
