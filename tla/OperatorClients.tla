--------------------------- MODULE OperatorClients ---------------------------
(***************************************************************************)
(* The operator's programs and the requests they send: the `latchgate`     *)
(* commands (approvals, domains, actions, audit, status) and the operator  *)
(* tools of the MCP adapter, which share one HTTP client.  A request       *)
(* carries a proof signed for it alone, waits a bounded time for its       *)
(* answer and is never sent again.  The gate answers an approval in two    *)
(* steps, the claim and the outcome, and may go on when the client has     *)
(* given up; its side is the part of api/approvals.rs that the clients see *)
(* (the whole of it is ApprovalFlow): claims that run out, a store and a   *)
(* ledger that keep two records of one decision, each as far as its write  *)
(* got, and the answers given from whichever of them can be read.          *)
(***************************************************************************)
EXTENDS Naturals, Sequences, FiniteSets, SequencesExt

CONSTANTS
    Clients,      \* operators at work
    FrontOf,      \* client -> "cli" or "mcp"
    Credentials,  \* operator ids in the CLI's configuration
    Keys,         \* operator ids whose PEM is on disk
    Approvals,    \* approvals waiting for a decision at first
    UnresolvedOf, \* approval -> the domains that held its call, a sequence
    Domains,      \* domains the commands may name
    ManifestDomains, \* domains the action's manifest allows
    MaxClientCommands   \* bound: commands started in a run

NoDomain == "none"
MaybeDomain == Domains \cup {NoDomain}
NoApproval == "none"

ASSUME ClientsAssumption ==
    /\ FrontOf \in [Clients -> {"cli", "mcp"}]
    /\ UnresolvedOf \in [Approvals -> Seq(Domains)]
    /\ MaxClientCommands \in Nat
    /\ "none" \notin Domains \cup Approvals

VARIABLES
    status,   \* approval -> its state in the gate's store
    holder,   \* approval -> the request whose claim the store has, 0 for none
    outcome,  \* approval -> its durable outcome in the ledger
    decided,  \* <<approval, outcome>> the gate carried out (history)
    ranOut,   \* approvals a claim of which has run out (history)
    table,    \* learned domains (one action)
    typed,   \* client -> the command it runs
    work,     \* requests the gate holds or has answered
    told,     \* client -> what its last command reported
    agreed,   \* <<approval, domain>> an operator agreed to have learned (history)
    refused,  \* <<approval, domain>> an operator answered "n" for (history)
    commands  \* commands started

storeVars == <<status, holder, outcome, decided, ranOut>>
clientsVars == <<storeVars, table, typed, work, told, agreed, refused, commands>>

Reads == {"list", "show", "actions", "action", "audit", "status"}
NoClient == [cmd |-> "none", pc |-> "idle", id |-> NoApproval, yes |-> FALSE,
         learn |-> NoDomain, flag |-> FALSE, seen |-> {}, req |-> 0]
Untold == [cmd |-> "none", ok |-> FALSE, id |-> NoApproval, why |-> "none"]

ClientsInit ==
    /\ status = [a \in Approvals |-> "pending"]
    /\ holder = [a \in Approvals |-> 0]
    /\ outcome = [a \in Approvals |-> "none"]
    /\ decided = {} /\ ranOut = {}
    /\ table \in SUBSET Domains
    /\ typed = [c \in Clients |-> NoClient]
    /\ work = {}
    /\ told = [c \in Clients |-> Untold]
    /\ agreed = {} /\ refused = {}
    /\ commands = 0

(***************************************************************************)
(* The credential a command signs with                                     *)
(***************************************************************************)
\* auto_discover_from_dir: the one configured credential, if its key is there.
Discovered == Cardinality(Credentials) = 1 /\ Credentials \subseteq Keys
\* from_args: an explicit token needs an explicit key.
FromArgs(k) == k \in Keys
Authenticated(c) == IF FrontOf[c] = "mcp" THEN TRUE
                    ELSE Discovered \/ \E k \in Credentials : FromArgs(k)

(***************************************************************************)
(* One request                                                             *)
(***************************************************************************)
\* The requests sent so far number the proofs: a fresh jti for each.
FreshProof == Cardinality(work) + 1
BuildRequest(c, kind, id, learn) ==
    [from |-> c, n |-> FreshProof, kind |-> kind, id |-> id, learn |-> learn,
     stage |-> "sent", code |-> 0, seen |-> {}]
\* request_authenticated and get: sent, and the client waits.
Send(c, k, kind, id, learn) ==
    /\ work' = work \cup {BuildRequest(c, kind, id, learn)}
    /\ typed' = [typed EXCEPT ![c] = [k EXCEPT !.pc = "waiting", !.req = FreshProof]]
\* The command ends with a report.
Report(c, ok, why) ==
    /\ told' = [told EXCEPT ![c] = [cmd |-> typed[c].cmd, ok |-> ok,
                                    id |-> typed[c].id, why |-> why]]
    /\ typed' = [typed EXCEPT ![c] = NoClient]
Mine(c) == {r \in work : r.from = c /\ r.n = typed[c].req}
Step(r, q) == work' = (work \ {r}) \cup {q}

\* healthz, list_actions and get_action carry no credential.
NeedsAuth(cmd) == cmd \notin {"actions", "action", "status"}
BeginClient(c, cmd) ==
    /\ typed[c].pc = "idle" /\ commands < MaxClientCommands
    /\ commands' = commands + 1
    /\ NeedsAuth(cmd) => Authenticated(c)

(***************************************************************************)
(* The commands                                                            *)
(***************************************************************************)
RunRead(c, cmd, a) ==
    /\ BeginClient(c, cmd)
    /\ Send(c, [NoClient EXCEPT !.cmd = cmd, !.id = a], cmd, a, NoDomain)
    /\ UNCHANGED <<storeVars, table, told, agreed, refused>>
RunList(c) == RunRead(c, "list", NoApproval)
RunShow(c, a) == RunRead(c, "show", a)
RunActions(c) == FrontOf[c] = "cli" /\ RunRead(c, "actions", NoApproval)
ShowAction(c) == FrontOf[c] = "cli" /\ RunRead(c, "action", NoApproval)
RunAudit(c) == RunRead(c, "audit", NoApproval)
RunStatus(c) == FrontOf[c] = "cli" /\ RunRead(c, "status", NoApproval)

\* run_approve of the CLI: the detail is fetched first.
RunApprove(c, a, yes, flag) ==
    /\ FrontOf[c] = "cli"
    /\ BeginClient(c, "approve")
    /\ Send(c, [NoClient EXCEPT !.cmd = "approve", !.id = a, !.yes = yes,
                            !.learn = flag, !.flag = (flag # NoDomain)],
            "show", a, NoDomain)
    /\ agreed' = IF flag = NoDomain THEN agreed ELSE agreed \cup {<<a, flag>>}
    /\ UNCHANGED <<storeVars, table, told, refused>>
\* latchgate_approve: no detail, no learning of its own.
ToolApprove(c, a) ==
    /\ FrontOf[c] = "mcp"
    /\ BeginClient(c, "approve")
    /\ Send(c, [NoClient EXCEPT !.cmd = "approve", !.id = a], "approve", a, NoDomain)
    /\ UNCHANGED <<storeVars, table, told, agreed, refused>>
RunDeny(c, a) ==
    /\ BeginClient(c, "deny")
    /\ Send(c, [NoClient EXCEPT !.cmd = "deny", !.id = a], "deny", a, NoDomain)
    /\ UNCHANGED <<storeVars, table, told, agreed, refused>>

\* The detail is there: with a terminal, the first unresolved domain is
\* offered and the operator asked; with --yes the request goes out at once.
EffectiveLearn(k) ==
    IF k.flag THEN k.learn
    ELSE IF ~k.yes /\ UnresolvedOf[k.id] # <<>> THEN Head(UnresolvedOf[k.id])
    ELSE NoDomain
SubmitApprove(c, learn) == Send(c, typed[c], "approve", typed[c].id, learn)
DetailArrived(c, r) ==
    LET k == typed[c] IN
    /\ k.cmd = "approve" /\ r.kind = "show" /\ r.code = 200
    /\ IF k.yes THEN SubmitApprove(c, EffectiveLearn(k))
       ELSE /\ typed' = [typed EXCEPT ![c].pc = "confirm", ![c].learn = EffectiveLearn(k)]
            /\ UNCHANGED work
    /\ UNCHANGED told
Confirm(c, word) ==
    LET k == typed[c] IN
    /\ k.cmd = "approve" /\ k.pc = "confirm"
    /\ \/ word # "yes" /\ Report(c, TRUE, "cancelled") /\ UNCHANGED work
       \/ /\ word = "yes" /\ ~k.flag /\ k.learn # NoDomain
          /\ typed' = [typed EXCEPT ![c].pc = "remember"]
          /\ UNCHANGED <<work, told>>
       \/ /\ word = "yes" /\ (k.flag \/ k.learn = NoDomain)
          /\ SubmitApprove(c, k.learn) /\ UNCHANGED told
    /\ UNCHANGED <<storeVars, table, agreed, refused, commands>>
\* "Remember '{domain}' for future calls?"
Remember(c, y) ==
    LET k == typed[c] IN
    /\ k.pc = "remember"
    /\ SubmitApprove(c, IF y THEN k.learn ELSE NoDomain)
    /\ agreed' = IF y THEN agreed \cup {<<k.id, k.learn>>} ELSE agreed
    /\ refused' = IF y THEN refused ELSE refused \cup {<<k.id, k.learn>>}
    /\ UNCHANGED <<storeVars, table, told, commands>>

(***************************************************************************)
(* The domains commands                                                    *)
(***************************************************************************)
Local(c) == FrontOf[c] = "cli" /\ typed[c].pc = "idle" /\ commands < MaxClientCommands
            /\ commands' = commands + 1
\* These commands open the ledger themselves; no request is made.
DomainsAdd(c, d) ==
    /\ Local(c)
    /\ table' = table \cup {d}
    /\ UNCHANGED <<storeVars, typed, work, told, agreed, refused>>
DomainsRemove(c, d) ==
    /\ Local(c)
    /\ table' = table \ {d}
    /\ UNCHANGED <<storeVars, typed, work, told, agreed, refused>>
\* run_check: the manifest's domains and the learned ones.
DomainsCheck(c, d) ==
    /\ Local(c)
    /\ told' = [told EXCEPT ![c] = [cmd |-> "check", ok |-> TRUE, id |-> NoApproval,
                  why |-> IF d \in ManifestDomains \cup table THEN "allowed" ELSE "not_matched"]]
    /\ UNCHANGED <<storeVars, table, typed, work, agreed, refused>>
DomainsList(c) ==
    /\ Local(c)
    /\ UNCHANGED <<storeVars, table, typed, work, told, agreed, refused>>
DomainsClear(c) ==
    /\ Local(c)
    /\ IF table = {} THEN UNCHANGED typed
       ELSE typed' = [typed EXCEPT ![c] =
                         [NoClient EXCEPT !.cmd = "clear", !.pc = "confirm", !.seen = table]]
    /\ UNCHANGED <<storeVars, table, work, told, agreed, refused>>
ConfirmClear(c, word) ==
    /\ typed[c].cmd = "clear"
    /\ table' = IF word = "yes" THEN {} ELSE table
    /\ Report(c, TRUE, IF word = "yes" THEN "cleared" ELSE "cancelled")
    /\ UNCHANGED <<storeVars, work, agreed, refused, commands>>

(***************************************************************************)
(* What a command makes of its answer                                      *)
(***************************************************************************)
\* A variant with a fault: answers of 400 and above are taken for answers.
IsErrorNever(r) == FALSE

\* uds_request, http_request: 400 and above is an error.
IsError(r) == r.code >= 400
\* map_admin_error; the CLI prints the error as it came.
ErrorOf(c, r) == IF FrontOf[c] = "cli" THEN "failed"
                 ELSE CASE r.code \in {401, 403} -> "auth_failed"
                        [] r.code = 404 -> "action_not_found"
                        [] OTHER -> "gate_unavailable"
Receive(c) ==
    /\ typed[c].pc = "waiting"
    /\ \E r \in Mine(c) :
        /\ r.stage = "answered"
        /\ \/ DetailArrived(c, r)
           \/ /\ ~(typed[c].cmd = "approve" /\ r.kind = "show" /\ ~IsError(r))
              /\ Report(c, ~IsError(r), IF IsError(r) THEN ErrorOf(c, r) ELSE "done")
              /\ UNCHANGED work
    /\ UNCHANGED <<storeVars, table, agreed, refused, commands>>
\* UDS_REQUEST_TIMEOUT (30 s over TCP); or the connection breaks.
TimeOut(c) ==
    /\ typed[c].pc = "waiting"
    /\ Report(c, FALSE, IF FrontOf[c] = "cli" THEN "failed" ELSE "gate_unavailable")
    /\ UNCHANGED <<storeVars, table, work, agreed, refused, commands>>

(***************************************************************************)
(* The gate                                                                *)
(***************************************************************************)
Terminal == {"executed", "denied", "failed"}
AnswerCommand(r, code) == Step(r, [r EXCEPT !.stage = "answered", !.code = code])
\* The adapter asks for two audit paths the router does not have.
GateRead(r) ==
    /\ r \in work /\ r.stage = "sent" /\ r.kind \in Reads
    /\ IF r.kind = "audit" /\ FrontOf[r.from] = "mcp" THEN AnswerCommand(r, 404) ELSE AnswerCommand(r, 200)
    /\ UNCHANGED <<storeVars, table, typed, told, agreed, refused, commands>>
\* The domain an approval teaches, persisted before the call is prepared.
EffectiveDomain(r) ==
    IF r.kind = "deny" THEN {}
    ELSE IF r.learn # NoDomain THEN {r.learn}
    ELSE IF UnresolvedOf[r.id] # <<>> THEN {Head(UnresolvedOf[r.id])} ELSE {}
\* has_durable_outcome, sqlite_outcome_response: none if the ledger is not read.
DurableOutcome(a, readable) == readable /\ outcome[a] # "none"
Claimable(a) == status[a] \in {"pending", "lapsed"}
\* The store's claim is r's, and the record goes to one of the states `to`.
Take(r, to) ==
    /\ Claimable(r.id)
    /\ holder' = [holder EXCEPT ![r.id] = r.n]
    /\ \E s \in to : status' = [status EXCEPT ![r.id] = s]
    /\ UNCHANGED <<outcome, decided, ranOut>>
Arrived(r) == r \in work /\ r.stage = "sent" /\ r.kind \in {"approve", "deny"}

\* claim_or_short_circuit, the claim made: the decision goes on; or an outcome
\* in the ledger bars it (fail_already_executed, as far as it gets); or what
\* was to be learned is refused, and the claim stays.
GateClaim(r, readable) ==
    LET found == DurableOutcome(r.id, readable) IN
    /\ Arrived(r)
    /\ \/ /\ ~found /\ Take(r, {"claimed"})
          /\ table' \in {table, table \cup EffectiveDomain(r)}
          /\ Step(r, [r EXCEPT !.stage = "claimed"])
       \/ /\ found /\ Take(r, {"claimed", "failed"})
          /\ AnswerCommand(r, 409) /\ UNCHANGED table
       \/ /\ ~found /\ r.kind = "approve" /\ Take(r, {"claimed"})
          /\ AnswerCommand(r, 400) /\ UNCHANGED table
    /\ UNCHANGED <<typed, told, agreed, refused, commands>>
\* claim_or_short_circuit, no claim: somebody else's; a completed record, if its
\* status can be read; no record, and the ledger is asked.
GateShortCircuit(r, readable) ==
    /\ Arrived(r)
    /\ \/ status[r.id] = "claimed" /\ AnswerCommand(r, 409)
       \/ status[r.id] \in Terminal /\ AnswerCommand(r, IF readable THEN 200 ELSE 404)
       \/ /\ status[r.id] = "gone"
          /\ AnswerCommand(r, IF DurableOutcome(r.id, readable) THEN 200 ELSE 404)
    /\ UNCHANGED <<storeVars, table, typed, told, agreed, refused, commands>>
\* The store does not answer: the ledger is asked, and the claim may have been made.
StoreUnreachable(r, readable) ==
    /\ Arrived(r)
    /\ Take(r, {"claimed"}) \/ UNCHANGED storeVars
    /\ AnswerCommand(r, IF DurableOutcome(r.id, readable) THEN 200 ELSE 503)
    /\ UNCHANGED <<table, typed, told, agreed, refused, commands>>

\* write_outcome_and_finalize, then the answer.  The ledger keeps the first
\* outcome it was given; the store takes it from the claim it has; either write
\* may fail, and the answer is the same.
OutcomeOf(r, ok) == IF r.kind = "deny" THEN "denied" ELSE IF ok THEN "executed" ELSE "failed"
GateSettle(r, ok) ==
    LET end == OutcomeOf(r, ok) IN
    /\ r \in work /\ r.stage = "claimed" /\ (r.kind = "deny" => ok)
    /\ decided' = decided \cup {<<r.id, end>>}
    /\ outcome' \in {outcome, IF outcome[r.id] = "none" THEN [outcome EXCEPT ![r.id] = end] ELSE outcome}
    /\ \/ UNCHANGED status
       \/ /\ holder[r.id] = r.n /\ status[r.id] \in {"claimed", "lapsed"}
          /\ status' = [status EXCEPT ![r.id] = end]
    /\ AnswerCommand(r, IF ok THEN 200 ELSE 502)
    /\ UNCHANGED <<holder, ranOut, table, typed, told, agreed, refused, commands>>
\* The client has hung up: its handler is dropped where it waits (before the
\* claim that is no different from never being taken up).
HandlerDropped(r) ==
    /\ r \in work /\ r.stage = "claimed"
    /\ typed[r.from].pc # "waiting" \/ typed[r.from].req # r.n
    /\ Step(r, [r EXCEPT !.stage = "lost"])
    /\ UNCHANGED <<storeVars, table, typed, told, agreed, refused, commands>>
\* The claim's lifetime ends, whoever still works under it; the record's ends.
ClaimRunsOut(a) ==
    /\ status[a] = "claimed"
    /\ status' = [status EXCEPT ![a] = "lapsed"]
    /\ ranOut' = ranOut \cup {a}
    /\ UNCHANGED <<holder, outcome, decided, table, typed, work, told, agreed, refused, commands>>
RecordEnds(a) ==
    /\ status[a] # "gone"
    /\ status' = [status EXCEPT ![a] = "gone"]
    /\ UNCHANGED <<holder, outcome, decided, ranOut, table, typed, work, told, agreed, refused, commands>>
\* The gate goes down with the requests it holds, and comes back.  While it is
\* down nobody takes a request up.
ServerRestarts ==
    /\ work' = {IF r.stage = "answered" THEN r ELSE [r EXCEPT !.stage = "lost"] : r \in work}
    /\ UNCHANGED <<storeVars, table, typed, told, agreed, refused, commands>>

ClientStep(c) == Receive(c) \/ TimeOut(c)
Type(c) ==
    \/ \E w \in {"yes", "no"} : Confirm(c, w) \/ ConfirmClear(c, w)
    \/ \E y \in BOOLEAN : Remember(c, y)
Command(c) ==
    \/ RunList(c) \/ RunActions(c) \/ ShowAction(c) \/ RunAudit(c) \/ RunStatus(c)
    \/ DomainsClear(c) \/ DomainsList(c)
    \/ \E a \in Approvals :
        \/ RunShow(c, a) \/ ToolApprove(c, a) \/ RunDeny(c, a)
        \/ \E yes \in BOOLEAN, flag \in MaybeDomain : RunApprove(c, a, yes, flag)
    \/ \E d \in Domains : DomainsAdd(c, d) \/ DomainsRemove(c, d) \/ DomainsCheck(c, d)
Gate ==
    \/ \E r \in work : GateRead(r) \/ HandlerDropped(r) \/ \E ok \in BOOLEAN : GateSettle(r, ok)
    \/ \E r \in work, readable \in BOOLEAN :
        GateClaim(r, readable) \/ GateShortCircuit(r, readable) \/ StoreUnreachable(r, readable)
    \/ \E a \in Approvals : ClaimRunsOut(a) \/ RecordEnds(a)
    \/ ServerRestarts

ClientsNext == Gate \/ \E c \in Clients : ClientStep(c) \/ Type(c) \/ Command(c)
\* A client's timer runs whatever the gate does.
ClientsFair == \A c \in Clients : WF_clientsVars(ClientStep(c))
ClientsSpec == ClientsInit /\ [][ClientsNext]_clientsVars /\ ClientsFair

-----------------------------------------------------------------------------
\* The variables keep their types.
ClientsTypeOK ==
    /\ status \in [Approvals -> {"pending", "claimed", "lapsed", "gone"} \cup Terminal]
    /\ holder \in [Approvals -> Nat] /\ outcome \in [Approvals -> {"none"} \cup Terminal]
    /\ decided \subseteq Approvals \X Terminal /\ ranOut \subseteq Approvals
    /\ table \subseteq Domains /\ commands \in 0..MaxClientCommands
    /\ \A c \in Clients : typed[c].pc \in {"idle", "waiting", "confirm", "remember"}

\* A decision the operator was told went through was carried out by the gate,
\* his or another operator's, whether the store, the ledger or the handler
\* answered: no exit code 0 for an approval that is still pending or only
\* claimed (submit_approve, run_deny, the adapter's tools).
Decided(a) == \E end \in Terminal : <<a, end>> \in decided
SuccessIsDecided ==
    \A c \in Clients :
        told[c].cmd \in {"approve", "deny"} /\ told[c].ok /\ told[c].why = "done"
            => Decided(told[c].id)
\* A domain the approvals taught is one that held the approved call, or one
\* an operator named or agreed to (run_approve's flag and question).
TaughtIsKnown ==
    \A r \in work :
        r.kind = "approve" /\ r.stage \in {"claimed", "answered"}
            => r.learn = NoDomain \/ <<r.id, r.learn>> \in agreed
\* Two requests never carry the same proof, and two work under a claim of one
\* approval only if a claim of it has run out.
OneClaimAtATime ==
    /\ \A r, q \in work : r.n = q.n => r = q
    /\ \A r, q \in work :
         r.stage = "claimed" /\ q.stage = "claimed" /\ r.id = q.id => r = q \/ r.id \in ranOut
\* The operator's programs as a whole.
ClientsSafe == SuccessIsDecided /\ TaughtIsKnown /\ OneClaimAtATime

\* A command that waits for the gate ends, whatever the gate does.
CommandsEnd == \A c \in Clients : typed[c].pc = "waiting" ~> typed[c].pc # "waiting"

\* "Approve without learning - one-time only" (cli approvals.rs:535): a
\* domain the operator answered "n" for, and nobody agreed to, is not learned
\* by that approval.
OneTimeStaysOneTime ==
    [][\A r \in work : r.kind = "approve" /\ r.stage = "sent"
          /\ (\E q \in work' : q.n = r.n /\ q.stage = "claimed")
          => \A d \in Domains : <<r.id, d>> \in refused /\ <<r.id, d>> \notin agreed
                                  => (d \in table' => d \in table)]_clientsVars
\* "Approval executed." (cli approvals.rs:566) is only printed for an
\* approval whose call was executed.
ReportedIsDone ==
    \A c \in Clients :
        told[c].cmd = "approve" /\ told[c].ok /\ told[c].why = "done"
            => <<told[c].id, "executed">> \in decided
\* A decision reported as failed did not happen (ad hoc: the gate goes on
\* after the client's timeout).
FailedIsNotDone ==
    \A c \in Clients :
        told[c].cmd = "approve" /\ ~told[c].ok => <<told[c].id, "executed">> \notin decided

=============================================================================
