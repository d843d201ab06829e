------------------------------ MODULE PolicyRules ------------------------------
(* What the policy decides. The ACL document that init, `policy grant` and      *)
(* `policy revoke` maintain, the approval allowlist beside it, the manifests    *)
(* the sinks are derived from (the gate's registry for the endpoints, the files *)
(* of one directory for the CLI), the rules of latchgate.rego over all of them, *)
(* and PolicyClient's reading of the engine's reply, with the failures of an    *)
(* external OPA. The files' atomicity and the reload of the embedded engine are *)
(* PolicyAdmin's.                                                               *)
EXTENDS Integers, FiniteSets

CONSTANTS Principals, Sinks,
          ActionIds,        \* the actions whose manifests are built into the binary
          Extracted,        \* those of them whose manifests init writes to the directory
          Risk,             \* action -> 0 (low), 1 (medium), 2 (high) or 3 (critical)
          FsActions,        \* the actions whose category is "fs"
          DeclaredSinks,    \* the sinks the built-in manifests declare, by action
          Presets,          \* the wildcard grants init may start from: [grant, limit]
          Agents,           \* the principals init enrols
          AllowlistNames,   \* the principals whose names the allowlist endpoint accepts
          Inputs,           \* the policy inputs that are asked about
          BackendFaults,    \* what may go wrong between the gate and an external OPA
          MaxEdits          \* bound on administrative edits

PolicyInput == [principal : Principals, action : ActionIds, trusted : BOOLEAN,
                scopes : SUBSET STRING, required : SUBSET STRING, calls : Nat,
                sensitive : BOOLEAN, unresolvedPaths : BOOLEAN, unresolvedDomains : BOOLEAN]

(* The inputs are what the pipeline builds, the manifests declare known sinks.  *)
ASSUME RulesAssumption ==
  /\ DeclaredSinks \in [ActionIds -> SUBSET Sinks]
  /\ Extracted \subseteq ActionIds
  /\ Inputs \subseteq PolicyInput
  /\ MaxEdits \in Nat

Wildcard == "*"
Names == Principals \cup {Wildcard}

VARIABLES acl,        \* principal or "*" -> its entry, or NoEntry
          allowlist,  \* <<action, principal>> pairs that skip the approval
          onDisk,     \* the sinks the manifests of the directory declare, by action
          manifests,  \* action -> the sinks the manifest the registry serves declares
          outdated,   \* history: entries not derived from what the registry serves now
          given,      \* history: <<principal, action>> granted and not revoked since
          answer,     \* the last evaluation and its outcome
          edits

rulesVars == <<acl, allowlist, onDisk, manifests, outdated, given, answer, edits>>

NoEntry == [there |-> FALSE, actions |-> {}, sinks |-> {}, inherits |-> FALSE]
AclEntry == [there : BOOLEAN, actions : SUBSET ActionIds, sinks : SUBSET Sinks, inherits : BOOLEAN]
PolicyDecision == {"allow", "denied", "pending"}
PolicyError == {"timeout", "unavailable", "invalid"}
NoAnswer == [kind |-> "none"]
HighRisk(a) == Risk[a] >= 2

(* derive_sinks: the union of what the manifests of the actions declare. An     *)
(* action that the index does not have adds nothing, and nothing is said.       *)
DeriveSinks(index, actions) == UNION {index[a] : a \in actions \cap DOMAIN index}

(* The endpoints look manifests up in the registry; build_manifest_index reads  *)
(* the files of one directory, and knows nothing of what is only built in.      *)
Index(tool) == IF tool = "api" THEN manifests ELSE onDisk

(* The index has the manifests of these actions that the gate itself serves.    *)
ReadsWhatIsServed(index, actions) ==
  \A a \in actions : a \in DOMAIN index /\ index[a] = manifests[a]

(* WildcardGrant::allows: all, none, or the risks strictly below a limit.       *)
WildcardAllows(preset, a) ==
  preset.grant = "all" \/ (preset.grant = "below" /\ Risk[a] < preset.limit)

PresetActions(preset, n) ==
  CASE n = Wildcard -> {a \in Extracted : WildcardAllows(preset, a)}
    [] preset.grant = "none" -> {}
    [] OTHER -> Extracted

(* build_data_json: over the manifests init extracted, a wildcard entry and one *)
(* inheriting entry for each agent.                                             *)
BuildDataJson(preset) ==
  [n \in Names |->
     IF n \in Agents \cup {Wildcard}
     THEN [there |-> TRUE, actions |-> PresetActions(preset, n),
           sinks |-> UNION {DeclaredSinks[a] : a \in PresetActions(preset, n)},
           inherits |-> n # Wildcard]
     ELSE NoEntry]

RulesInit ==
  \E preset \in Presets :
    /\ acl = BuildDataJson(preset)
    /\ allowlist = {}
    /\ onDisk = [a \in Extracted |-> DeclaredSinks[a]]
    /\ manifests = DeclaredSinks
    /\ outdated = {}
    /\ given = {pair \in Names \X ActionIds : pair[2] \in acl[pair[1]].actions}
    /\ answer = NoAnswer
    /\ edits = 0

Edit == edits < MaxEdits /\ edits' = edits + 1 /\ answer' = NoAnswer

(* The entry of n becomes e, derived by a tool that reads this index.           *)
Derived(n, e, index) ==
  /\ acl' = [acl EXCEPT ![n] = e]
  /\ outdated' = IF ReadsWhatIsServed(index, e.actions) THEN outdated \ {n} ELSE outdated \cup {n}

(* grant_actions and run_grant: an entry that is missing starts empty, without  *)
(* inheritance; its sinks are derived afresh from all of its actions. The CLI   *)
(* refuses an action the directory does not have, among the granted ones only.  *)
Grant(n, as, tool) ==
  /\ Edit
  /\ as \subseteq DOMAIN Index(tool)
  /\ LET actions == acl[n].actions \cup as
     IN  Derived(n, [there |-> TRUE, actions |-> actions,
                     sinks |-> DeriveSinks(Index(tool), actions),
                     inherits |-> acl[n].inherits], Index(tool))
  /\ given' = given \cup ({n} \X as)
  /\ UNCHANGED <<allowlist, onDisk, manifests>>

\* A variant with a fault: the sinks of a revoked action stay.
RevokedKeepsSinks(entry, as, index) ==
  IF entry.actions \subseteq as THEN NoEntry ELSE [entry EXCEPT !.actions = @ \ as]

(* revoke_actions and run_revoke: the entry goes with its last action.          *)
Revoked(entry, as, index) ==
  IF entry.actions \subseteq as THEN NoEntry
  ELSE [entry EXCEPT !.actions = @ \ as, !.sinks = DeriveSinks(index, entry.actions \ as)]

Revoke(n, as, tool) ==
  /\ Edit
  /\ acl[n].there
  /\ Derived(n, Revoked(acl[n], as, Index(tool)), Index(tool))
  /\ given' = given \ ({n} \X as)
  /\ UNCHANGED <<allowlist, onDisk, manifests>>

(* validate_id: shorter names and fewer characters than a grant accepts.        *)
ValidateId(p) == p \in AllowlistNames

(* The allowlist endpoints: the action must be registered, the pair is exact.   *)
Allowlist(a, p) ==
  /\ Edit
  /\ ValidateId(p)
  /\ \/ allowlist' = allowlist \cup {<<a, p>>}
     \/ <<a, p>> \in allowlist /\ allowlist' = allowlist \ {<<a, p>>}
  /\ UNCHANGED <<acl, onDisk, manifests, outdated, given>>

(* A manifest of the directory is written, or deleted. The registry has loaded  *)
(* the directory at start, and serves what it loaded.                           *)
EditManifest(a, sinks) ==
  /\ Edit
  /\ onDisk' = [b \in DOMAIN onDisk \cup {a} |-> IF b = a THEN sinks ELSE onDisk[b]]
  /\ UNCHANGED <<acl, allowlist, manifests, outdated, given>>

DeleteManifest(a) ==
  /\ Edit
  /\ a \in DOMAIN onDisk
  /\ onDisk' = [b \in DOMAIN onDisk \ {a} |-> onDisk[b]]
  /\ UNCHANGED <<acl, allowlist, manifests, outdated, given>>

(* build_action_registry: what is built in, overridden by the directory. The    *)
(* ACL keeps the sinks it had.                                                  *)
ReloadRegistry ==
  /\ Edit
  /\ manifests' = [a \in ActionIds |-> IF a \in DOMAIN onDisk THEN onDisk[a] ELSE DeclaredSinks[a]]
  /\ outdated' = outdated \cup {n \in Names : \E a \in acl[n].actions : manifests'[a] # manifests[a]}
  /\ UNCHANGED <<acl, allowlist, onDisk, given>>

--------------------------------------------------------------------------------
(* The rules. An input names the principal and the action, and says whether the *)
(* digest verified, which scopes the lease carries and the action requires, how *)
(* many calls remain and what about the target is sensitive or unresolved.      *)

(* _principal_has_tool: its own entry, the wildcard's when the entry inherits,  *)
(* and the wildcard's when there is no entry.                                   *)
PrincipalHasTool(p, a) ==
  \/ a \in acl[p].actions
  \/ acl[p].inherits /\ a \in acl[Wildcard].actions
  \/ ~acl[p].there /\ a \in acl[Wildcard].actions

(* _sink_allowed, and _principal_allowed_sinks for the decision.                *)
PrincipalAllowedSinks(p) ==
  IF ~acl[p].there THEN acl[Wildcard].sinks
  ELSE IF acl[p].inherits THEN acl[p].sinks \cup acl[Wildcard].sinks
  ELSE acl[p].sinks

DisallowedSinks(i) == manifests[i.action] \ PrincipalAllowedSinks(i.principal)

FsPathSensitive(i) == i.action \in FsActions /\ i.sensitive

NeedsApproval(i) ==
  HighRisk(i.action) \/ FsPathSensitive(i) \/ i.unresolvedPaths \/ i.unresolvedDomains

Denial(reason) == [allow |-> FALSE, reason |-> reason]
Permission(i, held) ==
  [allow |-> TRUE, held |-> held, sinks |-> PrincipalAllowedSinks(i.principal),
   secrets |-> "requested", egress |-> "requested", calls |-> i.calls - 1]

(* decision: the else-chain, the most restrictive rule first.                   *)
Decision(i) ==
  IF ~i.trusted THEN Denial("untrusted")
  ELSE IF ~PrincipalHasTool(i.principal, i.action) THEN Denial("acl")
  ELSE IF ~(i.required \cup {"tools:call"} \subseteq i.scopes) THEN Denial("scope")
  ELSE IF i.calls <= 0 THEN Denial("budget")
  ELSE IF DisallowedSinks(i) # {} THEN Denial("sink")
  ELSE Permission(i, NeedsApproval(i) /\ <<i.action, i.principal>> \notin allowlist)

(* PolicyClient::in_memory_default, the evaluator the crates' tests run on.     *)
InMemoryDefault(i) ==
  IF ~i.trusted \/ ~(i.required \subseteq i.scopes) THEN "denied"
  ELSE IF HighRisk(i.action) \/ i.unresolvedDomains \/ i.unresolvedPaths THEN "pending"
  ELSE "allow"

--------------------------------------------------------------------------------
(* The client. A reply is what arrived from the engine: nothing, something that *)
(* does not parse, or a result whose optional fields may be missing.            *)
OptionalFields == {"reason", "sinks", "secrets", "egress", "calls"}

OpaReply(i, fault) ==
  [error |-> CASE fault = "timeout" -> "timeout"
               [] fault \in {"refused", "status"} -> "unavailable"
               [] fault \in {"body", "malformed", "no_result"} -> "invalid"
               [] OTHER -> "none",
   result |-> Decision(i), missing |-> {fault} \cap OptionalFields]

Refused == [kind |-> "denied", sinks |-> {}, calls |-> 0]

(* interpret_decision: a held permission must spell out what it permits, or it  *)
(* is a refusal. A permission that is not held falls back to no calls, no       *)
(* sinks, and the secrets and egress that were requested.                       *)
InterpretDecision(i, reply) ==
  LET r == reply.result
  IN  CASE ~r.allow -> Refused
        [] r.allow /\ r.held /\ reply.missing \cap {"sinks", "secrets", "egress"} # {} -> Refused
        [] OTHER ->
             [kind |-> IF r.held THEN "pending" ELSE "allow",
              sinks |-> IF "sinks" \in reply.missing THEN {} ELSE r.sinks,
              calls |-> IF "calls" \notin reply.missing THEN r.calls
                        ELSE IF r.held THEN i.calls ELSE 0]

(* evaluate: every failure to get a decision refuses, with an error of its own. *)
Outcome(i, fault) ==
  LET reply == OpaReply(i, fault)
      out == IF reply.error # "none" THEN [Refused EXCEPT !.kind = reply.error]
             ELSE InterpretDecision(i, reply)
  IN  [input |-> i, fault |-> fault, kind |-> out.kind, sinks |-> out.sinks, calls |-> out.calls]

(* Evaluations leave the documents alone, so each is asked of an edit's result. *)
Evaluate(i, fault) ==
  /\ answer = NoAnswer
  /\ answer' = Outcome(i, fault)
  /\ UNCHANGED <<acl, allowlist, onDisk, manifests, outdated, given, edits>>

(* show_principal, `policy show` and `policy list`: the entry as it stands, and *)
(* nothing for a principal that lives on the wildcard.                          *)
ShowPrincipal(n) == IF acl[n].there THEN acl[n].actions ELSE {}
RunShow(n) == ShowPrincipal(n)
RunList == [n \in {m \in Names : acl[m].there} |-> Cardinality(acl[n].actions)]

RulesNext ==
  \/ \E n \in Names, as \in SUBSET ActionIds \ {{}}, tool \in {"api", "cli"} :
       Grant(n, as, tool) \/ Revoke(n, as, tool)
  \/ \E a \in ActionIds, p \in Principals : Allowlist(a, p)
  \/ \E a \in ActionIds : DeleteManifest(a) \/ \E sinks \in SUBSET Sinks : EditManifest(a, sinks)
  \/ ReloadRegistry
  \/ \E i \in Inputs, fault \in BackendFaults \cup {"none"} : Evaluate(i, fault)

RulesSpec == RulesInit /\ [][RulesNext]_rulesVars

--------------------------------------------------------------------------------
Answered == answer.kind # "none"
Permitted == answer.kind \in {"allow", "pending"}

(* Type correctness of the ACL document, the manifests and the last answer.     *)
RulesTypeOK ==
  /\ acl \in [Names -> AclEntry]
  /\ allowlist \subseteq ActionIds \X Principals
  /\ DOMAIN onDisk \subseteq ActionIds /\ onDisk \in [DOMAIN onDisk -> SUBSET Sinks]
  /\ manifests \in [ActionIds -> SUBSET Sinks]
  /\ outdated \subseteq Names /\ given \subseteq Names \X ActionIds
  /\ edits \in 0..MaxEdits
  /\ answer.kind \in PolicyDecision \cup PolicyError \cup {"none"}
  /\ answer # NoAnswer => answer.input \in PolicyInput

(* A permission, whatever the sequence of grants and revocations before it, is  *)
(* for a pair that an operator or the preset gave and nobody took back, to the  *)
(* principal itself or to the wildcard; the wildcard's reach only principals    *)
(* without an entry of their own and the ones init enrolled.                    *)
PermittedWasGiven ==
  (Answered /\ Permitted) =>
    LET p == answer.input.principal
        a == answer.input.action
    IN  \/ <<p, a>> \in given
        \/ <<Wildcard, a>> \in given /\ (~acl[p].there \/ acl[p].inherits)

(* A high-risk action, a sensitive path and an unresolved target run without an *)
(* approval only for a pair on the allowlist, and a spent budget, a missing     *)
(* scope or an untrusted digest never pass, allowlisted or not.                 *)
AllowlistOnlySkipsApproval ==
  (Answered /\ Permitted) =>
    LET i == answer.input
    IN  /\ i.trusted /\ i.calls > 0 /\ i.required \cup {"tools:call"} \subseteq i.scopes
        /\ answer.calls <= i.calls
        /\ (answer.kind = "allow" /\ NeedsApproval(i)) => <<i.action, i.principal>> \in allowlist

(* The sinks a decision permits were declared for some action the principal     *)
(* holds itself or through the wildcard, as long as the entries used were made  *)
(* from the manifests the registry serves; and a pending decision is never      *)
(* stored without the sinks it was narrowed to.                                 *)
SinksFollowActions ==
  (Answered /\ Permitted) =>
    LET p == answer.input.principal
    IN  /\ ({p, Wildcard} \cap outdated = {} =>
               answer.sinks \subseteq
                 DeriveSinks(manifests, {a \in ActionIds : PrincipalHasTool(p, a)}))
        /\ (answer.kind = "pending" => manifests[answer.input.action] \subseteq answer.sinks)

(* What was granted can be called: an action is denied for its sinks only when  *)
(* an entry it rests on was made from other manifests than the registry serves: *)
(* the registry was reloaded since, or the CLI derived the entry from a         *)
(* directory that differs from it or lacks one of the entry's actions.          *)
GrantedIsCallable ==
  \A i \in Inputs :
    (Decision(i).allow = FALSE /\ Decision(i).reason = "sink") =>
      {i.principal, Wildcard} \cap outdated # {}

(* A failed, late or unreadable reply never permits.                            *)
FailuresRefuse ==
  (Answered /\ OpaReply(answer.input, answer.fault).error # "none") => ~Permitted

(* The evaluator of the crates' tests is never stricter than the shipped rules  *)
(* on trust and scopes, and holds what they hold unless the pair is allowlisted.*)
TestEvaluatorAgrees ==
  \A i \in Inputs :
    /\ InMemoryDefault(i) = "denied" => ~Decision(i).allow
    /\ (InMemoryDefault(i) = "pending" /\ Decision(i).allow) =>
         Decision(i).held \/ <<i.action, i.principal>> \in allowlist

(* What an operator is shown for a principal it may call, and the compact list  *)
(* counts no more than its entry grants.                                        *)
ShownIsHeld ==
  \A p \in Principals :
    /\ \A a \in RunShow(p) : PrincipalHasTool(p, a) /\ <<p, a>> \in given
    /\ p \in DOMAIN RunList => RunList[p] = Cardinality({a \in ActionIds : <<p, a>> \in given})

(* The policy decides what its administration said: permissions were given and  *)
(* not taken back, the allowlist skips the approval and nothing else, the sinks *)
(* follow the actions, grants can be used and failures refuse.                  *)
RulesSafe ==
  /\ RulesTypeOK
  /\ PermittedWasGiven
  /\ AllowlistOnlySkipsApproval
  /\ SinksFollowActions
  /\ GrantedIsCallable
  /\ FailuresRefuse
  /\ ShownIsHeld
  /\ TestEvaluatorAgrees

(* Revoking an action takes it from the principal and gives it nothing else:    *)
(* "Revoke actions from a principal. Removes specified actions".                *)
RevokeOnlyRemoves ==
  [][\A p \in Principals, as \in SUBSET ActionIds \ {{}}, tool \in {"api", "cli"} :
       Revoke(p, as, tool) =>
         \A a \in ActionIds : PrincipalHasTool(p, a)' => PrincipalHasTool(p, a)]_rulesVars

(* Granting an action takes nothing away: "Grant actions to a principal".       *)
GrantOnlyAdds ==
  [][\A p \in Principals, as \in SUBSET ActionIds \ {{}}, tool \in {"api", "cli"} :
       Grant(p, as, tool) =>
         \A a \in ActionIds : PrincipalHasTool(p, a) => PrincipalHasTool(p, a)']_rulesVars

(* What the CLI says of a grant: it "computes `allowed_sinks` automatically     *)
(* from `declared_side_effects`", so the entry covers its actions. The code     *)
(* breaks it: an action the directory lacks loses its sinks, in silence.        *)
GrantCoversActions ==
  [][\A n \in Names, as \in SUBSET ActionIds \ {{}}, tool \in {"api", "cli"} :
       Grant(n, as, tool) =>
         \A a \in acl'[n].actions : manifests[a] \subseteq acl'[n].sinks]_rulesVars
================================================================================
