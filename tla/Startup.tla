------------------------------- MODULE Startup -------------------------------
(***************************************************************************)
(* Configuration and start-up: where the configuration is found, the        *)
(* production validations with the relaxation flag of each, the steps of    *)
(* init_subsystems and build_state in their order, the listeners, the       *)
(* pre-flight check (`latchgate doctor`), and the signing keys and the key  *)
(* history they leave for the receipts, over several lives of the gate.     *)
(* Between lives the operator edits the configuration, rotates the receipt  *)
(* key by removing its file, and the disk may garble the history file.      *)
(***************************************************************************)
EXTENDS Naturals, Sequences, FiniteSets

CONSTANTS
    Confs,      \* configuration files an operator may write
    DefaultConf,\* the compiled defaults
    HostFaults, \* what may break on the host, a subset of HostParts
    EditPlaces, \* discovery places an operator may write a file in
    EnvKey,     \* "absent", "bound" or "unbound": LATCHGATE_OPERATOR_API_KEY
    MaxLives,   \* bound: starts of the gate
    MaxSigningKeys,    \* bound: receipt keys ever generated
    MaxConfEdits    \* bound: edits of the operator, faults of the disk

Protections == {"identity", "signing", "operator", "schema", "storage", "webhooks",
                "egress", "acl"}
ConfType == [relaxed : SUBSET Protections, cred : {"none", "unbound", "bound"},
             idp : {"none", "open", "empty", "mapped"}, paths : SUBSET {"receipt", "grant", "jwks"},
             schema : {"deny", "warn"}, store : {"none", "file", "cloud"},
             hooks : {"none", "async", "outbox", "invalid"},
             http : BOOLEAN, admin : BOOLEAN, expose : BOOLEAN, tls : 0..3,
             redis : {"none", "url", "bad"}, wildcard : {"none", "low", "high"},
             opa : BOOLEAN, proxy : {"none", "addr", "name"}, sops : BOOLEAN,
             secrets : {"none", "optional", "required"}, agent : BOOLEAN,
             sandbox : {"strict", "degraded", "disabled"}]
\* What the host provides besides the configuration: Redis, OPA and the proxy
\* answering, the manifests parsing, the providers directory, the .wasm files
\* there, the policy file and its data, a path through the ACL for every
\* mapped principal, the ledger's database, the sops binary, seccomp, bwrap,
\* the file system root, and owner-only modes on the key files.
HostParts == {"redis", "opa", "proxy", "manifests", "providers", "modules", "rego", "data",
              "principals", "ledger", "sops", "seccomp", "bwrap", "fs_root", "key_mode"}

ASSUME StartupAssumption ==
    /\ Confs \subseteq ConfType /\ DefaultConf \in ConfType
    /\ HostFaults \subseteq HostParts
    /\ EditPlaces \subseteq {"explicit", "workspace", "project", "user"}
    /\ EnvKey \in {"absent", "bound", "unbound"}
    /\ MaxLives \in Nat /\ MaxSigningKeys \in Nat /\ MaxConfEdits \in Nat

VARIABLES
    files,    \* discovery place -> the configuration there, or DefaultConf if none
    present,  \* discovery places that have a file
    keyfile,  \* receipt key on disk, 0 if none
    jwks,     \* the history file: its keys, and whether it can be read
    life,     \* the gate process
    made,     \* receipt keys generated so far
    signed,   \* keys that signed receipts while a history was configured
    excused,  \* keys a fault or a failed write took from the history (history)
    checked,  \* the doctor's last verdict
    broken,   \* parts of the host that do not work
    lives, edits

startupVars == <<files, present, keyfile, jwks, life, made, signed, excused, checked,
                 broken, lives, edits>>

(***************************************************************************)
(* Finding the configuration                                               *)
(***************************************************************************)
Places == {"explicit", "workspace", "project", "user"}
\* Config::load: the first place that has a file.
LoadedFrom ==
    IF "explicit" \in present THEN "explicit"
    ELSE IF "workspace" \in present THEN "workspace"
    ELSE IF "project" \in present THEN "project"
    ELSE IF "user" \in present THEN "user" ELSE "defaults"
\* apply_env_overrides_from: the environment adds the operator "platform".
ApplyEnv(c) ==
    [c EXCEPT !.cred = CASE EnvKey = "absent" -> c.cred
                         [] EnvKey = "unbound" -> "unbound"
                         [] EnvKey = "bound" -> IF c.cred = "unbound" THEN "unbound" ELSE "bound"]
Loaded == ApplyEnv(IF LoadedFrom = "defaults" THEN DefaultConf ELSE files[LoadedFrom])

(***************************************************************************)
(* The validations                                                         *)
(***************************************************************************)
Relaxed(c, p) == p \in c.relaxed
DevMode(c) == c.relaxed # {}
AdminTls(c) == c.tls = 3
ValidateListen(c) ==
    /\ c.http => c.expose
    /\ c.tls \in {0, 3}
    /\ c.admin => c.expose \/ AdminTls(c)
\* A variant with a fault: any relaxed protection waives the operator's credential.
AnyFlagWaives(c) == DevMode(c) \/ c.cred = "bound"
ValidateOperatorAuth(c) == Relaxed(c, "operator") \/ c.cred = "bound"
ValidateIdentity(c) == Relaxed(c, "identity") \/ c.idp = "mapped"
ValidateSigning(c) == Relaxed(c, "signing") \/ c.paths = {"receipt", "grant", "jwks"}
ValidateSchema(c) == Relaxed(c, "schema") \/ c.schema = "deny"
ValidateStorage(c) == Relaxed(c, "storage") \/ c.store # "file"
ValidateWebhookMode(c) == Relaxed(c, "webhooks") \/ c.hooks # "async"
ValidateProductionSecurity(c) ==
    /\ ValidateListen(c) /\ ValidateOperatorAuth(c) /\ ValidateIdentity(c)
    /\ ValidateSigning(c) /\ ValidateSchema(c) /\ ValidateStorage(c)
    /\ ValidateWebhookMode(c)
\* validate_security_constraints: the proxy's absence is only a warning.
EgressCoverage(c) == IF Relaxed(c, "egress") \/ c.proxy # "none" THEN "covered" ELSE "kernel_only"
ValidateWildcard(c) == Relaxed(c, "acl") \/ c.wildcard # "high"
\* init_state_backends opens a client for the URL and connects to nothing;
\* without a URL it opens the database beside the ledger.
InitStateBackends(c) == IF c.redis = "none" THEN "ledger" \notin broken ELSE c.redis # "bad"
\* init_registry: under any relaxed flag a malformed manifest is skipped.
InitRegistry(c) == DevMode(c) \/ "manifests" \notin broken
\* load_policy_data, init_policy: unreadable data is a policy without an ACL.
InitPolicy(c) == IF c.opa THEN "http" ELSE IF "data" \in broken THEN "deny_all" ELSE "embedded"
InitLedger(c) == "ledger" \notin broken
\* init_wasm_runtime: a damaged module in the directory is refused.
InitWasmRuntime(c) == "modules" \notin broken
InitFsRoot(c) == "fs_root" \notin broken

\* readyz, on a serving gate.
CheckProxyReachable(c) == c.proxy = "addr" /\ "proxy" \notin broken
Readyz(c) ==
    LET core == /\ c.redis = "url" => "redis" \notin broken
                /\ c.opa => "opa" \notin broken
                /\ "ledger" \notin broken
    IN IF ~core THEN "not_ready"
       ELSE IF c.proxy = "none" \/ CheckProxyReachable(c) THEN "ready" ELSE "degraded"

(***************************************************************************)
(* The listeners, and the one an operator's program talks to               *)
(***************************************************************************)
\* serve, spawn_tcp_listeners, spawn_mtls_listener: where the admin router is.
AdminListeners(c) ==
    {"admin_uds"}
    \cup (IF c.expose /\ c.http /\ ~AdminTls(c)
          THEN {IF c.admin THEN "admin_http" ELSE "localhost:3001"} ELSE {})
    \cup (IF AdminTls(c) /\ c.admin THEN {"admin_tls"} ELSE {})
\* Transport::from_config.
ClientTransport(c) ==
    IF c.expose /\ c.admin THEN "admin_http"
    ELSE IF c.expose /\ c.http THEN "client_http"
    ELSE "admin_uds"

(***************************************************************************)
(* The doctor                                                              *)
(***************************************************************************)
CheckOperatorCredentials(c) ==
    IF c.cred = "bound" THEN "ok" ELSE IF DevMode(c) THEN "warn" ELSE "error"
CheckSigningKeys(c) ==
    IF {"receipt", "grant"} \subseteq c.paths THEN "ok"
    ELSE IF DevMode(c) THEN "skip" ELSE "error"
CheckWildcardAcl(c) ==
    IF c.wildcard = "none" THEN "ok" ELSE IF DevMode(c) THEN "warn" ELSE "error"
\* The checks that report by the posture: an error becomes dev under any flag.
ByPosture(c, fine, dev) == IF fine THEN "ok" ELSE IF DevMode(c) THEN dev ELSE "error"
CheckRedis(c) == IF c.redis = "none" THEN "skip"
                 ELSE IF c.redis = "url" /\ "redis" \notin broken THEN "ok" ELSE "error"
CheckOpa(c) == IF c.opa /\ "opa" \in broken THEN "error" ELSE "ok"
\* The address must be an IP and a port: a host name is an error.
CheckEgressProxy(c) ==
    IF c.proxy = "none" THEN IF DevMode(c) THEN "skip" ELSE "warn"
    ELSE IF CheckProxyReachable(c) THEN "ok" ELSE "error"
CheckPolicyFiles == IF "rego" \in broken THEN "error" ELSE "ok"
CheckPolicyAcl == IF "data" \in broken THEN "error" ELSE "ok"
CheckPrincipalReachability(c) ==
    IF c.idp # "mapped" \/ "data" \in broken THEN "skip"
    ELSE IF "principals" \in broken THEN "error" ELSE "ok"
CheckManifestsDir == IF "manifests" \in broken THEN "error" ELSE "ok"
CheckManifestOverrides == IF "manifests" \in broken THEN "skip" ELSE "ok"
CheckProvidersDir(c) ==
    IF "providers" \notin broken THEN "ok" ELSE IF c.sandbox = "strict" THEN "error" ELSE "warn"
CheckProviderModules == "ok"       \* the embedded ones are counted with the rest
CheckManifestDigests(c) ==
    IF "providers" \in broken THEN "skip" ELSE ByPosture(c, "modules" \notin broken, "warn")
CheckSops(c) ==
    IF ~c.sops THEN IF c.secrets = "none" THEN "ok" ELSE "warn"
    ELSE IF "sops" \in broken THEN "error" ELSE "ok"
CheckSecretsCoverage(c) ==
    IF DevMode(c) THEN "skip"
    ELSE IF c.sops \/ c.secrets = "none" THEN "ok"
    ELSE IF c.secrets = "required" THEN "error" ELSE "warn"
CheckWebhooks(c) == IF c.hooks = "invalid" THEN "error" ELSE "ok"
CheckSeccomp(c) ==
    IF "seccomp" \notin broken THEN "ok" ELSE IF c.sandbox = "disabled" THEN "warn" ELSE "error"
CheckAgentSandbox(c) ==
    IF ~c.agent THEN "skip" ELSE IF "bwrap" \in broken THEN "error" ELSE "ok"
CheckLedger == IF "ledger" \in broken THEN "error" ELSE "ok"
CollectSections(c) ==
    {CheckOperatorCredentials(c), CheckSigningKeys(c),
     CheckPolicyFiles, CheckPolicyAcl, CheckWildcardAcl(c), CheckPrincipalReachability(c),
     CheckManifestsDir, CheckManifestOverrides, CheckProvidersDir(c), CheckProviderModules,
     CheckManifestDigests(c), CheckRedis(c), CheckOpa(c), CheckEgressProxy(c), CheckSops(c),
     CheckSecretsCoverage(c), CheckWebhooks(c), CheckSeccomp(c), CheckAgentSandbox(c),
     CheckLedger}
\* run_preflight: the checks `latchgate up` runs before it starts the gate.
RunPreflight(c) ==
    "error" \notin {CheckManifestsDir, CheckProvidersDir(c), CheckProviderModules,
                    CheckPrincipalReachability(c), CheckRedis(c), CheckOpa(c),
                    CheckManifestDigests(c)}
DoctorVerdict(c) ==
    IF "error" \in CollectSections(c) THEN "errors"
    ELSE IF "warn" \in CollectSections(c) THEN "warnings" ELSE "ready"

(***************************************************************************)
(* The lives of the gate                                                   *)
(***************************************************************************)
Off == [phase |-> "off", conf |-> DefaultConf, signer |-> 0, store |-> {}, up |-> FALSE,
        host |-> {}, egress |-> "none", policy |-> "none"]
StartupInit ==
    /\ files \in [Places -> {DefaultConf}] /\ present = {}
    /\ keyfile = 0
    /\ jwks = [keys |-> {}, readable |-> TRUE, there |-> FALSE]
    /\ life = Off /\ made = 0 /\ signed = {} /\ excused = {}
    /\ checked = [conf |-> DefaultConf, verdict |-> "none", broken |-> {}]
    /\ broken = {}
    /\ lives = 0 /\ edits = 0

KeepKeys == UNCHANGED <<keyfile, jwks, made, signed, excused>>
KeepFiles == UNCHANGED <<files, present, broken, edits>>
RefuseStart == life' = [life EXCEPT !.phase = "refused"]
AdvanceStart(next) == life' = [life EXCEPT !.phase = next]
\* `latchgate serve`, or `latchgate up`, which runs the pre-flight checks first.
Start(up) ==
    /\ life.phase = "off" /\ lives < MaxLives
    /\ up => RunPreflight(Loaded)
    /\ lives' = lives + 1
    /\ life' = [Off EXCEPT !.phase = "validate", !.conf = Loaded, !.up = up, !.host = broken]
    /\ KeepKeys /\ KeepFiles /\ UNCHANGED checked
Validate ==
    /\ life.phase = "validate"
    /\ IF ValidateProductionSecurity(life.conf)
       THEN life' = [life EXCEPT !.phase = "webhooks", !.egress = EgressCoverage(life.conf)]
       ELSE RefuseStart
    /\ KeepKeys /\ KeepFiles /\ UNCHANGED <<checked, lives>>
StartWebhooks ==
    /\ life.phase = "webhooks"
    /\ IF life.conf.hooks # "invalid" THEN AdvanceStart("state") ELSE RefuseStart
    /\ KeepKeys /\ KeepFiles /\ UNCHANGED <<checked, lives>>
BuildState ==
    /\ life.phase = "state"
    /\ LET c == life.conf IN
       IF /\ InitStateBackends(c) /\ InitRegistry(c) /\ ValidateWildcard(c)
          /\ InitLedger(c) /\ InitWasmRuntime(c)
       THEN life' = [life EXCEPT !.phase = "keys", !.policy = InitPolicy(c)]
       ELSE RefuseStart
    /\ KeepKeys /\ KeepFiles /\ UNCHANGED <<checked, lives>>
\* init_crypto, first half: load the receipt key, or make and store one.
LoadSeed == "key_mode" \notin broken       \* load_ed25519_seed: owner-only, 32 bytes
InitSigner ==
    /\ life.phase = "keys"
    /\ LET c == life.conf
           fresh == made + 1
           use(k) == life' = [life EXCEPT !.phase = "jwks", !.signer = k]
       IN \/ /\ "receipt" \in c.paths /\ keyfile # 0
             /\ IF LoadSeed THEN use(keyfile) ELSE RefuseStart
             /\ UNCHANGED <<keyfile, made>>
          \/ /\ "receipt" \in c.paths /\ keyfile = 0 /\ made < MaxSigningKeys
             /\ made' = fresh /\ keyfile' = fresh /\ use(fresh)
          \/ /\ "receipt" \notin c.paths /\ DevMode(c) /\ made < MaxSigningKeys
             /\ made' = fresh /\ use(fresh)
             /\ UNCHANGED keyfile
    /\ KeepFiles /\ UNCHANGED <<jwks, signed, excused, checked, lives>>
\* load_or_empty: a file that cannot be read is an empty history.
LoadOrEmpty == IF jwks.there /\ jwks.readable THEN jwks.keys ELSE {}
\* ensure_contains: the current key is appended and the file rewritten; a
\* failed write is a warning.
EnsureContains(known, wrote) ==
    LET all == known \cup {life.signer} IN
    /\ life' = [life EXCEPT !.phase = "open", !.store = all]
    /\ IF life.signer \in known THEN UNCHANGED <<jwks, excused>>
       ELSE IF wrote
       THEN /\ jwks' = [keys |-> all, readable |-> TRUE, there |-> TRUE]
            /\ UNCHANGED excused
       ELSE excused' = excused \cup {life.signer} /\ UNCHANGED jwks
InitKeyStore(wrote) ==
    /\ life.phase = "jwks"
    /\ IF "jwks" \in life.conf.paths THEN EnsureContains(LoadOrEmpty, wrote)
       ELSE /\ life' = [life EXCEPT !.phase = "open", !.store = {life.signer}]
            /\ UNCHANGED <<jwks, excused>>
    /\ KeepFiles /\ UNCHANGED <<keyfile, made, signed, checked, lives>>
\* init_fs_root, the webhook outbox beside the ledger, the listeners.
OpenAndServe ==
    /\ life.phase = "open"
    /\ IF InitFsRoot(life.conf) /\ "ledger" \notin broken THEN AdvanceStart("serving") ELSE RefuseStart
    /\ KeepKeys /\ KeepFiles /\ UNCHANGED <<checked, lives>>
\* A receipt is signed.
SignReceipt ==
    /\ life.phase = "serving"
    /\ signed' = IF {"receipt", "jwks"} \subseteq life.conf.paths
                 THEN signed \cup {life.signer} ELSE signed
    /\ KeepFiles /\ UNCHANGED <<keyfile, jwks, made, excused, life, checked, lives>>
\* The process ends, at any step of its life.
Stop ==
    /\ life.phase # "off"
    /\ life' = Off
    /\ KeepKeys /\ KeepFiles /\ UNCHANGED <<checked, lives>>

Doctor ==
    /\ checked' = [conf |-> Loaded, verdict |-> DoctorVerdict(Loaded), broken |-> broken]
    /\ KeepKeys /\ KeepFiles /\ UNCHANGED <<life, lives>>
EditConf(p, c) ==
    /\ edits < MaxConfEdits
    /\ edits' = edits + 1
    /\ files' = [files EXCEPT ![p] = c] /\ present' = present \cup {p}
    /\ KeepKeys /\ UNCHANGED <<life, checked, broken, lives>>
Break(part) ==
    /\ edits < MaxConfEdits /\ part \notin broken
    /\ edits' = edits + 1 /\ broken' = broken \cup {part}
    /\ KeepKeys /\ UNCHANGED <<files, present, life, checked, lives>>
\* The operator rotates the receipt key: the old file is removed.
Rotate ==
    /\ edits < MaxConfEdits /\ keyfile # 0
    /\ edits' = edits + 1 /\ keyfile' = 0
    /\ UNCHANGED <<files, present, jwks, made, signed, excused, life, checked, broken, lives>>
\* The history file becomes unreadable (a bad block, a wrong owner).
Garble ==
    /\ edits < MaxConfEdits /\ jwks.there /\ jwks.readable
    /\ edits' = edits + 1
    /\ jwks' = [jwks EXCEPT !.readable = FALSE]
    /\ excused' = excused \cup jwks.keys
    /\ UNCHANGED <<files, present, keyfile, made, signed, life, checked, broken, lives>>

StartupNext ==
    \/ \E up \in BOOLEAN : Start(up)
    \/ Validate \/ StartWebhooks \/ BuildState \/ InitSigner
    \/ \E w \in BOOLEAN : InitKeyStore(w)
    \/ OpenAndServe \/ SignReceipt \/ Stop \/ Doctor \/ Rotate \/ Garble
    \/ \E part \in HostFaults : Break(part)
    \/ \E p \in EditPlaces, c \in Confs : EditConf(p, c)
StartupSpec == StartupInit /\ [][StartupNext]_startupVars

-----------------------------------------------------------------------------
\* The variables keep their types.
StartupTypeOK ==
    /\ present \subseteq Places /\ keyfile \in 0..MaxSigningKeys /\ made \in 0..MaxSigningKeys
    /\ jwks.keys \subseteq 1..MaxSigningKeys /\ signed \subseteq 1..MaxSigningKeys
    /\ excused \subseteq 1..MaxSigningKeys /\ life.store \subseteq 1..MaxSigningKeys
    /\ broken \subseteq HostParts /\ lives \in 0..MaxLives /\ edits \in 0..MaxConfEdits

\* "There is no global bypass": whatever protections are relaxed, a gate
\* that serves meets every requirement whose own flag is not set, and no
\* plain TCP listener runs without the opt-in.
NoGlobalBypass ==
    life.phase = "serving" =>
        LET c == life.conf IN
        /\ "operator" \notin c.relaxed => c.cred = "bound"
        /\ "identity" \notin c.relaxed => c.idp = "mapped"
        /\ "signing" \notin c.relaxed => {"receipt", "jwks"} \subseteq c.paths
        /\ "schema" \notin c.relaxed => c.schema = "deny"
        /\ "storage" \notin c.relaxed => c.store # "file"
        /\ "webhooks" \notin c.relaxed => c.hooks # "async"
        /\ "acl" \notin c.relaxed => c.wildcard # "high"
        /\ AdminListeners(c) \cap {"admin_http", "localhost:3001"} # {} => c.expose
\* A receipt signed under a configured history can be verified by every later
\* life that reads that history: the key store is append-only across key
\* rotations and crashes, but for keys lost with the file itself or to a
\* failed write.
HistoryKept ==
    life.phase = "serving" /\ "jwks" \in life.conf.paths
        => signed \ excused \subseteq life.store
\* The pre-flight check and the readiness probe agree: a gate that serves a
\* configuration the doctor found no fault in, on a host that has not changed
\* since, answers that it is ready, has a policy that can allow something and,
\* with nothing relaxed, a proxy for its egress.
DoctorAgreesWithProbe ==
    /\ life.phase = "serving" /\ checked.verdict = "ready"
    /\ checked.conf = life.conf /\ checked.broken = broken
    => /\ Readyz(life.conf) = "ready" /\ life.policy # "deny_all"
       /\ DevMode(life.conf) \/ life.egress = "covered"
\* A gate `latchgate up` brought up is usable at once: unless the host changed
\* since, its probe never answers "not_ready".
UpIsUsable ==
    life.phase = "serving" /\ life.up /\ life.host = broken => Readyz(life.conf) # "not_ready"
\* Start-up as a whole.
StartupSafe == NoGlobalBypass /\ HistoryKept /\ DoctorAgreesWithProbe /\ UpIsUsable

\* "Gate is ready to start." (doctor/mod.rs:178): the configuration the
\* doctor called ready is one the gate does not refuse.
ReadyMeansStarts ==
    ~(/\ life.phase = "refused" /\ checked.verdict = "ready"
      /\ checked.conf = life.conf /\ checked.broken = broken)
\* "A conscious defense-in-depth reduction": a configured proxy that answers
\* leaves the gate ready (deploy/squid/README.md:58 configures it by name).
ProxyByNameIsReady ==
    /\ life.phase = "serving" /\ broken = {} /\ life.conf.proxy = "name"
    => Readyz(life.conf) = "ready"
\* Operator programs connect "to the **admin** socket" (transport.rs:99):
\* to a listener that serves the admin routes.
OperatorReachesAdmin ==
    life.phase = "serving" => ClientTransport(life.conf) \in AdminListeners(life.conf)
\* "Append-only store" (receipt_signer.rs): no key ever leaves the history.
HistoryOnlyGrows == [][jwks.keys \subseteq jwks'.keys]_startupVars
=============================================================================
