---------------------------- MODULE ProjectFiles ----------------------------
(***************************************************************************)
(* The files of an installation and the commands that edit them            *)
(* (crates/latchgate-cli): init, the config commands, the operator's       *)
(* keys and the encrypted secrets, each from the command line or from the  *)
(* TUI's setup screens.  Nothing locks the files, and a command may die    *)
(* between any two of its writes.                                          *)
(*                                                                         *)
(* A key stands for itself, its PEM and its thumbprint.  Principals,       *)
(* webhooks and single settings are told apart only by what the production *)
(* checks miss, or refuse, in the config that has them.                    *)
(***************************************************************************)
EXTENDS Integers, FiniteSets

CONSTANTS
    Commands,    \* processes that run commands
    Names,       \* operators
    Default,     \* the operator that init creates
    Secrets,     \* names of secrets
    MaxKeys,     \* bound: keys that are generated
    MaxCommands  \* bound: commands that are started

ASSUME FilesAssumption == Default \in Names /\ {MaxKeys, MaxCommands} \subseteq Nat

VARIABLES
    config,    \* latchgate.toml
    install,   \* the install directory: none, begun, or with all of its files
    pem,       \* per UI and operator: the key in the operator's PEM file
    vault,     \* sops-age.key and secrets.enc.yaml
    command,   \* per process: the command in hand
    keysMade, started,
    kept,      \* secrets whose setting was acknowledged
    enrolled,  \* operators whose adding was acknowledged, until they are removed
    past       \* what has happened that the state of the files depends on

filesVars == <<config, install, pem, vault, command, keysMade, started, kept, enrolled, past>>

Ui == {"cli", "tui"}
Key == 0..MaxKeys        \* 0: none

\* What the production checks may find amiss apart from the operators: a signing path that
\* is missing, no identity, webhooks without an outbox.
Faults == {"signing", "identity", "webhook"}

\* A config: the operators' keys, the links to the secrets, what is amiss with it.
Doc == [exists : BOOLEAN, ops : [Names -> Key], links : SUBSET {"vault", "key"}, amiss : SUBSET Faults]

NoOps == [n \in Names |-> 0]
NoDoc == [exists |-> FALSE, ops |-> NoOps, links |-> {}, amiss |-> {}]

\* What a config file that is truncated reads as: valid TOML, but not a valid config.
EmptyDoc == [NoDoc EXCEPT !.exists = TRUE, !.amiss = {"signing", "identity"}]

\* The encrypted file: absent, plain, or encrypted for a key.
Vault == [key : Key, exists : BOOLEAN, for : Key, has : SUBSET Secrets]

Edits == [kind : {"add", "remove"}, name : Names, links : {{}}]
         \cup [kind : {"set"}, name : {Default}, links : SUBSET {"vault", "key"}]
         \cup [kind : {"sign", "unset", "principal", "unprincipal", "webhook", "unhook"}, name : {Default}, links : {{}}]

Idle == [at |-> "idle", ui |-> "cli", edit |-> [kind |-> "principal", name |-> Default, links |-> {}],
         key |-> 0, doc |-> NoDoc, has |-> {}, secret |-> {}, then |-> {}]

FilesTypeOK ==
    /\ config \in Doc /\ install \in {"none", "begun", "whole"}
    /\ pem \in [Ui -> [Names -> Key]] /\ vault \in Vault
    /\ keysMade \in 0..MaxKeys /\ started \in 0..MaxCommands
    /\ kept \subseteq Secrets /\ enrolled \subseteq Names
    /\ \A c \in Commands :
          /\ command[c].at \in {"idle", "init", "files", "policies", "config", "pem", "read", "edit", "write",
                                "plain", "encrypt", "decrypt", "persist"}
          /\ command[c].edit \in Edits /\ command[c].key \in Key /\ command[c].doc \in Doc
    /\ past \subseteq {"overlap", "force", "torn", "passed", "unchecked", "rewritten"}

FilesInit ==
    /\ config = NoDoc /\ install = "none"
    /\ pem = [u \in Ui |-> NoOps]
    /\ vault = [key |-> 0, exists |-> FALSE, for |-> 0, has |-> {}]
    /\ command = [c \in Commands |-> Idle]
    /\ keysMade = 0 /\ started = 0 /\ kept = {} /\ enrolled = {} /\ past = {}

--------------------------------------------------------------------------------
\* A command begins; with another one under way the two overlap.
Begin(c, state, notes) ==
    /\ command[c].at = "idle" /\ started < MaxCommands
    /\ started' = started + 1
    /\ command' = [command EXCEPT ![c] = state]
    /\ past' = past \cup notes
                    \cup (IF \E d \in Commands : command[d].at # "idle" THEN {"overlap"} ELSE {})

End(c) == command' = [command EXCEPT ![c] = Idle]

GoOn(c, state) == command' = [command EXCEPT ![c] = state]

NewKey == keysMade + 1 \in Key /\ keysMade' = keysMade + 1

\* execute_plan, up to its first write.
StartInit(c, ui, force) ==
    /\ ~force => install = "none" /\ ~config.exists
    /\ NewKey
    /\ Begin(c, [Idle EXCEPT !.at = "init", !.ui = ui, !.key = keysMade + 1],
             IF force THEN {"force"} ELSE {})
    /\ UNCHANGED <<config, install, pem, vault, kept, enrolled>>

InitPem(c) ==
    /\ command[c].at = "init"
    /\ pem' = [pem EXCEPT !["cli"][Default] = command[c].key]
    /\ install' = IF install = "none" THEN "begun" ELSE install
    /\ GoOn(c, [command[c] EXCEPT !.at = "files"])
    /\ UNCHANGED <<config, vault, keysMade, started, kept, enrolled, past>>

\* Signing keys and manifests; any of them may fail.
InitFiles(c) ==
    /\ command[c].at = "files"
    /\ \/ GoOn(c, [command[c] EXCEPT !.at = "policies"])
       \/ End(c)
    /\ UNCHANGED <<config, install, pem, vault, keysMade, started, kept, enrolled, past>>

\* A variant with a fault: a failure of generate_policies is a warning.
PoliciesAreBestEffort(c) ==
    /\ command[c].at = "policies"
    /\ install' = "whole" \/ UNCHANGED install
    /\ GoOn(c, [command[c] EXCEPT !.at = "config"])
    /\ UNCHANGED <<config, pem, vault, keysMade, started, kept, enrolled, past>>

\* generate_policies reads the manifests that were extracted; then the directories.
InitPolicies(c) ==
    /\ command[c].at = "policies"
    /\ \/ install' = "whole" /\ GoOn(c, [command[c] EXCEPT !.at = "config"])
       \/ UNCHANGED install /\ End(c)
    /\ UNCHANGED <<config, pem, vault, keysMade, started, kept, enrolled, past>>

\* build_config_toml: one operator, no links.  It never writes the JWKS path that validation
\* asks for, nor the key paths unless persistent keys were chosen, nor a principal for
\* the provider "none".
InitialDoc(key, anonymous) ==
    [exists |-> TRUE, ops |-> [NoOps EXCEPT ![Default] = key], links |-> {},
     amiss |-> {"signing"} \cup (IF anonymous THEN {"identity"} ELSE {})]

InitConfig(c) ==
    /\ command[c].at = "config"
    /\ \E anonymous \in BOOLEAN : config' = InitialDoc(command[c].key, anonymous)
    /\ enrolled' = {Default}
    /\ past' = IF config.exists THEN past \cup {"rewritten"} ELSE past
    /\ End(c)
    /\ UNCHANGED <<install, pem, vault, keysMade, started, kept>>

--------------------------------------------------------------------------------
\* A command that edits the config.  One that adds an operator has generated a key;
\* from the command line its PEM comes first, in the TUI the config is read first.
StartEdit(c, ui, edit) ==
    /\ edit.kind = "add" => NewKey
    /\ edit.kind # "add" => UNCHANGED keysMade
    /\ (edit.kind = "add" /\ ui = "cli") => pem[ui][edit.name] = 0
    /\ Begin(c, [Idle EXCEPT !.at = IF edit.kind = "add" /\ ui = "cli" THEN "pem" ELSE "read",
                             !.ui = ui, !.edit = edit,
                             !.key = IF edit.kind = "add" THEN keysMade + 1 ELSE 0], {})
    /\ UNCHANGED <<config, install, pem, vault, kept, enrolled>>

WritePem(c) ==
    /\ command[c].at = "pem"
    /\ pem' = [pem EXCEPT ![command[c].ui][command[c].edit.name] = command[c].key]
    /\ GoOn(c, [command[c] EXCEPT !.at = IF command[c].ui = "cli" THEN "read" ELSE "edit"])
    /\ UNCHANGED <<config, install, vault, keysMade, started, kept, enrolled, past>>

\* The edits.  A setting may be the last signing path that was missing, or the first to be
\* taken away; a principal brings the identity provider that validation asks for, and the
\* last one takes it away; a webhook that is added may be one it refuses.

AddOperator(doc, n, key) == [doc EXCEPT !.ops[n] = key]
RemoveOperator(doc, n) == [doc EXCEPT !.ops[n] = 0]
SetValue(doc, links) == [doc EXCEPT !.links = @ \cup links]
SetSigningPath(doc) == [doc EXCEPT !.amiss = @ \ {"signing"}]
Unset(doc) == [doc EXCEPT !.amiss = @ \cup {"signing"}]
AddPrincipal(doc) == [doc EXCEPT !.amiss = @ \ {"identity"}]
RemovePrincipal(doc) == [doc EXCEPT !.amiss = @ \cup {"identity"}]
AddWebhook(doc) == [doc EXCEPT !.amiss = @ \cup {"webhook"}]
RemoveWebhook(doc) == [doc EXCEPT !.amiss = @ \ {"webhook"}]

Edited(doc, edit, key) ==
    CASE edit.kind = "add" -> AddOperator(doc, edit.name, key)
      [] edit.kind = "remove" -> RemoveOperator(doc, edit.name)
      [] edit.kind = "set" -> SetValue(doc, edit.links)
      [] edit.kind = "sign" -> SetSigningPath(doc)
      [] edit.kind = "unset" -> Unset(doc)
      [] edit.kind = "principal" -> AddPrincipal(doc)
      [] edit.kind = "unprincipal" -> RemovePrincipal(doc)
      [] edit.kind = "webhook" -> AddWebhook(doc)
      [] edit.kind = "unhook" -> RemoveWebhook(doc)

Editable(doc, edit) ==
    /\ doc.exists
    /\ edit.kind = "add" => doc.ops[edit.name] = 0
    /\ edit.kind = "remove" => doc.ops[edit.name] # 0

\* An edit that fails from the command line takes back the PEM written for it.
Fail(c) ==
    /\ pem' = IF command[c].ui = "cli" /\ command[c].edit.kind = "add"
              THEN [pem EXCEPT !["cli"][command[c].edit.name] = 0] ELSE pem
    /\ End(c)

ReadConfig(c) ==
    /\ command[c].at = "read"
    /\ LET u == command[c].ui
           e == command[c].edit IN
       IF ~Editable(config, e) \/ (u = "tui" /\ e.kind = "add" /\ pem[u][e.name] # 0)
       THEN Fail(c)
       ELSE /\ GoOn(c, [command[c] EXCEPT !.doc = Edited(config, e, command[c].key),
                          !.at = IF u = "tui" /\ e.kind = "add" THEN "pem" ELSE "edit"])
            /\ UNCHANGED pem
    /\ UNCHANGED <<config, install, vault, keysMade, started, kept, enrolled, past>>

\* validate_toml_as_config: nothing is amiss, and there is an operator.
Passes(doc) == doc.amiss = {} /\ \E n \in Names : doc.ops[n] # 0

\* The operators that are acknowledged once the edit of command c is on the disk.
Acknowledged(c) ==
    CASE command[c].edit.kind = "add" -> enrolled \cup {command[c].edit.name}
      [] command[c].edit.kind = "remove" -> enrolled \ {command[c].edit.name}
      [] OTHER -> enrolled

\* edit_config_doc: validated, then replaced by a rename.  A command with a further
\* edit in store begins it.
ReplaceConfig(c) ==
    /\ command[c].at = "edit" /\ command[c].ui = "cli"
    /\ IF Passes(command[c].doc)
       THEN /\ config' = command[c].doc
            /\ enrolled' = Acknowledged(c)
            /\ past' = past \cup {"passed"}
            /\ UNCHANGED pem
            /\ IF command[c].then = {} THEN End(c)
               ELSE GoOn(c, [command[c] EXCEPT !.at = "read", !.then = {}, !.edit.links = command[c].then])
       ELSE Fail(c) /\ UNCHANGED <<config, enrolled, past>>
    /\ UNCHANGED <<install, vault, keysMade, started, kept>>

\* save_and_reload: truncated, written, and read back.  Config::from_file parses what it
\* reads and checks none of it, so that every edit is reported as made.
TruncateConfig(c) ==
    /\ command[c].at = "edit" /\ command[c].ui = "tui"
    /\ config' = EmptyDoc
    /\ GoOn(c, [command[c] EXCEPT !.at = "write"])
    /\ UNCHANGED <<install, pem, vault, keysMade, started, kept, enrolled, past>>

WriteConfig(c) ==
    /\ command[c].at = "write"
    /\ config' = command[c].doc
    /\ enrolled' = Acknowledged(c)
    /\ past' = IF Passes(command[c].doc) THEN past ELSE past \cup {"unchecked"}
    /\ End(c)
    /\ UNCHANGED <<install, pem, vault, keysMade, started, kept>>

--------------------------------------------------------------------------------
\* secrets init generates the age key; refused when one of the two files is there.
StartSecretsInit(c, ui, force) ==
    /\ force \/ (vault.key = 0 /\ ~vault.exists)
    /\ NewKey
    /\ vault' = [vault EXCEPT !.key = keysMade + 1]
    /\ Begin(c, [Idle EXCEPT !.at = "plain", !.ui = ui, !.edit.kind = "set", !.key = keysMade + 1,
                   !.edit.links = IF ui = "cli" THEN {"vault"} ELSE {"vault", "key"},
                   !.then = IF ui = "cli" THEN {"key"} ELSE {}],
             IF force THEN {"force"} ELSE {})
    /\ UNCHANGED <<config, install, pem, kept, enrolled>>

\* In the TUI, when both files are there it links them.
RelinkSecrets(c) ==
    /\ vault.key # 0 /\ vault.exists
    /\ Begin(c, [Idle EXCEPT !.at = "read", !.ui = "tui", !.edit.kind = "set",
                             !.edit.links = {"vault", "key"}], {})
    /\ UNCHANGED <<config, install, pem, vault, keysMade, kept, enrolled>>

WritePlain(c) ==
    /\ command[c].at = "plain"
    /\ vault' = [vault EXCEPT !.exists = TRUE, !.for = 0, !.has = {}]
    /\ GoOn(c, [command[c] EXCEPT !.at = "encrypt"])
    /\ UNCHANGED <<config, install, pem, keysMade, started, kept, enrolled, past>>

\* sops encrypts in place, or fails; the command line then removes the file.
Encrypt(c) ==
    /\ command[c].at = "encrypt"
    /\ \/ /\ vault' = [vault EXCEPT !.for = command[c].key]
          /\ GoOn(c, [command[c] EXCEPT !.at = "read", !.key = 0])
       \/ /\ vault' = [vault EXCEPT !.exists = (command[c].ui = "tui")]
          /\ End(c)
    /\ UNCHANGED <<config, install, pem, keysMade, started, kept, enrolled, past>>

\* secrets set and remove: the paths are resolved and the file is decrypted.
StartSecret(c, ui, s) ==
    /\ config.exists /\ config.links = {"vault", "key"}
    /\ vault.key # 0 /\ vault.exists
    /\ Begin(c, [Idle EXCEPT !.at = "decrypt", !.ui = ui, !.key = vault.key, !.secret = {s}], {})
    /\ UNCHANGED <<config, install, pem, vault, keysMade, kept, enrolled>>

Decrypt(c) ==
    /\ command[c].at = "decrypt"
    /\ IF vault.exists /\ vault.for # 0 /\ vault.for = vault.key
       THEN GoOn(c, [command[c] EXCEPT !.at = "persist", !.has = vault.has]) ELSE End(c)
    /\ UNCHANGED <<config, install, pem, vault, keysMade, started, kept, enrolled, past>>

\* write_and_encrypt: the new content, encrypted under another name, takes the file's
\* place.
Persist(c, has) ==
    /\ command[c].at = "persist"
    /\ vault' = [vault EXCEPT !.exists = TRUE, !.for = command[c].key, !.has = has]
    /\ End(c)
    /\ UNCHANGED <<config, install, pem, keysMade, started, past, enrolled>>

SetSecret(c) ==
    /\ Persist(c, command[c].has \cup command[c].secret)
    /\ kept' = kept \cup command[c].secret

RemoveSecret(c) ==
    /\ command[c].secret \subseteq command[c].has
    /\ Persist(c, command[c].has \ command[c].secret)
    /\ kept' = kept \ command[c].secret

Die(c) ==
    /\ command[c].at # "idle"
    /\ past' = IF command[c].at = "write" THEN past \cup {"torn"} ELSE past
    /\ End(c)
    /\ UNCHANGED <<config, install, pem, vault, keysMade, started, kept, enrolled>>

FilesNext ==
    \E c \in Commands :
        \/ \E u \in Ui, force \in BOOLEAN : StartInit(c, u, force) \/ StartSecretsInit(c, u, force)
        \/ \E u \in Ui, e \in Edits : (e.kind = "set" => e.links = {}) /\ StartEdit(c, u, e)
        \/ \E u \in Ui, s \in Secrets : StartSecret(c, u, s)
        \/ SetSecret(c) \/ RemoveSecret(c) \/ RelinkSecrets(c)
        \/ InitPem(c) \/ InitFiles(c) \/ InitPolicies(c) \/ InitConfig(c)
        \/ WritePem(c) \/ ReadConfig(c) \/ ReplaceConfig(c) \/ TruncateConfig(c) \/ WriteConfig(c)
        \/ WritePlain(c) \/ Encrypt(c) \/ Decrypt(c) \/ Die(c)

FilesSpec == FilesInit /\ [][FilesNext]_filesVars

--------------------------------------------------------------------------------
\* edit_config_doc: no command-line edit "can produce an invalid config on disk", whatever
\* other commands it overlaps.  Once one has passed, the config is valid for good, unless
\* init writes a new one, or the TUI writes it: that is cut off, under way, or went
\* unchecked.
ConfigStaysValid ==
    "passed" \in past /\ past \cap {"torn", "unchecked", "rewritten"} = {} =>
        Passes(config) \/ \E c \in Commands : command[c].at = "write"

\* Commands that end anywhere, one after the other, from either UI, lose no edit: the
\* operators of the config are those that were added and not removed.
EditsKept ==
    past \cap {"overlap", "force", "torn"} = {} /\ (\A c \in Commands : command[c].at # "write") =>
        enrolled = {n \in Names : config.ops[n] # 0}

\* execute_plan: "a crash mid-init never leaves a config without its supporting files".
ConfigHasItsFiles == config.exists => install = "whole"

\* An operator in the config has a PEM with its key: commands that end anywhere, one
\* after the other, from either UI, never part them (init --force does).
OperatorsHaveKeys ==
    past \cap {"overlap", "force"} = {} =>
        \A n \in Names : config.ops[n] # 0 => \E u \in Ui : pem[u][n] = config.ops[n]

\* A secret whose setting was acknowledged stays readable, whatever dies afterwards.
SecretsKept ==
    past \cap {"overlap", "force"} = {} =>
        /\ kept \subseteq vault.has
        /\ kept # {} => vault.exists /\ vault.for = vault.key

FilesSafe == ConfigStaysValid /\ EditsKept /\ ConfigHasItsFiles /\ OperatorsHaveKeys /\ SecretsKept

\* setup_ops.rs: secrets_init links "both files" that "already exist": also a plain file
\* that an init which failed has left.
LinkedVaultOpens ==
    past \cap {"overlap", "force", "torn"} = {} /\ config.links = {"vault", "key"} => vault.for # 0

\* config_gen.rs: "JWKS export (optional ...)", on the line that the config of init leaves
\* out: edit_config_doc and the gate ask for it.
InitIsValid == started = 1 /\ config.exists => Passes(config)

\* setup_ops.rs: save_and_reload answers "config validation failed after edit", but only
\* for what does not parse.
TuiEditsAreChecked == "unchecked" \notin past

--------------------------------------------------------------------------------
(***************************************************************************)
(* latchgate-mcp install (crates/latchgate-mcp/src/install.rs): it works   *)
(* out how to reach the gate and who the operator is, from the flags, the  *)
(* config of an active session and the config of the project, and puts two *)
(* entries into the configuration of an IDE, a file that the IDE edits     *)
(* too.  Nothing locks that file.                                          *)
(*                                                                         *)
(* A config names a socket, an HTTP address, a base URL and an admin       *)
(* socket, each of which may be missing; it is told apart by whose it is.  *)
(***************************************************************************)

CONSTANTS
    Installers,   \* processes that run an install
    Ides,         \* IDEs whose config is a file
    FormatOf,     \* per IDE: json, opencode, copilot, toml or yaml
    Others,       \* MCP servers that are not ours
    SessionConfigs,      \* what a config may say: sets of facts
    FlagSets,     \* what an install may be given on its command line
    MaxInstalls, MaxIdeEdits   \* bounds: installs started, edits by others

ASSUME IdeAssumption ==
    /\ FormatOf \in [Ides -> {"json", "opencode", "copilot", "toml", "yaml"}]
    /\ SessionConfigs \subseteq SUBSET {"socket", "http", "base", "admin"}
    /\ FlagSets \subseteq SUBSET {"url", "socket", "base"}
    /\ {MaxInstalls, MaxIdeEdits} \subseteq Nat

VARIABLES
    source,     \* the config of the session and that of the project
    creds,      \* the project's operator: the credential, and where its key is
    file,       \* per IDE: its configuration
    claude,     \* the entries that the claude CLI keeps
    installing,    \* per process: the install in hand
    spent,      \* installs and edits so far
    mishap,     \* per IDE: what excuses a file that lost something
    owned       \* per IDE: the servers that its user has configured

ideVars == <<source, creds, file, claude, installing, spent, mishap, owned>>

NoEntry == "none"

--------------------------------------------------------------------------------
Sources == {"session", "project"}

Has(s, fact) == fact \in source[s]

\* A transport: how it reaches the gate, whose gate that is, whose base URL it signs.
Transports == [kind : {"http", "uds"}, gate : Sources \cup {"flag", "default"}, base : Sources \cup {"flag", "default"}]

Transport(kind, gate, base) == [kind |-> kind, gate |-> gate, base |-> base]

\* read_transport_from_toml: HTTP when the config exposes it; a socket counts only
\* together with a base URL, from the flag or from the same config.
ReadTransport(s, flags) ==
    IF Has(s, "http") THEN {Transport("http", s, s)}
    ELSE IF Has(s, "socket") /\ ("base" \in flags \/ Has(s, "base"))
    THEN {Transport("uds", s, IF "base" \in flags THEN "flag" ELSE s)}
    ELSE {}

\* detect_transport_from_configs: the session before the project.
Detected(flags) ==
    IF ReadTransport("session", flags) # {} THEN ReadTransport("session", flags)
    ELSE ReadTransport("project", flags)

\* detect_public_base_url: each config is tried, else the built-in default.
DetectedBase(flags) ==
    CASE "base" \in flags -> "flag"
      [] "base" \notin flags /\ Has("session", "base") -> "session"
      [] "base" \notin flags /\ ~Has("session", "base") /\ Has("project", "base") -> "project"
      [] OTHER -> "default"

\* resolve_transport: a flag, what the configs say, the standard socket.
Resolved(flags) ==
    IF "url" \in flags THEN Transport("http", "flag", "flag")
    ELSE IF "socket" \in flags THEN Transport("uds", "flag", DetectedBase(flags))
    ELSE IF Detected(flags) # {} THEN CHOOSE t \in Detected(flags) : TRUE
    ELSE Transport("uds", "default", DetectedBase(flags))

\* resolve_admin_socket.
AdminSocket ==
    CASE Has("session", "admin") -> "session"
      [] ~Has("session", "admin") /\ Has("project", "admin") -> "project"
      [] OTHER -> "default"

\* resolve_operator_credentials: the first credential of the project; its key by
\* convention, in the old place, or the key of the active session.
OperatorKey ==
    IF creds.token = 0 \/ creds.badName THEN {}
    ELSE IF creds.key THEN {[token |-> creds.token, key |-> "project"]}
    ELSE IF creds.sessionKey THEN {[token |-> creds.token, key |-> "session"]}
    ELSE {}

\* resolve_operator: both sides, or no operator entry.
ResolvedOperator == {[admin |-> AdminSocket, token |-> c.token, key |-> c.key] : c \in OperatorKey}

--------------------------------------------------------------------------------
\* A file: absent, blank, not in its format, with a section that is not a table, good.
IdeDoc == [at : {"absent", "blank", "broken", "odd", "good"}, others : SUBSET Others,
        agent : SUBSET Transports, op : 0..2, notes : BOOLEAN]

NoIdeDoc == [at |-> "absent", others |-> {}, agent |-> {}, op |-> 0, notes |-> FALSE]

EmptyIdeDoc == [NoIdeDoc EXCEPT !.at = "good"]

\* What a writer starts from: an absent or blank file is an empty table.
Parsed(doc) == IF doc.at = "good" THEN doc ELSE EmptyIdeDoc

\* Our entry replaces the one that is there; so does the operator's, when there is one.
Inserted(doc, to, ops) ==
    [Parsed(doc) EXCEPT !.agent = {to}, !.op = IF ops = {} THEN @ ELSE (CHOOSE o \in ops : TRUE).token]

\* The writers: `mcpServers`, `mcp`, `servers` in JSON; `mcp_servers` in TOML and in
\* YAML, where the comments are not part of what is written back.
WriteIdeConfig(doc, to, ops) == Inserted(doc, to, ops)
WriteOpencode(doc, to, ops) == Inserted(doc, to, ops)
WriteCopilot(doc, to, ops) == Inserted(doc, to, ops)
WriteToml(doc, to, ops) == [Inserted(doc, to, ops) EXCEPT !.notes = FALSE]
WriteHermes(doc, to, ops) == [Inserted(doc, to, ops) EXCEPT !.notes = FALSE]

Written(ide, doc, to, ops) ==
    CASE FormatOf[ide] = "json" -> WriteIdeConfig(doc, to, ops)
      [] FormatOf[ide] = "opencode" -> WriteOpencode(doc, to, ops)
      [] FormatOf[ide] = "copilot" -> WriteCopilot(doc, to, ops)
      [] FormatOf[ide] = "toml" -> WriteToml(doc, to, ops)
      [] FormatOf[ide] = "yaml" -> WriteHermes(doc, to, ops)

\* An InstallError: not in its format, or a section that is no table.
Parses(doc) == doc.at \notin {"broken", "odd"}

--------------------------------------------------------------------------------
Resting == [at |-> "idle", ide |-> NoEntry, to |-> Transport("uds", "default", "default"), ops |-> {},
            doc |-> NoIdeDoc, dry |-> FALSE]

IdeTypeOK ==
    /\ source \in [Sources -> SessionConfigs]
    /\ creds \in [token : 0..2, badName : BOOLEAN, key : BOOLEAN, sessionKey : BOOLEAN]
    /\ file \in [Ides -> IdeDoc]
    /\ claude \in [agent : SUBSET Transports, op : 0..2]
    /\ \A i \in Installers : installing[i].at \in {"idle", "read", "write", "rest", "drop", "add", "dropOp", "addOp"}
    /\ spent \in [installs : 0..MaxInstalls, edits : 0..MaxIdeEdits]
    /\ mishap \in [Ides -> SUBSET {"torn", "overlap"}]
    /\ owned \in [Ides -> SUBSET Others]

IdeInit ==
    /\ source \in [Sources -> SessionConfigs]
    /\ creds \in [token : {0, 1}, badName : BOOLEAN, key : {FALSE}, sessionKey : BOOLEAN]
    /\ creds.badName => creds.token = 1 /\ ~creds.sessionKey
    /\ \E at \in {"absent", "broken", "odd", "good"} :
          file = [ide \in Ides |-> [NoIdeDoc EXCEPT !.at = at, !.others = IF at = "absent" THEN {} ELSE Others,
                                               !.notes = at # "absent" /\ FormatOf[ide] \in {"toml", "yaml"}]]
    /\ claude = [agent |-> {}, op |-> 0]
    /\ installing = [i \in Installers |-> Resting]
    /\ spent = [installs |-> 0, edits |-> 0]
    /\ mishap = [ide \in Ides |-> {}]
    /\ owned = [ide \in Ides |-> file[ide].others]

IdeBusy(ide) == {i \in Installers : installing[i].at \in {"write", "rest"} /\ installing[i].ide = ide}

\* run: everything is resolved before anything is read or written.
Run(i, ide, flags, dry) ==
    /\ installing[i].at = "idle" /\ spent.installs < MaxInstalls
    /\ installing' = [installing EXCEPT ![i] =
          [Resting EXCEPT !.at = IF ide = "claude-code" THEN "drop" ELSE "read", !.ide = ide, !.dry = dry,
                          !.to = Resolved(flags), !.ops = ResolvedOperator]]
    /\ spent' = [spent EXCEPT !.installs = @ + 1]
    /\ UNCHANGED <<source, creds, file, claude, mishap, owned>>

\* A dry run prints, and that is all.
DryRun(i) ==
    /\ installing[i].at \in {"read", "drop"} /\ installing[i].dry
    /\ installing' = [installing EXCEPT ![i] = Resting]
    /\ UNCHANGED <<source, creds, file, claude, spent, mishap, owned>>

\* The file is read and merged in memory; a file that is not understood is an error.
ReadFile(i) ==
    LET ide == installing[i].ide
    IN /\ installing[i].at = "read" /\ ~installing[i].dry
       /\ IF Parses(file[ide])
          THEN installing' = [installing EXCEPT ![i].at = "write", ![i].doc = Written(ide, file[ide], installing[i].to, installing[i].ops)]
          ELSE installing' = [installing EXCEPT ![i] = Resting]
       /\ mishap' = [mishap EXCEPT ![ide] = IF IdeBusy(ide) = {} THEN @ ELSE @ \cup {"overlap"}]
       /\ UNCHANGED <<source, creds, file, claude, spent, owned>>

\* fs::write: the file is truncated, then written.
Truncate(i) ==
    LET ide == installing[i].ide
    IN /\ installing[i].at = "write"
       /\ file' = [file EXCEPT ![ide] = [NoIdeDoc EXCEPT !.at = "blank"]]
       /\ installing' = [installing EXCEPT ![i].at = "rest"]
       /\ UNCHANGED <<source, creds, claude, spent, mishap, owned>>

FinishWrite(i) ==
    LET ide == installing[i].ide
    IN /\ installing[i].at = "rest"
       /\ file' = [file EXCEPT ![ide] = installing[i].doc]
       /\ installing' = [installing EXCEPT ![i] = Resting]
       /\ UNCHANGED <<source, creds, claude, spent, mishap, owned>>

\* The process dies, or the disk is full, with the file truncated or partly written.
Interrupted(i) ==
    /\ installing[i].at # "idle"
    /\ IF installing[i].at = "rest"
       THEN /\ \E left \in {"blank", "broken"} : file' = [file EXCEPT ![installing[i].ide].at = left]
            /\ mishap' = [mishap EXCEPT ![installing[i].ide] = @ \cup {"torn"}]
       ELSE UNCHANGED <<file, mishap>>
    /\ installing' = [installing EXCEPT ![i] = Resting]
    /\ UNCHANGED <<source, creds, claude, spent, owned>>

--------------------------------------------------------------------------------
\* run_claude_code: the old entry is removed, whatever that answers, and the new one
\* added by the claude CLI; an add that fails ends the install.
DropEntry(i) ==
    /\ installing[i].at \in {"drop", "dropOp"} /\ ~installing[i].dry
    /\ claude' = IF installing[i].at = "drop" THEN [claude EXCEPT !.agent = {}] ELSE [claude EXCEPT !.op = 0]
    /\ installing' = [installing EXCEPT ![i].at = IF @ = "drop" THEN "add" ELSE "addOp"]
    /\ UNCHANGED <<source, creds, file, spent, mishap, owned>>

AddEntry(i) ==
    /\ installing[i].at \in {"add", "addOp"}
    /\ \/ /\ installing[i].at = "add"
          /\ claude' = [claude EXCEPT !.agent = {installing[i].to}]
          /\ installing' = [installing EXCEPT ![i] = IF installing[i].ops = {} THEN Resting ELSE [@ EXCEPT !.at = "dropOp"]]
       \/ /\ installing[i].at = "addOp"
          /\ claude' = [claude EXCEPT !.op = (CHOOSE o \in installing[i].ops : TRUE).token]
          /\ installing' = [installing EXCEPT ![i] = Resting]
       \/ UNCHANGED claude /\ installing' = [installing EXCEPT ![i] = Resting]
    /\ UNCHANGED <<source, creds, file, spent, mishap, owned>>

--------------------------------------------------------------------------------
EditIdeFile == spent.edits < MaxIdeEdits /\ spent' = [spent EXCEPT !.edits = @ + 1]

\* The IDE rewrites its own file; an install that has read it already does not notice.
IdeSaves(ide, o) ==
    /\ EditIdeFile
    /\ file[ide].at = "good"
    /\ file' = [file EXCEPT ![ide].others = IF o \in @ THEN @ \ {o} ELSE @ \cup {o}]
    /\ owned' = [owned EXCEPT ![ide] = IF o \in file[ide].others THEN @ \ {o} ELSE @ \cup {o}]
    /\ mishap' = [mishap EXCEPT ![ide] = IF IdeBusy(ide) = {} THEN @ ELSE @ \cup {"overlap"}]
    /\ UNCHANGED <<source, creds, claude, installing>>

\* `up` and `down`, init and the operator commands change what an install will resolve.
SessionChanges(facts, key) ==
    /\ EditIdeFile
    /\ source' = [source EXCEPT !["session"] = facts]
    /\ creds' = [creds EXCEPT !.sessionKey = key]
    /\ UNCHANGED <<file, claude, installing, mishap, owned>>

OperatorChanges(token) ==
    /\ EditIdeFile
    /\ creds' = [creds EXCEPT !.token = token]
    /\ UNCHANGED <<source, file, claude, installing, mishap, owned>>

InstallStep(i) ==
    DryRun(i) \/ ReadFile(i) \/ Truncate(i) \/ FinishWrite(i) \/ DropEntry(i) \/ AddEntry(i) \/ Interrupted(i)

IdeNext ==
    \/ \E i \in Installers :
         \/ \E ide \in Ides \cup {"claude-code"}, flags \in FlagSets, dry \in BOOLEAN : Run(i, ide, flags, dry)
         \/ InstallStep(i)
    \/ \E ide \in Ides, o \in Others : IdeSaves(ide, o)
    \/ \E facts \in SessionConfigs, key \in BOOLEAN : SessionChanges(facts, key)
    \/ \E token \in 0..2 : OperatorChanges(token)

IdeSpec == IdeInit /\ [][IdeNext]_ideVars

--------------------------------------------------------------------------------
(***************************************************************************)
(* Properties.                                                             *)
(***************************************************************************)

\* What the user has configured survives: once no install is in the middle of its
\* write, the other servers are there, whether their file could be read or not, except
\* after a write that was cut short or that overlapped another one.
OthersKept ==
    \A ide \in Ides :
        mishap[ide] = {} /\ (\A i \in IdeBusy(ide) : installing[i].at # "rest") => file[ide].others = owned[ide]

\* Every entry signs for the gate it reaches: an address found in a config comes with
\* the base URL of that config, or with the one the user gave.
SignsForItsGate ==
    \A to \in claude.agent \cup UNION {file[ide].agent : ide \in Ides} :
        to.gate \in Sources => to.base \in {to.gate, "flag"}

\* The two together: an install loses nothing of the user's and configures a usable entry.
IdeSafe == OthersKept /\ SignsForItsGate
================================================================================
