-------------------------------- MODULE StackUp --------------------------------
(***************************************************************************)
(* Bringing a gate up and taking it down (crates/latchgate-cli, cmd/up.rs, *)
(* cmd/down.rs and the gate operations of cmd/tui/mod.rs).  Every command  *)
(* works on one state directory, which belongs to the user and not to a    *)
(* project: generated config, operator key, compose file and PID file.     *)
(* Nothing locks it, and a command may die between any two of its steps.   *)
(*                                                                         *)
(* An operator stands for its credential and its key.  The contents of the *)
(* generated files are the values they carry over from the project.        *)
(***************************************************************************)
EXTENDS Integers, FiniteSets, Sequences

CONSTANTS
    StackCommands,      \* processes that run a command
    Projects,      \* working directories
    Repo,          \* those that are a checkout of the repository
    Installed,     \* the binary has its share directory next to it
    Operators,
    StackProtections,   \* what a posture can relax
    Gates,         \* gate processes
    MaxStackCommands    \* bound: commands that are started

ASSUME StackAssumption == Repo \subseteq Projects /\ Installed \in BOOLEAN /\ MaxStackCommands \in Nat

NoStack == "none"

VARIABLES
    session,     \* the state directory
    project,     \* per project: .latchgate
    containers,  \* redis, opa, squid and prometheus: down, partly up, up
    gate,        \* per gate process
    socket,      \* the gate behind the admin socket
    run,         \* per process: the command in hand
    begun,       \* commands started so far
    asked,       \* the postures that a command line asked for
    excuses         \* what excuses a session that does not fit together

stackVars == <<session, project, containers, gate, socket, run, begun, asked, excuses>>

--------------------------------------------------------------------------------
Postures == SUBSET StackProtections
Trees == {"definitions", "share"} \cup Projects   \* where manifests and providers come from
InfraFiles == {"prometheus", "squid", "compose"}

\* What `up` generates: whose manifests, which project's ledger, which operator.
ConfigOf(tree, p, op, posture, mode) ==
    [tree |-> tree, data |-> p, op |-> op, posture |-> posture, mode |-> mode]

StackConfigs == [tree : Trees, data : Projects, op : Operators, posture : Postures, mode : {"embedded", "docker"}]

\* The config is empty when the file is absent or does not load.
EmptySession == [files |-> {}, config |-> {}, pem |-> NoStack, pid |-> NoStack]

The(some) == CHOOSE x \in some : TRUE

SessionConfig == The(session.config)

Kinds == {"up", "down", "start", "stop", "restart"}

Ready == [kind |-> "down", at |-> "idle", p |-> CHOOSE p \in Projects : TRUE, mode |-> "embedded",
          reset |-> FALSE, posture |-> {}, tree |-> NoStack, op |-> NoStack, gate |-> NoStack, made |-> {}]

\* The steps of `up`; a start from the TUI has the same ones without containers.
StepsOf == [embedded |-> <<"discover", "state", "data", "config", "pem", "preflight">>,
            docker |-> <<"docker", "discover", "state", "data", "prometheus", "squid", "compose",
                         "containers", "wait", "config", "pem", "preflight">>]

Position(mode, at) == CHOOSE i \in DOMAIN StepsOf[mode] : StepsOf[mode][i] = at

\* The step after `at`: after the last one, `up` serves and the TUI spawns a gate.
After(c) ==
    LET steps == StepsOf[run[c].mode]
        i == Position(run[c].mode, run[c].at)
    IN IF run[c].at = steps[Len(steps)]
       THEN IF run[c].kind = "up" THEN "serve" ELSE "spawn"
       ELSE steps[i + 1]

StackBusy(c) == run[c].at \notin {"idle", "serving"}

Go(c, at) == run' = [run EXCEPT ![c].at = at]

\* An error return: the command reports and ends, and undoes nothing.
FailCommand(c) ==
    /\ run' = [run EXCEPT ![c] = Ready]
    /\ excuses' = IF run[c].at = "pem" THEN excuses \cup {"torn"} ELSE excuses

AtStep(c, at) == run[c].at = at

StackTypeOK ==
    /\ session.files \subseteq InfraFiles
    /\ session.config \subseteq StackConfigs /\ Cardinality(session.config) \leq 1
    /\ session.pem \in {NoStack} \cup Operators /\ session.pid \in {NoStack} \cup Gates
    /\ \A p \in Projects : /\ project[p].home \in {"absent", "partial", "bare", "ready"}
                           /\ project[p].ops \subseteq Operators /\ project[p].keys \subseteq Operators
                           /\ project[p].data \in BOOLEAN
    /\ containers \in {"down", "some", "up"} /\ socket \in {NoStack} \cup Gates
    /\ \A g \in Gates : gate[g].at \in {"off", "spawned", "starting", "up", "gone"}
    /\ \A c \in StackCommands : run[c].kind \in Kinds /\ run[c].made \subseteq StackConfigs
    /\ begun \in 0..MaxStackCommands /\ asked \subseteq Postures
    /\ excuses \subseteq {"overlap", "torn", "edited"}

StackInit ==
    /\ session = EmptySession /\ containers = "down"
    /\ project \in [Projects -> [home : {"absent", "partial", "bare", "ready"}, ops : SUBSET Operators,
                                 keys : {Operators}, data : {FALSE}]]
    /\ \A p \in Projects : project[p].home \in {"absent", "partial"} <=> project[p].ops = {}
    /\ gate = [g \in Gates |-> [at |-> "off", conf |-> {}, by |-> NoStack]]
    /\ socket = NoStack
    /\ run = [c \in StackCommands |-> Ready]
    /\ begun = 0 /\ asked = {} /\ excuses = {}

--------------------------------------------------------------------------------
\* A command begins; two that prepare or clean up at once overlap.
BeginCommand(c, r) ==
    /\ run[c].at = "idle" /\ begun < MaxStackCommands
    /\ run' = [run EXCEPT ![c] = r]
    /\ begun' = begun + 1
    /\ excuses' = IF \E d \in StackCommands \ {c} : StackBusy(d) THEN excuses \cup {"overlap"} ELSE excuses

\* latchgate up, with the flags of the command line.
Up(c, p, mode, reset, posture) ==
    /\ BeginCommand(c, [Ready EXCEPT !.kind = "up", !.at = StepsOf[mode][1], !.p = p, !.mode = mode,
                              !.reset = reset, !.posture = posture])
    /\ asked' = asked \cup {posture}
    /\ UNCHANGED <<session, project, containers, gate, socket>>

\* check_docker: the daemon answers and has the compose plugin.
CheckDocker(c) ==
    /\ AtStep(c, "docker")
    /\ \/ Go(c, After(c)) /\ UNCHANGED excuses
       \/ FailCommand(c)
    /\ UNCHANGED <<session, project, containers, gate, socket, begun, asked>>

\* try_discover_resources_in: a checkout, then the installed tree, then what init wrote.
SessionDiscovered(p, home) ==
    CASE p \in Repo -> "definitions"
      [] Installed -> "share"
      [] ~Installed /\ p \notin Repo /\ home = "ready" -> p
      [] OTHER -> NoStack

\* run_first_time_setup: the wizard may be cancelled; what it writes may not load.
Wizard(p) ==
    \/ \E o \in Operators : project' = [project EXCEPT ![p] = [@ EXCEPT !.home = "ready", !.ops = {o}]]
    \/ project' = [project EXCEPT ![p] = [@ EXCEPT !.home = "partial", !.ops = {}]]
    \/ project' = [project EXCEPT ![p] = [@ EXCEPT !.home = "absent", !.ops = {}, !.data = FALSE]]

\* discover_resources: --reset removes .latchgate, data included, before anything else.
Discover(c) ==
    LET p == run[c].p
        wiped == run[c].reset \/ project[p].home = "absent"
        tree == SessionDiscovered(p, project'[p].home)
    IN /\ AtStep(c, "discover") /\ run[c].tree = NoStack
       /\ IF wiped THEN Wizard(p) /\ excuses' = excuses \cup {"edited"}
                   ELSE UNCHANGED <<project, excuses>>
       /\ IF project'[p].home \in {"bare", "ready"} /\ tree # NoStack
          THEN run' = [run EXCEPT ![c].at = After(c), ![c].tree = tree]
          ELSE run' = [run EXCEPT ![c] = Ready]
       /\ UNCHANGED <<session, containers, gate, socket, begun, asked>>

\* A start from the TUI that follows a session uses the paths of its config.
Pinned(c) ==
    /\ AtStep(c, "discover") /\ run[c].tree # NoStack
    /\ Go(c, After(c))
    /\ UNCHANGED <<session, project, containers, gate, socket, begun, asked, excuses>>

\* prepare_state_dir: the directory is made; what is in it stays.
PrepareState(c) ==
    /\ AtStep(c, "state")
    /\ \/ Go(c, After(c)) /\ UNCHANGED excuses
       \/ FailCommand(c)
    /\ UNCHANGED <<session, project, containers, gate, socket, begun, asked>>

\* prepare_data_dir: .latchgate/data of the working directory.
PrepareData(c) ==
    /\ AtStep(c, "data")
    /\ \/ /\ Go(c, After(c)) /\ UNCHANGED excuses
          /\ project' = [project EXCEPT ![run[c].p].data = TRUE]
       \/ FailCommand(c) /\ UNCHANGED project
    /\ UNCHANGED <<session, containers, gate, socket, begun, asked>>

--------------------------------------------------------------------------------
WriteInfra(c, f, needs) ==
    /\ AtStep(c, f)
    /\ \/ /\ needs \subseteq session.files
          /\ session' = [session EXCEPT !.files = @ \cup {f}]
          /\ Go(c, After(c)) /\ UNCHANGED excuses
       \/ FailCommand(c) /\ UNCHANGED session
    /\ UNCHANGED <<project, containers, gate, socket, begun, asked>>

WritePrometheus(c) == WriteInfra(c, "prometheus", {})

\* The squid config, and an allowlist that denies everything until the gate fills it.
WriteSquid(c) == WriteInfra(c, "squid", {})

\* write_compose_file: the paths of the other two files are resolved first.
WriteCompose(c) == WriteInfra(c, "compose", {"prometheus", "squid"})

\* compose_up: a failure may leave some of the containers running.
ComposeUp(c) ==
    /\ AtStep(c, "containers")
    /\ \/ /\ "compose" \in session.files
          /\ containers' = "up" /\ Go(c, After(c)) /\ UNCHANGED excuses
       \/ /\ "compose" \in session.files /\ containers # "up"
          /\ containers' = "some" /\ FailCommand(c)
       \/ UNCHANGED containers /\ FailCommand(c)
    /\ UNCHANGED <<session, project, gate, socket, begun, asked>>

\* wait_for_redis, opa, squid, prometheus: 60 seconds each.
WaitHealthy(c) ==
    /\ AtStep(c, "wait")
    /\ \/ containers = "up" /\ Go(c, After(c)) /\ UNCHANGED excuses
       \/ FailCommand(c)
    /\ UNCHANGED <<session, project, containers, gate, socket, begun, asked>>

--------------------------------------------------------------------------------
\* resolve_project_operator: exactly one credential, with its key on disk.
ProjectOperator(p) ==
    IF project[p].home \in {"bare", "ready"} /\ Cardinality(project[p].ops) = 1
    THEN project[p].ops \cap project[p].keys ELSE {}

\* The config is generated and written over the one that is there.
GenerateConfig(c) ==
    /\ AtStep(c, "config")
    /\ \/ \E op \in ProjectOperator(run[c].p) :
             LET made == ConfigOf(run[c].tree, run[c].p, op, run[c].posture, run[c].mode)
             IN /\ session' = [session EXCEPT !.config = {made}]
                /\ run' = [run EXCEPT ![c].at = After(c), ![c].op = op, ![c].made = {made}]
                /\ UNCHANGED excuses
       \/ FailCommand(c) /\ UNCHANGED session
    /\ UNCHANGED <<project, containers, gate, socket, begun, asked>>

\* copy_operator_pem: then the key, in a file of its own; then the config is loaded
\* back from the file.
CopyPem(c) ==
    /\ AtStep(c, "pem")
    /\ \/ /\ run[c].op \in project[run[c].p].keys
          /\ session' = [session EXCEPT !.pem = run[c].op]
          /\ IF session.config # {}
             THEN run' = [run EXCEPT ![c].at = After(c), ![c].made = {[SessionConfig EXCEPT !.posture = run[c].posture]}]
             ELSE run' = [run EXCEPT ![c] = Ready]
          /\ excuses' = IF \E d \in StackCommands \ {c} : StackBusy(d) THEN excuses ELSE excuses \ {"torn", "edited"}
       \/ FailCommand(c) /\ UNCHANGED session
    /\ UNCHANGED <<project, containers, gate, socket, begun, asked>>

\* run_preflight: among others, redis and opa answer when they are configured.
Preflight(c) ==
    /\ AtStep(c, "preflight")
    /\ \/ /\ The(run[c].made).mode = "docker" => containers = "up"
          /\ Go(c, After(c)) /\ UNCHANGED excuses
       \/ FailCommand(c)
    /\ UNCHANGED <<session, project, containers, gate, socket, begun, asked>>

--------------------------------------------------------------------------------
Data(g) == The(gate[g].conf).data

\* A gate holds the writer lock of its ledger.
LockFree(conf) == \A g \in Gates : gate[g].at = "up" => Data(g) # The(conf).data

Fresh == {g \in Gates : gate[g].at = "off"}

\* cmd_up: the gate runs in the command's own process, with the config in memory.
Serve(c) ==
    /\ AtStep(c, "serve")
    /\ \E g \in Fresh :
         IF LockFree(run[c].made)
         THEN /\ gate' = [gate EXCEPT ![g] = [at |-> "up", conf |-> run[c].made, by |-> c]]
              /\ socket' = g
              /\ run' = [run EXCEPT ![c].at = "serving", ![c].gate = g]
         ELSE run' = [run EXCEPT ![c] = Ready] /\ UNCHANGED <<gate, socket>>
    /\ UNCHANGED <<session, project, containers, begun, asked, excuses>>

\* SIGINT or SIGTERM: the server drains and removes the socket; the command goes on
\* to clean up, or ends when the gate was a child.
StackGateStops(g) ==
    /\ gate[g].at = "up"
    /\ gate' = [gate EXCEPT ![g].at = "gone"]
    /\ socket' = NoStack
    /\ run' = [c \in StackCommands |-> IF run[c].at = "serving" /\ run[c].gate = g
                                  THEN [run[c] EXCEPT !.at = "cleanup"] ELSE run[c]]
    /\ excuses' = IF gate[g].by \in StackCommands /\ \E d \in StackCommands \ {gate[g].by} : StackBusy(d)
               THEN excuses \cup {"overlap"} ELSE excuses
    /\ UNCHANGED <<session, project, containers, begun, asked>>

\* cleanup, without a compose file: nothing.
NothingToClean(c) ==
    /\ AtStep(c, "cleanup") /\ "compose" \notin session.files
    /\ run' = [run EXCEPT ![c] = IF run[c].kind = "restart" THEN [run[c] EXCEPT !.at = "recover"] ELSE Ready]
    /\ UNCHANGED <<session, project, containers, gate, socket, begun, asked, excuses>>

\* docker compose down: only a success goes on to remove the state directory.
ComposeDown(c) ==
    /\ AtStep(c, "cleanup") /\ "compose" \in session.files
    /\ \/ containers' = "down" /\ Go(c, "remove")
       \/ /\ containers' = IF containers = "up" THEN "some" ELSE containers
          /\ run' = [run EXCEPT ![c] = Ready]
       \/ UNCHANGED containers /\ run' = [run EXCEPT ![c] = Ready]
    /\ UNCHANGED <<session, project, gate, socket, begun, asked, excuses>>

RemoveState(c) ==
    /\ AtStep(c, "remove")
    /\ session' = EmptySession
    /\ run' = [run EXCEPT ![c] = IF run[c].kind = "restart" THEN [run[c] EXCEPT !.at = "recover"] ELSE Ready]
    /\ UNCHANGED <<project, containers, gate, socket, begun, asked, excuses>>

--------------------------------------------------------------------------------
\* latchgate down: cleanup, when there is a compose file; --prune removes the data.
Down(c) ==
    /\ "compose" \in session.files
    /\ BeginCommand(c, [Ready EXCEPT !.kind = "down", !.at = "cleanup"])
    /\ UNCHANGED <<session, project, containers, gate, socket, asked>>

Prune(c, p) ==
    /\ "compose" \notin session.files
    /\ project[p].data
    /\ BeginCommand(c, Ready)
    /\ project' = [project EXCEPT ![p].data = FALSE]
    /\ UNCHANGED <<session, containers, gate, socket, asked>>

\* The TUI's gate operations look for the compose file.
CanStop == "compose" \in session.files
CanStart == "compose" \notin session.files

\* GateUp: only while the health probe finds no gate.
TuiStart(c, p) ==
    /\ socket = NoStack /\ CanStart
    /\ BeginCommand(c, [Ready EXCEPT !.kind = "start", !.at = "recover", !.p = p])
    /\ UNCHANGED <<session, project, containers, gate, socket, asked>>

\* GateDown, after a confirmation.
TuiStop(c, p) ==
    /\ CanStop
    /\ BeginCommand(c, [Ready EXCEPT !.kind = "stop", !.at = "terminate", !.p = p])
    /\ UNCHANGED <<session, project, containers, gate, socket, asked>>

\* GateRestart: stop when it can, then start when it can.
TuiRestart(c, p) ==
    /\ BeginCommand(c, [Ready EXCEPT !.kind = "restart", !.p = p,
                              !.at = IF CanStop THEN "terminate" ELSE "recover"])
    /\ UNCHANGED <<session, project, containers, gate, socket, asked>>

\* terminate_server: SIGTERM to the process in the PID file, then the file goes.
Terminate(c) ==
    /\ AtStep(c, "terminate")
    /\ session' = [session EXCEPT !.pid = NoStack]
    /\ IF session.pid # NoStack /\ gate[session.pid].at \in {"spawned", "starting", "up"}
       THEN /\ gate' = [gate EXCEPT ![session.pid].at = "gone"]
            /\ socket' = IF gate[session.pid].at = "up" THEN NoStack ELSE socket
       ELSE UNCHANGED <<gate, socket>>
    /\ run' = [run EXCEPT ![c].at = "cleanup", ![c].kind = IF @ = "start" THEN "stop" ELSE @]
    /\ UNCHANGED <<project, containers, begun, asked, excuses>>

\* start, phase 0: the posture and the paths of the session before, or the secure
\* default and discovery.
Recover(c, posture, tree) ==
    /\ AtStep(c, "recover") /\ CanStart
    /\ posture = IF session.config # {} THEN SessionConfig.posture ELSE {}
    /\ tree = IF session.config # {} THEN SessionConfig.tree ELSE NoStack

StartRecovers(c) ==
    /\ \E posture \in Postures, tree \in Trees \cup {NoStack} :
          /\ Recover(c, posture, tree)
          /\ run' = [run EXCEPT ![c].at = StepsOf["embedded"][1], ![c].posture = posture, ![c].tree = tree]
    /\ UNCHANGED <<session, project, containers, gate, socket, begun, asked, excuses>>

\* A restart whose stop left the compose file does not start anything.
StartRefused(c) ==
    /\ AtStep(c, "recover") /\ ~CanStart
    /\ run' = [run EXCEPT ![c] = Ready]
    /\ UNCHANGED <<session, project, containers, gate, socket, begun, asked, excuses>>

\* Phase 2: the child is spawned, then its PID is written.
Spawn(c) ==
    /\ AtStep(c, "spawn")
    /\ \E g \in Fresh : /\ gate' = [gate EXCEPT ![g] = [@ EXCEPT !.at = "spawned", !.by = c]]
                        /\ run' = [run EXCEPT ![c].at = "pid", ![c].gate = g]
    /\ UNCHANGED <<session, project, containers, socket, begun, asked, excuses>>

WritePid(c) ==
    /\ AtStep(c, "pid")
    /\ \/ session' = [session EXCEPT !.pid = run[c].gate] /\ Go(c, "health") /\ UNCHANGED excuses
       \/ FailCommand(c) /\ UNCHANGED session
    /\ UNCHANGED <<project, containers, gate, socket, begun, asked>>

\* The child loads the config file that it finds, and then takes the lock.
ChildLoads(g) ==
    /\ gate[g].at = "spawned"
    /\ IF session.config # {}
       THEN gate' = [gate EXCEPT ![g] = [@ EXCEPT !.at = "starting", !.conf = session.config]]
       ELSE gate' = [gate EXCEPT ![g].at = "gone"]
    /\ UNCHANGED <<session, project, containers, socket, run, begun, asked, excuses>>

ChildServes(g) ==
    /\ gate[g].at = "starting"
    /\ IF LockFree(gate[g].conf)
       THEN gate' = [gate EXCEPT ![g].at = "up"] /\ socket' = g
       ELSE gate' = [gate EXCEPT ![g].at = "gone"] /\ UNCHANGED socket
    /\ UNCHANGED <<session, project, containers, run, begun, asked, excuses>>

\* Phase 3: a gate answers on the socket, or a minute passes.
Healthy(c) ==
    /\ AtStep(c, "health")
    /\ socket # NoStack
    /\ run' = [run EXCEPT ![c] = Ready]
    /\ UNCHANGED <<session, project, containers, gate, socket, begun, asked, excuses>>

Unhealthy(c) ==
    /\ AtStep(c, "health") /\ socket = NoStack
    /\ run' = [run EXCEPT ![c].at = "terminate", ![c].kind = "start"]
    /\ UNCHANGED <<session, project, containers, gate, socket, begun, asked, excuses>>

--------------------------------------------------------------------------------
\* A command dies; a gate in its process dies with it, a child does not.
Dies(c) ==
    /\ run[c].at # "idle"
    /\ run' = [run EXCEPT ![c] = Ready]
    /\ gate' = [g \in Gates |-> IF run[c].at = "serving" /\ run[c].gate = g
                                THEN [gate[g] EXCEPT !.at = "gone"] ELSE gate[g]]
    /\ socket' = IF run[c].at = "serving" /\ socket = run[c].gate THEN NoStack ELSE socket
    /\ excuses' = IF run[c].at = "pem" THEN excuses \cup {"torn"} ELSE excuses
    /\ UNCHANGED <<session, project, containers, begun, asked>>

\* A command that dies in the middle of writing the config leaves a part of it.
DiesWriting(c) ==
    /\ AtStep(c, "config")
    /\ session' = [session EXCEPT !.config = {}]
    /\ run' = [run EXCEPT ![c] = Ready]
    /\ excuses' = excuses \cup {"torn"}
    /\ UNCHANGED <<project, containers, gate, socket, begun, asked>>

UpStep(c) ==
    \/ CheckDocker(c) \/ Discover(c) \/ Pinned(c) \/ PrepareState(c) \/ PrepareData(c)
    \/ WritePrometheus(c) \/ WriteSquid(c) \/ WriteCompose(c) \/ ComposeUp(c) \/ WaitHealthy(c)
    \/ GenerateConfig(c) \/ CopyPem(c) \/ Preflight(c) \/ Serve(c)

TuiStep(c) ==
    \/ Terminate(c) \/ StartRecovers(c) \/ StartRefused(c) \/ Spawn(c) \/ WritePid(c)
    \/ Healthy(c) \/ Unhealthy(c)

StackNext ==
    \/ \E c \in StackCommands :
         \/ \E p \in Projects : \/ \E mode \in {"embedded", "docker"}, reset \in BOOLEAN, posture \in Postures :
                                      Up(c, p, mode, reset, posture)
                                \/ Prune(c, p) \/ TuiStart(c, p) \/ TuiStop(c, p) \/ TuiRestart(c, p)
         \/ Down(c)
         \/ UpStep(c) \/ TuiStep(c)
         \/ NothingToClean(c) \/ ComposeDown(c) \/ RemoveState(c)
         \/ Dies(c) \/ DiesWriting(c)
    \/ \E g \in Gates : StackGateStops(g) \/ ChildLoads(g) \/ ChildServes(g)

StackSpec == StackInit /\ [][StackNext]_stackVars

--------------------------------------------------------------------------------
(***************************************************************************)
(* Properties.                                                             *)
(***************************************************************************)

\* No gate runs with a protection relaxed that no command line asked to relax in
\* that combination: neither a restart from the TUI, nor a config that is torn or
\* gone, nor the session of another command makes a posture up.
PostureWasAsked ==
    \A g \in Gates : gate[g].at \in {"starting", "up"} => The(gate[g].conf).posture \in asked \cup {{}}

\* While commands do not overlap, containers are running only when there is a compose
\* file, by which `latchgate down` finds them: after a failed start, after a command
\* that died at any step, and after a teardown that failed.
ContainersCanBeStopped ==
    (containers # "down" /\ "overlap" \notin excuses) => "compose" \in session.files

\* The key in the session is the one of the operator in the session's config, so that
\* who resolves the session can authenticate, unless commands overlapped or one ended
\* between the two writes.
SessionFits ==
    (session.config # {} /\ excuses \cap {"overlap", "torn"} = {}
     /\ \A c \in StackCommands : run[c].at # "pem") => session.pem = SessionConfig.op

\* The state directory belongs to the user and the ledger to a project: two gates
\* that serve at once never serve the same project.
OneGatePerLedger ==
    \A g, h \in Gates : (g # h /\ gate[g].at = "up" /\ gate[h].at = "up") => Data(g) # Data(h)

StackSafe == PostureWasAsked /\ ContainersCanBeStopped /\ SessionFits /\ OneGatePerLedger
================================================================================
