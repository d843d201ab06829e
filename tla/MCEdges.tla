-------------------------------- MODULE MCEdges --------------------------------
(***************************************************************************)
(* Small instances, for TLC, of what surrounds the handling of a request:  *)
(* the life of the gate process, the registry, the cache of decrypted      *)
(* secrets, the MCP adapter and the operators' clients, with the fairness  *)
(* their loops and timers justify.  Each behaviour exercises the one that  *)
(* `focus` names; the life of the process is looked at twice, across a     *)
(* restart with one request and in one process with two requests and all   *)
(* listeners; so are the clients, deciding alone and with all commands.    *)
(***************************************************************************)
EXTENDS GateLifecycle, McpAdapter, Registry, OperatorClients

\* A small registry: the binary has the first version of each action, the second
\* names another provider module and the third the same module and no schema.
CONSTANTS v1, v2, v3

FirstVersions == [a \in Named |-> v1]
TwoDigests == [v \in Manifests |-> IF v = v2 THEN 2 ELSE 1]

CONSTANTS g1, g2, c1, c2

VARIABLE focus

edgeVars == <<focus, lifeVars, secretsVars, adapterVars, registryVars, clientsVars>>

OneOfEach == [c \in {c1, c2} |-> IF c = c1 THEN "cli" ELSE "mcp"]
HeldByOne == [a \in {"a1"} |-> <<"d1">>]

EdgesInit ==
    /\ focus \in {"restart", "serve", "secrets", "adapter", "registry", "decide", "desk"}
    /\ LifeInit /\ SecretsInit /\ AdapterInit /\ RegistryInit /\ ClientsInit
    /\ focus # "registry" => install = [dev |-> FALSE, project |-> FALSE]
    /\ table = {}

InRestart == /\ call'[c2].at = "idle"
             /\ UNCHANGED draining
             /\ \A g \in Processes : server'[g]["tcp"] = "unbound"

InServe == proc'[g2] = "off"

\* Decisions alone, however the claims and the records fare.
InDecide ==
    /\ agreed' = {} /\ refused' = {} /\ UNCHANGED table
    /\ \A c \in Clients : typed'[c].cmd \in {"none", "approve", "deny"} /\ ~typed'[c].yes
\* Every command, no claim that runs out and no record that is lost.
InDesk ==
    /\ ranOut' = {}
    /\ \A a \in Approvals : status'[a] # "gone" /\ outcome'[a] \in {"none", status'[a]}

EdgesNext ==
    \/ /\ focus \in {"restart", "serve"} /\ LifeNext
       /\ focus = "restart" => InRestart
       /\ focus = "serve" => InServe
       /\ UNCHANGED <<focus, secretsVars, adapterVars, registryVars, clientsVars>>
    \/ /\ focus = "secrets" /\ SecretsNext
       /\ UNCHANGED <<focus, lifeVars, adapterVars, registryVars, clientsVars>>
    \/ /\ focus = "adapter" /\ AdapterNext
       /\ UNCHANGED <<focus, lifeVars, secretsVars, registryVars, clientsVars>>
    \/ /\ focus = "registry" /\ RegistryNext
       /\ UNCHANGED <<focus, lifeVars, secretsVars, adapterVars, clientsVars>>
    \/ /\ focus \in {"decide", "desk"} /\ ClientsNext
       /\ focus = "decide" => InDecide
       /\ focus = "desk" => InDesk
       /\ UNCHANGED <<focus, lifeVars, secretsVars, adapterVars, registryVars>>

\* The fairness of the four modules.  Steps outside the focus are never enabled
\* in GateLifecycle (nothing has started), in McpAdapter (no line was received,
\* nothing has been leased) and in OperatorClients (no command was given) by
\* their initial states; the secrets and the backoff
\* are idle there too.
EdgesSpec ==
    /\ EdgesInit /\ [][EdgesNext]_edgeVars
    /\ LifeFairness /\ SecretsFairness /\ AdapterFairness /\ ClientsFair

--------------------------------------------------------------------------------

\* Who asks the gate, or asks on its behalf, goes by what is true: secrets are
\* never newer than their read, a stale tool list is announced, and a client
\* reports what was done (secrets.rs, mcp/server.rs, cmd/approvals.rs).
CallersSafe ==
    /\ SecretsTypeOK /\ NeverFromTheFuture /\ StaleListAnnounced
    /\ ClientsTypeOK /\ ClientsSafe

\* Nobody waits for ever: requests for permits, a gate that stops, readers of a
\* rotated secret, lines of an MCP client, commands of an operator.
EdgesProgress == GateProgress /\ RotationTakesOver /\ AdapterProgress /\ CommandsEnd
================================================================================
