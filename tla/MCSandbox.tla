------------------------------ MODULE MCSandbox ------------------------------
(***************************************************************************)
(* Small instances, for TLC, of the sandbox.  Each behaviour exercises     *)
(* what `focus` names: the launch of one agent on any of the hosts; the    *)
(* proxy with one connection, all its faults and chunks enough to fill     *)
(* every pipe on the way down; or the proxy with two connections that      *)
(* compete for one slot and one permit.                                    *)
(***************************************************************************)
EXTENDS Sandbox

CONSTANTS t1, t2

VARIABLE focus

UpBound == [s \in Streams |-> 2]
DownBound == [s \in Streams |-> 3]

InTunnel == agent'[t2].at = "none"

InSlots == /\ listening'
           /\ \A s \in Streams :
                 /\ agent'[s].asks = "tunnel" /\ agent'[s].reads /\ agent'[s].sent < 2
                 /\ remote'[s].at # "reset" /\ remote'[s].reads /\ remote'[s].sent = 0

SandboxInit ==
    /\ focus \in {"launch", "tunnel", "slots"}
    /\ EgressInit /\ LaunchInit
    /\ focus # "launch" => host = [root |-> FALSE, hardened |-> FALSE, abi |-> 0,
                                   subreaper |-> FALSE]

SandboxNext ==
    \/ /\ focus = "launch" /\ LaunchNext
       /\ UNCHANGED <<focus, egressVars>>
    \/ /\ focus \in {"tunnel", "slots"} /\ EgressNext
       /\ focus = "tunnel" => InTunnel
       /\ focus = "slots" => InSlots
       /\ UNCHANGED <<focus, launchVars>>

\* The fair steps of the module out of focus are not enabled in its initial
\* state: nothing is connected, and no helper and no box is running.
SandboxSpec ==
    /\ SandboxInit /\ [][SandboxNext]_<<focus, egressVars, launchVars>>
    /\ EgressFairness /\ LaunchFairness

------------------------------------------------------------------------------

\* The agent runs behind every layer it was promised, and what follows a head
\* through the proxy leaves whole (sandbox/lib.rs, bwrap.rs, proxy.rs).
SandboxSafe == EgressSafe /\ LaunchTypeOK /\ LaunchSafe

\* What a sandbox takes is given back: permits, slots and handlers of the proxy,
\* and the processes of a launch (proxy.rs, bridge.rs, netns.rs).
SandboxProgress == EgressProgress /\ NothingOutlivesLauncher
==============================================================================
