------------------------------- MODULE Sandbox --------------------------------
(***************************************************************************)
(* The way out of a sandbox (crates/latchgate-sandbox): a connection of    *)
(* the agent to the loopback forwarder (loopback_forward.rs), which copies *)
(* it by two threads to the Unix socket of the egress proxy (proxy.rs),    *)
(* which opens a tunnel to an allowed host or forwards one request with a  *)
(* credential of its own.                                                  *)
(*                                                                         *)
(* A connection has six pipes, three up to the remote host and three down. *)
(* A pipe holds one chunk, ends when its writer shuts it (fin), and fails  *)
(* its writer when the reader has closed (gone).  What a thread of the     *)
(* forwarder has read and not written counts as still in the pipe; what    *)
(* the proxy has read it holds, and looks at nothing else until it is      *)
(* written.                                                                *)
(***************************************************************************)
EXTENDS Integers, Sequences, FiniteSets

LOCAL INSTANCE SequencesExt

CONSTANTS
    Streams,            \* connections
    MaxRelays,          \* the forwarder's bound
    MaxConnections,     \* the proxy's bound
    UpChunks,           \* UpChunks[s]: bound on what the agent sends on s
    DownChunks          \* DownChunks[s]: bound on what the remote host sends on s

ASSUME EgressAssumption ==
    /\ MaxRelays \in Nat /\ MaxConnections \in Nat
    /\ UpChunks \in [Streams -> Nat] /\ DownChunks \in [Streams -> Nat]

VARIABLES
    agent,      \* the agent's end: what it asks for, sent and got, and how it behaves
    bridge,     \* the forwarder: its two threads
    proxy,      \* the handler in the proxy
    remote,     \* the host it reached
    pipe,       \* the six pipes
    listening   \* whether the sandbox and the proxy's listener are up

egressVars == <<agent, bridge, proxy, remote, pipe, listening>>

Pipes == {"up1", "up2", "up3", "dn3", "dn2", "dn1"}

\* Every end of a handler but the first cuts the connection short.
Endings == {"none", "both", "failed", "idle", "refused", "answered"}

\* A handler that has a permit.
Holding == {"read", "dial", "tunnel", "writeUp", "writeDown", "body", "writeBody", "answer",
            "writeAnswer"}

Relays == {s \in Streams : bridge[s].at \in {"dial", "relay"}}
Permits == {s \in Streams : proxy[s].at \in Holding}

\* Types, with the two bounds on concurrent connections.
EgressTypeOK ==
    /\ agent \in [Streams -> [at : {"none", "open", "closed"}, fin : BOOLEAN,
                              reads : BOOLEAN, asks : {"tunnel", "forward"},
                              body : Nat, sent : Nat, got : Nat]]
    /\ bridge \in [Streams -> [at : {"none", "dial", "relay", "ended"},
                               up : BOOLEAN, down : BOOLEAN]]
    /\ proxy \in [Streams -> [at : {"none", "accepted", "done"} \cup Holding,
                              upDone : BOOLEAN, downDone : BOOLEAN, left : Nat,
                              early : 0 .. 1, end : Endings]]
    /\ remote \in [Streams -> [at : {"none", "open", "reset"}, reads : BOOLEAN,
                               sent : Nat, got : Nat]]
    /\ pipe \in [Streams -> [Pipes -> [n : 0 .. 1, fin : BOOLEAN, gone : BOOLEAN]]]
    /\ Cardinality(Relays) <= MaxRelays
    /\ Cardinality(Permits) <= MaxConnections

EgressInit ==
    /\ agent = [s \in Streams |-> [at |-> "none", fin |-> FALSE, reads |-> TRUE,
                                   asks |-> "tunnel", body |-> 0, sent |-> 0, got |-> 0]]
    /\ bridge = [s \in Streams |-> [at |-> "none", up |-> TRUE, down |-> TRUE]]
    /\ proxy = [s \in Streams |-> [at |-> "none", upDone |-> FALSE, downDone |-> FALSE,
                                   left |-> 0, early |-> 0, end |-> "none"]]
    /\ remote = [s \in Streams |-> [at |-> "none", reads |-> TRUE, sent |-> 0, got |-> 0]]
    /\ pipe = [s \in Streams |->
                  [k \in Pipes |-> [n |-> 0, fin |-> FALSE, gone |-> FALSE]]]
    /\ listening = TRUE

--------------------------------------------------------------------------------
\* Pipes.

Full(s, k) == pipe[s][k].n = 1
AtEnd(s, k) == pipe[s][k].n = 0 /\ pipe[s][k].fin
Writable(s, k) == pipe[s][k].n = 0 /\ ~pipe[s][k].gone
ReaderLeft(s, k) == pipe[s][k].gone

Taken(p, k) == [p EXCEPT ![k].n = 0]
Given(p, k) == [p EXCEPT ![k].n = IF p[k].gone THEN 0 ELSE 1]
Shut(p, k) == [p EXCEPT ![k].fin = TRUE]
Left(p, k) == [p EXCEPT ![k].gone = TRUE, ![k].n = 0]

SetPipe(s, p) == pipe' = [pipe EXCEPT ![s] = p]

--------------------------------------------------------------------------------
\* The agent and the remote host.

AgentConnects(s) ==
    /\ listening /\ agent[s].at = "none"
    /\ \E asks \in {"tunnel", "forward"}, body \in 0 .. UpChunks[s] :
          /\ asks = "tunnel" => body = 0
          /\ agent' = [agent EXCEPT ![s].at = "open", ![s].asks = asks, ![s].body = body]
    /\ UNCHANGED <<bridge, proxy, remote, pipe, listening>>

AgentSends(s) ==
    /\ agent[s].at = "open" /\ ~agent[s].fin /\ agent[s].sent < UpChunks[s]
    /\ Writable(s, "up1")
    /\ agent' = [agent EXCEPT ![s].sent = @ + 1]
    /\ SetPipe(s, Given(pipe[s], "up1"))
    /\ UNCHANGED <<bridge, proxy, remote, listening>>

AgentReads(s) ==
    /\ agent[s].at = "open" /\ agent[s].reads /\ Full(s, "dn1")
    /\ agent' = [agent EXCEPT ![s].got = @ + 1]
    /\ SetPipe(s, Taken(pipe[s], "dn1"))
    /\ UNCHANGED <<bridge, proxy, remote, listening>>

AgentFinishes(s) ==
    /\ agent[s].at = "open" /\ ~agent[s].fin
    /\ agent' = [agent EXCEPT ![s].fin = TRUE]
    /\ SetPipe(s, Shut(pipe[s], "up1"))
    /\ UNCHANGED <<bridge, proxy, remote, listening>>

AgentCloses(s) ==
    /\ agent[s].at = "open"
    /\ agent' = [agent EXCEPT ![s].at = "closed", ![s].fin = TRUE]
    /\ SetPipe(s, Left(Shut(pipe[s], "up1"), "dn1"))
    /\ UNCHANGED <<bridge, proxy, remote, listening>>

AgentStopsReading(s) ==
    /\ agent[s].at = "open" /\ agent[s].reads
    /\ agent' = [agent EXCEPT ![s].reads = FALSE]
    /\ UNCHANGED <<bridge, proxy, remote, pipe, listening>>

RemoteSends(s) ==
    /\ remote[s].at = "open" /\ ~pipe[s]["dn3"].fin /\ remote[s].sent < DownChunks[s]
    /\ Writable(s, "dn3")
    /\ remote' = [remote EXCEPT ![s].sent = @ + 1]
    /\ SetPipe(s, Given(pipe[s], "dn3"))
    /\ UNCHANGED <<agent, bridge, proxy, listening>>

RemoteReads(s) ==
    /\ remote[s].at = "open" /\ remote[s].reads /\ Full(s, "up3")
    /\ remote' = [remote EXCEPT ![s].got = @ + 1]
    /\ SetPipe(s, Taken(pipe[s], "up3"))
    /\ UNCHANGED <<agent, bridge, proxy, listening>>

RemoteFinishes(s) ==
    /\ remote[s].at = "open" /\ ~pipe[s]["dn3"].fin
    /\ SetPipe(s, Shut(pipe[s], "dn3"))
    /\ UNCHANGED <<agent, bridge, proxy, remote, listening>>

RemoteResets(s) ==
    /\ remote[s].at = "open"
    /\ remote' = [remote EXCEPT ![s].at = "reset"]
    /\ SetPipe(s, Left(Shut(pipe[s], "dn3"), "up3"))
    /\ UNCHANGED <<agent, bridge, proxy, listening>>

RemoteStopsReading(s) ==
    /\ remote[s].at = "open" /\ remote[s].reads
    /\ remote' = [remote EXCEPT ![s].reads = FALSE]
    /\ UNCHANGED <<agent, bridge, proxy, pipe, listening>>

--------------------------------------------------------------------------------
\* The forwarder.

\* run_forwarder: one connection at a time, dropped at the bound.
BridgeAccepts(s) ==
    /\ listening /\ agent[s].at # "none" /\ bridge[s].at = "none"
    /\ IF Cardinality(Relays) >= MaxRelays
       THEN /\ bridge' = [bridge EXCEPT ![s].at = "ended"]
            /\ SetPipe(s, Left(Shut(pipe[s], "dn1"), "up1"))
       ELSE /\ bridge' = [bridge EXCEPT ![s].at = "dial"]
            /\ UNCHANGED pipe
    /\ UNCHANGED <<agent, proxy, remote, listening>>

BridgeDials(s) ==
    /\ bridge[s].at = "dial"
    /\ bridge' = [bridge EXCEPT ![s].at = "relay"]
    /\ proxy' = [proxy EXCEPT ![s].at = "accepted"]
    /\ UNCHANGED <<agent, remote, pipe, listening>>

\* The thread from the agent to the proxy.  Its end shuts the proxy's side.
CopyUp(s) ==
    /\ bridge[s].at = "relay" /\ bridge[s].up
    /\ \/ /\ Full(s, "up1") /\ Writable(s, "up2")
          /\ SetPipe(s, Given(Taken(pipe[s], "up1"), "up2")) /\ UNCHANGED bridge
       \/ /\ AtEnd(s, "up1") \/ (Full(s, "up1") /\ ReaderLeft(s, "up2"))
          /\ SetPipe(s, Shut(Taken(pipe[s], "up1"), "up2"))
          /\ bridge' = [bridge EXCEPT ![s].up = FALSE]
    /\ UNCHANGED <<agent, proxy, remote, listening>>

\* A variant with a fault: the end of the answer is not passed on.
CopyDownNoShutdown(s) ==
    /\ bridge[s].at = "relay" /\ bridge[s].down
    /\ Full(s, "dn2") /\ Writable(s, "dn1")
    /\ SetPipe(s, Given(Taken(pipe[s], "dn2"), "dn1"))
    /\ UNCHANGED <<agent, bridge, proxy, remote, listening>>

\* The thread from the proxy to the agent.
CopyDown(s) ==
    /\ bridge[s].at = "relay" /\ bridge[s].down
    /\ \/ /\ Full(s, "dn2") /\ Writable(s, "dn1")
          /\ SetPipe(s, Given(Taken(pipe[s], "dn2"), "dn1")) /\ UNCHANGED bridge
       \/ /\ AtEnd(s, "dn2") \/ (Full(s, "dn2") /\ ReaderLeft(s, "dn1"))
          /\ SetPipe(s, Shut(Taken(pipe[s], "dn2"), "dn1"))
          /\ bridge' = [bridge EXCEPT ![s].down = FALSE]
    /\ UNCHANGED <<agent, proxy, remote, listening>>

\* Both threads are done: the sockets close and RelayGuard gives the slot back.
BridgeEnds(s) ==
    /\ bridge[s].at = "relay" /\ ~bridge[s].up /\ ~bridge[s].down
    /\ bridge' = [bridge EXCEPT ![s].at = "ended"]
    /\ SetPipe(s, Left(Left(pipe[s], "up1"), "dn2"))
    /\ UNCHANGED <<agent, proxy, remote, listening>>

--------------------------------------------------------------------------------
\* The proxy.

\* The handler returns: its sockets close, its permit is free.
Return(s, how, p) ==
    /\ proxy' = [proxy EXCEPT ![s].at = "done", ![s].end = how]
    /\ SetPipe(s, Left(Left(Shut(Shut(p, "dn2"), "up3"), "up2"), "dn3"))

Refuse(s, p) == Return(s, "refused", Given(p, "dn2"))

GoTo(s, at) == proxy' = [proxy EXCEPT ![s].at = at]

\* handle_connection: try_acquire, or 503.
ProxyAdmits(s) ==
    /\ proxy[s].at = "accepted"
    /\ IF Cardinality(Permits) < MaxConnections
       THEN GoTo(s, "read") /\ UNCHANGED pipe
       ELSE Refuse(s, pipe[s])
    /\ UNCHANGED <<agent, bridge, remote, listening>>

\* read_http_request, which waits as long as the agent takes.  What the forwarder has
\* already passed on behind the head comes with the same read (body_start).
ReadRequest(s) ==
    /\ proxy[s].at = "read"
    /\ \/ /\ Full(s, "up2")
          /\ \/ GoTo(s, "dial") /\ SetPipe(s, Taken(pipe[s], "up2"))
             \/ /\ bridge[s].at = "relay" /\ bridge[s].up /\ Full(s, "up1")
                /\ proxy' = [proxy EXCEPT ![s].at = "dial", ![s].early = 1]
                /\ SetPipe(s, Taken(Taken(pipe[s], "up1"), "up2"))
             \/ Refuse(s, Taken(pipe[s], "up2"))
       \/ AtEnd(s, "up2") /\ Refuse(s, pipe[s])
    /\ UNCHANGED <<agent, bridge, remote, listening>>

\* handle_connect and handle_reverse_proxy up to the first byte: the token, the route,
\* the allowlist, the addresses, the connection and its TLS, each of which may refuse.
\* A request is forwarded with what came with its head; a tunnel starts without it.
Dial(s) ==
    /\ proxy[s].at = "dial"
    /\ \/ Refuse(s, pipe[s]) /\ UNCHANGED remote
       \/ /\ remote' = [remote EXCEPT ![s].at = "open"]
          /\ CASE agent[s].asks = "forward" ->
                    /\ proxy' = [proxy EXCEPT
                          ![s].left = IF agent[s].body = 0 THEN 0 ELSE agent[s].body - proxy[s].early,
                          ![s].at = IF agent[s].body = 0 THEN "answer"
                                    ELSE IF proxy[s].early = 1 THEN "writeBody" ELSE "body"]
                    /\ UNCHANGED pipe
               [] agent[s].asks = "tunnel" /\ ReaderLeft(s, "dn2") -> Return(s, "failed", pipe[s])
               [] OTHER -> GoTo(s, "tunnel") /\ SetPipe(s, Given(pipe[s], "dn2"))
    /\ UNCHANGED <<agent, bridge, listening>>

\* relay_bidirectional, the branches of its select.  An end of one side is passed on
\* and the other side goes on.
TunnelReadsUp(s) ==
    /\ proxy[s].at = "tunnel" /\ ~proxy[s].upDone
    /\ \/ Full(s, "up2") /\ GoTo(s, "writeUp") /\ SetPipe(s, Taken(pipe[s], "up2"))
       \/ /\ AtEnd(s, "up2")
          /\ proxy' = [proxy EXCEPT ![s].upDone = TRUE]
          /\ SetPipe(s, Shut(pipe[s], "up3"))
    /\ UNCHANGED <<agent, bridge, remote, listening>>

TunnelReadsDown(s) ==
    /\ proxy[s].at = "tunnel" /\ ~proxy[s].downDone
    /\ \/ Full(s, "dn3") /\ GoTo(s, "writeDown") /\ SetPipe(s, Taken(pipe[s], "dn3"))
       \/ /\ AtEnd(s, "dn3") /\ remote[s].at = "open"
          /\ proxy' = [proxy EXCEPT ![s].downDone = TRUE]
          /\ SetPipe(s, Shut(pipe[s], "dn2"))
       \/ AtEnd(s, "dn3") /\ remote[s].at = "reset" /\ Return(s, "failed", pipe[s])
    /\ UNCHANGED <<agent, bridge, remote, listening>>

\* A chunk that was read is written, for as long as that takes: in the branch of the
\* select that read it the deadline is not looked at.
Write(s, at, k, next) ==
    /\ proxy[s].at = at
    /\ \/ Writable(s, k) /\ GoTo(s, next) /\ SetPipe(s, Given(pipe[s], k))
       \/ ReaderLeft(s, k) /\ Return(s, "failed", pipe[s])
    /\ UNCHANGED <<agent, bridge, remote, listening>>

TunnelWrites(s) == Write(s, "writeUp", "up3", "tunnel") \/ Write(s, "writeDown", "dn2", "tunnel")

TunnelFinishes(s) ==
    /\ proxy[s].at = "tunnel" /\ proxy[s].upDone /\ proxy[s].downDone
    /\ Return(s, "both", pipe[s])
    /\ UNCHANGED <<agent, bridge, remote, listening>>

Quiet(s, k, done) == done \/ ~(Full(s, k) \/ AtEnd(s, k))

\* The deadline, which every chunk puts off, passes only when there is nothing to read.
TunnelIdles(s) ==
    /\ proxy[s].at = "tunnel"
    /\ ~(proxy[s].upDone /\ proxy[s].downDone)
    /\ Quiet(s, "up2", proxy[s].upDone) /\ Quiet(s, "dn3", proxy[s].downDone)
    /\ Return(s, "idle", pipe[s])
    /\ UNCHANGED <<agent, bridge, remote, listening>>

\* relay_exact: the chunks that Content-Length promises, without a deadline.
ForwardBody(s) ==
    \/ /\ proxy[s].at = "body"
       /\ \/ /\ Full(s, "up2")
             /\ proxy' = [proxy EXCEPT ![s].at = "writeBody", ![s].left = @ - 1]
             /\ SetPipe(s, Taken(pipe[s], "up2"))
          \/ AtEnd(s, "up2") /\ Refuse(s, pipe[s])
       /\ UNCHANGED <<agent, bridge, remote, listening>>
    \/ Write(s, "writeBody", "up3", IF proxy[s].left = 0 THEN "answer" ELSE "body")

\* The answer, until its end or until nothing comes for IDLE_TIMEOUT.
ForwardAnswer(s) ==
    \/ /\ proxy[s].at = "answer"
       /\ \/ Full(s, "dn3") /\ GoTo(s, "writeAnswer") /\ SetPipe(s, Taken(pipe[s], "dn3"))
          \/ /\ AtEnd(s, "dn3")
             /\ Return(s, IF remote[s].at = "open" THEN "answered" ELSE "failed", pipe[s])
          \/ Quiet(s, "dn3", FALSE) /\ Return(s, "idle", pipe[s])
       /\ UNCHANGED <<agent, bridge, remote, listening>>
    \/ Write(s, "writeAnswer", "dn2", "answer")

\* The sandbox ends: the agent and the forwarder are killed with their namespace, and
\* launch_bwrap stops the listener.  The handlers run on.
Teardown ==
    /\ listening /\ listening' = FALSE
    /\ agent' = [s \in Streams |->
          IF agent[s].at = "none" THEN agent[s]
          ELSE [agent[s] EXCEPT !.at = "closed", !.fin = TRUE]]
    /\ bridge' = [s \in Streams |-> [bridge[s] EXCEPT !.at = "ended"]]
    /\ pipe' = [s \in Streams |-> Left(Shut(pipe[s], "up2"), "dn2")]
    /\ UNCHANGED <<proxy, remote>>

--------------------------------------------------------------------------------
AgentStep(s) ==
    AgentConnects(s) \/ AgentSends(s) \/ AgentReads(s) \/ AgentFinishes(s)
        \/ AgentCloses(s) \/ AgentStopsReading(s)

RemoteStep(s) ==
    RemoteSends(s) \/ RemoteReads(s) \/ RemoteFinishes(s) \/ RemoteResets(s)
        \/ RemoteStopsReading(s)

BridgeStep(s) == BridgeAccepts(s) \/ BridgeDials(s) \/ CopyUp(s) \/ CopyDown(s) \/ BridgeEnds(s)

ProxyStep(s) ==
    ProxyAdmits(s) \/ ReadRequest(s) \/ Dial(s) \/ TunnelReadsUp(s) \/ TunnelReadsDown(s)
        \/ TunnelWrites(s) \/ TunnelFinishes(s) \/ TunnelIdles(s)
        \/ ForwardBody(s) \/ ForwardAnswer(s)

EgressNext ==
    \/ \E s \in Streams : AgentStep(s) \/ RemoteStep(s) \/ BridgeStep(s) \/ ProxyStep(s)
    \/ Teardown

\* The threads of the forwarder and the tasks of the proxy run whenever they can, and a
\* peer that reads goes on reading.  Nobody has to send, finish or close.
EgressFairness ==
    \A s \in Streams :
        /\ WF_egressVars(ProxyStep(s)) /\ WF_egressVars(BridgeAccepts(s))
        /\ WF_egressVars(BridgeDials(s)) /\ WF_egressVars(CopyUp(s))
        /\ WF_egressVars(CopyDown(s)) /\ WF_egressVars(BridgeEnds(s))
        /\ WF_egressVars(AgentReads(s)) /\ WF_egressVars(RemoteReads(s))

EgressSpec == EgressInit /\ [][EgressNext]_egressVars /\ EgressFairness

--------------------------------------------------------------------------------
\* A tunnel that ends because both sides ended has delivered everything but what the
\* agent sent ahead of the proxy's answer and the proxy read with the head: a side that
\* finishes first, in either order and with data still on its way through five
\* buffers, does not cut the other one short (unless the sandbox itself is gone).
CleanEndsAreComplete ==
    \A s \in Streams :
        (listening /\ proxy[s].end = "both") =>
            /\ AtEnd(s, "up3") /\ remote[s].at = "open" => remote[s].got + 1 + proxy[s].early = agent[s].sent
            /\ bridge[s].at = "relay" /\ AtEnd(s, "dn1") /\ agent[s].at = "open"
                 => agent[s].got = remote[s].sent + 1

\* proxy.rs, read_http_request: it returns "any body bytes read past the header boundary.
\* The caller is responsible for relaying the body".  Not so in a tunnel.
TunnelLosesNothing ==
    \A s \in Streams :
        listening /\ proxy[s].end = "both" /\ AtEnd(s, "up3") /\ remote[s].at = "open"
            => remote[s].got + 1 = agent[s].sent

\* A handler does not keep its permit for ever, unless it waits for a request or a body
\* that the agent does not send, or for a peer that does not read.
PermitsComeBack ==
    \A s \in Streams :
        proxy[s].at \in Holding ~>
            \/ proxy[s].at = "done"
            \/ proxy[s].at \in {"read", "body"} /\ ~agent[s].fin
            \/ ~agent[s].reads \/ ~remote[s].reads

\* The forwarder gives the slot of a connection back once the proxy is done with it and
\* the agent has finished: each thread's end reaches the other through the proxy.
SlotsComeBack ==
    \A s \in Streams :
        (bridge[s].at = "relay" /\ proxy[s].at = "done" /\ agent[s].fin) ~>
            (bridge[s].at = "ended" \/ ~agent[s].reads)

\* When the sandbox is gone, so are the connections made for it, unless a remote host
\* does not read: launch_bwrap does not wait for the handlers.
TeardownReachesHandlers ==
    ~listening ~> \A s \in Streams : proxy[s].at \in {"none", "done"} \/ ~remote[s].reads

\* proxy.rs, IDLE_TIMEOUT: "connections with no data in either direction for this
\* duration are closed".  Not so when a peer stopped reading: see Write.
IdleTunnelsClosed ==
    \A s \in Streams : proxy[s].at \in {"tunnel", "writeUp", "writeDown"} ~> proxy[s].at = "done"

\* loopback_forward.rs, run_forwarder: "the proxy would reject it anyway".  Not so while
\* the agent leaves connections open that the proxy has ended.
DropsAreNeeded ==
    Cardinality(Relays) >= MaxRelays => \A s \in Relays : proxy[s].at # "done"

\* A connection that ended cleanly has delivered all that came after its head.
EgressSafe == EgressTypeOK /\ CleanEndsAreComplete

\* The proxy's permits, slots and handlers are given back.
EgressProgress == PermitsComeBack /\ SlotsComeBack /\ TeardownReachesHandlers

-------------------------------------------------------------------------------
(***************************************************************************)
(* How `latchgate sandbox` starts an agent (crates/latchgate-sandbox): the *)
(* launcher, as root the helper that holds the network namespace, bwrap    *)
(* and the shim it runs, the forwarder that the shim forks, and the agent  *)
(* that the shim becomes.  Any system call may fail, a handshake may time  *)
(* out, and the launcher may be told to stop or be killed at any time.     *)
(***************************************************************************)
CONSTANTS
    Abis,        \* the Landlock versions of the kernels considered, 0 for none
    X86          \* whether the build is for x86_64

ASSUME LaunchAssumption == Abis \subseteq Nat /\ X86 \in BOOLEAN

VARIABLES
    host,      \* the machine: root, hardened kernel, Landlock version, whose child an orphan is
    launch,    \* the launcher's step and what it has resolved
    helper,    \* the network namespace's holder
    box,       \* bwrap, then the shim, then the agent
    forward,   \* the forwarder
    layers,    \* what confines the process in the box
    did        \* system calls that the kernel let the agent make

launchVars == <<host, launch, helper, box, forward, layers, did>>

Nobody == 65534
Ids == {-1, 0, 1000}                 \* -1: not given
Owners == {<<0, 0>>, <<1000, 0>>, <<1000, 1000>>}
EnvNames == {"KEY", "PATH"}          \* KEY: what a credential route reads
Reserved == {"PATH"}

\* AgentSandboxConfig, by what validation and launch tell apart.
Config == [hosts : {"bare", "url"}, paths : {"absolute", "relative"}, workspace : {"absolute", "relative", "cwd"},
           env : SUBSET EnvNames, route : {"none", "env", "badport", "file"}, uid : Ids, gid : Ids]

\* A built-in profile; the defaults are one without a route.
Profile == [hosts |-> "bare", paths |-> "absolute", workspace |-> "cwd",
            env |-> {}, route |-> "env", uid |-> -1, gid |-> -1]
DefaultConfig == [Profile EXCEPT !.route = "none"]

\* The command line adds to the lists and replaces the rest.
Merge(config, workspace, env) ==
    [config EXCEPT !.workspace = IF workspace = "cwd" THEN @ ELSE workspace, !.env = @ \cup env]

Valid(c) ==
    /\ c.hosts = "bare"
    /\ "relative" \notin {c.paths, c.workspace}
    /\ c.env \cap Reserved = {}
    /\ c.uid # 0 /\ c.gid # 0
    /\ c.route # "file"

\* resolve_uid_gid_inner: the first that is not root's.
UidGid(sudo, sudoGid, uid, gid, owner) ==
    LET Or(g, u) == IF g > 0 THEN g ELSE u IN
    IF sudo > 0 THEN <<sudo, Or(sudoGid, sudo)>>
    ELSE IF uid > 0 THEN <<uid, Or(gid, uid)>>
    ELSE IF owner[1] # 0 THEN owner
    ELSE <<Nobody, Nobody>>

--------------------------------------------------------------------------------
\* The system calls that the filter tells apart, and the filter.
Blocked == {"mount", "setns", "memfd_create", "landlock_restrict_self"}
Pkey == {"pkey_alloc"}
NamespaceFlags == {"newnet", "newuser"}
Call == [arch : {"native", "other"}, x32 : {FALSE}, flags : {{}}, nr : Blocked \cup Pkey \cup {"read", "clone3"}]
        \cup [arch : {"native"}, x32 : {FALSE}, nr : {"clone"}, flags : SUBSET {"vfork", "newnet"}]
        \cup (IF X86 THEN [arch : {"native"}, x32 : {TRUE}, flags : {{}}, nr : {"mount", "read"}] ELSE {})

Ld(what) == <<[op |-> "ld", k |-> what, jt |-> 0, jf |-> 0]>>
Ret(verdict) == <<[op |-> "ret", k |-> verdict, jt |-> 0, jf |-> 0]>>
Jeq(k, jt, jf) == <<[op |-> "jeq", k |-> k, jt |-> jt, jf |-> jf]>>
Deny(nr) == Jeq(nr, 0, 1) \o Ret("eperm")

Denials(nrs) == FlattenSeq(SetToSeq({Deny(nr) : nr \in nrs}))

\* build_filter.  A call with the x32 bit has a number above all the others;
\* a call that is not clone skips the instructions about clone's flags.
FilterSkipping(n) ==
    Ld("arch") \o Jeq("native", 1, 0) \o Ret("kill")
    \o Ld("nr")
    \o (IF X86 THEN <<[op |-> "jge", k |-> "x32", jt |-> 0, jf |-> 1]>> \o Ret("kill") ELSE <<>>)
    \o Jeq("clone3", 0, 1) \o Ret("enosys")
    \o Jeq("clone", 0, n)
    \o Ld("flags") \o <<[op |-> "and", k |-> NamespaceFlags, jt |-> 0, jf |-> 0]>>
    \o Jeq({}, 1, 0) \o Ret("eperm") \o Ret("allow")
    \o Ld("nr")
    \o Denials(Blocked) \o Denials(IF X86 THEN Pkey ELSE {})
    \o Ret("allow")

\* A variant with a fault: a jump of the filter is one instruction short.
FilterOffByOne == FilterSkipping(4)
Filter == FilterSkipping(5)

\* What the kernel loads, and how it runs a filter from instruction i on.
Loads(call, what) == IF what = "arch" THEN call.arch
                     ELSE IF what = "flags" THEN call.flags
                     ELSE IF call.x32 THEN "x32" ELSE call.nr

RECURSIVE RunFilter(_, _, _)
RunFilter(call, i, acc) ==
    LET ins == Filter[i]
        Jump(test) == RunFilter(call, i + 1 + (IF test THEN ins.jt ELSE ins.jf), acc)
    IN  CASE ins.op = "ret" -> ins.k
          [] ins.op = "ld" -> RunFilter(call, i + 1, Loads(call, ins.k))
          [] ins.op = "and" -> RunFilter(call, i + 1, acc \cap ins.k)
          [] OTHER -> Jump(acc = ins.k)

--------------------------------------------------------------------------------
\* What bwrap mounts, and what Landlock's rules allow, per path in the box.
Paths == {"/workspace", "/usr", "/etc", "/tmp", "/proc", "/dev/null", "/run/latchgate", "ro_mount", "/"}
R == {"read"}   RX == {"read", "execute"}   RW == {"read", "write"}   RWX == RX \cup RW

MountRights == [p \in Paths |->
    CASE p \in {"/workspace", "/tmp"} -> RWX
      [] p \in {"/usr", "ro_mount"} -> RX
      [] p \in {"/etc"} -> RX
      [] OTHER -> RW]

LandlockRights == [p \in Paths |->
    CASE p = "/workspace" -> RWX
      [] p \in {"/usr", "ro_mount"} -> RX
      [] p \in {"/tmp", "/dev/null"} -> RW
      [] p \in {"/etc", "/proc", "/run/latchgate"} -> R
      [] OTHER -> {}]

\* The rights the process in the box has on a path.
Rights(p) == IF "landlock" \in layers THEN MountRights[p] \cap LandlockRights[p] ELSE MountRights[p]

\* The ports it may connect to: Landlock filters TCP from version 4 on.
MayConnect(port) == "landlock" \in layers /\ host.abi >= 4 => port = "forwarder"

Running == {"check", "creds", "proxy", "netns", "await", "stage", "wait", "cleanup"}
Over == {"done", "failed", "killed"}

LaunchTypeOK ==
    /\ host \in [root : BOOLEAN, hardened : BOOLEAN, abi : Abis, subreaper : BOOLEAN]
    /\ launch.at \in {"resolve"} \cup Running \cup Over
    /\ launch.config \in Config /\ launch.ok \in BOOLEAN /\ launch.route \in BOOLEAN
    /\ launch.tmp \in BOOLEAN /\ launch.proxy \in BOOLEAN /\ launch.forwards \in BOOLEAN
    /\ launch.ids \in (Nat \X Nat)
    /\ helper.at \in {"none", "forked", "bound", "net", "up", "holds", "gone"}
    /\ helper.dies \in BOOLEAN /\ helper.lo \in BOOLEAN
    /\ box.at \in {"none", "bwrap", "shim", "lo", "fork", "port", "caps", "nnp", "limits",
                   "landlock", "seccomp", "exec", "agent", "gone"}
    /\ box.lo \in BOOLEAN /\ box.env \subseteq EnvNames \cup {"PROXY", "TOKEN"}
    /\ forward.at \in {"none", "forked", "told", "serves", "gone"} /\ forward.caps \in BOOLEAN
    /\ layers \subseteq {"nocaps", "nnp", "rlimits", "landlock", "seccomp"}
    /\ did \subseteq Call

LaunchInit ==
    /\ host \in [root : BOOLEAN, hardened : BOOLEAN, abi : Abis, subreaper : BOOLEAN]
    /\ launch = [at |-> "resolve", config |-> DefaultConfig, ok |-> TRUE, route |-> FALSE, tmp |-> FALSE,
                 proxy |-> FALSE, forwards |-> FALSE, ids |-> <<0, 0>>]
    /\ helper = [at |-> "none", dies |-> FALSE, lo |-> FALSE]
    /\ box = [at |-> "none", lo |-> FALSE, env |-> {}]
    /\ forward = [at |-> "none", caps |-> FALSE]
    /\ layers = {} /\ did = {}

Alive == launch.at \notin Over

--------------------------------------------------------------------------------
\* The launcher.

\* The proxy's tasks end with it; a temporary directory goes when its guard is dropped.
RefuseLaunch == launch' = [launch EXCEPT !.at = "failed", !.tmp = FALSE, !.proxy = FALSE]

\* cmd/sandbox.rs: the configuration, merged and resolved.
Resolve ==
    /\ launch.at = "resolve"
    /\ \E base \in {Profile, DefaultConfig} \cup Config, workspace \in {"cwd", "absolute", "relative"},
          env \in SUBSET EnvNames, socket \in BOOLEAN :
          LET config == Merge(base, workspace, env) IN
          IF Valid(config) /\ socket
          THEN launch' = [launch EXCEPT !.at = "check", !.config = [config EXCEPT !.workspace = "cwd"]]
          ELSE RefuseLaunch
    /\ UNCHANGED <<host, helper, box, forward, layers, did>>

\* launch: without a bwrap that works there is no sandbox.
ProbeBwrap ==
    /\ launch.at = "check"
    /\ \/ launch' = [launch EXCEPT !.at = "creds"]
       \/ RefuseLaunch
    /\ UNCHANGED <<host, helper, box, forward, layers, did>>

\* resolve_credentials: a route whose variable is not set is skipped.
ResolveCredentials ==
    /\ launch.at = "creds"
    /\ \E set \in BOOLEAN :
          IF launch.config.route = "badport" /\ set THEN RefuseLaunch
          ELSE launch' = [launch EXCEPT !.at = "proxy", !.route = launch.config.route = "env" /\ set]
    /\ UNCHANGED <<host, helper, box, forward, layers, did>>

StartProxy ==
    /\ launch.at = "proxy"
    /\ \/ launch' = [launch EXCEPT !.at = IF host.root THEN "netns" ELSE "stage", !.tmp = TRUE, !.proxy = TRUE]
       \/ RefuseLaunch
    /\ UNCHANGED <<host, helper, box, forward, layers, did>>

\* spawn_helper, up to the fork.
SpawnHelper ==
    /\ launch.at = "netns"
    /\ \/ launch' = [launch EXCEPT !.at = "await"] /\ helper' = [helper EXCEPT !.at = "forked"]
       \/ RefuseLaunch /\ UNCHANGED helper
    /\ UNCHANGED <<host, box, forward, layers, did>>

\* wait_for_readiness: the byte, the end of the pipe, or ten seconds.
AwaitHelper ==
    /\ launch.at = "await"
    /\ \/ helper.at = "holds" /\ launch' = [launch EXCEPT !.at = "stage"] /\ UNCHANGED helper
       \/ RefuseLaunch /\ helper' = [helper EXCEPT !.at = "gone"]
    /\ UNCHANGED <<host, box, forward, layers, did>>

\* The namespace bwrap is given: the helper's, or one of its own whose loopback is down.
BoxStarts == box' = [box EXCEPT !.at = "bwrap", !.lo = host.root /\ helper.lo, !.env = launch.config.env \ Reserved]

\* launch_bwrap_inner, up to the spawn.
SpawnBwrap ==
    /\ launch.at = "stage"
    /\ \/ /\ \E sudo \in Ids, sudoGid \in Ids, owner \in Owners :
                launch' = [launch EXCEPT !.at = "wait", !.config = DefaultConfig,   \* not read again
                              !.ids = UidGid(sudo, sudoGid, launch.config.uid, launch.config.gid, owner)]
          /\ BoxStarts
       \/ launch' = [launch EXCEPT !.at = "cleanup", !.ok = FALSE] /\ UNCHANGED box
    /\ UNCHANGED <<host, helper, forward, layers, did>>

ForwardSignals ==
    /\ launch.at = "wait" /\ ~launch.forwards
    /\ launch' = [launch EXCEPT !.forwards = TRUE]
    /\ UNCHANGED <<host, helper, box, forward, layers, did>>

BoxEnds == /\ box' = [box EXCEPT !.at = "gone"]
           /\ forward' = [forward EXCEPT !.at = IF @ = "none" THEN @ ELSE "gone"]

\* SIGTERM or ctrl-c: passed on once the handler is there, else the end of the launcher.
Interrupt ==
    /\ launch.at \in Running \cup {"resolve"}
    /\ IF launch.forwards THEN launch.at = "wait" /\ box.at \notin {"none", "gone"} /\ BoxEnds /\ UNCHANGED launch
       ELSE launch' = [launch EXCEPT !.at = "killed", !.proxy = FALSE] /\ UNCHANGED <<box, forward>>
    /\ UNCHANGED <<host, helper, layers, did>>

KillLauncher ==
    /\ Alive
    /\ launch' = [launch EXCEPT !.at = "killed", !.proxy = FALSE]
    /\ UNCHANGED <<host, helper, box, forward, layers, did>>

WaitBox ==
    /\ launch.at = "wait" /\ box.at = "gone"
    /\ launch' = [launch EXCEPT !.at = "cleanup"]
    /\ UNCHANGED <<host, helper, box, forward, layers, did>>

\* launch_bwrap: the helper is killed and reaped, then the proxy, then the directory.
CleanUp ==
    /\ launch.at = "cleanup"
    /\ helper' = [helper EXCEPT !.at = IF @ = "none" THEN @ ELSE "gone"]
    /\ launch' = [launch EXCEPT !.at = IF launch.ok THEN "done" ELSE "failed", !.tmp = FALSE, !.proxy = FALSE]
    /\ UNCHANGED <<host, box, forward, layers, did>>

--------------------------------------------------------------------------------
\* helper_child.
HelperExits == helper' = [helper EXCEPT !.at = "gone"]

\* The death signal comes only for a parent that dies later; one that is dead already is
\* noticed where init is the one that adopts orphans.
HelperBinds ==
    /\ helper.at = "forked"
    /\ \/ /\ Alive \/ host.subreaper
          /\ helper' = [helper EXCEPT !.at = "bound", !.dies = Alive]
       \/ HelperExits
    /\ UNCHANGED <<host, launch, box, forward, layers, did>>

HelperUnshares ==
    /\ helper.at = "bound"
    /\ \/ helper' = [helper EXCEPT !.at = "net"]
       \/ HelperExits
    /\ UNCHANGED <<host, launch, box, forward, layers, did>>

HelperLoopback ==
    /\ helper.at = "net"
    /\ \/ helper' = [helper EXCEPT !.at = "up", !.lo = TRUE]
       \/ HelperExits
    /\ UNCHANGED <<host, launch, box, forward, layers, did>>

\* A pipe whose reader is gone takes no byte.
HelperReports ==
    /\ helper.at = "up"
    /\ IF launch.at = "await" THEN helper' = [helper EXCEPT !.at = "holds"] ELSE HelperExits
    /\ UNCHANGED <<host, launch, box, forward, layers, did>>

HelperDies ==
    /\ ~Alive /\ helper.at \notin {"none", "gone"} /\ helper.dies
    /\ HelperExits
    /\ UNCHANGED <<host, launch, box, forward, layers, did>>

--------------------------------------------------------------------------------
\* bwrap: --die-with-parent, and the namespaces around the shim.
BwrapStarts ==
    /\ box.at = "bwrap" /\ Alive
    /\ \/ box' = [box EXCEPT !.at = "shim"] /\ UNCHANGED forward
       \/ BoxEnds
    /\ UNCHANGED <<host, launch, helper, layers, did>>

BoxDies ==
    /\ ~Alive /\ box.at \notin {"none", "gone"}
    /\ BoxEnds
    /\ UNCHANGED <<host, launch, helper, layers, did>>

\* A step of run_sandbox_init: on, or out.
Shim(at, next) ==
    /\ box.at = at
    /\ \/ box' = [box EXCEPT !.at = next] /\ UNCHANGED forward
       \/ BoxEnds

\* verify_seals, read_config_from_fd, chdir.
ReadsConfig == Shim("shim", "lo") /\ UNCHANGED <<host, launch, helper, layers, did>>

\* bring_up_loopback: nothing to do in the helper's namespace; a hardened kernel refuses.
BringsUpLoopback ==
    /\ box.at = "lo"
    /\ \/ (box.lo \/ ~host.hardened) /\ box' = [box EXCEPT !.at = "fork", !.lo = TRUE] /\ UNCHANGED forward
       \/ ~box.lo /\ BoxEnds
    /\ UNCHANGED <<host, launch, helper, layers, did>>

\* A rootless box has CAP_NET_ADMIN until the shim drops it.
ForksForwarder ==
    /\ box.at = "fork"
    /\ \/ box' = [box EXCEPT !.at = "port"] /\ forward' = [at |-> "forked", caps |-> ~host.root]
       \/ BoxEnds
    /\ UNCHANGED <<host, launch, helper, layers, did>>

\* read_port_from_pipe; then the variables that depend on the port.
ReadsPort ==
    /\ box.at = "port"
    /\ \/ /\ forward.at = "told"
          /\ box' = [box EXCEPT !.at = "caps",
                        !.env = @ \cup {"PROXY"} \cup (IF launch.route THEN {"TOKEN"} ELSE {})]
          /\ forward' = [forward EXCEPT !.at = "serves"]
       \/ BoxEnds
    /\ UNCHANGED <<host, launch, helper, layers, did>>

\* drop_capabilities: a kernel may refuse, and then they stay.
DropsCapabilities ==
    /\ Shim("caps", "nnp")
    /\ \/ layers' = layers \cup {"nocaps"}
       \/ host.hardened /\ UNCHANGED layers
    /\ UNCHANGED <<host, launch, helper, did>>

NoNewPrivileges == Shim("nnp", "limits") /\ layers' = layers \cup {"nnp"} /\ UNCHANGED <<host, launch, helper, did>>

AppliesRlimits ==
    /\ Shim("limits", IF host.abi > 0 THEN "landlock" ELSE "seccomp") /\ layers' = layers \cup {"rlimits"}
    /\ UNCHANGED <<host, launch, helper, did>>

AppliesLandlock ==
    /\ Shim("landlock", "seccomp") /\ layers' = layers \cup {"landlock"}
    /\ UNCHANGED <<host, launch, helper, did>>

AppliesSeccomp == Shim("seccomp", "exec") /\ layers' = layers \cup {"seccomp"} /\ UNCHANGED <<host, launch, helper, did>>

ExecsCommand == Shim("exec", "agent") /\ UNCHANGED <<host, launch, helper, layers, did>>

\* The forwarder child: bind, report the port, serve.
ForwarderBinds ==
    /\ forward.at = "forked"
    /\ \E at \in {"told", "gone"} : forward' = [forward EXCEPT !.at = at]
    /\ UNCHANGED <<host, launch, helper, box, layers, did>>

AgentCalls ==
    /\ box.at = "agent"
    /\ \E call \in Call :
          LET verdict == RunFilter(call, 1, "none") IN
          \/ verdict = "allow" /\ did' = did \cup {call} /\ UNCHANGED <<box, forward>>
          \/ verdict = "kill" /\ BoxEnds /\ UNCHANGED did
    /\ UNCHANGED <<host, launch, helper, layers>>

AgentExits ==
    /\ box.at = "agent" /\ BoxEnds
    /\ UNCHANGED <<host, launch, helper, layers, did>>

LaunchNext ==
    \/ Resolve \/ ProbeBwrap \/ ResolveCredentials \/ StartProxy \/ SpawnHelper \/ AwaitHelper
    \/ SpawnBwrap \/ ForwardSignals \/ Interrupt \/ KillLauncher \/ WaitBox \/ CleanUp
    \/ HelperBinds \/ HelperUnshares \/ HelperLoopback \/ HelperReports \/ HelperDies
    \/ BwrapStarts \/ BoxDies \/ ReadsConfig \/ BringsUpLoopback \/ ForksForwarder \/ ReadsPort
    \/ DropsCapabilities \/ NoNewPrivileges \/ AppliesRlimits \/ AppliesLandlock \/ AppliesSeccomp
    \/ ExecsCommand \/ ForwarderBinds \/ AgentCalls \/ AgentExits

\* Processes run; the kernel delivers death signals.
LaunchFairness ==
    /\ WF_launchVars(HelperBinds) /\ WF_launchVars(HelperUnshares) /\ WF_launchVars(HelperLoopback)
    /\ WF_launchVars(HelperReports) /\ WF_launchVars(HelperDies) /\ WF_launchVars(BoxDies)

LaunchSpec == LaunchInit /\ [][LaunchNext]_launchVars /\ LaunchFairness

--------------------------------------------------------------------------------
\* When the agent's command runs, every layer the kernel has is in place around it, it is
\* not root, and the address in its proxy variables is one a forwarder serves; Landlock
\* leaves it no place but the workspace that it may both write and execute from.
AgentIsConfined ==
    box.at = "agent" =>
        /\ {"nnp", "rlimits", "seccomp"} \subseteq layers
        /\ host.abi > 0 => "landlock" \in layers
        /\ ~host.hardened => "nocaps" \in layers
        /\ launch.ids[1] # 0 /\ box.lo /\ forward.at = "serves" /\ "PROXY" \in box.env
        /\ host.abi > 0 => \A p \in Paths : {"write", "execute"} \subseteq Rights(p) => p = "/workspace"
        /\ host.abi >= 4 => ~MayConnect("other")

\* The filter's jumps land where they should: nothing of what it blocks is ever done, by any
\* of the numbers that lead to it, and a process is cloned only without new namespaces.
CallsWithinFilter ==
    \A call \in did :
        /\ call.arch = "native" /\ ~call.x32 /\ call.flags \cap NamespaceFlags = {}
        /\ call.nr \notin Blocked \cup {"clone3"} /\ (X86 => call.nr \notin Pkey)

\* A launch that returns has reaped its helper, and its proxy, its directory and every process
\* of the box are gone; a failed one as well as one that ran.
NothingLeftBehind ==
    launch.at \in {"done", "failed"} =>
        /\ helper.at \in {"none", "gone"} /\ box.at \in {"none", "gone"} /\ forward.at \in {"none", "gone"}
        /\ ~launch.tmp /\ ~launch.proxy

\* lib.rs launch, bwrap.rs run_sandbox_init: the three above.
LaunchSafe == AgentIsConfined /\ CallsWithinFilter /\ NothingLeftBehind

\* netns.rs, bwrap.rs: whatever ends the launcher, and at whichever step, the helper and the
\* box end too.
NothingOutlivesLauncher ==
    ~Alive ~> helper.at \in {"none", "gone"} /\ box.at \in {"none", "gone"} /\ forward.at \in {"none", "gone"}

\* loopback_forward.rs:33-35 has the forwarder spawned after the capabilities are dropped.
ForwarderHasNoCaps == forward.at = "serves" => ~forward.caps

\* bwrap.rs:58: the gid "must not be 0".
AgentNotInRootGroup == box.at = "agent" => launch.ids[2] # 0
===============================================================================
