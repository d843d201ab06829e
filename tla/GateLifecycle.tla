---------------------------- MODULE GateLifecycle ----------------------------
(***************************************************************************)
(* The life of a gate process (crates/latchgate-api server.rs, listen.rs): *)
(* it starts under the ledger's writer lock, binds its listeners, executes *)
(* requests under the permits of the provider runtime, and stops when a    *)
(* signal or a failing TCP listener asks it to.  The process ends when the *)
(* client socket's server has drained, because that is the only one that   *)
(* serve() waits for; the others are detached tasks.                       *)
(*                                                                         *)
(* A request is followed only by what a shutdown can cut in two: the drain *)
(* guard, the intent, the permit, the run of the provider, its evidence.   *)
(***************************************************************************)
EXTENDS Integers, FiniteSets

CONSTANTS
    Processes,   \* gate processes, started one after the other or too early
    Calls,       \* requests that execute an action
    MaxPermits   \* MAX_CONCURRENT_EXECUTIONS

ASSUME LifecycleAssumption ==
    /\ MaxPermits \in Nat \ {0}
    /\ Processes # {} /\ "none" \notin Processes
    /\ IsFiniteSet(Calls)

Listeners == {"client", "admin", "tcp"}
UdsListeners == {"client", "admin"}
NoProcess == "none"

VARIABLES
    proc,      \* per process: "off", "serving", "flushing", "ended", "killed"
    lock,      \* the process that holds the ledger's writer lock
    stop,      \* per process: the shutdown watch channel
    server,    \* per process and listener: "unbound", "open", "done"
    socket,    \* per UDS path: the process whose socket the path names
    call,      \* per request: where it is, whose it is, what it has done
    draining,  \* per process: is_draining
    quiet      \* per process: the operator drained it and then saw no execution

lifeVars == <<proc, lock, stop, server, socket, call, draining, quiet>>

Call == [at : {"idle", "reading", "checked", "intent", "running", "ran", "answered",
               "refused", "dropped", "cut"},
         by : Processes, via : Listeners, acted : BOOLEAN, receipt : BOOLEAN]

LifeInit ==
    /\ proc = [g \in Processes |-> "off"]
    /\ lock = NoProcess
    /\ stop = [g \in Processes |-> FALSE]
    /\ server = [g \in Processes |-> [l \in Listeners |-> "unbound"]]
    /\ socket = [l \in UdsListeners |-> NoProcess]
    /\ call \in [Calls -> {[at |-> "idle", by |-> g, via |-> "client",
                            acted |-> FALSE, receipt |-> FALSE] :
                              g \in {CHOOSE p \in Processes : TRUE}}]
    /\ draining = [g \in Processes |-> FALSE]
    /\ quiet = [g \in Processes |-> FALSE]

--------------------------------------------------------------------------------
Alive(g) == proc[g] \in {"serving", "flushing"}

Ended == {"idle", "answered", "refused", "dropped", "cut"}

InHand(g) == {c \in Calls : call[c].by = g /\ call[c].at \notin Ended}

HoldsPermit(c) == call[c].at = "running"

\* in_flight_count: the permits that are out.
InFlight(g) == Cardinality({c \in InHand(g) : HoldsPermit(c)})

\* What the end of a process does to the requests it has in hand.
Cut(g) == call' = [c \in Calls |-> IF c \in InHand(g) THEN [call[c] EXCEPT !.at = "cut"]
                                   ELSE call[c]]

--------------------------------------------------------------------------------
\* A variant with a fault: the lock of the ledger file is not taken.
LockIgnored == TRUE

\* init_subsystems: the writer lock is taken, or the start fails.
LockIsFree == lock = NoProcess

Start(g) ==
    /\ proc[g] = "off"
    /\ LockIsFree
    /\ lock' = g
    /\ proc' = [proc EXCEPT ![g] = "serving"]
    /\ UNCHANGED <<stop, server, socket, call, draining, quiet>>

\* serve_uds removes what is at the path and binds; the TCP listener has no path.
Bind(g, l) ==
    /\ proc[g] = "serving" /\ server[g][l] = "unbound"
    /\ server' = [server EXCEPT ![g][l] = "open"]
    /\ socket' = IF l \in UdsListeners THEN [socket EXCEPT ![l] = g] ELSE socket
    /\ UNCHANGED <<proc, lock, stop, call, draining, quiet>>

\* SIGINT or SIGTERM.
Signal(g) ==
    /\ proc[g] = "serving" /\ ~stop[g]
    /\ stop' = [stop EXCEPT ![g] = TRUE]
    /\ UNCHANGED <<proc, lock, server, socket, call, draining, quiet>>

\* A TCP server that fails asks for a shutdown; a UDS server that fails ends the
\* process, as a kill does.
TcpFails(g) ==
    /\ Alive(g) /\ server[g]["tcp"] = "open" /\ ~stop[g]
    /\ server' = [server EXCEPT ![g]["tcp"] = "done"]
    /\ stop' = [stop EXCEPT ![g] = TRUE]
    /\ call' = [c \in Calls |-> IF c \in InHand(g) /\ call[c].via = "tcp"
                                THEN [call[c] EXCEPT !.at = "dropped"] ELSE call[c]]
    /\ UNCHANGED <<proc, lock, socket, draining, quiet>>

Killed(g) ==
    /\ Alive(g)
    /\ proc' = [proc EXCEPT ![g] = "killed"]
    /\ lock' = NoProcess
    /\ Cut(g)
    /\ UNCHANGED <<stop, server, socket, draining, quiet>>

\* Graceful shutdown of one server: nothing more is accepted, its requests end,
\* then whatever is at the socket's path is removed.
Drained(g, l) == \A c \in InHand(g) : call[c].via # l

ServerEnds(g, l) ==
    /\ Alive(g) /\ stop[g] /\ server[g][l] = "open"
    /\ Drained(g, l)
    /\ server' = [server EXCEPT ![g][l] = "done"]
    /\ socket' = IF l \in UdsListeners THEN [socket EXCEPT ![l] = NoProcess] ELSE socket
    /\ UNCHANGED <<proc, lock, stop, call, draining, quiet>>

\* The main task goes on when the client socket's server has returned.
Flush(g) ==
    /\ proc[g] = "serving" /\ server[g]["client"] = "done"
    /\ proc' = [proc EXCEPT ![g] = "flushing"]
    /\ UNCHANGED <<lock, stop, server, socket, call, draining, quiet>>

\* drain_subsystems has ended: main returns and the runtime drops every task.
End(g) ==
    /\ proc[g] = "flushing"
    /\ proc' = [proc EXCEPT ![g] = "ended"]
    /\ lock' = NoProcess
    /\ Cut(g)
    /\ UNCHANGED <<stop, server, socket, draining, quiet>>

--------------------------------------------------------------------------------
\* A server accepts until the shutdown resolves; a UDS path leads to the process
\* that bound it last.
Accept(c, g, l) ==
    /\ call[c].at = "idle"
    /\ Alive(g) /\ server[g][l] = "open" /\ ~stop[g]
    /\ l \in UdsListeners => socket[l] = g
    /\ call' = [call EXCEPT ![c].at = "reading", ![c].by = g, ![c].via = l]
    /\ UNCHANGED <<proc, lock, stop, server, socket, draining, quiet>>

Move(c, from, to) ==
    /\ call[c].at = from
    /\ call' = [call EXCEPT ![c].at = to]
    /\ UNCHANGED <<proc, lock, stop, server, socket, draining, quiet>>

\* The body has arrived: the drain guard.
DrainGuard(c) == Move(c, "reading", IF draining[call[c].by] THEN "refused" ELSE "checked")

\* Authentication, policy and the rest refuse it, or the intent is written.
PreDispatch(c) == Move(c, "checked", "intent") \/ Move(c, "checked", "refused")

\* execute: a permit, for as long as the provider runs.
AcquirePermit(c) ==
    /\ call[c].at = "intent" /\ InFlight(call[c].by) < MaxPermits
    /\ call' = [call EXCEPT ![c].at = "running", ![c].acted = TRUE]
    /\ UNCHANGED <<proc, lock, stop, server, socket, draining, quiet>>

\* It returns or the wall-clock limit ends it; the guard gives the permit back.
ProviderEnds(c) == Move(c, "running", "ran")

\* The receipt, or the error event that stands for it, and the answer.
Finalize(c) ==
    /\ call[c].at = "ran"
    /\ call' = [call EXCEPT ![c].at = "answered", ![c].receipt = TRUE]
    /\ UNCHANGED <<proc, lock, stop, server, socket, draining, quiet>>

\* The caller closes its connection: the handler is dropped where it stands.
Disconnect(c) ==
    /\ call[c].at \notin Ended
    /\ call' = [call EXCEPT ![c].at = "dropped"]
    /\ UNCHANGED <<proc, lock, stop, server, socket, draining, quiet>>

\* post_drain, and get_status read after it: no execution in flight.
Drain(g) ==
    /\ Alive(g) /\ ~draining[g]
    /\ draining' = [draining EXCEPT ![g] = TRUE]
    /\ quiet' = [quiet EXCEPT ![g] = InFlight(g) = 0]
    /\ UNCHANGED <<proc, lock, stop, server, socket, call>>

Status(g) ==
    /\ Alive(g) /\ draining[g] /\ ~quiet[g] /\ InFlight(g) = 0
    /\ quiet' = [quiet EXCEPT ![g] = TRUE]
    /\ UNCHANGED <<proc, lock, stop, server, socket, call, draining>>

Progress(c) == DrainGuard(c) \/ PreDispatch(c) \/ AcquirePermit(c) \/ ProviderEnds(c) \/ Finalize(c)

LifeNext ==
    \/ \E g \in Processes :
          \/ Start(g) \/ Signal(g) \/ TcpFails(g) \/ Killed(g) \/ Flush(g) \/ End(g)
          \/ Drain(g) \/ Status(g)
          \/ \E l \in Listeners : Bind(g, l) \/ ServerEnds(g, l)
    \/ \E c \in Calls : Progress(c) \/ Disconnect(c)
    \/ \E c \in Calls, g \in Processes, l \in Listeners : Accept(c, g, l)

\* Handlers are polled, the provider's run is limited, and the semaphore is fair:
\* a waiter that finds a permit time and again gets it.  A caller may take for
\* ever over its body.
LifeFairness ==
    /\ \A c \in Calls : /\ WF_lifeVars(PreDispatch(c)) /\ SF_lifeVars(AcquirePermit(c))
                        /\ WF_lifeVars(ProviderEnds(c)) /\ WF_lifeVars(Finalize(c))
    /\ \A g \in Processes : /\ WF_lifeVars(Flush(g)) /\ WF_lifeVars(End(g))
                            /\ WF_lifeVars(Bind(g, "client")) /\ WF_lifeVars(ServerEnds(g, "client"))

LifeSpec == LifeInit /\ [][LifeNext]_lifeVars

--------------------------------------------------------------------------------
(* What makes it correct.                                                      *)

\* Every variable has the shape the code gives it, and the permits suffice for the
\* executions that run.
LifeTypeOK ==
    /\ proc \in [Processes -> {"off", "serving", "flushing", "ended", "killed"}]
    /\ lock \in Processes \cup {NoProcess}
    /\ stop \in [Processes -> BOOLEAN]
    /\ server \in [Processes -> [Listeners -> {"unbound", "open", "done"}]]
    /\ socket \in [UdsListeners -> Processes \cup {NoProcess}]
    /\ call \in [Calls -> Call]
    /\ draining \in [Processes -> BOOLEAN]
    /\ quiet \in [Processes -> BOOLEAN]
    /\ \A g \in Processes : InFlight(g) <= MaxPermits

\* A path that a running gate has bound leads to it: neither a stale socket nor the
\* clean-up of a process that is still going down takes it away.
SocketLeadsToGate ==
    \A g \in Processes, l \in UdsListeners :
        Alive(g) /\ server[g][l] = "open" => socket[l] = g

\* A shutdown leaves no evidence gap on the client socket: a process that ended by
\* itself wrote the receipt of every execution it took there, unless the caller
\* went away.
ClientWorkRecorded ==
    \A c \in Calls :
        /\ call[c].acted /\ call[c].via = "client"
        /\ proc[call[c].by] = "ended" /\ call[c].at # "dropped"
        => call[c].receipt

\* An execution whose intent is written is not starved: it gets its permit, or its
\* caller or its process goes away.
WaitersGetPermits == \A c \in Calls : (call[c].at = "intent") ~> (call[c].at # "intent")

\* A gate that is asked to stop ends, unless a caller keeps it waiting for a body.
StopEnds ==
    \A g \in Processes :
        []<>(\A c \in InHand(g) : call[c].at # "reading")
            => (stop[g] ~> (proc[g] \in {"ended", "killed"}))

\* serve_http: the server "drains in-flight connections ..., ensuring that
\* mid-execution WASM dispatches produce receipts and audit events before the
\* process exits".
AllWorkRecorded ==
    \A c \in Calls :
        call[c].acted /\ proc[call[c].by] = "ended" /\ call[c].at # "dropped"
        => call[c].receipt

\* post_drain: callers wait for zero in-flight before SIGTERM "to ensure no
\* in-flight side effects are interrupted".
DrainedIsQuiet ==
    \A c \in Calls : quiet[call[c].by] /\ call[c].at = "cut" => ~call[c].acted

\* What clients and operators may rely on while gates start, drain and stop.
GateSafe == LifeTypeOK /\ SocketLeadsToGate /\ ClientWorkRecorded

\* A gate neither starves a request nor hangs in its shutdown.
GateProgress == WaitersGetPermits /\ StopEnds

--------------------------------------------------------------------------------
(***************************************************************************)
(* SecretsManager (crates/latchgate-providers secrets.rs): executions that *)
(* want the secrets of a SOPS file, a decryption that is a process of its  *)
(* own, and a cache keyed by the identity of the file.                     *)
(*                                                                         *)
(* A version of the file stands for its path, mtime and inode, and for the *)
(* secrets in it; the operator rotates them by writing the next version.   *)
(* Which names an execution gets of them is a filter and is left out, as   *)
(* is its error when a required one is missing.                            *)
(***************************************************************************)

CONSTANTS
    Readers,      \* executions
    MaxVersions   \* bound on the versions of the file

ASSUME SecretsAssumption == MaxVersions \in Nat \ {0}

Versions == 1..MaxVersions
NoVersion == 0

VARIABLES
    sopsFile,  \* the version in place
    held,      \* the cache: per key the version of the secrets held under it
    fresh,     \* the keys whose entries are younger than cache_ttl
    reader     \* per execution: where it is, what it decrypted, since when it asks

secretsVars == <<sopsFile, held, fresh, reader>>

SecretsTypeOK ==
    /\ sopsFile \in Versions
    /\ held \in [Versions -> Versions \cup {NoVersion}]
    /\ fresh \subseteq Versions
    /\ reader \in [Readers -> [at : {"idle", "lookup", "decrypt", "store", "done"},
                               got : Versions \cup {NoVersion}, since : Versions]]

SecretsInit ==
    /\ sopsFile = 1
    /\ held = [v \in Versions |-> NoVersion]
    /\ fresh = {}
    /\ reader = [r \in Readers |-> [at |-> "idle", got |-> NoVersion, since |-> 1]]

--------------------------------------------------------------------------------
Ask(r) ==
    /\ reader[r].at = "idle"
    /\ reader' = [reader EXCEPT ![r] = [at |-> "lookup", got |-> NoVersion, since |-> sopsFile]]
    /\ UNCHANGED <<sopsFile, held, fresh>>

\* The execution ends and its secrets are wiped with it.
Wipe(r) ==
    /\ reader[r].at = "done"
    /\ reader' = [reader EXCEPT ![r].at = "idle", ![r].got = NoVersion]
    /\ UNCHANGED <<sopsFile, held, fresh>>

\* file_cache_key and the lookup: an entry under the key that is young enough.
Lookup(r) ==
    /\ reader[r].at = "lookup"
    /\ reader' = IF held[sopsFile] # NoVersion /\ sopsFile \in fresh
                 THEN [reader EXCEPT ![r].at = "done", ![r].got = held[sopsFile]]
                 ELSE [reader EXCEPT ![r].at = "decrypt"]
    /\ UNCHANGED <<sopsFile, held, fresh>>

\* run_sops_decrypt reads the file, or fails and the execution with it.
Decrypt(r) ==
    /\ reader[r].at = "decrypt"
    /\ \/ reader' = [reader EXCEPT ![r].at = "store", ![r].got = sopsFile]
       \/ reader' = [reader EXCEPT ![r].at = "idle"]
    /\ UNCHANGED <<sopsFile, held, fresh>>

\* The key is computed a second time, from the file in place now.
StoreKey(r) == sopsFile

Store(r) ==
    /\ reader[r].at = "store"
    /\ held' = [held EXCEPT ![StoreKey(r)] = reader[r].got]
    /\ fresh' = fresh \cup {StoreKey(r)}
    /\ reader' = [reader EXCEPT ![r].at = "done"]
    /\ UNCHANGED sopsFile

\* An entry is cache_ttl old; it stays in the map.
Age(v) ==
    /\ v \in fresh
    /\ fresh' = fresh \ {v}
    /\ UNCHANGED <<sopsFile, held, reader>>

Rotate ==
    /\ sopsFile < MaxVersions
    /\ sopsFile' = sopsFile + 1
    /\ UNCHANGED <<held, fresh, reader>>

SecretsNext ==
    \/ Rotate
    \/ \E v \in Versions : Age(v)
    \/ \E r \in Readers : Ask(r) \/ Lookup(r) \/ Decrypt(r) \/ Store(r) \/ Wipe(r)

\* Executions go on and time passes; SOPS may fail for ever.
SecretsFairness ==
    /\ \A v \in Versions : WF_secretsVars(Age(v))
    /\ \A r \in Readers : WF_secretsVars(Lookup(r) \/ Decrypt(r) \/ Store(r) \/ Wipe(r))

SecretsSpec == SecretsInit /\ [][SecretsNext]_secretsVars

--------------------------------------------------------------------------------
(* What makes it correct.                                                      *)

\* No execution gets secrets of a file that was not there yet: a key never has an
\* entry from before or after its turn that is newer than the key.
NeverFromTheFuture ==
    /\ \A v \in Versions : held[v] # NoVersion => held[v] <= v
    /\ \A r \in Readers : reader[r].got <= sopsFile

\* A rotation is picked up in the end: once the file stays as it is, what the
\* executions get is what is in it, whatever was decrypted while it was replaced.
RotationTakesOver ==
    \A v \in Versions :
        <>[](sopsFile = v) => \A r \in Readers :
            <>[](reader[r].at = "done" => reader[r].got = v)

\* "The cache is invalidated when the file's mtime or inode changes, ensuring
\* rotated secrets are picked up even within the TTL window": an execution that
\* asks after a rotation gets the rotated secrets.
RotatedWithinTtl ==
    \A r \in Readers : reader[r].at = "done" => reader[r].got >= reader[r].since
================================================================================
