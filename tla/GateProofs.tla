------------------------------ MODULE GateProofs ------------------------------
(***************************************************************************)
(* Where the gate meets its surroundings, for every value of the           *)
(* constants: gates that start, drain, stop and die, the cache of          *)
(* decrypted secrets, the MCP adapter's list of tools, the operators'      *)
(* clients and the action registry.                                        *)
(*                                                                         *)
(* Why gates leave no evidence gap on the client socket, for every number  *)
(* of processes, requests and permits: the writer lock leaves at most one  *)
(* process alive, so what is at a socket's path is its own; and a process  *)
(* ends by itself only after its client server has drained, so only a kill *)
(* cuts a client's request.  The arguments for the others are with their   *)
(* invariants.                                                             *)
(***************************************************************************)
EXTENDS MCEdges, FiniteSetTheorems, TLAPS

LifeTypes ==
    /\ proc \in [Processes -> {"off", "serving", "flushing", "ended", "killed"}]
    /\ lock \in Processes \cup {NoProcess}
    /\ stop \in [Processes -> BOOLEAN]
    /\ server \in [Processes -> [Listeners -> {"unbound", "open", "done"}]]
    /\ socket \in [UdsListeners -> Processes \cup {NoProcess}]
    /\ call \in [Calls -> Call]
    /\ draining \in [Processes -> BOOLEAN]
    /\ quiet \in [Processes -> BOOLEAN]

\* Who is alive holds the lock, who has not started has bound nothing, and who
\* flushes has drained its client socket.
ProcessInv(g) ==
    /\ Alive(g) => lock = g
    /\ proc[g] = "off" => \A l \in Listeners : server[g][l] = "unbound"
    /\ proc[g] = "flushing" => server[g]["client"] = "done"

\* A request in hand is a living process's, and a client's not one of a server
\* that is done; what is cut was killed or came by another door; and what a
\* request has done follows from where it is.
RequestInv(c) ==
    /\ call[c].at \notin Ended =>
          /\ Alive(call[c].by)
          /\ call[c].via = "client" => server[call[c].by]["client"] # "done"
    /\ call[c].at = "cut" => /\ proc[call[c].by] \in {"ended", "killed"}
                             /\ call[c].via = "client" => proc[call[c].by] = "killed"
    /\ call[c].at \in {"idle", "reading", "checked", "intent", "refused"} => ~call[c].acted
    /\ call[c].at = "answered" => call[c].receipt

PermitInv == \A g \in Processes : InFlight(g) <= MaxPermits

LifeInv ==
    /\ LifeTypes
    /\ \A g \in Processes : ProcessInv(g)
    /\ SocketLeadsToGate
    /\ \A c \in Calls : RequestInv(c)
    /\ PermitInv

--------------------------------------------------------------------------------
(* Requests as records, and the permits they hold.                             *)

LEMMA CallFields ==
    ASSUME NEW x \in Call
    PROVE  /\ x.at \in {"idle", "reading", "checked", "intent", "running", "ran", "answered",
                        "refused", "dropped", "cut"}
           /\ x.by \in Processes /\ x.via \in Listeners
           /\ x.acted \in BOOLEAN /\ x.receipt \in BOOLEAN
  BY DEF Call

LEMMA FirstProcess == (CHOOSE p \in Processes : TRUE) \in Processes
  BY LifecycleAssumption

Holders(g) == {c \in Calls : call[c].by = g /\ call[c].at = "running"}

LEMMA InFlightHolders ==
    ASSUME NEW g
    PROVE  /\ InFlight(g) = Cardinality(Holders(g))
           /\ InFlight(g)' = Cardinality(Holders(g)')
           /\ IsFiniteSet(Holders(g)) /\ IsFiniteSet(Holders(g)')
           /\ Cardinality(Holders(g)) \in Nat /\ Cardinality(Holders(g)') \in Nat
  <1>1. {c \in InHand(g) : HoldsPermit(c)} = Holders(g)
    BY DEF InHand, HoldsPermit, Holders, Ended
  <1>2. {c \in InHand(g) : HoldsPermit(c)}' = Holders(g)'
    BY DEF InHand, HoldsPermit, Holders, Ended
  <1>3. IsFiniteSet(Calls)
    BY LifecycleAssumption
  <1>4. Holders(g) \subseteq Calls /\ Holders(g)' \subseteq Calls
    BY DEF Holders
  <1>5. IsFiniteSet(Holders(g)) /\ IsFiniteSet(Holders(g)')
    BY <1>3, <1>4, FS_Subset
  <1>6. Cardinality(Holders(g)) \in Nat /\ Cardinality(Holders(g)') \in Nat
    BY <1>5, FS_CardinalityType
  <1> QED
    BY <1>1, <1>2, <1>5, <1>6 DEF InFlight

\* Where nobody starts to run, the permits suffice.
LEMMA PermitsKept ==
    ASSUME PermitInv, \A g \in Processes : Holders(g)' \subseteq Holders(g)
    PROVE  PermitInv'
  <1> SUFFICES ASSUME NEW g \in Processes PROVE InFlight(g)' <= MaxPermits
    BY DEF PermitInv
  <1>1. Cardinality(Holders(g)') <= Cardinality(Holders(g))
    BY InFlightHolders, FS_Subset
  <1> QED
    BY <1>1, InFlightHolders, LifecycleAssumption DEF PermitInv

--------------------------------------------------------------------------------
(* A step of one request, its process as it was.                               *)

\* The request c is x afterwards, a state it may be in.
LEMMA RequestStep ==
    ASSUME LifeInv, NEW c \in Calls, NEW x \in Call,
           call' = [call EXCEPT ![c] = x],
           UNCHANGED <<proc, lock, stop, server, socket, draining, quiet>>,
           x.at \notin Ended =>
              /\ Alive(x.by)
              /\ x.via = "client" => server[x.by]["client"] # "done",
           x.at # "cut",
           x.at \in {"idle", "reading", "checked", "intent", "refused"} => ~x.acted,
           x.at = "answered" => x.receipt,
           x.at = "running" => InFlight(x.by) < MaxPermits /\ call[c].at # "running"
    PROVE  LifeInv'
  <1>1. LifeTypes'
    BY DEF LifeInv, LifeTypes
  <1>2. \A g \in Processes : ProcessInv(g)'
    BY DEF LifeInv, ProcessInv, Alive
  <1>3. SocketLeadsToGate'
    BY DEF LifeInv, SocketLeadsToGate, Alive
  <1>4. ASSUME NEW d \in Calls PROVE RequestInv(d)'
    <2>1. CASE d = c
      <3>1. call'[d] = x
        BY <2>1 DEF LifeInv, LifeTypes
      <3> QED
        BY <3>1 DEF RequestInv, Alive, Ended
    <2>2. CASE d # c
      <3>1. call'[d] = call[d]
        BY <2>2 DEF LifeInv, LifeTypes
      <3> QED
        BY <3>1 DEF LifeInv, RequestInv, Alive
    <2> QED
      BY <2>1, <2>2
  <1>5. PermitInv'
    <2>1. \A d \in Calls : call'[d] = IF d = c THEN x ELSE call[d]
      BY DEF LifeInv, LifeTypes
    <2>2. CASE x.at # "running"
      <3>1. \A g \in Processes : Holders(g)' \subseteq Holders(g)
        BY <2>1, <2>2 DEF Holders
      <3> QED
        BY <3>1, PermitsKept DEF LifeInv
    <2>3. CASE x.at = "running"
      <3> SUFFICES ASSUME NEW g \in Processes PROVE InFlight(g)' <= MaxPermits
        BY DEF PermitInv
      <3>1. CASE g # x.by
        <4>1. Holders(g)' \subseteq Holders(g)
          BY <2>1, <3>1 DEF Holders
        <4>2. Cardinality(Holders(g)') <= Cardinality(Holders(g))
          BY <4>1, InFlightHolders, FS_Subset
        <4> QED
          BY <4>2, InFlightHolders, LifecycleAssumption DEF LifeInv, PermitInv
      <3>2. CASE g = x.by
        <4>1. Holders(g)' = Holders(g) \cup {c} /\ c \notin Holders(g)
          BY <2>1, <2>3, <3>2 DEF Holders
        <4>2. Cardinality(Holders(g)') = Cardinality(Holders(g)) + 1
          BY <4>1, InFlightHolders, FS_AddElement
        <4> QED
          BY <2>3, <3>2, <4>2, InFlightHolders, LifecycleAssumption
      <3> QED
        BY <3>1, <3>2
    <2> QED
      BY <2>2, <2>3
  <1> QED
    BY <1>1, <1>2, <1>3, <1>4, <1>5 DEF LifeInv

LEMMA AcceptKept ==
    ASSUME LifeInv, NEW c \in Calls, NEW g \in Processes, NEW l \in Listeners, Accept(c, g, l)
    PROVE  LifeInv'
  <1> DEFINE x == [call[c] EXCEPT !.at = "reading", !.by = g, !.via = l]
  <1>1. call[c] \in Call
    BY DEF LifeInv, LifeTypes
  <1>2. /\ x \in Call /\ x.at = "reading" /\ x.by = g /\ x.via = l
        /\ x.acted = call[c].acted
    BY <1>1 DEF Call
  <1>3. call' = [call EXCEPT ![c] = x]
    BY DEF Accept
  <1>4. ~call[c].acted
    BY DEF LifeInv, RequestInv, Accept
  <1>5. Alive(g) /\ server[g][l] = "open"
        /\ UNCHANGED <<proc, lock, stop, server, socket, draining, quiet>>
    BY DEF Accept
  <1> HIDE DEF x
  <1> QED
    BY <1>2, <1>3, <1>4, <1>5, RequestStep

\* A request that only moves on.
LEMMA MoveKept ==
    ASSUME LifeInv, NEW c \in Calls, NEW from, NEW to, Move(c, from, to),
           <<from, to>> \in {<<"reading", "refused">>, <<"reading", "checked">>,
                             <<"checked", "intent">>, <<"checked", "refused">>,
                             <<"running", "ran">>}
    PROVE  LifeInv'
  <1> DEFINE x == [call[c] EXCEPT !.at = to]
  <1>1. call[c] \in Call /\ RequestInv(c)
    BY DEF LifeInv, LifeTypes
  <1>2. /\ x \in Call /\ x.at = to /\ x.by = call[c].by /\ x.via = call[c].via
        /\ x.acted = call[c].acted
    BY <1>1 DEF Call
  <1>3. /\ call' = [call EXCEPT ![c] = x] /\ call[c].at = from
        /\ UNCHANGED <<proc, lock, stop, server, socket, draining, quiet>>
    BY DEF Move
  <1> HIDE DEF x
  <1>4. /\ x.at \notin Ended =>
              /\ Alive(x.by)
              /\ x.via = "client" => server[x.by]["client"] # "done"
        /\ x.at # "cut" /\ x.at # "answered" /\ x.at # "running"
        /\ x.at \in {"idle", "reading", "checked", "intent", "refused"} => ~x.acted
    BY <1>1, <1>2, <1>3 DEF RequestInv, Ended
  <1> QED
    BY <1>2, <1>3, <1>4, RequestStep

LEMMA AcquirePermitKept ==
    ASSUME LifeInv, NEW c \in Calls, AcquirePermit(c)
    PROVE  LifeInv'
  <1> DEFINE x == [call[c] EXCEPT !.at = "running", !.acted = TRUE]
  <1>1. call[c] \in Call /\ RequestInv(c)
    BY DEF LifeInv, LifeTypes
  <1>2. x \in Call /\ x.at = "running" /\ x.by = call[c].by /\ x.via = call[c].via
    BY <1>1 DEF Call
  <1>3. /\ call' = [call EXCEPT ![c] = x]
        /\ call[c].at = "intent" /\ InFlight(call[c].by) < MaxPermits
        /\ UNCHANGED <<proc, lock, stop, server, socket, draining, quiet>>
    BY DEF AcquirePermit
  <1> HIDE DEF x
  <1>4. Alive(x.by) /\ (x.via = "client" => server[x.by]["client"] # "done")
    BY <1>1, <1>2, <1>3 DEF RequestInv, Ended
  <1>5. InFlight(x.by) < MaxPermits
    BY <1>2, <1>3
  <1> QED
    BY <1>2, <1>3, <1>4, <1>5, RequestStep

LEMMA FinalizeKept ==
    ASSUME LifeInv, NEW c \in Calls, Finalize(c)
    PROVE  LifeInv'
  <1> DEFINE x == [call[c] EXCEPT !.at = "answered", !.receipt = TRUE]
  <1>1. call[c] \in Call
    BY DEF LifeInv, LifeTypes
  <1>2. x \in Call /\ x.at = "answered" /\ x.receipt
    BY <1>1 DEF Call
  <1>3. /\ call' = [call EXCEPT ![c] = x]
        /\ UNCHANGED <<proc, lock, stop, server, socket, draining, quiet>>
    BY DEF Finalize
  <1> HIDE DEF x
  <1>4. x.at \in Ended
    BY <1>2 DEF Ended
  <1> QED
    BY <1>2, <1>3, <1>4, RequestStep

LEMMA DisconnectKept ==
    ASSUME LifeInv, NEW c \in Calls, Disconnect(c)
    PROVE  LifeInv'
  <1> DEFINE x == [call[c] EXCEPT !.at = "dropped"]
  <1>1. call[c] \in Call
    BY DEF LifeInv, LifeTypes
  <1>2. x \in Call /\ x.at = "dropped"
    BY <1>1 DEF Call
  <1>3. /\ call' = [call EXCEPT ![c] = x]
        /\ UNCHANGED <<proc, lock, stop, server, socket, draining, quiet>>
    BY DEF Disconnect
  <1> HIDE DEF x
  <1>4. x.at \in Ended
    BY <1>2 DEF Ended
  <1> QED
    BY <1>2, <1>3, <1>4, RequestStep

LEMMA ProgressKept ==
    ASSUME LifeInv, NEW c \in Calls, Progress(c)
    PROVE  LifeInv'
  <1>1. CASE DrainGuard(c)
    BY <1>1, MoveKept DEF DrainGuard
  <1>2. CASE PreDispatch(c)
    BY <1>2, MoveKept DEF PreDispatch
  <1>3. CASE ProviderEnds(c)
    BY <1>3, MoveKept DEF ProviderEnds
  <1> QED
    BY <1>1, <1>2, <1>3, AcquirePermitKept, FinalizeKept DEF Progress

--------------------------------------------------------------------------------
(* Steps of a process, its requests as they were.                              *)

\* What the invariant says of the requests, when no process ends and no client
\* server of a request in hand does.
LEMMA CallsKept ==
    ASSUME LifeInv, UNCHANGED call,
           \A g \in Processes :
              /\ Alive(g) => Alive(g)'
              /\ proc[g] \in {"ended", "killed"} => proc'[g] = proc[g]
              /\ (\E c \in InHand(g) : call[c].via = "client") =>
                    (server[g]["client"] # "done" => server'[g]["client"] # "done")
    PROVE  (\A c \in Calls : RequestInv(c)') /\ PermitInv'
  <1>1. ASSUME NEW c \in Calls PROVE RequestInv(c)'
    <2>1. call[c].by \in Processes /\ RequestInv(c)
      BY CallFields DEF LifeInv, LifeTypes
    <2>2. call[c].at \notin Ended => c \in InHand(call[c].by)
      BY DEF InHand
    <2>3. call'[c] = call[c]
      OBVIOUS
    <2>a. call[c].at \notin Ended => Alive(call[c].by)'
      BY <2>1 DEF RequestInv
    <2>b. call[c].at \notin Ended /\ call[c].via = "client"
              => server'[call[c].by]["client"] # "done"
      BY <2>1, <2>2 DEF RequestInv
    <2>c. call[c].at = "cut" => /\ proc'[call[c].by] \in {"ended", "killed"}
                                /\ call[c].via = "client" => proc'[call[c].by] = "killed"
      BY <2>1 DEF RequestInv
    <2> QED
      BY <2>1, <2>3, <2>a, <2>b, <2>c DEF RequestInv, Alive
  <1>2. \A g \in Processes : Holders(g)' \subseteq Holders(g)
    BY DEF Holders
  <1> QED
    BY <1>1, <1>2, PermitsKept DEF LifeInv

LEMMA StartKept ==
    ASSUME LifeInv, NEW g \in Processes, Start(g)
    PROVE  LifeInv'
  <1> USE DEF LifeInv
  <1>1. /\ proc[g] = "off" /\ lock = NoProcess /\ lock' = g
        /\ \A h \in Processes : proc'[h] = IF h = g THEN "serving" ELSE proc[h]
        /\ UNCHANGED <<stop, server, socket, call, draining, quiet>>
    BY DEF Start, LockIsFree, LifeTypes
  <1>2. LifeTypes'
    BY DEF LifeTypes, Start
  <1>3. \A h \in Processes : ~Alive(h)
    BY <1>1, LifecycleAssumption DEF ProcessInv, NoProcess
  <1>4. \A h \in Processes : Alive(h)' => h = g
    BY <1>1, <1>3 DEF Alive
  <1>5. \A h \in Processes : ProcessInv(h)'
    BY <1>1, <1>4 DEF ProcessInv
  <1>6. SocketLeadsToGate'
    BY <1>1, <1>4 DEF SocketLeadsToGate, ProcessInv, UdsListeners, Listeners
  <1>7. (\A c \in Calls : RequestInv(c)') /\ PermitInv'
    BY <1>1, <1>3, CallsKept DEF Alive
  <1> QED
    BY <1>2, <1>5, <1>6, <1>7

LEMMA OneAlive ==
    ASSUME LifeInv, NEW g \in Processes, NEW h \in Processes, Alive(g), Alive(h)
    PROVE  g = h
  BY DEF LifeInv, ProcessInv

LEMMA BindKept ==
    ASSUME LifeInv, NEW g \in Processes, NEW l \in Listeners, Bind(g, l)
    PROVE  LifeInv'
  <1> USE DEF LifeInv
  <1>1. /\ proc[g] = "serving" /\ server[g][l] = "unbound"
        /\ \A h \in Processes, m \in Listeners :
              server'[h][m] = IF h = g /\ m = l THEN "open" ELSE server[h][m]
        /\ UNCHANGED <<proc, lock, stop, call, draining, quiet>>
    BY DEF Bind, LifeTypes
  <1>2. LifeTypes'
    BY DEF LifeTypes, Bind
  <1>3. \A h \in Processes : ProcessInv(h)'
    BY <1>1 DEF ProcessInv, Alive, Listeners
  <1>4. \A m \in UdsListeners : socket'[m] = IF m = l THEN g ELSE socket[m]
    BY DEF Bind, LifeTypes
  <1>5. Alive(g) /\ \A h \in Processes : Alive(h) => h = g
    BY <1>1, OneAlive DEF Alive
  <1>6. SocketLeadsToGate'
    BY <1>1, <1>4, <1>5 DEF SocketLeadsToGate, Alive, UdsListeners, Listeners
  <1>7. "client" \in Listeners
    BY DEF Listeners
  <1>8. (\A c \in Calls : RequestInv(c)') /\ PermitInv'
    BY <1>1, <1>7, CallsKept DEF Alive
  <1> QED
    BY <1>2, <1>3, <1>6, <1>8

LEMMA SignalKept ==
    ASSUME LifeInv, NEW g \in Processes, Signal(g)
    PROVE  LifeInv'
  <1> USE DEF LifeInv
  <1>1. LifeTypes'
    BY DEF LifeTypes, Signal
  <1>2. UNCHANGED <<proc, lock, server, socket, call>>
    BY DEF Signal
  <1>3. (\A h \in Processes : ProcessInv(h)') /\ SocketLeadsToGate'
    BY <1>2 DEF ProcessInv, SocketLeadsToGate, Alive
  <1>4. (\A c \in Calls : RequestInv(c)') /\ PermitInv'
    BY <1>2, CallsKept DEF Alive
  <1> QED
    BY <1>1, <1>3, <1>4

LEMMA OperatorKept ==
    ASSUME LifeInv, NEW g \in Processes, Drain(g) \/ Status(g)
    PROVE  LifeInv'
  <1> USE DEF LifeInv
  <1>1. draining' \in [Processes -> BOOLEAN] /\ quiet' \in [Processes -> BOOLEAN]
    BY DEF LifeTypes, Drain, Status
  <1>2. UNCHANGED <<proc, lock, stop, server, socket, call>>
    BY DEF Drain, Status
  <1>3. LifeTypes'
    BY <1>1, <1>2 DEF LifeTypes
  <1>4. (\A h \in Processes : ProcessInv(h)') /\ SocketLeadsToGate'
    BY <1>2 DEF ProcessInv, SocketLeadsToGate, Alive
  <1>5. (\A c \in Calls : RequestInv(c)') /\ PermitInv'
    BY <1>2, CallsKept DEF Alive
  <1> QED
    BY <1>3, <1>4, <1>5

\* A server that ends has no request left, and what is at its path is its own.
LEMMA ServerEndsKept ==
    ASSUME LifeInv, NEW g \in Processes, NEW l \in Listeners, ServerEnds(g, l)
    PROVE  LifeInv'
  <1> USE DEF LifeInv
  <1>1. /\ Alive(g) /\ server[g][l] = "open" /\ Drained(g, l)
        /\ \A h \in Processes, m \in Listeners :
              server'[h][m] = IF h = g /\ m = l THEN "done" ELSE server[h][m]
        /\ UNCHANGED <<proc, lock, stop, call, draining, quiet>>
    BY DEF ServerEnds, LifeTypes
  <1>2. LifeTypes'
    BY DEF LifeTypes, ServerEnds
  <1>3. \A h \in Processes : ProcessInv(h)'
    BY <1>1 DEF ProcessInv, Alive, Listeners
  <1>4. \A m \in UdsListeners : socket'[m] = IF m = l THEN NoProcess ELSE socket[m]
    BY DEF ServerEnds, LifeTypes
  <1>5. \A h \in Processes : Alive(h) => h = g
    BY <1>1, OneAlive
  <1>6. SocketLeadsToGate'
    BY <1>1, <1>4, <1>5 DEF SocketLeadsToGate, Alive, UdsListeners, Listeners
  <1>7. "client" \in Listeners
    BY DEF Listeners
  <1>8. (\A c \in Calls : RequestInv(c)') /\ PermitInv'
    BY <1>1, <1>7, CallsKept DEF Alive, Drained
  <1> QED
    BY <1>2, <1>3, <1>6, <1>8

LEMMA FlushKept ==
    ASSUME LifeInv, NEW g \in Processes, Flush(g)
    PROVE  LifeInv'
  <1> USE DEF LifeInv
  <1>1. /\ proc[g] = "serving" /\ server[g]["client"] = "done"
        /\ \A h \in Processes : proc'[h] = IF h = g THEN "flushing" ELSE proc[h]
        /\ UNCHANGED <<lock, stop, server, socket, call, draining, quiet>>
    BY DEF Flush, LifeTypes
  <1>2. LifeTypes'
    BY DEF LifeTypes, Flush
  <1>3. \A h \in Processes : Alive(h)' <=> Alive(h)
    BY <1>1 DEF Alive
  <1>4. (\A h \in Processes : ProcessInv(h)') /\ SocketLeadsToGate'
    BY <1>1, <1>3 DEF ProcessInv, SocketLeadsToGate
  <1>5. (\A c \in Calls : RequestInv(c)') /\ PermitInv'
    BY <1>1, <1>3, CallsKept
  <1> QED
    BY <1>2, <1>4, <1>5

--------------------------------------------------------------------------------
(* Steps that end requests a process has in hand.                              *)

\* Requests that are put to an end, to be cut only where their process is over.
LEMMA CallsEnd ==
    ASSUME LifeInv, NEW S \in SUBSET Calls, NEW to \in {"dropped", "cut"},
           call' = [c \in Calls |-> IF c \in S THEN [call[c] EXCEPT !.at = to] ELSE call[c]]
    PROVE  /\ call' \in [Calls -> Call]
           /\ PermitInv'
           /\ \A c \in S : /\ call'[c].at = to /\ call'[c].by = call[c].by
                           /\ call'[c].via = call[c].via
           /\ \A c \in Calls \ S : call'[c] = call[c]
  <1> USE DEF LifeInv
  <1>1. \A c \in Calls : call[c] \in Call
    BY DEF LifeTypes
  <1>2. \A c \in S : /\ call'[c] = [call[c] EXCEPT !.at = to] /\ call'[c] \in Call
                     /\ call'[c].at = to /\ call'[c].by = call[c].by
                     /\ call'[c].via = call[c].via
    BY <1>1 DEF Call
  <1>3. \A c \in Calls \ S : call'[c] = call[c]
    OBVIOUS
  <1>4. call' \in [Calls -> Call]
    <2>1. \A c \in Calls : call'[c] \in Call
      BY <1>1, <1>2, <1>3
    <2> QED
      BY <2>1
  <1>5. \A g \in Processes : Holders(g)' \subseteq Holders(g)
    BY <1>2, <1>3 DEF Holders
  <1> QED
    BY <1>2, <1>3, <1>4, <1>5, PermitsKept

LEMMA TcpFailsKept ==
    ASSUME LifeInv, NEW g \in Processes, TcpFails(g)
    PROVE  LifeInv'
  <1> USE DEF LifeInv
  <1> DEFINE S == {c \in InHand(g) : call[c].via = "tcp"}
  <1>1. /\ \A h \in Processes, m \in Listeners :
              server'[h][m] = IF h = g /\ m = "tcp" THEN "done" ELSE server[h][m]
        /\ UNCHANGED <<proc, lock, socket>>
    BY DEF TcpFails, LifeTypes
  <1>2. call' = [c \in Calls |-> IF c \in S THEN [call[c] EXCEPT !.at = "dropped"]
                                 ELSE call[c]]
    BY DEF TcpFails
  <1>3. S \in SUBSET Calls
    BY DEF InHand
  <1> HIDE DEF S
  <1>4. /\ call' \in [Calls -> Call] /\ PermitInv'
        /\ \A c \in S : call'[c].at = "dropped"
        /\ \A c \in Calls \ S : call'[c] = call[c]
    BY <1>2, <1>3, CallsEnd
  <1>5. LifeTypes'
    <2>1. server' \in [Processes -> [Listeners -> {"unbound", "open", "done"}]]
          /\ stop' \in [Processes -> BOOLEAN]
          /\ UNCHANGED <<proc, lock, socket, draining, quiet>>
      BY DEF LifeTypes, TcpFails
    <2> QED
      BY <1>4, <2>1 DEF LifeTypes
  <1>6. (\A h \in Processes : ProcessInv(h)') /\ SocketLeadsToGate'
    <2>1. server[g]["tcp"] = "open" /\ Alive(g)
      BY DEF TcpFails
    <2>2. \A h \in Processes : ProcessInv(h)'
      BY <1>1, <2>1 DEF ProcessInv, Alive, Listeners
    <2>3. SocketLeadsToGate'
      BY <1>1 DEF SocketLeadsToGate, Alive, Listeners, UdsListeners
    <2> QED
      BY <2>2, <2>3
  <1>7. ASSUME NEW c \in Calls PROVE RequestInv(c)'
    <2>1. CASE c \in S
      BY <1>4, <2>1 DEF RequestInv, Ended
    <2>2. CASE c \notin S
      <3>1. call'[c] = call[c] /\ call[c].by \in Processes
        BY <1>4, <2>2, CallFields DEF LifeTypes
      <3>2. server'[call[c].by]["client"] = server[call[c].by]["client"]
        BY <1>1, <3>1 DEF Listeners
      <3> QED
        BY <1>1, <3>1, <3>2 DEF RequestInv, Alive
    <2> QED
      BY <2>1, <2>2
  <1> QED
    BY <1>4, <1>5, <1>6, <1>7

\* The end of a process: by a kill, or by itself when its client socket is drained.
LEMMA EndKept ==
    ASSUME LifeInv, NEW g \in Processes, Killed(g) \/ End(g)
    PROVE  LifeInv'
  <1> USE DEF LifeInv
  <1> DEFINE over == IF Killed(g) THEN "killed" ELSE "ended"
  <1>1. /\ Alive(g) /\ lock' = NoProcess
        /\ \A h \in Processes : proc'[h] = IF h = g THEN over ELSE proc[h]
        /\ UNCHANGED <<stop, server, socket, draining, quiet>>
    BY DEF Killed, End, Alive, LifeTypes
  <1>2. call' = [c \in Calls |-> IF c \in InHand(g) THEN [call[c] EXCEPT !.at = "cut"]
                                 ELSE call[c]]
    BY DEF Killed, End, Cut
  <1>3. InHand(g) \in SUBSET Calls
    BY DEF InHand
  <1>4. /\ call' \in [Calls -> Call] /\ PermitInv'
        /\ \A c \in InHand(g) : /\ call'[c].at = "cut" /\ call'[c].by = call[c].by
                                /\ call'[c].via = call[c].via
        /\ \A c \in Calls \ InHand(g) : call'[c] = call[c]
    BY <1>2, <1>3, CallsEnd
  <1>5. \A c \in InHand(g) : over = "ended" => call[c].via # "client"
    <2>1. over = "ended" => server[g]["client"] = "done"
      BY DEF End, ProcessInv
    <2> QED
      BY <2>1 DEF RequestInv, InHand
  <1>6. over \in {"killed", "ended"}
    OBVIOUS
  <1> HIDE DEF over
  <1>7. LifeTypes'
    <2>1. /\ proc' \in [Processes -> {"off", "serving", "flushing", "ended", "killed"}]
          /\ lock' \in Processes \cup {NoProcess}
      BY DEF LifeTypes, Killed, End
    <2> QED
      BY <1>1, <1>4, <2>1 DEF LifeTypes
  <1>8. \A h \in Processes : ~Alive(h)'
    BY <1>1, <1>6, OneAlive DEF Alive
  <1>9. (\A h \in Processes : ProcessInv(h)') /\ SocketLeadsToGate'
    BY <1>1, <1>6, <1>8 DEF ProcessInv, SocketLeadsToGate, Alive
  <1>10. ASSUME NEW c \in Calls PROVE RequestInv(c)'
    <2>1. CASE c \in InHand(g)
      <3>1. call[c].by = g
        BY <2>1 DEF InHand
      <3>2. call'[c].at = "cut" /\ call'[c].by = g /\ call'[c].via = call[c].via
        BY <1>4, <2>1, <3>1
      <3> QED
        BY <1>1, <1>5, <1>6, <2>1, <3>2 DEF RequestInv, Ended
    <2>2. CASE c \notin InHand(g)
      <3>1. call'[c] = call[c] /\ call[c].by \in Processes
        BY <1>4, <2>2, CallFields DEF LifeTypes
      <3>2. call[c].at \in Ended
        BY <1>1, <2>2, <3>1, OneAlive DEF InHand, RequestInv
      <3>3. call[c].at = "cut" => call[c].by # g
        BY <1>1 DEF RequestInv, Alive
      <3> QED
        BY <1>1, <3>1, <3>2, <3>3 DEF RequestInv
    <2> QED
      BY <2>1, <2>2
  <1> QED
    BY <1>4, <1>7, <1>9, <1>10

--------------------------------------------------------------------------------
(* The invariant, and what clients and operators may rely on.                  *)

\* Every reachable state satisfies LifeInv: one process at a time is alive, and a
\* request in hand belongs to it (server.rs and listen.rs).
THEOREM LifeInvariant == LifeSpec => []LifeInv
  <1>1. LifeInit => LifeInv
    <2> SUFFICES ASSUME LifeInit PROVE LifeInv
      OBVIOUS
    <2> DEFINE first == CHOOSE p \in Processes : TRUE
    <2>1. first \in Processes
      BY FirstProcess
    <2> HIDE DEF first
    <2>2. \A c \in Calls : call[c] = [at |-> "idle", by |-> first, via |-> "client",
                                      acted |-> FALSE, receipt |-> FALSE]
      BY DEF LifeInit, first
    <2>3. call \in [Calls -> Call]
      <3>a. [at |-> "idle", by |-> first, via |-> "client",
             acted |-> FALSE, receipt |-> FALSE] \in Call
        BY <2>1 DEF Call, Listeners
      <3>1. \A c \in Calls : call[c] \in Call
        BY <2>2, <3>a, Zenon
      <3>2. call = [c \in Calls |-> call[c]]
        BY DEF LifeInit
      <3> QED
        BY <3>1, <3>2
    <2>4. LifeTypes
      BY <2>3 DEF LifeInit, LifeTypes
    <2>5. \A g \in Processes : ProcessInv(g) /\ ~Alive(g)
      BY DEF LifeInit, ProcessInv, Alive
    <2>6. \A c \in Calls : RequestInv(c)
      BY <2>2 DEF RequestInv, Ended
    <2>7. PermitInv
      <3> SUFFICES ASSUME NEW g \in Processes PROVE InFlight(g) <= MaxPermits
        BY DEF PermitInv
      <3>1. Holders(g) = {}
        BY <2>2 DEF Holders
      <3> QED
        BY <3>1, InFlightHolders, FS_EmptySet, LifecycleAssumption
    <2> QED
      BY <2>4, <2>5, <2>6, <2>7 DEF LifeInv, SocketLeadsToGate
  <1>2. LifeInv /\ [LifeNext]_lifeVars => LifeInv'
    <2> SUFFICES ASSUME LifeInv, [LifeNext]_lifeVars PROVE LifeInv'
      OBVIOUS
    <2>1. ASSUME NEW g \in Processes,
                 \/ Start(g) \/ Signal(g) \/ TcpFails(g) \/ Killed(g) \/ Flush(g) \/ End(g)
                 \/ Drain(g) \/ Status(g)
          PROVE  LifeInv'
      BY <2>1, StartKept, SignalKept, TcpFailsKept, EndKept, FlushKept, OperatorKept
    <2>2. ASSUME NEW g \in Processes, NEW l \in Listeners, Bind(g, l) \/ ServerEnds(g, l)
          PROVE  LifeInv'
      BY <2>2, BindKept, ServerEndsKept
    <2>3. ASSUME NEW c \in Calls, Progress(c) \/ Disconnect(c)
          PROVE  LifeInv'
      BY <2>3, ProgressKept, DisconnectKept
    <2>4. ASSUME NEW c \in Calls, NEW g \in Processes, NEW l \in Listeners, Accept(c, g, l)
          PROVE  LifeInv'
      BY <2>4, AcceptKept
    <2>5. CASE UNCHANGED lifeVars
      <3>1. UNCHANGED <<proc, lock, stop, server, socket, call, draining, quiet>>
        BY <2>5 DEF lifeVars
      <3>2. (\A c \in Calls : RequestInv(c)') /\ PermitInv'
        BY <3>1, CallsKept DEF Alive
      <3> QED
        BY <3>1, <3>2 DEF LifeInv, LifeTypes, ProcessInv, SocketLeadsToGate, Alive
    <2> QED
      BY <2>1, <2>2, <2>3, <2>4, <2>5 DEF LifeNext
  <1> QED
    BY <1>1, <1>2, PTL DEF LifeSpec

\* While gates start, drain, stop and die, a path that a running gate has bound leads
\* to it, the permits suffice, and a gate that ended by itself has written the receipt
\* of every execution it took on the client socket, unless its caller went away.
THEOREM GateIsSafe == LifeSpec => []GateSafe
  <1>1. LifeInv => GateSafe
    <2> SUFFICES ASSUME LifeInv PROVE GateSafe
      OBVIOUS
    <2>1. LifeTypeOK
      BY DEF LifeInv, LifeTypes, PermitInv, LifeTypeOK
    <2>2. ClientWorkRecorded
      <3> SUFFICES ASSUME NEW c \in Calls,
                          call[c].acted /\ call[c].via = "client",
                          proc[call[c].by] = "ended" /\ call[c].at # "dropped"
                   PROVE  call[c].receipt
        BY DEF ClientWorkRecorded
      <3>1. RequestInv(c) /\ call[c] \in Call
        BY DEF LifeInv, LifeTypes
      <3>2. call[c].at \in {"idle", "reading", "checked", "intent", "running", "ran", "answered",
                            "refused", "dropped", "cut"}
        BY <3>1, CallFields
      <3> QED
        BY <3>1, <3>2 DEF RequestInv, Ended, Alive
    <2> QED
      BY <2>1, <2>2 DEF GateSafe, LifeInv
  <1> QED
    BY <1>1, LifeInvariant, PTL

--------------------------------------------------------------------------------
(* The cache of decrypted secrets.                                             *)

\* What the cache holds and what executions get is never newer than the file: the
\* invariant is inductive as it stands, because a key is taken from the file in
\* place when an entry is stored.
SecretsInv == SecretsTypeOK /\ NeverFromTheFuture

ReaderType == [at : {"idle", "lookup", "decrypt", "store", "done"},
               got : Versions \cup {NoVersion}, since : Versions]

\* A step of one execution that gets nothing newer than the file.
LEMMA ReaderStep ==
    ASSUME SecretsInv, NEW r \in Readers, NEW x \in ReaderType, x.got <= sopsFile,
           reader' = [reader EXCEPT ![r] = x], UNCHANGED <<sopsFile, held, fresh>>
    PROVE  SecretsInv'
  <1>1. SecretsTypeOK'
    BY DEF SecretsInv, SecretsTypeOK, ReaderType
  <1>2. \A q \in Readers : reader'[q] = IF q = r THEN x ELSE reader[q]
    BY DEF SecretsInv, SecretsTypeOK
  <1> QED
    BY <1>1, <1>2 DEF SecretsInv, NeverFromTheFuture

LEMMA SecretsStep ==
    ASSUME SecretsInv, [SecretsNext]_secretsVars
    PROVE  SecretsInv'
  <1> USE SecretsAssumption DEF SecretsInv, Versions, NoVersion
  <1>1. CASE UNCHANGED secretsVars
    BY <1>1 DEF secretsVars, SecretsTypeOK, NeverFromTheFuture
  <1>2. CASE Rotate
    BY <1>2 DEF Rotate, SecretsTypeOK, NeverFromTheFuture
  <1>3. ASSUME NEW v \in Versions, Age(v) PROVE SecretsInv'
    BY <1>3 DEF Age, SecretsTypeOK, NeverFromTheFuture
  <1>4. ASSUME NEW r \in Readers, Ask(r) PROVE SecretsInv'
    BY <1>4 DEF Ask, SecretsTypeOK, NeverFromTheFuture
  <1>5. ASSUME NEW r \in Readers, Lookup(r) PROVE SecretsInv'
    <2>1. CASE held[sopsFile] # NoVersion /\ sopsFile \in fresh
      BY <1>5, <2>1 DEF Lookup, SecretsTypeOK, NeverFromTheFuture
    <2>2. CASE ~(held[sopsFile] # NoVersion /\ sopsFile \in fresh)
      BY <1>5, <2>2 DEF Lookup, SecretsTypeOK, NeverFromTheFuture
    <2> QED
      BY <2>1, <2>2
  <1>6. ASSUME NEW r \in Readers, Decrypt(r) PROVE SecretsInv'
    <2>1. CASE reader' = [reader EXCEPT ![r].at = "store", ![r].got = sopsFile]
      <3> DEFINE x == [reader[r] EXCEPT !.at = "store", !.got = sopsFile]
      <3>1. reader' = [reader EXCEPT ![r] = x]
        BY <2>1
      <3>2. x \in ReaderType /\ x.got = sopsFile
        BY DEF SecretsTypeOK, ReaderType
      <3>3. x.got <= sopsFile /\ UNCHANGED <<sopsFile, held, fresh>>
        BY <1>6, <3>2 DEF SecretsTypeOK, Decrypt
      <3> HIDE DEF x
      <3> QED
        BY <3>1, <3>2, <3>3, ReaderStep
    <2>2. CASE reader' = [reader EXCEPT ![r].at = "idle"]
      <3> DEFINE x == [reader[r] EXCEPT !.at = "idle"]
      <3>1. reader' = [reader EXCEPT ![r] = x]
        BY <2>2
      <3>2. x \in ReaderType /\ x.got = reader[r].got
        BY DEF SecretsTypeOK, ReaderType
      <3> QED
        BY <1>6, <3>1, <3>2, ReaderStep DEF Decrypt, NeverFromTheFuture
    <2> QED
      BY <1>6, <2>1, <2>2 DEF Decrypt
  <1>7. ASSUME NEW r \in Readers, Store(r) PROVE SecretsInv'
    BY <1>7 DEF Store, StoreKey, SecretsTypeOK, NeverFromTheFuture
  <1>8. ASSUME NEW r \in Readers, Wipe(r) PROVE SecretsInv'
    <2> DEFINE x == [reader[r] EXCEPT !.at = "idle", !.got = NoVersion]
    <2>1. reader' = [reader EXCEPT ![r] = x] /\ UNCHANGED <<sopsFile, held, fresh>>
      BY <1>8 DEF Wipe
    <2>2. x \in ReaderType /\ x.got = NoVersion
      BY DEF SecretsTypeOK, ReaderType
    <2>3. x.got <= sopsFile
      BY <2>2 DEF SecretsTypeOK
    <2> QED
      BY <2>1, <2>2, <2>3, ReaderStep
  <1> QED
    BY <1>1, <1>2, <1>3, <1>4, <1>5, <1>6, <1>7, <1>8 DEF SecretsNext

\* No execution gets secrets of a version of the file that was not there yet, whatever
\* is decrypted while the file is replaced (secrets.rs).
THEOREM SecretsInvariant == SecretsSpec => []SecretsInv
  <1>1. SecretsInit => SecretsInv
    BY SecretsAssumption DEF SecretsInit, SecretsInv, SecretsTypeOK, NeverFromTheFuture,
                             Versions, NoVersion
  <1> QED
    BY <1>1, SecretsStep, PTL DEF SecretsSpec

--------------------------------------------------------------------------------
(* The tool list of the MCP adapter.                                           *)

\* A client that has a list has initialized and the cache is held; a line in hand
\* is one of a client that has initialized.
AdapterInv ==
    /\ client = [ready |-> client.ready, listed |-> client.listed,
                 view |-> client.view, told |-> client.told]
    /\ cache = [held |-> cache.held, names |-> cache.names, young |-> cache.young]
    /\ line.at # "idle" => client.ready
    /\ client.listed => client.ready /\ cache.held
    /\ StaleListAnnounced

\* A step that leaves the client's view, what it was told and the cached names alone.
LEMMA AdapterKept ==
    ASSUME AdapterInv, UNCHANGED <<client, cache>>, line.at # "idle" \/ line' = line
    PROVE  AdapterInv'
  BY DEF AdapterInv, StaleListAnnounced

LEMMA WarmKept ==
    ASSUME AdapterInv, NEW names, Warm(names), line.at # "idle" \/ line' = line
    PROVE  AdapterInv'
  <1> USE DEF AdapterInv, StaleListAnnounced
  <1>1. cache' = [held |-> TRUE, names |-> names, young |-> TRUE]
    BY DEF Warm
  <1>2. CASE cache.held /\ cache.names # names /\ client.ready
    <2>1. client' = [ready |-> client.ready, listed |-> client.listed,
                     view |-> client.view, told |-> TRUE]
      BY <1>2 DEF Warm
    <2> QED
      BY <1>1, <2>1
  <1>3. CASE ~(cache.held /\ cache.names # names /\ client.ready)
    <2>1. client' = client
      BY <1>3 DEF Warm
    <2>2. cache'.held /\ cache'.names = names
      BY <1>1
    <2>3. client.listed => names = cache.names
      BY <1>3
    <2>4. StaleListAnnounced'
      BY <2>1, <2>2, <2>3
    <2> QED
      BY <1>1, <2>1, <2>4
  <1> QED
    BY <1>2, <1>3

LEMMA ViewKept ==
    ASSUME AdapterInv, line.at # "idle", NEW names, View(names),
           cache' = [held |-> TRUE, names |-> names, young |-> cache'.young]
    PROVE  AdapterInv'
  <1>1. client' = [ready |-> client.ready, listed |-> TRUE, view |-> names, told |-> FALSE]
    BY DEF View, AdapterInv
  <1> QED
    BY <1>1 DEF AdapterInv, StaleListAnnounced

LEMMA AdapterStep ==
    ASSUME AdapterInv, [AdapterNext]_adapterVars
    PROVE  AdapterInv'
  <1>1. CASE UNCHANGED adapterVars
    BY <1>1, AdapterKept DEF adapterVars
  <1>2. CASE Initialize
    <2>1. client' = [ready |-> TRUE, listed |-> client.listed,
                     view |-> client.view, told |-> client.told]
      BY <1>2 DEF Initialize, AdapterInv
    <2> QED
      BY <1>2, <2>1 DEF Initialize, AdapterInv, StaleListAnnounced
  <1>3. CASE Reach \/ Probe \/ Connect \/ Rewarm \/ FindTool \/ Miss \/ ListFetch
             \/ Execute \/ Poll \/ PollSleeps
    <2>1. line.at # "idle" /\ UNCHANGED <<client, cache>>
      BY <1>3 DEF Reach, Probe, Connect, Rewarm, FindTool, Miss, ListFetch, Execute, Poll,
                  PollSleeps
    <2> QED
      BY <2>1, AdapterKept
  <1>4. CASE Restore \/ Remiss
    <2>1. line.at # "idle" /\ Warm(line.names)
      BY <1>4 DEF Restore, Remiss
    <2> QED
      BY <2>1, WarmKept
  <1>5. CASE ListCached
    <2>1. line.at # "idle" /\ View(cache.names) /\ cache.held /\ cache' = cache
      BY <1>5 DEF ListCached
    <2>2. cache' = [held |-> cache.held, names |-> cache.names, young |-> cache.young]
      BY <2>1 DEF AdapterInv
    <2>3. cache.held = TRUE /\ cache'.young = cache.young
      BY <2>1
    <2> QED
      BY <2>1, <2>2, <2>3, ViewKept
  <1>6. CASE ListKeep
    <2>1. /\ line.at # "idle" /\ View(line.names)
          /\ cache' = [held |-> TRUE, names |-> line.names, young |-> TRUE]
      BY <1>6 DEF ListKeep
    <2>2. cache'.young = TRUE
      BY <2>1
    <2> QED
      BY <2>1, <2>2, ViewKept
  <1>7. CASE DeadlinePasses
    BY <1>7, AdapterKept DEF DeadlinePasses
  <1>8. CASE RefreshFetch
    BY <1>8, AdapterKept DEF RefreshFetch
  <1>9. CASE RefreshStore
    <2>1. Warm(refresh.names) /\ line' = line
      BY <1>9 DEF RefreshStore
    <2> QED
      BY <2>1, WarmKept
  <1>10. ASSUME NEW op, NEW x, ReceiveLine(op, x) PROVE AdapterInv'
    BY <1>10 DEF ReceiveLine, AdapterInv, StaleListAnnounced
  <1>11. CASE GateStops \/ GateStarts \/ LeaseAges \/ BackoffElapses
    BY <1>11, AdapterKept DEF GateStops, GateStarts, LeaseAges, BackoffElapses
  <1>12. CASE CacheAges
    <2>1. cache' = [held |-> cache.held, names |-> cache.names, young |-> FALSE]
      BY <1>12 DEF CacheAges, AdapterInv
    <2> QED
      BY <1>12, <2>1 DEF CacheAges, AdapterInv, StaleListAnnounced
  <1> QED
    BY <1>1, <1>2, <1>3, <1>4, <1>5, <1>6, <1>7, <1>8, <1>9, <1>10, <1>11, <1>12
    DEF AdapterNext, Handle

\* An MCP client whose tool list differs from the one the adapter goes by has been told
\* so since it got it, whichever of the two tasks saw the change (mcp/server.rs).
THEOREM StaleListsAreAnnounced == AdapterSpec => []StaleListAnnounced
  <1>1. AdapterInit => AdapterInv
    BY DEF AdapterInit, AdapterInv, StaleListAnnounced
  <1>2. AdapterInv => StaleListAnnounced
    BY DEF AdapterInv
  <1> QED
    BY <1>1, <1>2, AdapterStep, PTL DEF AdapterSpec

--------------------------------------------------------------------------------
(* The operators' clients: the numbering of their proofs.                      *)

\* Every request of W has a number of its own, up to their count.
Numbered(W) ==
    /\ IsFiniteSet(W)
    /\ \A r \in W : r.n \in 1..Cardinality(W)
    /\ \A r, q \in W : r.n = q.n => r = q

LEMMA NumberedGrows ==
    ASSUME NEW W, Numbered(W), NEW x, x.n = Cardinality(W) + 1
    PROVE  Numbered(W \cup {x})
  <1>1. Cardinality(W) \in Nat
    BY FS_CardinalityType DEF Numbered
  <1>2. x \notin W
    BY <1>1 DEF Numbered
  <1>3. IsFiniteSet(W \cup {x}) /\ Cardinality(W \cup {x}) = Cardinality(W) + 1
    BY <1>2, FS_AddElement DEF Numbered
  <1>4. \A r \in W \cup {x} : r.n \in 1..(Cardinality(W) + 1)
    BY <1>1 DEF Numbered
  <1>5. \A r \in W : r.n # x.n
    BY <1>1 DEF Numbered
  <1>6. \A r, q \in W \cup {x} : r.n = q.n => r = q
    BY <1>5 DEF Numbered
  <1> QED
    BY <1>3, <1>4, <1>6 DEF Numbered

LEMMA NumberedReplaced ==
    ASSUME NEW W, Numbered(W), NEW r \in W, NEW q, q.n = r.n
    PROVE  Numbered((W \ {r}) \cup {q})
  <1> DEFINE V == W \ {r}
  <1>1. Cardinality(W) \in Nat
    BY FS_CardinalityType DEF Numbered
  <1>2. IsFiniteSet(V) /\ Cardinality(V) = Cardinality(W) - 1
    BY FS_RemoveElement DEF Numbered
  <1>3. \A p \in V : p.n # q.n
    BY DEF Numbered
  <1>4. q \notin V
    BY <1>3
  <1> HIDE DEF V
  <1>a. IsFiniteSet(V \cup {q}) /\ Cardinality(V \cup {q}) = Cardinality(V) + 1
    BY <1>2, <1>4, FS_AddElement
  <1>5. IsFiniteSet(V \cup {q}) /\ Cardinality(V \cup {q}) = Cardinality(W)
    BY <1>1, <1>2, <1>a
  <1>6. \A p \in V \cup {q} : p.n \in 1..Cardinality(W)
    BY DEF V, Numbered
  <1>7. \A p, o \in V \cup {q} : p.n = o.n => p = o
    BY <1>3 DEF V, Numbered
  <1>8. Numbered(V \cup {q})
    BY <1>5, <1>6, <1>7 DEF Numbered
  <1> QED
    BY <1>8 DEF V

LEMMA NumberedMapped ==
    ASSUME NEW W, Numbered(W), NEW V, NEW f \in [W -> V],
           \A v \in V : \E r \in W : v = f[r],
           \A r \in W : f[r].n = r.n
    PROVE  Numbered(V)
  <1>a. \A r, q \in W : f[r] = f[q] => r = q
    BY DEF Numbered
  <1>b. f \in Injection(W, V)
    BY <1>a DEF Injection, IsInjective
  <1>c. f \in Surjection(W, V)
    BY DEF Surjection
  <1>1. f \in Bijection(W, V)
    BY <1>b, <1>c DEF Bijection
  <1>2. IsFiniteSet(V) /\ Cardinality(V) = Cardinality(W)
    BY <1>1, FS_Bijection DEF Numbered, ExistsBijection
  <1> QED
    BY <1>2 DEF Numbered

--------------------------------------------------------------------------------
(* The operators' clients: what their commands and requests say.               *)

ApprovalIds == Approvals \cup {NoApproval}

Posted == [from : Clients, n : Nat, kind : Reads \cup {"approve", "deny"}, id : ApprovalIds,
           learn : MaybeDomain, stage : {"sent", "claimed", "answered", "lost"}, code : Nat,
           seen : {{}}]

Typed == [cmd : Reads \cup {"none", "approve", "deny", "clear"},
          pc : {"idle", "waiting", "confirm", "remember"}, id : ApprovalIds,
          yes : BOOLEAN, learn : MaybeDomain, flag : BOOLEAN, seen : SUBSET Domains, req : Nat]

Told == [cmd : Reads \cup {"none", "approve", "deny", "clear", "check"}, ok : BOOLEAN,
         id : ApprovalIds,
         why : {"none", "cancelled", "cleared", "allowed", "not_matched", "done", "failed",
                "auth_failed", "action_not_found", "gate_unavailable"}]

Decisions == {"approve", "deny"}

ClientsTypes ==
    /\ table \subseteq Domains /\ commands \in 0..MaxClientCommands
    /\ typed \in [Clients -> Typed]
    /\ told \in [Clients -> Told]
    /\ work \subseteq Posted

\* What the store and the ledger say was decided, and only a claim that ran out lapses.
StoreInv ==
    /\ status \in [Approvals -> {"pending", "claimed", "lapsed", "gone"} \cup Terminal]
    /\ holder \in [Approvals -> Nat] /\ outcome \in [Approvals -> {"none"} \cup Terminal]
    /\ decided \subseteq Approvals \X Terminal /\ ranOut \subseteq Approvals
    /\ \A a \in Approvals : status[a] \in Terminal \/ outcome[a] # "none" => Decided(a)
    /\ \A a \in Approvals : status[a] = "lapsed" => a \in ranOut

\* The claim that r works under is the store's, unless one has run out.
Holds(r) == r.id \in ranOut \/ (holder[r.id] = r.n /\ status[r.id] \in {"claimed", "gone"})

\* An answer below 400 to a decision means that one was carried out, and what an
\* approval is to teach was agreed to.
PostedInv(r) ==
    /\ r.kind \in Decisions => r.id \in Approvals
    /\ r.stage = "claimed" => r.kind \in Decisions /\ Holds(r)
    /\ r.stage = "answered" /\ r.kind \in Decisions /\ r.code < 400 => Decided(r.id)
    /\ r.kind = "approve" => r.learn = NoDomain \/ <<r.id, r.learn>> \in agreed

\* The request r is one that the command k may be waiting for.
Fits(k, r) ==
    /\ r.id = k.id
    /\ k.cmd = "approve" => r.kind \in {"approve", "show"}
    /\ k.cmd = "deny" => r.kind = "deny"

CommandInv(c, k) ==
    /\ k.cmd \in Decisions => k.id \in Approvals
    /\ k.pc = "remember" => k.cmd = "approve"
    /\ k.cmd = "approve" /\ k.flag => <<k.id, k.learn>> \in agreed
    /\ k.pc = "waiting" => \A r \in work : r.from = c /\ r.n = k.req => Fits(k, r)

ReportInv(x) ==
    x.cmd \in Decisions /\ x.ok /\ x.why = "done" => x.id \in Approvals /\ Decided(x.id)

ClientsInv ==
    /\ ClientsTypes
    /\ StoreInv
    /\ Numbered(work)
    /\ \A r \in work : PostedInv(r)
    /\ \A c \in Clients : CommandInv(c, typed[c])
    /\ \A c \in Clients : ReportInv(told[c])

LEMMA ClientsInvSuffices == ClientsInv => ClientsTypeOK /\ ClientsSafe
  <1> SUFFICES ASSUME ClientsInv PROVE ClientsTypeOK /\ ClientsSafe
    OBVIOUS
  <1>1. ClientsTypeOK
    BY DEF ClientsInv, ClientsTypes, StoreInv, ClientsTypeOK, Typed
  <1>2. SuccessIsDecided
    BY DEF ClientsInv, ReportInv, SuccessIsDecided, Decisions
  <1>3. TaughtIsKnown
    BY DEF ClientsInv, PostedInv, TaughtIsKnown
  <1>4. OneClaimAtATime
    <2>1. \A r, q \in work : r.n = q.n => r = q
      BY DEF ClientsInv, Numbered
    <2>2. \A r \in work : r.stage = "claimed" => r.id \in ranOut \/ holder[r.id] = r.n
      BY DEF ClientsInv, PostedInv, Holds
    <2> QED
      BY <2>1, <2>2 DEF OneClaimAtATime
  <1> QED
    BY <1>1, <1>2, <1>3, <1>4 DEF ClientsSafe

LEMMA NoClientTyped == NoClient \in Typed /\ NoClient.cmd = "none" /\ NoClient.pc = "idle"
  BY DEF NoClient, Typed, ApprovalIds, NoApproval, MaybeDomain, NoDomain

--------------------------------------------------------------------------------
(* The operators' clients: the three kinds of steps.                           *)

\* A client sends a request and waits.
LEMMA SendKept ==
    ASSUME ClientsInv, NEW c \in Clients, NEW k \in Typed, NEW kind \in Reads \cup Decisions,
           NEW id \in ApprovalIds, NEW learn \in MaybeDomain,
           Send(c, k, kind, id, learn),
           UNCHANGED <<storeVars, table, told>>,
           agreed \subseteq agreed', commands' \in 0..MaxClientCommands,
           kind \in Decisions => id \in Approvals,
           kind = "approve" => learn = NoDomain \/ <<id, learn>> \in agreed',
           k.id = id,
           k.cmd = "approve" => kind \in {"approve", "show"},
           k.cmd = "deny" => kind = "deny",
           k.cmd \in Decisions => k.id \in Approvals,
           k.cmd = "approve" /\ k.flag => <<k.id, k.learn>> \in agreed'
    PROVE  ClientsInv'
  <1>a. PICK x : x = BuildRequest(c, kind, id, learn)
    OBVIOUS
  <1>b. PICK w : w = [k EXCEPT !.pc = "waiting", !.req = FreshProof]
    OBVIOUS
  <1>1. Cardinality(work) \in Nat /\ FreshProof = Cardinality(work) + 1
    BY FS_CardinalityType DEF ClientsInv, Numbered, FreshProof
  <1>2. /\ x \in Posted /\ x.n = FreshProof /\ x.from = c /\ x.kind = kind /\ x.id = id
        /\ x.learn = learn /\ x.stage = "sent"
    BY <1>a, <1>1 DEF BuildRequest, Posted, Decisions
  <1>3. /\ w \in Typed /\ w.req = FreshProof /\ w.pc = "waiting" /\ w.cmd = k.cmd /\ w.id = k.id
        /\ w.flag = k.flag /\ w.learn = k.learn
    <2>1. FreshProof \in Nat
      BY <1>1
    <2> QED
      BY <1>b, <2>1 DEF Typed
  <1>4. work' = work \cup {x} /\ typed' = [typed EXCEPT ![c] = w]
    BY <1>a, <1>b DEF Send
  <1>5. ClientsTypes'
    BY <1>2, <1>3, <1>4 DEF ClientsInv, ClientsTypes
  <1>6. Numbered(work')
    BY <1>1, <1>2, <1>4, NumberedGrows DEF ClientsInv
  <1>7. \A r \in work' : PostedInv(r)'
    <2>1. PostedInv(x)'
      BY <1>2 DEF PostedInv, Decisions
    <2>2. ASSUME NEW r \in work PROVE PostedInv(r)'
      BY DEF ClientsInv, PostedInv, Holds, Decided, storeVars
    <2> QED
      BY <1>4, <2>1, <2>2
  <1>8. ASSUME NEW d \in Clients PROVE CommandInv(d, typed[d])'
    <2>1. \A r \in work : r.n # FreshProof
      BY <1>1 DEF ClientsInv, Numbered
    <2>2. CASE d = c
      <3>1. typed'[d] = w
        BY <1>4, <2>2 DEF ClientsInv, ClientsTypes
      <3>2. \A r \in work' : r.from = c /\ r.n = w.req => Fits(w, r)
        BY <1>2, <1>3, <1>4, <2>1 DEF Fits
      <3> QED
        BY <1>3, <2>2, <3>1, <3>2 DEF CommandInv
    <2>3. CASE d # c
      <3>1. typed'[d] = typed[d] /\ CommandInv(d, typed[d])
        BY <1>4, <2>3 DEF ClientsInv, ClientsTypes
      <3>2. x.from # d
        BY <1>2, <2>3
      <3> QED
        BY <1>4, <3>1, <3>2 DEF CommandInv
    <2> QED
      BY <2>2, <2>3
  <1>9. \A d \in Clients : ReportInv(told[d])'
    BY DEF ClientsInv, ReportInv, Decided, storeVars
  <1>10. StoreInv'
    BY DEF ClientsInv, StoreInv, Decided, storeVars
  <1> QED
    BY <1>5, <1>6, <1>7, <1>8, <1>9, <1>10 DEF ClientsInv

\* A command changes where it stands, or ends with a report.
LEMMA CommandKept ==
    ASSUME ClientsInv, NEW c \in Clients, NEW k \in Typed, NEW x \in Told,
           typed' = [typed EXCEPT ![c] = k], told' = [told EXCEPT ![c] = x],
           UNCHANGED <<storeVars, work, agreed>>,
           table' \subseteq Domains, commands' \in 0..MaxClientCommands,
           CommandInv(c, k), ReportInv(x)
    PROVE  ClientsInv'
  <1>1. ClientsTypes'
    BY DEF ClientsInv, ClientsTypes
  <1>2. \A r \in work : PostedInv(r)'
    BY DEF ClientsInv, PostedInv, Holds, Decided, storeVars
  <1>3. ASSUME NEW d \in Clients PROVE CommandInv(d, typed[d])' /\ ReportInv(told[d])'
    <2>1. typed'[d] = (IF d = c THEN k ELSE typed[d]) /\ told'[d] = (IF d = c THEN x ELSE told[d])
      BY DEF ClientsInv, ClientsTypes
    <2>2. CommandInv(d, typed'[d]) /\ ReportInv(told'[d])
      BY <2>1 DEF ClientsInv
    <2> QED
      BY <2>2 DEF CommandInv, ReportInv, Decided, storeVars
  <1>4. StoreInv'
    BY DEF ClientsInv, StoreInv, Decided, storeVars
  <1> QED
    BY <1>1, <1>2, <1>3, <1>4 DEF ClientsInv

\* The gate takes a request a step further: what was decided stays, and the claims
\* that the others work under stay theirs.
LEMMA GateKept ==
    ASSUME ClientsInv, NEW r \in work, NEW q \in Posted, Step(r, q),
           q.from = r.from, q.n = r.n, q.kind = r.kind, q.id = r.id, q.learn = r.learn,
           UNCHANGED <<typed, told, agreed, commands>>, table' \subseteq Domains,
           StoreInv', decided \subseteq decided',
           \A p \in work \ {r} : p.stage = "claimed" => Holds(p)',
           PostedInv(q)'
    PROVE  ClientsInv'
  <1>1. work' = (work \ {r}) \cup {q}
    BY DEF Step
  <1>2. ClientsTypes'
    BY <1>1 DEF ClientsInv, ClientsTypes
  <1>3. Numbered(work')
    BY <1>1, NumberedReplaced DEF ClientsInv
  <1>4. \A a : Decided(a) => Decided(a)'
    BY DEF Decided
  <1>5. ASSUME NEW p \in work' PROVE PostedInv(p)'
    <2>1. CASE p = q
      BY <2>1
    <2>2. CASE p \in work \ {r}
      <3>1. PostedInv(p)
        BY <2>2 DEF ClientsInv
      <3> QED
        BY <1>4, <2>2, <3>1 DEF PostedInv
    <2> QED
      BY <1>1, <2>1, <2>2
  <1>6. ASSUME NEW d \in Clients PROVE CommandInv(d, typed[d])' /\ ReportInv(told[d])'
    <2>1. CommandInv(d, typed[d]) /\ ReportInv(told[d])
      BY DEF ClientsInv
    <2>2. typed[d].pc = "waiting" =>
             \A p \in work' : p.from = d /\ p.n = typed[d].req => Fits(typed[d], p)
      BY <1>1, <2>1 DEF CommandInv, Fits
    <2>3. CommandInv(d, typed[d])'
      BY <2>1, <2>2 DEF CommandInv
    <2>4. ReportInv(told[d])'
      BY <1>4, <2>1 DEF ReportInv
    <2> QED
      BY <2>3, <2>4
  <1> QED
    BY <1>2, <1>3, <1>5, <1>6 DEF ClientsInv

\* The store moves by itself.
LEMMA StoreKept ==
    ASSUME ClientsInv, UNCHANGED <<outcome, decided, table, typed, work, told, agreed, commands>>,
           StoreInv', \A p \in work : p.stage = "claimed" => Holds(p)'
    PROVE  ClientsInv'
  <1>1. ClientsTypes'
    BY DEF ClientsInv, ClientsTypes
  <1>2. \A r \in work : PostedInv(r)'
    BY DEF ClientsInv, PostedInv, Decided
  <1>3. \A d \in Clients : CommandInv(d, typed[d])' /\ ReportInv(told[d])'
    BY DEF ClientsInv, CommandInv, ReportInv, Decided
  <1> QED
    BY <1>1, <1>2, <1>3 DEF ClientsInv

--------------------------------------------------------------------------------
(* The operators' clients: the actions.                                        *)

LEMMA RunReadKept ==
    ASSUME ClientsInv, NEW c \in Clients, NEW cmd \in Reads, NEW a \in ApprovalIds,
           RunRead(c, cmd, a)
    PROVE  ClientsInv'
  <1> DEFINE k == [NoClient EXCEPT !.cmd = cmd, !.id = a]
  <1>1. k \in Typed /\ k.cmd = cmd /\ k.id = a
    BY DEF NoClient, Typed, ApprovalIds, NoApproval, MaybeDomain, NoDomain
  <1>2. cmd \notin Decisions /\ NoDomain \in MaybeDomain
    BY DEF Decisions, Reads, MaybeDomain
  <1>3. /\ Send(c, k, cmd, a, NoDomain) /\ UNCHANGED <<storeVars, table, told, agreed>>
        /\ commands' \in 0..MaxClientCommands
    BY ClientsAssumption DEF RunRead, BeginClient, ClientsInv, ClientsTypes
  <1> HIDE DEF k
  <1> QED
    BY <1>1, <1>2, <1>3, SendKept DEF Decisions

LEMMA RunApproveKept ==
    ASSUME ClientsInv, NEW c \in Clients, NEW a \in Approvals, NEW yes \in BOOLEAN,
           NEW flag \in MaybeDomain, RunApprove(c, a, yes, flag)
    PROVE  ClientsInv'
  <1> DEFINE k == [NoClient EXCEPT !.cmd = "approve", !.id = a, !.yes = yes,
                                   !.learn = flag, !.flag = (flag # NoDomain)]
  <1>1. /\ k \in Typed /\ k.cmd = "approve" /\ k.id = a /\ k.learn = flag
        /\ k.flag = (flag # NoDomain)
    BY DEF NoClient, Typed, ApprovalIds, NoApproval, MaybeDomain, NoDomain
  <1>2. /\ Send(c, k, "show", a, NoDomain) /\ UNCHANGED <<storeVars, table, told>>
        /\ commands' \in 0..MaxClientCommands
    BY ClientsAssumption DEF RunApprove, BeginClient, ClientsInv, ClientsTypes
  <1>3. agreed \subseteq agreed' /\ (flag # NoDomain => <<a, flag>> \in agreed')
    BY DEF RunApprove
  <1> HIDE DEF k
  <1>4. /\ "show" \in Reads \cup Decisions /\ "show" \notin Decisions
        /\ NoDomain \in MaybeDomain /\ a \in ApprovalIds
    BY DEF Decisions, Reads, MaybeDomain, ApprovalIds
  <1> QED
    BY <1>1, <1>2, <1>3, <1>4, SendKept

LEMMA DecideKept ==
    ASSUME ClientsInv, NEW c \in Clients, NEW a \in Approvals, ToolApprove(c, a) \/ RunDeny(c, a)
    PROVE  ClientsInv'
  <1>1. ASSUME NEW cmd \in Decisions, BeginClient(c, cmd),
               Send(c, [NoClient EXCEPT !.cmd = cmd, !.id = a], cmd, a, NoDomain),
               UNCHANGED <<storeVars, table, told, agreed>>
        PROVE  ClientsInv'
    <2> DEFINE k == [NoClient EXCEPT !.cmd = cmd, !.id = a]
    <2>1. k \in Typed /\ k.cmd = cmd /\ k.id = a /\ k.flag = FALSE
      BY DEF NoClient, Typed, ApprovalIds, NoApproval, MaybeDomain, NoDomain, Decisions
    <2>2. commands' \in 0..MaxClientCommands /\ Send(c, k, cmd, a, NoDomain)
      BY <1>1, ClientsAssumption DEF BeginClient, ClientsInv, ClientsTypes
    <2> HIDE DEF k
    <2>3. NoDomain \in MaybeDomain /\ a \in ApprovalIds
      BY DEF MaybeDomain, ApprovalIds
    <2> QED
      BY <1>1, <2>1, <2>2, <2>3, SendKept
  <1>2. CASE ToolApprove(c, a)
    BY <1>1, <1>2 DEF ToolApprove, Decisions
  <1>3. CASE RunDeny(c, a)
    BY <1>1, <1>3 DEF RunDeny, Decisions
  <1> QED
    BY <1>2, <1>3

\* The request for an approval goes out, from the detail, the question or the prompt.
LEMMA SubmitKept ==
    ASSUME ClientsInv, NEW c \in Clients, NEW learn \in MaybeDomain, SubmitApprove(c, learn),
           typed[c].cmd = "approve",
           UNCHANGED <<storeVars, table, told, commands>>, agreed \subseteq agreed',
           learn = NoDomain \/ <<typed[c].id, learn>> \in agreed'
    PROVE  ClientsInv'
  <1>1. typed[c] \in Typed /\ typed[c].id \in ApprovalIds /\ CommandInv(c, typed[c])
    BY DEF ClientsInv, ClientsTypes, Typed
  <1>2. typed[c].id \in Approvals
    BY <1>1 DEF CommandInv, Decisions
  <1>3. typed[c].flag => <<typed[c].id, typed[c].learn>> \in agreed'
    BY <1>1 DEF CommandInv
  <1>4. commands' \in 0..MaxClientCommands
    BY DEF ClientsInv, ClientsTypes
  <1>5. Send(c, typed[c], "approve", typed[c].id, learn)
    BY DEF SubmitApprove
  <1> QED
    BY <1>1, <1>2, <1>3, <1>4, <1>5, SendKept DEF Decisions

LEMMA EffectiveLearnTyped ==
    ASSUME ClientsInv, NEW c \in Clients, typed[c].cmd = "approve"
    PROVE  /\ EffectiveLearn(typed[c]) \in MaybeDomain
           /\ typed[c].flag => EffectiveLearn(typed[c]) = typed[c].learn
           /\ typed[c].yes /\ ~typed[c].flag => EffectiveLearn(typed[c]) = NoDomain
  <1>1. typed[c] \in Typed /\ typed[c].id \in Approvals
    BY DEF ClientsInv, ClientsTypes, CommandInv, Decisions
  <1>2. typed[c].learn \in MaybeDomain
    BY <1>1 DEF Typed
  <1>3. UnresolvedOf[typed[c].id] \in Seq(Domains)
    BY <1>1, ClientsAssumption
  <1>4. UnresolvedOf[typed[c].id] # <<>> => Head(UnresolvedOf[typed[c].id]) \in Domains
    BY <1>3
  <1> QED
    BY <1>2, <1>4 DEF EffectiveLearn, MaybeDomain

\* A command changes where it stands and what it wants learned, and says nothing.
LEMMA MovesKept ==
    ASSUME ClientsInv, NEW c \in Clients, NEW k \in Typed, typed' = [typed EXCEPT ![c] = k],
           UNCHANGED <<storeVars, table, work, agreed, told>>,
           commands' \in 0..MaxClientCommands, CommandInv(c, k)
    PROVE  ClientsInv'
  <1>1. told[c] \in Told /\ ReportInv(told[c]) /\ told' = [told EXCEPT ![c] = told[c]]
        /\ table' \subseteq Domains
    BY DEF ClientsInv, ClientsTypes
  <1> QED
    BY <1>1, CommandKept

LEMMA DetailArrivedKept ==
    ASSUME ClientsInv, NEW c \in Clients, NEW r, DetailArrived(c, r),
           UNCHANGED <<storeVars, table, agreed, commands>>
    PROVE  ClientsInv'
  <1>1. typed[c].cmd = "approve" /\ UNCHANGED told
    BY DEF DetailArrived
  <1>2. typed[c] \in Typed /\ CommandInv(c, typed[c])
    BY DEF ClientsInv, ClientsTypes
  <1>3. CASE typed[c].yes
    <2>1. SubmitApprove(c, EffectiveLearn(typed[c]))
      BY <1>3 DEF DetailArrived
    <2>2. \/ EffectiveLearn(typed[c]) = NoDomain
          \/ <<typed[c].id, EffectiveLearn(typed[c])>> \in agreed'
      BY <1>1, <1>2, <1>3, EffectiveLearnTyped DEF CommandInv
    <2> QED
      BY <1>1, <2>1, <2>2, EffectiveLearnTyped, SubmitKept
  <1>4. CASE ~typed[c].yes
    <2> DEFINE l == EffectiveLearn(typed[c])
               k == [typed[c] EXCEPT !.pc = "confirm", !.learn = l]
    <2>1. l \in MaybeDomain /\ (typed[c].flag => l = typed[c].learn)
      BY <1>1, EffectiveLearnTyped
    <2> HIDE DEF l
    <2>2. /\ k \in Typed /\ k.cmd = typed[c].cmd /\ k.pc = "confirm" /\ k.id = typed[c].id
          /\ k.flag = typed[c].flag /\ k.learn = l
      BY <1>2, <2>1 DEF Typed
    <2>a. typed' = [typed EXCEPT ![c].pc = "confirm", ![c].learn = l] /\ UNCHANGED work
      BY <1>4 DEF DetailArrived, l
    <2>3. typed' = [typed EXCEPT ![c] = k] /\ UNCHANGED work
      BY <2>a
    <2> HIDE DEF k
    <2>4. CommandInv(c, k)
      BY <1>2, <2>1, <2>2 DEF CommandInv
    <2>5. commands' \in 0..MaxClientCommands
      BY DEF ClientsInv, ClientsTypes
    <2> QED
      BY <1>1, <2>2, <2>3, <2>4, <2>5, MovesKept
  <1> QED
    BY <1>2, <1>3, <1>4 DEF Typed

\* A command ends with a report that is no success of a decision, or a true one.
LEMMA ReportKept ==
    ASSUME ClientsInv, NEW c \in Clients, NEW ok \in BOOLEAN,
           NEW why \in {"cancelled", "cleared", "done", "failed", "auth_failed",
                        "action_not_found", "gate_unavailable"},
           Report(c, ok, why), UNCHANGED <<storeVars, work, agreed, commands>>,
           table' \subseteq Domains,
           typed[c].cmd \in Decisions /\ ok /\ why = "done" => Decided(typed[c].id)
    PROVE  ClientsInv'
  <1> DEFINE x == [cmd |-> typed[c].cmd, ok |-> ok, id |-> typed[c].id, why |-> why]
  <1>1. typed[c] \in Typed /\ CommandInv(c, typed[c])
    BY DEF ClientsInv, ClientsTypes
  <1>2. x \in Told /\ x.cmd = typed[c].cmd /\ x.ok = ok /\ x.id = typed[c].id /\ x.why = why
    BY <1>1 DEF Typed, Told
  <1>3. told' = [told EXCEPT ![c] = x] /\ typed' = [typed EXCEPT ![c] = NoClient]
    BY DEF Report
  <1> HIDE DEF x
  <1>4. ReportInv(x)
    BY <1>1, <1>2 DEF ReportInv, CommandInv
  <1>5. CommandInv(c, NoClient)
    BY NoClientTyped DEF CommandInv, Decisions
  <1>6. commands' \in 0..MaxClientCommands
    BY DEF ClientsInv, ClientsTypes
  <1> QED
    BY <1>2, <1>3, <1>4, <1>5, <1>6, NoClientTyped, CommandKept

LEMMA ReceiveKept ==
    ASSUME ClientsInv, NEW c \in Clients, Receive(c)
    PROVE  ClientsInv'
  <1>1. /\ typed[c].pc = "waiting"
        /\ UNCHANGED <<storeVars, table, agreed, commands>>
    BY DEF Receive
  <1>2. PICK r \in Mine(c) :
          /\ r.stage = "answered"
          /\ \/ DetailArrived(c, r)
             \/ /\ ~(typed[c].cmd = "approve" /\ r.kind = "show" /\ ~IsError(r))
                /\ Report(c, ~IsError(r), IF IsError(r) THEN ErrorOf(c, r) ELSE "done")
                /\ UNCHANGED work
    BY DEF Receive
  <1>3. CASE DetailArrived(c, r)
    BY <1>1, <1>3, DetailArrivedKept
  <1>4. CASE /\ ~(typed[c].cmd = "approve" /\ r.kind = "show" /\ ~IsError(r))
             /\ Report(c, ~IsError(r), IF IsError(r) THEN ErrorOf(c, r) ELSE "done")
             /\ UNCHANGED work
    <2>1. r \in work /\ r.from = c /\ r.n = typed[c].req /\ PostedInv(r) /\ r \in Posted
      BY <1>2 DEF Mine, ClientsInv, ClientsTypes
    <2>2. Fits(typed[c], r)
      BY <1>1, <2>1 DEF ClientsInv, CommandInv
    <2>3. r.code \in Nat
      BY <2>1 DEF Posted
    <2>4. typed[c].cmd \in Decisions /\ ~IsError(r) => Decided(typed[c].id)
      BY <1>2, <1>4, <2>1, <2>2, <2>3 DEF Fits, PostedInv, Decisions, IsError
    <2>5. ErrorOf(c, r) \in {"failed", "auth_failed", "action_not_found", "gate_unavailable"}
      BY DEF ErrorOf
    <2>6. table' \subseteq Domains
      BY <1>1 DEF ClientsInv, ClientsTypes
    <2>7. CASE IsError(r)
      <3>1. Report(c, FALSE, ErrorOf(c, r))
        BY <1>4, <2>7, Zenon
      <3> QED
        BY <1>1, <1>4, <2>5, <2>6, <3>1, ReportKept
    <2>8. CASE ~IsError(r)
      <3>1. Report(c, TRUE, "done")
        BY <1>4, <2>8, Zenon
      <3> QED
        BY <1>1, <1>4, <2>4, <2>6, <2>8, <3>1, ReportKept
    <2> QED
      BY <2>7, <2>8
  <1> QED
    BY <1>2, <1>3, <1>4

LEMMA TimeOutKept ==
    ASSUME ClientsInv, NEW c \in Clients, TimeOut(c)
    PROVE  ClientsInv'
  <1> DEFINE why == IF FrontOf[c] = "cli" THEN "failed" ELSE "gate_unavailable"
  <1>1. /\ Report(c, FALSE, why)
        /\ UNCHANGED <<storeVars, table, work, agreed, commands>>
        /\ why \in {"failed", "gate_unavailable"}
    BY DEF TimeOut
  <1> HIDE DEF why
  <1>2. table' \subseteq Domains
    BY <1>1 DEF ClientsInv, ClientsTypes
  <1> QED
    BY <1>1, <1>2, ReportKept

LEMMA ConfirmKept ==
    ASSUME ClientsInv, NEW c \in Clients, NEW word, Confirm(c, word)
    PROVE  ClientsInv'
  <1>1. /\ typed[c].cmd = "approve" /\ typed[c].pc = "confirm"
        /\ UNCHANGED <<storeVars, table, agreed, commands>>
    BY DEF Confirm
  <1>2. /\ typed[c] \in Typed /\ CommandInv(c, typed[c]) /\ table' \subseteq Domains
        /\ commands' \in 0..MaxClientCommands
    BY <1>1 DEF ClientsInv, ClientsTypes
  <1>3. CASE Report(c, TRUE, "cancelled") /\ UNCHANGED work
    BY <1>1, <1>2, <1>3, ReportKept
  <1>4. CASE typed' = [typed EXCEPT ![c].pc = "remember"] /\ UNCHANGED <<work, told>>
    <2> DEFINE k == [typed[c] EXCEPT !.pc = "remember"]
    <2>1. /\ k \in Typed /\ k.cmd = "approve" /\ k.pc = "remember" /\ k.id = typed[c].id
          /\ k.flag = typed[c].flag /\ k.learn = typed[c].learn
      BY <1>1, <1>2 DEF Typed
    <2>2. typed' = [typed EXCEPT ![c] = k]
      BY <1>4
    <2> HIDE DEF k
    <2>3. CommandInv(c, k)
      BY <1>1, <1>2, <2>1 DEF CommandInv
    <2> QED
      BY <1>1, <1>2, <1>4, <2>1, <2>2, <2>3, MovesKept
  <1>5. CASE /\ typed[c].flag \/ typed[c].learn = NoDomain
             /\ SubmitApprove(c, typed[c].learn) /\ UNCHANGED told
    <2>1. typed[c].learn \in MaybeDomain
      BY <1>2 DEF Typed
    <2>2. typed[c].learn = NoDomain \/ <<typed[c].id, typed[c].learn>> \in agreed'
      BY <1>1, <1>2, <1>5 DEF CommandInv
    <2> QED
      BY <1>1, <1>5, <2>1, <2>2, SubmitKept
  <1> QED
    BY <1>3, <1>4, <1>5 DEF Confirm

LEMMA RememberKept ==
    ASSUME ClientsInv, NEW c \in Clients, NEW y \in BOOLEAN, Remember(c, y)
    PROVE  ClientsInv'
  <1> DEFINE l == IF y THEN typed[c].learn ELSE NoDomain
  <1>1. typed[c] \in Typed /\ CommandInv(c, typed[c])
    BY DEF ClientsInv, ClientsTypes
  <1>2. /\ typed[c].pc = "remember" /\ SubmitApprove(c, l)
        /\ UNCHANGED <<storeVars, table, told, commands>>
        /\ agreed \subseteq agreed'
        /\ l = NoDomain \/ <<typed[c].id, l>> \in agreed'
    BY DEF Remember
  <1>3. l \in MaybeDomain
    BY <1>1 DEF Typed, MaybeDomain
  <1>4. typed[c].cmd = "approve"
    BY <1>1, <1>2 DEF CommandInv
  <1> HIDE DEF l
  <1> QED
    BY <1>2, <1>3, <1>4, SubmitKept

\* The commands that open the ledger themselves.
LEMMA DomainsKept ==
    ASSUME ClientsInv, NEW c \in Clients, NEW d,
           \/ (d \in Domains /\ DomainsAdd(c, d)) \/ DomainsRemove(c, d) \/ DomainsCheck(c, d)
           \/ DomainsList(c) \/ DomainsClear(c)
    PROVE  ClientsInv'
  <1>1. /\ typed[c] \in Typed /\ CommandInv(c, typed[c]) /\ told[c] \in Told
        /\ ReportInv(told[c]) /\ table \subseteq Domains
        /\ typed = [typed EXCEPT ![c] = typed[c]] /\ told = [told EXCEPT ![c] = told[c]]
    BY DEF ClientsInv, ClientsTypes
  <1>2. /\ UNCHANGED <<storeVars, work, agreed>> /\ table' \subseteq Domains
        /\ commands' \in 0..MaxClientCommands
    BY <1>1, ClientsAssumption DEF DomainsAdd, DomainsRemove, DomainsCheck, DomainsList,
                                   DomainsClear, Local, ClientsInv, ClientsTypes
  <1>3. CASE DomainsAdd(c, d) \/ DomainsRemove(c, d) \/ DomainsList(c)
    <2>1. UNCHANGED <<typed, told>>
      BY <1>3 DEF DomainsAdd, DomainsRemove, DomainsList
    <2> QED
      BY <1>1, <1>2, <2>1, CommandKept
  <1>4. CASE DomainsCheck(c, d)
    <2> DEFINE x == [cmd |-> "check", ok |-> TRUE, id |-> NoApproval,
                     why |-> IF d \in ManifestDomains \cup table THEN "allowed" ELSE "not_matched"]
    <2>1. x \in Told /\ x.cmd = "check"
      BY DEF Told, ApprovalIds
    <2>2. told' = [told EXCEPT ![c] = x] /\ UNCHANGED typed
      BY <1>4 DEF DomainsCheck
    <2> HIDE DEF x
    <2>3. ReportInv(x)
      BY <2>1 DEF ReportInv, Decisions
    <2> QED
      BY <1>1, <1>2, <2>1, <2>2, <2>3, CommandKept
  <1>5. CASE DomainsClear(c)
    <2>1. CASE table = {}
      BY <1>1, <1>2, <1>5, <2>1, CommandKept DEF DomainsClear
    <2>2. CASE table # {}
      <3> DEFINE k == [NoClient EXCEPT !.cmd = "clear", !.pc = "confirm", !.seen = table]
      <3>1. k \in Typed /\ k.cmd = "clear" /\ k.pc = "confirm"
        BY <1>1 DEF NoClient, Typed, ApprovalIds, NoApproval, MaybeDomain, NoDomain
      <3>2. typed' = [typed EXCEPT ![c] = k] /\ UNCHANGED told
        BY <1>5, <2>2 DEF DomainsClear
      <3> HIDE DEF k
      <3>3. CommandInv(c, k)
        BY <3>1 DEF CommandInv, Decisions
      <3> QED
        BY <1>1, <1>2, <3>1, <3>2, <3>3, CommandKept
    <2> QED
      BY <2>1, <2>2
  <1> QED
    BY <1>3, <1>4, <1>5

LEMMA ConfirmClearKept ==
    ASSUME ClientsInv, NEW c \in Clients, NEW word, ConfirmClear(c, word)
    PROVE  ClientsInv'
  <1> DEFINE why == IF word = "yes" THEN "cleared" ELSE "cancelled"
  <1>1. /\ Report(c, TRUE, why) /\ why \in {"cleared", "cancelled"}
        /\ UNCHANGED <<storeVars, work, agreed, commands>>
    BY DEF ConfirmClear
  <1> HIDE DEF why
  <1>2. table' \subseteq Domains
    BY DEF ConfirmClear, ClientsInv, ClientsTypes
  <1> QED
    BY <1>1, <1>2, ReportKept

\* An answer of the gate to a request.
LEMMA AnswerKept ==
    ASSUME ClientsInv, NEW r \in work, NEW code \in Nat, AnswerCommand(r, code),
           UNCHANGED <<storeVars, table, typed, told, agreed, commands>>,
           r.kind \in Decisions /\ code < 400 => Decided(r.id)
    PROVE  ClientsInv'
  <1>a. PICK q : q = [r EXCEPT !.stage = "answered", !.code = code]
    OBVIOUS
  <1>1. r \in Posted /\ PostedInv(r)
    BY DEF ClientsInv, ClientsTypes
  <1>2. /\ q \in Posted /\ q.from = r.from /\ q.n = r.n /\ q.kind = r.kind /\ q.id = r.id
        /\ q.learn = r.learn /\ q.stage = "answered" /\ q.code = code
    BY <1>a, <1>1 DEF Posted
  <1>3. Step(r, q)
    BY <1>a DEF AnswerCommand
  <1>4. PostedInv(q)'
    BY <1>1, <1>2 DEF PostedInv, Decided, storeVars
  <1>5. /\ table' \subseteq Domains /\ StoreInv' /\ decided \subseteq decided'
        /\ \A p \in work : p.stage = "claimed" => Holds(p)'
    BY DEF ClientsInv, ClientsTypes, StoreInv, PostedInv, Holds, Decided, storeVars
  <1> QED
    BY <1>2, <1>3, <1>4, <1>5, GateKept

LEMMA GateReadKept ==
    ASSUME ClientsInv, NEW r \in work, GateRead(r)
    PROVE  ClientsInv'
  <1>1. /\ r.kind \in Reads /\ (AnswerCommand(r, 404) \/ AnswerCommand(r, 200))
        /\ UNCHANGED <<storeVars, table, typed, told, agreed, commands>>
    BY DEF GateRead
  <1>2. r.kind \notin Decisions
    BY <1>1 DEF Reads, Decisions
  <1> QED
    BY <1>1, <1>2, AnswerKept

\* The store's claim goes to the request r: nobody worked under the one before,
\* unless it has run out.
LEMMA TakeKept ==
    ASSUME ClientsInv, NEW r \in work, r.kind \in Decisions, NEW to, Take(r, to),
           to \subseteq {"claimed", "failed"}, "failed" \in to => Decided(r.id)
    PROVE  /\ StoreInv' /\ decided' = decided /\ r.id \in Approvals
           /\ to = {"claimed"} => holder'[r.id] = r.n /\ status'[r.id] = "claimed"
           /\ \A p \in work : p.stage = "claimed" => Holds(p)'
  <1>1. r \in Posted /\ r.n \in Nat /\ r.id \in Approvals
    BY DEF ClientsInv, ClientsTypes, PostedInv, Posted
  <1>2. PICK s \in to : status' = [status EXCEPT ![r.id] = s]
    BY DEF Take
  <1>3. /\ holder' = [holder EXCEPT ![r.id] = r.n]
        /\ UNCHANGED <<outcome, decided, ranOut>>
        /\ status[r.id] \in {"pending", "lapsed"}
    BY DEF Take, Claimable
  <1>4. StoreInv
    BY DEF ClientsInv
  <1>5. \A a \in Approvals : /\ status'[a] = IF a = r.id THEN s ELSE status[a]
                             /\ holder'[a] = IF a = r.id THEN r.n ELSE holder[a]
    BY <1>1, <1>2, <1>3, <1>4 DEF StoreInv
  <1>6. StoreInv'
    <2>1. /\ status' \in [Approvals -> {"pending", "claimed", "lapsed", "gone"} \cup Terminal]
          /\ holder' \in [Approvals -> Nat]
      BY <1>1, <1>2, <1>3, <1>4 DEF StoreInv, Terminal
    <2>2. \A a : Decided(a)' = Decided(a)
      BY <1>3 DEF Decided
    <2>3. ASSUME NEW a \in Approvals, status'[a] \in Terminal \/ outcome'[a] # "none"
          PROVE  Decided(a)
      <3>1. CASE a = r.id /\ outcome[a] = "none"
        BY <1>3, <1>5, <2>3, <3>1 DEF Terminal
      <3> QED
        BY <1>3, <1>4, <1>5, <2>3, <3>1 DEF StoreInv
    <2>4. \A a \in Approvals : status'[a] = "lapsed" => a \in ranOut'
      BY <1>3, <1>4, <1>5 DEF StoreInv
    <2> QED
      BY <1>3, <1>4, <2>1, <2>2, <2>3, <2>4 DEF StoreInv
  <1>7. ASSUME NEW p \in work, p.stage = "claimed" PROVE Holds(p)'
    <2>1. p.id \in Approvals /\ Holds(p)
      BY <1>7 DEF ClientsInv, PostedInv
    <2>2. CASE p.id = r.id
      BY <1>3, <1>4, <2>1, <2>2 DEF Holds, StoreInv
    <2>3. CASE p.id # r.id
      BY <1>3, <1>5, <2>1, <2>3 DEF Holds
    <2> QED
      BY <2>2, <2>3
  <1>8. to = {"claimed"} => s = "claimed"
    OBVIOUS
  <1> QED
    BY <1>1, <1>3, <1>5, <1>6, <1>7, <1>8

\* The store's claim goes to r and the request is answered all the same.
LEMMA TakeAnswerKept ==
    ASSUME ClientsInv, NEW r \in work, r.kind \in Decisions, NEW to, Take(r, to),
           to \subseteq {"claimed", "failed"}, "failed" \in to => Decided(r.id),
           NEW code \in Nat, AnswerCommand(r, code), code < 400 => Decided(r.id),
           UNCHANGED <<table, typed, told, agreed, commands>>
    PROVE  ClientsInv'
  <1>a. PICK q : q = [r EXCEPT !.stage = "answered", !.code = code]
    OBVIOUS
  <1>1. r \in Posted /\ PostedInv(r)
    BY DEF ClientsInv, ClientsTypes
  <1>2. /\ q \in Posted /\ q.from = r.from /\ q.n = r.n /\ q.kind = r.kind /\ q.id = r.id
        /\ q.learn = r.learn /\ q.stage = "answered" /\ q.code = code
    BY <1>a, <1>1 DEF Posted
  <1>3. Step(r, q) /\ table' \subseteq Domains
    BY <1>a DEF AnswerCommand, ClientsInv, ClientsTypes
  <1>4. /\ StoreInv' /\ decided' = decided /\ r.id \in Approvals
        /\ \A p \in work : p.stage = "claimed" => Holds(p)'
    BY TakeKept
  <1>5. Decided(r.id)' = Decided(r.id)
    BY <1>4 DEF Decided
  <1>6. PostedInv(q)'
    BY <1>1, <1>2, <1>4, <1>5 DEF PostedInv
  <1> QED
    BY <1>2, <1>3, <1>4, <1>6, GateKept

LEMMA FoundIsDecided ==
    ASSUME ClientsInv, NEW a \in Approvals, NEW readable, DurableOutcome(a, readable)
    PROVE  Decided(a)
  BY DEF ClientsInv, StoreInv, DurableOutcome

LEMMA GateClaimKept ==
    ASSUME ClientsInv, NEW r \in work, NEW readable, GateClaim(r, readable)
    PROVE  ClientsInv'
  <1>1. r.stage = "sent" /\ r.kind \in Decisions /\ UNCHANGED <<typed, told, agreed, commands>>
    BY DEF GateClaim, Arrived, Decisions
  <1>2. r \in Posted /\ PostedInv(r) /\ r.id \in Approvals /\ r.learn \in MaybeDomain
    BY <1>1 DEF ClientsInv, ClientsTypes, PostedInv, Posted
  <1>3. CASE /\ Take(r, {"claimed"})
             /\ table' \in {table, table \cup EffectiveDomain(r)}
             /\ Step(r, [r EXCEPT !.stage = "claimed"])
    <2>a. PICK q : q = [r EXCEPT !.stage = "claimed"]
      OBVIOUS
    <2>1. /\ q \in Posted /\ q.from = r.from /\ q.n = r.n /\ q.kind = r.kind /\ q.id = r.id
          /\ q.learn = r.learn /\ q.stage = "claimed"
      BY <2>a, <1>2 DEF Posted
    <2>2. EffectiveDomain(r) \subseteq Domains
      <3>1. UnresolvedOf[r.id] \in Seq(Domains)
        BY <1>2, ClientsAssumption
      <3>2. UnresolvedOf[r.id] # <<>> => Head(UnresolvedOf[r.id]) \in Domains
        BY <3>1
      <3> QED
        BY <1>2, <3>2 DEF EffectiveDomain, MaybeDomain
    <2>3. table' \subseteq Domains
      BY <1>3, <2>2 DEF ClientsInv, ClientsTypes
    <2>4. /\ StoreInv' /\ decided' = decided
          /\ holder'[r.id] = r.n /\ status'[r.id] = "claimed"
          /\ \A p \in work : p.stage = "claimed" => Holds(p)'
      BY <1>1, <1>3, TakeKept
    <2>5. PostedInv(q)'
      BY <1>1, <1>2, <2>1, <2>4 DEF PostedInv, Holds
    <2> QED
      BY <1>1, <1>3, <2>a, <2>1, <2>3, <2>4, <2>5, GateKept
  <1>4. CASE /\ DurableOutcome(r.id, readable) /\ Take(r, {"claimed", "failed"})
             /\ AnswerCommand(r, 409) /\ UNCHANGED table
    BY <1>1, <1>2, <1>4, FoundIsDecided, TakeAnswerKept
  <1>5. CASE Take(r, {"claimed"}) /\ AnswerCommand(r, 400) /\ UNCHANGED table
    BY <1>1, <1>5, TakeAnswerKept
  <1> QED
    BY <1>3, <1>4, <1>5 DEF GateClaim

LEMMA ShortCircuitKept ==
    ASSUME ClientsInv, NEW r \in work, NEW readable \in BOOLEAN,
           GateShortCircuit(r, readable) \/ StoreUnreachable(r, readable)
    PROVE  ClientsInv'
  <1>1. r.kind \in Decisions /\ UNCHANGED <<table, typed, told, agreed, commands>>
    BY DEF GateShortCircuit, StoreUnreachable, Arrived, Decisions
  <1>2. r.id \in Approvals
    BY <1>1 DEF ClientsInv, PostedInv
  <1>3. CASE GateShortCircuit(r, readable)
    <2>1. UNCHANGED storeVars
      BY <1>3 DEF GateShortCircuit
    <2>2. PICK code \in {200, 404, 409} :
             AnswerCommand(r, code) /\ (code = 200 => Decided(r.id))
      <3>1. CASE status[r.id] = "claimed" /\ AnswerCommand(r, 409)
        BY <3>1
      <3>2. CASE status[r.id] \in Terminal /\ AnswerCommand(r, IF readable THEN 200 ELSE 404)
        BY <1>2, <3>2 DEF ClientsInv, StoreInv
      <3>3. CASE AnswerCommand(r, IF DurableOutcome(r.id, readable) THEN 200 ELSE 404)
        BY <1>2, <3>3, FoundIsDecided
      <3> QED
        BY <1>3, <3>1, <3>2, <3>3 DEF GateShortCircuit
    <2> QED
      BY <1>1, <2>1, <2>2, AnswerKept
  <1>4. CASE StoreUnreachable(r, readable)
    <2>1. Take(r, {"claimed"}) \/ UNCHANGED storeVars
      BY <1>4 DEF StoreUnreachable
    <2>2. PICK code \in {200, 503} :
             AnswerCommand(r, code) /\ (code = 200 => Decided(r.id))
      BY <1>2, <1>4, FoundIsDecided DEF StoreUnreachable
    <2> QED
      BY <1>1, <2>1, <2>2, AnswerKept, TakeAnswerKept
  <1> QED
    BY <1>3, <1>4

LEMMA GateSettleKept ==
    ASSUME ClientsInv, NEW r \in work, NEW ok \in BOOLEAN, GateSettle(r, ok)
    PROVE  ClientsInv'
  <1> DEFINE code == IF ok THEN 200 ELSE 502
             end == OutcomeOf(r, ok)
  <1>a. PICK q : q = [r EXCEPT !.stage = "answered", !.code = code]
    OBVIOUS
  <1>1. /\ r.stage = "claimed" /\ Step(r, q)
        /\ UNCHANGED <<holder, ranOut, table, typed, told, agreed, commands>>
        /\ decided' = decided \cup {<<r.id, end>>}
    BY <1>a DEF GateSettle, AnswerCommand
  <1>b. code \in Nat /\ end \in Terminal
    BY DEF OutcomeOf, Terminal
  <1>2. \/ status' = status
        \/ holder[r.id] = r.n /\ status' = [status EXCEPT ![r.id] = end]
    BY DEF GateSettle
  <1>3. outcome' = outcome \/ outcome' = [outcome EXCEPT ![r.id] = end]
    BY DEF GateSettle
  <1> HIDE DEF code, end
  <1>4. r \in Posted /\ PostedInv(r) /\ r.id \in Approvals /\ StoreInv
    BY <1>1 DEF ClientsInv, ClientsTypes, PostedInv
  <1>5. /\ q \in Posted /\ q.from = r.from /\ q.n = r.n /\ q.kind = r.kind /\ q.id = r.id
        /\ q.learn = r.learn /\ q.stage = "answered"
    BY <1>a, <1>b, <1>4 DEF Posted
  <1>6. /\ Decided(r.id)' /\ decided \subseteq decided'
        /\ \A a : Decided(a) => Decided(a)'
    BY <1>1, <1>b DEF Decided
  <1>7. StoreInv'
    <2>1. \A a \in Approvals : /\ status'[a] = status[a] \/ (a = r.id /\ status'[a] = end)
                               /\ outcome'[a] = outcome[a] \/ a = r.id
      BY <1>2, <1>3, <1>4 DEF StoreInv
    <2>2. /\ status' \in [Approvals -> {"pending", "claimed", "lapsed", "gone"} \cup Terminal]
          /\ outcome' \in [Approvals -> {"none"} \cup Terminal]
      BY <1>2, <1>3, <1>4, <1>b DEF StoreInv
    <2>3. decided' \subseteq Approvals \X Terminal
      BY <1>1, <1>4, <1>b DEF StoreInv
    <2>4. \A a \in Approvals : status'[a] \in Terminal \/ outcome'[a] # "none" => Decided(a)'
      BY <1>4, <1>6, <2>1 DEF StoreInv
    <2>5. \A a \in Approvals : status'[a] = "lapsed" => a \in ranOut'
      <3>1. end # "lapsed" /\ ranOut' = ranOut
        BY <1>1, <1>b DEF Terminal
      <3>2. \A a \in Approvals : status[a] = "lapsed" => a \in ranOut
        BY <1>4 DEF StoreInv
      <3>3. \A a \in Approvals : status'[a] = status[a] \/ status'[a] = end
        BY <2>1
      <3> QED
        BY <3>1, <3>2, <3>3
    <2> QED
      BY <1>1, <1>4, <2>2, <2>3, <2>4, <2>5 DEF StoreInv
  <1>8. ASSUME NEW p \in work \ {r}, p.stage = "claimed" PROVE Holds(p)'
    <2>1. p.id \in Approvals /\ Holds(p)
      BY <1>8 DEF ClientsInv, PostedInv
    <2>2. CASE p.id = r.id
      <3>1. holder[p.id] = p.n => p.id \in ranOut
        <4>1. p.n # r.n
          BY DEF ClientsInv, Numbered
        <4> QED
          BY <1>1, <1>4, <2>2, <4>1 DEF PostedInv, Holds
      <3> QED
        BY <1>1, <2>1, <3>1 DEF Holds
    <2>3. CASE p.id # r.id
      <3>1. status'[p.id] = status[p.id]
        BY <1>2, <1>4, <2>1, <2>3 DEF StoreInv
      <3> QED
        BY <1>1, <2>1, <3>1 DEF Holds
    <2> QED
      BY <2>2, <2>3
  <1>9. PostedInv(q)'
    BY <1>1, <1>4, <1>5, <1>6 DEF PostedInv
  <1> QED
    BY <1>1, <1>5, <1>6, <1>7, <1>8, <1>9, GateKept DEF ClientsInv, ClientsTypes

LEMMA HandlerDroppedKept ==
    ASSUME ClientsInv, NEW r \in work, HandlerDropped(r)
    PROVE  ClientsInv'
  <1>a. PICK q : q = [r EXCEPT !.stage = "lost"]
    OBVIOUS
  <1>1. Step(r, q) /\ UNCHANGED <<storeVars, table, typed, told, agreed, commands>>
    BY <1>a DEF HandlerDropped
  <1>2. r \in Posted /\ PostedInv(r)
    BY DEF ClientsInv, ClientsTypes
  <1>3. /\ q \in Posted /\ q.from = r.from /\ q.n = r.n /\ q.kind = r.kind /\ q.id = r.id
        /\ q.learn = r.learn /\ q.stage = "lost"
    BY <1>a, <1>2 DEF Posted
  <1>4. PostedInv(q)'
    BY <1>1, <1>2, <1>3 DEF PostedInv
  <1>5. /\ table' \subseteq Domains /\ StoreInv' /\ decided \subseteq decided'
        /\ \A p \in work : p.stage = "claimed" => Holds(p)'
    BY <1>1 DEF ClientsInv, ClientsTypes, StoreInv, PostedInv, Holds, Decided, storeVars
  <1> QED
    BY <1>1, <1>3, <1>4, <1>5, GateKept

\* A claim runs out, or a record ends.
LEMMA StoreMovesKept ==
    ASSUME ClientsInv, NEW a \in Approvals, ClaimRunsOut(a) \/ RecordEnds(a)
    PROVE  ClientsInv'
  <1>1. UNCHANGED <<holder, outcome, decided, table, typed, work, told, agreed, commands>>
    BY DEF ClaimRunsOut, RecordEnds
  <1>2. StoreInv /\ \A p \in work : p.stage = "claimed" => p.id \in Approvals /\ Holds(p)
    BY DEF ClientsInv, PostedInv
  <1>3. PICK s \in {"lapsed", "gone"} :
          /\ status' = [status EXCEPT ![a] = s] /\ ranOut \subseteq ranOut'
          /\ ranOut' \subseteq Approvals /\ (s = "lapsed" => a \in ranOut')
    BY <1>2 DEF ClaimRunsOut, RecordEnds, StoreInv
  <1>4. \A b \in Approvals : status'[b] = IF b = a THEN s ELSE status[b]
    BY <1>2, <1>3 DEF StoreInv
  <1>5. StoreInv'
    <2>1. status' \in [Approvals -> {"pending", "claimed", "lapsed", "gone"} \cup Terminal]
      BY <1>2, <1>3 DEF StoreInv
    <2>2. \A b \in Approvals : status'[b] \in Terminal \/ outcome'[b] # "none" => Decided(b)'
      BY <1>1, <1>2, <1>4 DEF StoreInv, Terminal, Decided
    <2> QED
      BY <1>1, <1>2, <1>3, <1>4, <2>1, <2>2 DEF StoreInv
  <1>6. \A p \in work : p.stage = "claimed" => Holds(p)'
    BY <1>1, <1>2, <1>3, <1>4 DEF Holds
  <1> QED
    BY <1>1, <1>5, <1>6, StoreKept

\* The gate restarts: what it had not answered is lost.
LEMMA ServerRestartsKept ==
    ASSUME ClientsInv, ServerRestarts
    PROVE  ClientsInv'
  <1>a. PICK f : f = [r \in work |-> IF r.stage = "answered" THEN r ELSE [r EXCEPT !.stage = "lost"]]
    OBVIOUS
  <1>1. \A r \in work : r \in Posted /\ PostedInv(r)
    BY DEF ClientsInv, ClientsTypes
  <1>2. \A r \in work : /\ f[r] \in Posted /\ f[r].from = r.from /\ f[r].n = r.n
                        /\ f[r].kind = r.kind /\ f[r].id = r.id /\ f[r].learn = r.learn
                        /\ f[r].code = r.code /\ f[r].stage \in {"answered", "lost"}
                        /\ f[r].stage = "answered" => r.stage = "answered"
    BY <1>a, <1>1 DEF Posted
  <1>3. work' = {f[r] : r \in work} /\ f = [r \in work |-> f[r]]
    BY <1>a DEF ServerRestarts
  <1>4. UNCHANGED <<storeVars, table, typed, told, agreed, commands>>
    BY DEF ServerRestarts
  <1>5. ClientsTypes'
    <2>1. work' \subseteq Posted
      BY <1>2, <1>3
    <2> QED
      BY <1>4, <2>1 DEF ClientsInv, ClientsTypes
  <1>6. Numbered(work')
    <2>1. f \in [work -> work']
      BY <1>3
    <2> QED
      BY <1>2, <1>3, <2>1, NumberedMapped DEF ClientsInv
  <1>7. ASSUME NEW q \in work' PROVE PostedInv(q)' /\ q.stage # "claimed"
    <2>1. PICK r \in work : q = f[r]
      BY <1>3
    <2> QED
      BY <1>1, <1>2, <1>4, <2>1 DEF PostedInv, Decided, storeVars
  <1>8. ASSUME NEW d \in Clients PROVE CommandInv(d, typed[d])' /\ ReportInv(told[d])'
    <2>1. CommandInv(d, typed[d]) /\ ReportInv(told[d])
      BY DEF ClientsInv
    <2>2. ASSUME NEW q \in work', typed[d].pc = "waiting", q.from = d, q.n = typed[d].req
          PROVE  Fits(typed[d], q)
      <3>1. PICK r \in work : q = f[r]
        BY <1>3
      <3> QED
        BY <1>2, <2>1, <2>2, <3>1 DEF CommandInv, Fits
    <2> QED
      BY <1>4, <2>1, <2>2 DEF CommandInv, ReportInv, Decided, storeVars
  <1>9. StoreInv'
    BY <1>4 DEF ClientsInv, StoreInv, Decided, storeVars
  <1> QED
    BY <1>5, <1>6, <1>7, <1>8, <1>9 DEF ClientsInv

LEMMA ClientsStep ==
    ASSUME ClientsInv, [ClientsNext]_clientsVars
    PROVE  ClientsInv'
  <1>1. CASE UNCHANGED clientsVars
    BY <1>1 DEF clientsVars, storeVars, ClientsInv, ClientsTypes, StoreInv, Decided, Holds,
                PostedInv, CommandInv, ReportInv
  <1>2. CASE Gate
    BY <1>2, GateReadKept, GateClaimKept, ShortCircuitKept, GateSettleKept, HandlerDroppedKept,
       StoreMovesKept, ServerRestartsKept
    DEF Gate
  <1>3. ASSUME NEW c \in Clients, ClientStep(c) \/ Type(c) PROVE ClientsInv'
    BY <1>3, ReceiveKept, TimeOutKept, ConfirmKept, ConfirmClearKept, RememberKept
    DEF ClientStep, Type
  <1>4. ASSUME NEW c \in Clients, Command(c) PROVE ClientsInv'
    <2>1. CASE RunList(c) \/ RunActions(c) \/ ShowAction(c) \/ RunAudit(c) \/ RunStatus(c)
               \/ \E a \in Approvals : RunShow(c, a)
      BY <2>1, RunReadKept DEF RunList, RunActions, ShowAction, RunAudit, RunStatus, RunShow,
                               Reads, ApprovalIds
    <2>2. ASSUME NEW a \in Approvals, ToolApprove(c, a) \/ RunDeny(c, a) PROVE ClientsInv'
      BY <2>2, DecideKept
    <2>3. ASSUME NEW a \in Approvals, NEW yes \in BOOLEAN, NEW flag \in MaybeDomain,
                 RunApprove(c, a, yes, flag)
          PROVE  ClientsInv'
      BY <2>3, RunApproveKept
    <2>4. ASSUME NEW d \in Domains, DomainsAdd(c, d) \/ DomainsRemove(c, d) \/ DomainsCheck(c, d)
          PROVE  ClientsInv'
      BY <2>4, DomainsKept
    <2>5. CASE DomainsClear(c) \/ DomainsList(c)
      BY <2>5, DomainsKept
    <2> QED
      BY <1>4, <2>1, <2>2, <2>3, <2>4, <2>5 DEF Command
  <1> QED
    BY <1>1, <1>2, <1>3, <1>4 DEF ClientsNext

\* A decision that an operator was told went through was carried out by the gate, what
\* an approval teaches was named or agreed to, and requests work under claims of one
\* approval together only after one has run out, whichever of the store, the ledger and
\* the connection fails and however often the gate restarts.
THEOREM ClientsInvariant == ClientsSpec => []ClientsInv
  <1>1. ClientsInit => ClientsInv
    <2> SUFFICES ASSUME ClientsInit PROVE ClientsInv
      OBVIOUS
    <2>1. Untold \in Told /\ Untold.cmd = "none"
      BY DEF Untold, Told, ApprovalIds
    <2>2. ClientsTypes
      BY <2>1, NoClientTyped, ClientsAssumption DEF ClientsInit, ClientsTypes
    <2>3. Numbered(work) /\ StoreInv
      BY FS_EmptySet DEF ClientsInit, Numbered, StoreInv, Terminal
    <2>4. \A c \in Clients : typed[c] = NoClient /\ told[c] = Untold
      BY DEF ClientsInit
    <2>5. \A c \in Clients : CommandInv(c, typed[c]) /\ ReportInv(told[c])
      BY <2>1, <2>4, NoClientTyped DEF CommandInv, ReportInv, Decisions
    <2> QED
      BY <2>2, <2>3, <2>5 DEF ClientsInit, ClientsInv
  <1> QED
    BY <1>1, ClientsStep, PTL DEF ClientsSpec

\* Who asks the gate, or asks on its behalf, goes by what is true: the cache of secrets,
\* the MCP adapter and the operators' clients, side by side, for any number of
\* executions, versions of the secrets, tools, operators and approvals.
THEOREM CallersAreSafe == SecretsSpec /\ AdapterSpec /\ ClientsSpec => []CallersSafe
  <1>1. SecretsInv /\ StaleListAnnounced /\ ClientsInv => CallersSafe
    BY ClientsInvSuffices DEF SecretsInv, CallersSafe
  <1> QED
    BY <1>1, SecretsInvariant, StaleListsAreAnnounced, ClientsInvariant, PTL

--------------------------------------------------------------------------------
(* The registry: what its layers give.                                         *)

FileType == OrAbsent \cup {Broken}

LEMMA BuiltFromOne ==
    ASSUME NEW p, NEW a \in Named
    PROVE  Built(<<p>>)[a] = IF files[p][a] \in Manifests THEN files[p][a] ELSE Embedded[a]
  <1> DEFINE dirs == <<p>>
             with == {i \in 1 .. Len(dirs) : files[dirs[i]][a] \in Manifests}
  <1>1. Len(dirs) = 1 /\ dirs[1] = p
    OBVIOUS
  <1>2. with = IF files[p][a] \in Manifests THEN {1} ELSE {}
    <2>1. \A i \in with : i = 1
      BY <1>1
    <2>2. 1 \in with <=> files[p][a] \in Manifests
      BY <1>1
    <2> QED
      BY <2>1, <2>2
  <1>3. Built(dirs)[a] = IF with = {} THEN Embedded[a]
                         ELSE files[dirs[CHOOSE i \in with : \A j \in with : j <= i]][a]
    BY DEF Built
  <1>4. with = {1} => (CHOOSE i \in with : \A j \in with : j <= i) = 1
    OBVIOUS
  <1> HIDE DEF with, dirs
  <1>5. CASE files[p][a] \in Manifests
    <2>1. with = {1} /\ with # {}
      BY <1>2, <1>5
    <2> QED
      BY <1>1, <1>3, <1>4, <1>5, <2>1 DEF dirs
  <1>6. CASE files[p][a] \notin Manifests
    BY <1>2, <1>3, <1>6 DEF dirs
  <1> QED
    BY <1>5, <1>6

LEMMA BuiltFromTwo ==
    ASSUME NEW p, NEW q, NEW a \in Named
    PROVE  Built(<<p, q>>)[a] = IF files[q][a] \in Manifests THEN files[q][a]
                                ELSE IF files[p][a] \in Manifests THEN files[p][a]
                                ELSE Embedded[a]
  <1> DEFINE dirs == <<p, q>>
             with == {i \in 1 .. Len(dirs) : files[dirs[i]][a] \in Manifests}
  <1>1. Len(dirs) = 2 /\ dirs[1] = p /\ dirs[2] = q
    OBVIOUS
  <1>2. /\ 1 \in with <=> files[p][a] \in Manifests
        /\ 2 \in with <=> files[q][a] \in Manifests
        /\ \A i \in with : i = 1 \/ i = 2
    BY <1>1
  <1>3. Built(dirs)[a] = IF with = {} THEN Embedded[a]
                         ELSE files[dirs[CHOOSE i \in with : \A j \in with : j <= i]][a]
    BY DEF Built
  <1> HIDE DEF with, dirs
  <1>4. CASE files[q][a] \in Manifests
    <2>1. (CHOOSE i \in with : \A j \in with : j <= i) = 2 /\ with # {}
      BY <1>2, <1>4
    <2> QED
      BY <1>1, <1>3, <1>4, <2>1 DEF dirs
  <1>5. CASE files[q][a] \notin Manifests /\ files[p][a] \in Manifests
    <2>1. (CHOOSE i \in with : \A j \in with : j <= i) = 1 /\ with # {}
      BY <1>2, <1>5
    <2> QED
      BY <1>1, <1>3, <1>5, <2>1 DEF dirs
  <1>6. CASE files[q][a] \notin Manifests /\ files[p][a] \notin Manifests
    <2>1. with = {}
      BY <1>2, <1>6
    <2> QED
      BY <1>3, <1>6, <2>1 DEF dirs
  <1> QED
    BY <1>4, <1>5, <1>6

LEMMA PrimaryIsLast ==
    /\ install.project => ManifestDirs = <<"user", "project">> /\ Primary = "project"
    /\ ~install.project => ManifestDirs = <<"user">> /\ Primary = "user"
    /\ Primary \in Directories
  BY DEF ManifestDirs, Primary, Directories

--------------------------------------------------------------------------------
(* The registry: the invariant.                                                *)

Invocation == [at : {"new", "trust", "validate", "policy", "waiting", "prepare", "run",
                     "done", "refused"},
               action : Named \cup {Absent}, manifest : OrAbsent, checked : OrAbsent,
               seen : SUBSET OrAbsent]

\* A version that the gate would run for the manifest m.
Registered(v, m) == v # Absent /\ (v \in Builtin \/ DigestOf[v] = DigestOf[m])

\* Before its digest is compared a call has seen what is served; afterwards it has
\* seen a version that was registered with its digest.
InvocationInv(x) ==
    /\ x.at # "new" => x.action \in Named
    /\ x.at = "trust" => served[x.action] \in x.seen
    /\ x.at \in {"validate", "policy", "prepare", "run", "done"} =>
          \E v \in x.seen : Registered(v, x.manifest)

RegistryInv ==
    /\ RegistryTypeOK
    /\ OverrideIsServed
    /\ \A c \in Invocations : InvocationInv(invocation[c])

LEMMA BuiltServes ==
    ASSUME RegistryInv, NEW registry, NEW lenient \in BOOLEAN, lenient => install.dev,
           \/ registry = Built(<<Primary>>) /\ Loads(<<Primary>>, lenient)
           \/ registry = Built(ManifestDirs) /\ Loads(ManifestDirs, lenient)
    PROVE  /\ registry \in [Named -> OrAbsent]
           /\ \A a \in Named :
                 /\ ~install.dev => files[Primary][a] # Broken
                 /\ files[Primary][a] \in Manifests => registry[a] = files[Primary][a]
  <1>1. ASSUME NEW a \in Named
        PROVE  /\ registry[a] \in OrAbsent
               /\ ~install.dev => files[Primary][a] # Broken
               /\ files[Primary][a] \in Manifests => registry[a] = files[Primary][a]
    <2>1. Embedded[a] \in OrAbsent
      BY RegistryAssumption DEF OrAbsent
    <2>2. CASE registry = Built(<<Primary>>) /\ Loads(<<Primary>>, lenient)
      <3>1. registry[a] = IF files[Primary][a] \in Manifests THEN files[Primary][a]
                          ELSE Embedded[a]
        BY <2>2, BuiltFromOne
      <3>2. ~install.dev => files[Primary][a] # Broken
        BY <2>2 DEF Loads
      <3> QED
        BY <2>1, <3>1, <3>2 DEF OrAbsent
    <2>3. CASE registry = Built(ManifestDirs) /\ Loads(ManifestDirs, lenient)
      <3>1. CASE install.project
        <4>1. ManifestDirs = <<"user", "project">> /\ Primary = "project"
          BY <3>1, PrimaryIsLast
        <4>2. registry[a] = IF files["project"][a] \in Manifests THEN files["project"][a]
                            ELSE IF files["user"][a] \in Manifests THEN files["user"][a]
                            ELSE Embedded[a]
          BY <2>3, <4>1, BuiltFromTwo
        <4>3. ~install.dev => files["project"][a] # Broken
          BY <2>3, <4>1 DEF Loads
        <4> QED
          BY <2>1, <4>1, <4>2, <4>3 DEF OrAbsent
      <3>2. CASE ~install.project
        <4>1. ManifestDirs = <<"user">> /\ Primary = "user"
          BY <3>2, PrimaryIsLast
        <4>2. registry[a] = IF files["user"][a] \in Manifests THEN files["user"][a]
                            ELSE Embedded[a]
          BY <2>3, <4>1, BuiltFromOne
        <4>3. ~install.dev => files["user"][a] # Broken
          BY <2>3, <4>1 DEF Loads
        <4> QED
          BY <2>1, <4>1, <4>2, <4>3 DEF OrAbsent
      <3> QED
        BY <3>1, <3>2
    <2> QED
      BY <2>2, <2>3
  <1>2. registry = [a \in Named |-> registry[a]]
    BY DEF Built
  <1> QED
    BY <1>1, <1>2

\* The steps of a call.
LEMMA InvocationKept ==
    ASSUME RegistryInv, NEW c \in Invocations, NEW x \in Invocation,
           invocation' = [invocation EXCEPT ![c] = x], InvocationInv(x),
           UNCHANGED <<install, files, served, builtFrom>>
    PROVE  RegistryInv'
  <1>1. RegistryTypeOK'
    BY DEF RegistryInv, RegistryTypeOK, Invocation
  <1>2. OverrideIsServed'
    BY DEF RegistryInv, OverrideIsServed, Primary, ManifestDirs
  <1>3. ASSUME NEW d \in Invocations PROVE InvocationInv(invocation[d])'
    <2>1. invocation'[d] = IF d = c THEN x ELSE invocation[d]
      BY DEF RegistryInv, RegistryTypeOK
    <2>2. InvocationInv(invocation'[d])
      BY <2>1 DEF RegistryInv
    <2> QED
      BY <2>2 DEF InvocationInv
  <1> QED
    BY <1>1, <1>2, <1>3 DEF RegistryInv

LEMMA GoesOnKept ==
    ASSUME RegistryInv, NEW c \in Invocations,
           NEW at \in {"validate", "policy", "waiting", "prepare", "run", "done", "refused"},
           GoesOn(c, at), UNCHANGED <<install, files, served, builtFrom>>,
           invocation[c].at # "new",
           at \in {"validate", "policy", "prepare", "run", "done"} =>
               \E v \in invocation[c].seen : Registered(v, invocation[c].manifest)
    PROVE  RegistryInv'
  <1> DEFINE x == [invocation[c] EXCEPT !.at = at]
  <1>1. invocation[c] \in Invocation /\ InvocationInv(invocation[c])
    BY DEF RegistryInv, RegistryTypeOK, Invocation
  <1>2. /\ x \in Invocation /\ x.at = at /\ x.action = invocation[c].action
        /\ x.seen = invocation[c].seen /\ x.manifest = invocation[c].manifest
    BY <1>1 DEF Invocation
  <1>3. invocation' = [invocation EXCEPT ![c] = x]
    BY DEF GoesOn
  <1> HIDE DEF x
  <1>4. InvocationInv(x)
    BY <1>1, <1>2 DEF InvocationInv
  <1> QED
    BY <1>2, <1>3, <1>4, InvocationKept

\* What the digest's comparison establishes.
LEMMA TrustedIsRegistered ==
    ASSUME NEW a, NEW m, Trusted(a, DigestOf[m])
    PROVE  Registered(served[a], m)
  BY DEF Trusted, Registered

LEMMA CallStep ==
    ASSUME RegistryInv, NEW c \in Invocations,
           \/ ResolveAction(c) \/ VerifyTrust(c) \/ ValidateAndHash(c) \/ EvaluatePolicy(c)
           \/ ApprovePlan(c) \/ PrepareApproved(c) \/ RunProvider(c)
    PROVE  RegistryInv'
  <1>1. /\ invocation[c] \in Invocation /\ InvocationInv(invocation[c])
        /\ served \in [Named -> OrAbsent]
    BY DEF RegistryInv, RegistryTypeOK, Invocation
  <1>2. UNCHANGED <<install, files, served, builtFrom>>
    BY DEF ResolveAction, VerifyTrust, ValidateAndHash, EvaluatePolicy, ApprovePlan,
           PrepareApproved, RunProvider
  <1>3. CASE ResolveAction(c)
    <2>1. PICK a \in Named :
            invocation' = [invocation EXCEPT ![c] =
              [at |-> IF served[a] = Absent THEN "refused" ELSE "trust", action |-> a,
               manifest |-> served[a], checked |-> Absent, seen |-> {served[a]}]]
      BY <1>3 DEF ResolveAction
    <2> DEFINE x == [at |-> IF served[a] = Absent THEN "refused" ELSE "trust", action |-> a,
                     manifest |-> served[a], checked |-> Absent, seen |-> {served[a]}]
    <2>2. served[a] \in OrAbsent /\ Absent \in OrAbsent
      BY <1>1 DEF OrAbsent
    <2>3. /\ x \in Invocation /\ x.at \in {"refused", "trust"} /\ x.action = a
          /\ x.seen = {served[a]}
      BY <2>2 DEF Invocation
    <2>4. invocation' = [invocation EXCEPT ![c] = x]
      BY <2>1
    <2> HIDE DEF x
    <2>5. InvocationInv(x)
      BY <2>3 DEF InvocationInv
    <2> QED
      BY <1>2, <2>3, <2>4, <2>5, InvocationKept
  <1>4. CASE VerifyTrust(c)
    <2>1. CASE Trusted(invocation[c].action, DigestOf[invocation[c].manifest])
      <3>1. invocation[c].at = "trust" /\ GoesOn(c, "validate")
        BY <1>4, <2>1 DEF VerifyTrust
      <3>2. served[invocation[c].action] \in invocation[c].seen
        BY <1>1, <3>1 DEF InvocationInv
      <3>3. Registered(served[invocation[c].action], invocation[c].manifest)
        BY <2>1, TrustedIsRegistered
      <3> QED
        BY <1>2, <3>1, <3>2, <3>3, GoesOnKept
    <2>2. CASE ~Trusted(invocation[c].action, DigestOf[invocation[c].manifest])
      BY <1>2, <1>4, <2>2, GoesOnKept DEF VerifyTrust
    <2> QED
      BY <2>1, <2>2
  <1>5. CASE ValidateAndHash(c)
    <2>1. invocation[c].at = "validate"
      BY <1>5 DEF ValidateAndHash
    <2>2. \E v \in invocation[c].seen : Registered(v, invocation[c].manifest)
      BY <1>1, <2>1 DEF InvocationInv
    <2>3. CASE GoesOn(c, "refused")
      BY <1>2, <2>1, <2>3, GoesOnKept
    <2>4. CASE \E w \in OrAbsent :
                  invocation' = [invocation EXCEPT ![c].at = "policy", ![c].checked = w]
      <3>1. PICK w \in OrAbsent :
                  invocation' = [invocation EXCEPT ![c].at = "policy", ![c].checked = w]
        BY <2>4
      <3> DEFINE x == [invocation[c] EXCEPT !.at = "policy", !.checked = w]
      <3>2. /\ x \in Invocation /\ x.at = "policy" /\ x.action = invocation[c].action
            /\ x.seen = invocation[c].seen /\ x.manifest = invocation[c].manifest
        BY <1>1 DEF Invocation
      <3>3. invocation' = [invocation EXCEPT ![c] = x]
        BY <3>1
      <3> HIDE DEF x
      <3>4. InvocationInv(x)
        BY <1>1, <2>1, <2>2, <3>2 DEF InvocationInv
      <3> QED
        BY <1>2, <3>2, <3>3, <3>4, InvocationKept
    <2>5. (IF served[invocation[c].action] \in Schemaless THEN Absent
           ELSE served[invocation[c].action]) \in OrAbsent
      BY <1>1, <2>1 DEF InvocationInv, OrAbsent
    <2> QED
      BY <1>5, <2>3, <2>4, <2>5 DEF ValidateAndHash
  <1>6. CASE EvaluatePolicy(c)
    <2>1. invocation[c].at = "policy"
      BY <1>6 DEF EvaluatePolicy
    <2>2. \E v \in invocation[c].seen : Registered(v, invocation[c].manifest)
      BY <1>1, <2>1 DEF InvocationInv
    <2> QED
      BY <1>2, <1>6, <2>1, <2>2, GoesOnKept DEF EvaluatePolicy
  <1>7. CASE ApprovePlan(c)
    <2> DEFINE a == invocation[c].action
               trusted == Trusted(a, DigestOf[invocation[c].manifest])
               to == IF trusted THEN "prepare" ELSE "refused"
               x == [invocation[c] EXCEPT !.at = to, !.seen = {served[a]}]
    <2>1. invocation[c].at = "waiting" /\ a \in Named
      BY <1>1, <1>7 DEF ApprovePlan, InvocationInv
    <2>2. served[a] \in OrAbsent
      BY <1>1, <2>1
    <2>3. /\ x \in Invocation /\ x.at = to /\ x.action = a
          /\ x.seen = {served[a]} /\ x.manifest = invocation[c].manifest
      BY <1>1, <2>2 DEF Invocation
    <2>4. invocation' = [invocation EXCEPT ![c].at = to, ![c].seen = {served[a]}]
      BY <1>7 DEF ApprovePlan
    <2>5. invocation' = [invocation EXCEPT ![c] = x]
      BY <2>4
    <2>6. to = "prepare" => Registered(served[a], invocation[c].manifest)
      BY TrustedIsRegistered
    <2>7. to \in {"prepare", "refused"}
      OBVIOUS
    <2> HIDE DEF x, to
    <2>8. InvocationInv(x)
      BY <2>1, <2>3, <2>6, <2>7 DEF InvocationInv
    <2> QED
      BY <1>2, <2>3, <2>5, <2>8, InvocationKept
  <1>8. CASE PrepareApproved(c)
    <2>1. invocation[c].at = "prepare" /\ (GoesOn(c, "refused") \/ GoesOn(c, "run"))
      BY <1>8 DEF PrepareApproved
    <2>2. \E v \in invocation[c].seen : Registered(v, invocation[c].manifest)
      BY <1>1, <2>1 DEF InvocationInv
    <2> QED
      BY <1>2, <2>1, <2>2, GoesOnKept
  <1>9. CASE RunProvider(c)
    <2>1. invocation[c].at = "run" /\ GoesOn(c, "done")
      BY <1>9 DEF RunProvider
    <2>2. \E v \in invocation[c].seen : Registered(v, invocation[c].manifest)
      BY <1>1, <2>1 DEF InvocationInv
    <2> QED
      BY <1>2, <2>1, <2>2, GoesOnKept
  <1> QED
    BY <1>3, <1>4, <1>5, <1>6, <1>7, <1>8, <1>9

\* A new registry is in place: what it serves was built from the files as they are, and
\* every call is where it was and has seen it, or is gone, or has not begun to look.
LEMMA SwapKept ==
    ASSUME RegistryInv, NEW registry, served' = registry, builtFrom' = files,
           registry \in [Named -> OrAbsent],
           \A a \in Named :
              /\ ~install.dev => files[Primary][a] # Broken
              /\ files[Primary][a] \in Manifests => registry[a] = files[Primary][a],
           UNCHANGED <<install, files>>,
           invocation' = [c \in Invocations |-> invocation'[c]],
           \A c \in Invocations : invocation'[c] \in Invocation /\ InvocationInv(invocation[c])'
    PROVE  RegistryInv'
  <1>1. RegistryTypeOK'
    <2>1. invocation' \in [Invocations -> Invocation]
      OBVIOUS
    <2> QED
      BY <2>1 DEF RegistryInv, RegistryTypeOK, Invocation
  <1>2. Primary' = Primary
    BY DEF Primary, ManifestDirs
  <1>3. OverrideIsServed'
    BY <1>2 DEF OverrideIsServed
  <1> QED
    BY <1>1, <1>3 DEF RegistryInv

LEMMA ReloadServedKept ==
    ASSUME RegistryInv, ReloadServed
    PROVE  RegistryInv'
  <1>a. PICK registry : registry = Built(<<Primary>>)
    OBVIOUS
  <1>1. /\ Loads(<<Primary>>, FALSE) /\ Swap(registry) /\ UNCHANGED <<install, files>>
    BY <1>a DEF ReloadServed
  <1>2. /\ registry \in [Named -> OrAbsent]
        /\ \A a \in Named :
              /\ ~install.dev => files[Primary][a] # Broken
              /\ files[Primary][a] \in Manifests => registry[a] = files[Primary][a]
    BY <1>a, <1>1, BuiltServes
  <1>3. ASSUME NEW c \in Invocations
        PROVE  invocation'[c] \in Invocation /\ InvocationInv(invocation[c])'
    <2>1. invocation[c] \in Invocation /\ InvocationInv(invocation[c])
      BY DEF RegistryInv, RegistryTypeOK, Invocation
    <2>2. CASE invocation[c].at \in {"new", "waiting", "done", "refused"}
      <3>1. invocation'[c] = invocation[c]
        BY <1>1, <2>2 DEF Swap
      <3> QED
        BY <2>1, <2>2, <3>1 DEF InvocationInv
    <2>3. CASE invocation[c].at \notin {"new", "waiting", "done", "refused"}
      <3>a. PICK y : y = registry[invocation[c].action]
        OBVIOUS
      <3>b. PICK x : x = [invocation[c] EXCEPT !.seen = @ \cup {y}]
        OBVIOUS
      <3>1. invocation'[c] = x
        BY <1>1, <2>3, <3>a, <3>b DEF Swap
      <3>2. invocation[c].action \in Named
        BY <2>1, <2>3 DEF InvocationInv
      <3>3. y \in OrAbsent /\ y = served'[invocation[c].action]
        BY <1>1, <1>2, <3>a, <3>2 DEF Swap
      <3>4. /\ x \in Invocation /\ x.at = invocation[c].at /\ x.action = invocation[c].action
            /\ x.manifest = invocation[c].manifest /\ x.seen = invocation[c].seen \cup {y}
        BY <2>1, <3>b, <3>3 DEF Invocation
      <3> QED
        BY <2>1, <2>3, <3>1, <3>2, <3>3, <3>4 DEF InvocationInv
    <2> QED
      BY <2>2, <2>3
  <1>4. /\ served' = registry /\ builtFrom' = files
        /\ invocation' = [c \in Invocations |-> invocation'[c]]
    BY <1>1 DEF Swap
  <1> QED
    BY <1>1, <1>2, <1>3, <1>4, SwapKept

LEMMA RestartRegistryKept ==
    ASSUME RegistryInv, RestartRegistry
    PROVE  RegistryInv'
  <1>a. PICK registry : registry = Built(ManifestDirs)
    OBVIOUS
  <1>1. /\ Loads(ManifestDirs, install.dev) /\ served' = registry /\ builtFrom' = files
        /\ UNCHANGED <<install, files>> /\ install.dev \in BOOLEAN
        /\ invocation' = [c \in Invocations |-> invocation'[c]]
    BY <1>a DEF RestartRegistry, RegistryInv, RegistryTypeOK
  <1>2. /\ registry \in [Named -> OrAbsent]
        /\ \A a \in Named :
              /\ ~install.dev => files[Primary][a] # Broken
              /\ files[Primary][a] \in Manifests => registry[a] = files[Primary][a]
    BY <1>a, <1>1, BuiltServes
  <1>3. ASSUME NEW c \in Invocations
        PROVE  invocation'[c] \in Invocation /\ InvocationInv(invocation[c])'
    <2>1. invocation[c] \in Invocation /\ InvocationInv(invocation[c])
      BY DEF RegistryInv, RegistryTypeOK, Invocation
    <2>2. CASE invocation[c].at \in {"trust", "validate", "policy", "prepare", "run"}
      <3>b. PICK x : x = [invocation[c] EXCEPT !.at = "refused"]
        OBVIOUS
      <3>1. invocation'[c] = x
        BY <2>2, <3>b DEF RestartRegistry
      <3>2. x \in Invocation /\ x.at = "refused" /\ x.action = invocation[c].action
        BY <2>1, <3>b DEF Invocation
      <3> QED
        BY <2>1, <2>2, <3>1, <3>2 DEF InvocationInv
    <2>3. CASE invocation[c].at \notin {"trust", "validate", "policy", "prepare", "run"}
      <3>1. invocation'[c] = invocation[c]
        BY <2>3 DEF RestartRegistry
      <3> QED
        BY <2>1, <2>3, <3>1 DEF InvocationInv
    <2> QED
      BY <2>2, <2>3
  <1> QED
    BY <1>1, <1>2, <1>3, SwapKept

\* Every reachable state satisfies RegistryInv: a call has seen the registry that vouches
\* for its module, and what is served follows the configured directory as it was read.
THEOREM RegistryInvariant == RegistrySpec => []RegistryInv
  <1>1. RegistryInit => RegistryInv
    <2> SUFFICES ASSUME RegistryInit PROVE RegistryInv
      OBVIOUS
    <2>1. Unmade \in Invocation /\ Unmade.at = "new"
      BY DEF Unmade, Invocation, OrAbsent
    <2>2. RegistryTypeOK
      <3>1. files \in [Directories -> [Named -> OrAbsent \cup {Broken}]]
        BY DEF RegistryInit, OrAbsent
      <3>2. served \in [Named -> OrAbsent]
        BY RegistryAssumption DEF RegistryInit, OrAbsent
      <3>3. invocation \in [Invocations -> Invocation]
        BY <2>1 DEF RegistryInit
      <3> QED
        BY <3>1, <3>2, <3>3 DEF RegistryInit, RegistryTypeOK, Invocation
    <2>3. \A a \in Named : builtFrom[Primary][a] = Absent
      BY PrimaryIsLast DEF RegistryInit
    <2>4. OverrideIsServed
      BY <2>3, RegistryAssumption DEF OverrideIsServed
    <2>5. \A c \in Invocations : InvocationInv(invocation[c])
      BY <2>1 DEF RegistryInit, InvocationInv
    <2> QED
      BY <2>2, <2>4, <2>5 DEF RegistryInv
  <1>2. RegistryInv /\ [RegistryNext]_registryVars => RegistryInv'
    <2> SUFFICES ASSUME RegistryInv, [RegistryNext]_registryVars PROVE RegistryInv'
      OBVIOUS
    <2>1. ASSUME NEW d \in Directories, NEW a \in Named, EditManifest(d, a) PROVE RegistryInv'
      <3>1. UNCHANGED <<install, served, builtFrom, invocation>>
        BY <2>1 DEF EditManifest
      <3>2. files' \in [Directories -> [Named -> OrAbsent \cup {Broken}]]
        BY <2>1 DEF EditManifest, RegistryInv, RegistryTypeOK
      <3> QED
        BY <3>1, <3>2 DEF RegistryInv, RegistryTypeOK, OverrideIsServed, Primary, ManifestDirs,
                          InvocationInv
    <2>2. CASE UNCHANGED registryVars
      BY <2>2 DEF registryVars, RegistryInv, RegistryTypeOK, OverrideIsServed, Primary,
                  ManifestDirs, InvocationInv
    <2> QED
      BY <2>1, <2>2, ReloadServedKept, RestartRegistryKept, CallStep DEF RegistryNext
  <1> QED
    BY <1>1, <1>2, PTL DEF RegistrySpec

\* What runs was registered at a moment of the call itself, after its approval if it had
\* to wait, and in production an override in the configured directory is what is served,
\* across any edits, reloads and restarts (store.rs, admin.rs, pipeline.rs).
THEOREM RegistryIsSafe == RegistrySpec => []RegistrySafe
  <1>1. RegistryInv => RegistrySafe
    <2> SUFFICES ASSUME RegistryInv PROVE RegistrySafe
      OBVIOUS
    <2>1. RunsWhatIsRegistered
      BY DEF RegistryInv, InvocationInv, Registered, RunsWhatIsRegistered
    <2> QED
      BY <2>1 DEF RegistryInv, RegistrySafe
  <1> QED
    BY <1>1, RegistryInvariant, PTL
===============================================================================
