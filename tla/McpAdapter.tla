------------------------------- MODULE McpAdapter -------------------------------
(***************************************************************************)
(* The MCP adapter (crates/latchgate-mcp): a loop that answers one line    *)
(* after the other, a background task that fetches the tool list again,    *)
(* and what they share: the reconnection state, the tool cache and the     *)
(* lease.  The gate may go down, come back with another signing key and    *)
(* other actions, and refuse requests.                                     *)
(*                                                                         *)
(* A fetch of the tool list is two steps, the gate's answer and the update *)
(* of the cache, so that the two tasks can pass each other.  A tool is its *)
(* name: schemas and descriptions are left out, and so is the wording of   *)
(* the answers.                                                            *)
(***************************************************************************)
EXTENDS Integers

CONSTANTS
    Tools,          \* action ids
    MaxGateStarts,  \* bound on restarts of the gate
    MaxRefusals     \* bound on answers that are HTTP errors of the gate's own

ASSUME AdapterAssumption ==
    MaxGateStarts \in Nat /\ MaxRefusals \in Nat

VARIABLES
    upstream,   \* the gate: up, its signing key (how often it started), its tools
    reconnect,  \* healthy; due: next_retry_at has passed
    dpop,       \* the lease: held, the key it is signed with, long enough to go
    cache,      \* the tool cache: held, names, young (TOOL_CACHE_TTL)
    line,       \* the line in hand
    refresh,    \* the background task
    client,     \* initialized, listed: has a view of the tools, told: that it changed
    refusals

adapterVars == <<upstream, reconnect, dpop, cache, line, refresh, client, refusals>>

\* at: the step the handler is at; names: what a fetch returned; late: the
\* deadline of the approval poll has passed.
Line == [at : {"idle", "reach", "probe", "connect", "rewarm", "restore", "lookup", "miss",
               "remiss", "fetch", "keep", "execute", "poll", "sleep"},
         op : {"call", "list", "pending"}, tool : Tools, names : SUBSET Tools, late : BOOLEAN]

AnyTool == CHOOSE x \in Tools : TRUE

AdapterInit ==
    /\ upstream = [up |-> TRUE, key |-> 0, tools |-> Tools]
    /\ reconnect = [healthy |-> TRUE, due |-> TRUE]
    /\ dpop = [held |-> FALSE, key |-> 0, young |-> FALSE]
    /\ cache = [held |-> FALSE, names |-> {}, young |-> FALSE]
    /\ line = [at |-> "idle", op |-> "call", tool |-> AnyTool, names |-> {}, late |-> FALSE]
    /\ refresh = [at |-> "asleep", names |-> {}]
    /\ client = [ready |-> FALSE, listed |-> FALSE, view |-> {}, told |-> FALSE]
    /\ refusals = 0

--------------------------------------------------------------------------------
\* The answers of the gate: "ok", an HTTP error, or none.
Replies == (IF upstream.up THEN {"ok"} ELSE {"down"})
             \cup (IF upstream.up /\ refusals < MaxRefusals THEN {"refused"} ELSE {})

Counted(reply) == refusals' = IF reply = "refused" THEN refusals + 1 ELSE refusals

\* on_transport_failure and on_gate_success.
AfterReply(reply) ==
    CASE reply = "down" /\ reconnect.healthy -> [healthy |-> FALSE, due |-> FALSE]
      [] reply = "ok" /\ ~reconnect.healthy -> [reconnect EXCEPT !.healthy = TRUE]
      [] OTHER -> reconnect

AdvanceBackoff == [reconnect EXCEPT !.due = FALSE]

Go(at) == line' = [line EXCEPT !.at = at]

\* The answer is written; the handler takes the next line.
Answer == line' = [line EXCEPT !.at = "idle", !.names = {}, !.late = FALSE]

--------------------------------------------------------------------------------

\* ensure_lease: a lease with RENEW_THRESHOLD_SECONDS to go is taken as it is.
NeedsRenewal == ~dpop.held \/ ~dpop.young

\* With no renewal the gate is not asked.
LeaseReplies == IF NeedsRenewal THEN Replies ELSE {"ok"}

LeaseAfter(reply) ==
    IF NeedsRenewal /\ reply = "ok"
    THEN [held |-> TRUE, key |-> upstream.key, young |-> TRUE] ELSE dpop

LeaseAccepted == dpop'.key = upstream.key

\* A client that keeps to the protocol initializes first and lists the tools.
Initialize ==
    /\ line.at = "idle" /\ ~client.ready
    /\ client' = [client EXCEPT !.ready = TRUE]
    /\ UNCHANGED <<upstream, reconnect, dpop, cache, line, refresh, refusals>>

ReceiveLine(op, x) ==
    /\ line.at = "idle" /\ client.ready
    /\ line' = [line EXCEPT !.at = "reach", !.op = op, !.tool = x]
    /\ UNCHANGED <<upstream, reconnect, dpop, cache, refresh, client, refusals>>

AfterReach == CASE line.op = "call" -> "lookup"
                [] line.op = "list" -> "fetch"
                [] line.op = "pending" -> "execute"

\* ensure_gate_reachable: the state is read once under its lock.
Reach ==
    /\ line.at = "reach"
    /\ CASE reconnect.healthy -> Go(AfterReach)
         [] ~reconnect.healthy /\ ~reconnect.due -> Answer
         [] OTHER -> Go("probe")
    /\ UNCHANGED <<upstream, reconnect, dpop, cache, refresh, client, refusals>>

\* health_check asks without authentication.
Probe ==
    /\ line.at = "probe"
    /\ \E reply \in Replies :
          /\ Counted(reply)
          /\ IF reply = "ok" THEN Go("connect") /\ UNCHANGED reconnect
             ELSE Answer /\ reconnect' = AdvanceBackoff
    /\ UNCHANGED <<upstream, dpop, cache, refresh, client>>

\* ensure_connected, then restore_healthy.
Connect ==
    /\ line.at = "connect"
    /\ \E reply \in LeaseReplies :
          /\ Counted(reply)
          /\ dpop' = LeaseAfter(reply)
          /\ IF reply = "ok" THEN Go("rewarm") /\ reconnect' = [reconnect EXCEPT !.healthy = TRUE]
             ELSE Answer /\ reconnect' = AdvanceBackoff
    /\ UNCHANGED <<upstream, cache, refresh, client>>

--------------------------------------------------------------------------------

\* warm_tool_cache, second half: under the write lock the names are compared with
\* those held, and a client that is ready is told of a difference.
Warm(names) ==
    /\ cache' = [held |-> TRUE, names |-> names, young |-> TRUE]
    /\ client' = IF cache.held /\ cache.names # names /\ client.ready
                 THEN [client EXCEPT !.told = TRUE] ELSE client

\* After a reconnection a failing fetch is logged and nothing else.
Rewarm ==
    /\ line.at = "rewarm"
    /\ \E reply \in Replies :
          /\ Counted(reply)
          /\ line' = IF reply = "ok" THEN [line EXCEPT !.at = "restore", !.names = upstream.tools]
                     ELSE [line EXCEPT !.at = AfterReach]
    /\ UNCHANGED <<upstream, reconnect, dpop, cache, refresh, client>>

Restore ==
    /\ line.at = "restore"
    /\ Warm(line.names)
    /\ Go(AfterReach)
    /\ UNCHANGED <<upstream, reconnect, dpop, refresh, refusals>>

\* validate_tool_call: a cold cache leaves the check to the gate; arguments that
\* do not fit the schema are refused here.
FindTool ==
    /\ line.at = "lookup"
    /\ IF cache.held /\ line.tool \notin cache.names THEN Go("miss")
       ELSE Go("execute") \/ (cache.held /\ Answer)
    /\ UNCHANGED <<upstream, reconnect, dpop, cache, refresh, client, refusals>>

Miss ==
    /\ line.at = "miss"
    /\ \E reply \in Replies :
          /\ Counted(reply)
          /\ IF reply = "ok" THEN /\ line' = [line EXCEPT !.at = "remiss", !.names = upstream.tools]
                                  /\ UNCHANGED reconnect
             ELSE Answer /\ reconnect' = AfterReply(reply)
    /\ UNCHANGED <<upstream, dpop, cache, refresh, client>>

Remiss ==
    /\ line.at = "remiss"
    /\ Warm(line.names)
    /\ IF line.tool \in line.names THEN Go("execute") \/ Answer ELSE Answer
    /\ UNCHANGED <<upstream, reconnect, dpop, refresh, refusals>>

\* tools/list: get_or_fetch_tools.  What the client was told before is out of date.
View(names) ==
    client' = [client EXCEPT !.listed = TRUE, !.view = names, !.told = FALSE]

ListCached ==
    /\ line.at = "fetch" /\ cache.held /\ cache.young
    /\ View(cache.names)
    /\ Answer
    /\ reconnect' = AfterReply("ok")
    /\ UNCHANGED <<upstream, dpop, cache, refresh, refusals>>

ListFetch ==
    /\ line.at = "fetch" /\ ~(cache.held /\ cache.young)
    /\ \E reply \in Replies :
          /\ Counted(reply)
          /\ IF reply = "ok" THEN /\ line' = [line EXCEPT !.at = "keep", !.names = upstream.tools]
                                  /\ UNCHANGED reconnect
             ELSE Answer /\ reconnect' = AfterReply(reply)
    /\ UNCHANGED <<upstream, dpop, cache, refresh, client>>

\* The cache is warmed with what was fetched, and the client is given the same; a
\* notification that this causes is sent before the answer.
ListKeep ==
    /\ line.at = "keep"
    /\ cache' = [held |-> TRUE, names |-> line.names, young |-> TRUE]
    /\ View(line.names)
    /\ Answer
    /\ reconnect' = AfterReply("ok")
    /\ UNCHANGED <<upstream, dpop, refresh, refusals>>

--------------------------------------------------------------------------------
\* execute and my_pending: a lease, a fresh proof, one request.  A gate that does
\* not know the lease answers 401, which leaves the lease as it is.
Execute ==
    /\ line.at = "execute"
    /\ \E got \in LeaseReplies :
          /\ dpop' = LeaseAfter(got)
          /\ IF got # "ok"
             THEN Answer /\ Counted(got) /\ reconnect' = AfterReply(got)
             ELSE \E reply \in Replies :
                    /\ Counted(reply)
                    /\ IF reply = "ok" /\ ~LeaseAccepted
                       THEN Answer /\ UNCHANGED reconnect
                       ELSE /\ reconnect' = AfterReply(reply)
                            /\ Answer \/ (reply = "ok" /\ line.op = "call" /\ Go("poll"))
    /\ UNCHANGED <<upstream, cache, refresh, client>>

\* A variant with a fault: the poll of an approval has no deadline.
NeverPast == FALSE

\* The deadline of the poll, by the monotonic clock.
PastDeadline == line.late

\* poll_for_approval of an agent's session, the head of the loop: the deadline,
\* then one authenticated request.  Any error ends it with the fallback answer.
Poll ==
    /\ line.at = "poll"
    /\ IF PastDeadline THEN Answer /\ UNCHANGED <<dpop, reconnect, refusals>>
       ELSE \E got \in LeaseReplies, reply \in Replies :
              /\ dpop' = LeaseAfter(got)
              /\ Counted(IF got = "ok" THEN reply ELSE got)
              /\ IF got = "ok" /\ reply = "ok" /\ LeaseAccepted
                 THEN (Answer \/ Go("sleep")) /\ UNCHANGED reconnect
                 ELSE /\ Answer
                      /\ reconnect' = IF "down" \in {got, reply} THEN AfterReply("down")
                                      ELSE reconnect
    /\ UNCHANGED <<upstream, cache, refresh, client>>

PollSleeps ==
    /\ line.at = "sleep"
    /\ Go("poll")
    /\ UNCHANGED <<upstream, reconnect, dpop, cache, refresh, client, refusals>>

DeadlinePasses ==
    /\ line.at \in {"poll", "sleep"} /\ ~line.late
    /\ line' = [line EXCEPT !.late = TRUE]
    /\ UNCHANGED <<upstream, reconnect, dpop, cache, refresh, client, refusals>>

--------------------------------------------------------------------------------
\* background_refresh_tick: skipped while the gate is known to be down.
RefreshFetch ==
    /\ refresh.at = "asleep" /\ reconnect.healthy
    /\ \E reply \in Replies :
          /\ Counted(reply)
          /\ IF reply = "ok" THEN /\ refresh' = [at |-> "store", names |-> upstream.tools]
                                  /\ UNCHANGED reconnect
             ELSE refresh' = refresh /\ reconnect' = AfterReply(reply)
    /\ UNCHANGED <<upstream, dpop, cache, line, client>>

RefreshStore ==
    /\ refresh.at = "store"
    /\ Warm(refresh.names)
    /\ refresh' = [at |-> "asleep", names |-> {}]
    /\ reconnect' = AfterReply("ok")
    /\ UNCHANGED <<upstream, dpop, line, refusals>>

\* The environment: the gate stops, starts with a new key, changes its actions;
\* the lease and the cache age, the backoff runs out.
GateStops ==
    /\ upstream.up /\ upstream.key < MaxGateStarts
    /\ upstream' = [upstream EXCEPT !.up = FALSE]
    /\ UNCHANGED <<reconnect, dpop, cache, line, refresh, client, refusals>>

GateStarts ==
    /\ ~upstream.up
    /\ \E names \in SUBSET Tools :
          upstream' = [up |-> TRUE, key |-> upstream.key + 1, tools |-> names]
    /\ UNCHANGED <<reconnect, dpop, cache, line, refresh, client, refusals>>

LeaseAges ==
    /\ dpop.young
    /\ dpop' = [dpop EXCEPT !.young = FALSE]
    /\ UNCHANGED <<upstream, reconnect, cache, line, refresh, client, refusals>>

CacheAges ==
    /\ cache.young
    /\ cache' = [cache EXCEPT !.young = FALSE]
    /\ UNCHANGED <<upstream, reconnect, dpop, line, refresh, client, refusals>>

BackoffElapses ==
    /\ ~reconnect.due
    /\ reconnect' = [reconnect EXCEPT !.due = TRUE]
    /\ UNCHANGED <<upstream, dpop, cache, line, refresh, client, refusals>>

Handle ==
    \/ Reach \/ Probe \/ Connect \/ Rewarm \/ Restore \/ FindTool \/ Miss \/ Remiss
    \/ ListCached \/ ListFetch \/ ListKeep \/ Execute \/ Poll \/ PollSleeps

AdapterNext ==
    \/ Initialize \/ Handle \/ DeadlinePasses \/ RefreshFetch \/ RefreshStore
    \/ \E op \in {"list", "pending"} : ReceiveLine(op, AnyTool)
    \/ \E x \in Tools : ReceiveLine("call", x)
    \/ GateStops \/ GateStarts \/ LeaseAges \/ CacheAges \/ BackoffElapses

\* Requests to the gate time out, sleeps end, time passes.  Nothing is assumed of
\* the gate or of the client.
AdapterFairness ==
    /\ WF_adapterVars(Handle) /\ WF_adapterVars(DeadlinePasses)
    /\ WF_adapterVars(LeaseAges) /\ WF_adapterVars(BackoffElapses)

AdapterSpec == AdapterInit /\ [][AdapterNext]_adapterVars

--------------------------------------------------------------------------------
(* What makes it correct.                                                      *)

\* A client is never left with an outdated tool list unknowingly: if the names
\* the adapter goes by differ from the list the client got last, a list_changed
\* was sent since that list was taken, whichever of the two tasks saw the change.
StaleListAnnounced ==
    cache.held /\ client.listed /\ client.view # cache.names => client.told

\* "The stdio loop never terminates due to gate errors" nor waits for ever: every
\* line is answered, with the gate up or down and with an approval nobody decides.
EveryLineAnswered == (line.at # "idle") ~> (line.at = "idle")

\* An outage heals: once the gate stays up, an adapter that is asked time and again
\* comes to hold a lease that this gate signed, although a refused lease is only
\* replaced when it runs out.
AdapterRecovers ==
    /\ <>[](upstream.up)
    /\ []<>(line.at = "reach" /\ line.op = "pending")
    => <>[](dpop.held /\ dpop.key = upstream.key)

\* ensure_gate_reachable: "Validate the authenticated path too ... ensure_connected
\* re-issues the lease": when a reconnection is complete the lease is one that the
\* gate in place accepts.
ReconnectHasLease ==
    [][Connect /\ reconnect'.healthy => dpop'.key = upstream.key]_adapterVars

\* The adapter answers every line and finds its way back to a gate.
AdapterProgress == EveryLineAnswered /\ AdapterRecovers
================================================================================
