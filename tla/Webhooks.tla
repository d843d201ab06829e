---------------------------- MODULE Webhooks ----------------------------
(***************************************************************************)
(* The webhook outbox (crates/latchgate-webhooks outbox.rs) and the poller *)
(* that drains it (crates/latchgate-api outbox.rs).  A row is one event    *)
(* for one endpoint; several processes may poll one SQLite file.  A poll   *)
(* releases claims it takes for abandoned, claims a batch and works it off *)
(* entry by entry; a poller can die at any point, and a write that ends an *)
(* entry can fail unnoticed.                                               *)
(*                                                                         *)
(* Timestamps are compared as text: claimed_at has the RFC 3339 form (date, *)
(* "T", time), datetime() returns date, space, time, and "T" sorts after   *)
(* the space, so the comparison decides by the calendar day.  Time is kept *)
(* as the time of day, the age of each claim and the wait of each row, so  *)
(* that it can go on for ever.                                             *)
(***************************************************************************)
EXTENDS Integers, Sequences, FiniteSets

CONSTANTS
    Rows,           \* (event, endpoint) pairs: UNIQUE(event_id, endpoint_name)
    Orphans,        \* rows whose endpoint left the config or whose payload is corrupt
    Pollers,        \* running pollers, one per process
    BatchSize,      \* batch_size
    MaxRetries,     \* the endpoint's max_retries
    Backoff,        \* the endpoint's retry_backoff_seconds
    StaleClaim,     \* STALE_CLAIM_SECONDS
    DayLength,      \* ticks of a calendar day
    MaxCrashes,     \* bound on poller deaths
    MaxLost         \* bound on failing closing writes

ASSUME OutboxAssumption ==
    /\ Orphans \subseteq Rows /\ IsFiniteSet(Rows)
    /\ BatchSize \in Nat \ {0} /\ MaxRetries \in Nat /\ Backoff \in Seq(Nat)
    /\ StaleClaim \in Nat /\ DayLength \in Nat \ {0}
    /\ MaxCrashes \in Nat /\ MaxLost \in Nat

VARIABLES
    timeOfDay,  \* the clock all processes see, within the day
    row,        \* the table
    poller,     \* poller -> the batch it is working off
    accepted,   \* rows some receiver has answered or would have answered 2xx
    stolen,     \* rows whose claim was released while its poller was at work
    crashes,    \* deaths so far
    lost        \* failed closing writes so far

outboxVars == <<timeOfDay, row, poller, accepted, stolen, crashes, lost>>

\* A claim older than this is stale at every time of day.
OldAge == StaleClaim + DayLength

\* wait: ticks until next_attempt_at, -1 when that is past; age: ticks since
\* claimed_at, up to OldAge.
Row == [queued : BOOLEAN, attempts : Nat, wait : {-1} \cup Nat, delivered : BOOLEAN,
        dead : BOOLEAN, claimed : BOOLEAN, age : 0..OldAge]

NoRow == [queued |-> FALSE, attempts |-> 0, wait |-> 0, delivered |-> FALSE,
          dead |-> FALSE, claimed |-> FALSE, age |-> 0]

\* todo: entries of the batch not yet looked at; at: the entry in hand (a set
\* of at most one row); outcome: what deliver() returned for it.
Batch == [todo : SUBSET Rows, at : SUBSET Rows,
          outcome : {"none", "ok", "failed"}]

Idle == [todo |-> {}, at |-> {}, outcome |-> "none"]

IsOpen(r) == row[r].queued /\ ~row[r].delivered /\ ~row[r].dead

Holds(p, r) == r \in poller[p].todo \cup poller[p].at

--------------------------------------------------------------------------------
(* The SQL.                                                                    *)

\* How many days before today the tick x ticks ago lies.
DaysBack(x) ==
    IF x <= timeOfDay THEN 0 ELSE (x - timeOfDay + DayLength - 1) \div DayLength

\* A variant with a fault: no claim is ever stale.
NeverStale(r) == FALSE

\* claimed_at < datetime(now, '-300 seconds'), as text.
IsStale(r) == row[r].claimed /\ DaysBack(row[r].age) > DaysBack(StaleClaim)

\* A variant with a fault: a claimed row is dispatched again.
DispatchableEvenClaimed(r) ==
    /\ IsOpen(r)
    /\ row[r].wait <= 0

\* Rows that the claiming UPDATE may take, after the release of stale claims.
Dispatchable(r) ==
    /\ IsOpen(r)
    /\ ~row[r].claimed \/ IsStale(r)
    /\ row[r].wait <= 0

\* ORDER BY next_attempt_at ASC LIMIT batch_size.
Candidates ==
    LET D == {r \in Rows : Dispatchable(r)} IN
    {S \in SUBSET D :
        /\ Cardinality(S) = IF Cardinality(D) < BatchSize THEN Cardinality(D)
                                                          ELSE BatchSize
        /\ \A r \in S, q \in D \ S : row[r].wait <= row[q].wait}

\* The delay after the n-th failure: backoff_seconds[min(n, len - 1)], from 0.
BackoffFor(n) ==
    IF Backoff = <<>> THEN 60
    ELSE Backoff[(IF n < Len(Backoff) THEN n ELSE Len(Backoff) - 1) + 1]

\* record_failure: UPDATE ... WHERE id, whoever holds the claim by now.
Failed(r, maxAttempts) ==
    LET n == row[r].attempts + 1 IN
    IF n >= maxAttempts
    THEN [row[r] EXCEPT !.attempts = n, !.dead = TRUE, !.claimed = FALSE, !.age = 0]
    ELSE [row[r] EXCEPT !.attempts = n, !.wait = BackoffFor(n),
                        !.claimed = FALSE, !.age = 0]

MarkedDelivered(r) == [row[r] EXCEPT !.delivered = TRUE, !.claimed = FALSE, !.age = 0]

--------------------------------------------------------------------------------
OutboxInit ==
    /\ timeOfDay = 0
    /\ row = [r \in Rows |-> NoRow]
    /\ poller = [p \in Pollers |-> Idle]
    /\ accepted = {} /\ stolen = {}
    /\ crashes = 0 /\ lost = 0

OutboxTick ==
    /\ timeOfDay' = (timeOfDay + 1) % DayLength
    /\ row' = [r \in Rows |->
                 [row[r] EXCEPT
                    !.wait = IF IsOpen(r) /\ @ >= 0 THEN @ - 1 ELSE @,
                    !.age = IF row[r].claimed /\ @ < OldAge THEN @ + 1 ELSE @]]
    /\ UNCHANGED <<poller, accepted, stolen, crashes, lost>>

\* INSERT OR IGNORE: a row that is there stays as it is.
Enqueue(r) ==
    /\ ~row[r].queued
    /\ row' = [row EXCEPT ![r] = [NoRow EXCEPT !.queued = TRUE]]
    /\ UNCHANGED <<timeOfDay, poller, accepted, stolen, crashes, lost>>

\* poll_pending: release, then claim, under the connection's lock.
PollPending(p, S) ==
    /\ poller[p] = Idle
    /\ S \in Candidates
    /\ row' = [r \in Rows |->
                 IF r \in S
                 THEN [row[r] EXCEPT !.claimed = TRUE, !.age = 0]
                 ELSE IF IsStale(r)
                 THEN [row[r] EXCEPT !.claimed = FALSE, !.age = 0]
                 ELSE row[r]]
    /\ poller' = [poller EXCEPT ![p] = [Idle EXCEPT !.todo = S]]
    /\ stolen' = stolen \cup {r \in Rows : IsStale(r) /\ \E q \in Pollers : Holds(q, r)}
    /\ UNCHANGED <<timeOfDay, accepted, crashes, lost>>

\* An entry nobody can deliver is dead-lettered at once (max_attempts = 0).
DeadLetterOrphan(p, r) ==
    /\ poller[p].at = {} /\ r \in poller[p].todo \cap Orphans
    /\ row' = [row EXCEPT ![r] = Failed(r, 0)]
    /\ poller' = [poller EXCEPT ![p].todo = @ \ {r}]
    /\ UNCHANGED <<timeOfDay, accepted, stolen, crashes, lost>>

TakeEntry(p, r) ==
    /\ poller[p].at = {} /\ r \in poller[p].todo \ Orphans
    /\ poller' = [poller EXCEPT ![p].todo = @ \ {r}, ![p].at = {r}]
    /\ UNCHANGED <<timeOfDay, row, accepted, stolen, crashes, lost>>

\* deliver() under its timeout: the receiver may accept and the answer be lost.
Deliver(p, outcome, accepts) ==
    /\ poller[p].at # {} /\ poller[p].outcome = "none"
    /\ outcome = "ok" => accepts
    /\ poller' = [poller EXCEPT ![p].outcome = outcome]
    /\ accepted' = IF accepts THEN accepted \cup poller[p].at ELSE accepted
    /\ UNCHANGED <<timeOfDay, row, stolen, crashes, lost>>

Settled(r, outcome) ==
    IF outcome = "ok" THEN MarkedDelivered(r) ELSE Failed(r, MaxRetries)

\* mark_delivered or record_failure; their errors are dropped.
Settle(p, written) ==
    /\ poller[p].outcome # "none"
    /\ written \/ lost < MaxLost
    /\ lost' = IF written THEN lost ELSE lost + 1
    /\ row' = IF written
              THEN [r \in Rows |-> IF r \in poller[p].at
                                   THEN Settled(r, poller[p].outcome) ELSE row[r]]
              ELSE row
    /\ poller' = [poller EXCEPT ![p].at = {}, ![p].outcome = "none"]
    /\ UNCHANGED <<timeOfDay, accepted, stolen, crashes>>

\* The process dies, or its shutdown does not wait for the end of the batch; a
\* new poller starts.
PollerDies(p) ==
    /\ crashes < MaxCrashes /\ poller[p] # Idle
    /\ crashes' = crashes + 1
    /\ poller' = [poller EXCEPT ![p] = Idle]
    /\ UNCHANGED <<timeOfDay, row, accepted, stolen, lost>>

\* An operator puts an entry of dead_letters() back.
RetryDeadLetter(r) ==
    /\ row[r].dead
    /\ row' = [row EXCEPT ![r].dead = FALSE, ![r].attempts = 0,
                          ![r].wait = 0, ![r].claimed = FALSE,
                          ![r].age = 0]
    /\ UNCHANGED <<timeOfDay, poller, accepted, stolen, crashes, lost>>

PollerStep(p) ==
    \/ \E S \in Candidates : S # {} /\ PollPending(p, S)
    \/ \E r \in Rows : DeadLetterOrphan(p, r) \/ TakeEntry(p, r)
    \/ \E outcome \in {"ok", "failed"}, accepts \in BOOLEAN : Deliver(p, outcome, accepts)
    \/ Settle(p, TRUE)

OutboxNext ==
    \/ OutboxTick
    \/ \E r \in Rows : Enqueue(r) \/ RetryDeadLetter(r)
    \/ \E p \in Pollers :
          \/ PollerStep(p)
          \/ PollPending(p, {})
          \/ Settle(p, FALSE)
          \/ PollerDies(p)

\* The poller's interval fires for ever, every wait of deliver() has a timeout,
\* and time passes; no fairness for receivers, operators, deaths or errors.
OutboxFairness ==
    /\ WF_outboxVars(OutboxTick)
    /\ \A p \in Pollers : WF_outboxVars(PollerStep(p))

OutboxSpec == OutboxInit /\ [][OutboxNext]_outboxVars

--------------------------------------------------------------------------------
(* What makes it correct.                                                      *)

\* Every variable has the shape the code gives it, and a row is tried max_retries
\* times between two interventions of an operator.
OutboxTypeOK ==
    /\ timeOfDay \in 0..(DayLength - 1) /\ crashes \in Nat /\ lost \in Nat
    /\ row \in [Rows -> Row]
    /\ poller \in [Pollers -> Batch]
    /\ \A r \in Rows \ stolen :
          row[r].attempts <= IF MaxRetries = 0 THEN 1 ELSE MaxRetries
    /\ accepted \subseteq Rows /\ stolen \subseteq Rows

\* poll_pending: "Concurrent pollers on the same database file will never receive
\* the same row", as far as claims go: two pollers have one row in hand only if a
\* poll took the claim of a poller at work for abandoned.
PollersDisjoint ==
    \A p, q \in Pollers, r \in Rows :
        p # q /\ Holds(p, r) /\ Holds(q, r) => r \in stolen

\* A row a poller is working on is claimed in the table, so that no other poll
\* takes it, unless its claim was once released under a poller.
WorkIsClaimed ==
    \A p \in Pollers, r \in Rows : Holds(p, r) => row[r].claimed \/ r \in stolen

\* mark_delivered and record_failure do not look at the claim.  A row gets two
\* contradictory ends only through a claim released under its poller.
OneVerdict ==
    \A r \in Rows : row[r].delivered /\ row[r].dead => r \in stolen

\* What is marked as delivered was accepted by its receiver: no failed attempt,
\* lost write, death or retry makes an undelivered event disappear.
DeliveredWasAccepted == \A r \in Rows : row[r].delivered => r \in accepted

\* The outbox's promise, "at-least-once": every row ends delivered or
\* dead-lettered, even when its poller dies or a closing write is lost (the claim
\* then runs out on a later day).  Receivers that always fail included.
RowsGetSettled ==
    \A r \in Rows : row[r].queued ~> (row[r].delivered \/ row[r].dead)

\* outbox.rs: "A crashed poller's rows become available to surviving pollers after
\* this duration": no poll leaves a claim that is older than StaleClaim.
StaleClaimsReleased ==
    [][(\E p \in Pollers : \E S \in Candidates : PollPending(p, S)) =>
          \A r \in Rows : row'[r].claimed => row'[r].age <= StaleClaim]_outboxVars

\* What the pollers that share the outbox do to its rows.
OutboxSafe ==
    /\ OutboxTypeOK
    /\ PollersDisjoint
    /\ WorkIsClaimed
    /\ OneVerdict
    /\ DeliveredWasAccepted

--------------------------------------------------------------------------------
(***************************************************************************)
(* The webhook dispatcher (crates/latchgate-webhooks dispatcher.rs and     *)
(* delivery.rs): emit() puts a domain event into a bounded channel and     *)
(* never waits; the dispatch loop takes events out and spawns one delivery *)
(* task per subscribed endpoint; a task retries on its own.  shutdown()    *)
(* makes the loop drain what is queued and wait for the tasks up to a      *)
(* deadline.  The senders are never closed, so the gate may emit at any    *)
(* time until the loop has returned and dropped the receiver.              *)
(***************************************************************************)

CONSTANTS
    Events,             \* domain events, each emitted at most once
    Endpoints,          \* active endpoints
    Subscribed,         \* event -> endpoints whose "events" contain its kind
    ChannelCapacity,    \* CHANNEL_CAPACITY
    TaskRetries         \* max_retries of an endpoint

ASSUME DispatcherAssumption ==
    /\ Subscribed \in [Events -> SUBSET Endpoints]
    /\ ChannelCapacity \in Nat \ {0} /\ TaskRetries \in Nat

VARIABLES
    channel,    \* the mpsc channel
    fate,       \* event -> what emit() did with it
    loop,       \* phase of dispatch_loop
    signal,     \* shutdown_tx holds TRUE
    task,       \* (event, endpoint) -> state of the delivery task
    attempt,    \* (event, endpoint) -> attempts the task has made
    received,   \* (event, endpoint) pairs a receiver took
    early       \* events in the channel when shutdown was signalled

dispatcherVars == <<channel, fate, loop, signal, task, attempt, received, early>>

Pairs == Events \X Endpoints
Fates == {"unsent", "queued", "full", "closed"}
Running == {"running"}
Ended == {"ok", "gave_up", "rejected", "aborted"}
Tasks == {"none"} \cup Running \cup Ended

Spawned(e) == {e} \X Subscribed[e]
InFlight == {d \in Pairs : task[d] \in Running}
Queued == {channel[i] : i \in DOMAIN channel}

--------------------------------------------------------------------------------
DispatcherInit ==
    /\ channel = <<>> /\ fate = [e \in Events |-> "unsent"]
    /\ loop = "running" /\ signal = FALSE
    /\ task = [d \in Pairs |-> "none"] /\ attempt = [d \in Pairs |-> 0]
    /\ received = {} /\ early = {}

SendResult ==
    IF loop \in {"returned", "dead"} THEN "closed"
    ELSE IF Len(channel) >= ChannelCapacity THEN "full"
    ELSE "queued"

\* send: try_send; a full or closed channel drops the event.
Emit(e) ==
    /\ loop # "dead" /\ fate[e] = "unsent"
    /\ fate' = [fate EXCEPT ![e] = SendResult]
    /\ channel' = IF SendResult = "queued" THEN Append(channel, e) ELSE channel
    /\ UNCHANGED <<loop, signal, task, attempt, received, early>>

\* dispatch_event: one task per subscribed endpoint.
DispatchEvent(e) ==
    task' = [d \in Pairs |-> IF d \in Spawned(e) THEN "running" ELSE task[d]]

\* The select is biased: a pending shutdown signal goes first.
ReceiveEvent ==
    /\ loop = "running" /\ ~signal /\ channel # <<>>
    /\ DispatchEvent(Head(channel))
    /\ channel' = Tail(channel)
    /\ UNCHANGED <<fate, loop, signal, attempt, received, early>>

\* shutdown(): the first call signals; later ones change nothing.
Shutdown ==
    /\ loop # "dead" /\ ~signal
    /\ signal' = TRUE /\ early' = Queued
    /\ UNCHANGED <<channel, fate, loop, task, attempt, received>>

\* A variant with a fault: the queue is not drained at shutdown.
NoticeSkipsDrain ==
    /\ loop = "running" /\ signal
    /\ loop' = "waiting"
    /\ UNCHANGED <<channel, fate, signal, task, attempt, received, early>>

NoticeShutdown ==
    /\ loop = "running" /\ signal
    /\ loop' = "draining"
    /\ UNCHANGED <<channel, fate, signal, task, attempt, received, early>>

DrainEvent ==
    /\ loop = "draining" /\ channel # <<>>
    /\ DispatchEvent(Head(channel))
    /\ channel' = Tail(channel)
    /\ UNCHANGED <<fate, loop, signal, attempt, received, early>>

DrainEnds ==
    /\ loop = "draining" /\ channel = <<>>
    /\ loop' = "waiting"
    /\ UNCHANGED <<channel, fate, signal, task, attempt, received, early>>

\* All tasks joined: the loop returns, and what was sent meanwhile goes with
\* the receiver.
AllJoined ==
    /\ loop = "waiting" /\ InFlight = {}
    /\ loop' = "returned" /\ channel' = <<>>
    /\ UNCHANGED <<fate, signal, task, attempt, received, early>>

\* DRAIN_TIMEOUT: the tasks still running are aborted.
DrainDeadline ==
    /\ loop = "waiting" /\ InFlight # {}
    /\ loop' = "returned" /\ channel' = <<>>
    /\ task' = [d \in Pairs |-> IF d \in InFlight THEN "aborted" ELSE task[d]]
    /\ UNCHANGED <<fate, signal, attempt, received, early>>

\* is_retryable: 5xx, transport and DNS errors; 4xx, a blocked address, and
\* serialization or signing errors end the task.
NextTask(d, answer) ==
    IF answer = "2xx" THEN "ok"
    ELSE IF answer = "permanent" THEN "rejected"
    ELSE IF attempt[d] < TaskRetries THEN "running"
    ELSE "gave_up"

\* One attempt of deliver_inner.  The receiver may take the event and the answer
\* be lost: then it is retried.
AttemptDelivery(d, answer, taken) ==
    /\ loop # "dead" /\ task[d] = "running"
    /\ answer = "2xx" => taken
    /\ answer = "permanent" => ~taken
    /\ task' = [task EXCEPT ![d] = NextTask(d, answer)]
    /\ attempt' = [attempt EXCEPT ![d] = @ + 1]
    /\ received' = IF taken THEN received \cup {d} ELSE received
    /\ UNCHANGED <<channel, fate, loop, signal, early>>

\* The process dies: channel and tasks are memory.
GateDies ==
    /\ loop # "dead"
    /\ loop' = "dead" /\ channel' = <<>>
    /\ task' = [d \in Pairs |-> IF d \in InFlight THEN "aborted" ELSE task[d]]
    /\ UNCHANGED <<fate, signal, attempt, received, early>>

LoopStep ==
    \/ ReceiveEvent \/ NoticeShutdown \/ DrainEvent \/ DrainEnds
    \/ AllJoined \/ DrainDeadline

DispatcherNext ==
    \/ LoopStep \/ Shutdown \/ GateDies
    \/ \E e \in Events : Emit(e)
    \/ \E d \in Pairs, answer \in {"2xx", "permanent", "retryable"}, taken \in BOOLEAN :
           AttemptDelivery(d, answer, taken)

\* The loop is a tokio task that is polled when it is ready, and its deadline is
\* a timer.
DispatcherFairness == WF_dispatcherVars(LoopStep)

DispatcherSpec == DispatcherInit /\ [][DispatcherNext]_dispatcherVars

--------------------------------------------------------------------------------
(* What makes it correct.                                                      *)

\* Every variable has the shape the code gives it, the channel its capacity.
DispatcherTypeOK ==
    /\ channel \in Seq(Events) /\ Len(channel) <= ChannelCapacity
    /\ fate \in [Events -> Fates]
    /\ loop \in {"running", "draining", "waiting", "returned", "dead"}
    /\ signal \in BOOLEAN
    /\ task \in [Pairs -> Tasks] /\ attempt \in [Pairs -> Nat]
    /\ received \subseteq Pairs /\ early \subseteq Events

\* A delivery task exists for every endpoint subscribed to an event that left the
\* channel, and for nothing else; an event is dispatched once.
DispatchedToSubscribers ==
    \A d \in Pairs : task[d] # "none" =>
        /\ d[2] \in Subscribed[d[1]] /\ fate[d[1]] = "queued"
        /\ d[1] \notin Queued

\* dispatch_loop: "These were already in the channel buffer when shutdown was
\* signaled - dispatch them so the webhook is attempted".  When the loop returns,
\* no event queued before the signal is without its tasks.
QueuedBeforeShutdownDispatched ==
    loop = "returned" =>
        \A e \in early : \A d \in Spawned(e) : task[d] # "none"

\* While the gate lives and is not shutting down, an event that emit() took is
\* either waiting or dispatched: nothing else makes an accepted event vanish.
AcceptedIsKept ==
    \A e \in Events :
        fate[e] = "queued" /\ loop \in {"running", "draining"} =>
            e \in Queued \/ \A d \in Spawned(e) : task[d] # "none"

\* A task that ends without delivery has made all its attempts or got an answer
\* that no retry changes, unless it was aborted.
GaveUpAfterRetries ==
    \A d \in Pairs : task[d] = "gave_up" => attempt[d] = TaskRetries + 1

\* shutdown() is bounded: the loop returns, whatever the receivers do and however
\* much is emitted meanwhile.
ShutdownEnds == signal ~> loop \in {"returned", "dead"}

\* What the dispatcher does with the events it accepted.
DispatcherSafe ==
    /\ DispatcherTypeOK
    /\ DispatchedToSubscribers
    /\ QueuedBeforeShutdownDispatched
    /\ AcceptedIsKept
    /\ GaveUpAfterRetries
================================================================================
