--------------------------------- MODULE Ledger ---------------------------------
(***************************************************************************)
(* The evidence ledger (crates/latchgate-ledger: store.rs, store_events.rs, *)
(* store_intents.rs, store_receipts.rs): one SQLite file whose audit events *)
(* form a hash chain, an optional JSONL copy, and the writer's state in     *)
(* memory: the chain head and the JSONL buffer.  Several gates may try to   *)
(* open the file; a writer lock admits one.  A gate can crash at any point, *)
(* which loses its memory and releases the lock.                           *)
(*                                                                         *)
(* trace_id is UNIQUE, so an event's hash is as good as its trace: the      *)
(* prev_hash of an event is modelled as the trace it points at.  SQLite is  *)
(* external: a statement outside a transaction, or a transaction, happens   *)
(* wholly or not at all, and synchronous = FULL makes what it reports       *)
(* durable.  A failing statement changes nothing and is not a step.         *)
(***************************************************************************)
EXTENDS Integers, Sequences, FiniteSets

CONSTANTS
    Traces,     \* trace ids of audit events
    Genesis,    \* prev_hash = None
    Oversized,  \* events whose canonical form is beyond event_chain_limits
    Grants,     \* execution grants
    FinalTrace, \* grant -> trace of the event that closes its execution
    Gates,      \* processes that may open the ledger
    MaxDeaths   \* bound on crashes

ASSUME LedgerAssumption ==
    /\ Oversized \subseteq Traces /\ Genesis \notin Traces
    /\ FinalTrace \in [Grants -> Traces] /\ MaxDeaths \in Nat

VARIABLES
    events,     \* table audit_events, in insertion order
    receipts,   \* table receipts, by grant
    intents,    \* table execution_intents, by grant
    consumed,   \* table consumed_grants
    jsonl,      \* lines of the JSONL file
    lock,       \* holder of the flock, as a set of at most one gate
    gate,       \* gate -> its LedgerStore
    acked,      \* events whose write was answered Ok
    finalized,  \* grants whose finalize_evidence was answered Ok
    dispatches, \* grant -> Ok answers of write_intent_and_consume_grant
    deaths      \* crashes so far

durable == <<events, receipts, intents, consumed>>
ledgerVars == <<events, receipts, intents, consumed, jsonl, lock, gate, acked,
                finalized, dispatches, deaths>>

Event == [trace : Traces, prev : Traces \cup {Genesis}]

\* head: chain_head; buffer: lines that a failed flush left in the BufWriter;
\* export: the event whose JSONL line is due (the writer mutex is held), with
\* the grant it finalizes, if any.
Store == [phase : {"closed", "locked", "open"},
          head : Traces \cup {Genesis},
          buffer : Seq(Traces),
          export : SUBSET [trace : Traces, of : SUBSET Grants]]

Closed == [phase |-> "closed", head |-> Genesis, buffer |-> <<>>, export |-> {}]

TracesOf(s) == {s[i].trace : i \in 1..Len(s)}

\* The hash of the last event of the table.
LastHash == IF events = <<>> THEN Genesis ELSE events[Len(events)].trace

--------------------------------------------------------------------------------
LedgerInit ==
    /\ events = <<>> /\ jsonl = <<>>
    /\ receipts = {} /\ intents = {} /\ consumed = {}
    /\ lock = {}
    /\ gate = [g \in Gates |-> Closed]
    /\ acked = {} /\ finalized = {}
    /\ dispatches = [x \in Grants |-> 0]
    /\ deaths = 0

\* A second gate gets AnotherWriterActive and does not start.
AcquireWriterLock(g) ==
    /\ gate[g].phase = "closed" /\ lock = {}
    /\ lock' = {g}
    /\ gate' = [gate EXCEPT ![g].phase = "locked"]
    /\ UNCHANGED <<durable, jsonl, acked, finalized, dispatches, deaths>>

\* init_connection: schema, chain format, recover_chain_head, JSONL.  When the
\* last event cannot be hashed the open fails and the lock is dropped.
InitConnection(g) ==
    /\ gate[g].phase = "locked"
    /\ IF LastHash \in Oversized
       THEN gate' = [gate EXCEPT ![g] = Closed] /\ lock' = lock \ {g}
       ELSE /\ gate' = [gate EXCEPT ![g] = [Closed EXCEPT !.phase = "open",
                                                          !.head = LastHash]]
            /\ UNCHANGED lock
    /\ UNCHANGED <<durable, jsonl, acked, finalized, dispatches, deaths>>

\* The writer mutex is free.
MutexFree(g) == gate[g].phase = "open" /\ gate[g].export = {}

\* The INSERT and what follows it under the mutex: chain_head moves only if the
\* event can be hashed; if not, the caller gets an error and the row stays.
Inserted(g, t, of) ==
    /\ t \notin TracesOf(events)
    /\ events' = Append(events, [trace |-> t, prev |-> gate[g].head])
    /\ gate' = IF t \in Oversized THEN gate
               ELSE [gate EXCEPT ![g].head = t, ![g].export = @ \cup {[trace |-> t, of |-> of]}]

WriteEvent(g, t) ==
    /\ MutexFree(g)
    /\ Inserted(g, t, {})
    /\ UNCHANGED <<receipts, intents, consumed, jsonl, lock, acked, finalized,
                   dispatches, deaths>>

\* The transaction of finalize_evidence: receipt (OR IGNORE) and event.
FinalizeEvidence(g, x) ==
    /\ MutexFree(g) /\ dispatches[x] > 0
    /\ Inserted(g, FinalTrace[x], {x})
    /\ receipts' = receipts \cup {x}
    /\ UNCHANGED <<intents, consumed, jsonl, lock, acked, finalized, dispatches, deaths>>

\* Lines that a failed flush leaves behind: the line stays in the buffer for a
\* later flush, or, longer than the buffer, is lost.
LeftBehind(g, t) == {gate[g].buffer, Append(gate[g].buffer, t)}

\* The JSONL line, still under the mutex.  Its failure is the answer of
\* write_event, whose row is in the table by now; finalize_evidence only warns.
ExportLine(g, written) ==
    \E e \in gate[g].export :
        /\ \E left \in IF written THEN {<<>>} ELSE LeftBehind(g, e.trace) :
              gate' = [gate EXCEPT ![g].export = @ \ {e}, ![g].buffer = left]
        /\ jsonl' = IF written THEN jsonl \o gate[g].buffer \o <<e.trace>> ELSE jsonl
        /\ acked' = IF written \/ e.of # {} THEN acked \cup {e.trace} ELSE acked
        /\ finalized' = finalized \cup e.of
        /\ UNCHANGED <<durable, lock, dispatches, deaths>>

\* A variant with a fault: a nonce that was there already counts as
\* consumed.
ConsumeAsInsertOrIgnore(g, x) ==
    /\ MutexFree(g) /\ dispatches[x] < 2
    /\ intents' = intents \cup {x}
    /\ consumed' = consumed \cup {x}
    /\ dispatches' = [dispatches EXCEPT ![x] = @ + 1]
    /\ UNCHANGED <<events, receipts, jsonl, lock, gate, acked, finalized, deaths>>

\* The row of consumed_grants is UNIQUE: a second call is rolled back whole.
WriteIntentAndConsumeGrant(g, x) ==
    /\ MutexFree(g) /\ x \notin consumed
    /\ intents' = intents \cup {x}
    /\ consumed' = consumed \cup {x}
    /\ dispatches' = [dispatches EXCEPT ![x] = @ + 1]
    /\ UNCHANGED <<events, receipts, jsonl, lock, gate, acked, finalized, deaths>>

\* write_receipt: the forensic receipt of a denied execution.
WriteReceipt(g, x) ==
    /\ MutexFree(g) /\ dispatches[x] > 0 /\ x \notin receipts
    /\ receipts' = receipts \cup {x}
    /\ UNCHANGED <<events, intents, consumed, jsonl, lock, gate, acked, finalized,
                   dispatches, deaths>>

\* The process ends, in whatever it is doing: memory and flock are gone.
GateCrashes(g) ==
    /\ deaths < MaxDeaths /\ gate[g].phase # "closed"
    /\ deaths' = deaths + 1
    /\ gate' = [gate EXCEPT ![g] = Closed]
    /\ lock' = lock \ {g}
    /\ UNCHANGED <<durable, jsonl, acked, finalized, dispatches>>

LedgerNext ==
    \E g \in Gates :
        \/ AcquireWriterLock(g) \/ InitConnection(g) \/ GateCrashes(g)
        \/ \E t \in Traces : WriteEvent(g, t)
        \/ \E x \in Grants : \/ WriteIntentAndConsumeGrant(g, x)
                             \/ FinalizeEvidence(g, x) \/ WriteReceipt(g, x)
        \/ \E written \in BOOLEAN : ExportLine(g, written)

LedgerSpec == LedgerInit /\ [][LedgerNext]_ledgerVars

--------------------------------------------------------------------------------
\* get_unresolved_intents: LEFT JOIN receipts ... IS NULL.
UnresolvedIntents == intents \ receipts

\* Link i of the chain, as verify_chain compares it.
LinkHolds(i) ==
    events[i].prev = IF i = 1 THEN Genesis ELSE events[i - 1].trace

\* Every variable has the shape the code gives it.
LedgerTypeOK ==
    /\ events \in Seq(Event) /\ jsonl \in Seq(Traces)
    /\ receipts \subseteq Grants /\ intents \subseteq Grants /\ consumed \subseteq Grants
    /\ lock \subseteq Gates /\ Cardinality(lock) <= 1
    /\ gate \in [Gates -> Store]
    /\ \A g \in Gates : Cardinality(gate[g].export) <= 1
    /\ acked \subseteq Traces /\ finalized \subseteq Grants
    /\ dispatches \in [Grants -> Nat] /\ deaths \in Nat

\* store.rs: concurrent writers "would corrupt the hash-chain", and a restart
\* "would reset prev_hash".  Whatever gates open, crash, restart and write, a
\* link is wrong only behind an event that could not be hashed.
ChainLinksHold ==
    \A i \in 1..Len(events) :
        LinkHolds(i) \/ \E j \in 1..(i - 1) : events[j].trace \in Oversized

\* store_events.rs: JSONL lines come "in the same order as SQLite rows": the file
\* is a subsequence of the table, without a duplicate and without a line for an
\* event that is not in the table, also after failed flushes and crashes.
ExportFollowsTable ==
    \A k \in 1..Len(jsonl) : \E i \in 1..Len(events) :
        /\ events[i].trace = jsonl[k]
        /\ \A l \in 1..(k - 1) : \E j \in 1..(i - 1) : events[j].trace = jsonl[l]

\* The answers are true: an event reported as written is in the table, and a call
\* that was answered with success has its event, its receipt, its intent and its
\* consumed grant there, whatever crashed since.
AnswersAreDurable ==
    /\ acked \subseteq TracesOf(events)
    /\ \A x \in finalized : /\ FinalTrace[x] \in TracesOf(events)
                            /\ x \in receipts \cap intents \cap consumed

\* write_intent_and_consume_grant is the one-shot guard: over all gates, crashes
\* and restarts a grant is cleared for dispatch at most once, and one that was
\* cleared has its receipt or is reported as unresolved.
GrantDispatchedOnce ==
    \A x \in Grants : /\ dispatches[x] <= 1
                      /\ dispatches[x] > 0 => x \in receipts \cup UnresolvedIntents

\* store_events.rs: "The hash-chain invariant (each event's prev_hash = SHA-256 of
\* predecessor's JCS form) is maintained here."
ChainIntact == \A i \in 1..Len(events) : LinkHolds(i)

\* What the ledger promises the gates that share its file.
LedgerSafe ==
    /\ LedgerTypeOK
    /\ ChainLinksHold
    /\ ExportFollowsTable
    /\ AnswersAreDurable
    /\ GrantDispatchedOnce
================================================================================
