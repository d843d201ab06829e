---------------------------- MODULE LearnedAllowlist ----------------------------
(***************************************************************************)
(* Learned allowlists: the table of entries operators let an action reach  *)
(* (crates/latchgate-ledger/src/learned_*.rs), the snapshot the hot path   *)
(* reads instead of SQLite, the kernel's merge with the manifests          *)
(* (latchgate-kernel/src/learned_allowlist.rs), learning by approval, the  *)
(* administrators' add, remove and clear (latchgate-api), and the file     *)
(* from which the egress proxy works (latchgate-embed/src/egress_sync.rs). *)
(*                                                                         *)
(* The table is behind one mutex and the snapshot behind a read-write      *)
(* lock.  Filling the snapshot holds both; a change of the table lets go   *)
(* of the mutex before it drops the snapshot; a read that filled the       *)
(* snapshot takes the lock again to look at it.                            *)
(*                                                                         *)
(* `maybe` and `sure` bound what a reader finds: maybe has every row       *)
(* that was in the table, or whose removal had not returned, at some time  *)
(* since the read began; sure has the rows that were in it all the time.   *)
(***************************************************************************)
EXTENDS Integers, FiniteSets

CONSTANTS
    Actions,        \* action ids
    Domains,        \* egress domains (or path globs)
    Manifest,       \* action -> domains its manifest allows
    Runtime,        \* egress_runtime_allowlist
    RowCap,         \* MAX_LEARNED_PATHS_PER_ACTION; domains have no cap
    Tasks           \* requests: calls, approvals, administration

ASSUME LearnedAssumption ==
    /\ Actions # {} /\ Domains # {}
    /\ Manifest \in [Actions -> SUBSET Domains]
    /\ Runtime \subseteq Domains
    /\ RowCap \in Nat \ {0}

VARIABLES
    table,      \* the rows <<action, domain>>
    snapshot,   \* the cached rows: held, fresh (younger than CACHE_TTL)
    allowfile,  \* the domains in the egress proxy's file
    task,       \* task -> its request and progress
    maybe,      \* task -> rows its read may return (history)
    sure        \* task -> rows its read should return (history)

learnedVars == <<table, snapshot, allowfile, task, maybe, sure>>

Rows == Actions \X Domains
Of(rows, a) == {d \in Domains : <<a, d>> \in rows}

\* The domain of a request that names none.
AnyDomain == CHOOSE d \in Domains : TRUE

NoSnapshot == [held |-> FALSE, fresh |-> FALSE, rows |-> {}]
SnapshotOf(rows) == [held |-> TRUE, fresh |-> TRUE, rows |-> rows]

\* op: the request; at: its step; changed: the rows its change adds or removes;
\* listed: the domains a sync has collected; sinks: what the call may reach.
Task == [op : {"none", "call", "approve", "add", "remove", "clear"},
         at : {"idle", "change", "invalidate", "list", "write", "read", "fill",
               "reread", "done"},
         action : Actions, domain : Domains, changed : SUBSET Rows,
         listed : SUBSET Domains, sinks : SUBSET Domains]

LearnedInit ==
    /\ table = {}
    /\ snapshot = NoSnapshot
    /\ allowfile = UNION {Manifest[a] : a \in Actions} \cap Runtime
    /\ task \in [Tasks -> [op : {"none"}, at : {"idle"},
                           action : {CHOOSE a \in Actions : TRUE},
                           domain : {AnyDomain}, changed : {{}},
                           listed : {{}}, sinks : {{}}]]
    /\ maybe = [t \in Tasks |-> {}]
    /\ sure = [t \in Tasks |-> {}]

--------------------------------------------------------------------------------
Reading(t) == task[t].at \in {"read", "fill", "reread"}

\* Rows of changes that are in the table but whose request has not returned.
Unsettled == UNION {task[t].changed : t \in {u \in Tasks : task[u].at = "invalidate"}}

\* A read begins: what it may and what it should find.
BeginRead(t) ==
    /\ maybe' = [maybe EXCEPT ![t] = table \cup Unsettled]
    /\ sure' = [sure EXCEPT ![t] = table \ Unsettled]

Begin(t, op, a, d) ==
    /\ task[t].at \in {"idle", "done"}
    /\ task' = [task EXCEPT ![t] = [op |-> op, action |-> a, domain |-> d,
                                   at |-> IF op = "call" THEN "read" ELSE "change",
                                   changed |-> {}, listed |-> {}, sinks |-> {}]]
    /\ IF op = "call" THEN BeginRead(t)
       ELSE maybe' = [maybe EXCEPT ![t] = {}] /\ sure' = [sure EXCEPT ![t] = {}]
    /\ UNCHANGED <<table, snapshot, allowfile>>

\* The readers underway learn of a change of the table.
Witness(rows) ==
    /\ maybe' = [t \in Tasks |-> IF Reading(t) THEN maybe[t] \cup rows ELSE maybe[t]]
    /\ sure' = [t \in Tasks |-> IF Reading(t) THEN sure[t] \cap rows ELSE sure[t]]

\* What follows a change: an approval syncs the proxy's file and goes on to
\* execute; the administrators' requests are over.
AfterChange(t, learned) ==
    IF task[t].op # "approve" THEN "done" ELSE IF learned THEN "list" ELSE "read"

\* A request that changes no row does not touch the snapshot.
Unchanged(t, learned) ==
    /\ task' = [task EXCEPT ![t].at = AfterChange(t, learned)]
    /\ IF AfterChange(t, learned) = "read" THEN BeginRead(t) ELSE UNCHANGED <<maybe, sure>>
    /\ UNCHANGED <<table, snapshot, allowfile>>

Changed(t, rows) ==
    /\ table' = rows
    /\ Witness(rows)
    /\ task' = [task EXCEPT ![t].at = "invalidate",
                            ![t].changed = (rows \ table) \cup (table \ rows)]
    /\ UNCHANGED <<snapshot, allowfile>>

\* insert_entry, under the mutex: the cap is compared before the row is looked
\* up; an error is logged by an approval, which goes on without the row.
InsertRow(t) ==
    LET row == <<task[t].action, task[t].domain>> IN
    /\ task[t].at = "change" /\ task[t].op \in {"approve", "add"}
    /\ \/ Unchanged(t, FALSE)
       \/ /\ Cardinality(Of(table, task[t].action)) < RowCap
          /\ IF row \in table THEN Unchanged(t, TRUE) ELSE Changed(t, table \cup {row})

\* delete_entry and clear_for_action.
DeleteRows(t) ==
    LET rows == IF task[t].op = "clear" THEN {r \in table : r[1] = task[t].action}
                ELSE {<<task[t].action, task[t].domain>>} \cap table IN
    /\ task[t].at = "change" /\ task[t].op \in {"remove", "clear"}
    /\ IF rows = {} THEN Unchanged(t, FALSE) ELSE Changed(t, table \ rows)

\* As if a change left the snapshot to its age.
CacheOutlivesChange(t) ==
    /\ task[t].at = "invalidate"
    /\ task' = [task EXCEPT ![t].at = AfterChange(t, TRUE), ![t].changed = {}]
    /\ UNCHANGED <<table, snapshot, allowfile, maybe, sure>>

\* invalidate_cache, after the mutex was let go.
InvalidateCache(t) ==
    /\ task[t].at = "invalidate"
    /\ snapshot' = NoSnapshot
    /\ task' = [task EXCEPT ![t].at = AfterChange(t, TRUE), ![t].changed = {}]
    /\ UNCHANGED <<table, allowfile, maybe, sure>>

--------------------------------------------------------------------------------
\* egress_sync::sync: the rows are listed, then the file is replaced.  An
\* approval logs an error of either and goes on.
ListForSync(t) ==
    /\ task[t].at = "list"
    /\ task' = [task EXCEPT ![t].at = "write",
                  ![t].listed = Runtime \cap UNION {Manifest[a] \cup Of(table, a) : a \in Actions}]
    /\ UNCHANGED <<table, snapshot, allowfile, maybe, sure>>

WriteAllowfile(t) ==
    /\ task[t].at = "write"
    /\ allowfile' = task[t].listed
    /\ task' = [task EXCEPT ![t].at = "read", ![t].listed = {}]
    /\ BeginRead(t)
    /\ UNCHANGED <<table, snapshot>>

SyncFails(t) ==
    /\ task[t].at \in {"list", "write"}
    /\ task' = [task EXCEPT ![t].at = "read", ![t].listed = {}]
    /\ BeginRead(t)
    /\ UNCHANGED <<table, snapshot, allowfile>>

--------------------------------------------------------------------------------
\* resolve_effective_sinks, from the rows a read returned.
EffectiveSinks(a, rows) == (Manifest[a] \cup Of(rows, a)) \cap Runtime

Finish(t, rows) ==
    task' = [task EXCEPT ![t].at = "done", ![t].sinks = EffectiveSinks(task[t].action, rows)]

\* get_cached, the fast path under the read lock.
ReadSnapshot(t) ==
    /\ task[t].at = "read"
    /\ IF snapshot.held /\ snapshot.fresh THEN Finish(t, snapshot.rows)
       ELSE task' = [task EXCEPT ![t].at = "fill"]
    /\ UNCHANGED <<table, snapshot, allowfile, maybe, sure>>

\* populate_cache: under the write lock, after a second look.
PopulateCache(t) ==
    /\ task[t].at = "fill"
    /\ snapshot' = IF snapshot.held /\ snapshot.fresh THEN snapshot ELSE SnapshotOf(table)
    /\ task' = [task EXCEPT ![t].at = "reread"]
    /\ UNCHANGED <<table, allowfile, maybe, sure>>

\* A database error: the call goes by its manifest alone.
PopulateFails(t) ==
    /\ task[t].at = "fill"
    /\ Finish(t, {})
    /\ sure' = [sure EXCEPT ![t] = {}]
    /\ UNCHANGED <<table, snapshot, allowfile, maybe>>

\* The last look, whatever became of the snapshot meanwhile.
Reread(t) ==
    /\ task[t].at = "reread"
    /\ Finish(t, snapshot.rows)
    /\ UNCHANGED <<table, snapshot, allowfile, maybe, sure>>

\* CACHE_TTL passes.
SnapshotAges ==
    /\ snapshot.held /\ snapshot.fresh
    /\ snapshot' = [snapshot EXCEPT !.fresh = FALSE]
    /\ UNCHANGED <<table, allowfile, task, maybe, sure>>

TaskStep(t) ==
    \/ InsertRow(t) \/ DeleteRows(t) \/ InvalidateCache(t)
    \/ ListForSync(t) \/ WriteAllowfile(t) \/ SyncFails(t)
    \/ ReadSnapshot(t) \/ PopulateCache(t) \/ PopulateFails(t) \/ Reread(t)

LearnedNext ==
    \/ SnapshotAges
    \/ \E t \in Tasks :
        \/ TaskStep(t)
        \/ \E a \in Actions : Begin(t, "call", a, AnyDomain) \/ Begin(t, "clear", a, AnyDomain)
        \/ \E op \in {"approve", "add", "remove"}, a \in Actions, d \in Domains :
              Begin(t, op, a, d)

LearnedSpec == LearnedInit /\ [][LearnedNext]_learnedVars

--------------------------------------------------------------------------------
Resolved(t) == task[t].at = "done" /\ task[t].op \in {"call", "approve"}

\* Removal takes effect at once and reaches no other action: a call may reach a
\* domain only by its manifest or by a row of its own action that was in the
\* table, or whose removal had not been answered, while the call read.  No
\* snapshot filled before a removal outlives the answer to it.
RemovalTakesEffect ==
    \A t \in Tasks : Resolved(t) =>
        task[t].sinks \subseteq EffectiveSinks(task[t].action, maybe[t])

\* So does learning, but for a read whose second look comes after another
\* request has dropped the snapshot: such a read finds nothing learned at all.
LearningTakesEffect ==
    \A t \in Tasks : Resolved(t) =>
        \/ EffectiveSinks(task[t].action, sure[t]) \subseteq task[t].sinks
        \/ task[t].sinks = EffectiveSinks(task[t].action, {})

\* approvals.rs: the entry is persisted before the execution "so that
\* resolve_effective_sinks ... finds the newly-learned entry".
ApprovedFindsItsDomain ==
    \A t \in Tasks :
        /\ Resolved(t) /\ task[t].op = "approve"
        /\ <<task[t].action, task[t].domain>> \in sure[t]
        /\ task[t].domain \in Runtime
        => task[t].domain \in task[t].sinks

\* The file the proxy works from: "regenerated on domain changes".
AllowfileFollowsTable ==
    (\A t \in Tasks : task[t].at \in {"idle", "done"})
        => allowfile = UNION {Manifest[a] \cup Of(table, a) : a \in Actions} \cap Runtime

\* What an operator may rely on after a change of the learned rows.
AllowlistSafe == RemovalTakesEffect /\ LearningTakesEffect
================================================================================
