----------------------------- MODULE DatabaseGuard -----------------------------
(* Controlled SQL: how a database action's request is classified for the policy *)
(* and for the operator's review, held as a plan or run at once, validated by   *)
(* the host against the manifest's database_config, and executed, inside a      *)
(* transaction when a row limit applies. Manifests are reloaded meanwhile, and  *)
(* every exchange with the database may fail.                                   *)
EXTENDS Integers, FiniteSets

CONSTANTS Calls,       \* calls of one database action
          Configs,     \* the database_config values a manifest may carry
          Requests,    \* [id, query]: a statement id and a query, either may be missing
          MaxReloads   \* bound on reloads of the manifest

(* The types of DatabaseConfig and of a request, as far as they are compared:   *)
(* the mode is one of three, a limit is a number, and so are affected rows.     *)
ASSUME DatabaseAssumption ==
  /\ MaxReloads \in Nat
  /\ \A conf \in Configs :
       /\ conf.mode \in {"strict", "parameterized", "hybrid"} /\ conf.maxRows \in Int
       /\ \A id \in DOMAIN conf.statements : conf.statements[id].rows \in Nat
  /\ \A r \in Requests : r.query.rows \in Nat

VARIABLES served,    \* the database_config of the registered manifest
          dbCalls,   \* call -> its state, see DbCall
          rowsOf,    \* call -> the rows it has durably changed
          reloads

databaseVars == <<served, dbCalls, rowsOf, reloads>>

(* A piece of SQL is [verb, many, where, rows]: its first word, whether the     *)
(* scanner finds a second statement, whether it has a WHERE word, and how many  *)
(* rows it changes: a WITH may carry an INSERT, an UPDATE or a DELETE, whatever *)
(* its first word says. An absent request field is NoSql or "none".             *)
NoSql == [verb |-> "", many |-> FALSE, where |-> FALSE, rows |-> 0]

Reads == {"select"}
DmlWrites == {"insert", "update", "delete"}
AlwaysBlocked == {"ddl", "grant_revoke", "copy_io", "transaction_control", "multi_statement", "unknown"}

(* classify_sql: the scanner first, then the first word; the rest is unknown.   *)
ClassifySql(sql) ==
  IF sql.verb = "" THEN "unknown"
  ELSE IF sql.many THEN "multi_statement"
  ELSE
  CASE sql.verb \in {"SELECT", "WITH", "TABLE", "VALUES"} -> "select"
    [] sql.verb = "INSERT" -> "insert"
    [] sql.verb = "UPDATE" -> "update"
    [] sql.verb = "DELETE" -> "delete"
    [] sql.verb \in {"CREATE", "ALTER", "DROP", "TRUNCATE", "RENAME", "COMMENT"} -> "ddl"
    [] sql.verb \in {"GRANT", "REVOKE"} -> "grant_revoke"
    [] sql.verb = "COPY" -> "copy_io"
    [] sql.verb \in {"BEGIN", "COMMIT", "ROLLBACK", "SAVEPOINT", "RELEASE",
                     "SET", "RESET", "LOCK", "UNLOCK"} -> "transaction_control"
    [] OTHER -> "unknown"

(* A configuration: [there, mode, statements, blocked, approval, without,       *)
(* parameterized, where, maxRows]; statements maps ids to SQL, maxRows is -1    *)
(* when there is no limit.                                                      *)
ResolveStatement(conf, id) ==
  IF id \in DOMAIN conf.statements THEN conf.statements[id] ELSE NoSql

(* DatabaseConfig::validate.                                                    *)
ConfigIsValid(conf) ==
  /\ conf.mode = "strict" => DOMAIN conf.statements # {}
  /\ \A id \in DOMAIN conf.statements : ClassifySql(conf.statements[id]) \notin AlwaysBlocked

(* The SQL a request stands for under a configuration.                          *)
Resolved(r, conf) == IF r.id # "none" THEN ResolveStatement(conf, r.id) ELSE r.query

(* build_database_policy_context and build_database_review: the class shown to  *)
(* the policy and to the operator, "none" when nothing can be said.             *)
PolicyContext(r, conf) ==
  IF ~conf.there \/ (r.id = "none" /\ r.query = NoSql) THEN "none"
  ELSE ClassifySql(Resolved(r, conf))

BuildDatabaseReview(r, conf) ==
  IF ~conf.there THEN "none" ELSE ClassifySql(Resolved(r, conf))

(* validate_database_request: what is refused, in the order of the checks.      *)
ValidatePredeclared(r, conf) ==
  /\ r.id \in DOMAIN conf.statements
  /\ ClassifySql(conf.statements[r.id]) \notin AlwaysBlocked

ValidateParameterized(r, conf) ==
  LET op == ClassifySql(r.query)
  IN  /\ conf.mode # "strict"
      /\ op \notin AlwaysBlocked \cup conf.blocked
      /\ conf.mode = "hybrid" => op \in conf.parameterized
      /\ op \in conf.where => r.query.where

ValidRequest(r, conf) ==
  /\ conf.there
  /\ (r.id = "none") # (r.query = NoSql)
  /\ IF r.id # "none" THEN ValidatePredeclared(r, conf) ELSE ValidateParameterized(r, conf)

(* requires_approval: listed for approval and not excused from it.              *)
RequiresApproval(sql, conf) == ClassifySql(sql) \in conf.approval \ conf.without

(* needs_row_guard.                                                             *)
NeedsRowGuard(sql, conf) == ~RequiresApproval(sql, conf) /\ conf.maxRows >= 0

--------------------------------------------------------------------------------
NoConfig == [there |-> FALSE, mode |-> "hybrid", statements |-> [i \in {} |-> NoSql],
             blocked |-> {}, approval |-> {}, without |-> {}, parameterized |-> {},
             where |-> {}, maxRows |-> -1]
NoRequest == [id |-> "none", query |-> NoSql]
IdleCall == [at |-> "idle", request |-> NoRequest, conf |-> NoConfig, approved |-> FALSE,
             shown |-> "none", outcome |-> "none"]

DatabaseInit ==
  /\ served \in Configs
  /\ dbCalls = [c \in Calls |-> IdleCall]
  /\ rowsOf = [c \in Calls |-> 0]
  /\ reloads = 0

(* The registry takes a new manifest; nothing runs DatabaseConfig::validate.    *)
Reload ==
  /\ reloads < MaxReloads
  /\ reloads' = reloads + 1
  /\ \E conf \in Configs \ {served} : served' = conf
  /\ UNCHANGED <<dbCalls, rowsOf>>

(* The pipeline takes the manifest's configuration, gives the policy the class, *)
(* and runs the call or stores it in a plan with that configuration: the policy *)
(* (external) holds by risk and allowlist, whatever the class.                  *)
Ask(c, r, held) ==
  /\ dbCalls[c].at = "idle"
  /\ dbCalls' = [dbCalls EXCEPT ![c] =
       [@ EXCEPT !.at = IF held THEN "held" ELSE "run", !.request = r, !.conf = served,
                 !.shown = PolicyContext(r, served)]]
  /\ UNCHANGED <<served, rowsOf, reloads>>

\* A variant with a fault: the task takes the configuration of today's
\* manifest.
PlanConfigOfToday(c) == served

(* The operator reads the plan's review and approves; the plan's configuration  *)
(* goes with the task.                                                          *)
PlanConfig(c) == dbCalls[c].conf
Approve(c) ==
  /\ dbCalls[c].at = "held"
  /\ dbCalls' = [dbCalls EXCEPT ![c] =
       [@ EXCEPT !.at = "run", !.approved = TRUE, !.conf = PlanConfig(c),
                 !.shown = BuildDatabaseReview(dbCalls[c].request, dbCalls[c].conf)]]
  /\ UNCHANGED <<served, rowsOf, reloads>>

Finish(c, outcome, rows) ==
  /\ dbCalls' = [dbCalls EXCEPT ![c].at = "done", ![c].outcome = outcome]
  /\ rowsOf' = [rowsOf EXCEPT ![c] = @ + rows]
  /\ UNCHANGED <<served, reloads>>

Sql(c) == Resolved(dbCalls[c].request, dbCalls[c].conf)

(* execute_query refuses: no configuration, or a request that does not validate.*)
RefuseQuery(c) ==
  /\ dbCalls[c].at = "run"
  /\ ~ValidRequest(dbCalls[c].request, dbCalls[c].conf)
  /\ Finish(c, "refused", 0)

Admitted(c) == dbCalls[c].at = "run" /\ ValidRequest(dbCalls[c].request, dbCalls[c].conf)

(* What is classed as a read is fetched from the pool, without a transaction    *)
(* and whatever the row limit: what the statement changes is committed, also    *)
(* when the connection is lost after it.                                        *)
FetchAll(c) ==
  /\ Admitted(c) /\ ClassifySql(Sql(c)) \in Reads
  /\ \/ Finish(c, "ok", Sql(c).rows)
     \/ \E rows \in {0, Sql(c).rows} : Finish(c, "failed", rows)

(* A write without a guard commits by itself; a connection lost after that      *)
(* reports a failure.                                                           *)
ExecuteOnPool(c) ==
  /\ Admitted(c) /\ ClassifySql(Sql(c)) \notin Reads /\ ~NeedsRowGuard(Sql(c), dbCalls[c].conf)
  /\ \/ Finish(c, "ok", Sql(c).rows)
     \/ \E rows \in {0, Sql(c).rows} : Finish(c, "failed", rows)

(* A guarded write: begin and execute, either may fail and leaves nothing.      *)
BeginTransaction(c) ==
  /\ Admitted(c) /\ ClassifySql(Sql(c)) \notin Reads /\ NeedsRowGuard(Sql(c), dbCalls[c].conf)
  /\ \/ Finish(c, "failed", 0)
     \/ /\ dbCalls' = [dbCalls EXCEPT ![c].at = "executed"]
        /\ UNCHANGED <<served, rowsOf, reloads>>

(* Over the limit the transaction is rolled back, and a rollback that fails     *)
(* drops the connection, which rolls it back too; within it it is committed,    *)
(* and a failed commit leaves it unknown whether the rows changed.              *)
EndTransaction(c) ==
  /\ dbCalls[c].at = "executed"
  /\ IF Sql(c).rows > dbCalls[c].conf.maxRows
     THEN \E outcome \in {"refused", "failed"} : Finish(c, outcome, 0)
     ELSE \/ Finish(c, "ok", Sql(c).rows)
          \/ \E rows \in {0, Sql(c).rows} : Finish(c, "failed", rows)

DatabaseNext ==
  \/ Reload
  \/ \E c \in Calls :
       \/ \E r \in Requests, held \in BOOLEAN : Ask(c, r, held)
       \/ Approve(c) \/ RefuseQuery(c) \/ FetchAll(c) \/ ExecuteOnPool(c)
       \/ BeginTransaction(c) \/ EndTransaction(c)

DatabaseSpec == DatabaseInit /\ [][DatabaseNext]_databaseVars

--------------------------------------------------------------------------------
(* Type correctness of the calls and their effects.                             *)
DatabaseTypeOK ==
  /\ served \in Configs /\ reloads \in 0..MaxReloads
  /\ \A c \in Calls :
       /\ dbCalls[c].at \in {"idle", "held", "run", "executed", "done"}
       /\ dbCalls[c].outcome \in {"none", "ok", "refused", "failed"}
       /\ dbCalls[c].conf \in Configs \cup {NoConfig}
       /\ rowsOf[c] \in Nat

Changed(c) == rowsOf[c] > 0

(* Rows change only through a statement whose class is never blocked, and an    *)
(* agent's own SQL changes them only where the mode and the rules of the        *)
(* configuration the call was decided under let that class, with its WHERE      *)
(* clause. The class is classify_sql's: it says nothing of a WITH that writes.  *)
OnlyAllowedWrites ==
  \A c \in Calls : Changed(c) =>
    LET conf == dbCalls[c].conf
        op == ClassifySql(Sql(c))
    IN  /\ conf.there /\ op \in Reads \cup DmlWrites
        /\ dbCalls[c].request.id = "none" =>
             /\ conf.mode \in {"parameterized", "hybrid"} /\ op \notin conf.blocked
             /\ conf.mode = "hybrid" => op \in conf.parameterized
             /\ op \in conf.where => dbCalls[c].request.query.where

(* What the operator or the policy was shown is what ran: a reload between the  *)
(* plan and its approval changes neither the statement nor the rules.           *)
ShownIsRun ==
  \A c \in Calls : Changed(c) => dbCalls[c].shown = ClassifySql(Sql(c))

(* A statement classed as a write that the rules do not list for approval stays *)
(* within the row limit or leaves nothing behind, also when the database fails  *)
(* half-way; and a refusal never leaves a change, of whatever class.            *)
GuardHolds ==
  \A c \in Calls :
    /\ dbCalls[c].outcome = "refused" => ~Changed(c)
    /\ (/\ Changed(c) /\ ClassifySql(Sql(c)) \notin Reads
        /\ NeedsRowGuard(Sql(c), dbCalls[c].conf)) => rowsOf[c] <= dbCalls[c].conf.maxRows

(* Rows change only as the rules allow, as shown, and within the guard.         *)
DatabaseSafe == DatabaseTypeOK /\ OnlyAllowedWrites /\ ShownIsRun /\ GuardHolds

(* "intentionally conservative. Unknown or ambiguous => `Unknown` (DENY)": what *)
(* is classed as a read changes no row. The code breaks it for a WITH.          *)
ReadsChangeNothing ==
  \A c \in Calls : Changed(c) => ClassifySql(Sql(c)) \in DmlWrites

(* "it only applies to writes that were auto-allowed, not approval-backed       *)
(* writes": a write that nobody approved stays within                           *)
(* max_rows_affected_without_approval.                                          *)
UnapprovedWritesAreBounded ==
  \A c \in Calls :
    (Changed(c) /\ ~dbCalls[c].approved /\ dbCalls[c].conf.maxRows >= 0)
      => rowsOf[c] <= dbCalls[c].conf.maxRows

(* "strict mode without statements is a configuration error ... Fail at load    *)
(* time": no call runs under a configuration that does not validate.            *)
LoadedConfigIsValid == ConfigIsValid(served)
================================================================================
