----------------------------- MODULE IdentityProofs -----------------------------
(***************************************************************************)
(* Who may do what, for every value of the constants: the listeners'       *)
(* authentication, the policy's rules under grants and revocations, and    *)
(* the statements that reach a database.                                   *)
(*                                                                         *)
(* A database call carries from its plan to its end what its operator was  *)
(* shown, so a reload in between changes nothing of it. The policy's       *)
(* entries are derived from what was given and not taken back, so an       *)
(* answer can be judged by that alone.  For authentication the key cache   *)
(* is sound whatever proofs arrive, and the replay cache remembers a proof *)
(* for longer than a request that carries it can still be under way; the   *)
(* margin between the two lifetimes is what the proof uses.                *)
(***************************************************************************)
EXTENDS Authentication, PolicyRules, DatabaseGuard, FiniteSetTheorems, SequenceTheorems,
        TLAPS

--------------------------------------------------------------------------------
(* Controlled SQL *)

Classes == Reads \cup DmlWrites \cup AlwaysBlocked

DbCall == [at : {"idle", "held", "run", "executed", "done"},
           request : Requests \cup {NoRequest}, conf : Configs \cup {NoConfig},
           approved : BOOLEAN, shown : Classes \cup {"none"},
           outcome : {"none", "ok", "refused", "failed"}]

(* The row limit applies: the call is classed as a write, and is guarded.       *)
Limited(d) ==
  /\ ClassifySql(Resolved(d.request, d.conf)) \notin Reads
  /\ NeedsRowGuard(Resolved(d.request, d.conf), d.conf)

(* What a call's state says of the n rows it has changed.                       *)
CallIsGuarded(d, n) ==
  /\ n \in Nat
  /\ d.at # "done" => n = 0 /\ d.outcome = "none"
  /\ (d.at \in {"run", "executed", "done"} /\ ValidRequest(d.request, d.conf))
       => d.shown = ClassifySql(Resolved(d.request, d.conf))
  /\ d.at = "executed" => ValidRequest(d.request, d.conf)
  /\ n > 0 => /\ ValidRequest(d.request, d.conf) /\ d.outcome # "refused"
              /\ Limited(d) => n <= d.conf.maxRows

(* The inductive invariant of the database guard: every call is guarded.        *)
DatabaseInv ==
  /\ served \in Configs /\ reloads \in 0..MaxReloads
  /\ dbCalls \in [Calls -> DbCall]
  /\ rowsOf \in [Calls -> Nat]
  /\ \A c \in Calls : CallIsGuarded(dbCalls[c], rowsOf[c])

(* Every statement has a class (classify_sql).                                  *)
LEMMA ClassIsKnown ==
  ASSUME NEW sql PROVE ClassifySql(sql) \in Classes
BY DEF ClassifySql, Classes, Reads, DmlWrites, AlwaysBlocked

(* The class the policy and the operator see is a class, or none.               *)
LEMMA ShownIsClass ==
  ASSUME NEW r, NEW conf
  PROVE  /\ PolicyContext(r, conf) \in Classes \cup {"none"}
         /\ BuildDatabaseReview(r, conf) \in Classes \cup {"none"}
<1>1. ClassifySql(Resolved(r, conf)) \in Classes BY ClassIsKnown
<1> QED BY <1>1 DEF PolicyContext, BuildDatabaseReview

(* For a request that validates, it is the class of what runs.                  *)
LEMMA ShownIsWhatRuns ==
  ASSUME NEW r, NEW conf, ValidRequest(r, conf)
  PROVE  /\ PolicyContext(r, conf) = ClassifySql(Resolved(r, conf))
         /\ BuildDatabaseReview(r, conf) = ClassifySql(Resolved(r, conf))
BY DEF ValidRequest, PolicyContext, BuildDatabaseReview

(* A request stands for SQL that touches a number of rows, and its              *)
(* configuration has a limit that is a number.                                  *)
LEMMA RowsAreNumbers ==
  ASSUME NEW d \in DbCall
  PROVE  Resolved(d.request, d.conf).rows \in Nat /\ d.conf.maxRows \in Int
<1>0. NoSql.rows = 0 BY DEF NoSql
<1>1. d.request.query.rows \in Nat
  BY <1>0, DatabaseAssumption DEF DbCall, NoRequest
<1>2. /\ d.conf.maxRows \in Int
      /\ \A id \in DOMAIN d.conf.statements : d.conf.statements[id].rows \in Nat
  BY DatabaseAssumption DEF DbCall, NoConfig
<1> QED BY <1>0, <1>1, <1>2 DEF Resolved, ResolveStatement

(* A step of one call keeps the invariant when the call's new state is guarded. *)
LEMMA CallStepKeeps ==
  ASSUME DatabaseInv, NEW c \in Calls, NEW d \in DbCall, NEW n \in Nat,
         CallIsGuarded(d, n),
         dbCalls' = [dbCalls EXCEPT ![c] = d], rowsOf' = [rowsOf EXCEPT ![c] = n],
         UNCHANGED <<served, reloads>>
  PROVE  DatabaseInv'
<1>1. /\ dbCalls' \in [Calls -> DbCall] /\ rowsOf' \in [Calls -> Nat]
      /\ \A b \in Calls : dbCalls'[b] = (IF b = c THEN d ELSE dbCalls[b])
                          /\ rowsOf'[b] = (IF b = c THEN n ELSE rowsOf[b])
  BY DEF DatabaseInv
<1>2. \A b \in Calls : CallIsGuarded(dbCalls'[b], rowsOf'[b])
  BY <1>1 DEF DatabaseInv
<1> QED BY <1>1, <1>2 DEF DatabaseInv

(* Finishing a call that has changed nothing so far.                            *)
LEMMA FinishKeeps ==
  ASSUME DatabaseInv, NEW c \in Calls, NEW rows \in Nat,
         NEW outcome \in {"ok", "refused", "failed"},
         dbCalls[c].at \in {"run", "executed"}, Finish(c, outcome, rows),
         rows > 0 => /\ ValidRequest(dbCalls[c].request, dbCalls[c].conf) /\ outcome # "refused"
                     /\ Limited(dbCalls[c]) => rows <= dbCalls[c].conf.maxRows
  PROVE  DatabaseInv'
<1> DEFINE d == [dbCalls[c] EXCEPT !.at = "done", !.outcome = outcome]
<1>1. dbCalls[c] \in DbCall /\ CallIsGuarded(dbCalls[c], rowsOf[c]) /\ rowsOf[c] = 0
  BY DEF DatabaseInv, CallIsGuarded
<1>2. /\ d \in DbCall /\ d.at = "done" /\ d.outcome = outcome
      /\ d.request = dbCalls[c].request /\ d.conf = dbCalls[c].conf /\ d.shown = dbCalls[c].shown
  BY <1>1 DEF DbCall
<1>3. /\ dbCalls' = [dbCalls EXCEPT ![c] = d] /\ rowsOf' = [rowsOf EXCEPT ![c] = rows]
      /\ UNCHANGED <<served, reloads>>
  <2>1. rowsOf' = [rowsOf EXCEPT ![c] = rowsOf[c] + rows] BY DEF Finish
  <2>2. rowsOf[c] + rows = rows BY <1>1
  <2>3. dbCalls' = [dbCalls EXCEPT ![c] = d] BY DEF Finish, DatabaseInv
  <2> QED BY <2>1, <2>2, <2>3 DEF Finish
<1> HIDE DEF d
<1>4. CallIsGuarded(d, rows) BY <1>1, <1>2 DEF CallIsGuarded, Limited
<1> QED BY <1>2, <1>3, <1>4, CallStepKeeps

LEMMA AskKeeps ==
  ASSUME DatabaseInv, NEW c \in Calls, NEW r \in Requests, NEW held \in BOOLEAN, Ask(c, r, held)
  PROVE  DatabaseInv'
<1> DEFINE d == [dbCalls[c] EXCEPT !.at = IF held THEN "held" ELSE "run", !.request = r,
                                   !.conf = served, !.shown = PolicyContext(r, served)]
<1>1. dbCalls[c] \in DbCall /\ CallIsGuarded(dbCalls[c], rowsOf[c]) /\ rowsOf[c] = 0
      /\ dbCalls[c].outcome = "none"
  BY DEF DatabaseInv, CallIsGuarded, Ask
<1>2. PolicyContext(r, served) \in Classes \cup {"none"} BY ShownIsClass
<1>3. /\ d \in DbCall /\ d.at \in {"held", "run"} /\ d.outcome = "none"
      /\ d.request = r /\ d.conf = served /\ d.shown = PolicyContext(r, served)
  BY <1>1, <1>2 DEF DbCall, DatabaseInv
<1>4. /\ dbCalls' = [dbCalls EXCEPT ![c] = d] /\ rowsOf' = [rowsOf EXCEPT ![c] = 0]
      /\ UNCHANGED <<served, reloads>>
  BY <1>1 DEF Ask, DatabaseInv
<1> HIDE DEF d
<1>5. CallIsGuarded(d, 0) BY <1>3, ShownIsWhatRuns DEF CallIsGuarded
<1> QED BY <1>3, <1>4, <1>5, CallStepKeeps

LEMMA ApproveKeeps ==
  ASSUME DatabaseInv, NEW c \in Calls, Approve(c)
  PROVE  DatabaseInv'
<1> DEFINE r == dbCalls[c].request
           conf == dbCalls[c].conf
           d == [dbCalls[c] EXCEPT !.at = "run", !.approved = TRUE, !.conf = conf,
                                   !.shown = BuildDatabaseReview(r, conf)]
<1>1. dbCalls[c] \in DbCall /\ CallIsGuarded(dbCalls[c], rowsOf[c]) /\ rowsOf[c] = 0
      /\ dbCalls[c].outcome = "none"
  BY DEF DatabaseInv, CallIsGuarded, Approve
<1>2. BuildDatabaseReview(r, conf) \in Classes \cup {"none"} BY ShownIsClass
<1>3. /\ d \in DbCall /\ d.at = "run" /\ d.outcome = "none"
      /\ d.request = r /\ d.conf = conf /\ d.shown = BuildDatabaseReview(r, conf)
  BY <1>1, <1>2 DEF DbCall
<1>4. /\ dbCalls' = [dbCalls EXCEPT ![c] = d] /\ rowsOf' = [rowsOf EXCEPT ![c] = 0]
      /\ UNCHANGED <<served, reloads>>
  BY <1>1 DEF Approve, DatabaseInv, PlanConfig
<1> HIDE DEF d
<1>5. CallIsGuarded(d, 0) BY <1>3, ShownIsWhatRuns DEF CallIsGuarded
<1> QED BY <1>3, <1>4, <1>5, CallStepKeeps

(* A statement run outside a transaction: a read, or a write with no limit.     *)
LEMMA PoolKeeps ==
  ASSUME DatabaseInv, NEW c \in Calls, FetchAll(c) \/ ExecuteOnPool(c)
  PROVE  DatabaseInv'
<1>1. /\ ValidRequest(dbCalls[c].request, dbCalls[c].conf) /\ dbCalls[c].at = "run"
      /\ ~Limited(dbCalls[c])
  BY DEF FetchAll, ExecuteOnPool, Admitted, Limited, Sql
<1>2. Sql(c).rows \in Nat BY RowsAreNumbers DEF DatabaseInv, Sql
<1>3. CASE Finish(c, "ok", Sql(c).rows) BY <1>1, <1>2, <1>3, FinishKeeps
<1>4. ASSUME NEW rows \in {0, Sql(c).rows}, Finish(c, "failed", rows) PROVE DatabaseInv'
  BY <1>1, <1>2, <1>4, FinishKeeps
<1> QED BY <1>3, <1>4 DEF FetchAll, ExecuteOnPool

LEMMA BeginKeeps ==
  ASSUME DatabaseInv, NEW c \in Calls, BeginTransaction(c)
  PROVE  DatabaseInv'
<1>1. ValidRequest(dbCalls[c].request, dbCalls[c].conf) /\ dbCalls[c].at = "run"
  BY DEF BeginTransaction, Admitted
<1>2. CASE Finish(c, "failed", 0) BY <1>1, <1>2, FinishKeeps
<1>3. CASE /\ dbCalls' = [dbCalls EXCEPT ![c].at = "executed"]
           /\ UNCHANGED <<served, rowsOf, reloads>>
  <2> DEFINE d == [dbCalls[c] EXCEPT !.at = "executed"]
  <2>1. dbCalls[c] \in DbCall /\ CallIsGuarded(dbCalls[c], rowsOf[c]) /\ rowsOf[c] = 0
        /\ dbCalls[c].outcome = "none"
    BY <1>1 DEF DatabaseInv, CallIsGuarded
  <2>2. /\ d \in DbCall /\ d.at = "executed" /\ d.outcome = "none" /\ d.shown = dbCalls[c].shown
        /\ d.request = dbCalls[c].request /\ d.conf = dbCalls[c].conf
    BY <2>1 DEF DbCall
  <2>3. dbCalls' = [dbCalls EXCEPT ![c] = d] /\ rowsOf' = [rowsOf EXCEPT ![c] = 0]
    BY <1>3, <2>1 DEF DatabaseInv
  <2> HIDE DEF d
  <2>4. CallIsGuarded(d, 0) BY <1>1, <2>1, <2>2 DEF CallIsGuarded
  <2> QED BY <1>3, <2>2, <2>3, <2>4, CallStepKeeps
<1> QED BY <1>2, <1>3 DEF BeginTransaction

LEMMA EndKeeps ==
  ASSUME DatabaseInv, NEW c \in Calls, EndTransaction(c)
  PROVE  DatabaseInv'
<1>1. ValidRequest(dbCalls[c].request, dbCalls[c].conf) /\ dbCalls[c].at = "executed"
  BY DEF EndTransaction, DatabaseInv, CallIsGuarded
<1>2. Sql(c).rows \in Nat /\ dbCalls[c].conf.maxRows \in Int
  BY RowsAreNumbers DEF DatabaseInv, Sql
<1>3. CASE Sql(c).rows > dbCalls[c].conf.maxRows
  <2>1. PICK outcome \in {"refused", "failed"} : Finish(c, outcome, 0)
    BY <1>3 DEF EndTransaction
  <2> QED BY <1>1, <2>1, FinishKeeps
<1>4. CASE ~(Sql(c).rows > dbCalls[c].conf.maxRows)
  <2>1. Sql(c).rows <= dbCalls[c].conf.maxRows BY <1>2, <1>4
  <2>2. CASE Finish(c, "ok", Sql(c).rows) BY <1>1, <1>2, <2>1, <2>2, FinishKeeps
  <2>3. ASSUME NEW rows \in {0, Sql(c).rows}, Finish(c, "failed", rows) PROVE DatabaseInv'
    BY <1>1, <1>2, <2>1, <2>3, FinishKeeps
  <2> QED BY <1>4, <2>2, <2>3 DEF EndTransaction
<1> QED BY <1>3, <1>4

(* Every call is guarded, whatever is asked, reloaded, approved or lost.        *)
THEOREM DatabaseInvariant == DatabaseSpec => []DatabaseInv
<1>1. DatabaseInit => DatabaseInv
  <2> SUFFICES ASSUME DatabaseInit PROVE DatabaseInv OBVIOUS
  <2>1. IdleCall \in DbCall BY DEF IdleCall, DbCall
  <2>2. CallIsGuarded(IdleCall, 0)
    BY DEF CallIsGuarded, IdleCall
  <2> QED BY <2>1, <2>2, DatabaseAssumption DEF DatabaseInit, DatabaseInv
<1>2. DatabaseInv /\ [DatabaseNext]_databaseVars => DatabaseInv'
  <2> SUFFICES ASSUME DatabaseInv, [DatabaseNext]_databaseVars PROVE DatabaseInv' OBVIOUS
  <2>1. CASE UNCHANGED databaseVars BY <2>1 DEF databaseVars, DatabaseInv
  <2>2. CASE Reload BY <2>2, DatabaseAssumption DEF Reload, DatabaseInv
  <2>3. ASSUME NEW c \in Calls, NEW r \in Requests, NEW held \in BOOLEAN, Ask(c, r, held)
        PROVE DatabaseInv'
    BY <2>3, AskKeeps
  <2>4. ASSUME NEW c \in Calls, Approve(c) PROVE DatabaseInv' BY <2>4, ApproveKeeps
  <2>5. ASSUME NEW c \in Calls, RefuseQuery(c) PROVE DatabaseInv'
    BY <2>5, FinishKeeps DEF RefuseQuery
  <2>6. ASSUME NEW c \in Calls, FetchAll(c) PROVE DatabaseInv' BY <2>6, PoolKeeps
  <2>7. ASSUME NEW c \in Calls, ExecuteOnPool(c) PROVE DatabaseInv' BY <2>7, PoolKeeps
  <2>8. ASSUME NEW c \in Calls, BeginTransaction(c) PROVE DatabaseInv' BY <2>8, BeginKeeps
  <2>9. ASSUME NEW c \in Calls, EndTransaction(c) PROVE DatabaseInv' BY <2>9, EndKeeps
  <2> QED BY <2>1, <2>2, <2>3, <2>4, <2>5, <2>6, <2>7, <2>8, <2>9 DEF DatabaseNext
<1> QED BY <1>1, <1>2, PTL DEF DatabaseSpec

(* What validates is of a class the configuration allows.                       *)
LEMMA ValidIsAllowed ==
  ASSUME NEW d \in DbCall, ValidRequest(d.request, d.conf)
  PROVE  /\ d.conf.there /\ ClassifySql(Resolved(d.request, d.conf)) \in Reads \cup DmlWrites
         /\ d.request.id = "none" =>
              /\ d.conf.mode \in {"parameterized", "hybrid"}
              /\ ClassifySql(d.request.query) \notin d.conf.blocked
              /\ d.conf.mode = "hybrid" => ClassifySql(d.request.query) \in d.conf.parameterized
              /\ ClassifySql(d.request.query) \in d.conf.where => d.request.query.where
<1>1. d.conf.mode \in {"strict", "parameterized", "hybrid"}
  BY DatabaseAssumption DEF DbCall, NoConfig
<1>2. ClassifySql(Resolved(d.request, d.conf)) \in Classes BY ClassIsKnown
<1>3. ClassifySql(Resolved(d.request, d.conf)) \notin AlwaysBlocked
  BY DEF ValidRequest, ValidatePredeclared, ValidateParameterized, Resolved, ResolveStatement
<1> QED BY <1>1, <1>2, <1>3
  DEF ValidRequest, ValidateParameterized, Resolved, Classes

(* Rows change only through a statement of an allowed class, the class that was *)
(* shown to the operator or to the policy, and within the limit where it is     *)
(* classed as a write that the rules do not list for approval, whatever reload  *)
(* or database failure comes between.                                           *)
THEOREM DatabaseIsGuarded == DatabaseSpec => []DatabaseSafe
<1>1. DatabaseInv => DatabaseSafe
  <2> SUFFICES ASSUME DatabaseInv PROVE DatabaseSafe OBVIOUS
  <2>1. DatabaseTypeOK BY DEF DatabaseInv, DatabaseTypeOK, DbCall
  <2>2. ASSUME NEW c \in Calls, Changed(c)
        PROVE  /\ dbCalls[c] \in DbCall /\ ValidRequest(dbCalls[c].request, dbCalls[c].conf)
               /\ dbCalls[c].outcome # "refused" /\ dbCalls[c].shown = ClassifySql(Sql(c))
               /\ Limited(dbCalls[c]) => rowsOf[c] <= dbCalls[c].conf.maxRows
    BY <2>2 DEF DatabaseInv, CallIsGuarded, Changed, Sql, DbCall
  <2>3. OnlyAllowedWrites
    BY <2>2, ValidIsAllowed DEF OnlyAllowedWrites, Sql, Resolved
  <2>4. ShownIsRun /\ GuardHolds BY <2>2 DEF ShownIsRun, GuardHolds, Limited, Sql
  <2> QED BY <2>1, <2>3, <2>4 DEF DatabaseSafe
<1> QED BY <1>1, DatabaseInvariant, PTL
--------------------------------------------------------------------------------
(* The policy's rules *)

(* An entry says what was given and not taken back.                             *)
EntriesAreGiven ==
  \A n \in Names : acl[n].actions = {a \in ActionIds : <<n, a>> \in given}

(* An entry that is gone left nothing behind.                                   *)
GoneIsEmpty == \A n \in Names : ~acl[n].there => acl[n] = NoEntry

(* An entry made from what the registry serves has its actions' sinks.          *)
SinksAreDerived ==
  \A n \in Names \ outdated : acl[n].sinks = DeriveSinks(manifests, acl[n].actions)

(* The last answer is what the documents, as they stand, make of its input.     *)
AnswerIsCurrent ==
  answer = NoAnswer
    \/ \E i \in Inputs, fault \in BackendFaults \cup {"none"} : answer = Outcome(i, fault)

(* The inductive invariant of the policy's documents.                           *)
RulesInv ==
  /\ acl \in [Names -> AclEntry]
  /\ allowlist \subseteq ActionIds \X Principals
  /\ DOMAIN onDisk \subseteq ActionIds /\ onDisk \in [DOMAIN onDisk -> SUBSET Sinks]
  /\ manifests \in [ActionIds -> SUBSET Sinks]
  /\ outdated \subseteq Names /\ given \subseteq Names \X ActionIds
  /\ edits \in 0..MaxEdits
  /\ EntriesAreGiven /\ GoneIsEmpty /\ SinksAreDerived /\ AnswerIsCurrent

(* Sinks derived from actions are sinks (derive_sinks), whichever index is read.*)
LEMMA DerivedAreSinks ==
  ASSUME NEW index, index \in [DOMAIN index -> SUBSET Sinks], NEW as
  PROVE  DeriveSinks(index, as) \subseteq Sinks
BY DEF DeriveSinks

(* What the CLI and the endpoints read are indexes of sinks.                    *)
LEMMA IndexIsIndex ==
  ASSUME RulesInv, NEW tool
  PROVE  Index(tool) \in [DOMAIN Index(tool) -> SUBSET Sinks]
BY DEF RulesInv, Index

(* An index that has what the registry serves gives the sinks it would give.    *)
LEMMA ServedIsDerived ==
  ASSUME RulesInv, NEW index, NEW as \in SUBSET ActionIds, ReadsWhatIsServed(index, as)
  PROVE  DeriveSinks(index, as) = DeriveSinks(manifests, as)
<1>1. DOMAIN manifests = ActionIds BY DEF RulesInv
<1>2. as \cap DOMAIN index = as /\ as \cap DOMAIN manifests = as
  BY <1>1 DEF ReadsWhatIsServed
<1>3. \A a \in as : index[a] = manifests[a] BY DEF ReadsWhatIsServed
<1> QED BY <1>2, <1>3 DEF DeriveSinks

(* A step that replaces one entry by one whose actions are in order, and whose  *)
(* sinks a tool derived from the index it reads.                                *)
LEMMA EntryStepKeeps ==
  ASSUME RulesInv, Edit, NEW n \in Names, NEW e \in AclEntry, NEW index,
         Derived(n, e, index),
         e.actions = {a \in ActionIds : <<n, a>> \in given'},
         \A m \in Names, a \in ActionIds : m # n => (<<m, a>> \in given' <=> <<m, a>> \in given),
         ~e.there => e = NoEntry, e.sinks = DeriveSinks(index, e.actions),
         given' \subseteq Names \X ActionIds, UNCHANGED <<allowlist, onDisk, manifests>>
  PROVE  RulesInv'
<1>1. /\ acl' \in [Names -> AclEntry]
      /\ \A m \in Names : acl'[m] = IF m = n THEN e ELSE acl[m]
  BY DEF RulesInv, Derived
<1>2. edits' \in 0..MaxEdits /\ answer' = NoAnswer
  BY RulesAssumption DEF RulesInv, Edit
<1>3. EntriesAreGiven'
  <2> SUFFICES ASSUME NEW m \in Names
               PROVE  acl'[m].actions = {a \in ActionIds : <<m, a>> \in given'}
    BY DEF EntriesAreGiven
  <2>1. CASE m = n BY <1>1, <2>1
  <2>2. CASE m # n
    <3>1. acl'[m].actions = {a \in ActionIds : <<m, a>> \in given}
      BY <1>1, <2>2 DEF RulesInv, EntriesAreGiven
    <3> QED BY <3>1, <2>2
  <2> QED BY <2>1, <2>2
<1>4. GoneIsEmpty' BY <1>1 DEF RulesInv, GoneIsEmpty
<1>5. SinksAreDerived'
  <2> SUFFICES ASSUME NEW m \in Names, m \notin outdated'
               PROVE  acl'[m].sinks = DeriveSinks(manifests, acl'[m].actions)
    BY DEF SinksAreDerived, DeriveSinks
  <2>1. CASE m = n
    <3>1. ReadsWhatIsServed(index, e.actions) BY <2>1 DEF Derived
    <3>2. e.actions \in SUBSET ActionIds BY DEF AclEntry
    <3> QED BY <1>1, <2>1, <3>1, <3>2, ServedIsDerived
  <2>2. CASE m # n
    <3>1. m \notin outdated BY <2>2 DEF Derived
    <3> QED BY <1>1, <2>2, <3>1 DEF RulesInv, SinksAreDerived
  <2> QED BY <2>1, <2>2
<1>6. AnswerIsCurrent' BY <1>2 DEF AnswerIsCurrent, NoAnswer
<1>7. outdated' \subseteq Names BY DEF Derived, RulesInv
<1> QED BY <1>1, <1>2, <1>3, <1>4, <1>5, <1>6, <1>7 DEF RulesInv

LEMMA GrantKeeps ==
  ASSUME RulesInv, NEW n \in Names, NEW as \in SUBSET ActionIds \ {{}}, NEW tool,
         Grant(n, as, tool)
  PROVE  RulesInv'
<1> DEFINE actions == acl[n].actions \cup as
           e == [there |-> TRUE, actions |-> actions,
                 sinks |-> DeriveSinks(Index(tool), actions), inherits |-> acl[n].inherits]
<1>1. acl[n] \in AclEntry /\ actions \subseteq ActionIds BY DEF RulesInv, AclEntry
<1>2. DeriveSinks(Index(tool), actions) \subseteq Sinks BY DerivedAreSinks, IndexIsIndex
<1>3. e \in AclEntry BY <1>1, <1>2 DEF AclEntry
<1>4. Derived(n, e, Index(tool)) BY DEF Grant
<1>5. acl[n].actions = {a \in ActionIds : <<n, a>> \in given}
  BY DEF RulesInv, EntriesAreGiven
<1>6. /\ given' \subseteq Names \X ActionIds
      /\ \A m \in Names, a \in ActionIds :
           <<m, a>> \in given' <=> (<<m, a>> \in given \/ (m = n /\ a \in as))
  BY DEF Grant, RulesInv
<1>7. e.actions = {a \in ActionIds : <<n, a>> \in given'} BY <1>5, <1>6
<1>8. e.there /\ e.sinks = DeriveSinks(Index(tool), e.actions) OBVIOUS
<1> HIDE DEF e
<1> QED BY <1>3, <1>4, <1>6, <1>7, <1>8, EntryStepKeeps DEF Grant

LEMMA RevokeKeeps ==
  ASSUME RulesInv, NEW n \in Names, NEW as \in SUBSET ActionIds \ {{}}, NEW tool,
         Revoke(n, as, tool)
  PROVE  RulesInv'
<1> DEFINE e == Revoked(acl[n], as, Index(tool))
<1>1. acl[n] \in AclEntry BY DEF RulesInv
<1>2. Derived(n, e, Index(tool)) BY DEF Revoke
<1>3. acl[n].actions = {a \in ActionIds : <<n, a>> \in given}
  BY DEF RulesInv, EntriesAreGiven
<1>4. /\ given' \subseteq Names \X ActionIds
      /\ \A m \in Names, a \in ActionIds :
           <<m, a>> \in given' <=> (<<m, a>> \in given /\ ~(m = n /\ a \in as))
  BY DEF Revoke, RulesInv
<1>5. /\ e \in AclEntry /\ e.actions = acl[n].actions \ as
      /\ (~e.there => e = NoEntry) /\ e.sinks = DeriveSinks(Index(tool), e.actions)
  <2>1. CASE acl[n].actions \subseteq as
    <3>1. e = NoEntry BY <2>1 DEF Revoked
    <3>2. /\ NoEntry \in AclEntry /\ NoEntry.actions = {} /\ NoEntry.sinks = {}
          /\ ~NoEntry.there
      BY DEF NoEntry, AclEntry
    <3>3. DeriveSinks(Index(tool), {}) = {} BY DEF DeriveSinks
    <3> QED BY <2>1, <3>1, <3>2, <3>3
  <2>2. CASE ~(acl[n].actions \subseteq as)
    <3>1. DeriveSinks(Index(tool), acl[n].actions \ as) \subseteq Sinks
      BY DerivedAreSinks, IndexIsIndex
    <3>2. e = [acl[n] EXCEPT !.actions = acl[n].actions \ as,
                             !.sinks = DeriveSinks(Index(tool), acl[n].actions \ as)]
      BY <1>1, <2>2 DEF Revoked, AclEntry
    <3>3. /\ e \in AclEntry /\ e.there = acl[n].there /\ e.actions = acl[n].actions \ as
          /\ e.sinks = DeriveSinks(Index(tool), acl[n].actions \ as)
      <4> HIDE DEF e
      <4> QED BY <1>1, <3>1, <3>2 DEF AclEntry
    <3>4. acl[n].there BY DEF Revoke
    <3> QED BY <3>3, <3>4
  <2> QED BY <2>1, <2>2
<1> HIDE DEF e
<1>6. e.actions = {a \in ActionIds : <<n, a>> \in given'} BY <1>3, <1>4, <1>5
<1> QED BY <1>2, <1>4, <1>5, <1>6, EntryStepKeeps DEF Revoke

LEMMA AllowlistKeeps ==
  ASSUME RulesInv, NEW a \in ActionIds, NEW p \in Principals, Allowlist(a, p)
  PROVE  RulesInv'
<1>1. edits' \in 0..MaxEdits /\ answer' = NoAnswer
  BY RulesAssumption DEF RulesInv, Edit, Allowlist
<1>2. UNCHANGED <<acl, onDisk, manifests, outdated, given>> BY DEF Allowlist
<1>3. EntriesAreGiven' /\ GoneIsEmpty' /\ SinksAreDerived'
  BY <1>2 DEF RulesInv, EntriesAreGiven, GoneIsEmpty, SinksAreDerived, DeriveSinks
<1>4. AnswerIsCurrent' BY <1>1 DEF AnswerIsCurrent, NoAnswer
<1>5. allowlist' \subseteq ActionIds \X Principals BY DEF Allowlist, RulesInv
<1> QED BY <1>1, <1>2, <1>3, <1>4, <1>5 DEF RulesInv

(* Files of the directory change; nothing else does.                            *)
LEMMA DirectoryKeeps ==
  ASSUME RulesInv, Edit, UNCHANGED <<acl, allowlist, manifests, outdated, given>>,
         DOMAIN onDisk' \subseteq ActionIds, onDisk' \in [DOMAIN onDisk' -> SUBSET Sinks]
  PROVE  RulesInv'
<1>1. edits' \in 0..MaxEdits /\ answer' = NoAnswer
  BY RulesAssumption DEF RulesInv, Edit
<1>2. EntriesAreGiven' /\ GoneIsEmpty' /\ SinksAreDerived'
  BY DEF RulesInv, EntriesAreGiven, GoneIsEmpty, SinksAreDerived, DeriveSinks
<1>3. AnswerIsCurrent' BY <1>1 DEF AnswerIsCurrent, NoAnswer
<1> QED BY <1>1, <1>2, <1>3 DEF RulesInv

LEMMA ManifestKeeps ==
  ASSUME RulesInv, NEW a \in ActionIds,
         DeleteManifest(a) \/ \E sinks \in SUBSET Sinks : EditManifest(a, sinks)
  PROVE  RulesInv'
<1>1. /\ Edit /\ UNCHANGED <<acl, allowlist, manifests, outdated, given>>
      /\ DOMAIN onDisk' \subseteq ActionIds /\ onDisk' \in [DOMAIN onDisk' -> SUBSET Sinks]
  <2>1. DOMAIN onDisk \subseteq ActionIds /\ onDisk \in [DOMAIN onDisk -> SUBSET Sinks]
    BY DEF RulesInv
  <2>2. CASE DeleteManifest(a) BY <2>1, <2>2 DEF DeleteManifest
  <2>3. ASSUME NEW sinks \in SUBSET Sinks, EditManifest(a, sinks)
        PROVE  /\ Edit /\ UNCHANGED <<acl, allowlist, manifests, outdated, given>>
               /\ DOMAIN onDisk' \subseteq ActionIds
               /\ onDisk' \in [DOMAIN onDisk' -> SUBSET Sinks]
    BY <2>1, <2>3 DEF EditManifest
  <2> QED BY <2>2, <2>3
<1> QED BY <1>1, DirectoryKeeps

LEMMA ReloadKeeps ==
  ASSUME RulesInv, ReloadRegistry PROVE RulesInv'
<1>1. edits' \in 0..MaxEdits /\ answer' = NoAnswer
  BY RulesAssumption DEF RulesInv, Edit, ReloadRegistry
<1>2. UNCHANGED <<acl, allowlist, onDisk, given>> /\ outdated' \subseteq Names
  BY DEF ReloadRegistry, RulesInv
<1>3. manifests' \in [ActionIds -> SUBSET Sinks]
  BY RulesAssumption DEF ReloadRegistry, RulesInv
<1>4. EntriesAreGiven' /\ GoneIsEmpty'
  BY <1>2 DEF RulesInv, EntriesAreGiven, GoneIsEmpty
<1>5. SinksAreDerived'
  <2> SUFFICES ASSUME NEW n \in Names, n \notin outdated'
               PROVE  acl[n].sinks = DeriveSinks(manifests', acl[n].actions)
    BY <1>2 DEF SinksAreDerived, DeriveSinks
  <2>1. acl[n].actions \in SUBSET ActionIds BY DEF RulesInv, AclEntry
  <2>2. n \notin outdated /\ \A a \in acl[n].actions : manifests'[a] = manifests[a]
    BY DEF ReloadRegistry
  <2>3. acl[n].sinks = DeriveSinks(manifests, acl[n].actions)
    BY <2>2 DEF RulesInv, SinksAreDerived
  <2>4. DOMAIN manifests = ActionIds /\ DOMAIN manifests' = ActionIds BY <1>3 DEF RulesInv
  <2>5. DeriveSinks(manifests, acl[n].actions) = DeriveSinks(manifests', acl[n].actions)
    BY <2>1, <2>2, <2>4 DEF DeriveSinks
  <2> QED BY <2>3, <2>5
<1>6. AnswerIsCurrent' BY <1>1 DEF AnswerIsCurrent, NoAnswer
<1> QED BY <1>1, <1>2, <1>3, <1>4, <1>5, <1>6 DEF RulesInv

(* An outcome depends on the documents alone.                                   *)
LEMMA OutcomeStays ==
  ASSUME NEW i, NEW fault, UNCHANGED <<acl, allowlist, manifests>>
  PROVE  Outcome(i, fault)' = Outcome(i, fault)
BY DEF Outcome, OpaReply, InterpretDecision, Decision, Denial, Permission, Refused,
   PrincipalHasTool, PrincipalAllowedSinks, DisallowedSinks, NeedsApproval,
   HighRisk, FsPathSensitive, OptionalFields, Wildcard

LEMMA EvaluateKeeps ==
  ASSUME RulesInv, NEW i \in Inputs, NEW fault \in BackendFaults \cup {"none"}, Evaluate(i, fault)
  PROVE  RulesInv'
<1>1. UNCHANGED <<acl, allowlist, onDisk, manifests, outdated, given, edits>> BY DEF Evaluate
<1>2. Outcome(i, fault)' = Outcome(i, fault)
  BY <1>1, OutcomeStays
<1>3. AnswerIsCurrent' BY <1>2 DEF AnswerIsCurrent, Evaluate
<1>4. EntriesAreGiven' /\ GoneIsEmpty' /\ SinksAreDerived'
  BY <1>1 DEF RulesInv, EntriesAreGiven, GoneIsEmpty, SinksAreDerived, DeriveSinks
<1> QED BY <1>1, <1>3, <1>4 DEF RulesInv

LEMMA InitialRules ==
  ASSUME RulesInit PROVE RulesInv
<1>1. PICK preset \in Presets :
        /\ acl = BuildDataJson(preset) /\ allowlist = {} /\ manifests = DeclaredSinks
        /\ onDisk = [a \in Extracted |-> DeclaredSinks[a]]
        /\ outdated = {} /\ answer = NoAnswer /\ edits = 0
        /\ given = {pair \in Names \X ActionIds : pair[2] \in acl[pair[1]].actions}
  BY DEF RulesInit
<1>2. \A n : PresetActions(preset, n) \subseteq ActionIds BY RulesAssumption DEF PresetActions
<1>3. ASSUME NEW n \in Names
      PROVE  /\ acl[n] \in AclEntry /\ (~acl[n].there => acl[n] = NoEntry)
             /\ acl[n].sinks = DeriveSinks(manifests, acl[n].actions)
  <2> DEFINE as == PresetActions(preset, n)
             e == [there |-> TRUE, actions |-> as, sinks |-> DeriveSinks(manifests, as),
                   inherits |-> n # Wildcard]
  <2>1. as \subseteq ActionIds BY <1>2
  <2> HIDE DEF as
  <2>2. DeriveSinks(manifests, as) \subseteq Sinks
    BY <1>1, RulesAssumption, DerivedAreSinks
  <2>5. DeriveSinks(manifests, as) = UNION {DeclaredSinks[a] : a \in as}
    BY <1>1, <2>1, RulesAssumption DEF DeriveSinks
  <2>3. CASE n \in Agents \cup {Wildcard}
    <3>1. acl[n] = e BY <1>1, <2>3, <2>5 DEF BuildDataJson, as
    <3>2. e \in AclEntry /\ e.there /\ e.sinks = DeriveSinks(manifests, e.actions)
      BY <2>1, <2>2 DEF AclEntry
    <3> QED BY <3>1, <3>2
  <2>4. CASE n \notin Agents \cup {Wildcard}
    <3>1. acl[n] = NoEntry BY <1>1, <2>4 DEF BuildDataJson
    <3>2. NoEntry \in AclEntry /\ NoEntry.sinks = {} /\ NoEntry.actions = {}
      BY DEF NoEntry, AclEntry
    <3>3. DeriveSinks(manifests, {}) = {} BY DEF DeriveSinks
    <3> QED BY <3>1, <3>2, <3>3
  <2> QED BY <2>3, <2>4
<1>4. acl = [n \in Names |-> acl[n]] BY <1>1 DEF BuildDataJson
<1>5. acl \in [Names -> AclEntry] BY <1>3, <1>4
<1>6. EntriesAreGiven
  <2> SUFFICES ASSUME NEW n \in Names
               PROVE  acl[n].actions = {a \in ActionIds : <<n, a>> \in given}
    BY DEF EntriesAreGiven
  <2>1. acl[n].actions \subseteq ActionIds BY <1>3 DEF AclEntry
  <2>2. \A a \in ActionIds : <<n, a>> \in given <=> a \in acl[n].actions BY <1>1
  <2> QED BY <2>1, <2>2
<1>7. given \subseteq Names \X ActionIds BY <1>1
<1>8. DOMAIN onDisk \subseteq ActionIds /\ onDisk \in [DOMAIN onDisk -> SUBSET Sinks]
  BY <1>1, RulesAssumption
<1> QED BY <1>1, <1>3, <1>5, <1>6, <1>7, <1>8, RulesAssumption
  DEF RulesInv, GoneIsEmpty, SinksAreDerived, AnswerIsCurrent

(* The documents agree with what the operators said, after every edit.          *)
THEOREM RulesInvariant == RulesSpec => []RulesInv
<1>1. RulesInit => RulesInv BY InitialRules
<1>2. RulesInv /\ [RulesNext]_rulesVars => RulesInv'
  <2> SUFFICES ASSUME RulesInv, [RulesNext]_rulesVars PROVE RulesInv' OBVIOUS
  <2>1. CASE UNCHANGED rulesVars
    <3>1. UNCHANGED <<acl, allowlist, onDisk, manifests, outdated, given, answer, edits>>
      BY <2>1 DEF rulesVars
    <3>2. AnswerIsCurrent'
      BY <3>1, OutcomeStays DEF RulesInv, AnswerIsCurrent, NoAnswer
    <3>3. EntriesAreGiven' /\ GoneIsEmpty' /\ SinksAreDerived'
      BY <3>1 DEF RulesInv, EntriesAreGiven, GoneIsEmpty, SinksAreDerived, DeriveSinks
    <3> QED BY <3>1, <3>2, <3>3 DEF RulesInv
  <2>2. ASSUME NEW n \in Names, NEW as \in SUBSET ActionIds \ {{}}, NEW tool \in {"api", "cli"},
               Grant(n, as, tool) \/ Revoke(n, as, tool)
        PROVE RulesInv'
    BY <2>2, GrantKeeps, RevokeKeeps
  <2>3. ASSUME NEW a \in ActionIds, NEW p \in Principals, Allowlist(a, p) PROVE RulesInv'
    BY <2>3, AllowlistKeeps
  <2>4. ASSUME NEW a \in ActionIds,
               DeleteManifest(a) \/ \E sinks \in SUBSET Sinks : EditManifest(a, sinks)
        PROVE RulesInv'
    BY <2>4, ManifestKeeps
  <2>6. CASE ReloadRegistry BY <2>6, ReloadKeeps
  <2>5. ASSUME NEW i \in Inputs, NEW fault \in BackendFaults \cup {"none"}, Evaluate(i, fault)
        PROVE RulesInv'
    BY <2>5, EvaluateKeeps
  <2> QED BY <2>1, <2>2, <2>3, <2>4, <2>5, <2>6 DEF RulesNext
<1> QED BY <1>1, <1>2, PTL DEF RulesSpec

--------------------------------------------------------------------------------
(* What a decision that permits says of its input, in one place.                *)
LEMMA PermissionMeans ==
  ASSUME NEW i \in PolicyInput, Decision(i).allow
  PROVE  /\ Decision(i) = Permission(i, NeedsApproval(i) /\ <<i.action, i.principal>> \notin allowlist)
         /\ i.trusted /\ PrincipalHasTool(i.principal, i.action)
         /\ i.required \cup {"tools:call"} \subseteq i.scopes
         /\ i.calls > 0 /\ DisallowedSinks(i) = {}
<1>1. \A reason : ~Denial(reason).allow BY DEF Denial
<1>2. i.calls \in Nat BY DEF PolicyInput
<1> QED BY <1>1, <1>2 DEF Decision

(* An entry in order gives its principal exactly the sinks of what it may call, *)
(* itself or through the wildcard (_principal_allowed_sinks, derive_sinks).     *)
LEMMA AllowedSinksAreDerived ==
  ASSUME RulesInv, NEW p \in Principals, {p, Wildcard} \cap outdated = {}
  PROVE  PrincipalAllowedSinks(p) = DeriveSinks(manifests, {a \in ActionIds : PrincipalHasTool(p, a)})
<1>0. p \in Names /\ Wildcard \in Names BY DEF Names
<1>1. /\ acl[p].sinks = DeriveSinks(manifests, acl[p].actions)
      /\ acl[Wildcard].sinks = DeriveSinks(manifests, acl[Wildcard].actions)
  BY <1>0 DEF RulesInv, SinksAreDerived
<1>2. acl[p].actions \subseteq ActionIds /\ acl[Wildcard].actions \subseteq ActionIds
  BY <1>0 DEF RulesInv, AclEntry
<1>3. ~acl[p].there => acl[p].actions = {} /\ ~acl[p].inherits
  BY <1>0 DEF RulesInv, GoneIsEmpty, NoEntry
<1>4. CASE ~acl[p].there
  <2>1. {a \in ActionIds : PrincipalHasTool(p, a)} = acl[Wildcard].actions
    BY <1>2, <1>3, <1>4 DEF PrincipalHasTool
  <2> QED BY <1>1, <1>4, <2>1 DEF PrincipalAllowedSinks
<1>5. CASE acl[p].there /\ acl[p].inherits
  <2>1. {a \in ActionIds : PrincipalHasTool(p, a)} = acl[p].actions \cup acl[Wildcard].actions
    BY <1>2, <1>5 DEF PrincipalHasTool
  <2>2. DeriveSinks(manifests, acl[p].actions \cup acl[Wildcard].actions)
          = DeriveSinks(manifests, acl[p].actions) \cup DeriveSinks(manifests, acl[Wildcard].actions)
    BY DEF DeriveSinks
  <2> QED BY <1>1, <1>5, <2>1, <2>2 DEF PrincipalAllowedSinks
<1>6. CASE acl[p].there /\ ~acl[p].inherits
  <2>1. {a \in ActionIds : PrincipalHasTool(p, a)} = acl[p].actions
    BY <1>2, <1>6 DEF PrincipalHasTool
  <2> QED BY <1>1, <1>6, <2>1 DEF PrincipalAllowedSinks
<1> QED BY <1>4, <1>5, <1>6

(* An outcome that permits stems from a decision that does, and carries no more *)
(* than it (interpret_decision).                                                *)
LEMMA OutcomeMeans ==
  ASSUME NEW i \in PolicyInput, NEW fault, NEW o, o = Outcome(i, fault)
  PROVE  /\ o.input = i /\ o.fault = fault
         /\ o.kind \in PolicyDecision \cup PolicyError
         /\ o.kind \in {"allow", "pending"} =>
              /\ OpaReply(i, fault).error = "none" /\ Decision(i).allow
              /\ o.kind = "pending" <=> Decision(i).held
              /\ o.sinks \subseteq PrincipalAllowedSinks(i.principal)
              /\ o.kind = "pending" => o.sinks = PrincipalAllowedSinks(i.principal)
              /\ o.calls <= i.calls
<1> DEFINE reply == OpaReply(i, fault)
           out == IF reply.error # "none" THEN [Refused EXCEPT !.kind = reply.error]
                  ELSE InterpretDecision(i, reply)
<1>1. /\ reply.error \in PolicyError \cup {"none"} /\ reply.result = Decision(i)
      /\ reply.missing = {fault} \cap OptionalFields
  BY DEF OpaReply, PolicyError
<1>2. /\ o.input = i /\ o.fault = fault /\ o.kind = out.kind /\ o.sinks = out.sinks
      /\ o.calls = out.calls
  BY DEF Outcome
<1>3. CASE reply.error # "none"
  <2>1. out.kind = reply.error BY <1>3 DEF Refused
  <2> QED BY <1>1, <1>2, <1>3, <2>1 DEF PolicyError, PolicyDecision
<1>4. CASE reply.error = "none"
  <2>1. out = InterpretDecision(i, reply) BY <1>4
  <2> HIDE DEF out, reply
  <2>2. CASE ~Decision(i).allow
    <3>1. out = Refused BY <1>1, <2>1, <2>2 DEF InterpretDecision
    <3> QED BY <1>2, <3>1 DEF Refused, PolicyDecision
  <2>3. CASE Decision(i).allow
    <3>1. PICK held \in BOOLEAN : Decision(i) = Permission(i, held)
      BY <2>3, PermissionMeans
    <3>2. /\ Decision(i).held = held /\ Decision(i).calls = i.calls - 1
          /\ Decision(i).sinks = PrincipalAllowedSinks(i.principal)
      BY <3>1 DEF Permission
    <3>3. i.calls \in Nat /\ i.calls > 0 BY <2>3, PermissionMeans DEF PolicyInput
    <3>4. CASE Decision(i).held /\ reply.missing \cap {"sinks", "secrets", "egress"} # {}
      <4>1. out = Refused BY <1>1, <2>1, <2>3, <3>4 DEF InterpretDecision
      <4> QED BY <1>2, <4>1 DEF Refused, PolicyDecision
    <3>5. CASE ~(Decision(i).held /\ reply.missing \cap {"sinks", "secrets", "egress"} # {})
      <4>1. out = [kind |-> IF Decision(i).held THEN "pending" ELSE "allow",
                   sinks |-> IF "sinks" \in reply.missing THEN {} ELSE Decision(i).sinks,
                   calls |-> IF "calls" \notin reply.missing THEN Decision(i).calls
                             ELSE IF Decision(i).held THEN i.calls ELSE 0]
        BY <1>1, <2>1, <2>3, <3>5 DEF InterpretDecision
      <4>2. /\ out.kind = (IF held THEN "pending" ELSE "allow")
            /\ out.sinks = (IF "sinks" \in reply.missing THEN {}
                            ELSE PrincipalAllowedSinks(i.principal))
            /\ out.calls \in {i.calls - 1, i.calls, 0}
        BY <3>2, <4>1
      <4>3. held => "sinks" \notin reply.missing BY <3>2, <3>5
      <4>4. out.calls <= i.calls BY <3>3, <4>2
      <4> QED BY <1>2, <1>4, <2>3, <3>2, <4>2, <4>3, <4>4 DEF PolicyDecision, reply
    <3> QED BY <3>4, <3>5
  <2> QED BY <2>2, <2>3
<1> QED BY <1>3, <1>4

(* Permissions were given and not taken back, the allowlist skips the approval  *)
(* and nothing else, sinks follow actions, grants can be used, failures refuse, *)
(* and the list an operator is shown is what a principal holds, whatever the    *)
(* sequence of grants, revocations and reloads and however the engine fails.    *)
THEOREM RulesAreSafe == RulesSpec => []RulesSafe
<1>1. RulesInv => RulesSafe
  <2> SUFFICES ASSUME RulesInv PROVE RulesSafe OBVIOUS
  <2>0. NoAnswer.kind = "none" BY DEF NoAnswer
  <2>1. ASSUME answer # NoAnswer
        PROVE  /\ answer.input \in PolicyInput
               /\ answer.kind \in PolicyDecision \cup PolicyError
               /\ Permitted =>
                    /\ OpaReply(answer.input, answer.fault).error = "none"
                    /\ Decision(answer.input).allow
                    /\ answer.kind = "pending" <=> Decision(answer.input).held
                    /\ answer.sinks \subseteq PrincipalAllowedSinks(answer.input.principal)
                    /\ answer.kind = "pending" =>
                         answer.sinks = PrincipalAllowedSinks(answer.input.principal)
                    /\ answer.calls <= answer.input.calls
    <3>1. PICK i \in Inputs, fault \in BackendFaults \cup {"none"} : answer = Outcome(i, fault)
      BY <2>1 DEF RulesInv, AnswerIsCurrent
    <3>2. i \in PolicyInput BY RulesAssumption
    <3> QED BY <3>1, <3>2, OutcomeMeans DEF Permitted
  <2>2. Answered => answer # NoAnswer BY <2>0 DEF Answered
  <2>3. RulesTypeOK
    <3>1. answer.kind \in PolicyDecision \cup PolicyError \cup {"none"} BY <2>0, <2>1
    <3> QED BY <2>1, <3>1 DEF RulesInv, RulesTypeOK
  <2>4. ASSUME NEW p \in Principals, NEW a \in ActionIds, PrincipalHasTool(p, a)
        PROVE  \/ <<p, a>> \in given
               \/ <<Wildcard, a>> \in given /\ (~acl[p].there \/ acl[p].inherits)
    BY <2>4 DEF RulesInv, EntriesAreGiven, PrincipalHasTool, Names
  <2>5. ASSUME Answered, Permitted
        PROVE  LET i == answer.input IN
               /\ i \in PolicyInput /\ i.principal \in Principals /\ i.action \in ActionIds
               /\ Decision(i).held = (NeedsApproval(i) /\ <<i.action, i.principal>> \notin allowlist)
               /\ i.trusted /\ PrincipalHasTool(i.principal, i.action)
               /\ i.required \cup {"tools:call"} \subseteq i.scopes
               /\ i.calls > 0 /\ DisallowedSinks(i) = {}
    <3>1. PICK i : i = answer.input OBVIOUS
    <3>2. i \in PolicyInput /\ Decision(i).allow BY <2>1, <2>2, <2>5, <3>1
    <3>3. Decision(i).held = (NeedsApproval(i) /\ <<i.action, i.principal>> \notin allowlist)
      BY <3>2, PermissionMeans DEF Permission
    <3>4. i.principal \in Principals /\ i.action \in ActionIds BY <3>2 DEF PolicyInput
    <3> QED BY <3>1, <3>2, <3>3, <3>4, PermissionMeans
  <2>6. PermittedWasGiven BY <2>4, <2>5 DEF PermittedWasGiven
  <2>7. AllowlistOnlySkipsApproval
    BY <2>1, <2>2, <2>5 DEF AllowlistOnlySkipsApproval
  <2>8. SinksFollowActions
    <3> SUFFICES ASSUME Answered, Permitted PROVE
          LET p == answer.input.principal
          IN  /\ ({p, Wildcard} \cap outdated = {} =>
                   answer.sinks \subseteq DeriveSinks(manifests, {a \in ActionIds : PrincipalHasTool(p, a)}))
              /\ (answer.kind = "pending" => manifests[answer.input.action] \subseteq answer.sinks)
      BY DEF SinksFollowActions
    <3>1. {answer.input.principal, Wildcard} \cap outdated = {} =>
             PrincipalAllowedSinks(answer.input.principal)
               = DeriveSinks(manifests, {a \in ActionIds : PrincipalHasTool(answer.input.principal, a)})
      BY <2>5, AllowedSinksAreDerived
    <3>2. manifests[answer.input.action] \subseteq PrincipalAllowedSinks(answer.input.principal)
      BY <2>5 DEF DisallowedSinks
    <3> QED BY <2>1, <2>2, <3>1, <3>2
  <2>9. GrantedIsCallable
    <3> SUFFICES ASSUME NEW i \in Inputs, Decision(i).allow = FALSE, Decision(i).reason = "sink",
                        {i.principal, Wildcard} \cap outdated = {}
                 PROVE  FALSE
      BY DEF GrantedIsCallable
    <3>1. i.principal \in Principals /\ i.action \in ActionIds BY RulesAssumption DEF PolicyInput
    <3>2. PrincipalHasTool(i.principal, i.action) /\ DisallowedSinks(i) # {}
      BY DEF Decision, Denial, Permission
    <3>3. PrincipalAllowedSinks(i.principal)
            = DeriveSinks(manifests, {a \in ActionIds : PrincipalHasTool(i.principal, a)})
      BY <3>1, AllowedSinksAreDerived
    <3>4. manifests[i.action] \subseteq
            DeriveSinks(manifests, {a \in ActionIds : PrincipalHasTool(i.principal, a)})
      <4>1. DOMAIN manifests = ActionIds BY DEF RulesInv
      <4> QED BY <3>1, <3>2, <4>1 DEF DeriveSinks
    <3> QED BY <3>2, <3>3, <3>4 DEF DisallowedSinks
  <2>10. FailuresRefuse BY <2>1, <2>2 DEF FailuresRefuse
  <2>11. ShownIsHeld
    <3> SUFFICES ASSUME NEW p \in Principals
                 PROVE  /\ \A a \in RunShow(p) : PrincipalHasTool(p, a) /\ <<p, a>> \in given
                        /\ p \in DOMAIN RunList =>
                             RunList[p] = Cardinality({a \in ActionIds : <<p, a>> \in given})
      BY DEF ShownIsHeld
    <3>1. acl[p].actions = {a \in ActionIds : <<p, a>> \in given}
      BY DEF RulesInv, EntriesAreGiven, Names
    <3>2. p \in DOMAIN RunList => RunList[p] = Cardinality(acl[p].actions) BY DEF RunList
    <3> QED BY <3>1, <3>2 DEF RunShow, ShowPrincipal, PrincipalHasTool
  <2>12. TestEvaluatorAgrees
    <3> SUFFICES ASSUME NEW i \in Inputs
                 PROVE  /\ InMemoryDefault(i) = "denied" => ~Decision(i).allow
                        /\ (InMemoryDefault(i) = "pending" /\ Decision(i).allow) =>
                             Decision(i).held \/ <<i.action, i.principal>> \in allowlist
      BY DEF TestEvaluatorAgrees
    <3>1. i \in PolicyInput BY RulesAssumption
    <3>2. Decision(i).allow =>
            /\ i.trusted /\ i.required \subseteq i.scopes
            /\ Decision(i).held = (NeedsApproval(i) /\ <<i.action, i.principal>> \notin allowlist)
      BY <3>1, PermissionMeans DEF Permission
    <3> QED BY <3>2 DEF InMemoryDefault, NeedsApproval
  <2> QED BY <2>3, <2>6, <2>7, <2>8, <2>9, <2>10, <2>11, <2>12 DEF RulesSafe
<1> QED BY <1>1, RulesInvariant, PTL
--------------------------------------------------------------------------------
(* Authentication *)

Token == [kind : {"lease", "api_key"}, n : Nat]

Lease == [jkt : ClientKeys, by : 1..MaxLives, conn : Conns,
          principal : {Identify(c).principal : c \in Conns},
          scopes : {IntersectScopes(wish, Identify(c).max) : wish \in ScopeWishes, c \in Conns},
          exp : Nat]

Proof == [by : ClientKeys, header : Headers, route : Routes, url : Urls, ath : Token, iat : Nat]

CacheEntry == [jkt : ClientKeys, key : ClientKeys]

Flight == [at : {"keyed", "proven"}, conn : Conns, route : Routes, token : Token,
           proof : Nat, hit : BOOLEAN, key : ClientKeys, since : Nat]

Admission == [kind : {"agent", "operator"}, proof : Nat, token : Token, route : Routes,
              since : Nat, by : 1..MaxLives, via : {c.via : c \in Conns}]

(* The shapes of the state, in full.                                            *)
AuthTypes ==
  /\ authTime \in 0..MaxTime /\ issuerKey \in 1..MaxLives
  /\ open \subseteq Conns /\ replayStore \in {"memory", "up", "down"}
  /\ leases \in Seq(Lease) /\ Len(leases) <= MaxLeases
  /\ proofs \in Seq(Proof) /\ Len(proofs) <= MaxProofs
  /\ keyCache \in Seq(CacheEntry)
  /\ jtis \subseteq [proof : Nat, until : Nat]
  /\ admitted \in Seq(Admission)
  /\ call = [r \in Callers |-> call[r]]

(* A token the gate knows: a lease it issued, or an operator's key.             *)
Known(token) ==
  /\ token.kind = "lease" => token.n \in 1..Len(leases)
  /\ token.kind = "api_key" => token.n \in 1..Len(Operators)

(* The credentials that go with a handler: an agent's lease of the life `by`    *)
(* that had not expired at `since`, or an operator's key off the client socket. *)
Credentials(kind, token, via, since, by) ==
  /\ kind = "agent" => /\ token.kind = "lease" /\ leases[token.n].by = by
                       /\ since <= leases[token.n].exp
  /\ kind = "operator" => token.kind = "api_key" /\ via # "client"

(* The holder of the token's key signed proof p for this token and this route.  *)
Signed(p, token, route) ==
  proofs[p].by = BoundKey(token) /\ proofs[p].ath = token /\ proofs[p].route = route

(* A request between its headers and the replay cache.                          *)
InFlight(q) ==
  /\ q \in Flight /\ Known(q.token) /\ q.proof \in 1..Len(proofs)
  /\ q.key = BoundKey(q.token)
  /\ q.since <= authTime /\ authTime <= q.since + ClaimWithin
  /\ HandlerAuth(q.conn.via, q.route.what) \in {"agent", "operator"}
  /\ Credentials(HandlerAuth(q.conn.via, q.route.what), q.token, q.conn.via, q.since, issuerKey)
  /\ q.at = "proven" =>
       /\ Signed(q.proof, q.token, q.route)
       /\ proofs[q.proof].iat <= authTime + Skew
       /\ q.since <= proofs[q.proof].iat + MaxAge

CallOK(q) ==
  /\ q.at \in {"idle", "keyed", "proven", "done"}
  /\ q.at \in {"keyed", "proven"} => InFlight(q)

AdmissionOK(a) ==
  /\ Known(a.token) /\ a.proof \in 1..Len(proofs) /\ a.by <= issuerKey
  /\ Signed(a.proof, a.token, a.route)
  /\ Credentials(a.kind, a.token, a.via, a.since, a.by)

(* The replay cache remembers proof p for as long as it would verify, and as    *)
(* long again as a verified request may take to reach the cache.                *)
Remembered(p) ==
  \E e \in jtis : e.proof = p /\ proofs[p].iat + ReplayTtl <= e.until + Skew

(* What this life admitted is remembered, and no life admits a proof twice.     *)
LifeRemembers ==
  \A i \in 1..Len(admitted) : admitted[i].by = issuerKey => Remembered(admitted[i].proof)

OncePerLife ==
  \A i, j \in 1..Len(admitted) :
    admitted[i].proof = admitted[j].proof /\ admitted[i].by = admitted[j].by => i = j

(* The inductive invariant of authentication.                                   *)
AuthInv ==
  /\ AuthTypes /\ CacheIsSound /\ LeasesAreLocal
  /\ \A r \in Callers : CallOK(call[r])
  /\ \A i \in 1..Len(admitted) : AdmissionOK(admitted[i])
  /\ LifeRemembers /\ OncePerLife

(* Leases and proofs are only ever added.                                       *)
Grows ==
  /\ Len(leases) <= Len(leases') /\ \A n \in 1..Len(leases) : leases'[n] = leases[n]
  /\ Len(proofs) <= Len(proofs') /\ \A n \in 1..Len(proofs) : proofs'[n] = proofs[n]

--------------------------------------------------------------------------------
(* Sequences *)

LEMMA AppendFacts ==
  ASSUME NEW S, NEW s \in Seq(S), NEW e \in S, NEW t, t = Append(s, e)
  PROVE  /\ t \in Seq(S) /\ Len(t) = Len(s) + 1 /\ Len(s) \in Nat /\ t[Len(s) + 1] = e
         /\ \A i \in 1..Len(s) : t[i] = s[i]
BY AppendProperties, LenProperties

(* What RemoveAt leaves, and in which order.                                    *)
LEMMA RemoveAtFacts ==
  ASSUME NEW S, NEW s \in Seq(S), NEW i \in 1..Len(s), NEW t, t = RemoveAt(s, i)
  PROVE  /\ t \in Seq(S) /\ Len(t) = Len(s) - 1
         /\ \A k \in 1..Len(t) : t[k] = IF k < i THEN s[k] ELSE s[k + 1]
<1>0. Len(s) \in Nat /\ \A k \in 1..Len(s) : s[k] \in S BY LenProperties, ElementOfSeq
<1>1. PICK a : a = SubSeq(s, 1, i - 1) OBVIOUS
<1>2. PICK b : b = SubSeq(s, i + 1, Len(s)) OBVIOUS
<1>3. /\ a \in Seq(S) /\ Len(a) = i - 1
      /\ \A k \in 1..(i - 1) : a[k] = s[k]
  <2>1. 1 \in Int /\ i - 1 \in Int /\ \A k \in 1..(i - 1) : s[k] \in S BY <1>0
  <2>2. /\ SubSeq(s, 1, i - 1) \in Seq(S)
        /\ Len(SubSeq(s, 1, i - 1)) = IF 1 <= i - 1 THEN i - 1 - 1 + 1 ELSE 0
        /\ \A k \in 1..(i - 1 - 1 + 1) : SubSeq(s, 1, i - 1)[k] = s[1 + k - 1]
    BY <2>1, SubSeqProperties
  <2> QED BY <1>0, <1>1, <2>2
<1>4. /\ b \in Seq(S) /\ Len(b) = Len(s) - i
      /\ \A k \in 1..(Len(s) - i) : b[k] = s[i + k]
  <2>1. i + 1 \in Int /\ Len(s) \in Int /\ \A k \in (i + 1)..Len(s) : s[k] \in S BY <1>0
  <2>2. /\ SubSeq(s, i + 1, Len(s)) \in Seq(S)
        /\ Len(SubSeq(s, i + 1, Len(s))) = IF i + 1 <= Len(s) THEN Len(s) - (i + 1) + 1 ELSE 0
        /\ \A k \in 1..(Len(s) - (i + 1) + 1) : SubSeq(s, i + 1, Len(s))[k] = s[i + 1 + k - 1]
    BY <2>1, SubSeqProperties
  <2> QED BY <1>0, <1>2, <2>2
<1>5. t = a \o b BY <1>1, <1>2 DEF RemoveAt
<1>6. /\ t \in Seq(S) /\ Len(t) = Len(a) + Len(b)
      /\ \A k \in 1..(Len(a) + Len(b)) : t[k] = IF k <= Len(a) THEN a[k] ELSE b[k - Len(a)]
  <2>1. a \in Seq(S) /\ b \in Seq(S) BY <1>3, <1>4
  <2> QED BY ONLY <1>5, <2>1, ConcatProperties
<1> QED BY <1>0, <1>3, <1>4, <1>6

(* A new first element.                                                         *)
LEMMA ConsFacts ==
  ASSUME NEW S, NEW s \in Seq(S), NEW e \in S, NEW t, t = <<e>> \o s
  PROVE  /\ t \in Seq(S) /\ Len(t) = Len(s) + 1 /\ Len(s) \in Nat
         /\ \A k \in 1..Len(t) : t[k] = IF k = 1 THEN e ELSE s[k - 1]
<1>1. <<e>> \in Seq(S) /\ Len(<<e>>) = 1 /\ <<e>>[1] = e OBVIOUS
<1>2. /\ t \in Seq(S) /\ Len(t) = 1 + Len(s)
      /\ \A k \in 1..(1 + Len(s)) : t[k] = IF k <= 1 THEN <<e>>[k] ELSE s[k - 1]
  BY <1>1, ConcatProperties
<1>3. Len(s) \in Nat BY LenProperties
<1> QED BY <1>1, <1>2, <1>3

(* The first n elements.                                                        *)
LEMMA PrefixFacts ==
  ASSUME NEW S, NEW s \in Seq(S), NEW n \in 0..Len(s), NEW t, t = SubSeq(s, 1, n)
  PROVE  /\ t \in Seq(S) /\ Len(t) = n /\ \A k \in 1..n : t[k] = s[k]
<1>1. Len(s) \in Nat /\ \A k \in 1..Len(s) : s[k] \in S BY LenProperties, ElementOfSeq
<1>2. 1 \in Int /\ n \in Int /\ \A k \in 1..n : s[k] \in S BY <1>1
<1>3. /\ SubSeq(s, 1, n) \in Seq(S)
      /\ Len(SubSeq(s, 1, n)) = IF 1 <= n THEN n - 1 + 1 ELSE 0
      /\ \A k \in 1..(n - 1 + 1) : SubSeq(s, 1, n)[k] = s[1 + k - 1]
  BY <1>2, SubSeqProperties
<1> QED BY <1>1, <1>3
--------------------------------------------------------------------------------
(* The key cache *)

(* Under a sound cache, what is kept behind the front entry: some entries of    *)
(* the cache, in their order, none of them for jkt.                             *)
Behind(rest, jkt) ==
  /\ rest \in Seq(CacheEntry) /\ Len(rest) < KeyCapacity
  /\ \A k \in 1..Len(rest) : rest[k].jkt # jkt /\ rest[k].key = rest[k].jkt
  /\ \A k, l \in 1..Len(rest) : rest[k].jkt = rest[l].jkt => k = l

(* CacheIsSound, of any sequence of entries.                                    *)
SoundCache(t) ==
  /\ t \in Seq(CacheEntry) /\ Len(t) <= KeyCapacity
  /\ \A i, j \in 1..Len(t) : t[i].jkt = t[j].jkt => i = j
  /\ \A i \in 1..Len(t) : t[i].key = t[i].jkt

LEMMA FrontIsSound ==
  ASSUME NEW jkt \in ClientKeys, NEW e \in CacheEntry, e.jkt = jkt, e.key = jkt,
         NEW rest, Behind(rest, jkt), NEW t, t = <<e>> \o rest
  PROVE  SoundCache(t)
<1>1. /\ t \in Seq(CacheEntry) /\ Len(t) = Len(rest) + 1 /\ Len(rest) \in Nat
      /\ \A k \in 1..Len(t) : t[k] = IF k = 1 THEN e ELSE rest[k - 1]
  BY ConsFacts DEF Behind
<1>2. KeyCapacity \in Nat BY AuthAssumption
<1>3. \A k \in 1..Len(t) : k = 1 \/ (k - 1 \in 1..Len(rest) /\ t[k] = rest[k - 1])
  BY <1>1
<1>4. t[1] = e BY <1>1
<1>5. \A i \in 1..Len(t) : t[i].key = t[i].jkt BY <1>3, <1>4 DEF Behind
<1>6. ASSUME NEW i \in 1..Len(t), NEW j \in 1..Len(t), t[i].jkt = t[j].jkt PROVE i = j
  <2>1. CASE i = 1 /\ j = 1 BY <2>1
  <2>2. CASE i = 1 /\ j # 1 BY <1>3, <1>4, <1>6, <2>2 DEF Behind
  <2>3. CASE i # 1 /\ j = 1 BY <1>3, <1>4, <1>6, <2>3 DEF Behind
  <2>4. CASE i # 1 /\ j # 1
    <3>1. i - 1 \in 1..Len(rest) /\ j - 1 \in 1..Len(rest)
          /\ t[i] = rest[i - 1] /\ t[j] = rest[j - 1]
      BY <1>3, <2>4
    <3>2. i - 1 = j - 1 BY <1>6, <3>1 DEF Behind
    <3> QED BY <1>1, <3>2
  <2> QED BY <2>1, <2>2, <2>3, <2>4
<1> QED BY <1>1, <1>2, <1>5, <1>6 DEF Behind, SoundCache

(* Without its entry for jkt, a sound cache is fit to stand behind a new one.   *)
LEMMA RemovedIsBehind ==
  ASSUME keyCache \in Seq(CacheEntry), CacheIsSound, NEW jkt \in ClientKeys, Cached(jkt)
  PROVE  /\ KeySlot(jkt) \in 1..Len(keyCache) /\ keyCache[KeySlot(jkt)] \in CacheEntry
         /\ keyCache[KeySlot(jkt)].jkt = jkt /\ keyCache[KeySlot(jkt)].key = jkt
         /\ Behind(RemoveAt(keyCache, KeySlot(jkt)), jkt)
<1>0. Len(keyCache) \in Nat /\ KeyCapacity \in Nat BY LenProperties, AuthAssumption
<1>1. PICK i : i = KeySlot(jkt) OBVIOUS
<1>2. i \in 1..Len(keyCache) /\ keyCache[i].jkt = jkt
  <2>1. i \in CachedAt(jkt) BY <1>1 DEF KeySlot, Cached
  <2> QED BY <2>1 DEF CachedAt
<1>3. keyCache[i] \in CacheEntry /\ keyCache[i].key = jkt
  BY <1>2, ElementOfSeq DEF CacheIsSound
<1>4. PICK t : t = RemoveAt(keyCache, i) OBVIOUS
<1>5. /\ t \in Seq(CacheEntry) /\ Len(t) = Len(keyCache) - 1
      /\ \A k \in 1..Len(t) : t[k] = IF k < i THEN keyCache[k] ELSE keyCache[k + 1]
  BY <1>2, <1>4, RemoveAtFacts
<1>6. \A k \in 1..Len(t) : \E m \in 1..Len(keyCache) :
        /\ t[k] = keyCache[m] /\ m # i
        /\ k < i => m = k
        /\ ~(k < i) => m = k + 1
  <2> SUFFICES ASSUME NEW k \in 1..Len(t)
               PROVE  \E m \in 1..Len(keyCache) : /\ t[k] = keyCache[m] /\ m # i
                                                  /\ k < i => m = k
                                                  /\ ~(k < i) => m = k + 1
    OBVIOUS
  <2>1. CASE k < i
    <3>1. k \in 1..Len(keyCache) /\ t[k] = keyCache[k] /\ k # i BY <1>0, <1>2, <1>5, <2>1
    <3> QED BY <2>1, <3>1
  <2>2. CASE ~(k < i)
    <3>1. k + 1 \in 1..Len(keyCache) /\ t[k] = keyCache[k + 1] /\ k + 1 # i
      BY <1>0, <1>2, <1>5, <2>2
    <3> QED BY <2>2, <3>1
  <2> QED BY <2>1, <2>2
<1>7. \A k \in 1..Len(t) : t[k].jkt # jkt /\ t[k].key = t[k].jkt
  BY <1>2, <1>6 DEF CacheIsSound
<1>8. ASSUME NEW k \in 1..Len(t), NEW l \in 1..Len(t), t[k].jkt = t[l].jkt PROVE k = l
  <2>1. PICK m \in 1..Len(keyCache) : /\ t[k] = keyCache[m]
                                      /\ k < i => m = k
                                      /\ ~(k < i) => m = k + 1
    BY <1>6
  <2>2. PICK n \in 1..Len(keyCache) : /\ t[l] = keyCache[n]
                                      /\ l < i => n = l
                                      /\ ~(l < i) => n = l + 1
    BY <1>6
  <2>3. m = n BY <1>8, <2>1, <2>2 DEF CacheIsSound
  <2>4. k \in Int /\ l \in Int /\ i \in Int BY <1>0, <1>2, <1>5
  <2> QED BY <2>1, <2>2, <2>3, <2>4
<1>9. Len(t) < KeyCapacity BY <1>0, <1>5 DEF CacheIsSound
<1> QED BY <1>1, <1>2, <1>3, <1>4, <1>5, <1>7, <1>8, <1>9 DEF Behind

(* DPoPKeyCache::get keeps the cache sound.                                     *)
LEMMA PromoteIsSound ==
  ASSUME keyCache \in Seq(CacheEntry), CacheIsSound, NEW jkt \in ClientKeys, Cached(jkt),
         NEW t, t = Promote(jkt)
  PROVE  SoundCache(t)
<1>1. PICK e : e = keyCache[KeySlot(jkt)] OBVIOUS
<1>2. PICK rest : rest = RemoveAt(keyCache, KeySlot(jkt)) OBVIOUS
<1>3. e \in CacheEntry /\ e.jkt = jkt /\ e.key = jkt /\ Behind(rest, jkt)
  BY <1>1, <1>2, RemovedIsBehind
<1>4. t = <<e>> \o rest BY <1>1, <1>2 DEF Promote
<1> QED BY <1>3, <1>4, FrontIsSound

(* DPoPKeyCache::insert does, when the key is the one of the thumbprint.        *)
LEMMA InsertIsSound ==
  ASSUME keyCache \in Seq(CacheEntry), CacheIsSound, NEW jkt \in ClientKeys,
         NEW t, t = Insert(jkt, jkt)
  PROVE  SoundCache(t)
<1>0. Len(keyCache) \in Nat /\ KeyCapacity \in Nat \ {0} BY LenProperties, AuthAssumption
<1>1. PICK e : e = [jkt |-> jkt, key |-> jkt] OBVIOUS
<1>2. e \in CacheEntry /\ e.jkt = jkt /\ e.key = jkt BY <1>1 DEF CacheEntry
<1>3. CASE Cached(jkt)
  <2>1. PICK rest : rest = RemoveAt(keyCache, KeySlot(jkt)) OBVIOUS
  <2>2. Behind(rest, jkt) BY <1>3, <2>1, RemovedIsBehind
  <2>3. t = <<e>> \o rest BY <1>1, <1>3, <2>1 DEF Insert
  <2> QED BY <1>2, <2>2, <2>3, FrontIsSound
<1>4. CASE ~Cached(jkt)
  <2>0. \A k \in 1..Len(keyCache) : keyCache[k].jkt # jkt BY <1>4 DEF Cached, CachedAt
  <2>1. CASE Len(keyCache) < KeyCapacity
    <3>1. Behind(keyCache, jkt) BY <2>0, <2>1 DEF Behind, CacheIsSound
    <3>2. t = <<e>> \o keyCache BY <1>1, <1>4, <2>1 DEF Insert
    <3> QED BY <1>2, <3>1, <3>2, FrontIsSound
  <2>2. CASE ~(Len(keyCache) < KeyCapacity)
    <3>1. PICK rest : rest = SubSeq(keyCache, 1, KeyCapacity - 1) OBVIOUS
    <3>2. KeyCapacity - 1 \in 0..Len(keyCache) BY <1>0, <2>2
    <3>3. /\ rest \in Seq(CacheEntry) /\ Len(rest) = KeyCapacity - 1
          /\ \A k \in 1..(KeyCapacity - 1) : rest[k] = keyCache[k]
      BY <3>1, <3>2, PrefixFacts
    <3>4. \A k \in 1..Len(rest) : k \in 1..Len(keyCache) /\ rest[k] = keyCache[k]
      BY <1>0, <3>2, <3>3
    <3>5. Len(rest) < KeyCapacity BY <1>0, <3>3
    <3>6. Behind(rest, jkt) BY <2>0, <3>3, <3>4, <3>5 DEF Behind, CacheIsSound
    <3>7. t = <<e>> \o rest BY <1>1, <1>4, <2>2, <3>1 DEF Insert
    <3> QED BY <1>2, <3>6, <3>7, FrontIsSound
  <2> QED BY <2>1, <2>2
<1> QED BY <1>3, <1>4

--------------------------------------------------------------------------------
(* What grows does not take back *)

LEMMA KnownStays ==
  ASSUME AuthTypes, Grows, NEW token \in Token, Known(token)
  PROVE  /\ Known(token)' /\ BoundKey(token)' = BoundKey(token) /\ BoundKey(token) \in ClientKeys
         /\ token.kind = "lease" => leases'[token.n] = leases[token.n]
<1>0. Len(leases) \in Nat /\ Len(leases') >= Len(leases) BY LenProperties DEF AuthTypes, Grows
<1>1. CASE token.kind = "lease"
  <2>1. token.n \in 1..Len(leases) BY <1>1 DEF Known
  <2>2. leases'[token.n] = leases[token.n] BY <2>1 DEF Grows
  <2>3. leases[token.n] \in Lease BY <2>1, ElementOfSeq DEF AuthTypes
  <2>4. leases[token.n].jkt \in ClientKeys BY <2>3 DEF Lease
  <2>5. Len(leases') \in Int => token.n \in 1..Len(leases') BY <1>0, <2>1
  <2> QED BY <1>0, <1>1, <2>1, <2>2, <2>4, <2>5 DEF Known, BoundKey, Grows
<1>2. CASE token.kind = "api_key"
  <2>1. Operators[token.n] \in ClientKeys
    BY <1>2, AuthAssumption, ElementOfSeq DEF Known
  <2> QED BY <1>2, <2>1 DEF Known, BoundKey
<1> QED BY <1>1, <1>2 DEF Token
LEMMA CredentialsStay ==
  ASSUME AuthTypes, Grows, NEW token \in Token, Known(token), NEW kind, NEW via, NEW since, NEW by,
         Credentials(kind, token, via, since, by)
  PROVE  Credentials(kind, token, via, since, by)'
BY KnownStays DEF Credentials

LEMMA SignedStays ==
  ASSUME AuthTypes, Grows, NEW token \in Token, Known(token), NEW p \in 1..Len(proofs), NEW route,
         Signed(p, token, route)
  PROVE  Signed(p, token, route)' /\ p \in 1..Len(proofs') /\ proofs'[p] = proofs[p]
<1>1. proofs'[p] = proofs[p] BY DEF Grows
<1>2. Len(proofs) \in Nat /\ Len(proofs) <= Len(proofs') BY LenProperties DEF AuthTypes, Grows
<1> QED BY <1>1, <1>2, KnownStays DEF Signed

LEMMA AdmissionStays ==
  ASSUME AuthTypes, AuthTypes', Grows, issuerKey <= issuerKey', NEW a \in Admission, AdmissionOK(a)
  PROVE  AdmissionOK(a)'
<1>1. a.token \in Token /\ Known(a.token) /\ a.proof \in 1..Len(proofs) /\ a.by \in Nat
  BY DEF Admission, AdmissionOK
<1>2. Known(a.token)' BY <1>1, KnownStays
<1>3. Signed(a.proof, a.token, a.route)' /\ a.proof \in 1..Len(proofs')
  BY <1>1, SignedStays DEF AdmissionOK
<1>4. Credentials(a.kind, a.token, a.via, a.since, a.by)'
  BY <1>1, CredentialsStay DEF AdmissionOK
<1>5. a.by <= issuerKey' BY <1>1 DEF AdmissionOK, AuthTypes
<1> QED BY <1>2, <1>3, <1>4, <1>5 DEF AdmissionOK

LEMMA FlightStays ==
  ASSUME AuthTypes, AuthTypes', Grows, UNCHANGED <<issuerKey, authTime>>, NEW q, InFlight(q)
  PROVE  InFlight(q)'
<1>1. /\ q \in Flight /\ q.token \in Token /\ Known(q.token) /\ q.proof \in 1..Len(proofs)
      /\ q.key = BoundKey(q.token)
  BY DEF InFlight, Flight
<1>2. Known(q.token)' /\ BoundKey(q.token)' = BoundKey(q.token) BY <1>1, KnownStays
<1>3. q.proof \in 1..Len(proofs') /\ proofs'[q.proof] = proofs[q.proof]
  BY <1>1, LenProperties DEF Grows, AuthTypes
<1>4. Credentials(HandlerAuth(q.conn.via, q.route.what), q.token, q.conn.via, q.since, issuerKey)'
  <2>1. PICK by : by = issuerKey OBVIOUS
  <2>2. PICK kind : kind = HandlerAuth(q.conn.via, q.route.what) OBVIOUS
  <2>3. Credentials(kind, q.token, q.conn.via, q.since, by) BY <2>1, <2>2 DEF InFlight
  <2>4. Credentials(kind, q.token, q.conn.via, q.since, by)' BY <1>1, <2>3, CredentialsStay
  <2> QED BY <2>1, <2>2, <2>4 DEF Credentials
<1>5. ASSUME q.at = "proven" PROVE Signed(q.proof, q.token, q.route)'
  BY <1>1, <1>5, SignedStays DEF InFlight
<1> QED BY <1>1, <1>2, <1>3, <1>4, <1>5 DEF InFlight

LEMMA CallStays ==
  ASSUME AuthTypes, AuthTypes', Grows, UNCHANGED <<issuerKey, authTime>>, NEW q, CallOK(q)
  PROVE  CallOK(q)'
BY FlightStays DEF CallOK

LEMMA RememberedStays ==
  ASSUME AuthTypes, Grows, UNCHANGED jtis, NEW p \in 1..Len(proofs), Remembered(p)
  PROVE  Remembered(p)'
BY DEF Remembered, Grows

LEMMA NothingAdded == ASSUME AuthTypes, UNCHANGED <<leases, proofs>> PROVE Grows
BY LenProperties DEF AuthTypes, Grows

(* An operator's type facts, wherever one call changes.                         *)
LEMMA OneCall ==
  ASSUME AuthTypes, NEW r \in Callers, NEW q, call' = [call EXCEPT ![r] = q]
  PROVE  /\ call' = [s \in Callers |-> call'[s]]
         /\ call'[r] = q /\ \A s \in Callers : s # r => call'[s] = call[s]
BY DEF AuthTypes

(* A call in the next state is what it was found to be.                         *)
LEMMA CallBecomes ==
  ASSUME NEW r \in Callers, NEW q, call'[r] = q, CallOK(q)'
  PROVE  CallOK(call[r])'
BY DEF CallOK, InFlight, Known, Credentials, Signed, BoundKey

(* A step that admits nothing and leaves the life and the replay cache alone.   *)
LEMMA QuietStep ==
  ASSUME AuthInv, AuthTypes', CacheIsSound', LeasesAreLocal', Grows,
         UNCHANGED <<issuerKey, jtis, admitted>>, \A r \in Callers : CallOK(call[r])'
  PROVE  AuthInv'
<1>0. AuthTypes /\ issuerKey <= issuerKey' BY DEF AuthInv, AuthTypes
<1>1. \A i \in 1..Len(admitted) : admitted[i] \in Admission /\ AdmissionOK(admitted[i])
  BY ElementOfSeq DEF AuthInv, AuthTypes
<1>2. ASSUME NEW i \in 1..Len(admitted') PROVE AdmissionOK(admitted[i])'
  <2>1. PICK a : a = admitted[i] OBVIOUS
  <2>2. admitted'[i] = a /\ AdmissionOK(a)' BY <1>0, <1>1, <2>1, AdmissionStays
  <2> QED BY <2>2 DEF AdmissionOK, Known, Signed, Credentials, BoundKey
<1>3. LifeRemembers'
  <2> SUFFICES ASSUME NEW i \in 1..Len(admitted), admitted[i].by = issuerKey
               PROVE  \E e \in jtis : /\ e.proof = admitted[i].proof
                                      /\ proofs'[admitted[i].proof].iat + ReplayTtl <= e.until + Skew
    BY DEF LifeRemembers, Remembered
  <2>1. admitted[i].proof \in 1..Len(proofs) BY <1>1 DEF AdmissionOK
  <2>2. proofs'[admitted[i].proof] = proofs[admitted[i].proof] BY <2>1 DEF Grows
  <2> QED BY <2>2 DEF AuthInv, LifeRemembers, Remembered
<1>4. OncePerLife' BY DEF AuthInv, OncePerLife
<1> QED BY <1>2, <1>3, <1>4 DEF AuthInv

LEMMA SameCalls ==
  ASSUME AuthInv, AuthTypes', Grows, UNCHANGED <<issuerKey, authTime, call>>
  PROVE  \A r \in Callers : CallOK(call[r])'
<1> SUFFICES ASSUME NEW r \in Callers PROVE CallOK(call[r])' OBVIOUS
<1>1. PICK q : q = call[r] OBVIOUS
<1>2. CallOK(q)' BY <1>1, CallStays DEF AuthInv
<1> QED BY <1>1, <1>2, CallBecomes

LEMMA AcceptKeeps ==
  ASSUME AuthInv, NEW c \in Conns, Accept(c) PROVE AuthInv'
<1>1. AuthTypes /\ UNCHANGED <<authTime, issuerKey, leases, proofs, keyCache, jtis, replayStore,
                               call, admitted>>
  BY DEF AuthInv, Accept
<1>2. AuthTypes' BY <1>1 DEF AuthTypes, Accept
<1>3. CacheIsSound' /\ LeasesAreLocal' BY <1>1 DEF AuthInv, CacheIsSound, LeasesAreLocal
<1> QED BY <1>1, <1>2, <1>3, NothingAdded, SameCalls, QuietStep

LEMMA OutageKeeps ==
  ASSUME AuthInv, ReplayOutage PROVE AuthInv'
<1>1. AuthTypes /\ UNCHANGED <<authTime, issuerKey, open, leases, proofs, keyCache, jtis,
                               call, admitted>>
  BY DEF AuthInv, ReplayOutage
<1>2. AuthTypes' BY <1>1 DEF AuthTypes, ReplayOutage
<1>3. CacheIsSound' /\ LeasesAreLocal' BY <1>1 DEF AuthInv, CacheIsSound, LeasesAreLocal
<1> QED BY <1>1, <1>2, <1>3, NothingAdded, SameCalls, QuietStep

LEMMA StutterKeeps ==
  ASSUME AuthInv, UNCHANGED authVars PROVE AuthInv'
<1>1. AuthTypes /\ UNCHANGED <<authTime, issuerKey, open, leases, proofs, keyCache, jtis,
                               replayStore, call, admitted>>
  BY DEF AuthInv, authVars
<1>2. AuthTypes' BY <1>1 DEF AuthTypes
<1>3. CacheIsSound' /\ LeasesAreLocal' BY <1>1 DEF AuthInv, CacheIsSound, LeasesAreLocal
<1> QED BY <1>1, <1>2, <1>3, NothingAdded, SameCalls, QuietStep

(* Whoever gets a lease was identified by a socket's peer credentials, and the  *)
(* lease has no scope beyond the ones configured for it.                        *)
LEMMA LeaseIsLocal ==
  ASSUME NEW c \in Conns, Identify(c) # NoIdentity, NEW wish
  PROVE  /\ c.via # "tls"
         /\ c.uid \in DOMAIN Mapped => Identify(c).principal = Mapped[c.uid].principal
         /\ (c.uid \in DOMAIN Mapped /\ Mapped[c.uid].scopes # {})
              => IntersectScopes(wish, Identify(c).max) \subseteq Mapped[c.uid].scopes
<1>1. c.via # "tls" /\ c.uid # "none" BY DEF Identify, PeerCred
<1>2. c.uid \in DOMAIN Mapped =>
        Identify(c) = [principal |-> Mapped[c.uid].principal, max |-> Mapped[c.uid].scopes]
  BY <1>1 DEF Identify, PeerCred
<1> QED BY <1>1, <1>2 DEF IntersectScopes

(* The bounds, one by one.                                                      *)
LEMMA BoundsAreNumbers ==
  /\ MaxTime \in Nat /\ MaxAge \in Nat /\ Skew \in Nat /\ ReplayTtl \in Nat
  /\ LeaseTtl \in Nat /\ MaxLeases \in Nat /\ MaxProofs \in Nat
  /\ ClaimWithin \in Nat /\ ReplayTtl > MaxAge + Skew + ClaimWithin
BY AuthAssumption

LEMMA LeaseKeeps ==
  ASSUME AuthInv, NEW c \in Conns, NEW key \in ClientKeys, NEW wish \in ScopeWishes,
         GrantLease(c, key, wish)
  PROVE  AuthInv'
<1>0. AuthTypes /\ UNCHANGED <<authTime, issuerKey, open, proofs, keyCache, jtis, replayStore,
                               call, admitted>>
      /\ Identify(c) # NoIdentity /\ Len(leases) < MaxLeases
  BY DEF AuthInv, GrantLease
<1>1. PICK l : l = [jkt |-> key, by |-> issuerKey, conn |-> c, principal |-> Identify(c).principal,
                    scopes |-> IntersectScopes(wish, Identify(c).max), exp |-> authTime + LeaseTtl]
  OBVIOUS
<1>2. l \in Lease
  <2>1. authTime + LeaseTtl \in Nat
    <3>1. authTime \in Nat BY <1>0 DEF AuthTypes
    <3> QED BY <3>1, BoundsAreNumbers
  <2> QED BY <1>0, <1>1, <2>1 DEF Lease, AuthTypes
<1>3. leases' = Append(leases, l) BY <1>1 DEF GrantLease
<1>4. /\ leases' \in Seq(Lease) /\ Len(leases') = Len(leases) + 1 /\ Len(leases) \in Nat
      /\ leases'[Len(leases) + 1] = l
      /\ \A n \in 1..Len(leases) : leases'[n] = leases[n]
  BY <1>0, <1>2, <1>3, AppendFacts DEF AuthTypes
<1>5. Len(leases') <= MaxLeases BY <1>0, <1>4, AuthAssumption
<1>6. AuthTypes' BY <1>0, <1>4, <1>5 DEF AuthTypes
<1>7. Grows BY <1>0, <1>4, LenProperties DEF Grows, AuthTypes
<1>8. LeasesAreLocal'
  <2> SUFFICES ASSUME NEW n \in 1..Len(leases')
               PROVE  LET m == leases'[n] IN
                      /\ m.conn.via # "tls"
                      /\ m.conn.uid \in DOMAIN Mapped => m.principal = Mapped[m.conn.uid].principal
                      /\ m.conn.uid \in DOMAIN Mapped /\ Mapped[m.conn.uid].scopes # {}
                           => m.scopes \subseteq Mapped[m.conn.uid].scopes
    BY DEF LeasesAreLocal
  <2>1. CASE n = Len(leases) + 1
    <3>1. leases'[n] = l BY <1>4, <2>1
    <3>2. l.conn = c /\ l.principal = Identify(c).principal
          /\ l.scopes = IntersectScopes(wish, Identify(c).max)
      BY <1>1
    <3> QED BY <1>0, <3>1, <3>2, LeaseIsLocal
  <2>2. CASE n # Len(leases) + 1
    <3>1. n \in 1..Len(leases) BY <1>4, <2>2
    <3>2. leases'[n] = leases[n] BY <1>4, <3>1
    <3> QED BY <3>1, <3>2 DEF AuthInv, LeasesAreLocal
  <2> QED BY <2>1, <2>2
<1>9. CacheIsSound' BY <1>0 DEF AuthInv, CacheIsSound
<1> QED BY <1>0, <1>6, <1>7, <1>8, <1>9, SameCalls, QuietStep

LEMMA TokensAreKnown ==
  ASSUME AuthTypes, NEW token \in Tokens PROVE token \in Token /\ Known(token)
<1>0. Len(leases) \in Nat /\ Len(Operators) \in Nat
  BY LenProperties, AuthAssumption DEF AuthTypes
<1>1. CASE \E n \in 1..Len(leases) : token = LeaseToken(n)
  BY <1>0, <1>1 DEF LeaseToken, Token, Known
<1>2. CASE \E n \in 1..Len(Operators) : token = ApiKey(n)
  BY <1>0, <1>2 DEF ApiKey, Token, Known
<1> QED BY <1>1, <1>2 DEF Tokens

LEMMA SignKeeps ==
  ASSUME AuthInv, NEW key \in ClientKeys, NEW header \in Headers, NEW route \in Routes,
         NEW url \in Urls, NEW token \in Tokens, NEW iat \in 0..(MaxTime + Skew),
         SignProof(key, header, route, url, token, iat)
  PROVE  AuthInv'
<1>0. AuthTypes /\ UNCHANGED <<authTime, issuerKey, open, leases, keyCache, jtis, replayStore,
                               call, admitted>>
      /\ Len(proofs) < MaxProofs
  BY DEF AuthInv, SignProof
<1>1. PICK p : p = [by |-> key, header |-> header, route |-> route, url |-> url, ath |-> token,
                    iat |-> iat]
  OBVIOUS
<1>2. p \in Proof
  <2>1. token \in Token BY <1>0, TokensAreKnown
  <2>2. iat \in Nat BY AuthAssumption
  <2> QED BY <1>1, <2>1, <2>2 DEF Proof
<1>3. proofs' = Append(proofs, p) BY <1>1 DEF SignProof
<1>4. /\ proofs' \in Seq(Proof) /\ Len(proofs') = Len(proofs) + 1 /\ Len(proofs) \in Nat
      /\ \A n \in 1..Len(proofs) : proofs'[n] = proofs[n]
  BY <1>0, <1>2, <1>3, AppendFacts DEF AuthTypes
<1>5. Len(proofs') <= MaxProofs BY <1>0, <1>4, AuthAssumption
<1>6. AuthTypes' BY <1>0, <1>4, <1>5 DEF AuthTypes
<1>7. Grows BY <1>0, <1>4, LenProperties DEF Grows, AuthTypes
<1>8. CacheIsSound' /\ LeasesAreLocal' BY <1>0 DEF AuthInv, CacheIsSound, LeasesAreLocal
<1> QED BY <1>0, <1>6, <1>7, <1>8, SameCalls, QuietStep

LEMMA TickKeeps ==
  ASSUME AuthInv, AuthTick PROVE AuthInv'
<1>0. AuthTypes /\ UNCHANGED <<issuerKey, open, leases, proofs, keyCache, jtis, replayStore,
                               call, admitted>>
      /\ authTime' = authTime + 1 /\ authTime < MaxTime
  BY DEF AuthInv, AuthTick
<1>t. authTime \in Nat /\ authTime' \in 0..MaxTime /\ authTime <= authTime'
  BY <1>0, BoundsAreNumbers DEF AuthTypes
<1>1. AuthTypes' BY <1>0, <1>t DEF AuthTypes
<1>2. Grows BY <1>0, NothingAdded
<1>3. CacheIsSound' /\ LeasesAreLocal' BY <1>0 DEF AuthInv, CacheIsSound, LeasesAreLocal
<1>4. ASSUME NEW r \in Callers PROVE CallOK(call[r])'
  <2>1. PICK q : q = call[r] OBVIOUS
  <2>2. CallOK(q) /\ call'[r] = q BY <1>0, <2>1 DEF AuthInv
  <2>3. CASE q.at \notin {"keyed", "proven"}
    <3>1. CallOK(q)' BY <2>2, <2>3 DEF CallOK
    <3> QED BY <2>2, <3>1, CallBecomes
  <2>4. CASE q.at \in {"keyed", "proven"}
    <3>1. InFlight(q) BY <2>2, <2>4 DEF CallOK
    <3>2. q.since \in Nat /\ authTime < q.since + ClaimWithin /\ q.since <= authTime
      BY <2>1, <2>4, <3>1 DEF InFlight, Flight, AuthTick
    <3>3. q.since <= authTime' /\ authTime' <= q.since + ClaimWithin
      BY <1>0, <1>t, <3>2, BoundsAreNumbers
    <3>4. proofs[q.proof] \in Proof BY <1>0, <3>1, ElementOfSeq DEF InFlight, AuthTypes
    <3>5. proofs[q.proof].iat \in Nat BY <3>4 DEF Proof
    <3>c. q.at = "proven" => proofs[q.proof].iat <= authTime' + Skew
      <4>1. q.at = "proven" => proofs[q.proof].iat <= authTime + Skew BY <3>1 DEF InFlight
      <4> QED BY <1>0, <1>t, <3>5, <4>1, BoundsAreNumbers
    <3>6. InFlight(q)'
      BY <1>0, <3>1, <3>3, <3>c DEF InFlight, Known, Credentials, Signed, BoundKey
    <3>7. CallOK(q)' BY <2>4, <3>6 DEF CallOK
    <3> QED BY <2>2, <3>7, CallBecomes
  <2> QED BY <2>3, <2>4
<1> QED BY <1>0, <1>1, <1>2, <1>3, <1>4, QuietStep
LEMMA NextCallKeeps ==
  ASSUME AuthInv, NEW r \in Callers, NextCall(r) PROVE AuthInv'
<1>0. AuthTypes /\ UNCHANGED <<authTime, issuerKey, open, leases, proofs, keyCache, jtis,
                               replayStore, admitted>>
  BY DEF AuthInv, NextCall
<1>1. /\ call' = [s \in Callers |-> call'[s]]
      /\ call'[r] = NoCall /\ \A s \in Callers : s # r => call'[s] = call[s]
  BY <1>0, OneCall DEF NextCall
<1>2. AuthTypes' BY <1>0, <1>1 DEF AuthTypes
<1>3. Grows BY <1>0, NothingAdded
<1>4. CacheIsSound' /\ LeasesAreLocal' BY <1>0 DEF AuthInv, CacheIsSound, LeasesAreLocal
<1>5. ASSUME NEW s \in Callers PROVE CallOK(call[s])'
  <2>1. PICK q : q = call'[s] OBVIOUS
  <2>2. CASE s = r
    <3>1. q.at = "idle" BY <1>1, <2>1, <2>2 DEF NoCall
    <3>2. CallOK(q)' BY <3>1 DEF CallOK
    <3> QED BY <2>1, <3>2, CallBecomes
  <2>3. CASE s # r
    <3>1. CallOK(q) BY <1>1, <2>1, <2>3 DEF AuthInv
    <3>2. CallOK(q)' BY <1>0, <1>2, <1>3, <3>1, CallStays
    <3> QED BY <2>1, <3>2, CallBecomes
  <2> QED BY <2>2, <2>3
<1> QED BY <1>0, <1>2, <1>3, <1>4, <1>5, QuietStep

(* A step of one request that admits nothing: its new state is in order and the *)
(* cache stays sound.                                                           *)
LEMMA RequestStep ==
  ASSUME AuthInv, NEW r \in Callers, NEW q, call' = [call EXCEPT ![r] = q], CallOK(q)',
         SoundCache(keyCache'),
         UNCHANGED <<authTime, issuerKey, open, leases, proofs, jtis, replayStore, admitted>>
  PROVE  AuthInv'
<1>0. AuthTypes BY DEF AuthInv
<1>1. /\ call' = [s \in Callers |-> call'[s]]
      /\ call'[r] = q /\ \A s \in Callers : s # r => call'[s] = call[s]
  BY <1>0, OneCall
<1>2. AuthTypes' BY <1>0, <1>1 DEF AuthTypes, SoundCache
<1>3. Grows BY <1>0, NothingAdded
<1>4. CacheIsSound' /\ LeasesAreLocal'
  BY DEF AuthInv, CacheIsSound, LeasesAreLocal, SoundCache
<1>5. ASSUME NEW s \in Callers PROVE CallOK(call[s])'
  <2>1. PICK o : o = call'[s] OBVIOUS
  <2>2. CASE s = r BY <1>1, <2>2, CallBecomes
  <2>3. CASE s # r
    <3>1. CallOK(o) BY <1>1, <2>1, <2>3 DEF AuthInv
    <3>2. CallOK(o)' BY <1>0, <1>2, <1>3, <3>1, CallStays
    <3> QED BY <2>1, <3>2, CallBecomes
  <2> QED BY <2>2, <2>3
<1> QED BY <1>2, <1>3, <1>4, <1>5, QuietStep

(* An answer ends a request.                                                    *)
LEMMA AnsweredIsOK ==
  ASSUME NEW status, NEW code, NEW q, q = [at |-> "done", status |-> status, code |-> code]
  PROVE  CallOK(q) /\ CallOK(q)'
<1>1. q.at = "done" OBVIOUS
<1> QED BY <1>1 DEF CallOK

(* The key a request goes on with is the one its token is bound to, cached or   *)
(* taken from the header.                                                       *)
LEMMA KeyIsBound ==
  ASSUME AuthInv, NEW jkt \in ClientKeys, NEW p,
         ~Cached(jkt) => ExtractBoundKey(p, jkt) = "ok"
  PROVE  KeyOf(p, jkt) = jkt
<1>1. CASE Cached(jkt)
  BY <1>1, RemovedIsBehind DEF KeyOf, AuthInv, AuthTypes
<1>2. CASE ~Cached(jkt)
  BY <1>2 DEF KeyOf, ExtractBoundKey
<1> QED BY <1>1, <1>2

(* Every handler behind a route asks for an agent or an operator, or is not     *)
(* there; operators' handlers are not on the client socket.                     *)
LEMMA HandlersAsk ==
  ASSUME NEW route \in Routes, NEW via
  PROVE  /\ HandlerAuth(via, route.what) \in {"agent", "operator", "unrouted"}
         /\ HandlerAuth(via, route.what) = "operator" => via # "client"
<1>1. route.what \in {"execute", "receipt", "approve", "audit", "poll"}
  <2>1. Served \subseteq {"execute", "receipt", "approve", "audit", "poll"} BY AuthAssumption
  <2>2. CASE \E w \in Served : route = [what |-> w, of |-> 0] BY <2>1, <2>2
  <2>3. CASE \E w \in Served, l \in 1..MaxLeases : route = [what |-> w, of |-> l]
    BY <2>1, <2>3
  <2> QED BY <2>2, <2>3 DEF Routes
<1> QED BY <1>1 DEF HandlerAuth, ClientRoutes, AdminRoutes

LEMMA ReceiveKeeps ==
  ASSUME AuthInv, NEW r \in Callers, NEW c \in Conns, NEW route \in Routes,
         NEW token \in Tokens \cup {NoToken}, NEW p \in 0..MaxProofs, Receive(r, c, route, token, p)
  PROVE  AuthInv'
<1> DEFINE kind == HandlerAuth(c.via, route.what)
           missing == HeaderError(token, p)
           held == IF kind = "agent" THEN VerifyLease(token) ELSE FindOperator(token)
           jkt == BoundKey(token)
           extracted == IF Cached(jkt) THEN "ok" ELSE ExtractBoundKey(p, jkt)
           err == CASE missing # "ok" -> missing
                    [] missing = "ok" /\ held # "ok" -> held
                    [] OTHER -> extracted
           q == [at |-> "keyed", conn |-> c, route |-> route, token |-> token, proof |-> p,
                 hit |-> Cached(jkt), key |-> KeyOf(p, jkt), since |-> authTime]
<1>0. /\ AuthTypes /\ kind # "unrouted" /\ p \in 0..Len(proofs)
      /\ UNCHANGED <<authTime, issuerKey, open, leases, proofs, jtis, replayStore, admitted>>
  BY DEF AuthInv, Receive
<1>1. IF err # "ok" THEN Fail(r, c, route, err) ELSE call' = [call EXCEPT ![r] = q]
  BY DEF Receive
<1>2. keyCache' = IF missing = "ok" /\ held = "ok" /\ Cached(jkt) THEN Promote(jkt) ELSE keyCache
  BY DEF Receive
<1>3. err = "ok" <=> missing = "ok" /\ held = "ok" /\ extracted = "ok" OBVIOUS
<1>4. missing = "ok" => /\ token \in Token /\ Known(token) /\ jkt \in ClientKeys
                        /\ p \in 1..Len(proofs)
  <2> SUFFICES ASSUME missing = "ok" PROVE /\ token \in Token /\ Known(token) /\ jkt \in ClientKeys
                                           /\ p \in 1..Len(proofs)
    OBVIOUS
  <2>1. token # NoToken /\ p # 0 BY DEF HeaderError
  <2>2. token \in Token /\ Known(token) BY <1>0, <2>1, TokensAreKnown
  <2>3. Len(proofs) \in Nat BY <1>0, LenProperties DEF AuthTypes
  <2>4. Grows BY <1>0, NothingAdded
  <2> QED BY <1>0, <2>1, <2>2, <2>3, <2>4, KnownStays
<1>5. SoundCache(keyCache')
  <2>1. CASE missing = "ok" /\ held = "ok" /\ Cached(jkt)
    <3>1. keyCache' = Promote(jkt) BY <1>2, <2>1
    <3>2. jkt \in ClientKeys /\ Cached(jkt) BY <1>4, <2>1
    <3> HIDE DEF jkt
    <3> QED BY <1>0, <3>1, <3>2, PromoteIsSound DEF AuthInv, AuthTypes
  <2>2. CASE ~(missing = "ok" /\ held = "ok" /\ Cached(jkt))
    <3>1. keyCache' = keyCache BY <1>2, <2>2
    <3> QED BY <1>0, <3>1 DEF AuthInv, AuthTypes, SoundCache, CacheIsSound
  <2> QED BY <2>1, <2>2
<1>6. CASE err # "ok"
  <2>1. PICK status : status = StatusFor(c.via, route.what, err) OBVIOUS
  <2>2. PICK a : a = [at |-> "done", status |-> status, code |-> err] OBVIOUS
  <2>3. call' = [call EXCEPT ![r] = a]
    <3> HIDE DEF err
    <3> QED BY <1>1, <1>6, <2>1, <2>2 DEF Fail, Respond
  <2>4. CallOK(a)'
    <3> HIDE DEF err
    <3> QED BY <2>2, AnsweredIsOK
  <2> QED BY <1>0, <1>5, <2>3, <2>4, RequestStep
<1>7. CASE err = "ok"
  <2>1. /\ token \in Token /\ Known(token) /\ jkt \in ClientKeys /\ p \in 1..Len(proofs)
        /\ held = "ok" /\ (~Cached(jkt) => ExtractBoundKey(p, jkt) = "ok")
    BY <1>3, <1>4, <1>7
  <2>2. KeyOf(p, jkt) = jkt
    <3> HIDE DEF jkt
    <3> QED BY <2>1, KeyIsBound
  <2>3. kind \in {"agent", "operator"} /\ (kind = "operator" => c.via # "client")
    BY <1>0, HandlersAsk
  <2>4. Credentials(kind, token, c.via, authTime, issuerKey)
    <3>1. CASE kind = "agent"
      <4>1. VerifyLease(token) = "ok" BY <2>1, <3>1
      <4>2. token.kind = "lease" /\ leases[token.n].by = issuerKey
            /\ ~(leases[token.n].exp < authTime)
        BY <4>1 DEF VerifyLease
      <4>3. leases[token.n] \in Lease BY <1>0, <2>1, <4>2, ElementOfSeq DEF Known, AuthTypes
      <4>4. leases[token.n].exp \in Nat BY <4>3 DEF Lease
      <4>5. authTime \in Nat BY <1>0 DEF AuthTypes
      <4> QED BY <3>1, <4>2, <4>4, <4>5 DEF Credentials
    <3>2. CASE kind = "operator"
      <4>1. FindOperator(token) = "ok" BY <2>1, <3>2
      <4> QED BY <2>3, <3>2, <4>1 DEF Credentials, FindOperator
    <3> QED BY <2>3, <3>1, <3>2
  <2>5. PICK o : o = q OBVIOUS
  <2>6. /\ o.at = "keyed" /\ o.conn = c /\ o.route = route /\ o.token = token /\ o.proof = p
        /\ o.key = jkt /\ o.since = authTime
    BY <2>2, <2>5
  <2>7. o \in Flight
    <3>1. authTime \in Nat /\ p \in Nat /\ Cached(jkt) \in BOOLEAN
      BY <1>0 DEF AuthTypes, Cached
    <3>2. KeyOf(p, jkt) \in ClientKeys BY <2>1, <2>2
    <3> HIDE DEF jkt
    <3> QED BY <2>1, <2>5, <3>1, <3>2 DEF Flight
  <2>8. InFlight(o)
    <3>1. o.since <= authTime /\ authTime <= o.since + ClaimWithin
      BY <1>0, <2>6, BoundsAreNumbers DEF AuthTypes
    <3>2. HandlerAuth(o.conn.via, o.route.what) = kind BY <2>6
    <3> HIDE DEF kind
    <3> QED BY <2>1, <2>3, <2>4, <2>6, <2>7, <3>1, <3>2 DEF InFlight
  <2>9. InFlight(o)' BY <1>0, <2>8 DEF InFlight, Known, Credentials, Signed, BoundKey
  <2>10. CallOK(o)' BY <2>6, <2>9 DEF CallOK
  <2>11. call' = [call EXCEPT ![r] = o] BY <1>1, <1>7, <2>5
  <2> QED BY <1>0, <1>5, <2>10, <2>11, RequestStep
<1> QED BY <1>6, <1>7
(* What the claims of an accepted proof say (verify_dpop_proof).                *)
LEMMA ClaimsMean ==
  ASSUME NEW p, NEW route, NEW token, ClaimsError(p, route, token) = "ok"
  PROVE  proofs[p].route = route /\ proofs[p].ath = token /\ ValidateIat(proofs[p].iat)
<1>1. NormalizeHtu(proofs[p].url, proofs[p].route) = NormalizeHtu(BaseUrl, route)
  BY DEF ClaimsError
<1>2. NormalizeHtu(proofs[p].url, proofs[p].route).path = proofs[p].route
      /\ NormalizeHtu(BaseUrl, route).path = route
  BY DEF NormalizeHtu
<1> QED BY <1>1, <1>2 DEF ClaimsError

LEMMA VerifyKeeps ==
  ASSUME AuthInv, NEW r \in Callers, VerifyProof(r) PROVE AuthInv'
<1>0. /\ AuthTypes /\ call[r].at = "keyed"
      /\ UNCHANGED <<authTime, issuerKey, open, leases, proofs, jtis, replayStore, admitted>>
  BY DEF AuthInv, VerifyProof
<1>1. PICK q : q = call[r] OBVIOUS
<1>2. InFlight(q) /\ q.at = "keyed" BY <1>0, <1>1 DEF AuthInv, CallOK
<1>3. PICK claims : claims = ClaimsError(q.proof, q.route, q.token) OBVIOUS
<1>g. Grows BY <1>0, NothingAdded
<1>k. q.token \in Token /\ Known(q.token) /\ q.key = BoundKey(q.token) /\ q.key \in ClientKeys
  BY <1>2 DEF InFlight, Flight
<1>4. CASE ~VerifySig(q.key, q.proof)
  <2>1. PICK status : status = StatusFor(q.conn.via, q.route.what, "bad_sig") OBVIOUS
  <2>2. PICK a : a = [at |-> "done", status |-> status, code |-> "bad_sig"] OBVIOUS
  <2>3. call' = [call EXCEPT ![r] = a] /\ keyCache' = keyCache
    BY <1>1, <1>4, <2>1, <2>2 DEF VerifyProof, Fail, Respond
  <2>4. SoundCache(keyCache') BY <1>0, <2>3 DEF AuthInv, AuthTypes, SoundCache, CacheIsSound
  <2>5. CallOK(a)' BY <2>2, AnsweredIsOK
  <2> QED BY <1>0, <2>3, <2>4, <2>5, RequestStep
<1>5. CASE VerifySig(q.key, q.proof)
  <2>1. keyCache' = IF q.hit THEN keyCache ELSE Insert(BoundKey(q.token), q.key)
    BY <1>1, <1>5 DEF VerifyProof
  <2>2. SoundCache(keyCache')
    <3>1. CASE q.hit
      BY <1>0, <2>1, <3>1 DEF AuthInv, AuthTypes, SoundCache, CacheIsSound
    <3>2. CASE ~q.hit
      <4>1. PICK jkt \in ClientKeys : jkt = q.key BY <1>k
      <4>2. keyCache' = Insert(jkt, jkt) BY <1>k, <2>1, <3>2, <4>1
      <4> QED BY <1>0, <4>2, InsertIsSound DEF AuthInv, AuthTypes
    <3> QED BY <3>1, <3>2
  <2>3. CASE claims # "ok"
    <3>1. PICK status : status = StatusFor(q.conn.via, q.route.what, claims) OBVIOUS
    <3>2. PICK a : a = [at |-> "done", status |-> status, code |-> claims] OBVIOUS
    <3>3. call' = [call EXCEPT ![r] = a]
      BY <1>1, <1>3, <1>5, <2>3, <3>1, <3>2 DEF VerifyProof, Fail, Respond
    <3>4. CallOK(a)' BY <3>2, AnsweredIsOK
    <3> QED BY <1>0, <2>2, <3>3, <3>4, RequestStep
  <2>4. CASE claims = "ok"
    <3>1. PICK o : o = [q EXCEPT !.at = "proven"] OBVIOUS
    <3>2. call' = [call EXCEPT ![r] = o]
      <4>1. call' = [call EXCEPT ![r].at = "proven"]
        BY <1>1, <1>3, <1>5, <2>4 DEF VerifyProof
      <4> QED BY <1>0, <1>1, <3>1, <4>1 DEF AuthTypes
    <3>3. q \in Flight BY <1>2 DEF InFlight
    <3>4. /\ o \in Flight /\ o.at = "proven" /\ o.conn = q.conn /\ o.route = q.route
          /\ o.token = q.token /\ o.proof = q.proof /\ o.key = q.key /\ o.since = q.since
      BY <3>1, <3>3 DEF Flight
    <3>5. /\ proofs[q.proof].route = q.route /\ proofs[q.proof].ath = q.token
          /\ ValidateIat(proofs[q.proof].iat)
      <4>1. PICK p, route, token : p = q.proof /\ route = q.route /\ token = q.token OBVIOUS
      <4>2. ClaimsError(p, route, token) = "ok" BY <1>3, <2>4, <4>1
      <4>3. proofs[p].route = route /\ proofs[p].ath = token /\ ValidateIat(proofs[p].iat)
        BY <4>2, ClaimsMean
      <4> QED BY <4>1, <4>3
    <3>6. Signed(q.proof, q.token, q.route)
      BY <1>5, <1>k, <3>5 DEF Signed, VerifySig
    <3>7. proofs[q.proof] \in Proof BY <1>0, <1>2, ElementOfSeq DEF InFlight, AuthTypes
    <3>8. proofs[q.proof].iat \in Nat /\ authTime \in Nat /\ q.since \in Nat
          /\ q.since <= authTime
      BY <1>0, <1>2, <3>3, <3>7 DEF Proof, AuthTypes, Flight, InFlight
    <3>9. proofs[q.proof].iat <= authTime + Skew /\ q.since <= proofs[q.proof].iat + MaxAge
      BY <3>5, <3>8, BoundsAreNumbers DEF ValidateIat
    <3>10. InFlight(o) BY <1>2, <3>4, <3>6, <3>9 DEF InFlight
    <3>11. InFlight(o)' BY <1>0, <3>10 DEF InFlight, Known, Credentials, Signed, BoundKey
    <3>12. CallOK(o)' BY <3>4, <3>11 DEF CallOK
    <3> QED BY <1>0, <2>2, <3>2, <3>12, RequestStep
  <2> QED BY <2>3, <2>4
<1> QED BY <1>4, <1>5

(* While a request that carries a remembered proof is on its way, the cache     *)
(* still has it: this is what the replay cache's lifetime is for.               *)
LEMMA RememberedIsSeen ==
  ASSUME AuthTypes, NEW q, InFlight(q), q.at = "proven", Remembered(q.proof)
  PROVE  SeenJti(q.proof)
<1>1. PICK e \in jtis : e.proof = q.proof /\ proofs[q.proof].iat + ReplayTtl <= e.until + Skew
  BY DEF Remembered
<1>2. proofs[q.proof] \in Proof BY ElementOfSeq DEF InFlight, AuthTypes
<1>3. proofs[q.proof].iat \in Nat /\ e.until \in Nat /\ authTime \in Nat /\ q.since \in Nat
  BY <1>2 DEF Proof, AuthTypes, InFlight, Flight
<1>4. authTime <= q.since + ClaimWithin /\ q.since <= proofs[q.proof].iat + MaxAge
  BY DEF InFlight
<1>5. authTime < e.until BY <1>1, <1>3, <1>4, BoundsAreNumbers
<1> QED BY <1>1, <1>5 DEF SeenJti

(* A claim that is turned down: the store is down, or has the proof.            *)
LEMMA TurnedDownKeeps ==
  ASSUME AuthInv, NEW r \in Callers, NEW c, NEW route, NEW err, Fail(r, c, route, err),
         UNCHANGED <<authTime, issuerKey, open, leases, proofs, keyCache, jtis, replayStore, admitted>>
  PROVE  AuthInv'
<1>1. PICK status : status = StatusFor(c.via, route.what, err) OBVIOUS
<1>2. PICK a : a = [at |-> "done", status |-> status, code |-> err] OBVIOUS
<1>3. call' = [call EXCEPT ![r] = a] BY <1>1, <1>2 DEF Fail, Respond
<1>4. SoundCache(keyCache') BY DEF AuthInv, AuthTypes, SoundCache, CacheIsSound
<1>5. CallOK(a)' BY <1>2, AnsweredIsOK
<1> QED BY <1>3, <1>4, <1>5, RequestStep

(* The step that admits.                                                        *)
LEMMA AdmitKeeps ==
  ASSUME AuthInv, NEW r \in Callers, NEW q, q = call[r], q.at = "proven", ~SeenJti(q.proof),
         jtis' = {e \in jtis : e.proof # q.proof}
                   \cup {[proof |-> q.proof, until |-> authTime + ReplayTtl]},
         admitted' = Append(admitted,
                       [kind |-> HandlerAuth(q.conn.via, q.route.what), proof |-> q.proof,
                        token |-> q.token, route |-> q.route, since |-> q.since,
                        by |-> issuerKey, via |-> q.conn.via]),
         Respond(r, PollAnswer(q), "ok"),
         UNCHANGED <<authTime, issuerKey, open, leases, proofs, keyCache, replayStore>>
  PROVE  AuthInv'
<1>0. AuthTypes /\ InFlight(q) /\ Grows
  BY NothingAdded DEF AuthInv, CallOK
<1>1. q \in Flight /\ q.conn \in Conns /\ q.token \in Token /\ q.proof \in Nat /\ q.route \in Routes
      /\ q.since \in Nat
  BY <1>0 DEF InFlight, Flight
<1>2. PICK a : a = [kind |-> HandlerAuth(q.conn.via, q.route.what), proof |-> q.proof,
                    token |-> q.token, route |-> q.route, since |-> q.since,
                    by |-> issuerKey, via |-> q.conn.via]
  OBVIOUS
<1>3. /\ a.kind = HandlerAuth(q.conn.via, q.route.what) /\ a.proof = q.proof
      /\ a.token = q.token /\ a.route = q.route /\ a.since = q.since /\ a.by = issuerKey
      /\ a.via = q.conn.via
  BY <1>2
<1>4. a \in Admission
  <2>1. HandlerAuth(q.conn.via, q.route.what) \in {"agent", "operator"} BY <1>0 DEF InFlight
  <2>2. q.conn.via \in {c.via : c \in Conns} /\ issuerKey \in 1..MaxLives
    BY <1>0, <1>1 DEF AuthTypes
  <2> QED BY <1>1, <1>2, <2>1, <2>2 DEF Admission
<1>5. AdmissionOK(a)
  <2>1. issuerKey <= issuerKey BY <1>0 DEF AuthTypes
  <2> QED BY <1>0, <1>3, <2>1 DEF AdmissionOK, InFlight
<1>6. admitted' = Append(admitted, a) BY <1>2
<1>7. /\ admitted' \in Seq(Admission) /\ Len(admitted') = Len(admitted) + 1 /\ Len(admitted) \in Nat
      /\ admitted'[Len(admitted) + 1] = a
      /\ \A i \in 1..Len(admitted) : admitted'[i] = admitted[i]
  BY <1>0, <1>4, <1>6, AppendFacts DEF AuthTypes
<1>8. \A i \in 1..Len(admitted') : i = Len(admitted) + 1 \/ i \in 1..Len(admitted)
  BY <1>7
<1>9. PICK d : d = [at |-> "done", status |-> PollAnswer(q), code |-> "ok"] OBVIOUS
<1>10. /\ call' = [s \in Callers |-> call'[s]]
       /\ call'[r] = d /\ \A s \in Callers : s # r => call'[s] = call[s]
  <2>1. call' = [call EXCEPT ![r] = d] BY <1>9 DEF Respond
  <2> QED BY <1>0, <2>1, OneCall
<1>11. AuthTypes'
  <2>1. authTime + ReplayTtl \in Nat BY <1>0, BoundsAreNumbers DEF AuthTypes
  <2>2. [proof |-> q.proof, until |-> authTime + ReplayTtl] \in [proof : Nat, until : Nat]
    BY <1>1, <2>1
  <2>3. jtis' \subseteq [proof : Nat, until : Nat] BY <1>0, <2>2 DEF AuthTypes
  <2> QED BY <1>0, <1>7, <1>10, <2>3 DEF AuthTypes
<1>12. CacheIsSound' /\ LeasesAreLocal' BY DEF AuthInv, CacheIsSound, LeasesAreLocal
<1>13. ASSUME NEW s \in Callers PROVE CallOK(call[s])'
  <2>1. PICK o : o = call'[s] OBVIOUS
  <2>2. CASE s = r
    <3>1. CallOK(d)' BY <1>9, AnsweredIsOK
    <3> QED BY <1>10, <2>2, <3>1, CallBecomes
  <2>3. CASE s # r
    <3>1. CallOK(o) BY <1>10, <2>1, <2>3 DEF AuthInv
    <3>2. CallOK(o)' BY <1>0, <1>11, <3>1, CallStays
    <3> QED BY <2>1, <3>2, CallBecomes
  <2> QED BY <2>2, <2>3
<1>14. ASSUME NEW i \in 1..Len(admitted') PROVE AdmissionOK(admitted[i])'
  <2>1. PICK b : b = admitted'[i] OBVIOUS
  <2>2. b \in Admission /\ AdmissionOK(b)
    <3>1. CASE i = Len(admitted) + 1 BY <1>4, <1>5, <1>7, <2>1, <3>1
    <3>2. CASE i \in 1..Len(admitted)
      BY <1>0, <1>7, <2>1, <3>2, ElementOfSeq DEF AuthInv, AuthTypes
    <3> QED BY <1>8, <3>1, <3>2
  <2>3. issuerKey <= issuerKey' BY <1>0 DEF AuthTypes
  <2>4. AdmissionOK(b)' BY <1>0, <1>11, <2>2, <2>3, AdmissionStays
  <2> QED BY <2>1, <2>4 DEF AdmissionOK, Known, Signed, Credentials, BoundKey
<1>15. \E e \in jtis' : e.proof = q.proof /\ proofs[q.proof].iat + ReplayTtl <= e.until + Skew
  <2>1. PICK e : e = [proof |-> q.proof, until |-> authTime + ReplayTtl] OBVIOUS
  <2>2. e \in jtis' /\ e.proof = q.proof /\ e.until = authTime + ReplayTtl BY <2>1
  <2>3. proofs[q.proof] \in Proof BY <1>0, ElementOfSeq DEF InFlight, AuthTypes
  <2>4. proofs[q.proof].iat \in Nat /\ authTime \in Nat BY <1>0, <2>3 DEF Proof, AuthTypes
  <2>5. proofs[q.proof].iat <= authTime + Skew BY <1>0 DEF InFlight
  <2>6. proofs[q.proof].iat + ReplayTtl <= (authTime + ReplayTtl) + Skew
    BY <2>4, <2>5, BoundsAreNumbers
  <2> QED BY <2>2, <2>6
<1>16. LifeRemembers'
  <2> SUFFICES ASSUME NEW i \in 1..Len(admitted'), admitted'[i].by = issuerKey
               PROVE  \E e \in jtis' :
                        /\ e.proof = admitted'[i].proof
                        /\ proofs[admitted'[i].proof].iat + ReplayTtl <= e.until + Skew
    BY DEF LifeRemembers, Remembered
  <2>1. CASE admitted'[i].proof = q.proof BY <1>15, <2>1
  <2>2. CASE admitted'[i].proof # q.proof
    <3>1. i \in 1..Len(admitted) /\ admitted'[i] = admitted[i] BY <1>3, <1>7, <1>8, <2>2
    <3>2. PICK e \in jtis : /\ e.proof = admitted[i].proof
                            /\ proofs[admitted[i].proof].iat + ReplayTtl <= e.until + Skew
      BY <3>1 DEF AuthInv, LifeRemembers, Remembered
    <3>3. e \in jtis' BY <2>2, <3>1, <3>2
    <3> QED BY <3>1, <3>2, <3>3
  <2> QED BY <2>1, <2>2
<1>17. ASSUME NEW i \in 1..Len(admitted), admitted[i].proof = q.proof PROVE admitted[i].by # issuerKey
  <2> SUFFICES ASSUME admitted[i].by = issuerKey PROVE FALSE OBVIOUS
  <2>1. Remembered(q.proof) BY <1>17 DEF AuthInv, LifeRemembers
  <2> QED BY <1>0, <2>1, RememberedIsSeen
<1>18. OncePerLife'
  <2> SUFFICES ASSUME NEW i \in 1..Len(admitted'), NEW j \in 1..Len(admitted'),
                      admitted'[i].proof = admitted'[j].proof, admitted'[i].by = admitted'[j].by
               PROVE  i = j
    BY DEF OncePerLife
  <2>1. CASE i \in 1..Len(admitted) /\ j \in 1..Len(admitted)
    BY <1>7, <2>1 DEF AuthInv, OncePerLife
  <2>2. CASE i = Len(admitted) + 1 /\ j \in 1..Len(admitted) BY <1>3, <1>7, <1>17, <2>2
  <2>3. CASE i \in 1..Len(admitted) /\ j = Len(admitted) + 1 BY <1>3, <1>7, <1>17, <2>3
  <2>4. CASE i = Len(admitted) + 1 /\ j = Len(admitted) + 1 BY <2>4
  <2> QED BY <1>8, <2>1, <2>2, <2>3, <2>4
<1> QED BY <1>11, <1>12, <1>13, <1>14, <1>16, <1>18 DEF AuthInv

LEMMA ClaimKeeps ==
  ASSUME AuthInv, NEW r \in Callers, ClaimJti(r) PROVE AuthInv'
<1>1. PICK q : q = call[r] OBVIOUS
<1>2. q.at = "proven" /\ UNCHANGED <<authTime, issuerKey, open, leases, proofs, keyCache, replayStore>>
  BY <1>1 DEF ClaimJti
<1>3. CASE replayStore = "down"
  <2>1. Fail(r, q.conn, q.route, "replay_unavailable") /\ UNCHANGED <<jtis, admitted>>
    BY <1>1, <1>3 DEF ClaimJti
  <2> QED BY <1>2, <2>1, TurnedDownKeeps
<1>4. CASE replayStore # "down" /\ SeenJti(q.proof)
  <2>1. Fail(r, q.conn, q.route, "replay_detected") /\ UNCHANGED <<jtis, admitted>>
    BY <1>1, <1>4 DEF ClaimJti
  <2> QED BY <1>2, <2>1, TurnedDownKeeps
<1>5. CASE replayStore # "down" /\ ~SeenJti(q.proof)
  <2>1. /\ jtis' = {e \in jtis : e.proof # q.proof}
                     \cup {[proof |-> q.proof, until |-> authTime + ReplayTtl]}
        /\ admitted' = Append(admitted,
                       [kind |-> HandlerAuth(q.conn.via, q.route.what), proof |-> q.proof,
                        token |-> q.token, route |-> q.route, since |-> q.since,
                        by |-> issuerKey, via |-> q.conn.via])
        /\ Respond(r, PollAnswer(q), "ok")
    BY <1>1, <1>5 DEF ClaimJti
  <2> QED BY <1>1, <1>2, <1>5, <2>1, AdmitKeeps
<1> QED BY <1>3, <1>4, <1>5

LEMMA RestartKeeps ==
  ASSUME AuthInv, AuthRestart PROVE AuthInv'
<1>0. /\ AuthTypes /\ issuerKey < MaxLives /\ issuerKey' = issuerKey + 1 /\ open' = {}
      /\ keyCache' = <<>> /\ call' = [r \in Callers |-> NoCall]
      /\ UNCHANGED <<authTime, leases, proofs, replayStore, admitted>>
      /\ jtis' = IF replayStore = "memory" THEN {} ELSE jtis
  BY DEF AuthInv, AuthRestart
<1>1. keyCache' \in Seq(CacheEntry) /\ Len(keyCache') = 0 BY <1>0
<1>2. issuerKey' \in 1..MaxLives /\ issuerKey <= issuerKey' /\ issuerKey \in Nat
  <2>1. MaxLives \in Nat BY AuthAssumption
  <2> QED BY <1>0, <2>1 DEF AuthTypes
<1>3. AuthTypes' BY <1>0, <1>1, <1>2 DEF AuthTypes
<1>4. KeyCapacity \in Nat BY AuthAssumption
<1>5. CacheIsSound' /\ LeasesAreLocal'
  BY <1>0, <1>1, <1>4 DEF AuthInv, CacheIsSound, LeasesAreLocal
<1>6. Grows BY <1>0, NothingAdded
<1>7. ASSUME NEW r \in Callers PROVE CallOK(call[r])'
  <2>1. call'[r].at = "idle" BY <1>0 DEF NoCall
  <2> QED BY <2>1 DEF CallOK
<1>8. \A i \in 1..Len(admitted) : admitted[i] \in Admission /\ AdmissionOK(admitted[i])
  BY ElementOfSeq DEF AuthInv, AuthTypes
<1>9. ASSUME NEW i \in 1..Len(admitted') PROVE AdmissionOK(admitted[i])'
  <2>1. PICK a : a = admitted[i] OBVIOUS
  <2>2. admitted'[i] = a /\ AdmissionOK(a)' BY <1>0, <1>2, <1>3, <1>6, <1>8, <2>1, AdmissionStays
  <2> QED BY <2>2 DEF AdmissionOK, Known, Signed, Credentials, BoundKey
<1>10. LifeRemembers'
  <2> SUFFICES ASSUME NEW i \in 1..Len(admitted), admitted[i].by = issuerKey' PROVE FALSE
    BY <1>0 DEF LifeRemembers
  <2>1. admitted[i].by <= issuerKey BY <1>8 DEF AdmissionOK
  <2> QED BY <1>0, <1>2, <2>1
<1>11. OncePerLife' BY <1>0 DEF AuthInv, OncePerLife
<1> QED BY <1>3, <1>5, <1>7, <1>9, <1>10, <1>11 DEF AuthInv

LEMMA InitialAuth == ASSUME AuthInit PROVE AuthInv
<1>1. /\ authTime = 0 /\ issuerKey = 1 /\ open = {} /\ leases = <<>> /\ proofs = <<>>
      /\ keyCache = <<>> /\ jtis = {} /\ replayStore \in {"memory", "up"}
      /\ call = [r \in Callers |-> NoCall] /\ admitted = <<>>
  BY AuthAssumption DEF AuthInit
<1>2. /\ leases \in Seq(Lease) /\ proofs \in Seq(Proof) /\ keyCache \in Seq(CacheEntry)
      /\ admitted \in Seq(Admission)
      /\ Len(leases) = 0 /\ Len(proofs) = 0 /\ Len(keyCache) = 0 /\ Len(admitted) = 0
  BY <1>1
<1>3. MaxLives \in Nat \ {0} /\ KeyCapacity \in Nat /\ MaxLeases \in Nat /\ MaxProofs \in Nat
      /\ MaxTime \in Nat
  BY AuthAssumption
<1>4. AuthTypes BY <1>1, <1>2, <1>3 DEF AuthTypes
<1>5. CacheIsSound /\ LeasesAreLocal /\ LifeRemembers /\ OncePerLife
  BY <1>2, <1>3 DEF CacheIsSound, LeasesAreLocal, LifeRemembers, OncePerLife
<1>6. \A r \in Callers : CallOK(call[r]) BY <1>1 DEF CallOK, NoCall
<1>7. \A i \in 1..Len(admitted) : AdmissionOK(admitted[i]) BY <1>2
<1> QED BY <1>4, <1>5, <1>6, <1>7 DEF AuthInv

(* Tokens are known, keys are the bound ones, and what a life admitted is       *)
(* remembered for as long as it could come again.                               *)
THEOREM AuthInvariant == AuthSpec => []AuthInv
<1>1. AuthInit => AuthInv BY InitialAuth
<1>2. AuthInv /\ [AuthNext]_authVars => AuthInv'
  <2> SUFFICES ASSUME AuthInv, [AuthNext]_authVars PROVE AuthInv' OBVIOUS
  <2>1. CASE UNCHANGED authVars BY <2>1, StutterKeeps
  <2>2. ASSUME NEW c \in Conns, Accept(c) PROVE AuthInv' BY <2>2, AcceptKeeps
  <2>3. ASSUME NEW c \in Conns, NEW key \in ClientKeys, NEW wish \in ScopeWishes,
               GrantLease(c, key, wish)
        PROVE AuthInv'
    BY <2>3, LeaseKeeps
  <2>4. ASSUME NEW key \in ClientKeys, NEW header \in Headers, NEW route \in Routes,
               NEW url \in Urls, NEW token \in Tokens, NEW iat \in 0..(MaxTime + Skew),
               SignProof(key, header, route, url, token, iat)
        PROVE AuthInv'
    BY <2>4, SignKeeps
  <2>5. ASSUME NEW r \in Callers, NEW c \in Conns, NEW route \in Routes,
               NEW token \in Tokens \cup {NoToken}, NEW p \in 0..MaxProofs,
               Receive(r, c, route, token, p)
        PROVE AuthInv'
    BY <2>5, ReceiveKeeps
  <2>6. ASSUME NEW r \in Callers, VerifyProof(r) \/ ClaimJti(r) \/ NextCall(r) PROVE AuthInv'
    BY <2>6, VerifyKeeps, ClaimKeeps, NextCallKeeps
  <2>7. CASE AuthTick \/ ReplayOutage \/ AuthRestart
    BY <2>7, TickKeeps, OutageKeeps, RestartKeeps
  <2> QED BY <2>1, <2>2, <2>3, <2>4, <2>5, <2>6, <2>7 DEF AuthNext
<1> QED BY <1>1, <1>2, PTL DEF AuthSpec

(* Whatever the key cache held, however requests interleave and whenever the    *)
(* gate restarts or its replay store is away: a request that was admitted       *)
(* carried a proof its token's holder signed for it, an agent's proof counts    *)
(* once for ever and an operator's once per life, the cache maps thumbprints to *)
(* their own keys within its capacity, and every lease is a local peer's.       *)
THEOREM AuthIsSafe == AuthSpec => []AuthSafe
<1>1. AuthInv => AuthSafe
  <2> SUFFICES ASSUME AuthInv PROVE AuthSafe OBVIOUS
  <2>1. AuthTypeOK BY DEF AuthInv, AuthTypes, AuthTypeOK, CallOK
  <2>2. \A i \in 1..Len(admitted) : admitted[i] \in Admission /\ AdmissionOK(admitted[i])
    BY ElementOfSeq DEF AuthInv, AuthTypes
  <2>3. AdmittedIsSigned
    BY <2>2 DEF AdmittedIsSigned, AdmissionOK, Signed, Credentials
  <2>4. ProofOnce
    <3> SUFFICES ASSUME NEW i \in 1..Len(admitted), NEW j \in 1..Len(admitted),
                        admitted[i].proof = admitted[j].proof,
                        admitted[i].kind = "agent" \/ admitted[i].by = admitted[j].by
                 PROVE  i = j
      BY DEF ProofOnce
    <3>1. CASE admitted[i].by = admitted[j].by BY <3>1 DEF AuthInv, OncePerLife
    <3>2. CASE admitted[i].kind = "agent"
      <4>1. admitted[i].token = admitted[j].token BY <2>2 DEF AdmissionOK, Signed
      <4>2. admitted[i].token.kind = "lease" /\ leases[admitted[i].token.n].by = admitted[i].by
        BY <2>2, <3>2 DEF AdmissionOK, Credentials
      <4>3. admitted[j].kind = "agent"
        BY <2>2, <4>1, <4>2 DEF AdmissionOK, Credentials, Admission
      <4>4. leases[admitted[j].token.n].by = admitted[j].by
        BY <2>2, <4>3 DEF AdmissionOK, Credentials
      <4>5. admitted[i].by = admitted[j].by BY <4>1, <4>2, <4>4
      <4> QED BY <4>5 DEF AuthInv, OncePerLife
    <3> QED BY <3>1, <3>2
  <2> QED BY <2>1, <2>3, <2>4 DEF AuthSafe, AuthInv
<1> QED BY <1>1, AuthInvariant, PTL
================================================================================
