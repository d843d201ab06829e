------------------------------ MODULE PolicyAdmin ------------------------------
(***************************************************************************)
(* Policy administration: requests that read, change and replace           *)
(* data.json (crates/latchgate-api/src/policy.rs, policy_allowlist.rs, and *)
(* latchgate-cli/src/cmd/policy from another process), the file they       *)
(* replace it through (latchgate-core/src/atomic.rs), the hot reload of    *)
(* the embedded evaluator, and the worker threads that evaluate on engines *)
(* they keep (latchgate-policy/src/embedded.rs).                           *)
(*                                                                         *)
(* No lock spans a request, and a client that goes away takes its handler  *)
(* with it at the await: the blocking thread that edits the file goes on,  *)
(* and nobody loads what it has written.                                   *)
(*                                                                         *)
(* The temporary file has one name, so a writer may truncate the file      *)
(* another one is writing, and may go on writing after the other has       *)
(* renamed it.  What a file holds is the set of the documents mixed in it: *)
(* it is whole when there is exactly one.                                  *)
(*                                                                         *)
(* A document is the set of its entries: an action a principal may use     *)
(* ("acl") or use without approval ("allowlist").  The sinks that follow   *)
(* from them and the version label are left out.                           *)
(***************************************************************************)
EXTENDS Integers, FiniteSets

CONSTANTS
    Principals, ActionIds,
    AdminRequests,  \* administrative requests, each made once
    Workers,        \* threads that evaluate the policy
    Original,       \* the file data.json is at first
    NoFile,
    MaxPolicyRestarts   \* bound on restarts of the gate

ASSUME PolicyAssumption ==
    /\ Principals # {} /\ ActionIds # {}
    /\ Original \notin AdminRequests /\ NoFile \notin AdminRequests \cup {Original}
    /\ MaxPolicyRestarts \in Nat

VARIABLES
    bytes,      \* file -> the documents mixed in it
    name,       \* the files that data.json and data.tmp name
    sources,    \* the evaluator: its document and generation
    request,    \* request -> what it asks for and how far it is
    worker,     \* thread -> its engine and its evaluation
    policyRestarts, \* restarts of the gate
    wanted,     \* the document if every request were one step (history)
    behind,     \* data.json was replaced by one who did not load it (history)
    overlapped  \* two requests were under way at once (history)

policyVars ==
    <<bytes, name, sources, request, worker, policyRestarts, wanted, behind, overlapped>>

Entry == {"acl", "allowlist"} \X Principals \X ActionIds
Doc == SUBSET Entry
Files == AdminRequests \cup {Original}
AnyEntry == CHOOSE e \in Entry : TRUE

GateOps == {"grant", "revoke", "allow", "disallow"}
CliOps == {"cli_grant", "cli_revoke"}

\* doc: the document read, then the one to write; file: the open temporary file;
\* did: what a reload has replaced in the gate; gone: its handler was dropped.
AdminRequest == [op : GateOps \cup CliOps \cup {"reload", "none"}, entry : Entry,
            at : {"idle", "manifests", "read", "create", "write", "rename", "load", "done"},
            doc : Doc, file : Files, did : SUBSET {"registry", "policy"}, gone : BOOLEAN]

\* seen: the sources of the evaluation; engine: the cached one; during: the
\* documents the evaluator has had since the evaluation began (history).
Engine == [doc : Doc, generation : Nat]
NoEngine == [doc |-> {}, generation |-> 0]
Worker == [at : {"idle", "snapshot", "engine", "decided"}, seen : Engine, engine : Engine,
           by : Doc, during : SUBSET Doc]

PolicyInit ==
    /\ bytes = [f \in Files |-> IF f = Original THEN {{}} ELSE {}]
    /\ name = [target |-> Original, tmp |-> NoFile]
    /\ sources = [doc |-> {}, generation |-> 1]
    /\ request = [r \in AdminRequests |-> [op |-> "none", entry |-> AnyEntry, at |-> "idle",
                                      doc |-> {}, file |-> Original, did |-> {},
                                      gone |-> FALSE]]
    /\ worker = [w \in Workers |-> [at |-> "idle", seen |-> NoEngine, engine |-> NoEngine,
                                    by |-> {}, during |-> {}]]
    /\ policyRestarts = 0
    /\ wanted = {}
    /\ behind = FALSE
    /\ overlapped = FALSE

Whole(file) == Cardinality(bytes[file]) = 1
DocIn(file) == CHOOSE d \in bytes[file] : TRUE
UnderWay(r) == request[r].at \notin {"idle", "done"}
Quiet == \A r \in AdminRequests : ~UnderWay(r)

AskFor(r, op, e) ==
    /\ request[r].at = "idle"
    /\ request' = [request EXCEPT ![r].op = op, ![r].entry = e,
                             ![r].at = IF op = "reload" THEN "manifests" ELSE "read"]
    /\ overlapped' = (overlapped \/ ~Quiet)
    /\ UNCHANGED <<bytes, name, sources, worker, policyRestarts, wanted, behind>>

--------------------------------------------------------------------------------
\* What a request makes of the document it read: the documents it may write, none
\* if it leaves the file alone.
GrantActions(doc, e) == {doc \cup {e}}

\* A principal without an entry is answered (the command line refuses).
RevokeActions(doc, e) ==
    {d \in {doc \ {e}} : \E x \in doc : x[1] = "acl" /\ x[2] = e[2]}

AddAllowlistEntry(doc, e) == {doc \cup {e}}

\* An entry that is not there is an error.
RemoveAllowlistEntry(doc, e) == {d \in {doc \ {e}} : e \in doc}

RunGrant(doc, e) == GrantActions(doc, e)
RunRevoke(doc, e) == RevokeActions(doc, e)

Edits(op, e, doc) ==
    CASE op = "grant" -> GrantActions(doc, e)
      [] op = "revoke" -> RevokeActions(doc, e)
      [] op = "allow" -> AddAllowlistEntry(doc, e)
      [] op = "disallow" -> RemoveAllowlistEntry(doc, e)
      [] op = "cli_grant" -> RunGrant(doc, e)
      [] op = "cli_revoke" -> RunRevoke(doc, e)

\* The change, made to what the requests so far should have left.
Applied(op, e) ==
    IF Edits(op, e, wanted) = {} THEN wanted ELSE CHOOSE d \in Edits(op, e, wanted) : TRUE

\* The part of data.json a request is about.
Part(op) == IF op \in {"allow", "disallow"} THEN "allowlist" ELSE "acl"

\* read_data_json and the change in memory; text that is no JSON ends the request.
ReadData(r) ==
    LET new == Edits(request[r].op, request[r].entry, DocIn(name.target)) IN
    /\ request[r].at = "read" /\ request[r].op # "reload"
    /\ IF ~Whole(name.target) \/ new = {}
       THEN request' = [request EXCEPT ![r].at = "done"]
       ELSE \E doc \in new :
              request' = [request EXCEPT ![r].at = "create", ![r].doc = doc]
    /\ UNCHANGED <<bytes, name, sources, worker, policyRestarts, wanted, behind, overlapped>>

\* atomic_write: File::create truncates the file of that name if there is one.
CreateTmp(r) ==
    LET file == IF name.tmp = NoFile THEN r ELSE name.tmp IN
    /\ request[r].at = "create"
    /\ name' = [name EXCEPT !.tmp = file]
    /\ bytes' = [bytes EXCEPT ![file] = {}]
    /\ request' = [request EXCEPT ![r].at = "write", ![r].file = file]
    /\ UNCHANGED <<sources, worker, policyRestarts, wanted, behind, overlapped>>

\* write_all from offset 0, over whatever is there: a longer text covers it, a
\* shorter one leaves the tail.
WriteTmp(r) ==
    LET q == request[r] IN
    /\ q.at = "write"
    /\ \E rest \in {{}, bytes[q.file]} : bytes' = [bytes EXCEPT ![q.file] = rest \cup {q.doc}]
    /\ request' = [request EXCEPT ![r].at = "rename"]
    /\ UNCHANGED <<name, sources, worker, policyRestarts, wanted, behind, overlapped>>

AfterRename(r) == IF request[r].op \in CliOps \/ request[r].gone THEN "done" ELSE "load"

\* Whatever file has the temporary name now; it is an error if none has.
RenameTmp(r) ==
    /\ request[r].at = "rename"
    /\ IF name.tmp = NoFile
       THEN request' = [request EXCEPT ![r].at = "done"] /\ UNCHANGED <<name, wanted, behind>>
       ELSE /\ name' = [target |-> name.tmp, tmp |-> NoFile]
            /\ wanted' = Applied(request[r].op, request[r].entry)
            /\ request' = [request EXCEPT ![r].at = AfterRename(r)]
            /\ behind' = (behind \/ AfterRename(r) = "done")
    /\ UNCHANGED <<bytes, sources, worker, policyRestarts, overlapped>>

\* A call to the file system fails, which may leave the temporary file.
FileError(r) ==
    /\ request[r].at \in {"create", "write", "rename"}
    /\ request' = [request EXCEPT ![r].at = "done"]
    /\ UNCHANGED <<bytes, name, sources, worker, policyRestarts, wanted, behind, overlapped>>

\* The client goes away: the handler is dropped at the await of its blocking task,
\* which runs to its end, or after that and before it has been polled again.
DropHandler(r) ==
    /\ request[r].op \in GateOps /\ ~request[r].gone
    /\ request[r].at \in {"read", "create", "write", "rename", "load"}
    /\ request' = [request EXCEPT ![r].gone = TRUE,
                                  ![r].at = IF @ = "load" THEN "done" ELSE @]
    /\ behind' = (behind \/ request[r].at = "load")
    /\ UNCHANGED <<bytes, name, sources, worker, policyRestarts, wanted, overlapped>>

--------------------------------------------------------------------------------

\* reload_data: what does not compile is refused, the rest gets a generation.
Loaded(doc) == [doc |-> doc, generation |-> sources.generation + 1]

\* The threads in evaluate() learn of the documents that come and go.
Observed(doc) == [w \in Workers |->
    IF worker[w].at \in {"snapshot", "engine"}
    THEN [worker[w] EXCEPT !.during = @ \cup {doc}] ELSE worker[w]]

LoadPolicy(r) ==
    /\ request[r].at = "load"
    /\ sources' = Loaded(request[r].doc)
    /\ worker' = Observed(request[r].doc)
    /\ request' = [request EXCEPT ![r].at = "done", ![r].did = @ \cup {"policy"}]
    /\ behind' = FALSE
    /\ UNCHANGED <<bytes, name, policyRestarts, wanted, overlapped>>

\* admin::reload first builds a registry from the manifests and swaps it in; one
\* that does not build ends the request.
ReloadRegistry(r) ==
    /\ request[r].at = "manifests"
    /\ \/ request' = [request EXCEPT ![r].at = "done"]
       \/ request' = [request EXCEPT ![r].at = "read", ![r].did = {"registry"}]
    /\ UNCHANGED <<bytes, name, sources, worker, policyRestarts, wanted, behind, overlapped>>

\* Then it reads data.json; the evaluator refuses what is not whole, and the
\* request is answered all the same.
ReadForReload(r) ==
    /\ request[r].at = "read" /\ request[r].op = "reload"
    /\ request' = IF Whole(name.target)
                  THEN [request EXCEPT ![r].at = "load", ![r].doc = DocIn(name.target)]
                  ELSE [request EXCEPT ![r].at = "done"]
    /\ UNCHANGED <<bytes, name, sources, worker, policyRestarts, wanted, behind, overlapped>>

--------------------------------------------------------------------------------
BeginEvaluation(w) ==
    /\ worker[w].at \in {"idle", "decided"}
    /\ worker' = [worker EXCEPT ![w].at = "snapshot", ![w].during = {sources.doc}]
    /\ UNCHANGED <<bytes, name, sources, request, policyRestarts, wanted, behind, overlapped>>

Snapshot(w) ==
    /\ worker[w].at = "snapshot"
    /\ worker' = [worker EXCEPT ![w].at = "engine", ![w].seen = sources]
    /\ UNCHANGED <<bytes, name, sources, request, policyRestarts, wanted, behind, overlapped>>

\* A variant with a fault: a worker keeps its first engine whatever the
\* snapshot says.
EngineKept(cached, seen) == IF cached.generation # 0 THEN cached ELSE seen

\* needs_build: the engine is rebuilt when its generation is not the one seen.
EngineFor(cached, seen) == IF cached.generation = seen.generation THEN cached ELSE seen

EvalRule(w) ==
    LET engine == EngineFor(worker[w].engine, worker[w].seen) IN
    /\ worker[w].at = "engine"
    /\ worker' = [worker EXCEPT ![w].at = "decided", ![w].engine = engine,
                               ![w].by = engine.doc]
    /\ UNCHANGED <<bytes, name, sources, request, policyRestarts, wanted, behind, overlapped>>

\* The evaluator panics: a denial, and the engine is thrown away.
EvalPanics(w) ==
    /\ worker[w].at = "engine"
    /\ worker' = [worker EXCEPT ![w].at = "idle", ![w].engine = NoEngine]
    /\ UNCHANGED <<bytes, name, sources, request, policyRestarts, wanted, behind, overlapped>>

\* The gate dies with its requests and comes up with the file, if that compiles.
\* The command line goes on.
RestartWithPolicy ==
    /\ policyRestarts < MaxPolicyRestarts
    /\ Whole(name.target)
    /\ policyRestarts' = policyRestarts + 1
    /\ sources' = Loaded(DocIn(name.target))
    /\ worker' = [w \in Workers |-> [worker[w] EXCEPT !.at = "idle", !.engine = NoEngine,
                                                     !.seen = NoEngine]]
    /\ request' = [r \in AdminRequests |-> IF UnderWay(r) /\ request[r].op \notin CliOps
                                      THEN [request[r] EXCEPT !.at = "done", !.did = {}]
                                      ELSE request[r]]
    /\ behind' = FALSE
    /\ UNCHANGED <<bytes, name, wanted, overlapped>>

PolicyNext ==
    \/ RestartWithPolicy
    \/ \E r \in AdminRequests :
        \/ \E op \in GateOps \cup CliOps, e \in Entry : e[1] = Part(op) /\ AskFor(r, op, e)
        \/ AskFor(r, "reload", AnyEntry)
        \/ ReadData(r) \/ CreateTmp(r) \/ WriteTmp(r) \/ RenameTmp(r) \/ FileError(r)
        \/ DropHandler(r) \/ LoadPolicy(r) \/ ReloadRegistry(r) \/ ReadForReload(r)
    \/ \E w \in Workers : BeginEvaluation(w) \/ Snapshot(w) \/ EvalRule(w) \/ EvalPanics(w)

PolicySpec == PolicyInit /\ [][PolicyNext]_policyVars

--------------------------------------------------------------------------------
\* Every variable has the shape the code gives it, and generations start at 1.
PolicyTypeOK ==
    /\ bytes \in [Files -> SUBSET Doc]
    /\ name \in [target : Files, tmp : Files \cup {NoFile}]
    /\ sources \in Engine /\ sources.generation > 0
    /\ request \in [AdminRequests -> AdminRequest]
    /\ worker \in [Workers -> Worker]
    /\ policyRestarts \in 0..MaxPolicyRestarts /\ wanted \in Doc
    /\ behind \in BOOLEAN /\ overlapped \in BOOLEAN

\* The engines the threads keep are never behind: a decision goes by a document
\* the evaluator had at some time during evaluate(), however many reloads,
\* restarts and panics there were since the thread built its engine.
EvaluationIsCurrent ==
    \A w \in Workers : worker[w].at = "decided" => worker[w].by \in worker[w].during

\* Requests that do not overlap are atomic, even if the file system fails, a client
\* goes away or the gate dies in the middle of one: data.json is always a whole
\* document, with the changes of exactly the requests that reached their rename.
\* The evaluator has them too, except those of the command line and of handlers
\* dropped before their reload (policy.rs:320, 474), and the next request that
\* loads anything brings these in as well.
AloneIsAtomic ==
    ~overlapped =>
        /\ bytes[name.target] = {wanted}
        /\ Quiet /\ ~behind => sources.doc = wanted

\* Whatever overlaps, two threads that saw the same generation saw the same
\* document: the key the engine caches go by names one policy.
GenerationNamesOnePolicy ==
    \A w \in Workers :
        /\ worker[w].engine.generation = sources.generation
             => worker[w].engine.doc = sources.doc
        /\ \A v \in Workers : worker[w].engine.generation = worker[v].engine.generation
                                => worker[w].engine.doc = worker[v].engine.doc

\* atomic.rs: "every file mutation ... MUST go through this function to guarantee
\* readers never observe partial content".
TargetIsWhole == Whole(name.target)

\* policy.rs:332: the file is written and "Hot-reload the embedded OPA evaluator"
\* follows: what a request of the gate has put in data.json is in force.
EditsTakeEffect ==
    ~overlapped /\ Quiet /\ (\A r \in AdminRequests : request[r].op \notin CliOps)
        => sources.doc = wanted

\* admin.rs: "On failure the previous state remains active - no partial reload".
ReloadIsAllOrNothing ==
    \A r \in AdminRequests :
        request[r].op = "reload" /\ request[r].at = "done"
            => request[r].did \in {{}, {"registry", "policy"}}

\* What an evaluation may rely on while operators edit and reload the policy.
PolicySafe ==
    /\ PolicyTypeOK
    /\ EvaluationIsCurrent
    /\ AloneIsAtomic
    /\ GenerationNamesOnePolicy
================================================================================
