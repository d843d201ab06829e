-------------------------------- MODULE Registry --------------------------------
(***************************************************************************)
(* The registry of actions (crates/latchgate-registry, store.rs; kernel    *)
(* init.rs and state.rs) and the calls that consult it.  A registry is     *)
(* built from layers, the manifests in the binary and those of one or two  *)
(* directories, later layers winning; admin::reload builds a new one and   *)
(* swaps it in while calls are under way.                                  *)
(*                                                                         *)
(* A directory holds for an action a manifest, nothing, or a file that     *)
(* does not load.  A manifest is known by its version, which stands for    *)
(* its digest and its schemas.                                             *)
(***************************************************************************)
EXTENDS Naturals, Sequences, FiniteSets

CONSTANTS
    Named,          \* action ids
    Manifests,      \* versions of a manifest
    Embedded,       \* Embedded[a]: the version of a in the binary, or Absent
    DigestOf,       \* DigestOf[v]: the digest of the provider module that v names
    Builtin,        \* the versions whose provider is compiled into the gate
    Schemaless,     \* the versions that declare no request schema
    Invocations,    \* calls, each made once
    Absent, Broken, \* no manifest; a file that does not load
    MaxEdits        \* bound on the edits of manifests and on restarts

ASSUME RegistryAssumption ==
    /\ Absent \notin Manifests /\ Broken \notin Manifests /\ Absent # Broken
    /\ Embedded \in [Named -> Manifests \cup {Absent}]
    /\ Builtin \subseteq Manifests /\ Schemaless \subseteq Manifests
    /\ MaxEdits \in Nat

VARIABLES
    install,    \* the posture, and whether the configuration is a project's
    files,      \* files[d][a]: what the directory d holds for a
    served,     \* the registry in use, which calls load whenever they need it
    builtFrom,  \* the files it was built from
    invocation, \* the calls under way
    edits       \* edits and restarts so far

registryVars == <<install, files, served, builtFrom, invocation, edits>>

OrAbsent == Manifests \cup {Absent}
Directories == {"user", "project"}

Unmade == [at |-> "new", action |-> Absent, manifest |-> Absent, checked |-> Absent,
           seen |-> {}]

RegistryTypeOK ==
    /\ install \in [dev : BOOLEAN, project : BOOLEAN]
    /\ files \in [Directories -> [Named -> OrAbsent \cup {Broken}]]
    /\ served \in [Named -> OrAbsent]
    /\ invocation \in
         [Invocations ->
            [at : {"new", "trust", "validate", "policy", "waiting", "prepare", "run",
                   "done", "refused"},
             action : Named \cup {Absent}, manifest : OrAbsent, checked : OrAbsent,
             seen : SUBSET OrAbsent]]

--------------------------------------------------------------------------------
\* The layers.

\* manifest_dirs: the user's directory comes before the project's.
ManifestDirs == IF install.project THEN <<"user", "project">> ELSE <<"user">>

\* manifests_dir: the one the configuration names.
Primary == ManifestDirs[Len(ManifestDirs)]

\* add_dir fails on a file that does not load; add_dir_lenient leaves it out.
Loads(dirs, lenient) ==
    \/ lenient
    \/ \A i \in 1 .. Len(dirs), a \in Named : files[dirs[i]][a] # Broken

\* What the builder has for each action after the binary's manifests and these.
Built(dirs) ==
    [a \in Named |->
        LET with == {i \in 1 .. Len(dirs) : files[dirs[i]][a] \in Manifests} IN
        IF with = {} THEN Embedded[a]
        ELSE files[dirs[CHOOSE i \in with : \A j \in with : j <= i]][a]]

\* A new registry is in place for every later look at it.
Swap(registry) ==
    /\ served' = registry /\ builtFrom' = files
    /\ invocation' = [c \in Invocations |->
          IF invocation[c].at \in {"new", "waiting", "done", "refused"} THEN invocation[c]
          ELSE [invocation[c] EXCEPT !.seen = @ \cup {registry[invocation[c].action]}]]

RegistryInit ==
    /\ install \in [dev : BOOLEAN, project : BOOLEAN]
    /\ files = [d \in Directories |-> [a \in Named |-> Absent]]
    /\ served = Embedded /\ builtFrom = files
    /\ invocation = [c \in Invocations |-> Unmade] /\ edits = 0

EditManifest(d, a) ==
    /\ edits < MaxEdits
    /\ \E f \in OrAbsent \cup {Broken} : files' = [files EXCEPT ![d][a] = f]
    /\ edits' = edits + 1
    /\ UNCHANGED <<install, served, builtFrom, invocation>>

\* admin::reload builds strictly, from the binary and the one directory.
ReloadServed ==
    /\ Loads(<<Primary>>, FALSE)
    /\ Swap(Built(<<Primary>>))
    /\ UNCHANGED <<install, files, edits>>

\* init_registry, at a start: every directory, leniently in the dev posture.  The calls
\* of the process before are gone; what waits for an operator is not.
RestartRegistry ==
    /\ edits < MaxEdits
    /\ Loads(ManifestDirs, install.dev)
    /\ served' = Built(ManifestDirs) /\ builtFrom' = files
    /\ invocation' = [c \in Invocations |->
          IF invocation[c].at \in {"trust", "validate", "policy", "prepare", "run"}
          THEN [invocation[c] EXCEPT !.at = "refused"] ELSE invocation[c]]
    /\ edits' = edits + 1
    /\ UNCHANGED <<install, files>>

--------------------------------------------------------------------------------
\* A call.

GoesOn(c, at) == invocation' = [invocation EXCEPT ![c].at = at]

\* verify_digest.  A provider that is part of the gate has no digest to compare.
Trusted(a, digest) ==
    /\ served[a] # Absent
    /\ served[a] \in Builtin \/ DigestOf[served[a]] = digest

ResolveAction(c) ==
    /\ invocation[c].at = "new"
    /\ \E a \in Named :
          invocation' = [invocation EXCEPT ![c] =
              [at |-> IF served[a] = Absent THEN "refused" ELSE "trust", action |-> a,
               manifest |-> served[a], checked |-> Absent, seen |-> {served[a]}]]
    /\ UNCHANGED <<install, files, served, builtFrom, edits>>

VerifyTrust(c) ==
    /\ invocation[c].at = "trust"
    /\ GoesOn(c, IF Trusted(invocation[c].action, DigestOf[invocation[c].manifest])
                 THEN "validate" ELSE "refused")
    /\ UNCHANGED <<install, files, served, builtFrom, edits>>

\* The validator comes from the registry served now: none when the action is gone
\* from it or declares none, and then only the size of the body is looked at.
ValidateAndHash(c) ==
    /\ invocation[c].at = "validate"
    /\ LET v == served[invocation[c].action] IN
       \/ GoesOn(c, "refused")
       \/ invocation' = [invocation EXCEPT ![c].at = "policy",
                             ![c].checked = IF v \in Schemaless THEN Absent ELSE v]
    /\ UNCHANGED <<install, files, served, builtFrom, edits>>

EvaluatePolicy(c) ==
    /\ invocation[c].at = "policy"
    /\ \E at \in {"run", "waiting", "refused"} : GoesOn(c, at)
    /\ UNCHANGED <<install, files, served, builtFrom, edits>>

\* A variant with a fault: the digest of the stored plan is taken as it was when the plan was made.
ApprovePlanAsStored(c) ==
    /\ invocation[c].at = "waiting"
    /\ invocation' = [invocation EXCEPT ![c].at = "prepare",
                                        ![c].seen = {served[invocation[c].action]}]
    /\ UNCHANGED <<install, files, served, builtFrom, edits>>

\* An operator approves: the digest of the stored plan is compared again, and then
\* the action must still be there.
ApprovePlan(c) ==
    /\ invocation[c].at = "waiting"
    /\ LET a == invocation[c].action IN
       invocation' = [invocation EXCEPT
           ![c].at = IF Trusted(a, DigestOf[invocation[c].manifest]) THEN "prepare" ELSE "refused",
           ![c].seen = {served[a]}]
    /\ UNCHANGED <<install, files, served, builtFrom, edits>>

PrepareApproved(c) ==
    /\ invocation[c].at = "prepare"
    /\ GoesOn(c, IF served[invocation[c].action] = Absent THEN "refused" ELSE "run")
    /\ UNCHANGED <<install, files, served, builtFrom, edits>>

RunProvider(c) ==
    /\ invocation[c].at = "run"
    /\ GoesOn(c, "done")
    /\ UNCHANGED <<install, files, served, builtFrom, edits>>

RegistryNext ==
    \/ \E d \in Directories, a \in Named : EditManifest(d, a)
    \/ ReloadServed \/ RestartRegistry
    \/ \E c \in Invocations :
          ResolveAction(c) \/ VerifyTrust(c) \/ ValidateAndHash(c) \/ EvaluatePolicy(c)
            \/ ApprovePlan(c) \/ PrepareApproved(c) \/ RunProvider(c)

RegistrySpec == RegistryInit /\ [][RegistryNext]_registryVars

--------------------------------------------------------------------------------
\* A module runs only if its digest was the registered one, or the provider the gate's
\* own, at a moment of the call itself: for a stored plan, after its approval.  Edits,
\* reloads and restarts while the plan waited do not let an unlisted module run.
RunsWhatIsRegistered ==
    \A c \in Invocations :
        invocation[c].at \in {"run", "done"} =>
            \E v \in invocation[c].seen \ {Absent} :
                v \in Builtin \/ DigestOf[v] = DigestOf[invocation[c].manifest]

\* In production an override in the configured directory is what is served: a registry
\* built while its file did not load would serve the manifest it was to replace.
OverrideIsServed ==
    \A a \in Named :
        LET f == builtFrom[Primary][a] IN
        /\ ~install.dev => f # Broken
        /\ f \in Manifests => served[a] = f

\* pipeline.rs, step 2: "Snapshot the registry once per pipeline run".  The request is
\* validated by the schema of the manifest the call resolved.
OneSnapshotPerRun ==
    \A c \in Invocations :
        invocation[c].at \in {"run", "done"} =>
            invocation[c].checked = (IF invocation[c].manifest \in Schemaless THEN Absent
                                     ELSE invocation[c].manifest)

\* store.rs, RegistryBuilder: the layers are the binary, the user's directory and the
\* project's.  What is served is built from all of them.
ServedHasAllLayers ==
    \A a \in Named :
        LET holding == {d \in Directories : builtFrom[d][a] \in Manifests
                                            /\ (d = "project" => install.project)} IN
        holding # {} => \E d \in holding : served[a] = builtFrom[d][a]

\* What is executed is what the registry serves, across edits and reloads.
RegistrySafe == RegistryTypeOK /\ RunsWhatIsRegistered /\ OverrideIsServed
================================================================================
