---------------------------- MODULE MCWorkstation ----------------------------
(***************************************************************************)
(* Small instances, for TLC, of what runs beside the gate on an operator's *)
(* machine: the commands that write a project's files, bring the stack up  *)
(* and install it in an IDE, the gate's own start, and the screens of the  *)
(* console that edit these files.  Each behaviour exercises the one that   *)
(* `part` names, from its initial state; the others stay as they are.      *)
(***************************************************************************)
EXTENDS ProjectFiles, StackUp, Startup, Screens, TLC

CONSTANTS c1, c2, o1, o2, g1, g2, n1, n2, p1, s1, toml

VARIABLE part

stationVars == <<part, filesVars, stackVars, ideVars, startupVars, setupVars,
                 actionsVars, learnedVars>>

\* Processes of one kind, operators and gates are interchangeable.
StationSymmetry == Permutations({c1, c2}) \cup Permutations({o1, o2}) \cup Permutations({g1, g2})

-----------------------------------------------------------------------------
(* The install: a session on its socket with a public address, or none.      *)

OneToml == [i \in {toml} |-> "toml"]
SomeSessions == {{}, {"socket", "base", "admin"}}
SomeFlags == {{}, {"socket"}}

(* The start: a configuration that starts, and ones that differ from it.     *)

Sound == [relaxed |-> {}, cred |-> "bound", idp |-> "mapped",
          paths |-> {"receipt", "grant", "jwks"}, schema |-> "deny", store |-> "cloud",
          hooks |-> "outbox", http |-> FALSE, admin |-> FALSE, expose |-> FALSE, tls |-> 0,
          redis |-> "none", wildcard |-> "none", opa |-> FALSE, proxy |-> "addr",
          sops |-> FALSE, secrets |-> "none", agent |-> FALSE, sandbox |-> "strict"]
SomeConfs == {Sound,
              [Sound EXCEPT !.relaxed = {"schema"}, !.cred = "unbound"],
              [Sound EXCEPT !.paths = {"receipt", "grant"}],
              [Sound EXCEPT !.expose = TRUE, !.http = TRUE, !.redis = "url", !.opa = TRUE]}
Defaults == [Sound EXCEPT !.cred = "none", !.idp = "none", !.paths = {}, !.hooks = "none",
                          !.proxy = "none", !.store = "none"]

(* The screens: two of what is listed, so that a cursor can be wrong.        *)

SomeItems == [k \in {"principal", "operator", "webhook", "secret"} |->
                IF k = "principal" THEN {1, 2} ELSE {1}]
SomeDrafts == {[risk |-> 0, num |-> 0, items |-> <<>>],
               [risk |-> 1, num |-> 0, items |-> <<1, 2>>]}
TwoActions == <<1, 2>>

-----------------------------------------------------------------------------

StationInit ==
    /\ part \in {"files", "stack", "ide", "start", "setup", "actions", "learned"}
    /\ FilesInit /\ StackInit /\ IdeInit /\ StartupInit /\ SetupInit /\ ActionsInit
    /\ LearnedInit
    /\ part # "stack" => \A p \in Projects : project[p].home = "absent"
    /\ part # "ide" => /\ \A at \in DOMAIN source : source[at] = {}
                       /\ creds.token = 0 /\ ~creds.sessionKey
                       /\ file[toml].at = "absent"
    /\ part # "actions" => \A a \in ActionIds : manifests[a] = {}
    /\ \A m \in DOMAIN learned : \A a \in DOMAIN learned[m] :
          learned[m][a] # {} => part = "learned" /\ m = "domains"

\* Two commands of the stack may overlap; a third begins only after that if
\* the first two did not.
StationNext ==
    \/ /\ part = "files" /\ FilesNext
       /\ UNCHANGED <<part, stackVars, ideVars, startupVars, setupVars, actionsVars, learnedVars>>
    \/ /\ part = "stack" /\ StackNext
       /\ "overlap" \in excuses' => begun' <= 2
       /\ UNCHANGED <<part, filesVars, ideVars, startupVars, setupVars, actionsVars, learnedVars>>
    \/ /\ part = "ide" /\ IdeNext
       /\ UNCHANGED <<part, filesVars, stackVars, startupVars, setupVars, actionsVars, learnedVars>>
    \/ /\ part = "start" /\ StartupNext
       /\ UNCHANGED <<part, filesVars, stackVars, ideVars, setupVars, actionsVars, learnedVars>>
    \/ /\ part = "setup" /\ SetupNext
       /\ UNCHANGED <<part, filesVars, stackVars, ideVars, startupVars, actionsVars, learnedVars>>
    \/ /\ part = "actions" /\ ActionsNext
       /\ UNCHANGED <<part, filesVars, stackVars, ideVars, startupVars, setupVars, learnedVars>>
    \/ /\ part = "learned" /\ LearnedNext
       /\ UNCHANGED <<part, filesVars, stackVars, ideVars, startupVars, setupVars, actionsVars>>

StationSpec == StationInit /\ [][StationNext]_stationVars

-----------------------------------------------------------------------------

\* The commands of an operator: who rewrites a file keeps what is not theirs, a
\* crash leaves something that can be used, and what comes up is what was
\* configured (cmd/init, sops.rs, install.rs, cmd/up.rs, init.rs, validate.rs).
CommandsSafe ==
    /\ FilesTypeOK /\ FilesSafe /\ IdeTypeOK /\ IdeSafe
    /\ StackTypeOK /\ StackSafe /\ StartupTypeOK /\ StartupSafe
=============================================================================
