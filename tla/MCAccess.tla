------------------------------- MODULE MCAccess -------------------------------
(***************************************************************************)
(* Small instances, for TLC, of the rules that decide what a caller may    *)
(* do: authentication, the policy's rules, the guard on databases, the     *)
(* manifests and the rules on names.  Each behaviour exercises the one     *)
(* that `part` names, from its initial state; the others stay as they are. *)
(***************************************************************************)
EXTENDS Authentication, PolicyRules, DatabaseGuard, ManifestLoad, NameRules

CONSTANTS r1, r2

VARIABLE part

accessVars == <<part, authVars, rulesVars, databaseVars, loadVars, nameVars>>

-------------------------------------------------------------------------------
(* Authentication: an agent on the client socket, an operator behind TLS and a *)
(* certificate that is not on the list; a key for each.                        *)

SomeConns == {[via |-> "client", uid |-> "u1", cert |-> "none"],
              [via |-> "tls", uid |-> "none", cert |-> "c1"],
              [via |-> "tls", uid |-> "none", cert |-> "c2"]}
OneMapped == [u \in {"u1"} |-> [principal |-> "agent", scopes |-> {"call"}]]
OneOperator == <<"k2">>
OneWish == {{"call", "audit"}}
OneUrl == {[scheme |-> "https", host |-> "gate", port |-> 443, query |-> TRUE]}
CallerSymmetry == Permutations({r1, r2})

(* The policy: one harmless and one risky action, and inputs that differ from  *)
(* an ordinary call in one respect each.                                       *)

Risks == [a \in {"read", "send"} |-> IF a = "read" THEN 0 ELSE 2]
FirstSinks == [a \in {"read", "send"} |-> IF a = "read" THEN {} ELSE {"s1"}]
TwoPresets == {[grant |-> "none", limit |-> 0], [grant |-> "below", limit |-> 2]}
Ordinary == [principal |-> "p1", action |-> "read", trusted |-> TRUE,
             scopes |-> {"tools:call", "x"}, required |-> {"x"}, calls |-> 1,
             sensitive |-> FALSE, unresolvedPaths |-> FALSE, unresolvedDomains |-> FALSE]
Variants(i) == {i, [i EXCEPT !.trusted = FALSE], [i EXCEPT !.scopes = {"x"}],
                [i EXCEPT !.scopes = {"tools:call"}], [i EXCEPT !.calls = 0],
                [i EXCEPT !.sensitive = TRUE], [i EXCEPT !.unresolvedPaths = TRUE],
                [i EXCEPT !.unresolvedDomains = TRUE, !.calls = 2]}
SomeInputs ==
    UNION {Variants([Ordinary EXCEPT !.action = a]) : a \in {"read", "send"}}
    \cup {[Ordinary EXCEPT !.principal = "p2", !.action = a] : a \in {"read", "send"}}

(* The database guard: every mode, with and without a row limit.               *)

Query(v, m, w, n) == [verb |-> v, many |-> m, where |-> w, rows |-> n]
Database(mode, stmt, max) ==
    [there |-> TRUE, mode |-> mode, statements |-> [i \in {"s"} |-> stmt],
     blocked |-> {"ddl"}, approval |-> {"delete", "update"},
     without |-> {"select", "insert"}, parameterized |-> {"select", "insert"},
     where |-> {"update", "delete"}, maxRows |-> max]
OneInsert == Query("INSERT", FALSE, FALSE, 1)
TwoDeletes == Query("DELETE", FALSE, TRUE, 2)
SomeConfigs == {NoConfig, Database("strict", OneInsert, 1), Database("hybrid", TwoDeletes, 1),
                Database("parameterized", OneInsert, -1), Database("hybrid", OneInsert, 1)}
SomeRequests ==
    {NoRequest, [id |-> "s", query |-> NoSql], [id |-> "t", query |-> NoSql],
     [id |-> "s", query |-> Query("SELECT", FALSE, FALSE, 0)]}
    \cup {[id |-> "none", query |-> q] :
            q \in {Query("WITH", FALSE, FALSE, 2), Query("INSERT", FALSE, FALSE, 2),
                   Query("UPDATE", FALSE, FALSE, 2), TwoDeletes,
                   Query("DROP", FALSE, FALSE, 1), Query("INSERT", TRUE, FALSE, 1)}}

(* Manifests: good ones, one that does not parse, one whose schema is outside. *)

Low(id) == [id |-> id, parses |-> TRUE, wellFormed |-> TRUE, provider |-> "http_api",
            risk |-> 0, verifier |-> "none", fields |-> FALSE, writes |-> TRUE,
            request |-> "inline", response |-> "none", fs |-> FALSE]
High(id) == [Low(id) EXCEPT !.risk = 2, !.verifier = "http_status", !.fields = TRUE,
                            !.response = "file"]
SomeContents == {Low("a"), High("a"), [High("a") EXCEPT !.response = "none"],
                 [Low("a") EXCEPT !.parses = FALSE], [Low("b") EXCEPT !.request = "outside"]}
FirstBuiltIn == [i \in {"a", "b"} |-> IF i = "a" THEN High("a") ELSE NoManifest]
UserThenProject == <<"user", "project">>
SomeBodies == [size : {1, 2}, deep : {FALSE}, wide : {FALSE},
               conforms : BOOLEAN, envelope : BOOLEAN]

(* Names: hosts that end alike with and without a label boundary, in either    *)
(* case, with the root dot, as addresses; entries of every form; addresses on  *)
(* both sides of every documented block.                                       *)

Target(f, s, h, p) == [form |-> f, scheme |-> s, host |-> h, port |-> p]
SomeTargets ==
    { Target("url", "https", <<"api", ".", "com">>, 443),
      Target("url", "https", <<"evil-", "api", ".", "com">>, 443),
      Target("url", "http", <<"x", ".", "API", ".", "com">>, 80),
      Target("url", "https", <<"api", ".", "com", ".">>, 443),
      Target("url", "https", <<"8.8.8.8">>, 443),
      Target("url", "https", <<"10.0.0.1">>, 443),
      Target("url", "ftp", <<"dcl", ".", "com">>, 21),
      Target("url", "http", <<"sub", ".", "dcl", ".", "com">>, 8080),
      Target("url", "http", <<"dcl", ".", "com">>, 80),
      Target("bare", "none", <<"bucket">>, 443),
      Target("bare", "none", <<"x", "x", ".", "b", "_", ".", "com">>, 443) }
Fragments == {"api", "API", "com", "evil-", "x", "dcl", "DCL", "sub", "8.8.8.8", "10.0.0.1",
              "bucket", "_", "b", ".", "*", " ", "localhost"}
LowerOf == [f \in Fragments |-> CASE f = "API" -> "api" [] f = "DCL" -> "dcl" [] OTHER -> f]
V4(a, b, c) == [v |-> 4, o |-> <<a, b, c, 0>>]
V6(a, f, g) == [v |-> 6, o |-> <<a, 0, 0, 0, 0, f, g, 1>>]
Literals == [f \in {"8.8.8.8", "10.0.0.1"} |-> IF f = "8.8.8.8" THEN V4(8, 8, 8) ELSE V4(10, 0, 0)]
UpperDeclared == {<<"DCL", ".", "com">>}
SomeManual ==
    [name : {<<"*", ".", "api", ".", "com">>, <<"*", ".", "com">>, <<"localhost", ".">>,
             <<"*", ".", "x", ".", "API", ".", "com">>, <<"*", ".">>, <<".">>, <<"bucket">>,
             <<"*", ".", "x", ".", "*">>, <<"x", ".", "*">>, <<"api", ".", ".", "com">>,
             <<"x", "x", "x", ".", "com">>, <<"x", " ", ".", "com">>, <<"10.0.0.1">>},
     force : BOOLEAN]
Addresses ==
    { V4(9, 255, 255), V4(10, 0, 0), V4(11, 0, 0), V4(126, 0, 0), V4(127, 0, 0), V4(128, 0, 0),
      V4(169, 253, 0), V4(169, 254, 169), V4(169, 255, 0), V4(172, 15, 0), V4(172, 16, 0),
      V4(172, 31, 0), V4(172, 32, 0), V4(192, 0, 0), V4(192, 0, 1), V4(192, 0, 2),
      V4(192, 0, 3), V4(192, 167, 0), V4(192, 168, 0), V4(192, 169, 0), V4(100, 63, 255),
      V4(100, 64, 0), V4(100, 127, 255), V4(100, 128, 0), V4(198, 51, 99), V4(198, 51, 100),
      V4(198, 51, 101), V4(203, 0, 112), V4(203, 0, 113), V4(203, 0, 114), V4(223, 255, 255),
      V4(224, 0, 0), V4(255, 255, 255), V4(0, 0, 0), V6(0, 0, 0), V6(65151, 0, 0),
      V6(65152, 0, 0), V6(65215, 0, 0), V6(65216, 0, 0), V6(64511, 0, 0), V6(64512, 0, 0),
      V6(65023, 0, 0), V6(65279, 0, 0), V6(65280, 0, 0), V6(8193, 0, 0),
      V6(0, 65535, 2560), V6(0, 65535, 2056) }
SomeAnswers == {<<>>, <<V4(8, 8, 8), V4(10, 0, 0)>>, <<V4(10, 0, 0), V4(8, 8, 8)>>}
               \cup {<<a>> : a \in Addresses}
SomePaths == {<<"src", "f">>, <<"src", ".", "f">>, <<"", "r", "src", "f">>, <<"", "q", "f">>,
              <<"src", "..", "f">>, <<".env">>, <<"docs", ".env">>, <<"docs", "f">>,
              <<"src", "a[1]">>, <<"src", "a1">>, <<"src", "a[">>, <<"docs", "l", "f">>,
              <<".config", "latchgate", "f">>, <<"*">>, <<"", "r">>}
DocsAllowed == {<<"docs", "**">>}
EnvDenied == {<<"**", ".env">>}
OneClass == [s \in {"a[1]"} |-> {"a1"}]
RootDir == <<"", "r">>
OneLinked == {<<"docs", "l", "f">>}

-------------------------------------------------------------------------------

AccessInit ==
    /\ part \in {"auth", "rules", "database", "load", "names"}
    /\ AuthInit /\ RulesInit /\ DatabaseInit /\ LoadInit /\ NameInit
    /\ part # "auth" => replayStore = "memory"
    /\ part # "rules" => acl = BuildDataJson([grant |-> "none", limit |-> 0])
    /\ part # "database" => served = NoConfig

AccessNext ==
    \/ /\ part = "auth" /\ AuthNext
       /\ UNCHANGED <<part, rulesVars, databaseVars, loadVars, nameVars>>
    \/ /\ part = "rules" /\ RulesNext
       /\ UNCHANGED <<part, authVars, databaseVars, loadVars, nameVars>>
    \/ /\ part = "database" /\ DatabaseNext
       /\ UNCHANGED <<part, authVars, rulesVars, loadVars, nameVars>>
    \/ /\ part = "load" /\ LoadNext
       /\ UNCHANGED <<part, authVars, rulesVars, databaseVars, nameVars>>
    \/ /\ part = "names" /\ NameNext
       /\ UNCHANGED <<part, authVars, rulesVars, databaseVars, loadVars>>

AccessSpec == AccessInit /\ [][AccessNext]_accessVars

-------------------------------------------------------------------------------

\* What is declared is what is served and reached: manifests and the names of
\* hosts and paths (registry/store.rs, net/egress.rs, net/ip.rs, fs_io.rs).
DeclarationsSafe == LoadTypeOK /\ ManifestsSafe /\ NameTypeOK /\ NamesSafe
================================================================================
