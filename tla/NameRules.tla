------------------------------ MODULE NameRules ------------------------------
(***************************************************************************)
(* The rules on host names, addresses and file paths, and the life of one  *)
(* call through them: the kernel's pre-check (steps/precheck.rs), the      *)
(* operator's approval that learns the name the call was held for          *)
(* (api/approvals.rs), and the checks the host layer makes again before it *)
(* touches the network (core net/, providers host_http.rs, host_io.rs) or  *)
(* a file (core fs_path.rs, providers fs_io.rs).                           *)
(*                                                                         *)
(* A host name is a sequence of fragments: a dot ".", a star "*" or a      *)
(* piece of a label.  Adjacent pieces make one label, so that a name may   *)
(* end like another without ending at a label boundary.  An IP literal is  *)
(* one fragment.  A path or a glob is the sequence of its segments; the    *)
(* first one is "" when it is absolute.                                    *)
(***************************************************************************)
EXTENDS Integers, Sequences, FiniteSets, SequencesExt

CONSTANTS
  Targets,             \* the targets of network calls: [form, scheme, host, port]
  Paths,            \* the paths of file calls
  Manual,           \* domain entries an operator types: [name, force]
  Lower,            \* fragment -> its lower case
  BadFragments,     \* fragments with a character no DNS label may have
  IpOf,             \* IP literal fragment -> address
  Declared,         \* allowed_domains of the manifest, as written
  Answers,          \* the address lists DNS may answer with; <<>> is a failure
  AllowedGlobs, DeniedGlobs,    \* the manifest's path patterns
  Sensitive,        \* first segments targets_sensitive_location knows
  Bracketed,        \* segment that is a character class -> what it matches
  Unclosed,         \* segments that no glob compiler accepts
  Root,             \* the session's fs_root, an absolute path
  Linked,           \* relative paths with a symbolic link on the way
  HasSecrets,       \* whether the action injects credentials
  EgressModes,      \* how gates send: "direct", or "proxied" with an egress_proxy_url
  MaxLabel, MaxName,            \* 63 and 253, in fragments
  MaxAttempts, MaxManual

ASSUME NameAssumption ==
  /\ MaxLabel \in Nat \ {0} /\ MaxName \in Nat \ {0}
  /\ MaxAttempts \in Nat /\ MaxManual \in Nat /\ HasSecrets \in BOOLEAN
  /\ EgressModes \subseteq {"direct", "proxied"}

VARIABLES
  domains,   \* learned domains of the action
  globs,     \* learned path globs of the action
  attempt,      \* the call under way
  attempts,     \* calls made so far
  typed,     \* operator commands so far
  taught     \* what approvals have learned and no command removed: input -> entry

nameVars == <<domains, globs, attempt, attempts, typed, taught>>

NoValue == [kind |-> "none"]
NoAttempt == [stage |-> "idle", input |-> NoValue, host |-> <<>>, path |-> <<>>,
         addr |-> NoValue, via |-> "none", outcome |-> "none", entries |-> {}]

-----------------------------------------------------------------------------
(* Text of host names                                                      *)

Has(s, x) == \E i \in DOMAIN s : s[i] = x

LowerCase(s) == [i \in DOMAIN s |-> Lower[s[i]]]

EndsWith(s, t) == /\ Len(s) >= Len(t)
                  /\ SubSeq(s, Len(s) - Len(t) + 1, Len(s)) = t

DropDot(s) == IF s # <<>> /\ Last(s) = "." THEN Front(s) ELSE s

Wild(s) == Len(s) >= 2 /\ s[1] = "*" /\ s[2] = "."

Suffix(s) == SubSeq(s, 3, Len(s))

Dots(s) == Cardinality({i \in DOMAIN s : s[i] = "."})

\* The runs of fragments between dots, first and last fragment of each.
LabelSpans(s) ==
  {<<a, b>> \in (1..(Len(s) + 1)) \X (0..Len(s)) :
     /\ b >= a - 1
     /\ \A i \in a..b : s[i] # "."
     /\ (a = 1 \/ s[a - 1] = ".")
     /\ (b = Len(s) \/ s[b + 1] = ".")}

\* DomainValidationError::Empty, TooLong, EmptyLabel, LabelTooLong and
\* InvalidCharacter all refuse the entry; which one is left out.
ValidateDomainLabels(s) ==
  /\ Len(s) <= MaxName
  /\ \A sp \in LabelSpans(s) : sp[2] >= sp[1] /\ sp[2] - sp[1] < MaxLabel
  /\ \A i \in DOMAIN s : s[i] \notin BadFragments

Invalid == [ok |-> FALSE, name |-> <<>>, wild |-> FALSE]

NormalizeAndValidateSyntax(raw) ==
  LET n == DropDot(LowerCase(raw))
  IN  CASE n = <<>> \/ Has(raw, " ") -> Invalid
        [] Wild(n) ->
             IF /\ ~Has(Suffix(n), "*")
                /\ Has(Suffix(n), ".")
                /\ ValidateDomainLabels(Suffix(n))
             THEN [ok |-> TRUE, name |-> n, wild |-> TRUE] ELSE Invalid
        [] ~Wild(n) /\ Has(n, "*") -> Invalid
        [] OTHER -> [ok |-> TRUE, name |-> n, wild |-> FALSE]

IsSafeWildcardSuffix(s) == Dots(s) >= 2

IsLiteral(n) == Len(n) = 1 /\ n[1] \in DOMAIN IpOf

-----------------------------------------------------------------------------
(* Addresses                                                               *)

\* is_private_ip for IPv4, on the octets as the code compares them.
IsPrivateV4(o) ==
  \/ o[1] = 127
  \/ o[1] = 10
  \/ o[1] = 172 /\ o[2] \in 16..31
  \/ o[1] = 192 /\ o[2] = 168
  \/ o[1] = 169 /\ o[2] = 254
  \/ o = <<0, 0, 0, 0>>
  \/ o[1] = 100 /\ (o[2] \div 64) * 64 = 64
  \/ o[1] = 192 /\ o[2] = 0 /\ o[3] \in {0, 2}
  \/ o[1] = 198 /\ o[2] = 51 /\ o[3] = 100
  \/ o[1] = 203 /\ o[2] = 0 /\ o[3] = 113
  \/ o[1] >= 224

\* to_ipv4_mapped: ::ffff:a.b.c.d only.
MappedV4(s) == <<s[7] \div 256, s[7] % 256, s[8] \div 256, s[8] % 256>>
IsMapped(s) == (\A i \in 1..5 : s[i] = 0) /\ s[6] = 65535

IsPrivateIp(a) ==
  \/ a.v = 4 /\ IsPrivateV4(a.o)
  \/ /\ a.v = 6
     /\ \/ a.o \in {<<0, 0, 0, 0, 0, 0, 0, 0>>, <<0, 0, 0, 0, 0, 0, 0, 1>>}
        \/ a.o[1] \div 64 = 65152 \div 64          \* fe80::/10
        \/ a.o[1] \div 512 = 64512 \div 512        \* fc00::/7
        \/ a.o[1] \div 256 = 255                   \* ff00::/8
        \/ IsMapped(a.o) /\ IsPrivateV4(MappedV4(a.o))

-----------------------------------------------------------------------------
(* Domain entries and how a host is matched against them                   *)

ValidateDomainEntry(raw, force) ==
  LET n == NormalizeAndValidateSyntax(raw)
  IN  IF ~n.ok THEN Invalid
      ELSE IF n.wild
           THEN IF IsSafeWildcardSuffix(Suffix(n.name)) \/ force THEN n ELSE Invalid
      ELSE IF n.name = <<"localhost">> THEN Invalid
      ELSE IF IsLiteral(n.name)
           THEN IF IsPrivateIp(IpOf[n.name[1]]) THEN Invalid ELSE n
      ELSE IF Has(n.name, ".") /\ ValidateDomainLabels(n.name) THEN n ELSE Invalid

ValidateManifestDomainEntry(raw) ==
  LET n == NormalizeAndValidateSyntax(raw)
  IN  IF n.ok /\ ~n.wild /\ ~IsLiteral(n.name) /\ Has(n.name, ".")
         /\ ~ValidateDomainLabels(n.name)
      THEN Invalid ELSE n

\* The byte before the suffix is the dot that makes it a label boundary.
AtBoundary(host, t) ==
  /\ Len(host) > Len(t) + 1
  /\ host[Len(host) - Len(t)] = "."
  /\ EndsWith(host, t)

\* A variant with a fault: a suffix matches without a label boundary.
MatchesEntryAnywhere(host, e) ==
  IF Wild(e) THEN EndsWith(host, Suffix(e)) ELSE EndsWith(host, e)

MatchesEntry(host, e) ==
  IF Wild(e) THEN Suffix(e) # <<>> /\ AtBoundary(host, Suffix(e))
             ELSE host = e \/ AtBoundary(host, e)

LowercaseAllowlist(es) == {LowerCase(e) : e \in es}

FindMatchingEntry(host, es) ==
  {e \in LowercaseAllowlist(es) : MatchesEntry(LowerCase(host), e)}

HostMatches(host, es) == FindMatchingEntry(host, es) # {}

\* parse_host_from_url: "" (here <<>>) when no host can be told.
ParseHostFromUrl(u) ==
  IF u.form \in {"url", "email"} \/ Has(u.host, ".") THEN LowerCase(u.host) ELSE <<>>

\* host_io::extract_host returns a bare target as it is.
ExtractHost(u) == u.host

-----------------------------------------------------------------------------
(* Path patterns                                                           *)

\* One segment of a compiled pattern against one segment of a path.
SegmentMatches(p, s) ==
  CASE p = "*" -> s # ""
    [] p \in DOMAIN Bracketed -> s \in Bracketed[p]
    [] OTHER -> p = s

\* literal_separator(true): only ** crosses a slash.
GlobMatches(g, path) ==
  LET m[i \in 0..Len(g), j \in 0..Len(path)] ==
        IF i = 0 THEN j = 0
        ELSE IF g[i] = "**"
             THEN m[i - 1, j] \/ (j > 0 /\ m[i, j - 1])
             ELSE j > 0 /\ m[i - 1, j - 1] /\ SegmentMatches(g[i], path[j])
  IN  m[Len(g), Len(path)]

Compiles(g) == \A i \in DOMAIN g : g[i] \notin Unclosed

\* compile_patterns stops at the first error; both callers take
\* unwrap_or_default of it.
CompiledLearned(gs) == IF \A g \in gs : Compiles(g) THEN gs ELSE {}

EvaluatePath(path, allowed, denied) ==
  IF \E g \in denied : GlobMatches(g, path) THEN "denied"
  ELSE IF \E g \in allowed : GlobMatches(g, path) THEN "allowed"
  ELSE "not matched"

AllowedNow == AllowedGlobs \cup CompiledLearned(globs)

Absolute(p) == p # <<>> /\ p[1] = ""

TargetsSensitiveLocation(g) ==
  \/ g[1] \in Sensitive
  \/ Len(g) >= 2 /\ g[1] = ".config" /\ g[2] = "latchgate"

ValidatePathGlobEntry(g) ==
  /\ g # <<>>
  /\ ~Absolute(g)
  /\ g \notin {<<"*">>, <<"**">>, <<"**", "*">>}
  /\ ~Has(g, "..")
  /\ ~TargetsSensitiveLocation(g)

\* relativize_to_root and resolve_learn_path: <<>> where they refuse.
ResolveLearnPath(p) ==
  IF ~Absolute(p) THEN p
  ELSE IF Len(p) > Len(Root) /\ SubSeq(p, 1, Len(Root)) = Root
       THEN SubSeq(p, Len(Root) + 1, Len(p))
       ELSE <<>>

\* validate_path_string
ValidatePathString(p) == p # <<>> /\ ~Absolute(p) /\ ~Has(p, "..")

\* The canonical path of an opened file, relative to the root.
Canonical(p) == SelectSeq(p, LAMBDA s : s \notin {"", "."})

-----------------------------------------------------------------------------
(* Calls                                                                   *)

IsNet(input) == input.kind = "net"

Effective == Declared \cup domains

NameInit == /\ domains = {} /\ globs = {} /\ attempt = NoAttempt
            /\ attempts = 0 /\ typed = 0 /\ taught = <<>>

BeginAttempt(input, stage, host) ==
  /\ attempts < MaxAttempts
  /\ attempt' = [NoAttempt EXCEPT !.stage = stage, !.input = input, !.host = host,
                      !.entries = Effective]
  /\ attempts' = attempts + 1
  /\ UNCHANGED <<domains, globs, typed, taught>>

\* step_domain_precheck: a host that cannot be told is left to the host layer.
DomainPrecheck(u) ==
  /\ attempt.stage \in {"idle", "done"}
  /\ LET h == ParseHostFromUrl(u)
     IN  BeginAttempt([kind |-> "net", url |-> u],
               IF h = <<>> \/ HostMatches(h, Effective) THEN "run" ELSE "held", h)

\* step_path_precheck: a denied path goes on to policy, which sees fs_path;
\* only an unmatched one is unresolved.
PathPrecheck(p) ==
  /\ attempt.stage \in {"idle", "done"}
  /\ BeginAttempt([kind |-> "path", path |-> p],
           IF EvaluatePath(p, AllowedNow, DeniedGlobs) = "not matched" THEN "held" ELSE "run",
           <<>>)

\* approve_call learns the first unresolved name before it executes; a name
\* the ledger refuses is only logged.
ApproveDomain ==
  /\ attempt.stage = "held" /\ IsNet(attempt.input)
  /\ LET n == ValidateDomainEntry(attempt.host, FALSE)
     IN  IF n.ok
         THEN /\ domains' = domains \cup {n.name}
              /\ taught' = [i \in DOMAIN taught \cup {attempt.input} |->
                              IF i = attempt.input THEN n.name ELSE taught[i]]
         ELSE UNCHANGED <<domains, taught>>
  /\ attempt' = [attempt EXCEPT !.stage = "run"]
  /\ UNCHANGED <<globs, attempts, typed>>

\* A path that cannot be made relative, or makes no valid glob, is refused
\* with the approval already claimed.
ApprovePath ==
  /\ attempt.stage = "held" /\ ~IsNet(attempt.input)
  /\ LET g == ResolveLearnPath(attempt.input.path)
     IN  IF ValidatePathGlobEntry(g)
         THEN /\ globs' = globs \cup {g}
              /\ taught' = [i \in DOMAIN taught \cup {attempt.input} |->
                              IF i = attempt.input THEN g ELSE taught[i]]
              /\ attempt' = [attempt EXCEPT !.stage = "run"]
         ELSE /\ attempt' = [attempt EXCEPT !.stage = "done", !.outcome = "bad request"]
              /\ UNCHANGED <<globs, taught>>
  /\ UNCHANGED <<domains, attempts, typed>>

DenyAttempt == /\ attempt.stage = "held"
        /\ attempt' = [attempt EXCEPT !.stage = "done", !.outcome = "denied"]
        /\ UNCHANGED <<domains, globs, attempts, typed, taught>>

EndAttempt(why) == attempt' = [attempt EXCEPT !.stage = "done", !.outcome = why]

\* validate_http_preconditions: sink, then https where credentials go along.
ValidateHttpPreconditions ==
  /\ attempt.stage = "run" /\ IsNet(attempt.input)
  /\ LET u == attempt.input.url
     IN  IF ~HostMatches(ExtractHost(u), Effective) THEN EndAttempt("sink")
         ELSE IF HasSecrets /\ u.scheme # "https" THEN EndAttempt("needs https")
         ELSE attempt' = [attempt EXCEPT !.stage = "resolve", !.entries = Effective]
  /\ UNCHANGED <<domains, globs, attempts, typed, taught>>

\* resolve_and_check_ssrf with strict options, and build_ssrf_safe_client: the
\* address is pinned in a client of its own, unless there is a proxy, whose
\* client knows only the name.
ResolveAndCheckSsrf(answer, via) ==
  /\ attempt.stage = "resolve"
  /\ LET u == attempt.input.url
     IN  IF u.scheme \notin {"http", "https"} THEN EndAttempt("scheme")
         ELSE IF u.port \notin {443, 80} THEN EndAttempt("port")
         ELSE IF answer = <<>> THEN EndAttempt("dns")
         ELSE IF \E i \in DOMAIN answer : IsPrivateIp(answer[i]) THEN EndAttempt("private")
         ELSE attempt' = [attempt EXCEPT !.stage = "pinned", !.via = via,
                                         !.addr = IF via = "direct" THEN answer[1] ELSE NoValue]
  /\ UNCHANGED <<domains, globs, attempts, typed, taught>>

\* The client connects to the pinned address: DNS is not asked again.
ConnectPinned == /\ attempt.stage = "pinned" /\ attempt.via = "direct"
           /\ EndAttempt("sent")
           /\ UNCHANGED <<domains, globs, attempts, typed, taught>>

\* What the proxy's configuration, as `latchgate up` writes it, refuses by
\* address: loopback, three private networks, carrier NAT and the metadata host.
ProxyDenies(a) ==
  \/ a.v = 4 /\ \/ a.o[1] \in {10, 127} \/ a.o = <<0, 0, 0, 0>>
                \/ a.o[1] = 172 /\ a.o[2] \in 16..31
                \/ a.o[1] = 192 /\ a.o[2] = 168
                \/ a.o[1] = 100 /\ a.o[2] \in 64..127
                \/ a.o = <<169, 254, 169, 254>>
  \/ a.v = 6 /\ a.o = <<0, 0, 0, 0, 0, 0, 0, 1>>

\* The proxy is given the name and asks DNS again, for an answer of its own.
ConnectThroughProxy(answer) ==
  /\ attempt.stage = "pinned" /\ attempt.via = "proxied"
  /\ IF answer = <<>> \/ \E i \in DOMAIN answer : ProxyDenies(answer[i])
     THEN EndAttempt("proxy")
     ELSE attempt' = [attempt EXCEPT !.stage = "done", !.outcome = "sent", !.addr = answer[1]]
  /\ UNCHANGED <<domains, globs, attempts, typed, taught>>

\* validate_and_precheck, secure_open and the check of the canonical path.
OpenPath ==
  /\ attempt.stage = "run" /\ ~IsNet(attempt.input)
  /\ LET p == attempt.input.path
         c == Canonical(p)
     IN  IF ~ValidatePathString(p) THEN EndAttempt("invalid path")
         ELSE IF EvaluatePath(p, AllowedNow, DeniedGlobs) # "allowed" THEN EndAttempt("path")
         ELSE IF c = <<>> \/ c \in Linked THEN EndAttempt("open")
         ELSE IF EvaluatePath(c, AllowedNow, DeniedGlobs) # "allowed" THEN EndAttempt("canonical")
         ELSE attempt' = [attempt EXCEPT !.stage = "done", !.outcome = "opened", !.path = c]
  /\ UNCHANGED <<domains, globs, attempts, typed, taught>>

\* latchgate domains add, with or without --force.
AddDomain(m) ==
  /\ typed < MaxManual
  /\ ValidateDomainEntry(m.name, m.force).ok
  /\ domains' = domains \cup {ValidateDomainEntry(m.name, m.force).name}
  /\ typed' = typed + 1
  /\ UNCHANGED <<globs, attempt, attempts, taught>>

Forget(e) == [i \in {j \in DOMAIN taught : taught[j] # e} |-> taught[i]]

RemoveDomain(d) ==
  /\ typed < MaxManual /\ d \in domains
  /\ domains' = domains \ {d}
  /\ taught' = Forget(d)
  /\ typed' = typed + 1
  /\ UNCHANGED <<globs, attempt, attempts>>

RemovePath(g) ==
  /\ typed < MaxManual /\ g \in globs
  /\ globs' = globs \ {g}
  /\ taught' = Forget(g)
  /\ typed' = typed + 1
  /\ UNCHANGED <<domains, attempt, attempts>>

NameNext ==
  \/ \E u \in Targets : DomainPrecheck(u)
  \/ \E p \in Paths : PathPrecheck(p)
  \/ ApproveDomain \/ ApprovePath \/ DenyAttempt
  \/ ValidateHttpPreconditions
  \/ \E a \in Answers : ConnectThroughProxy(a) \/ \E via \in EgressModes : ResolveAndCheckSsrf(a, via)
  \/ ConnectPinned \/ OpenPath
  \/ \E m \in Manual : AddDomain(m)
  \/ \E d \in domains : RemoveDomain(d)
  \/ \E g \in globs : RemovePath(g)

NameSpec == NameInit /\ [][NameNext]_nameVars

-----------------------------------------------------------------------------
(* Properties                                                              *)

\* Every variable has its type: the type invariant of this module.
NameTypeOK ==
  /\ attempts \in 0..MaxAttempts /\ typed \in 0..MaxManual
  /\ attempt.stage \in {"idle", "held", "run", "resolve", "pinned", "done"}
  /\ \A i \in DOMAIN taught : taught[i] \in domains \cup globs

\* The labels of a name, last one first, each as its run of fragments.
Labels(s) ==
  LET starts == {i \in 1..Len(s) : i = 1 \/ s[i - 1] = "."}
      order  == SetToSortSeq(starts, LAMBDA a, b : a > b)
      end(a) == CHOOSE b \in a..Len(s) :
                  /\ \A i \in a..b : s[i] # "."
                  /\ (b = Len(s) \/ s[b + 1] = ".")
  IN  [k \in DOMAIN order |-> SubSeq(s, order[k], end(order[k]))]

\* What an entry is meant to cover, label by label and with no regard to how
\* the text is compared: the name itself or anything below it, and for a
\* wildcard only what is below it.
Covers(e, host) ==
  LET le == Labels(IF Wild(e) THEN Suffix(e) ELSE e)
      lh == Labels(host)
  IN  /\ Len(lh) >= Len(le) + (IF Wild(e) THEN 1 ELSE 0)
      /\ \A k \in DOMAIN le : lh[k] = le[k]

\* The blocks the documentation of is_private_ip lists, as ranges of the
\* first three octets read as one number; the local networks come first.
Octets3(o) == o[1] * 65536 + o[2] * 256 + o[3]
LocalBlocks ==
  { <<127 * 65536, 128 * 65536 - 1>>, <<10 * 65536, 11 * 65536 - 1>>,
    <<172 * 65536 + 16 * 256, 172 * 65536 + 32 * 256 - 1>>,
    <<192 * 65536 + 168 * 256, 192 * 65536 + 169 * 256 - 1>> }
DocumentedBlocks ==
  LocalBlocks \cup
  { <<169 * 65536 + 254 * 256, 169 * 65536 + 255 * 256 - 1>>,
    <<100 * 65536 + 64 * 256, 100 * 65536 + 128 * 256 - 1>>,
    <<192 * 65536, 192 * 65536>>, <<192 * 65536 + 2, 192 * 65536 + 2>>,
    <<198 * 65536 + 51 * 256 + 100, 198 * 65536 + 51 * 256 + 100>>,
    <<203 * 65536 + 113, 203 * 65536 + 113>>,
    <<224 * 65536, 256 * 65536 - 1>> }
Documented(a) ==
  IF a.v = 4
  THEN a.o = <<0, 0, 0, 0>> \/ \E b \in DocumentedBlocks : Octets3(a.o) \in b[1]..b[2]
  ELSE \/ \A i \in 1..7 : a.o[i] = 0 /\ a.o[8] \in {0, 1}
       \/ a.o[1] \in 65152..65215 \/ a.o[1] \in 64512..65023 \/ a.o[1] >= 65280
       \/ /\ IsMapped(a.o)
          /\ \E b \in DocumentedBlocks : Octets3(MappedV4(a.o)) \in b[1]..b[2]

\* A request leaves only for a host that an entry covered when its sink was
\* checked; sent directly it goes to an address outside every documented block,
\* and sent through the proxy at least not to loopback or a private network,
\* whatever DNS answers the second time.  A call is held for approval only if
\* no entry covers its host.  (A host written with the root dot matches
\* nothing, as a test of host_io.rs wants.)
SentIsCovered ==
  /\ attempt.outcome = "sent" =>
       /\ attempt.input.url.scheme \in {"http", "https"}
       /\ \E e \in attempt.entries : Covers(LowerCase(e), LowerCase(attempt.input.url.host))
       /\ attempt.via = "direct" => ~Documented(attempt.addr)
       /\ attempt.addr.v = 4 =>
            \A b \in LocalBlocks : Octets3(attempt.addr.o) \notin b[1]..b[2]
  /\ attempt.stage = "held" /\ IsNet(attempt.input) /\ Last(attempt.host) # "." =>
       ~\E e \in attempt.entries : Covers(LowerCase(e), attempt.host)

\* What build_ssrf_safe_client says of itself (host_http.rs:189-190): "DNS is
\* resolved once and pinned at the transport layer, closing the TOCTOU window
\* between resolution and connection".  Through the proxy it is not.
SentIsPinned ==
  attempt.outcome = "sent" => ~Documented(attempt.addr)

\* Every learned domain is in normal form: validating it again yields the
\* same name, a manifest could declare it unchanged, and it names at least
\* two labels or one public address.
LearnedIsNormal ==
  \A d \in domains :
    /\ ValidateDomainEntry(d, TRUE).name = d
    /\ ValidateManifestDomainEntry(d).name = d
    /\ IsLiteral(d) \/ Len(Labels(IF Wild(d) THEN Suffix(d) ELSE d)) >= 2

\* An opened file lies below the root, matches a declared or learned pattern
\* and no denied one, and no learned pattern leaves the root or names a
\* sensitive place first.
OpenedIsContained ==
  /\ attempt.outcome = "opened" =>
       /\ ~Has(attempt.path, "..") /\ ~Has(attempt.path, "") /\ attempt.path \notin Linked
       /\ ~\E g \in DeniedGlobs : GlobMatches(g, attempt.path)
  /\ \A g \in globs : ~Has(g, "..") /\ ~Absolute(g) /\ g[1] \notin Sensitive

\* The three together.
NamesSafe == SentIsCovered /\ LearnedIsNormal /\ OpenedIsContained

\* What resolve_learn_path says of itself (api/approvals.rs:435-440): the
\* learned glob bridges the gap to the path the agent sends.  A path that an
\* approval has taught is then no longer held.
LearnedPathIsFound ==
  attempt.stage = "held" /\ ~IsNet(attempt.input) => attempt.input \notin DOMAIN taught

\* What approve_call says of learning a domain first (api/approvals.rs:655-657):
\* the execution finds the newly learned entry.
LearnedHostRuns ==
  attempt.outcome = "sink" => attempt.input \notin DOMAIN taught

=============================================================================
