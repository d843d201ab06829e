------------------------------ MODULE ProviderRun ------------------------------
(***************************************************************************)
(* Executions of provider modules (crates/latchgate-providers) and what    *)
(* they do to the world through the host: files under the root and HTTP    *)
(* requests to an origin behind the egress proxy.  The wall-clock limit    *)
(* drops the execution, not the file operation a blocking thread is in.    *)
(* The verifier (crates/latchgate-kernel verification.rs) then judges by   *)
(* the effects the host observed.                                          *)
(*                                                                         *)
(* A content stands for its bytes and its hash.  Path rules, size limits   *)
(* and the secure open are refusals without effect and are one choice.     *)
(***************************************************************************)
EXTENDS Integers, Sequences, FiniteSets

CONSTANTS
    Runs,            \* executions
    Paths,           \* paths under the root
    Contents,        \* contents a provider may write
    Torn,            \* content of a file that is created or truncated, and not written
    Missing,          \* no such file
    Unsaid,          \* no expected-before-hash, no before-hash, no after-hash
    MaxIoCalls,      \* max_io_calls
    EgressRetryMax   \* EGRESS_RETRY_MAX

ASSUME RunAssumption ==
    /\ MaxIoCalls \in Nat /\ EgressRetryMax \in Nat
    /\ Paths # {} /\ Contents # {}
    /\ Torn \notin Contents
    /\ Missing \notin Contents \cup {Torn} /\ Unsaid \notin Contents \cup {Torn, Missing}

VARIABLES
    disk,      \* per path: its content
    run,       \* per execution: where it is, the call in hand, its counters
    observed,  \* per execution: the effects the host recorded
    origin,    \* per execution: requests of it that reached the origin
    links,     \* per path: how often it was created and unlinked
    broken     \* paths of files that an I/O error left truncated (history)

runVars == <<disk, run, observed, origin, links, broken>>

Hash == Contents \cup {Torn, Unsaid}
Op == {"read", "create", "overwrite", "delete", "http"}

\* at: the guest computes, the host is in a call, or the execution is over; thread:
\* the step of a file operation; inode: the file it has open, by the number of the
\* creation that made it; sends: attempts of a request; claims: the status that the
\* provider's output reports.
Run == [at : {"guest", "call", "ok", "timeout"}, op : Op, path : Paths, new : Contents,
        expected : Contents \cup {Torn, Unsaid}, before : Hash,
        thread : {"none", "open", "write", "change"}, inode : Nat,
        calls : 0..MaxIoCalls, sends : 0..EgressRetryMax, https : 0..MaxIoCalls,
        claims : {"none", "accepted"}]

\* reached: requests that arrived, repetitions included; feigned: those that were
\* sent again because the origin's answer bore the proxy's header.
Arrivals == [reached : Nat, feigned : Nat]

\* status: whether the verifier accepts the status of an answer.
Effect == [op : Op, path : Paths, before : Hash, after : Hash,
           status : {"none", "accepted", "other"}]

RunTypeOK ==
    /\ disk \in [Paths -> Contents \cup {Torn, Missing}]
    /\ run \in [Runs -> Run]
    /\ \A r \in Runs : Len(observed[r]) <= MaxIoCalls /\ \A i \in 1..Len(observed[r]) :
                          observed[r][i] \in Effect
    /\ origin \in [Runs -> Arrivals] /\ broken \subseteq Paths
    /\ links \in [Paths -> [created : Nat, unlinked : Nat]]

Fresh == [at |-> "guest", op |-> "read", path |-> CHOOSE f \in Paths : TRUE,
          new |-> CHOOSE c \in Contents : TRUE, expected |-> Unsaid, before |-> Unsaid,
          thread |-> "none", inode |-> 0, calls |-> 0, sends |-> 0, https |-> 0,
          claims |-> "none"]

RunInit ==
    /\ disk \in [Paths -> Contents \cup {Missing}]
    /\ run = [r \in Runs |-> Fresh]
    /\ observed = [r \in Runs |-> <<>>]
    /\ origin = [r \in Runs |-> [reached |-> 0, feigned |-> 0]] /\ broken = {}
    /\ links = [f \in Paths |-> [created |-> IF disk[f] = Missing THEN 0 ELSE 1, unlinked |-> 0]]

--------------------------------------------------------------------------------

\* consume_io_call, then the checks of import, path and sink, which may refuse.
HostCall(r, op, f, c, e) ==
    /\ run[r].at = "guest" /\ run[r].calls < MaxIoCalls
    /\ run' = [run EXCEPT ![r].calls = @ + 1,
                 ![r].at = "call", ![r].op = op, ![r].path = f, ![r].new = c,
                 ![r].expected = e, ![r].before = Unsaid, ![r].sends = 0,
                 ![r].https = IF op = "http" THEN @ + 1 ELSE @,
                 ![r].thread = IF op = "http" THEN "none" ELSE "open"]
    /\ UNCHANGED <<disk, observed, origin, links, broken>>

\* A file operation returns.  The effect is recorded if the execution still waits
\* for it and it succeeded.
Back(r) == IF run[r].at = "call" THEN "guest" ELSE run[r].at

\* The execution without a call in hand: the call's arguments are gone with it.
CallEnds(r, at) ==
    run' = [run EXCEPT ![r] = [Fresh EXCEPT !.at = at, !.calls = run[r].calls,
                                            !.https = run[r].https]]

Fails(r) == CallEnds(r, Back(r))

Recorded(r, before, after, status) ==
    IF run[r].at = "call"
    THEN [observed EXCEPT ![r] = Append(@, [op |-> run[r].op, path |-> run[r].path,
                                            before |-> before, after |-> after,
                                            status |-> status])]
    ELSE observed

Succeeds(r, before, after) == Fails(r) /\ observed' = Recorded(r, before, after, "none")

Refused(r) ==
    /\ run[r].thread = "open" /\ run[r].at = "call"
    /\ Fails(r)
    /\ UNCHANGED <<disk, observed, origin, links, broken>>

--------------------------------------------------------------------------------
ReadFile(r) ==
    /\ run[r].thread = "open" /\ run[r].op = "read"
    /\ IF disk[run[r].path] = Missing THEN Fails(r) /\ UNCHANGED observed
       ELSE Succeeds(r, Unsaid, disk[run[r].path])
    /\ UNCHANGED <<disk, origin, links, broken>>

\* write_create_sync: O_CREAT and O_EXCL make one step of the test and the creation.
MayCreate(f) == disk[f] = Missing

CreateFile(r) ==
    /\ run[r].thread = "open" /\ run[r].op = "create"
    /\ LET f == run[r].path IN
       IF MayCreate(f)
       THEN /\ disk' = [disk EXCEPT ![f] = Torn]
            /\ links' = [links EXCEPT ![f].created = @ + 1]
            /\ run' = [run EXCEPT ![r].thread = "write", ![r].inode = links'[f].created]
       ELSE Fails(r) /\ UNCHANGED <<disk, links>>
    /\ UNCHANGED <<observed, origin, broken>>

\* write_overwrite_sync, first half: the content is read and compared.
HashFile(r) ==
    /\ run[r].thread = "open" /\ run[r].op = "overwrite"
    /\ LET c == disk[run[r].path] IN
       IF c = Missing \/ (run[r].expected # Unsaid /\ run[r].expected # c) THEN Fails(r)
       ELSE run' = [run EXCEPT ![r].thread = "change", ![r].before = c,
                               ![r].inode = links[run[r].path].created]
    /\ UNCHANGED <<disk, observed, origin, links, broken>>

\* The open file still has its name: it was not unlinked since, nor another file
\* created in its place.
Named(r) == disk[run[r].path] # Missing /\ links[run[r].path].created = run[r].inode

\* Second half: the file is truncated, then written.  One that has lost its name
\* is written where nobody finds it.
Truncate(r) ==
    /\ run[r].thread = "change" /\ run[r].op = "overwrite"
    /\ disk' = IF Named(r) THEN [disk EXCEPT ![run[r].path] = Torn] ELSE disk
    /\ run' = [run EXCEPT ![r].thread = "write"]
    /\ UNCHANGED <<observed, origin, links, broken>>

\* The write completes, or an I/O error leaves the file as it is.
WriteFile(r) ==
    /\ run[r].thread = "write"
    /\ \/ /\ disk' = IF Named(r) THEN [disk EXCEPT ![run[r].path] = run[r].new] ELSE disk
          /\ Succeeds(r, run[r].before, run[r].new)
          /\ broken' = IF Named(r) THEN broken \ {run[r].path} ELSE broken
       \/ /\ Fails(r) /\ UNCHANGED <<disk, observed>>
          /\ broken' = IF Named(r) THEN broken \cup {run[r].path} ELSE broken
    /\ UNCHANGED <<origin, links>>

\* delete_sync: the target is hashed if it can be, then unlinked by name.
FindTarget(r) ==
    /\ run[r].thread = "open" /\ run[r].op = "delete"
    /\ LET c == disk[run[r].path] IN
       IF c = Missing THEN Fails(r)
       ELSE \E hash \in {c, Unsaid} :
              run' = [run EXCEPT ![r].thread = "change", ![r].before = hash]
    /\ UNCHANGED <<disk, observed, origin, links, broken>>

Unlink(r) ==
    /\ run[r].thread = "change" /\ run[r].op = "delete"
    /\ LET f == run[r].path IN
       IF disk[f] = Missing THEN Fails(r) /\ UNCHANGED <<disk, observed, links, broken>>
       ELSE /\ disk' = [disk EXCEPT ![f] = Missing]
            /\ links' = [links EXCEPT ![f].unlinked = @ + 1]
            /\ broken' = broken \ {f}
            /\ Succeeds(r, run[r].before, Unsaid)
    /\ UNCHANGED origin

--------------------------------------------------------------------------------

\* A variant with a fault: a request whose answer was lost is tried again too.
RetryLostToo(reply, marked) == reply \in {"denied", "connect", "lost"} \/ marked

\* is_proxy_denial_response, e.is_connect(): an answer with x-squid-error, which the
\* proxy puts on its denials and an origin may put on its answers (marked), or a
\* failing connection.  One lost after the request was sent is not tried again.
Retryable(reply, marked) == reply \in {"denied", "connect"} \/ marked

\* Whether a request arrived; without a proxy EgressRetryMax stands for 0.
Reached(reply) == reply \in {"answer", "error", "lost"}

\* send_with_egress_retry and, with an answer to return, record_observed_effect.
Send(r, reply, marked) ==
    /\ run[r].at = "call" /\ run[r].op = "http"
    /\ marked => reply \in {"answer", "error"}
    /\ LET again == Retryable(reply, marked) /\ run[r].sends < EgressRetryMax IN
       /\ origin' = IF Reached(reply)
                    THEN [origin EXCEPT ![r].reached = @ + 1,
                                        ![r].feigned = IF marked /\ again THEN @ + 1 ELSE @]
                    ELSE origin
       /\ IF again
          THEN /\ run' = [run EXCEPT ![r].sends = @ + 1]
               /\ UNCHANGED observed
          ELSE /\ CallEnds(r, "guest")
               /\ observed' = IF reply \in {"answer", "error", "denied"}
                              THEN Recorded(r, Unsaid, Unsaid,
                                            IF reply = "answer" THEN "accepted" ELSE "other")
                              ELSE observed
    /\ UNCHANGED <<disk, links, broken>>

\* The provider returns, or the limit ends it where it stands: a request is given
\* up, a file operation goes on without it.
Return(r, claims) ==
    /\ run[r].at = "guest"
    /\ run' = [run EXCEPT ![r].at = "ok", ![r].claims = claims]
    /\ UNCHANGED <<disk, observed, origin, links, broken>>

Timeout(r) ==
    /\ run[r].at \in {"guest", "call"}
    /\ IF run[r].thread = "none" THEN CallEnds(r, "timeout")
       ELSE run' = [run EXCEPT ![r].at = "timeout"]
    /\ UNCHANGED <<disk, observed, origin, links, broken>>

FileStep(r) == \/ ReadFile(r) \/ CreateFile(r) \/ HashFile(r) \/ Truncate(r) \/ WriteFile(r)
               \/ FindTarget(r) \/ Unlink(r)

RunNext ==
    \E r \in Runs :
        \/ \E op \in Op, f \in Paths, c \in Contents :
              HostCall(r, op, f, c, Unsaid)
        \/ \E f \in Paths, c \in Contents, e \in Contents : HostCall(r, "overwrite", f, c, e)
        \/ Refused(r) \/ FileStep(r) \/ Timeout(r)
        \/ \E claims \in {"none", "accepted"} : Return(r, claims)
        \/ \E reply \in {"answer", "error", "denied", "connect", "lost"}, marked \in BOOLEAN :
              Send(r, reply, marked)

RunSpec == RunInit /\ [][RunNext]_runVars

--------------------------------------------------------------------------------
\* The first of a set of positions in what the host observed.
FirstOf(r, I) == observed[r][CHOOSE i \in I : \A j \in I : i <= j]

\* FsHashVerifier: the first effect on a file decides, by the hashes it has.
FsEffects(r) == {i \in 1..Len(observed[r]) : observed[r][i].op # "http"}

Sound(e) ==
    CASE e.op = "read" -> e.after # Unsaid
      [] e.op = "create" -> e.before = Unsaid /\ e.after # Unsaid
      [] e.op = "overwrite" -> e.before # Unsaid /\ e.after # Unsaid
      [] e.op = "delete" -> e.before # Unsaid /\ e.after = Unsaid

Verified(r) == run[r].at = "ok" /\ FsEffects(r) # {} /\ Sound(FirstOf(r, FsEffects(r)))

\* HttpStatusVerifier: the status the output reports, against the first one the host
\* observed, if it observed any.
HttpEffects(r) == {i \in 1..Len(observed[r]) : observed[r][i].op = "http"}

HttpVerified(r) ==
    /\ run[r].at = "ok" /\ run[r].claims = "accepted"
    /\ HttpEffects(r) = {} \/ FirstOf(r, HttpEffects(r)).status = "accepted"

(* What makes it correct.                                                      *)

\* Exclusive creation: between two creations of a path lies its unlinking, with any
\* number of executions at it and with file operations that outlive theirs.
CreationIsExclusive ==
    \A f \in Paths :
        links[f].created - links[f].unlinked = IF disk[f] = Missing THEN 0 ELSE 1

\* send_with_egress_retry: a request that may have reached the origin is sent again
\* only when the origin itself answered with the proxy's header, never when its
\* answer was lost, and no call more than EgressRetryMax times.
RepeatsAreMarked ==
    \A r \in Runs : /\ origin[r].reached <= run[r].https + origin[r].feigned
                    /\ origin[r].feigned <= EgressRetryMax * run[r].https

\* host_http.rs: on a retry "the request provably never reached the origin", so each
\* call reaches it at most once.  Not so of an origin that sets the header.
OriginSeesOnce == \A r \in Runs : origin[r].reached <= run[r].https

\* write_create_sync, write_overwrite_sync: while the gate lives, a file is found
\* empty only as long as the thread that emptied it is still to write it, or after
\* an I/O error; never because the execution timed out, another overwrite came
\* between the comparison and the truncation, or the file was replaced.
TornHasAWriter ==
    \A f \in Paths : disk[f] = Torn =>
        \/ f \in broken
        \/ \E r \in Runs : /\ run[r].thread = "write" /\ run[r].path = f
                           /\ run[r].inode = links[f].created

\* Host evidence is never short of what the verifier asks for: an execution that
\* returned and had an effect recorded on a file is verified, torn files and lost
\* races included, unless it first deleted a file that could not be hashed.
EvidenceIsSound ==
    \A r \in Runs : run[r].at = "ok" /\ FsEffects(r) # {} =>
        \/ Verified(r)
        \/ LET e == FirstOf(r, FsEffects(r)) IN e.op = "delete" /\ e.before = Unsaid

\* verification.rs: a verifier "never trusts the provider's self-report alone".  Not so
\* for HttpStatusVerifier, when no answer was observed, or only the first was.
NeverOnItsWordAlone ==
    \A r \in Runs : HttpVerified(r) =>
        /\ HttpEffects(r) # {}
        /\ \A i \in HttpEffects(r) : observed[r][i].status = "accepted"

\* io-fs.wit: with expected-before-hash, "overwrite succeeds only if the current
\* file's SHA-256 matches this value".
OverwriteFindsExpected ==
    [][\A r \in Runs : Truncate(r) /\ run[r].expected # Unsaid
                           => disk[run[r].path] = run[r].expected]_runVars

\* What a provider's run does to files and origins, and what its evidence says.
RunSafe ==
    /\ RunTypeOK
    /\ CreationIsExclusive
    /\ RepeatsAreMarked
    /\ TornHasAWriter
    /\ EvidenceIsSound
================================================================================
