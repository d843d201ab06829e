----------------------------- MODULE ExpiryScanner -----------------------------
(***************************************************************************)
(* The background task that announces expired approvals (crates/           *)
(* latchgate-api expiry.rs) over the approval store.  Every SCAN_INTERVAL  *)
(* it lists pending approvals, newest first and at most ScanLimit, emits   *)
(* one event for each whose plan has expired and that is not yet in        *)
(* `emitted`, and forgets the ids that the list no longer shows.  The set  *)
(* is in memory: the scanner of a restarted gate begins with none.         *)
(***************************************************************************)
EXTENDS ApprovalStore, Sequences

CONSTANT ScanLimit      \* SCAN_LIMIT

ASSUME ScannerAssumption == ScanLimit \in Nat \ {0}

VARIABLES
    emitted,    \* ids the scanner remembers
    notices,    \* approval -> approval.expired events emitted since the gate started
    earlier,    \* approvals announced by the scanners of earlier lives of the gate
    born,       \* approvals in the order of creation, oldest first
    crowded     \* some list was cut off at ScanLimit

scannerVars == <<now, rec, issued, emitted, notices, earlier, born, crowded>>

\* list_approvals(Pending): what each backend lists.  Redis has lost the key when
\* its TTL is over, the memory store skips what is too old, SQLite lists all rows.
Listed(a) ==
    /\ Exists(a) /\ rec[a].state = "pending"
    /\ Backend = "memory" => now < rec[a].expiresAt

CreatedAfter(a) == {b \in Approvals : \E i, j \in DOMAIN born :
                                         i < j /\ born[i] = a /\ born[j] = b}

\* ORDER BY created_at DESC, then the limit.
ListApprovals ==
    {a \in Approvals : /\ Listed(a)
                       /\ Cardinality({b \in CreatedAfter(a) : Listed(b)}) < ScanLimit}

ScannerInit ==
    /\ Init
    /\ emitted = {} /\ notices = [a \in Approvals |-> 0] /\ earlier = {}
    /\ born = <<>> /\ crowded = FALSE

NewlyExpired == {a \in ListApprovals \ emitted : now >= rec[a].plan}

\* scan_once: emit for the newly expired, then prune what the list does not show.
\* When the store cannot be reached it returns at once and changes nothing.
ScanOnce ==
    /\ notices' = [a \in Approvals |-> IF a \in NewlyExpired THEN notices[a] + 1
                                                             ELSE notices[a]]
    /\ emitted' = (emitted \cup NewlyExpired) \cap ListApprovals
    /\ crowded' = (crowded \/ ListApprovals # {a \in Approvals : Listed(a)})
    /\ UNCHANGED <<now, rec, issued, earlier, born>>

\* spawn_expiry_scanner in a gate that was restarted; the in-memory store would have
\* gone with the gate.
RestartScanner ==
    /\ Backend # "memory"
    /\ emitted' = {} /\ notices' = [a \in Approvals |-> 0]
    /\ earlier' = earlier \cup {a \in Approvals : notices[a] > 0}
    /\ UNCHANGED <<now, rec, issued, born, crowded>>

Created == {a \in Approvals : rec[a].state = "absent" /\ rec'[a].state # "absent"}

\* A step of the store's other clients, or of time.
StoreStep ==
    /\ Next
    /\ born' = IF Created = {} THEN born ELSE Append(born, CHOOSE a \in Created : TRUE)
    /\ UNCHANGED <<emitted, notices, earlier, crowded>>

ScannerNext == StoreStep \/ ScanOnce \/ RestartScanner

\* The sleep between two scans ends, and the store can be reached again and again.
ScannerFairness == WF_scannerVars(ScanOnce)

ScannerSpec == ScannerInit /\ [][ScannerNext]_scannerVars

--------------------------------------------------------------------------------
(* What makes it correct.                                                      *)

\* A scanner announces an approval twice only if a list was cut off, so that its id
\* was pruned while it was still pending.
AnnouncedOnce == \A a \in Approvals : notices[a] > 1 => crowded

\* expiry.rs: "A HashSet of emitted IDs prevents duplicate notifications".  Not so
\* across a restart: what is still pending is announced again.
NeverAnnouncedAgain == \A a \in earlier : notices[a] = 0

\* Only what nobody can still decide in time is announced: an announced approval
\* was past the expiry of its plan, which every later execution checks.
AnnouncedIsExpired == \A a \in Approvals : notices[a] > 0 => now >= rec[a].plan

\* An expired approval that the store still lists is announced, also by a scanner
\* that was restarted, as long as the lists are complete.  SQLite lists it until it is
\* decided.
ExpiredIsAnnounced ==
    \A a \in Approvals :
        (Listed(a) /\ now >= rec[a].plan) ~> (notices[a] > 0 \/ ~Listed(a) \/ crowded)

\* expiry.rs: "fires a domain event for each newly-expired approval".  Not so on Redis
\* and in memory, whose lists drop an approval at the very moment it expires.
EveryExpiryIsAnnounced ==
    \A a \in Approvals :
        (rec[a].state = "pending" /\ now >= rec[a].plan)
            ~> (notices[a] > 0 \/ rec[a].state # "pending" \/ crowded)

\* What those two backends do: no expiry is ever announced.
SilentExpiry == Backend # "sqlite" => \A a \in Approvals : notices[a] = 0

\* Expiry is announced once in a life of the gate, and only when it happened.
ScannerSafe == AnnouncedOnce /\ AnnouncedIsExpired
================================================================================
