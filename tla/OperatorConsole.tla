---------------------------- MODULE OperatorConsole ----------------------------
(***************************************************************************)
(* The operator's terminal console (crates/latchgate-tui): the event loop  *)
(* of app.rs and the approvals screen of approvals.rs.  The loop is one    *)
(* thread: it draws, then either polls the gate or takes one key, and does *)
(* not look at the keyboard while it awaits the gate.  Keys wait in the    *)
(* terminal meanwhile, so a key may be handled against a list that is not  *)
(* the one its operator was looking at.                                    *)
(*                                                                         *)
(* `view` is the approvals screen and `app` the rest of the console.  The  *)
(* approval the last frame highlighted (`drawn`) and the one highlighted   *)
(* when a key was pressed are the operator's own state: an open dialog     *)
(* asks about "this request" and names none, so the highlight behind it    *)
(* is all that says which approval is decided.                             *)
(***************************************************************************)
EXTENDS Naturals, Sequences, FiniteSets, SequencesExt

CONSTANTS
    ApprovalIds,      \* approval ids
    Unresolved,     \* those whose request names a domain no allowlist has
    PageSize,       \* how many approvals the gate lists at most
    MaxTyped        \* bound on the keys waiting to be handled

ASSUME ConsoleAssumption ==
    /\ Unresolved \subseteq ApprovalIds
    /\ PageSize \in Nat \ {0} /\ MaxTyped \in Nat

VARIABLES
    asked,      \* the gate's approvals, newest first: [id, status]
    app,        \* where the loop is and what it routes keys to
    view,       \* the approvals screen
    drawn,      \* the approval the last frame highlighted
    typed       \* keys pressed and not yet handled, with what was on screen then

consoleVars == <<asked, app, view, drawn, typed>>

Nobody == "nobody"
OrNobody == ApprovalIds \cup {Nobody}

\* The keys the console tells apart.  "a" stands for l too, which opens the same dialog
\* for an approval with an unresolved domain, "esc" for every key without a meaning of
\* its own, and "word" for the word REVOKE and Enter.
Keystrokes == {"up", "down", "a", "d", "f", "y", "enter", "esc", "tab", "R", "S", "word"}

\* An open dialog has its approval, the one whose domain is to be learned, and whether
\* a poll since it opened had a list without its approval; one that was answered also
\* has the approval highlighted when the answer was typed.
NoDialog == [kind |-> "none", id |-> Nobody, learns |-> Nobody, gone |-> FALSE]
Unsent == [dialog |-> NoDialog, shown |-> Nobody, alone |-> FALSE]

SelectedId(v) == IF v.sel \in 1 .. Len(v.list) THEN v.list[v.sel].id ELSE Nobody

Dialogs == [kind : {"none", "approve", "deny"}, id : OrNobody, learns : OrNobody,
            gone : BOOLEAN]
Listed == [id : ApprovalIds, status : {"pending", "settled"}]

\* Types, with the fact the screen's indexing rests on: the selection is a row of the
\* list whenever there is one.
ConsoleTypeOK ==
    /\ asked \in Seq(Listed)
    /\ app \in [at : {"loop", "probe", "list", "detail", "act"},
                screen : {"approvals", "other"}, input : BOOLEAN,
                overlay : {"none", "revoke", "retype", "stop"}]
    /\ view.list \in Seq(Listed)
    /\ view.list # <<>> => view.sel \in 1 .. Len(view.list)
    /\ view.detail \in OrNobody
    /\ view.filter \in {"all", "pending", "settled"}
    /\ view.dialog \in Dialogs /\ view.sending.dialog \in Dialogs
    /\ Len(typed) <= MaxTyped

ConsoleInit ==
    /\ asked = <<>>
    /\ app = [at |-> "probe", screen |-> "approvals", input |-> FALSE, overlay |-> "none"]
    /\ view = [filter |-> "all", list |-> <<>>, sel |-> 1, detail |-> Nobody,
               dialog |-> NoDialog, sending |-> Unsent]
    /\ drawn = Nobody
    /\ typed = <<>>

--------------------------------------------------------------------------------
\* The gate and the operator.

Ids(list) == {list[i].id : i \in 1 .. Len(list)}

Position(list, id) == CHOOSE i \in 1 .. Len(list) : list[i].id = id

Asked(id) ==
    /\ id \notin Ids(asked)
    /\ asked' = <<[id |-> id, status |-> "pending"]>> \o asked
    /\ UNCHANGED <<app, view, drawn, typed>>

Settle(id) ==
    [i \in 1 .. Len(asked) |->
        IF asked[i].id = id THEN [asked[i] EXCEPT !.status = "settled"] ELSE asked[i]]

\* Another operator decides it, or it expires.
SettledElsewhere(id) ==
    /\ asked' = Settle(id) /\ asked' # asked
    /\ UNCHANGED <<app, view, drawn, typed>>

\* What matters of the screen to the operator who presses a key.
Noticed(key) == IF key \in {"y", "enter"} THEN drawn ELSE Nobody

Press(key) ==
    /\ Len(typed) < MaxTyped
    /\ typed' = Append(typed, [key |-> key, saw |-> Noticed(key), alone |-> typed = <<>>])
    /\ UNCHANGED <<asked, app, view, drawn>>

--------------------------------------------------------------------------------
\* Polling.

\* The elements of a list at the positions K, in the order of the list.
Picked(list, K) ==
    [k \in 1 .. Cardinality(K) |->
        list[CHOOSE i \in K : Cardinality({j \in K : j < i}) = k - 1]]

Shown(filter) ==
    LET kept == Picked(asked, {i \in 1 .. Len(asked) : filter \in {"all", asked[i].status}})
    IN  SubSeq(kept, 1, IF Len(kept) < PageSize THEN Len(kept) ELSE PageSize)

\* In the unfiltered list the pending approvals come first.
Sorted(filter, list) ==
    LET pending == {i \in 1 .. Len(list) : list[i].status = "pending"} IN
    IF filter # "all" THEN list
    ELSE Picked(list, pending) \o Picked(list, (1 .. Len(list)) \ pending)

SelectedIsPending(v) == v.sel \in 1 .. Len(v.list) /\ v.list[v.sel].status = "pending"

\* A variant with a fault: the detail is kept when its approval has left the list.
AnchoredKeepsDetail(v, list) ==
    LET prev == SelectedId(v)
        clamped == IF v.sel > Len(list) THEN Len(list) ELSE v.sel
    IN  IF list = <<>>
            THEN [v EXCEPT !.list = list, !.sel = 1, !.detail = Nobody]
        ELSE IF prev \in Ids(list)
            THEN [v EXCEPT !.list = list, !.sel = Position(list, prev)]
            ELSE [v EXCEPT !.list = list, !.sel = clamped]

\* The selection follows the approval it was on, and when that one has left the
\* list stays where it was, on another approval whose detail is to be fetched.
Anchored(v, list) ==
    LET prev == SelectedId(v)
        clamped == IF v.sel > Len(list) THEN Len(list) ELSE v.sel
    IN  IF list = <<>>
            THEN [v EXCEPT !.list = list, !.sel = 1, !.detail = Nobody]
        ELSE IF prev \in Ids(list)
            THEN [v EXCEPT !.list = list, !.sel = Position(list, prev)]
        ELSE IF prev = Nobody
            THEN [v EXCEPT !.list = list, !.sel = clamped]
            ELSE [v EXCEPT !.list = list, !.sel = clamped, !.detail = Nobody]

\* A list takes the place of the last one.  An open dialog keeps its approval whether
\* or not the list still has it.
Polled(v, list) ==
    [Anchored(v, list) EXCEPT
        !.dialog.gone = @ \/ (v.dialog # NoDialog /\ v.dialog.id \notin Ids(list))]

\* The loop draws a frame whenever it comes round to wait for a tick or a key.
\* Its list and detail are behind an open dialog, whose question is the same for all.
Frame(v) == SelectedId(v)

BackToLoop(v, a) ==
    /\ app' = [a EXCEPT !.at = "loop"] /\ view' = v /\ drawn' = Frame(v)

TickHealth ==
    /\ app.at = "probe"
    /\ \/ /\ app' = [app EXCEPT !.at = IF app.screen = "approvals" THEN "list" ELSE "loop"]
          /\ drawn' = Frame(view)     \* a frame is drawn before the refresh
          /\ UNCHANGED view
       \/ BackToLoop(view, app)       \* no answer, or not yet time to reconnect
    /\ UNCHANGED <<asked, typed>>

TickList ==
    /\ app.at = "list"
    /\ \/ LET v == Polled(view, Sorted(view.filter, Shown(view.filter))) IN
          IF v.list # <<>> /\ v.detail = Nobody
          THEN view' = v /\ app' = [app EXCEPT !.at = "detail"] /\ UNCHANGED drawn
          ELSE BackToLoop(v, app)
       \/ BackToLoop(Polled(view, <<>>), app)     \* 404
       \/ BackToLoop(view, app)      \* another error, or the tick's time is up
    /\ UNCHANGED <<asked, typed>>

TickDetail ==
    /\ app.at = "detail"
    /\ \/ BackToLoop([view EXCEPT !.detail = SelectedId(view)], app)
       \/ BackToLoop(view, app)
    /\ UNCHANGED <<asked, typed>>

TickDue ==
    /\ app.at = "loop"
    /\ app' = [app EXCEPT !.at = "probe"]
    /\ UNCHANGED <<asked, view, drawn, typed>>

--------------------------------------------------------------------------------
\* Keys.  Each operator gives the console as a key leaves it.

\* The dialog a key opens on the selected approval, with all it will need.
OpensDialog(v, k) ==
    [kind |-> IF k.key = "d" THEN "deny" ELSE "approve",
     id |-> SelectedId(v),
     learns |-> IF k.key # "d" /\ v.detail \in Unresolved THEN v.detail ELSE Nobody,
     gone |-> FALSE]

MayDecide(v) == v.detail # Nobody /\ SelectedIsPending(v)

\* A screen with an open dialog keeps its keys: it cannot be left for another.
IsModal(c) == c.app.screen = "approvals" /\ c.view.dialog # NoDialog

\* "settled" stands for the filters on approved and on denied.
NextFilter == [all |-> "pending", pending |-> "settled", settled |-> "all"]

\* Another screen, which is polled at once.
SwitchScreen(c) ==
    [c EXCEPT !.app.screen = IF @ = "approvals" THEN "other" ELSE "approvals",
              !.app.input = FALSE, !.app.at = "probe"]

\* The list: moving drops the detail, a decision opens a dialog.
ListKey(c, k) ==
    LET v == c.view IN
    CASE k.key = "up" /\ v.sel > 1 ->
            [c EXCEPT !.view.sel = @ - 1, !.view.detail = Nobody]
      [] k.key = "down" /\ v.sel < Len(v.list) ->
            [c EXCEPT !.view.sel = @ + 1, !.view.detail = Nobody]
      [] k.key \in {"a", "d"} /\ MayDecide(v) ->
            [c EXCEPT !.view.dialog = OpensDialog(v, k), !.app.input = TRUE]
      [] k.key = "f" ->
            [c EXCEPT !.view.filter = NextFilter[@], !.view.list = <<>>,
                      !.view.sel = 1, !.view.detail = Nobody]
      [] k.key = "enter" /\ v.list = <<>> -> SwitchScreen(c)
      [] OTHER -> c

\* A dialog: y or the end of the reason sends the decision, with the dialog's data.
DialogKey(c, k) ==
    LET d == c.view.dialog IN
    IF k.key = (IF d.kind = "deny" THEN "enter" ELSE "y")
        THEN [c EXCEPT !.view.dialog = NoDialog, !.view.detail = Nobody,
                       !.view.sending = [dialog |-> d, shown |-> k.saw, alone |-> k.alone],
                       !.app.input = FALSE, !.app.at = "act"]
    ELSE IF d.kind = "approve" \/ k.key = "esc"
        THEN [c EXCEPT !.view.dialog = NoDialog, !.app.input = FALSE]
    ELSE c

\* Revoking takes a y and the word, stopping the gate a y.  The gate is then called
\* (by an operator with credentials) and polled.
OverlayKey(c, k) ==
    LET closed == [c EXCEPT !.app.overlay = "none", !.app.input = FALSE] IN
    IF <<c.app.overlay, k.key>> = <<"revoke", "y">> THEN [c EXCEPT !.app.overlay = "retype"]
    ELSE IF <<c.app.overlay, k.key>> \in {<<"retype", "word">>, <<"stop", "y">>}
        THEN [closed EXCEPT !.app.at = "probe"]
    ELSE IF c.app.overlay = "retype" /\ k.key \notin {"esc", "enter"} THEN c
    ELSE closed

ScreenKey(c, k) ==
    IF c.app.screen # "approvals" THEN c
    ELSE IF c.view.dialog # NoDialog THEN DialogKey(c, k) ELSE ListKey(c, k)

\* The overlays see a key first, then the keys every screen has, then the screen.
Routed(c, k) ==
    IF c.app.overlay # "none" THEN OverlayKey(c, k)
    ELSE IF k.key = "tab" /\ (c.app.input => ~IsModal(c)) THEN SwitchScreen(c)
    ELSE IF k.key \in {"R", "S"} /\ ~c.app.input
        THEN [c EXCEPT !.app.overlay = IF k.key = "R" THEN "revoke" ELSE "stop",
                       !.app.input = TRUE]
    ELSE ScreenKey(c, k)

HandleKey ==
    /\ app.at = "loop" /\ typed # <<>>
    /\ typed' = Tail(typed)
    /\ LET c == Routed([app |-> app, view |-> view], Head(typed)) IN
       /\ app' = c.app /\ view' = c.view
       /\ drawn' = IF c.app.at = "loop" THEN Frame(c.view) ELSE drawn
    /\ UNCHANGED asked

\* handle_action.  When its time is up the gate may have done it all the same.
SendDecision ==
    /\ app.at = "act"
    /\ asked' \in {asked, Settle(view.sending.dialog.id)}
    /\ app' = [app EXCEPT !.at = "probe"]
    /\ view' = [view EXCEPT !.sending = Unsent]
    /\ UNCHANGED <<drawn, typed>>

ConsoleNext ==
    \/ \E id \in ApprovalIds : Asked(id) \/ SettledElsewhere(id)
    \/ \E key \in Keystrokes : Press(key)
    \/ TickDue \/ TickHealth \/ TickList \/ TickDetail
    \/ HandleKey \/ SendDecision

ConsoleSpec == ConsoleInit /\ [][ConsoleNext]_consoleVars

--------------------------------------------------------------------------------
\* While a dialog or an overlay is open the keys are its own and its screen stays in
\* front; when none is, the keys every screen has work again.  (input_mode is set and
\* cleared in a dozen places of app.rs, the dialog in approvals.rs.)
InputIsHeld ==
    /\ app.input <=> (view.dialog # NoDialog \/ app.overlay # "none")
    /\ view.dialog # NoDialog => app.screen = "approvals" /\ app.overlay = "none"

\* An approval that also teaches the gate a domain teaches it the one its own request
\* names, however the list and the loaded detail changed before the dialog opened.
LearnsWhatItApproves ==
    \A d \in {view.dialog, view.sending.dialog} :
        d.kind = "approve" =>
            d.learns = IF d.id \in Unresolved THEN d.id ELSE Nobody

\* An operator who answers a dialog that is on screen, with no earlier key waiting,
\* decides the approval highlighted behind it, unless that one has left the list while
\* the dialog was open: polls in between reorder the list and take the highlight along
\* with the approval, and a decision that is captured when its dialog opens stays with it.
AnswersTheHighlighted ==
    view.sending.alone =>
        view.sending.shown = view.sending.dialog.id \/ view.sending.dialog.gone

\* approvals.rs, tick: "so an operator never approves a different one than the one they
\* were viewing".  Not so when the approval leaves the list while its dialog is open:
\* the highlight and the detail are then another's, the dialog names none, and a y
\* decides the first.  Nor when the answer was typed ahead.
DecidesWhatWasViewed ==
    view.sending.dialog.kind # "none" => view.sending.shown = view.sending.dialog.id

\* What an operator at the console may rely on when answering a dialog.
ConsoleSafe ==
    /\ ConsoleTypeOK
    /\ InputIsHeld
    /\ LearnsWhatItApproves
    /\ AnswersTheHighlighted

--------------------------------------------------------------------------------
(***************************************************************************)
(* The audit screen of the operator's console (crates/latchgate-tui,       *)
(* activity.rs).  It holds a window of the ledger, newest first, that a    *)
(* tick extends at its head and the operator at its tail, by queries that  *)
(* name a timestamp and return at most FetchLimit rows (store_events.rs,   *)
(* query_events).                                                          *)
(*                                                                         *)
(* An event gets its timestamp when it is built and its row when it is     *)
(* written, a little later and after events that were built after it.      *)
(***************************************************************************)

CONSTANTS
    MaxEvents,      \* how many events the screen holds (MAX_EVENTS)
    FetchLimit,     \* how many rows a query returns (FETCH_LIMIT)
    Overlap,        \* HEAD_OVERLAP_MS
    MaxLag,         \* the longest an event waits between its timestamp and its row
    MaxRows,        \* bound on the ledger
    MaxClock        \* bound on the clock

ASSUME FeedAssumption ==
    /\ MaxEvents \in Nat \ {0} /\ FetchLimit \in Nat \ {0}
    /\ MaxLag \in Nat /\ Overlap \in Nat /\ MaxLag < Overlap
    /\ MaxRows \in Nat /\ MaxClock \in Nat

VARIABLES
    instant,    \* the ledger's clock
    rows,       \* the ledger: the timestamps of its events, in the order written
    feed,       \* the events held, newest first: their row numbers
    cursor,     \* newest_timestamp and oldest_timestamp, when anything is held
    upTo,       \* how many rows there were at the last fetch of the head
    cut         \* whether a fetch of the head left out rows between its own and the feed's

feedVars == <<instant, rows, feed, cursor, upTo, cut>>

FeedInit ==
    /\ instant = 0 /\ rows = <<>> /\ feed = <<>>
    /\ cursor = [newest |-> 0, oldest |-> 0] /\ upTo = 0 /\ cut = FALSE

TickClock ==
    /\ instant < MaxClock
    /\ instant' = instant + 1
    /\ UNCHANGED <<rows, feed, cursor, upTo, cut>>

WriteRow ==
    /\ Len(rows) < MaxRows
    /\ \E ts \in (IF instant < MaxLag THEN 0 ELSE instant - MaxLag) .. instant :
          rows' = Append(rows, ts)
    /\ UNCHANGED <<instant, feed, cursor, upTo, cut>>

--------------------------------------------------------------------------------
\* ORDER BY timestamp DESC LIMIT: the index gives rows of equal timestamp last first.
Newer(i, j) == rows[i] > rows[j] \/ (rows[i] = rows[j] /\ i > j)

Page(window) == {i \in window : Cardinality({j \in window : Newer(j, i)}) < FetchLimit}

NewestFirst(S) ==
    [k \in 1 .. Cardinality(S) |->
        CHOOSE i \in S : Cardinality({j \in S : Newer(j, i)}) = k - 1]

\* The cursors are exclusive, so each window reaches a little past its cursor, for
\* events of the same millisecond; nothing held means no cursor.
HeadWindow == {i \in 1 .. Len(rows) : feed # <<>> => rows[i] + Overlap > cursor.newest}
TailWindow == {i \in 1 .. Len(rows) : rows[i] < cursor.oldest + Overlap}

\* What a page adds to the events held: those they do not have already.
FreshRows(page) == NewestFirst(page \ Range(feed))

Held(events) == SubSeq(events, 1, IF Len(events) < MaxEvents THEN Len(events) ELSE MaxEvents)

\* tick and merge_head.
FetchHead ==
    LET page == Page(HeadWindow)
        merged == Held(FreshRows(page) \o feed)
    IN  /\ upTo' = Len(rows)
        /\ cut' = (cut \/ (feed # <<>> /\ Cardinality(HeadWindow) > FetchLimit))
        /\ IF FreshRows(page) = <<>> THEN UNCHANGED <<feed, cursor>>
           ELSE /\ feed' = merged
                /\ cursor' = [newest |-> rows[Head(merged)], oldest |-> rows[Last(merged)]]
        /\ UNCHANGED <<instant, rows>>

\* handle_action: [o], which needs something held.
FetchOlder ==
    LET extended == Held(feed \o FreshRows(Page(TailWindow))) IN
    /\ feed # <<>>
    /\ feed' = extended
    /\ cursor' = [cursor EXCEPT !.oldest = rows[Last(extended)]]
    /\ UNCHANGED <<instant, rows, upTo, cut>>

\* Another filter or [r]: all that is held goes.
Reset ==
    /\ feed' = <<>> /\ cursor' = [newest |-> 0, oldest |-> 0]
    /\ upTo' = 0 /\ cut' = FALSE
    /\ UNCHANGED <<instant, rows>>

FeedNext == TickClock \/ WriteRow \/ FetchHead \/ FetchOlder \/ Reset

FeedSpec == FeedInit /\ [][FeedNext]_feedVars

--------------------------------------------------------------------------------
\* The screen holds each event once, within its bound, and its cursors are timestamps
\* of events it holds.
FeedTypeOK ==
    /\ rows \in Seq(0 .. MaxClock) /\ feed \in Seq(1 .. Len(rows))
    /\ Len(feed) <= MaxEvents
    /\ IsInjective(feed)
    /\ feed # <<>> => cursor = [newest |-> rows[Head(feed)], oldest |-> rows[Last(feed)]]

\* Unless more rows arrived between two fetches than one returns, or the screen is full
\* and forgets, no event that was in the ledger at the last fetch of the head is
\* missing from the middle of the feed: neither one that shares its millisecond with
\* the newest known nor one that was written late.
FeedSkipsNothing ==
    (~cut /\ feed # <<>> /\ Len(feed) < MaxEvents) =>
        \A i \in 1 .. upTo : rows[i] > cursor.oldest => i \in Range(feed)

\* merge_head: "preserving newest-first order".  Not so for an event written late,
\* which is put before, or by FetchOlder after, events already held.
FeedIsSorted ==
    \A k \in 1 .. Len(feed) - 1 : rows[feed[k]] >= rows[feed[k + 1]]

\* "No older events." is said only when there are none.  Not so when as many events
\* as a query returns share the overlap with the oldest one held.
NoOlderIsTrue ==
    (feed # <<>> /\ Len(feed) < MaxEvents /\ FreshRows(Page(TailWindow)) = <<>>) =>
        \A i \in 1 .. Len(rows) : rows[i] < cursor.oldest => i \in Range(feed)

\* What the feed shows, in spite of rows that become visible late.
FeedSafe == FeedTypeOK /\ FeedSkipsNothing

\* What an operator is shown while deciding, and answers, is what is meant
\* (tui/approvals.rs, tui/activity.rs).
DecisionScreensSafe == ConsoleSafe /\ FeedSafe
================================================================================
