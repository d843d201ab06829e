------------------------------- MODULE Screens --------------------------------
(***************************************************************************)
(* The setup screen of the operator's console (tui/src/config.rs, with the *)
(* forms of config_logic.rs) and what the event loop of app.rs does with   *)
(* its answers.  The screen keeps a copy of the config and of three lists  *)
(* that others change meanwhile: the config file, with an editor or on the *)
(* command line, and the gate's policy.  The loop is one thread: a key is  *)
(* handled, an action it asked for is awaited (10 seconds at most), then   *)
(* the lists are fetched; no key is looked at meanwhile.                   *)
(*                                                                         *)
(* The items of a list are numbers, in the order the screen shows them.    *)
(***************************************************************************)
EXTENDS Naturals, Sequences, FiniteSets, SequencesExt

CONSTANTS
    ItemsOf,        \* per list of the config: the items that can be in it
    Actions,        \* what a principal may be granted
    Presets,        \* presets on disk
    MaxSetupKeys, MaxOutside     \* bounds: keys pressed, changes from outside

ASSUME SetupAssumption ==
    /\ ItemsOf \in [{"principal", "operator", "webhook", "secret"} -> SUBSET Nat]
    /\ Actions \subseteq Nat /\ Presets \subseteq Nat
    /\ {MaxSetupKeys, MaxOutside} \subseteq Nat

VARIABLES
    disk,       \* the config file: its lists, and whether it names a secrets file
    meant,      \* the lists that the changes so far, one by one, amount to
    acl,        \* the gate's policy: the actions of each principal
    console,    \* the loop: where it is, which screen it shows, its input mode
    scr,        \* the setup screen
    held,       \* the file as an edit that is under way has read it
    raced,      \* whether a change from outside fell between an edit's read and its write
    used        \* keys and outside changes so far

setupVars == <<disk, meant, acl, console, scr, held, raced, used>>

Lists == {"principal", "operator", "webhook", "secret"}
Principals == ItemsOf["principal"]
\* The items of a finite list in the order of their numbers.
Rows(S) == [k \in 1 .. Cardinality(S) |-> CHOOSE i \in S : Cardinality({j \in S : j < i}) = k - 1]

SubTabs == <<"overview", "principal", "operator", "webhook", "secret", "preset">>

--------------------------------------------------------------------------------
(***************************************************************************)
(* The forms.  A text is empty, good, or one the step refuses.             *)
(***************************************************************************)
PrincipalForm == <<"uid", "name", "scopes">>
WebhookForm == <<"name", "url", "events", "format">>
KeyValueForm == <<"key", "value">>
PresetForm == <<"actions", "grant", "name", "description">>

FormSteps(kind) ==
    CASE kind = "principal" -> PrincipalForm
      [] kind = "webhook" -> WebhookForm
      [] kind \in {"config", "secret"} -> KeyValueForm
      [] kind = "preset" -> PresetForm
      [] OTHER -> <<"name">>

NoForm == [kind |-> "none", step |-> 1, for |-> 0]
OpenForm(kind, for) == [kind |-> kind, step |-> 1, for |-> for]

StepOf(form) == FormSteps(form.kind)[form.step]

\* advance: the last step of a form completes it, an empty text cancels it, except for
\* the format of a webhook (the default) and the choices of a preset.
Advance(form, text) ==
    CASE text = "empty" /\ StepOf(form) = "format" -> "complete"
      [] text = "empty" /\ StepOf(form) = "actions" -> "stay"
      [] text = "empty" /\ StepOf(form) \notin {"format", "actions", "grant"} -> "cancelled"
      [] text = "bad" /\ <<form.kind, StepOf(form)>> \in {<<"principal", "uid">>, <<"webhook", "format">>} -> "invalid"
      [] OTHER -> IF form.step = Len(FormSteps(form.kind)) THEN "complete" ELSE "next"

--------------------------------------------------------------------------------
(***************************************************************************)
(* The screen.                                                             *)
(***************************************************************************)
NoPending == [op |-> "none", item |-> 0, who |-> 0]
Pending(op, item) == [NoPending EXCEPT !.op = op, !.item = item]

ListShown(s, list) == IF list = "secret" THEN s.secrets ELSE s.config.lists[list]

\* items.get(selected): the selection may be past the end of a list that became shorter.
At(S, n) == IF n \in 1 .. Cardinality(S) THEN {Rows(S)[n]} ELSE {}

SelectedItem(s) == At(ListShown(s, s.tab), s.sel[s.tab])

\* is_in_input.
InInput(s) == s.form.kind # "none" \/ s.confirming # "none"

CursorUp(n) == IF n > 1 THEN n - 1 ELSE 1
CursorDown(n, len) == IF n < len THEN n + 1 ELSE n

AnswerPrompt(s, a) == [s |-> s, a |-> a]

PrincipalShown(s) == At(s.config.lists["principal"], s.sel["principal"])
ActionsShown(s) == UNION {s.acl[p] : p \in PrincipalShown(s)}

\* A form takes the key first: Esc cancels it, Enter submits its text.  A text that is
\* refused closes the form too, with a message and without EndInput.
FormKey(s, key, text, item) ==
    LET closed == [s EXCEPT !.form = NoForm]
        run(op, who) == AnswerPrompt([closed EXCEPT !.pending = [op |-> op, item |-> item, who |-> who]], "async")
    IN IF key = "esc" THEN AnswerPrompt(closed, "end")
       ELSE IF key # "enter" THEN AnswerPrompt(s, "noop")
       ELSE CASE Advance(s.form, text) = "cancelled" -> AnswerPrompt(closed, "end")
              [] Advance(s.form, text) = "invalid" -> AnswerPrompt(closed, "flash")
              [] Advance(s.form, text) = "stay" -> AnswerPrompt(s, "flash")
              [] Advance(s.form, text) = "next" -> AnswerPrompt([s EXCEPT !.form.step = @ + 1], "noop")
              [] Advance(s.form, text) = "complete" -> run(s.form.kind, s.form.for)

\* A removal that waits for its y takes whatever is selected by then; any other key
\* ends it.  The activation of a preset ends only with y, n or Esc.
ConfirmKey(s, key) ==
    LET closed == [s EXCEPT !.confirming = "none"]
    IN IF s.confirming = "preset"
       THEN CASE key = "y" -> IF At(s.presets, s.sel["preset"]) # {}
                              THEN AnswerPrompt([closed EXCEPT !.pending = Pending("activate", 0)], "async")
                              ELSE AnswerPrompt(closed, "noop")
              [] key = "esc" -> AnswerPrompt(closed, "end")
              [] OTHER -> AnswerPrompt(s, "noop")
       ELSE IF key = "y" /\ SelectedItem(s) # {}
       THEN AnswerPrompt([closed EXCEPT !.pending =
                Pending("remove", CHOOSE i \in SelectedItem(s) : TRUE)], "async")
       ELSE AnswerPrompt(closed, "end")

Opening(s, kind, for) == AnswerPrompt([s EXCEPT !.form = OpenForm(kind, for)], "begin")
Confirming(s, what) == AnswerPrompt([s EXCEPT !.confirming = what], "begin")
Busying(s, what, op, item) ==
    AnswerPrompt([s EXCEPT !.busy = @ \cup {what}, !.pending = Pending(op, item)], "async")

OverviewKey(s, key) ==
    CASE key = "d" /\ "doctor" \notin s.busy -> Busying(s, "doctor", "doctor", 0)
      [] key = "s" -> Opening(s, "config", 0)
      [] key = "e" -> AnswerPrompt(s, "editor")
      [] key = "i" -> AnswerPrompt(s, "init")
      [] OTHER -> AnswerPrompt(s, "noop")

\* With the focus on the actions of a principal the keys are about that list.
DetailKey(s, key) ==
    CASE key = "esc" -> AnswerPrompt([s EXCEPT !.focus = 0], "noop")
      [] key = "up" -> AnswerPrompt([s EXCEPT !.focus = CursorUp(@)], "noop")
      [] key = "down" -> AnswerPrompt([s EXCEPT !.focus = CursorDown(@, Cardinality(ActionsShown(s)))], "noop")
      [] key = "x" /\ At(ActionsShown(s), s.focus) # {} ->
           AnswerPrompt([s EXCEPT !.focus = 0,
                           !.pending = [op |-> "revoke", item |-> CHOOSE a \in At(ActionsShown(s), s.focus) : TRUE,
                                        who |-> CHOOSE p \in PrincipalShown(s) : TRUE]], "async")
      [] OTHER -> AnswerPrompt(s, "noop")

PrincipalsKey(s, key) ==
    CASE key = "l" /\ ActionsShown(s) # {} -> AnswerPrompt([s EXCEPT !.focus = 1], "noop")
      [] key = "up" -> AnswerPrompt([s EXCEPT !.sel["principal"] = CursorUp(@)], "noop")
      [] key = "down" -> AnswerPrompt([s EXCEPT !.sel["principal"] =
                                    CursorDown(@, Cardinality(s.config.lists["principal"]))], "noop")
      [] key = "a" -> Opening(s, "principal", 0)
      [] key = "r" /\ s.config.lists["principal"] # {} -> Confirming(s, "principal")
      [] key = "g" /\ PrincipalShown(s) # {} -> Opening(s, "grant", CHOOSE p \in PrincipalShown(s) : TRUE)
      [] key = "x" /\ PrincipalShown(s) # {} -> Opening(s, "revoke", CHOOSE p \in PrincipalShown(s) : TRUE)
      [] OTHER -> AnswerPrompt(s, "noop")

OperatorsKey(s, key) ==
    CASE key = "a" -> Opening(s, "operator", 0)
      [] key = "r" /\ s.config.lists["operator"] # {} -> Confirming(s, "operator")
      [] OTHER -> AnswerPrompt(s, "noop")

WebhooksKey(s, key) ==
    CASE key = "a" -> Opening(s, "webhook", 0)
      [] key = "r" /\ s.config.lists["webhook"] # {} -> Confirming(s, "webhook")
      [] key = "t" /\ "webhook" \notin s.busy /\ SelectedItem(s) # {} ->
           Busying(s, "webhook", "test", CHOOSE i \in SelectedItem(s) : TRUE)
      [] OTHER -> AnswerPrompt(s, "noop")

SecretsKey(s, key) ==
    CASE key \in {"i", "f"} /\ ~s.config.sops /\ "secrets" \notin s.busy -> Busying(s, "secrets", "sops", 0)
      [] key = "s" /\ s.config.sops -> Opening(s, "secret", 0)
      [] key = "r" /\ s.config.sops /\ s.secrets # {} -> Confirming(s, "secret")
      [] OTHER -> AnswerPrompt(s, "noop")

PresetsKey(s, key) ==
    CASE key = "a" /\ s.presets # {} -> Confirming(s, "preset")
      [] key = "p" -> Opening(s, "preset", 0)
      [] OTHER -> AnswerPrompt(s, "noop")

\* The cursor of the tabs whose lists are moved through alike.
MoveKey(s, key) ==
    LET len == Cardinality(IF s.tab = "preset" THEN s.presets ELSE ListShown(s, s.tab))
    IN AnswerPrompt([s EXCEPT !.sel[s.tab] = IF key = "up" THEN CursorUp(@) ELSE CursorDown(@, len)], "noop")

\* handle_key of the screen: sub-tabs when nothing is open, then the tab's own keys.
SetupScreenKey(s, key, text, item) ==
    IF s.form.kind # "none" THEN FormKey(s, key, text, item)
    ELSE IF s.confirming # "none" THEN ConfirmKey(s, key)
    ELSE IF key = "digit" THEN AnswerPrompt([s EXCEPT !.focus = 0, !.tab = SubTabs[item]], "noop")
    ELSE IF s.focus # 0 THEN DetailKey(s, key)
    ELSE CASE s.tab = "overview" -> OverviewKey(s, key)
           [] s.tab = "principal" -> PrincipalsKey(s, key)
           [] s.tab # "overview" /\ s.tab # "principal" /\ key \in {"up", "down"} -> MoveKey(s, key)
           [] s.tab = "operator" /\ key \notin {"up", "down"} -> OperatorsKey(s, key)
           [] s.tab = "webhook" /\ key \notin {"up", "down"} -> WebhooksKey(s, key)
           [] s.tab = "secret" /\ key \notin {"up", "down"} -> SecretsKey(s, key)
           [] s.tab = "preset" /\ key \notin {"up", "down"} -> PresetsKey(s, key)

--------------------------------------------------------------------------------
(***************************************************************************)
(* The event loop.                                                         *)
(***************************************************************************)
SetupKeys == {"esc", "enter", "y", "digit", "tab", "q", "up", "down", "a", "r", "g", "x", "l", "d", "s", "e", "i", "t", "p"}

SetupInit ==
    /\ disk = [lists |-> [k \in Lists |-> IF k = "secret" THEN {} ELSE ItemsOf[k]], sops |-> FALSE]
    /\ meant = disk.lists
    /\ acl = [p \in Principals |-> {}]
    /\ console = [at |-> "loop", on |-> "setup", input |-> FALSE, diagnostic |-> FALSE]
    /\ scr = [tab |-> "overview", config |-> disk, sel |-> [k \in Lists \cup {"preset"} |-> 1], form |-> NoForm,
              confirming |-> "none", focus |-> 0, acl |-> acl, aclFetched |-> FALSE, secrets |-> {},
              secretsFetched |-> FALSE, presets |-> {}, presetsFetched |-> FALSE, busy |-> {}, pending |-> NoPending,
              restart |-> FALSE]
    /\ held = disk /\ raced = FALSE
    /\ used = [keys |-> 0, outside |-> 0]

\* What the loop does with the screen's answer.
Applied(answer) ==
    /\ scr' = answer.s
    /\ console' = CASE answer.a = "begin" -> [console EXCEPT !.input = TRUE]
                    [] answer.a = "end" -> [console EXCEPT !.input = FALSE]
                    [] answer.a = "async" -> [console EXCEPT !.input = FALSE, !.at = "act"]
                    [] answer.a \in {"editor", "init"} -> [console EXCEPT !.at = answer.a]
                    [] OTHER -> console

Navigate(to) == console' = [console EXCEPT !.on = to, !.input = FALSE] /\ UNCHANGED scr

\* handle_key of the loop: outside input mode the global keys come first; in it, they
\* are heard only when the screen has nothing open.
SetupKey(key, text, item) ==
    /\ console.at = "loop" /\ used.keys < MaxSetupKeys
    /\ used' = [used EXCEPT !.keys = @ + 1]
    /\ \/ /\ console.diagnostic
          /\ console' = [console EXCEPT !.diagnostic = FALSE] /\ UNCHANGED scr
       \/ /\ ~console.diagnostic /\ ~console.input /\ key = "q"
          /\ console' = [console EXCEPT !.at = "quit"] /\ UNCHANGED scr
       \/ /\ ~console.diagnostic /\ key = "tab" /\ (~console.input \/ ~InInput(scr))
          /\ Navigate(IF console.on = "setup" THEN "other" ELSE "setup")
       \/ /\ ~console.diagnostic /\ console.on = "setup" /\ key = "digit" /\ console.input /\ ~InInput(scr)
          /\ Navigate("other")
       \/ /\ ~console.diagnostic /\ console.on = "setup"
          /\ ~(key = "q" /\ ~console.input)
          /\ ~(key = "tab" /\ (~console.input \/ ~InInput(scr)))
          /\ ~(key = "digit" /\ console.input /\ ~InInput(scr))
          /\ Applied(SetupScreenKey(scr, key, text, item))
    /\ UNCHANGED <<disk, meant, acl, held, raced>>

\* update_config: a new config; what was fetched is fetched again, what is open stays.
UpdateConfig(s, config) ==
    [s EXCEPT !.config = config, !.secretsFetched = FALSE, !.secrets = {}, !.presetsFetched = FALSE,
              !.aclFetched = FALSE, !.focus = 0]

\* The changes to the config file, and to the file of the secrets.
FileOps == {"principal", "operator", "webhook", "secret", "remove", "config", "sops"}

\* The list that the pending change is to, if it is to one, and the lists of its file.
ListChanged(s) == IF s.pending.op = "remove" THEN s.tab ELSE s.pending.op
FileLists(s) == IF ListChanged(s) = "secret" THEN {"secret"} ELSE Lists \ {"secret"}

\* What a change makes of a list.
Changed(s, S) == IF s.pending.op = "remove" THEN S \ {s.pending.item}
                 ELSE S \cup ({s.pending.item} \cap ItemsOf[ListChanged(s)])

\* The loop after an action: a confirmation it left pending takes the keys again.
ActEnds == console' = [console EXCEPT !.at = IF scr'.restart THEN "restart" ELSE "loop",
                                      !.input = scr'.confirming # "none"]

\* load_doc: the file as it is by now, whatever the screen shows.  The change is made in
\* memory, or refused: what it removes is not there, what it adds is there already (a
\* principal is replaced, a secret too), or the file cannot be read.
LoadDoc ==
    /\ console.at = "act" /\ scr.pending.op \in FileOps
    /\ \/ /\ scr.pending.op = "remove" => scr.pending.item \in disk.lists[scr.tab]
          /\ scr.pending.op \in {"operator", "webhook"} => scr.pending.item \notin disk.lists[scr.pending.op]
          /\ held' = disk
          /\ console' = [console EXCEPT !.at = "save"]
          /\ UNCHANGED scr
       \/ /\ scr' = [scr EXCEPT !.pending = NoPending, !.busy = @ \ {"secrets"}]
          /\ ActEnds
          /\ UNCHANGED held
    /\ UNCHANGED <<disk, meant, acl, raced, used>>

\* save_and_reload: what was read, with the change, takes the place of the file, and the
\* screen is given what it now says; the secrets are listed again.  Or it fails.
SaveDoc ==
    LET list == ListChanged(scr)
        op == scr.pending.op
        done == [scr EXCEPT !.pending = NoPending, !.busy = @ \ {"secrets"}]
    IN /\ console.at = "save"
       /\ \/ /\ disk' = [lists |-> [k \in Lists |->
                                      IF k \notin FileLists(scr) THEN disk.lists[k]
                                      ELSE IF k = list THEN Changed(scr, held.lists[k]) ELSE held.lists[k]],
                          sops |-> disk.sops \/ op = "sops"]
             /\ meant' = [k \in Lists |-> IF k = list THEN Changed(scr, meant[k]) ELSE meant[k]]
             /\ scr' = [done EXCEPT !.config = IF list = "secret" THEN @ ELSE disk',
                                    !.secretsFetched = @ /\ list # "secret" /\ op # "sops"]
          \/ scr' = done /\ UNCHANGED <<disk, meant>>
       /\ ActEnds
       /\ UNCHANGED <<acl, held, raced, used>>

\* Doctor runs and webhook tests are awaited: given up after 10 seconds, their answer
\* and the end of the mark that they are running are lost.
RunAwaited ==
    /\ scr.pending.op \in {"doctor", "test"}
    /\ \E inTime \in BOOLEAN :
          scr' = [scr EXCEPT !.pending = NoPending,
                             !.busy = IF inTime THEN @ \ {IF scr.pending.op = "test" THEN "webhook" ELSE "doctor"} ELSE @]
    /\ UNCHANGED <<disk, meant, acl>>

\* A change of the policy is the gate's; it may be done although its answer is late.
RunPolicy ==
    LET p == scr.pending
        change == IF p.op = "grant" THEN [acl EXCEPT ![p.who] = @ \cup ({p.item} \cap Actions)]
                  ELSE [acl EXCEPT ![p.who] = @ \ {p.item}]
    IN /\ p.op \in {"grant", "revoke"}
       /\ \/ acl' = change /\ scr' = [scr EXCEPT !.pending = NoPending, !.aclFetched = FALSE]
          \/ acl' \in {acl, change} /\ scr' = [scr EXCEPT !.pending = NoPending]
       /\ UNCHANGED <<disk, meant>>

\* execute_plan: another config, without links to secrets; the secrets stay.
Initialised == [lists |-> [k \in Lists |-> IF k = "secret" THEN disk.lists[k] ELSE {}], sops |-> FALSE]

\* Exports and activations; an activation also asks for a restart.
RunPreset ==
    /\ scr.pending.op \in {"preset", "activate"}
    /\ \/ /\ scr.pending.op = "activate"
          /\ disk' = Initialised
          /\ meant' = [k \in Lists |-> IF k = "secret" THEN meant[k] ELSE {}]
          /\ scr' = [scr EXCEPT !.pending = NoPending, !.config = disk', !.presetsFetched = FALSE, !.restart = TRUE]
       \/ /\ scr' \in {[scr EXCEPT !.pending = NoPending, !.presetsFetched = x] : x \in {FALSE, scr.presetsFetched}}
          /\ UNCHANGED <<disk, meant>>
    /\ UNCHANGED acl

\* An action that touches no file of the setup is awaited.
Act ==
    /\ console.at = "act" /\ scr.pending.op # "none"
    /\ RunAwaited \/ RunPolicy \/ RunPreset
    /\ ActEnds
    /\ UNCHANGED <<held, raced, used>>

\* take_restart_request: the gate is restarted, or cannot be; a failure is an overlay.
Restart ==
    /\ console.at = "restart"
    /\ \/ /\ scr' = [UpdateConfig(scr, disk) EXCEPT !.restart = FALSE]
          /\ console' = [console EXCEPT !.at = "loop"]
       \/ /\ scr' = [scr EXCEPT !.restart = FALSE]
          /\ \E failed \in BOOLEAN : console' = [console EXCEPT !.at = "loop", !.diagnostic = failed]
    /\ UNCHANGED <<disk, meant, acl, held, raced, used>>

\* The editor takes the terminal; its config is not read again afterwards.
Editor ==
    /\ console.at = "editor"
    /\ console' = [console EXCEPT !.at = "loop"]
    /\ UNCHANGED <<disk, meant, acl, scr, held, raced, used>>

\* The wizard of init is left, or its plan is carried out and every screen told.
RunInit ==
    /\ console.at = "init"
    /\ console' = [console EXCEPT !.at = "loop"]
    /\ \/ /\ disk' = Initialised
          /\ meant' = [k \in Lists |-> IF k = "secret" THEN meant[k] ELSE {}]
          /\ scr' = UpdateConfig(scr, disk')
       \/ UNCHANGED <<disk, meant, scr>>
    /\ UNCHANGED <<acl, held, raced, used>>

\* tick_health found credentials: the config is read again, whatever is open.
UpgradeAuth ==
    /\ console.at = "loop" /\ scr.config # disk
    /\ scr' = UpdateConfig(scr, disk)
    /\ UNCHANGED <<disk, meant, acl, console, held, raced, used>>

\* tick of the screen: the list of the tab that is shown.
TickPolicy ==
    /\ console.at = "loop" /\ console.on = "setup" /\ scr.tab = "principal"
    /\ LET seen == [scr EXCEPT !.acl = acl, !.aclFetched = TRUE]
           len == Cardinality(ActionsShown(seen))
       IN scr' = [seen EXCEPT !.focus = IF @ > len THEN len ELSE @]
    /\ UNCHANGED <<disk, meant, acl, console, held, raced, used>>

TickSecrets ==
    /\ console.at = "loop" /\ console.on = "setup" /\ scr.tab = "secret" /\ ~scr.secretsFetched /\ scr.config.sops
    /\ \/ scr' = [scr EXCEPT !.secretsFetched = TRUE, !.secrets = disk.lists["secret"]]
       \/ scr' = [scr EXCEPT !.secretsFetched = TRUE]
    /\ UNCHANGED <<disk, meant, acl, console, held, raced, used>>

TickPresets ==
    /\ console.at = "loop" /\ console.on = "setup" /\ scr.tab = "preset" /\ ~scr.presetsFetched
    /\ scr' = [scr EXCEPT !.presetsFetched = TRUE, !.presets = Presets,
                  !.sel["preset"] = IF @ > Cardinality(Presets) /\ Presets # {} THEN Cardinality(Presets) ELSE @]
    /\ UNCHANGED <<disk, meant, acl, console, held, raced, used>>

\* The command line or an editor changes the file, another operator the policy.
Outside ==
    /\ used.outside < MaxOutside
    /\ used' = [used EXCEPT !.outside = @ + 1]
    /\ \/ /\ \E k \in Lists : \E i \in ItemsOf[k] :
                LET now == IF i \in disk.lists[k] THEN disk.lists[k] \ {i} ELSE disk.lists[k] \cup {i}
                IN /\ disk' = [disk EXCEPT !.lists[k] = now]
                   /\ meant' = [meant EXCEPT ![k] = now]
                   /\ raced' = (raced \/ (console.at = "save" /\ k \in FileLists(scr)))
          /\ UNCHANGED acl
       \/ /\ \E p \in Principals, a \in Actions :
                acl' = [acl EXCEPT ![p] = IF a \in @ THEN @ \ {a} ELSE @ \cup {a}]
          /\ UNCHANGED <<disk, meant, raced>>
    /\ UNCHANGED <<console, scr, held>>

SetupNext ==
    \/ \E key \in SetupKeys \ {"digit"} : SetupKey(key, "good", 1)
    \/ \E n \in 1 .. 6 : SetupKey("digit", "good", n)
    \/ \E text \in {"empty", "bad"} : InInput(scr) /\ SetupKey("enter", text, 1)
    \/ LoadDoc \/ SaveDoc \/ Act \/ Restart \/ Editor \/ RunInit
    \/ UpgradeAuth \/ TickPolicy \/ TickSecrets \/ TickPresets \/ Outside

SetupSpec == SetupInit /\ [][SetupNext]_setupVars

--------------------------------------------------------------------------------
(***************************************************************************)
(* Properties.                                                             *)
(***************************************************************************)
SetupTypeOK ==
    /\ {disk, held} \subseteq [lists : [Lists -> SUBSET Nat], sops : BOOLEAN] /\ raced \in BOOLEAN
    /\ acl \in [Principals -> SUBSET Actions]
    /\ console \in [at : {"loop", "act", "save", "restart", "editor", "init", "quit"}, on : {"setup", "other"},
                    input : BOOLEAN, diagnostic : BOOLEAN]
    /\ scr.tab \in {SubTabs[n] : n \in 1 .. 6}
    /\ scr.form.step \in 1 .. Len(FormSteps(scr.form.kind))
    /\ scr.busy \subseteq {"doctor", "webhook", "secrets"}

\* A form or a question that is open owns the keys: the loop is in input mode and shows
\* this screen, so that no letter of a text quits the console or starts something else.
FormsHoldInput ==
    InInput(scr) => console.input /\ console.on = "setup" /\ console.at \in {"loop"}

\* Only what a change names is changed: an edit from a screen whose copy of the config
\* is old does not undo what others did to the file, except what they did in the moment
\* between its read and its write (nothing locks the file).
NothingUndone == raced \/ disk.lists = meant

\* No action waits for a key to be run, and no restart for another action.
NothingWaits == console.at = "loop" => scr.pending = NoPending /\ ~scr.restart

\* All of it.
SetupSafe == FormsHoldInput /\ NothingUndone /\ NothingWaits

\* Not so: a doctor run or a webhook test that was given up can never be started again.
MarksEnd == console.at = "loop" => scr.busy = {}

\* Not so: a text that is refused closes its form and leaves the loop in input mode.
InputIsForSomething == console.at = "loop" /\ console.input => InInput(scr)

-------------------------------------------------------------------------------
(***************************************************************************)
(* The actions screen of the operator's console (tui/src/actions.rs): the  *)
(* list of the gate's actions with the detail of the selected one, the     *)
(* editor of a manifest, the wizard that creates one, and the save, which  *)
(* writes the manifest and asks the gate to reload.  The loop of app.rs    *)
(* gives the screen its keys, unless it is out of input mode and the key   *)
(* is a global one.                                                        *)
(*                                                                         *)
(* A manifest is its contents: a risk level, a number and a list.  Actions *)
(* are numbers, in the order in which they are listed.                     *)
(***************************************************************************)
CONSTANTS
    ActionIds,      \* actions that can have a manifest
    Entries,        \* what a list of a manifest can hold
    Drafts,         \* manifests that others write
    MaxStrokes, MaxElsewhere    \* bounds: keys, changes by others

ASSUME ActionsAssumption ==
    /\ ActionIds \subseteq Nat \ {0} /\ IsFiniteSet(ActionIds)
    /\ Drafts \subseteq [risk : 0 .. 3, num : Nat, items : Seq(Entries)]
    /\ Entries # {}
    /\ {MaxStrokes, MaxElsewhere} \subseteq Nat

VARIABLES
    manifests,  \* on disk, per action: none or one
    loaded,     \* what the gate has loaded, per action
    loop,       \* the event loop: where it is, the screen it shows, its input mode
    board,      \* the screen
    saves,      \* the result of the last save, and whether the last reload failed
    gone,       \* how the last changed draft was lost
    strokes     \* keys and other changes so far

actionsVars == <<manifests, loaded, loop, board, saves, gone, strokes>>

Fields == <<"risk", "number", "list">>

NoEdit == [open |-> FALSE]
\* EditState::new.
NewEdit(id, spec) ==
    [open |-> TRUE, id |-> id, spec |-> spec, read |-> spec, field |-> 1, cursor |-> 1, editor |-> "none",
     removing |-> FALSE, discard |-> FALSE, dirty |-> FALSE]

\* selected_action_id.
SelectedAction(b) == IF b.selected \in 1 .. Len(b.actions) THEN {b.actions[b.selected]} ELSE {}

\* has_unresolved_pending.
UnresolvedPendings(b) == b.pendings \ {b.actions[n] : n \in 1 .. Len(b.actions)}

\* is_modal.
Modal(b) == b.edit.open \/ b.create # "none"

Said(b, a) == [b |-> b, a |-> a]

(***************************************************************************)
(* Browsing and creating.                                                  *)
(***************************************************************************)

\* handle_browse_key: whatever moves the selection, or asks for a new list, drops the detail.
BrowseKey(b, key) ==
    CASE key = "up" /\ b.selected > 1 -> Said([b EXCEPT !.selected = @ - 1, !.detail = 0], "noop")
      [] key = "down" /\ b.selected < Len(b.actions) -> Said([b EXCEPT !.selected = @ + 1, !.detail = 0], "noop")
      [] key = "r" -> Said([b EXCEPT !.refresh = TRUE, !.detail = 0], "noop")
      [] key = "n" -> Said([b EXCEPT !.create = "id"], "begin")
      [] key = "e" /\ SelectedAction(b) # {} ->
           LET id == b.actions[b.selected]
           IN IF manifests[id] = {} THEN Said(b, "flash")
              ELSE Said([b EXCEPT !.edit = NewEdit(id, CHOOSE m \in manifests[id] : TRUE)], "begin")
      [] key = "R" /\ UnresolvedPendings(b) # {} -> Said(b, "reload")
      [] OTHER -> Said(b, "noop")

CreateSteps == [id |-> {"provider"}, provider |-> {"method", "fsops"}, method |-> {"url"}, url |-> {}, fsops |-> {}]

\* build_http_spec, build_fs_spec: a skeleton whose lists are empty, of the lowest risk
\* (an fs action that writes starts higher).
Built == [risk |-> 0, num |-> 0, items |-> <<>>]

\* handle_create_key: Esc or an empty text ends it, a bad id closes it with a message,
\* its last step opens the editor under the input lock.
CreateKey(b, key, text, id, next) ==
    LET closed == [b EXCEPT !.create = "none"]
    IN CASE key = "esc" -> Said(closed, "end")
         [] key = "enter" /\ b.create \in {"id", "url"} /\ text = "empty" -> Said(closed, "end")
         [] key = "enter" /\ b.create = "id" /\ text = "bad" -> Said(closed, "flash")
         [] key = "enter" /\ b.create = "id" /\ text = "good" -> Said([b EXCEPT !.create = "provider", !.newId = id], "noop")
         [] key = "enter" /\ b.create \in {"provider", "method"} ->
              Said([b EXCEPT !.create = IF next \in CreateSteps[@] THEN next ELSE IF @ = "provider" THEN "method" ELSE "url"], "noop")
         [] key = "enter" /\ (b.create = "fsops" \/ (b.create = "url" /\ text # "empty")) ->
              Said([closed EXCEPT !.edit = NewEdit(b.newId, Built)], "begin")
         [] OTHER -> Said(b, "noop")

--------------------------------------------------------------------------------
(***************************************************************************)
(* The editor.                                                             *)
(***************************************************************************)
OnList(e) == Fields[e.field] = "list"
ListLen(e) == Len(e.spec.items)

\* cycle_risk, apply_numeric, list_add, list_remove.
CycleRisk(e) == [e EXCEPT !.spec.risk = (@ + 1) % 4, !.dirty = TRUE]
ApplyNumeric(e, n) == [e EXCEPT !.spec.num = n, !.dirty = TRUE, !.editor = "none"]
ListAdd(e, x) == [e EXCEPT !.spec.items = Append(@, x), !.dirty = TRUE, !.editor = "none"]

ListRemove(e) ==
    IF e.cursor \notin 1 .. ListLen(e) THEN [e EXCEPT !.removing = FALSE]
    ELSE LET left == RemoveAt(e.spec.items, e.cursor)
         IN [e EXCEPT !.spec.items = left, !.dirty = TRUE, !.removing = FALSE,
                      !.cursor = IF @ > Len(left) /\ left # <<>> THEN Len(left) ELSE @]

\* handle_field_input_key: Enter takes the text, unless it is no number or is empty.
FieldKey(e, key, text, x) ==
    CASE key = "esc" -> [e EXCEPT !.editor = "none"]
      [] key = "enter" /\ text # "good" -> [e EXCEPT !.editor = "none"]
      [] key = "enter" /\ text = "good" -> IF e.editor = "number" THEN ApplyNumeric(e, 1) ELSE ListAdd(e, x)
      [] OTHER -> e

\* Up and down walk the items of a list before they leave the field.
MoveUp(e) ==
    IF OnList(e) /\ e.cursor > 1 THEN [e EXCEPT !.cursor = @ - 1]
    ELSE IF e.field > 1 THEN [e EXCEPT !.field = @ - 1, !.cursor = 1] ELSE e
MoveDown(e) ==
    IF OnList(e) /\ e.cursor < ListLen(e) THEN [e EXCEPT !.cursor = @ + 1]
    ELSE IF e.field < Len(Fields) THEN [e EXCEPT !.field = @ + 1, !.cursor = 1] ELSE e

\* handle_edit_key: the field's editor, the two confirmations, then the keys of the form.
EditKey(b, key, text, x) ==
    LET e == b.edit
        stay(f) == Said([b EXCEPT !.edit = f], "noop")
    IN CASE e.editor # "none" -> stay(FieldKey(e, key, text, x))
         [] e.editor = "none" /\ e.discard ->
              IF key = "y" THEN Said([b EXCEPT !.edit = NoEdit], "end") ELSE stay([e EXCEPT !.discard = FALSE])
         [] e.editor = "none" /\ ~e.discard /\ e.removing ->
              stay(IF key = "y" THEN ListRemove(e) ELSE [e EXCEPT !.removing = FALSE])
         [] e.editor = "none" /\ ~e.discard /\ ~e.removing ->
              CASE key = "up" -> stay(MoveUp(e))
                [] key = "down" -> stay(MoveDown(e))
                [] key = "enter" /\ Fields[e.field] = "risk" -> stay(CycleRisk(e))
                [] key = "enter" /\ Fields[e.field] = "number" -> stay([e EXCEPT !.editor = "number"])
                [] key = "a" /\ OnList(e) -> stay([e EXCEPT !.editor = "list"])
                [] key = "d" /\ OnList(e) /\ ListLen(e) > 0 -> stay([e EXCEPT !.removing = TRUE])
                [] key = "s" /\ e.dirty -> Said(b, "async")
                [] key = "esc" -> IF e.dirty THEN stay([e EXCEPT !.discard = TRUE])
                                  ELSE Said([b EXCEPT !.edit = NoEdit], "end")
                [] OTHER -> Said(b, "noop")

BoardKey(b, key, text, x, id, next) ==
    IF b.create # "none" THEN CreateKey(b, key, text, id, next)
    ELSE IF b.edit.open THEN EditKey(b, key, text, x)
    ELSE BrowseKey(b, key)

--------------------------------------------------------------------------------
(***************************************************************************)
(* The loop.                                                               *)
(***************************************************************************)
Strokes == {"esc", "enter", "y", "up", "down", "a", "d", "s", "r", "n", "e", "R", "q", "tab"}

ActionsInit ==
    /\ \E some \in [ActionIds -> {{}} \cup {{d} : d \in Drafts}] : manifests = some /\ loaded = some
    /\ loop = [at |-> "loop", on |-> "actions", input |-> FALSE, revoke |-> FALSE]
    /\ board = [actions |-> <<>>, selected |-> 1, detail |-> 0, fetched |-> FALSE, refresh |-> FALSE, create |-> "none",
                newId |-> 0, edit |-> NoEdit, pendings |-> {}, seek |-> 0]
    /\ saves = [refused |-> FALSE, retry |-> "none"]
    /\ gone = "none"
    /\ strokes = [keys |-> 0, elsewhere |-> 0]

Dirty == board.edit.open /\ board.edit.dirty

\* handle_key of the loop.  R is the emergency revocation, unless in input mode.
Stroke(key, text, x, id, next) ==
    LET said == BoardKey(board, key, text, x, id, next)
        global == ~loop.input \/ ~Modal(board)
    IN /\ loop.at = "loop" /\ strokes.keys < MaxStrokes
       /\ strokes' = [strokes EXCEPT !.keys = @ + 1]
       /\ CASE loop.revoke -> /\ loop' = [loop EXCEPT !.revoke = FALSE, !.input = FALSE]
                              /\ UNCHANGED <<board, gone, saves>>
            [] ~loop.revoke /\ ~loop.input /\ key = "q" ->
                 /\ loop' = [loop EXCEPT !.at = "quit"]
                 /\ gone' = IF Dirty THEN "quit" ELSE gone
                 /\ UNCHANGED <<board, saves>>
            [] ~loop.revoke /\ ~loop.input /\ key = "R" ->
                 /\ loop' = [loop EXCEPT !.revoke = TRUE, !.input = TRUE]
                 /\ saves' = IF loop.on = "actions" /\ UnresolvedPendings(board) # {} /\ ~Modal(board)
                             THEN [saves EXCEPT !.retry = "revoke"] ELSE saves
                 /\ UNCHANGED <<board, gone>>
            [] ~loop.revoke /\ key = "tab" /\ global ->
                 /\ loop' = [loop EXCEPT !.on = IF @ = "actions" THEN "other" ELSE "actions", !.input = FALSE]
                 /\ UNCHANGED <<board, gone, saves>>
            [] OTHER ->
                 IF loop.on = "other" THEN UNCHANGED <<loop, board, gone, saves>>
                 ELSE /\ board' = said.b
                      /\ gone' = IF Dirty /\ ~said.b.edit.open THEN "discarded" ELSE gone
                      /\ saves' = IF said.a = "reload" THEN [saves EXCEPT !.retry = "reload"] ELSE saves
                      /\ loop' = CASE said.a = "begin" -> [loop EXCEPT !.input = TRUE]
                                   [] said.a = "end" -> [loop EXCEPT !.input = FALSE]
                                   [] said.a = "async" -> [loop EXCEPT !.input = FALSE, !.at = "save"]
                                   [] said.a = "reload" -> [loop EXCEPT !.input = FALSE, !.at = "reload"]
                                   [] OTHER -> loop
       /\ UNCHANGED <<manifests, loaded>>

\* handle_action: the manifest is refused, or written, and then the gate asked to reload.
\* needs_confirm_input is false in either case.
Save ==
    LET e == board.edit
    IN /\ loop.at = "save"
       /\ \/ /\ manifests' = [manifests EXCEPT ![e.id] = {e.spec}]
             /\ board' = [board EXCEPT !.pendings = @ \cup {e.id}, !.edit = NoEdit, !.refresh = TRUE, !.detail = 0,
                                       !.seek = e.id]
             /\ saves' = [saves EXCEPT !.refused = FALSE]
             /\ loop' = [loop EXCEPT !.at = "reload"]
          \/ /\ saves' = [saves EXCEPT !.refused = TRUE]
             /\ loop' = [loop EXCEPT !.at = "loop", !.input = e.discard \/ e.removing]
             /\ UNCHANGED <<manifests, board>>
       /\ UNCHANGED <<loaded, gone, strokes>>

\* The reload loads what is on disk, or fails and leaves what was loaded.  Only a save
\* has asked for a new list as well.
Reload ==
    /\ loop.at = "reload"
    /\ loop' = [loop EXCEPT !.at = "loop"]
    /\ loaded' \in {manifests, loaded}
    /\ UNCHANGED <<manifests, board, saves, gone, strokes>>

\* reconcile_pending_actions: what is listed is no longer pending, and after 30 seconds
\* what is not is given up.
Reconciled(pendings, listed, old) == pendings \ (listed \cup old)

\* tick: the list, once or when asked for; then the selection, and the detail.
TickActions ==
    /\ loop.at = "loop" /\ loop.on = "actions" /\ ~Modal(board)
    /\ ~board.fetched \/ board.refresh
    /\ LET listed == {a \in ActionIds : loaded[a] # {}}
           sorted == Rows(listed)
           sought == IF board.seek \in listed THEN CHOOSE n \in 1 .. Len(sorted) : sorted[n] = board.seek ELSE board.selected
       IN \E old \in SUBSET board.pendings :
            board' = [board EXCEPT !.actions = sorted, !.fetched = TRUE, !.refresh = FALSE, !.seek = 0,
                        !.pendings = Reconciled(@, listed, old),
                        !.selected = IF sorted = <<>> THEN 1 ELSE IF sought > Len(sorted) THEN Len(sorted) ELSE sought,
                        !.detail = IF sorted = <<>> \/ board.seek \in listed \/ Len(sorted) # Len(board.actions)
                                   THEN 0 ELSE @]
    /\ UNCHANGED <<manifests, loaded, loop, saves, gone, strokes>>

TickActionDetail ==
    /\ loop.at = "loop" /\ loop.on = "actions" /\ ~Modal(board)
    /\ board.fetched /\ ~board.refresh /\ board.detail = 0 /\ SelectedAction(board) # {}
    /\ board' = [board EXCEPT !.detail = board.actions[board.selected]]
    /\ UNCHANGED <<manifests, loaded, loop, saves, gone, strokes>>

\* Others write and remove manifests, and reload the gate.
Elsewhere ==
    /\ strokes.elsewhere < MaxElsewhere
    /\ strokes' = [strokes EXCEPT !.elsewhere = @ + 1]
    /\ manifests' \in [ActionIds -> {{}} \cup {{d} : d \in Drafts}]
    /\ loaded' \in {manifests', loaded}
    /\ UNCHANGED <<loop, board, saves, gone>>

DefaultEntry == CHOOSE x \in Entries : TRUE

ActionsNext ==
    \/ \E key \in Strokes \ {"enter"} : Stroke(key, "good", DefaultEntry, 0, "method")
    \/ \E id \in ActionIds, next \in {"method", "fsops"} : Stroke("enter", "good", DefaultEntry, id, next)
    \/ \E text \in {"empty", "bad"} : Modal(board) /\ Stroke("enter", text, DefaultEntry, 0, "method")
    \/ Save \/ Reload \/ TickActions \/ TickActionDetail \/ Elsewhere

ActionsSpec == ActionsInit /\ [][ActionsNext]_actionsVars

--------------------------------------------------------------------------------
(***************************************************************************)
(* Properties.                                                             *)
(***************************************************************************)
ActionsTypeOK ==
    /\ \A a \in ActionIds : Cardinality(manifests[a]) <= 1 /\ Cardinality(loaded[a]) <= 1
    /\ loop \in [at : {"loop", "save", "reload", "quit"}, on : {"actions", "other"}, input : BOOLEAN, revoke : BOOLEAN]
    /\ board.actions \in Seq(ActionIds) /\ board.detail \in ActionIds \cup {0}
    /\ board.create \in {"none", "id", "provider", "method", "url", "fsops"}
    /\ gone \in {"none", "discarded", "quit"}

\* The detail beside the list is that of the selected action, whatever the reloads, the
\* saves and the keys since it was fetched.
DetailIsOfSelected == board.detail # 0 => SelectedAction(board) = {board.detail}

\* A removal takes the item under the cursor: the cursor is on an item of a list that has one.
CursorOnItem ==
    board.edit.open /\ OnList(board.edit) /\ ListLen(board.edit) > 0 => board.edit.cursor \in 1 .. ListLen(board.edit)

\* A changed draft goes only by a save, or by the y that answers the question: as long
\* as no save was refused it is not lost with a stray key.
DraftIsHeld ==
    /\ gone = "quit" => saves.refused
    /\ Modal(board) /\ ~saves.refused /\ loop.at = "loop" => loop.input /\ loop.on = "actions"
    /\ board.edit.open /\ ~board.edit.dirty => board.edit.spec = board.edit.read

\* All of it.
ActionsSafe == DetailIsOfSelected /\ CursorOnItem /\ DraftIsHeld

\* The edit and create screens own all key input while either is open (is_modal): the
\* loop is in input mode, so that q and the digits cannot leave an unsaved action.
EditOwnsKeys == Modal(board) /\ loop.at = "loop" => loop.input

\* R retries the reload that failed, as the message about it says.
RetryReloads == saves.retry # "revoke"

\* A saved manifest that the gate has not loaded is marked as pending.
UnloadedIsPending ==
    \A n \in 1 .. Len(board.actions) :
        board.fetched /\ ~board.refresh /\ strokes.elsewhere = 0 /\ manifests[board.actions[n]] # loaded[board.actions[n]]
          => board.actions[n] \in board.pendings

--------------------------------------------------------------------------------
(***************************************************************************)
(* The allowlists screen of the operator's console (tui/src/allowlists.rs, *)
(* over the generic list of learned_list.rs): the domains and the paths    *)
(* that were learned for an action, with a selector of the action, a jump  *)
(* to one by name, and the changes, which name the action that is active   *)
(* and the entry that is selected.  The lists are fetched at every tick,   *)
(* also while a question is open.                                          *)
(***************************************************************************)

CONSTANTS
    Registered,     \* the gate's actions, as a sequence
    Learnable,      \* entries that can be learned (numbers, in the order listed)
    MaxPresses, MaxLearned      \* bounds: keys, changes by the gate and other operators

ASSUME PanelAssumption ==
    /\ Registered \in Seq(Nat)
    /\ Learnable \subseteq Nat /\ IsFiniteSet(Learnable)
    /\ {MaxPresses, MaxLearned} \subseteq Nat

VARIABLES
    learned,    \* per mode and action: what the gate holds
    panel,      \* per mode: the list screen
    mode,       \* which of the two is shown
    focus,      \* the loop: where it is and whether it is in input mode
    changed,    \* the last change sent: action, entry, and whose list the entry was in
    presses     \* keys and other changes so far

learnedVars == <<learned, panel, mode, focus, changed, presses>>

Modes == {"domains", "paths"}
ActionSet == {Registered[n] : n \in 1 .. Len(Registered)}

\* active_action_id, selected_value.
ActiveAction(p) == IF p.active \in 1 .. Len(p.actions) THEN {p.actions[p.active]} ELSE {}
SelectedValue(p) == IF p.selected \in 1 .. Len(p.items) THEN {p.items[p.selected]} ELSE {}

\* is_modal.
PanelModal(p) == p.dialog # "none"

NewPanel == [actions |-> <<>>, active |-> 1, items |-> <<>>, owner |-> 0, selected |-> 1, dialog |-> "none",
             matches |-> <<>>, pick |-> 1, pending |-> "none", value |-> 0, whose |-> 0]

LearnedInit ==
    /\ learned \in [Modes -> [ActionSet -> {{}, Learnable}]]
    /\ panel = [m \in Modes |-> NewPanel]
    /\ mode = "domains"
    /\ focus = [at |-> "loop", input |-> FALSE]
    /\ changed = [action |-> 0, whose |-> 0]
    /\ presses = [keys |-> 0, others |-> 0]

--------------------------------------------------------------------------------
\* A variant with a fault: the entries of the action before stay on the
\* screen.
SwitchActionKeepsItems(p, n) == [p EXCEPT !.active = n, !.selected = 1]

\* switch_action, select_action: the entries of the action that was active are dropped.
SwitchAction(p, n) == [p EXCEPT !.active = n, !.items = <<>>, !.selected = 1]
SelectAction(p, n) == IF n \in 1 .. Len(p.actions) /\ n # p.active THEN SwitchAction(p, n) ELSE p

\* clamp_selection.
Clamped(p) == [p EXCEPT !.selected = IF p.items = <<>> THEN 1 ELSE IF @ > Len(p.items) THEN Len(p.items) ELSE @]

\* recompute_jump_matches: every action, or those the query names.
JumpMatches(p, query) == Rows({n \in 1 .. Len(p.actions) : query \in {0, p.actions[n]}})

Shows(p, a) == [p |-> p, a |-> a]
Ended(p) == Shows([p EXCEPT !.dialog = "none"], "end")
Sends(p, what, value) ==
    Shows([p EXCEPT !.dialog = "none", !.pending = what, !.value = value, !.whose = p.owner], "async")

\* The question about a removal or a clear: y, and anything else ends it.
QuestionKey(p, key) ==
    CASE key = "y" /\ p.dialog = "clear" -> Sends(p, "clear", 0)
      [] key = "y" /\ p.dialog = "remove" /\ SelectedValue(p) # {} -> Sends(p, "remove", p.items[p.selected])
      [] OTHER -> Ended(p)

AddKey(p, key, value) ==
    CASE key = "enter" /\ value # 0 -> Shows([p EXCEPT !.dialog = "none", !.pending = "add", !.value = value,
                                                      !.whose = 0], "async")
      [] key \in {"enter", "esc"} /\ ~(key = "enter" /\ value # 0) -> Ended(p)
      [] OTHER -> Shows(p, "noop")

\* The jump filter: a letter narrows the matches, up and down move among them.
JumpKey(p, key, query) ==
    CASE key = "up" -> Shows([p EXCEPT !.pick = IF @ > 1 THEN @ - 1 ELSE 1], "noop")
      [] key = "down" -> Shows([p EXCEPT !.pick = IF @ < Len(p.matches) THEN @ + 1 ELSE @], "noop")
      [] key = "enter" -> Ended(IF p.pick \in 1 .. Len(p.matches) THEN SelectAction(p, p.matches[p.pick]) ELSE p)
      [] key = "esc" -> Ended(p)
      [] OTHER -> Shows([p EXCEPT !.matches = JumpMatches(p, query), !.pick = 1], "noop")

NormalKey(p, key) ==
    LET len == Len(p.actions)
    IN CASE key = "left" /\ len > 0 -> Shows(SwitchAction(p, IF p.active = 1 THEN len ELSE p.active - 1), "noop")
         [] key = "right" /\ len > 0 -> Shows(SwitchAction(p, (p.active % len) + 1), "noop")
         [] key = "slash" /\ len > 0 ->
              Shows([p EXCEPT !.dialog = "jump", !.matches = JumpMatches(p, 0), !.pick = 1], "begin")
         [] key = "up" /\ p.selected > 1 /\ p.items # <<>> -> Shows([p EXCEPT !.selected = @ - 1], "noop")
         [] key = "down" /\ p.selected < Len(p.items) -> Shows([p EXCEPT !.selected = @ + 1], "noop")
         [] key = "a" /\ ActiveAction(p) # {} -> Shows([p EXCEPT !.dialog = "add"], "begin")
         [] key = "x" /\ SelectedValue(p) # {} -> Shows([p EXCEPT !.dialog = "remove"], "begin")
         [] key = "c" /\ ActiveAction(p) # {} /\ p.items # <<>> -> Shows([p EXCEPT !.dialog = "clear"], "begin")
         [] OTHER -> Shows(p, "noop")

PanelKey(p, key, value) ==
    CASE p.dialog \in {"remove", "clear"} -> QuestionKey(p, key)
      [] p.dialog = "add" -> AddKey(p, key, value)
      [] p.dialog = "jump" -> JumpKey(p, key, value)
      [] p.dialog = "none" -> NormalKey(p, key)

\* The screen: d and p change the mode unless the list owns the keys; the loop leaves
\* the screen with a global key unless it is in input mode.
PressKey(key, value) ==
    LET shown == PanelKey(panel[mode], key, value)
    IN /\ focus.at = "loop" /\ presses.keys < MaxPresses
       /\ presses' = [presses EXCEPT !.keys = @ + 1]
       /\ IF key = "q" /\ ~focus.input
          THEN focus' = [focus EXCEPT !.at = "quit"] /\ UNCHANGED <<panel, mode>>
          ELSE IF key = "mode" /\ ~PanelModal(panel[mode])
          THEN mode' \in Modes \ {mode} /\ UNCHANGED <<panel, focus>>
          ELSE /\ panel' = [panel EXCEPT ![mode] = shown.p]
               /\ focus' = CASE shown.a = "begin" -> [focus EXCEPT !.input = TRUE]
                             [] shown.a = "end" -> [focus EXCEPT !.input = FALSE]
                             [] shown.a = "async" -> [focus EXCEPT !.input = FALSE, !.at = "act"]
                             [] OTHER -> focus
               /\ UNCHANGED mode
       /\ UNCHANGED <<learned, changed>>

\* handle_action: sent for the active action; done, refused, or done with the answer late.
SendChange ==
    LET p == panel[mode]
    IN /\ focus.at = "act"
       /\ focus' = [focus EXCEPT !.at = "loop"]
       /\ panel' = [panel EXCEPT ![mode].pending = "none"]
       /\ IF ActiveAction(p) = {} THEN UNCHANGED <<learned, changed>>
          ELSE LET a == p.actions[p.active]
                   done == CASE p.pending = "add" -> learned[mode][a] \cup ({p.value} \cap Learnable)
                             [] p.pending = "remove" -> learned[mode][a] \ {p.value}
                             [] p.pending = "clear" -> {}
               IN /\ learned' \in {learned, [learned EXCEPT ![mode][a] = done]}
                  /\ changed' = [action |-> a, whose |-> IF p.pending = "remove" THEN p.whose ELSE a]
       /\ UNCHANGED <<mode, presses>>

\* tick: the actions once, and the entries of the active one.
FetchActions ==
    /\ focus.at = "loop" /\ panel[mode].actions = <<>> /\ Registered # <<>>
    /\ panel' = [panel EXCEPT ![mode].actions = Registered,
                              ![mode].active = IF @ > Len(Registered) THEN 1 ELSE @]
    /\ UNCHANGED <<learned, mode, focus, changed, presses>>

FetchItems ==
    LET p == panel[mode]
    IN /\ focus.at = "loop" /\ ActiveAction(p) # {}
       /\ panel' = [panel EXCEPT ![mode] = Clamped([p EXCEPT !.items = Rows(learned[mode][p.actions[p.active]]),
                                                            !.owner = p.actions[p.active]])]
       /\ UNCHANGED <<learned, mode, focus, changed, presses>>

\* An approval teaches the gate an entry; another operator removes one.
LearnedElsewhere ==
    /\ presses.others < MaxLearned
    /\ presses' = [presses EXCEPT !.others = @ + 1]
    /\ \E m \in Modes, a \in ActionSet, e \in Learnable :
          learned' = [learned EXCEPT ![m][a] = IF e \in @ THEN @ \ {e} ELSE @ \cup {e}]
    /\ UNCHANGED <<panel, mode, focus, changed>>

LearnedKeys == {"y", "esc", "left", "right", "up", "down", "slash", "a", "x", "c", "q", "mode", "letter"}

LearnedNext ==
    \/ \E key \in LearnedKeys : PressKey(key, Registered[1])
    \/ \E value \in Learnable \cup {0} : PressKey("enter", value)
    \/ SendChange \/ FetchActions \/ FetchItems \/ LearnedElsewhere

LearnedSpec == LearnedInit /\ [][LearnedNext]_learnedVars

--------------------------------------------------------------------------------
LearnedTypeOK ==
    /\ learned \in [Modes -> [ActionSet -> SUBSET Learnable]]
    /\ mode \in Modes
    /\ focus \in [at : {"loop", "act", "quit"}, input : BOOLEAN]
    /\ \A m \in Modes : panel[m].dialog \in {"none", "add", "remove", "clear", "jump"}

\* The entries beside an action are its own, and the selection is one of them: however
\* the actions were switched, jumped to and fetched, no other action's list is shown.
EntriesAreOfActive ==
    \A m \in Modes :
        /\ panel[m].items # <<>> => ActiveAction(panel[m]) = {panel[m].owner} /\ SelectedValue(panel[m]) # {}
        /\ panel[m].dialog = "jump" => panel[m].pick \in 1 .. (IF panel[m].matches = <<>> THEN 1 ELSE Len(panel[m].matches))

\* A removal is sent for the action in whose list the entry was shown.
RemovedFromItsList == changed.whose = changed.action

\* An open question or input owns the keys, in the mode that is shown.
LearnedHoldsInput ==
    /\ focus.at = "loop" => (focus.input <=> PanelModal(panel[mode]))
    /\ \A m \in Modes \ {mode} : ~PanelModal(panel[m]) /\ panel[m].pending = "none"

\* All of it.
LearnedSafe == EntriesAreOfActive /\ RemovedFromItsList /\ LearnedHoldsInput

\* What a screen changes is what it shows (tui/config.rs, actions.rs,
\* learned_list.rs).
ScreensSafe ==
    /\ SetupTypeOK /\ SetupSafe /\ ActionsTypeOK /\ ActionsSafe
    /\ LearnedTypeOK /\ LearnedSafe
===============================================================================
