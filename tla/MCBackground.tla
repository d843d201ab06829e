----------------------------- MODULE MCBackground -----------------------------
(***************************************************************************)
(* Small instances, for TLC, of the gate's background tasks, with the      *)
(* fairness their loops justify.  Each behaviour exercises the one that    *)
(* `focus` names; the others stay in their initial states.                 *)
(***************************************************************************)
EXTENDS ExpiryScanner, Webhooks, TLC

CONSTANTS a1, a2, k1, r1, r2, p1, p2, e1, e2, h1, h2

VARIABLE focus

backgroundVars == <<focus, scannerVars, outboxVars, dispatcherVars>>

NoThenOne == <<0, 1>>
FirstToAll == [e \in Events |-> IF e = e1 THEN {h1, h2} ELSE {h1}]

BackgroundInit ==
    /\ focus \in {"expiry", "outbox", "dispatcher"}
    /\ ScannerInit /\ OutboxInit /\ DispatcherInit

BackgroundNext ==
    \/ /\ focus = "expiry" /\ ScannerNext
       /\ UNCHANGED <<focus, outboxVars, dispatcherVars>>
    \/ /\ focus = "outbox" /\ OutboxNext
       /\ UNCHANGED <<focus, scannerVars, dispatcherVars>>
    \/ /\ focus = "dispatcher" /\ DispatcherNext
       /\ UNCHANGED <<focus, scannerVars, outboxVars>>

\* The fairness of the three modules, each where it has the focus.
BackgroundFairness ==
    /\ WF_scannerVars(focus = "expiry" /\ ScanOnce)
    /\ WF_outboxVars(focus = "outbox" /\ OutboxTick)
    /\ \A p \in Pollers : WF_outboxVars(focus = "outbox" /\ PollerStep(p))
    /\ WF_dispatcherVars(focus = "dispatcher" /\ LoopStep)

BackgroundSpec ==
    BackgroundInit /\ [][BackgroundNext]_backgroundVars /\ BackgroundFairness

--------------------------------------------------------------------------------

\* Subscribers and operators are told what happened, once in a life of the gate
\* (expiry.rs, dispatcher.rs).
NoticesSafe == ScannerSafe /\ DispatcherSafe

\* The loops get their work done: expiry is announced, rows are settled and a
\* shutdown ends (expiry.rs, outbox.rs, dispatcher.rs).
BackgroundProgress == ExpiredIsAnnounced /\ RowsGetSettled /\ ShutdownEnds
================================================================================
