--------------------------- MODULE ApprovalLifecycle ---------------------------
(***************************************************************************)
(* The lifecycle an approval promises to everyone who looks at it: it is   *)
(* opened once, may change hands while it is claimed, is closed once, and  *)
(* a closed approval keeps its verdict for ever.                           *)
(***************************************************************************)
CONSTANTS Items, Verdicts

VARIABLE verdict      \* item -> "absent", "pending", "claimed" or a verdict

LifecycleInit == verdict = [i \in Items |-> "absent"]

Become(i, from, to) ==
    /\ verdict[i] = from
    /\ verdict' = [verdict EXCEPT ![i] = to]

Open(i) == Become(i, "absent", "pending")
Take(i) == Become(i, "pending", "claimed")
Close(i, v) == Become(i, "claimed", v)

LifecycleNext ==
    \E i \in Items : Open(i) \/ Take(i) \/ \E v \in Verdicts : Close(i, v)

LifecycleSpec == LifecycleInit /\ [][LifecycleNext]_verdict
================================================================================
