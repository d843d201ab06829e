--------------------------- MODULE ExecutionContract ---------------------------
(***************************************************************************)
(* What the kernel promises about an execution, whatever path led to it:   *)
(* an effect on the outside world happens at most once per grant and only   *)
(* after a durable record of the intent; a success is reported only when   *)
(* the effect happened and its evidence is durable; and the number of      *)
(* effects a budgeted session can cause never exceeds what it was given.   *)
(***************************************************************************)
EXTENDS Naturals, FiniteSets

CONSTANTS Grants, Sessions, Budgeted, Allowance

VARIABLES
    phase,    \* grant -> "none", "recorded", "acted", "attested" or "reported"
    owner     \* grant -> the session that pays for it

contractVars == <<phase, owner>>

Phases == {"none", "recorded", "acted", "attested", "reported"}

\* The grants of session s that may cause, or have caused, an effect.
Spent(s) == {g \in Grants : owner[g] = s /\ phase[g] # "none"}

ContractInit ==
    /\ phase = [g \in Grants |-> "none"]
    /\ owner \in [Grants -> Sessions]

Move(g, from, to) ==
    /\ phase[g] \in from
    /\ phase' = [phase EXCEPT ![g] = to]
    /\ UNCHANGED owner

\* A grant is recorded only while its session still has an allowance.
Record(g) ==
    /\ owner[g] \in Budgeted => Cardinality(Spent(owner[g])) < Allowance
    /\ Move(g, {"none"}, "recorded")

Act(g) == Move(g, {"recorded"}, "acted")

Attest(g) == Move(g, {"acted"}, "attested")

\* Evidence and report may become visible together.
Report(g) == Move(g, {"acted", "attested"}, "reported")

ContractNext == \E g \in Grants : Record(g) \/ Act(g) \/ Attest(g) \/ Report(g)

ContractSpec == ContractInit /\ [][ContractNext]_contractVars
================================================================================
