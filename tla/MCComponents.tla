----------------------------- MODULE MCComponents -----------------------------
(***************************************************************************)
(* Small instances, for TLC, of the components whose state is shared by    *)
(* the gate's requests, or by the operator's console with its polls, and   *)
(* that do not call each other.  Each behaviour exercises the one that     *)
(* `focus` names, from its initial state; the others stay as they are, so  *)
(* that their state spaces add up and do not multiply.                     *)
(***************************************************************************)
EXTENDS ApprovalStore, RateLimiter, ReplayCache, LearnedAllowlist, PolicyAdmin,
        Ledger, LeaseSession, ProviderRun, OperatorConsole, TLC

CONSTANTS a1, k1, k2, k3, t1, t2, t3, q1, q2, x1, g1, g2, p1, d1, d2, u1, u2

VARIABLE focus

allVars == <<focus, storeVars, rateVars, limiterVars, replayVars, learnedVars,
             policyVars, ledgerVars, sessionVars, runVars, consoleVars, feedVars>>

TwoKeyRps == [k \in Keys |-> 2]
NoManifest == [a \in Actions |-> {}]
FirstTrace == [x \in Grants |-> t1]

\* The concurrent requests are interchangeable.
ComponentSymmetry == Permutations({u1, u2})

ComponentsInit ==
    /\ focus \in {"store", "rate", "limiters", "replay", "learned", "policy", "ledger",
                  "session", "provider", "console", "feed"}
    /\ Init /\ RateInit /\ LimiterInit /\ ReplayInit /\ LearnedInit /\ PolicyInit
    /\ LedgerInit /\ SessionInit
    /\ RunInit /\ ConsoleInit /\ FeedInit
    /\ focus # "provider" => \A f \in Paths : disk[f] = Missing

ComponentsNext ==
    \/ /\ focus = "store" /\ Next
       /\ UNCHANGED <<focus, rateVars, limiterVars, replayVars, learnedVars, policyVars,
                      ledgerVars, sessionVars, runVars, consoleVars, feedVars>>
    \/ /\ focus = "rate" /\ RateNext
       /\ UNCHANGED <<focus, storeVars, limiterVars, replayVars, learnedVars, policyVars,
                      ledgerVars, sessionVars, runVars, consoleVars, feedVars>>
    \/ /\ focus = "limiters" /\ LimiterNext
       /\ UNCHANGED <<focus, storeVars, rateVars, replayVars, learnedVars, policyVars,
                      ledgerVars, sessionVars, runVars, consoleVars, feedVars>>
    \/ /\ focus = "replay" /\ ReplayNext
       /\ UNCHANGED <<focus, storeVars, rateVars, limiterVars, learnedVars, policyVars,
                      ledgerVars, sessionVars, runVars, consoleVars, feedVars>>
    \/ /\ focus = "learned" /\ LearnedNext
       /\ UNCHANGED <<focus, storeVars, rateVars, limiterVars, replayVars, policyVars,
                      ledgerVars, sessionVars, runVars, consoleVars, feedVars>>
    \/ /\ focus = "policy" /\ PolicyNext
       /\ UNCHANGED <<focus, storeVars, rateVars, limiterVars, replayVars, learnedVars,
                      ledgerVars, sessionVars, runVars, consoleVars, feedVars>>
    \/ /\ focus = "ledger" /\ LedgerNext
       /\ UNCHANGED <<focus, storeVars, rateVars, limiterVars, replayVars, learnedVars,
                      policyVars, sessionVars, runVars, consoleVars, feedVars>>
    \/ /\ focus = "session" /\ SessionNext
       /\ UNCHANGED <<focus, storeVars, rateVars, limiterVars, replayVars, learnedVars,
                      policyVars, ledgerVars, runVars, consoleVars, feedVars>>
    \/ /\ focus = "provider" /\ RunNext
       /\ UNCHANGED <<focus, storeVars, rateVars, limiterVars, replayVars, learnedVars,
                      policyVars, ledgerVars, sessionVars, consoleVars, feedVars>>
    \/ /\ focus = "console" /\ ConsoleNext
       /\ UNCHANGED <<focus, storeVars, rateVars, limiterVars, replayVars, learnedVars,
                      policyVars, ledgerVars, sessionVars, runVars, feedVars>>
    \/ /\ focus = "feed" /\ FeedNext
       /\ UNCHANGED <<focus, storeVars, rateVars, limiterVars, replayVars, learnedVars,
                      policyVars, ledgerVars, sessionVars, runVars, consoleVars>>

ComponentsSpec == ComponentsInit /\ [][ComponentsNext]_allVars
================================================================================
