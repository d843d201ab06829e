----------------------------- MODULE MCApprovalFlow -----------------------------
(* Small instances of ApprovalFlow for TLC.                                    *)
EXTENDS ApprovalFlow, TLC

CONSTANTS a1, k1, k2, k3, s1

OneApproval == {a1}
TwoTokens == {k1, k2}
ThreeTokens == {k1, k2, k3}
TwoTokenTraces == TwoTokens \cup OneApproval
ThreeTokenTraces == ThreeTokens \cup OneApproval
OneSession == [a \in OneApproval |-> s1]
HighRisk == [a \in OneApproval |-> "high"]
TokenSymmetry2 == Permutations(TwoTokens)
TokenSymmetry3 == Permutations(ThreeTokens)
================================================================================
