------------------------------- MODULE MCPipeline -------------------------------
(* Small instances of Pipeline for TLC.                                        *)
EXTENDS Pipeline, TLC

CONSTANTS c1, c2, c3, s1, s2

TwoCalls == {c1, c2}
ThreeCalls == {c1, c2, c3}
CallSymmetry2 == Permutations(TwoCalls)
CallSymmetry3 == Permutations(ThreeCalls)
================================================================================
