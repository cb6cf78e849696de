---------------------------- MODULE MCUsageCaps ----------------------------
(***************************************************************************)
(* Instances of UsageCaps for TLC.                                         *)
(***************************************************************************)
EXTENDS UsageCaps, TLC

CONSTANTS r1, r2, p1, p2, s1, s2, k1, k2

TwoRunners == {r1, r2}
TwoProcesses == {p1, p2}
TwoSends == {s1, s2}
TwoReads == {k1, k2}
AnyScenario ==
  {<<TwoSends, {"crash"}, 1>>, <<TwoSends, {}, 2>>, <<TwoReads, {}, 1>>,
   <<{k1}, {"pause", "resume"}, 1>>, <<{s1}, {"limits"}, 1>>}
InOrder == s1 :> 1 @@ s2 :> 2 @@ k1 :> 3 @@ k2 :> 4

Interchangeable == Permutations(TwoRunners) \cup Permutations(TwoProcesses)
=============================================================================
