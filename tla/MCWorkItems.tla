---------------------------- MODULE MCWorkItems -----------------------------
(***************************************************************************)
(* Model values for WorkItems.                                             *)
(***************************************************************************)
EXTENDS WorkItems, TLC

CONSTANTS c1, c2, s1, u1, t1, t2, w1, k1

Nobody == {}
OneKey == {k1}
OneClaimant == {c1}
TwoClaimants == {c1, c2}
OneSweeper == {s1}
OneSubmit == {u1}
TwoRuns == {t1, t2}
Workflow == {w1}
OneTemporal == {t1}
OneOfEach == {t1, w1}
Symmetry == Permutations(TwoClaimants) \union Permutations(TwoRuns)
=============================================================================
