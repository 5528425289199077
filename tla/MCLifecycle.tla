----------------------------- MODULE MCLifecycle -----------------------------
(***************************************************************************)
(* Model values for LifecycleStore: calls in flight are interchangeable,   *)
(* and so are actors.                                                      *)
(***************************************************************************)
EXTENDS LifecycleStore, TLC

CONSTANTS a1, a2, c1, c2

TwoActors == {a1, a2}
TwoCalls == {c1, c2}
Symmetry == Permutations(TwoActors) \union Permutations(TwoCalls)
=============================================================================
