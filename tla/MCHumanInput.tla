---------------------------- MODULE MCHumanInput ----------------------------
(***************************************************************************)
(* Model values for HumanInput.  Callers are interchangeable; a2 is an     *)
(* answer that the workflow refuses.                                       *)
(***************************************************************************)
EXTENDS HumanInput, TLC

CONSTANTS c1, c2, a1, a2

TwoCallers == {c1, c2}
TwoAnswers == {a1, a2}
TheSecond == {a2}
Symmetry == Permutations(TwoCallers)
=============================================================================
