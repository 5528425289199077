------------------------------ MODULE MCRefresh ------------------------------
(***************************************************************************)
(* Model values for RefreshStore: interchangeable concurrent requests.     *)
(***************************************************************************)
EXTENDS RefreshStore, TLC

CONSTANTS c1, c2

TwoCalls == {c1, c2}
CallSymmetry == Permutations(TwoCalls)
=============================================================================
