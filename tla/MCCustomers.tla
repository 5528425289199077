---------------------------- MODULE MCCustomers -----------------------------
(***************************************************************************)
(* Model values for CustomerDeletion: two customers and two calls.         *)
(***************************************************************************)
EXTENDS CustomerDeletion, TLC

CONSTANTS p1, p2, c1, c2

TwoCustomers == {p1, p2}
TwoCalls == {c1, c2}
Symmetry == Permutations(TwoCustomers) \union Permutations(TwoCalls)
=============================================================================
