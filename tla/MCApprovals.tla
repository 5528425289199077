----------------------------- MODULE MCApprovals -----------------------------
(***************************************************************************)
(* Model values for ActionApprovals: two calls on one replica, which share *)
(* its resolver's cache, and interchangeable reviewers.                    *)
(***************************************************************************)
EXTENDS ActionApprovals, TLC

CONSTANTS c1, c2, h1, h2, x1

TwoCalls == {c1, c2}
TwoHumans == {h1, h2}
OneReplica == {x1}
Together == [c \in Calls |-> x1]
Symmetry == Permutations(TwoCalls) \union Permutations(TwoHumans)
=============================================================================
