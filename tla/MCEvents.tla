------------------------------ MODULE MCEvents ------------------------------
(***************************************************************************)
(* Model values for EventRelay.                                            *)
(***************************************************************************)
EXTENDS EventRelay, TLC

CONSTANTS r1, r2, e1, e2

OneReplica == {r1}
TwoReplicas == {r1, r2}
TwoEvents == {e1, e2}
ReplicaSymmetry == Permutations(TwoReplicas) \union Permutations(TwoEvents)
=============================================================================
