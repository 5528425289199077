----------------------------- MODULE MCCommerce -----------------------------
(***************************************************************************)
(* Model values and small price lists for Commerce.  Invocations, quotes   *)
(* and gateways are interchangeable.                                       *)
(***************************************************************************)
EXTENDS Commerce, TLC

CONSTANTS i1, i2, q1, q2, g1, g2, p1

TwoInvocations == {i1, i2}
OneInvocation == {i1}
TwoQuotes == {q1, q2}
OneQuote == {q1}
TwoGateways == {g1, g2}
OneGateway == {g1}
OnePackage == {p1}
NoPackages == {}
OnSuccess == {[mode |-> "per_successful_call", price |-> 1]}
PricedAndFree == OnSuccess \union {[mode |-> "free", price |-> 0]}
OneOrTwo == {[month |-> 1, request |-> 1], [month |-> 2, request |-> 1]}
JustOne == {[month |-> 1, request |-> 1]}
Symmetry == Permutations(TwoInvocations) \union Permutations(TwoQuotes) \union Permutations(TwoGateways)
=============================================================================
