--------------------------- MODULE EventDelivery ---------------------------
(***************************************************************************)
(* What the webhook producer promises of the events it answers 202 for:    *)
(* an accepted event reaches the stream, and it does not overtake an event *)
(* that had been accepted before its own delivery started.  Consumers      *)
(* deduplicate by envelope id, so only first appearances count.            *)
(***************************************************************************)
EXTENDS Naturals, Sequences

CONSTANT Ids

VARIABLES
    accepted,   \* the events committed to the outbox
    after,      \* for each of them, the events it must follow
    delivered   \* the events of the stream, in the order of first appearance

vars == <<accepted, after, delivered>>

Delivered == {delivered[k] : k \in 1..Len(delivered)}

Init ==
    /\ accepted = {}
    /\ after = [i \in Ids |-> {}]
    /\ delivered = << >>

Accept(i) ==
    /\ i \notin accepted
    /\ accepted' = accepted \union {i}
    /\ \E earlier \in SUBSET accepted : after' = [after EXCEPT ![i] = earlier]
    /\ UNCHANGED delivered

Deliver(i) ==
    /\ i \in accepted \ Delivered
    /\ after[i] \subseteq Delivered
    /\ delivered' = Append(delivered, i)
    /\ UNCHANGED <<accepted, after>>

Next == \E i \in Ids : Accept(i) \/ Deliver(i)

Safety == Init /\ [][Next]_vars

Spec == Safety /\ \A i \in Ids : WF_vars(Deliver(i))
=============================================================================
