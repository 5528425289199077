------------------------- MODULE LifecycleOwnership -------------------------
(***************************************************************************)
(* The ownership record of internal/lifecycle and everything derived from  *)
(* it on read: types.go (IsDead, IsStuck, HandoffStalled), derive.go       *)
(* (Derive) and diverge.go (Classify).  One record answers "who advances   *)
(* this entity through this phase"; keys are independent of one another,   *)
(* so one record stands for any of them.                                   *)
(***************************************************************************)
EXTENDS Integers

CONSTANTS
    Actors,         \* owners: a (type, id) pair is one value
    DevLoopActors,  \* the owners whose type is "devloop-workflow"
    Versions,       \* non-empty entity versions
    NoActor,        \* the empty (type, id) pair of an unset column
    NoVersion,      \* the empty version string
    LivenessBound,  \* bounds[kind/phase].liveness, in clock ticks
    ProgressBound   \* bounds[kind/phase].progress

ASSUME OwnershipAssumption ==
    /\ NoActor \notin Actors
    /\ NoVersion \notin Versions
    /\ DevLoopActors \subseteq Actors
    /\ LivenessBound \in Nat
    /\ ProgressBound \in Nat

\* States that hold the entity, and the absorbing ones that gave it up.
LiveStates == {"active", "handing-off"}
FinishedStates == {"released", "terminal"}

\* A NULL timestamp.
NoTime == -1

(***************************************************************************)
(* A lifecycle_ownership row.  wf stands for the correlation columns       *)
(* (temporal_workflow_id, policy_ref): the actor that supplied them.       *)
(* ended is "released_at IS NOT NULL".  Columns no decision and no         *)
(* property reads (evidence, reasons, proposal_ref, acquired_at,           *)
(* handoff_from, created_at, updated_at) are left out.                     *)
(***************************************************************************)
Ownership ==
    [state    : LiveStates \union FinishedStates \union {"none"},
     owner    : Actors \union {NoActor},
     epoch    : Nat,
     version  : Versions \union {NoVersion},
     seen     : Nat,
     progress : Nat,
     to       : Actors \union {NoActor},
     started  : Nat \union {NoTime},
     wf       : Actors \union {NoActor},
     ended    : BOOLEAN]

\* No row under the key: the store answers ErrNotFound.
NoRow ==
    [state |-> "none", owner |-> NoActor, epoch |-> 0, version |-> NoVersion,
     seen |-> 0, progress |-> 0, to |-> NoActor, started |-> NoTime,
     wf |-> NoActor, ended |-> FALSE]

IsLive(o) == o.state \in LiveStates

IsDead(o, t) == IsLive(o) /\ t - o.seen > LivenessBound

IsStuck(o, t) ==
    o.state = "active" /\ ~IsDead(o, t) /\ t - o.progress > ProgressBound

HandoffStalled(o, t) ==
    o.state = "handing-off" /\ o.started # NoTime /\ t - o.started > LivenessBound

(***************************************************************************)
(* Derive: the read-side view.  Held is computed from the takeover         *)
(* predicate and never from the status.                                    *)
(***************************************************************************)
Status(o, t) ==
    CASE o.state = "none" -> "unknown"
      [] o.state = "terminal" -> "terminal"
      [] o.state = "released" -> "released"
      [] HandoffStalled(o, t) -> "handoff-stalled"
      [] o.state = "handing-off" /\ ~HandoffStalled(o, t) -> "handing-off"
      [] o.state = "active" /\ IsDead(o, t) -> "dead"
      [] IsStuck(o, t) -> "stuck"
      [] OTHER -> "healthy"

\* Mutant: held read off the status.
HeldByStatus(o, t) == Status(o, t) \in {"healthy", "stuck", "handing-off"}

Held(o, t) == IsLive(o) /\ ~IsDead(o, t)

LegacyAnswers == {"unknown", "owned", "free"}

(***************************************************************************)
(* ClassifyDerived: the store's answer against the old mechanism's.  The   *)
(* class "store-permits-old-forbids" is the only dangerous one.            *)
(***************************************************************************)
Classify(o, t, storeReadable, legacy) ==
    CASE ~storeReadable -> "store-unknown"
      [] storeReadable /\ legacy = "unknown" -> "legacy-unknown"
      [] storeReadable /\ legacy = "owned" /\ Held(o, t) ->
            IF o.owner \in DevLoopActors THEN "agree" ELSE "owner-mismatch"
      [] storeReadable /\ legacy = "owned" /\ ~Held(o, t) ->
            "store-permits-old-forbids"
      [] storeReadable /\ legacy = "free" /\ Held(o, t) ->
            "store-forbids-old-permits"
      [] storeReadable /\ legacy = "free" /\ ~Held(o, t) -> "agree"
=============================================================================
