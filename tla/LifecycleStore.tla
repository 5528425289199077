--------------------------- MODULE LifecycleStore ---------------------------
(***************************************************************************)
(* internal/lifecycle/store.go and recovery.go: the durable answer to "who *)
(* may act on this entity phase", fenced by an epoch.                      *)
(*                                                                         *)
(* Every operation is a transaction of up to three steps, each a statement *)
(* of the code: Begin reads the row and decides, the write is a guarded    *)
(* UPDATE (or upsert) pinned to what was read, and a write that matched no *)
(* row re-reads to decide what the caller is told.  inTx serialises the    *)
(* three with an advisory lock; the code claims its correctness rests on   *)
(* the WHERE clauses and survives the lock being removed, so the lock is a *)
(* parameter.                                                              *)
(*                                                                         *)
(* A refused call (wrong owner, wrong epoch, owned by other, not dead...)  *)
(* writes nothing the model keeps and is a stuttering step: the guard of   *)
(* the Begin action is the code's list of refusals.                        *)
(***************************************************************************)
EXTENDS LifecycleOwnership

CONSTANTS
    Callers,       \* calls that may be in flight at the same time
    AdvisoryLock,  \* whether inTx takes pg_advisory_xact_lock
    Correlated,    \* what callers do: subset of {TRUE: send correlation, FALSE: not}
    MaxEpoch,      \* bound: no takeover starts on a row at this epoch
    MaxTime        \* bound on the clock

ASSUME StoreAssumption ==
    /\ AdvisoryLock \in BOOLEAN
    /\ Correlated \subseteq BOOLEAN
    /\ MaxEpoch \in Nat
    /\ MaxTime \in Nat

VARIABLES
    row,    \* the lifecycle_ownership row of the key
    now,    \* the clock every replica reads
    call,   \* the transactions in flight
    held,   \* the newest epoch each actor was told it owns (its fencing token)
    trail   \* the newest lifecycle_events entry of an ownership transition

vars == <<row, now, call, held, trail>>

Ops == {"acquire", "progress", "handoffStart", "handoffComplete", "released",
        "terminal", "recover", "fence", "requestHandoff", "retryHandoff"}

\* One request.  who is the calling actor, or for an operator's recovery
\* transition the owner it expects; wf says the caller sends its correlation,
\* pin that it sends the optional expected_last_seen_at.
Request ==
    [op      : Ops,
     who     : Actors \union {NoActor},
     epoch   : Nat,
     to      : Actors \union {NoActor},
     version : Versions \union {NoVersion},
     wf      : BOOLEAN,
     pin     : BOOLEAN]

NoRequest ==
    [op |-> "acquire", who |-> NoActor, epoch |-> 0, to |-> NoActor,
     version |-> NoVersion, wf |-> FALSE, pin |-> FALSE]

Call ==
    [phase : {"idle", "write", "reread"},
     req   : Request,
     read  : Ownership,  \* the row Begin read
     at    : Nat]        \* time.Now() as Begin took it

IdleCall == [phase |-> "idle", req |-> NoRequest, read |-> NoRow, at |-> 0]

Events == {"owner-acquired", "handoff-started", "handoff-requested",
           "handoff-completed", "owner-released", "owner-terminal",
           "recovered", "fenced", "none"}

\* who of an entry is the owner it installs, or the target it announces.
Trail == [event : Events, epoch : Nat, who : Actors \union {NoActor}]

-----------------------------------------------------------------------------
Init ==
    /\ row = NoRow
    /\ now = 0
    /\ call = [c \in Callers |-> IdleCall]
    /\ held = [a \in Actors |-> 0]
    /\ trail = [event |-> "none", epoch |-> 0, who |-> NoActor]

\* COALESCE(NULLIF(given, ''), stored): an omitted version keeps the stored one.
Coalesce(given, stored) == IF given = NoVersion THEN stored ELSE given

LockFree == AdvisoryLock => \A d \in Callers : call[d].phase = "idle"

\* BEGIN, take the lock, read the row; the operation's guard then decides.
Begin(c, q) ==
    /\ call[c].phase = "idle"
    /\ LockFree
    /\ call' = [call EXCEPT ![c] = [phase |-> "write", req |-> q,
                                    read |-> row, at |-> now]]
    /\ UNCHANGED <<row, now, held, trail>>

Writing(c, op) == call[c].phase = "write" /\ call[c].req.op = op

EndTx(c) == call' = [call EXCEPT ![c] = IdleCall]

\* The guarded statement matched: its row and its event are committed.
Commit(c, r, entry) ==
    /\ row' = r
    /\ trail' = entry
    /\ EndTx(c)
    /\ UNCHANGED now

\* It matched no row: nothing is written, the call goes on to re-read.
Miss(c) ==
    /\ call' = [call EXCEPT ![c].phase = "reread"]
    /\ UNCHANGED <<row, now, held, trail>>

Entry(event, epoch, who) == [event |-> event, epoch |-> epoch, who |-> who]

\* The answer that makes a the owner, unless the response is lost on the way.
Grant(a, epoch) == held' = [held EXCEPT ![a] = epoch] \/ UNCHANGED held

\* currentFor: only the current owner, at the current epoch of a live row.
CurrentFor(owner, epoch) ==
    row.owner = owner /\ IsLive(row) /\ row.epoch = epoch

\* The recovery preconditions of an operator, which every recovery statement
\* repeats in its WHERE: epoch, owner and entity version as it saw them.
PreconditionsHold(q) ==
    row.epoch = q.epoch /\ row.owner = q.who /\ row.version = q.version

-----------------------------------------------------------------------------
(* Acquire.  A live row of somebody else is refused at any age; the        *)
(* caller's own is refreshed; a free one is taken by the upsert.           *)

AcquireAdmits(a) == IsLive(row) => row.owner = a

BeginAcquire(c) ==
    \E a \in Actors, v \in Versions \union {NoVersion}, w \in Correlated :
        /\ AcquireAdmits(a)
        /\ ~IsLive(row) => row.epoch < MaxEpoch
        /\ Begin(c, [NoRequest EXCEPT !.op = "acquire", !.who = a,
                                      !.version = v, !.wf = w])

\* Mutant: the refresh pinned to nothing but the state.
ReacquireMatchUnpinned(c) == row.state = call[c].read.state

ReacquireMatch(c) ==
    LET o == call[c].read IN
    row.epoch = o.epoch /\ row.owner = o.owner /\ row.state = o.state

\* reacquireRefreshSQL: a tick of the owner, frozen while it is handing off.
ReacquireRefresh(c) ==
    LET k == call[c] IN
    [row EXCEPT !.seen = IF k.read.state = "handing-off" THEN k.read.seen ELSE k.at,
                !.version = Coalesce(k.req.version, row.version),
                !.wf = IF k.req.wf THEN k.req.who ELSE row.wf]

\* Mutant: epoch = EXCLUDED.epoch, computed from the row that was read.
AcquireUpsertExcluded(c) ==
    LET k == call[c] IN
    [state |-> "active", owner |-> k.req.who, epoch |-> k.read.epoch + 1,
     version |-> k.req.version, seen |-> k.at, progress |-> k.at,
     to |-> NoActor, started |-> NoTime,
     wf |-> IF k.req.wf THEN k.req.who ELSE NoActor, ended |-> FALSE]

\* acquireUpsertSQL: the database computes the next epoch from the stored row.
AcquireUpsert(c) ==
    LET k == call[c] IN
    [state |-> "active", owner |-> k.req.who, epoch |-> row.epoch + 1,
     version |-> k.req.version, seen |-> k.at, progress |-> k.at,
     to |-> NoActor, started |-> NoTime,
     wf |-> IF k.req.wf THEN k.req.who ELSE NoActor, ended |-> FALSE]

Reacquire(c) ==
    /\ Writing(c, "acquire")
    /\ IsLive(call[c].read)
    /\ \/ /\ ReacquireMatch(c)
          /\ Commit(c, ReacquireRefresh(c), trail)
          /\ Grant(call[c].req.who, row.epoch)
       \/ ~ReacquireMatch(c) /\ Miss(c)

Acquire(c) ==
    /\ Writing(c, "acquire")
    /\ ~IsLive(call[c].read)
    /\ \/ /\ ~IsLive(row)
          /\ Commit(c, AcquireUpsert(c),
                    Entry("owner-acquired", row.epoch + 1, call[c].req.who))
          /\ Grant(call[c].req.who, row.epoch + 1)
       \/ IsLive(row) /\ Miss(c)

-----------------------------------------------------------------------------
(* RecordProgress, HandoffStart, HandoffComplete and finish.               *)

BeginProgress(c) ==
    \E a \in Actors, e \in 1..row.epoch, v \in Versions \union {NoVersion} :
        /\ CurrentFor(a, e)
        /\ Begin(c, [NoRequest EXCEPT !.op = "progress", !.who = a,
                                      !.epoch = e, !.version = v])

ProgressMatch(c) ==
    row.epoch = call[c].req.epoch /\ row.state = call[c].read.state

\* progressUpdateSQL: progress always, liveness only while not handing off.
ProgressUpdate(c) ==
    LET k == call[c] IN
    [row EXCEPT !.progress = k.at,
                !.seen = IF k.read.state = "handing-off" THEN k.read.seen ELSE k.at,
                !.version = Coalesce(k.req.version, row.version)]

RecordProgress(c) ==
    /\ Writing(c, "progress")
    /\ \/ /\ ProgressMatch(c)
          /\ Commit(c, ProgressUpdate(c), trail)
          /\ UNCHANGED held
       \/ ~ProgressMatch(c) /\ Miss(c)

BeginHandoffStart(c) ==
    \E a \in Actors, e \in 1..row.epoch, to \in Actors :
        /\ CurrentFor(a, e)
        /\ Begin(c, [NoRequest EXCEPT !.op = "handoffStart", !.who = a,
                                      !.epoch = e, !.to = to])

\* The same target announced again: a no-op on both clocks and on the trail.
Reannounced(c) ==
    call[c].read.state = "handing-off" /\ call[c].read.to = call[c].req.to

\* Mutant: handoff_to is not pinned.
HandoffStartMatchEpochState(c) ==
    row.epoch = call[c].req.epoch /\ row.state = call[c].read.state

HandoffStartMatch(c) ==
    /\ row.epoch = call[c].req.epoch
    /\ row.state = call[c].read.state
    /\ row.to = call[c].read.to

HandoffStartUpdate(c) ==
    LET k == call[c] IN
    [row EXCEPT !.state = "handing-off",
                !.to = k.req.to,
                !.started = IF Reannounced(c) /\ k.read.started # NoTime
                            THEN k.read.started ELSE k.at,
                !.seen = IF k.read.state = "handing-off" THEN k.read.seen ELSE k.at]

HandoffStart(c) ==
    /\ Writing(c, "handoffStart")
    /\ \/ /\ HandoffStartMatch(c)
          /\ Commit(c, HandoffStartUpdate(c),
                    IF Reannounced(c) THEN trail
                    ELSE Entry("handoff-started", row.epoch, call[c].req.to))
          /\ UNCHANGED held
       \/ ~HandoffStartMatch(c) /\ Miss(c)

\* HandoffComplete answered from the read: already completed by this caller.
HandoffCompleteAgain(c) ==
    /\ call[c].phase = "idle"
    /\ LockFree
    /\ row.state = "active"
    /\ Grant(row.owner, row.epoch)
    /\ UNCHANGED <<row, now, call, trail>>

HandoffNames(a) == row.state = "handing-off" /\ row.to = a

BeginHandoffComplete(c) ==
    \E a \in Actors, w \in Correlated :
        /\ row.epoch < MaxEpoch
        /\ HandoffNames(a)
        /\ Begin(c, [NoRequest EXCEPT !.op = "handoffComplete", !.who = a, !.wf = w])

HandoffCompleteMatch(c) ==
    /\ row.epoch = call[c].read.epoch
    /\ row.state = "handing-off"
    /\ row.to = call[c].req.who

\* handoffCompleteUpdateSQL and recoverUpdateSQL install an owner the same way.
Installed(c) ==
    LET k == call[c] IN
    [row EXCEPT !.owner = k.req.who, !.epoch = row.epoch + 1, !.state = "active",
                !.seen = k.at, !.progress = k.at,
                !.wf = IF k.req.wf THEN k.req.who ELSE NoActor,
                !.to = NoActor, !.started = NoTime, !.ended = FALSE]

HandoffComplete(c) ==
    /\ Writing(c, "handoffComplete")
    /\ \/ /\ HandoffCompleteMatch(c)
          /\ Commit(c, Installed(c),
                    Entry("handoff-completed", row.epoch + 1, call[c].req.who))
          /\ Grant(call[c].req.who, row.epoch + 1)
       \/ ~HandoffCompleteMatch(c) /\ Miss(c)

BeginFinish(c) ==
    \E a \in Actors, e \in 1..row.epoch, s \in FinishedStates :
        /\ CurrentFor(a, e)
        /\ Begin(c, [NoRequest EXCEPT !.op = s, !.who = a, !.epoch = e])

\* Mutant: only the epoch is pinned.
FinishMatchEpoch(c) == row.epoch = call[c].req.epoch

\* finishUpdateSQL pins the class of the state, not the state that was read.
FinishMatch(c) == row.epoch = call[c].req.epoch /\ IsLive(row)

FinishUpdate(c) ==
    [row EXCEPT !.state = call[c].req.op, !.ended = TRUE,
                !.to = NoActor, !.started = NoTime]

\* Release and Terminal.
Finish(c) ==
    /\ \E s \in FinishedStates : Writing(c, s)
    /\ \/ /\ FinishMatch(c)
          /\ Commit(c, FinishUpdate(c),
                    Entry(IF call[c].req.op = "released" THEN "owner-released"
                          ELSE "owner-terminal", row.epoch, call[c].req.who))
          /\ UNCHANGED held
       \/ ~FinishMatch(c) /\ Miss(c)

-----------------------------------------------------------------------------
(* Recover: an actor takes the row of an owner the server finds dead.      *)

RecoverLicensed(o, t) == IsLive(o) /\ IsDead(o, t)

BeginRecover(c) ==
    \E a \in Actors, e \in 1..row.epoch, w \in Correlated :
        /\ row.epoch < MaxEpoch
        /\ row.epoch = e
        /\ RecoverLicensed(row, now)
        /\ Begin(c, [NoRequest EXCEPT !.op = "recover", !.who = a,
                                      !.epoch = e, !.wf = w])

\* Mutant: last_seen_at is not pinned.
RecoverMatchEpoch(c) == row.epoch = call[c].read.epoch /\ IsLive(row)

\* recoverUpdateSQL: the liveness evidence is part of the compare-and-set.
RecoverMatch(c) ==
    /\ row.epoch = call[c].read.epoch
    /\ row.seen = call[c].read.seen
    /\ IsLive(row)

Recover(c) ==
    /\ Writing(c, "recover")
    /\ \/ /\ RecoverMatch(c)
          /\ Commit(c, Installed(c),
                    Entry("recovered", row.epoch + 1, call[c].req.who))
          /\ Grant(call[c].req.who, row.epoch + 1)
       \/ ~RecoverMatch(c) /\ Miss(c)

-----------------------------------------------------------------------------
(* recovery.go: the transitions a human operator drives.  Every one pins   *)
(* the owner, epoch and version the operator looked at.                    *)

\* A passing checkPreconditions: the request states what the row says.
Preconditions(op, to, pin) ==
    [NoRequest EXCEPT !.op = op, !.who = row.owner, !.epoch = row.epoch,
                      !.version = row.version, !.to = to, !.pin = pin]

BeginFence(c) ==
    \E pin \in BOOLEAN :
        /\ row.epoch < MaxEpoch
        /\ RecoverLicensed(row, now)
        /\ Begin(c, Preconditions("fence", NoActor, pin))

FenceMatch(c) ==
    /\ PreconditionsHold(call[c].req)
    /\ row.seen = call[c].read.seen
    /\ IsLive(row)

FenceUpdate(c) ==
    [row EXCEPT !.state = "released", !.epoch = row.epoch + 1, !.ended = TRUE,
                !.to = NoActor, !.started = NoTime]

FenceDeadClaim(c) ==
    /\ Writing(c, "fence")
    /\ \/ /\ FenceMatch(c)
          /\ Commit(c, FenceUpdate(c), Entry("fenced", row.epoch + 1, call[c].req.who))
          /\ UNCHANGED held
       \/ ~FenceMatch(c) /\ Miss(c)

RequestHandoffLicensed(o, t) == o.state = "active" /\ IsStuck(o, t)

BeginRequestHandoff(c) ==
    \E to \in Actors, pin \in BOOLEAN :
        /\ RequestHandoffLicensed(row, now)
        /\ Begin(c, Preconditions("requestHandoff", to, pin))

RequestHandoffMatch(c) ==
    /\ PreconditionsHold(call[c].req)
    /\ row.state = "active"
    /\ row.to = NoActor

RequestHandoffUpdate(c) ==
    [row EXCEPT !.state = "handing-off", !.to = call[c].req.to,
                !.started = call[c].at, !.seen = call[c].at]

RequestHandoff(c) ==
    /\ Writing(c, "requestHandoff")
    /\ \/ /\ RequestHandoffMatch(c)
          /\ Commit(c, RequestHandoffUpdate(c),
                    Entry("handoff-requested", row.epoch, call[c].req.to))
          /\ UNCHANGED held
       \/ ~RequestHandoffMatch(c) /\ Miss(c)

RetryHandoffLicensed(o, t) == o.to # NoActor /\ HandoffStalled(o, t)

BeginRetryHandoff(c) ==
    \E pin \in BOOLEAN :
        /\ RetryHandoffLicensed(row, now)
        /\ Begin(c, Preconditions("retryHandoff", NoActor, pin))

RetryHandoffMatch(c) ==
    /\ PreconditionsHold(call[c].req)
    /\ row.state = "handing-off"
    /\ row.to = call[c].read.to
    /\ row.started = call[c].read.started

\* Both clocks of the stalled handoff are re-armed; nothing else moves.
RetryHandoffUpdate(c) == [row EXCEPT !.started = call[c].at, !.seen = call[c].at]

RetryHandoff(c) ==
    /\ Writing(c, "retryHandoff")
    /\ \/ /\ RetryHandoffMatch(c)
          /\ Commit(c, RetryHandoffUpdate(c), trail)
          /\ UNCHANGED held
       \/ ~RetryHandoffMatch(c) /\ Miss(c)

-----------------------------------------------------------------------------
(* What a call whose write matched no row is told, from its re-read.       *)

\* raceLostOn: its two arms for a live row at the epoch answer the same.
RaceLostOn(epoch) ==
    CASE row.epoch # epoch -> "ErrEpochMismatch"
      [] row.epoch = epoch /\ ~IsLive(row) -> "ErrNotOwner"
      [] OTHER -> "ErrStaleRead"

\* Mutant: the owner is compared before the finished states.
AcquireMissOwnerFirst(c) ==
    LET k == call[c] IN
    IF IsLive(k.read)
    THEN IF row.owner # k.read.owner THEN "ErrOwnedByOther" ELSE "ErrStaleRead"
    ELSE IF row.owner = k.req.who THEN "ok" ELSE "ErrOwnedByOther"

\* Acquire: reacquireMissSentinel, or the upsert's own re-read.
AcquireMiss(c) ==
    LET k == call[c] IN
    IF IsLive(k.read)
    THEN IF IsLive(row) /\ row.owner # k.read.owner
         THEN "ErrOwnedByOther" ELSE "ErrStaleRead"
    ELSE IF row.owner = k.req.who THEN "ok" ELSE "ErrOwnedByOther"

HandoffStartMiss(c) ==
    LET k == call[c] IN
    CASE /\ row.epoch = k.req.epoch /\ row.owner = k.req.who
         /\ row.state = "handing-off" /\ row.to = k.req.to -> "ok"
      [] /\ ~(row.owner = k.req.who /\ row.state = "handing-off" /\ row.to = k.req.to)
         /\ row.epoch = k.req.epoch /\ row.state = k.read.state
         /\ row.to # k.read.to -> "ErrNotOwner"
      [] OTHER -> RaceLostOn(k.req.epoch)

HandoffCompleteMiss(c) ==
    LET k == call[c] IN
    CASE row.state = "handing-off" /\ row.epoch = k.read.epoch /\ row.to # k.req.who ->
            "ErrNotOwner"
      [] row.state = "active" /\ row.owner = k.req.who /\ row.epoch = k.read.epoch + 1 ->
            "ok"
      [] OTHER -> RaceLostOn(k.read.epoch)

FinishMiss(c) ==
    LET k == call[c] IN
    IF row.state = k.req.op /\ row.owner = k.req.who /\ row.epoch = k.req.epoch
    THEN "ok" ELSE RaceLostOn(k.req.epoch)

RecoverMiss(c) ==
    LET k == call[c] IN
    CASE row.epoch = k.read.epoch + 1 /\ row.owner = k.req.who /\ row.state = "active" ->
            "ok"
      [] ~IsLive(row) -> "ErrNotOwner"
      [] IsLive(row) /\ row.epoch # k.read.epoch
         /\ ~(row.epoch = k.read.epoch + 1 /\ row.owner = k.req.who /\ row.state = "active") ->
            "ErrEpochMismatch"
      [] OTHER -> "ErrOwnerAlive"

\* fenceRaceLost and recoveryRaceLost.
RecoveryMiss(c) ==
    LET k == call[c] IN
    CASE row.epoch # k.req.epoch -> "ErrEpochMismatch"
      [] row.epoch = k.req.epoch /\ row.owner # k.req.who -> "ErrOwnerMismatch"
      [] /\ row.epoch = k.req.epoch /\ row.owner = k.req.who
         /\ row.version # k.req.version -> "ErrVersionMismatch"
      [] PreconditionsHold(k.req) /\ k.req.pin /\ row.seen # k.read.seen ->
            "ErrLastSeenAtMismatch"
      [] PreconditionsHold(k.req) /\ (k.req.pin => row.seen = k.read.seen)
         /\ ~IsLive(row) -> "ErrNotOwner"
      [] PreconditionsHold(k.req) /\ (k.req.pin => row.seen = k.read.seen)
         /\ IsLive(row) /\ k.req.op = "fence" /\ ~IsDead(row, now) -> "ErrOwnerAlive"
      [] OTHER -> "ErrStaleRead"

MissAnswer(c) ==
    CASE call[c].req.op = "acquire" -> AcquireMiss(c)
      [] call[c].req.op = "progress" ->
            RaceLostOn(call[c].req.epoch)
      [] call[c].req.op = "handoffStart" -> HandoffStartMiss(c)
      [] call[c].req.op = "handoffComplete" -> HandoffCompleteMiss(c)
      [] call[c].req.op \in FinishedStates -> FinishMiss(c)
      [] call[c].req.op = "recover" -> RecoverMiss(c)
      [] OTHER -> RecoveryMiss(c)

\* The call re-reads and answers; an "ok" of an operation that makes its
\* caller the owner hands it the epoch it re-read.
Reread(c) ==
    /\ call[c].phase = "reread"
    /\ IF /\ call[c].req.op \in {"acquire", "handoffComplete", "recover"}
          /\ MissAnswer(c) = "ok"
       THEN Grant(call[c].req.who, row.epoch)
       ELSE UNCHANGED held
    /\ EndTx(c)
    /\ UNCHANGED <<row, now, trail>>

\* The transaction is rolled back: its context ends, its connection or its
\* pod is lost before the commit.
Abort(c) ==
    /\ call[c].phase # "idle"
    /\ EndTx(c)
    /\ UNCHANGED <<row, now, held, trail>>

Tick ==
    /\ now < MaxTime
    /\ now' = now + 1
    /\ UNCHANGED <<row, call, held, trail>>

-----------------------------------------------------------------------------
Starts(c) ==
    \/ BeginAcquire(c) \/ BeginProgress(c) \/ BeginHandoffStart(c)
    \/ BeginHandoffComplete(c) \/ HandoffCompleteAgain(c) \/ BeginFinish(c)
    \/ BeginRecover(c) \/ BeginFence(c) \/ BeginRequestHandoff(c)
    \/ BeginRetryHandoff(c)

Writes(c) ==
    \/ Reacquire(c) \/ Acquire(c) \/ RecordProgress(c) \/ HandoffStart(c)
    \/ HandoffComplete(c) \/ Finish(c) \/ Recover(c) \/ FenceDeadClaim(c)
    \/ RequestHandoff(c) \/ RetryHandoff(c)

Next == Tick \/ \E c \in Callers : Starts(c) \/ Writes(c) \/ Reread(c) \/ Abort(c)

Spec == Init /\ [][Next]_vars

-----------------------------------------------------------------------------
(* Properties that rest on the WHERE clauses alone: they hold with or      *)
(* without the advisory lock.                                              *)

\* Every column keeps the type the schema and the Go constants give it.
TypeOK ==
    /\ row \in Ownership
    /\ now \in Nat
    /\ call \in [Callers -> Call]
    /\ held \in [Actors -> Nat]
    /\ trail \in Trail

\* The columns of a row agree with its state: a target and a handoff clock
\* exactly while handing off, a release time exactly once finished, an owner
\* from the first epoch on.  No interleaving of two writers mixes them up.
RowShape ==
    /\ row.state = "handing-off" <=> row.to # NoActor
    /\ row.state = "handing-off" <=> row.started # NoTime
    /\ row.state \in FinishedStates <=> row.ended
    /\ row.state = "none" <=> row.owner = NoActor
    /\ row.state = "none" <=> row.epoch = 0

\* The fencing token is exclusive: whoever holds the newest epoch is the
\* owner the row names, no actor holds a newer one than the row, and so no two
\* actors ever hold the current epoch, however stale the reads were that their
\* acquires, completions and recoveries started from.
ExclusiveToken ==
    \A a \in Actors :
        /\ held[a] <= row.epoch
        /\ held[a] = row.epoch /\ row.epoch > 0 => row.owner = a

\* A row never explains its owner with another actor's correlation
\* (temporal_workflow_id and policy_ref).
CorrelationNamesOwner == row.wf \in {NoActor, row.owner}

\* The newest transition of lifecycle_events tells the story the row tells:
\* no acknowledged transition is silently reverted by a stalled write.
TrailAgrees ==
    /\ trail.epoch = row.epoch
    /\ row.state = "active" =>
            /\ trail.event \in {"owner-acquired", "handoff-completed", "recovered"}
            /\ trail.who = row.owner
    /\ row.state = "handing-off" =>
            /\ trail.event \in {"handoff-started", "handoff-requested"}
            /\ trail.who = row.to
    /\ row.state = "released" => trail.event \in {"owner-released", "fenced"}
    /\ row.state = "terminal" => trail.event = "owner-terminal"

\* The same request made again now would get past the checks of its read.
AdmittedNow(q) ==
    CASE q.op = "acquire" -> AcquireAdmits(q.who)
      [] q.op \in {"progress", "handoffStart", "released", "terminal"} ->
            CurrentFor(q.who, q.epoch)
      [] q.op = "handoffComplete" ->
            HandoffNames(q.who) \/ (row.state = "active" /\ row.owner = q.who)
      [] q.op = "recover" -> row.epoch = q.epoch /\ RecoverLicensed(row, now)
      [] q.op = "fence" -> PreconditionsHold(q) /\ RecoverLicensed(row, now)
      [] OTHER -> PreconditionsHold(q) /\ IsLive(row)

\* What a call that lost its race is told is what it should do next.
\* ErrStaleRead means "you lost a read, not the entity: retry", and the retry
\* is not refused; ErrOwnedByOther to a re-acquire, and ErrEpochMismatch to a
\* call that carries an epoch, mean stand down, and the call would be refused
\* again: nobody stands down on a record it could still drive (Acquire,
\* reacquireMissSentinel, raceLostOn, fenceRaceLost).
MissAnswerIsHonest ==
    \A c \in Callers :
        LET q == call[c].req IN
        call[c].phase = "reread" =>
            /\ MissAnswer(c) = "ErrStaleRead" => AdmittedNow(q)
            /\ MissAnswer(c) = "ErrOwnedByOther" /\ IsLive(call[c].read) =>
                    ~AdmittedNow(q)
            /\ MissAnswer(c) = "ErrEpochMismatch" /\ q.op # "handoffComplete" =>
                    ~AdmittedNow(q)

\* A live owner loses the row only to the actor its own handoff names or
\* because it is dead when the takeover is written, not merely when it was
\* read (recoverUpdateSQL, fenceUpdateSQL, handoffCompleteUpdateSQL).
DisplacementLicensed ==
    [][IsLive(row) /\ (row'.owner # row.owner \/ row'.epoch # row.epoch) =>
          \/ row.state = "handing-off" /\ row'.owner = row.to /\ row'.state = "active"
          \/ IsDead(row, now)]_vars

\* Released and terminal are absorbing: only an acquire at the next epoch
\* leaves them, and nothing else about the row moves until then.
FinishedIsAbsorbing ==
    [][row.state \in FinishedStates /\ row' # row =>
          row'.state = "active" /\ row'.epoch = row.epoch + 1]_vars

\* Within an epoch the entity version moves only to one that a caller sends:
\* a stalled write that sends none never puts an older version back.
VersionNotReverted ==
    [][row'.version # row.version /\ row'.epoch = row.epoch =>
          \E c \in Callers :
              /\ call[c].phase = "write"
              /\ call'[c].phase = "idle"
              /\ call[c].req.version = row'.version]_vars

\* Somebody other than the recorded owner could take the row now.
Takeable == AcquireAdmits(NoActor) \/ RecoverLicensed(row, now)

\* The dangerous divergence class is reported exactly when the old mechanism
\* says owned and the store would let somebody else take the entity, whatever
\* the status of a retargeted handoff reads like.
DangerousExactlyWhenTakeable ==
    /\ Takeable <=> Classify(row, now, TRUE, "owned") = "store-permits-old-forbids"
    /\ ~Takeable <=> Classify(row, now, TRUE, "free") = "store-forbids-old-permits"

-----------------------------------------------------------------------------
(* Properties of the store as it runs, with the advisory lock.             *)

\* HandoffStalled implies IsDead: last_seen_at <= handoff_started_at on every
\* handing-off row, so a stalled handoff is always recoverable
\* (handoffRetryUpdateSQL's argument).
StalledIsRecoverable ==
    /\ row.state = "handing-off" => row.seen <= row.started
    /\ HandoffStalled(row, now) => RecoverLicensed(row, now)

\* While a handoff lasts, its clocks move only when it is stalled and retried
\* for the same target: the outgoing owner cannot keep itself alive by polling,
\* announcing again or retargeting.  And a retry buys the target a whole bound:
\* the row is then takeable by Recover no earlier than it is stalled again.
HandoffClocks ==
    [][row.state = "handing-off" /\ row'.state = "handing-off" /\ row'.epoch = row.epoch =>
          /\ row'.seen # row.seen => HandoffStalled(row, now) /\ row'.to = row.to
          /\ row'.to = row.to /\ row'.started # row.started =>
                \A t \in 0..MaxTime : IsDead(row', t) => HandoffStalled(row', t)]_vars
=============================================================================
