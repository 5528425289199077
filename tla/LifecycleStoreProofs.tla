------------------------ MODULE LifecycleStoreProofs ------------------------
(***************************************************************************)
(* Machine-checked proofs about LifecycleStore for any set of actors and   *)
(* concurrent calls, any bounds, and with or without the advisory lock.    *)
(***************************************************************************)
EXTENDS LifecycleStore, TLAPS

(***************************************************************************)
(* What a call in flight knows from its read.  The read may be stale; the  *)
(* request and the verdict drawn from the read still fit it.               *)
(***************************************************************************)
Pending(q, o, t) ==
    /\ q.op = "acquire" /\ IsLive(o) => o.owner = q.who
    /\ q.op \in {"acquire", "handoffComplete", "recover"} => q.who \in Actors
    /\ q.op \in {"handoffStart", "requestHandoff"} => q.to \in Actors
    /\ q.op \in {"progress", "handoffStart"} => IsLive(o)
    /\ q.op \in {"recover", "fence"} => IsDead(o, t)

CallsConsistent ==
    \A c \in Callers :
        call[c].phase # "idle" =>
            /\ Pending(call[c].req, call[c].read, call[c].at)
            /\ call[c].at <= now

RowInv == RowShape /\ ExclusiveToken /\ CorrelationNamesOwner /\ TrailAgrees

IInv == TypeOK /\ CallsConsistent /\ RowInv

-----------------------------------------------------------------------------
USE DEF LiveStates, FinishedStates, NoTime

LEMMA InitInv == Init => IInv
  <1> SUFFICES ASSUME Init PROVE IInv
    OBVIOUS
  <1> USE DEF Init
  <1>1. TypeOK
    BY OwnershipAssumption DEF TypeOK, Ownership, NoRow, Call, IdleCall, Request,
       NoRequest, Ops, Trail, Events
  <1>2. CallsConsistent
    BY DEF CallsConsistent, IdleCall
  <1>3. RowInv
    BY OwnershipAssumption
    DEF RowInv, RowShape, ExclusiveToken, CorrelationNamesOwner, TrailAgrees, NoRow
  <1> QED
    BY <1>1, <1>2, <1>3 DEF IInv

\* An admitted call starts: only its own slot of call changes.
LEMMA BeginInv ==
    ASSUME IInv, NEW c \in Callers, NEW q \in Request, Begin(c, q),
           Pending(q, row, now)
    PROVE  IInv'
  <1> USE DEF IInv, Begin
  <1>1. TypeOK'
    BY DEF TypeOK, Call
  <1>2. CallsConsistent'
    <2> SUFFICES ASSUME NEW d \in Callers, call'[d].phase # "idle"
                 PROVE  /\ Pending(call'[d].req, call'[d].read, call'[d].at)
                        /\ call'[d].at <= now'
      BY DEF CallsConsistent, Pending, IsDead, IsLive
    <2>1. CASE d = c
      BY <2>1 DEF TypeOK
    <2>2. CASE d # c
      BY <2>2 DEF TypeOK, CallsConsistent
    <2> QED
      BY <2>1, <2>2
  <1>3. RowInv'
    BY DEF RowInv, RowShape, ExclusiveToken, CorrelationNamesOwner, TrailAgrees, IsLive
  <1> QED
    BY <1>1, <1>2, <1>3

\* A call ends or goes on to re-read, the row and the trail untouched.
LEMMA QuietInv ==
    ASSUME IInv, NEW c \in Callers,
           UNCHANGED <<row, now, trail>>,
           \/ call' = [call EXCEPT ![c] = IdleCall]
           \/ call' = [call EXCEPT ![c].phase = "reread"] /\ call[c].phase = "write"
           \/ call' = call,
           held' \in [Actors -> Nat],
           ExclusiveToken'
    PROVE  IInv'
  <1> USE DEF IInv
  <1>1. TypeOK'
    <2>1. IdleCall \in Call
      BY OwnershipAssumption DEF IdleCall, Call, Request, NoRequest, Ops, NoRow, Ownership
    <2>2. [call[c] EXCEPT !.phase = "reread"] \in Call
      BY DEF TypeOK, Call
    <2>3. call' \in [Callers -> Call]
      BY <2>1, <2>2 DEF TypeOK
    <2> QED
      BY <2>3 DEF TypeOK
  <1>2. CallsConsistent'
    <2> SUFFICES ASSUME NEW d \in Callers, call'[d].phase # "idle"
                 PROVE  /\ Pending(call'[d].req, call'[d].read, call'[d].at)
                        /\ call'[d].at <= now'
      BY DEF CallsConsistent, Pending, IsDead, IsLive
    <2>1. /\ call'[d].req = call[d].req
          /\ call'[d].read = call[d].read
          /\ call'[d].at = call[d].at
          /\ call[d].phase # "idle"
      BY DEF TypeOK, Call, IdleCall
    <2> QED
      BY <2>1 DEF CallsConsistent
  <1>3. RowInv'
    BY DEF RowInv, RowShape, CorrelationNamesOwner, TrailAgrees
  <1> QED
    BY <1>1, <1>2, <1>3

\* A guarded write lands: what is left to show is that the new row is typed
\* and keeps the row's invariants.
LEMMA CommitInv ==
    ASSUME IInv, NEW c \in Callers, NEW r \in Ownership, NEW e \in Trail,
           Commit(c, r, e), held' \in [Actors -> Nat], RowInv'
    PROVE  IInv'
  <1> USE DEF IInv, Commit, EndTx
  <1>1. TypeOK'
    <2>1. IdleCall \in Call
      BY OwnershipAssumption DEF IdleCall, Call, Request, NoRequest, Ops, NoRow, Ownership
    <2> QED
      BY <2>1 DEF TypeOK
  <1>2. CallsConsistent'
    <2> SUFFICES ASSUME NEW d \in Callers, call'[d].phase # "idle"
                 PROVE  /\ Pending(call'[d].req, call'[d].read, call'[d].at)
                        /\ call'[d].at <= now'
      BY DEF CallsConsistent, Pending, IsDead, IsLive
    <2>1. call'[d] = call[d]
      BY DEF TypeOK, Call, IdleCall
    <2> QED
      BY <2>1 DEF CallsConsistent
  <1> QED
    BY <1>1, <1>2

-----------------------------------------------------------------------------
\* Every operation's first step, from its checks on the row it reads.
LEMMA StartsInv ==
    ASSUME IInv, NEW c \in Callers, Starts(c)
    PROVE  IInv'
  <1>0. row \in Ownership
    BY DEF IInv, TypeOK
  <1>a. ASSUME NEW e \in 1..row.epoch PROVE e \in Nat
    <2>1. row.epoch \in Nat
      BY <1>0 DEF Ownership
    <2> QED
      BY <2>1
  <1>1. CASE BeginAcquire(c)
    <2>1. PICK a \in Actors, v \in Versions \union {NoVersion}, w \in Correlated :
            /\ AcquireAdmits(a)
            /\ Begin(c, [NoRequest EXCEPT !.op = "acquire", !.who = a,
                                          !.version = v, !.wf = w])
      BY <1>1 DEF BeginAcquire
    <2> DEFINE q == [NoRequest EXCEPT !.op = "acquire", !.who = a, !.version = v, !.wf = w]
    <2>2. q \in Request
      BY OwnershipAssumption, StoreAssumption DEF Request, NoRequest, Ops
    <2>3. Pending(q, row, now)
      BY <2>1 DEF Pending, AcquireAdmits, NoRequest
    <2>4. Begin(c, q)
      BY <2>1
    <2> HIDE DEF q
    <2> QED
      BY <2>2, <2>3, <2>4, BeginInv
  <1>2. CASE BeginProgress(c)
    <2>1. PICK a \in Actors, e \in 1..row.epoch, v \in Versions \union {NoVersion} :
            /\ CurrentFor(a, e)
            /\ Begin(c, [NoRequest EXCEPT !.op = "progress", !.who = a,
                                          !.epoch = e, !.version = v])
      BY <1>2 DEF BeginProgress
    <2> DEFINE q == [NoRequest EXCEPT !.op = "progress", !.who = a, !.epoch = e, !.version = v]
    <2>2. q \in Request
      BY <1>a, OwnershipAssumption, StoreAssumption DEF Request, NoRequest, Ops
    <2>3. Pending(q, row, now)
      BY <2>1 DEF Pending, CurrentFor, NoRequest
    <2>4. Begin(c, q)
      BY <2>1
    <2> HIDE DEF q
    <2> QED
      BY <2>2, <2>3, <2>4, BeginInv
  <1>3. CASE BeginHandoffStart(c)
    <2>1. PICK a \in Actors, e \in 1..row.epoch, to \in Actors :
            /\ CurrentFor(a, e)
            /\ Begin(c, [NoRequest EXCEPT !.op = "handoffStart", !.who = a,
                                          !.epoch = e, !.to = to])
      BY <1>3 DEF BeginHandoffStart
    <2> DEFINE q == [NoRequest EXCEPT !.op = "handoffStart", !.who = a, !.epoch = e, !.to = to]
    <2>2. q \in Request
      BY <1>a, OwnershipAssumption, StoreAssumption DEF Request, NoRequest, Ops
    <2>3. Pending(q, row, now)
      BY <2>1 DEF Pending, CurrentFor, NoRequest
    <2>4. Begin(c, q)
      BY <2>1
    <2> HIDE DEF q
    <2> QED
      BY <2>2, <2>3, <2>4, BeginInv
  <1>4. CASE BeginHandoffComplete(c)
    <2>1. PICK a \in Actors, w \in Correlated :
            Begin(c, [NoRequest EXCEPT !.op = "handoffComplete", !.who = a, !.wf = w])
      BY <1>4 DEF BeginHandoffComplete
    <2> DEFINE q == [NoRequest EXCEPT !.op = "handoffComplete", !.who = a, !.wf = w]
    <2>2. q \in Request
      BY OwnershipAssumption, StoreAssumption DEF Request, NoRequest, Ops
    <2>3. Pending(q, row, now)
      BY DEF Pending, NoRequest
    <2>4. Begin(c, q)
      BY <2>1
    <2> HIDE DEF q
    <2> QED
      BY <2>2, <2>3, <2>4, BeginInv
  <1>5. CASE HandoffCompleteAgain(c)
    <2>1. row.owner \in Actors
      BY <1>0, <1>5 DEF HandoffCompleteAgain, IInv, RowInv, RowShape, Ownership
    <2>2. held' \in [Actors -> Nat] /\ ExclusiveToken'
      BY <1>0, <1>5, <2>1 DEF HandoffCompleteAgain, Grant, IInv, TypeOK, RowInv,
         ExclusiveToken, Ownership
    <2>3. UNCHANGED <<row, now, trail>> /\ call' = call
      BY <1>5 DEF HandoffCompleteAgain
    <2> QED
      BY <2>2, <2>3, QuietInv
  <1>6. CASE BeginFinish(c)
    <2>1. PICK a \in Actors, e \in 1..row.epoch, s \in FinishedStates :
            Begin(c, [NoRequest EXCEPT !.op = s, !.who = a, !.epoch = e])
      BY <1>6 DEF BeginFinish
    <2> DEFINE q == [NoRequest EXCEPT !.op = s, !.who = a, !.epoch = e]
    <2>2. q \in Request
      BY <1>a, OwnershipAssumption, StoreAssumption DEF Request, NoRequest, Ops
    <2>3. Pending(q, row, now)
      BY DEF Pending, NoRequest
    <2>4. Begin(c, q)
      BY <2>1
    <2> HIDE DEF q
    <2> QED
      BY <2>2, <2>3, <2>4, BeginInv
  <1>7. CASE BeginRecover(c)
    <2>1. PICK a \in Actors, e \in 1..row.epoch, w \in Correlated :
            /\ RecoverLicensed(row, now)
            /\ Begin(c, [NoRequest EXCEPT !.op = "recover", !.who = a,
                                          !.epoch = e, !.wf = w])
      BY <1>7 DEF BeginRecover
    <2> DEFINE q == [NoRequest EXCEPT !.op = "recover", !.who = a, !.epoch = e, !.wf = w]
    <2>2. q \in Request
      BY <1>a, OwnershipAssumption, StoreAssumption DEF Request, NoRequest, Ops
    <2>3. Pending(q, row, now)
      BY <2>1 DEF Pending, RecoverLicensed, NoRequest
    <2>4. Begin(c, q)
      BY <2>1
    <2> HIDE DEF q
    <2> QED
      BY <2>2, <2>3, <2>4, BeginInv
  <1>8. ASSUME NEW op \in {"fence", "requestHandoff", "retryHandoff"},
               NEW to \in Actors \union {NoActor}, NEW pin \in BOOLEAN
        PROVE  Preconditions(op, to, pin) \in Request
    BY <1>0, OwnershipAssumption, StoreAssumption DEF Request, NoRequest, Ops,
       Preconditions, Ownership
  <1>9. CASE BeginFence(c)
    <2>1. PICK pin \in BOOLEAN : /\ RecoverLicensed(row, now)
                                 /\ Begin(c, Preconditions("fence", NoActor, pin))
      BY <1>9 DEF BeginFence
    <2>2. Pending(Preconditions("fence", NoActor, pin), row, now)
      BY <2>1 DEF Pending, RecoverLicensed, Preconditions, NoRequest
    <2> QED
      BY <2>1, <2>2, <1>8, BeginInv
  <1>10. CASE BeginRequestHandoff(c)
    <2>1. PICK to \in Actors, pin \in BOOLEAN :
            Begin(c, Preconditions("requestHandoff", to, pin))
      BY <1>10 DEF BeginRequestHandoff
    <2>2. Pending(Preconditions("requestHandoff", to, pin), row, now)
      BY DEF Pending, Preconditions, NoRequest
    <2> QED
      BY <2>1, <2>2, <1>8, BeginInv
  <1>11. CASE BeginRetryHandoff(c)
    <2>1. PICK pin \in BOOLEAN : Begin(c, Preconditions("retryHandoff", NoActor, pin))
      BY <1>11 DEF BeginRetryHandoff
    <2>2. Pending(Preconditions("retryHandoff", NoActor, pin), row, now)
      BY DEF Pending, Preconditions, NoRequest
    <2> QED
      BY <2>1, <2>2, <1>8, BeginInv
  <1> QED
    BY <1>1, <1>2, <1>3, <1>4, <1>5, <1>6, <1>7, <1>9, <1>10, <1>11 DEF Starts

\* A guarded write that matched no row.
LEMMA MissInv ==
    ASSUME IInv, NEW c \in Callers, Miss(c), call[c].phase = "write"
    PROVE  IInv'
  <1>1. held' \in [Actors -> Nat] /\ ExclusiveToken'
    BY DEF Miss, IInv, TypeOK, RowInv, ExclusiveToken
  <1> QED
    BY <1>1, QuietInv DEF Miss

\* The guarded statement of every operation.
LEMMA WritesInv ==
    ASSUME IInv, NEW c \in Callers, Writes(c)
    PROVE  IInv'
  <1> USE OwnershipAssumption DEF IsLive
  <1>t. /\ row \in [state : LiveStates \union FinishedStates \union {"none"},
                     owner : Actors \union {NoActor}, epoch : Nat,
                     version : Versions \union {NoVersion}, seen : Nat,
                     progress : Nat, to : Actors \union {NoActor},
                     started : Nat \union {NoTime}, wf : Actors \union {NoActor},
                     ended : BOOLEAN]
        /\ call[c].read.seen \in Nat
        /\ call[c].read.started \in Nat \union {NoTime}
        /\ call[c].at \in Nat
        /\ call[c].req.who \in Actors \union {NoActor}
        /\ call[c].req.to \in Actors \union {NoActor}
        /\ call[c].req.version \in Versions \union {NoVersion}
        /\ held \in [Actors -> Nat]
        /\ trail \in Trail
    BY DEF IInv, TypeOK, Ownership, Call, Request
  <1>p. call[c].phase = "write" => Pending(call[c].req, call[c].read, call[c].at)
    BY DEF IInv, CallsConsistent
  <1>r. RowInv
    BY DEF IInv
  <1>n. row.epoch + 1 \in Nat
    BY <1>t
  <1>1. CASE Reacquire(c)
    <2>1. CASE ~ReacquireMatch(c) /\ Miss(c)
      BY <2>1, <1>1, MissInv DEF Reacquire, Writing
    <2>2. CASE /\ ReacquireMatch(c)
               /\ Commit(c, ReacquireRefresh(c), trail)
               /\ Grant(call[c].req.who, row.epoch)
      <3>1. ReacquireRefresh(c) \in Ownership
        <4>1. row \in Ownership
          BY DEF IInv, TypeOK
        <4>2. PICK n : n = ReacquireRefresh(c)
          OBVIOUS
        <4>3. n \in Ownership
          BY <4>1, <4>2, <1>t DEF ReacquireRefresh, Coalesce, Ownership
        <4> QED
          BY <4>2, <4>3
      <3>2. trail \in Trail
        BY <1>t, <1>p, <1>1 DEF Entry, Trail, Events, Reacquire, Writing
      <3>3. held' \in [Actors -> Nat]
        BY <1>t, <1>p, <1>1, <2>2 DEF Reacquire, Writing, Grant
      <3>4. RowInv'
        BY <1>t, <1>p, <1>r, <1>1, <2>2 DEF Reacquire, Writing, Commit, Grant, Entry, RowInv, RowShape, ExclusiveToken, CorrelationNamesOwner, TrailAgrees,
           ReacquireRefresh, Coalesce, ReacquireMatch, Pending
      <3> QED
        BY <2>2, <3>1, <3>2, <3>3, <3>4, CommitInv
    <2> QED
      BY <1>1, <2>1, <2>2 DEF Reacquire
  <1>2. CASE Acquire(c)
    <2>1. CASE IsLive(row) /\ Miss(c)
      BY <2>1, <1>2, MissInv DEF Acquire, Writing
    <2>2. CASE /\ ~IsLive(row)
               /\ Commit(c, AcquireUpsert(c), Entry("owner-acquired", row.epoch + 1, call[c].req.who))
               /\ Grant(call[c].req.who, row.epoch + 1)
      <3>1. AcquireUpsert(c) \in Ownership
        BY <1>t, <1>p, <1>2 DEF AcquireUpsert, Ownership
      <3>2. Entry("owner-acquired", row.epoch + 1, call[c].req.who) \in Trail
        BY <1>t, <1>p, <1>2 DEF Entry, Trail, Events, Acquire, Writing
      <3>3. held' \in [Actors -> Nat]
        BY <1>t, <1>p, <1>2, <2>2 DEF Acquire, Writing, Grant
      <3>4. RowInv'
        BY <1>t, <1>p, <1>r, <1>2, <2>2 DEF Acquire, Writing, Commit, Grant, Entry, RowInv, RowShape, ExclusiveToken, CorrelationNamesOwner, TrailAgrees,
           AcquireUpsert, Ownership, Pending
      <3> QED
        BY <2>2, <3>1, <3>2, <3>3, <3>4, CommitInv
    <2> QED
      BY <1>2, <2>1, <2>2 DEF Acquire
  <1>3. CASE RecordProgress(c)
    <2>1. CASE ~ProgressMatch(c) /\ Miss(c)
      BY <2>1, <1>3, MissInv DEF RecordProgress, Writing
    <2>2. CASE /\ ProgressMatch(c)
               /\ Commit(c, ProgressUpdate(c), trail)
               /\ UNCHANGED held
      <3>1. ProgressUpdate(c) \in Ownership
        <4>1. row \in Ownership
          BY DEF IInv, TypeOK
        <4>2. PICK y : y = IF call[c].read.state = "handing-off" THEN call[c].read.seen ELSE call[c].at
          OBVIOUS
        <4>3. PICK z : z = Coalesce(call[c].req.version, row.version)
          OBVIOUS
        <4>4. call[c].at \in Nat /\ y \in Nat /\ z \in Versions \union {NoVersion}
          BY <1>t, <4>2, <4>3 DEF Coalesce, Ownership
        <4>5. PICK n : n = [row EXCEPT !.progress = call[c].at, !.seen = y, !.version = z]
          OBVIOUS
        <4>6. ProgressUpdate(c) = n
          BY <4>2, <4>3, <4>5 DEF ProgressUpdate
        <4>7. n \in Ownership
          BY <4>1, <4>4, <4>5 DEF Ownership
        <4> QED
          BY <4>6, <4>7
      <3>2. trail \in Trail
        BY <1>t, <1>p, <1>3 DEF Entry, Trail, Events, RecordProgress, Writing
      <3>3. held' \in [Actors -> Nat]
        BY <1>t, <1>p, <1>3, <2>2 DEF RecordProgress, Writing, Grant
      <3>4. RowInv'
        BY <1>t, <1>p, <1>r, <1>3, <2>2 DEF RecordProgress, Writing, Commit, Grant, Entry, RowInv, RowShape, ExclusiveToken, CorrelationNamesOwner, TrailAgrees,
           ProgressUpdate, ProgressMatch, Coalesce, Pending
      <3> QED
        BY <2>2, <3>1, <3>2, <3>3, <3>4, CommitInv
    <2> QED
      BY <1>3, <2>1, <2>2 DEF RecordProgress
  <1>4. CASE HandoffStart(c)
    <2>1. CASE ~HandoffStartMatch(c) /\ Miss(c)
      BY <2>1, <1>4, MissInv DEF HandoffStart, Writing
    <2>2. CASE /\ HandoffStartMatch(c)
               /\ Commit(c, HandoffStartUpdate(c), (IF Reannounced(c) THEN trail ELSE Entry("handoff-started", row.epoch, call[c].req.to)))
               /\ UNCHANGED held
      <3>1. HandoffStartUpdate(c) \in Ownership
        <4>1. row \in Ownership
          BY DEF IInv, TypeOK
        <4>2. PICK y : y = IF Reannounced(c) /\ call[c].read.started # NoTime
                           THEN call[c].read.started ELSE call[c].at
          OBVIOUS
        <4>3. PICK z : z = IF call[c].read.state = "handing-off" THEN call[c].read.seen ELSE call[c].at
          OBVIOUS
        <4>4. y \in Nat \union {NoTime} /\ z \in Nat /\ call[c].req.to \in Actors \union {NoActor}
          BY <1>t, <4>2, <4>3
        <4>5. PICK n : n = [row EXCEPT !.state = "handing-off", !.to = call[c].req.to, !.started = y, !.seen = z]
          OBVIOUS
        <4>6. HandoffStartUpdate(c) = n
          BY <4>2, <4>3, <4>5 DEF HandoffStartUpdate
        <4>7. n \in Ownership
          BY <4>1, <4>4, <4>5 DEF Ownership
        <4> QED
          BY <4>6, <4>7
      <3>2. (IF Reannounced(c) THEN trail ELSE Entry("handoff-started", row.epoch, call[c].req.to)) \in Trail
        BY <1>t, <1>p, <1>4 DEF Entry, Trail, Events, HandoffStart, Writing
      <3>3. held' \in [Actors -> Nat]
        BY <1>t, <1>p, <1>4, <2>2 DEF HandoffStart, Writing, Grant
      <3>4. RowInv'
        BY <1>t, <1>p, <1>r, <1>4, <2>2 DEF HandoffStart, Writing, Commit, Grant, Entry, RowInv, RowShape, ExclusiveToken, CorrelationNamesOwner, TrailAgrees,
           HandoffStartUpdate, HandoffStartMatch, Pending, Reannounced
      <3> QED
        BY <2>2, <3>1, <3>2, <3>3, <3>4, CommitInv
    <2> QED
      BY <1>4, <2>1, <2>2 DEF HandoffStart
  <1>5. CASE HandoffComplete(c)
    <2>1. CASE ~HandoffCompleteMatch(c) /\ Miss(c)
      BY <2>1, <1>5, MissInv DEF HandoffComplete, Writing
    <2>2. CASE /\ HandoffCompleteMatch(c)
               /\ Commit(c, Installed(c), Entry("handoff-completed", row.epoch + 1, call[c].req.who))
               /\ Grant(call[c].req.who, row.epoch + 1)
      <3>1. Installed(c) \in Ownership
        <4>1. ASSUME NEW e \in Nat, NEW a \in Actors \union {NoActor},
                     NEW w \in Actors \union {NoActor}, NEW n \in Nat
              PROVE  [row EXCEPT !.owner = a, !.epoch = e, !.state = "active",
                                 !.seen = n, !.progress = n, !.wf = w, !.to = NoActor,
                                 !.started = NoTime, !.ended = FALSE] \in Ownership
          BY <1>t DEF Ownership
        <4> QED
          BY <4>1, <1>n, <1>t DEF Installed
      <3>2. Entry("handoff-completed", row.epoch + 1, call[c].req.who) \in Trail
        BY <1>t, <1>p, <1>5 DEF Entry, Trail, Events, HandoffComplete, Writing
      <3>3. held' \in [Actors -> Nat]
        BY <1>t, <1>p, <1>5, <2>2 DEF HandoffComplete, Writing, Grant
      <3>4. RowInv'
        BY <1>t, <1>p, <1>r, <1>5, <2>2 DEF HandoffComplete, Writing, Commit, Grant, Entry, RowInv, RowShape, ExclusiveToken, CorrelationNamesOwner, TrailAgrees,
           Installed, HandoffCompleteMatch, Pending
      <3> QED
        BY <2>2, <3>1, <3>2, <3>3, <3>4, CommitInv
    <2> QED
      BY <1>5, <2>1, <2>2 DEF HandoffComplete
  <1>6. CASE Finish(c)
    <2>1. CASE ~FinishMatch(c) /\ Miss(c)
      BY <2>1, <1>6, MissInv DEF Finish, Writing
    <2>2. CASE /\ FinishMatch(c)
               /\ Commit(c, FinishUpdate(c), Entry(IF call[c].req.op = "released" THEN "owner-released" ELSE "owner-terminal", row.epoch, call[c].req.who))
               /\ UNCHANGED held
      <3>1. FinishUpdate(c) \in Ownership
        BY <1>t, <1>p, <1>6 DEF FinishUpdate, FinishMatch, Ownership, Finish, Writing
      <3>2. Entry(IF call[c].req.op = "released" THEN "owner-released" ELSE "owner-terminal", row.epoch, call[c].req.who) \in Trail
        BY <1>t, <1>p, <1>6 DEF Entry, Trail, Events, Finish, Writing
      <3>3. held' \in [Actors -> Nat]
        BY <1>t, <1>p, <1>6, <2>2 DEF Finish, Writing, Grant
      <3>4. RowInv'
        BY <1>t, <1>p, <1>r, <1>6, <2>2 DEF Finish, Writing, Commit, Grant, Entry, RowInv, RowShape, ExclusiveToken, CorrelationNamesOwner, TrailAgrees,
           FinishUpdate, FinishMatch, Ownership, Finish, Writing, Pending
      <3> QED
        BY <2>2, <3>1, <3>2, <3>3, <3>4, CommitInv
    <2> QED
      BY <1>6, <2>1, <2>2 DEF Finish
  <1>7. CASE Recover(c)
    <2>1. CASE ~RecoverMatch(c) /\ Miss(c)
      BY <2>1, <1>7, MissInv DEF Recover, Writing
    <2>2. CASE /\ RecoverMatch(c)
               /\ Commit(c, Installed(c), Entry("recovered", row.epoch + 1, call[c].req.who))
               /\ Grant(call[c].req.who, row.epoch + 1)
      <3>1. Installed(c) \in Ownership
        <4>1. ASSUME NEW e \in Nat, NEW a \in Actors \union {NoActor},
                     NEW w \in Actors \union {NoActor}, NEW n \in Nat
              PROVE  [row EXCEPT !.owner = a, !.epoch = e, !.state = "active",
                                 !.seen = n, !.progress = n, !.wf = w, !.to = NoActor,
                                 !.started = NoTime, !.ended = FALSE] \in Ownership
          BY <1>t DEF Ownership
        <4> QED
          BY <4>1, <1>n, <1>t DEF Installed
      <3>2. Entry("recovered", row.epoch + 1, call[c].req.who) \in Trail
        BY <1>t, <1>p, <1>7 DEF Entry, Trail, Events, Recover, Writing
      <3>3. held' \in [Actors -> Nat]
        BY <1>t, <1>p, <1>7, <2>2 DEF Recover, Writing, Grant
      <3>4. RowInv'
        BY <1>t, <1>p, <1>r, <1>7, <2>2 DEF Recover, Writing, Commit, Grant, Entry, RowInv, RowShape, ExclusiveToken, CorrelationNamesOwner, TrailAgrees,
           Installed, RecoverMatch, Pending
      <3> QED
        BY <2>2, <3>1, <3>2, <3>3, <3>4, CommitInv
    <2> QED
      BY <1>7, <2>1, <2>2 DEF Recover
  <1>8. CASE FenceDeadClaim(c)
    <2>1. CASE ~FenceMatch(c) /\ Miss(c)
      BY <2>1, <1>8, MissInv DEF FenceDeadClaim, Writing
    <2>2. CASE /\ FenceMatch(c)
               /\ Commit(c, FenceUpdate(c), Entry("fenced", row.epoch + 1, call[c].req.who))
               /\ UNCHANGED held
      <3>1. FenceUpdate(c) \in Ownership
        <4>1. ASSUME NEW e \in Nat
              PROVE  [row EXCEPT !.state = "released", !.epoch = e, !.ended = TRUE,
                                 !.to = NoActor, !.started = NoTime] \in Ownership
          BY <1>t DEF Ownership
        <4> QED
          BY <4>1, <1>n DEF FenceUpdate
      <3>2. Entry("fenced", row.epoch + 1, call[c].req.who) \in Trail
        BY <1>t, <1>p, <1>8 DEF Entry, Trail, Events, FenceDeadClaim, Writing
      <3>3. held' \in [Actors -> Nat]
        BY <1>t, <1>p, <1>8, <2>2 DEF FenceDeadClaim, Writing, Grant
      <3>4. RowInv'
        BY <1>t, <1>p, <1>r, <1>8, <2>2 DEF FenceDeadClaim, Writing, Commit, Grant, Entry, RowInv, RowShape, ExclusiveToken, CorrelationNamesOwner, TrailAgrees,
           FenceUpdate, FenceMatch, Pending
      <3> QED
        BY <2>2, <3>1, <3>2, <3>3, <3>4, CommitInv
    <2> QED
      BY <1>8, <2>1, <2>2 DEF FenceDeadClaim
  <1>9. CASE RequestHandoff(c)
    <2>1. CASE ~RequestHandoffMatch(c) /\ Miss(c)
      BY <2>1, <1>9, MissInv DEF RequestHandoff, Writing
    <2>2. CASE /\ RequestHandoffMatch(c)
               /\ Commit(c, RequestHandoffUpdate(c), Entry("handoff-requested", row.epoch, call[c].req.to))
               /\ UNCHANGED held
      <3>1. RequestHandoffUpdate(c) \in Ownership
        BY <1>t, <1>p, <1>9 DEF RequestHandoffUpdate, RequestHandoffMatch, Ownership
      <3>2. Entry("handoff-requested", row.epoch, call[c].req.to) \in Trail
        BY <1>t, <1>p, <1>9 DEF Entry, Trail, Events, RequestHandoff, Writing
      <3>3. held' \in [Actors -> Nat]
        BY <1>t, <1>p, <1>9, <2>2 DEF RequestHandoff, Writing, Grant
      <3>4. RowInv'
        BY <1>t, <1>p, <1>r, <1>9, <2>2 DEF RequestHandoff, Writing, Commit, Grant, Entry, RowInv, RowShape, ExclusiveToken, CorrelationNamesOwner, TrailAgrees,
           RequestHandoffUpdate, RequestHandoffMatch, Ownership, Pending
      <3> QED
        BY <2>2, <3>1, <3>2, <3>3, <3>4, CommitInv
    <2> QED
      BY <1>9, <2>1, <2>2 DEF RequestHandoff
  <1>10. CASE RetryHandoff(c)
    <2>1. CASE ~RetryHandoffMatch(c) /\ Miss(c)
      BY <2>1, <1>10, MissInv DEF RetryHandoff, Writing
    <2>2. CASE /\ RetryHandoffMatch(c)
               /\ Commit(c, RetryHandoffUpdate(c), trail)
               /\ UNCHANGED held
      <3>1. RetryHandoffUpdate(c) \in Ownership
        BY <1>t, <1>p, <1>10 DEF RetryHandoffUpdate, RetryHandoffMatch, Ownership
      <3>2. trail \in Trail
        BY <1>t, <1>p, <1>10 DEF Entry, Trail, Events, RetryHandoff, Writing
      <3>3. held' \in [Actors -> Nat]
        BY <1>t, <1>p, <1>10, <2>2 DEF RetryHandoff, Writing, Grant
      <3>4. RowInv'
        BY <1>t, <1>p, <1>r, <1>10, <2>2 DEF RetryHandoff, Writing, Commit, Grant, Entry, RowInv, RowShape, ExclusiveToken, CorrelationNamesOwner, TrailAgrees,
           RetryHandoffUpdate, RetryHandoffMatch, Ownership, Pending
      <3> QED
        BY <2>2, <3>1, <3>2, <3>3, <3>4, CommitInv
    <2> QED
      BY <1>10, <2>1, <2>2 DEF RetryHandoff
  <1> QED
    BY <1>1, <1>2, <1>3, <1>4, <1>5, <1>6, <1>7, <1>8, <1>9, <1>10 DEF Writes

LEMMA RereadInv ==
    ASSUME IInv, NEW c \in Callers, Reread(c)
    PROVE  IInv'
  <1>1. row.epoch \in Nat /\ held \in [Actors -> Nat]
    BY DEF IInv, TypeOK, Ownership
  <1>2. /\ call[c].req.op \in {"acquire", "handoffComplete", "recover"}
        /\ MissAnswer(c) = "ok"
        => row.owner = call[c].req.who
    BY DEF MissAnswer, AcquireMiss, HandoffCompleteMiss, RecoverMiss, RaceLostOn, IsLive
  <1>3. call[c].req.op \in {"acquire", "handoffComplete", "recover"} =>
            call[c].req.who \in Actors
    BY DEF Reread, IInv, CallsConsistent, Pending
  <1>4. held' \in [Actors -> Nat] /\ ExclusiveToken'
    BY <1>1, <1>2, <1>3 DEF Reread, Grant, IInv, RowInv, ExclusiveToken
  <1> QED
    BY <1>4, QuietInv DEF Reread, EndTx

LEMMA AbortInv ==
    ASSUME IInv, NEW c \in Callers, Abort(c)
    PROVE  IInv'
  <1>1. held' \in [Actors -> Nat] /\ ExclusiveToken'
    BY DEF Abort, IInv, TypeOK, RowInv, ExclusiveToken
  <1> QED
    BY <1>1, QuietInv DEF Abort, EndTx

LEMMA TickInv ==
    ASSUME IInv, Tick
    PROVE  IInv'
  <1>1. TypeOK'
    BY DEF IInv, Tick, TypeOK
  <1>2. CallsConsistent'
    <2> SUFFICES ASSUME NEW d \in Callers, call'[d].phase # "idle"
                 PROVE  /\ Pending(call'[d].req, call'[d].read, call'[d].at)
                        /\ call'[d].at <= now'
      BY DEF CallsConsistent, Pending, IsDead, IsLive
    <2>1. Pending(call[d].req, call[d].read, call[d].at) /\ call[d].at <= now
      BY DEF IInv, CallsConsistent, Tick
    <2>2. call[d].at \in Nat /\ now \in Nat
      BY DEF IInv, TypeOK, Call
    <2> QED
      BY <2>1, <2>2 DEF Tick
  <1>3. RowInv'
    BY DEF IInv, Tick, RowInv, RowShape, ExclusiveToken, CorrelationNamesOwner, TrailAgrees
  <1> QED
    BY <1>1, <1>2, <1>3 DEF IInv

LEMMA NextInv == IInv /\ [Next]_vars => IInv'
  <1> SUFFICES ASSUME IInv, [Next]_vars PROVE IInv'
    OBVIOUS
  <1>1. CASE Tick
    BY <1>1, TickInv
  <1>2. CASE \E c \in Callers : Starts(c) \/ Writes(c) \/ Reread(c) \/ Abort(c)
    BY <1>2, StartsInv, WritesInv, RereadInv, AbortInv
  <1>3. CASE UNCHANGED vars
    BY <1>3 DEF vars, IInv, TypeOK, CallsConsistent, Pending, IsDead, IsLive, RowInv,
       RowShape, ExclusiveToken, CorrelationNamesOwner, TrailAgrees
  <1> QED
    BY <1>1, <1>2, <1>3 DEF Next

LEMMA Invariance == Spec => []IInv
  BY InitInv, NextInv, PTL DEF Spec

-----------------------------------------------------------------------------
\* The state of the lifecycle store is always well typed.
THEOREM TypeCorrect == Spec => []TypeOK
  BY Invariance, PTL DEF IInv

\* Whatever the interleaving, the columns of the row agree with its state.
THEOREM RowShapeHolds == Spec => []RowShape
  BY Invariance, PTL DEF IInv, RowInv

\* The epoch is an exclusive fencing token: the WHERE clauses of the guarded
\* writes ensure it for any number of actors and of concurrent calls, with or
\* without the advisory lock.
THEOREM Exclusivity == Spec => []ExclusiveToken
  BY Invariance, PTL DEF IInv, RowInv

\* No row carries the correlation of an actor other than its owner.
THEOREM CorrelationHolds == Spec => []CorrelationNamesOwner
  BY Invariance, PTL DEF IInv, RowInv

\* The newest ownership event always agrees with the row: no stalled write
\* reverts an acknowledged transition.
THEOREM TrailHolds == Spec => []TrailAgrees
  BY Invariance, PTL DEF IInv, RowInv

\* The divergence report calls a row dangerous exactly when somebody other than
\* its owner could take it: Classify's Held is the takeover predicate.
THEOREM DangerousClass == Spec => []DangerousExactlyWhenTakeable
  <1>1. IInv => DangerousExactlyWhenTakeable
    <2> SUFFICES ASSUME IInv PROVE DangerousExactlyWhenTakeable
      OBVIOUS
    <2>1. IsLive(row) => row.owner # NoActor
      BY DEF IInv, RowInv, RowShape, IsLive
    <2>2. Takeable <=> ~Held(row, now)
      BY <2>1 DEF Takeable, AcquireAdmits, RecoverLicensed, Held, IsDead
    <2>3. Held(row, now) <=> Classify(row, now, TRUE, "owned") # "store-permits-old-forbids"
      BY DEF Classify
    <2>4. Held(row, now) <=> Classify(row, now, TRUE, "free") = "store-forbids-old-permits"
      BY DEF Classify
    <2> QED
      BY <2>2, <2>3, <2>4 DEF DangerousExactlyWhenTakeable
  <1> QED
    BY <1>1, Invariance, PTL

-----------------------------------------------------------------------------
\* Starting, re-reading, aborting and the clock leave the row alone.
LEMMA OnlyWritesMoveRow ==
    ASSUME [Next]_vars, row' # row
    PROVE  now' = now /\ \E c \in Callers : Writes(c)
  <1>1. ASSUME NEW c \in Callers, Starts(c) PROVE row' = row
    BY <1>1 DEF Starts, BeginAcquire, BeginProgress, BeginHandoffStart,
       BeginHandoffComplete, HandoffCompleteAgain, BeginFinish, BeginRecover,
       BeginFence, BeginRequestHandoff, BeginRetryHandoff, Begin
  <1>2. ASSUME NEW c \in Callers, Writes(c) PROVE now' = now
    BY <1>2 DEF Writes, Reacquire, Acquire, RecordProgress, HandoffStart,
       HandoffComplete, Finish, Recover, FenceDeadClaim, RequestHandoff,
       RetryHandoff, Commit, Miss
  <1> QED
    BY <1>1, <1>2 DEF Next, vars, Tick, Reread, Abort

\* One step of DisplacementLicensed: the liveness verdict was drawn from the
\* read, and the pinned last_seen_at makes it hold of the row overwritten.
LEMMA DisplacementStep ==
    ASSUME IInv, [Next]_vars, IsLive(row),
           row'.owner # row.owner \/ row'.epoch # row.epoch
    PROVE  \/ row.state = "handing-off" /\ row'.owner = row.to /\ row'.state = "active"
           \/ IsDead(row, now)
  <1>1. PICK c \in Callers : Writes(c)
    BY OnlyWritesMoveRow
  <1>2. row \in Ownership /\ now \in Nat /\ call[c] \in Call
    BY DEF IInv, TypeOK
  <1>3. call[c].phase = "write" => /\ Pending(call[c].req, call[c].read, call[c].at)
                                  /\ call[c].at <= now
    BY DEF IInv, CallsConsistent
  <1>4. CASE Reacquire(c)
    BY <1>2, <1>4 DEF Reacquire, Commit, Miss, Ownership, IsLive, ReacquireRefresh, ReacquireMatch, Coalesce
  <1>5. CASE Acquire(c)
    BY <1>2, <1>5 DEF Acquire, Commit, Miss, Ownership, IsLive, AcquireUpsert
  <1>6. CASE RecordProgress(c)
    BY <1>2, <1>6 DEF RecordProgress, Commit, Miss, Ownership, IsLive, ProgressUpdate, ProgressMatch, Coalesce
  <1>7. CASE HandoffStart(c)
    BY <1>2, <1>7 DEF HandoffStart, Commit, Miss, Ownership, IsLive, HandoffStartUpdate, HandoffStartMatch
  <1>8. CASE HandoffComplete(c)
    BY <1>2, <1>8 DEF HandoffComplete, Commit, Miss, Ownership, IsLive, Installed, HandoffCompleteMatch
  <1>9. CASE Finish(c)
    BY <1>2, <1>9 DEF Finish, Commit, Miss, Ownership, IsLive, FinishUpdate, FinishMatch
  <1>10. CASE Recover(c)
    <2>1. row.seen = call[c].read.seen
      BY <1>10 DEF Recover, RecoverMatch, Miss
    <2>2. IsDead(call[c].read, call[c].at) /\ call[c].at <= now
      BY <1>3, <1>10 DEF Recover, Writing, Pending
    <2>3. call[c].at \in Nat /\ row.seen \in Nat
      BY <1>2 DEF Call, Ownership
    <2> QED
      BY <1>2, <2>1, <2>2, <2>3, OwnershipAssumption DEF IsDead
  <1>11. CASE FenceDeadClaim(c)
    <2>1. row.seen = call[c].read.seen
      BY <1>11 DEF FenceDeadClaim, FenceMatch, Miss
    <2>2. IsDead(call[c].read, call[c].at) /\ call[c].at <= now
      BY <1>3, <1>11 DEF FenceDeadClaim, Writing, Pending
    <2>3. call[c].at \in Nat /\ row.seen \in Nat
      BY <1>2 DEF Call, Ownership
    <2> QED
      BY <1>2, <2>1, <2>2, <2>3, OwnershipAssumption DEF IsDead
  <1>12. CASE RequestHandoff(c)
    BY <1>2, <1>12 DEF RequestHandoff, Commit, Miss, Ownership, IsLive, RequestHandoffUpdate, RequestHandoffMatch
  <1>13. CASE RetryHandoff(c)
    BY <1>2, <1>13 DEF RetryHandoff, Commit, Miss, Ownership, IsLive, RetryHandoffUpdate, RetryHandoffMatch
  <1> QED
    BY <1>1, <1>4, <1>5, <1>6, <1>7, <1>8, <1>9, <1>10, <1>11, <1>12, <1>13 DEF Writes

\* A live owner loses the row only to the target of its own handoff, or when
\* it is dead at the moment of the write.
THEOREM Displacement == Spec => DisplacementLicensed
  <1>1. IInv /\ [Next]_vars =>
          [IsLive(row) /\ (row'.owner # row.owner \/ row'.epoch # row.epoch) =>
              \/ row.state = "handing-off" /\ row'.owner = row.to /\ row'.state = "active"
              \/ IsDead(row, now)]_vars
    BY DisplacementStep
  <1> QED
    BY <1>1, Invariance, PTL DEF Spec, DisplacementLicensed

LEMMA AbsorbingStep ==
    ASSUME IInv, [Next]_vars, row.state \in FinishedStates, row' # row
    PROVE  row'.state = "active" /\ row'.epoch = row.epoch + 1
  <1>1. PICK c \in Callers : Writes(c)
    BY OnlyWritesMoveRow
  <1>2. row \in Ownership
    BY DEF IInv, TypeOK
  <1>3. call[c].phase = "write" => Pending(call[c].req, call[c].read, call[c].at)
    BY DEF IInv, CallsConsistent
  <1>4. CASE Reacquire(c)
    BY <1>2, <1>3, <1>4 DEF Reacquire, Commit, Miss, Writing, Pending, Ownership, IsLive, ReacquireRefresh, ReacquireMatch, Coalesce
  <1>5. CASE Acquire(c)
    BY <1>2, <1>3, <1>5 DEF Acquire, Commit, Miss, Writing, Pending, Ownership, IsLive, AcquireUpsert
  <1>6. CASE RecordProgress(c)
    BY <1>2, <1>3, <1>6 DEF RecordProgress, Commit, Miss, Writing, Pending, Ownership, IsLive, ProgressUpdate, ProgressMatch, Coalesce
  <1>7. CASE HandoffStart(c)
    BY <1>2, <1>3, <1>7 DEF HandoffStart, Commit, Miss, Writing, Pending, Ownership, IsLive, HandoffStartUpdate, HandoffStartMatch
  <1>8. CASE HandoffComplete(c)
    BY <1>2, <1>3, <1>8 DEF HandoffComplete, Commit, Miss, Writing, Pending, Ownership, IsLive, Installed, HandoffCompleteMatch
  <1>9. CASE Finish(c)
    BY <1>2, <1>3, <1>9 DEF Finish, Commit, Miss, Writing, Pending, Ownership, IsLive, FinishUpdate, FinishMatch
  <1>10. CASE Recover(c)
    BY <1>2, <1>3, <1>10 DEF Recover, Commit, Miss, Writing, Pending, Ownership, IsLive, Installed, RecoverMatch
  <1>11. CASE FenceDeadClaim(c)
    BY <1>2, <1>3, <1>11 DEF FenceDeadClaim, Commit, Miss, Writing, Pending, Ownership, IsLive, FenceUpdate, FenceMatch
  <1>12. CASE RequestHandoff(c)
    BY <1>2, <1>3, <1>12 DEF RequestHandoff, Commit, Miss, Writing, Pending, Ownership, IsLive, RequestHandoffUpdate, RequestHandoffMatch
  <1>13. CASE RetryHandoff(c)
    BY <1>2, <1>3, <1>13 DEF RetryHandoff, Commit, Miss, Writing, Pending, Ownership, IsLive, RetryHandoffUpdate, RetryHandoffMatch
  <1> QED
    BY <1>1, <1>4, <1>5, <1>6, <1>7, <1>8, <1>9, <1>10, <1>11, <1>12, <1>13 DEF Writes

\* Released and terminal rows are left only by an acquire at the next epoch.
THEOREM Absorbing == Spec => FinishedIsAbsorbing
  <1>1. IInv /\ [Next]_vars =>
          [row.state \in FinishedStates /\ row' # row =>
              row'.state = "active" /\ row'.epoch = row.epoch + 1]_vars
    BY AbsorbingStep
  <1> QED
    BY <1>1, Invariance, PTL DEF Spec, FinishedIsAbsorbing

\* One step of VersionNotReverted: every update either takes the version the
\* call sends or, by COALESCE, leaves the column of the row it matched alone.
LEMMA VersionStep ==
    ASSUME IInv, [Next]_vars, row'.version # row.version, row'.epoch = row.epoch
    PROVE  \E c \in Callers :
               /\ call[c].phase = "write"
               /\ call'[c].phase = "idle"
               /\ call[c].req.version = row'.version
  <1>1. PICK c \in Callers : Writes(c)
    BY OnlyWritesMoveRow
  <1>2. row \in Ownership /\ call \in [Callers -> Call]
    BY DEF IInv, TypeOK
  <1> SUFFICES /\ call[c].phase = "write"
               /\ call'[c].phase = "idle"
               /\ call[c].req.version = row'.version
    OBVIOUS
  <1>4. CASE Reacquire(c)
    <2>1. row' = ReacquireRefresh(c) /\ EndTx(c) /\ call[c].phase = "write"
      BY <1>4 DEF Reacquire, Commit, Miss, Writing
    <2>2. row'.version = Coalesce(call[c].req.version, row.version)
      BY <1>2, <2>1 DEF Ownership, ReacquireRefresh
    <2>3. call'[c].phase = "idle"
      BY <1>2, <2>1 DEF EndTx, IdleCall
    <2> QED
      BY <2>1, <2>2, <2>3 DEF Coalesce
  <1>5. CASE Acquire(c)
    BY <1>2, <1>5 DEF Acquire, Commit, EndTx, IdleCall, Miss, Writing, Ownership, AcquireUpsert
  <1>6. CASE RecordProgress(c)
    <2>1. row' = ProgressUpdate(c) /\ EndTx(c) /\ call[c].phase = "write"
      BY <1>6 DEF RecordProgress, Commit, Miss, Writing
    <2>2. row'.version = Coalesce(call[c].req.version, row.version)
      BY <1>2, <2>1 DEF Ownership, ProgressUpdate
    <2>3. call'[c].phase = "idle"
      BY <1>2, <2>1 DEF EndTx, IdleCall
    <2> QED
      BY <2>1, <2>2, <2>3 DEF Coalesce
  <1>7. CASE HandoffStart(c)
    BY <1>2, <1>7 DEF HandoffStart, Commit, EndTx, IdleCall, Miss, Writing, Ownership, HandoffStartUpdate
  <1>8. CASE HandoffComplete(c)
    BY <1>2, <1>8 DEF HandoffComplete, Commit, EndTx, IdleCall, Miss, Writing, Ownership, Installed
  <1>9. CASE Finish(c)
    BY <1>2, <1>9 DEF Finish, Commit, EndTx, IdleCall, Miss, Writing, Ownership, FinishUpdate
  <1>10. CASE Recover(c)
    BY <1>2, <1>10 DEF Recover, Commit, EndTx, IdleCall, Miss, Writing, Ownership, Installed
  <1>11. CASE FenceDeadClaim(c)
    BY <1>2, <1>11 DEF FenceDeadClaim, Commit, EndTx, IdleCall, Miss, Writing, Ownership, FenceUpdate
  <1>12. CASE RequestHandoff(c)
    BY <1>2, <1>12 DEF RequestHandoff, Commit, EndTx, IdleCall, Miss, Writing, Ownership, RequestHandoffUpdate
  <1>13. CASE RetryHandoff(c)
    BY <1>2, <1>13 DEF RetryHandoff, Commit, EndTx, IdleCall, Miss, Writing, Ownership, RetryHandoffUpdate
  <1> QED
    BY <1>1, <1>4, <1>5, <1>6, <1>7, <1>8, <1>9, <1>10, <1>11, <1>12, <1>13 DEF Writes

\* A stalled write that sends no entity version never puts an older one back.
THEOREM VersionKept == Spec => VersionNotReverted
  <1>1. IInv /\ [Next]_vars =>
          [row'.version # row.version /\ row'.epoch = row.epoch =>
              \E c \in Callers :
                  /\ call[c].phase = "write"
                  /\ call'[c].phase = "idle"
                  /\ call[c].req.version = row'.version]_vars
    BY VersionStep
  <1> QED
    BY <1>1, Invariance, PTL DEF Spec, VersionNotReverted

-----------------------------------------------------------------------------
(***************************************************************************)
(* What a call that lost its race is told.                                 *)
(***************************************************************************)

\* What the checks of its first step say of a call that goes on.
Admitted(q, o, t) ==
    /\ q.op \in {"progress", "handoffStart", "released", "terminal"} =>
            q.epoch = o.epoch /\ q.who = o.owner
    /\ q.op = "handoffComplete" => o.state = "handing-off"
    /\ q.op = "recover" => q.epoch = o.epoch
    /\ q.op = "retryHandoff" => HandoffStalled(o, t)

\* What every first step of an operation has in common.
LEMMA StartsBegin ==
    ASSUME NEW c \in Callers, Starts(c)
    PROVE  \/ \E q : Begin(c, q) /\ Admitted(q, row, now)
           \/ UNCHANGED <<row, now, call>>
  <1>1. CASE BeginAcquire(c)
    <2>1. PICK a \in Actors, v \in Versions \union {NoVersion}, w \in Correlated :
            Begin(c, [NoRequest EXCEPT !.op = "acquire", !.who = a, !.version = v, !.wf = w])
      BY <1>1 DEF BeginAcquire
    <2>2. Admitted([NoRequest EXCEPT !.op = "acquire", !.who = a, !.version = v, !.wf = w], row, now)
      BY <2>1 DEF Admitted, NoRequest
    <2> QED
      BY <2>1, <2>2
  <1>2. CASE BeginProgress(c)
    <2>1. PICK a \in Actors, e \in 1..row.epoch, v \in Versions \union {NoVersion} :
            /\ Begin(c, [NoRequest EXCEPT !.op = "progress", !.who = a, !.epoch = e, !.version = v])
            /\ CurrentFor(a, e)
      BY <1>2 DEF BeginProgress
    <2>2. Admitted([NoRequest EXCEPT !.op = "progress", !.who = a, !.epoch = e, !.version = v], row, now)
      BY <2>1 DEF Admitted, NoRequest, CurrentFor
    <2> QED
      BY <2>1, <2>2
  <1>3. CASE BeginHandoffStart(c)
    <2>1. PICK a \in Actors, e \in 1..row.epoch, to \in Actors :
            /\ Begin(c, [NoRequest EXCEPT !.op = "handoffStart", !.who = a, !.epoch = e, !.to = to])
            /\ CurrentFor(a, e)
      BY <1>3 DEF BeginHandoffStart
    <2>2. Admitted([NoRequest EXCEPT !.op = "handoffStart", !.who = a, !.epoch = e, !.to = to], row, now)
      BY <2>1 DEF Admitted, NoRequest, CurrentFor
    <2> QED
      BY <2>1, <2>2
  <1>4. CASE BeginHandoffComplete(c)
    <2>1. PICK a \in Actors, w \in Correlated :
            /\ Begin(c, [NoRequest EXCEPT !.op = "handoffComplete", !.who = a, !.wf = w])
            /\ HandoffNames(a)
      BY <1>4 DEF BeginHandoffComplete
    <2>2. Admitted([NoRequest EXCEPT !.op = "handoffComplete", !.who = a, !.wf = w], row, now)
      BY <2>1 DEF Admitted, NoRequest, HandoffNames
    <2> QED
      BY <2>1, <2>2
  <1>5. CASE BeginFinish(c)
    <2>1. PICK a \in Actors, e \in 1..row.epoch, s \in FinishedStates :
            /\ Begin(c, [NoRequest EXCEPT !.op = s, !.who = a, !.epoch = e])
            /\ CurrentFor(a, e)
      BY <1>5 DEF BeginFinish
    <2>2. Admitted([NoRequest EXCEPT !.op = s, !.who = a, !.epoch = e], row, now)
      BY <2>1 DEF Admitted, NoRequest, CurrentFor
    <2> QED
      BY <2>1, <2>2
  <1>6. CASE BeginRecover(c)
    <2>1. PICK a \in Actors, e \in 1..row.epoch, w \in Correlated :
            /\ Begin(c, [NoRequest EXCEPT !.op = "recover", !.who = a, !.epoch = e, !.wf = w])
            /\ row.epoch = e
      BY <1>6 DEF BeginRecover
    <2>2. Admitted([NoRequest EXCEPT !.op = "recover", !.who = a, !.epoch = e, !.wf = w], row, now)
      BY <2>1 DEF Admitted, NoRequest
    <2> QED
      BY <2>1, <2>2
  <1>7. CASE BeginFence(c)
    <2>1. PICK pin \in BOOLEAN :
            Begin(c, Preconditions("fence", NoActor, pin))
      BY <1>7 DEF BeginFence
    <2>2. Admitted(Preconditions("fence", NoActor, pin), row, now)
      BY <2>1 DEF Admitted, NoRequest, Preconditions
    <2> QED
      BY <2>1, <2>2
  <1>8. CASE BeginRequestHandoff(c)
    <2>1. PICK to \in Actors, pin \in BOOLEAN :
            Begin(c, Preconditions("requestHandoff", to, pin))
      BY <1>8 DEF BeginRequestHandoff
    <2>2. Admitted(Preconditions("requestHandoff", to, pin), row, now)
      BY <2>1 DEF Admitted, NoRequest, Preconditions
    <2> QED
      BY <2>1, <2>2
  <1>9. CASE BeginRetryHandoff(c)
    <2>1. PICK pin \in BOOLEAN :
            /\ Begin(c, Preconditions("retryHandoff", NoActor, pin))
            /\ HandoffStalled(row, now)
      BY <1>9 DEF BeginRetryHandoff, RetryHandoffLicensed
    <2>2. Admitted(Preconditions("retryHandoff", NoActor, pin), row, now)
      BY <2>1 DEF Admitted, NoRequest, Preconditions
    <2> QED
      BY <2>1, <2>2
  <1>10. CASE HandoffCompleteAgain(c)
    BY <1>10 DEF HandoffCompleteAgain
  <1> QED
    BY <1>1, <1>2, <1>3, <1>4, <1>5, <1>6, <1>7, <1>8, <1>9, <1>10 DEF Starts

\* From one row to a later one: within an epoch the owner stays, and a handoff
\* that was announced is not taken back.
Later(o, n) ==
    /\ o.epoch <= n.epoch
    /\ n.epoch = o.epoch => n.owner = o.owner
    /\ n.epoch = o.epoch /\ o.state # "active" => n.state # "active"

\* The row of a call in flight is no older than the one it read, and its
\* request passed the checks on that one.
KnowsItsRead ==
    \A c \in Callers :
        call[c].phase # "idle" =>
            /\ Later(call[c].read, row)
            /\ Admitted(call[c].req, call[c].read, call[c].at)

LEMMA WritesLater ==
    ASSUME IInv, NEW c \in Callers, Writes(c)
    PROVE  Later(row, row')
  <1>1. row \in Ownership /\ call[c] \in Call /\ row.epoch \in Nat
    BY DEF IInv, TypeOK, Ownership
  <1>2. CASE Miss(c)
    BY <1>1, <1>2 DEF Miss, Later
  <1>3. ASSUME row'.epoch = row.epoch, row'.owner = row.owner,
               row'.state \in {row.state, "handing-off", "released", "terminal"}
        PROVE  Later(row, row')
    BY <1>1, <1>3 DEF Later
  <1>4. ASSUME row'.epoch = row.epoch + 1
        PROVE  Later(row, row')
    BY <1>1, <1>4 DEF Later
  <1>5. CASE Reacquire(c)
    BY <1>1, <1>2, <1>3, <1>5 DEF Reacquire, ReacquireRefresh, Commit, Ownership
  <1>6. CASE Acquire(c)
    BY <1>1, <1>2, <1>4, <1>6 DEF Acquire, AcquireUpsert, Commit, Ownership
  <1>7. CASE RecordProgress(c)
    BY <1>1, <1>2, <1>3, <1>7 DEF RecordProgress, ProgressUpdate, Commit, Ownership
  <1>8. CASE HandoffStart(c)
    BY <1>1, <1>2, <1>3, <1>8 DEF HandoffStart, HandoffStartUpdate, Commit, Ownership
  <1>9. CASE HandoffComplete(c)
    BY <1>1, <1>2, <1>4, <1>9 DEF HandoffComplete, Installed, Commit, Ownership
  <1>10. CASE Finish(c)
    BY <1>1, <1>2, <1>3, <1>10 DEF Finish, FinishUpdate, Writing, Commit, Ownership
  <1>11. CASE Recover(c)
    BY <1>1, <1>2, <1>4, <1>11 DEF Recover, Installed, Commit, Ownership
  <1>12. CASE FenceDeadClaim(c)
    BY <1>1, <1>2, <1>4, <1>12 DEF FenceDeadClaim, FenceUpdate, Commit, Ownership
  <1>13. CASE RequestHandoff(c)
    BY <1>1, <1>2, <1>3, <1>13 DEF RequestHandoff, RequestHandoffUpdate, Commit, Ownership
  <1>14. CASE RetryHandoff(c)
    BY <1>1, <1>2, <1>3, <1>14 DEF RetryHandoff, RetryHandoffUpdate, Commit, Ownership
  <1> QED
    BY <1>5, <1>6, <1>7, <1>8, <1>9, <1>10, <1>11, <1>12, <1>13, <1>14 DEF Writes

\* The calls of a step but one that begins are those of the step before.
LEMMA CallsKept ==
    ASSUME IInv, KnowsItsRead, Later(row, row'), row'.epoch \in Nat,
           \A d \in Callers :
              call'[d].phase # "idle" =>
                 /\ call[d].phase # "idle" /\ call'[d].read = call[d].read
                 /\ call'[d].req = call[d].req /\ call'[d].at = call[d].at
    PROVE  KnowsItsRead'
  <1> SUFFICES ASSUME NEW d \in Callers, call'[d].phase # "idle"
               PROVE  Later(call'[d].read, row') /\ Admitted(call'[d].req, call'[d].read, call'[d].at)
    BY DEF KnowsItsRead, Later, Admitted, HandoffStalled
  <1>1. Later(call[d].read, row) /\ Admitted(call[d].req, call[d].read, call[d].at)
    BY DEF KnowsItsRead
  <1>2. row.epoch \in Nat /\ call[d].read.epoch \in Nat
    BY DEF IInv, TypeOK, Call, Ownership
  <1> QED
    BY <1>1, <1>2 DEF Later

LEMMA KnowsNext == IInv /\ KnowsItsRead /\ [Next]_vars => KnowsItsRead'
  <1> SUFFICES ASSUME IInv, KnowsItsRead, [Next]_vars PROVE KnowsItsRead'
    OBVIOUS
  <1>0. row.epoch \in Nat /\ row'.epoch \in Nat
    BY NextInv DEF IInv, TypeOK, Ownership
  <1>1. ASSUME NEW c \in Callers, Starts(c) PROVE KnowsItsRead'
    <2>1. CASE UNCHANGED <<row, now, call>>
      BY <2>1, <1>0, CallsKept DEF Later
    <2>2. ASSUME NEW q, Begin(c, q), Admitted(q, row, now) PROVE KnowsItsRead'
      <3>1. /\ call' = [call EXCEPT ![c] = [phase |-> "write", req |-> q, read |-> row, at |-> now]]
            /\ row' = row
        BY <2>2 DEF Begin
      <3>2. /\ call'[c].req = q /\ call'[c].read = row /\ call'[c].at = now
            /\ \A d \in Callers \ {c} : call'[d] = call[d]
        BY <3>1 DEF IInv, TypeOK
      <3> SUFFICES ASSUME NEW d \in Callers, call'[d].phase # "idle"
                   PROVE  Later(call'[d].read, row') /\ Admitted(call'[d].req, call'[d].read, call'[d].at)
        BY DEF KnowsItsRead, Later, Admitted, HandoffStalled
      <3>3. CASE d = c
        BY <1>0, <2>2, <3>1, <3>2, <3>3 DEF Later
      <3>4. CASE d # c
        BY <3>1, <3>2, <3>4 DEF KnowsItsRead
      <3> QED
        BY <3>3, <3>4
    <2> QED
      BY <1>1, <2>1, <2>2, StartsBegin
  <1>2. ASSUME NEW c \in Callers, Writes(c) PROVE KnowsItsRead'
    <2>1. Later(row, row')
      BY <1>2, WritesLater
    <2>2. \/ call' = [call EXCEPT ![c] = IdleCall]
          \/ call' = [call EXCEPT ![c].phase = "reread"]
      BY <1>2 DEF Writes, Reacquire, Acquire, RecordProgress, HandoffStart, HandoffComplete,
         Finish, Recover, FenceDeadClaim, RequestHandoff, RetryHandoff, Commit, EndTx, Miss
    <2>3. call[c].phase = "write"
      BY <1>2 DEF Writes, Reacquire, Acquire, RecordProgress, HandoffStart, HandoffComplete,
         Finish, Recover, FenceDeadClaim, RequestHandoff, RetryHandoff, Writing
    <2>4. \A d \in Callers :
             call'[d].phase # "idle" =>
                /\ call[d].phase # "idle" /\ call'[d].read = call[d].read
                /\ call'[d].req = call[d].req /\ call'[d].at = call[d].at
      BY <2>2, <2>3 DEF IInv, TypeOK, Call, IdleCall
    <2> QED
      BY <1>0, <2>1, <2>4, CallsKept
  <1>3. ASSUME NEW c \in Callers, Reread(c) \/ Abort(c) PROVE KnowsItsRead'
    <2>1. row' = row /\ call' = [call EXCEPT ![c] = IdleCall]
      BY <1>3 DEF Reread, Abort, EndTx
    <2>2. \A d \in Callers : call'[d].phase # "idle" => call'[d] = call[d]
      BY <2>1 DEF IInv, TypeOK, IdleCall
    <2> QED
      BY <1>0, <2>1, <2>2, CallsKept DEF Later
  <1>4. CASE Tick \/ UNCHANGED vars
    <2>1. row' = row /\ call' = call
      BY <1>4 DEF Tick, vars
    <2> QED
      BY <1>0, <2>1, CallsKept DEF Later
  <1> QED
    BY <1>1, <1>2, <1>3, <1>4 DEF Next

\* ErrStaleRead is never told to a call that would be refused again, and
\* ErrOwnedByOther and ErrEpochMismatch never to one that would be admitted:
\* within an epoch a row keeps its owner and its handoff, so the epoch that the
\* re-read finds settles which of the two it is.
THEOREM AnswersAreHonest == Spec => []MissAnswerIsHonest
  <1>1. IInv /\ KnowsItsRead => MissAnswerIsHonest
    <2> SUFFICES ASSUME IInv, KnowsItsRead, NEW c \in Callers, call[c].phase = "reread"
                 PROVE  /\ MissAnswer(c) = "ErrStaleRead" => AdmittedNow(call[c].req)
                        /\ MissAnswer(c) = "ErrOwnedByOther" /\ IsLive(call[c].read) =>
                              ~AdmittedNow(call[c].req)
                        /\ MissAnswer(c) = "ErrEpochMismatch" /\ call[c].req.op # "handoffComplete" =>
                              ~AdmittedNow(call[c].req)
      BY DEF MissAnswerIsHonest
    <2>1. /\ Later(call[c].read, row) /\ Admitted(call[c].req, call[c].read, call[c].at)
          /\ Pending(call[c].req, call[c].read, call[c].at)
      BY DEF IInv, CallsConsistent, KnowsItsRead
    <2>2. call[c].req.op \in Ops
      BY DEF IInv, TypeOK, Call, Request
    <2>3. CASE call[c].req.op = "acquire"
      BY <2>1, <2>3 DEF MissAnswer, AcquireMiss, AdmittedNow, AcquireAdmits, Pending
    <2>4. CASE call[c].req.op = "progress"
      BY <2>1, <2>4 DEF MissAnswer, RaceLostOn, AdmittedNow, CurrentFor, Admitted, Later
    <2>5. CASE call[c].req.op = "handoffStart"
      BY <2>1, <2>5 DEF MissAnswer, HandoffStartMiss, RaceLostOn, AdmittedNow, CurrentFor, Admitted, Later
    <2>6. CASE call[c].req.op = "handoffComplete"
      BY <2>1, <2>6 DEF MissAnswer, HandoffCompleteMiss, RaceLostOn, AdmittedNow, HandoffNames,
         Admitted, Later, IsLive
    <2>7. CASE call[c].req.op \in FinishedStates
      BY <2>1, <2>7 DEF MissAnswer, FinishMiss, RaceLostOn, AdmittedNow, CurrentFor, Admitted, Later
    <2>8. CASE call[c].req.op = "recover"
      <3>1. MissAnswer(c) = RecoverMiss(c)
        BY <2>8 DEF MissAnswer, FinishedStates
      <3>2. call[c].req.epoch = call[c].read.epoch
        BY <2>1, <2>8 DEF Admitted
      <3>3. RecoverMiss(c) \in {"ok", "ErrNotOwner", "ErrEpochMismatch", "ErrOwnerAlive"}
        BY DEF RecoverMiss
      <3>4. RecoverMiss(c) = "ErrEpochMismatch" => row.epoch # call[c].read.epoch
        BY DEF RecoverMiss
      <3>5. AdmittedNow(call[c].req) => row.epoch = call[c].req.epoch
        BY <2>8, SMTT(20) DEF AdmittedNow
      <3> QED
        BY <3>1, <3>2, <3>3, <3>4, <3>5
    <2>9. CASE call[c].req.op \in {"fence", "requestHandoff", "retryHandoff"}
      BY <2>9 DEF MissAnswer, RecoveryMiss, AdmittedNow, PreconditionsHold, RecoverLicensed
    <2> QED
      BY <2>2, <2>3, <2>4, <2>5, <2>6, <2>7, <2>8, <2>9 DEF Ops
  <1>2. Init => KnowsItsRead
    BY DEF Init, KnowsItsRead, IdleCall
  <1> QED
    BY <1>1, <1>2, Invariance, KnowsNext, PTL DEF Spec

-----------------------------------------------------------------------------
(***************************************************************************)
(* The store as it runs, with the advisory lock: what its transactions     *)
(* read is still the row when they write, so a handoff in progress cannot  *)
(* be kept alive by the owner that is giving it up.                        *)
(***************************************************************************)

\* Under the lock a call in flight is alone and its read is current; a retry
\* was admitted on a handoff that was stalled.
LockedReads ==
    \A c \in Callers :
        call[c].phase # "idle" =>
            /\ call[c].read = row
            /\ row.seen <= call[c].at
            /\ call[c].req.op = "retryHandoff" => HandoffStalled(row, call[c].at)
            /\ \A d \in Callers \ {c} : call[d].phase = "idle"

\* No clock of the row is ahead, and the liveness of a handoff is no younger
\* than the handoff.
Clocks ==
    /\ row.seen <= now
    /\ row.state = "handing-off" => row.seen <= row.started

LInv == LockedReads /\ Clocks

LEMMA LockInit == Init => LInv
  BY DEF Init, LInv, LockedReads, Clocks, IdleCall, NoRow

LEMMA StartsLock ==
    ASSUME AdvisoryLock, IInv, LInv, NEW c \in Callers, Starts(c)
    PROVE  LInv'
  <1>1. CASE UNCHANGED <<row, now, call>>
    BY <1>1 DEF LInv, LockedReads, Clocks, HandoffStalled
  <1>2. ASSUME NEW q, Begin(c, q), Admitted(q, row, now)
        PROVE  LInv'
    <2>1. \A d \in Callers : call[d].phase = "idle"
      BY <1>2 DEF Begin, LockFree
    <2>2. /\ call' = [call EXCEPT ![c] = [phase |-> "write", req |-> q, read |-> row, at |-> now]]
          /\ row' = row /\ now' = now
      BY <1>2 DEF Begin
    <2>3. \A d \in Callers \ {c} : call'[d].phase = "idle"
      BY <2>1, <2>2 DEF IInv, TypeOK
    <2>4. call'[c].read = row /\ call'[c].at = now /\ call'[c].req = q
      BY <2>2 DEF IInv, TypeOK
    <2>5. LockedReads'
      <3> SUFFICES ASSUME NEW d \in Callers, call'[d].phase # "idle"
                   PROVE  /\ call'[d].read = row'
                          /\ row'.seen <= call'[d].at
                          /\ call'[d].req.op = "retryHandoff" => HandoffStalled(row', call'[d].at)
                          /\ \A e \in Callers \ {d} : call'[e].phase = "idle"
        BY DEF LockedReads, HandoffStalled
      <3>1. d = c
        BY <2>3
      <3> QED
        BY <3>1, <2>2, <2>3, <2>4, <1>2 DEF LInv, Clocks, Admitted
    <2> QED
      BY <2>2, <2>5 DEF LInv, Clocks
  <1> QED
    BY <1>1, <1>2, StartsBegin

\* A call that ends or misses leaves the row alone.
LEMMA QuietLock ==
    ASSUME IInv, LInv, NEW c \in Callers, UNCHANGED <<row, now>>,
           \/ call' = [call EXCEPT ![c] = IdleCall]
           \/ call' = [call EXCEPT ![c].phase = "reread"] /\ call[c].phase = "write"
    PROVE  LInv'
  <1>1. \A d \in Callers :
           call'[d].phase # "idle" =>
              /\ call[d].phase # "idle"
              /\ call'[d].read = call[d].read
              /\ call'[d].at = call[d].at
              /\ call'[d].req = call[d].req
    BY DEF IInv, TypeOK, Call, IdleCall
  <1>2. \A d \in Callers : call[d].phase = "idle" => call'[d].phase = "idle"
    BY DEF IInv, TypeOK, Call, IdleCall
  <1>3. LockedReads'
    <2> SUFFICES ASSUME NEW d \in Callers, call'[d].phase # "idle"
                 PROVE  /\ call'[d].read = row'
                        /\ row'.seen <= call'[d].at
                        /\ call'[d].req.op = "retryHandoff" => HandoffStalled(row', call'[d].at)
                        /\ \A e \in Callers \ {d} : call'[e].phase = "idle"
      BY DEF LockedReads, HandoffStalled
    <2> QED
      BY <1>1, <1>2 DEF LInv, LockedReads
  <1> QED
    BY <1>3 DEF LInv, Clocks

-----------------------------------------------------------------------------
\* What a write of a call that is alone, on the row it read, may do to the
\* clocks.
ClockStep(o, n, t) ==
    /\ n.seen <= t
    /\ n.state = "handing-off" => n.seen <= n.started
    /\ o.state = "handing-off" /\ n.state = "handing-off" /\ n.epoch = o.epoch =>
          /\ n.seen # o.seen => HandoffStalled(o, t) /\ n.to = o.to
          /\ n.to = o.to /\ n.started # o.started =>
                \A u \in 0..MaxTime : IsDead(n, u) => HandoffStalled(n, u)

LEMMA WriteClocks ==
    ASSUME IInv, LInv, NEW c \in Callers, Writes(c)
    PROVE  \/ Miss(c)
           \/ ClockStep(row, row', now) /\ EndTx(c) /\ UNCHANGED now
  <1> DEFINE k == call[c]
  <1>0. /\ row \in Ownership /\ now \in Nat /\ k \in Call /\ RowShape
        /\ k.read \in Ownership /\ k.at \in Nat /\ k.req \in Request
    BY DEF IInv, TypeOK, RowInv, Call
  <1>1. k.phase = "write"
    BY DEF Writes, Reacquire, Acquire, RecordProgress, HandoffStart, HandoffComplete, Finish,
       Recover, FenceDeadClaim, RequestHandoff, RetryHandoff, Writing
  <1>2. k.read = row /\ row.seen <= k.at /\ k.at <= now
    BY <1>1 DEF LInv, LockedReads, IInv, CallsConsistent
  <1>3. /\ row.seen \in Nat /\ row.started \in Nat \union {-1} /\ row.epoch \in Nat
        /\ k.at \in Nat /\ now \in Nat
        /\ row.seen <= now /\ (row.state = "handing-off" => row.seen <= row.started)
    BY <1>0 DEF Ownership, LInv, Clocks
  <1>4. LivenessBound \in Nat
    BY OwnershipAssumption
  <1> HIDE DEF k
  <1>5. CASE Reacquire(c)
    <2>1. CASE Miss(c)
      BY <2>1
    <2>2. CASE row' = ReacquireRefresh(c) /\ EndTx(c) /\ UNCHANGED now
      <3>1. /\ row'.seen = IF row.state = "handing-off" THEN row.seen ELSE k.at
            /\ row'.state = row.state /\ row'.started = row.started /\ row'.to = row.to
        BY <2>2, <1>0, <1>2, <1>3 DEF ReacquireRefresh, Ownership, k
      <3> QED
        BY <2>2, <3>1, <1>2, <1>3, <1>4 DEF ClockStep
    <2> QED
      BY <1>5, <2>1, <2>2 DEF Reacquire, Commit
  <1>6. CASE Acquire(c)
    <2>1. CASE Miss(c)
      BY <2>1
    <2>2. CASE row' = AcquireUpsert(c) /\ EndTx(c) /\ UNCHANGED now
      <3>1. row'.seen = k.at /\ row'.state = "active"
        BY <2>2, <1>0, <1>2, <1>3 DEF AcquireUpsert, Ownership, k
      <3> QED
        BY <2>2, <3>1, <1>2, <1>3, <1>4 DEF ClockStep
    <2> QED
      BY <1>6, <2>1, <2>2 DEF Acquire, Commit
  <1>7. CASE RecordProgress(c)
    <2>1. CASE Miss(c)
      BY <2>1
    <2>2. CASE row' = ProgressUpdate(c) /\ EndTx(c) /\ UNCHANGED now
      <3>1. /\ row'.seen = IF row.state = "handing-off" THEN row.seen ELSE k.at
            /\ row'.state = row.state /\ row'.started = row.started /\ row'.to = row.to
        BY <2>2, <1>0, <1>2, <1>3 DEF ProgressUpdate, Ownership, k
      <3> QED
        BY <2>2, <3>1, <1>2, <1>3, <1>4 DEF ClockStep
    <2> QED
      BY <1>7, <2>1, <2>2 DEF RecordProgress, Commit
  <1>8. CASE HandoffStart(c)
    <2>1. CASE Miss(c)
      BY <2>1
    <2>2. CASE row' = HandoffStartUpdate(c) /\ EndTx(c) /\ UNCHANGED now
      <3>1. /\ row'.seen = IF row.state = "handing-off" THEN row.seen ELSE k.at
            /\ row'.state = "handing-off" /\ row'.to = k.req.to
            /\ row'.started = IF row.state = "handing-off" /\ row.to = k.req.to
                              THEN row.started ELSE k.at
        BY <2>2, <1>0, <1>2, <1>3 DEF HandoffStartUpdate, Reannounced, RowShape, Ownership, k
      <3> QED
        BY <2>2, <3>1, <1>2, <1>3, <1>4 DEF ClockStep
    <2> QED
      BY <1>8, <2>1, <2>2 DEF HandoffStart, Commit
  <1>9. CASE HandoffComplete(c)
    <2>1. CASE Miss(c)
      BY <2>1
    <2>2. CASE row' = Installed(c) /\ EndTx(c) /\ UNCHANGED now
      <3>1. row'.seen = k.at /\ row'.state = "active"
        BY <2>2, <1>0, <1>2, <1>3 DEF Installed, Ownership, k
      <3> QED
        BY <2>2, <3>1, <1>2, <1>3, <1>4 DEF ClockStep
    <2> QED
      BY <1>9, <2>1, <2>2 DEF HandoffComplete, Commit
  <1>10. CASE Finish(c)
    <2>1. CASE Miss(c)
      BY <2>1
    <2>2. CASE row' = FinishUpdate(c) /\ EndTx(c) /\ UNCHANGED now
      <3>0. k.req.op \in FinishedStates
        BY <1>10 DEF Finish, Writing, k
      <3>1. row'.seen = row.seen /\ row'.state # "handing-off"
        BY <2>2, <1>0, <1>2, <1>3, <3>0 DEF FinishUpdate, Ownership, k
      <3> QED
        BY <2>2, <3>1, <1>2, <1>3, <1>4 DEF ClockStep
    <2> QED
      BY <1>10, <2>1, <2>2 DEF Finish, Commit
  <1>11. CASE Recover(c)
    <2>1. CASE Miss(c)
      BY <2>1
    <2>2. CASE row' = Installed(c) /\ EndTx(c) /\ UNCHANGED now
      <3>1. row'.seen = k.at /\ row'.state = "active"
        BY <2>2, <1>0, <1>2, <1>3 DEF Installed, Ownership, k
      <3> QED
        BY <2>2, <3>1, <1>2, <1>3, <1>4 DEF ClockStep
    <2> QED
      BY <1>11, <2>1, <2>2 DEF Recover, Commit
  <1>12. CASE FenceDeadClaim(c)
    <2>1. CASE Miss(c)
      BY <2>1
    <2>2. CASE row' = FenceUpdate(c) /\ EndTx(c) /\ UNCHANGED now
      <3>1. row'.seen = row.seen /\ row'.state # "handing-off"
        BY <2>2, <1>0, <1>2, <1>3 DEF FenceUpdate, Ownership, k
      <3> QED
        BY <2>2, <3>1, <1>2, <1>3, <1>4 DEF ClockStep
    <2> QED
      BY <1>12, <2>1, <2>2 DEF FenceDeadClaim, Commit
  <1>13. CASE RequestHandoff(c)
    <2>1. CASE Miss(c)
      BY <2>1
    <2>2. CASE /\ RequestHandoffMatch(c)
               /\ row' = RequestHandoffUpdate(c) /\ EndTx(c) /\ UNCHANGED now
      <3>1. /\ row'.seen = k.at /\ row'.started = k.at
            /\ row.state # "handing-off"
        BY <2>2, <1>0, <1>2, <1>3 DEF RequestHandoffUpdate, RequestHandoffMatch, Ownership, k
      <3> QED
        BY <2>2, <3>1, <1>2, <1>3, <1>4 DEF ClockStep
    <2> QED
      BY <1>13, <2>1, <2>2 DEF RequestHandoff, Commit
  <1>14. CASE RetryHandoff(c)
    <2>1. CASE Miss(c)
      BY <2>1
    <2>2. CASE row' = RetryHandoffUpdate(c) /\ EndTx(c) /\ UNCHANGED now
      <3>0. HandoffStalled(row, k.at)
        BY <1>1, <1>14 DEF RetryHandoff, Writing, LInv, LockedReads, k
      <3>1. /\ row'.seen = k.at /\ row'.started = k.at
            /\ row'.state = row.state /\ row'.to = row.to
        BY <2>2, <1>0, <1>2, <1>3 DEF RetryHandoffUpdate, Ownership, k
      <3> QED
        BY <2>2, <3>0, <3>1, <1>2, <1>3, <1>4 DEF ClockStep, HandoffStalled, IsDead, IsLive
    <2> QED
      BY <1>14, <2>1, <2>2 DEF RetryHandoff, Commit
  <1> QED
    BY <1>5, <1>6, <1>7, <1>8, <1>9, <1>10, <1>11, <1>12, <1>13, <1>14 DEF Writes

-----------------------------------------------------------------------------
\* A write that lands keeps what the lock gives: nobody else is in flight.
LEMMA WriteLock ==
    ASSUME IInv, LInv, NEW c \in Callers, Writes(c)
    PROVE  LInv'
  <1>1. call[c].phase = "write"
    BY DEF Writes, Reacquire, Acquire, RecordProgress, HandoffStart, HandoffComplete, Finish,
       Recover, FenceDeadClaim, RequestHandoff, RetryHandoff, Writing
  <1>2. CASE Miss(c)
    BY <1>1, <1>2, QuietLock DEF Miss
  <1>3. CASE ClockStep(row, row', now) /\ EndTx(c) /\ UNCHANGED now
    <2>1. \A d \in Callers : call'[d].phase = "idle"
      BY <1>1, <1>3 DEF LInv, LockedReads, EndTx, IdleCall, IInv, TypeOK
    <2>2. LockedReads'
      BY <2>1 DEF LockedReads
    <2> QED
      BY <2>2, <1>3 DEF LInv, Clocks, ClockStep
  <1> QED
    BY <1>2, <1>3, WriteClocks

LEMMA TickLock ==
    ASSUME IInv, LInv, Tick
    PROVE  LInv'
  <1>1. row.seen \in Nat /\ now \in Nat
    BY DEF IInv, TypeOK, Ownership
  <1>2. row' = row /\ call' = call /\ now' = now + 1
    BY DEF Tick
  <1>3. LockedReads'
    BY <1>2 DEF LInv, LockedReads, HandoffStalled
  <1> QED
    BY <1>1, <1>2, <1>3 DEF LInv, Clocks

LEMMA NextLock == AdvisoryLock /\ IInv /\ LInv /\ [Next]_vars => LInv'
  <1> SUFFICES ASSUME AdvisoryLock, IInv, LInv, [Next]_vars PROVE LInv'
    OBVIOUS
  <1>1. CASE Tick
    BY <1>1, TickLock
  <1>2. ASSUME NEW c \in Callers, Starts(c) PROVE LInv'
    BY <1>2, StartsLock
  <1>3. ASSUME NEW c \in Callers, Writes(c) PROVE LInv'
    BY <1>3, WriteLock
  <1>4. ASSUME NEW c \in Callers, Reread(c) \/ Abort(c) PROVE LInv'
    BY <1>4, QuietLock DEF Reread, Abort, EndTx
  <1>5. CASE UNCHANGED vars
    BY <1>5 DEF vars, LInv, LockedReads, Clocks, HandoffStalled
  <1> QED
    BY <1>1, <1>2, <1>3, <1>4, <1>5 DEF Next

\* LInv needs the lock: without it a stalled read is written over a newer row.
LEMMA LockInvariance == AdvisoryLock => (Spec => []LInv)
  <1> SUFFICES ASSUME AdvisoryLock PROVE Spec => []LInv
    OBVIOUS
  <1>1. IInv /\ LInv /\ [Next]_vars => LInv'
    BY NextLock
  <1> QED
    BY <1>1, LockInit, Invariance, PTL DEF Spec

-----------------------------------------------------------------------------
\* As the store runs, a stalled handoff is always recoverable: last_seen_at
\* is never later than handoff_started_at on a handing-off row.
THEOREM Recoverable == AdvisoryLock => (Spec => []StalledIsRecoverable)
  <1> SUFFICES ASSUME AdvisoryLock PROVE Spec => []StalledIsRecoverable
    OBVIOUS
  <1>1. IInv /\ LInv => StalledIsRecoverable
    <2> SUFFICES ASSUME IInv, LInv PROVE StalledIsRecoverable
      OBVIOUS
    <2>1. row.seen \in Nat /\ now \in Nat /\ row.started \in Nat \union {-1}
      BY DEF IInv, TypeOK, Ownership
    <2> QED
      BY <2>1, OwnershipAssumption
      DEF LInv, Clocks, StalledIsRecoverable, HandoffStalled, RecoverLicensed, IsDead, IsLive
  <1> QED
    BY <1>1, Invariance, LockInvariance, PTL

\* As the store runs, the clocks of a handoff move only when it is stalled and
\* retried for the same target, and a retry buys the target a whole bound.
THEOREM ClocksFrozen == AdvisoryLock => (Spec => HandoffClocks)
  <1> SUFFICES ASSUME AdvisoryLock PROVE Spec => HandoffClocks
    OBVIOUS
  <1> DEFINE Frozen ==
        row.state = "handing-off" /\ row'.state = "handing-off" /\ row'.epoch = row.epoch =>
          /\ row'.seen # row.seen => HandoffStalled(row, now) /\ row'.to = row.to
          /\ row'.to = row.to /\ row'.started # row.started =>
                \A t \in 0..MaxTime : IsDead(row', t) => HandoffStalled(row', t)
  <1>1. IInv /\ LInv /\ [Next]_vars => Frozen
    <2> SUFFICES ASSUME IInv, LInv, [Next]_vars, row' # row PROVE Frozen
      OBVIOUS
    <2>1. PICK c \in Callers : Writes(c)
      BY OnlyWritesMoveRow
    <2>2. ClockStep(row, row', now)
      BY <2>1, WriteClocks DEF Miss
    <2> QED
      BY <2>2 DEF ClockStep
  <1> HIDE DEF Frozen
  <1>2. IInv /\ LInv /\ [Next]_vars => [Frozen]_vars
    BY <1>1
  <1>3. Spec => [][Frozen]_vars
    BY <1>2, Invariance, LockInvariance, PTL DEF Spec
  <1> QED
    BY <1>3 DEF Frozen, HandoffClocks
=============================================================================
