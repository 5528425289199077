----------------------------- MODULE EventRelay -----------------------------
(***************************************************************************)
(* internal/events: the outbox between HandleGitHubWebhook and Valkey, and *)
(* the relays of the replicas that drain it under a lease.                 *)
(*                                                                         *)
(* Time is kept as ages: a lease has so many ticks left, a relay knows how *)
(* many have passed since it renewed and since its current call started.   *)
(* Every database and Valkey call ends within MaxStall ticks (storeTimeout *)
(* and the client's timeout bound them).  A call that fails may still have *)
(* had its effect.                                                         *)
(***************************************************************************)
EXTENDS Integers, Sequences

CONSTANTS
    Replicas,    \* mctl-api processes
    Events,      \* GitHub delivery ids
    MaxRows,     \* bound on the ids the BIGSERIAL hands out
    BatchSize,   \* batchSize
    LeaseTTL,    \* leaseTTL
    RenewEvery,  \* leaseRenewEvery
    MaxStall,    \* the longest call
    MaxCrashes,  \* bound on process crashes
    NoHolder,    \* no row in event_outbox_lease
    Gone         \* the holder's name of a process that died

ASSUME RelayAssumption ==
    /\ MaxRows \in Nat \ {0}
    /\ BatchSize \in Nat \ {0}
    /\ MaxStall \in Nat \ {0}
    /\ RenewEvery \in Nat \ {0}
    /\ LeaseTTL \in Nat
    /\ RenewEvery + MaxStall <= LeaseTTL
    /\ 2 * MaxStall <= LeaseTTL
    /\ MaxCrashes \in Nat
    /\ NoHolder \notin Replicas
    /\ Gone \notin Replicas \union {NoHolder}

VARIABLES
    rows,     \* event_outbox
    lease,    \* event_outbox_lease: its holder and the ticks it has left
    relay,    \* each replica's relay loop
    wake,     \* each relay's wake channel, of capacity one
    stream,   \* the row ids in Valkey, by first appearance
    crashes

vars == <<rows, lease, relay, wake, stream, crashes>>

Ids == 1..MaxRows

\* open: the INSERT has its id and is not committed; lost: it rolled back.
\* notified: Notify was called for it on the replica that accepted it.
OutboxRow == [event    : Events \union {NoHolder},
              state    : {"none", "open", "lost", "pending", "published", "purged"},
              by       : Replicas \union {NoHolder},
              notified : BOOLEAN,
              after    : SUBSET Ids]

NoRow == [event |-> NoHolder, state |-> "none", by |-> NoHolder,
          notified |-> FALSE, after |-> {}]

Batches == UNION {[1..n -> Ids] : n \in 0..BatchSize}

\* pc is the call the relay is in; full: the batch had BatchSize rows;
\* age: since renewedAt; spent: since the call started; err: how the pass went.
Relay == [pc    : {"idle", "renew", "query", "row", "append", "mark", "release"},
          batch : Batches,
          full  : BOOLEAN,
          age   : 0..RenewEvery,
          spent : 0..MaxStall,
          err   : {"none", "held", "failed"}]

\* NewTimer(0): a relay drains as soon as its process runs.
Booted == [pc |-> "renew", batch |-> << >>, full |-> FALSE, age |-> 0,
           spent |-> 0, err |-> "none"]

Leases == [holder : Replicas \union {NoHolder, Gone}, left : -(MaxStall + 1)..LeaseTTL]

NoLease == [holder |-> NoHolder, left |-> 0]

Init ==
    /\ rows = [i \in Ids |-> NoRow]
    /\ lease = NoLease
    /\ relay = [r \in Replicas |-> Booted]
    /\ wake = [r \in Replicas |-> FALSE]
    /\ stream = << >>
    /\ crashes = 0

-----------------------------------------------------------------------------
Committed == {i \in Ids : rows[i].state \in {"pending", "published", "purged"}}
Appended == {stream[k] : k \in 1..Len(stream)}
Pending == {i \in Ids : rows[i].state = "pending"}

(* HandleGitHubWebhook.                                                    *)

\* Enqueue: ON CONFLICT waits for an open insert of the same event and does
\* nothing on a stored one; otherwise the row takes the next id.
Enqueue(r) ==
    \E e \in Events, i \in Ids :
        /\ \A j \in Ids : rows[j].event = e => rows[j].state \in {"lost", "purged"}
        /\ rows[i].state = "none"
        /\ \A j \in 1..(i - 1) : rows[j].state # "none"
        /\ rows' = [rows EXCEPT ![i] = [event |-> e, state |-> "open", by |-> r,
                                        notified |-> FALSE, after |-> Committed]]
        /\ UNCHANGED <<lease, relay, wake, stream, crashes>>

\* The INSERT commits, or rolls back.  A commit whose answer is lost is a 503.
Commit(i) ==
    /\ rows[i].state = "open"
    /\ \E s \in {"pending", "lost"} : rows' = [rows EXCEPT ![i].state = s]
    /\ UNCHANGED <<lease, relay, wake, stream, crashes>>

\* inserted: Notify puts a token into the channel unless one is there.
Notify(i) ==
    /\ rows[i].by \in Replicas /\ i \in Committed /\ ~rows[i].notified
    /\ rows' = [rows EXCEPT ![i].notified = TRUE]
    /\ wake' = [wake EXCEPT ![rows[i].by] = TRUE]
    /\ UNCHANGED <<lease, relay, stream, crashes>>

-----------------------------------------------------------------------------
(* Relay.Run.                                                              *)

Goto(r, pc) == relay' = [relay EXCEPT ![r].pc = pc, ![r].spent = 0]

\* Drain returns err: its deferred release comes next.
Return(r, err) ==
    relay' = [relay EXCEPT ![r] = [@ EXCEPT !.pc = "release", !.spent = 0, !.err = err,
                                            !.age = 0,
                                            !.batch = << >>, !.full = FALSE]]

Failing(r) == Return(r, "failed")

Drain(r) == relay' = [relay EXCEPT ![r] = Booted]

\* A failed or refused pass is retried by its timer only.
InBackoff(r) == relay[r].err # "none"

Woken(r) ==
    /\ relay[r].pc = "idle" /\ wake[r]
    /\ wake' = [wake EXCEPT ![r] = FALSE]
    /\ \/ ~InBackoff(r) /\ Goto(r, "renew")
       \/ InBackoff(r) /\ UNCHANGED relay
    /\ UNCHANGED <<rows, lease, stream, crashes>>

Timer(r) ==
    /\ relay[r].pc = "idle"
    /\ Drain(r)
    /\ UNCHANGED <<rows, lease, wake, stream, crashes>>

-----------------------------------------------------------------------------
(* Relay.Drain.                                                            *)

\* Mutant: a lease never expires.
AcquirableUnexpired(r) == lease.holder \in {NoHolder, r}

\* AcquireOutboxLease's WHERE clause, with the time the caller read before the
\* call.
Acquirable(r) ==
    \/ lease.holder \in {NoHolder, r}
    \/ lease.left + relay[r].spent < 0

Acquired(r) == [holder |-> r, left |-> LeaseTTL - relay[r].spent]

\* Ages beyond RenewEvery are all the same.
Capped(n) == IF n < RenewEvery THEN n ELSE RenewEvery

\* renew, then on to the next call.
RenewOK(r, next) ==
    /\ Acquirable(r)
    /\ lease' = Acquired(r)
    /\ relay' = [relay EXCEPT ![r].pc = next, ![r].age = Capped(relay[r].spent),
                              ![r].spent = 0]

\* Mutant: a lease held by another relay means there is nothing to do.
RenewRefusedQuiet(r) ==
    \/ ~Acquirable(r) /\ Return(r, "none") /\ UNCHANGED lease
    \/ Failing(r) /\ UNCHANGED lease
    \/ Failing(r) /\ Acquirable(r) /\ lease' = Acquired(r)

RenewRefused(r) ==
    \/ ~Acquirable(r) /\ Return(r, "held") /\ UNCHANGED lease
    \/ Failing(r) /\ UNCHANGED lease
    \/ Failing(r) /\ Acquirable(r) /\ lease' = Acquired(r)

Renew(r) ==
    /\ relay[r].pc = "renew"
    /\ RenewOK(r, "query")
    /\ UNCHANGED <<rows, wake, stream, crashes>>

RenewFails(r) ==
    /\ relay[r].pc = "renew"
    /\ RenewRefused(r)
    /\ UNCHANGED <<rows, wake, stream, crashes>>

\* The n lowest of a set of ids, in order.
Lowest(S, n) ==
    CHOOSE b \in Batches :
        /\ \A k \in 1..Len(b) : b[k] \in S
        /\ \A k \in 1..(Len(b) - 1) : b[k] < b[k + 1]
        /\ \A i \in S : (\E k \in 1..Len(b) : b[k] = i)
                        \/ (Len(b) = n /\ i > b[n])

PendingOutbox(r) ==
    LET b == Lowest(Pending, BatchSize) IN
    /\ relay[r].pc = "query"
    /\ \/ /\ b # << >>
          /\ relay' = [relay EXCEPT ![r] = [@ EXCEPT !.pc = "row", !.spent = 0, !.batch = b,
                                                     !.full = (Len(b) = BatchSize)]]
       \/ b = << >> /\ Return(r, "none")
    /\ UNCHANGED <<rows, lease, wake, stream, crashes>>

\* Mutant: the lease is renewed per batch only.
RenewRecentAlways(r) == TRUE

\* renew(false): skipped while the last renewal is recent.
RenewRecent(r) == relay[r].age < RenewEvery

RenewRow(r) ==
    /\ relay[r].pc = "row"
    /\ \/ RenewRecent(r) /\ Goto(r, "append") /\ UNCHANGED lease
       \/ ~RenewRecent(r) /\ RenewOK(r, "append")
    /\ UNCHANGED <<rows, wake, stream, crashes>>

RenewRowFails(r) ==
    /\ relay[r].pc = "row"
    /\ ~RenewRecent(r)
    /\ RenewRefused(r)
    /\ UNCHANGED <<rows, wake, stream, crashes>>

Append1(i) == stream' = IF i \in Appended THEN stream ELSE Append(stream, i)

XAdd(r) ==
    /\ relay[r].pc = "append"
    /\ Append1(Head(relay[r].batch))
    /\ Goto(r, "mark")
    /\ UNCHANGED <<rows, lease, wake, crashes>>

\* After the last row of a batch: another batch only if this one was full.
AfterRow(r) ==
    LET rest == Tail(relay[r].batch) IN
    \/ /\ rest # << >>
       /\ relay' = [relay EXCEPT ![r] = [@ EXCEPT !.pc = "row", !.spent = 0, !.batch = rest]]
    \/ /\ rest = << >> /\ relay[r].full
       /\ relay' = [relay EXCEPT ![r] = [@ EXCEPT !.pc = "renew", !.spent = 0, !.batch = rest]]
    \/ rest = << >> /\ ~relay[r].full /\ Return(r, "none")

\* Mutant: a failed row is skipped and the pass goes on.
XAddFailsSkips(r) ==
    /\ relay[r].pc = "append"
    /\ UNCHANGED stream
    /\ AfterRow(r)
    /\ UNCHANGED <<rows, lease, wake, crashes>>

\* The row stays pending, the pass ends.
XAddFails(r) ==
    /\ relay[r].pc = "append"
    /\ \/ UNCHANGED stream
       \/ Append1(Head(relay[r].batch))
    /\ Failing(r)
    /\ UNCHANGED <<rows, lease, wake, crashes>>

Published(i) == rows' = [rows EXCEPT ![i].state = IF @ = "pending" THEN "published" ELSE @]

MarkOutboxPublished(r) ==
    /\ relay[r].pc = "mark"
    /\ Published(Head(relay[r].batch))
    /\ AfterRow(r)
    /\ UNCHANGED <<lease, wake, stream, crashes>>

MarkFails(r) ==
    /\ relay[r].pc = "mark"
    /\ \/ UNCHANGED rows
       \/ Published(Head(relay[r].batch))
    /\ Failing(r)
    /\ UNCHANGED <<lease, wake, stream, crashes>>

QueryFails(r) ==
    /\ relay[r].pc = "query"
    /\ Failing(r)
    /\ UNCHANGED <<rows, lease, wake, stream, crashes>>

Released(r) == IF lease.holder = r THEN NoLease ELSE lease

\* Any row that is published may have been so for publishedRetention: days
\* are not measured.
Purgeable == {i \in Ids : rows[i].state = "published"}

\* The deferred release, which may fail, then Run's purge and its timer.
Release(r) ==
    /\ relay[r].pc = "release"
    /\ lease' \in {lease, Released(r)}
    /\ \E old \in {{}, Purgeable} :
          rows' = [i \in Ids |-> IF i \in old THEN [rows[i] EXCEPT !.state = "purged"]
                                              ELSE rows[i]]
    /\ relay' = [relay EXCEPT ![r].pc = "idle", ![r].spent = 0]
    /\ UNCHANGED <<wake, stream, crashes>>

-----------------------------------------------------------------------------
\* The process dies with its channel; the lease keeps the dead holder's name
\* and the inserts of its handlers roll back.
Crash(r) ==
    /\ crashes < MaxCrashes
    /\ crashes' = crashes + 1
    /\ relay' = [relay EXCEPT ![r] = Booted]
    /\ wake' = [wake EXCEPT ![r] = FALSE]
    /\ lease' = IF lease.holder = r THEN [lease EXCEPT !.holder = Gone] ELSE lease
    /\ rows' = [i \in Ids |->
                  IF rows[i].by # r THEN rows[i]
                  ELSE [rows[i] EXCEPT !.by = NoHolder,
                                       !.state = IF @ = "open" THEN "lost" ELSE @]]
    /\ UNCHANGED stream

Tick ==
    /\ \A r \in Replicas : relay[r].pc # "idle" => relay[r].spent < MaxStall
    /\ lease' = [lease EXCEPT !.left = IF lease # NoLease /\ @ >= -MaxStall THEN @ - 1 ELSE @]
    /\ relay' = [r \in Replicas |->
                   IF relay[r].pc = "idle" THEN relay[r]
                   ELSE [relay[r] EXCEPT !.age = Capped(@ + 1), !.spent = @ + 1]]
    /\ UNCHANGED <<rows, wake, stream, crashes>>

Progress(r) ==
    \/ Renew(r) \/ PendingOutbox(r) \/ RenewRow(r) \/ XAdd(r) \/ MarkOutboxPublished(r)

Failure(r) ==
    \/ RenewFails(r) \/ QueryFails(r) \/ RenewRowFails(r) \/ XAddFails(r) \/ MarkFails(r)

Next ==
    \/ \E r \in Replicas :
          \/ Enqueue(r) \/ Woken(r) \/ Timer(r) \/ Release(r) \/ Crash(r)
          \/ Progress(r) \/ Failure(r)
    \/ \E i \in Ids : Commit(i) \/ Notify(i)
    \/ Tick

\* Safety alone.
SafeSpec == Init /\ [][Next]_vars

\* A relay keeps running (its timer fires, its calls return) and no dependency
\* is down for ever: a call that is tried again and again succeeds some time.
Fairness ==
    /\ WF_vars(Tick)
    /\ \A r \in Replicas :
          /\ WF_vars(Timer(r) \/ Woken(r))
          /\ WF_vars(Progress(r) \/ Failure(r))
          /\ WF_vars(Release(r))
          /\ SF_vars(Renew(r))
          /\ SF_vars(PendingOutbox(r))
          /\ SF_vars(RenewRow(r))
          /\ SF_vars(XAdd(r))
          /\ SF_vars(MarkOutboxPublished(r))

Spec == SafeSpec /\ Fairness

-----------------------------------------------------------------------------
\* Every variable keeps its type.
TypeOK ==
    /\ rows \in [Ids -> OutboxRow]
    /\ lease \in Leases
    /\ relay \in [Replicas -> Relay]
    /\ wake \in [Replicas -> BOOLEAN]
    /\ stream \in UNION {[1..n -> Ids] : n \in 0..MaxRows}
    /\ crashes \in 0..MaxCrashes

\* A relay that is in an XADD holds the lease and the lease has not run out,
\* however long the calls of its pass took and whoever else tried to take it:
\* "a replica that lost ownership must stop before another one publishes the
\* same rows".
PublishesUnderLease ==
    \A r \in Replicas : relay[r].pc = "append" => lease.holder = r /\ lease.left >= 0

\* A relay that waits for the 30 second timer has no work it was notified of:
\* the token of the channel, a short retry or the pass itself took care of it.
NotifyNotLost ==
    \A r \in Replicas, i \in Pending :
        rows[i].by = r /\ rows[i].notified /\ relay[r].pc = "idle" /\ ~InBackoff(r)
            => wake[r]

Abstract == INSTANCE EventDelivery WITH
    accepted <- Committed,
    after <- [i \in Ids |-> IF i \in Committed THEN rows[i].after ELSE {}],
    delivered <- stream

\* However passes, replicas, failures and crashes interleave, an event never
\* overtakes one that had been accepted when it arrived.
NoOvertaking == Abstract!Safety

\* The outbox, the lease and the relays implement the delivery they promise:
\* no overtaking, and every accepted event is published in the end.
Delivery == Abstract!Spec
=============================================================================
