# Verification of mctl-api

mctl-api is the control plane of the mctl platform: a Go service, run as several
replicas, that answers REST and MCP calls, keeps durable records in Postgres and
Redis/Valkey, and coordinates people, agents and workflow engines. Its correctness
rests on guarded SQL statements, leases, idempotency keys and clocks rather than on
locks in one process. This directory models those parts in TLA+, checks the models with
TLC and proves the central facts with TLAPS.

All source paths below are relative to the repository root.

## 1. Inventory

### Parts that are modelled

**Lifecycle ownership** (`internal/lifecycle`). The durable answer to "who may act on
this entity phase". State: one row per key (owner, epoch, state, handoff target, entity
version, correlation, three clocks) and an event trail. Operations: Acquire,
RecordProgress, HandoffStart, HandoffComplete, Release/Terminal (`finish`), Recover, and
the operator's FenceDeadClaim, RequestHandoff and RetryHandoff; Derive and Classify read.
Every write is read / decide / guarded UPDATE / re-read. Hard: calls that stall between
the read and the write, lost answers, verdicts ("dead", "stuck") computed from a read,
three clocks that must not contradict each other. Correct when the epoch is an exclusive
fencing token, a live owner is displaced only with a licence, finished rows stay finished,
the answers of lost races are right, and the reports agree with what the store would do.

**OAuth refresh sessions** (`internal/auth/refreshstore`, `internal/auth/oauth_server.go`).
State: rows of rotating refresh tokens, one family per sign-in. Operations: insert,
rotation with a grace window for replays, reuse detection, revocation of a family or a
principal, downgrade refusal, garbage collection. Hard: REPEATABLE READ snapshots, row
locks, 40001 retries, deadlocks, READ COMMITTED statements. Correct when a family never
branches, nothing superseded is handed out, and a revocation reported done is final.

**Event outbox and relay** (`internal/events`, `internal/api/handlers_github_webhook.go`).
State: the outbox table, a lease row, the wake channel of each replica, the Valkey
stream. Operations: enqueue and commit, Notify, the relay loop (timer, backoff, renew,
batch, XADD, mark), release, purge. Hard: calls that fail after taking effect, leases that
run out during a batch, crashes, a channel of capacity one. Correct when an accepted event
reaches the stream, is published under a lease, and does not overtake its predecessors.

**Work items and submits** (`internal/workitems`, `internal/api/handlers_work_items.go`,
`handlers_execution_requests.go`, `execution_orphan_reconciler.go`,
`handlers_submit_execution.go`, `internal/operations/executor.go`). State: the item, its
executions, execution requests, idempotency keys, claims; the sweepers; the submits; the
engine's runs. Operations: lifecycle transitions, resume, attach and phase reports, create /
claim / fulfil / reject of requests, the orphan sweep, the submit of a Workflow whose
execution is recorded first. Hard: scans outside the lock, leases, duplicate and late
reports, runs that die without one, a create whose answer is lost. Correct when an item has
one open execution and one open request, claims fence fulfilment, outcomes are final, the
API closes no execution whose run is alive, and a queued request is handed out in the end.

**Action approvals and the receipt gate** (`internal/workitems/action_approvals.go`,
`internal/governance`, `internal/api` and `internal/mcp` `agent_receipt_gate.go`). State:
the approval row; the calls in flight; the resolver cache of each process. Operations: create, decide, revalidate and consume,
verify / reserve / run / settle a tool call, mark executed. Hard: handlers that read
outside the lock, lost answers, cancelled tools, crashes between reserve and settle,
authority that is withdrawn while a cache still vouches for it. Correct when an approval is
decided once, on a shown context, spent only under a decider whose authority ended less than
a cache lifetime ago if at all, and within its age used at most once by calls that do not
report a failure.

**Commerce ledger** (`internal/commerce`, `internal/api/handlers_commerce*.go`). State:
terms, quotes, invocations with their phase, reservations, a monthly budget, prepaid
packages and their allocations, operations at a payment rail. Operations: publish and
retire terms, quote, accept, reserve, resolve, dispatch, finalize, release, the guarded
transitions a gateway may ask for, and the reconciler. Hard: a rail whose answers are lost
and must be resolved, never guessed; one balance under several invocations; a reconciler
that lists without a lock; a month that ends while money is held. Correct when holds and
captures stay within the limit that admitted them, units of a package are conserved, the
ledger and the rail tell the same story, and a finished invocation is final.

**Customer deletion, sign-up and principals** (`internal/principals`,
`internal/customerdelete`, `internal/api/handlers_customer_deletion.go`,
`handlers_signup.go`). State: the approved manifest, principals and their identities,
reservations of the admission budget, the run lock; outside, the workspace, the portal, the
identity provider and sessions. Operations: prepare, the callbacks begin, resources and
complete, the teardown, release, cancel; invite, expire, claim a name; link, unlink, merge,
disable. Hard: a workflow that runs long after the approval, teardown that stops anywhere
and is repeated, a lock that is lost with its session, a name that others wait for. Correct
when a complete deletion left nothing behind, only what was approved is deleted, the name
stays taken until the end, and what has begun is never undone.

**Human input** (`internal/humaninput`, `internal/api/handlers_human_input_response.go`).
State: one delivery per request, with the answer, its state and the workflow's
resume_count as it was when the answer was recorded; in the workflow, what it waits on and
two counters. Operations: submit, claim, push a recorded answer through, signal, confirm,
close, clear expired values. Hard: no lock and no worker, so any call may deliver any
recorded answer, twice too; a signal whose answer is lost; acceptance that is inferred from
a counter. Correct when what the ledger and the submitter hear agrees with what the
workflow did, and no request that can be answered is blocked by an answer nobody delivers.

### Parts that are not modelled

`PROJECT.json` lists every other part with the reason. Some have protocol state of their
own and would be next: agent run tokens, decision records, the agent registry, surface
identity, security findings. Work item snapshots, grants, the OAuth
code flow and the usage ledger are single statements whose atomicity is the database's. The
rest, and most of the code by lines, is stateless: validation of credentials, documents and
manifests, parsing, text, clients of other services, routing, tools that decode arguments
and call handlers (`internal/mcp/server.go`), configuration and wiring (`cmd/api/main.go`).
A state machine has nothing to say about those.

### How the parts interact

Work items, approvals and lifecycle ownership are three independent stores that the
handlers use one after the other; no transaction spans two of them. An approval names the
execution it is for; a dispatcher that fulfils an execution request starts a run and
reports it with AttachExecution; the lifecycle store knows nothing of either. The webhook
producer shares only the database with them. RevokePrincipal of the refresh store is
called when a principal is disabled, and by a customer deletion, which also names the
principal store, the sign-up reservations and the GitOps workflows; that one is modelled
with all of them in one module. A submit creates an execution of a work item before it
creates the Workflow, and is part of the work item module. Human-input answers meet the
workflow that asked for them through queries and one signal only. So each component is a module of its own, and the
environment each sees (engines, dispatchers, GitHub, the clock, the principal store) is
part of its module.

## 2. Modules

| Module | Models |
|---|---|
| `LifecycleOwnership` | the row, its derived predicates (IsDead, IsStuck, HandoffStalled), Derive, Classify |
| `LifecycleStore` | the store's operations as transactions of calls in flight |
| `LifecycleStoreProofs` | theorems about LifecycleStore, and about its clocks under its lock |
| `RefreshStore` | one token family and the transactions that race on it |
| `RefreshStoreProofs` | theorems about RefreshStore |
| `EventDelivery` | abstract: what the producer promises of the events it accepts |
| `EventRelay` | outbox, lease, relay loops and stream; refines EventDelivery |
| `EventRelayProofs` | theorems about EventRelay, and that it implements the safety of EventDelivery |
| `WorkItems` | one item with executions, requests, dispatchers, sweepers, submits, runs |
| `WorkItemsProofs` | theorems about WorkItems |
| `ActionApprovals` | one approval with reviewers, spends and tool calls |
| `ActionApprovalsProofs` | theorems about ActionApprovals |
| `Commerce` | one tenant's terms, invocations, budget, package, payment rail, reconciler |
| `CommerceProofs` | theorems about Commerce |
| `CustomerDeletion` | one workspace name: deletions, sign-ups, identity changes |
| `CustomerDeletionProofs` | theorems about CustomerDeletion |
| `HumanInput` | the delivery ledger, the calls that use it and one workflow |
| `HumanInputProofs` | theorems about HumanInput |
| `MCLifecycle`, `MCRefresh`, `MCEvents`, `MCWorkItems`, `MCApprovals`, `MCCommerce`, `MCCustomers`, `MCHumanInput` | model values and symmetry for TLC |

Operators named in a `\* Mutant:` comment are wrong variants of the definition that
follows them. Nothing uses them; substituting one for its definition must make TLC report
the property it is paired with in `PROJECT.json`.

### Correspondence and abstractions

*Lifecycle.* One key. `Begin*` is the read and its refusals, the action named after the Go
method is the guarded write (`*Match` its WHERE clause, `*Update` its SET), `Reread` the
answer after a miss, `Abort` a rollback. `AdvisoryLock` says whether `inTx` takes its lock:
the code claims to survive its removal, so the run turns it off; the clocks of a handoff need
it, and what is claimed of them is proved with it. A grant whose
answer is lost leaves `held` alone (`Grant`). All replicas read one clock. RequestReconcile
and the recording of denials change no column and are stuttering steps.

*Refresh tokens.* `deriveSuccessorRefreshToken` makes the successor of a token a function
of it, so the tokens of a family are 1, 2, 3, ... A transaction has a snapshot, the rows it
locked, and one commit step with its writes; a lock on a row that changed since the
snapshot fails and the call retries at most MaxAttempts times. RevokeFamily is the READ
COMMITTED statement it is: candidates from a snapshot, re-checked one by one.

*Events.* Time is kept as ages, so the clock needs no bound. A call ends within MaxStall
ticks (storeTimeout and the Valkey client's timeout) and RenewEvery + MaxStall <= LeaseTTL,
as the constants of relay.go give it. A failing call may have had its effect. The stream is
kept as first appearances, because consumers deduplicate by envelope id. Retry counters,
the audit stream, MAXLEN trimming and the number of days before a purge are left out.

*Work items.* One item; a mutation is one action because the advisory lock of the item
spans it; the claim scan and the sweeper's listing and question are steps of their own. A
refusal and a replay under a recorded key are stuttering steps. A run that is attached
becomes visible at its engine within MinAge or never starts, which is what orphanMinAge
assumes. Page sizes and candidate budgets are left out, and so is creation with its
external_key. A submit draws a fresh name for its Workflow; a create takes effect before its
error is returned or never, so a lookup that finds nothing is conclusive (the code makes the
same assumption). Only Temporal executions are ever swept (`Candidate`). Their engine_ref
comes in three forms, as parseTemporalRef tells them apart: it names a run, a workflow (the
engine answers for its latest run), or nothing that can be asked for. The sweep closes only
what the answer proves over; it leaves an execution open when its ref cannot be parsed
(execution_orphan_reconciler.go:82), when the status is not one of orphanRunClosed, as
ContinuedAsNew (:94), and when the ref names a workflow whose latest run started after the
execution (:98, `late`). A request queued behind an execution left open in this way, or
behind that of a Workflow whose final report is lost, waits until somebody acts:
`Unprovable` is the exception that QueuedIsClaimed names. The retention after which Temporal
forgets a closed or continued run is left out.

*Approvals.* One approval, gate mode enforce, principal authorisation. A handler is a call
with a program counter; `ok`, `spent` and `by` are ghosts. Times that the code reads before
a statement runs are any time between the call's last step and now. Calls that name another
target, artifact or intent are refused and change nothing. A tool call that reports a
failure gets its receipt back whatever it did before it failed: the gate does so by design
(mcp/agent_receipt_gate.go:55-57), the effects stay, and `uses` therefore counts the calls
that succeeded, that ended in doubt, or that were marked executed. OneUse says that there is
at most one of those, and nothing of the effects of calls that reported a failure. The
decider's authority is asked of the resolver of the call's own process: an answer comes from
its cache for CacheTTL, a lookup is a question to the store and an answer kept unless a
Forget ran in between. `Disable` is the write to the principal store and `Forget` what the
replica that served it does next, so a replica that never hears of it is one on which Forget
does not run; SpendNeedsLiveDecider says how long its cache may still license a spend. The
policy is fixed while the process runs.

*Commerce.* One tenant, payer, capability, currency and funds mode. A transaction of the
ledger has a Begin step (its locks, reads and refusals), a step for each call to the rail,
and a commit; a crash between them rolls the transaction back and leaves the rail as it is.
The rail is an adapter outside the database: an operation takes effect or not, and its
answer is given or lost. The simulated adapter in the repository commits with the ledger
and is the special case without losses. A denied authorization commits its refusal with an
allocation that is released and no reservation (budget.go:865, 888-894; `ReturnUnit`).
`Transition` is driven with the edges that
`TransitionCommerceInvocation` leaves open to callers; the charge and outcome facts a caller
may name are left out, and so are replays under an idempotency key, approvals bound to an
acceptance, signatures and receipts. Acceptance is one step: it holds the quote's row.

*Customer deletion.* One workspace name and every customer's manifest for it. Each call to
the database, the portal, the identity provider or the session stores is a step; `Fail`
ends a call after any of them. `LoseLock` takes the session of the run lock away while its
call goes on (MaxLost bounds how often); FreezeFollowsManifest is claimed only as long as
that has not happened, everything else always. A call to the portal or the identity
provider does not take effect after its call has ended. Identities are abstracted to
whether they are those that were approved, changed by a link or a merge, or revoked. The
guard of create-tenant and the claim that follows it are one step. GitOps workflows run in
the order of submission, under the shared mutex, so the removal of a workspace waits for a
creation that was admitted before, and one customer has one delete-tenant workflow at a
time. Left out: workspaces nobody claimed (the pilot cohort, administrators), GitHub ids
that two principals share, the resolver cache, surface links, the mail of a sign-up
decision, and the three seconds in which ResolveCustomer provisions a principal after it
read that there is no tombstone.

*Human input.* One workflow and the requests it makes in order. Each ledger statement, query
and signal of a call is a step; a call that loses a statement's answer, its client or its
process is `Abandon`. An answer is a respondent with a value, so SameSubmission is equality.
The workflow is external: it queues signals, takes the first valid one for the request it
waits on, counts what it took and what it refused, and answers queries until its retention
ends. The replicas of the API and the workflow are taken to read one clock: a deadline that
has passed for one has passed for all. `Refusable` answers pass the checks here and are refused there. A poll that decides
nothing may be repeated or be the last. NoteAttempt, surfaces and the audit trail are left
out.

## 3. Runs

Every number below is TLC's, over the complete state graph of the bounded instance.

| Run | Question | Distinct states |
|---|---|---|
| `lifecycle_lockless` | Do the WHERE clauses alone, without the advisory lock, keep the token exclusive, displacement licensed, finished rows absorbing, the trail and the correlation true, the answers of lost races honest and the divergence classes exact? | 716,049 |
| `refresh_store` | Rotations, replays, revocations, downgrades, GC and crashes on one family | 962,695 |
| `refresh_family` | Is RevokeFamily final? (no: finding) | stops at the violation |
| `event_lease` | Two replicas: lease safety, order, and no lost notification | 1,242,706 |
| `event_delivery` | Refinement of EventDelivery with its liveness; crash, dead holder, purge | 144,004 |
| `work_claims` | Two dispatchers racing on requests, resumes from several sides | 503,486 |
| `work_queue` | Liveness of the queue and the sweeper that provides it; retries under a key; a submit whose answer is lost | 659,087 |
| `approvals` | One approval under races, expiry, failing tools, crashes, and authority that ends behind a cache | 2,207,257 |
| `commerce` | Two invocations, two gateways, a reconciler and a rail that loses answers share one budget and one package over a month's end | 875,438 |
| `commerce_reconciler` | Does the passing of time leave dispatched work alone? (no: finding) | stops at the violation |
| `customers` | Deletion, cancellation, sign-up and identity changes of two customers on one name | 1,968,792 |
| `human_input` | Two submissions, lost, repeated and refused signals, expiry and an ending workflow over two requests | 2,502,934 |

`PROJECT.json` names the properties of each run; each is stated with a comment in its
module, and each has a mutant that violates it.

**Why the bounds are enough to be interesting.** The races in this code are between two
parties on one row, sometimes with a third write in between; the runs have two calls in
flight, each of which can be restarted any number of times, so a
stalled call meets arbitrarily many completed ones. Lifecycle has two epochs, so a whole
release/acquire cycle fits under a stalled call, and bounds of zero ticks, so one tick takes
an owner from alive to dead. Refresh has a chain
of three tokens, so a replay can meet a successor that was itself rotated, and two
attempts. Events has two rows, a batch that holds both and one that holds only one. Work
items has two requests with up to two claims each, three versions, two runs; the queue run
has a run of each engine, so a submit and a sweep meet, and its one run of Temporal is
named by each form of ref, with and without a younger run. Commerce has two invocations whose
prices together exceed the limit, one prepaid unit for both, and a clock that passes the
hold's deadline and the month's end while a transaction is open. Customers has an owner and
another customer who waits for the name, two calls at once and one lost lock session.
Human input has two
answers, one of them refused, two requests, so that the counter of the workflow rises for
the other one, and two signals, so that an answer is delivered twice. Approvals has
lifetimes of up to three ticks, a freshness of three, an age and a cache lifetime of two and
three ticks, so each bound can lapse before and after each of the others. Its two calls
share a replica, the one on which Forget may run at once, late or never; the theorems
hold for any number of replicas.

All configurations say CHECK_DEADLOCK FALSE: the bounds on clocks, epochs, tokens, rows and
versions stop every instance in the end, and a finished item or a used approval is meant to
stay so.

**Fairness.** Lifecycle, refresh, approvals, commerce, customers and human input are checked for
safety only: their calls come from clients and workflows nothing obliges to call. For events: time passes, timers fire, a wake-up is
received, a call in progress ends one way or the other (weak fairness), and a call that is
tried again and again succeeds in the end (strong fairness), which is what the relay's
endless retries rely on; a crashed process does not come back under its name. The liveness
instance has one replica and the lease left behind by a dead one. For work items: the clock
advances, dispatchers poll, the sweeper's ticker fires, its question to the engine ends (it
has a deadline of a minute, cmd/api/main.go:1027) and, if the run is over and can be shown to
be, is answered so now and then (strong), runs end, and only finitely many reports arrive late.
Nothing obliges a run to report, a client to call or a dispatcher to fulfil.

## 4. Findings

* `refresh_family` (code): RevokeFamily is a single READ COMMITTED UPDATE. When a rotation
  of the tip commits between its snapshot and its row lock, it revokes the spent
  predecessor and misses the successor. RevokePrincipal is written to avoid exactly this.
* `commerce_reconciler` (docs against code): the reconciler lists reserved rows past their
  deadline without a lock and releases them one by one, and Release also takes a row that is
  dispatching. A Dispatch whose transaction began before the deadline and commits after the
  listing is voided and released by time, while docs/commerce-ledger.md says time never
  moves such rows.

Met while modelling, and not runs of their own:

* Outbox ids are assigned before commit, so the stream is not in id order (NoOvertaking
  states the order that does hold). GC also deletes expired refresh rows that were never
  revoked. AttachExecution lets a late report move a phase from Running back to Pending. A
  liveness refresh without the lock can put back an older last_seen_at, which the code
  documents as a known gap (mctl-api#343).
* A retarget of a handoff restarts handoff_started_at while last_seen_at stays frozen at the
  first announcement (internal/lifecycle/store.go:686 and the comment at 690); Recover and
  FenceDeadClaim look at last_seen_at only.
* With an external rail, a void whose answer was lost leaves its row reserved with payment
  authorized, so it can still be dispatched over the voided authorization; and a crash
  between Authorize and the commit, followed by a refusal, leaves an authorization that no
  row names, although docs/commerce-ledger.md:278 says that no answer at all leaves the hold
  in place.
* A delete-tenant workflow that was queued before a cancellation can begin under a later
  manifest of the same customer whose FreezePortal failed: docs/principals.md:971 says a
  cancellation makes a queued begin refuse, which holds until the customer is prepared again.
* internal/humaninput/ledger.go says that accepted means "the workflow resumed on this
  response". The counter it is inferred from does not name the response. When a competing
  call delivers answer A, the workflow takes it and ends before the call that signals A
  hears of it, A is closed as rejected, and answer B, claimed again with the baseline it had
  read before, is recorded as accepted; a refusal counted for a duplicate of A does the same.
  AcceptedIsTrue and RejectedIsTrue name these two exceptions (an ended workflow, a refusal)
  and hold otherwise; what always holds is that the workflow resumed on that request.
* An execution whose run is over and cannot be shown to be is closed by nobody, and requests
  queued behind it wait: that of a submitted Workflow whose state could not be observed, and
  of Temporal one whose ref cannot be parsed, whose run was continued as new, or whose ref
  names a workflow that has started a later run.
* internal/mcp/agent_receipt_gate.go:57-58 says that a tool call that times out spends its
  receipt. The loopback client has a timeout of its own, 30 s (internal/mcp/server.go:92):
  a REST write that was applied but answered too late reaches the gate as a reported failure
  with a live context, so the receipt is handed back and the write can be made again.
* A decider who is disabled on one replica still licenses a spend on another for as long as
  the cached answer lives there: Forget reaches one process, and the comment at
  internal/principals/resolver.go:290 relies on mctl-api running as one.

## 5. Proofs

Every component module has a proof module. All proofs hold for every value of the constants
that satisfies the one assumption its module names (`OwnershipAssumption` and
`StoreAssumption`, `RefreshAssumption`, `RelayAssumption`, `WorkItemsAssumption`,
`ApprovalsAssumption`, `CommerceAssumption`, `DeletionAssumption`, `HumanInputAssumption`).
These say that distinguished values lie outside their sets and that bounds and durations
are naturals, and in three places a little more. RelayAssumption relates the timing of the
relay: a lease outlives the renewal interval and the longest call, and two of the longest
calls, as relay.go chooses its constants. WorkItemsAssumption keeps the runs of Temporal and
the submitted Workflows apart. CommerceAssumption has finitely many invocations and free
offers that cost nothing. No set of actors, keys or values is assumed to be finite
otherwise.

Every safety property that a passing run checks, invariant, action property or step
refinement, is a theorem. In each module `IInv` is the inductive invariant; the properties
themselves are seldom inductive, and what is added is what the actors that work outside a
lock still know when they act. Every `IInv` was checked by TLC before it was proved. A
proof module has one lemma per action or group of actions, one step per conjunct the action
can disturb, and ends in the theorems.

**LifecycleStoreProofs** (1468 obligations). `IInv` is TypeOK, CallsConsistent and RowInv.
None of the properties is inductive alone: a write is safe because of what its call read and
what its WHERE clause still compares, so CallsConsistent says of each call in flight what
its read, its request and its time satisfy, and RowInv ties row, trail and held tokens
together. Theorems: TypeCorrect, RowShapeHolds, Exclusivity, CorrelationHolds, TrailHolds,
DangerousClass, and the action properties Displacement, Absorbing and VersionKept (no step of a stalled
call takes an entity version back), with and without the advisory lock. AnswersAreHonest
(what a call that missed is told) adds KnowsItsRead: the row a call re-reads has come after
the one it read (`Later`: an epoch only grows, and within one the owner stays
and a row that has left active does not return to it), so the epoch it finds settles whether a retry would be admitted.

What is claimed of the clocks needs the lock: a
stalled re-announcement would otherwise put back an older handoff_started_at under a newer
last_seen_at. `LInv` says what the lock gives (a call in flight is alone, what it read is
still the row, a retry was admitted on a stalled handoff) and that last_seen_at is in the
past and, while handing off, no later than handoff_started_at; it is inductive together with
`IInv`. `ClockStep` is what any write may do to the clocks. Theorems, for a store with its
lock: Recoverable (StalledIsRecoverable always holds) and ClocksFrozen (HandoffClocks).

**RefreshStoreProofs** (576 obligations). `IInv` orders the family. No token comes after one
that is not spent (Chained), neither in the table nor in a snapshot a transaction still works
on (SnapshotsOld): hence at most one tip, AtMostOneTip. SnapshotsCover is the heart of
RevokedForGood: a snapshot whose unrevoked rows are unchanged has missed no token, because
a token appears only when one the snapshot saw is spent; so a REPEATABLE READ update of
those rows either meets a changed row and fails, or revokes all there are.

**EventRelayProofs** (1729 obligations). Three arguments share `IInv`. HoldsLease bounds how
old the lease of a relay is at each of its calls, so that the longest call of a relay that
checked it ends before the lease does (OneRelayPublishes). Knows says for each row whose
handler notified a relay who is going to find it: the token of the channel, the pass that
reads or has read it, or the short retry (NoWakeIsLost). RowsInOrder, PublishedIsAppended and
InOrder say what a batch owes to the rows accepted before its own: they are in the stream, or
earlier in the batch. From the last, OutboxImplementsDelivery proves that EventRelay implements
the safety of EventDelivery, step by step: Commit is Accept, the first XADD of a row is
Deliver, and everything else stutters. TypeCorrect is not immediate: the stream stays within
its bound only because no row has two first appearances in it.

**WorkItemsProofs** (1539 obligations). The invariants of the runs count (Cardinality);
`IInv` states them as uniqueness, any two are the same one, and one lemma each turns that
back into a count. ClaimsOwned: a token that is still current belongs to the dispatcher that
holds it (FulfilledByItsHolder). SweepsInformed: an execution under a sweep is so old that
its run cannot start any more, and a run whose execution was found dead is over (neither
running nor continued) and stays so; SubmitsAlone: one submit at
most may still create a Workflow, and knows whether it has; together they give ClosedStaysDead.
FulfilledOnce and KeysOnce are one-to-one correspondences (KeyCreatesOnce, NeverTwoOpen,
ResumedAtMostOnce). Action properties: FinishedStaysFinished and ClaimTakesFromNobody. The
theorems are about SafeSpec, which Spec implies: no safety rests on fairness.

**ActionApprovalsProofs** (1222 obligations). `IInv` adds to the invariants of the run what
carries them across steps: UsesAccounted (a use is possible only from the reservation on,
and a call that may give the receipt back has not been counted), SpendDated (consumed_at is
the time of the one spend) and DecisionGuarded (a decision under way that could still be
written has passed the context guard: pending requests do not become pending again). `AInv`
is inductive next to it and says how old an answer about a disabled decider can be:
DeciderKnown (who decided was a principal at the time), CacheSound (no cache holds an answer
younger than the end of the authority it vouches for) and SpendChecked (a spend under way
was asked for before the decider's authority had been gone for CacheTTL). One lemma per
group of actions shows each conjunct preserved. Theorems: Invariance, TypeCorrect,
ReceiptIsUsedOnce, SettleIsOwn, ReceiptAges, ApprovalIsInformed, and the action properties
FirstDecisionStands and SpendIsAuthorised.

**CommerceProofs** (3460 obligations). `IInv` has four parts. Transactions: the plan of an
open transaction fits the phase of the row it has locked and what the rail answered to it,
no two have the same row, and the budget is in one at a time. Rows: which hold and which unit
go with each phase (HoldsFollow), and what the rail has done by then (LedgerAgreesWithRail).
Stock: units are conserved, and a unit that a reservation is about to take is there
(UnitsNeverLost). Money: BudgetHolds itself, and Covers: what an admitted reservation will
hold fits in what is left, although terms, limits and the month change before it commits.
The sums are folds over sets of invocations. A fold chooses an order, so a lemma first shows
that it adds up in any order; the library's induction is beyond the provers, and the lemmas
about sums argue by a least counterexample instead (a smallest set for which the equation
fails). What a clock tick, a hold, a settlement and a raised limit do to the sums is a lemma each.
Action property: FinishedStaysFinished.

**CustomerDeletionProofs** (1243 obligations). The claimed reservation of the name is unique;
whoever owns the workspace, or will when an admitted workflow runs, holds it (ClaimedOnce);
and only the transaction that completes a deletion gives it up. So NameIsHeld and ApprovedOnly
hold even when sessions of the run lock are lost. CompleteIsComplete needs CallKnows, what
each call of the teardown knows is gone at each of its steps: that is monotone, so it survives
another call at the same stage. Only FreezeIsReleased needs the lock: LockProtects says that
until a session was lost every call but a late release holds it. Action property:
DeletionOnlyGoesForward.

**HumanInputProofs** (1148 obligations). The ledger sees a counter and never the choice
of the workflow. `Exact` says that a recorded baseline is what the counter was before the
request, as long as the workflow reports that request; RowGood, CallGood, SignalGood
and TellGood say of each place that holds an answer (row, call, signal, submitter) that while
the workflow runs and has refused nothing it is the recorded one, if it can still be taken.
Theorems: AcceptedWasUsed, RejectedWasNotUsed, NoAnswerIsLost.

**Only model-checked:** liveness, which is beyond the prover (Delivery, whose safety part is
OutboxImplementsDelivery, and QueuedIsClaimed), and the two properties that the code does
not have (FamilyRevocationIsFinal, ReconcilerSparesDispatched), which TLC refutes. The type
invariants are proved and are not among the properties of the runs.

## 6. Hazards

`PROJECT.json` lists what is hard to test, at the line where it bites, with the properties
that would catch it. Three have a note instead: one of a component that is not modelled, one
whose properties are proved and not run, and one that is the gate's own design, a reported
failure that hands the receipt of an applied write back.

## 7. Running

    tlc -workers 2 -config Approvals.cfg MCApprovals
    tlapm ActionApprovalsProofs.tla

## 8. Plan

1. The safety that the runs check is proved; what is left there is to share lemmas between
   actions where two proofs argue alike, and to carry the next actions of the components
   that are modelled in part (work-items, commerce-ledger, signup, principals) through the
   invariants that exist.
2. Agent run tokens beside WorkItems and CustomerDeletion: a token resolves only while its
   execution is open and its issuer exists.
3. `AgentRegistry`, `DecisionAttempts`, `SurfaceIdentity`: rollback
   against its own audit trail, attempts, one-use codes.
