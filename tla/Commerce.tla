------------------------------ MODULE Commerce ------------------------------
(***************************************************************************)
(* The commerce ledger of one tenant, one payer account and one capability *)
(* (internal/commerce): terms and quotes, invocations and their phases,    *)
(* the monthly budget with its reservations, prepaid entitlement units,    *)
(* the dispatch fence, the reconciler, and the payment rail behind the     *)
(* PaymentAuthorizer interface.                                            *)
(*                                                                         *)
(* Reserve, Finalize and Release run under the advisory lock of the        *)
(* tenant's budget, Dispatch and Transition under that of the invocation,  *)
(* and all of them hold the invocation's row.  A call is one transaction:  *)
(* it begins (locks, reads the clock, decides), talks to the rail and      *)
(* commits.  What the rail did stays done when the transaction does not    *)
(* commit, and every answer of the rail may be unknown.  Calls that only   *)
(* replay what is stored change nothing and are left out.                  *)
(***************************************************************************)
EXTENDS Integers, Sequences, FiniteSets, FiniteSetsExt

CONSTANTS
    Invocations,   \* idempotency keys of one principal, each an invocation
    Quotes,
    Packages,      \* entitlement packages
    Gateways,      \* callers of the store, on any replica
    Reconciler,    \* the caller that runs ExpireStale
    Offers,        \* the price modes and prices terms may carry
    Limits,        \* the limits SetBudget may set: monthly and per request
    Units,         \* the sizes a package may have
    NamedPayments, \* payment facts a caller of Transition may name
    NoPackage,
    NoInvocation,
    QuoteTTL,
    Window,        \* DefaultReservationWindow
    Month,         \* length of a budget period
    MaxTerms,      \* bound on the versions of the terms
    MaxTime        \* bound on the clock

Modes == {"free", "per_call", "per_successful_call"}
Outcomes == {"succeeded", "failed"}
Payments == {"none", "not_required", "authorized", "denied", "captured",
             "voided", "unknown"}

ASSUME CommerceAssumption ==
    /\ IsFiniteSet(Invocations)
    /\ NoInvocation \notin Invocations
    /\ NoPackage \notin Packages
    /\ Reconciler \notin Gateways
    /\ Offers \subseteq [mode : Modes, price : Nat]
    /\ \A o \in Offers : o.mode = "free" => o.price = 0
    /\ Limits \subseteq [month : Nat, request : Nat]
    /\ Units \subseteq Nat \ {0}
    /\ NamedPayments \subseteq Payments \union {""}
    /\ QuoteTTL \in Nat \ {0}
    /\ Window \in Nat \ {0}
    /\ Month \in Nat \ {0}
    /\ MaxTerms \in Nat
    /\ MaxTime \in Nat

VARIABLES
    now,
    terms,    \* the versions of commerce_terms, oldest first
    quote,    \* commerce_quotes
    inv,      \* commerce_invocations
    rsv,      \* commerce_reservations, at most one per invocation
    alloc,    \* commerce_entitlement_allocations, at most one per invocation
    ent,      \* commerce_entitlements
    budget,   \* commerce_budgets
    raised,   \* the highest monthly limit in commerce_budget_changes
    rail,     \* what the payment rail has recorded for the invocation's keys
    call,     \* the transaction each caller is in
    sweep     \* the pass of ExpireStale in progress

ledger == <<inv, rsv, alloc, ent>>
prices == <<terms, quote, budget, raised>>
vars == <<now, ledger, prices, rail, call, sweep>>

-----------------------------------------------------------------------------
(* Records *)

None == -1    \* a time that is not set
Times == Nat \union {None}

Quote == [version : Nat, mode : Modes, price : Nat, expires : Times]

\* NoRow: the key has not been used.  Terminal phases are IsTerminal.
Holding == {"reserved", "dispatching", "dispatched", "outcome_unknown"}
Terminal == {"refused", "released", "finalized"}
Phases == {"none", "accepted"} \union Holding \union Terminal
Row == [phase : Phases, quote : SUBSET Quotes, mode : Modes, price : Nat,
        expires : Times, charge : {"none", "reserved", "captured", "released"},
        payment : Payments, outcome : {"not_dispatched", "unknown"} \union Outcomes,
        deadline : Times, fence : Times]
NoRow == [phase |-> "none", quote |-> {}, mode |-> "free", price |-> 0,
          expires |-> None, charge |-> "none", payment |-> "none",
          outcome |-> "not_dispatched", deadline |-> None, fence |-> None]

\* known: authorization_id is recorded.
Reservation == [status : {"none", "held", "captured", "released"},
                amount : Nat, period : Nat, known : BOOLEAN]
NoReservation == [status |-> "none", amount |-> 0, period |-> 0, known |-> FALSE]

Allocation == [package : Packages \union {NoPackage},
               state : {"none", "held", "captured", "released"}]
NoAllocation == [package |-> NoPackage, state |-> "none"]

Package == [status : {"none", "active", "retired"}, total : Nat, remaining : Int,
            reserved : Int, expires : Times]
NoEntitlement == [status |-> "none", total |-> 0, remaining |-> 0, reserved |-> 0,
                  expires |-> None]

Rail == [auth : {"none", "authorized", "denied"},
         settled : {"none", "captured", "voided"}]

\* plan: what the transaction will write, once it no longer depends on the
\* rail.  want: the settlement it asks the rail for.
Plans == {"none", "refuse", "authorize", "hold", "hold_unknown", "resolve",
          "record", "settle", "capture", "release", "deny", "dispatch"}
Call == [op : {"idle", "reserve", "finalize", "release", "dispatch"},
         inv : Invocations \union {NoInvocation}, at : Nat, plan : Plans,
         package : Packages \union {NoPackage},
         outcome : {"not_dispatched"} \union Outcomes,
         want : {"none", "captured", "voided"}]
Idle == [op |-> "idle", inv |-> NoInvocation, at |-> 0, plan |-> "none",
         package |-> NoPackage, outcome |-> "not_dispatched", want |-> "none"]

Callers == Gateways \union {Reconciler}

Init ==
    /\ now = 0
    /\ terms = <<>>
    /\ quote = [q \in Quotes |-> [version |-> 0, mode |-> "free", price |-> 0, expires |-> None]]
    /\ inv = [i \in Invocations |-> NoRow]
    /\ rsv = [i \in Invocations |-> NoReservation]
    /\ alloc = [i \in Invocations |-> NoAllocation]
    /\ ent = [p \in Packages |-> NoEntitlement]
    /\ budget = {}
    /\ raised = 0
    /\ rail = [i \in Invocations |-> [auth |-> "none", settled |-> "none"]]
    /\ call = [c \in Callers |-> Idle]
    /\ sweep = [step |-> "idle", at |-> 0, todo |-> {}]

-----------------------------------------------------------------------------
(* Locks *)

LockKeyPerInvocation(op, i) == {i}

\* Two calls whose keys are equal wait for each other: the budget of the
\* tenant for the calls that move a hold, the invocation for the others.
LockKey(op, i) == IF op = "dispatch" THEN {i} ELSE {"budget"}

RowFree(i) == \A c \in Callers : call[c].inv # i
LockFree(op, i) ==
    \A c \in Callers : call[c] # Idle => LockKey(call[c].op, call[c].inv) # LockKey(op, i)

MayBegin(c, op, i) == call[c] = Idle /\ RowFree(i) /\ LockFree(op, i)

\* Reserve and Dispatch also keep the clock they read.
Opened(op, i) == [Idle EXCEPT !.op = op, !.inv = i]
Ends(c) == call' = [call EXCEPT ![c] = Idle]

-----------------------------------------------------------------------------
(* Terms, quotes and acceptance *)

PublishTerms ==
    /\ Len(terms) < MaxTerms
    /\ \E o \in Offers : terms' = Append(terms, [offer |-> o, retired |-> FALSE])
    /\ UNCHANGED <<now, quote, budget, raised, ledger, rail, call, sweep>>

RetireTerms ==
    /\ \E v \in DOMAIN terms :
          ~terms[v].retired /\ terms' = [terms EXCEPT ![v].retired = TRUE]
    /\ UNCHANGED <<now, quote, budget, raised, ledger, rail, call, sweep>>

\* The latest version that is not retired, 0 when there is none.
CurrentTerms == Max({0} \union {v \in DOMAIN terms : ~terms[v].retired})

MintQuote ==
    /\ CurrentTerms # 0
    /\ \E q \in Quotes :
          /\ quote[q].version = 0
          /\ quote' = [quote EXCEPT ![q] =
                          [version |-> CurrentTerms, mode |-> terms[CurrentTerms].offer.mode,
                           price |-> terms[CurrentTerms].offer.price, expires |-> now + QuoteTTL]]
    /\ UNCHANGED <<now, terms, budget, raised, ledger, rail, call, sweep>>

\* A quote is accepted before it expires, while the terms it was minted from
\* are current, and by one invocation.
Acceptable(q) ==
    /\ quote[q].version # 0
    /\ now < quote[q].expires
    /\ quote[q].version = CurrentTerms
    /\ \A j \in Invocations : q \notin inv[j].quote

AcceptInvocation ==
    /\ \E i \in Invocations, q \in Quotes :
          /\ inv[i] = NoRow
          /\ Acceptable(q)
          /\ inv' = [inv EXCEPT ![i] = [NoRow EXCEPT !.phase = "accepted", !.quote = {q},
                        !.mode = quote[q].mode, !.price = quote[q].price,
                        !.expires = quote[q].expires,
                        !.payment = IF quote[q].mode = "free" THEN "not_required" ELSE "none"]]
    /\ UNCHANGED <<now, prices, rsv, alloc, ent, rail, call, sweep>>

-----------------------------------------------------------------------------
(* Budget and entitlement units *)

PeriodOf(t) == t \div Month
Amount(S) == MapThenSumSet(LAMBDA i : rsv[i].amount, S)
HeldRows == {i \in Invocations : rsv[i].status = "held"}
CapturedIn(p) == {i \in Invocations : rsv[i].status = "captured" /\ rsv[i].period = p}

\* Holds count whatever period they were made in; captures in theirs only.
Available(b) == b.month - Amount(CapturedIn(PeriodOf(now))) - Amount(HeldRows)

Admits(price) ==
    \E b \in budget : price <= b.request /\ price <= Max({Available(b), 0})

SetBudget ==
    /\ LockFree("reserve", NoInvocation)
    /\ \E b \in Limits :
          /\ budget' = {b}
          /\ raised' = Max({raised, b.month})
    /\ UNCHANGED <<now, terms, quote, ledger, rail, call, sweep>>

GrantEntitlement ==
    /\ CurrentTerms # 0
    /\ \E p \in Packages, n \in Units, t \in now + 1 .. MaxTime :
          /\ ent[p].status = "none"
          /\ ent' = [ent EXCEPT ![p] = [status |-> "active", total |-> n, remaining |-> n,
                                        reserved |-> 0, expires |-> t]]
    /\ UNCHANGED <<now, prices, inv, rsv, alloc, rail, call, sweep>>

\* A reservation that took a unit of the package holds its row.
RetireEntitlement ==
    /\ \E p \in Packages :
          /\ ent[p].status = "active"
          /\ \A c \in Callers : call[c].package # p
          /\ ent' = [ent EXCEPT ![p].status = "retired"]
    /\ UNCHANGED <<now, prices, inv, rsv, alloc, rail, call, sweep>>

Active == {p \in Packages : ent[p].status = "active"}
WithUnits == {p \in Active : ent[p].remaining > 0 /\ ent[p].expires > now}
\* The packages a reservation may take its unit from: those that expire first.
Drawn == {p \in WithUnits : \A o \in WithUnits : ent[p].expires <= ent[o].expires}
\* No package of the tenant is active: the budget alone decides.
Unmetered == Active = {}

HoldUnit(i, p) ==
    IF p = NoPackage THEN UNCHANGED <<alloc, ent>>
    ELSE /\ alloc' = [alloc EXCEPT ![i] = [package |-> p, state |-> "held"]]
         /\ ent' = [ent EXCEPT ![p].remaining = @ - 1, ![p].reserved = @ + 1]

\* Mutant: the unit a denied reservation took is not given back.
ReturnUnitKept(i, p) == HoldUnit(i, p)

\* The reservation takes the unit and gives it back: the allocation remains.
ReturnUnit(i, p) ==
    /\ alloc' = IF p = NoPackage THEN alloc
                ELSE [alloc EXCEPT ![i] = [package |-> p, state |-> "released"]]
    /\ UNCHANGED ent

\* Mutant: a released unit does not return.
SettleUnitKept(i, state) ==
    IF alloc[i].state # "held" THEN UNCHANGED <<alloc, ent>>
    ELSE /\ alloc' = [alloc EXCEPT ![i].state = state]
         /\ ent' = [ent EXCEPT ![alloc[i].package].reserved = @ - 1]

\* A unit that is captured leaves the package, one that is released returns.
SettleUnit(i, state) ==
    IF alloc[i].state # "held" THEN UNCHANGED <<alloc, ent>>
    ELSE /\ alloc' = [alloc EXCEPT ![i].state = state]
         /\ ent' = [ent EXCEPT ![alloc[i].package].reserved = @ - 1,
                               ![alloc[i].package].remaining =
                                   IF state = "released" THEN @ + 1 ELSE @]

-----------------------------------------------------------------------------
(* Phases *)

\* The combinations of facts a phase may be stored with.
FactsAgree(phase, charge, payment) ==
    /\ phase = "refused" => charge = "none" /\ payment # "captured"
    /\ phase = "released" => charge # "captured" /\ payment # "captured"
    /\ phase = "finalized" =>
          /\ ~(charge = "captured" /\ payment \in {"denied", "voided"})
          /\ ~(charge = "released" /\ payment = "captured")

\* The row after a transition; a payment of "" keeps the fact it has.
Moved(row, to, charge, payment, outcome) ==
    [row EXCEPT !.phase = to, !.charge = charge,
                !.payment = IF payment = "" THEN @ ELSE payment,
                !.outcome = outcome]

Applies(i, row) ==
    /\ FactsAgree(row.phase, row.charge, row.payment)
    /\ inv' = [inv EXCEPT ![i] = row]

\* The edges of allowedTransitions that ownedEdges leaves to the generic
\* endpoint.  The caller may name a payment fact.
OpenEdges == {<<"accepted", "refused">>, <<"dispatching", "dispatched">>,
              <<"dispatching", "outcome_unknown">>, <<"dispatched", "outcome_unknown">>}

Transition ==
    /\ \E i \in Invocations, edge \in OpenEdges, payment \in NamedPayments :
          /\ RowFree(i)
          /\ inv[i].phase = edge[1]
          /\ Applies(i, Moved(inv[i], edge[2], inv[i].charge, payment,
                              IF edge[2] = "outcome_unknown" THEN "unknown" ELSE inv[i].outcome))
    /\ UNCHANGED <<now, prices, rsv, alloc, ent, rail, call, sweep>>

-----------------------------------------------------------------------------
(* The calls that begin a transaction *)

Unchanging == UNCHANGED <<now, prices, ledger, rail>>

\* The two ways a reservation goes: refused by the quote, the budget or the
\* packages, or on to the rail, with the unit it takes.
Refused(i) ==
    \/ now >= inv[i].expires
    \/ ~Admits(inv[i].price)
    \/ ~Unmetered /\ WithUnits = {}

BeginReserve(c, i) ==
    /\ MayBegin(c, "reserve", i)
    /\ inv[i].phase = "accepted"
    /\ \E p \in IF Refused(i) \/ Unmetered THEN {NoPackage} ELSE Drawn :
          call' = [call EXCEPT ![c] = [Opened("reserve", i) EXCEPT !.at = now, !.package = p,
                      !.plan = IF Refused(i) THEN "refuse"
                               ELSE IF inv[i].mode = "free" THEN "hold" ELSE "authorize"]]
    /\ UNCHANGED sweep /\ Unchanging

\* Reserve retried on a hold whose authorization is unknown.
BeginResolve(c, i) ==
    /\ MayBegin(c, "reserve", i)
    /\ inv[i].phase = "reserved" /\ inv[i].payment = "unknown" /\ rsv[i].status = "held"
    /\ call' = [call EXCEPT ![c] = [Opened("reserve", i) EXCEPT !.plan = "resolve"]]
    /\ UNCHANGED sweep /\ Unchanging

BeginFinalize(c, i, outcome) ==
    /\ MayBegin(c, "finalize", i)
    /\ inv[i].phase \in {"dispatched", "outcome_unknown"} /\ rsv[i].status = "held"
    /\ call' = [call EXCEPT ![c] = [Opened("finalize", i) EXCEPT !.outcome = outcome,
                  !.plan = IF inv[i].mode = "free" THEN "capture" ELSE "settle",
                  !.want = IF inv[i].mode = "per_call" \/ outcome = "succeeded"
                           THEN "captured" ELSE "voided"]]
    /\ UNCHANGED sweep /\ Unchanging

ReleasableOnceHeld(i) == rsv[i].status # "none"

Releasable(i) == inv[i].phase \in {"reserved", "dispatching"} /\ rsv[i].status = "held"

OpensRelease(c, i) ==
    /\ MayBegin(c, "release", i)
    /\ Releasable(i)
    /\ call' = [call EXCEPT ![c] = [Opened("release", i) EXCEPT !.want = "voided",
                  !.plan = IF inv[i].mode = "free" THEN "release" ELSE "settle"]]

BeginRelease(c, i) == OpensRelease(c, i) /\ UNCHANGED sweep /\ Unchanging

\* A hold is dispatched before its deadline, once, and never while its
\* authorization is unknown.
Dispatchable(i) ==
    /\ inv[i].phase = "reserved"
    /\ inv[i].payment # "unknown"
    /\ now < inv[i].deadline
    /\ inv[i].fence = None

BeginDispatch(c, i) ==
    /\ MayBegin(c, "dispatch", i)
    /\ Dispatchable(i)
    /\ call' = [call EXCEPT ![c] = [Opened("dispatch", i) EXCEPT !.at = now, !.plan = "dispatch"]]
    /\ UNCHANGED sweep /\ Unchanging

-----------------------------------------------------------------------------
(* The rail.  An operation is idempotent on its key; its answer and the     *)
(* answer to a status lookup may be unknown whatever the rail has recorded. *)

Replans(c, plan) == call' = [call EXCEPT ![c].plan = plan]

Authorize(c) ==
    /\ call[c].plan = "authorize"
    /\ LET i == call[c].inv
           Recorded == IF rail[i].auth = "none" THEN {"authorized", "denied"} ELSE {rail[i].auth}
       IN \E a \in Recorded :
             \/ /\ rail' = [rail EXCEPT ![i].auth = a]
                /\ Replans(c, IF a = "authorized" THEN "hold" ELSE "refuse")
             \/ /\ rail' \in {rail, [rail EXCEPT ![i].auth = a]}
                /\ Replans(c, "hold_unknown")
    /\ UNCHANGED <<now, prices, ledger, sweep>>

AuthorizationAnswersOrDenied(i) ==
    IF rsv[i].known THEN {"authorized"}
    ELSE {"denied"} \union ({rail[i].auth} \ {"none"})

\* What a status lookup of the authorize key may answer.
AuthorizationAnswers(i) ==
    IF rsv[i].known THEN {"authorized"}
    ELSE {"unknown"} \union ({rail[i].auth} \ {"none"})

ResolveUnknownHold(c) ==
    /\ call[c].plan = "resolve"
    /\ \E a \in AuthorizationAnswers(call[c].inv) :
          CASE a = "authorized" -> Replans(c, "record")
            [] a = "denied" -> Replans(c, "deny")
            [] OTHER -> Ends(c)
    /\ UNCHANGED sweep /\ Unchanging

\* What asking the rail to settle may lead to: what it has recorded then, and
\* whether the ledger got the answer.  A settlement of the other kind fails.
Settlements(i, want) ==
    LET Recorded == IF rail[i].settled = "none" THEN {"none", want} ELSE {rail[i].settled}
    IN [settled : Recorded, sure : {FALSE}] \union
       [settled : Recorded \intersect {want}, sure : {TRUE}]

SettlePayment(c) ==
    /\ call[c].plan = "settle"
    /\ LET i == call[c].inv
       IN \E a \in AuthorizationAnswers(i) :
             \/ a = "unknown" /\ Ends(c) /\ UNCHANGED rail
             \/ a = "denied" /\ Replans(c, "deny") /\ UNCHANGED rail
             \/ /\ a = "authorized"
                /\ \E s \in Settlements(i, call[c].want) :
                      /\ rail' = [rail EXCEPT ![i].settled = s.settled]
                      /\ IF s.sure
                         THEN Replans(c, IF call[c].want = "captured" THEN "capture" ELSE "release")
                         ELSE Ends(c)
    /\ UNCHANGED <<now, prices, ledger, sweep>>

-----------------------------------------------------------------------------
(* Commits *)

\* Refused before a unit was taken, or denied by the rail with one in hand.
CommitRefusal(c) ==
    /\ call[c].plan = "refuse"
    /\ LET i == call[c].inv
       IN /\ Applies(i, Moved(inv[i], "refused", inv[i].charge, "", inv[i].outcome))
          /\ ReturnUnit(i, call[c].package)
    /\ UNCHANGED rsv

CommitHold(c) ==
    /\ call[c].plan \in {"hold", "hold_unknown"}
    /\ LET i == call[c].inv
           payment == IF inv[i].mode = "free" THEN "not_required"
                      ELSE IF call[c].plan = "hold" THEN "authorized" ELSE "unknown"
       IN /\ rsv' = [rsv EXCEPT ![i] = [status |-> "held", amount |-> inv[i].price,
                        period |-> PeriodOf(call[c].at), known |-> payment = "authorized"]]
          /\ HoldUnit(i, call[c].package)
          /\ Applies(i, [Moved(inv[i], "reserved", "reserved", payment, inv[i].outcome)
                            EXCEPT !.deadline = call[c].at + Window])

CommitAuthorization(c) ==
    /\ call[c].plan = "record"
    /\ LET i == call[c].inv
       IN /\ inv' = [inv EXCEPT ![i].payment = "authorized"]
          /\ rsv' = [rsv EXCEPT ![i].known = TRUE]
    /\ UNCHANGED <<alloc, ent>>

\* Finalize ends in finalized whatever it settles; Release, and a hold that
\* resolved denied, end in released.
CommitSettlement(c) ==
    /\ call[c].plan \in {"capture", "release", "deny"}
    /\ LET i == call[c].inv
           how == IF call[c].plan = "capture" THEN "captured" ELSE "released"
           payment == IF call[c].plan = "deny" THEN "denied"
                      ELSE IF inv[i].mode = "free" THEN "" ELSE call[c].want
       IN /\ rsv' = [rsv EXCEPT ![i].status = how,
                                ![i].known = @ \/ (call[c].plan # "deny" /\ inv[i].mode # "free")]
          /\ SettleUnit(i, how)
          /\ Applies(i, Moved(inv[i], IF call[c].op = "finalize" THEN "finalized" ELSE "released",
                              how, payment, call[c].outcome))

CommitDispatch(c) ==
    /\ call[c].plan = "dispatch"
    /\ LET i == call[c].inv
       IN Applies(i, [Moved(inv[i], "dispatching", inv[i].charge, "", inv[i].outcome)
                        EXCEPT !.fence = call[c].at])
    /\ UNCHANGED <<rsv, alloc, ent>>

Commit(c) ==
    /\ \/ CommitRefusal(c) \/ CommitHold(c) \/ CommitAuthorization(c)
       \/ CommitSettlement(c) \/ CommitDispatch(c)
    /\ Ends(c)
    /\ UNCHANGED <<now, prices, rail, sweep>>

Resting == [step |-> "idle", at |-> 0, todo |-> {}]

\* The process or its connection is gone: the transaction is rolled back, and
\* a pass of the reconciler is over.
Crash(c) ==
    /\ call[c] # Idle
    /\ Ends(c)
    /\ sweep' = IF c = Reconciler THEN Resting ELSE sweep
    /\ Unchanging

-----------------------------------------------------------------------------
(* ExpireStale: one pass lists the accepted rows whose quote expired and    *)
(* refuses them, then lists the reserved rows past their deadline and       *)
(* releases them one by one, with the clock it read at its start.           *)

SweepStart ==
    /\ sweep.step = "idle"
    /\ sweep' = [step |-> "accepted", at |-> now,
                 todo |-> {i \in Invocations : inv[i].phase = "accepted" /\ inv[i].expires < now}]
    /\ UNCHANGED call /\ Unchanging

SweepRefuseListed(i) ==
    /\ sweep.step = "accepted" /\ i \in sweep.todo /\ RowFree(i)
    /\ sweep' = [sweep EXCEPT !.todo = @ \ {i}]
    /\ inv' = [inv EXCEPT ![i].phase = "refused"]
    /\ UNCHANGED <<now, prices, rsv, alloc, ent, rail, call>>

\* A row that someone else moved since it was listed is passed over.
SweepRefuse(i) ==
    /\ sweep.step = "accepted" /\ i \in sweep.todo /\ RowFree(i)
    /\ sweep' = [sweep EXCEPT !.todo = @ \ {i}]
    /\ inv' = IF inv[i].phase = "accepted"
              THEN [inv EXCEPT ![i].phase = "refused"] ELSE inv
    /\ UNCHANGED <<now, prices, rsv, alloc, ent, rail, call>>

SweepListReserved ==
    /\ sweep.step = "accepted" /\ sweep.todo = {}
    /\ sweep' = [step |-> "reserved", at |-> 0, todo |->
                    {i \in Invocations : inv[i].phase = "reserved" /\ inv[i].deadline < sweep.at}]
    /\ UNCHANGED call /\ Unchanging

SweepRelease(i) ==
    /\ sweep.step = "reserved" /\ i \in sweep.todo
    /\ sweep' = [sweep EXCEPT !.todo = @ \ {i}]
    /\ \/ OpensRelease(Reconciler, i)
       \/ /\ MayBegin(Reconciler, "release", i)
          /\ ~Releasable(i)
          /\ UNCHANGED call
    /\ Unchanging

SweepEnd ==
    /\ sweep.step = "reserved" /\ sweep.todo = {} /\ call[Reconciler] = Idle
    /\ sweep' = Resting
    /\ UNCHANGED call /\ Unchanging

Tick ==
    /\ now < MaxTime
    /\ now' = now + 1
    /\ UNCHANGED <<prices, ledger, rail, call, sweep>>

Next ==
    \/ PublishTerms \/ RetireTerms \/ MintQuote \/ AcceptInvocation
    \/ SetBudget \/ GrantEntitlement \/ RetireEntitlement \/ Transition
    \/ \E c \in Gateways, i \in Invocations :
          \/ BeginReserve(c, i) \/ BeginResolve(c, i) \/ BeginRelease(c, i) \/ BeginDispatch(c, i)
          \/ \E o \in Outcomes : BeginFinalize(c, i, o)
    \/ \E c \in Callers : Authorize(c) \/ ResolveUnknownHold(c) \/ SettlePayment(c) \/ Commit(c) \/ Crash(c)
    \/ SweepStart \/ SweepListReserved \/ SweepEnd
    \/ \E i \in Invocations : SweepRefuse(i) \/ SweepRelease(i)
    \/ Tick

Spec == Init /\ [][Next]_vars

-----------------------------------------------------------------------------
(* Properties *)

\* Every variable has its type.
TypeOK ==
    /\ now \in Nat
    /\ terms \in Seq([offer : Offers, retired : BOOLEAN])
    /\ quote \in [Quotes -> Quote]
    /\ inv \in [Invocations -> Row]
    /\ rsv \in [Invocations -> Reservation]
    /\ alloc \in [Invocations -> Allocation]
    /\ ent \in [Packages -> Package]
    /\ budget \in SUBSET Limits
    /\ raised \in Nat
    /\ rail \in [Invocations -> Rail]
    /\ call \in [Callers -> Call]
    /\ sweep \in [step : {"idle", "accepted", "reserved"}, at : Nat, todo : SUBSET Invocations]

\* Whatever is held, captured, raised or lowered concurrently, what the tenant
\* has committed in this month plus every open hold, and what was spent or is
\* held of any month, stays within the highest limit it was ever granted
\* (Reserve's balance check under the budget lock).
BudgetHolds ==
    /\ Amount(CapturedIn(PeriodOf(now))) + Amount(HeldRows) <= raised
    /\ \A p \in 0 .. PeriodOf(now) - 1 :
          Amount(CapturedIn(p)) + Amount({i \in HeldRows : rsv[i].period = p}) <= raised

\* An invocation holds budget exactly while it is between reserved and its
\* end, its unit of a package is held exactly as long and ends the way its
\* money does, one whose payment was denied holds neither, and the facts of a
\* finished row say what happened to both (Reserve, Finalize and Release write
\* the hold, the unit and the phase in one commit).
HoldFollowsPhase ==
    \A i \in Invocations :
        /\ rsv[i].status = "held" <=> inv[i].phase \in Holding
        /\ alloc[i].state # "none" =>
              alloc[i].state = IF inv[i].phase = "refused" THEN "released" ELSE rsv[i].status
        /\ inv[i].phase = "refused" => rsv[i].status = "none"
        /\ inv[i].phase \in {"released", "finalized"} => inv[i].charge = rsv[i].status
        /\ inv[i].phase = "released" => rsv[i].status = "released"

\* No unit of a prepaid package is lost or made up: each is left, reserved by
\* an open invocation or captured by one (holdEntitlementUnit,
\* captureEntitlementUnit, releaseEntitlementUnit).
UnitsAreConserved ==
    \A p \in Packages :
        LET Of(state) == {i \in Invocations : alloc[i] = [package |-> p, state |-> state]}
        IN /\ ent[p].reserved = Cardinality(Of("held"))
           /\ ent[p].remaining >= 0
           /\ ent[p].total = ent[p].remaining + ent[p].reserved + Cardinality(Of("captured"))

\* When the ledger closes a reservation the rail has done the same: captured
\* means captured, and released leaves no authorization that could still be
\* charged, whatever answers were lost on the way (settlePayment,
\* resolveAuthorization: unknown is neither done nor denied); and the provider
\* is only ever asked to work on money the rail has authorized, even when the
\* authorization was once unknown (applyTransition, resolveUnknownHold).
RailAgrees ==
    \A i \in Invocations :
        inv[i].mode # "free" =>
            /\ inv[i].fence # None => rail[i].auth = "authorized"
            /\ rsv[i].status = "captured" => rail[i].settled = "captured"
            /\ rsv[i].status = "released" =>
                  rail[i].settled = "voided" \/ rail[i].auth = "denied"

\* A finished invocation, its reservation and its unit never change again, and
\* a dispatch fence is never moved.
FinishedIsFinal ==
    [][\A i \in Invocations :
          /\ inv[i].phase \in Terminal => UNCHANGED <<inv[i], rsv[i], alloc[i]>>
          /\ inv[i].fence # None => UNCHANGED inv[i].fence]_vars

\* The reconciler never touches an invocation that has been dispatched,
\* however old (the comment of ExpireStale and docs/commerce-ledger.md).
ReconcilerSparesDispatched ==
    [][\A i \in Invocations :
          call[Reconciler].inv = i /\ inv'[i] # inv[i] => inv[i].fence = None]_vars

=============================================================================
