--------------------------- MODULE ActionApprovals ---------------------------
(***************************************************************************)
(* An action approval of internal/workitems/action_approvals.go and the    *)
(* receipt gate that spends it on MCP tool calls (internal/api and         *)
(* internal/mcp agent_receipt_gate.go, mode enforce).                      *)
(*                                                                         *)
(* One row goes from a request to a human decision, is spent by its        *)
(* requester and then authorises one successful tool call.  Every handler  *)
(* reads outside the row's lock and ends in a compare-and-set, so each is  *)
(* two or more steps of a call.  A call that is refused goes back to idle; *)
(* calls whose kind, target, artifact or intent do not match the row are   *)
(* refused and change nothing.  A crash, a lost answer and a lost write    *)
(* can end a call at any point.                                            *)
(*                                                                         *)
(* Whether the decider still has authority is asked of the principal       *)
(* resolver (internal/principals), which keeps the answers of the store in *)
(* a cache of its process.                                                 *)
(***************************************************************************)
EXTENDS Integers

CONSTANTS
    Calls,      \* requests in flight
    Replicas,   \* API processes, each with a resolver
    Home,       \* the replica that serves a call
    Humans,     \* principals that are or were platform admins
    NoHuman,
    NoCall,
    MaxTTL,     \* MaxApprovalTTL
    FreshFor,   \* ApprovalMaxDecisionAge
    MaxAge,     \* AgentReceiptMaxAge
    CacheTTL,   \* how long a resolver trusts an answer
    MaxTime     \* bound on the clock

ASSUME ApprovalsAssumption ==
    /\ NoHuman \notin Humans
    /\ NoCall \notin Calls
    /\ Home \in [Calls -> Replicas]
    /\ MaxTTL \in Nat \ {0}
    /\ FreshFor \in Nat \ {0}
    /\ MaxAge \in Nat \ {0}
    /\ CacheTTL \in Nat \ {0}
    /\ MaxTime \in Nat

VARIABLES
    now,
    row,        \* the row of action_approval_requests
    call,
    disabled,   \* when each human was disabled in the principal store
    cached,     \* the time of the answer "active" a resolver has of a human
    forgotten,  \* ghost: who was dropped by which resolver once disabled
    uses        \* ghost: the calls that did what was approved, or may have,
                \* and did not report that they failed

authority == <<disabled, cached, forgotten>>
vars == <<now, row, call, authority, uses>>

None == -1  \* a time that is not set
Times == Nat \union {None}

Decided == {"approved", "denied", "consumed", "in_flight", "executed"}
Granted == Decided \ {"denied"}
States == {"none", "pending"} \union Decided

\* by is a ghost: the call that last spent or reserved the row.  spent is a
\* ghost too: the time of the spend, which nothing may move.
Row == [state : States, decider : Humans \union {NoHuman}, digest : BOOLEAN,
        expires : Nat, fresh : Nat, consumed : Nat, spent : Nat,
        by : Calls \union {NoCall}]

\* who and ask: the decision asked for, or the decider of a spend.  ok: the
\* context guard passed; of a spend, a ghost: its resolver had not dropped the
\* decider as disabled when it was asked.  since: the time of its last check.
\* at: the time it puts in what it writes.  current: no Forget ran since.
Call == [pc : {"idle", "deciding", "read", "asked", "answered", "checked",
               "verified", "running", "spend", "free"},
         who : Humans \union {NoHuman}, ask : {"approved", "denied"},
         ok : BOOLEAN, since : Nat, at : Nat, current : BOOLEAN]

Idle == [pc |-> "idle", who |-> NoHuman, ask |-> "denied", ok |-> FALSE,
         since |-> 0, at |-> 0, current |-> FALSE]

Init ==
    /\ now = 0
    /\ row = [state |-> "none", decider |-> NoHuman, digest |-> FALSE, expires |-> 0,
              fresh |-> 0, consumed |-> 0, spent |-> 0, by |-> NoCall]
    /\ call = [c \in Calls |-> Idle]
    /\ disabled = [h \in Humans |-> None]
    /\ cached = [x \in Replicas |-> [h \in Humans |-> None]]
    /\ forgotten = {}
    /\ uses = 0

End(c) == call' = [call EXCEPT ![c] = Idle]

\* effectiveState: a request that was never spent lapses without a write.
EffectiveState ==
    IF row.state \in {"pending", "approved"} /\ row.expires <= now
    THEN "expired" ELSE row.state

-----------------------------------------------------------------------------
\* CreateActionApproval; a retry under its key finds the row.
CreateActionApproval ==
    \E ttl \in 1..MaxTTL :
        /\ row.state = "none"
        /\ row' = [row EXCEPT !.state = "pending", !.expires = now + ttl]
        /\ UNCHANGED <<now, call, authority, uses>>

\* DecideActionApproval and the DevLoop approve: the caller is a human admin, as
\* a resolver may still have it, and what is read decides whether guardDecision
\* records a digest.
DecideRead(c, h, ask) ==
    /\ call[c].pc = "idle"
    /\ disabled[h] = None \/ now < disabled[h] + CacheTTL
    /\ row.state # "none"
    /\ call' = [call EXCEPT ![c] = [Idle EXCEPT !.pc = "deciding", !.who = h, !.ask = ask,
                   !.ok = (ask = "approved" /\ EffectiveState = "pending")]]
    /\ UNCHANGED <<now, row, authority, uses>>

\* Mutant: the expiry is left to the spend.
DecidableStored == row.state = "pending"

\* Mutant: the handler's own read is trusted.
DecidableAsRead == row.state # "none"

\* The row is read again FOR UPDATE.
Decidable == EffectiveState = "pending"

LeastOf(a, b) == IF a <= b THEN a ELSE b

Decide(c) ==
    /\ call[c].pc = "deciding"
    /\ Decidable
    /\ row' = [row EXCEPT
           !.state = call[c].ask, !.decider = call[c].who, !.digest = call[c].ok,
           !.fresh = IF call[c].ask = "approved"
                     THEN LeastOf(row.expires, now + FreshFor) ELSE @]
    /\ End(c)
    /\ UNCHANGED <<now, authority, uses>>

DecideRefused(c) ==
    /\ call[c].pc = "deciding"
    /\ ~Decidable
    /\ End(c)
    /\ UNCHANGED <<now, row, authority, uses>>

-----------------------------------------------------------------------------
\* The consume route and the grant of an approve operation: read the row,
\* revalidate what the decision rests on, spend.
SpendRead(c) ==
    /\ call[c].pc = "idle"
    /\ EffectiveState = "approved"
    /\ call' = [call EXCEPT ![c] = [Idle EXCEPT !.pc = "read", !.who = row.decider]]
    /\ UNCHANGED <<now, row, authority, uses>>

Dropped(x, h) == <<x, h>> \in forgotten

\* Mutant: an answer is kept until it is dropped.
RememberedForever(x, h) == cached[x][h] # None

\* The resolver has an answer that is not too old.
Remembered(x, h) == cached[x][h] # None /\ now < cached[x][h] + CacheTTL

Answer(x, h, t) == cached' = [cached EXCEPT ![x][h] = t]

\* Revalidate: the decision is fresh, and its decider is active as far as the
\* resolver knows, by what it remembers ...
RevalidateRemembered(c) ==
    LET x == Home[c]  h == call[c].who
    IN  /\ call[c].pc = "read"
        /\ row.fresh > now
        /\ Remembered(x, h)
        /\ call' = [call EXCEPT ![c].pc = "checked", ![c].since = now,
                                ![c].ok = ~Dropped(x, h)]
        /\ UNCHANGED <<now, row, authority, uses>>

\* ... or by asking the store.
RevalidateAsk(c) ==
    LET x == Home[c]  h == call[c].who
    IN  /\ call[c].pc = "read"
        /\ row.fresh > now
        /\ ~Remembered(x, h)
        /\ call' = [call EXCEPT ![c].pc = "asked", ![c].at = now, ![c].current = TRUE,
                                ![c].ok = ~Dropped(x, h)]
        /\ UNCHANGED <<now, row, authority, uses>>

StoreAnswers(c) ==
    /\ call[c].pc = "asked"
    /\ disabled[call[c].who] = None
    /\ call' = [call EXCEPT ![c].pc = "answered", ![c].since = now]
    /\ UNCHANGED <<now, row, authority, uses>>

\* Mutant: what was read is kept, whatever happened since.
MayKeepAlways(c) == TRUE

\* The answer is kept unless a Forget ran while the store was read.
MayKeep(c) == call[c].current

RevalidateAnswered(c) ==
    /\ call[c].pc = "answered"
    /\ IF MayKeep(c) THEN Answer(Home[c], call[c].who, call[c].at) ELSE UNCHANGED cached
    /\ call' = [call EXCEPT ![c] = [@ EXCEPT !.pc = "checked", !.at = 0, !.current = FALSE]]
    /\ UNCHANGED <<now, row, disabled, forgotten, uses>>

\* A refusal is kept in the place of an older answer.
StoreRefuses(c) ==
    /\ call[c].pc = "asked"
    /\ disabled[call[c].who] # None
    /\ IF MayKeep(c) THEN Answer(Home[c], call[c].who, None) ELSE UNCHANGED cached
    /\ End(c)
    /\ UNCHANGED <<now, row, disabled, forgotten, uses>>

\* So is a failure, for a while and unconditionally.
StoreFails(c) ==
    /\ call[c].pc = "asked"
    /\ Answer(Home[c], call[c].who, None)
    /\ End(c)
    /\ UNCHANGED <<now, row, disabled, forgotten, uses>>

\* The decision is stale, the context or the policy has changed, or what the
\* resolver remembers is a refusal or a failure.
RevalidateRefused(c) ==
    /\ call[c].pc = "read"
    /\ End(c)
    /\ UNCHANGED <<now, row, authority, uses>>

\* ConsumeActionApproval's WHERE clause, with the time read before it ran.
Consumable(at) == row.state = "approved" /\ row.expires > at /\ row.fresh > at

ConsumeActionApproval(c) ==
    \E at \in (call[c].since)..now :
        /\ call[c].pc = "checked"
        /\ Consumable(at)
        /\ row' = [row EXCEPT !.state = "consumed", !.consumed = at, !.spent = at, !.by = c]
        /\ End(c)
        /\ UNCHANGED <<now, authority, uses>>

ConsumeRefused(c) ==
    \E at \in (call[c].since)..now :
        /\ call[c].pc = "checked"
        /\ ~Consumable(at)
        /\ End(c)
        /\ UNCHANGED <<now, row, authority, uses>>

-----------------------------------------------------------------------------
\* receiptStaleness, negated.
Fresh(at) == row.consumed + MaxAge > at /\ row.fresh > at

\* VerifyAgentReceipt up to the reservation.
VerifyAgentReceipt(c) ==
    /\ call[c].pc = "idle"
    /\ row.state = "consumed"
    /\ Fresh(now)
    /\ call' = [call EXCEPT ![c] = [Idle EXCEPT !.pc = "verified", !.since = now]]
    /\ UNCHANGED <<now, row, authority, uses>>

\* Mutant: the state was checked when the receipt was read.
ReservableAsRead(at) == row.state \in {"consumed", "in_flight"} /\ Fresh(at)

\* ReserveActionApproval's WHERE clause.
Reservable(at) == row.state = "consumed" /\ Fresh(at)

Reserved(c) == row' = [row EXCEPT !.state = "in_flight", !.by = c]

ReserveActionApproval(c) ==
    \E at \in (call[c].since)..now :
        /\ call[c].pc = "verified"
        /\ Reservable(at)
        /\ Reserved(c)
        /\ call' = [call EXCEPT ![c] = [@ EXCEPT !.pc = "running", !.at = at]]
        /\ UNCHANGED <<now, authority, uses>>

\* The reservation is written and its answer lost: unverifiable, refused.
ReserveLost(c) ==
    \E at \in (call[c].since)..now :
        /\ call[c].pc = "verified"
        /\ Reservable(at)
        /\ Reserved(c)
        /\ End(c)
        /\ UNCHANGED <<now, authority, uses>>

ReserveRefused(c) ==
    \E at \in (call[c].since)..now :
        /\ call[c].pc = "verified"
        /\ ~Reservable(at)
        /\ End(c)
        /\ UNCHANGED <<now, row, authority, uses>>

\* The tool's handler and callSucceeded: its own verdict, except that a call
\* whose request was cancelled or timed out may have done its work and counts
\* as done.
HandlerSucceeds(c) ==
    /\ call[c].pc = "running"
    /\ uses' = uses + 1
    /\ call' = [call EXCEPT ![c].pc = "spend"]
    /\ UNCHANGED <<now, row, authority>>

\* The handler reports a failure.  What it did by then, part of its work or a
\* write whose answer its HTTP client gave up waiting for, stays done; the
\* receipt is handed back all the same.
HandlerFails(c) ==
    /\ call[c].pc = "running"
    /\ call' = [call EXCEPT ![c].pc = "free"]
    /\ UNCHANGED <<now, row, authority, uses>>

\* Mutant: a call that was cancelled has failed.
HandlerCancelledFails(c) ==
    /\ call[c].pc = "running"
    /\ uses' \in {uses, uses + 1}
    /\ call' = [call EXCEPT ![c].pc = "free"]
    /\ UNCHANGED <<now, row, authority>>

HandlerCancelled(c) ==
    /\ call[c].pc = "running"
    /\ uses' \in {uses, uses + 1}
    /\ call' = [call EXCEPT ![c].pc = "spend"]
    /\ UNCHANGED <<now, row, authority>>

\* Mutant: a released receipt is as good as new.
SettledAnew(c) ==
    IF call[c].pc = "spend" THEN [row EXCEPT !.state = "executed"]
                            ELSE [row EXCEPT !.state = "consumed", !.consumed = now]

Settled(c) == [row EXCEPT !.state = IF call[c].pc = "spend" THEN "executed" ELSE "consumed"]

\* SettleActionApproval names the row and the requester, not the call.
SettleActionApproval(c) ==
    /\ call[c].pc \in {"spend", "free"}
    /\ row' = IF row.state = "in_flight" THEN Settled(c) ELSE row
    /\ End(c)
    /\ UNCHANGED <<now, authority, uses>>

\* The settle could not be written: the row stays in flight.
SettleLost(c) ==
    /\ call[c].pc \in {"spend", "free"}
    /\ End(c)
    /\ UNCHANGED <<now, row, authority, uses>>

\* The requester reports that it carried the action out itself.
MarkActionApprovalExecuted ==
    /\ row.state = "consumed"
    /\ row' = [row EXCEPT !.state = "executed"]
    /\ uses' = uses + 1
    /\ UNCHANGED <<now, call, authority>>

-----------------------------------------------------------------------------
\* The process dies under the call; a handler may have done its work.
Crash(c) ==
    /\ call[c].pc # "idle"
    /\ End(c)
    /\ uses' \in (IF call[c].pc = "running" THEN {uses, uses + 1} ELSE {uses})
    /\ UNCHANGED <<now, row, authority>>

\* DisablePrincipal or a merge; nothing makes a disabled principal active.
Disable(h) ==
    /\ disabled[h] = None
    /\ disabled' = [disabled EXCEPT ![h] = now]
    /\ UNCHANGED <<now, row, call, cached, forgotten, uses>>

\* Forget, on the replica that served a disable, a merge or an unlink: it drops
\* the answer, and no resolution under way keeps its own.
Forget(x, h) ==
    /\ Answer(x, h, None)
    /\ call' = [c \in Calls |->
           IF Home[c] = x THEN [call[c] EXCEPT !.current = FALSE] ELSE call[c]]
    /\ forgotten' = IF disabled[h] # None THEN forgotten \union {<<x, h>>} ELSE forgotten
    /\ UNCHANGED <<now, row, disabled, uses>>

Tick ==
    /\ now < MaxTime
    /\ now' = now + 1
    /\ UNCHANGED <<row, call, authority, uses>>

Decision(c) ==
    \/ \E h \in Humans, ask \in {"approved", "denied"} : DecideRead(c, h, ask)
    \/ Decide(c) \/ DecideRefused(c)

Spend(c) ==
    \/ SpendRead(c) \/ RevalidateRemembered(c) \/ RevalidateAsk(c)
    \/ StoreAnswers(c) \/ StoreRefuses(c) \/ StoreFails(c)
    \/ RevalidateAnswered(c) \/ RevalidateRefused(c)
    \/ ConsumeActionApproval(c) \/ ConsumeRefused(c)

Gate(c) ==
    \/ VerifyAgentReceipt(c)
    \/ ReserveActionApproval(c) \/ ReserveLost(c) \/ ReserveRefused(c)
    \/ HandlerSucceeds(c) \/ HandlerFails(c) \/ HandlerCancelled(c)
    \/ SettleActionApproval(c) \/ SettleLost(c)

Next ==
    \/ CreateActionApproval
    \/ \E c \in Calls : Decision(c) \/ Spend(c) \/ Gate(c) \/ Crash(c)
    \/ MarkActionApprovalExecuted
    \/ \E h \in Humans : Disable(h) \/ \E x \in Replicas : Forget(x, h)
    \/ Tick

Spec == Init /\ [][Next]_vars

-----------------------------------------------------------------------------
\* The columns of the row and the calls in flight keep their types, the status
\* among the values ValidApprovalState knows.
TypeOK ==
    /\ now \in 0..MaxTime
    /\ row \in Row
    /\ call \in [Calls -> Call]
    /\ disabled \in [Humans -> Times]
    /\ cached \in [Replicas -> [Humans -> Times]]
    /\ forgotten \subseteq Replicas \X Humans
    /\ uses \in Nat

\* agentReceiptMiddleware: one receipt authorises one successful call.  Failed
\* calls are handed their receipt back, whatever they did; but once a call has
\* succeeded, or ended in a way that does not tell (cancelled, died, unsettled),
\* or the requester has marked the request executed, no other call runs under
\* the receipt and none can give it back.
OneUse ==
    /\ uses <= 1
    /\ uses = 1 => /\ row.state \in {"in_flight", "executed"}
                   /\ \A c \in Calls : call[c].pc \notin {"running", "free"}

\* SettleActionApproval names no call, only the row: a call between its
\* reservation and its settle is nevertheless the only one, and the row is
\* still in flight for it, so it never settles the reservation of another.
ReservationIsOwned ==
    \A c \in Calls : call[c].pc \in {"running", "spend", "free"} =>
        row.state = "in_flight" /\ row.by = c

\* A tool runs under a receipt only within the age bound of the one spend and
\* the freshness of the decision, however many failed calls were released in
\* between: a release does not re-arm consumed_at.
ReceiptAgeIsBounded ==
    \A c \in Calls : call[c].pc = "running" =>
        /\ call[c].at < row.spent + MaxAge
        /\ call[c].at < row.fresh
        /\ row.spent < row.expires

\* Whatever was approved was approved on a digest of the context the human
\* was shown: guardDecision is skipped only for requests that read as no
\* longer pending, and those never become decidable again.
ApprovalCarriesContext == row.state \in Granted => row.digest

\* The first decision stands: a second reviewer who read the request as
\* pending neither reverses nor takes it over.
DecisionIsFinal ==
    [][row.state \in Decided =>
          /\ row'.decider = row.decider
          /\ row'.state = "denied" <=> row.state = "denied"]_vars

\* An approval outlives its decider's authority by no more than the time a
\* resolver trusts an answer; and where the principal was disabled, or merged
\* away, not at all: a call that revalidates once that replica has forgotten it
\* does not spend, although a read that began before may still come back.
SpendNeedsLiveDecider ==
    [][row.state = "approved" /\ row'.state = "consumed" =>
          LET c == row'.by
              gone == disabled[row.decider]
          IN  call[c].ok /\ (gone = None \/ call[c].since < gone + CacheTTL)]_vars
=============================================================================
