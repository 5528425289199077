----------------------------- MODULE WorkItems ------------------------------
(***************************************************************************)
(* internal/workitems: one work item, its executions and its execution     *)
(* requests, the sweeper of internal/api that closes executions whose      *)
(* engine run died silently, and the submit of a Workflow whose execution  *)
(* is recorded first.                                                      *)
(*                                                                         *)
(* Every mutation of an item runs in one transaction under the item's      *)
(* advisory lock, so it is one action.  What the code reads outside the    *)
(* lock and uses inside it is a step of its own: the claim scan and the    *)
(* sweeper's listing and its question to the engine.  A refusal changes    *)
(* nothing and is a stuttering step, like the replay of a request whose    *)
(* idempotency key is already recorded.  An unreadable pinned intent is    *)
(* one more refusal of create and fulfil, which the model does not force.  *)
(***************************************************************************)
EXTENDS Integers, Sequences, FiniteSets

CONSTANTS
    Claimants,         \* dispatchers, possibly of one service principal
    Sweepers,          \* one per API replica
    Runs,              \* engine runs, (engine, engine_ref)
    TemporalRuns,      \* those of engine temporal
    Submitters,        \* requests that submit a Workflow
    SubmittedRuns,     \* the Workflows, under the names the submits draw
    Keys,              \* idempotency keys of mutations on the item
    Outcomes,          \* how runs end
    Asked,             \* the lifecycle actions its clients ask for
    NoKey, NoClaimant,
    QueueWhileActive,  \* the kill switch of queue_switch.go
    Lease,             \* ticks a claim lasts
    MinAge,            \* orphanMinAge in ticks
    MaxVersion,        \* bound on state_version
    MaxRequests,       \* bound on the requests of the item
    MaxClaims          \* bound on the claims of one request

ASSUME WorkItemsAssumption ==
    /\ TemporalRuns \subseteq Runs
    /\ SubmittedRuns \subseteq Runs \ TemporalRuns
    /\ Outcomes \subseteq {"Succeeded", "Failed"}
    /\ Asked \subseteq {"wait", "resume", "complete", "supersede", "archive"}
    /\ NoKey \notin Keys
    /\ NoClaimant \notin Claimants
    /\ QueueWhileActive \in BOOLEAN
    /\ Lease \in Nat \ {0}
    /\ MinAge \in Nat \ {0}
    /\ MaxVersion \in Nat \ {0}
    /\ MaxRequests \in Nat
    /\ MaxClaims \in Nat

VARIABLES
    item,     \* the row of work_items
    execs,    \* work_item_executions, in the order of attempt
    reqs,     \* work_item_execution_requests, in the order of creation
    used,     \* the keys recorded in work_item_requests
    claimer,  \* the request and claim token each dispatcher works on
    sweeper,  \* the execution and phase each sweep works on
    submit,   \* the Workflow each submit works on, and what it knows of it
    engine    \* the engine runs themselves

vars == <<item, execs, reqs, used, claimer, sweeper, submit, engine>>

States == {"active", "waiting", "completed", "superseded", "archived"}
Phases == {"Pending", "Running", "Succeeded", "Failed", "Error"}
Kinds == {"start", "resume"}

\* The transition table; what it does not list is refused.
Transitions ==
    [active  |-> [wait |-> "waiting", complete |-> "completed",
                  supersede |-> "superseded", archive |-> "archived"],
     waiting |-> [resume |-> "active", complete |-> "completed",
                  supersede |-> "superseded", archive |-> "archived"]]

IsTerminal(state) == state \notin DOMAIN Transitions
IsTerminalPhase(phase) == phase \in {"Succeeded", "Failed", "Error"}

\* key, version and by are history: the key, the item's version and the
\* dispatcher an execution was inserted with; swept marks a close by the
\* sweeper or by a submit that failed.  ref: the engine_ref names one run of a
\* workflow of Temporal, or the workflow and so its latest run, or neither;
\* late: that latest run began after the execution.
Execution == [run     : Runs,
              phase   : Phases,
              path    : {"attach", "resume", "fulfil_start", "fulfil_resume"},
              from    : Nat,
              age     : 0..MinAge,
              key     : Keys \union {NoKey},
              version : Nat,
              by      : Claimants \union {NoClaimant},
              swept   : BOOLEAN,
              ref     : {"run", "workflow", "other"},
              late    : BOOLEAN]

Request == [kind     : Kinds,
            expected : Nat,
            from     : Nat,
            key      : Keys \union {NoKey},
            state    : {"pending", "claimed", "fulfilled", "rejected"},
            by       : Claimants \union {NoClaimant},
            token    : 0..MaxClaims,
            left     : 0..Lease,
            exec     : Nat]

Claimer == [pc : {"idle", "scanned", "holding"}, req : Nat, token : Nat]
Sweeper == [pc : {"idle", "listed", "dead"}, exec : Nat, phase : Phases]

Submit == [pc : {"idle", "attached", "unknown", "absent"}, run : Runs]

IdleClaimer == [pc |-> "idle", req |-> 0, token |-> 0]
IdleSweeper == [pc |-> "idle", exec |-> 0, phase |-> "Pending"]

\* Create made the item; no run of it is known yet.
Init ==
    /\ item = [state |-> "active", version |-> 1]
    /\ execs = <<>>
    /\ reqs = <<>>
    /\ used = {}
    /\ claimer = [c \in Claimants |-> IdleClaimer]
    /\ sweeper = [s \in Sweepers |-> IdleSweeper]
    /\ submit \in [Submitters -> [pc : {"idle"}, run : SubmittedRuns]]
    /\ engine = [r \in Runs |-> "none"]

-----------------------------------------------------------------------------
OpenExecs == {e \in DOMAIN execs : ~IsTerminalPhase(execs[e].phase)}
Attached(r) == \E e \in DOMAIN execs : execs[e].run = r

\* Mutant: a claimed request no longer counts as open.
OpenPendingOnly == {i \in DOMAIN reqs : reqs[i].state = "pending"}

\* openExecutionRequest
OpenRequests == {i \in DOMAIN reqs : reqs[i].state \in {"pending", "claimed"}}

\* Mutant: no key is ever found.
KeyForgotten(k) == TRUE

\* replayed: the key is new, or the request carries none.
NewKey(k) == k \notin used

Remember(k) == used' = used \union ({k} \ {NoKey})

\* parseTemporalRef; what it cannot parse is "other".
Refs(r) == IF r \in TemporalRuns THEN {"run", "workflow", "other"} ELSE {"other"}

InsertExecution(r, phase, path, from, k, c) ==
    \E ref \in Refs(r) :
        execs' = Append(execs,
            [run |-> r, phase |-> phase, path |-> path, from |-> from, age |-> 0,
             key |-> k, version |-> item.version, by |-> c, swept |-> FALSE,
             ref |-> ref, late |-> FALSE])

\* checkRunnable, with the switch that lets a request queue.
Runnable(kind, from, allowActive) ==
    /\ ~IsTerminal(item.state)
    /\ allowActive \/ OpenExecs = {}
    /\ kind = "start" => item.state = "active" /\ execs = <<>>
    /\ kind = "resume" => /\ ~(item.state = "active" /\ execs = <<>>)
                          /\ from \in {0} \union DOMAIN execs

-----------------------------------------------------------------------------
\* Transition; resume is not one of its actions (TransitionInput.validate).
Transition(v, a, k) ==
    /\ NewKey(k)
    /\ item.version = v
    /\ ~IsTerminal(item.state)
    /\ a \in DOMAIN Transitions[item.state] \ {"resume"}
    /\ item' = [state |-> Transitions[item.state][a], version |-> v + 1]
    /\ Remember(k)
    /\ UNCHANGED <<execs, reqs, claimer, sweeper, submit, engine>>

\* Mutant: the version is not raised.
ResumeTxSameVersion(v, from, r, path, k, c) ==
    /\ item.version = v
    /\ ~IsTerminal(item.state)
    /\ OpenExecs = {}
    /\ ~(item.state = "active" /\ execs = <<>>)
    /\ from \in {0} \union DOMAIN execs
    /\ ~Attached(r)
    /\ InsertExecution(r, "Pending", path, IF from = 0 THEN Len(execs) ELSE from, k, c)
    /\ item' = [state |-> "active", version |-> v]

\* resumeTx: a waiting item becomes active; without a from it continues the
\* last execution.
ResumeTx(v, from, r, path, k, c) ==
    /\ item.version = v
    /\ ~IsTerminal(item.state)
    /\ OpenExecs = {}
    /\ ~(item.state = "active" /\ execs = <<>>)
    /\ from \in {0} \union DOMAIN execs
    /\ ~Attached(r)
    /\ InsertExecution(r, "Pending", path, IF from = 0 THEN Len(execs) ELSE from, k, c)
    /\ item' = [state |-> "active", version |-> v + 1]

Resume(v, from, r, k) ==
    /\ NewKey(k)
    /\ ResumeTx(v, from, r, "resume", k, NoClaimant)
    /\ Remember(k)
    /\ UNCHANGED <<reqs, claimer, sweeper, submit, engine>>

\* attachNewTx
AttachNewTx(r, phase, path, k, c) ==
    /\ ~IsTerminal(item.state)
    /\ IsTerminalPhase(phase) \/ OpenExecs = {}
    /\ InsertExecution(r, phase, path, 0, k, c)

\* The phases somebody may report of a run: reports arrive late and out of
\* order, but an outcome is only reported once there is one, of the run or of
\* those that continue it.
Reportable(r) ==
    {"Pending"} \union (IF engine[r] = "none" THEN {} ELSE {"Running"})
                \union (IF IsTerminalPhase(engine[r]) THEN {engine[r]} ELSE {})
                \union (IF engine[r] = "ContinuedAsNew" THEN Outcomes ELSE {})

\* AttachExecution of a run the item does not know.
AttachNew(r, phase, k) ==
    /\ NewKey(k)
    /\ ~Attached(r)
    /\ AttachNewTx(r, phase, "attach", k, NoClaimant)
    /\ Remember(k)
    /\ UNCHANGED <<item, reqs, claimer, sweeper, submit, engine>>

\* AttachExecution of a run it knows: any phase replaces an open one.
AttachKnown(r, phase, k) ==
    \E e \in DOMAIN execs :
        /\ NewKey(k)
        /\ execs[e].run = r
        /\ execs[e].phase # phase => ~IsTerminalPhase(execs[e].phase)
        /\ execs' = [execs EXCEPT ![e].phase = phase]
        /\ Remember(k)
        /\ UNCHANGED <<item, reqs, claimer, sweeper, submit, engine>>

CreateExecutionRequest(v, kind, from, k) ==
    /\ NewKey(k)
    /\ item.version = v
    /\ OpenRequests = {}
    /\ kind = "start" => from = 0
    /\ Runnable(kind, from, QueueWhileActive)
    /\ reqs' = Append(reqs,
           [kind |-> kind, expected |-> v, from |-> from, key |-> k, state |-> "pending",
            by |-> NoClaimant, token |-> 0, left |-> 0, exec |-> 0])
    /\ Remember(k)
    /\ UNCHANGED <<item, execs, claimer, sweeper, submit, engine>>

-----------------------------------------------------------------------------
Claimable(i) == reqs[i].state = "pending" \/ (reqs[i].state = "claimed" /\ reqs[i].left = 0)

\* claimCandidateSQL, outside the lock.
ClaimScan(c) ==
    \E i \in DOMAIN reqs :
        /\ claimer[c].pc = "idle"
        /\ Claimable(i)
        /\ QueueWhileActive => OpenExecs = {}
        /\ reqs[i].token < MaxClaims
        /\ claimer' = [claimer EXCEPT ![c] = [pc |-> "scanned", req |-> i, token |-> 0]]
        /\ UNCHANGED <<item, execs, reqs, used, sweeper, submit, engine>>

\* Mutant: the open execution is not looked for again.
ClaimGuardAtScan(i) == reqs[i].token < MaxClaims /\ Claimable(i)

\* Under the lock: still claimable, and still nothing running.
ClaimGuard(i) ==
    /\ QueueWhileActive => OpenExecs = {}
    /\ Claimable(i)
    /\ reqs[i].token < MaxClaims

\* The compare-and-set and its fresh claim token.
ClaimExecutionRequest(c) ==
    LET i == claimer[c].req
        token == reqs[i].token + 1
    IN  /\ claimer[c].pc = "scanned"
        /\ ClaimGuard(i)
        /\ reqs' = [reqs EXCEPT ![i].state = "claimed", ![i].by = c,
                                ![i].token = token, ![i].left = Lease]
        /\ claimer' = [claimer EXCEPT ![c] = [pc |-> "holding", req |-> i, token |-> token]]
        /\ UNCHANGED <<item, execs, used, sweeper, submit, engine>>

\* Another claimant won it, it closed, or an execution opened: skipped.
ClaimSkip(c) ==
    /\ claimer[c].pc = "scanned"
    /\ ~ClaimGuard(claimer[c].req)
    /\ claimer' = [claimer EXCEPT ![c] = IdleClaimer]
    /\ UNCHANGED <<item, execs, reqs, used, sweeper, submit, engine>>

\* Mutant: the token is not compared, only the principal, which is the same.
HoldsByPrincipal(c) ==
    LET x == reqs[claimer[c].req]
    IN  claimer[c].pc = "holding" /\ x.state = "claimed" /\ x.left > 0

\* ClaimRef.holds and the claim's expiry.
Holds(c) ==
    LET x == reqs[claimer[c].req]
    IN  /\ claimer[c].pc = "holding"
        /\ x.state = "claimed"
        /\ x.token = claimer[c].token
        /\ x.left > 0

Fulfilled(i) ==
    reqs' = [reqs EXCEPT ![i].state = "fulfilled", ![i].exec = Len(execs) + 1]

\* kind start: checkStart and attachNewTx.
FulfilStart(c, r) ==
    LET i == claimer[c].req
    IN  /\ Holds(c)
        /\ reqs[i].kind = "start"
        /\ item.version = reqs[i].expected
        /\ ~Attached(r)
        /\ Runnable("start", 0, FALSE)
        /\ AttachNewTx(r, "Running", "fulfil_start", NoKey, c)
        /\ Fulfilled(i)
        /\ UNCHANGED <<item, used, claimer, sweeper, submit, engine>>

\* kind resume: resumeTx with what the requester asked for.
FulfilResume(c, r) ==
    LET i == claimer[c].req
    IN  /\ Holds(c)
        /\ reqs[i].kind = "resume"
        /\ ResumeTx(reqs[i].expected, reqs[i].from, r, "fulfil_resume", NoKey, c)
        /\ Fulfilled(i)
        /\ UNCHANGED <<used, claimer, sweeper, submit, engine>>

RejectExecutionRequest(c) ==
    /\ Holds(c)
    /\ reqs' = [reqs EXCEPT ![claimer[c].req].state = "rejected"]
    /\ UNCHANGED <<item, execs, used, claimer, sweeper, submit, engine>>

\* The dispatcher is done with a claim, or was restarted and forgot it.
LetGo(c) ==
    /\ claimer[c].pc = "holding"
    /\ claimer' = [claimer EXCEPT ![c] = IdleClaimer]
    /\ UNCHANGED <<item, execs, reqs, used, sweeper, submit, engine>>

-----------------------------------------------------------------------------
\* Mutant: a young execution is a candidate too.
CandidateAnyAge(e) ==
    /\ e \in OpenExecs
    /\ execs[e].run \in TemporalRuns
    /\ OpenRequests # {}

\* OpenExecutionsWithQueuedRequests
Candidate(e) ==
    /\ e \in OpenExecs
    /\ execs[e].run \in TemporalRuns
    /\ execs[e].age = MinAge
    /\ OpenRequests # {}

SweepList(s) ==
    \E e \in DOMAIN execs :
        /\ QueueWhileActive
        /\ sweeper[s].pc = "idle"
        /\ Candidate(e)
        /\ sweeper' = [sweeper EXCEPT ![s] =
               [pc |-> "listed", exec |-> e, phase |-> execs[e].phase]]
        /\ UNCHANGED <<item, execs, reqs, used, claimer, submit, engine>>

\* Mutant: a run Temporal does not know is not treated as gone.
RunClosedKnown(e) ==
    /\ execs[e].ref \in {"run", "workflow"}
    /\ IsTerminalPhase(engine[execs[e].run])
    /\ execs[e].ref = "workflow" => ~execs[e].late

\* Mutant: a run that was continued is over.
RunClosedOnceContinued(e) ==
    /\ execs[e].ref \in {"run", "workflow"}
    /\ engine[execs[e].run] # "running"
    /\ execs[e].ref = "workflow" => ~execs[e].late

\* orphanEngineStatus: the ref parses, and its run is not found or, if it can
\* be told that it is this execution's, closed.
RunClosed(e) ==
    /\ execs[e].ref \in {"run", "workflow"}
    /\ \/ engine[execs[e].run] = "none"
       \/ /\ IsTerminalPhase(engine[execs[e].run])
          /\ execs[e].ref = "workflow" => ~execs[e].late

SweepDead(s) ==
    /\ sweeper[s].pc = "listed"
    /\ RunClosed(sweeper[s].exec)
    /\ sweeper' = [sweeper EXCEPT ![s].pc = "dead"]
    /\ UNCHANGED <<item, execs, reqs, used, claimer, submit, engine>>

\* The run is not known to be closed, or the engine could not be asked.
SweepLeave(s) ==
    /\ sweeper[s].pc = "listed"
    /\ sweeper' = [sweeper EXCEPT ![s] = IdleSweeper]
    /\ UNCHANGED <<item, execs, reqs, used, claimer, submit, engine>>

\* Mutant: the phase is not compared.
CloseOrphanedBlindly(s) ==
    /\ sweeper[s].pc = "dead"
    /\ execs' = [execs EXCEPT ![sweeper[s].exec].phase = "Error",
                              ![sweeper[s].exec].swept = TRUE]
    /\ sweeper' = [sweeper EXCEPT ![s] = IdleSweeper]
    /\ UNCHANGED <<item, reqs, used, claimer, submit, engine>>

\* A compare-and-set on the phase the sweep saw.
CloseOrphanedExecution(s) ==
    LET e == sweeper[s].exec
    IN  /\ sweeper[s].pc = "dead"
        /\ execs' = IF execs[e].phase = sweeper[s].phase
                    THEN [execs EXCEPT ![e].phase = "Error", ![e].swept = TRUE]
                    ELSE execs
        /\ sweeper' = [sweeper EXCEPT ![s] = IdleSweeper]
        /\ UNCHANGED <<item, reqs, used, claimer, submit, engine>>

-----------------------------------------------------------------------------
(* A submit of an operation that must carry an execution *)

SubmitAt(u, from, to) ==
    /\ submit[u].pc = from
    /\ submit' = [submit EXCEPT ![u].pc = to]

\* prepareSubmitExecution: the execution is recorded under a fresh name, or
\* the request is refused.
PrepareSubmitExecution(u) ==
    LET r == submit[u].run
    IN  /\ SubmitAt(u, "idle", "attached")
        /\ engine[r] = "none" /\ ~Attached(r)
        /\ AttachNewTx(r, "Pending", "attach", NoKey, NoClaimant)
        /\ UNCHANGED <<item, reqs, used, claimer, sweeper, engine>>

\* The Workflow is created, and the answer arrives or is lost.
SubmitCreates(u) ==
    /\ SubmitAt(u, "attached", "idle") \/ SubmitAt(u, "attached", "unknown")
    /\ engine' = [engine EXCEPT ![submit[u].run] = "running"]
    /\ UNCHANGED <<item, execs, reqs, used, claimer, sweeper>>

\* It is not created: refused before the call (IsNotCreated), or not.
SubmitFails(u) ==
    /\ SubmitAt(u, "attached", "absent") \/ SubmitAt(u, "attached", "unknown")
    /\ UNCHANGED <<item, execs, reqs, used, claimer, sweeper, engine>>

\* Mutant: a lookup that fails counts as absence.
ConfirmedAbsentUnlessSeen(r) == TRUE

\* The lookup answers that there is no such Workflow.
ConfirmedAbsent(r) == engine[r] = "none"

SubmitLookup(u) ==
    /\ ConfirmedAbsent(submit[u].run)
    /\ SubmitAt(u, "unknown", "absent")
    /\ UNCHANGED <<item, execs, reqs, used, claimer, sweeper, engine>>

\* The execution of an absent Workflow ends in Error, unless it was ended.
SubmitEnded(u) ==
    /\ SubmitAt(u, "absent", "idle")
    /\ execs' = [e \in DOMAIN execs |->
           IF execs[e].run = submit[u].run /\ ~IsTerminalPhase(execs[e].phase)
           THEN [execs[e] EXCEPT !.phase = "Error", !.swept = TRUE] ELSE execs[e]]
    /\ UNCHANGED <<item, reqs, used, claimer, sweeper, engine>>

\* The Workflow exists, the lookup or the close failed, or the process died:
\* the execution stays open.
SubmitLeave(u) ==
    /\ \E pc \in {"attached", "unknown", "absent"} : SubmitAt(u, pc, "idle")
    /\ UNCHANGED <<item, execs, reqs, used, claimer, sweeper, engine>>

-----------------------------------------------------------------------------
\* The executions of r that name its workflow have a younger run now.
Overtaken(r) ==
    execs' = [e \in DOMAIN execs |->
        IF execs[e].run = r /\ execs[e].ref = "workflow"
        THEN [execs[e] EXCEPT !.late = TRUE] ELSE execs[e]]

\* A run starts before or after it is attached, but within MinAge of it:
\* what orphanMinAge is for.
EngineStart(r) ==
    /\ engine[r] = "none" /\ r \notin SubmittedRuns
    /\ \A e \in DOMAIN execs : execs[e].run = r => execs[e].age < MinAge
    /\ engine' = [engine EXCEPT ![r] = "running"]
    /\ Overtaken(r)
    /\ UNCHANGED <<item, reqs, used, claimer, sweeper, submit>>

EngineEnd(r) ==
    \E outcome \in Outcomes :
        /\ engine[r] = "running"
        /\ engine' = [engine EXCEPT ![r] = outcome]
        /\ UNCHANGED <<item, execs, reqs, used, claimer, sweeper, submit>>

\* The workflow of an execution continues as a new run.  A ref that names the
\* run keeps naming that one, whose status says so for good; one that names
\* the workflow means the new run.
ContinueAsNew(r) ==
    \E e \in DOMAIN execs :
        /\ execs[e].run = r /\ r \in TemporalRuns
        /\ engine[r] = "running"
        /\ engine' = [engine EXCEPT ![r] =
               IF execs[e].ref = "workflow" THEN "running" ELSE "ContinuedAsNew"]
        /\ Overtaken(r)
        /\ UNCHANGED <<item, reqs, used, claimer, sweeper, submit>>

\* The workflow is started again, for other work.
StartAgain(r) ==
    /\ IsTerminalPhase(engine[r])
    /\ Overtaken(r)
    /\ UNCHANGED <<item, reqs, used, claimer, sweeper, submit, engine>>

\* The leases of claimed requests run out and executions grow old.
Tick ==
    /\ reqs' = [i \in DOMAIN reqs |->
                   IF reqs[i].state = "claimed" /\ reqs[i].left > 0
                   THEN [reqs[i] EXCEPT !.left = @ - 1] ELSE reqs[i]]
    /\ execs' = [e \in DOMAIN execs |->
                   IF execs[e].age < MinAge THEN [execs[e] EXCEPT !.age = @ + 1] ELSE execs[e]]
    /\ UNCHANGED <<item, used, claimer, sweeper, submit, engine>>

Client ==
    \E k \in Keys \union {NoKey}, v \in 1..(MaxVersion - 1) :
        \/ \E a \in Asked : Transition(v, a, k)
        \/ \E from \in {0} \union DOMAIN execs, r \in Runs \ SubmittedRuns : Resume(v, from, r, k)
        \/ \E from \in {0} \union DOMAIN execs, kind \in Kinds :
               /\ Len(reqs) < MaxRequests
               /\ CreateExecutionRequest(v, kind, from, k)

Reporter ==
    \E k \in Keys \union {NoKey}, r \in Runs :
        \E phase \in Reportable(r) :
            \/ r \notin SubmittedRuns /\ AttachNew(r, phase, k)
            \/ AttachKnown(r, phase, k)

Dispatcher(c) ==
    \/ ClaimScan(c) \/ ClaimExecutionRequest(c) \/ ClaimSkip(c)
    \/ \E r \in Runs \ SubmittedRuns : FulfilStart(c, r) \/ FulfilResume(c, r)
    \/ RejectExecutionRequest(c) \/ LetGo(c)

Sweep(s) == SweepList(s) \/ SweepDead(s) \/ SweepLeave(s) \/ CloseOrphanedExecution(s)

Submitter(u) ==
    \/ PrepareSubmitExecution(u) \/ SubmitCreates(u) \/ SubmitFails(u)
    \/ SubmitLookup(u) \/ SubmitEnded(u) \/ SubmitLeave(u)

Next ==
    \/ Client
    \/ Reporter
    \/ \E c \in Claimants : Dispatcher(c)
    \/ \E s \in Sweepers : Sweep(s)
    \/ \E u \in Submitters : Submitter(u)
    \/ \E r \in Runs : EngineStart(r) \/ EngineEnd(r) \/ ContinueAsNew(r) \/ StartAgain(r)
    \/ Tick

SafeSpec == Init /\ [][Next]_vars

\* A report that was overtaken by a later one.
LateReport ==
    \E e \in DOMAIN execs : execs[e].phase = "Running" /\ execs'[e].phase = "Pending"

\* Clocks advance, dispatchers poll and move on, the sweeper's ticker fires
\* and its question to the engine has a deadline and is answered now and then,
\* runs end (or are continued), and only finitely many reports arrive late.
\* Nothing makes a run report, a client call or a dispatcher fulfil.
Fairness ==
    /\ WF_vars(Tick)
    /\ \A c \in Claimants : /\ WF_vars(ClaimScan(c))
                            /\ WF_vars(ClaimExecutionRequest(c) \/ ClaimSkip(c))
                            /\ WF_vars(LetGo(c))
    /\ \A s \in Sweepers : /\ WF_vars(SweepList(s))
                           /\ WF_vars(SweepDead(s) \/ SweepLeave(s))
                           /\ SF_vars(SweepDead(s))
                           /\ WF_vars(CloseOrphanedExecution(s))
    /\ \A r \in Runs : WF_vars(EngineEnd(r))
    /\ <>[][~LateReport]_vars

Spec == SafeSpec /\ Fairness

-----------------------------------------------------------------------------
\* Items, executions, requests and claims keep the types of the schema and the
\* states and phases of types.go.
TypeOK ==
    /\ item \in [state : States, version : 1..MaxVersion]
    /\ execs \in Seq(Execution)
    /\ reqs \in Seq(Request)
    /\ used \subseteq Keys
    /\ claimer \in [Claimants -> Claimer]
    /\ sweeper \in [Sweepers -> Sweeper]
    /\ submit \in [Submitters -> Submit]
    /\ engine \in [Runs -> {"none", "running", "ContinuedAsNew"} \union Outcomes]

\* An item never has two open executions, nor two open requests: the callers
\* decide it under the item's lock, so the partial unique indexes are never
\* what stops one.
OneOpenOfEach ==
    /\ Cardinality(OpenExecs) <= 1
    /\ Cardinality({i \in DOMAIN reqs : reqs[i].state \in {"pending", "claimed"}}) <= 1

\* Of two clients, or a client and a dispatcher, that resume the item as they
\* saw it, one starts a run: no two executions resumed the same version.
OneResumePerVersion ==
    \A d, e \in DOMAIN execs :
        /\ execs[d].path \in {"resume", "fulfil_resume"}
        /\ execs[e].path \in {"resume", "fulfil_resume"}
        /\ execs[d].version = execs[e].version
        => d = e

\* A fulfilled request has an execution of its own, attached by the
\* dispatcher that claimed it last, at the version its requester saw; every
\* execution a dispatcher attached answers a request.
FulfilmentIsFenced ==
    /\ \A i \in DOMAIN reqs :
           reqs[i].state = "fulfilled" =>
               /\ reqs[i].exec \in DOMAIN execs
               /\ execs[reqs[i].exec].by = reqs[i].by
               /\ execs[reqs[i].exec].version = reqs[i].expected
    /\ \A e \in DOMAIN execs :
           execs[e].by # NoClaimant =>
               Cardinality({i \in DOMAIN reqs : reqs[i].exec = e}) = 1

\* However often a client sends a request with one idempotency key, it makes
\* one execution or one request.
RetryCreatesOnce ==
    \A k \in Keys : Cardinality({e \in DOMAIN execs : execs[e].key = k})
                    + Cardinality({i \in DOMAIN reqs : reqs[i].key = k}) <= 1

\* The API itself closes an execution, by a sweep or after a failed submit,
\* only when its run is over or was never created, and it stays so: no second
\* run is let onto an item that still has one, be it a continuation.
ClosedRunsAreDead ==
    \A e \in DOMAIN execs :
        execs[e].swept => engine[execs[e].run] \notin {"running", "ContinuedAsNew"}

\* What is finished stays finished: an outcome is never changed, not by a late
\* report and not by a sweep that read the execution when it was open, and a
\* completed, superseded or archived item keeps its row and gets no execution
\* and no request.
FinishedIsFinal ==
    [][/\ \A e \in DOMAIN execs :
              IsTerminalPhase(execs[e].phase) => execs'[e].phase = execs[e].phase
       /\ IsTerminal(item.state) =>
              /\ item' = item
              /\ Len(execs') = Len(execs)
              /\ Len(reqs') = Len(reqs)]_vars

\* A claim takes a request nobody holds, although it was found outside the
\* lock; with the switch on, only when the item has nothing running.
ClaimIsExclusive ==
    [][\A i \in DOMAIN reqs :
           reqs'[i].token # reqs[i].token =>
               /\ reqs[i].state = "pending" \/ reqs[i].left = 0
               /\ reqs[i].state \notin {"fulfilled", "rejected"}
               /\ QueueWhileActive => OpenExecs = {}]_vars

\* What the engine answers can never show that the run of an execution is
\* over: it has no run of Temporal to ask for, the workflow it names has a
\* younger run, or the run it names was continued.
Unprovable(e) ==
    \/ execs[e].ref = "other"
    \/ execs[e].ref = "workflow" /\ execs[e].late
    \/ engine[execs[e].run] = "ContinuedAsNew"

\* A request is handed to a dispatcher in the end, although it may be queued
\* behind an execution whose run died without a report.  Only an execution
\* that stays open and whose run cannot be shown to be over keeps it waiting.
QueuedIsClaimed ==
    \A i \in 1..MaxRequests :
        <>[](i \in DOMAIN reqs /\ reqs[i].state = "pending")
            => <>[](\E e \in OpenExecs : Unprovable(e))
=============================================================================
