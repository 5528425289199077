--------------------------- MODULE WorkItemsProofs --------------------------
(***************************************************************************)
(* Proofs about the safety of WorkItems, for any number of dispatchers,    *)
(* sweepers, submits, runs and keys and any bounds.  The unique indexes    *)
(* become "any two are the same one"; the rest of the invariant says what  *)
(* the actors that read outside the item's lock still know when they act:  *)
(* a claim token that is current belongs to its holder, a run a sweep      *)
(* found closed cannot start any more, a submit that found its Workflow    *)
(* absent is the only one that could have created it.                      *)
(***************************************************************************)
EXTENDS WorkItems, FiniteSetTheorems, TLAPS

\* One open execution and one open request.
OpenOnce ==
    /\ \A d, e \in OpenExecs : d = e
    /\ \A i, j \in OpenRequests : i = j

\* A resumed version is in the past, and no other execution resumed it.
ResumedOnce ==
    /\ \A e \in DOMAIN execs :
          execs[e].path \in {"resume", "fulfil_resume"} => execs[e].version < item.version
    /\ OneResumePerVersion

\* Fulfilled requests and the executions of dispatchers, one to one.
FulfilledOnce ==
    /\ \A i \in DOMAIN reqs :
          /\ reqs[i].expected < MaxVersion
          /\ reqs[i].exec # 0 <=> reqs[i].state = "fulfilled"
          /\ reqs[i].state = "fulfilled" =>
                /\ reqs[i].exec \in DOMAIN execs
                /\ execs[reqs[i].exec].by = reqs[i].by
                /\ execs[reqs[i].exec].version = reqs[i].expected
    /\ \A i, j \in DOMAIN reqs : reqs[i].exec # 0 /\ reqs[i].exec = reqs[j].exec => i = j
    /\ \A e \in DOMAIN execs :
          execs[e].by # NoClaimant => \E i \in DOMAIN reqs : reqs[i].exec = e

\* A key that is in use is recorded and is in use once.
KeysOnce ==
    /\ \A e \in DOMAIN execs : execs[e].key # NoKey => execs[e].key \in used
    /\ \A i \in DOMAIN reqs : reqs[i].key # NoKey => reqs[i].key \in used
    /\ \A d, e \in DOMAIN execs : execs[d].key # NoKey /\ execs[d].key = execs[e].key => d = e
    /\ \A i, j \in DOMAIN reqs : reqs[i].key # NoKey /\ reqs[i].key = reqs[j].key => i = j
    /\ \A e \in DOMAIN execs, i \in DOMAIN reqs : execs[e].key # NoKey => execs[e].key # reqs[i].key

\* The claim token a dispatcher holds is its own or has been superseded.
ClaimsOwned ==
    \A c \in Claimants :
        /\ claimer[c].pc # "idle" => claimer[c].req \in DOMAIN reqs
        /\ claimer[c].pc = "holding" =>
              /\ claimer[c].token <= reqs[claimer[c].req].token
              /\ claimer[c].token = reqs[claimer[c].req].token => reqs[claimer[c].req].by = c

\* An execution of a Temporal run that is too old for the run to start still.
TooOld(e) == e \in DOMAIN execs /\ execs[e].run \in TemporalRuns /\ execs[e].age = MinAge

\* A run that does not go on, nor continues as another.
Over(r) == engine[r] \notin {"running", "ContinuedAsNew"}

\* A sweep works on an old execution that was open; one found dead stays so.
SweepsInformed ==
    \A s \in Sweepers :
        /\ sweeper[s].pc # "idle" => TooOld(sweeper[s].exec) /\ ~IsTerminalPhase(sweeper[s].phase)
        /\ sweeper[s].pc = "dead" => Over(execs[sweeper[s].exec].run)

\* A submit under way is the only one of its Workflow, and knows whether it
\* has been created.
SubmitsAlone ==
    /\ \A u \in Submitters :
          /\ submit[u].run \in SubmittedRuns
          /\ submit[u].pc # "idle" => Attached(submit[u].run)
          /\ submit[u].pc \in {"attached", "absent"} => engine[submit[u].run] = "none"
    /\ \A u, v \in Submitters :
          submit[u].pc # "idle" /\ submit[v].pc # "idle" /\ submit[u].run = submit[v].run => u = v

\* The run of an execution the API closed is over, and cannot start any more.
ClosedForGood ==
    \A e \in DOMAIN execs : execs[e].swept =>
        /\ Over(execs[e].run)
        /\ \/ TooOld(e)
           \/ /\ execs[e].run \in SubmittedRuns
              /\ \A u \in Submitters : submit[u].run = execs[e].run => submit[u].pc # "attached"

IInv ==
    /\ TypeOK
    /\ OpenOnce
    /\ ResumedOnce
    /\ FulfilledOnce
    /\ KeysOnce
    /\ ClaimsOwned
    /\ SweepsInformed
    /\ SubmitsAlone
    /\ ClosedForGood

-----------------------------------------------------------------------------
(* Facts about the tables and what a statement does to them *)

LEMMA Terminals ==
    /\ \A state : IsTerminal(state) <=> state \notin {"active", "waiting"}
    /\ \A phase \in Phases : IsTerminalPhase(phase) <=> phase \notin {"Pending", "Running"}
  BY DEF IsTerminal, Transitions, IsTerminalPhase, Phases

\* A function on the domain of a sequence is a sequence.
LEMMA EditedSeq ==
    ASSUME NEW S, NEW q \in Seq(S), NEW f, f = [i \in DOMAIN q |-> f[i]],
           \A i \in DOMAIN q : f[i] \in S
    PROVE  f \in Seq(S) /\ DOMAIN f = DOMAIN q /\ Len(f) = Len(q)
  <1>1. DOMAIN q = 1 .. Len(q) /\ Len(q) \in Nat
    OBVIOUS
  <1>2. f \in [1 .. Len(q) -> S]
    BY <1>1
  <1> QED
    BY <1>1, <1>2

LEMMA GrownSeq ==
    ASSUME NEW S, NEW q \in Seq(S), NEW x \in S, NEW f, f = Append(q, x)
    PROVE  /\ f \in Seq(S)
           /\ DOMAIN f = DOMAIN q \union {Len(q) + 1} /\ Len(q) + 1 \notin DOMAIN q
           /\ f[Len(q) + 1] = x
           /\ \A i \in DOMAIN q : f[i] = q[i]
           /\ Len(q) \in Nat
  OBVIOUS

LEMMA Elements ==
    ASSUME TypeOK
    PROVE  /\ \A e \in DOMAIN execs : execs[e] \in Execution
           /\ \A i \in DOMAIN reqs : reqs[i] \in Request
           /\ DOMAIN execs \subseteq Nat \ {0} /\ DOMAIN reqs \subseteq Nat \ {0}
  <1>1. execs \in Seq(Execution) /\ reqs \in Seq(Request)
    BY DEF TypeOK
  <1> QED
    BY <1>1

\* A new execution.
Grown(x) ==
    /\ execs' \in Seq(Execution)
    /\ DOMAIN execs' = DOMAIN execs \union {Len(execs) + 1} /\ Len(execs) + 1 \notin DOMAIN execs
    /\ execs'[Len(execs) + 1] = x
    /\ \A e \in DOMAIN execs : execs'[e] = execs[e]

\* The executions keep what they were attached with, and an outcome stays.
Kept ==
    /\ execs' \in Seq(Execution)
    /\ DOMAIN execs' = DOMAIN execs
    /\ \A e \in DOMAIN execs :
          /\ execs'[e].run = execs[e].run /\ execs'[e].path = execs[e].path
          /\ execs'[e].version = execs[e].version /\ execs'[e].key = execs[e].key
          /\ execs'[e].by = execs[e].by
          /\ execs[e].age = MinAge => execs'[e].age = MinAge
          /\ IsTerminalPhase(execs[e].phase) => execs'[e].phase = execs[e].phase

\* The requests keep everything but their claim; a closed one stays closed.
ReqsKept ==
    /\ reqs' \in Seq(Request)
    /\ DOMAIN reqs' = DOMAIN reqs
    /\ \A i \in DOMAIN reqs :
          /\ reqs'[i].expected = reqs[i].expected /\ reqs'[i].key = reqs[i].key
          /\ reqs'[i].exec = reqs[i].exec
          /\ reqs'[i].state \in {"pending", "claimed"} => reqs[i].state \in {"pending", "claimed"}
          /\ reqs'[i].state = "fulfilled" <=> reqs[i].state = "fulfilled"
          /\ reqs[i].state = "fulfilled" => reqs'[i].by = reqs[i].by

LEMMA KeptIfUnchanged == TypeOK /\ UNCHANGED execs => Kept
  BY DEF TypeOK, Kept

LEMMA ReqsKeptIfUnchanged == TypeOK /\ UNCHANGED reqs => ReqsKept
  BY DEF TypeOK, ReqsKept

-----------------------------------------------------------------------------
LEMMA InitInv == Init => IInv
  <1> SUFFICES ASSUME Init PROVE IInv
    OBVIOUS
  <1>1. TypeOK
    BY WorkItemsAssumption
    DEF Init, TypeOK, States, Claimer, IdleClaimer, Sweeper, IdleSweeper, Submit, Phases
  <1>2. DOMAIN execs = {} /\ DOMAIN reqs = {}
    BY DEF Init
  <1>3. OpenOnce /\ ResumedOnce /\ FulfilledOnce /\ KeysOnce /\ ClosedForGood
    BY <1>2 DEF OpenOnce, OpenExecs, OpenRequests, ResumedOnce, OneResumePerVersion, FulfilledOnce,
       KeysOnce, ClosedForGood
  <1>4. ClaimsOwned /\ SweepsInformed
    BY DEF Init, ClaimsOwned, SweepsInformed, IdleClaimer, IdleSweeper
  <1>5. SubmitsAlone
    BY DEF Init, SubmitsAlone
  <1> QED
    BY <1>1, <1>3, <1>4, <1>5 DEF IInv

\* Steps that attach no execution and create no request.
LEMMA TablesKept ==
    ASSUME IInv, Kept, ReqsKept, item'.version >= item.version,
           item'.version \in Nat, used \subseteq used'
    PROVE  OpenOnce' /\ ResumedOnce' /\ FulfilledOnce' /\ KeysOnce'
  <1> USE DEF IInv
  <1>1. /\ \A e \in DOMAIN execs : execs[e] \in Execution /\ execs[e].phase \in Phases
        /\ \A e \in DOMAIN execs : execs[e].version \in Nat
    BY Elements DEF Execution
  <1>2. item.version \in Nat
    BY WorkItemsAssumption DEF TypeOK
  <1>3. OpenOnce'
    <2>1. OpenExecs' \subseteq OpenExecs
      BY DEF Kept, OpenExecs
    <2>2. OpenRequests' \subseteq OpenRequests
      BY DEF ReqsKept, OpenRequests
    <2> QED
      BY <2>1, <2>2 DEF OpenOnce
  <1>4. ResumedOnce'
    BY <1>1, <1>2 DEF Kept, ResumedOnce, OneResumePerVersion
  <1>5. FulfilledOnce'
    <2>1. ASSUME NEW i \in DOMAIN reqs
          PROVE  /\ reqs'[i].expected < MaxVersion
                 /\ reqs'[i].exec # 0 <=> reqs'[i].state = "fulfilled"
                 /\ reqs'[i].state = "fulfilled" =>
                       /\ reqs'[i].exec \in DOMAIN execs
                       /\ execs'[reqs'[i].exec].by = reqs'[i].by
                       /\ execs'[reqs'[i].exec].version = reqs'[i].expected
      BY DEF Kept, ReqsKept, FulfilledOnce
    <2>2. ASSUME NEW i \in DOMAIN reqs, NEW j \in DOMAIN reqs,
                 reqs'[i].exec # 0, reqs'[i].exec = reqs'[j].exec
          PROVE  i = j
      BY <2>2 DEF ReqsKept, FulfilledOnce
    <2>3. ASSUME NEW e \in DOMAIN execs, execs'[e].by # NoClaimant
          PROVE  \E i \in DOMAIN reqs : reqs'[i].exec = e
      BY <2>3 DEF Kept, ReqsKept, FulfilledOnce
    <2> QED
      BY <2>1, <2>2, <2>3 DEF Kept, ReqsKept, FulfilledOnce
  <1>6. KeysOnce'
    BY DEF Kept, ReqsKept, KeysOnce
  <1> QED
    BY <1>3, <1>4, <1>5, <1>6

\* Steps of sweepers, submits and runs leave the dispatchers alone.
LEMMA ClaimsKept ==
    ASSUME IInv, UNCHANGED <<claimer, reqs>>
    PROVE  ClaimsOwned'
  BY DEF IInv, ClaimsOwned

\* Steps of others leave the sweeps alone.
LEMMA SweepsKept ==
    ASSUME IInv, Kept, UNCHANGED <<sweeper, engine>>
    PROVE  SweepsInformed'
  BY DEF IInv, SweepsInformed, TooOld, Over, Kept

LEMMA SubmitsKept ==
    ASSUME IInv, Kept, UNCHANGED <<submit, engine>>
    PROVE  SubmitsAlone'
  BY DEF IInv, SubmitsAlone, Attached, Kept

LEMMA ClosedKept ==
    ASSUME IInv, Kept, UNCHANGED <<submit, engine>>,
           \A e \in DOMAIN execs : execs'[e].swept => execs[e].swept
    PROVE  ClosedForGood'
  BY DEF IInv, ClosedForGood, TooOld, Over, Kept

-----------------------------------------------------------------------------
(* Steps that touch neither table *)

\* A dispatcher finds a candidate, skips it or forgets its claim.
LEMMA ClaimScanInv ==
    ASSUME IInv, NEW c \in Claimants, ClaimScan(c) \/ ClaimSkip(c) \/ LetGo(c)
    PROVE  IInv'
  <1>1. UNCHANGED <<item, execs, reqs, used, sweeper, submit, engine>>
    BY DEF ClaimScan, ClaimSkip, LetGo
  <1>2. PICK x \in Claimer : /\ claimer' = [claimer EXCEPT ![c] = x]
                             /\ x.pc # "idle" => x.req \in DOMAIN reqs
                             /\ x.pc # "holding"
    <2>1. CASE ClaimScan(c)
      <3>1. PICK i \in DOMAIN reqs :
               claimer' = [claimer EXCEPT ![c] = [pc |-> "scanned", req |-> i, token |-> 0]]
        BY <2>1 DEF ClaimScan
      <3>2. [pc |-> "scanned", req |-> i, token |-> 0] \in Claimer
        BY Elements DEF IInv, Claimer
      <3> QED
        BY <3>1, <3>2
    <2>2. CASE ClaimSkip(c) \/ LetGo(c)
      <3>1. IdleClaimer \in Claimer /\ IdleClaimer.pc = "idle"
        BY DEF IdleClaimer, Claimer
      <3> QED
        BY <2>2, <3>1 DEF ClaimSkip, LetGo
    <2> QED
      BY <2>1, <2>2
  <1>3. TypeOK'
    BY <1>1, <1>2 DEF IInv, TypeOK
  <1>4. Kept /\ ReqsKept /\ item'.version = item.version /\ item.version \in Nat
    BY <1>1, KeptIfUnchanged, ReqsKeptIfUnchanged, WorkItemsAssumption DEF IInv, TypeOK
  <1>5. ClaimsOwned'
    BY <1>1, <1>2 DEF IInv, TypeOK, ClaimsOwned
  <1> QED
    BY <1>1, <1>3, <1>4, <1>5, TablesKept, SweepsKept, SubmitsKept, ClosedKept DEF IInv

\* A sweep lists an execution, asks after its run or gives up.
LEMMA SweepReadInv ==
    ASSUME IInv, NEW s \in Sweepers, SweepList(s) \/ SweepDead(s) \/ SweepLeave(s)
    PROVE  IInv'
  <1>1. UNCHANGED <<item, execs, reqs, used, claimer, submit, engine>>
    BY DEF SweepList, SweepDead, SweepLeave
  <1>0. sweeper[s] \in Sweeper /\ sweeper \in [Sweepers -> Sweeper]
    BY DEF IInv, TypeOK
  <1>2. PICK x \in Sweeper :
           /\ sweeper' = [sweeper EXCEPT ![s] = x]
           /\ x.pc # "idle" => TooOld(x.exec) /\ ~IsTerminalPhase(x.phase)
           /\ x.pc = "dead" => Over(execs[x.exec].run)
    <2>1. CASE SweepList(s)
      <3>1. PICK e \in DOMAIN execs :
               /\ Candidate(e)
               /\ sweeper' = [sweeper EXCEPT ![s] =
                     [pc |-> "listed", exec |-> e, phase |-> execs[e].phase]]
        BY <2>1 DEF SweepList
      <3>2. [pc |-> "listed", exec |-> e, phase |-> execs[e].phase] \in Sweeper
        BY Elements DEF IInv, Sweeper, Execution
      <3> QED
        BY <3>1, <3>2 DEF Candidate, OpenExecs, TooOld
    <2>2. CASE SweepDead(s)
      <3>1. PICK x : x = [sweeper[s] EXCEPT !.pc = "dead"]
        OBVIOUS
      <3>2. sweeper' = [sweeper EXCEPT ![s] = x]
        BY <2>2, <3>1, <1>0 DEF SweepDead
      <3>3. x \in Sweeper /\ x.exec = sweeper[s].exec /\ x.phase = sweeper[s].phase
        BY <1>0, <3>1 DEF Sweeper
      <3>4. Over(execs[x.exec].run)
        BY <2>2, <3>3 DEF SweepDead, RunClosed, IsTerminalPhase, Over
      <3>5. TooOld(x.exec) /\ ~IsTerminalPhase(x.phase)
        BY <2>2, <3>3 DEF SweepDead, IInv, SweepsInformed
      <3> QED
        BY <3>2, <3>3, <3>4, <3>5
    <2>3. CASE SweepLeave(s)
      <3>1. IdleSweeper \in Sweeper /\ IdleSweeper.pc = "idle"
        BY DEF IdleSweeper, Sweeper, Phases
      <3> QED
        BY <2>3, <3>1 DEF SweepLeave
    <2> QED
      BY <2>1, <2>2, <2>3
  <1>3. TypeOK'
    BY <1>1, <1>2 DEF IInv, TypeOK
  <1>4. Kept /\ ReqsKept /\ item'.version = item.version /\ item.version \in Nat
    BY <1>1, KeptIfUnchanged, ReqsKeptIfUnchanged, WorkItemsAssumption DEF IInv, TypeOK
  <1>5. SweepsInformed'
    BY <1>0, <1>1, <1>2 DEF IInv, SweepsInformed, TooOld, Over
  <1> QED
    BY <1>1, <1>3, <1>4, <1>5, TablesKept, ClaimsKept, SubmitsKept, ClosedKept DEF IInv

\* The step of a submit, as a fact about every submit.
LEMMA SubmitMoved ==
    ASSUME TypeOK, NEW u \in Submitters, NEW from,
           NEW to \in {"idle", "attached", "unknown", "absent"}, SubmitAt(u, from, to)
    PROVE  /\ submit[u].pc = from
           /\ submit' \in [Submitters -> Submit]
           /\ submit'[u].pc = to /\ submit'[u].run = submit[u].run
           /\ \A v \in Submitters : v # u => submit'[v] = submit[v]
  <1>1. submit[u] \in Submit
    BY DEF TypeOK
  <1>2. PICK x : x = [submit[u] EXCEPT !.pc = to]
    OBVIOUS
  <1>3. x \in Submit /\ x.pc = to /\ x.run = submit[u].run
    BY <1>1, <1>2 DEF Submit
  <1>4. submit' = [submit EXCEPT ![u] = x]
    BY <1>2 DEF SubmitAt, TypeOK
  <1> QED
    BY <1>3, <1>4 DEF SubmitAt, TypeOK

\* The Workflow is not created, looked up or left.
LEMMA SubmitReadInv ==
    ASSUME IInv, NEW u \in Submitters, SubmitFails(u) \/ SubmitLookup(u) \/ SubmitLeave(u)
    PROVE  IInv'
  <1>1. UNCHANGED <<item, execs, reqs, used, claimer, sweeper, engine>>
    BY DEF SubmitFails, SubmitLookup, SubmitLeave
  <1>2. PICK from \in {"attached", "unknown", "absent"}, to \in {"idle", "unknown", "absent"} :
           /\ SubmitAt(u, from, to)
           /\ to = "absent" => engine[submit[u].run] = "none"
    <2>1. CASE SubmitFails(u)
      BY <2>1 DEF SubmitFails, SubmitAt, IInv, SubmitsAlone
    <2>2. CASE SubmitLookup(u)
      BY <2>2 DEF SubmitLookup, ConfirmedAbsent
    <2>3. CASE SubmitLeave(u)
      BY <2>3 DEF SubmitLeave
    <2> QED
      BY <2>1, <2>2, <2>3
  <1>3. /\ submit[u].pc = from
        /\ submit' \in [Submitters -> Submit]
        /\ submit'[u].pc = to /\ submit'[u].run = submit[u].run
        /\ \A v \in Submitters : v # u => submit'[v] = submit[v]
    BY <1>2, SubmitMoved DEF IInv
  <1>4. TypeOK'
    BY <1>1, <1>3 DEF IInv, TypeOK
  <1>5. Kept /\ ReqsKept /\ item'.version = item.version /\ item.version \in Nat
    BY <1>1, KeptIfUnchanged, ReqsKeptIfUnchanged, WorkItemsAssumption DEF IInv, TypeOK
  <1>6. SubmitsAlone'
    BY <1>1, <1>2, <1>3 DEF IInv, SubmitsAlone, Attached
  <1>7. ClosedForGood'
    BY <1>1, <1>2, <1>3 DEF IInv, ClosedForGood, TooOld, Over
  <1> QED
    BY <1>1, <1>4, <1>5, <1>6, <1>7, TablesKept, ClaimsKept, SweepsKept DEF IInv

\* The Workflow is created.  No other submit has its name, and neither a
\* sweep nor a failed submit has closed its execution.
LEMMA SubmitCreatesInv ==
    ASSUME IInv, NEW u \in Submitters, SubmitCreates(u)
    PROVE  IInv'
  <1>1. UNCHANGED <<item, execs, reqs, used, claimer, sweeper>>
    BY DEF SubmitCreates
  <1>2. PICK to \in {"idle", "unknown"} : SubmitAt(u, "attached", to)
    BY DEF SubmitCreates
  <1>3. /\ submit[u].pc = "attached"
        /\ submit' \in [Submitters -> Submit]
        /\ submit'[u].pc = to /\ submit'[u].run = submit[u].run
        /\ \A v \in Submitters : v # u => submit'[v] = submit[v]
    BY <1>2, SubmitMoved DEF IInv
  <1> DEFINE r == submit[u].run
  <1>4. r \in SubmittedRuns /\ r \in Runs \ TemporalRuns
    BY WorkItemsAssumption DEF IInv, SubmitsAlone
  <1>5. /\ engine' \in [Runs -> {"none", "running", "ContinuedAsNew"} \union Outcomes]
        /\ engine'[r] = "running" /\ \A q \in Runs : q # r => engine'[q] = engine[q]
    BY <1>4 DEF SubmitCreates, IInv, TypeOK
  <1>6. TypeOK'
    BY <1>1, <1>3, <1>5 DEF IInv, TypeOK
  <1>7. Kept /\ ReqsKept /\ item'.version = item.version /\ item.version \in Nat
    BY <1>1, KeptIfUnchanged, ReqsKeptIfUnchanged, WorkItemsAssumption DEF IInv, TypeOK
  <1>8. \A e \in DOMAIN execs : execs[e].run \in Runs
    BY Elements DEF IInv, Execution
  <1>9. SweepsInformed'
    BY <1>1, <1>4, <1>5, <1>8 DEF IInv, SweepsInformed, TooOld, Over
  <1>10. SubmitsAlone'
    BY <1>1, <1>3, <1>4, <1>5, WorkItemsAssumption DEF IInv, SubmitsAlone, Attached
  <1>11. ClosedForGood'
    BY <1>1, <1>3, <1>4, <1>5, <1>8 DEF IInv, ClosedForGood, TooOld, Over
  <1> QED
    BY <1>1, <1>6, <1>7, <1>9, <1>10, <1>11, TablesKept, ClaimsKept DEF IInv

EngineMoves(r) == EngineStart(r) \/ EngineEnd(r) \/ ContinueAsNew(r) \/ StartAgain(r)

\* All that changes of an execution whose workflow got a younger run is late.
LEMMA OvertakenKeeps ==
    ASSUME TypeOK, NEW r, Overtaken(r)
    PROVE  Kept /\ \A e \in DOMAIN execs : execs'[e].swept = execs[e].swept
  <1>1. ASSUME NEW e \in DOMAIN execs
        PROVE  /\ execs'[e] \in Execution
               /\ execs'[e].run = execs[e].run /\ execs'[e].path = execs[e].path
               /\ execs'[e].version = execs[e].version /\ execs'[e].key = execs[e].key
               /\ execs'[e].by = execs[e].by /\ execs'[e].age = execs[e].age
               /\ execs'[e].phase = execs[e].phase /\ execs'[e].swept = execs[e].swept
    <2>1. execs[e] \in Execution
      BY Elements
    <2>2. PICK x : x = [execs[e] EXCEPT !.late = TRUE]
      OBVIOUS
    <2>3. /\ x \in Execution /\ x.run = execs[e].run /\ x.path = execs[e].path
          /\ x.version = execs[e].version /\ x.key = execs[e].key /\ x.by = execs[e].by
          /\ x.age = execs[e].age /\ x.phase = execs[e].phase /\ x.swept = execs[e].swept
      BY <2>1, <2>2 DEF Execution
    <2>4. execs'[e] = x \/ execs'[e] = execs[e]
      BY <2>2 DEF Overtaken
    <2> QED
      BY <2>1, <2>3, <2>4
  <1>2. execs' \in Seq(Execution) /\ DOMAIN execs' = DOMAIN execs
    <2>1. execs' = [e \in DOMAIN execs |-> execs'[e]]
      BY DEF Overtaken
    <2> QED
      BY <1>1, <2>1, EditedSeq DEF TypeOK
  <1> QED
    BY <1>1, <1>2 DEF Kept

LEMMA EngineKeeps ==
    ASSUME TypeOK, NEW r \in Runs, EngineMoves(r)
    PROVE  /\ Kept /\ \A e \in DOMAIN execs : execs'[e].swept = execs[e].swept
           /\ UNCHANGED <<item, reqs, used, claimer, sweeper, submit>>
  <1>1. CASE EngineStart(r)
    BY <1>1, OvertakenKeeps DEF EngineStart
  <1>2. CASE EngineEnd(r)
    BY <1>2, KeptIfUnchanged DEF EngineEnd
  <1>3. CASE ContinueAsNew(r)
    BY <1>3, OvertakenKeeps DEF ContinueAsNew
  <1>4. CASE StartAgain(r)
    BY <1>4, OvertakenKeeps DEF StartAgain
  <1> QED
    BY <1>1, <1>2, <1>3, <1>4 DEF EngineMoves

\* A run starts, ends or continues by itself: only one that a sweep found gone
\* does not.  A workflow that is started again is not the run it was.
LEMMA EngineInv ==
    ASSUME IInv, NEW r \in Runs, EngineMoves(r)
    PROVE  IInv'
  <1> USE DEF IInv
  <1>1. UNCHANGED <<item, reqs, used, claimer, sweeper, submit>>
    BY EngineKeeps
  <1>2. PICK x \in {"none", "running", "ContinuedAsNew"} \union Outcomes :
           /\ engine' = [engine EXCEPT ![r] = x]
           /\ engine[r] = "none" => r \notin SubmittedRuns
           /\ x \in {"running", "ContinuedAsNew"} =>
                 \/ ~Over(r)
                 \/ r \notin SubmittedRuns /\ \A e \in DOMAIN execs : execs[e].run = r => ~TooOld(e)
    <2>1. CASE EngineStart(r)
      <3>1. \A e \in DOMAIN execs : execs[e].run = r => execs[e].age # MinAge
        BY <2>1, WorkItemsAssumption, Elements DEF EngineStart, Execution
      <3> QED
        BY <2>1, <3>1 DEF EngineStart, TooOld
    <2>2. CASE EngineEnd(r)
      BY <2>2, WorkItemsAssumption DEF EngineEnd
    <2>3. CASE ContinueAsNew(r)
      BY <2>3 DEF ContinueAsNew, Over
    <2>4. CASE StartAgain(r)
      <3>1. engine' = [engine EXCEPT ![r] = engine[r]] /\ Over(r) /\ engine[r] # "none"
        BY <2>4 DEF StartAgain, TypeOK, IsTerminalPhase, Over
      <3> QED
        BY <3>1 DEF TypeOK, Over
    <2> QED
      BY <2>1, <2>2, <2>3, <2>4 DEF EngineMoves
  <1>3. /\ engine' \in [Runs -> {"none", "running", "ContinuedAsNew"} \union Outcomes]
        /\ engine'[r] = x /\ \A q \in Runs : q # r => engine'[q] = engine[q]
    BY <1>2 DEF TypeOK
  <1>4. Kept /\ \A e \in DOMAIN execs : execs'[e].swept = execs[e].swept
    BY EngineKeeps
  <1>5. ReqsKept /\ item'.version = item.version /\ item.version \in Nat
    BY <1>1, ReqsKeptIfUnchanged, WorkItemsAssumption DEF TypeOK
  <1>6. \A e \in DOMAIN execs : execs[e].run \in Runs /\ execs'[e].run = execs[e].run
    BY <1>4, Elements DEF Execution, Kept
  <1>7. TypeOK'
    BY <1>1, <1>3, <1>4 DEF TypeOK, Kept
  <1>8. \A e \in DOMAIN execs : Over(execs[e].run) /\ (TooOld(e) \/ r \in SubmittedRuns)
                                    => Over(execs[e].run)'
    BY <1>2, <1>3, <1>6 DEF Over
  <1>9. SweepsInformed'
    BY <1>1, <1>4, <1>6, <1>8 DEF SweepsInformed, TooOld, Kept
  <1>10. SubmitsAlone'
    <2>1. ASSUME NEW q PROVE Attached(q)' <=> Attached(q)
      BY <1>4 DEF Attached, Kept
    <2> QED
      BY <1>1, <1>2, <1>3, <2>1, WorkItemsAssumption DEF SubmitsAlone
  <1>11. ClosedForGood'
    BY <1>1, <1>2, <1>3, <1>4, <1>6, <1>8 DEF ClosedForGood, TooOld, Over, Kept
  <1> QED
    BY <1>1, <1>4, <1>5, <1>7, <1>9, <1>10, <1>11, TablesKept, ClaimsKept

-----------------------------------------------------------------------------
(* Steps that attach an execution *)

\* What the callers of InsertExecution have made sure of.
Fresh(x) ==
    /\ x \in Execution /\ ~x.swept
    /\ IsTerminalPhase(x.phase) \/ OpenExecs = {}
    /\ x.version = item.version
    /\ \/ UNCHANGED item
       \/ item'.version = item.version + 1
    /\ x.path \in {"resume", "fulfil_resume"} => item'.version = item.version + 1
    /\ x.key # NoKey => x.key \notin used /\ x.key \in used'
    /\ used \subseteq used'

\* No claim is fulfilled by it.
Unasked(x) == UNCHANGED reqs /\ x.by = NoClaimant

\* Request i is fulfilled by it.
Answers(x, i) ==
    /\ i \in DOMAIN reqs
    /\ reqs[i].state = "claimed" /\ x.by = reqs[i].by /\ x.version = reqs[i].expected
    /\ reqs' \in Seq(Request) /\ DOMAIN reqs' = DOMAIN reqs
    /\ \A j \in DOMAIN reqs : j # i => reqs'[j] = reqs[j]
    /\ reqs'[i].state = "fulfilled" /\ reqs'[i].exec = Len(execs) + 1
    /\ reqs'[i].expected = reqs[i].expected /\ reqs'[i].key = reqs[i].key
    /\ reqs'[i].by = reqs[i].by /\ reqs'[i].token = reqs[i].token

LEMMA GrownTables ==
    ASSUME IInv, NEW x, Fresh(x), Grown(x), Unasked(x) \/ \E i \in DOMAIN reqs : Answers(x, i)
    PROVE  OpenOnce' /\ ResumedOnce' /\ FulfilledOnce' /\ KeysOnce'
  <1> USE DEF IInv
  <1>1. PICK n : n = Len(execs) + 1
    OBVIOUS
  <1>2. /\ DOMAIN execs' = DOMAIN execs \union {n} /\ n \notin DOMAIN execs
        /\ execs'[n] = x /\ \A e \in DOMAIN execs : execs'[e] = execs[e]
    BY <1>1 DEF Grown
  <1>3. /\ n \in Nat \ {0}
        /\ item.version \in Nat
        /\ \A e \in DOMAIN execs : execs[e].version \in Nat
    BY <1>1, Elements, WorkItemsAssumption DEF TypeOK, Execution
  <1>4. OpenOnce'
    <2>1. OpenRequests' \subseteq OpenRequests
      BY DEF Unasked, Answers, OpenRequests
    <2>2. OpenExecs' \subseteq OpenExecs \/ OpenExecs' = {n}
      BY <1>2 DEF OpenExecs, Fresh
    <2> QED
      BY <2>1, <2>2 DEF OpenOnce
  <1>5. ResumedOnce'
    BY <1>2, <1>3 DEF ResumedOnce, OneResumePerVersion, Fresh
  <1>6. FulfilledOnce'
    <2>1. CASE Unasked(x)
      BY <1>2, <2>1 DEF FulfilledOnce, Unasked
    <2>2. CASE \E i \in DOMAIN reqs : Answers(x, i)
      <3>1. PICK i \in DOMAIN reqs : Answers(x, i)
        BY <2>2
      <3>2. /\ DOMAIN reqs' = DOMAIN reqs
            /\ \A j \in DOMAIN reqs : j # i => reqs'[j] = reqs[j]
            /\ reqs'[i].state = "fulfilled" /\ reqs'[i].exec = n
            /\ reqs'[i].expected = reqs[i].expected /\ reqs'[i].by = reqs[i].by
            /\ x.by = reqs[i].by /\ x.version = reqs[i].expected
            /\ reqs[i].state = "claimed"
        BY <1>1, <3>1 DEF Answers
      <3>3. ASSUME NEW j \in DOMAIN reqs
            PROVE  /\ reqs'[j].expected < MaxVersion
                   /\ reqs'[j].exec # 0 <=> reqs'[j].state = "fulfilled"
                   /\ reqs'[j].state = "fulfilled" =>
                         /\ reqs'[j].exec \in DOMAIN execs'
                         /\ execs'[reqs'[j].exec].by = reqs'[j].by
                         /\ execs'[reqs'[j].exec].version = reqs'[j].expected
        BY <1>2, <1>3, <3>2 DEF FulfilledOnce
      <3>4. ASSUME NEW j \in DOMAIN reqs, NEW k \in DOMAIN reqs,
                   reqs'[j].exec # 0, reqs'[j].exec = reqs'[k].exec
            PROVE  j = k
        BY <1>2, <3>2, <3>4 DEF FulfilledOnce
      <3>5. ASSUME NEW e \in DOMAIN execs', execs'[e].by # NoClaimant
            PROVE  \E j \in DOMAIN reqs : reqs'[j].exec = e
        <4>1. CASE e = n
          BY <3>2, <4>1
        <4>2. CASE e # n
          <5>1. PICK j \in DOMAIN reqs : reqs[j].exec = e
            BY <1>2, <3>5, <4>2 DEF FulfilledOnce
          <5>2. e # 0
            BY <1>2, <4>2, Elements
          <5>3. j # i
            BY <3>2, <5>1, <5>2 DEF FulfilledOnce
          <5> QED
            BY <3>2, <5>1, <5>3
        <4> QED
          BY <4>1, <4>2
      <3> QED
        BY <3>2, <3>3, <3>4, <3>5 DEF FulfilledOnce
    <2> QED
      BY <2>1, <2>2
  <1>7. KeysOnce'
    <2>1. /\ DOMAIN reqs' = DOMAIN reqs
          /\ \A j \in DOMAIN reqs : reqs'[j].key = reqs[j].key
      BY DEF Unasked, Answers
    <2> QED
      BY <1>2, <2>1 DEF KeysOnce, Fresh
  <1> QED
    BY <1>4, <1>5, <1>6, <1>7

\* The actors' knowledge survives a new execution.
LEMMA GrownActors ==
    ASSUME IInv, NEW x, Fresh(x), Grown(x), Unasked(x) \/ \E i \in DOMAIN reqs : Answers(x, i),
           UNCHANGED <<claimer, sweeper, engine>>
    PROVE  /\ ClaimsOwned'
           /\ SweepsInformed'
           /\ UNCHANGED submit => SubmitsAlone' /\ ClosedForGood'
  <1> USE DEF IInv
  <1>1. ClaimsOwned'
    <2>1. /\ DOMAIN reqs' = DOMAIN reqs
          /\ \A j \in DOMAIN reqs : reqs'[j].token = reqs[j].token /\ reqs'[j].by = reqs[j].by
      BY DEF Unasked, Answers
    <2> QED
      BY <2>1 DEF ClaimsOwned
  <1>2. SweepsInformed'
    BY DEF SweepsInformed, TooOld, Over, Grown
  <1>3. ASSUME UNCHANGED submit PROVE SubmitsAlone'
    <2>1. ASSUME NEW r, Attached(r) PROVE Attached(r)'
      BY <2>1 DEF Attached, Grown
    <2> QED
      BY <1>3, <2>1 DEF SubmitsAlone
  <1>4. ASSUME UNCHANGED submit PROVE ClosedForGood'
    BY <1>4 DEF ClosedForGood, TooOld, Over, Grown, Fresh
  <1> QED
    BY <1>1, <1>2, <1>3, <1>4

\* InsertExecution, as facts about the table.
LEMMA Inserted ==
    ASSUME TypeOK, NEW r \in Runs, NEW phase \in Phases,
           NEW path \in {"attach", "resume", "fulfil_start", "fulfil_resume"}, NEW from \in Nat,
           NEW k \in Keys \union {NoKey}, NEW c \in Claimants \union {NoClaimant},
           InsertExecution(r, phase, path, from, k, c)
    PROVE  \E x \in Execution :
              /\ Grown(x)
              /\ x.run = r /\ x.phase = phase /\ x.path = path /\ x.key = k
              /\ x.version = item.version /\ x.by = c /\ ~x.swept
  <1>0. PICK ref \in Refs(r) : execs' = Append(execs,
           [run |-> r, phase |-> phase, path |-> path, from |-> from, age |-> 0,
            key |-> k, version |-> item.version, by |-> c, swept |-> FALSE,
            ref |-> ref, late |-> FALSE])
    BY DEF InsertExecution
  <1>1. PICK x : x = [run |-> r, phase |-> phase, path |-> path, from |-> from, age |-> 0,
                      key |-> k, version |-> item.version, by |-> c, swept |-> FALSE,
                      ref |-> ref, late |-> FALSE]
    OBVIOUS
  <1>2. x \in Execution
    BY <1>1, WorkItemsAssumption DEF Execution, TypeOK, Refs
  <1>3. execs' = Append(execs, x) /\ execs \in Seq(Execution)
    BY <1>0, <1>1 DEF TypeOK
  <1>4. Grown(x)
    BY <1>2, <1>3, GrownSeq DEF Grown
  <1> QED
    BY <1>1, <1>2, <1>4

LEMMA Remembered ==
    ASSUME TypeOK, NEW k \in Keys \union {NoKey}, NewKey(k), Remember(k)
    PROVE  /\ used \subseteq used' /\ used' \subseteq Keys
           /\ k # NoKey => k \notin used /\ k \in used'
  BY DEF TypeOK, NewKey, Remember

\* resumeTx, whoever calls it.
LEMMA Resumed ==
    ASSUME IInv, NEW v \in 1 .. (MaxVersion - 1), NEW from \in {0} \union DOMAIN execs,
           NEW r \in Runs, NEW path \in {"resume", "fulfil_resume"},
           NEW k \in Keys \union {NoKey}, NEW c \in Claimants \union {NoClaimant},
           ResumeTx(v, from, r, path, k, c),
           used \subseteq used', k # NoKey => k \notin used /\ k \in used'
    PROVE  /\ \E x : Fresh(x) /\ Grown(x) /\ x.by = c /\ x.version = v
           /\ item' \in [state : States, version : 1 .. MaxVersion]
  <1> USE DEF IInv
  <1>0. PICK f : f = IF from = 0 THEN Len(execs) ELSE from
    OBVIOUS
  <1>1. f \in Nat
    BY <1>0, Elements DEF TypeOK
  <1>2. "Pending" \in Phases
    BY DEF Phases
  <1>3. PICK x \in Execution :
           /\ Grown(x)
           /\ x.path = path /\ x.key = k
           /\ x.version = item.version /\ x.by = c /\ ~x.swept
    <2>1. InsertExecution(r, "Pending", path, f, k, c)
      BY <1>0 DEF ResumeTx
    <2> QED
      BY <1>1, <1>2, <2>1, Inserted
  <1>4. item' = [state |-> "active", version |-> v + 1] /\ item.version = v /\ OpenExecs = {}
    BY DEF ResumeTx
  <1>5. Fresh(x)
    BY <1>3, <1>4 DEF Fresh
  <1>6. item' \in [state : States, version : 1 .. MaxVersion]
    BY <1>4, WorkItemsAssumption DEF States
  <1> QED
    BY <1>3, <1>4, <1>5, <1>6

LEMMA ResumeInv ==
    ASSUME IInv, NEW k \in Keys \union {NoKey}, NEW v \in 1 .. (MaxVersion - 1),
           NEW from \in {0} \union DOMAIN execs, NEW r \in Runs, Resume(v, from, r, k)
    PROVE  IInv'
  <1> USE DEF IInv
  <1>1. /\ ResumeTx(v, from, r, "resume", k, NoClaimant)
        /\ UNCHANGED <<reqs, claimer, sweeper, submit, engine>>
    BY DEF Resume
  <1>2. /\ used \subseteq used' /\ used' \subseteq Keys
        /\ k # NoKey => k \notin used /\ k \in used'
    BY Remembered DEF Resume
  <1>3. /\ \E x : Fresh(x) /\ Grown(x) /\ x.by = NoClaimant
        /\ item' \in [state : States, version : 1 .. MaxVersion]
    BY <1>1, <1>2, Resumed
  <1>4. PICK x : Fresh(x) /\ Grown(x) /\ Unasked(x)
    BY <1>1, <1>3 DEF Unasked
  <1>5. TypeOK'
    BY <1>1, <1>2, <1>3, <1>4 DEF TypeOK, Grown
  <1> QED
    BY <1>1, <1>4, <1>5, GrownTables, GrownActors

LEMMA AttachNewInv ==
    ASSUME IInv, NEW k \in Keys \union {NoKey}, NEW r \in Runs, NEW phase \in Phases,
           AttachNew(r, phase, k)
    PROVE  IInv'
  <1> USE DEF IInv
  <1>1. /\ AttachNewTx(r, phase, "attach", k, NoClaimant)
        /\ UNCHANGED <<item, reqs, claimer, sweeper, submit, engine>>
    BY DEF AttachNew
  <1>2. /\ used \subseteq used' /\ used' \subseteq Keys
        /\ k # NoKey => k \notin used /\ k \in used'
    BY Remembered DEF AttachNew
  <1>3. PICK x \in Execution :
           /\ Grown(x)
           /\ x.phase = phase /\ x.path = "attach" /\ x.key = k
           /\ x.version = item.version /\ x.by = NoClaimant /\ ~x.swept
    BY <1>1, Inserted DEF AttachNewTx
  <1>4. Fresh(x) /\ Unasked(x)
    BY <1>1, <1>2, <1>3 DEF Fresh, Unasked, AttachNewTx
  <1>5. TypeOK'
    BY <1>1, <1>2, <1>3 DEF TypeOK, Grown
  <1> QED
    BY <1>1, <1>3, <1>4, <1>5, GrownTables, GrownActors

\* The request whose claim is still held when it is fulfilled.
LEMMA HeldClaim ==
    ASSUME IInv, NEW c \in Claimants, Holds(c)
    PROVE  /\ claimer[c].req \in DOMAIN reqs
           /\ reqs[claimer[c].req] \in Request
           /\ reqs[claimer[c].req].state = "claimed"
           /\ reqs[claimer[c].req].by = c
  BY Elements DEF Holds, IInv, ClaimsOwned

LEMMA Fulfils ==
    ASSUME IInv, NEW c \in Claimants, Holds(c), Fulfilled(claimer[c].req), NEW x,
           x.by = c, x.version = reqs[claimer[c].req].expected
    PROVE  Answers(x, claimer[c].req)
  <1> USE DEF IInv
  <1>1. PICK i : i = claimer[c].req
    OBVIOUS
  <1>2. i \in DOMAIN reqs /\ reqs[i] \in Request /\ reqs[i].state = "claimed" /\ reqs[i].by = c
    BY <1>1, HeldClaim
  <1>0. PICK n \in Nat : n = Len(execs) + 1
    BY DEF TypeOK
  <1>3. PICK y : y = [reqs[i] EXCEPT !.state = "fulfilled", !.exec = n]
    OBVIOUS
  <1>4. /\ y \in Request
        /\ y.state = "fulfilled" /\ y.exec = n /\ y.expected = reqs[i].expected
        /\ y.key = reqs[i].key /\ y.by = reqs[i].by /\ y.token = reqs[i].token
    BY <1>2, <1>3 DEF Request
  <1>5. reqs' = [reqs EXCEPT ![i] = y]
    BY <1>0, <1>1, <1>2, <1>3 DEF Fulfilled, TypeOK
  <1>6. reqs' \in Seq(Request) /\ DOMAIN reqs' = DOMAIN reqs
    BY <1>2, <1>4, <1>5 DEF TypeOK
  <1>7. reqs'[i] = y /\ \A j \in DOMAIN reqs : j # i => reqs'[j] = reqs[j]
    BY <1>2, <1>5 DEF TypeOK
  <1> QED
    BY <1>0, <1>1, <1>2, <1>4, <1>6, <1>7 DEF Answers

LEMMA FulfilStartInv ==
    ASSUME IInv, NEW c \in Claimants, NEW r \in Runs, FulfilStart(c, r)
    PROVE  IInv'
  <1> USE DEF IInv
  <1>1. /\ AttachNewTx(r, "Running", "fulfil_start", NoKey, c)
        /\ Holds(c) /\ Fulfilled(claimer[c].req)
        /\ item.version = reqs[claimer[c].req].expected
        /\ UNCHANGED <<item, used, claimer, sweeper, submit, engine>>
    BY DEF FulfilStart
  <1>2. "Running" \in Phases
    BY DEF Phases
  <1>3. PICK x \in Execution :
           /\ Grown(x)
           /\ x.phase = "Running" /\ x.path = "fulfil_start" /\ x.key = NoKey
           /\ x.version = item.version /\ x.by = c /\ ~x.swept
    BY <1>1, <1>2, Inserted DEF AttachNewTx
  <1>4. Fresh(x)
    BY <1>1, <1>3 DEF Fresh, AttachNewTx
  <1>5. Answers(x, claimer[c].req)
    BY <1>1, <1>3, Fulfils
  <1>6. \E i \in DOMAIN reqs : Answers(x, i)
    <2>1. claimer[c].req \in DOMAIN reqs
      BY <1>1, HeldClaim
    <2> QED
      BY <1>5, <2>1, Zenon
  <1>7. TypeOK'
    BY <1>1, <1>3, <1>5 DEF TypeOK, Grown, Answers
  <1> QED
    BY <1>1, <1>3, <1>4, <1>6, <1>7, GrownTables, GrownActors

LEMMA FulfilResumeInv ==
    ASSUME IInv, NEW c \in Claimants, NEW r \in Runs, FulfilResume(c, r)
    PROVE  IInv'
  <1> USE DEF IInv
  <1>1. PICK i : i = claimer[c].req
    OBVIOUS
  <1>2. /\ ResumeTx(reqs[i].expected, reqs[i].from, r, "fulfil_resume", NoKey, c)
        /\ Holds(c) /\ Fulfilled(i)
        /\ UNCHANGED <<used, claimer, sweeper, submit, engine>>
    BY <1>1 DEF FulfilResume
  <1>3. i \in DOMAIN reqs /\ reqs[i] \in Request
    BY <1>1, <1>2, HeldClaim
  <1>4. reqs[i].expected \in 1 .. (MaxVersion - 1) /\ reqs[i].from \in {0} \union DOMAIN execs
    <2>1. reqs[i].expected \in Nat /\ reqs[i].expected < MaxVersion
      BY <1>3 DEF Request, FulfilledOnce
    <2>2. item.version = reqs[i].expected /\ item.version \in 1 .. MaxVersion
      BY <1>2 DEF ResumeTx, TypeOK
    <2> QED
      BY <1>2, <2>1, <2>2, WorkItemsAssumption DEF ResumeTx
  <1>5. /\ \E x : Fresh(x) /\ Grown(x) /\ x.by = c /\ x.version = reqs[i].expected
        /\ item' \in [state : States, version : 1 .. MaxVersion]
    BY <1>2, <1>4, Resumed
  <1>6. PICK x : Fresh(x) /\ Grown(x) /\ x.by = c /\ x.version = reqs[i].expected
    BY <1>5
  <1>7. Answers(x, i)
    BY <1>1, <1>2, <1>6, Fulfils
  <1>8. TypeOK'
    BY <1>2, <1>5, <1>6, <1>7 DEF TypeOK, Grown, Answers
  <1> QED
    BY <1>2, <1>3, <1>6, <1>7, <1>8, GrownTables, GrownActors

\* The execution of a Workflow is recorded first, under a name of its own.
LEMMA PrepareSubmitInv ==
    ASSUME IInv, NEW u \in Submitters, PrepareSubmitExecution(u)
    PROVE  IInv'
  <1> USE DEF IInv
  <1>1. PICK r : r = submit[u].run
    OBVIOUS
  <1>2. /\ SubmitAt(u, "idle", "attached") /\ engine[r] = "none" /\ ~Attached(r)
        /\ AttachNewTx(r, "Pending", "attach", NoKey, NoClaimant)
        /\ UNCHANGED <<item, reqs, used, claimer, sweeper, engine>>
    BY <1>1 DEF PrepareSubmitExecution
  <1>3. /\ submit' \in [Submitters -> Submit]
        /\ submit'[u].pc = "attached" /\ submit'[u].run = r
        /\ \A v \in Submitters : v # u => submit'[v] = submit[v]
    BY <1>1, <1>2, SubmitMoved
  <1>4. r \in Runs /\ r \in SubmittedRuns /\ "Pending" \in Phases
    BY <1>1, WorkItemsAssumption DEF SubmitsAlone, Phases
  <1>5. PICK x \in Execution :
           /\ Grown(x)
           /\ x.run = r /\ x.phase = "Pending" /\ x.path = "attach" /\ x.key = NoKey
           /\ x.version = item.version /\ x.by = NoClaimant /\ ~x.swept
    BY <1>2, <1>4, Inserted DEF AttachNewTx
  <1>6. Fresh(x) /\ Unasked(x)
    BY <1>2, <1>5 DEF Fresh, Unasked, AttachNewTx
  <1>7. TypeOK'
    BY <1>2, <1>3, <1>5 DEF TypeOK, Grown
  <1>8. SubmitsAlone'
    <2>1. ASSUME NEW q, Attached(q) PROVE Attached(q)'
      BY <1>5, <2>1 DEF Attached, Grown
    <2>2. Attached(r)'
      BY <1>5 DEF Attached, Grown
    <2> QED
      BY <1>2, <1>3, <1>4, <2>1, <2>2 DEF SubmitsAlone
  <1>9. ClosedForGood'
    BY <1>2, <1>3, <1>5 DEF ClosedForGood, TooOld, Over, Grown, Attached
  <1> QED
    BY <1>2, <1>5, <1>6, <1>7, <1>8, <1>9, GrownTables, GrownActors

-----------------------------------------------------------------------------
(* Steps that edit an execution *)

\* A report replaces an open phase.
LEMMA AttachKnownInv ==
    ASSUME IInv, NEW k \in Keys \union {NoKey}, NEW r \in Runs, NEW phase \in Phases,
           AttachKnown(r, phase, k)
    PROVE  IInv' /\ Kept /\ ReqsKept
  <1> USE DEF IInv
  <1>1. PICK e \in DOMAIN execs :
           /\ NewKey(k) /\ Remember(k)
           /\ execs[e].phase # phase => ~IsTerminalPhase(execs[e].phase)
           /\ execs' = [execs EXCEPT ![e].phase = phase]
           /\ UNCHANGED <<item, reqs, claimer, sweeper, submit, engine>>
    BY DEF AttachKnown
  <1>2. used \subseteq used' /\ used' \subseteq Keys
    BY <1>1, Remembered
  <1>3. PICK x : x = [execs[e] EXCEPT !.phase = phase]
    OBVIOUS
  <1>4. /\ x \in Execution /\ x.phase = phase /\ x.run = execs[e].run /\ x.path = execs[e].path
        /\ x.version = execs[e].version /\ x.key = execs[e].key /\ x.by = execs[e].by
        /\ x.age = execs[e].age /\ x.swept = execs[e].swept
    BY <1>3, Elements DEF Execution
  <1>5. execs' = [execs EXCEPT ![e] = x] /\ execs \in Seq(Execution)
    BY <1>1, <1>3 DEF TypeOK
  <1>6. /\ execs' \in Seq(Execution) /\ DOMAIN execs' = DOMAIN execs
        /\ execs'[e] = x /\ \A d \in DOMAIN execs : d # e => execs'[d] = execs[d]
    BY <1>4, <1>5
  <1>7. Kept /\ \A d \in DOMAIN execs : execs'[d].swept => execs[d].swept
    BY <1>1, <1>4, <1>6 DEF Kept
  <1>8. TypeOK'
    BY <1>1, <1>2, <1>6 DEF TypeOK
  <1>9. ReqsKept /\ item'.version = item.version /\ item.version \in Nat
    BY <1>1, ReqsKeptIfUnchanged, WorkItemsAssumption DEF TypeOK
  <1> QED
    BY <1>1, <1>2, <1>7, <1>8, <1>9, TablesKept, ClaimsKept, SweepsKept, SubmitsKept, ClosedKept

\* The sweep closes what it found dead.  The phase it compares was open, so
\* an outcome that arrived in between is left alone.
LEMMA CloseOrphanedInv ==
    ASSUME IInv, NEW s \in Sweepers, CloseOrphanedExecution(s)
    PROVE  IInv' /\ Kept /\ ReqsKept
  <1> USE DEF IInv
  <1>1. PICK e : e = sweeper[s].exec
    OBVIOUS
  <1>2. /\ execs' = IF execs[e].phase = sweeper[s].phase
                    THEN [execs EXCEPT ![e].phase = "Error", ![e].swept = TRUE]
                    ELSE execs
        /\ sweeper' = [sweeper EXCEPT ![s] = IdleSweeper]
        /\ UNCHANGED <<item, reqs, used, claimer, submit, engine>>
    BY <1>1 DEF CloseOrphanedExecution
  <1>3. /\ e \in DOMAIN execs /\ execs[e].run \in TemporalRuns /\ execs[e].age = MinAge
        /\ Over(execs[e].run) /\ ~IsTerminalPhase(sweeper[s].phase)
    BY <1>1 DEF CloseOrphanedExecution, SweepsInformed, TooOld
  <1>4. IdleSweeper \in Sweeper /\ IdleSweeper.pc = "idle"
    BY DEF IdleSweeper, Sweeper, Phases
  <1>5. /\ sweeper' \in [Sweepers -> Sweeper] /\ sweeper'[s].pc = "idle"
        /\ \A t \in Sweepers : t # s => sweeper'[t] = sweeper[t]
    BY <1>2, <1>4 DEF TypeOK
  <1>6. Kept /\ \A d \in DOMAIN execs : execs'[d].swept => execs[d].swept \/ d = e
    <2>1. CASE execs' = execs
      BY <2>1, KeptIfUnchanged
    <2>2. CASE execs[e].phase = sweeper[s].phase
      <3>1. PICK x : x = [execs[e] EXCEPT !.phase = "Error", !.swept = TRUE]
        OBVIOUS
      <3>2. execs[e] \in Execution /\ "Error" \in Phases
        BY <1>3, Elements DEF Phases
      <3>3. /\ x \in Execution /\ x.run = execs[e].run /\ x.path = execs[e].path
            /\ x.version = execs[e].version /\ x.key = execs[e].key /\ x.by = execs[e].by
            /\ x.age = execs[e].age
        BY <3>1, <3>2 DEF Execution
      <3>4. execs' = [execs EXCEPT ![e] = x] /\ execs \in Seq(Execution)
        BY <1>2, <1>3, <2>2, <3>1 DEF TypeOK
      <3>5. /\ execs' \in Seq(Execution) /\ DOMAIN execs' = DOMAIN execs
            /\ execs'[e] = x /\ \A d \in DOMAIN execs : d # e => execs'[d] = execs[d]
        BY <1>3, <3>3, <3>4
      <3> QED
        BY <1>3, <2>2, <3>3, <3>5 DEF Kept
    <2> QED
      BY <1>2, <2>1, <2>2
  <1>7. TypeOK'
    BY <1>2, <1>5, <1>6 DEF TypeOK, Kept
  <1>8. ReqsKept /\ item'.version = item.version /\ item.version \in Nat
    BY <1>2, ReqsKeptIfUnchanged, WorkItemsAssumption DEF TypeOK
  <1>9. SweepsInformed'
    BY <1>2, <1>5, <1>6 DEF SweepsInformed, TooOld, Over, Kept
  <1>10. ClosedForGood'
    BY <1>2, <1>3, <1>6 DEF ClosedForGood, TooOld, Over, Kept
  <1> QED
    BY <1>2, <1>6, <1>7, <1>8, <1>9, <1>10, TablesKept, ClaimsKept, SubmitsKept

\* A submit ends the execution of the Workflow it found absent.
LEMMA SubmitEndedInv ==
    ASSUME IInv, NEW u \in Submitters, SubmitEnded(u)
    PROVE  IInv' /\ Kept /\ ReqsKept
  <1> USE DEF IInv
  <1>1. PICK r : r = submit[u].run
    OBVIOUS
  <1>2. /\ execs' = [e \in DOMAIN execs |->
              IF execs[e].run = r /\ ~IsTerminalPhase(execs[e].phase)
              THEN [execs[e] EXCEPT !.phase = "Error", !.swept = TRUE] ELSE execs[e]]
        /\ SubmitAt(u, "absent", "idle")
    BY <1>1 DEF SubmitEnded
  <1>0. UNCHANGED <<item, reqs, used, claimer, sweeper, engine>>
    BY DEF SubmitEnded
  <1>3. /\ submit[u].pc = "absent"
        /\ submit' \in [Submitters -> Submit]
        /\ submit'[u].pc = "idle" /\ submit'[u].run = r
        /\ \A v \in Submitters : v # u => submit'[v] = submit[v]
    BY <1>1, <1>2, SubmitMoved
  <1>4. r \in SubmittedRuns /\ engine[r] = "none"
    BY <1>1, <1>3 DEF SubmitsAlone
  <1>5. ASSUME NEW e \in DOMAIN execs
        PROVE  /\ execs'[e] \in Execution
               /\ execs'[e].run = execs[e].run /\ execs'[e].path = execs[e].path
               /\ execs'[e].version = execs[e].version /\ execs'[e].key = execs[e].key
               /\ execs'[e].by = execs[e].by /\ execs'[e].age = execs[e].age
               /\ IsTerminalPhase(execs[e].phase) => execs'[e].phase = execs[e].phase
               /\ execs'[e].swept => execs[e].swept \/ execs[e].run = r
    <2>1. execs[e] \in Execution /\ "Error" \in Phases
      BY Elements DEF Phases
    <2>2. PICK x : x = [execs[e] EXCEPT !.phase = "Error", !.swept = TRUE]
      OBVIOUS
    <2>3. /\ x \in Execution /\ x.run = execs[e].run /\ x.path = execs[e].path
          /\ x.version = execs[e].version /\ x.key = execs[e].key /\ x.by = execs[e].by
          /\ x.age = execs[e].age
      BY <2>1, <2>2 DEF Execution
    <2>4. \/ execs'[e] = x /\ execs[e].run = r /\ ~IsTerminalPhase(execs[e].phase)
          \/ execs'[e] = execs[e]
      BY <1>2, <2>2
    <2> QED
      BY <2>1, <2>3, <2>4
  <1>6. execs' \in Seq(Execution) /\ DOMAIN execs' = DOMAIN execs
    <2>1. execs' = [e \in DOMAIN execs |-> execs'[e]]
      BY <1>2
    <2> QED
      BY <1>5, <2>1, EditedSeq DEF TypeOK
  <1>7. Kept
    BY <1>5, <1>6 DEF Kept
  <1>8. TypeOK'
    BY <1>0, <1>3, <1>6 DEF TypeOK
  <1>9. ReqsKept /\ item'.version = item.version /\ item.version \in Nat
    BY <1>0, ReqsKeptIfUnchanged, WorkItemsAssumption DEF TypeOK
  <1>10. SubmitsAlone'
    <2>1. ASSUME NEW q PROVE Attached(q)' <=> Attached(q)
      BY <1>7 DEF Attached, Kept
    <2> QED
      BY <1>1, <1>0, <1>3, <2>1 DEF SubmitsAlone
  <1>11. \A v \in Submitters : submit'[v].run = r => submit'[v].pc # "attached"
    BY <1>1, <1>3 DEF SubmitsAlone
  <1>12. ClosedForGood'
    BY <1>1, <1>0, <1>3, <1>4, <1>5, <1>6, <1>11 DEF ClosedForGood, TooOld, Over
  <1> QED
    BY <1>0, <1>7, <1>8, <1>9, <1>10, <1>12, TablesKept, ClaimsKept, SweepsKept

-----------------------------------------------------------------------------
(* Steps on the item and its requests *)

LEMMA TransitionInv ==
    ASSUME IInv, NEW k \in Keys \union {NoKey}, NEW v \in 1 .. (MaxVersion - 1),
           NEW a \in Asked, Transition(v, a, k)
    PROVE  IInv'
  <1> USE DEF IInv
  <1>1. UNCHANGED <<execs, reqs, claimer, sweeper, submit, engine>>
    BY DEF Transition
  <1>2. used \subseteq used' /\ used' \subseteq Keys
    BY Remembered DEF Transition
  <1>3. /\ item' = [state |-> Transitions[item.state][a], version |-> v + 1]
        /\ item.version = v /\ item.state \in {"active", "waiting"}
        /\ a \in DOMAIN Transitions[item.state]
    BY Terminals DEF Transition
  <1>4. Transitions[item.state][a] \in States
    <2>1. CASE item.state = "active"
      BY <1>3, <2>1 DEF Transitions, States
    <2>2. CASE item.state = "waiting"
      BY <1>3, <2>2 DEF Transitions, States
    <2> QED
      BY <1>3, <2>1, <2>2
  <1>5. item' \in [state : States, version : 1 .. MaxVersion] /\ item'.version = item.version + 1
    BY <1>3, <1>4, WorkItemsAssumption
  <1>6. TypeOK'
    BY <1>1, <1>2, <1>5 DEF TypeOK
  <1>7. Kept /\ ReqsKept /\ item'.version >= item.version /\ item'.version \in Nat
    BY <1>1, <1>5, KeptIfUnchanged, ReqsKeptIfUnchanged, WorkItemsAssumption DEF TypeOK
  <1> QED
    BY <1>1, <1>2, <1>6, <1>7, TablesKept, ClaimsKept, SweepsKept, SubmitsKept, ClosedKept

LEMMA CreateRequestInv ==
    ASSUME IInv, NEW k \in Keys \union {NoKey}, NEW v \in 1 .. (MaxVersion - 1),
           NEW kind \in Kinds, NEW from \in {0} \union DOMAIN execs,
           CreateExecutionRequest(v, kind, from, k)
    PROVE  IInv'
  <1> USE DEF IInv
  <1>1. PICK y : y = [kind |-> kind, expected |-> v, from |-> from, key |-> k, state |-> "pending",
                      by |-> NoClaimant, token |-> 0, left |-> 0, exec |-> 0]
    OBVIOUS
  <1>2. /\ reqs' = Append(reqs, y) /\ OpenRequests = {}
        /\ UNCHANGED <<item, execs, claimer, sweeper, submit, engine>>
    BY <1>1 DEF CreateExecutionRequest
  <1>3. /\ used \subseteq used' /\ used' \subseteq Keys
        /\ k # NoKey => k \notin used /\ k \in used'
    BY Remembered DEF CreateExecutionRequest
  <1>4. /\ y \in Request /\ y.state = "pending" /\ y.exec = 0 /\ y.expected < MaxVersion
        /\ y.key = k
    BY <1>1, WorkItemsAssumption, Elements DEF Request
  <1>5. PICK n : n = Len(reqs) + 1
    OBVIOUS
  <1>6. /\ reqs' \in Seq(Request)
        /\ DOMAIN reqs' = DOMAIN reqs \union {n} /\ n \notin DOMAIN reqs
        /\ reqs'[n] = y /\ \A i \in DOMAIN reqs : reqs'[i] = reqs[i]
    BY <1>2, <1>4, <1>5, GrownSeq DEF TypeOK
  <1>7. TypeOK'
    BY <1>2, <1>3, <1>6 DEF TypeOK
  <1>8. OpenOnce'
    <2>1. OpenRequests' \subseteq {n}
      BY <1>2, <1>6 DEF OpenRequests
    <2>2. OpenExecs' = OpenExecs
      BY <1>2 DEF OpenExecs
    <2> QED
      BY <2>1, <2>2 DEF OpenOnce
  <1>9. ResumedOnce'
    BY <1>2 DEF ResumedOnce, OneResumePerVersion
  <1>10. FulfilledOnce'
    <2>1. ASSUME NEW i \in DOMAIN reqs'
          PROVE  /\ reqs'[i].expected < MaxVersion
                 /\ reqs'[i].exec # 0 <=> reqs'[i].state = "fulfilled"
                 /\ reqs'[i].state = "fulfilled" =>
                       /\ reqs'[i].exec \in DOMAIN execs
                       /\ execs[reqs'[i].exec].by = reqs'[i].by
                       /\ execs[reqs'[i].exec].version = reqs'[i].expected
      BY <1>4, <1>6 DEF FulfilledOnce
    <2>2. ASSUME NEW i \in DOMAIN reqs', NEW j \in DOMAIN reqs',
                 reqs'[i].exec # 0, reqs'[i].exec = reqs'[j].exec
          PROVE  i = j
      BY <1>4, <1>6, <2>2 DEF FulfilledOnce
    <2>3. ASSUME NEW e \in DOMAIN execs, execs[e].by # NoClaimant
          PROVE  \E i \in DOMAIN reqs' : reqs'[i].exec = e
      BY <1>6, <2>3 DEF FulfilledOnce
    <2> QED
      BY <1>2, <2>1, <2>2, <2>3 DEF FulfilledOnce
  <1>11. KeysOnce'
    BY <1>2, <1>3, <1>4, <1>6 DEF KeysOnce
  <1>12. ClaimsOwned'
    BY <1>2, <1>6 DEF ClaimsOwned
  <1>13. Kept
    BY <1>2, KeptIfUnchanged
  <1> QED
    BY <1>2, <1>7, <1>8, <1>9, <1>10, <1>11, <1>12, <1>13, SweepsKept, SubmitsKept, ClosedKept

\* A claim: the token is new, so what an earlier claimant holds is void.
LEMMA ClaimInv ==
    ASSUME IInv, NEW c \in Claimants, ClaimExecutionRequest(c)
    PROVE  IInv' /\ Kept /\ ReqsKept
  <1> USE DEF IInv
  <1>1. PICK i : i = claimer[c].req
    OBVIOUS
  <1>2. i \in DOMAIN reqs /\ reqs[i] \in Request
    BY <1>1, Elements DEF ClaimExecutionRequest, ClaimsOwned
  <1>3. PICK t : t = reqs[i].token + 1
    OBVIOUS
  <1>4. t \in 1 .. MaxClaims /\ t > reqs[i].token /\ reqs[i].state \in {"pending", "claimed"}
    <2>1. reqs[i].token \in 0 .. MaxClaims
      BY <1>2 DEF Request
    <2> QED
      BY <1>1, <1>3, <2>1, WorkItemsAssumption DEF ClaimExecutionRequest, ClaimGuard, Claimable
  <1>5. /\ reqs' = [reqs EXCEPT ![i].state = "claimed", ![i].by = c,
                                ![i].token = t, ![i].left = Lease]
        /\ claimer' = [claimer EXCEPT ![c] = [pc |-> "holding", req |-> i, token |-> t]]
        /\ UNCHANGED <<item, execs, used, sweeper, submit, engine>>
    BY <1>1, <1>3 DEF ClaimExecutionRequest
  <1>6. PICK y : y = [reqs[i] EXCEPT !.state = "claimed", !.by = c, !.token = t, !.left = Lease]
    OBVIOUS
  <1>7. /\ y \in Request /\ y.state = "claimed" /\ y.by = c /\ y.token = t
        /\ y.expected = reqs[i].expected /\ y.key = reqs[i].key /\ y.exec = reqs[i].exec
    <2>1. t \in 0 .. MaxClaims /\ Lease \in 0 .. Lease
      BY <1>4, WorkItemsAssumption
    <2> QED
      BY <1>2, <1>6, <2>1 DEF Request
  <1>8. reqs' = [reqs EXCEPT ![i] = y] /\ reqs \in Seq(Request)
    BY <1>2, <1>5, <1>6 DEF TypeOK
  <1>9. /\ reqs' \in Seq(Request) /\ DOMAIN reqs' = DOMAIN reqs
        /\ reqs'[i] = y /\ \A j \in DOMAIN reqs : j # i => reqs'[j] = reqs[j]
    BY <1>2, <1>7, <1>8
  <1>10. PICK x \in Claimer : /\ claimer' = [claimer EXCEPT ![c] = x]
                              /\ x.pc = "holding" /\ x.req = i /\ x.token = t
    <2>1. [pc |-> "holding", req |-> i, token |-> t] \in Claimer
      BY <1>2, <1>4, Elements, WorkItemsAssumption DEF Claimer
    <2> QED
      BY <1>5, <2>1
  <1>11. TypeOK'
    BY <1>5, <1>9, <1>10 DEF TypeOK
  <1>12. ReqsKept
    BY <1>4, <1>7, <1>9 DEF ReqsKept
  <1>13. Kept /\ item'.version = item.version /\ item.version \in Nat
    BY <1>5, KeptIfUnchanged, WorkItemsAssumption DEF TypeOK
  <1>14. ClaimsOwned'
    <2>1. \A d \in Claimants : claimer[d] \in Claimer /\ claimer[d].token \in Nat
      BY DEF TypeOK, Claimer
    <2>2. \A j \in DOMAIN reqs : reqs[j].token \in Nat
      BY Elements, WorkItemsAssumption DEF Request
    <2>3. claimer'[c] = x /\ \A d \in Claimants : d # c => claimer'[d] = claimer[d]
      BY <1>10 DEF TypeOK
    <2>4. ASSUME NEW d \in Claimants, d # c, claimer[d].pc = "holding"
          PROVE  /\ claimer[d].token <= reqs'[claimer[d].req].token
                 /\ claimer[d].token = reqs'[claimer[d].req].token
                       => reqs'[claimer[d].req].by = d
      <3>1. claimer[d].req \in DOMAIN reqs /\ claimer[d].token <= reqs[claimer[d].req].token
        BY <2>4 DEF ClaimsOwned
      <3>2. CASE claimer[d].req = i
        BY <1>2, <1>4, <1>7, <1>9, <2>1, <2>2, <3>1, <3>2
      <3>3. CASE claimer[d].req # i
        BY <1>9, <2>4, <3>1, <3>3 DEF ClaimsOwned
      <3> QED
        BY <3>2, <3>3
    <2>5. x.token <= reqs'[x.req].token /\ reqs'[x.req].by = c /\ x.req \in DOMAIN reqs
      BY <1>2, <1>4, <1>7, <1>9, <1>10
    <2> QED
      BY <1>9, <1>10, <2>3, <2>4, <2>5 DEF ClaimsOwned
  <1> QED
    BY <1>5, <1>11, <1>12, <1>13, <1>14, TablesKept, SweepsKept, SubmitsKept, ClosedKept

LEMMA RejectInv ==
    ASSUME IInv, NEW c \in Claimants, RejectExecutionRequest(c)
    PROVE  IInv' /\ Kept /\ ReqsKept
  <1> USE DEF IInv
  <1>1. PICK i : i = claimer[c].req
    OBVIOUS
  <1>2. i \in DOMAIN reqs /\ reqs[i] \in Request /\ reqs[i].state = "claimed"
    BY <1>1, HeldClaim DEF RejectExecutionRequest
  <1>3. /\ reqs' = [reqs EXCEPT ![i].state = "rejected"]
        /\ UNCHANGED <<item, execs, used, claimer, sweeper, submit, engine>>
    BY <1>1 DEF RejectExecutionRequest
  <1>4. PICK y : y = [reqs[i] EXCEPT !.state = "rejected"]
    OBVIOUS
  <1>5. /\ y \in Request /\ y.state = "rejected" /\ y.by = reqs[i].by /\ y.token = reqs[i].token
        /\ y.expected = reqs[i].expected /\ y.key = reqs[i].key /\ y.exec = reqs[i].exec
    BY <1>2, <1>4 DEF Request
  <1>6. reqs' = [reqs EXCEPT ![i] = y] /\ reqs \in Seq(Request)
    BY <1>2, <1>3, <1>4 DEF TypeOK
  <1>7. /\ reqs' \in Seq(Request) /\ DOMAIN reqs' = DOMAIN reqs
        /\ reqs'[i] = y /\ \A j \in DOMAIN reqs : j # i => reqs'[j] = reqs[j]
    BY <1>2, <1>5, <1>6
  <1>8. TypeOK'
    BY <1>3, <1>7 DEF TypeOK
  <1>9. ReqsKept
    BY <1>2, <1>5, <1>7 DEF ReqsKept
  <1>10. Kept /\ item'.version = item.version /\ item.version \in Nat
    BY <1>3, KeptIfUnchanged, WorkItemsAssumption DEF TypeOK
  <1>11. ClaimsOwned'
    BY <1>3, <1>5, <1>7 DEF ClaimsOwned
  <1> QED
    BY <1>3, <1>8, <1>9, <1>10, <1>11, TablesKept, SweepsKept, SubmitsKept, ClosedKept

LEMMA TickInv ==
    ASSUME IInv, Tick
    PROVE  IInv' /\ Kept /\ ReqsKept
  <1> USE DEF IInv
  <1>1. UNCHANGED <<item, used, claimer, sweeper, submit, engine>>
    BY DEF Tick
  <1>2. ASSUME NEW i \in DOMAIN reqs
        PROVE  /\ reqs'[i] \in Request
               /\ reqs'[i].expected = reqs[i].expected /\ reqs'[i].key = reqs[i].key
               /\ reqs'[i].exec = reqs[i].exec /\ reqs'[i].state = reqs[i].state
               /\ reqs'[i].by = reqs[i].by /\ reqs'[i].token = reqs[i].token
    <2>1. reqs[i] \in Request
      BY Elements
    <2>2. CASE reqs[i].state = "claimed" /\ reqs[i].left > 0
      <3>1. PICK n : n = reqs[i].left - 1
        OBVIOUS
      <3>2. n \in 0 .. Lease
        BY <2>1, <2>2, <3>1, WorkItemsAssumption DEF Request
      <3>3. reqs'[i] = [reqs[i] EXCEPT !.left = n]
        BY <2>2, <3>1 DEF Tick
      <3> QED
        BY <2>1, <3>2, <3>3 DEF Request
    <2>3. CASE ~(reqs[i].state = "claimed" /\ reqs[i].left > 0)
      BY <2>1, <2>3 DEF Tick
    <2> QED
      BY <2>2, <2>3
  <1>3. ASSUME NEW e \in DOMAIN execs
        PROVE  /\ execs'[e] \in Execution
               /\ execs'[e].run = execs[e].run /\ execs'[e].path = execs[e].path
               /\ execs'[e].version = execs[e].version /\ execs'[e].key = execs[e].key
               /\ execs'[e].by = execs[e].by /\ execs'[e].phase = execs[e].phase
               /\ execs'[e].swept = execs[e].swept
               /\ execs[e].age = MinAge => execs'[e].age = MinAge
    <2>1. execs[e] \in Execution
      BY Elements
    <2>2. CASE execs[e].age < MinAge
      <3>1. PICK n : n = execs[e].age + 1
        OBVIOUS
      <3>2. n \in 0 .. MinAge /\ execs[e].age # MinAge
        BY <2>1, <2>2, <3>1, WorkItemsAssumption DEF Execution
      <3>3. execs'[e] = [execs[e] EXCEPT !.age = n]
        BY <2>2, <3>1 DEF Tick
      <3> QED
        BY <2>1, <3>2, <3>3 DEF Execution
    <2>3. CASE ~(execs[e].age < MinAge)
      BY <2>1, <2>3 DEF Tick
    <2> QED
      BY <2>2, <2>3
  <1>4. execs' \in Seq(Execution) /\ DOMAIN execs' = DOMAIN execs
    <2>1. execs' = [e \in DOMAIN execs |-> execs'[e]]
      BY DEF Tick
    <2> QED
      BY <1>3, <2>1, EditedSeq DEF TypeOK
  <1>5. reqs' \in Seq(Request) /\ DOMAIN reqs' = DOMAIN reqs
    <2>1. reqs' = [i \in DOMAIN reqs |-> reqs'[i]]
      BY DEF Tick
    <2> QED
      BY <1>2, <2>1, EditedSeq DEF TypeOK
  <1>6. TypeOK'
    BY <1>1, <1>4, <1>5 DEF TypeOK
  <1>7. Kept /\ \A e \in DOMAIN execs : execs'[e].swept => execs[e].swept
    BY <1>3, <1>4 DEF Kept
  <1>8. ReqsKept /\ item'.version = item.version /\ item.version \in Nat
    BY <1>1, <1>2, <1>5, WorkItemsAssumption DEF ReqsKept, TypeOK
  <1>9. ClaimsOwned'
    BY <1>1, <1>2, <1>5 DEF ClaimsOwned
  <1> QED
    BY <1>1, <1>6, <1>7, <1>8, <1>9, TablesKept, SweepsKept, SubmitsKept, ClosedKept

-----------------------------------------------------------------------------
LEMMA ReportablePhases ==
    ASSUME TypeOK, NEW r \in Runs
    PROVE  Reportable(r) \subseteq Phases
  BY WorkItemsAssumption DEF Reportable, Phases, IsTerminalPhase, TypeOK

LEMMA NextInv == IInv /\ [Next]_vars => IInv'
  <1> SUFFICES ASSUME IInv, [Next]_vars PROVE IInv'
    OBVIOUS
  <1>1. CASE Client
    BY <1>1, TransitionInv, ResumeInv, CreateRequestInv DEF Client
  <1>2. CASE Reporter
    <2>0. PICK k \in Keys \union {NoKey}, r \in Runs :
             \E phase \in Reportable(r) : AttachNew(r, phase, k) \/ AttachKnown(r, phase, k)
      BY <1>2 DEF Reporter
    <2>1. PICK phase \in Reportable(r) : AttachNew(r, phase, k) \/ AttachKnown(r, phase, k)
      BY <2>0
    <2>2. phase \in Phases
      BY ReportablePhases DEF IInv
    <2> QED
      BY <2>1, <2>2, AttachNewInv, AttachKnownInv
  <1>3. ASSUME NEW c \in Claimants, Dispatcher(c) PROVE IInv'
    BY <1>3, ClaimScanInv, ClaimInv, FulfilStartInv, FulfilResumeInv, RejectInv DEF Dispatcher
  <1>4. ASSUME NEW s \in Sweepers, Sweep(s) PROVE IInv'
    BY <1>4, SweepReadInv, CloseOrphanedInv DEF Sweep
  <1>5. ASSUME NEW u \in Submitters, Submitter(u) PROVE IInv'
    BY <1>5, PrepareSubmitInv, SubmitCreatesInv, SubmitReadInv, SubmitEndedInv DEF Submitter
  <1>6. ASSUME NEW r \in Runs, EngineMoves(r) PROVE IInv'
    BY <1>6, EngineInv
  <1>7. CASE Tick
    BY <1>7, TickInv
  <1>8. CASE UNCHANGED vars
    BY <1>8 DEF vars, IInv, TypeOK, OpenOnce, OpenExecs, OpenRequests, ResumedOnce,
       OneResumePerVersion, FulfilledOnce, KeysOnce, ClaimsOwned, SweepsInformed, TooOld,
       SubmitsAlone, Attached, ClosedForGood, Over
  <1> QED
    BY <1>1, <1>2, <1>3, <1>4, <1>5, <1>6, <1>7, <1>8 DEF Next, EngineMoves

\* The inductive invariant holds in every reachable state.
THEOREM WorkItemsInvariant == SafeSpec => []IInv
  BY InitInv, NextInv, PTL DEF SafeSpec

\* Types are kept.
THEOREM TypeCorrect == SafeSpec => []TypeOK
  <1>1. IInv => TypeOK
    BY DEF IInv
  <1> QED
    BY <1>1, WorkItemsInvariant, PTL

-----------------------------------------------------------------------------
\* A set with at most one member is finite, and small.
LEMMA AtMostOne ==
    ASSUME NEW S, \A x, y \in S : x = y
    PROVE  Cardinality(S) \in {0, 1}
  <1>1. CASE S = {}
    BY <1>1, FS_EmptySet
  <1>2. CASE S # {}
    <2>1. PICK x : S = {x}
      BY <1>2
    <2> QED
      BY <2>1, FS_Singleton
  <1> QED
    BY <1>1, <1>2

LEMMA ExactlyOne ==
    ASSUME NEW S, \A x, y \in S : x = y, NEW z \in S
    PROVE  Cardinality(S) = 1
  <1>1. S = {z}
    OBVIOUS
  <1> QED
    BY <1>1, FS_Singleton

\* An item never has two open executions or two open requests, whatever the
\* order of attaches, resumes, claims, sweeps and submits.
THEOREM NeverTwoOpen == SafeSpec => []OneOpenOfEach
  <1>1. IInv => OneOpenOfEach
    <2> SUFFICES ASSUME IInv PROVE OneOpenOfEach
      OBVIOUS
    <2>1. Cardinality(OpenExecs) \in {0, 1}
      BY AtMostOne DEF IInv, OpenOnce
    <2>2. Cardinality(OpenRequests) \in {0, 1}
      BY AtMostOne DEF IInv, OpenOnce
    <2> QED
      BY <2>1, <2>2 DEF OneOpenOfEach, OpenRequests
  <1> QED
    BY <1>1, WorkItemsInvariant, PTL

\* A version is resumed at most once, by a client or by a dispatcher.
THEOREM ResumedAtMostOnce == SafeSpec => []OneResumePerVersion
  <1>1. IInv => OneResumePerVersion
    BY DEF IInv, ResumedOnce
  <1> QED
    BY <1>1, WorkItemsInvariant, PTL

\* Fulfilled requests and dispatched executions correspond one to one, and
\* agree on the dispatcher and on the version.
THEOREM FulfilledByItsHolder == SafeSpec => []FulfilmentIsFenced
  <1>1. IInv => FulfilmentIsFenced
    <2> SUFFICES ASSUME IInv PROVE FulfilmentIsFenced
      OBVIOUS
    <2>1. ASSUME NEW e \in DOMAIN execs, execs[e].by # NoClaimant
          PROVE  Cardinality({i \in DOMAIN reqs : reqs[i].exec = e}) = 1
      <3> DEFINE S == {i \in DOMAIN reqs : reqs[i].exec = e}
      <3>1. PICK z \in DOMAIN reqs : reqs[z].exec = e
        BY <2>1 DEF IInv, FulfilledOnce
      <3>2. e # 0
        BY Elements DEF IInv
      <3>3. \A i, j \in S : i = j
        BY <3>2 DEF IInv, FulfilledOnce
      <3>4. z \in S
        BY <3>1
      <3> QED
        BY <3>3, <3>4, ExactlyOne
    <2> QED
      BY <2>1 DEF FulfilmentIsFenced, IInv, FulfilledOnce
  <1> QED
    BY <1>1, WorkItemsInvariant, PTL

\* One idempotency key makes one execution or one request.
THEOREM KeyCreatesOnce == SafeSpec => []RetryCreatesOnce
  <1>1. IInv => RetryCreatesOnce
    <2> SUFFICES ASSUME IInv, NEW k \in Keys
                 PROVE  Cardinality({e \in DOMAIN execs : execs[e].key = k})
                        + Cardinality({i \in DOMAIN reqs : reqs[i].key = k}) <= 1
      BY DEF RetryCreatesOnce
    <2> DEFINE E == {e \in DOMAIN execs : execs[e].key = k}
               R == {i \in DOMAIN reqs : reqs[i].key = k}
    <2>1. k # NoKey
      BY WorkItemsAssumption
    <2>2. (\A d, e \in E : d = e) /\ (\A i, j \in R : i = j) /\ (E = {} \/ R = {})
      BY <2>1 DEF IInv, KeysOnce
    <2> HIDE DEF E, R
    <2>3. Cardinality(E) \in {0, 1} /\ Cardinality(R) \in {0, 1}
      BY <2>2, AtMostOne
    <2>4. Cardinality(E) = 0 \/ Cardinality(R) = 0
      BY <2>2, FS_EmptySet
    <2>5. Cardinality(E) + Cardinality(R) <= 1
      BY <2>3, <2>4
    <2> QED
      BY <2>5 DEF E, R
  <1> QED
    BY <1>1, WorkItemsInvariant, PTL

\* What a sweep or a failed submit closed is not running, and does not start.
THEOREM ClosedStaysDead == SafeSpec => []ClosedRunsAreDead
  <1>1. IInv => ClosedRunsAreDead
    BY DEF IInv, ClosedForGood, Over, ClosedRunsAreDead
  <1> QED
    BY <1>1, WorkItemsInvariant, PTL

-----------------------------------------------------------------------------
(* What a step may never do *)

\* The step of FinishedIsFinal.
Final ==
    /\ \A e \in DOMAIN execs :
          IsTerminalPhase(execs[e].phase) => execs'[e].phase = execs[e].phase
    /\ IsTerminal(item.state) =>
          /\ item' = item
          /\ Len(execs') = Len(execs)
          /\ Len(reqs') = Len(reqs)

\* The step of ClaimIsExclusive.
Exclusive ==
    \A i \in DOMAIN reqs :
        reqs'[i].token # reqs[i].token =>
            /\ reqs[i].state = "pending" \/ reqs[i].left = 0
            /\ reqs[i].state \notin {"fulfilled", "rejected"}
            /\ QueueWhileActive => OpenExecs = {}

LEMMA FinalIfKept ==
    ASSUME TypeOK, Kept, ReqsKept, UNCHANGED item
    PROVE  Final
  <1>1. Len(execs') = Len(execs) /\ Len(reqs') = Len(reqs)
    <2>1. execs \in Seq(Execution) /\ execs' \in Seq(Execution) /\ DOMAIN execs' = DOMAIN execs
      BY DEF TypeOK, Kept
    <2>2. reqs \in Seq(Request) /\ reqs' \in Seq(Request) /\ DOMAIN reqs' = DOMAIN reqs
      BY DEF TypeOK, ReqsKept
    <2> QED
      BY <2>1, <2>2
  <1> QED
    BY <1>1 DEF Final, Kept

LEMMA FinalIfLive ==
    ASSUME TypeOK, ~IsTerminal(item.state), UNCHANGED execs \/ \E x : execs' = Append(execs, x)
    PROVE  Final
  <1>1. execs \in Seq(Execution)
    BY DEF TypeOK
  <1>2. \A e \in DOMAIN execs : execs'[e] = execs[e]
    BY <1>1
  <1> QED
    BY <1>2 DEF Final

LEMMA NextFinal == IInv /\ [Next]_vars => Final
  <1> SUFFICES ASSUME IInv, [Next]_vars PROVE Final
    OBVIOUS
  <1>0. TypeOK
    BY DEF IInv
  <1>1. ASSUME UNCHANGED <<item, execs, reqs>> PROVE Final
    BY <1>1 DEF Final
  <1>2. CASE Client
    <2>1. ~IsTerminal(item.state) /\ (UNCHANGED execs \/ \E x : execs' = Append(execs, x))
      <3>1. ASSUME NEW v, NEW a, NEW k, Transition(v, a, k)
            PROVE  ~IsTerminal(item.state) /\ UNCHANGED execs
        BY <3>1 DEF Transition
      <3>2. ASSUME NEW v, NEW from, NEW r, NEW k, Resume(v, from, r, k)
            PROVE  ~IsTerminal(item.state) /\ \E x : execs' = Append(execs, x)
        BY <3>2 DEF Resume, ResumeTx, InsertExecution
      <3>3. ASSUME NEW v, NEW kind, NEW from, NEW k, CreateExecutionRequest(v, kind, from, k)
            PROVE  ~IsTerminal(item.state) /\ UNCHANGED execs
        BY <3>3 DEF CreateExecutionRequest, Runnable
      <3> QED
        BY <1>2, <3>1, <3>2, <3>3, Zenon DEF Client
    <2> QED
      BY <1>0, <2>1, FinalIfLive
  <1>3. CASE Reporter
    <2>0. PICK k \in Keys \union {NoKey}, r \in Runs :
             \E phase \in Reportable(r) : AttachNew(r, phase, k) \/ AttachKnown(r, phase, k)
      BY <1>3 DEF Reporter
    <2>1. PICK phase \in Reportable(r) : AttachNew(r, phase, k) \/ AttachKnown(r, phase, k)
      BY <2>0
    <2>2. phase \in Phases
      BY ReportablePhases DEF IInv
    <2>3. CASE AttachNew(r, phase, k)
      BY <1>0, <2>3, FinalIfLive DEF AttachNew, AttachNewTx, InsertExecution
    <2>4. CASE AttachKnown(r, phase, k)
      <3>1. UNCHANGED item
        BY <2>4 DEF AttachKnown
      <3> QED
        BY <1>0, <2>2, <2>4, <3>1, AttachKnownInv, FinalIfKept
    <2> QED
      BY <2>1, <2>3, <2>4
  <1>4. ASSUME NEW c \in Claimants, Dispatcher(c) PROVE Final
    <2>1. CASE ClaimScan(c) \/ ClaimSkip(c) \/ LetGo(c)
      <3>1. UNCHANGED <<item, execs, reqs>>
        BY <2>1, Zenon DEF ClaimScan, ClaimSkip, LetGo
      <3> QED
        BY <1>1, <3>1, Zenon
    <2>2. CASE ClaimExecutionRequest(c)
      BY <1>0, <2>2, ClaimInv, FinalIfKept DEF ClaimExecutionRequest
    <2>3. CASE RejectExecutionRequest(c)
      BY <1>0, <2>3, RejectInv, FinalIfKept DEF RejectExecutionRequest
    <2>4. ASSUME NEW r \in Runs, FulfilStart(c, r) \/ FulfilResume(c, r) PROVE Final
      <3>1. ~IsTerminal(item.state) /\ \E x : execs' = Append(execs, x)
        BY <2>4 DEF FulfilStart, FulfilResume, AttachNewTx, ResumeTx, InsertExecution
      <3> QED
        BY <1>0, <3>1, FinalIfLive
    <2> QED
      BY <1>4, <2>1, <2>2, <2>3, <2>4 DEF Dispatcher
  <1>5. ASSUME NEW s \in Sweepers, Sweep(s) PROVE Final
    <2>1. CASE SweepList(s) \/ SweepDead(s) \/ SweepLeave(s)
      BY <1>1, <2>1 DEF SweepList, SweepDead, SweepLeave
    <2>2. CASE CloseOrphanedExecution(s)
      <3>1. UNCHANGED item
        BY <2>2 DEF CloseOrphanedExecution
      <3> QED
        BY <1>0, <2>2, <3>1, CloseOrphanedInv, FinalIfKept
    <2> QED
      BY <1>5, <2>1, <2>2 DEF Sweep
  <1>6. ASSUME NEW u \in Submitters, Submitter(u) PROVE Final
    <2>1. CASE SubmitCreates(u) \/ SubmitFails(u) \/ SubmitLookup(u) \/ SubmitLeave(u)
      BY <1>1, <2>1 DEF SubmitCreates, SubmitFails, SubmitLookup, SubmitLeave
    <2>2. CASE PrepareSubmitExecution(u)
      BY <1>0, <2>2, FinalIfLive DEF PrepareSubmitExecution, AttachNewTx, InsertExecution
    <2>3. CASE SubmitEnded(u)
      <3>1. UNCHANGED item
        BY <2>3 DEF SubmitEnded
      <3> QED
        BY <1>0, <2>3, <3>1, SubmitEndedInv, FinalIfKept
    <2> QED
      BY <1>6, <2>1, <2>2, <2>3 DEF Submitter
  <1>7. ASSUME NEW r \in Runs, EngineMoves(r) PROVE Final
    <2>1. Kept /\ ReqsKept /\ UNCHANGED item
      BY <1>0, <1>7, EngineKeeps, ReqsKeptIfUnchanged
    <2> QED
      BY <1>0, <2>1, FinalIfKept
  <1>8. CASE Tick
    <2>1. UNCHANGED item
      BY <1>8 DEF Tick
    <2> QED
      BY <1>0, <1>8, <2>1, TickInv, FinalIfKept
  <1>9. CASE UNCHANGED vars
    BY <1>1, <1>9 DEF vars
  <1> QED
    BY <1>2, <1>3, <1>4, <1>5, <1>6, <1>7, <1>8, <1>9 DEF Next, EngineMoves

LEMMA NextExclusive == IInv /\ [Next]_vars => Exclusive
  <1> SUFFICES ASSUME IInv, [Next]_vars PROVE Exclusive
    OBVIOUS
  <1>0. reqs \in Seq(Request) /\ \A i \in DOMAIN reqs : reqs[i] \in Request
    BY Elements DEF IInv, TypeOK
  <1>1. ASSUME \A i \in DOMAIN reqs : reqs'[i].token = reqs[i].token PROVE Exclusive
    BY <1>1 DEF Exclusive
  <1>2. CASE Client
    <2>1. UNCHANGED reqs \/ \E y : reqs' = Append(reqs, y)
      BY <1>2 DEF Client, Transition, Resume, CreateExecutionRequest
    <2> QED
      BY <1>0, <1>1, <2>1
  <1>3. CASE Reporter
    BY <1>1, <1>3 DEF Reporter, AttachNew, AttachKnown
  <1>4. ASSUME NEW c \in Claimants, Dispatcher(c) PROVE Exclusive
    <2> DEFINE i == claimer[c].req
    <2>1. CASE ClaimScan(c) \/ ClaimSkip(c) \/ LetGo(c)
      BY <1>1, <2>1 DEF ClaimScan, ClaimSkip, LetGo
    <2>2. CASE ClaimExecutionRequest(c)
      <3>1. ClaimGuard(i) /\ \A j \in DOMAIN reqs : j # i => reqs'[j] = reqs[j]
        BY <1>0, <2>2 DEF ClaimExecutionRequest
      <3> QED
        BY <3>1 DEF Exclusive, ClaimGuard, Claimable
    <2>3. CASE RejectExecutionRequest(c)
      BY <1>0, <1>1, <2>3 DEF RejectExecutionRequest, Request
    <2>4. ASSUME NEW r \in Runs, FulfilStart(c, r) \/ FulfilResume(c, r) PROVE Exclusive
      <3>1. Fulfilled(i)
        BY <2>4 DEF FulfilStart, FulfilResume
      <3>2. \A j \in DOMAIN reqs : reqs'[j].token = reqs[j].token
        BY <1>0, <3>1 DEF Fulfilled, Request
      <3> QED
        BY <1>1, <3>2
    <2> QED
      BY <1>4, <2>1, <2>2, <2>3, <2>4 DEF Dispatcher
  <1>5. ASSUME NEW s \in Sweepers, Sweep(s) PROVE Exclusive
    BY <1>1, <1>5 DEF Sweep, SweepList, SweepDead, SweepLeave, CloseOrphanedExecution
  <1>6. ASSUME NEW u \in Submitters, Submitter(u) PROVE Exclusive
    BY <1>1, <1>6 DEF Submitter, PrepareSubmitExecution, SubmitCreates, SubmitFails,
       SubmitLookup, SubmitEnded, SubmitLeave
  <1>7. ASSUME NEW r \in Runs, EngineMoves(r) PROVE Exclusive
    BY <1>1, <1>7, EngineKeeps DEF IInv
  <1>8. CASE Tick
    <2>1. ASSUME NEW i \in DOMAIN reqs PROVE reqs'[i].token = reqs[i].token
      <3>1. PICK n : n = reqs[i].left - 1
        OBVIOUS
      <3>2. reqs'[i] = [reqs[i] EXCEPT !.left = n] \/ reqs'[i] = reqs[i]
        BY <1>8, <3>1 DEF Tick
      <3> QED
        BY <1>0, <3>2 DEF Request
    <2> QED
      BY <1>1, <2>1
  <1>9. CASE UNCHANGED vars
    BY <1>1, <1>9 DEF vars
  <1> QED
    BY <1>2, <1>3, <1>4, <1>5, <1>6, <1>7, <1>8, <1>9 DEF Next, EngineMoves

\* An outcome, and a closed item, are never changed.
THEOREM FinishedStaysFinished == SafeSpec => FinishedIsFinal
  <1>1. IInv /\ [Next]_vars => [Final]_vars
    BY NextFinal
  <1>2. SafeSpec => [][Final]_vars
    BY <1>1, WorkItemsInvariant, PTL DEF SafeSpec
  <1> QED
    BY <1>2 DEF FinishedIsFinal, Final

\* Whoever claims a request takes it from nobody.
THEOREM ClaimTakesFromNobody == SafeSpec => ClaimIsExclusive
  <1>1. IInv /\ [Next]_vars => [Exclusive]_vars
    BY NextExclusive
  <1>2. SafeSpec => [][Exclusive]_vars
    BY <1>1, WorkItemsInvariant, PTL DEF SafeSpec
  <1> QED
    BY <1>2 DEF ClaimIsExclusive, Exclusive
=============================================================================
