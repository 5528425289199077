----------------------------- MODULE HumanInput -----------------------------
(***************************************************************************)
(* The answer to a human-input request (internal/humaninput and            *)
(* handlers_human_input_response.go): the delivery ledger between an       *)
(* authenticated answer and the signal it sends to the one workflow that   *)
(* asked.                                                                  *)
(*                                                                         *)
(* A call submits an answer and goes through statements of the ledger,     *)
(* queries and one signal; calls interleave between any two of these.      *)
(* There is no lock and no worker: a call that finds somebody's recorded   *)
(* answer pending delivers that one first.  The workflow is external: it   *)
(* queues signals, takes the first valid one while it waits, counts what   *)
(* it took and what it refused, and may time out, end or ask again.  A     *)
(* query may stay unanswered, and the answer to a signal may be lost.      *)
(*                                                                         *)
(* An answer stands for a respondent and a value; the checks of the body,  *)
(* of eligibility and of the hash precede the first step.  Requests are    *)
(* the rounds of the workflow, asked in order.                             *)
(***************************************************************************)
EXTENDS Integers, Sequences

CONSTANTS
    Rounds,      \* requests of the workflow
    Answers,
    Refusable,   \* answers the workflow refuses although the checks here pass
    NoAnswer,
    Callers,
    TTL,         \* how long a request may be answered
    MaxTime,     \* bound on the clock
    MaxSignals   \* bound on the signals sent

Requests == 1 .. Rounds

ASSUME HumanInputAssumption ==
    /\ Rounds \in Nat \ {0}
    /\ Refusable \subseteq Answers
    /\ NoAnswer \notin Answers
    /\ TTL \in Nat \ {0}
    /\ MaxTime \in Nat
    /\ MaxSignals \in Nat

VARIABLES
    now,
    row,       \* human_input_deliveries, one row per request
    call,      \* the submissions in progress
    wf,        \* the state human_input_state reports, and whether it runs
    expires,   \* expires_at of each sealed request
    queue,     \* signals the workflow has not drained
    used,      \* the answer the workflow resumed on
    sent,      \* signals sent so far
    told       \* the answer whose submitter was told "accepted" by the last step

vars == <<now, row, call, wf, expires, queue, used, sent, told>>

Deliveries == {"none", "pending", "accepted", "rejected"}

\* kept: the value is still stored.
Delivery == [state : Deliveries, answer : Answers \union {NoAnswer},
             base : Nat, kept : BOOLEAN]
NoDelivery == [state |-> "none", answer |-> NoAnswer, base |-> 0, kept |-> FALSE]

\* d: the delivery the call pushes.  turn: its own answer, or one it found
\* recorded before ("first") or after ("second") it asked the workflow.
Call == [step : {"idle", "get", "ask", "claim", "lost", "again", "deliver",
                 "signal", "confirm", "close"},
         request : Requests \union {0}, answer : Answers \union {NoAnswer},
         d : Delivery, turn : {"own", "first", "second"}, base : Nat,
         pre : Nat, to : {"accepted", "rejected"}]
Idle == [step |-> "idle", request |-> 0, answer |-> NoAnswer, d |-> NoDelivery,
         turn |-> "own", base |-> 0, pre |-> 0, to |-> "rejected"]

Workflow == [state : {"RUNNING", "WAITING", "TIMED_OUT"}, request : Requests,
             resumes : Nat, refused : Nat, life : {"open", "closed", "gone"}]

Init ==
    /\ now = 0
    /\ row = [r \in Requests |-> NoDelivery]
    /\ call = [c \in Callers |-> Idle]
    /\ wf = [state |-> "WAITING", request |-> 1, resumes |-> 0, refused |-> 0, life |-> "open"]
    /\ expires = [r \in Requests |-> IF r = 1 THEN TTL ELSE 0]
    /\ queue = <<>>
    /\ used = [r \in Requests |-> NoAnswer]
    /\ sent = 0
    /\ told = {}

outside == <<wf, expires, queue, used, sent>>

Silent == told' = {}

Goes(c, step) == call' = [call EXCEPT ![c].step = step]
Ends(c) == call' = [call EXCEPT ![c] = Idle]

-----------------------------------------------------------------------------
(* The workflow *)

Waits(r) == wf.state = "WAITING" /\ wf.request = r

\* deriveHumanInputState: only a request it waits on, before it expires.
Pending(r, t) == Waits(r) /\ t < expires[r]

AskHuman ==
    /\ wf.life = "open" /\ wf.state # "WAITING" /\ wf.request < Rounds
    /\ wf' = [wf EXCEPT !.state = "WAITING", !.request = @ + 1]
    /\ expires' = [expires EXCEPT ![wf.request + 1] = now + TTL]
    /\ UNCHANGED <<now, row, call, queue, used, sent>> /\ Silent

\* validate_response: the request it waits on, in time, and an answer it takes.
Takes(signal) == Pending(signal.request, now) /\ signal.answer \notin Refusable

Drain ==
    /\ wf.life = "open" /\ queue # <<>>
    /\ queue' = Tail(queue)
    /\ LET signal == Head(queue)
       IN IF Takes(signal)
          THEN /\ wf' = [wf EXCEPT !.state = "RUNNING", !.resumes = @ + 1]
               /\ used' = [used EXCEPT ![signal.request] = signal.answer]
          ELSE /\ wf' = [wf EXCEPT !.refused = @ + 1]
               /\ UNCHANGED used
    /\ UNCHANGED <<now, row, call, expires, sent>> /\ Silent

TimeOut ==
    /\ wf.life = "open" /\ wf.state = "WAITING" /\ now >= expires[wf.request]
    /\ wf' = [wf EXCEPT !.state = "TIMED_OUT"]
    /\ UNCHANGED <<now, row, call, expires, queue, used, sent>> /\ Silent

\* It ends, and answers queries until its retention is over.
EndWorkflow ==
    /\ wf.life # "gone"
    /\ wf' = [wf EXCEPT !.life = IF @ = "open" THEN "closed" ELSE "gone"]
    /\ queue' = <<>>
    /\ UNCHANGED <<now, row, call, expires, used, sent>> /\ Silent

-----------------------------------------------------------------------------
(* RespondHumanInput *)

Expired(r) == row[r].state = "pending" /\ expires[r] <= now
ClearExpiredValues == [r \in Requests |-> IF Expired(r) THEN [row[r] EXCEPT !.kept = FALSE] ELSE row[r]]

\* Clearing is best effort.  An expired request is refused after it.
Submit(c, r, a) ==
    /\ call[c] = Idle /\ r <= wf.request
    /\ row' \in {row, ClearExpiredValues}
    /\ call' = IF now < expires[r]
               THEN [call EXCEPT ![c] = [Idle EXCEPT !.step = "get", !.request = r, !.answer = a]]
               ELSE call
    /\ UNCHANGED <<now, outside>> /\ Silent

Told(c, a, status) ==
    told' = IF status = "accepted" THEN {<<call[c].request, a>>} ELSE {}

\* settleExisting: an accepted answer settles the call, any other live one is
\* pushed through first, whoever asked.
SettleExisting(c, turn) ==
    LET r == call[c].request
    IN IF row[r].state = "accepted"
       THEN /\ Ends(c)
            /\ Told(c, row[r].answer, IF row[r].answer = call[c].answer THEN "accepted" ELSE "rejected")
       ELSE /\ call' = [call EXCEPT ![c].step = "deliver", ![c].d = row[r], ![c].turn = turn]
            /\ Silent

Get(c) ==
    /\ call[c].step = "get"
    /\ IF row[call[c].request].state \in {"pending", "accepted"}
       THEN SettleExisting(c, "first")
       ELSE Goes(c, "ask") /\ Silent
    /\ UNCHANGED <<now, row, outside>>

\* The expiry was checked against the clock Submit read.
Ask(c) ==
    /\ call[c].step = "ask"
    /\ IF wf.life # "gone" /\ Waits(call[c].request)
       THEN call' = [call EXCEPT ![c].step = "claim", ![c].base = wf.resumes]
       ELSE Ends(c)
    /\ UNCHANGED <<now, row, outside>> /\ Silent

Claimable(r) == row[r].state \in {"none", "rejected"}

\* Mutant: the baseline is not recorded.
RecordedNoBaseline(c) == [state |-> "pending", answer |-> call[c].answer, base |-> 0, kept |-> TRUE]

Recorded(c) == [state |-> "pending", answer |-> call[c].answer, base |-> call[c].base, kept |-> TRUE]

\* The upsert wins, or finds a live row; then the row is read again.
Claim(c) ==
    /\ call[c].step \in {"claim", "again"}
    /\ LET r == call[c].request
       IN IF Claimable(r)
          THEN /\ row' = [row EXCEPT ![r] = Recorded(c)]
               /\ call' = [call EXCEPT ![c].step = "deliver", ![c].d = Recorded(c),
                                      ![c].turn = "own", ![c].base = 0]
          ELSE /\ IF call[c].step = "claim" THEN Goes(c, "lost") ELSE Ends(c)
               /\ UNCHANGED row
    /\ UNCHANGED <<now, outside>> /\ Silent

ReadWinner(c) ==
    /\ call[c].step = "lost"
    /\ SettleExisting(c, "second")
    /\ UNCHANGED <<now, row, outside>>

\* The call that loses the answer of a ledger statement or of a query it must
\* have, whose client goes away, or whose process dies.
Abandon(c) ==
    /\ call[c] # Idle
    /\ Ends(c)
    /\ UNCHANGED <<now, row, outside>> /\ Silent

-----------------------------------------------------------------------------
(* deliverHumanInput *)

\* What follows needs the answer only.
Closes(c, to) ==
    call' = [call EXCEPT ![c].step = "close", ![c].to = to, ![c].pre = 0,
                         ![c].d = [NoDelivery EXCEPT !.answer = call[c].d.answer]]

\* Mutant: the counter of the workflow alone.
ResumedOnAny(c) == wf.resumes > call[c].d.base

\* Mutant: off by one.
ResumedTwice(c) == wf.resumes > call[c].d.base + 1 /\ wf.request = call[c].request

\* resume_count is per workflow: a rise counts while it reports this request.
Resumed(c) == wf.resumes > call[c].d.base /\ wf.request = call[c].request

Deliver(c) ==
    /\ call[c].step = "deliver"
    /\ IF wf.life # "gone" /\ Resumed(c) THEN Closes(c, "accepted")
       ELSE IF wf.life = "gone" \/ ~Pending(call[c].request, now) \/ ~call[c].d.kept
            THEN Closes(c, "rejected")
            ELSE call' = [call EXCEPT ![c].step = "signal", ![c].pre = wf.refused]
    /\ UNCHANGED <<now, row, outside>> /\ Silent

\* The submitter hears the outcome of its own answer; another one, that was
\* rejected, frees the request for it.
Answered(c, status) ==
    /\ Told(c, call[c].answer, IF call[c].d.answer = call[c].answer THEN status ELSE "rejected")
    /\ IF call[c].d.answer # call[c].answer /\ status = "rejected"
       THEN call' = [call EXCEPT ![c] = [Idle EXCEPT !.request = call[c].request,
                        !.answer = call[c].answer, !.base = call[c].base,
                        !.step = IF call[c].turn = "first" THEN "ask" ELSE "again"]]
       ELSE Ends(c)

Queued(c) == Append(queue, [request |-> call[c].request, answer |-> call[c].d.answer])

\* A closed workflow is not found.  A signal whose answer is lost is left
\* pending, whether it was queued or not.
Signal(c) ==
    /\ call[c].step = "signal"
    /\ IF wf.life # "open"
       THEN Closes(c, "rejected") /\ UNCHANGED <<queue, sent>> /\ Silent
       ELSE /\ sent < MaxSignals
            /\ sent' = sent + 1
            /\ \/ queue' = Queued(c) /\ Goes(c, "confirm") /\ Silent
               \/ queue' \in {queue, Queued(c)} /\ Answered(c, "pending")
    /\ UNCHANGED <<now, row, wf, expires, used>>

RefusedSince(c) == Waits(call[c].request) /\ wf.refused > call[c].pre
TimedOut(c) == wf.state = "TIMED_OUT" /\ wf.request = call[c].request

\* One poll that decides; polls that see nothing, or get no answer, repeat
\* until the budget is spent.
Confirm(c) ==
    /\ call[c].step = "confirm"
    /\ \/ wf.life # "gone" /\ Resumed(c) /\ Closes(c, "accepted") /\ Silent
       \/ /\ wf.life # "gone" /\ ~Resumed(c) /\ (TimedOut(c) \/ RefusedSince(c))
          /\ Closes(c, "rejected") /\ Silent
       \/ Answered(c, "pending")
    /\ UNCHANGED <<now, row, outside>>

ClosesRow(c) ==
    LET r == call[c].request
    IN row[r].state = "pending" /\ row[r].answer = call[c].d.answer

\* Resolve, which may fail; the submitter is told the outcome either way.
Close(c) ==
    /\ call[c].step = "close"
    /\ \/ /\ ClosesRow(c)
          /\ row' = [row EXCEPT ![call[c].request].state = call[c].to,
                                ![call[c].request].kept = FALSE]
       \/ UNCHANGED row
    /\ Answered(c, call[c].to)
    /\ UNCHANGED <<now, outside>>

Tick ==
    /\ now < MaxTime
    /\ now' = now + 1
    /\ UNCHANGED <<row, call, outside>> /\ Silent

Next ==
    \/ AskHuman \/ Drain \/ TimeOut \/ EndWorkflow \/ Tick
    \/ \E c \in Callers :
          \/ \E r \in Requests, a \in Answers : Submit(c, r, a)
          \/ Get(c) \/ Ask(c) \/ Claim(c) \/ ReadWinner(c) \/ Abandon(c)
          \/ Deliver(c) \/ Signal(c) \/ Confirm(c) \/ Close(c)

Spec == Init /\ [][Next]_vars

-----------------------------------------------------------------------------
(* Properties *)

\* Every variable has its type.
TypeOK ==
    /\ now \in Nat
    /\ row \in [Requests -> Delivery]
    /\ call \in [Callers -> Call]
    /\ wf \in Workflow
    /\ expires \in [Requests -> Nat]
    /\ queue \in Seq([request : Requests, answer : Answers])
    /\ used \in [Requests -> Answers \union {NoAnswer}]
    /\ sent \in Nat
    /\ told \subseteq Requests \X Answers

Credited(r) == {a \in Answers : <<r, a>> \in told \/ (row[r].state = "accepted" /\ row[r].answer = a)}

\* When an answer is recorded as accepted, or its submitter is told so, the
\* workflow has resumed on that request, and on that very answer as long as it
\* runs and has refused nothing (deliverHumanInput's baseline of resume_count,
\* Claim and Resolve).
AcceptedIsTrue ==
    \A r \in Requests :
        Credited(r) # {} =>
            /\ used[r] # NoAnswer
            /\ wf.life = "open" /\ wf.refused = 0 => Credited(r) = {used[r]}

\* An answer that the workflow resumed on is not recorded as rejected while it
\* still reports the request, runs and has refused nothing.
RejectedIsTrue ==
    \A r \in Requests :
        row[r].state = "rejected" /\ used[r] = row[r].answer =>
            wf.request # r \/ wf.life # "open" \/ wf.refused > 0

\* While the workflow waits on a request that can still be answered, the
\* request is free for an answer or holds one that can still be delivered: no
\* lost signal, refusal or race leaves it answered in the ledger only.
AnswerNotLost ==
    \A r \in Requests :
        Pending(r, now) => Claimable(r) \/ (row[r].state = "pending" /\ row[r].kept)

=============================================================================
