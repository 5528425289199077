-------------------------- MODULE HumanInputProofs --------------------------
(***************************************************************************)
(* Proofs about HumanInput, for any number of callers, answers, rounds and *)
(* signals.  The ledger never sees the workflow's choice, only a counter:  *)
(* the invariant says that the recorded baseline is exact while the        *)
(* workflow reports the request, and that as long as the workflow runs and *)
(* has refused nothing every signal and every delivery of a request that   *)
(* can still be answered carries the one answer that is recorded.          *)
(***************************************************************************)
EXTENDS HumanInput, TLAPS

\* The workflow runs and has refused nothing.
Clean == wf.life = "open" /\ wf.refused = 0

\* Request r is not the current one, or went unanswered.
Missed(r) == wf.request # r \/ (used[r] = NoAnswer /\ ~Pending(r, now))

\* While the workflow reports r, its counter is the baseline, or one more
\* when it has resumed on r.
Exact(r, base) ==
    wf.request = r => wf.resumes = IF used[r] = NoAnswer THEN base ELSE base + 1

Delivering == {"deliver", "signal", "confirm"}

\* What a recorded delivery d of request r says of the workflow.
RowGood(r, d) ==
    d.state # "none" =>
        /\ d.answer \in Answers /\ r <= wf.request
        /\ Exact(r, d.base)
        /\ d.state = "accepted" => used[r] # NoAnswer /\ (Clean => d.answer = used[r])
        /\ d.state = "rejected" /\ Clean => Missed(r)
        /\ d.state = "pending" =>
              /\ ~d.kept => expires[r] <= now
              /\ Clean /\ wf.request = r /\ used[r] # NoAnswer => d.answer = used[r]

\* The answer a is the recorded one and may still be delivered to r.
Recording(r, a) == row[r].state = "pending" /\ row[r].answer = a

\* What a call at each of its steps knows.
CallGood(x) ==
    LET r == x.request IN
    /\ x.step # "idle" => r \in Requests /\ r <= wf.request /\ x.answer \in Answers
    /\ x.step \in {"claim", "lost", "again"} => Exact(r, x.base)
    /\ x.step \in Delivering \union {"lost"} => row[r].state # "none"
    /\ x.step \in Delivering \union {"close"} =>
          /\ x.d.answer \in Answers
          /\ x.turn = "own" => x.d.answer = x.answer
          /\ x.turn = "second" => Exact(r, x.base)
    /\ x.step \in Delivering =>
          /\ Exact(r, x.d.base)
          /\ Clean /\ Pending(r, now) => Recording(r, x.d.answer)
          /\ Clean /\ wf.request = r /\ used[r] # NoAnswer => x.d.answer = used[r]
    /\ x.step = "deliver" /\ ~x.d.kept /\ Clean => ~Pending(r, now)
    /\ x.step = "close" =>
          /\ x.to = "accepted" => used[r] # NoAnswer /\ (Clean => x.d.answer = used[r])
          /\ x.to = "rejected" /\ Clean => Missed(r)

\* A signal that could still be taken carries the recorded answer.
SignalGood(s) ==
    /\ s.request <= wf.request /\ row[s.request].state # "none"
    /\ Clean /\ Pending(s.request, now) => Recording(s.request, s.answer)

\* What a submitter was told.
TellGood(t) == used[t[1]] # NoAnswer /\ (Clean => used[t[1]] = t[2])

\* Only the current request and earlier ones have been answered, with an
\* answer of the ledger, and the current one only when the workflow went on.
UsedGood ==
    /\ \A r \in Requests : used[r] # NoAnswer => r <= wf.request /\ row[r].state # "none"
    /\ wf.state # "RUNNING" => used[wf.request] = NoAnswer

RowsGood == \A r \in Requests : RowGood(r, row[r])
CallsGood == \A c \in Callers : CallGood(call[c])
SignalsGood == \A i \in 1 .. Len(queue) : SignalGood(queue[i])
TellsGood == \A t \in told : TellGood(t)

IInv ==
    /\ TypeOK
    /\ UsedGood
    /\ RowsGood
    /\ CallsGood
    /\ SignalsGood
    /\ TellsGood

-----------------------------------------------------------------------------
(* Types of the records *)

CallSteps == {"idle", "get", "ask", "claim", "lost", "again", "deliver", "signal", "confirm", "close"}

LEMMA IdleTyped ==
    /\ NoDelivery \in Delivery
    /\ Idle \in Call
    /\ Idle.step = "idle"
  BY DEF NoDelivery, Delivery, Deliveries, Idle, Call

LEMMA SeqElement ==
    ASSUME NEW S, NEW q \in Seq(S), NEW i \in 1 .. Len(q)
    PROVE  q[i] \in S
  OBVIOUS

\* Call c changes and no other does.
Changes(c) ==
    /\ call' \in [Callers -> Call]
    /\ \A d \in Callers : d # c => call'[d] = call[d]

LEMMA EndsStep ==
    ASSUME TypeOK, NEW c \in Callers, Ends(c)
    PROVE  Changes(c) /\ call'[c].step = "idle"
  BY IdleTyped DEF TypeOK, Ends, Changes

LEMMA GoesStep ==
    ASSUME TypeOK, NEW c \in Callers, NEW s \in CallSteps, Goes(c, s)
    PROVE  /\ Changes(c)
           /\ call'[c].step = s
           /\ call'[c].request = call[c].request /\ call'[c].answer = call[c].answer
           /\ call'[c].d = call[c].d /\ call'[c].turn = call[c].turn
           /\ call'[c].base = call[c].base
  <1>1. PICK x : x = [call[c] EXCEPT !.step = s]
    OBVIOUS
  <1>2. call[c] \in Call /\ call \in [Callers -> Call]
    BY DEF TypeOK
  <1>3. call' = [call EXCEPT ![c] = x]
    BY <1>1 DEF Goes
  <1>4. x \in Call
    BY <1>1, <1>2 DEF Call, CallSteps
  <1>5. /\ x.step = s /\ x.request = call[c].request /\ x.answer = call[c].answer
        /\ x.d = call[c].d /\ x.turn = call[c].turn /\ x.base = call[c].base
    BY <1>1, <1>2 DEF Call
  <1> QED
    BY <1>2, <1>3, <1>4, <1>5 DEF Changes

LEMMA ClosesStep ==
    ASSUME TypeOK, NEW c \in Callers, NEW to \in {"accepted", "rejected"}, Closes(c, to)
    PROVE  /\ Changes(c)
           /\ call'[c].step = "close" /\ call'[c].to = to
           /\ call'[c].request = call[c].request /\ call'[c].answer = call[c].answer
           /\ call'[c].d.answer = call[c].d.answer /\ call'[c].turn = call[c].turn
           /\ call'[c].base = call[c].base
  <1>1. PICK e : e = [NoDelivery EXCEPT !.answer = call[c].d.answer]
    OBVIOUS
  <1>2. e \in Delivery /\ e.answer = call[c].d.answer
    BY <1>1 DEF TypeOK, Call, Delivery, NoDelivery, Deliveries
  <1>3. call' = [call EXCEPT ![c].step = "close", ![c].to = to, ![c].pre = 0, ![c].d = e]
    BY <1>1 DEF Closes
  <1>4. PICK x : x = [call[c] EXCEPT !.step = "close", !.to = to, !.pre = 0, !.d = e]
    OBVIOUS
  <1>5. call' = [call EXCEPT ![c] = x]
    BY <1>3, <1>4 DEF TypeOK
  <1>6. /\ x \in Call /\ x.step = "close" /\ x.to = to /\ x.d = e
        /\ x.request = call[c].request /\ x.answer = call[c].answer
        /\ x.turn = call[c].turn /\ x.base = call[c].base
    <2>1. call[c] \in Call
      BY DEF TypeOK
    <2>2. x \in Call
      BY <1>2, <1>4, <2>1 DEF Call
    <2>3. x.step = "close" /\ x.to = to /\ x.d = e
      BY <1>4, <2>1 DEF Call
    <2> QED
      BY <1>4, <2>1, <2>2, <2>3 DEF Call
  <1> QED
    BY <1>2, <1>5, <1>6 DEF TypeOK, Changes

-----------------------------------------------------------------------------
LEMMA InitInv == Init => IInv
  <1> SUFFICES ASSUME Init PROVE IInv
    OBVIOUS
  <1>1. 1 \in Requests
    BY HumanInputAssumption DEF Requests
  <1>2. TypeOK
    BY <1>1, IdleTyped, HumanInputAssumption DEF Init, TypeOK, Workflow
  <1>3. UsedGood
    BY <1>1 DEF Init, UsedGood
  <1>4. RowsGood
    BY DEF Init, RowsGood, RowGood, NoDelivery
  <1>5. CallsGood
    BY IdleTyped DEF Init, CallsGood, CallGood, Delivering
  <1>6. SignalsGood /\ TellsGood
    BY DEF Init, SignalsGood, TellsGood
  <1> QED
    BY <1>2, <1>3, <1>4, <1>5, <1>6 DEF IInv

-----------------------------------------------------------------------------
(* Steps of a call *)

\* A step that changes one call and tells its submitter something.
LEMMA CallMoves ==
    ASSUME IInv, NEW c \in Callers, Changes(c), CallGood(call'[c]),
           UNCHANGED <<now, row, wf, expires, queue, used>>, sent' \in Nat,
           told' \subseteq Requests \X Answers, \A t \in told' : TellGood(t)
    PROVE  IInv'
  <1> USE DEF IInv
  <1>1. TypeOK'
    BY DEF TypeOK, Changes
  <1>2. UsedGood' /\ RowsGood'
    BY DEF UsedGood, RowsGood, RowGood, Exact, Clean, Missed, Pending, Waits
  <1>3. CallsGood'
    <2>1. ASSUME NEW d \in Callers PROVE CallGood(call'[d])
      BY DEF Changes, CallsGood
    <2>2. ASSUME NEW d \in Callers PROVE CallGood(call[d])'
      BY <2>1 DEF CallGood, Exact, Clean, Missed, Pending, Waits, Recording
    <2> QED
      BY <2>2 DEF CallsGood
  <1>4. SignalsGood'
    BY DEF SignalsGood, SignalGood, Clean, Pending, Waits, Recording
  <1>5. TellsGood'
    BY DEF TellsGood, TellGood, Clean
  <1> QED
    BY <1>1, <1>2, <1>3, <1>4, <1>5

\* The same for a step that tells nobody anything.
LEMMA QuietMoves ==
    ASSUME IInv, NEW c \in Callers, Changes(c), CallGood(call'[c]),
           UNCHANGED <<now, row, wf, expires, queue, used>>, sent' \in Nat, Silent
    PROVE  IInv'
  BY CallMoves DEF Silent

LEMMA IdleGood ==
    ASSUME NEW x, x.step = "idle"
    PROVE  CallGood(x)
  BY DEF CallGood, Delivering

LEMMA AbandonInv ==
    ASSUME IInv, NEW c \in Callers, Abandon(c)
    PROVE  IInv'
  <1>1. Changes(c) /\ call'[c].step = "idle"
    BY EndsStep DEF Abandon, IInv
  <1>2. UNCHANGED <<now, row, wf, expires, queue, used, sent>> /\ Silent /\ sent \in Nat
    BY DEF Abandon, outside, IInv, TypeOK
  <1> QED
    BY <1>1, <1>2, IdleGood, QuietMoves

\* settleExisting on a row that is there.
LEMMA SettleInv ==
    ASSUME IInv, NEW c \in Callers, NEW turn \in {"first", "second"}, SettleExisting(c, turn),
           UNCHANGED <<now, row, outside>>,
           call[c].step # "idle",
           row[call[c].request].state # "none",
           turn = "second" => Exact(call[c].request, call[c].base)
    PROVE  IInv'
  <1> DEFINE r == call[c].request
  <1> USE DEF IInv
  <1>1. UNCHANGED <<now, row, wf, expires, queue, used, sent>> /\ sent \in Nat
    BY DEF outside, TypeOK
  <1>2. r \in Requests /\ r <= wf.request /\ call[c].answer \in Answers
    BY DEF CallsGood, CallGood
  <1>3. RowGood(r, row[r]) /\ row[r] \in Delivery /\ row[r].answer \in Answers
    BY <1>2 DEF RowsGood, RowGood, TypeOK
  <1>4. CASE row[r].state = "accepted"
    <2>1. Ends(c) /\ told' \subseteq {<<r, row[r].answer>>}
      BY <1>4 DEF SettleExisting, Told
    <2>2. told' \subseteq Requests \X Answers
      BY <2>1, <1>2, <1>3
    <2>3. TellGood(<<r, row[r].answer>>)
      BY <1>3, <1>4 DEF RowGood, TellGood
    <2>4. \A t \in told' : TellGood(t)
      BY <2>1, <2>3
    <2> QED
      BY <1>1, <2>1, <2>2, <2>4, EndsStep, IdleGood, CallMoves
  <1>5. CASE row[r].state # "accepted"
    <2>1. /\ call' = [call EXCEPT ![c].step = "deliver", ![c].d = row[r], ![c].turn = turn]
          /\ Silent
      BY <1>5 DEF SettleExisting
    <2>2. /\ Changes(c)
          /\ call'[c].step = "deliver" /\ call'[c].d = row[r] /\ call'[c].turn = turn
          /\ call'[c].request = r /\ call'[c].answer = call[c].answer /\ call'[c].base = call[c].base
      <3>1. PICK x : x = [call[c] EXCEPT !.step = "deliver", !.d = row[r], !.turn = turn]
        OBVIOUS
      <3>2. call' = [call EXCEPT ![c] = x]
        BY <2>1, <3>1 DEF TypeOK
      <3>3. /\ x \in Call /\ x.step = "deliver" /\ x.d = row[r] /\ x.turn = turn
            /\ x.request = r /\ x.answer = call[c].answer /\ x.base = call[c].base
        <4>1. call[c] \in Call /\ row[r] \in Delivery
          BY <1>3 DEF TypeOK
        <4>2. turn \in {"own", "first", "second"}
          OBVIOUS
        <4>3. x \in Call
          BY <3>1, <4>1, <4>2 DEF Call
        <4>4. x.step = "deliver" /\ x.d = row[r] /\ x.turn = turn
          BY <3>1, <4>1 DEF Call
        <4> QED
          BY <3>1, <4>1, <4>3, <4>4 DEF Call
      <3> QED
        BY <3>2, <3>3 DEF TypeOK, Changes
    <2>3. row[r].state \in {"pending", "rejected"}
      BY <1>3, <1>5 DEF Delivery, Deliveries
    <2>4. CallGood(call'[c])
      <3>1. CASE row[r].state = "pending"
        BY <3>1, <1>2, <1>3, <2>2 DEF CallGood, RowGood, Delivering, Recording, Pending, Exact, TypeOK
      <3>2. CASE row[r].state = "rejected"
        BY <3>2, <1>2, <1>3, <2>2 DEF CallGood, RowGood, Delivering, Missed, Pending, Waits, Exact
      <3> QED
        BY <2>3, <3>1, <3>2
    <2> QED
      BY <1>1, <2>1, <2>2, <2>4, QuietMoves
  <1> QED
    BY <1>4, <1>5

LEMMA GetInv ==
    ASSUME IInv, NEW c \in Callers, Get(c)
    PROVE  IInv'
  <1>1. UNCHANGED <<now, row, outside>> /\ call[c].step = "get"
    BY DEF Get
  <1>2. CASE row[call[c].request].state \in {"pending", "accepted"}
    BY <1>1, <1>2, SettleInv DEF Get
  <1>3. CASE row[call[c].request].state \notin {"pending", "accepted"}
    <2>1. Goes(c, "ask") /\ Silent
      BY <1>3 DEF Get
    <2>2. /\ Changes(c) /\ call'[c].step = "ask"
          /\ call'[c].request = call[c].request /\ call'[c].answer = call[c].answer
      BY <2>1, GoesStep DEF CallSteps, IInv
    <2>3. CallGood(call'[c])
      BY <1>1, <2>2 DEF IInv, CallsGood, CallGood, Delivering
    <2> QED
      BY <1>1, <2>1, <2>2, <2>3, QuietMoves DEF outside, IInv, TypeOK
  <1> QED
    BY <1>2, <1>3

LEMMA ReadWinnerInv ==
    ASSUME IInv, NEW c \in Callers, ReadWinner(c)
    PROVE  IInv'
  <1>1. UNCHANGED <<now, row, outside>> /\ call[c].step = "lost" /\ SettleExisting(c, "second")
    BY DEF ReadWinner
  <1>2. row[call[c].request].state # "none" /\ Exact(call[c].request, call[c].base)
    BY <1>1 DEF IInv, CallsGood, CallGood
  <1> QED
    BY <1>1, <1>2, SettleInv

LEMMA AskInv ==
    ASSUME IInv, NEW c \in Callers, Ask(c)
    PROVE  IInv'
  <1> USE DEF IInv
  <1>1. UNCHANGED <<now, row, wf, expires, queue, used, sent>> /\ Silent /\ sent \in Nat
    BY DEF Ask, outside, TypeOK
  <1>2. CASE wf.life # "gone" /\ Waits(call[c].request)
    <2>1. call' = [call EXCEPT ![c].step = "claim", ![c].base = wf.resumes]
      BY <1>2 DEF Ask
    <2>2. /\ Changes(c) /\ call'[c].step = "claim" /\ call'[c].base = wf.resumes
          /\ call'[c].request = call[c].request /\ call'[c].answer = call[c].answer
      <3>1. PICK x : x = [call[c] EXCEPT !.step = "claim", !.base = wf.resumes]
        OBVIOUS
      <3>2. call' = [call EXCEPT ![c] = x]
        BY <2>1, <3>1 DEF TypeOK
      <3>3. /\ x \in Call /\ x.step = "claim" /\ x.base = wf.resumes
            /\ x.request = call[c].request /\ x.answer = call[c].answer
        <4>1. call[c] \in Call /\ wf.resumes \in Nat
          BY DEF TypeOK, Workflow
        <4>2. x \in Call
          BY <3>1, <4>1 DEF Call
        <4> QED
          BY <3>1, <4>1, <4>2 DEF Call
      <3> QED
        BY <3>2, <3>3 DEF TypeOK, Changes
    <2>3. Exact(call[c].request, wf.resumes)
      BY <1>2 DEF Waits, Exact, UsedGood
    <2>4. CallGood(call'[c])
      BY <2>2, <2>3 DEF Ask, CallsGood, CallGood, Delivering
    <2> QED
      BY <1>1, <2>2, <2>4, QuietMoves
  <1>3. CASE ~(wf.life # "gone" /\ Waits(call[c].request))
    BY <1>1, <1>3, EndsStep, IdleGood, QuietMoves DEF Ask
  <1> QED
    BY <1>2, <1>3

\* The submitter hears the outcome of its own answer, or goes on with it.
LEMMA AnsweredStep ==
    ASSUME IInv, NEW c \in Callers, NEW status \in {"pending", "accepted", "rejected"},
           call[c].step \in Delivering \union {"close"},
           status = "accepted" =>
               /\ used[call[c].request] # NoAnswer
               /\ Clean => call[c].d.answer = used[call[c].request],
           Answered(c, status)
    PROVE  /\ Changes(c) /\ CallGood(call'[c]) /\ call'[c].step \in {"idle", "ask", "again"}
           /\ told' \subseteq Requests \X Answers
           /\ \A t \in told' : TellGood(t)
  <1> DEFINE r == call[c].request
  <1> USE DEF IInv
  <1>1. r \in Requests /\ r <= wf.request /\ call[c].answer \in Answers /\ call[c] \in Call
    BY DEF CallsGood, CallGood, Delivering, TypeOK
  <1>2. /\ told' \subseteq {<<r, call[c].answer>>}
        /\ told' # {} => status = "accepted" /\ call[c].d.answer = call[c].answer
    BY DEF Answered, Told
  <1>3. told' # {} => TellGood(<<r, call[c].answer>>)
    BY <1>2 DEF TellGood
  <1>4. Changes(c) /\ CallGood(call'[c]) /\ call'[c].step \in {"idle", "ask", "again"}
    <2>1. CASE Ends(c)
      BY <2>1, EndsStep, IdleGood
    <2>2. CASE call[c].d.answer # call[c].answer /\ status = "rejected"
      <3> DEFINE s == IF call[c].turn = "first" THEN "ask" ELSE "again"
      <3>1. PICK x : x = [Idle EXCEPT !.request = r, !.answer = call[c].answer, !.base = call[c].base, !.step = s]
        OBVIOUS
      <3>2. /\ x \in Call
            /\ x.step = s /\ x.request = r /\ x.answer = call[c].answer /\ x.base = call[c].base
        BY <3>1, <1>1, IdleTyped DEF Idle, Call
      <3>3. call' = [call EXCEPT ![c] = x]
        BY <3>1, <2>2 DEF Answered
      <3>4. Changes(c) /\ call'[c] = x
        BY <3>2, <3>3 DEF TypeOK, Changes
      <3>5. s = "again" => Exact(r, call[c].base)
        <4>1. call[c].turn \in {"own", "first", "second"}
          BY <1>1 DEF Call
        <4>2. call[c].turn # "own" /\ (call[c].turn = "second" => Exact(r, call[c].base))
          BY <2>2 DEF CallsGood, CallGood
        <4> QED
          BY <4>1, <4>2
      <3>6. s \in {"ask", "again"}
        OBVIOUS
      <3> HIDE DEF s
      <3>7. CallGood(x)
        BY <1>1, <3>2, <3>5, <3>6 DEF CallGood, Delivering
      <3> QED
        BY <3>2, <3>4, <3>6, <3>7
    <2> QED
      BY <2>1, <2>2 DEF Answered
  <1>5. told' \subseteq Requests \X Answers
    BY <1>1, <1>2
  <1>6. \A t \in told' : TellGood(t)
    BY <1>2, <1>3
  <1> QED
    BY <1>4, <1>5, <1>6

\* Resumed is never seen before the workflow resumed on the request.
LEMMA ResumedMeansUsed ==
    ASSUME IInv, NEW c \in Callers, call[c].step \in Delivering
    PROVE  Resumed(c) <=> wf.request = call[c].request /\ used[call[c].request] # NoAnswer
  <1>1. Exact(call[c].request, call[c].d.base)
    BY DEF IInv, CallsGood, CallGood
  <1>2. wf.resumes \in Nat /\ call[c].d.base \in Nat
    BY DEF IInv, TypeOK, Workflow, Call, Delivery
  <1> QED
    BY <1>1, <1>2 DEF Resumed, Exact

\* A verdict on a delivery: accepted when Resumed, rejected when it is too late.
LEMMA VerdictInv ==
    ASSUME IInv, NEW c \in Callers, call[c].step \in Delivering,
           NEW to \in {"accepted", "rejected"}, Closes(c, to), Silent,
           to = "accepted" => Resumed(c),
           to = "rejected" /\ Clean => Missed(call[c].request),
           UNCHANGED <<now, row, wf, expires, queue, used>>, sent' \in Nat
    PROVE  IInv'
  <1>1. /\ Changes(c)
        /\ call'[c].step = "close" /\ call'[c].to = to
        /\ call'[c].request = call[c].request /\ call'[c].answer = call[c].answer
        /\ call'[c].d.answer = call[c].d.answer /\ call'[c].turn = call[c].turn
        /\ call'[c].base = call[c].base
    BY ClosesStep DEF IInv
  <1>2. CallGood(call[c])
    BY DEF IInv, CallsGood
  <1>3. CallGood(call'[c])
    BY <1>1, <1>2, ResumedMeansUsed DEF CallGood, Delivering
  <1> QED
    BY <1>1, <1>3, QuietMoves

LEMMA DeliverInv ==
    ASSUME IInv, NEW c \in Callers, Deliver(c)
    PROVE  IInv'
  <1> DEFINE r == call[c].request
  <1> USE DEF IInv
  <1>1. /\ UNCHANGED <<now, row, wf, expires, queue, used, sent>> /\ Silent /\ sent \in Nat
        /\ call[c].step = "deliver" /\ call[c].step \in Delivering
    BY DEF Deliver, outside, TypeOK, Delivering
  <1>2. CASE wf.life # "gone" /\ Resumed(c)
    BY <1>1, <1>2, VerdictInv DEF Deliver
  <1>3. CASE /\ ~(wf.life # "gone" /\ Resumed(c))
             /\ wf.life = "gone" \/ ~Pending(r, now) \/ ~call[c].d.kept
    <2>1. Closes(c, "rejected")
      BY <1>3 DEF Deliver
    <2>2. Clean => ~Pending(r, now)
      BY <1>1, <1>3 DEF Clean, CallsGood, CallGood
    <2>3. Clean => Missed(r)
      BY <1>1, <1>3, <2>2, ResumedMeansUsed DEF Clean, Missed
    <2> QED
      BY <1>1, <2>1, <2>3, VerdictInv
  <1>4. CASE call' = [call EXCEPT ![c].step = "signal", ![c].pre = wf.refused]
    <2>1. /\ Changes(c) /\ call'[c].step = "signal"
          /\ call'[c].request = r /\ call'[c].answer = call[c].answer
          /\ call'[c].d = call[c].d /\ call'[c].turn = call[c].turn /\ call'[c].base = call[c].base
      <3>1. PICK x : x = [call[c] EXCEPT !.step = "signal", !.pre = wf.refused]
        OBVIOUS
      <3>2. call' = [call EXCEPT ![c] = x]
        BY <1>4, <3>1 DEF TypeOK
      <3>3. /\ x \in Call /\ x.step = "signal"
            /\ x.request = r /\ x.answer = call[c].answer
            /\ x.d = call[c].d /\ x.turn = call[c].turn /\ x.base = call[c].base
        <4>1. call[c] \in Call /\ wf.refused \in Nat
          BY DEF TypeOK, Workflow
        <4>2. x \in Call
          BY <3>1, <4>1 DEF Call
        <4> QED
          BY <3>1, <4>1, <4>2 DEF Call
      <3> QED
        BY <3>2, <3>3 DEF TypeOK, Changes
    <2>2. CallGood(call[c])
      BY DEF CallsGood
    <2>3. CallGood(call'[c])
      BY <1>1, <2>1, <2>2 DEF CallGood, Delivering
    <2> QED
      BY <1>1, <2>1, <2>3, QuietMoves
  <1> QED
    BY <1>2, <1>3, <1>4 DEF Deliver

LEMMA ConfirmInv ==
    ASSUME IInv, NEW c \in Callers, Confirm(c)
    PROVE  IInv'
  <1> DEFINE r == call[c].request
  <1> USE DEF IInv
  <1>1. /\ UNCHANGED <<now, row, wf, expires, queue, used, sent>> /\ sent \in Nat
        /\ call[c].step \in Delivering
    BY DEF Confirm, outside, TypeOK, Delivering
  <1>2. CASE wf.life # "gone" /\ Resumed(c) /\ Closes(c, "accepted") /\ Silent
    BY <1>1, <1>2, VerdictInv
  <1>3. CASE /\ ~Resumed(c) /\ (TimedOut(c) \/ RefusedSince(c))
             /\ Closes(c, "rejected") /\ Silent
    <2>1. wf.refused \in Nat /\ call[c].pre \in Nat
      BY DEF TypeOK, Workflow, Call
    <2>2. Clean => ~RefusedSince(c)
      BY <2>1 DEF Clean, RefusedSince
    <2>3. Clean => Missed(r)
      BY <1>1, <1>3, <2>2, ResumedMeansUsed DEF TimedOut, Missed, Pending, Waits
    <2> QED
      BY <1>1, <1>3, <2>3, VerdictInv
  <1>4. CASE Answered(c, "pending")
    BY <1>1, <1>4, AnsweredStep, CallMoves
  <1> QED
    BY <1>2, <1>3, <1>4 DEF Confirm

\* The signal is queued: it carries what the call delivers.
LEMMA QueuedGood ==
    ASSUME IInv, NEW c \in Callers, call[c].step \in Delivering, queue' = Queued(c),
           UNCHANGED <<now, row, wf, expires, used>>
    PROVE  queue' \in Seq([request : Requests, answer : Answers]) /\ SignalsGood'
  <1> DEFINE s == [request |-> call[c].request, answer |-> call[c].d.answer]
  <1> USE DEF IInv
  <1>1. CallGood(call[c])
    BY DEF CallsGood
  <1>2. s \in [request : Requests, answer : Answers] /\ SignalGood(s)
    BY <1>1 DEF CallGood, Delivering, SignalGood
  <1>3. queue' = Append(queue, s) /\ queue \in Seq([request : Requests, answer : Answers])
    BY DEF Queued, TypeOK
  <1> HIDE DEF s
  <1>4. \A i \in 1 .. Len(queue') : queue'[i] = s \/ (i \in 1 .. Len(queue) /\ queue'[i] = queue[i])
    BY <1>2, <1>3
  <1>5. \A i \in 1 .. Len(queue') : SignalGood(queue'[i])
    BY <1>2, <1>4 DEF SignalsGood
  <1>6. \A i \in 1 .. Len(queue') : SignalGood(queue[i])'
    BY <1>5 DEF SignalGood, Clean, Pending, Waits, Recording
  <1> QED
    BY <1>2, <1>3, <1>6 DEF SignalsGood

LEMMA SignalInv ==
    ASSUME IInv, NEW c \in Callers, Signal(c)
    PROVE  IInv'
  <1> USE DEF IInv
  <1>1. /\ UNCHANGED <<now, row, wf, expires, used>> /\ call[c].step \in Delivering
        /\ call[c].step = "signal"
    BY DEF Signal, Delivering
  <1>2. CASE wf.life # "open"
    <2>1. Closes(c, "rejected") /\ UNCHANGED <<queue, sent>> /\ Silent /\ sent' \in Nat
      BY <1>2 DEF Signal, TypeOK
    <2> QED
      BY <1>1, <1>2, <2>1, VerdictInv DEF Clean
  <1>3. CASE wf.life = "open"
    <2>1. /\ sent' \in Nat
          /\ queue' \in {queue, Queued(c)}
          /\ (Goes(c, "confirm") /\ Silent) \/ Answered(c, "pending")
      BY <1>3 DEF Signal, TypeOK
    <2>2. /\ Changes(c) /\ CallGood(call'[c])
          /\ told' \subseteq Requests \X Answers
          /\ \A t \in told' : TellGood(t)
      <3>1. CASE Goes(c, "confirm") /\ Silent
        <4>1. /\ Changes(c) /\ call'[c].step = "confirm"
              /\ call'[c].request = call[c].request /\ call'[c].answer = call[c].answer
              /\ call'[c].d = call[c].d /\ call'[c].turn = call[c].turn
              /\ call'[c].base = call[c].base
          BY <3>1, GoesStep DEF CallSteps
        <4>2. CallGood(call[c])
          BY DEF CallsGood
        <4>3. CallGood(call'[c])
          BY <1>1, <4>1, <4>2 DEF CallGood, Delivering
        <4> QED
          BY <3>1, <4>1, <4>3 DEF Silent
      <3>2. CASE Answered(c, "pending")
        BY <1>1, <3>2, AnsweredStep
      <3> QED
        BY <2>1, <3>1, <3>2
    <2>3. CASE queue' = queue
      BY <1>1, <2>1, <2>2, <2>3, CallMoves
    <2>4. CASE queue' = Queued(c)
      <3>1. queue' \in Seq([request : Requests, answer : Answers]) /\ SignalsGood'
        BY <1>1, <2>4, QueuedGood
      <3>2. TypeOK'
        BY <1>1, <2>1, <2>2, <3>1 DEF TypeOK, Changes
      <3>3. UsedGood' /\ RowsGood'
        BY <1>1 DEF UsedGood, RowsGood, RowGood, Exact, Clean, Missed, Pending, Waits
      <3>4. CallsGood'
        <4>1. ASSUME NEW d \in Callers PROVE CallGood(call'[d])
          BY <2>2 DEF Changes, CallsGood
        <4>2. ASSUME NEW d \in Callers PROVE CallGood(call[d])'
          BY <1>1, <4>1 DEF CallGood, Exact, Clean, Missed, Pending, Waits, Recording
        <4> QED
          BY <4>2 DEF CallsGood
      <3>5. TellsGood'
        BY <1>1, <2>2 DEF TellsGood, TellGood, Clean
      <3> QED
        BY <3>1, <3>2, <3>3, <3>4, <3>5
    <2> QED
      BY <2>1, <2>3, <2>4
  <1> QED
    BY <1>2, <1>3

-----------------------------------------------------------------------------
(* Steps of a call that write the ledger *)

\* A step that writes one row and changes the calls of one caller.  A live
\* answer that could still be delivered is not written over.
LEMMA RowWritten ==
    ASSUME IInv, NEW c \in Callers, NEW r \in Requests, NEW d \in Delivery,
           row' = [row EXCEPT ![r] = d],
           d.state # "none", RowGood(r, d),
           Clean /\ Pending(r, now) => ~(\E a \in Answers : Recording(r, a)),
           Changes(c), CallGood(call[c])',
           UNCHANGED <<now, wf, expires, queue, used, sent>>,
           told' \subseteq Requests \X Answers, \A t \in told' : TellGood(t)
    PROVE  IInv'
  <1> USE DEF IInv
  <1>1. row' \in [Requests -> Delivery] /\ row'[r] = d /\ \A q \in Requests : q # r => row'[q] = row[q]
    BY DEF TypeOK
  <1>2. TypeOK'
    BY <1>1 DEF TypeOK, Changes
  <1>3. UsedGood'
    BY <1>1 DEF UsedGood
  <1>4. RowsGood'
    <2>1. ASSUME NEW q \in Requests PROVE RowGood(q, row'[q])
      BY <1>1 DEF RowsGood
    <2>2. ASSUME NEW q \in Requests PROVE RowGood(q, row[q])'
      BY <2>1 DEF RowGood, Exact, Clean, Missed, Pending, Waits
    <2> QED
      BY <2>2 DEF RowsGood
  <1>5. CallsGood'
    <2>1. ASSUME NEW e \in Callers, e # c PROVE CallGood(call[e])'
      <3>1. CallGood(call[e]) /\ call'[e] = call[e]
        BY <2>1 DEF CallsGood, Changes
      <3>2. /\ UNCHANGED <<Clean>>
            /\ \A q \in Requests : Pending(q, now)' = Pending(q, now) /\ Missed(q)' = Missed(q)
            /\ \A q, b : Exact(q, b)' = Exact(q, b)
        BY DEF Clean, Pending, Waits, Missed, Exact
      <3>3. \A q \in Requests, a \in Answers :
               Clean /\ Pending(q, now) /\ Recording(q, a) => Recording(q, a)'
        BY <1>1 DEF Recording
      <3> QED
        BY <1>1, <3>1, <3>2, <3>3 DEF CallGood, Delivering
    <2> QED
      BY <2>1 DEF CallsGood
  <1>6. SignalsGood'
    <2>1. ASSUME NEW i \in 1 .. Len(queue) PROVE SignalGood(queue[i])'
      <3>1. SignalGood(queue[i])
        BY DEF SignalsGood
      <3>2. queue[i] \in [request : Requests, answer : Answers]
        BY SeqElement DEF TypeOK
      <3> QED
        BY <1>1, <3>1, <3>2 DEF SignalGood, Clean, Pending, Waits, Recording
    <2> QED
      BY <2>1 DEF SignalsGood
  <1>7. TellsGood'
    BY DEF TellsGood, TellGood, Clean
  <1> QED
    BY <1>2, <1>3, <1>4, <1>5, <1>6, <1>7

LEMMA ClaimInv ==
    ASSUME IInv, NEW c \in Callers, Claim(c)
    PROVE  IInv'
  <1> DEFINE r == call[c].request
  <1> USE DEF IInv
  <1>1. /\ UNCHANGED <<now, wf, expires, queue, used, sent>> /\ Silent /\ sent \in Nat
        /\ call[c].step \in {"claim", "again"}
    BY DEF Claim, outside, TypeOK
  <1>2. /\ r \in Requests /\ r <= wf.request /\ call[c].answer \in Answers
        /\ Exact(r, call[c].base) /\ call[c].base \in Nat
    BY <1>1 DEF CallsGood, CallGood, TypeOK, Call
  <1>3. CASE Claimable(r)
    <2>1. PICK d : d = Recorded(c)
      OBVIOUS
    <2>2. /\ d \in Delivery
          /\ d.state = "pending" /\ d.answer = call[c].answer /\ d.base = call[c].base /\ d.kept
      BY <1>2, <2>1 DEF Recorded, Delivery, Deliveries
    <2>3. /\ row' = [row EXCEPT ![r] = d]
          /\ call' = [call EXCEPT ![c].step = "deliver", ![c].d = d, ![c].turn = "own", ![c].base = 0]
      BY <1>3, <2>1 DEF Claim
    <2>4. PICK x : x = [call[c] EXCEPT !.step = "deliver", !.d = d, !.turn = "own", !.base = 0]
      OBVIOUS
    <2>5. call' = [call EXCEPT ![c] = x]
      BY <2>3, <2>4 DEF TypeOK
    <2>6. /\ x \in Call /\ x.step = "deliver" /\ x.d = d /\ x.turn = "own"
          /\ x.request = r /\ x.answer = call[c].answer
      <3>1. call[c] \in Call /\ d \in Delivery
        BY <2>2 DEF TypeOK
      <3> QED
        BY <2>4, <3>1 DEF Call
    <2>7. Changes(c) /\ call'[c] = x
      BY <2>5, <2>6 DEF TypeOK, Changes
    <2>8. Clean /\ wf.request = r => used[r] = NoAnswer
      BY <1>2, <1>3 DEF Claimable, RowsGood, RowGood, Missed, UsedGood
    <2>9. ~(\E a \in Answers : Recording(r, a))
      BY <1>3 DEF Claimable, Recording
    <2>10. RowGood(r, d)
      BY <1>2, <2>2, <2>8 DEF RowGood
    <2>11. Recording(r, d.answer)' /\ row'[r].state # "none"
      BY <1>2, <2>2, <2>3 DEF Recording, TypeOK
    <2>12. CallGood(call[c])'
      <3>0. r' = r
        BY <2>6, <2>7
      <3>1. Exact(r, d.base)'
        BY <1>1, <1>2, <2>2, <3>0 DEF Exact
      <3>2. (Clean /\ wf.request = r => used[r] = NoAnswer)'
        BY <1>1, <2>8, <3>0 DEF Clean
      <3>3. (r <= wf.request)'
        BY <1>1, <1>2, <3>0
      <3> QED
        BY <1>2, <2>2, <2>6, <2>7, <2>11, <3>1, <3>2, <3>3 DEF CallGood, Delivering
    <2> QED
      BY <1>1, <1>2, <2>2, <2>3, <2>7, <2>9, <2>10, <2>12, RowWritten DEF Silent
  <1>4. CASE ~Claimable(r)
    <2>1. /\ row' = row
          /\ (Goes(c, "lost") /\ call[c].step = "claim") \/ Ends(c)
      BY <1>1, <1>4 DEF Claim
    <2>2. CASE Ends(c)
      BY <1>1, <2>1, <2>2, EndsStep, IdleGood, QuietMoves
    <2>3. CASE Goes(c, "lost") /\ call[c].step = "claim"
      <3>1. /\ Changes(c) /\ call'[c].step = "lost"
            /\ call'[c].request = r /\ call'[c].answer = call[c].answer /\ call'[c].base = call[c].base
        BY <2>3, GoesStep DEF CallSteps
      <3>2. CallGood(call'[c])
        BY <1>2, <1>4, <3>1 DEF CallGood, Delivering, Claimable
      <3> QED
        BY <1>1, <2>1, <3>1, <3>2, QuietMoves
    <2> QED
      BY <2>1, <2>2, <2>3
  <1> QED
    BY <1>3, <1>4

LEMMA CloseInv ==
    ASSUME IInv, NEW c \in Callers, Close(c)
    PROVE  IInv'
  <1> DEFINE r == call[c].request to == call[c].to
  <1> USE DEF IInv
  <1>1. /\ UNCHANGED <<now, wf, expires, queue, used, sent>> /\ sent \in Nat
        /\ call[c].step = "close" /\ Answered(c, to)
    BY DEF Close, outside, TypeOK
  <1>2. /\ r \in Requests /\ to \in {"accepted", "rejected"}
        /\ to = "accepted" => used[r] # NoAnswer /\ (Clean => call[c].d.answer = used[r])
        /\ to = "rejected" /\ Clean => Missed(r)
    BY <1>1 DEF CallsGood, CallGood, TypeOK, Call
  <1>3. /\ Changes(c) /\ CallGood(call'[c]) /\ call'[c].step \in {"idle", "ask", "again"}
        /\ told' \subseteq Requests \X Answers
        /\ \A t \in told' : TellGood(t)
    BY <1>1, <1>2, AnsweredStep
  <1>4. CASE UNCHANGED row
    BY <1>1, <1>3, <1>4, CallMoves
  <1>5. CASE ClosesRow(c) /\ row' = [row EXCEPT ![r].state = to, ![r].kept = FALSE]
    <2>1. row[r].state = "pending" /\ row[r].answer = call[c].d.answer /\ RowGood(r, row[r])
      BY <1>2, <1>5 DEF ClosesRow, RowsGood
    <2>2. PICK d : d = [row[r] EXCEPT !.state = to, !.kept = FALSE]
      OBVIOUS
    <2>3. row' = [row EXCEPT ![r] = d]
      BY <1>5, <2>2 DEF TypeOK
    <2>4. d \in Delivery /\ d.state = to /\ d.answer = row[r].answer /\ d.base = row[r].base
      <3>1. row[r] \in Delivery
        BY <1>2 DEF TypeOK
      <3> QED
        BY <1>2, <2>2, <3>1 DEF Delivery, Deliveries
    <2>5. RowGood(r, d)
      BY <1>2, <2>1, <2>4 DEF RowGood
    <2>6. Clean => ~Pending(r, now)
      BY <1>2 DEF Missed, Pending, Waits, UsedGood
    <2>7. CallGood(call[c])'
      BY <1>1, <1>3 DEF CallGood, Delivering, Exact
    <2> QED
      BY <1>1, <1>2, <1>3, <2>3, <2>4, <2>5, <2>6, <2>7, RowWritten
  <1> QED
    BY <1>4, <1>5 DEF Close

\* A row may lose the value of an expired answer, and nothing else.
LEMMA ClearedRows ==
    ASSUME IInv, row' \in {row, ClearExpiredValues}
    PROVE  /\ row' \in [Requests -> Delivery]
           /\ \A r \in Requests :
                 /\ row'[r].state = row[r].state /\ row'[r].answer = row[r].answer
                 /\ row'[r].base = row[r].base
                 /\ row'[r] = row[r] \/ expires[r] <= now
  <1> USE DEF IInv
  <1>1. CASE row' = row
    BY <1>1 DEF TypeOK
  <1>2. CASE row' = ClearExpiredValues
    <2>1. ASSUME NEW r \in Requests
          PROVE  /\ row'[r] \in Delivery
                 /\ row'[r].state = row[r].state /\ row'[r].answer = row[r].answer
                 /\ row'[r].base = row[r].base
                 /\ row'[r] = row[r] \/ expires[r] <= now
      <3>1. row[r] \in Delivery
        BY DEF TypeOK
      <3>2. CASE Expired(r)
        <4>1. row'[r] = [row[r] EXCEPT !.kept = FALSE]
          BY <1>2, <3>2 DEF ClearExpiredValues
        <4> QED
          BY <3>1, <3>2, <4>1 DEF Delivery, Expired
      <3>3. CASE ~Expired(r)
        BY <1>2, <3>1, <3>3 DEF ClearExpiredValues
      <3> QED
        BY <3>2, <3>3
    <2>2. row' = [r \in Requests |-> row'[r]]
      BY <1>2 DEF ClearExpiredValues
    <2> QED
      BY <2>1, <2>2
  <1> QED
    BY <1>1, <1>2

LEMMA SubmitInv ==
    ASSUME IInv, NEW c \in Callers, NEW r \in Requests, NEW a \in Answers, Submit(c, r, a)
    PROVE  IInv'
  <1> USE DEF IInv
  <1>1. UNCHANGED <<now, wf, expires, queue, used, sent>> /\ Silent /\ r <= wf.request
    BY DEF Submit, outside
  <1>2. /\ row' \in [Requests -> Delivery]
        /\ \A q \in Requests :
              /\ row'[q].state = row[q].state /\ row'[q].answer = row[q].answer
              /\ row'[q].base = row[q].base
              /\ row'[q] = row[q] \/ expires[q] <= now
    BY ClearedRows DEF Submit
  <1>3. Changes(c) /\ CallGood(call'[c])
    <2>1. CASE call' = call
      BY <2>1 DEF Changes, CallsGood, TypeOK
    <2>2. CASE call' = [call EXCEPT ![c] = [Idle EXCEPT !.step = "get", !.request = r, !.answer = a]]
      <3>1. PICK x : x = [Idle EXCEPT !.step = "get", !.request = r, !.answer = a]
        OBVIOUS
      <3>2. x \in Call /\ x.step = "get" /\ x.request = r /\ x.answer = a
        BY <3>1, IdleTyped DEF Idle, Call
      <3>3. call' = [call EXCEPT ![c] = x]
        BY <2>2, <3>1
      <3>4. Changes(c) /\ call'[c] = x
        BY <3>2, <3>3 DEF TypeOK, Changes
      <3> QED
        BY <1>1, <3>2, <3>4 DEF CallGood, Delivering
    <2> QED
      BY <2>1, <2>2 DEF Submit
  <1>4. TypeOK'
    BY <1>1, <1>2, <1>3 DEF TypeOK, Changes, Silent
  <1>5. UsedGood'
    BY <1>1, <1>2 DEF UsedGood
  <1>6. RowsGood'
    <2>1. ASSUME NEW q \in Requests PROVE RowGood(q, row[q])'
      <3>1. RowGood(q, row[q])
        BY DEF RowsGood
      <3> QED
        BY <1>1, <1>2, <3>1 DEF RowGood, Exact, Clean, Missed, Pending, Waits
    <2> QED
      BY <2>1 DEF RowsGood
  <1>7. \A q \in Requests, b \in Answers : Recording(q, b)' = Recording(q, b)
    BY <1>2 DEF Recording
  <1>8. CallsGood'
    <2>1. ASSUME NEW e \in Callers PROVE CallGood(call'[e])
      BY <1>3 DEF Changes, CallsGood
    <2>2. ASSUME NEW e \in Callers PROVE CallGood(call[e])'
      BY <1>1, <1>2, <1>7, <2>1 DEF CallGood, Delivering, Exact, Clean, Missed, Pending, Waits
    <2> QED
      BY <2>2 DEF CallsGood
  <1>9. SignalsGood'
    <2>1. ASSUME NEW i \in 1 .. Len(queue) PROVE SignalGood(queue[i])'
      <3>1. SignalGood(queue[i])
        BY DEF SignalsGood
      <3>2. queue[i] \in [request : Requests, answer : Answers]
        BY SeqElement DEF TypeOK
      <3> QED
        BY <1>1, <1>2, <3>1, <3>2 DEF SignalGood, Clean, Pending, Waits, Recording
    <2> QED
      BY <1>1, <2>1 DEF SignalsGood
  <1>10. TellsGood'
    BY <1>1 DEF TellsGood, Silent
  <1> QED
    BY <1>4, <1>5, <1>6, <1>8, <1>9, <1>10

-----------------------------------------------------------------------------
(* Steps of the workflow and of time *)

\* Nothing comes back: a request that was asked keeps its expiry, stays the
\* current one only while no other is asked, and is answered at most once, by
\* the answer that is recorded when nothing was refused.
LEMMA WorkflowMoves ==
    ASSUME IInv, UNCHANGED <<row, call>>, TypeOK', told' = {},
           Clean' => Clean, wf.request <= wf'.request, now <= now',
           wf'.state # "RUNNING" => used'[wf'.request] = NoAnswer,
           \A i \in 1 .. Len(queue') : \E j \in 1 .. Len(queue) : queue'[i] = queue[j],
           \A r \in Requests : r > wf.request => used'[r] = used[r],
           \A r \in Requests : r <= wf.request =>
               /\ expires'[r] = expires[r]
               /\ wf'.request = r => wf.request = r
               /\ Pending(r, now)' => Pending(r, now)
               /\ \/ used'[r] = used[r] /\ (wf.request = r => wf'.resumes = wf.resumes)
                  \/ /\ used[r] = NoAnswer /\ used'[r] # NoAnswer /\ Pending(r, now)
                     /\ wf'.resumes = wf.resumes + 1
                     /\ Clean' => Recording(r, used'[r])
                     /\ row[r].state # "none"
    PROVE  IInv'
  <1> USE DEF IInv
  <1>1. wf.request \in Requests /\ wf'.request \in Requests /\ wf.request \in Nat /\ wf'.request \in Nat
        /\ now \in Nat /\ now' \in Nat
    BY HumanInputAssumption DEF TypeOK, Workflow, Requests
  <1>2. \A r \in Requests : r \in Nat
    BY HumanInputAssumption DEF Requests
  <1>3. \A r \in Requests : \A b \in Nat : r <= wf.request /\ Exact(r, b) => Exact(r, b)'
    BY DEF Exact, TypeOK, Workflow
  <1>4. \A r \in Requests : r <= wf.request /\ Clean' /\ Missed(r) => Missed(r)'
    BY <1>1 DEF Missed
  <1>5. UsedGood'
    BY <1>1, <1>2 DEF UsedGood
  <1>6. RowsGood'
    <2>1. ASSUME NEW r \in Requests, row[r].state # "none" PROVE RowGood(r, row[r])'
      <3>1. RowGood(r, row[r]) /\ r <= wf.request /\ row[r].base \in Nat
        BY <2>1 DEF RowsGood, RowGood, TypeOK, Delivery
      <3>2. Exact(r, row[r].base)'
        BY <1>3, <3>1, <2>1 DEF RowGood, Exact
      <3>3. (row[r].answer \in Answers /\ r <= wf.request)'
        BY <1>1, <1>2, <2>1, <3>1 DEF RowGood
      <3>4. row[r].state = "accepted" => used'[r] # NoAnswer /\ (Clean' => row[r].answer = used'[r])
        BY <2>1, <3>1 DEF RowGood
      <3>5. row[r].state = "rejected" /\ Clean' => Missed(r)'
        BY <2>1, <3>1, <1>4 DEF RowGood
      <3>6. row[r].state = "pending" =>
               /\ ~row[r].kept => expires'[r] <= now'
               /\ Clean' /\ wf'.request = r /\ used'[r] # NoAnswer => row[r].answer = used'[r]
        <4>1. expires[r] \in Nat
          BY DEF TypeOK
        <4> QED
          BY <1>1, <2>1, <3>1, <4>1 DEF RowGood, Recording
      <3> QED
        BY <3>2, <3>3, <3>4, <3>5, <3>6 DEF RowGood
    <2> QED
      BY <2>1 DEF RowsGood, RowGood
  <1>7. CallsGood'
    <2>1. ASSUME NEW c \in Callers, call[c].step # "idle" PROVE CallGood(call[c])'
      <3> DEFINE r == call[c].request
      <3>1. /\ CallGood(call[c]) /\ r \in Requests /\ r <= wf.request /\ r \in Nat
            /\ call[c].base \in Nat /\ call[c].d.base \in Nat
        BY <1>2, <2>1 DEF CallsGood, CallGood, TypeOK, Call, Delivery
      <3>2. /\ r <= wf'.request
            /\ Exact(r, call[c].base) => Exact(r, call[c].base)'
            /\ Exact(r, call[c].d.base) => Exact(r, call[c].d.base)'
            /\ Clean' /\ Missed(r) => Missed(r)'
            /\ Pending(r, now)' => Pending(r, now)
        BY <1>1, <1>3, <1>4, <3>1 DEF Exact, Missed, Pending, Waits
      <3>3. \A b \in Answers : Recording(r, b)' = Recording(r, b)
        BY DEF Recording
      <3>4. call[c].step \in Delivering /\ Clean' /\ wf'.request = r /\ used'[r] # NoAnswer =>
               call[c].d.answer = used'[r]
        BY <3>1 DEF CallGood, Recording
      <3>5. call[c].step = "close" =>
               (call[c].to = "accepted" => used'[r] # NoAnswer /\ (Clean' => call[c].d.answer = used'[r]))
        BY <3>1 DEF CallGood
      <3> QED
        BY <3>1, <3>2, <3>3, <3>4, <3>5 DEF CallGood, Delivering
    <2> QED
      BY <2>1, IdleGood DEF CallsGood, CallGood, Delivering
  <1>8. SignalsGood'
    <2>1. ASSUME NEW i \in 1 .. Len(queue') PROVE SignalGood(queue[i])'
      <3>1. PICK j \in 1 .. Len(queue) : queue'[i] = queue[j]
        OBVIOUS
      <3>2. queue[j] \in [request : Requests, answer : Answers]
        BY SeqElement DEF TypeOK
      <3>3. SignalGood(queue[j])
        BY DEF SignalsGood
      <3>4. PICK s : s = queue[j]
        OBVIOUS
      <3>5. s.request \in Requests /\ s.request \in Nat /\ s.request <= wf.request /\ row[s.request].state # "none"
        BY <1>2, <3>2, <3>3, <3>4 DEF SignalGood
      <3>6. (Clean /\ Pending(s.request, now) => Recording(s.request, s.answer))'
        BY <3>3, <3>4, <3>5 DEF SignalGood, Recording
      <3> QED
        BY <1>1, <3>1, <3>4, <3>5, <3>6 DEF SignalGood
    <2> QED
      BY <2>1 DEF SignalsGood
  <1>9. TellsGood'
    BY DEF TellsGood
  <1> QED
    BY <1>5, <1>6, <1>7, <1>8, <1>9

LEMMA AskHumanInv ==
    ASSUME IInv, AskHuman
    PROVE  IInv'
  <1> USE DEF IInv
  <1>1. /\ wf \in Workflow /\ wf.request \in Requests /\ wf.request \in Nat /\ now \in Nat
        /\ wf.request < Rounds
    BY HumanInputAssumption DEF AskHuman, TypeOK, Workflow, Requests
  <1>2. wf.request + 1 \in Requests /\ now + TTL \in Nat
    BY <1>1, HumanInputAssumption DEF Requests
  <1>3. PICK n : n = wf.request + 1
    OBVIOUS
  <1>4. wf' = [wf EXCEPT !.state = "WAITING", !.request = n] /\ n \in Requests
    BY <1>2, <1>3 DEF AskHuman
  <1>5. /\ wf' \in Workflow /\ wf'.state = "WAITING" /\ wf'.request = n
        /\ wf'.resumes = wf.resumes /\ wf'.life = wf.life /\ wf'.refused = wf.refused
    BY <1>1, <1>4 DEF Workflow
  <1>6. /\ expires' \in [Requests -> Nat]
        /\ \A r \in Requests : r <= wf.request => expires'[r] = expires[r]
    BY <1>1, <1>2, HumanInputAssumption DEF AskHuman, TypeOK, Requests
  <1>7. UNCHANGED <<now, row, call, queue, used, sent>> /\ told' = {}
    BY DEF AskHuman, Silent
  <1>8. TypeOK'
    BY <1>5, <1>6, <1>7 DEF TypeOK
  <1>9. used[n] = NoAnswer
    BY <1>1, <1>3, <1>4 DEF UsedGood
  <1>10. \A r \in Requests : r <= wf.request => wf'.request # r
    BY <1>1, <1>3, <1>5 DEF Requests
  <1>11. \A r \in Requests : r <= wf.request => ~Pending(r, now)'
    BY <1>10 DEF Pending, Waits
  <1>12. Clean' => Clean
    BY <1>5 DEF Clean
  <1>13. wf.request <= wf'.request /\ now <= now'
    BY <1>1, <1>3, <1>5, <1>7
  <1> QED
    BY <1>5, <1>6, <1>7, <1>8, <1>9, <1>10, <1>11, <1>12, <1>13, WorkflowMoves

\* What a drained queue holds.
LEMMA TailElements ==
    ASSUME NEW S, NEW q \in Seq(S), q # <<>>
    PROVE  /\ Tail(q) \in Seq(S)
           /\ Head(q) = q[1] /\ 1 \in 1 .. Len(q)
           /\ \A i \in 1 .. Len(Tail(q)) : \E j \in 1 .. Len(q) : Tail(q)[i] = q[j]
  <1>1. \A i \in 1 .. Len(Tail(q)) : i + 1 \in 1 .. Len(q) /\ Tail(q)[i] = q[i + 1]
    OBVIOUS
  <1> QED
    BY <1>1

LEMMA DrainInv ==
    ASSUME IInv, Drain
    PROVE  IInv'
  <1> DEFINE S == [request : Requests, answer : Answers]
  <1> USE DEF IInv
  <1>1. PICK s : s = Head(queue)
    OBVIOUS
  <1>2. /\ queue' \in Seq(S) /\ s \in S /\ SignalGood(s)
        /\ \A i \in 1 .. Len(queue') : \E j \in 1 .. Len(queue) : queue'[i] = queue[j]
    <2>1. queue \in Seq(S) /\ queue # <<>> /\ queue' = Tail(queue)
      BY DEF Drain, TypeOK
    <2> HIDE DEF S
    <2>2. s = queue[1] /\ 1 \in 1 .. Len(queue)
      BY <1>1, <2>1, TailElements
    <2>3. s \in S
      BY <2>1, <2>2, SeqElement
    <2> QED
      BY <2>1, <2>2, <2>3, TailElements DEF SignalsGood
  <1>3. UNCHANGED <<now, row, call, expires, sent>> /\ told' = {} /\ wf \in Workflow /\ now \in Nat
    BY DEF Drain, Silent, TypeOK
  <1>4. s.request \in Requests /\ s.answer \in Answers
    BY <1>2
  <1>5. CASE Takes(s)
    <2>1. /\ wf' = [wf EXCEPT !.state = "RUNNING", !.resumes = wf.resumes + 1]
          /\ used' = [used EXCEPT ![s.request] = s.answer]
      BY <1>1, <1>5 DEF Drain
    <2>2. /\ wf' \in Workflow /\ wf'.state = "RUNNING" /\ wf'.request = wf.request
          /\ wf'.resumes = wf.resumes + 1 /\ wf'.life = wf.life /\ wf'.refused = wf.refused
      <3>1. PICK n : n = wf.resumes + 1
        OBVIOUS
      <3>2. n \in Nat
        BY <1>3, <3>1 DEF Workflow
      <3>3. wf' = [wf EXCEPT !.state = "RUNNING", !.resumes = n]
        BY <2>1, <3>1
      <3> HIDE <2>1
      <3> QED
        BY <1>3, <3>1, <3>2, <3>3 DEF Workflow
    <2>3. /\ used' \in [Requests -> Answers \union {NoAnswer}]
          /\ used'[s.request] = s.answer
          /\ \A r \in Requests : r # s.request => used'[r] = used[r]
      BY <1>4, <2>1 DEF TypeOK
    <2>4. /\ Pending(s.request, now) /\ wf.request = s.request
          /\ used[s.request] = NoAnswer /\ s.answer # NoAnswer
      BY <1>4, <1>5, HumanInputAssumption DEF Takes, Pending, Waits, UsedGood
    <2>5. TypeOK'
      BY <1>2, <1>3, <2>2, <2>3 DEF TypeOK
    <2>6. Clean' <=> Clean
      BY <2>2 DEF Clean
    <2>7. \A r \in Requests : ~Pending(r, now)'
      BY <2>2 DEF Pending, Waits
    <2>8. Clean' => Recording(s.request, s.answer)
      BY <1>2, <2>4, <2>6 DEF SignalGood
    <2>9. row[s.request].state # "none"
      BY <1>2 DEF SignalGood
    <2>10. wf.request <= wf'.request /\ now <= now'
      BY <1>3, <2>2, HumanInputAssumption DEF Workflow, Requests
    <2>11. ASSUME NEW r \in Requests, r <= wf.request
           PROVE  /\ expires'[r] = expires[r]
                  /\ wf'.request = r => wf.request = r
                  /\ Pending(r, now)' => Pending(r, now)
                  /\ \/ used'[r] = used[r] /\ (wf.request = r => wf'.resumes = wf.resumes)
                     \/ /\ used[r] = NoAnswer /\ used'[r] # NoAnswer /\ Pending(r, now)
                        /\ wf'.resumes = wf.resumes + 1
                        /\ Clean' => Recording(r, used'[r])
                        /\ row[r].state # "none"
      <3>1. CASE r = s.request
        BY <3>1, <1>3, <2>2, <2>3, <2>4, <2>7, <2>8, <2>9
      <3>2. CASE r # s.request
        BY <3>2, <1>3, <2>2, <2>3, <2>4, <2>7
      <3> QED
        BY <3>1, <3>2
    <2>12. \A r \in Requests : r > wf.request => used'[r] = used[r]
      BY <2>3, <2>4, HumanInputAssumption DEF Requests
    <2> QED
      BY <1>2, <1>3, <2>2, <2>5, <2>6, <2>10, <2>11, <2>12, WorkflowMoves
  <1>6. CASE ~Takes(s)
    <2>1. /\ wf' = [wf EXCEPT !.refused = wf.refused + 1]
          /\ used' = used
      BY <1>1, <1>6 DEF Drain
    <2>2. /\ wf' \in Workflow /\ wf'.state = wf.state /\ wf'.request = wf.request
          /\ wf'.resumes = wf.resumes /\ wf'.refused # 0
      <3>1. PICK n : n = wf.refused + 1
        OBVIOUS
      <3>2. n \in Nat /\ n # 0
        BY <1>3, <3>1 DEF Workflow
      <3>3. wf' = [wf EXCEPT !.refused = n]
        BY <2>1, <3>1
      <3> QED
        BY <1>3, <3>2, <3>3 DEF Workflow
    <2>3. TypeOK'
      BY <1>2, <1>3, <2>1, <2>2 DEF TypeOK
    <2>4. ~Clean'
      BY <2>2 DEF Clean
    <2>5. \A r \in Requests : Pending(r, now)' => Pending(r, now)
      BY <1>3, <2>2 DEF Pending, Waits
    <2>6. wf.request <= wf'.request /\ now <= now'
      BY <1>3, <2>2, HumanInputAssumption DEF Workflow, Requests
    <2>7. wf'.state # "RUNNING" => used'[wf'.request] = NoAnswer
      BY <2>1, <2>2 DEF UsedGood
    <2> QED
      BY <1>2, <1>3, <2>1, <2>2, <2>3, <2>4, <2>5, <2>6, <2>7, WorkflowMoves
  <1> QED
    BY <1>5, <1>6

\* A step after which the workflow reports the same request and answer.
LEMMA WorkflowStays ==
    ASSUME IInv, UNCHANGED <<row, call, expires, used, sent>>, told' = {},
           wf' \in Workflow, now' \in Nat, now <= now',
           queue' = queue \/ queue' = <<>>,
           wf'.request = wf.request, wf'.resumes = wf.resumes, wf'.refused = wf.refused,
           wf'.life = "open" => wf.life = "open",
           wf'.state = wf.state \/ (wf.state # "RUNNING" /\ wf'.state = "TIMED_OUT")
    PROVE  IInv'
  <1> USE DEF IInv
  <1>0. <<>> \in Seq([request : Requests, answer : Answers])
    OBVIOUS
  <1>1. TypeOK'
    BY <1>0 DEF TypeOK
  <1>2. Clean' => Clean
    BY DEF Clean
  <1>3. \A r \in Requests : expires[r] \in Nat
    BY DEF TypeOK
  <1>4. now \in Nat /\ wf.request <= wf'.request
    BY HumanInputAssumption DEF TypeOK, Workflow, Requests
  <1>5. \A r \in Requests : Pending(r, now)' => Pending(r, now)
    BY <1>3, <1>4 DEF Pending, Waits
  <1>6. wf'.state # "RUNNING" => used'[wf'.request] = NoAnswer
    BY DEF UsedGood
  <1>7. \A i \in 1 .. Len(queue') : \E j \in 1 .. Len(queue) : queue'[i] = queue[j]
    OBVIOUS
  <1> QED
    BY <1>1, <1>2, <1>4, <1>5, <1>6, <1>7, WorkflowMoves

LEMMA TimeOutInv ==
    ASSUME IInv, TimeOut
    PROVE  IInv'
  <1>1. wf \in Workflow /\ now \in Nat
    BY DEF IInv, TypeOK
  <1>2. /\ wf' \in Workflow /\ wf'.state = "TIMED_OUT" /\ wf'.request = wf.request
        /\ wf'.resumes = wf.resumes /\ wf'.refused = wf.refused /\ wf'.life = wf.life
    BY <1>1 DEF TimeOut, Workflow
  <1>3. UNCHANGED <<now, row, call, expires, queue, used, sent>> /\ told' = {} /\ wf.state = "WAITING"
    BY DEF TimeOut, Silent
  <1>4. now <= now'
    BY <1>1, <1>3
  <1> QED
    BY <1>1, <1>2, <1>3, <1>4, WorkflowStays

LEMMA EndWorkflowInv ==
    ASSUME IInv, EndWorkflow
    PROVE  IInv'
  <1>1. wf \in Workflow /\ now \in Nat
    BY DEF IInv, TypeOK
  <1>2. /\ wf' \in Workflow /\ wf'.state = wf.state /\ wf'.request = wf.request
        /\ wf'.resumes = wf.resumes /\ wf'.refused = wf.refused /\ wf'.life # "open"
    BY <1>1 DEF EndWorkflow, Workflow
  <1>3. UNCHANGED <<now, row, call, expires, used, sent>> /\ told' = {} /\ queue' = <<>>
    BY DEF EndWorkflow, Silent
  <1>4. now <= now'
    BY <1>1, <1>3
  <1> QED
    BY <1>1, <1>2, <1>3, <1>4, WorkflowStays

LEMMA TickInv ==
    ASSUME IInv, Tick
    PROVE  IInv'
  <1>1. wf \in Workflow /\ now \in Nat
    BY DEF IInv, TypeOK
  <1>2. UNCHANGED <<row, call, wf, expires, queue, used, sent>> /\ told' = {} /\ now' = now + 1
    BY DEF Tick, outside, Silent
  <1>3. now' \in Nat /\ now <= now'
    BY <1>1, <1>2
  <1> QED
    BY <1>1, <1>2, <1>3, WorkflowStays

-----------------------------------------------------------------------------
LEMMA StepInv == IInv /\ [Next]_vars => IInv'
  <1> SUFFICES ASSUME IInv, [Next]_vars PROVE IInv'
    OBVIOUS
  <1>1. CASE Next
    BY <1>1, AskHumanInv, DrainInv, TimeOutInv, EndWorkflowInv, TickInv, SubmitInv, GetInv, AskInv,
       ClaimInv, ReadWinnerInv, AbandonInv, DeliverInv, SignalInv, ConfirmInv, CloseInv
    DEF Next
  <1>2. CASE UNCHANGED vars
    BY <1>2
    DEF vars, IInv, TypeOK, UsedGood, RowsGood, RowGood, CallsGood, CallGood, SignalsGood,
        SignalGood, TellsGood, TellGood, Recording, Exact, Missed, Clean, Pending, Waits
  <1> QED
    BY <1>1, <1>2

\* The inductive invariant holds in every state.
THEOREM HumanInputInvariant == Spec => []IInv
  BY InitInv, StepInv, PTL DEF Spec

\* Every variable keeps its type.
THEOREM TypeCorrect == Spec => []TypeOK
  <1>1. IInv => TypeOK
    BY DEF IInv
  <1> QED
    BY <1>1, HumanInputInvariant, PTL

\* Whoever is told or recorded "accepted" was heard by the workflow, with that
\* very answer as long as it runs and has refused nothing.
THEOREM AcceptedWasUsed == Spec => []AcceptedIsTrue
  <1>1. IInv => AcceptedIsTrue
    <2> SUFFICES ASSUME IInv, NEW r \in Requests, NEW a \in Credited(r)
                 PROVE  used[r] # NoAnswer /\ (Clean => a = used[r])
      BY HumanInputAssumption DEF AcceptedIsTrue, Credited, Clean, IInv, TypeOK
    <2>1. CASE <<r, a>> \in told
      <3>1. TellGood(<<r, a>>)
        BY <2>1 DEF IInv, TellsGood
      <3> QED
        BY <3>1 DEF TellGood
    <2>2. CASE row[r].state = "accepted" /\ row[r].answer = a
      BY <2>2 DEF IInv, RowsGood, RowGood
    <2> QED
      BY <2>1, <2>2 DEF Credited
  <1> QED
    BY <1>1, HumanInputInvariant, PTL

\* An answer that the workflow resumed on is not recorded as rejected while it
\* still reports the request, runs and has refused nothing.
THEOREM RejectedWasNotUsed == Spec => []RejectedIsTrue
  <1>1. IInv => RejectedIsTrue
    <2> SUFFICES ASSUME IInv, NEW r \in Requests, row[r].state = "rejected", used[r] = row[r].answer,
                        wf.request = r, wf.life = "open"
                 PROVE  wf.refused > 0
      BY DEF RejectedIsTrue
    <2>1. row[r].answer \in Answers /\ (Clean => Missed(r))
      BY DEF IInv, RowsGood, RowGood
    <2>2. ~Clean
      BY <2>1, HumanInputAssumption DEF Missed
    <2>3. wf.refused \in Nat
      BY DEF IInv, TypeOK, Workflow
    <2> QED
      BY <2>2, <2>3 DEF Clean
  <1> QED
    BY <1>1, HumanInputInvariant, PTL

\* A request that can still be answered is free or holds an answer that can
\* still be delivered.
THEOREM NoAnswerIsLost == Spec => []AnswerNotLost
  <1>1. IInv => AnswerNotLost
    <2> SUFFICES ASSUME IInv, NEW r \in Requests, Pending(r, now), ~Claimable(r)
                 PROVE  row[r].state = "pending" /\ row[r].kept
      BY DEF AnswerNotLost
    <2>1. row[r] \in Delivery /\ RowGood(r, row[r]) /\ now \in Nat /\ expires[r] \in Nat
      BY DEF IInv, TypeOK, RowsGood
    <2>2. row[r].state \in {"pending", "accepted"}
      BY <2>1 DEF Delivery, Deliveries, Claimable
    <2>3. used[r] = NoAnswer /\ now < expires[r]
      BY DEF Pending, Waits, IInv, UsedGood
    <2> QED
      BY <2>1, <2>2, <2>3 DEF RowGood
  <1> QED
    BY <1>1, HumanInputInvariant, PTL
=============================================================================
