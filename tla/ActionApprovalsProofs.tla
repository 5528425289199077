------------------------ MODULE ActionApprovalsProofs ------------------------
(***************************************************************************)
(* Proofs about ActionApprovals, for any number of calls, replicas and     *)
(* reviewers and any bounds.  A call is only safe because of what its      *)
(* earlier steps left behind.  IInv relates the program counters of the    *)
(* calls to the row: who holds the reservation, whether a use may have     *)
(* happened, what a decision under way will record.  AInv relates the      *)
(* calls that revalidate and the resolvers' caches to the store: how old   *)
(* an answer about a disabled decider can be, and where it was forgotten.  *)
(***************************************************************************)
EXTENDS ActionApprovals, TLAPS

Reserving == {"running", "spend", "free"}
Receipt == {"consumed", "in_flight", "executed"}

\* A use is possible only from the reservation on, and a call that may give
\* the receipt back has not used it.
UsesAccounted ==
    /\ uses <= 1
    /\ row.state \notin {"in_flight", "executed"} => uses = 0
    /\ \A c \in Calls : call[c].pc \in {"running", "free"} => uses = 0

\* The recorded time of the spend is the real one and was in time.
SpendDated == row.state \in Receipt => row.consumed = row.spent /\ row.spent < row.expires

\* A decision under way that could still be written has passed the guard.
DecisionGuarded ==
    \A c \in Calls : call[c].pc = "deciding" =>
        /\ row.state # "none"
        /\ (call[c].ask = "approved" /\ row.state = "pending" /\ row.expires > now => call[c].ok)

\* What the store and the resolvers hold keeps its type.
AuthorityTyped ==
    /\ disabled \in [Humans -> Times]
    /\ cached \in [Replicas -> [Humans -> Times]]
    /\ forgotten \subseteq Replicas \X Humans

IInv ==
    /\ TypeOK
    /\ ReservationIsOwned
    /\ UsesAccounted
    /\ SpendDated
    /\ ReceiptAgeIsBounded
    /\ DecisionGuarded
    /\ ApprovalCarriesContext

-----------------------------------------------------------------------------
LEMMA InitInv == Init => IInv
  BY ApprovalsAssumption
  DEF Init, IInv, TypeOK, Row, Call, Idle, States, Decided, Granted, ReservationIsOwned,
      UsesAccounted, SpendDated, ReceiptAgeIsBounded, DecisionGuarded,
      ApprovalCarriesContext, Receipt, Times, None

LEMMA IdleTyped == Idle \in Call
  BY DEF Idle, Call

\* What a step of one call does to the calls.
LEMMA CallStep ==
    ASSUME TypeOK, NEW c \in Calls, NEW x \in Call, call' = [call EXCEPT ![c] = x]
    PROVE  /\ call' \in [Calls -> Call]
           /\ call'[c] = x
           /\ \A d \in Calls : d # c => call'[d] = call[d]
  BY DEF TypeOK

LEMMA EndStep ==
    ASSUME TypeOK, NEW c \in Calls, End(c)
    PROVE  /\ call' \in [Calls -> Call]
           /\ call'[c].pc = "idle"
           /\ \A d \in Calls : d # c => call'[d] = call[d]
  <1>1. Idle.pc = "idle"
    BY DEF Idle
  <1> QED
    BY <1>1, IdleTyped, CallStep DEF End

\* A call ends and leaves everything else alone: a refusal, a lost settle.
LEMMA QuietEndInv ==
    ASSUME IInv, NEW c \in Calls, End(c), UNCHANGED <<now, row, uses>>,
           AuthorityTyped'
    PROVE  IInv'
  <1> USE DEF IInv
  <1>1. /\ call' \in [Calls -> Call]
        /\ call'[c].pc = "idle"
        /\ \A d \in Calls : d # c => call'[d] = call[d]
    BY EndStep
  <1>2. TypeOK'
    BY <1>1 DEF TypeOK, AuthorityTyped
  <1>3. ReservationIsOwned' /\ UsesAccounted' /\ ReceiptAgeIsBounded'
    BY <1>1 DEF ReservationIsOwned, UsesAccounted, ReceiptAgeIsBounded
  <1>4. SpendDated' /\ ApprovalCarriesContext'
    BY DEF SpendDated, ApprovalCarriesContext
  <1>5. DecisionGuarded'
    BY <1>1 DEF DecisionGuarded
  <1> QED
    BY <1>2, <1>3, <1>4, <1>5

-----------------------------------------------------------------------------
\* What a step of a resolver does to its cache.
LEMMA AnswerStep ==
    ASSUME TypeOK, NEW x \in Replicas, NEW h \in Humans, NEW t \in Times, Answer(x, h, t)
    PROVE  /\ cached' \in [Replicas -> [Humans -> Times]]
           /\ cached'[x][h] = t
           /\ \A y \in Replicas, g \in Humans :
                 y # x \/ g # h => cached'[y][g] = cached[y][g]
  BY DEF Answer, TypeOK

\* The whole of a step on the store and the caches: an answer is kept or
\* dropped, a human is disabled, a resolver forgets, or nothing.
LEMMA AuthorityCases ==
    ASSUME [Next]_vars
    PROVE  \/ UNCHANGED authority
           \/ \E c \in Calls : RevalidateAnswered(c) \/ StoreRefuses(c) \/ StoreFails(c)
           \/ \E h \in Humans : Disable(h) \/ \E x \in Replicas : Forget(x, h)
  <1>1. ASSUME NEW c \in Calls, Decision(c) PROVE UNCHANGED authority
    BY <1>1 DEF Decision, DecideRead, Decide, DecideRefused
  <1>2. ASSUME NEW c \in Calls, Spend(c)
        PROVE  UNCHANGED authority \/ RevalidateAnswered(c) \/ StoreRefuses(c) \/ StoreFails(c)
    BY <1>2 DEF Spend, SpendRead, RevalidateRemembered, RevalidateAsk, StoreAnswers,
                RevalidateRefused, ConsumeActionApproval, ConsumeRefused
  <1>3. ASSUME NEW c \in Calls, Gate(c) \/ Crash(c) PROVE UNCHANGED authority
    BY <1>3 DEF Gate, VerifyAgentReceipt, ReserveActionApproval, ReserveLost,
                ReserveRefused, HandlerSucceeds, HandlerFails, HandlerCancelled,
                SettleActionApproval, SettleLost, Crash
  <1>4. CASE CreateActionApproval \/ MarkActionApprovalExecuted \/ Tick \/ UNCHANGED vars
    BY <1>4 DEF CreateActionApproval, MarkActionApprovalExecuted, Tick, vars
  <1> QED
    BY <1>1, <1>2, <1>3, <1>4 DEF Next

LEMMA AuthorityStep == TypeOK /\ [Next]_vars => AuthorityTyped'
  <1> SUFFICES ASSUME TypeOK, [Next]_vars PROVE AuthorityTyped'
    OBVIOUS
  <1>0. /\ None \in Times /\ Nat \subseteq Times
        /\ now \in Nat
        /\ \A c \in Calls : call[c].at \in Nat
    BY DEF TypeOK, Times, None, Call
  <1>1. ASSUME NEW x, NEW h, NEW t \in Times, Answer(x, h, t)
        PROVE  cached' \in [Replicas -> [Humans -> Times]]
    BY <1>1 DEF Answer, TypeOK
  <1>2. CASE UNCHANGED authority
    BY <1>2 DEF authority, TypeOK, AuthorityTyped
  <1>3. ASSUME NEW c \in Calls, RevalidateAnswered(c) \/ StoreRefuses(c) \/ StoreFails(c)
        PROVE  AuthorityTyped'
    <2>1. cached' \in [Replicas -> [Humans -> Times]]
      <3>1. CASE UNCHANGED cached
        BY <3>1 DEF TypeOK
      <3>2. CASE \/ Answer(Home[c], call[c].who, call[c].at)
                 \/ Answer(Home[c], call[c].who, None)
        BY <1>0, <1>1, <3>2
      <3> QED
        BY <1>3, <3>1, <3>2 DEF RevalidateAnswered, StoreRefuses, StoreFails
    <2>2. UNCHANGED <<disabled, forgotten>>
      BY <1>3 DEF RevalidateAnswered, StoreRefuses, StoreFails
    <2> QED
      BY <2>1, <2>2 DEF TypeOK, AuthorityTyped
  <1>4. ASSUME NEW h \in Humans, Disable(h) PROVE AuthorityTyped'
    BY <1>0, <1>4 DEF Disable, TypeOK, AuthorityTyped
  <1>5. ASSUME NEW h \in Humans, NEW x \in Replicas, Forget(x, h) PROVE AuthorityTyped'
    <2>1. cached' \in [Replicas -> [Humans -> Times]]
      BY <1>0, <1>1, <1>5 DEF Forget
    <2> QED
      BY <1>5, <2>1 DEF Forget, TypeOK, AuthorityTyped
  <1> QED
    BY <1>2, <1>3, <1>4, <1>5, AuthorityCases

LEMMA CreateInv ==
    ASSUME IInv, AuthorityTyped', CreateActionApproval
    PROVE  IInv'
  <1> USE DEF IInv
  <1>1. PICK ttl \in 1..MaxTTL :
          /\ row.state = "none"
          /\ row' = [row EXCEPT !.state = "pending", !.expires = now + ttl]
    BY DEF CreateActionApproval
  <1>2. row \in Row /\ now \in Nat /\ ttl \in Nat
    BY ApprovalsAssumption DEF TypeOK
  <1>3. /\ row' \in Row
        /\ row'.state = "pending"
    <2>1. ASSUME NEW x \in Nat
          PROVE  /\ [row EXCEPT !.state = "pending", !.expires = x] \in Row
                 /\ [row EXCEPT !.state = "pending", !.expires = x].state = "pending"
      BY <1>2 DEF Row, States
    <2>2. now + ttl \in Nat
      BY <1>2
    <2> QED
      BY <1>1, <2>1, <2>2
  <1>4. UNCHANGED <<now, call, uses>>
    BY DEF CreateActionApproval
  <1>5. TypeOK'
    BY <1>3, <1>4 DEF TypeOK, AuthorityTyped
  <1>6. \A c \in Calls : call[c].pc \notin {"deciding", "running", "spend", "free"}
    BY <1>1 DEF DecisionGuarded, ReservationIsOwned
  <1>7. ReservationIsOwned' /\ ReceiptAgeIsBounded' /\ DecisionGuarded'
    BY <1>4, <1>6 DEF ReservationIsOwned, ReceiptAgeIsBounded, DecisionGuarded
  <1>8. UsesAccounted' /\ SpendDated' /\ ApprovalCarriesContext'
    BY <1>1, <1>3, <1>4, <1>6
    DEF UsesAccounted, SpendDated, ApprovalCarriesContext, Receipt, Granted, Decided
  <1> QED
    BY <1>5, <1>7, <1>8

\* A call that holds no reservation moves on and the row stays.
LEMMA MoveInv ==
    ASSUME IInv, AuthorityTyped', NEW c \in Calls, NEW x \in Call,
           call' = [call EXCEPT ![c] = x], UNCHANGED <<now, row, uses>>,
           x.pc \notin Reserving,
           x.pc = "deciding" =>
               /\ row.state # "none"
               /\ (x.ask = "approved" /\ row.state = "pending" /\ row.expires > now => x.ok)
    PROVE  IInv'
  <1> USE DEF IInv
  <1>1. /\ call' \in [Calls -> Call]
        /\ call'[c] = x
        /\ \A d \in Calls : d # c => call'[d] = call[d]
    BY CallStep
  <1>2. TypeOK'
    BY <1>1 DEF TypeOK, AuthorityTyped
  <1>3. ReservationIsOwned' /\ UsesAccounted' /\ ReceiptAgeIsBounded'
    BY <1>1 DEF ReservationIsOwned, UsesAccounted, ReceiptAgeIsBounded, Reserving
  <1>4. SpendDated' /\ ApprovalCarriesContext'
    BY DEF SpendDated, ApprovalCarriesContext
  <1>5. DecisionGuarded'
    BY <1>1 DEF DecisionGuarded
  <1> QED
    BY <1>2, <1>3, <1>4, <1>5

LEMMA DecisionInv ==
    ASSUME IInv, AuthorityTyped', NEW c \in Calls, Decision(c)
    PROVE  IInv'
  <1> USE DEF IInv
  <1>1. ASSUME NEW h \in Humans, NEW ask \in {"approved", "denied"}, DecideRead(c, h, ask)
        PROVE  IInv'
    <2> DEFINE b == ask = "approved" /\ EffectiveState = "pending"
               x == [Idle EXCEPT !.pc = "deciding", !.who = h, !.ask = ask, !.ok = b]
    <2>1. b \in BOOLEAN
      OBVIOUS
    <2>2. row.expires > now /\ row.state = "pending" /\ ask = "approved" => b
      BY DEF EffectiveState, TypeOK, Row
    <2> HIDE DEF b
    <2>3. /\ x \in Call
          /\ x.pc = "deciding"
          /\ x.ask = ask
          /\ x.ok = b
      BY <2>1, IdleTyped DEF Call
    <2>4. call' = [call EXCEPT ![c] = x]
      BY <1>1 DEF DecideRead, b
    <2> HIDE DEF x
    <2> QED
      BY <1>1, <2>2, <2>3, <2>4, MoveInv DEF DecideRead, Reserving
  <1>2. CASE Decide(c)
    <2> DEFINE f == IF call[c].ask = "approved" THEN LeastOf(row.expires, now + FreshFor)
                                                ELSE row.fresh
    <2>1. /\ row \in Row
          /\ call[c] \in Call
          /\ row.state = "pending"
          /\ row.expires > now
      BY <1>2 DEF TypeOK, Decide, Decidable, EffectiveState, Row
    <2>2. f \in Nat
      BY <2>1, ApprovalsAssumption DEF LeastOf, Row, TypeOK
    <2>3. row' = [row EXCEPT !.state = call[c].ask, !.decider = call[c].who,
                             !.digest = call[c].ok, !.fresh = f]
      BY <1>2 DEF Decide
    <2> HIDE DEF f
    <2>4. /\ call[c].ask \in {"approved", "denied"}
          /\ call[c].who \in Humans \union {NoHuman}
          /\ call[c].ok \in BOOLEAN
      BY <2>1 DEF Call
    <2>5. /\ row' \in Row
          /\ row'.state = call[c].ask
          /\ row'.digest = call[c].ok
      <3>1. PICK s \in {"approved", "denied"}, w \in Humans \union {NoHuman}, o \in BOOLEAN :
              s = call[c].ask /\ w = call[c].who /\ o = call[c].ok
        BY <2>4
      <3>2. row' = [row EXCEPT !.state = s, !.decider = w, !.digest = o, !.fresh = f]
        BY <2>3, <3>1
      <3>3. row' \in Row /\ row'.state = s /\ row'.digest = o
        BY <2>1, <2>2, <3>2 DEF Row, States, Decided
      <3> QED
        BY <3>1, <3>3
    <2>6. /\ call' \in [Calls -> Call]
          /\ call'[c].pc = "idle"
          /\ \A d \in Calls : d # c => call'[d] = call[d]
      BY <1>2, EndStep DEF Decide
    <2>7. UNCHANGED <<now, uses>>
      BY <1>2 DEF Decide
    <2>8. TypeOK'
      BY <2>5, <2>6, <2>7 DEF TypeOK, AuthorityTyped
    <2>9. row'.state \in {"approved", "denied"}
      BY <2>1, <2>5 DEF Call
    <2>10. \A d \in Calls : call[d].pc \notin Reserving
      BY <2>1 DEF ReservationIsOwned, Reserving
    <2>11. ReservationIsOwned' /\ ReceiptAgeIsBounded' /\ UsesAccounted'
      BY <2>1, <2>6, <2>7, <2>9, <2>10
      DEF ReservationIsOwned, ReceiptAgeIsBounded, UsesAccounted, Reserving
    <2>12. SpendDated' /\ DecisionGuarded'
      BY <2>6, <2>7, <2>9 DEF SpendDated, DecisionGuarded, Receipt
    <2>13. ApprovalCarriesContext'
      BY <1>2, <2>1, <2>5, <2>9
      DEF ApprovalCarriesContext, DecisionGuarded, Decide, Granted, Decided
    <2> QED
      BY <2>8, <2>11, <2>12, <2>13
  <1>3. CASE DecideRefused(c)
    BY <1>3, QuietEndInv DEF DecideRefused
  <1> QED
    BY <1>1, <1>2, <1>3 DEF Decision

LEMMA SpendInv ==
    ASSUME IInv, AuthorityTyped', NEW c \in Calls, Spend(c)
    PROVE  IInv'
  <1> USE DEF IInv
  <1>0. /\ now \in Nat /\ call[c] \in Call
        /\ row.decider \in Humans \union {NoHuman}
    BY DEF TypeOK, Row
  <1>1. CASE SpendRead(c)
    <2> DEFINE x == [Idle EXCEPT !.pc = "read", !.who = row.decider]
    <2>1. x \in Call /\ x.pc = "read"
      BY <1>0, IdleTyped DEF Call
    <2>2. call' = [call EXCEPT ![c] = x] /\ UNCHANGED <<now, row, uses>>
      BY <1>1 DEF SpendRead
    <2> HIDE DEF x
    <2> QED
      BY <2>1, <2>2, MoveInv DEF Reserving
  <1>2. CASE \/ RevalidateRemembered(c) \/ RevalidateAsk(c)
             \/ StoreAnswers(c) \/ RevalidateAnswered(c)
    <2>1. PICK x \in Call : /\ call' = [call EXCEPT ![c] = x]
                            /\ x.pc \in {"checked", "asked", "answered"}
      <3> DEFINE b == ~Dropped(Home[c], call[c].who)
      <3>1. /\ b \in BOOLEAN
            /\ call[c].who \in Humans \union {NoHuman}
            /\ call \in [Calls -> Call]
        BY <1>0 DEF TypeOK, Call
      <3> HIDE DEF b
      <3>2. CASE RevalidateRemembered(c)
        <4> DEFINE x == [call[c] EXCEPT !.pc = "checked", !.since = now, !.ok = b]
        <4>1. x \in Call /\ x.pc = "checked"
          BY <1>0, <3>1 DEF Call
        <4>2. call' = [call EXCEPT ![c] = x]
          BY <3>1, <3>2 DEF RevalidateRemembered, b
        <4> HIDE DEF x
        <4> QED
          BY <4>1, <4>2
      <3>3. CASE RevalidateAsk(c)
        <4> DEFINE x == [call[c] EXCEPT !.pc = "asked", !.at = now, !.current = TRUE,
                                        !.ok = b]
        <4>1. x \in Call /\ x.pc = "asked"
          BY <1>0, <3>1 DEF Call
        <4>2. call' = [call EXCEPT ![c] = x]
          BY <3>1, <3>3 DEF RevalidateAsk, b
        <4> HIDE DEF x
        <4> QED
          BY <4>1, <4>2
      <3>4. CASE StoreAnswers(c)
        <4> DEFINE x == [call[c] EXCEPT !.pc = "answered", !.since = now]
        <4>1. x \in Call /\ x.pc = "answered"
          BY <1>0 DEF Call
        <4>2. call' = [call EXCEPT ![c] = x]
          BY <3>1, <3>4 DEF StoreAnswers
        <4> HIDE DEF x
        <4> QED
          BY <4>1, <4>2
      <3>5. CASE RevalidateAnswered(c)
        <4> DEFINE x == [call[c] EXCEPT !.pc = "checked", !.at = 0, !.current = FALSE]
        <4>1. x \in Call /\ x.pc = "checked"
          BY <1>0 DEF Call
        <4>2. call' = [call EXCEPT ![c] = x]
          BY <3>1, <3>5 DEF RevalidateAnswered
        <4> HIDE DEF x
        <4> QED
          BY <4>1, <4>2
      <3> QED
        BY <1>2, <3>2, <3>3, <3>4, <3>5
    <2>2. UNCHANGED <<now, row, uses>>
      BY <1>2 DEF RevalidateRemembered, RevalidateAsk, StoreAnswers, RevalidateAnswered
    <2> QED
      BY <2>1, <2>2, MoveInv DEF Reserving
  <1>3. CASE \/ StoreRefuses(c) \/ StoreFails(c) \/ RevalidateRefused(c)
             \/ ConsumeRefused(c)
    BY <1>3, QuietEndInv DEF StoreRefuses, StoreFails, RevalidateRefused, ConsumeRefused
  <1>4. CASE ConsumeActionApproval(c)
    <2>1. PICK at \in (call[c].since)..now :
            /\ Consumable(at)
            /\ row' = [row EXCEPT !.state = "consumed", !.consumed = at, !.spent = at, !.by = c]
      BY <1>4 DEF ConsumeActionApproval
    <2>2. row \in Row /\ at \in Nat
      BY <2>1 DEF TypeOK, Call
    <2>3. /\ row' \in Row
          /\ row'.state = "consumed"
          /\ row'.consumed = at /\ row'.spent = at
          /\ row'.expires = row.expires
          /\ row'.digest = row.digest
      BY <2>1, <2>2 DEF Row, States, Decided
    <2>4. row.state = "approved" /\ at < row.expires
      BY <2>1, <2>2 DEF Consumable, Row
    <2>5. /\ call' \in [Calls -> Call]
          /\ call'[c].pc = "idle"
          /\ \A d \in Calls : d # c => call'[d] = call[d]
      BY <1>4, EndStep DEF ConsumeActionApproval
    <2>6. UNCHANGED <<now, uses>>
      BY <1>4 DEF ConsumeActionApproval
    <2>7. TypeOK'
      BY <2>3, <2>5, <2>6 DEF TypeOK, AuthorityTyped
    <2>8. \A d \in Calls : call[d].pc \notin Reserving
      BY <2>4 DEF ReservationIsOwned, Reserving
    <2>9. ReservationIsOwned' /\ ReceiptAgeIsBounded' /\ UsesAccounted'
      BY <2>3, <2>4, <2>5, <2>6, <2>8
      DEF ReservationIsOwned, ReceiptAgeIsBounded, UsesAccounted, Reserving
    <2>10. SpendDated' /\ ApprovalCarriesContext'
      BY <2>3, <2>4 DEF SpendDated, ApprovalCarriesContext, Granted, Decided
    <2>11. DecisionGuarded'
      BY <2>3, <2>5, <2>6 DEF DecisionGuarded
    <2> QED
      BY <2>7, <2>9, <2>10, <2>11
  <1> QED
    BY <1>1, <1>2, <1>3, <1>4 DEF Spend

-----------------------------------------------------------------------------
\* The handler has run and only the call's own program counter moves on.
LEMMA HandlerInv ==
    ASSUME IInv, AuthorityTyped', NEW c \in Calls, NEW x \in Call, call[c].pc = "running",
           x.pc \in {"spend", "free"}, call' = [call EXCEPT ![c] = x],
           UNCHANGED <<now, row>>,
           uses' \in {0, 1}, x.pc = "free" => uses' = 0
    PROVE  IInv'
  <1> USE DEF IInv
  <1>3. /\ call' \in [Calls -> Call]
        /\ call'[c] = x
        /\ \A d \in Calls : d # c => call'[d] = call[d]
    BY CallStep
  <1>4. /\ row.state = "in_flight" /\ row.by = c
        /\ \A d \in Calls : d # c => call[d].pc \notin Reserving
    BY DEF ReservationIsOwned, Reserving
  <1>5. TypeOK'
    BY <1>3 DEF TypeOK, AuthorityTyped
  <1>6. ReservationIsOwned' /\ ReceiptAgeIsBounded'
    BY <1>3, <1>4 DEF ReservationIsOwned, ReceiptAgeIsBounded, Reserving
  <1>7. UsesAccounted'
    BY <1>3, <1>4 DEF UsesAccounted, Reserving
  <1>8. SpendDated' /\ ApprovalCarriesContext'
    BY DEF SpendDated, ApprovalCarriesContext
  <1>9. DecisionGuarded'
    BY <1>3 DEF DecisionGuarded
  <1> QED
    BY <1>5, <1>6, <1>7, <1>8, <1>9

LEMMA GateInv ==
    ASSUME IInv, AuthorityTyped', NEW c \in Calls, Gate(c)
    PROVE  IInv'
  <1> USE DEF IInv
  <1>1. CASE VerifyAgentReceipt(c)
    <2> DEFINE x == [Idle EXCEPT !.pc = "verified", !.since = now]
    <2>0. now \in Nat
      BY DEF TypeOK
    <2>1. x \in Call /\ x.pc = "verified"
      BY <2>0, IdleTyped DEF Call
    <2>2. call' = [call EXCEPT ![c] = x] /\ UNCHANGED <<now, row, uses>>
      BY <1>1 DEF VerifyAgentReceipt
    <2> HIDE DEF x
    <2> QED
      BY <2>1, <2>2, MoveInv DEF Reserving
  <1>2. CASE ReserveRefused(c) \/ SettleLost(c)
    BY <1>2, QuietEndInv DEF ReserveRefused, SettleLost
  <1>3. CASE ReserveActionApproval(c) \/ ReserveLost(c)
    <2>1. PICK at \in (call[c].since)..now :
            /\ Reservable(at)
            /\ Reserved(c)
            /\ \/ call' = [call EXCEPT ![c] = [@ EXCEPT !.pc = "running", !.at = at]]
               \/ End(c)
      BY <1>3 DEF ReserveActionApproval, ReserveLost
    <2>2. call[c] \in Call /\ row \in Row /\ at \in Nat
      BY <2>1 DEF TypeOK, Call
    <2>3. row.state = "consumed" /\ at < row.spent + MaxAge /\ at < row.fresh
      BY <2>1, <2>2, ApprovalsAssumption DEF Reservable, Fresh, SpendDated, Receipt, Row
    <2>4. /\ row' \in Row
          /\ row'.state = "in_flight" /\ row'.by = c
          /\ row'.consumed = row.consumed /\ row'.spent = row.spent
          /\ row'.expires = row.expires /\ row'.fresh = row.fresh
          /\ row'.digest = row.digest
      BY <2>1, <2>2 DEF Reserved, Row, States, Decided
    <2>5. PICK x \in Call : /\ call' = [call EXCEPT ![c] = x]
                            /\ x.pc \in {"running", "idle"}
                            /\ x.pc = "running" => x.at = at
      <3>1. CASE End(c)
        <4>1. Idle.pc = "idle"
          BY DEF Idle
        <4> QED
          BY <3>1, <4>1, IdleTyped DEF End
      <3>2. CASE call' = [call EXCEPT ![c] = [@ EXCEPT !.pc = "running", !.at = at]]
        <4> DEFINE x == [call[c] EXCEPT !.pc = "running", !.at = at]
        <4>1. x \in Call /\ x.pc = "running" /\ x.at = at
          BY <2>2 DEF Call
        <4>2. call' = [call EXCEPT ![c] = x]
          BY <3>2 DEF TypeOK
        <4> HIDE DEF x
        <4> QED
          BY <4>1, <4>2
      <3> QED
        BY <2>1, <3>1, <3>2
    <2>6. /\ call' \in [Calls -> Call]
          /\ call'[c] = x
          /\ \A d \in Calls : d # c => call'[d] = call[d]
      BY <2>5, CallStep
    <2>7. UNCHANGED <<now, uses>>
      BY <1>3 DEF ReserveActionApproval, ReserveLost
    <2>8. \A d \in Calls : call[d].pc \notin Reserving
      BY <2>3 DEF ReservationIsOwned, Reserving
    <2>9. TypeOK'
      BY <2>4, <2>6, <2>7 DEF TypeOK, AuthorityTyped
    <2>10. ReservationIsOwned'
      BY <2>4, <2>5, <2>6, <2>8 DEF ReservationIsOwned, Reserving
    <2>11. UsesAccounted'
      BY <2>3, <2>4, <2>6, <2>7, <2>8 DEF UsesAccounted, Reserving
    <2>12. SpendDated' /\ ApprovalCarriesContext'
      BY <2>3, <2>4 DEF SpendDated, ApprovalCarriesContext, Receipt, Granted, Decided
    <2>13. row.spent < row.expires
      BY <2>3 DEF SpendDated, Receipt
    <2>14. ReceiptAgeIsBounded'
      BY <2>3, <2>4, <2>5, <2>6, <2>8, <2>13 DEF ReceiptAgeIsBounded, Reserving
    <2>15. DecisionGuarded'
      BY <2>4, <2>5, <2>6, <2>7 DEF DecisionGuarded
    <2> QED
      BY <2>9, <2>10, <2>11, <2>12, <2>14, <2>15
  <1>4. CASE HandlerSucceeds(c) \/ HandlerFails(c) \/ HandlerCancelled(c)
    <2>1. call[c].pc = "running" /\ UNCHANGED <<now, row>>
      BY <1>4 DEF HandlerSucceeds, HandlerFails, HandlerCancelled
    <2>2. uses = 0
      BY <2>1 DEF UsesAccounted
    <2>3. uses' \in {0, 1}
      BY <1>4, <2>2 DEF HandlerSucceeds, HandlerFails, HandlerCancelled
    <2>4. PICK p \in {"spend", "free"} : /\ call' = [call EXCEPT ![c].pc = p]
                                         /\ p = "free" => uses' = 0
      BY <1>4, <2>2 DEF HandlerSucceeds, HandlerFails, HandlerCancelled
    <2> DEFINE x == [call[c] EXCEPT !.pc = p]
    <2>5. call[c] \in Call /\ call' = [call EXCEPT ![c] = x]
      BY <2>4 DEF TypeOK
    <2>6. x \in Call /\ x.pc = p
      BY <2>5 DEF Call
    <2> HIDE DEF x
    <2> QED
      BY <2>1, <2>3, <2>4, <2>5, <2>6, HandlerInv
  <1>5. CASE SettleActionApproval(c)
    <2>1. call[c].pc \in {"spend", "free"} /\ row.state = "in_flight" /\ row.by = c
      BY <1>5 DEF SettleActionApproval, ReservationIsOwned
    <2>2. row \in Row
      BY DEF TypeOK
    <2>3. PICK s \in {"executed", "consumed"} :
            /\ row' = [row EXCEPT !.state = s]
            /\ s = "consumed" <=> call[c].pc = "free"
      BY <1>5, <2>1 DEF SettleActionApproval, Settled
    <2>4. /\ row' \in Row
          /\ row'.state = s
          /\ row'.consumed = row.consumed /\ row'.spent = row.spent
          /\ row'.expires = row.expires
          /\ row'.digest = row.digest
      BY <2>2, <2>3 DEF Row, States, Decided
    <2>5. /\ call' \in [Calls -> Call]
          /\ call'[c].pc = "idle"
          /\ \A d \in Calls : d # c => call'[d] = call[d]
      BY <1>5, EndStep DEF SettleActionApproval
    <2>6. UNCHANGED <<now, uses>>
      BY <1>5 DEF SettleActionApproval
    <2>7. \A d \in Calls : call'[d].pc \notin Reserving
      BY <2>1, <2>5 DEF ReservationIsOwned, Reserving
    <2>8. TypeOK'
      BY <2>4, <2>5, <2>6 DEF TypeOK, AuthorityTyped
    <2>9. ReservationIsOwned' /\ ReceiptAgeIsBounded'
      BY <2>7 DEF ReservationIsOwned, ReceiptAgeIsBounded, Reserving
    <2>10. UsesAccounted'
      BY <2>3, <2>4, <2>6, <2>7 DEF UsesAccounted, Reserving
    <2>11. SpendDated' /\ ApprovalCarriesContext'
      BY <2>1, <2>4 DEF SpendDated, ApprovalCarriesContext, Receipt, Granted, Decided
    <2>12. DecisionGuarded'
      BY <2>4, <2>5, <2>6 DEF DecisionGuarded
    <2> QED
      BY <2>8, <2>9, <2>10, <2>11, <2>12
  <1> QED
    BY <1>1, <1>2, <1>3, <1>4, <1>5 DEF Gate

-----------------------------------------------------------------------------
LEMMA MarkInv ==
    ASSUME IInv, AuthorityTyped', MarkActionApprovalExecuted
    PROVE  IInv'
  <1> USE DEF IInv
  <1>1. /\ row.state = "consumed"
        /\ row' = [row EXCEPT !.state = "executed"]
        /\ uses' = uses + 1
        /\ UNCHANGED <<now, call>>
    BY DEF MarkActionApprovalExecuted
  <1>2. row \in Row /\ uses = 0
    BY <1>1 DEF TypeOK, UsesAccounted
  <1>3. /\ row' \in Row
        /\ row'.state = "executed"
        /\ row'.consumed = row.consumed /\ row'.spent = row.spent
        /\ row'.expires = row.expires
        /\ row'.digest = row.digest
    BY <1>1, <1>2 DEF Row, States, Decided
  <1>4. \A d \in Calls : call[d].pc \notin Reserving
    BY <1>1 DEF ReservationIsOwned, Reserving
  <1>5. TypeOK'
    BY <1>1, <1>2, <1>3 DEF TypeOK, AuthorityTyped
  <1>6. ReservationIsOwned' /\ ReceiptAgeIsBounded' /\ UsesAccounted'
    BY <1>1, <1>2, <1>3, <1>4 DEF ReservationIsOwned, ReceiptAgeIsBounded, UsesAccounted, Reserving
  <1>7. SpendDated' /\ ApprovalCarriesContext'
    BY <1>1, <1>3 DEF SpendDated, ApprovalCarriesContext, Receipt, Granted, Decided
  <1>8. DecisionGuarded'
    BY <1>1, <1>3 DEF DecisionGuarded
  <1> QED
    BY <1>5, <1>6, <1>7, <1>8

LEMMA CrashInv ==
    ASSUME IInv, AuthorityTyped', NEW c \in Calls, Crash(c)
    PROVE  IInv'
  <1> USE DEF IInv
  <1>1. /\ call' \in [Calls -> Call]
        /\ call'[c].pc = "idle"
        /\ \A d \in Calls : d # c => call'[d] = call[d]
    BY EndStep DEF Crash
  <1>2. UNCHANGED <<now, row>>
    BY DEF Crash
  <1>3. /\ uses' \in Nat
        /\ \/ uses' = uses
           \/ call[c].pc = "running" /\ uses = 0 /\ uses' = 1
    BY DEF Crash, UsesAccounted, TypeOK
  <1>4. call[c].pc = "running" =>
          row.state = "in_flight" /\ \A d \in Calls : d # c => call[d].pc \notin Reserving
    BY DEF ReservationIsOwned, Reserving
  <1>5. TypeOK'
    BY <1>1, <1>2, <1>3 DEF TypeOK, AuthorityTyped
  <1>6. ReservationIsOwned' /\ ReceiptAgeIsBounded'
    BY <1>1, <1>2 DEF ReservationIsOwned, ReceiptAgeIsBounded
  <1>7. UsesAccounted'
    BY <1>1, <1>2, <1>3, <1>4 DEF UsesAccounted, Reserving
  <1>8. SpendDated' /\ ApprovalCarriesContext'
    BY <1>2 DEF SpendDated, ApprovalCarriesContext
  <1>9. DecisionGuarded'
    BY <1>1, <1>2 DEF DecisionGuarded
  <1> QED
    BY <1>5, <1>6, <1>7, <1>8, <1>9

LEMMA ForgetInv ==
    ASSUME IInv, AuthorityTyped', NEW x \in Replicas, NEW h \in Humans, Forget(x, h)
    PROVE  IInv'
  <1> USE DEF IInv
  <1>1. /\ call' = [c \in Calls |->
               IF Home[c] = x THEN [call[c] EXCEPT !.current = FALSE] ELSE call[c]]
        /\ UNCHANGED <<now, row, uses>>
    BY DEF Forget
  <1>2. \A c \in Calls : /\ call'[c] \in Call
                         /\ call'[c].pc = call[c].pc /\ call'[c].ask = call[c].ask
                         /\ call'[c].at = call[c].at /\ call'[c].ok = call[c].ok
    BY <1>1 DEF TypeOK, Call
  <1>3. call' \in [Calls -> Call]
    BY <1>1, <1>2
  <1>4. TypeOK'
    BY <1>1, <1>3 DEF TypeOK, AuthorityTyped
  <1>5. ReservationIsOwned' /\ UsesAccounted' /\ ReceiptAgeIsBounded'
    BY <1>1, <1>2 DEF ReservationIsOwned, UsesAccounted, ReceiptAgeIsBounded
  <1>6. SpendDated' /\ ApprovalCarriesContext'
    BY <1>1 DEF SpendDated, ApprovalCarriesContext
  <1>7. DecisionGuarded'
    BY <1>1, <1>2 DEF DecisionGuarded
  <1> QED
    BY <1>4, <1>5, <1>6, <1>7

\* The clock moves on, somebody is disabled, or nothing happens.
LEMMA QuietInv ==
    ASSUME IInv, AuthorityTyped', UNCHANGED <<row, call, uses>>,
           now' \in 0..MaxTime, now <= now'
    PROVE  IInv'
  <1> USE DEF IInv
  <1>1. TypeOK'
    BY DEF TypeOK, AuthorityTyped
  <1>2. ReservationIsOwned' /\ UsesAccounted' /\ ReceiptAgeIsBounded'
    BY DEF ReservationIsOwned, UsesAccounted, ReceiptAgeIsBounded
  <1>3. SpendDated' /\ ApprovalCarriesContext'
    BY DEF SpendDated, ApprovalCarriesContext
  <1>4. row.expires > now' => row.expires > now
    BY DEF TypeOK, Row
  <1>5. DecisionGuarded'
    BY <1>4 DEF DecisionGuarded
  <1> QED
    BY <1>1, <1>2, <1>3, <1>5

\* Every step preserves the inductive invariant.
LEMMA StepInv == IInv /\ [Next]_vars => IInv'
  <1> SUFFICES ASSUME IInv, [Next]_vars PROVE IInv'
    OBVIOUS
  <1>0. now \in 0..MaxTime /\ AuthorityTyped'
    BY AuthorityStep DEF IInv, TypeOK
  <1>1. CASE CreateActionApproval
    BY <1>0, <1>1, CreateInv
  <1>2. ASSUME NEW c \in Calls, Decision(c) \/ Spend(c) \/ Gate(c) \/ Crash(c)
        PROVE  IInv'
    BY <1>0, <1>2, DecisionInv, SpendInv, GateInv, CrashInv
  <1>3. CASE MarkActionApprovalExecuted
    BY <1>0, <1>3, MarkInv
  <1>4. ASSUME NEW h \in Humans, Disable(h) PROVE IInv'
    BY <1>0, <1>4, QuietInv DEF Disable
  <1>5. ASSUME NEW h \in Humans, NEW x \in Replicas, Forget(x, h) PROVE IInv'
    BY <1>0, <1>5, ForgetInv
  <1>6. CASE Tick
    <2>1. now' \in 0..MaxTime /\ now <= now'
      BY <1>0, <1>6, ApprovalsAssumption DEF Tick
    <2> QED
      BY <1>0, <1>6, <2>1, QuietInv DEF Tick
  <1>7. CASE UNCHANGED vars
    BY <1>0, <1>7, QuietInv DEF vars
  <1> QED
    BY <1>1, <1>2, <1>3, <1>4, <1>5, <1>6, <1>7 DEF Next

\* The inductive invariant holds in every reachable state.
THEOREM Invariance == Spec => []IInv
  BY InitInv, StepInv, PTL DEF Spec

-----------------------------------------------------------------------------
\* Every field of the row and of the calls in flight keeps its type.
THEOREM TypeCorrect == Spec => []TypeOK
  <1>1. IInv => TypeOK
    BY DEF IInv
  <1> QED
    BY <1>1, Invariance, PTL

\* One receipt authorises one successful call (agentReceiptMiddleware): once a
\* call has succeeded or ended in doubt none runs and none gives it back, for
\* any number of calls that race, fail, are cancelled or die.  A call that
\* reports a failure is not counted, whatever it did.
THEOREM ReceiptIsUsedOnce == Spec => []OneUse
  <1>1. IInv => OneUse
    BY DEF IInv, UsesAccounted, OneUse
  <1> QED
    BY <1>1, Invariance, PTL

\* SettleActionApproval ends only the reservation of its own call.
THEOREM SettleIsOwn == Spec => []ReservationIsOwned
  <1>1. IInv => ReservationIsOwned
    BY DEF IInv
  <1> QED
    BY <1>1, Invariance, PTL

\* A tool runs only within the age of the one spend and the freshness of the
\* decision, after any number of releases (SettleActionApproval).
THEOREM ReceiptAges == Spec => []ReceiptAgeIsBounded
  <1>1. IInv => ReceiptAgeIsBounded
    BY DEF IInv
  <1> QED
    BY <1>1, Invariance, PTL

\* guardDecision's digest is recorded with every approval that is granted.
THEOREM ApprovalIsInformed == Spec => []ApprovalCarriesContext
  <1>1. IInv => ApprovalCarriesContext
    BY DEF IInv
  <1> QED
    BY <1>1, Invariance, PTL

\* A step writes the row of a decided request only to spend it, to reserve
\* it, to settle its reservation or to mark it; the decider stays.
LEMMA DecidedStep ==
    ASSUME IInv, Next, row.state \in Decided
    PROVE  /\ row'.decider = row.decider
           /\ row'.state = "denied" <=> row.state = "denied"
           /\ row.state \in Granted => row'.state \in Granted
           /\ (row.state = "approved" /\ row'.state = "consumed" =>
                 row'.by \in Calls /\ call[row'.by].pc = "checked")
  <1> DEFINE G == /\ row'.decider = row.decider
                  /\ row'.state = "denied" <=> row.state = "denied"
                  /\ row.state \in Granted => row'.state \in Granted
                  /\ (row.state = "approved" /\ row'.state = "consumed" =>
                        row'.by \in Calls /\ call[row'.by].pc = "checked")
  <1>0. row \in Row /\ ReservationIsOwned
    BY DEF IInv, TypeOK
  <1>1. row.state \notin {"none", "pending"}
    BY DEF Decided
  <1>2. ASSUME UNCHANGED row PROVE G
    <2>1. row' = row
      BY <1>2
    <2>2. row'.state = row.state /\ row'.decider = row.decider
      BY <2>1, Zenon
    <2>3. ~(row.state = "approved" /\ row'.state = "consumed")
      BY <2>2, Zenon
    <2> QED
      BY <2>2, <2>3, Zenon
  <1>3. ASSUME NEW c \in Calls, Decision(c) PROVE G
    BY <1>1, <1>2, <1>3
    DEF Decision, DecideRead, Decide, DecideRefused, Decidable, EffectiveState
  <1>4. ASSUME NEW c \in Calls, Spend(c) PROVE G
    <2>1. CASE ConsumeActionApproval(c)
      <3>1. PICK at : /\ call[c].pc = "checked"
                      /\ row.state = "approved"
                      /\ row' = [row EXCEPT !.state = "consumed", !.consumed = at,
                                            !.spent = at, !.by = c]
        BY <2>1 DEF ConsumeActionApproval, Consumable
      <3>2. row'.state = "consumed" /\ row'.decider = row.decider /\ row'.by = c
        BY <1>0, <3>1 DEF Row, Granted, Decided
      <3> QED
        BY <3>1, <3>2 DEF Granted, Decided
    <2>2. CASE \/ SpendRead(c) \/ RevalidateRemembered(c) \/ RevalidateAsk(c)
               \/ StoreAnswers(c) \/ StoreRefuses(c) \/ StoreFails(c)
               \/ RevalidateAnswered(c) \/ RevalidateRefused(c) \/ ConsumeRefused(c)
      BY <1>2, <2>2 DEF SpendRead, RevalidateRemembered, RevalidateAsk, StoreAnswers,
                        StoreRefuses, StoreFails, RevalidateAnswered, RevalidateRefused,
                        ConsumeRefused
    <2> QED
      BY <1>4, <2>1, <2>2 DEF Spend
  <1>5. ASSUME NEW c \in Calls, Gate(c) PROVE G
    <2>1. CASE ReserveActionApproval(c) \/ ReserveLost(c)
      <3>1. row.state = "consumed" /\ row' = [row EXCEPT !.state = "in_flight", !.by = c]
        BY <2>1 DEF ReserveActionApproval, ReserveLost, Reservable, Reserved
      <3> QED
        BY <1>0, <3>1 DEF Row, Granted, Decided
    <2>2. CASE SettleActionApproval(c)
      <3>1. row.state = "in_flight"
        BY <1>0, <2>2 DEF SettleActionApproval, ReservationIsOwned
      <3>2. PICK s \in {"executed", "consumed"} : row' = [row EXCEPT !.state = s]
        BY <2>2, <3>1 DEF SettleActionApproval, Settled
      <3> QED
        BY <1>0, <3>1, <3>2 DEF Row, Granted, Decided
    <2>3. CASE \/ VerifyAgentReceipt(c) \/ ReserveRefused(c) \/ SettleLost(c)
               \/ HandlerSucceeds(c) \/ HandlerFails(c) \/ HandlerCancelled(c)
      BY <1>2, <2>3 DEF VerifyAgentReceipt, ReserveRefused, SettleLost,
                        HandlerSucceeds, HandlerFails, HandlerCancelled
    <2> QED
      BY <1>5, <2>1, <2>2, <2>3 DEF Gate
  <1>6. CASE MarkActionApprovalExecuted
    BY <1>0, <1>6 DEF MarkActionApprovalExecuted, Row, Granted, Decided
  <1>7. CASE CreateActionApproval
    BY <1>1, <1>7 DEF CreateActionApproval
  <1>8. ASSUME NEW c \in Calls, Crash(c) PROVE G
    BY <1>2, <1>8 DEF Crash
  <1>9. ASSUME NEW h \in Humans, Disable(h) \/ \E x \in Replicas : Forget(x, h)
        PROVE  G
    BY <1>2, <1>9 DEF Disable, Forget
  <1>10. CASE Tick
    BY <1>2, <1>10 DEF Tick
  <1> QED
    BY <1>3, <1>4, <1>5, <1>6, <1>7, <1>8, <1>9, <1>10 DEF Next

\* DecideActionApproval's first decision stands, whoever else is deciding.
THEOREM FirstDecisionStands == Spec => DecisionIsFinal
  <1>1. IInv /\ [Next]_vars =>
          [row.state \in Decided =>
              /\ row'.decider = row.decider
              /\ row'.state = "denied" <=> row.state = "denied"]_vars
    BY DecidedStep
  <1> QED
    BY <1>1, Invariance, PTL DEF Spec, DecisionIsFinal

-----------------------------------------------------------------------------
\* What a spend may rely on: the decider of a row stays, an answer in a cache
\* is no younger than a disable, and a call between its question and its spend
\* knows how old what it heard can be.

Revalidating == {"read", "asked", "answered", "checked"}

\* The decision a call asks for and the decider it asks about are a human's.
DeciderKnown ==
    /\ row.state \in Granted => row.decider \in Humans
    /\ \A c \in Calls :
          /\ call[c].pc = "deciding" => call[c].who \in Humans
          /\ call[c].pc \in Revalidating => row.state \in Granted /\ call[c].who = row.decider

\* An answer "active" was read before the human was disabled, and a replica
\* that was told of the disable keeps none.
CacheSound ==
    \A h \in Humans :
        /\ disabled[h] <= now
        /\ \A x \in Replicas :
              /\ cached[x][h] <= now
              /\ disabled[h] # None => cached[x][h] <= disabled[h]
              /\ Dropped(x, h) => disabled[h] # None /\ cached[x][h] = None

\* The answer of the store a call holds is from before a disable, and is not
\* kept where it was forgotten since; what it has checked is not too old.
SpendChecked ==
    \A c \in Calls :
        LET gone == disabled[call[c].who]
        IN  /\ call[c].pc \in {"asked", "answered"} => call[c].at <= now
            /\ call[c].pc \in {"answered", "checked"} => call[c].ok /\ call[c].since <= now
            /\ call[c].pc = "asked" => call[c].ok \/ gone # None
            /\ call[c].pc = "answered" =>
                  /\ call[c].at <= call[c].since
                  /\ gone # None => call[c].since <= gone
                  /\ Dropped(Home[c], call[c].who) => ~call[c].current
            /\ call[c].pc = "checked" /\ gone # None => call[c].since < gone + CacheTTL

AInv == DeciderKnown /\ CacheSound /\ SpendChecked

LEMMA InitAuthority == Init => AInv
  BY DEF Init, AInv, DeciderKnown, CacheSound, SpendChecked, Idle, Granted, Decided,
         Revalidating, None, Dropped

\* A call not among those that revalidate says nothing of the caches.
LEMMA OtherCallAuthority ==
    ASSUME IInv, AInv, NEW c \in Calls, NEW x \in Call, call' = [call EXCEPT ![c] = x],
           x.pc \notin Revalidating, x.pc = "deciding" => x.who \in Humans,
           UNCHANGED <<now, authority>>,
           row.state \in Granted => row'.state \in Granted /\ row'.decider = row.decider,
           row'.state \in Granted => row'.decider \in Humans
    PROVE  AInv'
  <1>1. /\ call'[c] = x
        /\ \A d \in Calls : d # c => call'[d] = call[d]
    BY CallStep DEF IInv
  <1>2. UNCHANGED <<now, disabled, cached, forgotten>>
    BY DEF authority
  <1>3. DeciderKnown'
    BY <1>1 DEF AInv, DeciderKnown
  <1>4. CacheSound'
    BY <1>2 DEF AInv, CacheSound, Dropped
  <1>5. SpendChecked'
    BY <1>1, <1>2 DEF AInv, SpendChecked, Dropped, Revalidating
  <1> QED
    BY <1>3, <1>4, <1>5 DEF AInv

LEMMA EndAuthority ==
    ASSUME IInv, AInv, NEW c \in Calls, End(c), UNCHANGED <<now, authority>>,
           row.state \in Granted => row'.state \in Granted /\ row'.decider = row.decider,
           row'.state \in Granted => row'.decider \in Humans
    PROVE  AInv'
  <1>1. Idle \in Call /\ Idle.pc = "idle"
    BY IdleTyped DEF Idle
  <1> QED
    BY <1>1, OtherCallAuthority DEF End, Revalidating

\* A call that revalidates moves on and the row stays: what is left to show is
\* that the call's own claims hold and that the caches stay sound.
LEMMA MoveAuthority ==
    ASSUME IInv, AInv, NEW c \in Calls, NEW x \in Call, call' = [call EXCEPT ![c] = x],
           UNCHANGED <<now, row, disabled, forgotten>>, CacheSound',
           x.pc # "deciding",
           x.pc \in Revalidating => row.state \in Granted /\ x.who = row.decider,
           x.pc \in {"asked", "answered"} => x.at <= now,
           x.pc \in {"answered", "checked"} => x.ok /\ x.since <= now,
           x.pc = "asked" => x.ok \/ disabled[x.who] # None,
           x.pc = "answered" =>
              /\ x.at <= x.since
              /\ disabled[x.who] # None => x.since <= disabled[x.who]
              /\ Dropped(Home[c], x.who) => ~x.current,
           x.pc = "checked" /\ disabled[x.who] # None => x.since < disabled[x.who] + CacheTTL
    PROVE  AInv'
  <1>1. /\ call'[c] = x
        /\ \A d \in Calls : d # c => call'[d] = call[d]
    BY CallStep DEF IInv
  <1>2. DeciderKnown'
    BY <1>1 DEF AInv, DeciderKnown
  <1>3. SpendChecked'
    BY <1>1 DEF AInv, SpendChecked, Dropped
  <1> QED
    BY <1>2, <1>3 DEF AInv

LEMMA AnswersAuthority ==
    ASSUME IInv, AInv, NEW c \in Calls,
           \/ SpendRead(c) \/ RevalidateRemembered(c) \/ RevalidateAsk(c)
           \/ StoreAnswers(c) \/ RevalidateAnswered(c)
    PROVE  AInv'
  <1>0. /\ now \in Nat /\ call[c] \in Call /\ call \in [Calls -> Call]
        /\ Home[c] \in Replicas
        /\ \A h \in Humans : disabled[h] \in Times
        /\ \A x \in Replicas, h \in Humans : cached[x][h] \in Times
        /\ CacheTTL \in Nat \ {0}
    BY ApprovalsAssumption DEF IInv, TypeOK
  <1>1. call[c].pc \in Revalidating =>
          row.state \in Granted /\ call[c].who = row.decider /\ call[c].who \in Humans
    BY DEF AInv, DeciderKnown
  <1>2. UNCHANGED <<now, row, disabled, forgotten>>
    BY DEF SpendRead, RevalidateRemembered, RevalidateAsk, StoreAnswers,
           RevalidateAnswered, authority
  <1>3. CASE SpendRead(c)
    <2> DEFINE x == [Idle EXCEPT !.pc = "read", !.who = row.decider]
    <2>1. row.state = "approved" /\ row.decider \in Humans
      BY <1>3 DEF SpendRead, EffectiveState, AInv, DeciderKnown, Granted, Decided
    <2>2. x \in Call /\ x.pc = "read" /\ x.who = row.decider
      BY <2>1, IdleTyped DEF Call
    <2>3. call' = [call EXCEPT ![c] = x] /\ UNCHANGED cached
      BY <1>3 DEF SpendRead, authority
    <2>4. CacheSound'
      BY <1>2, <2>3 DEF AInv, CacheSound, Dropped
    <2> HIDE DEF x
    <2> QED
      BY <1>2, <2>1, <2>2, <2>3, <2>4, MoveAuthority DEF Granted, Decided
  <1>4. CASE RevalidateRemembered(c)
    <2> DEFINE b == ~Dropped(Home[c], call[c].who)
               x == [call[c] EXCEPT !.pc = "checked", !.since = now, !.ok = b]
    <2>1. /\ call[c].pc = "read" /\ Remembered(Home[c], call[c].who)
          /\ call' = [call EXCEPT ![c] = x] /\ UNCHANGED cached
      BY <1>0, <1>4 DEF RevalidateRemembered, authority
    <2>2. /\ call[c].who \in Humans
          /\ row.state \in Granted /\ call[c].who = row.decider
      BY <1>1, <2>1 DEF Revalidating
    <2>3. b
      BY <1>0, <2>1, <2>2 DEF Remembered, AInv, CacheSound
    <2> HIDE DEF b
    <2>4. x \in Call /\ x.pc = "checked" /\ x.who = call[c].who /\ x.ok /\ x.since = now
      BY <1>0, <2>3 DEF Call
    <2>5. disabled[x.who] # None => now < disabled[x.who] + CacheTTL
      BY <1>0, <2>1, <2>2, <2>4 DEF Remembered, AInv, CacheSound, Times, None
    <2>6. CacheSound'
      BY <1>2, <2>1 DEF AInv, CacheSound, Dropped
    <2>7. x.since <= now
      BY <1>0, <2>4
    <2> HIDE DEF x
    <2> QED
      BY <1>2, <2>1, <2>2, <2>4, <2>5, <2>6, <2>7, MoveAuthority
  <1>5. CASE RevalidateAsk(c)
    <2> DEFINE b == ~Dropped(Home[c], call[c].who)
               x == [call[c] EXCEPT !.pc = "asked", !.at = now, !.current = TRUE, !.ok = b]
    <2>1. /\ call[c].pc = "read"
          /\ call' = [call EXCEPT ![c] = x] /\ UNCHANGED cached
      BY <1>0, <1>5 DEF RevalidateAsk, authority
    <2>2. /\ call[c].who \in Humans
          /\ row.state \in Granted /\ call[c].who = row.decider
      BY <1>1, <2>1 DEF Revalidating
    <2>3. b \in BOOLEAN /\ (b \/ disabled[call[c].who] # None)
      BY <1>0, <2>2 DEF AInv, CacheSound
    <2> HIDE DEF b
    <2>4. x \in Call /\ x.pc = "asked" /\ x.who = call[c].who /\ x.ok = b /\ x.at = now
      BY <1>0, <2>3 DEF Call
    <2>5. CacheSound'
      BY <1>2, <2>1 DEF AInv, CacheSound, Dropped
    <2>6. x.at <= now
      BY <1>0, <2>4
    <2> HIDE DEF x
    <2> QED
      BY <1>2, <2>1, <2>2, <2>3, <2>4, <2>5, <2>6, MoveAuthority
  <1>6. CASE StoreAnswers(c)
    <2> DEFINE x == [call[c] EXCEPT !.pc = "answered", !.since = now]
    <2>1. /\ call[c].pc = "asked" /\ disabled[call[c].who] = None
          /\ call' = [call EXCEPT ![c] = x] /\ UNCHANGED cached
      BY <1>0, <1>6 DEF StoreAnswers, authority
    <2>2. /\ call[c].who \in Humans
          /\ row.state \in Granted /\ call[c].who = row.decider
      BY <1>1, <2>1 DEF Revalidating
    <2>3. call[c].ok /\ call[c].at <= now
      BY <2>1 DEF AInv, SpendChecked
    <2>4. ~Dropped(Home[c], call[c].who)
      BY <1>0, <2>1, <2>2 DEF AInv, CacheSound
    <2>5. /\ x \in Call /\ x.pc = "answered" /\ x.who = call[c].who
          /\ x.ok = call[c].ok /\ x.at = call[c].at /\ x.since = now
      BY <1>0 DEF Call
    <2>6. CacheSound'
      BY <1>2, <2>1 DEF AInv, CacheSound, Dropped
    <2>7. x.at <= x.since /\ x.since <= now
      BY <1>0, <2>3, <2>5
    <2> HIDE DEF x
    <2> QED
      BY <1>2, <2>1, <2>2, <2>3, <2>4, <2>5, <2>6, <2>7, MoveAuthority
  <1>7. CASE RevalidateAnswered(c)
    <2> DEFINE x == [call[c] EXCEPT !.pc = "checked", !.at = 0, !.current = FALSE]
    <2>1. /\ call[c].pc = "answered" /\ call' = [call EXCEPT ![c] = x]
          /\ \/ UNCHANGED cached
             \/ call[c].current /\ Answer(Home[c], call[c].who, call[c].at)
      BY <1>0, <1>7 DEF RevalidateAnswered, MayKeep
    <2>2. /\ call[c].who \in Humans
          /\ row.state \in Granted /\ call[c].who = row.decider
      BY <1>1, <2>1 DEF Revalidating
    <2>3. /\ call[c].ok /\ call[c].since <= now
          /\ call[c].at <= now /\ call[c].at <= call[c].since
          /\ disabled[call[c].who] # None => call[c].since <= disabled[call[c].who]
          /\ Dropped(Home[c], call[c].who) => ~call[c].current
      BY <2>1 DEF AInv, SpendChecked
    <2>4. call[c].at \in Nat /\ call[c].since \in Nat /\ call[c].at \in Times
      BY <1>0 DEF Call, Times
    <2>5. /\ x \in Call /\ x.pc = "checked" /\ x.who = call[c].who
          /\ x.ok = call[c].ok /\ x.since = call[c].since
      BY <1>0 DEF Call
    <2>6. CacheSound'
      <3>1. CASE UNCHANGED cached
        BY <1>2, <3>1 DEF AInv, CacheSound, Dropped
      <3>2. CASE call[c].current /\ Answer(Home[c], call[c].who, call[c].at)
        <4>1. /\ cached'[Home[c]][call[c].who] = call[c].at
              /\ \A y \in Replicas, g \in Humans :
                    y # Home[c] \/ g # call[c].who => cached'[y][g] = cached[y][g]
          BY <1>0, <2>2, <2>4, <3>2, AnswerStep DEF IInv
        <4>2. disabled[call[c].who] # None => call[c].at <= disabled[call[c].who]
          BY <1>0, <2>2, <2>3, <2>4 DEF Times, None
        <4> QED
          BY <1>2, <2>2, <2>3, <3>2, <4>1, <4>2 DEF AInv, CacheSound, Dropped
      <3> QED
        BY <2>1, <3>1, <3>2
    <2>7. disabled[x.who] # None => x.since < disabled[x.who] + CacheTTL
      BY <1>0, <2>2, <2>3, <2>4, <2>5 DEF Times, None
    <2> HIDE DEF x
    <2> QED
      BY <1>2, <2>1, <2>2, <2>3, <2>5, <2>6, <2>7, MoveAuthority
  <1> QED
    BY <1>3, <1>4, <1>5, <1>6, <1>7

\* A refusal or a failure takes the place of what was remembered.
LEMMA RefusesAuthority ==
    ASSUME IInv, AInv, NEW c \in Calls, StoreRefuses(c) \/ StoreFails(c)
    PROVE  AInv'
  <1>1. /\ call[c].pc = "asked" /\ End(c)
        /\ UNCHANGED <<now, row, disabled, forgotten>>
        /\ UNCHANGED cached \/ Answer(Home[c], call[c].who, None)
    BY DEF StoreRefuses, StoreFails
  <1>2. /\ Home[c] \in Replicas /\ call[c].who \in Humans
        /\ now \in Nat /\ \A h \in Humans : disabled[h] \in Times
    BY <1>1, ApprovalsAssumption DEF IInv, TypeOK, AInv, DeciderKnown, Revalidating
  <1>3. CacheSound'
    <2>1. CASE UNCHANGED cached
      BY <1>1, <2>1 DEF AInv, CacheSound, Dropped
    <2>2. CASE Answer(Home[c], call[c].who, None)
      <3>1. /\ cached'[Home[c]][call[c].who] = None
            /\ \A y \in Replicas, g \in Humans :
                  y # Home[c] \/ g # call[c].who => cached'[y][g] = cached[y][g]
        <4>1. None \in Times /\ TypeOK
          BY DEF Times, IInv
        <4> QED
          BY <1>2, <2>2, <4>1, AnswerStep
      <3> QED
        BY <1>1, <1>2, <3>1 DEF AInv, CacheSound, Dropped, Times, None
    <2> QED
      BY <1>1, <2>1, <2>2
  <1>4. Idle \in Call /\ Idle.pc = "idle"
    BY IdleTyped DEF Idle
  <1> QED
    BY <1>1, <1>3, <1>4, MoveAuthority DEF End, Revalidating

LEMMA DisableAuthority ==
    ASSUME IInv, AInv, NEW h \in Humans, Disable(h)
    PROVE  AInv'
  <1>1. /\ disabled[h] = None /\ disabled' = [disabled EXCEPT ![h] = now]
        /\ UNCHANGED <<now, row, call, cached, forgotten>>
    BY DEF Disable
  <1>2. /\ now \in Nat /\ disabled \in [Humans -> Times] /\ CacheTTL \in Nat \ {0}
        /\ \A x \in Replicas, g \in Humans : cached[x][g] \in Times
        /\ \A c \in Calls : call[c] \in Call
    BY ApprovalsAssumption DEF IInv, TypeOK
  <1>3. disabled'[h] = now /\ \A g \in Humans : g # h => disabled'[g] = disabled[g]
    BY <1>1, <1>2
  <1>4. now # None
    BY <1>2 DEF None
  <1>5. DeciderKnown'
    BY <1>1 DEF AInv, DeciderKnown
  <1>6. CacheSound'
    BY <1>1, <1>2, <1>3, <1>4 DEF AInv, CacheSound, Dropped
  <1>7. ASSUME NEW c \in Calls, call[c].pc \in Revalidating
        PROVE  /\ call[c].who \in Humans
               /\ call[c].since \in Nat
    BY <1>2, <1>7 DEF AInv, DeciderKnown, Call
  <1>8. SpendChecked'
    <2> SUFFICES ASSUME NEW c \in Calls
                 PROVE  SpendChecked!(c)'
      BY DEF SpendChecked
    <2>1. CASE call[c].pc \notin Revalidating
      BY <1>1, <2>1 DEF Revalidating
    <2>2. CASE call[c].pc \in Revalidating
      BY <1>1, <1>2, <1>3, <1>4, <1>7, <2>2 DEF AInv, SpendChecked, Dropped
    <2> QED
      BY <2>1, <2>2
  <1> QED
    BY <1>5, <1>6, <1>8 DEF AInv

LEMMA ForgetAuthority ==
    ASSUME IInv, AInv, NEW x \in Replicas, NEW h \in Humans, Forget(x, h)
    PROVE  AInv'
  <1>1. /\ Answer(x, h, None)
        /\ call' = [c \in Calls |->
               IF Home[c] = x THEN [call[c] EXCEPT !.current = FALSE] ELSE call[c]]
        /\ \A y, g : <<y, g>> \in forgotten' =>
               Dropped(y, g) \/ (y = x /\ g = h /\ disabled[h] # None)
        /\ UNCHANGED <<now, row, disabled>>
    BY DEF Forget, Dropped
  <1>2. /\ cached'[x][h] = None
        /\ \A y \in Replicas, g \in Humans :
              y # x \/ g # h => cached'[y][g] = cached[y][g]
    BY <1>1, AnswerStep DEF IInv, Times
  <1>3. \A c \in Calls :
          /\ call'[c].pc = call[c].pc /\ call'[c].who = call[c].who
          /\ call'[c].at = call[c].at /\ call'[c].since = call[c].since
          /\ call'[c].ok = call[c].ok
          /\ call'[c].current => call[c].current /\ Home[c] # x
    BY <1>1 DEF IInv, TypeOK, Call
  <1>4. DeciderKnown'
    BY <1>1, <1>3 DEF AInv, DeciderKnown
  <1>5. now \in Nat /\ \A g \in Humans : disabled[g] \in Times
    BY DEF IInv, TypeOK
  <1>6. CacheSound'
    BY <1>1, <1>2, <1>5 DEF AInv, CacheSound, Dropped, None, Times
  <1>7. SpendChecked'
    <2>1. ASSUME NEW c \in Calls, Dropped(Home[c], call[c].who)', call'[c].current
          PROVE  Dropped(Home[c], call[c].who)
      BY <1>1, <1>3, <2>1 DEF Dropped
    <2> QED
      BY <1>1, <1>3, <2>1 DEF AInv, SpendChecked
  <1> QED
    BY <1>4, <1>6, <1>7 DEF AInv

LEMMA DecisionAuthority ==
    ASSUME IInv, AInv, NEW c \in Calls, Decision(c)
    PROVE  AInv'
  <1>1. UNCHANGED <<now, authority>>
    BY DEF Decision, DecideRead, Decide, DecideRefused
  <1>2. row.state \in Granted => row.decider \in Humans
    BY DEF AInv, DeciderKnown
  <1>3. ASSUME NEW h \in Humans, NEW ask \in {"approved", "denied"}, DecideRead(c, h, ask)
        PROVE  AInv'
    <2> DEFINE b == ask = "approved" /\ EffectiveState = "pending"
               x == [Idle EXCEPT !.pc = "deciding", !.who = h, !.ask = ask, !.ok = b]
    <2>1. b \in BOOLEAN
      OBVIOUS
    <2> HIDE DEF b
    <2>2. x \in Call /\ x.pc = "deciding" /\ x.who = h
      BY <2>1, IdleTyped DEF Call
    <2>3. call' = [call EXCEPT ![c] = x] /\ UNCHANGED row
      BY <1>3 DEF DecideRead, b
    <2> HIDE DEF x
    <2> QED
      BY <1>1, <1>2, <2>2, <2>3, OtherCallAuthority DEF Revalidating
  <1>4. CASE Decide(c)
    <2>1. row \in Row /\ row.state \notin Granted
      BY <1>4 DEF IInv, TypeOK, Decide, Decidable, EffectiveState, Granted, Decided
    <2>2. call[c].who \in Humans /\ End(c)
      BY <1>4 DEF AInv, DeciderKnown, Decide
    <2>3. row'.decider = call[c].who
      BY <1>4, <2>1 DEF Decide, Row
    <2> QED
      BY <1>1, <2>1, <2>2, <2>3, EndAuthority
  <1>5. CASE DecideRefused(c)
    BY <1>1, <1>2, <1>5, EndAuthority DEF DecideRefused
  <1> QED
    BY <1>3, <1>4, <1>5 DEF Decision

\* The gate and a crash move calls that do not revalidate.
LEMMA GateAuthority ==
    ASSUME IInv, AInv, NEW c \in Calls, Gate(c) \/ Crash(c),
           row.state \in Granted => row'.state \in Granted /\ row'.decider = row.decider,
           row'.state \in Granted => row'.decider \in Humans
    PROVE  AInv'
  <1>0. /\ call[c] \in Call /\ call \in [Calls -> Call] /\ now \in Nat
        /\ Idle \in Call
    BY IdleTyped DEF IInv, TypeOK
  <1>1. UNCHANGED <<now, authority>>
    BY DEF Gate, VerifyAgentReceipt, ReserveActionApproval, ReserveLost, ReserveRefused,
           HandlerSucceeds, HandlerFails, HandlerCancelled, SettleActionApproval,
           SettleLost, Crash
  <1>2. CASE \/ ReserveLost(c) \/ ReserveRefused(c) \/ SettleActionApproval(c)
             \/ SettleLost(c) \/ Crash(c)
    BY <1>1, <1>2, EndAuthority
    DEF ReserveLost, ReserveRefused, SettleActionApproval, SettleLost, Crash
  <1>3. CASE VerifyAgentReceipt(c)
    <2> DEFINE x == [Idle EXCEPT !.pc = "verified", !.since = now]
    <2>1. x \in Call /\ x.pc = "verified"
      BY <1>0 DEF Call
    <2>2. call' = [call EXCEPT ![c] = x]
      BY <1>3 DEF VerifyAgentReceipt
    <2> HIDE DEF x
    <2> QED
      BY <1>1, <2>1, <2>2, OtherCallAuthority DEF Revalidating
  <1>4. CASE ReserveActionApproval(c)
    <2>1. PICK at \in (call[c].since)..now :
            call' = [call EXCEPT ![c] = [@ EXCEPT !.pc = "running", !.at = at]]
      BY <1>4 DEF ReserveActionApproval
    <2> DEFINE x == [call[c] EXCEPT !.pc = "running", !.at = at]
    <2>2. at \in Nat
      BY <1>0, <2>1 DEF Call
    <2>3. x \in Call /\ x.pc = "running"
      BY <1>0, <2>2 DEF Call
    <2>4. call' = [call EXCEPT ![c] = x]
      BY <1>0, <2>1
    <2> HIDE DEF x
    <2> QED
      BY <1>1, <2>3, <2>4, OtherCallAuthority DEF Revalidating
  <1>5. CASE HandlerSucceeds(c) \/ HandlerFails(c) \/ HandlerCancelled(c)
    <2>1. PICK p \in {"spend", "free"} : call' = [call EXCEPT ![c].pc = p]
      BY <1>5 DEF HandlerSucceeds, HandlerFails, HandlerCancelled
    <2> DEFINE x == [call[c] EXCEPT !.pc = p]
    <2>2. x \in Call /\ x.pc = p
      BY <1>0 DEF Call
    <2>3. call' = [call EXCEPT ![c] = x]
      BY <1>0, <2>1
    <2> HIDE DEF x
    <2> QED
      BY <1>1, <2>2, <2>3, OtherCallAuthority DEF Revalidating
  <1> QED
    BY <1>2, <1>3, <1>4, <1>5 DEF Gate

\* The clock moves on, or something happens that no call and no cache sees.
LEMMA QuietAuthority ==
    ASSUME IInv, AInv, UNCHANGED <<call, authority>>, now' \in Nat, now <= now',
           row.state \in Granted => row'.state \in Granted /\ row'.decider = row.decider,
           row'.state \in Granted => row'.decider \in Humans
    PROVE  AInv'
  <1>1. UNCHANGED <<call, disabled, cached, forgotten>>
    BY DEF authority
  <1>2. /\ now \in Nat /\ \A h \in Humans : disabled[h] \in Times
        /\ \A x \in Replicas, h \in Humans : cached[x][h] \in Times
        /\ \A c \in Calls : call[c].at \in Nat /\ call[c].since \in Nat
    BY DEF IInv, TypeOK, Call
  <1>3. DeciderKnown'
    BY <1>1 DEF AInv, DeciderKnown
  <1>4. CacheSound'
    BY <1>1, <1>2 DEF AInv, CacheSound, Dropped, Times, None
  <1>5. SpendChecked'
    BY <1>1, <1>2 DEF AInv, SpendChecked, Dropped
  <1> QED
    BY <1>3, <1>4, <1>5 DEF AInv

LEMMA StepAuthority == IInv /\ AInv /\ [Next]_vars => AInv'
  <1> SUFFICES ASSUME IInv, AInv, [Next]_vars PROVE AInv'
    OBVIOUS
  <1> DEFINE Stays == /\ (row.state \in Granted =>
                             row'.state \in Granted /\ row'.decider = row.decider)
                      /\ (row'.state \in Granted => row'.decider \in Humans)
  <1>0. now \in 0..MaxTime /\ MaxTime \in Nat /\ row \in Row
    BY ApprovalsAssumption DEF IInv, TypeOK
  <1>1. row.state \in Granted => row.decider \in Humans
    BY DEF AInv, DeciderKnown
  <1>2. row.state \in Decided /\ Next =>
          /\ row'.decider = row.decider
          /\ row.state \in Granted => row'.state \in Granted
          /\ row'.state = "denied" <=> row.state = "denied"
    BY DecidedStep
  <1>3. ASSUME Next, row.state \in Granted PROVE Stays
    BY <1>1, <1>2, <1>3 DEF Granted
  <1>4. ASSUME NEW c \in Calls, Gate(c) \/ Crash(c) PROVE AInv'
    <2>1. Stays
      <3>1. CASE row.state \in Granted
        BY <1>3, <1>4, <3>1 DEF Next
      <3>2. CASE row.state \notin Granted
        <4>1. UNCHANGED row
          BY <1>4, <3>2
          DEF Gate, VerifyAgentReceipt, ReserveActionApproval, ReserveLost, ReserveRefused,
              HandlerSucceeds, HandlerFails, HandlerCancelled, SettleActionApproval,
              SettleLost, Crash, Reservable, Granted, Decided
        <4> QED
          BY <3>2, <4>1
      <3> QED
        BY <3>1, <3>2
    <2> QED
      BY <1>4, <2>1, GateAuthority
  <1>5. ASSUME NEW c \in Calls, Spend(c) PROVE AInv'
    <2>1. CASE ConsumeActionApproval(c)
      <3>1. row.state \in Granted
        BY <2>1 DEF ConsumeActionApproval, Consumable, Granted, Decided
      <3>2. Stays
        BY <1>3, <1>5, <3>1 DEF Next
      <3> QED
        BY <2>1, <3>2, EndAuthority DEF ConsumeActionApproval
    <2>2. CASE RevalidateRefused(c) \/ ConsumeRefused(c)
      BY <1>1, <2>2, EndAuthority DEF RevalidateRefused, ConsumeRefused
    <2> QED
      BY <1>5, <2>1, <2>2, AnswersAuthority, RefusesAuthority DEF Spend
  <1>6. CASE MarkActionApprovalExecuted
    <2>1. row.state \in Granted /\ UNCHANGED <<now, call, authority>>
      BY <1>6 DEF MarkActionApprovalExecuted, Granted, Decided
    <2>2. Stays
      BY <1>3, <1>6, <2>1 DEF Next
    <2> QED
      BY <1>0, <2>1, <2>2, QuietAuthority
  <1>7. CASE CreateActionApproval
    <2>1. PICK ttl \in 1..MaxTTL :
            /\ row.state = "none"
            /\ row' = [row EXCEPT !.state = "pending", !.expires = now + ttl]
      BY <1>7 DEF CreateActionApproval
    <2>2. row.state \notin Granted /\ row'.state \notin Granted
      BY <1>0, <2>1 DEF Row, Granted, Decided
    <2> QED
      BY <1>0, <1>7, <2>2, QuietAuthority DEF CreateActionApproval
  <1>8. CASE Tick
    BY <1>0, <1>1, <1>8, QuietAuthority DEF Tick
  <1>9. CASE UNCHANGED vars
    BY <1>0, <1>1, <1>9, QuietAuthority DEF vars
  <1> QED
    BY <1>4, <1>5, <1>6, <1>7, <1>8, <1>9, DecisionAuthority, DisableAuthority,
       ForgetAuthority DEF Next

\* Revalidate before ConsumeActionApproval: a call that spends was answered by
\* its resolver within CacheTTL of the disabling of the decider at the latest,
\* and on a replica that had forgotten the decider, not at all, for any number
\* of replicas, calls, lookups under way and humans disabled.
THEOREM SpendIsAuthorised == Spec => SpendNeedsLiveDecider
  <1>1. Spec => [](IInv /\ AInv)
    BY InitInv, InitAuthority, StepInv, StepAuthority, PTL DEF Spec
  <1>2. ASSUME IInv, AInv, Next, row.state = "approved", row'.state = "consumed"
        PROVE  LET c == row'.by
                   gone == disabled[row.decider]
               IN  call[c].ok /\ (gone = None \/ call[c].since < gone + CacheTTL)
    <2> DEFINE c == row'.by
    <2>1. row'.by \in Calls /\ call[c].pc = "checked"
      BY <1>2, DecidedStep DEF Decided
    <2>2. call[c].who = row.decider
      BY <1>2, <2>1 DEF AInv, DeciderKnown, Revalidating
    <2> HIDE DEF c
    <2>3. /\ call[c].ok
          /\ disabled[call[c].who] # None =>
                call[c].since < disabled[call[c].who] + CacheTTL
      BY <1>2, <2>1 DEF AInv, SpendChecked, c
    <2> QED
      BY <2>2, <2>3 DEF c
  <1>3. IInv /\ AInv /\ [Next]_vars =>
          [row.state = "approved" /\ row'.state = "consumed" =>
             LET c == row'.by
                 gone == disabled[row.decider]
             IN  call[c].ok /\ (gone = None \/ call[c].since < gone + CacheTTL)]_vars
    BY <1>2
  <1> QED
    BY <1>1, <1>3, PTL DEF Spec, SpendNeedsLiveDecider
=============================================================================
