---------------------------- MODULE CommerceProofs ----------------------------
(***************************************************************************)
(* Proofs about Commerce, for any number of invocations, quotes, packages  *)
(* and gateways, any prices and limits, and any clock.  Four arguments     *)
(* share one invariant: what a transaction knows of the row it has locked; *)
(* which phase a hold and a unit belong to; what the rail has recorded;    *)
(* and the sums of the budget, for which the fold of the model is shown to *)
(* add up in any order.                                                    *)
(***************************************************************************)
EXTENDS Commerce, FiniteSetTheorems, WellFoundedInduction, TLAPS

\* The phases before anything is held.
Unheld == {"none", "accepted", "refused"}
Open(c) == call[c] # Idle

\* The phase of its invocation that each plan of a transaction was made for,
\* and still finds when it commits.
PlanFits(k, row) ==
    /\ k.op = "reserve" /\ k.plan \in {"refuse", "authorize", "hold", "hold_unknown"} =>
          row.phase = "accepted"
    /\ k.op = "reserve" /\ k.plan \in {"resolve", "record", "deny"} =>
          row.phase = "reserved" /\ k.package = NoPackage
    /\ k.op = "finalize" =>
          row.phase \in {"dispatched", "outcome_unknown"} /\ k.package = NoPackage
    /\ k.op = "release" =>
          row.phase \in {"reserved", "dispatching"} /\ k.package = NoPackage
    /\ k.op = "dispatch" =>
          /\ row.phase = "reserved" /\ row.payment # "unknown" /\ row.fence = None
          /\ k.package = NoPackage

\* The plans of each operation.
PlanOf(k) ==
    \/ k.op = "reserve" /\ k.plan \in {"refuse", "authorize", "hold", "hold_unknown",
                                       "resolve", "record", "deny"}
    \/ k.op = "finalize" /\ k.plan \in {"settle", "capture", "release", "deny"} /\ k.want # "none"
    \/ k.op = "release" /\ k.plan \in {"settle", "release", "deny"} /\ k.want = "voided"
    \/ k.op = "dispatch" /\ k.plan = "dispatch"

\* The hold and the unit of an invocation, by its phase.
PhaseHolds(row, r, a) ==
    /\ row.phase \in Unheld => r = NoReservation /\ row.fence = None
    /\ row.phase \in {"none", "accepted"} => a = NoAllocation
    /\ row.phase = "refused" => a.state \in {"none", "released"}
    /\ row.phase \in Holding => r.status = "held" /\ a.state \in {"none", "held"}
    /\ row.phase = "reserved" => row.fence = None
    /\ row.phase = "released" => r.status = "released"
    /\ row.phase = "finalized" => r.status \in {"captured", "released"}
    /\ row.phase \in {"released", "finalized"} =>
          row.charge = r.status /\ a.state \in {"none", r.status}

\* What the rail has recorded of an invocation that costs money.
RailKnows(row, r, l) ==
    row.mode # "free" =>
        /\ r.known => l.auth = "authorized"
        /\ row.phase = "reserved" =>
              row.payment = "unknown" \/ (row.payment = "authorized" /\ l.auth = "authorized")
        /\ row.fence # None => l.auth = "authorized"
        /\ r.status = "captured" => l.settled = "captured"
        /\ r.status = "released" => l.settled = "voided" \/ l.auth = "denied"

\* What the rail has answered to an open transaction.
Answered(k, row, l) ==
    row.mode # "free" =>
        /\ k.plan \in {"hold", "record"} => l.auth = "authorized"
        /\ k.plan = "deny" => l.auth = "denied"
        /\ k.plan \in {"capture", "release"} =>
              /\ l.auth = "authorized" /\ l.settled = k.want
              /\ k.plan = "capture" <=> k.want = "captured"

\* An open transaction has a row, its plan fits it and agrees with the rail.
CallFits(c) ==
    Open(c) =>
        /\ call[c].op # "idle" /\ call[c].inv \in Invocations /\ call[c].at <= now
        /\ PlanOf(call[c])
        /\ PlanFits(call[c], inv[call[c].inv])
        /\ Answered(call[c], inv[call[c].inv], rail[call[c].inv])

\* It has the row alone, and the tenant's budget is in one transaction at a
\* time.
Exclusive ==
    \A c, d \in Callers :
        c # d /\ Open(c) /\ Open(d) =>
            /\ call[c].inv # call[d].inv
            /\ call[c].op = "dispatch" \/ call[d].op = "dispatch"

Transactions == (\A c \in Callers : CallFits(c)) /\ Exclusive

RowFits(i) == PhaseHolds(inv[i], rsv[i], alloc[i]) /\ RailKnows(inv[i], rsv[i], rail[i])
Rows == \A i \in Invocations : RowFits(i)

\* Units: a package that was never granted has none, and the unit a
\* reservation is about to take is there.
Stock ==
    /\ UnitsAreConserved
    /\ \A i \in Invocations : alloc[i].state # "none" => alloc[i].package \in Packages
    /\ \A p \in Packages : ent[p].status = "none" => ent[p] = NoEntitlement
    /\ \A c \in Callers :
          call[c].package # NoPackage =>
             call[c].package \in Packages /\ ent[call[c].package].remaining > 0

-----------------------------------------------------------------------------
(* The budget *)

Planning == {"authorize", "hold", "hold_unknown"}

\* What a reservation that was admitted will hold fits in what is left, and no
\* hold was made in a later month than its own.
Covers(k) ==
    /\ \A j \in Invocations : rsv[j].status # "none" => rsv[j].period <= PeriodOf(k.at)
    /\ \/ inv[k.inv].price = 0
       \/ Amount(CapturedIn(PeriodOf(k.at))) + Amount(HeldRows) + inv[k.inv].price <= raised

Money ==
    /\ BudgetHolds
    /\ \A i \in Invocations : rsv[i].status # "none" => rsv[i].period <= PeriodOf(now)
    /\ \A b \in budget : b.month <= raised
    /\ \A c \in Callers : call[c].op = "reserve" /\ call[c].plan \in Planning => Covers(call[c])

IInv == TypeOK /\ Transactions /\ Rows /\ Stock /\ Money

-----------------------------------------------------------------------------
(* Sums of amounts *)

\* What Amount computes, of any reservations g.
Sum(g, S) ==
    LET iter[s \in SUBSET S] ==
            IF s = {} THEN 0
            ELSE LET x == CHOOSE x \in s : TRUE
                 IN  g[x].amount + iter[s \ {x}]
    IN  iter[S]

\* The equation of the fold, of a function h on the subsets of S.
Next1(s) == CHOOSE x \in s : TRUE
Step(h, g, s) == IF s = {} THEN 0 ELSE g[Next1(s)].amount + h[s \ {Next1(s)}]
Folds(h, g, S) == h = [s \in SUBSET S |-> Step(h, g, s)]

SameAmounts(g, g2, S) == \A i \in S : g[i].amount = g2[i].amount
Rsvs == [Invocations -> Reservation]

LEMMA LeastOf ==
    ASSUME NEW T \in SUBSET Nat, T # {}
    PROVE  \E m \in T : \A n \in T : m <= n
  <1>1. PICK x \in T : \A y \in T : ~(<<y, x>> \in OpToRel(<, Nat))
    BY NatLessThanWellFounded, WFMin
  <1>2. ASSUME NEW y \in T PROVE x <= y
    <2>1. ~(<<y, x>> \in {ss \in Nat \X Nat : ss[1] < ss[2]})
      BY <1>1 DEF OpToRel
    <2>2. ~(y < x)
      BY <2>1
    <2> QED
      BY <2>2
  <1> QED
    BY <1>2

LEMMA Subsets ==
    ASSUME NEW S \in SUBSET Invocations
    PROVE  IsFiniteSet(S) /\ Cardinality(S) \in Nat
  BY CommerceAssumption, FS_Subset, FS_CardinalityType

LEMMA Smaller ==
    ASSUME NEW S \in SUBSET Invocations, NEW x \in S
    PROVE  /\ S \ {x} \in SUBSET Invocations
           /\ Cardinality(S \ {x}) \in Nat
           /\ Cardinality(S \ {x}) = Cardinality(S) - 1
  <1>1. IsFiniteSet(S) /\ Cardinality(S) \in Nat
    BY Subsets
  <1>2. Cardinality(S \ {x}) = Cardinality(S) - 1
    BY <1>1, FS_RemoveElement
  <1>3. S \ {x} \in SUBSET Invocations
    OBVIOUS
  <1> QED
    BY <1>2, <1>3, Subsets

LEMMA NextIn ==
    ASSUME NEW s, s # {}
    PROVE  Next1(s) \in s
  BY DEF Next1

\* The equation has a solution, of natural numbers: the sums of the subsets
\* with at most n members, for every n.
LEMMA FoldExists ==
    ASSUME NEW g \in Rsvs, NEW S \in SUBSET Invocations
    PROVE  \E h \in [SUBSET S -> Nat] : Folds(h, g, S)
  <1> DEFINE Upto(h, n) == \A s \in SUBSET S : Cardinality(s) <= n => h[s] = Step(h, g, s)
             T == {n \in Nat : ~ \E h \in [SUBSET S -> Nat] : Upto(h, n)}
  <1>1. Cardinality(S) \in Nat
    BY Subsets
  <1>2. T = {}
    <2> SUFFICES ASSUME T # {} PROVE FALSE
      OBVIOUS
    <2>1. PICK m \in T : \A n \in T : m <= n
      <3>1. T \subseteq Nat
        OBVIOUS
      <3> HIDE DEF T
      <3> QED
        BY <3>1, LeastOf
    <2>2. m \in Nat /\ \A h \in [SUBSET S -> Nat] : ~Upto(h, m)
      BY <2>1
    <2>3. \E f \in [SUBSET S -> Nat] : m = 0 \/ Upto(f, m - 1)
      <3>1. CASE m = 0
        <4>1. [s \in SUBSET S |-> 0] \in [SUBSET S -> Nat]
          OBVIOUS
        <4> QED
          BY <3>1, <4>1
      <3>2. CASE m # 0
        <4>1. m - 1 \in Nat /\ ~(m <= m - 1)
          BY <2>2, <3>2
        <4>2. m - 1 \notin T
          BY <2>1, <4>1
        <4> QED
          BY <4>1, <4>2
      <3> QED
        BY <3>1, <3>2
    <2>4. PICK f \in [SUBSET S -> Nat] : m = 0 \/ Upto(f, m - 1)
      BY <2>3
    <2>5. PICK h : h = [s \in SUBSET S |-> Step(f, g, s)]
      OBVIOUS
    <2>6. ASSUME NEW s \in SUBSET S PROVE Step(f, g, s) \in Nat
      <3>1. CASE s = {}
        BY <3>1 DEF Step
      <3>2. CASE s # {}
        <4>1. Next1(s) \in s /\ s \ {Next1(s)} \in SUBSET S /\ Next1(s) \in Invocations
          BY <3>2, NextIn
        <4>2. g[Next1(s)].amount \in Nat
          BY <4>1 DEF Rsvs, Reservation
        <4>3. f[s \ {Next1(s)}] \in Nat
          BY <4>1
        <4> QED
          BY <3>2, <4>2, <4>3 DEF Step
      <3> QED
        BY <3>1, <3>2
    <2>7. h \in [SUBSET S -> Nat]
      BY <2>5, <2>6
    <2>8. ASSUME NEW s \in SUBSET S, Cardinality(s) <= m PROVE h[s] = Step(h, g, s)
      <3>1. CASE s = {}
        BY <2>5, <3>1 DEF Step
      <3>2. CASE s # {}
        <4>1. Next1(s) \in s /\ s \ {Next1(s)} \in SUBSET S /\ s \in SUBSET Invocations
          BY <3>2, NextIn
        <4>2. PICK r : r = s \ {Next1(s)}
          OBVIOUS
        <4>3. Cardinality(r) \in Nat /\ Cardinality(r) = Cardinality(s) - 1 /\ Cardinality(s) \in Nat
          BY <4>1, <4>2, Smaller, Subsets
        <4>4. m # 0 /\ Cardinality(r) <= m - 1
          BY <2>2, <2>8, <4>3
        <4>5. f[r] = Step(f, g, r)
          BY <2>4, <4>1, <4>2, <4>4
        <4>6. h[r] = f[r]
          BY <2>5, <4>1, <4>2, <4>5
        <4> QED
          BY <2>5, <3>2, <4>2, <4>6 DEF Step
      <3> QED
        BY <3>1, <3>2
    <2> QED
      BY <2>2, <2>7, <2>8
  <1>3. PICK h \in [SUBSET S -> Nat] : Upto(h, Cardinality(S))
    BY <1>1, <1>2
  <1>4. ASSUME NEW s \in SUBSET S PROVE h[s] = Step(h, g, s)
    <2>1. IsFiniteSet(S) /\ Cardinality(s) <= Cardinality(S)
      BY Subsets, FS_Subset
    <2> QED
      BY <1>3, <2>1
  <1>5. [s \in SUBSET S |-> Step(h, g, s)] = [s \in SUBSET S |-> h[s]]
    BY <1>4
  <1>6. h = [s \in SUBSET S |-> h[s]]
    OBVIOUS
  <1> QED
    BY <1>5, <1>6 DEF Folds

\* Two solutions agree wherever both are defined and the amounts agree.
LEMMA FoldUnique ==
    ASSUME NEW g, NEW g2, NEW h, NEW h2,
           NEW S \in SUBSET Invocations, NEW S2 \in SUBSET Invocations,
           Folds(h, g, S), Folds(h2, g2, S2),
           NEW R \in SUBSET S, R \in SUBSET S2,
           SameAmounts(g, g2, R)
    PROVE  h[R] = h2[R]
  <1> DEFINE T == {n \in Nat : \E s \in SUBSET R : Cardinality(s) = n /\ h[s] # h2[s]}
  <1>1. ASSUME NEW s \in SUBSET S PROVE h[s] = Step(h, g, s)
    <2>1. [r \in SUBSET S |-> Step(h, g, r)][s] = Step(h, g, s)
      OBVIOUS
    <2> QED
      BY <2>1 DEF Folds
  <1>2. ASSUME NEW s \in SUBSET S2 PROVE h2[s] = Step(h2, g2, s)
    <2>1. [r \in SUBSET S2 |-> Step(h2, g2, r)][s] = Step(h2, g2, s)
      OBVIOUS
    <2> QED
      BY <2>1 DEF Folds
  <1>3. T = {}
    <2> SUFFICES ASSUME T # {} PROVE FALSE
      OBVIOUS
    <2>1. PICK m \in T : \A n \in T : m <= n
      <3>1. T \subseteq Nat
        OBVIOUS
      <3> HIDE DEF T
      <3> QED
        BY <3>1, LeastOf
    <2>2. PICK s \in SUBSET R : Cardinality(s) = m /\ h[s] # h2[s]
      OBVIOUS
    <2>3. h[s] = Step(h, g, s) /\ h2[s] = Step(h2, g2, s)
      BY <1>1, <1>2
    <2>4. s # {}
      BY <2>2, <2>3 DEF Step
    <2>5. Next1(s) \in s /\ s \ {Next1(s)} \in SUBSET R /\ s \in SUBSET Invocations
      BY <2>4, NextIn
    <2>6. PICK r : r = s \ {Next1(s)}
      OBVIOUS
    <2>7. Cardinality(r) \in Nat /\ Cardinality(r) = m - 1 /\ m \in Nat
      BY <2>2, <2>5, <2>6, Smaller
    <2>8. h[r] = h2[r]
      <3>1. r \in SUBSET R /\ ~(m <= Cardinality(r))
        BY <2>5, <2>6, <2>7
      <3>2. Cardinality(r) \notin T
        BY <2>1, <3>1
      <3> QED
        BY <2>7, <3>1, <3>2
    <2>9. g[Next1(s)].amount = g2[Next1(s)].amount
      BY <2>5 DEF SameAmounts
    <2> QED
      BY <2>2, <2>3, <2>4, <2>6, <2>8, <2>9 DEF Step
  <1>4. Cardinality(R) \in Nat
    BY Subsets
  <1> QED
    BY <1>3, <1>4

LEMMA FoldAgree ==
    ASSUME NEW g, NEW h, NEW h2,
           NEW S \in SUBSET Invocations, NEW S2 \in SUBSET Invocations,
           Folds(h, g, S), Folds(h2, g, S2),
           NEW R, R \in SUBSET S, R \in SUBSET S2
    PROVE  h[R] = h2[R]
  <1>1. SameAmounts(g, g, R)
    BY DEF SameAmounts
  <1> QED
    BY <1>1, FoldUnique

\* A sum is the value of any solution.
LEMMA SumOf ==
    ASSUME NEW g \in Rsvs, NEW S \in SUBSET Invocations
    PROVE  \E h : Folds(h, g, S) /\ Sum(g, S) = h[S]
  <1> DEFINE h == CHOOSE f : f = [s \in SUBSET S |->
                     IF s = {} THEN 0
                     ELSE LET x == CHOOSE x \in s : TRUE IN g[x].amount + f[s \ {x}]]
  <1>1. Sum(g, S) = h[S]
    BY DEF Sum
  <1>2. \E f : f = [s \in SUBSET S |->
                     IF s = {} THEN 0
                     ELSE LET x == CHOOSE x \in s : TRUE IN g[x].amount + f[s \ {x}]]
    <2>1. PICK f \in [SUBSET S -> Nat] : Folds(f, g, S)
      BY FoldExists
    <2>2. f = [s \in SUBSET S |->
                     IF s = {} THEN 0
                     ELSE LET x == CHOOSE x \in s : TRUE IN g[x].amount + f[s \ {x}]]
      BY <2>1 DEF Folds, Step, Next1
    <2> QED
      BY <2>2
  <1>3. h = [s \in SUBSET S |->
                     IF s = {} THEN 0
                     ELSE LET x == CHOOSE x \in s : TRUE IN g[x].amount + h[s \ {x}]]
    BY <1>2
  <1>4. Folds(h, g, S)
    BY <1>3 DEF Folds, Step, Next1
  <1> QED
    BY <1>1, <1>4

\* A sum depends on the amounts of its members.
LEMMA SumSame ==
    ASSUME NEW g \in Rsvs, NEW g2 \in Rsvs, NEW S \in SUBSET Invocations,
           SameAmounts(g, g2, S)
    PROVE  Sum(g, S) = Sum(g2, S)
  <1>1. PICK h : Folds(h, g, S) /\ Sum(g, S) = h[S]
    BY SumOf
  <1>2. PICK h2 : Folds(h2, g2, S) /\ Sum(g2, S) = h2[S]
    BY SumOf
  <1>3. h[S] = h2[S]
    BY <1>1, <1>2, FoldUnique
  <1> QED
    BY <1>1, <1>2, <1>3

LEMMA SumEmpty ==
    ASSUME NEW g \in Rsvs
    PROVE  Sum(g, {}) = 0
  <1>1. PICK h : Folds(h, g, {}) /\ Sum(g, {}) = h[{}]
    BY SumOf
  <1>2. [s \in SUBSET {} |-> Step(h, g, s)][{}] = Step(h, g, {})
    OBVIOUS
  <1>3. Step(h, g, {}) = 0
    BY DEF Step
  <1> QED
    BY <1>1, <1>2, <1>3 DEF Folds

LEMMA SumType ==
    ASSUME NEW g \in Rsvs, NEW S \in SUBSET Invocations
    PROVE  Sum(g, S) \in Nat
  <1>1. PICK h \in [SUBSET S -> Nat] : Folds(h, g, S)
    BY FoldExists
  <1>2. PICK h2 : Folds(h2, g, S) /\ Sum(g, S) = h2[S]
    BY SumOf
  <1>3. h[S] = h2[S]
    <2>1. S \in SUBSET S
      OBVIOUS
    <2> QED
      BY <1>1, <1>2, <2>1, FoldAgree
  <1>4. h[S] \in Nat
    OBVIOUS
  <1> QED
    BY <1>2, <1>3, <1>4

LEMMA SumNext ==
    ASSUME NEW g \in Rsvs, NEW S \in SUBSET Invocations, S # {}
    PROVE  Sum(g, S) = g[Next1(S)].amount + Sum(g, S \ {Next1(S)})
  <1>1. PICK R : R = S \ {Next1(S)}
    OBVIOUS
  <1>2. R \in SUBSET S /\ R \in SUBSET Invocations
    BY <1>1
  <1>3. PICK h : Folds(h, g, S) /\ Sum(g, S) = h[S]
    BY SumOf
  <1>4. PICK h2 : Folds(h2, g, R) /\ Sum(g, R) = h2[R]
    BY <1>2, SumOf
  <1>5. h[R] = h2[R]
    BY <1>2, <1>3, <1>4, FoldAgree
  <1>6. [s \in SUBSET S |-> Step(h, g, s)][S] = Step(h, g, S)
    OBVIOUS
  <1>7. h[S] = g[Next1(S)].amount + h[R]
    BY <1>1, <1>3, <1>6 DEF Folds, Step
  <1> QED
    BY <1>1, <1>3, <1>4, <1>5, <1>7

\* The members of a sum may be added in any order.
LEMMA SumRemove ==
    ASSUME NEW g \in Rsvs, NEW S \in SUBSET Invocations, NEW x \in S
    PROVE  Sum(g, S) = g[x].amount + Sum(g, S \ {x})
  <1> DEFINE Holds(s) == \A i \in s : Sum(g, s) = g[i].amount + Sum(g, s \ {i})
             T == {n \in Nat : \E s \in SUBSET Invocations : Cardinality(s) = n /\ ~Holds(s)}
  <1>1. T = {}
    <2> SUFFICES ASSUME T # {} PROVE FALSE
      OBVIOUS
    <2>1. PICK m \in T : \A n \in T : m <= n
      <3>1. T \subseteq Nat
        OBVIOUS
      <3> HIDE DEF T
      <3> QED
        BY <3>1, LeastOf
    <2>2. PICK s \in SUBSET Invocations : Cardinality(s) = m /\ ~Holds(s)
      OBVIOUS
    <2>3. PICK i \in s : Sum(g, s) # g[i].amount + Sum(g, s \ {i})
      BY <2>2
    <2>4. PICK y : y = Next1(s)
      OBVIOUS
    <2>5. y \in s /\ Sum(g, s) = g[y].amount + Sum(g, s \ {y})
      BY <2>3, <2>4, NextIn, SumNext
    <2>6. i # y
      BY <2>3, <2>5
    <2>7. ASSUME NEW z \in s PROVE Holds(s \ {z})
      <3>1. /\ Cardinality(s \ {z}) \in Nat /\ Cardinality(s \ {z}) = m - 1 /\ m \in Nat
            /\ s \ {z} \in SUBSET Invocations
        BY <2>2, Smaller
      <3>2. ~(m <= Cardinality(s \ {z}))
        BY <3>1
      <3>3. Cardinality(s \ {z}) \notin T
        BY <2>1, <3>2
      <3> QED
        BY <3>1, <3>3
    <2>8. Sum(g, s \ {y}) = g[i].amount + Sum(g, (s \ {y}) \ {i})
      BY <2>5, <2>6, <2>7
    <2>9. Sum(g, s \ {i}) = g[y].amount + Sum(g, (s \ {i}) \ {y})
      BY <2>5, <2>6, <2>7
    <2>10. Sum(g, (s \ {i}) \ {y}) = Sum(g, (s \ {y}) \ {i})
      <3>1. (s \ {i}) \ {y} = (s \ {y}) \ {i}
        OBVIOUS
      <3> QED
        BY <3>1
    <2>11. g[i].amount \in Nat /\ g[y].amount \in Nat /\ Sum(g, (s \ {y}) \ {i}) \in Nat
      BY <2>5, SumType DEF Rsvs, Reservation
    <2> QED
      BY <2>3, <2>5, <2>8, <2>9, <2>10, <2>11
  <1>2. Cardinality(S) \in Nat
    BY Subsets
  <1>3. Holds(S)
    BY <1>1, <1>2
  <1> QED
    BY <1>3

LEMMA SumAdd ==
    ASSUME NEW g \in Rsvs, NEW S \in SUBSET Invocations, NEW x \in Invocations, x \notin S
    PROVE  Sum(g, S \union {x}) = Sum(g, S) + g[x].amount
  <1>1. S \union {x} \in SUBSET Invocations /\ (S \union {x}) \ {x} = S
    OBVIOUS
  <1>2. Sum(g, S \union {x}) = g[x].amount + Sum(g, S)
    BY <1>1, SumRemove
  <1>3. Sum(g, S) \in Nat /\ g[x].amount \in Nat
    BY SumType DEF Rsvs, Reservation
  <1> QED
    BY <1>2, <1>3

\* A part sums to no more than the whole.
LEMMA SumPart ==
    ASSUME NEW g \in Rsvs, NEW S \in SUBSET Invocations, NEW R \in SUBSET S
    PROVE  Sum(g, R) <= Sum(g, S)
  <1> DEFINE T == {n \in Nat : \E s \in SUBSET S : R \in SUBSET s /\ Cardinality(s) = n
                                  /\ ~(Sum(g, R) <= Sum(g, s))}
  <1>1. T = {}
    <2> SUFFICES ASSUME T # {} PROVE FALSE
      OBVIOUS
    <2>1. PICK m \in T : \A n \in T : m <= n
      <3>1. T \subseteq Nat
        OBVIOUS
      <3> HIDE DEF T
      <3> QED
        BY <3>1, LeastOf
    <2>2. PICK s \in SUBSET S : R \in SUBSET s /\ Cardinality(s) = m /\ ~(Sum(g, R) <= Sum(g, s))
      OBVIOUS
    <2>3. s \in SUBSET Invocations /\ R \in SUBSET Invocations
      OBVIOUS
    <2>4. Sum(g, R) \in Nat /\ Sum(g, s) \in Nat
      BY <2>3, SumType
    <2>5. R # s
      BY <2>2, <2>4
    <2>6. PICK x \in s : x \notin R
      BY <2>2, <2>5
    <2>7. /\ Cardinality(s \ {x}) \in Nat /\ Cardinality(s \ {x}) = m - 1 /\ m \in Nat
          /\ s \ {x} \in SUBSET Invocations
      BY <2>2, <2>3, Smaller
    <2>8. ~(m <= Cardinality(s \ {x}))
      BY <2>7
    <2>9. Cardinality(s \ {x}) \notin T
      BY <2>1, <2>8
    <2>10. s \ {x} \in SUBSET S /\ R \in SUBSET (s \ {x})
      BY <2>2, <2>6
    <2>11. Sum(g, R) <= Sum(g, s \ {x})
      BY <2>7, <2>9, <2>10
    <2>12. Sum(g, s) = g[x].amount + Sum(g, s \ {x})
      BY <2>3, SumRemove
    <2>13. g[x].amount \in Nat /\ Sum(g, s \ {x}) \in Nat
      BY <2>3, <2>7, SumType DEF Rsvs, Reservation
    <2> QED
      BY <2>2, <2>4, <2>11, <2>12, <2>13
  <1>2. Cardinality(S) \in Nat
    BY Subsets
  <1> QED
    BY <1>1, <1>2

-----------------------------------------------------------------------------
(* The budget, of any reservations g at time t under the limit r *)

Held(g) == {i \in Invocations : g[i].status = "held"}
HeldIn(g, p) == {i \in Held(g) : g[i].period = p}
Taken(g, p) == {i \in Invocations : g[i].status = "captured" /\ g[i].period = p}
NoneAfter(g, p) == \A i \in Invocations : g[i].status # "none" => g[i].period <= p

Fits(g, t, r) ==
    /\ Sum(g, Taken(g, PeriodOf(t))) + Sum(g, Held(g)) <= r
    /\ \A p \in 0 .. PeriodOf(t) - 1 : Sum(g, Taken(g, p)) + Sum(g, HeldIn(g, p)) <= r

Leaves(g, t, r, price) ==
    /\ NoneAfter(g, PeriodOf(t))
    /\ price = 0 \/ Sum(g, Taken(g, PeriodOf(t))) + Sum(g, Held(g)) + price <= r

LEMMA Periods ==
    ASSUME NEW t \in Nat
    PROVE  /\ PeriodOf(t) \in Nat
           /\ PeriodOf(t + 1) = PeriodOf(t) \/ PeriodOf(t + 1) = PeriodOf(t) + 1
           /\ \A u \in Nat : u <= t => PeriodOf(u) <= PeriodOf(t) /\ PeriodOf(u) \in Nat
  <1>1. Month \in Nat \ {0}
    BY CommerceAssumption
  <1>2. ASSUME NEW u \in Nat, u <= t PROVE PeriodOf(u) <= PeriodOf(t) /\ PeriodOf(u) \in Nat
    BY <1>1, <1>2 DEF PeriodOf
  <1>3. PeriodOf(t + 1) = PeriodOf(t) \/ PeriodOf(t + 1) = PeriodOf(t) + 1
    BY <1>1 DEF PeriodOf
  <1>4. PeriodOf(t) \in Nat
    BY <1>1 DEF PeriodOf
  <1> QED
    BY <1>2, <1>3, <1>4

\* The sums of the model are these.
LEMMA SumsOfLedger ==
    /\ TypeOK => rsv \in Rsvs
    /\ BudgetHolds <=> Fits(rsv, now, raised)
    /\ \A k : Covers(k) <=> Leaves(rsv, k.at, raised, inv[k.inv].price)
    /\ \A b : Available(b) = b.month - Sum(rsv, Taken(rsv, PeriodOf(now))) - Sum(rsv, Held(rsv))
  <1>1. \A S : Amount(S) = Sum(rsv, S)
    BY DEF Amount, MapThenSumSet, MapThenFoldSet, Sum
  <1>2. HeldRows = Held(rsv) /\ \A p : CapturedIn(p) = Taken(rsv, p)
    BY DEF HeldRows, Held, CapturedIn, Taken
  <1>3. \A p : {i \in HeldRows : rsv[i].period = p} = HeldIn(rsv, p)
    BY DEF HeldRows, HeldIn, Held
  <1>4. BudgetHolds <=> Fits(rsv, now, raised)
    BY <1>1, <1>2, <1>3 DEF BudgetHolds, Fits
  <1>5. \A k : Covers(k) <=> Leaves(rsv, k.at, raised, inv[k.inv].price)
    BY <1>1, <1>2 DEF Covers, Leaves, NoneAfter
  <1>6. \A b : Available(b) = b.month - Sum(rsv, Taken(rsv, PeriodOf(now))) - Sum(rsv, Held(rsv))
    BY <1>1, <1>2 DEF Available
  <1> QED
    BY <1>4, <1>5, <1>6 DEF TypeOK, Rsvs

LEMMA SumsOfNextLedger ==
    /\ TypeOK' => rsv' \in Rsvs
    /\ BudgetHolds' <=> Fits(rsv', now', raised')
    /\ \A c \in Callers :
          Covers(call[c])' <=> Leaves(rsv', call'[c].at, raised', inv'[call'[c].inv].price)
  <1>1. TypeOK' => rsv' \in Rsvs
    BY DEF TypeOK, Rsvs
  <1>2. BudgetHolds' <=> Fits(rsv', now', raised')
    BY DEF BudgetHolds, Fits, Amount, MapThenSumSet, MapThenFoldSet, Sum, HeldRows, Held,
           CapturedIn, Taken, HeldIn, PeriodOf
  <1>3. ASSUME NEW c \in Callers
        PROVE  Covers(call[c])' <=> Leaves(rsv', call'[c].at, raised', inv'[call'[c].inv].price)
    BY DEF Covers, Leaves, NoneAfter, Amount, MapThenSumSet, MapThenFoldSet, Sum, HeldRows, Held,
           CapturedIn, Taken, PeriodOf
  <1> QED
    BY <1>1, <1>2, <1>3

LEMMA MoneyTypes ==
    ASSUME NEW g \in Rsvs, NEW p
    PROVE  /\ Sum(g, Held(g)) \in Nat /\ Sum(g, HeldIn(g, p)) \in Nat /\ Sum(g, Taken(g, p)) \in Nat
           /\ Sum(g, HeldIn(g, p)) <= Sum(g, Held(g))
           /\ Held(g) \in SUBSET Invocations /\ HeldIn(g, p) \in SUBSET Held(g)
           /\ Taken(g, p) \in SUBSET Invocations
  <1>1. /\ Held(g) \in SUBSET Invocations /\ HeldIn(g, p) \in SUBSET Held(g)
        /\ Taken(g, p) \in SUBSET Invocations /\ HeldIn(g, p) \in SUBSET Invocations
    BY DEF Held, HeldIn, Taken
  <1> QED
    BY <1>1, SumType, SumPart

\* Nothing was captured in a month later than any hold.
LEMMA NothingTakenLater ==
    ASSUME NEW g \in Rsvs, NEW q \in Nat, NoneAfter(g, q), NEW p \in Nat, p > q
    PROVE  Sum(g, Taken(g, p)) = 0
  <1>1. Taken(g, p) = {}
    <2> SUFFICES ASSUME NEW i \in Taken(g, p) PROVE FALSE
      OBVIOUS
    <2>1. i \in Invocations /\ g[i].status = "captured" /\ g[i].period = p
      BY DEF Taken
    <2>2. g[i].period <= q
      BY <2>1 DEF NoneAfter
    <2> QED
      BY <2>1, <2>2
  <1> QED
    BY <1>1, SumEmpty

\* Time: in a new month nothing is captured yet.
LEMMA FitsLater ==
    ASSUME NEW g \in Rsvs, NEW t \in Nat, NEW r \in Nat, Fits(g, t, r), NoneAfter(g, PeriodOf(t))
    PROVE  Fits(g, t + 1, r) /\ NoneAfter(g, PeriodOf(t + 1))
  <1>1. PeriodOf(t) \in Nat /\ (PeriodOf(t + 1) = PeriodOf(t) \/ PeriodOf(t + 1) = PeriodOf(t) + 1)
    BY Periods
  <1>2. ASSUME PeriodOf(t + 1) = PeriodOf(t) PROVE Fits(g, t + 1, r)
    BY <1>2 DEF Fits
  <1>3. ASSUME PeriodOf(t + 1) = PeriodOf(t) + 1 PROVE Fits(g, t + 1, r)
    <2>1. Sum(g, Taken(g, PeriodOf(t + 1))) = 0
      <3>1. PeriodOf(t + 1) \in Nat /\ PeriodOf(t + 1) > PeriodOf(t)
        BY <1>1, <1>3
      <3> QED
        BY <1>1, <3>1, NothingTakenLater
    <2>2. Sum(g, Held(g)) <= r
      BY MoneyTypes DEF Fits
    <2>3. ASSUME NEW p \in 0 .. PeriodOf(t)
          PROVE  Sum(g, Taken(g, p)) + Sum(g, HeldIn(g, p)) <= r
      <3>1. CASE p = PeriodOf(t)
        BY <3>1, MoneyTypes DEF Fits
      <3>2. CASE p # PeriodOf(t)
        <4>1. p \in 0 .. PeriodOf(t) - 1
          BY <1>1, <3>2
        <4> QED
          BY <4>1 DEF Fits
      <3> QED
        BY <3>1, <3>2
    <2>4. PeriodOf(t + 1) - 1 = PeriodOf(t)
      BY <1>1, <1>3
    <2>5. Sum(g, Held(g)) \in Nat
      BY MoneyTypes
    <2>6. \A p \in 0 .. PeriodOf(t + 1) - 1 : Sum(g, Taken(g, p)) + Sum(g, HeldIn(g, p)) <= r
      BY <2>3, <2>4
    <2>7. Sum(g, Taken(g, PeriodOf(t + 1))) + Sum(g, Held(g)) <= r
      BY <2>1, <2>2, <2>5
    <2> QED
      BY <2>6, <2>7 DEF Fits
  <1>4. NoneAfter(g, PeriodOf(t + 1))
    <2> SUFFICES ASSUME NEW i \in Invocations, g[i].status # "none"
                 PROVE  g[i].period <= PeriodOf(t + 1)
      BY DEF NoneAfter
    <2>1. g[i].period \in Nat /\ g[i].period <= PeriodOf(t)
      BY DEF NoneAfter, Rsvs, Reservation
    <2> QED
      BY <1>1, <2>1
  <1> QED
    BY <1>1, <1>2, <1>3, <1>4

\* The sums depend on the status, the amount and the period of each hold.
Alike(r1, r2) == r1.status = r2.status /\ r1.amount = r2.amount /\ r1.period = r2.period

LEMMA FitsAlike ==
    ASSUME NEW g \in Rsvs, NEW g2 \in Rsvs, \A i \in Invocations : Alike(g[i], g2[i])
    PROVE  /\ \A t, r : Fits(g, t, r) <=> Fits(g2, t, r)
           /\ \A t, r, price : Leaves(g, t, r, price) <=> Leaves(g2, t, r, price)
           /\ \A p : NoneAfter(g, p) <=> NoneAfter(g2, p)
  <1>1. Held(g2) = Held(g) /\ \A p : HeldIn(g2, p) = HeldIn(g, p) /\ Taken(g2, p) = Taken(g, p)
    BY DEF Held, HeldIn, Taken, Alike
  <1>2. ASSUME NEW S \in SUBSET Invocations PROVE Sum(g2, S) = Sum(g, S)
    <2>1. SameAmounts(g2, g, S)
      BY DEF SameAmounts, Alike
    <2> QED
      BY <2>1, SumSame
  <1>3. /\ Sum(g2, Held(g2)) = Sum(g, Held(g))
        /\ \A p : Sum(g2, HeldIn(g2, p)) = Sum(g, HeldIn(g, p)) /\ Sum(g2, Taken(g2, p)) = Sum(g, Taken(g, p))
    <2>1. Held(g) \in SUBSET Invocations /\ \A p : HeldIn(g, p) \in SUBSET Invocations /\ Taken(g, p) \in SUBSET Invocations
      BY DEF Held, HeldIn, Taken
    <2> QED
      BY <1>1, <1>2, <2>1
  <1>4. \A p : NoneAfter(g, p) <=> NoneAfter(g2, p)
    BY DEF NoneAfter, Alike
  <1> QED
    BY <1>3, <1>4 DEF Fits, Leaves

\* A hold that was admitted fits, in its own month and in a later one.
LEMMA FitsHold ==
    ASSUME NEW g \in Rsvs, NEW g2 \in Rsvs, NEW i \in Invocations,
           NEW t \in Nat, NEW at \in Nat, at <= t, NEW r \in Nat,
           Fits(g, t, r), Leaves(g, at, r, g2[i].amount),
           g[i].status = "none", g2[i].status = "held", g2[i].period = PeriodOf(at),
           \A j \in Invocations : j # i => g2[j] = g[j]
    PROVE  Fits(g2, t, r) /\ NoneAfter(g2, PeriodOf(t))
  <1> DEFINE a == g2[i].amount
             P == PeriodOf(at)
  <1>1. P \in Nat /\ PeriodOf(t) \in Nat /\ P <= PeriodOf(t) /\ a \in Nat
    BY Periods DEF Rsvs, Reservation
  <1>2. /\ Held(g2) = Held(g) \union {i} /\ i \notin Held(g)
        /\ \A p : Taken(g2, p) = Taken(g, p) /\ i \notin Taken(g, p)
        /\ \A p : p # P => HeldIn(g2, p) = HeldIn(g, p)
        /\ HeldIn(g2, P) = HeldIn(g, P) \union {i}
        /\ \A p : i \notin HeldIn(g, p)
    BY DEF Held, HeldIn, Taken
  <1>3. ASSUME NEW S \in SUBSET Invocations, i \notin S PROVE Sum(g2, S) = Sum(g, S)
    <2>1. SameAmounts(g2, g, S)
      BY <1>3 DEF SameAmounts
    <2> QED
      BY <2>1, SumSame
  <1>4. ASSUME NEW S \in SUBSET Invocations, i \notin S PROVE Sum(g2, S \union {i}) = Sum(g, S) + a
    BY <1>3, <1>4, SumAdd
  <1>5. Held(g) \in SUBSET Invocations /\ \A p : HeldIn(g, p) \in SUBSET Invocations /\ Taken(g, p) \in SUBSET Invocations
    BY DEF Held, HeldIn, Taken
  <1>6. Sum(g2, Held(g2)) = Sum(g, Held(g)) + a
    BY <1>2, <1>4, <1>5
  <1>7. \A p : Sum(g2, Taken(g2, p)) = Sum(g, Taken(g, p))
    BY <1>2, <1>3, <1>5
  <1>8. \A p : p # P => Sum(g2, HeldIn(g2, p)) = Sum(g, HeldIn(g, p))
    BY <1>2, <1>3, <1>5
  <1>9. Sum(g2, HeldIn(g2, P)) = Sum(g, HeldIn(g, P)) + a
    BY <1>2, <1>4, <1>5
  <1>10. a = 0 \/ Sum(g, Taken(g, P)) + Sum(g, Held(g)) + a <= r
    BY DEF Leaves
  <1>11. Sum(g, Held(g)) \in Nat /\ \A p : Sum(g, HeldIn(g, p)) \in Nat /\ Sum(g, Taken(g, p)) \in Nat
                                      /\ Sum(g, HeldIn(g, p)) <= Sum(g, Held(g))
    BY MoneyTypes
  <1> HIDE DEF a, P
  <1>12. Sum(g, Taken(g, PeriodOf(t))) + Sum(g, Held(g)) + a <= r
    <2>1. Sum(g, Taken(g, PeriodOf(t))) + Sum(g, Held(g)) <= r
      BY DEF Fits
    <2>2. CASE a = 0
      BY <1>11, <2>1, <2>2
    <2>3. CASE a # 0 /\ PeriodOf(t) = P
      BY <1>10, <2>3
    <2>4. CASE a # 0 /\ PeriodOf(t) # P
      <3>1. PeriodOf(t) > P
        BY <1>1, <2>4
      <3>2. Sum(g, Taken(g, PeriodOf(t))) = 0
        BY <1>1, <3>1, NothingTakenLater DEF Leaves, P
      <3> QED
        BY <1>1, <1>10, <1>11, <2>4, <3>2
    <2> QED
      BY <2>2, <2>3, <2>4
  <1>13. ASSUME NEW p \in 0 .. PeriodOf(t) - 1
         PROVE  Sum(g2, Taken(g2, p)) + Sum(g2, HeldIn(g2, p)) <= r
    <2>1. Sum(g, Taken(g, p)) + Sum(g, HeldIn(g, p)) <= r
      BY DEF Fits
    <2>2. CASE p # P
      BY <1>7, <1>8, <2>1, <2>2
    <2>3. CASE p = P /\ a = 0
      BY <1>7, <1>9, <1>11, <2>1, <2>3
    <2>4. CASE p = P /\ a # 0
      BY <1>1, <1>7, <1>9, <1>10, <1>11, <2>4
    <2> QED
      BY <2>2, <2>3, <2>4
  <1>14. NoneAfter(g2, PeriodOf(t))
    <2> SUFFICES ASSUME NEW j \in Invocations, g2[j].status # "none"
                 PROVE  g2[j].period <= PeriodOf(t)
      BY DEF NoneAfter
    <2>1. CASE j = i
      BY <1>1, <2>1 DEF P
    <2>2. CASE j # i
      <3>1. g[j].period \in Nat /\ g[j].period <= P
        BY <2>2 DEF Leaves, NoneAfter, Rsvs, Reservation, P
      <3> QED
        BY <1>1, <2>2, <3>1
    <2> QED
      BY <2>1, <2>2
  <1>15. Sum(g2, Taken(g2, PeriodOf(t))) + Sum(g2, Held(g2)) <= r
    BY <1>1, <1>6, <1>7, <1>11, <1>12
  <1> QED
    BY <1>13, <1>14, <1>15 DEF Fits

\* A hold that is captured moves within its own month, one that is released
\* leaves it.
LEMMA FitsSettle ==
    ASSUME NEW g \in Rsvs, NEW g2 \in Rsvs, NEW i \in Invocations,
           NEW t \in Nat, NEW r \in Nat, Fits(g, t, r), NoneAfter(g, PeriodOf(t)),
           g[i].status = "held", g2[i].status \in {"captured", "released"},
           g2[i].amount = g[i].amount, g2[i].period = g[i].period,
           \A j \in Invocations : j # i => g2[j] = g[j]
    PROVE  Fits(g2, t, r) /\ NoneAfter(g2, PeriodOf(t))
  <1> DEFINE a == g[i].amount
  <1>1. PeriodOf(t) \in Nat /\ a \in Nat
    BY Periods DEF Rsvs, Reservation
  <1>2. /\ Held(g2) = Held(g) \ {i} /\ i \in Held(g)
        /\ \A p : HeldIn(g2, p) = HeldIn(g, p) \ {i}
        /\ \A p : Taken(g2, p) \in {Taken(g, p), Taken(g, p) \union {i}}
        /\ \A p : p # g[i].period => Taken(g2, p) = Taken(g, p)
        /\ i \in HeldIn(g, g[i].period)
        /\ \A p : p # g[i].period => i \notin HeldIn(g, p)
        /\ \A p : i \notin Taken(g, p)
    BY DEF Held, HeldIn, Taken
  <1>3. ASSUME NEW S \in SUBSET Invocations PROVE Sum(g2, S) = Sum(g, S)
    <2>1. SameAmounts(g2, g, S)
      BY DEF SameAmounts
    <2> QED
      BY <2>1, SumSame
  <1>4. Held(g) \in SUBSET Invocations /\ \A p : HeldIn(g, p) \in SUBSET Invocations /\ Taken(g, p) \in SUBSET Invocations
    BY DEF Held, HeldIn, Taken
  <1>5. Sum(g, Held(g)) \in Nat /\ \A p : Sum(g, HeldIn(g, p)) \in Nat /\ Sum(g, Taken(g, p)) \in Nat
                                      /\ Sum(g, HeldIn(g, p)) <= Sum(g, Held(g))
    BY MoneyTypes
  <1>6. Sum(g, Held(g)) = a + Sum(g2, Held(g2)) /\ Sum(g2, Held(g2)) \in Nat
    <2>1. Sum(g, Held(g)) = a + Sum(g, Held(g) \ {i}) /\ Held(g) \ {i} \in SUBSET Invocations
      BY <1>2, <1>4, SumRemove
    <2> QED
      BY <1>2, <1>3, <2>1, SumType
  <1>7. ASSUME NEW p, p # g[i].period
        PROVE  Sum(g2, HeldIn(g2, p)) = Sum(g, HeldIn(g, p)) /\ Sum(g2, Taken(g2, p)) = Sum(g, Taken(g, p))
    <2>1. HeldIn(g2, p) = HeldIn(g, p) /\ Taken(g2, p) = Taken(g, p)
      BY <1>2, <1>7
    <2> QED
      BY <1>3, <1>4, <2>1
  <1>8. ASSUME NEW p
        PROVE  Sum(g2, Taken(g2, p)) \in Nat /\ Sum(g2, Taken(g2, p)) <= Sum(g, Taken(g, p)) + a
    <2>1. CASE Taken(g2, p) = Taken(g, p)
      <3>1. Sum(g2, Taken(g2, p)) = Sum(g, Taken(g, p))
        BY <1>3, <1>4, <2>1
      <3> QED
        BY <1>1, <1>5, <3>1
    <2>2. CASE Taken(g2, p) = Taken(g, p) \union {i}
      <3>1. Sum(g, Taken(g, p) \union {i}) = Sum(g, Taken(g, p)) + a
        BY <1>2, <1>4, SumAdd
      <3>2. Sum(g2, Taken(g2, p)) = Sum(g, Taken(g, p)) + a
        BY <1>3, <1>4, <2>2, <3>1
      <3> QED
        BY <1>1, <1>5, <3>2
    <2> QED
      BY <1>2, <2>1, <2>2
  <1>9. Sum(g, HeldIn(g, g[i].period)) = a + Sum(g2, HeldIn(g2, g[i].period)) /\ Sum(g2, HeldIn(g2, g[i].period)) \in Nat
    <2> DEFINE H == HeldIn(g, g[i].period)
    <2>1. H \in SUBSET Invocations /\ i \in H /\ H \ {i} \in SUBSET Invocations /\ HeldIn(g2, g[i].period) = H \ {i}
      BY <1>2, <1>4
    <2> HIDE DEF H
    <2>2. Sum(g, H) = a + Sum(g, H \ {i})
      BY <2>1, SumRemove
    <2> QED
      BY <1>3, <2>1, <2>2, SumType DEF H
  <1> HIDE DEF a
  <1>10. Sum(g2, Taken(g2, PeriodOf(t))) + Sum(g2, Held(g2)) <= r
    <2>1. Sum(g, Taken(g, PeriodOf(t))) + Sum(g, Held(g)) <= r
      BY DEF Fits
    <2>2. Sum(g2, Taken(g2, PeriodOf(t))) \in Nat /\ Sum(g2, Taken(g2, PeriodOf(t))) <= Sum(g, Taken(g, PeriodOf(t))) + a
      BY <1>8
    <2>3. Sum(g, Taken(g, PeriodOf(t))) \in Nat
      BY <1>5
    <2> QED
      BY <1>1, <1>6, <2>1, <2>2, <2>3
  <1>11. ASSUME NEW p \in 0 .. PeriodOf(t) - 1
         PROVE  Sum(g2, Taken(g2, p)) + Sum(g2, HeldIn(g2, p)) <= r
    <2>1. Sum(g, Taken(g, p)) + Sum(g, HeldIn(g, p)) <= r
      BY DEF Fits
    <2>2. CASE p # g[i].period
      BY <1>7, <2>1, <2>2
    <2>3. CASE p = g[i].period
      <3>1. Sum(g, HeldIn(g, p)) = a + Sum(g2, HeldIn(g2, p)) /\ Sum(g2, HeldIn(g2, p)) \in Nat
        BY <1>9, <2>3
      <3>2. Sum(g2, Taken(g2, p)) \in Nat /\ Sum(g2, Taken(g2, p)) <= Sum(g, Taken(g, p)) + a
        BY <1>8
      <3>3. Sum(g, Taken(g, p)) \in Nat
        BY <1>5
      <3> QED
        BY <1>1, <2>1, <3>1, <3>2, <3>3
    <2> QED
      BY <2>2, <2>3
  <1>12. NoneAfter(g2, PeriodOf(t))
    BY DEF NoneAfter
  <1> QED
    BY <1>10, <1>11, <1>12 DEF Fits

\* A limit that is raised leaves more.
LEMMA FitsMore ==
    ASSUME NEW g \in Rsvs, NEW t \in Nat, NEW r \in Nat, NEW r2 \in Nat, r <= r2
    PROVE  /\ Fits(g, t, r) => Fits(g, t, r2)
           /\ \A price \in Nat : Leaves(g, t, r, price) => Leaves(g, t, r2, price)
  <1>1. Sum(g, Held(g)) \in Nat /\ \A p : Sum(g, HeldIn(g, p)) \in Nat /\ Sum(g, Taken(g, p)) \in Nat
    BY MoneyTypes
  <1>2. Fits(g, t, r) => Fits(g, t, r2)
    BY <1>1 DEF Fits
  <1>3. \A price \in Nat : Leaves(g, t, r, price) => Leaves(g, t, r2, price)
    BY <1>1 DEF Leaves
  <1> QED
    BY <1>2, <1>3

-----------------------------------------------------------------------------
(* Greatest elements *)

LEMMA MaxOfTwo ==
    ASSUME NEW a \in Int, NEW b \in Int
    PROVE  Max({a, b}) \in {a, b} /\ Max({a, b}) >= a /\ Max({a, b}) >= b
  <1>1. \E x \in {a, b} : \A y \in {a, b} : x >= y
    OBVIOUS
  <1>2. Max({a, b}) \in {a, b} /\ \A y \in {a, b} : Max({a, b}) >= y
    BY <1>1 DEF Max
  <1> QED
    BY <1>2

LEMMA CurrentTermsExist ==
    ASSUME TypeOK, CurrentTerms # 0
    PROVE  CurrentTerms \in DOMAIN terms /\ CurrentTerms \in Nat
  <1> DEFINE S == {0} \union {v \in DOMAIN terms : ~terms[v].retired}
             T == {n \in 0 .. Len(terms) : Len(terms) - n \in S}
  <1>1. Len(terms) \in Nat /\ DOMAIN terms = 1 .. Len(terms)
    BY DEF TypeOK
  <1>2. S \subseteq {0} \union DOMAIN terms /\ 0 \in S
    OBVIOUS
  <1>3. CurrentTerms = Max(S)
    BY DEF CurrentTerms
  <1> HIDE DEF S
  <1>4. S \subseteq 0 .. Len(terms)
    BY <1>1, <1>2
  <1>5. Len(terms) \in T /\ T \subseteq Nat
    <2>1. Len(terms) - Len(terms) = 0 /\ Len(terms) \in 0 .. Len(terms)
      BY <1>1
    <2> QED
      BY <1>2, <2>1
  <1>6. PICK m \in T : \A n \in T : m <= n
    <2> HIDE DEF T
    <2> QED
      BY <1>5, LeastOf
  <1>7. Len(terms) - m \in S /\ m \in Nat
    BY <1>5, <1>6
  <1>8. ASSUME NEW y \in S PROVE Len(terms) - m >= y
    <2>1. y \in 0 .. Len(terms)
      BY <1>4
    <2>2. Len(terms) - y \in 0 .. Len(terms) /\ Len(terms) - (Len(terms) - y) = y
      BY <1>1, <2>1
    <2>3. Len(terms) - y \in T
      BY <2>2
    <2>4. m <= Len(terms) - y
      BY <1>6, <2>3
    <2> HIDE DEF T
    <2> QED
      BY <1>1, <1>7, <2>1, <2>4
  <1>9. Max(S) \in S
    BY <1>7, <1>8 DEF Max
  <1> HIDE DEF T
  <1>10. CurrentTerms \in DOMAIN terms
    BY <1>2, <1>3, <1>9
  <1> QED
    BY <1>1, <1>10

-----------------------------------------------------------------------------
(* Records *)

Named == Payments \union {""}
Charges == {"none", "reserved", "captured", "released"}
Results == {"not_dispatched", "unknown"} \union Outcomes

IsMoved(m, row, to, charge, payment, outcome) ==
    /\ m \in Row
    /\ m.phase = to /\ m.charge = charge /\ m.outcome = outcome
    /\ m.payment = IF payment = "" THEN row.payment ELSE payment
    /\ m.quote = row.quote /\ m.mode = row.mode /\ m.price = row.price
    /\ m.expires = row.expires /\ m.deadline = row.deadline /\ m.fence = row.fence

LEMMA MovedRow ==
    ASSUME NEW row \in Row, NEW to \in Phases, NEW charge \in Charges,
           NEW payment \in Named, NEW outcome \in Results
    PROVE  IsMoved(Moved(row, to, charge, payment, outcome), row, to, charge, payment, outcome)
  <1>1. PICK m : m = Moved(row, to, charge, payment, outcome)
    OBVIOUS
  <1>2. /\ m.phase = to /\ m.charge = charge /\ m.outcome = outcome
        /\ m.payment = IF payment = "" THEN row.payment ELSE payment
        /\ m.quote = row.quote /\ m.mode = row.mode /\ m.price = row.price
        /\ m.expires = row.expires /\ m.deadline = row.deadline /\ m.fence = row.fence
    BY <1>1 DEF Moved, Row
  <1>3. m \in Row
    BY <1>1 DEF Moved, Row, Charges, Results, Named
  <1> QED
    BY <1>1, <1>2, <1>3 DEF IsMoved

\* The facts of a transaction that is idle.
LEMMA IdleCall ==
    /\ Idle \in Call /\ Idle.op = "idle" /\ Idle.inv = NoInvocation /\ Idle.plan = "none"
    /\ Idle.package = NoPackage /\ Idle.at = 0 /\ Idle.want = "none" /\ Idle.outcome = "not_dispatched"
    /\ NoInvocation \notin Invocations
  BY CommerceAssumption DEF Idle, Call, Plans

\* A transaction that opens.
LEMMA OpenedCall ==
    ASSUME NEW op \in {"reserve", "finalize", "release", "dispatch"}, NEW i \in Invocations,
           NEW k, k = Opened(op, i)
    PROVE  /\ k \in Call /\ k.op = op /\ k.inv = i /\ k.plan = "none" /\ k.package = NoPackage
           /\ k.at = 0 /\ k.want = "none" /\ k.outcome = "not_dispatched"
  BY IdleCall DEF Opened, Call, Idle

-----------------------------------------------------------------------------
(* One row, one transaction *)

\* A step that changes nothing of other invocations.
OnlyRow(i) ==
    \A j \in Invocations :
        j # i => inv'[j] = inv[j] /\ rsv'[j] = rsv[j] /\ alloc'[j] = alloc[j] /\ rail'[j] = rail[j]

OnlyCall(c, k) ==
    call' \in [Callers -> Call] /\ call'[c] = k /\ \A d \in Callers \ {c} : call'[d] = call[d]

\* The rows of the others are not its row.
Apart(c, i) == \A d \in Callers \ {c} : call[d].inv # i

LEMMA OpenIsApart ==
    ASSUME IInv, NEW c \in Callers, Open(c)
    PROVE  /\ call[c] \in Call /\ call[c].inv \in Invocations /\ Apart(c, call[c].inv)
           /\ call[c].op # "dispatch" => \A d \in Callers \ {c} : Open(d) => call[d].op = "dispatch"
           /\ call[c].op # "idle" /\ call[c].at <= now /\ call[c].at \in Nat /\ PlanOf(call[c])
           /\ PlanFits(call[c], inv[call[c].inv])
           /\ Answered(call[c], inv[call[c].inv], rail[call[c].inv])
  <1>1. call[c] \in Call
    BY DEF IInv, TypeOK
  <1>2. CallFits(c)
    BY DEF IInv, Transactions
  <1>3. Exclusive
    BY DEF IInv, Transactions
  <1>4. call[c].inv \in Invocations
    BY <1>2 DEF CallFits
  <1>5. ASSUME NEW d \in Callers \ {c} PROVE call[d].inv # call[c].inv
    BY <1>3, <1>4, IdleCall DEF Exclusive, Open
  <1>6. call[c].op # "dispatch" => \A d \in Callers \ {c} : Open(d) => call[d].op = "dispatch"
    BY <1>3 DEF Exclusive
  <1>7. call[c].at \in Nat
    BY <1>1 DEF Call
  <1> QED
    BY <1>1, <1>2, <1>4, <1>5, <1>6, <1>7 DEF CallFits, Apart

LEMMA FreeIsApart ==
    ASSUME IInv, NEW c \in Callers, NEW i \in Invocations, NEW op, MayBegin(c, op, i)
    PROVE  /\ call[c] = Idle /\ Apart(c, i)
           /\ op # "dispatch" => \A d \in Callers \ {c} : Open(d) => call[d].op = "dispatch"
  <1>1. call[c] = Idle /\ RowFree(i) /\ LockFree(op, i)
    BY DEF MayBegin
  <1>2. Apart(c, i)
    BY <1>1 DEF Apart, RowFree
  <1>3. ASSUME op # "dispatch", NEW d \in Callers \ {c}, Open(d) PROVE call[d].op = "dispatch"
    <2>1. LockKey(call[d].op, call[d].inv) # LockKey(op, i)
      BY <1>1, <1>3 DEF LockFree, Open
    <2> QED
      BY <1>3, <2>1 DEF LockKey
  <1> QED
    BY <1>1, <1>2, <1>3

\* A transaction that a step does not touch, on a row it does not touch.
LEMMA OtherCall ==
    ASSUME IInv, NEW i, OnlyRow(i), now' \in Nat, now <= now',
           NEW d \in Callers, call'[d] = call[d], call[d].inv # i
    PROVE  CallFits(d)'
  <1>1. CallFits(d) /\ call[d] \in Call /\ now \in Nat
    BY DEF IInv, Transactions, TypeOK
  <1> SUFFICES ASSUME call'[d] # Idle
               PROVE  /\ call'[d].op # "idle" /\ call'[d].inv \in Invocations /\ call'[d].at <= now'
                      /\ PlanOf(call'[d])
                      /\ PlanFits(call'[d], inv'[call'[d].inv])
                      /\ Answered(call'[d], inv'[call'[d].inv], rail'[call'[d].inv])
    BY DEF CallFits, Open, PlanOf, PlanFits, Answered
  <1>2. call[d].op # "idle" /\ call[d].inv \in Invocations /\ call[d].at <= now /\ PlanOf(call[d])
    BY <1>1 DEF CallFits, Open
  <1>3. inv'[call[d].inv] = inv[call[d].inv] /\ rail'[call[d].inv] = rail[call[d].inv]
    BY <1>2 DEF OnlyRow
  <1>4. call'[d].at <= now'
    <2>1. call[d].at \in Nat
      BY <1>1 DEF Call
    <2> QED
      BY <1>1, <1>2, <2>1
  <1>5. PlanFits(call[d], inv[call[d].inv]) /\ Answered(call[d], inv[call[d].inv], rail[call[d].inv])
    BY <1>1 DEF CallFits, Open
  <1> QED
    BY <1>2, <1>3, <1>4, <1>5

\* What a transaction that is opened, moved on or ended must be.
CallMay(c, k) ==
    \/ k = Idle
    \/ /\ k.inv \in Invocations /\ k.op # "idle" /\ k.at <= now' /\ PlanOf(k)
       /\ PlanFits(k, inv'[k.inv])
       /\ Answered(k, inv'[k.inv], rail'[k.inv])
       /\ Apart(c, k.inv)
       /\ k.op = "dispatch" \/ \A d \in Callers \ {c} : Open(d) => call[d].op = "dispatch"

LEMMA OneCall ==
    ASSUME IInv, NEW i, OnlyRow(i), now' = now, NEW c \in Callers, Apart(c, i),
           NEW k, OnlyCall(c, k), CallMay(c, k)
    PROVE  Transactions'
  <1>0. now' \in Nat /\ now <= now'
    BY DEF IInv, TypeOK
  <1>1. ASSUME NEW d \in Callers PROVE CallFits(d)'
    <2>1. CASE d = c
      <3>1. call'[d] = k
        BY <2>1 DEF OnlyCall
      <3>2. k # Idle => /\ k.op # "idle" /\ k.inv \in Invocations /\ k.at <= now'
                        /\ PlanOf(k) /\ PlanFits(k, inv'[k.inv]) /\ Answered(k, inv'[k.inv], rail'[k.inv])
        BY DEF CallMay
      <3>3. call'[d] # Idle => /\ call'[d].op # "idle" /\ call'[d].inv \in Invocations /\ call'[d].at <= now'
                        /\ PlanOf(call'[d]) /\ PlanFits(call'[d], inv'[call'[d].inv])
                        /\ Answered(call'[d], inv'[call'[d].inv], rail'[call'[d].inv])
        BY <3>1, <3>2
      <3> QED
        BY <3>3 DEF CallFits, Open, PlanOf, PlanFits, Answered
    <2>2. CASE d # c
      <3>1. call'[d] = call[d] /\ call[d].inv # i
        BY <2>2 DEF OnlyCall, Apart
      <3> QED
        BY <1>0, <3>1, OtherCall
    <2> QED
      BY <2>1, <2>2
  <1>2. Exclusive'
    <2>1. Exclusive
      BY DEF IInv, Transactions
    <2> SUFFICES ASSUME NEW b \in Callers, NEW d \in Callers, b # d, call'[b] # Idle, call'[d] # Idle
                 PROVE  /\ call'[b].inv # call'[d].inv
                        /\ call'[b].op = "dispatch" \/ call'[d].op = "dispatch"
      BY DEF Exclusive, Open
    <2>2. CASE b # c /\ d # c
      <3>1. call'[b] = call[b] /\ call'[d] = call[d]
        BY <2>2 DEF OnlyCall
      <3> QED
        BY <2>1, <3>1 DEF Exclusive, Open
    <2>3. ASSUME NEW e \in Callers \ {c}, call'[e] # Idle, k # Idle
          PROVE  k.inv # call'[e].inv /\ (k.op = "dispatch" \/ call'[e].op = "dispatch")
      <3>1. call'[e] = call[e]
        BY DEF OnlyCall
      <3> QED
        BY <2>3, <3>1 DEF CallMay, Apart, Open
    <2>4. CASE b = c
      <3>1. call'[b] = k /\ d \in Callers \ {c}
        BY <2>4 DEF OnlyCall
      <3> QED
        BY <2>3, <3>1
    <2>5. CASE d = c
      <3>1. call'[d] = k /\ b \in Callers \ {c}
        BY <2>5 DEF OnlyCall
      <3> QED
        BY <2>3, <3>1
    <2> QED
      BY <2>2, <2>4, <2>5
  <1> QED
    BY <1>1, <1>2 DEF Transactions

\* No transaction moves.
LEMMA NoCall ==
    ASSUME IInv, NEW i, OnlyRow(i), now' \in Nat, now <= now', call' = call, \A d \in Callers : call[d].inv # i
    PROVE  Transactions'
  <1>1. ASSUME NEW d \in Callers PROVE CallFits(d)'
    BY OtherCall
  <1>2. Exclusive'
    BY DEF IInv, Transactions, Exclusive, Open
  <1> QED
    BY <1>1, <1>2 DEF Transactions

LEMMA OneRow ==
    ASSUME IInv, NEW i, OnlyRow(i), i \in Invocations =>
              PhaseHolds(inv'[i], rsv'[i], alloc'[i]) /\ RailKnows(inv'[i], rsv'[i], rail'[i])
    PROVE  Rows'
  <1> SUFFICES ASSUME NEW j \in Invocations
               PROVE  PhaseHolds(inv'[j], rsv'[j], alloc'[j]) /\ RailKnows(inv'[j], rsv'[j], rail'[j])
    BY DEF Rows, RowFits, PhaseHolds, RailKnows
  <1>1. CASE j = i
    BY <1>1
  <1>2. CASE j # i
    <2>1. PhaseHolds(inv[j], rsv[j], alloc[j]) /\ RailKnows(inv[j], rsv[j], rail[j])
      BY DEF IInv, Rows, RowFits
    <2> QED
      BY <1>2, <2>1 DEF OnlyRow
  <1> QED
    BY <1>1, <1>2

-----------------------------------------------------------------------------
(* Units and money *)

UnitsOf(al, p, state) == {i \in Invocations : al[i] = [package |-> p, state |-> state]}
Conserves(al, e, p) ==
    /\ e.reserved = Cardinality(UnitsOf(al, p, "held"))
    /\ e.remaining >= 0
    /\ e.total = e.remaining + e.reserved + Cardinality(UnitsOf(al, p, "captured"))

LEMMA UnitsOfLedger ==
    /\ UnitsAreConserved <=> \A p \in Packages : Conserves(alloc, ent[p], p)
    /\ UnitsAreConserved' <=> \A p \in Packages : Conserves(alloc', ent'[p], p)
  BY DEF UnitsAreConserved, Conserves, UnitsOf

HasUnit(k, e) == k.package # NoPackage => k.package \in Packages /\ e[k.package].remaining > 0

LEMMA StockFrom ==
    ASSUME \A p \in Packages : Conserves(alloc', ent'[p], p),
           \A i \in Invocations : alloc'[i].state # "none" => alloc'[i].package \in Packages,
           \A p \in Packages : ent'[p].status = "none" => ent'[p] = NoEntitlement,
           \A c \in Callers : HasUnit(call'[c], ent')
    PROVE  Stock'
  BY UnitsOfLedger DEF Stock, HasUnit, NoEntitlement

LEMMA StockNow ==
    ASSUME IInv
    PROVE  /\ \A p \in Packages : Conserves(alloc, ent[p], p)
           /\ \A i \in Invocations : alloc[i].state # "none" => alloc[i].package \in Packages
           /\ \A p \in Packages : ent[p].status = "none" => ent[p] = NoEntitlement
           /\ \A c \in Callers : HasUnit(call[c], ent)
  BY UnitsOfLedger DEF IInv, Stock, HasUnit

LEMMA StockKept ==
    ASSUME IInv, alloc' = alloc, ent' = ent,
           \A c \in Callers : call'[c].package = call[c].package \/ HasUnit(call'[c], ent)
    PROVE  Stock'
  <1>1. \A c \in Callers : HasUnit(call'[c], ent')
    BY StockNow DEF HasUnit
  <1> QED
    BY <1>1, StockNow, StockFrom

Planned(k) == k.op = "reserve" /\ k.plan \in Planning
LeavesFor(g, k, rows, r) == Planned(k) => Leaves(g, k.at, r, rows[k.inv].price)

LEMMA MoneyFrom ==
    ASSUME TypeOK', Fits(rsv', now', raised'), NoneAfter(rsv', PeriodOf(now')),
           \A b \in budget' : b.month <= raised',
           \A c \in Callers : LeavesFor(rsv', call'[c], inv', raised')
    PROVE  Money'
  <1>1. BudgetHolds'
    BY SumsOfNextLedger
  <1>2. \A i \in Invocations : rsv'[i].status # "none" => rsv'[i].period <= PeriodOf(now')
    BY DEF NoneAfter
  <1>3. ASSUME NEW c \in Callers, call'[c].op = "reserve", call'[c].plan \in Planning
        PROVE  Covers(call[c])'
    BY <1>3, SumsOfNextLedger DEF LeavesFor, Planned
  <1> QED
    BY <1>1, <1>2, <1>3 DEF Money, Planning, PeriodOf

LEMMA MoneyNow ==
    ASSUME IInv
    PROVE  /\ rsv \in Rsvs /\ Fits(rsv, now, raised) /\ NoneAfter(rsv, PeriodOf(now))
           /\ \A b \in budget : b.month <= raised
           /\ \A c \in Callers : LeavesFor(rsv, call[c], inv, raised)
  <1>1. rsv \in Rsvs /\ Fits(rsv, now, raised)
    BY SumsOfLedger DEF IInv, Money
  <1>2. NoneAfter(rsv, PeriodOf(now))
    BY DEF IInv, Money, NoneAfter
  <1>3. ASSUME NEW c \in Callers PROVE LeavesFor(rsv, call[c], inv, raised)
    BY SumsOfLedger DEF IInv, Money, LeavesFor, Planned
  <1> QED
    BY <1>1, <1>2, <1>3 DEF IInv, Money

\* A step that leaves the status, amount and period of every hold alone.
LEMMA MoneyKept ==
    ASSUME IInv, TypeOK', now' = now, raised' = raised, budget' = budget,
           \A j \in Invocations : Alike(rsv[j], rsv'[j]),
           \A c \in Callers : LeavesFor(rsv, call'[c], inv', raised)
    PROVE  Money'
  <1>1. rsv \in Rsvs /\ rsv' \in Rsvs
    BY SumsOfNextLedger, MoneyNow
  <1>2. Fits(rsv', now', raised') /\ NoneAfter(rsv', PeriodOf(now'))
    BY <1>1, FitsAlike, MoneyNow
  <1>3. \A c \in Callers : LeavesFor(rsv', call'[c], inv', raised')
    BY <1>1, FitsAlike DEF LeavesFor
  <1> QED
    BY <1>2, <1>3, MoneyNow, MoneyFrom

-----------------------------------------------------------------------------
(* Steps that leave the ledger and the transactions alone *)

LEMMA LedgerKept ==
    ASSUME IInv, TypeOK', UNCHANGED <<now, ledger, budget, raised, rail, call>>
    PROVE  IInv'
  <1>1. /\ now' = now /\ inv' = inv /\ rsv' = rsv /\ alloc' = alloc /\ ent' = ent
        /\ budget' = budget /\ raised' = raised /\ rail' = rail /\ call' = call
    BY DEF ledger
  <1>2. OnlyRow(NoInvocation) /\ now' \in Nat /\ now <= now'
    BY <1>1 DEF OnlyRow, IInv, TypeOK
  <1>3. Transactions'
    <2>1. Exclusive'
      BY <1>1 DEF IInv, Transactions, Exclusive, Open
    <2>2. ASSUME NEW d \in Callers PROVE CallFits(d)'
      BY <1>1 DEF IInv, Transactions, CallFits, Open, PlanOf, PlanFits, Answered
    <2> QED
      BY <2>1, <2>2 DEF Transactions
  <1>4. Rows'
    BY <1>2, IdleCall, OneRow
  <1>5. Stock'
    BY <1>1, StockKept
  <1>6. Money'
    <2>1. \A j \in Invocations : Alike(rsv[j], rsv'[j])
      BY <1>1 DEF Alike
    <2> QED
      BY <1>1, <2>1, MoneyNow, MoneyKept
  <1> QED
    BY <1>3, <1>4, <1>5, <1>6 DEF IInv

LEMMA StepPublishTerms ==
    ASSUME IInv, PublishTerms
    PROVE  IInv'
  <1>1. UNCHANGED <<now, quote, budget, raised, ledger, rail, call, sweep>>
    BY DEF PublishTerms
  <1>2. PICK o \in Offers : terms' = Append(terms, [offer |-> o, retired |-> FALSE])
    BY DEF PublishTerms
  <1>3. TypeOK'
    BY <1>1, <1>2 DEF IInv, TypeOK, ledger
  <1> QED
    BY <1>1, <1>3, LedgerKept

LEMMA StepRetireTerms ==
    ASSUME IInv, RetireTerms
    PROVE  IInv'
  <1>1. UNCHANGED <<now, quote, budget, raised, ledger, rail, call, sweep>>
    BY DEF RetireTerms
  <1>2. PICK v \in DOMAIN terms : terms' = [terms EXCEPT ![v].retired = TRUE]
    BY DEF RetireTerms
  <1>3. terms' \in Seq([offer : Offers, retired : BOOLEAN])
    <2> DEFINE Version == [offer : Offers, retired : BOOLEAN]
    <2>1. terms \in Seq(Version) /\ v \in 1 .. Len(terms)
      BY DEF IInv, TypeOK
    <2>2. PICK r : r = [terms[v] EXCEPT !.retired = TRUE]
      OBVIOUS
    <2>3. r \in Version
      <3> HIDE DEF Version
      <3>1. terms[v] \in Version
        BY <2>1
      <3> QED
        BY <2>2, <3>1 DEF Version
    <2>4. terms' = [terms EXCEPT ![v] = r]
      BY <1>2, <2>2
    <2> HIDE DEF Version
    <2>5. terms' \in Seq(Version)
      BY <2>1, <2>3, <2>4
    <2> QED
      BY <2>5 DEF Version
  <1>4. TypeOK'
    BY <1>1, <1>3 DEF IInv, TypeOK, ledger
  <1> QED
    BY <1>1, <1>4, LedgerKept

LEMMA StepMintQuote ==
    ASSUME IInv, MintQuote
    PROVE  IInv'
  <1>1. UNCHANGED <<now, terms, budget, raised, ledger, rail, call, sweep>>
    BY DEF MintQuote
  <1>2. PICK q \in Quotes :
           quote' = [quote EXCEPT ![q] =
                        [version |-> CurrentTerms, mode |-> terms[CurrentTerms].offer.mode,
                         price |-> terms[CurrentTerms].offer.price, expires |-> now + QuoteTTL]]
    BY DEF MintQuote
  <1>3. CurrentTerms \in DOMAIN terms /\ CurrentTerms \in Nat
    BY CurrentTermsExist DEF MintQuote, IInv
  <1>4. terms[CurrentTerms].offer \in Offers /\ now + QuoteTTL \in Nat
    <2>1. terms \in Seq([offer : Offers, retired : BOOLEAN]) /\ now \in Nat
      BY DEF IInv, TypeOK
    <2>2. terms[CurrentTerms] \in [offer : Offers, retired : BOOLEAN]
      <3> DEFINE Version == [offer : Offers, retired : BOOLEAN]
      <3>1. terms \in Seq(Version) /\ CurrentTerms \in DOMAIN terms
        BY <1>3, <2>1
      <3> HIDE DEF Version
      <3>2. terms[CurrentTerms] \in Version
        BY <3>1
      <3> QED
        BY <3>2 DEF Version
    <2>3. now + QuoteTTL \in Nat
      <3>1. QuoteTTL \in Nat
        BY CommerceAssumption
      <3> QED
        BY <2>1, <3>1
    <2> QED
      BY <2>2, <2>3
  <1>5. terms[CurrentTerms].offer.mode \in Modes /\ terms[CurrentTerms].offer.price \in Nat
    BY <1>4, CommerceAssumption
  <1>6. quote' \in [Quotes -> Quote]
    BY <1>2, <1>3, <1>4, <1>5 DEF IInv, TypeOK, Quote, Times
  <1>7. TypeOK'
    BY <1>1, <1>6 DEF IInv, TypeOK, ledger
  <1> QED
    BY <1>1, <1>7, LedgerKept

Sweeps == [step : {"idle", "accepted", "reserved"}, at : Nat, todo : SUBSET Invocations]

LEMMA SweepOnly ==
    ASSUME IInv, UNCHANGED call, Unchanging, sweep' \in Sweeps
    PROVE  IInv'
  <1>1. UNCHANGED <<now, ledger, budget, raised, rail, call, terms, quote>>
    BY DEF Unchanging, prices
  <1>2. TypeOK'
    BY <1>1 DEF IInv, TypeOK, ledger, Sweeps
  <1> QED
    BY <1>1, <1>2, LedgerKept

LEMMA StepSweep ==
    ASSUME IInv, SweepStart \/ SweepListReserved \/ SweepEnd
    PROVE  IInv'
  <1>1. CASE SweepStart
    <2>1. sweep' \in Sweeps
      BY <1>1 DEF SweepStart, Sweeps, IInv, TypeOK
    <2> QED
      BY <1>1, <2>1, SweepOnly DEF SweepStart
  <1>2. CASE SweepListReserved
    <2>1. sweep' \in Sweeps
      BY <1>2 DEF SweepListReserved, Sweeps
    <2> QED
      BY <1>2, <2>1, SweepOnly DEF SweepListReserved
  <1>3. CASE SweepEnd
    <2>1. sweep' \in Sweeps
      BY <1>3 DEF SweepEnd, Sweeps, Resting
    <2> QED
      BY <1>3, <2>1, SweepOnly DEF SweepEnd
  <1> QED
    BY <1>1, <1>2, <1>3

-----------------------------------------------------------------------------
(* Time, limits and packages *)

LEMMA StepTick ==
    ASSUME IInv, Tick
    PROVE  IInv'
  <1>1. /\ now' = now + 1 /\ inv' = inv /\ rsv' = rsv /\ alloc' = alloc /\ ent' = ent
        /\ budget' = budget /\ raised' = raised /\ rail' = rail /\ call' = call
        /\ terms' = terms /\ quote' = quote /\ sweep' = sweep
    BY DEF Tick, ledger, prices
  <1>2. OnlyRow(NoInvocation) /\ now \in Nat /\ raised \in Nat /\ now' \in Nat /\ now <= now'
    BY <1>1 DEF OnlyRow, IInv, TypeOK
  <1>3. TypeOK'
    BY <1>1 DEF IInv, TypeOK
  <1>4. Transactions'
    <2>1. Exclusive'
      BY <1>1 DEF IInv, Transactions, Exclusive, Open
    <2>2. ASSUME NEW d \in Callers PROVE CallFits(d)'
      <3>1. CallFits(d) /\ call[d].at \in Nat
        BY DEF IInv, Transactions, TypeOK, Call
      <3>2. call[d].at <= now => call[d].at <= now'
        BY <1>1, <1>2, <3>1
      <3> QED
        BY <1>1, <3>1, <3>2 DEF CallFits, Open, PlanOf, PlanFits, Answered
    <2> QED
      BY <2>1, <2>2 DEF Transactions
  <1>5. Rows'
    BY <1>2, IdleCall, OneRow
  <1>6. Stock'
    BY <1>1, StockKept
  <1>7. Money'
    <2>1. Fits(rsv', now', raised') /\ NoneAfter(rsv', PeriodOf(now'))
      BY <1>1, <1>2, MoneyNow, FitsLater
    <2>2. \A c \in Callers : LeavesFor(rsv', call'[c], inv', raised')
      BY <1>1, MoneyNow
    <2> QED
      BY <1>1, <1>3, <2>1, <2>2, MoneyNow, MoneyFrom
  <1> QED
    BY <1>3, <1>4, <1>5, <1>6, <1>7 DEF IInv

LEMMA StepSetBudget ==
    ASSUME IInv, SetBudget
    PROVE  IInv'
  <1>1. /\ now' = now /\ inv' = inv /\ rsv' = rsv /\ alloc' = alloc /\ ent' = ent
        /\ rail' = rail /\ call' = call /\ terms' = terms /\ quote' = quote /\ sweep' = sweep
    BY DEF SetBudget, ledger
  <1>2. PICK b \in Limits : budget' = {b} /\ raised' = Max({raised, b.month})
    BY DEF SetBudget
  <1>3. OnlyRow(NoInvocation) /\ now \in Nat /\ raised \in Nat /\ now' \in Nat /\ now <= now'
    BY <1>1 DEF OnlyRow, IInv, TypeOK
  <1>4. b.month \in Nat
    BY CommerceAssumption
  <1>5. raised' \in Nat /\ raised <= raised' /\ b.month <= raised'
    <2>1. PICK m : m = b.month
      OBVIOUS
    <2>2. raised \in Int /\ m \in Int /\ m \in Nat
      BY <1>3, <1>4, <2>1
    <2>3. raised' = Max({raised, m})
      BY <1>2, <2>1
    <2>4. raised' \in {raised, m} /\ raised' >= raised /\ raised' >= m
      BY <2>2, <2>3, MaxOfTwo
    <2> QED
      BY <1>3, <2>1, <2>2, <2>4
  <1>6. TypeOK'
    BY <1>1, <1>2, <1>5 DEF IInv, TypeOK
  <1>7. Transactions'
    <2>1. Exclusive'
      BY <1>1 DEF IInv, Transactions, Exclusive, Open
    <2>2. ASSUME NEW d \in Callers PROVE CallFits(d)'
      BY <1>1 DEF IInv, Transactions, CallFits, Open, PlanOf, PlanFits, Answered
    <2> QED
      BY <2>1, <2>2 DEF Transactions
  <1>8. Rows'
    BY <1>3, IdleCall, OneRow
  <1>9. Stock'
    BY <1>1, StockKept
  <1>10. Money'
    <2>1. Fits(rsv', now', raised') /\ NoneAfter(rsv', PeriodOf(now'))
      BY <1>1, <1>3, <1>5, MoneyNow, FitsMore
    <2>2. ASSUME NEW c \in Callers PROVE LeavesFor(rsv', call'[c], inv', raised')
      <3> SUFFICES ASSUME Planned(call[c])
                   PROVE  Leaves(rsv, call[c].at, raised', inv[call[c].inv].price)
        BY <1>1 DEF LeavesFor
      <3>1. Leaves(rsv, call[c].at, raised, inv[call[c].inv].price)
        BY MoneyNow DEF LeavesFor
      <3>2. CallFits(c) /\ call[c] # Idle
        BY IdleCall DEF Planned, IInv, Transactions
      <3>3. call[c].at \in Nat /\ inv[call[c].inv].price \in Nat
        BY <3>2 DEF CallFits, Open, IInv, TypeOK, Call, Row
      <3> QED
        BY <1>3, <1>5, <3>1, <3>3, MoneyNow, FitsMore
    <2>3. \A x \in budget' : x.month <= raised'
      BY <1>2, <1>5
    <2> QED
      BY <1>6, <2>1, <2>2, <2>3, MoneyFrom
  <1> QED
    BY <1>6, <1>7, <1>8, <1>9, <1>10 DEF IInv

\* A step that changes packages, and nothing else.
LEMMA PackagesOnly ==
    ASSUME IInv, UNCHANGED <<now, prices, inv, rsv, alloc, rail, call, sweep>>,
           ent' \in [Packages -> Package],
           \A p \in Packages : Conserves(alloc, ent'[p], p),
           \A p \in Packages : ent'[p].status = "none" => ent'[p] = NoEntitlement,
           \A p \in Packages : ent[p].remaining > 0 => ent'[p].remaining > 0
    PROVE  IInv'
  <1>1. /\ now' = now /\ inv' = inv /\ rsv' = rsv /\ alloc' = alloc /\ budget' = budget /\ raised' = raised
        /\ rail' = rail /\ call' = call /\ terms' = terms /\ quote' = quote /\ sweep' = sweep
    BY DEF prices
  <1>2. OnlyRow(NoInvocation) /\ now' \in Nat /\ now <= now'
    BY <1>1 DEF OnlyRow, IInv, TypeOK
  <1>3. TypeOK'
    BY <1>1 DEF IInv, TypeOK
  <1>4. Transactions'
    <2>1. Exclusive'
      BY <1>1 DEF IInv, Transactions, Exclusive, Open
    <2>2. ASSUME NEW d \in Callers PROVE CallFits(d)'
      BY <1>1 DEF IInv, Transactions, CallFits, Open, PlanOf, PlanFits, Answered
    <2> QED
      BY <2>1, <2>2 DEF Transactions
  <1>5. Rows'
    BY <1>2, IdleCall, OneRow
  <1>6. Stock'
    <2>1. \A c \in Callers : HasUnit(call'[c], ent')
      BY <1>1, StockNow DEF HasUnit
    <2> QED
      BY <1>1, <2>1, StockNow, StockFrom
  <1>7. Money'
    <2>1. \A j \in Invocations : Alike(rsv[j], rsv'[j])
      BY <1>1 DEF Alike
    <2> QED
      BY <1>1, <1>3, <2>1, MoneyNow, MoneyKept
  <1> QED
    BY <1>3, <1>4, <1>5, <1>6, <1>7 DEF IInv

LEMMA StepGrantEntitlement ==
    ASSUME IInv, GrantEntitlement
    PROVE  IInv'
  <1>1. UNCHANGED <<now, prices, inv, rsv, alloc, rail, call, sweep>>
    BY DEF GrantEntitlement
  <1>2. PICK p \in Packages, n \in Units, t \in now + 1 .. MaxTime :
           /\ ent[p].status = "none"
           /\ ent' = [ent EXCEPT ![p] = [status |-> "active", total |-> n, remaining |-> n,
                                        reserved |-> 0, expires |-> t]]
    BY DEF GrantEntitlement
  <1>3. n \in Nat \ {0} /\ t \in Nat
    <2>1. n \in Nat \ {0}
      BY CommerceAssumption
    <2>2. now \in Nat /\ MaxTime \in Nat
      BY CommerceAssumption DEF IInv, TypeOK
    <2>3. t \in Nat
      BY <2>2
    <2> QED
      BY <2>1, <2>3
  <1>4. ent \in [Packages -> Package]
    BY DEF IInv, TypeOK
  <1>5. PICK e : e = [status |-> "active", total |-> n, remaining |-> n, reserved |-> 0, expires |-> t]
    OBVIOUS
  <1>6. /\ e \in Package /\ e.status = "active" /\ e.total = n /\ e.remaining = n /\ e.reserved = 0
        /\ ent' = [ent EXCEPT ![p] = e]
    BY <1>2, <1>3, <1>5 DEF Package, Times
  <1>7. ent[p] = NoEntitlement /\ Conserves(alloc, ent[p], p)
    BY <1>2, StockNow
  <1>8. Cardinality(UnitsOf(alloc, p, "held")) = 0 /\ Cardinality(UnitsOf(alloc, p, "captured")) = 0
    <2>1. UnitsOf(alloc, p, "captured") \in SUBSET Invocations
      BY DEF UnitsOf
    <2>2. Cardinality(UnitsOf(alloc, p, "captured")) \in Nat
      BY <2>1, Subsets
    <2> QED
      BY <1>7, <2>2 DEF Conserves, NoEntitlement
  <1>9. Conserves(alloc, e, p)
    BY <1>3, <1>6, <1>8 DEF Conserves
  <1>10. \A x \in Packages : Conserves(alloc, ent'[x], x)
    BY <1>4, <1>6, <1>9, StockNow
  <1>11. \A x \in Packages : ent'[x].status = "none" => ent'[x] = NoEntitlement
    BY <1>4, <1>6, StockNow
  <1>12. \A x \in Packages : ent[x].remaining > 0 => ent'[x].remaining > 0
    BY <1>3, <1>4, <1>6
  <1>13. ent' \in [Packages -> Package]
    BY <1>4, <1>6
  <1> QED
    BY <1>1, <1>10, <1>11, <1>12, <1>13, PackagesOnly

LEMMA StepRetireEntitlement ==
    ASSUME IInv, RetireEntitlement
    PROVE  IInv'
  <1>1. UNCHANGED <<now, prices, inv, rsv, alloc, rail, call, sweep>>
    BY DEF RetireEntitlement
  <1>2. PICK p \in Packages : ent' = [ent EXCEPT ![p].status = "retired"]
    BY DEF RetireEntitlement
  <1>3. ent \in [Packages -> Package]
    BY DEF IInv, TypeOK
  <1>4. PICK e : e = [ent[p] EXCEPT !.status = "retired"]
    OBVIOUS
  <1>5. /\ e \in Package /\ e.status = "retired" /\ e.total = ent[p].total
        /\ e.remaining = ent[p].remaining /\ e.reserved = ent[p].reserved
        /\ ent' = [ent EXCEPT ![p] = e]
    BY <1>2, <1>3, <1>4 DEF Package
  <1>6. \A x \in Packages : Conserves(alloc, ent'[x], x)
    BY <1>3, <1>5, StockNow DEF Conserves
  <1>7. \A x \in Packages : ent'[x].status = "none" => ent'[x] = NoEntitlement
    BY <1>3, <1>5, StockNow
  <1>8. \A x \in Packages : ent[x].remaining > 0 => ent'[x].remaining > 0
    BY <1>3, <1>5
  <1>9. ent' \in [Packages -> Package]
    BY <1>3, <1>5
  <1> QED
    BY <1>1, <1>6, <1>7, <1>8, <1>9, PackagesOnly

-----------------------------------------------------------------------------
(* Steps on a row that no transaction has *)

\* What a step may not do: FinishedIsFinal, of one step.
FinalStep ==
    \A i \in Invocations :
        /\ inv[i].phase \in Terminal => inv'[i] = inv[i] /\ rsv'[i] = rsv[i] /\ alloc'[i] = alloc[i]
        /\ inv[i].fence # None => inv'[i].fence = inv[i].fence

LEMMA FreeRowStep ==
    ASSUME IInv, NEW i \in Invocations, \A d \in Callers : call[d].inv # i,
           NEW m \in Row, inv' = [inv EXCEPT ![i] = m],
           PhaseHolds(m, rsv[i], alloc[i]), RailKnows(m, rsv[i], rail[i]),
           UNCHANGED <<now, prices, rsv, alloc, ent, rail, call>>, sweep' \in Sweeps,
           m = inv[i] \/ inv[i].phase \notin Terminal, m.fence = inv[i].fence
    PROVE  IInv' /\ FinalStep
  <1>1. /\ now' = now /\ rsv' = rsv /\ alloc' = alloc /\ ent' = ent /\ budget' = budget /\ raised' = raised
        /\ rail' = rail /\ call' = call /\ terms' = terms /\ quote' = quote
    BY DEF prices
  <1>2. inv \in [Invocations -> Row] /\ now \in Nat
    BY DEF IInv, TypeOK
  <1>3. inv' \in [Invocations -> Row] /\ inv'[i] = m /\ \A j \in Invocations : j # i => inv'[j] = inv[j]
    BY <1>2
  <1>4. OnlyRow(i) /\ now' \in Nat /\ now <= now'
    BY <1>1, <1>2, <1>3 DEF OnlyRow
  <1>5. TypeOK'
    BY <1>1, <1>3 DEF IInv, TypeOK, Sweeps
  <1>6. Transactions'
    BY <1>1, <1>4, NoCall
  <1>7. Rows'
    BY <1>1, <1>3, <1>4, OneRow
  <1>8. Stock'
    BY <1>1, StockKept
  <1>9. Money'
    <2>1. \A j \in Invocations : Alike(rsv[j], rsv'[j])
      BY <1>1 DEF Alike
    <2>2. ASSUME NEW c \in Callers PROVE LeavesFor(rsv, call'[c], inv', raised)
      <3> SUFFICES ASSUME Planned(call[c])
                   PROVE  Leaves(rsv, call[c].at, raised, inv'[call[c].inv].price)
        BY <1>1 DEF LeavesFor
      <3>1. Open(c)
        BY IdleCall DEF Planned, Open
      <3>2. inv'[call[c].inv] = inv[call[c].inv]
        BY <1>3, <3>1, OpenIsApart
      <3> QED
        BY <3>2, MoneyNow DEF LeavesFor
    <2> QED
      BY <1>1, <1>5, <2>1, <2>2, MoneyKept
  <1>10. FinalStep
    BY <1>1, <1>3 DEF FinalStep
  <1> QED
    BY <1>5, <1>6, <1>7, <1>8, <1>9, <1>10 DEF IInv

LEMMA RowNow ==
    ASSUME IInv, NEW i \in Invocations
    PROVE  /\ PhaseHolds(inv[i], rsv[i], alloc[i]) /\ RailKnows(inv[i], rsv[i], rail[i])
           /\ inv[i] \in Row /\ rsv[i] \in Reservation /\ alloc[i] \in Allocation /\ rail[i] \in Rail
           /\ inv \in [Invocations -> Row] /\ rsv \in [Invocations -> Reservation]
           /\ alloc \in [Invocations -> Allocation] /\ rail \in [Invocations -> Rail]
           /\ sweep \in Sweeps /\ now \in Nat /\ call \in [Callers -> Call] /\ ent \in [Packages -> Package]
  BY DEF IInv, Rows, RowFits, TypeOK, Sweeps

LEMMA StepAcceptInvocation ==
    ASSUME IInv, AcceptInvocation
    PROVE  IInv' /\ FinalStep
  <1>1. UNCHANGED <<now, prices, rsv, alloc, ent, rail, call>> /\ sweep' = sweep
    BY DEF AcceptInvocation
  <1>2. PICK i \in Invocations, q \in Quotes :
          /\ inv[i] = NoRow
          /\ inv' = [inv EXCEPT ![i] = [NoRow EXCEPT !.phase = "accepted", !.quote = {q},
                        !.mode = quote[q].mode, !.price = quote[q].price,
                        !.expires = quote[q].expires,
                        !.payment = IF quote[q].mode = "free" THEN "not_required" ELSE "none"]]
    BY DEF AcceptInvocation
  <1>3. PICK m : m = [NoRow EXCEPT !.phase = "accepted", !.quote = {q},
                        !.mode = quote[q].mode, !.price = quote[q].price,
                        !.expires = quote[q].expires,
                        !.payment = IF quote[q].mode = "free" THEN "not_required" ELSE "none"]
    OBVIOUS
  <1>4. quote[q] \in Quote
    BY DEF IInv, TypeOK
  <1>5. m \in Row /\ m.phase = "accepted" /\ m.fence = None
    BY <1>3, <1>4 DEF Row, NoRow, Quote, Phases, Payments, Times
  <1>6. inv[i].phase = "none"
    BY <1>2 DEF NoRow
  <1>7. rsv[i] = NoReservation /\ alloc[i] = NoAllocation
    BY <1>6, RowNow DEF PhaseHolds, Unheld
  <1>8. PhaseHolds(m, rsv[i], alloc[i])
    BY <1>5, <1>7 DEF PhaseHolds, Holding, Unheld
  <1>9. RailKnows(m, rsv[i], rail[i])
    BY <1>5, <1>7 DEF RailKnows, NoReservation
  <1>10. ASSUME NEW d \in Callers PROVE call[d].inv # i
    <2>1. CASE Open(d)
      <3>1. PlanOf(call[d]) /\ PlanFits(call[d], inv[call[d].inv])
        BY <2>1, OpenIsApart
      <3> QED
        BY <1>6, <3>1 DEF PlanOf, PlanFits
    <2>2. CASE ~Open(d)
      BY <2>2, IdleCall DEF Open
    <2> QED
      BY <2>1, <2>2
  <1>11. inv' = [inv EXCEPT ![i] = m] /\ sweep' \in Sweeps
    BY <1>1, <1>2, <1>3, RowNow
  <1>12. inv[i].phase \notin Terminal /\ m.fence = inv[i].fence
    BY <1>2, <1>5, <1>6 DEF Terminal, NoRow
  <1> QED
    BY <1>1, <1>5, <1>8, <1>9, <1>10, <1>11, <1>12, FreeRowStep

LEMMA StepTransition ==
    ASSUME IInv, Transition
    PROVE  IInv' /\ FinalStep
  <1>1. UNCHANGED <<now, prices, rsv, alloc, ent, rail, call>> /\ sweep' = sweep
    BY DEF Transition
  <1>2. PICK i \in Invocations, edge \in OpenEdges, payment \in NamedPayments :
          /\ RowFree(i)
          /\ inv[i].phase = edge[1]
          /\ Applies(i, Moved(inv[i], edge[2], inv[i].charge, payment,
                              IF edge[2] = "outcome_unknown" THEN "unknown" ELSE inv[i].outcome))
    BY DEF Transition
  <1>3. PICK o : o = IF edge[2] = "outcome_unknown" THEN "unknown" ELSE inv[i].outcome
    OBVIOUS
  <1>4. PICK m : m = Moved(inv[i], edge[2], inv[i].charge, payment, o)
    OBVIOUS
  <1>5. inv' = [inv EXCEPT ![i] = m]
    BY <1>2, <1>3, <1>4 DEF Applies
  <1>6. payment \in Named
    BY CommerceAssumption DEF Named
  <1>7. /\ edge[1] \in {"accepted", "dispatching", "dispatched"}
        /\ edge[2] \in {"refused", "dispatched", "outcome_unknown"}
        /\ edge[2] = "refused" <=> edge[1] = "accepted"
    BY DEF OpenEdges
  <1>8. edge[2] \in Phases
    BY <1>7 DEF Phases, Holding, Terminal
  <1>9. inv[i].charge \in Charges /\ o \in Results
    BY <1>3, RowNow DEF Row, Charges, Results
  <1>10. m \in Row /\ m.phase = edge[2] /\ m.mode = inv[i].mode /\ m.fence = inv[i].fence
    <2>1. PICK to, ch, row : to = edge[2] /\ ch = inv[i].charge /\ row = inv[i]
      OBVIOUS
    <2>2. to \in Phases /\ row \in Row /\ ch \in Charges /\ m = Moved(row, to, ch, payment, o)
      BY <1>4, <1>8, <1>9, <2>1, RowNow
    <2>3. IsMoved(m, row, to, ch, payment, o)
      BY <1>6, <1>9, <2>2, MovedRow
    <2> QED
      BY <2>1, <2>3 DEF IsMoved
  <1>11. PhaseHolds(m, rsv[i], alloc[i])
    BY <1>2, <1>7, <1>10, RowNow DEF PhaseHolds, Holding, Unheld, NoAllocation
  <1>12. RailKnows(m, rsv[i], rail[i])
    BY <1>7, <1>10, RowNow DEF RailKnows
  <1>13. \A d \in Callers : call[d].inv # i
    BY <1>2 DEF RowFree
  <1>14. sweep' \in Sweeps
    BY <1>1, RowNow
  <1>15. inv[i].phase \notin Terminal
    BY <1>2, <1>7 DEF Terminal
  <1> QED
    BY <1>1, <1>5, <1>10, <1>11, <1>12, <1>13, <1>14, <1>15, FreeRowStep

LEMMA StepSweepRefuse ==
    ASSUME IInv, NEW i \in Invocations, SweepRefuse(i)
    PROVE  IInv' /\ FinalStep
  <1>1. UNCHANGED <<now, prices, rsv, alloc, ent, rail, call>> /\ sweep' = [sweep EXCEPT !.todo = @ \ {i}]
    BY DEF SweepRefuse
  <1>2. sweep' \in Sweeps
    BY <1>1, RowNow DEF Sweeps
  <1>3. PICK m : m = IF inv[i].phase = "accepted" THEN [inv[i] EXCEPT !.phase = "refused"] ELSE inv[i]
    OBVIOUS
  <1>4. inv' = [inv EXCEPT ![i] = m]
    BY <1>3, RowNow DEF SweepRefuse
  <1>5. /\ m \in Row /\ m.mode = inv[i].mode /\ m.fence = inv[i].fence
        /\ inv[i].phase = "accepted" => m.phase = "refused"
        /\ inv[i].phase # "accepted" => m = inv[i]
    BY <1>3, RowNow DEF Row, Phases, Terminal
  <1>6. PhaseHolds(m, rsv[i], alloc[i])
    BY <1>5, RowNow DEF PhaseHolds, Holding, Unheld, NoAllocation
  <1>7. RailKnows(m, rsv[i], rail[i])
    BY <1>5, RowNow DEF RailKnows
  <1>8. \A d \in Callers : call[d].inv # i
    BY DEF SweepRefuse, RowFree
  <1>9. m = inv[i] \/ inv[i].phase \notin Terminal
    BY <1>5 DEF Terminal
  <1> QED
    BY <1>1, <1>2, <1>4, <1>5, <1>6, <1>7, <1>8, <1>9, FreeRowStep

-----------------------------------------------------------------------------
(* Steps of a transaction before it commits *)

LEMMA CallStep ==
    ASSUME IInv, NEW c \in Callers, NEW i \in Invocations, Apart(c, i),
           NEW k \in Call, OnlyCall(c, k), CallMay(c, k), HasUnit(k, ent), LeavesFor(rsv, k, inv, raised),
           rail' \in [Invocations -> Rail], \A j \in Invocations : j # i => rail'[j] = rail[j],
           RailKnows(inv[i], rsv[i], rail'[i]),
           UNCHANGED <<now, prices, ledger>>, sweep' \in Sweeps
    PROVE  IInv'
  <1>1. /\ now' = now /\ inv' = inv /\ rsv' = rsv /\ alloc' = alloc /\ ent' = ent /\ budget' = budget
        /\ raised' = raised /\ terms' = terms /\ quote' = quote
    BY DEF prices, ledger
  <1>2. OnlyRow(i)
    BY <1>1 DEF OnlyRow
  <1>3. call' \in [Callers -> Call] /\ call'[c] = k /\ \A d \in Callers \ {c} : call'[d] = call[d]
    BY DEF OnlyCall
  <1>4. TypeOK'
    BY <1>1, <1>3 DEF IInv, TypeOK, Sweeps
  <1>5. Transactions'
    BY <1>1, <1>2, OneCall
  <1>6. Rows'
    BY <1>1, <1>2, RowNow, OneRow
  <1>7. Stock'
    <2>1. \A d \in Callers : call'[d].package = call[d].package \/ HasUnit(call'[d], ent)
      BY <1>3
    <2> QED
      BY <1>1, <2>1, StockKept
  <1>8. Money'
    <2>1. \A j \in Invocations : Alike(rsv[j], rsv'[j])
      BY <1>1 DEF Alike
    <2>2. \A d \in Callers : LeavesFor(rsv, call'[d], inv', raised)
      BY <1>1, <1>3, MoneyNow
    <2> QED
      BY <1>1, <1>4, <2>1, <2>2, MoneyKept
  <1> QED
    BY <1>4, <1>5, <1>6, <1>7, <1>8 DEF IInv

\* A transaction that opens on a row it may have.
LEMMA BeginStep ==
    ASSUME IInv, NEW c \in Callers, NEW i \in Invocations, NEW op, MayBegin(c, op, i),
           NEW k \in Call, call' = [call EXCEPT ![c] = k],
           k.op = op, op # "idle", k.inv = i, k.at <= now, PlanOf(k), PlanFits(k, inv[i]),
           Answered(k, inv[i], rail[i]), HasUnit(k, ent), LeavesFor(rsv, k, inv, raised),
           Unchanging, sweep' \in Sweeps
    PROVE  IInv'
  <1>1. UNCHANGED <<now, prices, ledger>> /\ rail' = rail /\ now' = now /\ inv' = inv
    BY DEF Unchanging, ledger
  <1>2. /\ call[c] = Idle /\ Apart(c, i)
        /\ op # "dispatch" => \A d \in Callers \ {c} : Open(d) => call[d].op = "dispatch"
    BY FreeIsApart
  <1>3. OnlyCall(c, k)
    BY RowNow DEF OnlyCall
  <1>4. CallMay(c, k)
    BY <1>1, <1>2 DEF CallMay
  <1>5. /\ rail' \in [Invocations -> Rail] /\ \A j \in Invocations : j # i => rail'[j] = rail[j]
        /\ RailKnows(inv[i], rsv[i], rail'[i])
    BY <1>1, RowNow
  <1> QED
    BY <1>1, <1>2, <1>3, <1>4, <1>5, CallStep

LEMMA GatewaysCall ==
    ASSUME NEW c \in Gateways
    PROVE  c \in Callers
  BY DEF Callers

LEMMA NoUnit ==
    ASSUME NEW k, k.package = NoPackage, NEW e
    PROVE  HasUnit(k, e)
  BY DEF HasUnit

LEMMA NotPlanned ==
    ASSUME NEW k, ~Planned(k), NEW g, NEW rows, NEW r
    PROVE  LeavesFor(g, k, rows, r)
  BY DEF LeavesFor

LEMMA StepBeginReserve ==
    ASSUME IInv, NEW c \in Callers, NEW i \in Invocations, BeginReserve(c, i)
    PROVE  IInv'
  <1>1. MayBegin(c, "reserve", i) /\ inv[i].phase = "accepted" /\ sweep' = sweep /\ Unchanging
    BY DEF BeginReserve
  <1>2. PICK p \in IF Refused(i) \/ Unmetered THEN {NoPackage} ELSE Drawn :
          call' = [call EXCEPT ![c] = [Opened("reserve", i) EXCEPT !.at = now, !.package = p,
                      !.plan = IF Refused(i) THEN "refuse"
                               ELSE IF inv[i].mode = "free" THEN "hold" ELSE "authorize"]]
    BY DEF BeginReserve
  <1>3. PICK o : o = Opened("reserve", i)
    OBVIOUS
  <1>4. PICK plan : plan = IF Refused(i) THEN "refuse"
                           ELSE IF inv[i].mode = "free" THEN "hold" ELSE "authorize"
    OBVIOUS
  <1>5. PICK k : k = [o EXCEPT !.at = now, !.package = p, !.plan = plan]
    OBVIOUS
  <1>6. call' = [call EXCEPT ![c] = k]
    BY <1>2, <1>3, <1>4, <1>5
  <1>7. o \in Call /\ o.op = "reserve" /\ o.inv = i
    BY <1>3, OpenedCall
  <1>8. p = NoPackage \/ (p \in Packages /\ ent[p].remaining > 0)
    BY DEF Drawn, WithUnits, Active
  <1>9. plan \in Plans
    BY <1>4 DEF Plans
  <1>10. k \in Call /\ k.op = "reserve" /\ k.inv = i /\ k.at = now /\ k.package = p /\ k.plan = plan
    BY <1>5, <1>7, <1>8, <1>9, RowNow DEF Call
  <1>11. HasUnit(k, ent)
    BY <1>8, <1>10 DEF HasUnit
  <1>12. PlanOf(k)
    BY <1>4, <1>10 DEF PlanOf
  <1>13. PlanFits(k, inv[i])
    BY <1>1, <1>4, <1>10 DEF PlanFits
  <1>14. Answered(k, inv[i], rail[i])
    BY <1>4, <1>10 DEF Answered
  <1>15. LeavesFor(rsv, k, inv, raised)
    <2> SUFFICES ASSUME Planned(k) PROVE Leaves(rsv, now, raised, inv[i].price)
      BY <1>10 DEF LeavesFor
    <2>1. Admits(inv[i].price)
      BY <1>4, <1>10 DEF Planned, Planning, Refused
    <2>2. PICK b \in budget : inv[i].price <= Max({Available(b), 0})
      BY <2>1 DEF Admits
    <2>3. b.month \in Nat /\ raised \in Nat /\ b.month <= raised
      BY CommerceAssumption, MoneyNow DEF IInv, TypeOK
    <2>4. /\ Sum(rsv, Held(rsv)) \in Nat /\ Sum(rsv, Taken(rsv, PeriodOf(now))) \in Nat
          /\ Available(b) = b.month - Sum(rsv, Taken(rsv, PeriodOf(now))) - Sum(rsv, Held(rsv))
      BY MoneyNow, MoneyTypes, SumsOfLedger
    <2>5. Available(b) \in Int /\ inv[i].price \in Nat
      BY <2>3, <2>4, RowNow DEF Row
    <2>6. Max({Available(b), 0}) \in {Available(b), 0}
      BY <2>5, MaxOfTwo
    <2>7. inv[i].price = 0 \/ inv[i].price <= Available(b)
      BY <2>2, <2>5, <2>6
    <2>8. inv[i].price = 0 \/ Sum(rsv, Taken(rsv, PeriodOf(now))) + Sum(rsv, Held(rsv)) + inv[i].price <= raised
      BY <2>3, <2>4, <2>5, <2>7
    <2> QED
      BY <2>8, MoneyNow DEF Leaves
  <1>16. k.at <= now /\ sweep' \in Sweeps
    BY <1>1, <1>10, RowNow
  <1> QED
    BY <1>1, <1>6, <1>10, <1>11, <1>12, <1>13, <1>14, <1>15, <1>16, BeginStep

LEMMA StepBeginResolve ==
    ASSUME IInv, NEW c \in Callers, NEW i \in Invocations, BeginResolve(c, i)
    PROVE  IInv'
  <1>1. MayBegin(c, "reserve", i) /\ inv[i].phase = "reserved" /\ sweep' = sweep /\ Unchanging
    BY DEF BeginResolve
  <1>2. PICK o : o = Opened("reserve", i)
    OBVIOUS
  <1>3. PICK k : k = [o EXCEPT !.plan = "resolve"]
    OBVIOUS
  <1>4. call' = [call EXCEPT ![c] = k]
    BY <1>2, <1>3 DEF BeginResolve
  <1>5. o \in Call /\ o.op = "reserve" /\ o.inv = i /\ o.package = NoPackage /\ o.at = 0
    BY <1>2, OpenedCall
  <1>6. k \in Call /\ k.op = "reserve" /\ k.inv = i /\ k.at = 0 /\ k.package = NoPackage /\ k.plan = "resolve"
    BY <1>3, <1>5 DEF Call, Plans
  <1>7. PlanOf(k) /\ PlanFits(k, inv[i]) /\ Answered(k, inv[i], rail[i])
    BY <1>1, <1>6 DEF PlanOf, PlanFits, Answered
  <1>8. HasUnit(k, ent) /\ LeavesFor(rsv, k, inv, raised)
    BY <1>6, NoUnit, NotPlanned DEF Planned, Planning
  <1>9. k.at <= now /\ sweep' \in Sweeps
    BY <1>1, <1>6, RowNow
  <1> QED
    BY <1>1, <1>4, <1>6, <1>7, <1>8, <1>9, BeginStep

LEMMA StepBeginFinalize ==
    ASSUME IInv, NEW c \in Callers, NEW i \in Invocations, NEW outcome \in Outcomes,
           BeginFinalize(c, i, outcome)
    PROVE  IInv'
  <1>1. /\ MayBegin(c, "finalize", i) /\ inv[i].phase \in {"dispatched", "outcome_unknown"}
        /\ sweep' = sweep /\ Unchanging
    BY DEF BeginFinalize
  <1>2. PICK o : o = Opened("finalize", i)
    OBVIOUS
  <1>3. PICK plan : plan = IF inv[i].mode = "free" THEN "capture" ELSE "settle"
    OBVIOUS
  <1>4. PICK want : want = IF inv[i].mode = "per_call" \/ outcome = "succeeded" THEN "captured" ELSE "voided"
    OBVIOUS
  <1>5. PICK k : k = [o EXCEPT !.outcome = outcome, !.plan = plan, !.want = want]
    OBVIOUS
  <1>6. call' = [call EXCEPT ![c] = k]
    BY <1>2, <1>3, <1>4, <1>5 DEF BeginFinalize
  <1>7. o \in Call /\ o.op = "finalize" /\ o.inv = i /\ o.package = NoPackage /\ o.at = 0
    BY <1>2, OpenedCall
  <1>8. /\ k \in Call /\ k.op = "finalize" /\ k.inv = i /\ k.at = 0 /\ k.package = NoPackage
        /\ k.plan = plan /\ k.want = want
    BY <1>3, <1>4, <1>5, <1>7 DEF Call, Plans
  <1>9. PlanOf(k) /\ PlanFits(k, inv[i]) /\ Answered(k, inv[i], rail[i])
    BY <1>1, <1>3, <1>4, <1>8 DEF PlanOf, PlanFits, Answered
  <1>10. HasUnit(k, ent) /\ LeavesFor(rsv, k, inv, raised)
    BY <1>8, NoUnit, NotPlanned DEF Planned
  <1>11. k.at <= now /\ sweep' \in Sweeps
    BY <1>1, <1>8, RowNow
  <1> QED
    BY <1>1, <1>6, <1>8, <1>9, <1>10, <1>11, BeginStep

LEMMA ReleaseOpens ==
    ASSUME IInv, NEW c \in Callers, NEW i \in Invocations, OpensRelease(c, i),
           Unchanging, sweep' \in Sweeps
    PROVE  IInv'
  <1>1. MayBegin(c, "release", i) /\ inv[i].phase \in {"reserved", "dispatching"}
    BY DEF OpensRelease, Releasable
  <1>2. PICK o : o = Opened("release", i)
    OBVIOUS
  <1>3. PICK plan : plan = IF inv[i].mode = "free" THEN "release" ELSE "settle"
    OBVIOUS
  <1>4. PICK k : k = [o EXCEPT !.want = "voided", !.plan = plan]
    OBVIOUS
  <1>5. call' = [call EXCEPT ![c] = k]
    BY <1>2, <1>3, <1>4 DEF OpensRelease
  <1>6. o \in Call /\ o.op = "release" /\ o.inv = i /\ o.package = NoPackage /\ o.at = 0
    BY <1>2, OpenedCall
  <1>7. /\ k \in Call /\ k.op = "release" /\ k.inv = i /\ k.at = 0 /\ k.package = NoPackage
        /\ k.plan = plan /\ k.want = "voided"
    BY <1>3, <1>4, <1>6 DEF Call, Plans
  <1>8. PlanOf(k) /\ PlanFits(k, inv[i]) /\ Answered(k, inv[i], rail[i])
    BY <1>1, <1>3, <1>7 DEF PlanOf, PlanFits, Answered
  <1>9. HasUnit(k, ent) /\ LeavesFor(rsv, k, inv, raised)
    BY <1>7, NoUnit, NotPlanned DEF Planned
  <1>10. k.at <= now
    BY <1>7, RowNow
  <1> QED
    BY <1>1, <1>5, <1>7, <1>8, <1>9, <1>10, BeginStep

LEMMA StepBeginRelease ==
    ASSUME IInv, NEW c \in Callers, NEW i \in Invocations, BeginRelease(c, i)
    PROVE  IInv'
  <1>1. sweep' \in Sweeps
    BY RowNow DEF BeginRelease
  <1> QED
    BY <1>1, ReleaseOpens DEF BeginRelease

LEMMA StepSweepRelease ==
    ASSUME IInv, NEW i \in Invocations, SweepRelease(i)
    PROVE  IInv'
  <1>1. sweep' \in Sweeps /\ Unchanging /\ Reconciler \in Callers
    BY RowNow DEF SweepRelease, Sweeps, Callers
  <1>2. CASE OpensRelease(Reconciler, i)
    BY <1>1, <1>2, ReleaseOpens
  <1>3. CASE UNCHANGED call
    BY <1>1, <1>3, SweepOnly
  <1> QED
    BY <1>2, <1>3 DEF SweepRelease

LEMMA StepBeginDispatch ==
    ASSUME IInv, NEW c \in Callers, NEW i \in Invocations, BeginDispatch(c, i)
    PROVE  IInv'
  <1>1. /\ MayBegin(c, "dispatch", i) /\ inv[i].phase = "reserved" /\ inv[i].payment # "unknown"
        /\ inv[i].fence = None /\ sweep' = sweep /\ Unchanging
    BY DEF BeginDispatch, Dispatchable
  <1>2. PICK o : o = Opened("dispatch", i)
    OBVIOUS
  <1>3. PICK k : k = [o EXCEPT !.at = now, !.plan = "dispatch"]
    OBVIOUS
  <1>4. call' = [call EXCEPT ![c] = k]
    BY <1>2, <1>3 DEF BeginDispatch
  <1>5. o \in Call /\ o.op = "dispatch" /\ o.inv = i /\ o.package = NoPackage
    BY <1>2, OpenedCall
  <1>6. k \in Call /\ k.op = "dispatch" /\ k.inv = i /\ k.at = now /\ k.package = NoPackage /\ k.plan = "dispatch"
    BY <1>3, <1>5, RowNow DEF Call, Plans
  <1>7. PlanOf(k) /\ PlanFits(k, inv[i]) /\ Answered(k, inv[i], rail[i])
    BY <1>1, <1>6 DEF PlanOf, PlanFits, Answered
  <1>8. HasUnit(k, ent) /\ LeavesFor(rsv, k, inv, raised)
    BY <1>6, NoUnit, NotPlanned DEF Planned
  <1>9. k.at <= now /\ sweep' \in Sweeps
    BY <1>1, <1>6, RowNow
  <1> QED
    BY <1>1, <1>4, <1>6, <1>7, <1>8, <1>9, BeginStep

\* A transaction that gives up leaves its row as it was.
LEMMA EndStep ==
    ASSUME IInv, NEW c \in Callers, Open(c), Ends(c),
           rail' \in [Invocations -> Rail],
           \A j \in Invocations : j # call[c].inv => rail'[j] = rail[j],
           RailKnows(inv[call[c].inv], rsv[call[c].inv], rail'[call[c].inv]),
           UNCHANGED <<now, prices, ledger>>, sweep' \in Sweeps
    PROVE  IInv'
  <1>1. call[c].inv \in Invocations /\ Apart(c, call[c].inv)
    BY OpenIsApart
  <1>2. OnlyCall(c, Idle)
    BY <1>1, RowNow, IdleCall DEF OnlyCall, Ends
  <1>3. CallMay(c, Idle)
    BY DEF CallMay
  <1>4. Idle \in Call /\ HasUnit(Idle, ent) /\ LeavesFor(rsv, Idle, inv, raised)
    BY IdleCall, NoUnit, NotPlanned DEF Planned
  <1> QED
    BY <1>1, <1>2, <1>3, <1>4, CallStep

LEMMA StepCrash ==
    ASSUME IInv, NEW c \in Callers, Crash(c)
    PROVE  IInv'
  <1>1. Open(c) /\ Ends(c) /\ Unchanging
    BY DEF Crash, Open
  <1>2. call[c].inv \in Invocations
    BY <1>1, OpenIsApart
  <1>3. sweep' \in Sweeps
    <2>1. Resting \in Sweeps
      BY DEF Resting, Sweeps
    <2> QED
      BY <1>2, <2>1, RowNow DEF Crash
  <1>4. UNCHANGED <<now, prices, ledger>> /\ rail' = rail
    BY <1>1 DEF Unchanging
  <1> QED
    BY <1>1, <1>2, <1>3, <1>4, RowNow, EndStep

-----------------------------------------------------------------------------
(* Answers of the rail *)

LEMMA ReplansCall ==
    ASSUME IInv, NEW c \in Callers, Open(c), NEW plan \in Plans, Replans(c, plan)
    PROVE  \E k \in Call :
              /\ OnlyCall(c, k)
              /\ k.op = call[c].op /\ k.inv = call[c].inv /\ k.at = call[c].at /\ k.plan = plan
              /\ k.package = call[c].package /\ k.want = call[c].want
  <1>1. call \in [Callers -> Call] /\ call[c] \in Call
    BY DEF IInv, TypeOK
  <1>2. PICK k : k = [call[c] EXCEPT !.plan = plan]
    OBVIOUS
  <1>3. /\ k \in Call /\ k.op = call[c].op /\ k.inv = call[c].inv /\ k.at = call[c].at /\ k.plan = plan
        /\ k.package = call[c].package /\ k.want = call[c].want
    BY <1>1, <1>2 DEF Call
  <1>4. call' = [call EXCEPT ![c] = k]
    BY <1>1, <1>2 DEF Replans
  <1>5. OnlyCall(c, k)
    BY <1>1, <1>3, <1>4 DEF OnlyCall
  <1> QED
    BY <1>3, <1>5

\* A transaction that goes on with another plan.
LEMMA ReplanStep ==
    ASSUME IInv, NEW c \in Callers, Open(c), NEW plan \in Plans, Replans(c, plan), NEW i, i = call[c].inv,
           \A k \in Call : k.op = call[c].op /\ k.plan = plan /\ k.want = call[c].want =>
                 PlanOf(k) /\ Answered(k, inv[i], rail'[i]),
           \A k \in Call : k.op = call[c].op /\ k.plan = plan /\ k.package = call[c].package =>
                 PlanFits(k, inv[i]),
           call[c].op = "reserve" /\ plan \in Planning => call[c].plan \in Planning,
           rail' \in [Invocations -> Rail], \A j \in Invocations : j # i => rail'[j] = rail[j],
           RailKnows(inv[i], rsv[i], rail'[i]),
           UNCHANGED <<now, prices, ledger>>, sweep' \in Sweeps
    PROVE  IInv'
  <1>1. PICK k \in Call :
              /\ OnlyCall(c, k)
              /\ k.op = call[c].op /\ k.inv = call[c].inv /\ k.at = call[c].at /\ k.plan = plan
              /\ k.package = call[c].package /\ k.want = call[c].want
    BY ReplansCall
  <1>2. /\ i \in Invocations /\ Apart(c, i) /\ call[c].op # "idle" /\ call[c].at <= now
        /\ call[c].op # "dispatch" => \A d \in Callers \ {c} : Open(d) => call[d].op = "dispatch"
    BY OpenIsApart
  <1>3. PlanOf(k) /\ Answered(k, inv[i], rail'[i]) /\ PlanFits(k, inv[i])
    BY <1>1
  <1>4. now' = now /\ inv' = inv
    BY DEF ledger
  <1>5. CallMay(c, k)
    BY <1>1, <1>2, <1>3, <1>4 DEF CallMay
  <1>6. HasUnit(k, ent)
    BY <1>1, StockNow DEF HasUnit
  <1>7. LeavesFor(rsv, k, inv, raised)
    <2>1. LeavesFor(rsv, call[c], inv, raised)
      BY MoneyNow
    <2> QED
      BY <1>1, <2>1 DEF LeavesFor, Planned
  <1> QED
    BY <1>1, <1>2, <1>5, <1>6, <1>7, CallStep

LEMMA StepAuthorize ==
    ASSUME IInv, NEW c \in Callers, Authorize(c)
    PROVE  IInv'
  <1>1. call[c].plan = "authorize" /\ UNCHANGED <<now, prices, ledger>> /\ sweep' = sweep
    BY DEF Authorize
  <1>2. Open(c)
    BY <1>1, IdleCall DEF Open
  <1>3. PICK i : i = call[c].inv
    OBVIOUS
  <1>4. i \in Invocations /\ PlanOf(call[c]) /\ PlanFits(call[c], inv[i])
    BY <1>2, <1>3, OpenIsApart
  <1>5. call[c].op = "reserve" /\ inv[i].phase = "accepted"
    BY <1>1, <1>4 DEF PlanOf, PlanFits
  <1>6. PICK a \in IF rail[i].auth = "none" THEN {"authorized", "denied"} ELSE {rail[i].auth} :
             \/ /\ rail' = [rail EXCEPT ![i].auth = a]
                /\ Replans(c, IF a = "authorized" THEN "hold" ELSE "refuse")
             \/ /\ rail' \in {rail, [rail EXCEPT ![i].auth = a]}
                /\ Replans(c, "hold_unknown")
    BY <1>3 DEF Authorize
  <1>7. rail \in [Invocations -> Rail] /\ rail[i] \in Rail /\ sweep' \in Sweeps
    BY <1>1, <1>4, RowNow
  <1>8. a \in {"authorized", "denied"}
    BY <1>6, <1>7 DEF Rail
  <1>9. PICK l : l = [rail[i] EXCEPT !.auth = a]
    OBVIOUS
  <1>10. l \in Rail /\ l.auth = a /\ [rail EXCEPT ![i].auth = a] = [rail EXCEPT ![i] = l]
    BY <1>4, <1>7, <1>8, <1>9 DEF Rail
  <1>11. rail' \in [Invocations -> Rail] /\ \A j \in Invocations : j # i => rail'[j] = rail[j]
    BY <1>4, <1>6, <1>7, <1>10
  <1>12. rsv[i] = NoReservation /\ inv[i].fence = None
    BY <1>4, <1>5, RowNow DEF PhaseHolds, Unheld
  <1>13. RailKnows(inv[i], rsv[i], rail'[i])
    BY <1>5, <1>12 DEF RailKnows, NoReservation
  <1>14. call[c].plan \in Planning
    BY <1>1 DEF Planning
  <1>15. CASE rail' = [rail EXCEPT ![i].auth = a] /\ Replans(c, IF a = "authorized" THEN "hold" ELSE "refuse")
    <2>1. PICK plan : plan = IF a = "authorized" THEN "hold" ELSE "refuse"
      OBVIOUS
    <2>2. plan \in Plans /\ Replans(c, plan)
      BY <1>15, <2>1 DEF Plans
    <2>3. rail'[i].auth = a
      BY <1>4, <1>7, <1>10, <1>15
    <2>4. \A k \in Call : k.op = call[c].op /\ k.plan = plan /\ k.want = call[c].want =>
                 PlanOf(k) /\ Answered(k, inv[i], rail'[i])
      BY <1>5, <2>1, <2>3 DEF PlanOf, Answered
    <2>5. \A k \in Call : k.op = call[c].op /\ k.plan = plan /\ k.package = call[c].package =>
                 PlanFits(k, inv[i])
      BY <1>5, <2>1 DEF PlanFits
    <2> QED
      BY <1>1, <1>2, <1>3, <1>7, <1>11, <1>13, <1>14, <2>2, <2>4, <2>5, ReplanStep
  <1>16. CASE Replans(c, "hold_unknown")
    <2>1. "hold_unknown" \in Plans
      BY DEF Plans
    <2>2. \A k \in Call : k.op = call[c].op /\ k.plan = "hold_unknown" /\ k.want = call[c].want =>
                 PlanOf(k) /\ Answered(k, inv[i], rail'[i])
      BY <1>5 DEF PlanOf, Answered
    <2>3. \A k \in Call : k.op = call[c].op /\ k.plan = "hold_unknown" /\ k.package = call[c].package =>
                 PlanFits(k, inv[i])
      BY <1>5 DEF PlanFits
    <2> QED
      BY <1>1, <1>2, <1>3, <1>7, <1>11, <1>13, <1>14, <1>16, <2>1, <2>2, <2>3, ReplanStep
  <1> QED
    BY <1>6, <1>15, <1>16

LEMMA AnswerIsTrue ==
    ASSUME IInv, NEW i \in Invocations, NEW a \in AuthorizationAnswers(i)
    PROVE  /\ a \in {"authorized", "denied", "unknown"}
           /\ inv[i].mode # "free" /\ a # "unknown" => rail[i].auth = a
  <1>1. rail[i].auth \in {"none", "authorized", "denied"}
    BY RowNow DEF Rail
  <1>2. CASE rsv[i].known
    BY <1>2, RowNow DEF AuthorizationAnswers, RailKnows
  <1>3. CASE ~rsv[i].known
    BY <1>1, <1>3 DEF AuthorizationAnswers
  <1> QED
    BY <1>2, <1>3

LEMMA StepResolveUnknownHold ==
    ASSUME IInv, NEW c \in Callers, ResolveUnknownHold(c)
    PROVE  IInv'
  <1>1. /\ call[c].plan = "resolve" /\ Unchanging /\ UNCHANGED <<now, prices, ledger>>
        /\ rail' = rail /\ sweep' = sweep
    BY DEF ResolveUnknownHold, Unchanging
  <1>2. Open(c)
    BY <1>1, IdleCall DEF Open
  <1>3. PICK i : i = call[c].inv
    OBVIOUS
  <1>4. i \in Invocations /\ PlanOf(call[c]) /\ PlanFits(call[c], inv[i])
    BY <1>2, <1>3, OpenIsApart
  <1>5. call[c].op = "reserve" /\ inv[i].phase = "reserved" /\ call[c].package = NoPackage
    BY <1>1, <1>4 DEF PlanOf, PlanFits
  <1>6. PICK a \in AuthorizationAnswers(i) :
          CASE a = "authorized" -> Replans(c, "record")
            [] a = "denied" -> Replans(c, "deny")
            [] OTHER -> Ends(c)
    BY <1>3 DEF ResolveUnknownHold
  <1>7. /\ a \in {"authorized", "denied", "unknown"}
        /\ inv[i].mode # "free" /\ a # "unknown" => rail[i].auth = a
    BY <1>4, AnswerIsTrue
  <1>8. /\ rail' \in [Invocations -> Rail] /\ sweep' \in Sweeps /\ RailKnows(inv[i], rsv[i], rail'[i])
        /\ \A j \in Invocations : j # i => rail'[j] = rail[j]
    BY <1>1, <1>4, RowNow
  <1>9. ASSUME NEW plan \in {"record", "deny"}, Replans(c, plan),
               inv[i].mode # "free" => rail[i].auth = IF plan = "record" THEN "authorized" ELSE "denied"
        PROVE  IInv'
    <2>1. plan \in Plans /\ plan \notin Planning
      BY DEF Plans, Planning
    <2>2. \A k \in Call : k.op = call[c].op /\ k.plan = plan /\ k.want = call[c].want =>
                 PlanOf(k) /\ Answered(k, inv[i], rail'[i])
      BY <1>1, <1>5, <1>9 DEF PlanOf, Answered
    <2>3. \A k \in Call : k.op = call[c].op /\ k.plan = plan /\ k.package = call[c].package =>
                 PlanFits(k, inv[i])
      BY <1>5 DEF PlanFits
    <2> QED
      BY <1>1, <1>2, <1>3, <1>8, <1>9, <2>1, <2>2, <2>3, ReplanStep
  <1>10. CASE a = "authorized"
    BY <1>6, <1>7, <1>9, <1>10
  <1>11. CASE a = "denied"
    BY <1>6, <1>7, <1>9, <1>11
  <1>12. CASE a = "unknown"
    <2>1. Ends(c)
      BY <1>6, <1>12
    <2> QED
      BY <1>1, <1>2, <1>3, <1>8, <2>1, EndStep
  <1> QED
    BY <1>7, <1>10, <1>11, <1>12

LEMMA StepSettlePayment ==
    ASSUME IInv, NEW c \in Callers, SettlePayment(c)
    PROVE  IInv'
  <1>1. call[c].plan = "settle" /\ UNCHANGED <<now, prices, ledger>> /\ sweep' = sweep
    BY DEF SettlePayment
  <1>2. Open(c)
    BY <1>1, IdleCall DEF Open
  <1>3. PICK i : i = call[c].inv
    OBVIOUS
  <1>4. i \in Invocations /\ PlanOf(call[c]) /\ PlanFits(call[c], inv[i]) /\ call[c] \in Call
    BY <1>2, <1>3, OpenIsApart
  <1>5. /\ (call[c].op = "finalize" /\ call[c].want # "none") \/ (call[c].op = "release" /\ call[c].want = "voided")
        /\ call[c].op = "finalize" => inv[i].phase \in {"dispatched", "outcome_unknown"}
        /\ call[c].op = "release" => inv[i].phase \in {"reserved", "dispatching"}
        /\ call[c].package = NoPackage
    BY <1>1, <1>4 DEF PlanOf, PlanFits
  <1>6. PICK a \in AuthorizationAnswers(i) :
             \/ a = "unknown" /\ Ends(c) /\ UNCHANGED rail
             \/ a = "denied" /\ Replans(c, "deny") /\ UNCHANGED rail
             \/ /\ a = "authorized"
                /\ \E s \in Settlements(i, call[c].want) :
                      /\ rail' = [rail EXCEPT ![i].settled = s.settled]
                      /\ IF s.sure
                         THEN Replans(c, IF call[c].want = "captured" THEN "capture" ELSE "release")
                         ELSE Ends(c)
    BY <1>3 DEF SettlePayment
  <1>7. inv[i].mode # "free" /\ a # "unknown" => rail[i].auth = a
    BY <1>4, AnswerIsTrue
  <1>8. rail \in [Invocations -> Rail] /\ rail[i] \in Rail /\ sweep' \in Sweeps /\ RailKnows(inv[i], rsv[i], rail[i])
    BY <1>1, <1>4, RowNow
  <1>9. rsv[i].status = "held"
    BY <1>4, <1>5, RowNow DEF PhaseHolds, Holding
  <1>10. ASSUME NEW plan \in {"capture", "release", "deny"}, Replans(c, plan),
                rail' \in [Invocations -> Rail], \A j \in Invocations : j # i => rail'[j] = rail[j],
                RailKnows(inv[i], rsv[i], rail'[i]),
                call[c].op = "release" => plan # "capture",
                inv[i].mode # "free" =>
                   /\ plan = "deny" => rail'[i].auth = "denied"
                   /\ plan # "deny" =>
                         /\ rail'[i].auth = "authorized" /\ rail'[i].settled = call[c].want
                         /\ plan = "capture" <=> call[c].want = "captured"
         PROVE  IInv'
    <2>1. plan \in Plans
      BY DEF Plans
    <2>2. \A k \in Call : k.op = call[c].op /\ k.plan = plan /\ k.want = call[c].want =>
                 PlanOf(k) /\ Answered(k, inv[i], rail'[i])
      BY <1>5, <1>10 DEF PlanOf, Answered
    <2>3. \A k \in Call : k.op = call[c].op /\ k.plan = plan /\ k.package = call[c].package =>
                 PlanFits(k, inv[i])
      BY <1>5 DEF PlanFits
    <2>4. call[c].op # "reserve"
      BY <1>5
    <2> QED
      BY <1>1, <1>2, <1>3, <1>8, <1>10, <2>1, <2>2, <2>3, <2>4, ReplanStep
  <1>11. CASE a = "unknown" /\ Ends(c) /\ UNCHANGED rail
    BY <1>1, <1>2, <1>3, <1>8, <1>11, EndStep
  <1>12. CASE a = "denied" /\ Replans(c, "deny") /\ UNCHANGED rail
    BY <1>7, <1>8, <1>10, <1>12
  <1>13. CASE a = "authorized"
    <2>1. PICK s \in Settlements(i, call[c].want) :
                      /\ rail' = [rail EXCEPT ![i].settled = s.settled]
                      /\ IF s.sure
                         THEN Replans(c, IF call[c].want = "captured" THEN "capture" ELSE "release")
                         ELSE Ends(c)
      BY <1>6, <1>13
    <2>2. /\ s.settled \in {"none", call[c].want, rail[i].settled}
          /\ s.sure \in BOOLEAN
          /\ s.sure => s.settled = call[c].want
      BY DEF Settlements
    <2>3. s.settled \in {"none", "captured", "voided"}
      BY <1>4, <1>8, <2>2 DEF Call, Rail
    <2>4. PICK l : l = [rail[i] EXCEPT !.settled = s.settled]
      OBVIOUS
    <2>5. /\ l \in Rail /\ l.settled = s.settled /\ l.auth = rail[i].auth
          /\ [rail EXCEPT ![i].settled = s.settled] = [rail EXCEPT ![i] = l]
      BY <1>4, <1>8, <2>3, <2>4 DEF Rail
    <2>6. rail' \in [Invocations -> Rail] /\ rail'[i] = l /\ \A j \in Invocations : j # i => rail'[j] = rail[j]
      BY <1>4, <1>8, <2>1, <2>5
    <2>7. RailKnows(inv[i], rsv[i], rail'[i])
      BY <1>8, <1>9, <2>5, <2>6 DEF RailKnows
    <2>8. CASE s.sure
      <3>1. PICK plan : plan = IF call[c].want = "captured" THEN "capture" ELSE "release"
        OBVIOUS
      <3>2. Replans(c, plan) /\ plan \in {"capture", "release"}
        BY <2>1, <2>8, <3>1
      <3>3. rail'[i].settled = call[c].want /\ (inv[i].mode # "free" => rail'[i].auth = "authorized")
        BY <1>7, <1>13, <2>2, <2>5, <2>6, <2>8
      <3>4. call[c].op = "release" => plan # "capture"
        BY <1>5, <3>1
      <3> QED
        BY <1>10, <2>6, <2>7, <3>1, <3>2, <3>3, <3>4
    <2>9. CASE ~s.sure
      BY <1>1, <1>2, <1>3, <1>8, <2>1, <2>6, <2>7, <2>9, EndStep
    <2> QED
      BY <2>2, <2>8, <2>9
  <1> QED
    BY <1>6, <1>11, <1>12, <1>13

-----------------------------------------------------------------------------
(* Commits *)

LEMMA CommitStep ==
    ASSUME IInv, NEW c \in Callers, Open(c), NEW i, i = call[c].inv, Ends(c),
           UNCHANGED <<now, prices, rail, sweep>>,
           inv' \in [Invocations -> Row], rsv' \in [Invocations -> Reservation],
           alloc' \in [Invocations -> Allocation], ent' \in [Packages -> Package],
           \A j \in Invocations : j # i => inv'[j] = inv[j] /\ rsv'[j] = rsv[j] /\ alloc'[j] = alloc[j],
           PhaseHolds(inv'[i], rsv'[i], alloc'[i]), RailKnows(inv'[i], rsv'[i], rail[i]),
           Stock',
           \/ \A j \in Invocations : Alike(rsv[j], rsv'[j])
           \/ call[c].op # "dispatch" /\ Fits(rsv', now, raised) /\ NoneAfter(rsv', PeriodOf(now)),
           inv[i].fence # None => inv'[i].fence = inv[i].fence
    PROVE  IInv' /\ FinalStep
  <1>1. /\ now' = now /\ budget' = budget /\ raised' = raised /\ rail' = rail
        /\ terms' = terms /\ quote' = quote /\ sweep' = sweep
    BY DEF prices
  <1>2. /\ i \in Invocations /\ Apart(c, i)
        /\ call[c].op # "dispatch" => \A d \in Callers \ {c} : Open(d) => call[d].op = "dispatch"
    BY OpenIsApart
  <1>3. OnlyCall(c, Idle)
    BY <1>2, RowNow, IdleCall DEF OnlyCall, Ends
  <1>4. call' \in [Callers -> Call] /\ call'[c] = Idle /\ \A d \in Callers \ {c} : call'[d] = call[d]
    BY <1>3 DEF OnlyCall
  <1>5. OnlyRow(i)
    BY <1>1 DEF OnlyRow
  <1>6. TypeOK'
    BY <1>1, <1>4 DEF IInv, TypeOK
  <1>7. Transactions'
    <2>1. CallMay(c, Idle)
      BY DEF CallMay
    <2> QED
      BY <1>1, <1>2, <1>3, <1>5, <2>1, OneCall
  <1>8. Rows'
    BY <1>1, <1>5, OneRow
  <1>9. Money'
    <2>1. ASSUME NEW d \in Callers, call'[d].op = "reserve"
          PROVE  d # c /\ call'[d] = call[d] /\ Open(d) /\ inv'[call[d].inv] = inv[call[d].inv]
      <3>1. d # c
        BY <1>4, <2>1, IdleCall
      <3>2. call'[d] = call[d]
        BY <1>4, <3>1
      <3>3. Open(d)
        BY <2>1, <3>2, IdleCall DEF Open
      <3>4. call[d].inv \in Invocations /\ call[d].inv # i
        BY <1>2, <3>1, <3>3, OpenIsApart DEF Apart
      <3> QED
        BY <3>1, <3>2, <3>3, <3>4
    <2>2. CASE \A j \in Invocations : Alike(rsv[j], rsv'[j])
      <3>1. \A d \in Callers : LeavesFor(rsv, call'[d], inv', raised)
        BY <2>1, MoneyNow DEF LeavesFor, Planned
      <3> QED
        BY <1>1, <1>6, <2>2, <3>1, MoneyKept
    <2>3. CASE call[c].op # "dispatch" /\ Fits(rsv', now, raised) /\ NoneAfter(rsv', PeriodOf(now))
      <3>1. \A d \in Callers : LeavesFor(rsv', call'[d], inv', raised')
        BY <1>2, <2>1, <2>3 DEF LeavesFor, Planned
      <3> QED
        BY <1>1, <1>6, <2>3, <3>1, MoneyNow, MoneyFrom
    <2> QED
      BY <2>2, <2>3
  <1>10. FinalStep
    <2>1. PlanOf(call[c]) /\ PlanFits(call[c], inv[i])
      BY OpenIsApart
    <2>2. inv[i].phase \notin Terminal
      BY <2>1 DEF PlanOf, PlanFits, Terminal
    <2> QED
      BY <2>2 DEF FinalStep
  <1> QED
    BY <1>6, <1>7, <1>8, <1>9, <1>10 DEF IInv

\* The units stay as they are, and the transaction that ends takes none.
LEMMA UnitsKept ==
    ASSUME IInv, NEW c \in Callers, Ends(c), alloc' = alloc, ent' = ent
    PROVE  Stock'
  <1>1. call \in [Callers -> Call]
    BY DEF IInv, TypeOK
  <1>2. \A d \in Callers : call'[d].package = call[d].package \/ HasUnit(call'[d], ent)
    BY <1>1, IdleCall DEF Ends, HasUnit
  <1> QED
    BY <1>2, StockKept

\* Nobody else is about to take a unit.
LEMMA NobodyTakes ==
    ASSUME IInv, NEW c \in Callers, Open(c), Ends(c), call[c].op # "dispatch"
    PROVE  \A d \in Callers : call'[d].package = NoPackage
  <1> SUFFICES ASSUME NEW d \in Callers PROVE call'[d].package = NoPackage
    OBVIOUS
  <1>1. call \in [Callers -> Call]
    BY DEF IInv, TypeOK
  <1>2. CASE d = c
    BY <1>1, <1>2, IdleCall DEF Ends
  <1>3. CASE d # c
    <2>1. call'[d] = call[d]
      BY <1>1, <1>3 DEF Ends
    <2>2. CASE Open(d)
      <3>1. call[d].op = "dispatch"
        BY <1>3, <2>2, OpenIsApart
      <3>2. PlanFits(call[d], inv[call[d].inv])
        BY <2>2, OpenIsApart
      <3> QED
        BY <2>1, <3>1, <3>2 DEF PlanFits
    <2>3. CASE ~Open(d)
      BY <2>1, <2>3, IdleCall DEF Open
    <2> QED
      BY <2>2, <2>3
  <1> QED
    BY <1>2, <1>3

LEMMA StepCommitDispatch ==
    ASSUME IInv, NEW c \in Callers, CommitDispatch(c), Ends(c), UNCHANGED <<now, prices, rail, sweep>>
    PROVE  IInv' /\ FinalStep
  <1>1. call[c].plan = "dispatch" /\ rsv' = rsv /\ alloc' = alloc /\ ent' = ent
    BY DEF CommitDispatch
  <1>2. Open(c)
    BY <1>1, IdleCall DEF Open
  <1>3. PICK i, row : i = call[c].inv /\ row = inv[i]
    OBVIOUS
  <1>4. i \in Invocations /\ PlanOf(call[c]) /\ PlanFits(call[c], row) /\ call[c].at \in Nat
    BY <1>2, <1>3, OpenIsApart
  <1>5. row.phase = "reserved" /\ row.payment # "unknown" /\ row \in Row
    BY <1>1, <1>3, <1>4, RowNow DEF PlanOf, PlanFits
  <1>6. PICK ch, o : ch = row.charge /\ o = row.outcome
    OBVIOUS
  <1>7. ch \in Charges /\ o \in Results /\ "dispatching" \in Phases /\ "" \in Named
    BY <1>5, <1>6 DEF Row, Charges, Results, Phases, Holding, Named
  <1>8. PICK m : m = Moved(row, "dispatching", ch, "", o)
    OBVIOUS
  <1>9. IsMoved(m, row, "dispatching", ch, "", o)
    BY <1>5, <1>7, <1>8, MovedRow, Zenon
  <1>10. PICK n : n = [m EXCEPT !.fence = call[c].at]
    OBVIOUS
  <1>11. inv' = [inv EXCEPT ![i] = n]
    BY <1>3, <1>6, <1>8, <1>10 DEF CommitDispatch, Applies
  <1>12. n \in Row /\ n.phase = "dispatching" /\ n.mode = row.mode
    BY <1>4, <1>9, <1>10 DEF IsMoved, Row, Times
  <1>13. inv' \in [Invocations -> Row] /\ inv'[i] = n /\ \A j \in Invocations : j # i => inv'[j] = inv[j]
    BY <1>4, <1>11, <1>12, RowNow
  <1>14. PhaseHolds(inv'[i], rsv'[i], alloc'[i])
    BY <1>1, <1>3, <1>4, <1>5, <1>12, <1>13, RowNow DEF PhaseHolds, Holding, Unheld
  <1>15. RailKnows(inv'[i], rsv'[i], rail[i])
    BY <1>1, <1>3, <1>4, <1>5, <1>12, <1>13, RowNow DEF RailKnows
  <1>16. \A j \in Invocations : Alike(rsv[j], rsv'[j])
    BY <1>1 DEF Alike
  <1>17. /\ rsv' \in [Invocations -> Reservation] /\ alloc' \in [Invocations -> Allocation]
         /\ ent' \in [Packages -> Package]
    BY <1>1, <1>4, RowNow
  <1>18. Stock'
    BY <1>1, UnitsKept
  <1>19. inv[i].fence = None
    BY <1>1, <1>3, <1>4 DEF PlanOf, PlanFits
  <1> QED
    BY <1>1, <1>2, <1>3, <1>13, <1>14, <1>15, <1>16, <1>17, <1>18, <1>19, CommitStep

LEMMA StepCommitAuthorization ==
    ASSUME IInv, NEW c \in Callers, CommitAuthorization(c), Ends(c), UNCHANGED <<now, prices, rail, sweep>>
    PROVE  IInv' /\ FinalStep
  <1>1. call[c].plan = "record" /\ alloc' = alloc /\ ent' = ent
    BY DEF CommitAuthorization
  <1>2. Open(c)
    BY <1>1, IdleCall DEF Open
  <1>3. PICK i, row : i = call[c].inv /\ row = inv[i]
    OBVIOUS
  <1>4. /\ i \in Invocations /\ PlanOf(call[c]) /\ PlanFits(call[c], row)
        /\ Answered(call[c], row, rail[i])
    BY <1>2, <1>3, OpenIsApart
  <1>5. row.phase = "reserved" /\ row \in Row /\ rsv[i] \in Reservation
    BY <1>1, <1>3, <1>4, RowNow DEF PlanOf, PlanFits
  <1>6. PICK m : m = [row EXCEPT !.payment = "authorized"]
    OBVIOUS
  <1>7. PICK r : r = [rsv[i] EXCEPT !.known = TRUE]
    OBVIOUS
  <1>8. /\ m \in Row /\ m.phase = row.phase /\ m.mode = row.mode /\ m.fence = row.fence
        /\ m.charge = row.charge /\ m.payment = "authorized"
    BY <1>5, <1>6 DEF Row, Payments
  <1>9. r \in Reservation /\ Alike(rsv[i], r)
    BY <1>5, <1>7 DEF Reservation, Alike
  <1>10. inv' = [inv EXCEPT ![i] = m] /\ rsv' = [rsv EXCEPT ![i] = r]
    BY <1>3, <1>4, <1>6, <1>7, RowNow DEF CommitAuthorization
  <1>11. inv' \in [Invocations -> Row] /\ inv'[i] = m /\ \A j \in Invocations : j # i => inv'[j] = inv[j]
    BY <1>4, <1>8, <1>10, RowNow
  <1>12. rsv' \in [Invocations -> Reservation] /\ rsv'[i] = r /\ \A j \in Invocations : j # i => rsv'[j] = rsv[j]
    BY <1>4, <1>9, <1>10, RowNow
  <1>13. PhaseHolds(inv'[i], rsv'[i], alloc'[i])
    BY <1>1, <1>3, <1>4, <1>5, <1>8, <1>9, <1>11, <1>12, RowNow DEF PhaseHolds, Holding, Unheld, Alike
  <1>14. RailKnows(inv'[i], rsv'[i], rail[i])
    <2>1. rsv[i].status = "held" /\ row.fence = None
      BY <1>3, <1>4, <1>5, RowNow DEF PhaseHolds, Holding
    <2>2. row.mode # "free" => rail[i].auth = "authorized"
      BY <1>1, <1>4 DEF Answered
    <2> QED
      BY <1>8, <1>9, <1>11, <1>12, <2>1, <2>2 DEF RailKnows, Alike
  <1>15. \A j \in Invocations : Alike(rsv[j], rsv'[j])
    BY <1>9, <1>12 DEF Alike
  <1>16. alloc' \in [Invocations -> Allocation] /\ ent' \in [Packages -> Package]
    BY <1>1, <1>4, RowNow
  <1>17. Stock'
    BY <1>1, UnitsKept
  <1> QED
    BY <1>1, <1>2, <1>3, <1>8, <1>11, <1>12, <1>13, <1>14, <1>15, <1>16, <1>17, CommitStep

-----------------------------------------------------------------------------
(* Units that move *)

LEMMA UnitSets ==
    ASSUME NEW al, NEW p, NEW state
    PROVE  /\ UnitsOf(al, p, state) \in SUBSET Invocations
           /\ IsFiniteSet(UnitsOf(al, p, state)) /\ Cardinality(UnitsOf(al, p, state)) \in Nat
  <1>1. UnitsOf(al, p, state) \in SUBSET Invocations
    BY DEF UnitsOf
  <1> QED
    BY <1>1, Subsets

LEMMA UnitAdded ==
    ASSUME NEW al, NEW al2, NEW p, NEW state, NEW i,
           i \notin UnitsOf(al, p, state), UnitsOf(al2, p, state) = UnitsOf(al, p, state) \union {i}
    PROVE  Cardinality(UnitsOf(al2, p, state)) = Cardinality(UnitsOf(al, p, state)) + 1
  BY UnitSets, FS_AddElement

LEMMA UnitRemoved ==
    ASSUME NEW al, NEW al2, NEW p, NEW state, NEW i,
           i \in UnitsOf(al, p, state), UnitsOf(al2, p, state) = UnitsOf(al, p, state) \ {i}
    PROVE  Cardinality(UnitsOf(al2, p, state)) = Cardinality(UnitsOf(al, p, state)) - 1
  BY UnitSets, FS_RemoveElement

\* A unit of p that no invocation had is held by i.
LEMMA ConservesHold ==
    ASSUME NEW al \in [Invocations -> Allocation], NEW al2 \in [Invocations -> Allocation],
           NEW i \in Invocations, NEW p \in Packages, NEW e \in Package, NEW e2 \in Package,
           al[i].state = "none", al2[i] = [package |-> p, state |-> "held"],
           \A j \in Invocations : j # i => al2[j] = al[j],
           e.remaining > 0, e2.remaining = e.remaining - 1, e2.reserved = e.reserved + 1, e2.total = e.total
    PROVE  /\ Conserves(al, e, p) => Conserves(al2, e2, p)
           /\ \A x \in Packages, f \in Package : x # p /\ Conserves(al, f, x) => Conserves(al2, f, x)
  <1>1. al2[i].state = "held" /\ al2[i].package = p
    OBVIOUS
  <1>2. \A x, s : s # "none" => i \notin UnitsOf(al, x, s)
    <2> SUFFICES ASSUME NEW x, NEW s, s # "none", i \in UnitsOf(al, x, s) PROVE FALSE
      OBVIOUS
    <2>1. al[i] = [package |-> x, state |-> s]
      BY DEF UnitsOf
    <2>2. al[i].state = s
      BY <2>1
    <2> QED
      BY <2>2
  <1>3. UnitsOf(al2, p, "held") = UnitsOf(al, p, "held") \union {i}
    BY DEF UnitsOf
  <1>4. UnitsOf(al2, p, "captured") = UnitsOf(al, p, "captured")
    BY <1>1, <1>2 DEF UnitsOf
  <1>5. ASSUME NEW x \in Packages, x # p, NEW s \in {"held", "captured"} PROVE UnitsOf(al2, x, s) = UnitsOf(al, x, s)
    <2>1. i \notin UnitsOf(al, x, s)
      BY <1>2
    <2>2. i \notin UnitsOf(al2, x, s)
      <3> SUFFICES ASSUME i \in UnitsOf(al2, x, s) PROVE FALSE
        OBVIOUS
      <3>1. al2[i] = [package |-> x, state |-> s]
        BY DEF UnitsOf
      <3>2. al2[i].package = x
        BY <3>1
      <3> QED
        BY <1>1, <1>5, <3>2
    <2> QED
      BY <2>1, <2>2 DEF UnitsOf
  <1>6. Cardinality(UnitsOf(al2, p, "held")) = Cardinality(UnitsOf(al, p, "held")) + 1
    BY <1>2, <1>3, UnitAdded
  <1>7. /\ e.remaining \in Int /\ e.reserved \in Int /\ e.total \in Nat
        /\ Cardinality(UnitsOf(al, p, "captured")) \in Nat /\ Cardinality(UnitsOf(al, p, "held")) \in Nat
    BY UnitSets DEF Package
  <1>8. Conserves(al, e, p) => Conserves(al2, e2, p)
    <2> SUFFICES ASSUME Conserves(al, e, p) PROVE Conserves(al2, e2, p)
      OBVIOUS
    <2>1. PICK H, C : H = Cardinality(UnitsOf(al, p, "held")) /\ C = Cardinality(UnitsOf(al, p, "captured"))
      OBVIOUS
    <2>2. e.reserved = H /\ e.remaining >= 0 /\ e.total = e.remaining + e.reserved + C
      BY <2>1 DEF Conserves
    <2>3. e2.reserved = H + 1 /\ e2.remaining >= 0 /\ e2.total = e2.remaining + e2.reserved + C
      BY <1>7, <2>1, <2>2
    <2>4. Cardinality(UnitsOf(al2, p, "held")) = H + 1 /\ Cardinality(UnitsOf(al2, p, "captured")) = C
      BY <1>4, <1>6, <2>1
    <2> QED
      BY <2>3, <2>4 DEF Conserves
  <1>9. \A x \in Packages, f \in Package : x # p /\ Conserves(al, f, x) => Conserves(al2, f, x)
    BY <1>5 DEF Conserves
  <1> QED
    BY <1>8, <1>9

\* The package before and after a unit of it is captured or goes back.
Returns(e, e2, how) ==
    /\ e2.remaining = IF how = "released" THEN e.remaining + 1 ELSE e.remaining
    /\ e2.reserved = e.reserved - 1
    /\ e2.total = e.total

IsUnit(a, p, state) == a = [package |-> p, state |-> state]

\* The unit that i holds of p is captured, or goes back.
LEMMA ConservesSettle ==
    ASSUME NEW al \in [Invocations -> Allocation], NEW al2 \in [Invocations -> Allocation],
           NEW i \in Invocations, NEW p \in Packages, NEW e \in Package, NEW e2 \in Package,
           NEW how \in {"captured", "released"},
           IsUnit(al[i], p, "held"), IsUnit(al2[i], p, how),
           \A j \in Invocations : j # i => al2[j] = al[j],
           Returns(e, e2, how)
    PROVE  /\ Conserves(al, e, p) => Conserves(al2, e2, p)
           /\ \A x \in Packages, f \in Package : x # p /\ Conserves(al, f, x) => Conserves(al2, f, x)
  <1>1. al[i] = [package |-> p, state |-> "held"] /\ al2[i] = [package |-> p, state |-> how]
    BY DEF IsUnit
  <1>2. \A x, s : i \in UnitsOf(al, x, s) <=> x = p /\ s = "held"
    <2> SUFFICES ASSUME NEW x, NEW s PROVE i \in UnitsOf(al, x, s) <=> x = p /\ s = "held"
      OBVIOUS
    <2>1. al[i] = [package |-> x, state |-> s] <=> x = p /\ s = "held"
      BY <1>1
    <2> QED
      BY <2>1 DEF UnitsOf
  <1>3. \A x, s : i \in UnitsOf(al2, x, s) <=> x = p /\ s = how
    <2> SUFFICES ASSUME NEW x, NEW s PROVE i \in UnitsOf(al2, x, s) <=> x = p /\ s = how
      OBVIOUS
    <2>1. al2[i] = [package |-> x, state |-> s] <=> x = p /\ s = how
      BY <1>1
    <2> QED
      BY <2>1 DEF UnitsOf
  <1>4. \A x, s, j : j # i => (j \in UnitsOf(al2, x, s) <=> j \in UnitsOf(al, x, s))
    BY DEF UnitsOf
  <1>5. UnitsOf(al2, p, "held") = UnitsOf(al, p, "held") \ {i}
    BY <1>2, <1>3, <1>4
  <1>6. how = "captured" => UnitsOf(al2, p, "captured") = UnitsOf(al, p, "captured") \union {i}
    BY <1>2, <1>3, <1>4
  <1>7. how = "released" => UnitsOf(al2, p, "captured") = UnitsOf(al, p, "captured")
    BY <1>2, <1>3, <1>4
  <1>8. ASSUME NEW x, NEW s, x # p PROVE UnitsOf(al2, x, s) = UnitsOf(al, x, s)
    <2>1. i \notin UnitsOf(al2, x, s) /\ i \notin UnitsOf(al, x, s)
      BY <1>2, <1>3, <1>8
    <2>2. \A j : j \in UnitsOf(al2, x, s) <=> j \in UnitsOf(al, x, s)
      BY <1>4, <2>1
    <2> QED
      BY <2>2
  <1>9. Cardinality(UnitsOf(al2, p, "held")) = Cardinality(UnitsOf(al, p, "held")) - 1
    BY <1>2, <1>5, UnitRemoved
  <1>10. how = "captured" => Cardinality(UnitsOf(al2, p, "captured")) = Cardinality(UnitsOf(al, p, "captured")) + 1
    BY <1>2, <1>6, UnitAdded
  <1>11. /\ e.remaining \in Int /\ e.reserved \in Int /\ e.total \in Nat
         /\ Cardinality(UnitsOf(al, p, "captured")) \in Nat /\ Cardinality(UnitsOf(al, p, "held")) \in Nat
    BY UnitSets DEF Package
  <1>12. ASSUME Conserves(al, e, p) PROVE Conserves(al2, e2, p)
    <2>1. PICK H, C : H = Cardinality(UnitsOf(al, p, "held")) /\ C = Cardinality(UnitsOf(al, p, "captured"))
      OBVIOUS
    <2>2. e.reserved = H /\ e.remaining >= 0 /\ e.total = e.remaining + e.reserved + C
      BY <1>12, <2>1 DEF Conserves
    <2>3. Cardinality(UnitsOf(al2, p, "held")) = H - 1
      BY <1>9, <2>1
    <2>4. CASE how = "captured"
      <3>1. Cardinality(UnitsOf(al2, p, "captured")) = C + 1
        BY <1>10, <2>1, <2>4
      <3>2. e2.remaining = e.remaining /\ e2.reserved = e.reserved - 1 /\ e2.total = e.total
        BY <2>4 DEF Returns
      <3>3. e2.reserved = H - 1 /\ e2.remaining >= 0 /\ e2.total = e2.remaining + e2.reserved + (C + 1)
        BY <1>11, <2>1, <2>2, <3>2
      <3> QED
        BY <2>3, <3>1, <3>3 DEF Conserves
    <2>5. CASE how = "released"
      <3>1. Cardinality(UnitsOf(al2, p, "captured")) = C
        BY <1>7, <2>1, <2>5
      <3>2. e2.remaining = e.remaining + 1 /\ e2.reserved = e.reserved - 1 /\ e2.total = e.total
        BY <2>5 DEF Returns
      <3>3. e2.reserved = H - 1 /\ e2.remaining >= 0 /\ e2.total = e2.remaining + e2.reserved + C
        BY <1>11, <2>1, <2>2, <3>2
      <3> QED
        BY <2>3, <3>1, <3>3 DEF Conserves
    <2> QED
      BY <2>4, <2>5
  <1>13. \A x \in Packages, f \in Package : x # p /\ Conserves(al, f, x) => Conserves(al2, f, x)
    BY <1>8 DEF Conserves
  <1> QED
    BY <1>12, <1>13

\* What a reservation does to the units.
LEMMA HoldUnitStock ==
    ASSUME IInv, NEW c \in Callers, Open(c), Ends(c), call[c].op # "dispatch",
           NEW i \in Invocations, alloc[i] = NoAllocation, HoldUnit(i, call[c].package)
    PROVE  /\ Stock' /\ alloc' \in [Invocations -> Allocation] /\ ent' \in [Packages -> Package]
           /\ \A j \in Invocations : j # i => alloc'[j] = alloc[j]
           /\ alloc'[i].state \in {"none", "held"}
  <1>1. alloc \in [Invocations -> Allocation] /\ ent \in [Packages -> Package]
    BY RowNow
  <1>2. CASE call[c].package = NoPackage
    <2>1. alloc' = alloc /\ ent' = ent
      BY <1>2 DEF HoldUnit
    <2>2. Stock'
      BY <2>1, UnitsKept
    <2> QED
      BY <1>1, <2>1, <2>2 DEF NoAllocation
  <1>3. CASE call[c].package # NoPackage
    <2>1. PICK p : p = call[c].package
      OBVIOUS
    <2>2. p \in Packages /\ ent[p].remaining > 0 /\ ent[p] \in Package
      BY <1>1, <1>3, <2>1, StockNow DEF HasUnit
    <2>3. /\ alloc' = [alloc EXCEPT ![i] = [package |-> p, state |-> "held"]]
          /\ ent' = [ent EXCEPT ![p].remaining = @ - 1, ![p].reserved = @ + 1]
      BY <1>3, <2>1 DEF HoldUnit
    <2>4. PICK a : a = [package |-> p, state |-> "held"]
      OBVIOUS
    <2>5. a \in Allocation /\ a.state = "held" /\ a.package = p
      BY <2>2, <2>4 DEF Allocation
    <2>6. /\ alloc' \in [Invocations -> Allocation] /\ alloc'[i] = a
          /\ \A j \in Invocations : j # i => alloc'[j] = alloc[j]
      BY <1>1, <2>3, <2>4, <2>5
    <2>7. PICK e : e = [ent[p] EXCEPT !.remaining = @ - 1, !.reserved = @ + 1]
      OBVIOUS
    <2>8. ent' = [ent EXCEPT ![p] = e]
      BY <1>1, <2>2, <2>3, <2>7
    <2>9. ent[p].remaining \in Int /\ ent[p].reserved \in Int
      BY <2>2 DEF Package
    <2>10. /\ e \in Package /\ e.remaining = ent[p].remaining - 1 /\ e.reserved = ent[p].reserved + 1
           /\ e.total = ent[p].total /\ e.status = ent[p].status
      <3>1. PICK n1, n2 : n1 = ent[p].remaining - 1 /\ n2 = ent[p].reserved + 1
        OBVIOUS
      <3>2. n1 \in Int /\ n2 \in Int
        BY <2>9, <3>1
      <3>3. e = [ent[p] EXCEPT !.remaining = n1, !.reserved = n2]
        BY <2>2, <2>7, <3>1 DEF Package
      <3>4. /\ e \in Package /\ e.remaining = n1 /\ e.reserved = n2
            /\ e.total = ent[p].total /\ e.status = ent[p].status
        BY <2>2, <3>2, <3>3 DEF Package
      <3> QED
        BY <3>1, <3>4
    <2>11. ent' \in [Packages -> Package] /\ ent'[p] = e /\ \A x \in Packages : x # p => ent'[x] = ent[x]
      BY <1>1, <2>2, <2>8, <2>10
    <2>12. alloc[i].state = "none"
      BY DEF NoAllocation
    <2>13. /\ Conserves(alloc, ent[p], p) => Conserves(alloc', e, p)
           /\ \A x \in Packages, f \in Package : x # p /\ Conserves(alloc, f, x) => Conserves(alloc', f, x)
      BY <1>1, <2>2, <2>4, <2>6, <2>10, <2>12, ConservesHold
    <2>14. \A x \in Packages : Conserves(alloc', ent'[x], x)
      BY <1>1, <2>11, <2>13, StockNow
    <2>15. \A j \in Invocations : alloc'[j].state # "none" => alloc'[j].package \in Packages
      BY <2>2, <2>5, <2>6, StockNow
    <2>16. \A x \in Packages : ent'[x].status = "none" => ent'[x] = NoEntitlement
      <3>1. ent[p].status # "none"
        BY <2>2, StockNow DEF NoEntitlement
      <3> QED
        BY <2>10, <2>11, <3>1, StockNow
    <2>17. \A d \in Callers : HasUnit(call'[d], ent')
      BY NobodyTakes DEF HasUnit
    <2>18. Stock'
      BY <2>14, <2>15, <2>16, <2>17, StockFrom
    <2> QED
      BY <2>5, <2>6, <2>11, <2>18
  <1> QED
    BY <1>2, <1>3

\* What a reservation the rail denied does to them.
LEMMA ReturnUnitStock ==
    ASSUME IInv, NEW c \in Callers, Open(c), Ends(c), call[c].op # "dispatch",
           NEW i \in Invocations, alloc[i] = NoAllocation, ReturnUnit(i, call[c].package)
    PROVE  /\ Stock' /\ alloc' \in [Invocations -> Allocation] /\ ent' \in [Packages -> Package]
           /\ \A j \in Invocations : j # i => alloc'[j] = alloc[j]
           /\ alloc'[i].state \in {"none", "released"}
  <1>1. alloc \in [Invocations -> Allocation] /\ ent \in [Packages -> Package] /\ ent' = ent
    BY RowNow DEF ReturnUnit
  <1>2. CASE call[c].package = NoPackage
    <2>1. alloc' = alloc
      BY <1>2 DEF ReturnUnit
    <2>2. Stock'
      BY <1>1, <2>1, UnitsKept
    <2> QED
      BY <1>1, <2>1, <2>2 DEF NoAllocation
  <1>3. CASE call[c].package # NoPackage
    <2>1. PICK p : p = call[c].package
      OBVIOUS
    <2>2. p \in Packages
      BY <1>3, <2>1, StockNow DEF HasUnit
    <2>3. PICK a : a = [package |-> p, state |-> "released"]
      OBVIOUS
    <2>4. a \in Allocation /\ a.state = "released" /\ a.package = p
      BY <2>2, <2>3 DEF Allocation
    <2>5. /\ alloc' \in [Invocations -> Allocation] /\ alloc'[i] = a
          /\ \A j \in Invocations : j # i => alloc'[j] = alloc[j]
      BY <1>1, <1>3, <2>1, <2>3, <2>4 DEF ReturnUnit
    <2>6. ASSUME NEW x \in Packages, NEW s \in {"held", "captured"}
          PROVE  UnitsOf(alloc', x, s) = UnitsOf(alloc, x, s)
      <3>1. alloc[i].state # s /\ alloc'[i].state # s
        BY <2>4, <2>5 DEF NoAllocation
      <3>2. i \notin UnitsOf(alloc, x, s) /\ i \notin UnitsOf(alloc', x, s)
        <4>1. alloc[i] # [package |-> x, state |-> s] /\ alloc'[i] # [package |-> x, state |-> s]
          BY <3>1
        <4> QED
          BY <4>1 DEF UnitsOf
      <3>3. \A j \in Invocations : j # i =>
               (j \in UnitsOf(alloc', x, s) <=> j \in UnitsOf(alloc, x, s))
        BY <2>5 DEF UnitsOf
      <3>4. UnitsOf(alloc, x, s) \subseteq Invocations /\ UnitsOf(alloc', x, s) \subseteq Invocations
        BY DEF UnitsOf
      <3> QED
        BY <3>2, <3>3, <3>4
    <2>7. \A x \in Packages : Conserves(alloc', ent'[x], x)
      BY <1>1, <2>6, StockNow DEF Conserves
    <2>8. \A j \in Invocations : alloc'[j].state # "none" => alloc'[j].package \in Packages
      BY <2>2, <2>4, <2>5, StockNow
    <2>9. \A d \in Callers : HasUnit(call'[d], ent')
      BY NobodyTakes DEF HasUnit
    <2>10. Stock'
      BY <1>1, <2>7, <2>8, <2>9, StockNow, StockFrom
    <2> QED
      BY <1>1, <2>4, <2>5, <2>10
  <1> QED
    BY <1>2, <1>3

\* What a settlement does to the units.
LEMMA SettleUnitStock ==
    ASSUME IInv, NEW c \in Callers, Open(c), Ends(c), call[c].op # "dispatch",
           NEW i \in Invocations, NEW how \in {"captured", "released"}, SettleUnit(i, how),
           alloc[i].state \in {"none", "held"}
    PROVE  /\ Stock' /\ alloc' \in [Invocations -> Allocation] /\ ent' \in [Packages -> Package]
           /\ \A j \in Invocations : j # i => alloc'[j] = alloc[j]
           /\ alloc'[i].state \in {"none", how}
  <1>1. alloc \in [Invocations -> Allocation] /\ ent \in [Packages -> Package] /\ alloc[i] \in Allocation
    BY RowNow
  <1>2. CASE alloc[i].state # "held"
    <2>1. alloc' = alloc /\ ent' = ent
      BY <1>2 DEF SettleUnit
    <2>2. Stock'
      BY <2>1, UnitsKept
    <2> QED
      BY <1>1, <1>2, <2>1, <2>2
  <1>3. CASE alloc[i].state = "held"
    <2>1. PICK p : p = alloc[i].package
      OBVIOUS
    <2>2. p \in Packages /\ ent[p] \in Package
      BY <1>1, <1>3, <2>1, StockNow
    <2>3. /\ alloc' = [alloc EXCEPT ![i].state = how]
          /\ ent' = [ent EXCEPT ![p].reserved = @ - 1,
                                ![p].remaining = IF how = "released" THEN @ + 1 ELSE @]
      BY <1>3, <2>1 DEF SettleUnit
    <2>4. PICK a : a = [package |-> p, state |-> how]
      OBVIOUS
    <2>5. a \in Allocation /\ a.state = how /\ a.package = p
      BY <2>2, <2>4 DEF Allocation
    <2>6. alloc[i] = [package |-> p, state |-> "held"] /\ [alloc[i] EXCEPT !.state = how] = a
      BY <1>1, <1>3, <2>1, <2>4 DEF Allocation
    <2>7. /\ alloc' \in [Invocations -> Allocation] /\ alloc'[i] = a
          /\ \A j \in Invocations : j # i => alloc'[j] = alloc[j]
      <3>1. alloc' = [alloc EXCEPT ![i] = a]
        BY <1>1, <2>3, <2>6
      <3> QED
        BY <1>1, <2>5, <3>1
    <2>8. PICK e : e = [ent[p] EXCEPT !.reserved = @ - 1, !.remaining = IF how = "released" THEN @ + 1 ELSE @]
      OBVIOUS
    <2>9. ent' = [ent EXCEPT ![p] = e]
      BY <1>1, <2>2, <2>3, <2>8
    <2>10. ent[p].remaining \in Int /\ ent[p].reserved \in Int
      BY <2>2 DEF Package
    <2>11. /\ e \in Package /\ e.reserved = ent[p].reserved - 1
           /\ e.remaining = (IF how = "released" THEN ent[p].remaining + 1 ELSE ent[p].remaining)
           /\ e.total = ent[p].total /\ e.status = ent[p].status
      <3>1. PICK n1, n2 : /\ n1 = ent[p].reserved - 1
                          /\ n2 = IF how = "released" THEN ent[p].remaining + 1 ELSE ent[p].remaining
        OBVIOUS
      <3>2. n1 \in Int /\ n2 \in Int
        BY <2>10, <3>1
      <3>3. e = [ent[p] EXCEPT !.reserved = n1, !.remaining = n2]
        BY <2>2, <2>8, <3>1 DEF Package
      <3>4. /\ e \in Package /\ e.reserved = n1 /\ e.remaining = n2
            /\ e.total = ent[p].total /\ e.status = ent[p].status
        BY <2>2, <3>2, <3>3 DEF Package
      <3> QED
        BY <3>1, <3>4
    <2>12. ent' \in [Packages -> Package] /\ ent'[p] = e /\ \A x \in Packages : x # p => ent'[x] = ent[x]
      BY <1>1, <2>2, <2>9, <2>11
    <2>13. /\ Conserves(alloc, ent[p], p) => Conserves(alloc', e, p)
           /\ \A x \in Packages, f \in Package : x # p /\ Conserves(alloc, f, x) => Conserves(alloc', f, x)
      <3>1. alloc'[i] = [package |-> p, state |-> how]
        BY <2>4, <2>7
      <3>2. PICK al2, f : al2 = alloc' /\ f = ent[p]
        OBVIOUS
      <3>3. /\ al2 \in [Invocations -> Allocation] /\ IsUnit(al2[i], p, how)
            /\ IsUnit(alloc[i], p, "held")
            /\ \A j \in Invocations : j # i => al2[j] = alloc[j]
            /\ f \in Package /\ Returns(f, e, how)
        BY <2>2, <2>6, <2>7, <2>11, <3>1, <3>2 DEF Returns, IsUnit
      <3>4. /\ Conserves(alloc, f, p) => Conserves(al2, e, p)
            /\ \A x \in Packages, y \in Package : x # p /\ Conserves(alloc, y, x) => Conserves(al2, y, x)
        BY <1>1, <2>2, <2>11, <3>3, ConservesSettle
      <3> QED
        BY <3>2, <3>4
    <2>14. \A x \in Packages : Conserves(alloc', ent'[x], x)
      BY <1>1, <2>12, <2>13, StockNow
    <2>15. \A j \in Invocations : alloc'[j].state # "none" => alloc'[j].package \in Packages
      BY <2>2, <2>5, <2>7, StockNow
    <2>16. \A x \in Packages : ent'[x].status = "none" => ent'[x] = NoEntitlement
      <3>1. ent[p].status # "none"
        <4>1. i \in UnitsOf(alloc, p, "held")
          BY <2>6 DEF UnitsOf
        <4>2. Cardinality(UnitsOf(alloc, p, "held")) # 0
          BY <4>1, UnitSets, FS_EmptySet
        <4>3. ent[p].reserved # 0
          BY <2>2, <4>2, StockNow DEF Conserves
        <4> QED
          BY <2>2, <4>3, StockNow DEF NoEntitlement
      <3> QED
        BY <2>11, <2>12, <3>1, StockNow
    <2>17. \A d \in Callers : HasUnit(call'[d], ent')
      BY NobodyTakes DEF HasUnit
    <2>18. Stock'
      BY <2>14, <2>15, <2>16, <2>17, StockFrom
    <2> QED
      BY <2>5, <2>7, <2>12, <2>18
  <1> QED
    BY <1>2, <1>3

-----------------------------------------------------------------------------
(* Refusals, holds and settlements *)

LEMMA StepCommitRefusal ==
    ASSUME IInv, NEW c \in Callers, CommitRefusal(c), Ends(c), UNCHANGED <<now, prices, rail, sweep>>
    PROVE  IInv' /\ FinalStep
  <1>1. call[c].plan = "refuse" /\ rsv' = rsv
    BY DEF CommitRefusal
  <1>2. Open(c)
    BY <1>1, IdleCall DEF Open
  <1>3. PICK i, row : i = call[c].inv /\ row = inv[i]
    OBVIOUS
  <1>4. i \in Invocations /\ PlanOf(call[c]) /\ PlanFits(call[c], row)
    BY <1>2, <1>3, OpenIsApart
  <1>5. row.phase = "accepted" /\ row \in Row
    BY <1>1, <1>3, <1>4, RowNow DEF PlanOf, PlanFits
  <1>6. PICK ch, o : ch = row.charge /\ o = row.outcome
    OBVIOUS
  <1>7. ch \in Charges /\ o \in Results /\ "refused" \in Phases /\ "" \in Named
    BY <1>5, <1>6 DEF Row, Charges, Results, Phases, Terminal, Named
  <1>8. PICK m : m = Moved(row, "refused", ch, "", o)
    OBVIOUS
  <1>9. IsMoved(m, row, "refused", ch, "", o)
    BY <1>5, <1>7, <1>8, MovedRow, Zenon
  <1>10. inv' = [inv EXCEPT ![i] = m]
    BY <1>3, <1>6, <1>8 DEF CommitRefusal, Applies
  <1>11. m \in Row /\ m.phase = "refused" /\ m.fence = row.fence
    BY <1>9 DEF IsMoved
  <1>12. inv' \in [Invocations -> Row] /\ inv'[i] = m /\ \A j \in Invocations : j # i => inv'[j] = inv[j]
    BY <1>4, <1>10, <1>11, RowNow
  <1>13. rsv[i] = NoReservation /\ alloc[i] = NoAllocation /\ row.fence = None
    BY <1>3, <1>4, <1>5, RowNow DEF PhaseHolds, Unheld
  <1>14. /\ Stock' /\ alloc' \in [Invocations -> Allocation] /\ ent' \in [Packages -> Package]
         /\ \A j \in Invocations : j # i => alloc'[j] = alloc[j]
         /\ alloc'[i].state \in {"none", "released"}
    <2>1. ReturnUnit(i, call[c].package) /\ call[c].op # "dispatch"
      BY <1>1, <1>3, <1>4 DEF CommitRefusal, PlanOf
    <2> QED
      BY <1>2, <1>4, <1>13, <2>1, ReturnUnitStock
  <1>15. PhaseHolds(inv'[i], rsv'[i], alloc'[i])
    BY <1>1, <1>11, <1>12, <1>13, <1>14 DEF PhaseHolds, Holding
  <1>16. RailKnows(inv'[i], rsv'[i], rail[i])
    BY <1>1, <1>11, <1>12, <1>13 DEF RailKnows, NoReservation
  <1>17. \A j \in Invocations : Alike(rsv[j], rsv'[j])
    BY <1>1 DEF Alike
  <1>18. rsv' \in [Invocations -> Reservation]
    BY <1>1, <1>4, RowNow
  <1> QED
    BY <1>1, <1>2, <1>3, <1>11, <1>12, <1>14, <1>15, <1>16, <1>17, <1>18, CommitStep

LEMMA StepCommitHold ==
    ASSUME IInv, NEW c \in Callers, CommitHold(c), Ends(c), UNCHANGED <<now, prices, rail, sweep>>
    PROVE  IInv' /\ FinalStep
  <1>1. call[c].plan \in {"hold", "hold_unknown"}
    BY DEF CommitHold
  <1>2. Open(c)
    BY <1>1, IdleCall DEF Open
  <1>3. PICK i, row, at, pay : /\ i = call[c].inv /\ row = inv[i] /\ at = call[c].at
                               /\ pay = IF row.mode = "free" THEN "not_required"
                                        ELSE IF call[c].plan = "hold" THEN "authorized" ELSE "unknown"
    OBVIOUS
  <1>4. /\ i \in Invocations /\ PlanOf(call[c]) /\ PlanFits(call[c], row) /\ Answered(call[c], row, rail[i])
        /\ at \in Nat /\ at <= now
    BY <1>2, <1>3, OpenIsApart
  <1>5. call[c].op = "reserve" /\ row.phase = "accepted" /\ row \in Row
    BY <1>1, <1>3, <1>4, RowNow DEF PlanOf, PlanFits
  <1>6. PICK r : r = [status |-> "held", amount |-> row.price, period |-> PeriodOf(at), known |-> pay = "authorized"]
    OBVIOUS
  <1>7. rsv' = [rsv EXCEPT ![i] = r] /\ HoldUnit(i, call[c].package)
    BY <1>3, <1>6 DEF CommitHold
  <1>8. PeriodOf(at) \in Nat /\ row.price \in Nat
    BY <1>4, <1>5, Periods DEF Row
  <1>9. r \in Reservation /\ r.status = "held" /\ r.amount = row.price /\ r.period = PeriodOf(at)
    BY <1>6, <1>8 DEF Reservation
  <1>10. r.known <=> pay = "authorized"
    BY <1>6
  <1>11. rsv' \in [Invocations -> Reservation] /\ rsv'[i] = r /\ \A j \in Invocations : j # i => rsv'[j] = rsv[j]
    BY <1>4, <1>7, <1>9, RowNow
  <1>12. PICK o : o = row.outcome
    OBVIOUS
  <1>13. o \in Results /\ "reserved" \in Phases /\ "reserved" \in Charges /\ pay \in Named /\ pay # ""
    BY <1>3, <1>5, <1>12 DEF Row, Charges, Results, Phases, Holding, Named, Payments
  <1>14. PICK m : m = Moved(row, "reserved", "reserved", pay, o)
    OBVIOUS
  <1>15. IsMoved(m, row, "reserved", "reserved", pay, o)
    BY <1>5, <1>13, <1>14, MovedRow, Zenon
  <1>16. PICK n : n = [m EXCEPT !.deadline = at + Window]
    OBVIOUS
  <1>17. inv' = [inv EXCEPT ![i] = n]
    BY <1>3, <1>12, <1>14, <1>16 DEF CommitHold, Applies
  <1>18. at + Window \in Times
    <2>1. Window \in Nat
      BY CommerceAssumption
    <2> QED
      BY <1>4, <2>1 DEF Times
  <1>19. m \in Row /\ m.phase = "reserved" /\ m.mode = row.mode /\ m.fence = row.fence /\ m.payment = pay
    BY <1>13, <1>15 DEF IsMoved
  <1>20. n \in Row /\ n.phase = "reserved" /\ n.mode = row.mode /\ n.fence = row.fence /\ n.payment = pay
    BY <1>16, <1>18, <1>19 DEF Row
  <1>21. inv' \in [Invocations -> Row] /\ inv'[i] = n /\ \A j \in Invocations : j # i => inv'[j] = inv[j]
    BY <1>4, <1>17, <1>20, RowNow
  <1>22. rsv[i] = NoReservation /\ alloc[i] = NoAllocation /\ row.fence = None
    BY <1>3, <1>4, <1>5, RowNow DEF PhaseHolds, Unheld
  <1>23. /\ Stock' /\ alloc' \in [Invocations -> Allocation] /\ ent' \in [Packages -> Package]
         /\ \A j \in Invocations : j # i => alloc'[j] = alloc[j]
         /\ alloc'[i].state \in {"none", "held"}
    BY <1>2, <1>4, <1>5, <1>7, <1>22, HoldUnitStock
  <1>24. PhaseHolds(inv'[i], rsv'[i], alloc'[i])
    BY <1>9, <1>11, <1>20, <1>21, <1>22, <1>23 DEF PhaseHolds, Unheld
  <1>25. RailKnows(inv'[i], rsv'[i], rail[i])
    <2>1. row.mode # "free" /\ pay # "unknown" => pay = "authorized" /\ rail[i].auth = "authorized"
      BY <1>1, <1>3, <1>4 DEF Answered
    <2>2. row.mode # "free" => pay \in {"authorized", "unknown"}
      BY <1>3
    <2> QED
      BY <1>9, <1>10, <1>11, <1>20, <1>21, <1>22, <2>1, <2>2 DEF RailKnows
  <1>26. Fits(rsv', now, raised) /\ NoneAfter(rsv', PeriodOf(now))
    <2>1. Leaves(rsv, at, raised, row.price)
      <3>1. LeavesFor(rsv, call[c], inv, raised)
        BY MoneyNow
      <3> QED
        BY <1>1, <1>3, <1>5, <3>1 DEF LeavesFor, Planned, Planning
    <2>2. PICK g2 : g2 = rsv'
      OBVIOUS
    <2>3. /\ g2 \in Rsvs /\ g2[i].amount = row.price /\ g2[i].status = "held" /\ g2[i].period = PeriodOf(at)
          /\ \A j \in Invocations : j # i => g2[j] = rsv[j]
      BY <1>9, <1>11, <2>2 DEF Rsvs
    <2>4. rsv[i].status = "none"
      BY <1>22 DEF NoReservation
    <2>5. now \in Nat /\ raised \in Nat
      BY DEF IInv, TypeOK
    <2>6. Leaves(rsv, at, raised, g2[i].amount)
      BY <2>1, <2>3
    <2>7. Fits(g2, now, raised) /\ NoneAfter(g2, PeriodOf(now))
      BY <1>4, <2>3, <2>4, <2>5, <2>6, MoneyNow, FitsHold
    <2> QED
      BY <2>2, <2>7
  <1>27. call[c].op # "dispatch"
    BY <1>5
  <1> QED
    BY <1>2, <1>3, <1>11, <1>20, <1>21, <1>23, <1>24, <1>25, <1>26, <1>27, CommitStep

LEMMA StepCommitSettlement ==
    ASSUME IInv, NEW c \in Callers, CommitSettlement(c), Ends(c), UNCHANGED <<now, prices, rail, sweep>>
    PROVE  IInv' /\ FinalStep
  <1>1. call[c].plan \in {"capture", "release", "deny"}
    BY DEF CommitSettlement
  <1>2. Open(c)
    BY <1>1, IdleCall DEF Open
  <1>3. PICK i, row, how, pay, to, o :
          /\ i = call[c].inv /\ row = inv[i] /\ o = call[c].outcome
          /\ how = IF call[c].plan = "capture" THEN "captured" ELSE "released"
          /\ pay = IF call[c].plan = "deny" THEN "denied"
                   ELSE IF row.mode = "free" THEN "" ELSE call[c].want
          /\ to = IF call[c].op = "finalize" THEN "finalized" ELSE "released"
    OBVIOUS
  <1>4. /\ i \in Invocations /\ PlanOf(call[c]) /\ PlanFits(call[c], row) /\ Answered(call[c], row, rail[i])
        /\ call[c] \in Call
    BY <1>2, <1>3, OpenIsApart
  <1>5. /\ row.phase \in Holding /\ row \in Row /\ rsv[i] \in Reservation
        /\ call[c].op \in {"reserve", "finalize", "release"}
        /\ call[c].op # "finalize" => how = "released"
        /\ call[c].plan # "deny" => call[c].want # "none"
    BY <1>1, <1>3, <1>4, RowNow DEF PlanOf, PlanFits, Holding
  <1>6. PICK q : q = (rsv[i].known \/ (call[c].plan # "deny" /\ row.mode # "free"))
    OBVIOUS
  <1>7. PICK r : r = [rsv[i] EXCEPT !.status = how, !.known = q]
    OBVIOUS
  <1>8. q \in BOOLEAN
    BY <1>6
  <1>9. /\ r \in Reservation /\ r.status = how /\ r.amount = rsv[i].amount /\ r.period = rsv[i].period
        /\ r.known = q
    BY <1>3, <1>5, <1>7, <1>8 DEF Reservation
  <1>10. rsv' = [rsv EXCEPT ![i] = r]
    <2>1. rsv' = [rsv EXCEPT ![i].status = how,
                             ![i].known = @ \/ (call[c].plan # "deny" /\ row.mode # "free")]
      BY <1>3 DEF CommitSettlement
    <2> QED
      BY <1>4, <1>6, <1>7, <2>1, RowNow DEF Reservation
  <1>11. rsv' \in [Invocations -> Reservation] /\ rsv'[i] = r /\ \A j \in Invocations : j # i => rsv'[j] = rsv[j]
    BY <1>4, <1>9, <1>10, RowNow
  <1>12. /\ how \in {"captured", "released"} /\ how \in Charges /\ to \in Phases /\ to \in {"finalized", "released"}
         /\ pay \in Named /\ o \in Results
    BY <1>3, <1>4, <1>5 DEF Charges, Phases, Terminal, Named, Payments, Results, Call
  <1>13. PICK m : m = Moved(row, to, how, pay, o)
    OBVIOUS
  <1>14. IsMoved(m, row, to, how, pay, o)
    BY <1>5, <1>12, <1>13, MovedRow, Zenon
  <1>15. inv' = [inv EXCEPT ![i] = m] /\ SettleUnit(i, how)
    BY <1>3, <1>13 DEF CommitSettlement, Applies
  <1>16. m \in Row /\ m.phase = to /\ m.mode = row.mode /\ m.fence = row.fence /\ m.charge = how
    BY <1>14 DEF IsMoved
  <1>17. inv' \in [Invocations -> Row] /\ inv'[i] = m /\ \A j \in Invocations : j # i => inv'[j] = inv[j]
    BY <1>4, <1>15, <1>16, RowNow
  <1>18. rsv[i].status = "held" /\ alloc[i].state \in {"none", "held"}
    BY <1>3, <1>4, <1>5, RowNow DEF PhaseHolds
  <1>19. /\ Stock' /\ alloc' \in [Invocations -> Allocation] /\ ent' \in [Packages -> Package]
         /\ \A j \in Invocations : j # i => alloc'[j] = alloc[j]
         /\ alloc'[i].state \in {"none", how}
    BY <1>2, <1>4, <1>5, <1>12, <1>15, <1>18, SettleUnitStock
  <1>20. PhaseHolds(inv'[i], rsv'[i], alloc'[i])
    <2>1. to = "released" => how = "released"
      BY <1>3, <1>5
    <2> QED
      BY <1>9, <1>11, <1>12, <1>16, <1>17, <1>19, <2>1 DEF PhaseHolds, Unheld, Holding
  <1>21. RailKnows(inv'[i], rsv'[i], rail[i])
    <2> SUFFICES ASSUME row.mode # "free"
                 PROVE  /\ q => rail[i].auth = "authorized"
                        /\ row.fence # None => rail[i].auth = "authorized"
                        /\ how = "captured" => rail[i].settled = "captured"
                        /\ how = "released" => rail[i].settled = "voided" \/ rail[i].auth = "denied"
      BY <1>9, <1>11, <1>12, <1>16, <1>17 DEF RailKnows
    <2>1. RailKnows(row, rsv[i], rail[i])
      BY <1>3, <1>4, RowNow
    <2>2. q => rail[i].auth = "authorized"
      BY <1>1, <1>4, <1>6, <2>1 DEF RailKnows, Answered
    <2>3. row.fence # None => rail[i].auth = "authorized"
      BY <2>1 DEF RailKnows
    <2>4. how = "captured" => rail[i].settled = "captured"
      BY <1>1, <1>3, <1>4 DEF Answered
    <2>5. call[c].want \in {"none", "captured", "voided"}
      BY <1>4 DEF Call
    <2>6. how = "released" => rail[i].settled = "voided" \/ rail[i].auth = "denied"
      BY <1>1, <1>3, <1>4, <1>5, <2>5 DEF Answered
    <2> QED
      BY <2>2, <2>3, <2>4, <2>6
  <1>22. Fits(rsv', now, raised) /\ NoneAfter(rsv', PeriodOf(now))
    <2>1. PICK g2 : g2 = rsv'
      OBVIOUS
    <2>2. /\ g2 \in Rsvs /\ g2[i].amount = rsv[i].amount /\ g2[i].period = rsv[i].period
          /\ g2[i].status \in {"captured", "released"}
          /\ \A j \in Invocations : j # i => g2[j] = rsv[j]
      BY <1>9, <1>11, <1>12, <2>1 DEF Rsvs
    <2>3. now \in Nat /\ raised \in Nat
      BY DEF IInv, TypeOK
    <2>4. Fits(g2, now, raised) /\ NoneAfter(g2, PeriodOf(now))
      BY <1>4, <1>18, <2>2, <2>3, MoneyNow, FitsSettle
    <2> QED
      BY <2>1, <2>4
  <1>23. call[c].op # "dispatch"
    BY <1>5
  <1>24. /\ i \in Invocations /\ i = call[c].inv
         /\ inv[i].fence # None => inv'[i].fence = inv[i].fence
    BY <1>3, <1>4, <1>16, <1>17
  <1>25. \A j \in Invocations : j # i => inv'[j] = inv[j] /\ rsv'[j] = rsv[j] /\ alloc'[j] = alloc[j]
    BY <1>11, <1>17, <1>19
  <1> QED
    BY <1>2, <1>11, <1>17, <1>19, <1>20, <1>21, <1>22, <1>23, <1>24, <1>25, CommitStep

-----------------------------------------------------------------------------
(* The invariant *)

LEMMA InitHolds ==
    Init => IInv
  <1> SUFFICES ASSUME Init PROVE IInv
    OBVIOUS
  <1>1. TypeOK
    BY IdleCall DEF Init, TypeOK, Quote, Modes, Times, NoRow, Row, Phases, Payments, Reservation, NoReservation,
          Allocation, NoAllocation, Package, NoEntitlement, Rail
  <1>2. \A c \in Callers : call[c] = Idle
    BY DEF Init
  <1>3. Transactions
    BY <1>2 DEF Transactions, CallFits, Exclusive, Open
  <1>4. \A i \in Invocations : inv[i] = NoRow /\ rsv[i] = NoReservation /\ alloc[i] = NoAllocation
    BY DEF Init
  <1>5. Rows
    BY <1>4 DEF Rows, RowFits, PhaseHolds, RailKnows, NoRow, NoReservation, NoAllocation, Holding, Unheld
  <1>6. \A p \in Packages : ent[p] = NoEntitlement
    BY DEF Init
  <1>7. ASSUME NEW p \in Packages PROVE Conserves(alloc, ent[p], p)
    <2>1. ASSUME NEW s, s # "none" PROVE UnitsOf(alloc, p, s) = {}
      <3> SUFFICES ASSUME NEW i \in UnitsOf(alloc, p, s) PROVE FALSE
        OBVIOUS
      <3>1. i \in Invocations /\ alloc[i] = [package |-> p, state |-> s]
        BY DEF UnitsOf
      <3>2. alloc[i].state = s /\ alloc[i].state = "none"
        BY <1>4, <3>1 DEF NoAllocation
      <3> QED
        BY <2>1, <3>2
    <2>2. Cardinality(UnitsOf(alloc, p, "held")) = 0 /\ Cardinality(UnitsOf(alloc, p, "captured")) = 0
      BY <2>1, FS_EmptySet
    <2> QED
      BY <1>6, <2>2 DEF Conserves, NoEntitlement
  <1>8. Stock
    BY <1>2, <1>4, <1>6, <1>7, IdleCall, UnitsOfLedger DEF Stock, NoAllocation
  <1>9. Money
    <2>1. rsv \in Rsvs
      BY <1>1, SumsOfLedger
    <2>2. Held(rsv) = {} /\ \A p : HeldIn(rsv, p) = {} /\ Taken(rsv, p) = {}
      BY <1>4 DEF Held, HeldIn, Taken, NoReservation
    <2>3. Fits(rsv, now, raised)
      <3>1. Sum(rsv, {}) = 0 /\ raised = 0
        BY <2>1, SumEmpty DEF Init
      <3>2. /\ Sum(rsv, Held(rsv)) = 0
            /\ \A p : Sum(rsv, HeldIn(rsv, p)) = 0 /\ Sum(rsv, Taken(rsv, p)) = 0
        BY <2>2, <3>1
      <3> QED
        BY <3>1, <3>2 DEF Fits
    <2>4. \A i \in Invocations : rsv[i].status = "none"
      BY <1>4 DEF NoReservation
    <2>5. budget = {}
      BY DEF Init
    <2> QED
      BY <1>2, <2>3, <2>4, <2>5, IdleCall, SumsOfLedger DEF Money
  <1> QED
    BY <1>1, <1>3, <1>5, <1>8, <1>9 DEF IInv

LEMMA StepCommit ==
    ASSUME IInv, NEW c \in Callers, Commit(c)
    PROVE  IInv' /\ FinalStep
  <1>1. Ends(c) /\ UNCHANGED <<now, prices, rail, sweep>>
    BY DEF Commit
  <1> QED
    BY <1>1, StepCommitRefusal, StepCommitHold, StepCommitAuthorization, StepCommitSettlement,
       StepCommitDispatch DEF Commit

LEMMA NextHolds ==
    IInv /\ [Next]_vars => IInv'
  <1> SUFFICES ASSUME IInv, [Next]_vars PROVE IInv'
    OBVIOUS
  <1>1. CASE UNCHANGED vars
    <2>1. UNCHANGED <<now, ledger, budget, raised, rail, call>> /\ UNCHANGED <<terms, quote, sweep>>
      BY <1>1 DEF vars, prices
    <2>2. TypeOK'
      BY <2>1 DEF IInv, TypeOK, ledger
    <2> QED
      BY <2>1, <2>2, LedgerKept
  <1>2. CASE \/ PublishTerms \/ RetireTerms \/ MintQuote \/ AcceptInvocation
             \/ SetBudget \/ GrantEntitlement \/ RetireEntitlement \/ Transition \/ Tick
    BY <1>2, StepPublishTerms, StepRetireTerms, StepMintQuote, StepAcceptInvocation, StepSetBudget,
       StepGrantEntitlement, StepRetireEntitlement, StepTransition, StepTick
  <1>3. CASE \E c \in Gateways, i \in Invocations :
                \/ BeginReserve(c, i) \/ BeginResolve(c, i) \/ BeginRelease(c, i) \/ BeginDispatch(c, i)
                \/ \E o \in Outcomes : BeginFinalize(c, i, o)
    BY <1>3, GatewaysCall, StepBeginReserve, StepBeginResolve, StepBeginRelease, StepBeginDispatch, StepBeginFinalize
  <1>4. CASE \E c \in Callers : Authorize(c) \/ ResolveUnknownHold(c) \/ SettlePayment(c) \/ Commit(c) \/ Crash(c)
    BY <1>4, StepAuthorize, StepResolveUnknownHold, StepSettlePayment, StepCommit, StepCrash
  <1>5. CASE SweepStart \/ SweepListReserved \/ SweepEnd
    BY <1>5, StepSweep
  <1>6. CASE \E i \in Invocations : SweepRefuse(i) \/ SweepRelease(i)
    BY <1>6, StepSweepRefuse, StepSweepRelease
  <1> QED
    BY <1>1, <1>2, <1>3, <1>4, <1>5, <1>6 DEF Next

\* Every reachable state of the ledger satisfies the invariant.
THEOREM CommerceInvariant == Spec => []IInv
  <1> QED
    BY InitHolds, NextHolds, PTL DEF Spec

\* Every variable keeps its type, amounts and clocks included: in particular a
\* package's counters stay integers and a quote is minted from terms that exist.
THEOREM TypeCorrect == Spec => []TypeOK
  <1>1. IInv => TypeOK
    BY DEF IInv
  <1> QED
    BY <1>1, CommerceInvariant, PTL

\* What a tenant has spent in a month and has held never exceeds the highest
\* limit it was granted, for any prices, any number of gateways and any limits
\* set meanwhile: Reserve's check of the balance and its hold are one
\* transaction under the budget's lock, and a month's captures come out of its
\* own holds.
THEOREM NeverOverBudget == Spec => []BudgetHolds
  <1>1. IInv => BudgetHolds
    BY DEF IInv, Money
  <1> QED
    BY <1>1, CommerceInvariant, PTL

\* Money and units are held from reserved to the end and no longer, and end
\* the way the row says; a reservation that was refused has neither, also when
\* the rail denied it with a unit in hand (Reserve, Finalize, Release write all of them in one
\* commit).
THEOREM HoldsFollow == Spec => []HoldFollowsPhase
  <1>1. IInv => HoldFollowsPhase
    <2> SUFFICES ASSUME IInv, NEW i \in Invocations
                 PROVE  /\ rsv[i].status = "held" <=> inv[i].phase \in Holding
                        /\ alloc[i].state # "none" =>
                              alloc[i].state = IF inv[i].phase = "refused" THEN "released"
                                               ELSE rsv[i].status
                        /\ inv[i].phase = "refused" => rsv[i].status = "none"
                        /\ inv[i].phase \in {"released", "finalized"} => inv[i].charge = rsv[i].status
                        /\ inv[i].phase = "released" => rsv[i].status = "released"
      BY DEF HoldFollowsPhase
    <2>1. inv[i].phase \in Unheld \union Holding \union {"released", "finalized"}
      BY RowNow DEF Row, Phases, Unheld, Terminal
    <2>2. PhaseHolds(inv[i], rsv[i], alloc[i])
      BY RowNow
    <2>3. CASE inv[i].phase \in Unheld
      BY <2>2, <2>3 DEF PhaseHolds, Unheld, Holding, NoReservation, NoAllocation
    <2>4. CASE inv[i].phase \in Holding
      BY <2>2, <2>4 DEF PhaseHolds, Holding
    <2>5. CASE inv[i].phase \in {"released", "finalized"}
      BY <2>2, <2>5 DEF PhaseHolds, Holding
    <2> QED
      BY <2>1, <2>3, <2>4, <2>5
  <1> QED
    BY <1>1, CommerceInvariant, PTL

\* The units of a package are conserved, for packages of any size
\* (holdEntitlementUnit, captureEntitlementUnit, releaseEntitlementUnit).
THEOREM UnitsNeverLost == Spec => []UnitsAreConserved
  <1>1. IInv => UnitsAreConserved
    BY DEF IInv, Stock
  <1> QED
    BY <1>1, CommerceInvariant, PTL

\* The ledger closes a reservation only the way the rail has, and dispatches
\* only money the rail has authorized, whatever answers were lost
\* (settlePayment, resolveAuthorization, resolveUnknownHold).
THEOREM LedgerAgreesWithRail == Spec => []RailAgrees
  <1>1. IInv => RailAgrees
    BY DEF IInv, Rows, RowFits, RailKnows, RailAgrees
  <1> QED
    BY <1>1, CommerceInvariant, PTL

\* A step that leaves rows, holds and units alone ends nothing.
LEMMA NothingFinished ==
    ASSUME UNCHANGED <<inv, rsv, alloc>>
    PROVE  FinalStep
  BY DEF FinalStep

LEMMA NextIsFinal ==
    IInv /\ [Next]_vars => [FinalStep]_vars
  <1> SUFFICES ASSUME IInv, Next PROVE FinalStep
    OBVIOUS
  <1>1. CASE \/ PublishTerms \/ RetireTerms \/ MintQuote \/ SetBudget
             \/ GrantEntitlement \/ RetireEntitlement \/ Tick
    <2>1. UNCHANGED <<inv, rsv, alloc>>
      BY <1>1 DEF PublishTerms, RetireTerms, MintQuote, SetBudget, GrantEntitlement, RetireEntitlement, Tick, ledger
    <2> QED
      BY <2>1, NothingFinished
  <1>2. CASE AcceptInvocation \/ Transition
    BY <1>2, StepAcceptInvocation, StepTransition
  <1>3. CASE \E c \in Gateways, i \in Invocations :
                \/ BeginReserve(c, i) \/ BeginResolve(c, i) \/ BeginRelease(c, i) \/ BeginDispatch(c, i)
                \/ \E o \in Outcomes : BeginFinalize(c, i, o)
    <2>1. Unchanging
      BY <1>3 DEF BeginReserve, BeginResolve, BeginRelease, BeginDispatch, BeginFinalize
    <2> QED
      BY <2>1, NothingFinished DEF Unchanging, ledger
  <1>4. CASE \E c \in Callers : Authorize(c) \/ ResolveUnknownHold(c) \/ SettlePayment(c) \/ Crash(c)
    <2>1. UNCHANGED ledger
      BY <1>4 DEF Authorize, ResolveUnknownHold, SettlePayment, Crash, Unchanging
    <2> QED
      BY <2>1, NothingFinished DEF ledger
  <1>5. CASE \E c \in Callers : Commit(c)
    BY <1>5, StepCommit
  <1>6. CASE SweepStart \/ SweepListReserved \/ SweepEnd \/ \E i \in Invocations : SweepRelease(i)
    <2>1. Unchanging
      BY <1>6 DEF SweepStart, SweepListReserved, SweepEnd, SweepRelease
    <2> QED
      BY <2>1, NothingFinished DEF Unchanging, ledger
  <1>7. CASE \E i \in Invocations : SweepRefuse(i)
    BY <1>7, StepSweepRefuse
  <1> QED
    BY <1>1, <1>2, <1>3, <1>4, <1>5, <1>6, <1>7 DEF Next

\* A finished invocation, its hold and its unit never change again, and a
\* dispatch fence is set once: every call that would write them finds its row
\* in another phase than the one it requires.
THEOREM FinishedStaysFinished == Spec => FinishedIsFinal
  <1>1. [FinalStep]_vars => [\A i \in Invocations :
            /\ inv[i].phase \in Terminal => UNCHANGED <<inv[i], rsv[i], alloc[i]>>
            /\ inv[i].fence # None => UNCHANGED inv[i].fence]_vars
    BY DEF FinalStep
  <1> QED
    BY <1>1, NextIsFinal, CommerceInvariant, PTL DEF Spec, FinishedIsFinal
=============================================================================
