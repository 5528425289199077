--------------------------- MODULE EventRelayProofs --------------------------
(***************************************************************************)
(* Proofs about the safety of EventRelay, for any number of replicas,      *)
(* events and rows, any batch size and any timing that RelayAssumption     *)
(* allows.  Three arguments share one invariant: how old the lease of a    *)
(* relay can be at each of its calls; what a batch owes to the rows that   *)
(* were accepted before its own; and who still knows of a row that a       *)
(* handler notified its relay of.  The last part shows that the outbox     *)
(* implements EventDelivery, as far as safety goes.                        *)
(***************************************************************************)
EXTENDS EventRelay, FiniteSetTheorems, WellFoundedInduction, TLAPS

\* TypeOK, with the stream as a sequence in which no row appears twice.
Types ==
    /\ rows \in [Ids -> OutboxRow]
    /\ lease \in Leases
    /\ relay \in [Replicas -> Relay]
    /\ wake \in [Replicas -> BOOLEAN]
    /\ stream \in Seq(Ids)
    /\ crashes \in 0..MaxCrashes

NoRepeats == \A j, k \in 1..Len(stream) : stream[j] = stream[k] => j = k

\* The calls a relay makes on the renewal it did last.
Relying == {"query", "row", "append", "mark"}

\* A recent renewal still holds with the rest of its term; a relay in an XADD
\* renewed so late that the longest call ends before the lease does.
HoldsLease(r) ==
    /\ relay[r].pc \in Relying /\ relay[r].age < RenewEvery =>
          lease.holder = r /\ lease.left >= LeaseTTL - relay[r].age
    /\ relay[r].pc = "append" =>
          lease.holder = r /\ lease.left + relay[r].spent >= MaxStall

\* Ids are handed out in order, and a row follows committed rows only.
RowsInOrder ==
    /\ \A i, j \in Ids : i < j /\ rows[j].state # "none" => rows[i].state # "none"
    /\ \A i \in Ids : rows[i].after \subseteq Committed /\ \A j \in rows[i].after : j < i
    /\ \A i \in Ids : rows[i].notified => i \in Committed

\* What is published is in the stream, and so is what it had to follow.
PublishedIsAppended ==
    \A i \in Ids : rows[i].state \in {"published", "purged"} => i \in Appended

Working == {"row", "append", "mark"}

\* A batch holds committed rows; what a row of it must follow is in the stream
\* or earlier in the batch.
InOrder(r) ==
    relay[r].pc \in Working =>
        /\ relay[r].batch # << >>
        /\ \A k \in 1..Len(relay[r].batch) :
              /\ relay[r].batch[k] \in Committed
              /\ \A j \in rows[relay[r].batch[k]].after :
                    j \in Appended \/ \E l \in 1..Len(relay[r].batch) : l < k /\ relay[r].batch[l] = j
        /\ relay[r].pc = "mark" => relay[r].batch[1] \in Appended

InBatch(r, i) == \E k \in 1..Len(relay[r].batch) : relay[r].batch[k] = i

\* A row that relay r was notified of is known to a token, to the pass that
\* will read or has read it, or to the short retry.
Knows(r, i) ==
    \/ wake[r]
    \/ relay[r].pc \in {"renew", "query"}
    \/ relay[r].pc \in Working /\ (relay[r].full \/ InBatch(r, i))
    \/ relay[r].pc \in {"release", "idle"} /\ InBackoff(r)

Owed(r) == {i \in Pending : rows[i].by = r /\ rows[i].notified}

IInv ==
    /\ Types
    /\ NoRepeats
    /\ RowsInOrder
    /\ PublishedIsAppended
    /\ \A r \in Replicas : HoldsLease(r) /\ InOrder(r) /\ \A i \in Owed(r) : Knows(r, i)

-----------------------------------------------------------------------------
(* The batch a relay reads *)

\* A set of natural numbers has a least element.
LEMMA LeastOf ==
    ASSUME NEW T \in SUBSET Nat, T # {}
    PROVE  \E m \in T : \A n \in T : m <= n
  <1>1. PICK x \in T : \A y \in T : ~(<<y, x>> \in OpToRel(<, Nat))
    BY NatLessThanWellFounded, WFMin
  <1>2. ASSUME NEW y \in T PROVE x <= y
    <2>1. ~(<<y, x>> \in {ss \in Nat \X Nat : ss[1] < ss[2]})
      BY <1>1 DEF OpToRel
    <2>2. ~(y < x)
      BY <2>1
    <2> QED
      BY <2>2
  <1> QED
    BY <1>2

LEMMA BatchFacts ==
    ASSUME NEW b
    PROVE  b \in Batches <=> b \in Seq(Ids) /\ Len(b) <= BatchSize
  <1>1. ASSUME b \in Batches PROVE b \in Seq(Ids) /\ Len(b) <= BatchSize
    <2>1. PICK n \in 0..BatchSize : b \in [1..n -> Ids]
      BY <1>1 DEF Batches
    <2>2. n \in Nat /\ n <= BatchSize
      BY <2>1, RelayAssumption
    <2>3. b \in Seq(Ids) /\ Len(b) = n
      BY <2>1, <2>2
    <2> QED
      BY <2>2, <2>3
  <1>2. ASSUME b \in Seq(Ids), Len(b) <= BatchSize PROVE b \in Batches
    <2>1. Len(b) \in 0..BatchSize /\ b \in [1..Len(b) -> Ids]
      BY <1>2, RelayAssumption
    <2> QED
      BY <2>1 DEF Batches
  <1> QED
    BY <1>1, <1>2

\* The rows of S from the lowest on, in order, with none left out.
Prefix(b, S) ==
    /\ b \in Batches
    /\ \A k \in 1..Len(b) : b[k] \in S
    /\ \A k \in 1..(Len(b) - 1) : b[k] < b[k + 1]
    /\ \A i \in S : (\E k \in 1..Len(b) : b[k] = i) \/ (\A k \in 1..Len(b) : b[k] < i)

\* A prefix that is not full and leaves a row can be made longer.
LEMMA LongerPrefix ==
    ASSUME NEW S \in SUBSET Ids, NEW b, Prefix(b, S), Len(b) < BatchSize,
           NEW i \in S, \A k \in 1..Len(b) : b[k] # i
    PROVE  \E m \in Ids : Prefix(Append(b, m), S)
  <1> DEFINE T == {j \in S : \A k \in 1..Len(b) : b[k] # j}
  <1>1. T \subseteq Nat /\ T # {}
    <2>1. i \in T
      OBVIOUS
    <2>2. S \subseteq Nat
      BY RelayAssumption DEF Ids
    <2> QED
      BY <2>1, <2>2
  <1>2. PICK m \in T : \A j \in T : m <= j
    BY <1>1, LeastOf
  <1>3. b \in Seq(Ids) /\ Len(b) \in Nat /\ m \in Ids
    BY BatchFacts DEF Prefix
  <1>4. PICK c : c = Append(b, m)
    OBVIOUS
  <1>5. /\ c \in Seq(Ids) /\ Len(c) = Len(b) + 1 /\ c[Len(b) + 1] = m
        /\ \A k \in 1..Len(b) : c[k] = b[k]
    BY <1>3, <1>4
  <1>6. c \in Batches
    BY <1>3, <1>5, BatchFacts, RelayAssumption
  <1>7. \A k \in 1..Len(b) : b[k] < m /\ b[k] \in S
    BY <1>2 DEF Prefix
  <1>8. \A k \in 1..Len(c) : c[k] \in S
    BY <1>2, <1>3, <1>5, <1>7
  <1>9. \A k \in 1..(Len(c) - 1) : c[k] < c[k + 1]
    <2> SUFFICES ASSUME NEW k \in 1..Len(b) PROVE c[k] < c[k + 1]
      BY <1>3, <1>5
    <2>1. CASE k = Len(b)
      BY <1>3, <1>5, <1>7, <2>1
    <2>2. CASE k # Len(b)
      <3>1. k \in 1..(Len(b) - 1) /\ k + 1 \in 1..Len(b)
        BY <1>3, <2>2
      <3> QED
        BY <1>5, <3>1 DEF Prefix
    <2> QED
      BY <2>1, <2>2
  <1>10. ASSUME NEW j \in S
         PROVE  (\E k \in 1..Len(c) : c[k] = j) \/ (\A k \in 1..Len(c) : c[k] < j)
    <2>1. CASE j \notin T
      <3>1. PICK k \in 1..Len(b) : b[k] = j
        BY <2>1
      <3>2. k \in 1..Len(c)
        BY <1>3, <1>5
      <3> QED
        BY <1>5, <3>1, <3>2
    <2>2. CASE j \in T /\ j = m
      <3>1. Len(b) + 1 \in 1..Len(c)
        BY <1>3, <1>5
      <3> QED
        BY <1>5, <2>2, <3>1
    <2>3. CASE j \in T /\ j # m
      <3>1. m < j
        BY <1>1, <1>2, <2>3
      <3>2. \A k \in 1..Len(b) : b[k] < j
        BY <2>3 DEF Prefix
      <3>3. \A k \in 1..Len(c) : k = Len(b) + 1 \/ k \in 1..Len(b)
        BY <1>3, <1>5
      <3> QED
        BY <1>5, <3>1, <3>2, <3>3
    <2> QED
      BY <2>1, <2>2, <2>3
  <1> QED
    BY <1>3, <1>4, <1>6, <1>8, <1>9, <1>10 DEF Prefix

\* In a prefix every row is higher than those before it.
LEMMA PrefixSorted ==
    ASSUME NEW S \in SUBSET Ids, NEW b \in Batches,
           \A k \in 1..(Len(b) - 1) : b[k] < b[k + 1],
           NEW k \in 1..Len(b), NEW l \in 1..Len(b), k < l
    PROVE  b[k] < b[l]
  <1> SUFFICES ASSUME ~(b[k] < b[l]) PROVE FALSE
    OBVIOUS
  <1>1. b \in Seq(Ids) /\ Len(b) \in Nat /\ \A n \in 1..Len(b) : b[n] \in Nat
    BY BatchFacts, RelayAssumption DEF Ids
  <1> DEFINE T == {n \in 1..Len(b) : k < n /\ ~(b[k] < b[n])}
  <1>2. T \subseteq Nat /\ T # {}
    <2>1. l \in T
      OBVIOUS
    <2>2. 1..Len(b) \subseteq Nat
      BY <1>1
    <2> QED
      BY <2>1, <2>2
  <1>3. PICK m \in T : \A n \in T : m <= n
    BY <1>2, LeastOf
  <1>4. PICK p : p = m - 1
    OBVIOUS
  <1>5. p \in 1..(Len(b) - 1) /\ p + 1 = m /\ k <= p /\ p \in 1..Len(b)
    BY <1>1, <1>3, <1>4
  <1>6. b[p] < b[m]
    BY <1>5
  <1>7. p = k \/ b[k] < b[p]
    BY <1>1, <1>3, <1>4, <1>5
  <1> QED
    BY <1>1, <1>3, <1>5, <1>6, <1>7

\* A longest prefix is what Lowest chooses: all of S, or a full batch of it.
LEMMA LowestFacts ==
    ASSUME NEW S \in SUBSET Ids, NEW b, b = Lowest(S, BatchSize)
    PROVE  /\ b \in Batches
           /\ \A k \in 1..Len(b) : b[k] \in S
           /\ \A k, l \in 1..Len(b) : k < l => b[k] < b[l]
           /\ \A i \in S : \/ \E k \in 1..Len(b) : b[k] = i
                           \/ Len(b) = BatchSize /\ \A k \in 1..Len(b) : b[k] < i
  <1> DEFINE Fits(a) == /\ \A k \in 1..Len(a) : a[k] \in S
                        /\ \A k \in 1..(Len(a) - 1) : a[k] < a[k + 1]
                        /\ \A i \in S : (\E k \in 1..Len(a) : a[k] = i)
                                        \/ (Len(a) = BatchSize /\ i > a[BatchSize])
             Rests == {n \in Nat : \E a : Prefix(a, S) /\ n = BatchSize - Len(a)}
  <1>1. Prefix(<< >>, S)
    <2>1. << >> \in Seq(Ids) /\ Len(<< >>) = 0
      OBVIOUS
    <2>0. Len(<< >>) <= BatchSize
      BY <2>1, RelayAssumption
    <2>2. << >> \in Batches
      BY <2>0, <2>1, BatchFacts, Zenon
    <2> QED
      BY <2>1, <2>2 DEF Prefix
  <1>2. BatchSize \in Rests
    BY <1>1, RelayAssumption
  <1>3. PICK n \in Rests : \A q \in Rests : n <= q
    BY <1>2, LeastOf
  <1>4. PICK a : Prefix(a, S) /\ n = BatchSize - Len(a)
    BY <1>3
  <1>5. a \in Seq(Ids) /\ Len(a) \in Nat /\ Len(a) <= BatchSize
    BY <1>4, BatchFacts DEF Prefix
  <1>6. ASSUME NEW i \in S, \A k \in 1..Len(a) : a[k] # i
        PROVE  Len(a) = BatchSize
    <2> SUFFICES ASSUME Len(a) < BatchSize PROVE FALSE
      BY <1>5, RelayAssumption
    <2>1. PICK m \in Ids : Prefix(Append(a, m), S)
      BY <1>4, <1>6, LongerPrefix
    <2>0. PICK c : c = Append(a, m)
      OBVIOUS
    <2>2. Len(c) = Len(a) + 1
      BY <1>5, <2>0
    <2>3. PICK q : q = BatchSize - Len(c)
      OBVIOUS
    <2>4. q \in Nat /\ q < n
      BY <1>4, <1>5, <2>2, <2>3, RelayAssumption
    <2>5. q \in Rests
      BY <2>0, <2>1, <2>3, <2>4
    <2> HIDE DEF Rests
    <2>6. n <= q /\ n \in Nat
      BY <1>3, <2>5 DEF Rests
    <2> QED
      BY <2>4, <2>6
  <1>7. a \in Batches /\ Fits(a)
    BY <1>4, <1>6, RelayAssumption DEF Prefix
  <1>8. b \in Batches /\ Fits(b)
    BY <1>7 DEF Lowest
  <1>9. \A k, l \in 1..Len(b) : k < l => b[k] < b[l]
    BY <1>8, PrefixSorted
  <1>10. ASSUME NEW i \in S, ~ \E k \in 1..Len(b) : b[k] = i
         PROVE  Len(b) = BatchSize /\ \A k \in 1..Len(b) : b[k] < i
    <2>1. Len(b) = BatchSize /\ b[BatchSize] < i
      BY <1>8, <1>10
    <2>2. \A k \in 1..Len(b) : b[k] \in Nat /\ i \in Nat
      BY <1>8, BatchFacts, RelayAssumption DEF Ids
    <2>3. \A k \in 1..Len(b) : k = BatchSize \/ b[k] < b[BatchSize]
      BY <1>9, <2>1, RelayAssumption
    <2>4. BatchSize \in 1..Len(b)
      BY <2>1, RelayAssumption
    <2> QED
      BY <2>1, <2>2, <2>3, <2>4
  <1> QED
    BY <1>8, <1>9, <1>10

-----------------------------------------------------------------------------
(* Facts about the records *)

LEMMA Replica == NoHolder \notin Replicas /\ Gone \notin Replicas /\ Gone # NoHolder
  BY RelayAssumption

LEMMA Numbers ==
    /\ MaxStall \in Nat /\ MaxStall > 0 /\ RenewEvery \in Nat /\ RenewEvery > 0
    /\ LeaseTTL \in Nat /\ LeaseTTL - RenewEvery >= MaxStall /\ LeaseTTL - MaxStall >= MaxStall
    /\ BatchSize \in Nat /\ BatchSize > 0
  BY RelayAssumption

LEMMA BootedFacts ==
    Booted \in Relay /\ Booted.pc = "renew" /\ Booted.err = "none"
  <1>1. << >> \in Seq(Ids) /\ Len(<< >>) = 0
    OBVIOUS
  <1>2. Len(<< >>) <= BatchSize
    BY <1>1, RelayAssumption
  <1>3. << >> \in Batches
    BY <1>1, <1>2, BatchFacts, Zenon
  <1> QED
    BY <1>3, Numbers DEF Booted, Relay

LEMMA EmptyBatch == << >> \in Batches
  BY BootedFacts DEF Booted, Relay

LEMMA RelayFacts ==
    ASSUME Types, NEW r \in Replicas
    PROVE  /\ relay[r] \in Relay
           /\ relay[r].batch \in Batches /\ relay[r].batch \in Seq(Ids)
           /\ relay[r].age \in Nat /\ relay[r].age <= RenewEvery
           /\ relay[r].spent \in Nat /\ relay[r].spent <= MaxStall
  <1>1. relay[r] \in Relay
    BY DEF Types
  <1> QED
    BY <1>1, Numbers, BatchFacts DEF Relay

LEMMA LeaseFacts == Types => lease \in Leases /\ lease.left \in Int /\ lease.left <= LeaseTTL
  BY Numbers DEF Types, Leases

LEMMA TailFacts ==
    ASSUME NEW b \in Batches, b # << >>
    PROVE  /\ Head(b) = b[1] /\ 1 \in 1..Len(b) /\ b[1] \in Ids
           /\ Tail(b) \in Batches /\ Len(Tail(b)) = Len(b) - 1
           /\ \A k \in 1..Len(Tail(b)) : k + 1 \in 1..Len(b) /\ Tail(b)[k] = b[k + 1]
           /\ \A k \in 1..Len(b) : k = 1 \/ (k - 1 \in 1..Len(Tail(b)) /\ Tail(b)[k - 1] = b[k])
  <1>1. b \in Seq(Ids) /\ Len(b) \in Nat /\ Len(b) <= BatchSize
    BY BatchFacts
  <1>2. Len(b) # 0
    BY <1>1
  <1>3. Tail(b) \in Seq(Ids) /\ Len(Tail(b)) = Len(b) - 1
    BY <1>1, <1>2
  <1>4. Tail(b) \in Batches
    <2>1. Len(Tail(b)) <= BatchSize
      BY <1>1, <1>3, Numbers
    <2> QED
      BY <1>3, <2>1, BatchFacts, Zenon
  <1>5. \A k \in 1..Len(Tail(b)) : Tail(b)[k] = b[k + 1]
    BY <1>1, <1>2
  <1> QED
    BY <1>1, <1>2, <1>3, <1>4, <1>5

\* The calls a relay goes on to.
LEMMA GotoFacts ==
    ASSUME Types, NEW r \in Replicas,
           NEW pc \in {"idle", "renew", "query", "row", "append", "mark", "release"}, Goto(r, pc)
    PROVE  \E x \in Relay :
              /\ relay' = [relay EXCEPT ![r] = x]
              /\ x.pc = pc /\ x.spent = 0 /\ x.age = relay[r].age
              /\ x.batch = relay[r].batch /\ x.full = relay[r].full /\ x.err = relay[r].err
  <1>0. relay[r] \in Relay /\ 0 \in 0..MaxStall /\ 0 \in 0..RenewEvery
    BY RelayFacts, Numbers
  <1>1. PICK x : x = [relay[r] EXCEPT !.pc = pc, !.spent = 0]
    OBVIOUS
  <1>2. /\ x \in Relay
        /\ x.pc = pc /\ x.spent = 0 /\ x.age = relay[r].age
        /\ x.batch = relay[r].batch /\ x.full = relay[r].full /\ x.err = relay[r].err
    BY <1>0, <1>1 DEF Relay
  <1>3. relay' = [relay EXCEPT ![r] = x]
    BY <1>1 DEF Goto, Types
  <1> QED
    BY <1>2, <1>3

LEMMA ReturnFacts ==
    ASSUME Types, NEW r \in Replicas, NEW err \in {"none", "held", "failed"}, Return(r, err)
    PROVE  \E x \in Relay :
              relay' = [relay EXCEPT ![r] = x] /\ x.pc = "release" /\ x.err = err
  <1>0. relay[r] \in Relay /\ 0 \in 0..MaxStall /\ 0 \in 0..RenewEvery
    BY RelayFacts, Numbers
  <1>1. PICK x : x = [relay[r] EXCEPT !.pc = "release", !.spent = 0, !.err = err, !.age = 0,
                                      !.batch = << >>, !.full = FALSE]
    OBVIOUS
  <1>2. x \in Relay /\ x.pc = "release" /\ x.err = err
    BY <1>0, <1>1, EmptyBatch DEF Relay
  <1>3. relay' = [relay EXCEPT ![r] = x]
    BY <1>1 DEF Return, Types
  <1> QED
    BY <1>2, <1>3

LEMMA RenewOKFacts ==
    ASSUME Types, NEW r \in Replicas,
           NEW next \in {"idle", "renew", "query", "row", "append", "mark", "release"},
           RenewOK(r, next)
    PROVE  /\ lease'.holder = r /\ lease'.left = LeaseTTL - relay[r].spent
           /\ lease' \in Leases
           /\ \E x \in Relay :
                 /\ relay' = [relay EXCEPT ![r] = x]
                 /\ x.pc = next /\ x.spent = 0 /\ x.age <= relay[r].spent
                 /\ x.age < RenewEvery => x.age = relay[r].spent
                 /\ x.batch = relay[r].batch /\ x.full = relay[r].full /\ x.err = relay[r].err
  <1>0. relay[r] \in Relay /\ 0 \in 0..MaxStall /\ 0 \in 0..RenewEvery
    BY RelayFacts, Numbers
  <1>1. PICK n : n = Capped(relay[r].spent)
    OBVIOUS
  <1>2. n \in 0..RenewEvery /\ n <= relay[r].spent /\ (n < RenewEvery => n = relay[r].spent)
    BY <1>1, RelayFacts, Numbers DEF Capped
  <1>3. PICK x : x = [relay[r] EXCEPT !.pc = next, !.age = n, !.spent = 0]
    OBVIOUS
  <1>4. /\ x \in Relay
        /\ x.pc = next /\ x.spent = 0 /\ x.age = n
        /\ x.batch = relay[r].batch /\ x.full = relay[r].full /\ x.err = relay[r].err
    BY <1>0, <1>2, <1>3 DEF Relay
  <1>5. relay' = [relay EXCEPT ![r] = x]
    BY <1>1, <1>3 DEF RenewOK, Types
  <1>6. /\ lease' = [holder |-> r, left |-> LeaseTTL - relay[r].spent]
        /\ LeaseTTL - relay[r].spent \in -(MaxStall + 1)..LeaseTTL
    BY RelayFacts, Numbers DEF RenewOK, Acquired
  <1> QED
    BY <1>2, <1>4, <1>5, <1>6 DEF Leases

\* On to another batch position or another pass.
LEMMA BatchMoved ==
    ASSUME Types, NEW r \in Replicas, NEW pc \in {"row", "renew"}, NEW b \in Batches,
           relay' = [relay EXCEPT ![r] = [relay[r] EXCEPT !.pc = pc, !.spent = 0, !.batch = b]]
    PROVE  \E x \in Relay :
              /\ relay' = [relay EXCEPT ![r] = x]
              /\ x.pc = pc /\ x.spent = 0 /\ x.age = relay[r].age
              /\ x.batch = b /\ x.full = relay[r].full
  <1>0. relay[r] \in Relay /\ 0 \in 0..MaxStall /\ 0 \in 0..RenewEvery
    BY RelayFacts, Numbers
  <1>1. PICK x : x = [relay[r] EXCEPT !.pc = pc, !.spent = 0, !.batch = b]
    OBVIOUS
  <1>2. /\ x \in Relay
        /\ x.pc = pc /\ x.spent = 0 /\ x.age = relay[r].age
        /\ x.batch = b /\ x.full = relay[r].full
    BY <1>0, <1>1 DEF Relay
  <1> QED
    BY <1>1, <1>2

-----------------------------------------------------------------------------
(* What a step of one relay leaves to the others *)

\* Rows go forward.
RowsLater ==
    /\ rows' \in [Ids -> OutboxRow]
    /\ \A i \in Committed : i \in Committed' /\ rows'[i].after = rows[i].after

\* The same rows are committed, behind the same rows.
SameAccepted == Committed' = Committed /\ \A i \in Committed : rows'[i].after = rows[i].after

\* No relay is owed a row that it was not owed before.
NoNewDebt == \A r \in Replicas : Owed(r)' \subseteq Owed(r)

StreamLater == stream' \in Seq(Ids) /\ Appended \subseteq Appended'

LEMMA SameRows == Types /\ UNCHANGED rows => RowsLater /\ NoNewDebt
  BY DEF Types, RowsLater, NoNewDebt, Committed, Owed, Pending

LEMMA SameStream == Types /\ UNCHANGED stream => StreamLater
  BY DEF Types, StreamLater, Appended

LEMMA InOrderKept ==
    ASSUME Types, RowsLater, StreamLater, NEW d \in Replicas, InOrder(d),
           relay'[d].pc \in Working => relay[d].pc \in Working,
           relay'[d].pc = "mark" => relay[d].pc = "mark",
           relay'[d].batch = relay[d].batch
    PROVE  InOrder(d)'
  BY DEF RowsLater, StreamLater, InOrder

\* A lease that has not run out is not taken from its holder.
LEMMA LeaseKept ==
    ASSUME Types, NEW d \in Replicas, HoldsLease(d), relay'[d] = relay[d],
           lease.holder = d /\ lease.left >= 0 => lease' = lease
    PROVE  HoldsLease(d)'
  BY RelayFacts, LeaseFacts, Numbers DEF HoldsLease

LEMMA NotAcquired ==
    ASSUME Types, NEW r \in Replicas, Acquirable(r), NEW d \in Replicas \ {r}, lease.holder = d
    PROVE  lease.left < 0
  BY RelayFacts, LeaseFacts, Replica DEF Acquirable

LEMMA KnowsKept ==
    ASSUME NoNewDebt, NEW d \in Replicas, \A i \in Owed(d) : Knows(d, i),
           relay'[d] = relay[d], wake[d] => wake'[d]
    PROVE  (\A i \in Owed(d) : Knows(d, i))'
  BY DEF NoNewDebt, Knows, InBatch, InBackoff

\* A step of one relay: what it must show is about itself, the rows and the
\* stream.
LEMMA RelayStep ==
    ASSUME IInv, NEW r \in Replicas, NEW x \in Relay, relay' = [relay EXCEPT ![r] = x],
           RowsLater, NoNewDebt, RowsInOrder', StreamLater, NoRepeats', PublishedIsAppended',
           lease' \in Leases, \A d \in Replicas \ {r} : lease.holder = d /\ lease.left >= 0 => lease' = lease,
           wake' \in [Replicas -> BOOLEAN], \A d \in Replicas \ {r} : wake'[d] = wake[d],
           crashes' \in 0..MaxCrashes,
           HoldsLease(r)', InOrder(r)', (\A i \in Owed(r) : Knows(r, i))'
    PROVE  IInv'
  <1> USE DEF IInv
  <1>1. relay' \in [Replicas -> Relay] /\ \A d \in Replicas : d # r => relay'[d] = relay[d]
    BY DEF Types
  <1>2. Types'
    BY <1>1 DEF Types, RowsLater, StreamLater
  <1>3. ASSUME NEW d \in Replicas, d # r
        PROVE  HoldsLease(d)' /\ InOrder(d)' /\ (\A i \in Owed(d) : Knows(d, i))'
    BY <1>1, <1>3, LeaseKept, InOrderKept, KnowsKept
  <1> QED
    BY <1>2, <1>3

\* Rows and stream as they are.
LEMMA QuietStep ==
    ASSUME IInv, NEW r \in Replicas, NEW x \in Relay, relay' = [relay EXCEPT ![r] = x],
           UNCHANGED <<rows, stream, crashes>>,
           lease' \in Leases, \A d \in Replicas \ {r} : lease.holder = d /\ lease.left >= 0 => lease' = lease,
           wake' \in [Replicas -> BOOLEAN], \A d \in Replicas \ {r} : wake'[d] = wake[d],
           HoldsLease(r)', InOrder(r)', \A i \in Owed(r) : Knows(r, i)'
    PROVE  IInv'
  <1> USE DEF IInv
  <1>1. RowsLater /\ NoNewDebt /\ StreamLater /\ crashes' \in 0..MaxCrashes
    BY SameRows, SameStream DEF Types
  <1>2. RowsInOrder' /\ NoRepeats' /\ PublishedIsAppended'
    BY DEF RowsInOrder, Committed, NoRepeats, PublishedIsAppended, Appended
  <1>3. Owed(r)' = Owed(r)
    BY DEF Owed, Pending
  <1> QED
    BY <1>1, <1>2, <1>3, RelayStep

-----------------------------------------------------------------------------
(* Steps of a relay that move no row *)

LEMMA WokenInv ==
    ASSUME IInv, NEW r \in Replicas, Woken(r) \/ Timer(r)
    PROVE  IInv'
  <1> USE DEF IInv
  <1>1. UNCHANGED <<rows, lease, stream, crashes>> /\ lease' \in Leases
    BY DEF Woken, Timer, Types
  <1>2. PICK x \in Relay : /\ relay' = [relay EXCEPT ![r] = x]
                           /\ x.pc = "renew" \/ (x.pc = "idle" /\ x.err # "none")
    <2>1. CASE Woken(r) /\ ~InBackoff(r)
      <3>1. Goto(r, "renew")
        BY <2>1 DEF Woken
      <3> QED
        BY <3>1, GotoFacts
    <2>2. CASE Woken(r) /\ InBackoff(r)
      <3>1. relay' = [relay EXCEPT ![r] = relay[r]]
        BY <2>2 DEF Woken, Types
      <3> QED
        BY <2>2, <3>1, RelayFacts DEF Woken, InBackoff
    <2>3. CASE Timer(r)
      BY <2>3, BootedFacts DEF Timer, Drain
    <2> QED
      BY <2>1, <2>2, <2>3
  <1>3. wake' \in [Replicas -> BOOLEAN] /\ \A d \in Replicas \ {r} : wake'[d] = wake[d]
    BY DEF Woken, Timer, Types
  <1>4. relay'[r] = x
    BY <1>2 DEF Types
  <1>5. HoldsLease(r)' /\ InOrder(r)' /\ \A i \in Owed(r) : Knows(r, i)'
    BY <1>2, <1>4 DEF HoldsLease, InOrder, Knows, InBackoff, Relying, Working
  <1> QED
    BY <1>1, <1>2, <1>3, <1>5, QuietStep

\* The pass starts on a fresh renewal.
LEMMA RenewInv ==
    ASSUME IInv, NEW r \in Replicas, Renew(r)
    PROVE  IInv'
  <1> USE DEF IInv
  <1>1. RenewOK(r, "query") /\ UNCHANGED <<rows, wake, stream, crashes>> /\ Acquirable(r)
    BY DEF Renew, RenewOK
  <1>2. /\ lease'.holder = r /\ lease'.left = LeaseTTL - relay[r].spent
        /\ lease' \in Leases
        /\ \E x \in Relay :
              /\ relay' = [relay EXCEPT ![r] = x]
              /\ x.pc = "query" /\ x.spent = 0 /\ x.age <= relay[r].spent
              /\ x.age < RenewEvery => x.age = relay[r].spent
    BY <1>1, RenewOKFacts
  <1>3. PICK x \in Relay :
              /\ relay' = [relay EXCEPT ![r] = x]
              /\ x.pc = "query" /\ x.spent = 0 /\ x.age <= relay[r].spent
              /\ x.age < RenewEvery => x.age = relay[r].spent
    BY <1>2
  <1>4. \A d \in Replicas \ {r} : lease.holder = d /\ lease.left >= 0 => lease' = lease
    BY <1>1, NotAcquired, LeaseFacts
  <1>5. relay'[r] = x
    BY <1>3 DEF Types
  <1>6. HoldsLease(r)'
    BY <1>2, <1>3, <1>5, RelayFacts, Numbers DEF HoldsLease
  <1>7. InOrder(r)' /\ \A i \in Owed(r) : Knows(r, i)'
    BY <1>3, <1>5 DEF InOrder, Knows, Working
  <1>8. wake' \in [Replicas -> BOOLEAN]
    BY <1>1 DEF Types
  <1> QED
    BY <1>1, <1>2, <1>3, <1>4, <1>6, <1>7, <1>8, QuietStep

\* A pass that ends with an error is tried again soon.
LEMMA FailedStep ==
    ASSUME IInv, NEW r \in Replicas, NEW err \in {"held", "failed"}, Return(r, err),
           UNCHANGED <<wake, crashes>>, lease' = lease \/ (Acquirable(r) /\ lease' = Acquired(r)),
           RowsLater, NoNewDebt, RowsInOrder', StreamLater, NoRepeats', PublishedIsAppended'
    PROVE  IInv'
  <1> USE DEF IInv
  <1>1. PICK x \in Relay : relay' = [relay EXCEPT ![r] = x] /\ x.pc = "release" /\ x.err = err
    BY ReturnFacts
  <1>2. relay'[r] = x
    BY <1>1 DEF Types
  <1>3. lease' \in Leases
    <2>1. CASE lease' = Acquired(r)
      <3>1. LeaseTTL - relay[r].spent \in -(MaxStall + 1)..LeaseTTL
        BY RelayFacts, Numbers
      <3> QED
        BY <2>1, <3>1 DEF Acquired, Leases
    <2>2. CASE lease' = lease
      BY <2>2 DEF Types
    <2> QED
      BY <2>1, <2>2
  <1>4. \A d \in Replicas \ {r} : lease.holder = d /\ lease.left >= 0 => lease' = lease
    BY NotAcquired, LeaseFacts
  <1>5. HoldsLease(r)' /\ InOrder(r)' /\ (\A i \in Owed(r) : Knows(r, i))'
    BY <1>1, <1>2 DEF HoldsLease, InOrder, Knows, InBackoff, Relying, Working
  <1>6. wake' \in [Replicas -> BOOLEAN] /\ crashes' \in 0..MaxCrashes
    BY DEF Types
  <1> QED
    BY <1>1, <1>3, <1>4, <1>5, <1>6, RelayStep

LEMMA SameTables ==
    ASSUME IInv, UNCHANGED <<rows, stream>>
    PROVE  RowsLater /\ NoNewDebt /\ RowsInOrder' /\ StreamLater /\ NoRepeats' /\ PublishedIsAppended'
  <1>1. RowsLater /\ NoNewDebt /\ StreamLater
    BY SameRows, SameStream DEF IInv
  <1>2. RowsInOrder' /\ NoRepeats' /\ PublishedIsAppended'
    BY DEF IInv, RowsInOrder, Committed, NoRepeats, PublishedIsAppended, Appended
  <1> QED
    BY <1>1, <1>2

LEMMA RefusedInv ==
    ASSUME IInv, NEW r \in Replicas, RenewFails(r) \/ RenewRowFails(r) \/ QueryFails(r)
    PROVE  IInv'
  <1>1. UNCHANGED <<rows, wake, stream, crashes>>
    BY DEF RenewFails, RenewRowFails, QueryFails
  <1>2. PICK err \in {"held", "failed"} :
           Return(r, err) /\ (lease' = lease \/ (Acquirable(r) /\ lease' = Acquired(r)))
    BY DEF RenewFails, RenewRowFails, QueryFails, RenewRefused, Failing
  <1> QED
    BY <1>1, <1>2, SameTables, FailedStep

\* The batch is in order: what a row must follow was committed before it and
\* has a lower id, so it is published or in the batch before it.
LEMMA PendingOutboxInv ==
    ASSUME IInv, NEW r \in Replicas, PendingOutbox(r)
    PROVE  IInv'
  <1> USE DEF IInv
  <1>1. UNCHANGED <<rows, lease, wake, stream, crashes>> /\ relay[r].pc = "query"
        /\ lease' \in Leases /\ wake' \in [Replicas -> BOOLEAN]
    BY DEF PendingOutbox, Types
  <1>2. PICK b : b = Lowest(Pending, BatchSize)
    OBVIOUS
  <1>3. Pending \subseteq Ids
    BY DEF Pending
  <1>4. /\ b \in Batches
        /\ \A k \in 1..Len(b) : b[k] \in Pending
        /\ \A k, l \in 1..Len(b) : k < l => b[k] < b[l]
        /\ \A i \in Pending : \/ \E k \in 1..Len(b) : b[k] = i
                              \/ Len(b) = BatchSize /\ \A k \in 1..Len(b) : b[k] < i
    BY <1>2, <1>3, LowestFacts
  <1>5. b \in Seq(Ids) /\ Len(b) \in Nat /\ Ids \subseteq Nat
    BY <1>4, BatchFacts, RelayAssumption DEF Ids
  <1>6. CASE b # << >>
    <2>1. PICK x : x = [relay[r] EXCEPT !.pc = "row", !.spent = 0, !.batch = b,
                                        !.full = (Len(b) = BatchSize)]
      OBVIOUS
    <2>2. /\ x \in Relay
          /\ x.pc = "row" /\ x.spent = 0 /\ x.age = relay[r].age /\ x.batch = b
          /\ x.full <=> Len(b) = BatchSize
      <3>1. relay[r] \in Relay /\ 0 \in 0..MaxStall
        BY RelayFacts, Numbers
      <3> QED
        BY <1>4, <2>1, <3>1 DEF Relay
    <2>3. relay' = [relay EXCEPT ![r] = x]
      <3>1. ~Return(r, "none") \/ b # << >>
        BY <1>6
      <3> QED
        BY <1>2, <1>6, <2>1 DEF PendingOutbox, Types
    <2>4. relay'[r] = x
      BY <2>3 DEF Types
    <2>5. HoldsLease(r)'
      BY <1>1, <2>2, <2>4 DEF HoldsLease, Relying
    <2>6. InOrder(r)'
      <3>1. ASSUME NEW k \in 1..Len(b)
            PROVE  /\ b[k] \in Committed
                   /\ \A j \in rows[b[k]].after :
                         j \in Appended \/ \E l \in 1..Len(b) : l < k /\ b[l] = j
        <4>1. b[k] \in Pending /\ b[k] \in Committed /\ b[k] \in Ids
          BY <1>4 DEF Pending, Committed
        <4>2. ASSUME NEW j \in rows[b[k]].after, j \notin Appended
              PROVE  \E l \in 1..Len(b) : l < k /\ b[l] = j
          <5>1. j \in Committed /\ j < b[k] /\ j \in Ids
            BY <4>1 DEF RowsInOrder, Committed
          <5>2. j \in Pending
            BY <4>2, <5>1 DEF Committed, Pending, PublishedIsAppended
          <5>a. b[k] \in Nat /\ j \in Nat /\ ~(b[k] < j)
            <6>1. b[k] \in Nat /\ j \in Nat
              BY <1>5, <4>1, <5>1
            <6> QED
              BY <5>1, <6>1
          <5>3. PICK l \in 1..Len(b) : b[l] = j
            BY <1>4, <5>2, <5>a
          <5>4. ~(k < l) /\ k # l
            <6>1. k < l => b[k] < b[l]
              BY <1>4
            <6> QED
              BY <5>1, <5>3, <5>a, <6>1
          <5> QED
            BY <1>5, <5>3, <5>4
        <4> QED
          BY <4>1, <4>2
      <3> QED
        BY <1>1, <1>6, <2>2, <2>4, <3>1 DEF InOrder, Committed, Appended
    <2>7. \A i \in Owed(r) : Knows(r, i)'
      BY <1>4, <2>2, <2>4 DEF Owed, Knows, Working, InBatch
    <2> QED
      BY <1>1, <2>2, <2>3, <2>5, <2>6, <2>7, QuietStep
  <1>7. CASE b = << >>
    <2>1. Return(r, "none")
      BY <1>2, <1>7 DEF PendingOutbox
    <2>2. PICK x \in Relay : relay' = [relay EXCEPT ![r] = x] /\ x.pc = "release"
      BY <2>1, ReturnFacts
    <2>3. relay'[r] = x
      BY <2>2 DEF Types
    <2>4. Len(b) = 0
      BY <1>7
    <2>5. Pending = {}
      BY <1>4, <2>4, Numbers
    <2>6. HoldsLease(r)' /\ InOrder(r)' /\ \A i \in Owed(r) : Knows(r, i)'
      BY <2>2, <2>3, <2>5 DEF HoldsLease, InOrder, Owed, Relying, Working
    <2> QED
      BY <1>1, <2>2, <2>6, QuietStep
  <1> QED
    BY <1>6, <1>7

\* Before a row the lease is renewed unless it was a short while ago: what is
\* left of it outlasts the XADD.
LEMMA RenewRowInv ==
    ASSUME IInv, NEW r \in Replicas, RenewRow(r)
    PROVE  IInv'
  <1> USE DEF IInv
  <1>1. UNCHANGED <<rows, wake, stream, crashes>> /\ relay[r].pc = "row"
        /\ wake' \in [Replicas -> BOOLEAN]
    BY DEF RenewRow, Types
  <1>2. CASE RenewRecent(r) /\ Goto(r, "append") /\ UNCHANGED lease
    <2>1. PICK x \in Relay :
              /\ relay' = [relay EXCEPT ![r] = x]
              /\ x.pc = "append" /\ x.spent = 0 /\ x.age = relay[r].age
              /\ x.batch = relay[r].batch /\ x.full = relay[r].full
      BY <1>2, GotoFacts
    <2>2. relay'[r] = x
      BY <2>1 DEF Types
    <2>3. lease' \in Leases
      BY <1>2 DEF Types
    <2>4. HoldsLease(r)'
      BY <1>1, <1>2, <2>1, <2>2, RelayFacts, LeaseFacts, Numbers
      DEF HoldsLease, RenewRecent, Relying
    <2>5. InOrder(r)'
      <3>1. InOrder(r) /\ RowsLater /\ StreamLater
        BY <1>1, SameRows, SameStream
      <3>2. relay'[r].pc # "mark" /\ relay'[r].batch = relay[r].batch /\ relay[r].pc \in Working
        BY <1>1, <2>1, <2>2 DEF Working
      <3> QED
        BY <3>1, <3>2, InOrderKept
    <2>6. \A i \in Owed(r) : Knows(r, i)'
      BY <1>1, <2>1, <2>2 DEF Knows, Working, InBatch
    <2> QED
      BY <1>1, <1>2, <2>1, <2>3, <2>4, <2>5, <2>6, QuietStep
  <1>3. CASE RenewOK(r, "append")
    <2>1. /\ lease'.holder = r /\ lease'.left = LeaseTTL - relay[r].spent
          /\ lease' \in Leases
          /\ \E x \in Relay :
                /\ relay' = [relay EXCEPT ![r] = x]
                /\ x.pc = "append" /\ x.spent = 0 /\ x.age <= relay[r].spent
                /\ x.age < RenewEvery => x.age = relay[r].spent
                /\ x.batch = relay[r].batch /\ x.full = relay[r].full
      BY <1>3, RenewOKFacts
    <2>2. PICK x \in Relay :
                /\ relay' = [relay EXCEPT ![r] = x]
                /\ x.pc = "append" /\ x.spent = 0 /\ x.age <= relay[r].spent
                /\ x.age < RenewEvery => x.age = relay[r].spent
                /\ x.batch = relay[r].batch /\ x.full = relay[r].full
      BY <2>1
    <2>3. relay'[r] = x
      BY <2>2 DEF Types
    <2>4. \A d \in Replicas \ {r} : lease.holder = d /\ lease.left >= 0 => lease' = lease
      BY <1>3, NotAcquired, LeaseFacts DEF RenewOK
    <2>5. HoldsLease(r)'
      BY <2>1, <2>2, <2>3, RelayFacts, Numbers DEF HoldsLease
    <2>6. InOrder(r)'
      <3>1. InOrder(r) /\ RowsLater /\ StreamLater
        BY <1>1, SameRows, SameStream
      <3>2. relay'[r].pc # "mark" /\ relay'[r].batch = relay[r].batch /\ relay[r].pc \in Working
        BY <1>1, <2>2, <2>3 DEF Working
      <3> QED
        BY <3>1, <3>2, InOrderKept
    <2>7. \A i \in Owed(r) : Knows(r, i)'
      BY <1>1, <2>2, <2>3 DEF Knows, Working, InBatch
    <2> QED
      BY <1>1, <2>1, <2>2, <2>4, <2>5, <2>6, <2>7, QuietStep
  <1> QED
    BY <1>2, <1>3 DEF RenewRow

-----------------------------------------------------------------------------
(* The XADD *)

\* A row takes the next place of the stream once.
LEMMA AppendedOnce ==
    ASSUME Types, NoRepeats, NEW i \in Ids, Append1(i)
    PROVE  StreamLater /\ NoRepeats' /\ Appended' = Appended \union {i}
  <1>1. CASE i \in Appended
    <2>1. stream' = stream
      BY <1>1 DEF Append1
    <2> QED
      BY <1>1, <2>1 DEF StreamLater, NoRepeats, Appended, Types
  <1>2. CASE i \notin Appended
    <2>1. stream' = Append(stream, i) /\ stream \in Seq(Ids) /\ Len(stream) \in Nat
      BY <1>2 DEF Append1, Types
    <2>2. /\ stream' \in Seq(Ids) /\ Len(stream') = Len(stream) + 1
          /\ stream'[Len(stream) + 1] = i
          /\ \A k \in 1..Len(stream) : stream'[k] = stream[k]
      BY <2>1
    <2>3. \A k \in 1..Len(stream') : k \in 1..Len(stream) \/ k = Len(stream) + 1
      BY <2>1, <2>2
    <2>4. \A k \in 1..Len(stream) : k \in 1..Len(stream') /\ stream[k] # i
      BY <1>2, <2>1, <2>2 DEF Appended
    <2>5. Len(stream) + 1 \in 1..Len(stream')
      BY <2>1, <2>2
    <2>6. NoRepeats'
      BY <2>2, <2>3, <2>4 DEF NoRepeats
    <2>7. Appended' = Appended \union {i}
      BY <2>2, <2>3, <2>4, <2>5 DEF Appended
    <2> QED
      BY <2>2, <2>6, <2>7 DEF StreamLater
  <1> QED
    BY <1>1, <1>2

\* The row a relay works on.
LEMMA HeadFacts ==
    ASSUME IInv, NEW r \in Replicas, relay[r].pc \in Working
    PROVE  /\ relay[r].batch \in Batches /\ relay[r].batch # << >>
           /\ Head(relay[r].batch) = relay[r].batch[1] /\ 1 \in 1..Len(relay[r].batch)
           /\ Head(relay[r].batch) \in Committed /\ Head(relay[r].batch) \in Ids
           /\ rows[Head(relay[r].batch)].after \subseteq Appended
  <1>1. relay[r].batch \in Batches /\ relay[r].batch # << >> /\ InOrder(r)
    BY RelayFacts DEF IInv, InOrder
  <1>2. /\ Head(relay[r].batch) = relay[r].batch[1] /\ 1 \in 1..Len(relay[r].batch)
        /\ relay[r].batch[1] \in Ids /\ Len(relay[r].batch) \in Nat
    BY <1>1, TailFacts, BatchFacts
  <1>3. \A l \in 1..Len(relay[r].batch) : ~(l < 1)
    BY <1>2
  <1> QED
    BY <1>1, <1>2, <1>3 DEF InOrder

LEMMA SameOutbox ==
    ASSUME IInv, UNCHANGED rows, StreamLater
    PROVE  RowsLater /\ NoNewDebt /\ RowsInOrder' /\ PublishedIsAppended'
  <1>1. RowsLater /\ NoNewDebt
    BY SameRows DEF IInv
  <1>2. RowsInOrder' /\ PublishedIsAppended'
    BY DEF IInv, RowsInOrder, Committed, PublishedIsAppended, StreamLater
  <1> QED
    BY <1>1, <1>2

LEMMA XAddInv ==
    ASSUME IInv, NEW r \in Replicas, XAdd(r)
    PROVE  IInv'
  <1> USE DEF IInv
  <1>1. UNCHANGED <<rows, lease, wake, crashes>> /\ relay[r].pc = "append" /\ Goto(r, "mark")
        /\ Append1(Head(relay[r].batch))
    BY DEF XAdd
  <1>2. relay[r].pc \in Working
    BY <1>1 DEF Working
  <1>3. PICK x \in Relay :
            /\ relay' = [relay EXCEPT ![r] = x]
            /\ x.pc = "mark" /\ x.spent = 0 /\ x.age = relay[r].age
            /\ x.batch = relay[r].batch /\ x.full = relay[r].full
    BY <1>1, GotoFacts
  <1>4. relay'[r] = x
    BY <1>3 DEF Types
  <1>5. StreamLater /\ NoRepeats' /\ relay[r].batch[1] \in Appended'
    BY <1>1, <1>2, HeadFacts, AppendedOnce
  <1>6. RowsLater /\ NoNewDebt /\ RowsInOrder' /\ PublishedIsAppended'
    BY <1>1, <1>5, SameOutbox
  <1>7. HoldsLease(r)'
    BY <1>1, <1>3, <1>4 DEF HoldsLease, Relying
  <1>8. InOrder(r)'
    <2>1. InOrder(r) /\ rows' = rows
      BY <1>1
    <2>2. Committed' = Committed
      BY <1>1 DEF Committed
    <2> QED
      BY <1>2, <1>3, <1>4, <1>5, <2>1, <2>2 DEF InOrder, StreamLater
  <1>9. (\A i \in Owed(r) : Knows(r, i))'
    BY <1>1, <1>2, <1>3, <1>4 DEF Knows, Working, InBatch, Owed, Pending
  <1>10. /\ lease' \in Leases /\ wake' \in [Replicas -> BOOLEAN] /\ crashes' \in 0..MaxCrashes
         /\ lease' = lease /\ wake' = wake
    BY <1>1 DEF Types
  <1> QED
    BY <1>3, <1>5, <1>6, <1>7, <1>8, <1>9, <1>10, RelayStep

LEMMA XAddFailsInv ==
    ASSUME IInv, NEW r \in Replicas, XAddFails(r)
    PROVE  IInv'
  <1>1. UNCHANGED <<rows, lease, wake, crashes>> /\ relay[r].pc = "append" /\ Return(r, "failed")
    BY DEF XAddFails, Failing
  <1>2. StreamLater /\ NoRepeats'
    <2>1. CASE UNCHANGED stream
      BY <2>1, SameStream DEF IInv, NoRepeats
    <2>2. CASE Append1(Head(relay[r].batch))
      <3>1. relay[r].pc \in Working
        BY <1>1 DEF Working
      <3> QED
        BY <2>2, <3>1, HeadFacts, AppendedOnce DEF IInv
    <2> QED
      BY <2>1, <2>2 DEF XAddFails
  <1>3. RowsLater /\ NoNewDebt /\ RowsInOrder' /\ PublishedIsAppended'
    BY <1>1, <1>2, SameOutbox
  <1> QED
    BY <1>1, <1>2, <1>3, FailedStep

-----------------------------------------------------------------------------
(* Marking a row published *)

LEMMA PublishedFacts ==
    ASSUME IInv, NEW i \in Ids, i \in Committed, i \in Appended, Published(i), UNCHANGED stream
    PROVE  /\ RowsLater /\ NoNewDebt /\ RowsInOrder' /\ PublishedIsAppended'
           /\ StreamLater /\ NoRepeats'
           /\ i \notin Pending' /\ SameAccepted
  <1> USE DEF IInv
  <1>1. PICK x : x = [rows[i] EXCEPT !.state = IF rows[i].state = "pending" THEN "published"
                                               ELSE rows[i].state]
    OBVIOUS
  <1>2. /\ rows[i] \in OutboxRow
        /\ x \in OutboxRow
        /\ x.state = IF rows[i].state = "pending" THEN "published" ELSE rows[i].state
        /\ x.event = rows[i].event /\ x.by = rows[i].by /\ x.notified = rows[i].notified
        /\ x.after = rows[i].after
    <2>1. rows[i] \in OutboxRow
      BY DEF Types
    <2> QED
      BY <1>1, <2>1 DEF OutboxRow
  <1>3. rows' = [rows EXCEPT ![i] = x]
    BY <1>1 DEF Published, Types
  <1>4. rows' \in [Ids -> OutboxRow] /\ rows'[i] = x /\ \A j \in Ids : j # i => rows'[j] = rows[j]
    BY <1>2, <1>3 DEF Types
  <1>5. Committed' = Committed /\ Pending' = Pending \ {i} /\ Appended' = Appended
    <2>1. rows[i].state \in {"pending", "published", "purged"}
      BY DEF Committed
    <2> QED
      BY <1>2, <1>4, <2>1 DEF Committed, Pending, Appended
  <1>6. RowsLater
    BY <1>2, <1>4, <1>5 DEF RowsLater, Committed
  <1>7. NoNewDebt
    BY <1>4, <1>5 DEF NoNewDebt, Owed, Pending
  <1>8. RowsInOrder'
    <2>1. \A j \in Ids : /\ rows'[j].after = rows[j].after /\ rows'[j].notified = rows[j].notified
                         /\ rows'[j].state = "none" <=> rows[j].state = "none"
      BY <1>2, <1>4
    <2> QED
      BY <1>5, <2>1 DEF RowsInOrder
  <1>9. PublishedIsAppended'
    BY <1>4, <1>5 DEF PublishedIsAppended
  <1>10. StreamLater /\ NoRepeats'
    BY SameStream DEF NoRepeats
  <1> QED
    BY <1>5, <1>6, <1>7, <1>8, <1>9, <1>10 DEF SameAccepted, RowsLater

LEMMA MarkFailsInv ==
    ASSUME IInv, NEW r \in Replicas, MarkFails(r)
    PROVE  IInv'
  <1>1. UNCHANGED <<lease, wake, stream, crashes>> /\ relay[r].pc = "mark" /\ Return(r, "failed")
    BY DEF MarkFails, Failing
  <1>2. relay[r].pc \in Working /\ InOrder(r)
    BY <1>1 DEF Working, IInv
  <1>3. CASE UNCHANGED rows
    BY <1>1, <1>3, SameTables, FailedStep
  <1>4. CASE Published(Head(relay[r].batch))
    <2>1. Head(relay[r].batch) \in Ids \cap Committed /\ Head(relay[r].batch) \in Appended
      BY <1>1, <1>2, HeadFacts DEF InOrder
    <2>2. RowsLater /\ NoNewDebt /\ RowsInOrder' /\ PublishedIsAppended' /\ StreamLater /\ NoRepeats'
      BY <1>1, <1>4, <2>1, PublishedFacts
    <2> QED
      BY <1>1, <2>2, FailedStep
  <1> QED
    BY <1>3, <1>4 DEF MarkFails

LEMMA MarkOutboxPublishedInv ==
    ASSUME IInv, NEW r \in Replicas, MarkOutboxPublished(r)
    PROVE  IInv'
  <1> USE DEF IInv
  <1>1. UNCHANGED <<lease, wake, stream, crashes>> /\ relay[r].pc = "mark" /\ AfterRow(r)
        /\ Published(Head(relay[r].batch))
    BY DEF MarkOutboxPublished
  <1>2. relay[r].pc \in Working /\ InOrder(r)
    BY <1>1 DEF Working
  <1>3. PICK i : i = Head(relay[r].batch)
    OBVIOUS
  <1>4. i \in Ids /\ i \in Committed /\ i \in Appended /\ i = relay[r].batch[1]
    BY <1>1, <1>2, <1>3, HeadFacts DEF InOrder
  <1>5. /\ RowsLater /\ NoNewDebt /\ RowsInOrder' /\ PublishedIsAppended'
        /\ StreamLater /\ NoRepeats' /\ i \notin Pending'
    BY <1>1, <1>3, <1>4, PublishedFacts
  <1>6. PICK b : b = Tail(relay[r].batch)
    OBVIOUS
  <1>7. /\ b \in Batches /\ Len(b) \in Nat
        /\ \A k \in 1..Len(b) : k + 1 \in 1..Len(relay[r].batch) /\ b[k] = relay[r].batch[k + 1]
        /\ \A k \in 1..Len(relay[r].batch) : k = 1 \/ (k - 1 \in 1..Len(b) /\ b[k - 1] = relay[r].batch[k])
    BY <1>2, <1>6, HeadFacts, TailFacts, BatchFacts
  <1>8. /\ lease' \in Leases /\ wake' \in [Replicas -> BOOLEAN] /\ crashes' \in 0..MaxCrashes
        /\ lease' = lease /\ wake' = wake
    BY <1>1 DEF Types
  <1>9. \A j \in Owed(r)' : /\ j # i
                            /\ wake[r] \/ relay[r].full \/ \E k \in 1..Len(b) : b[k] = j
    <2> SUFFICES ASSUME NEW j \in Owed(r)'
                 PROVE  j # i /\ (wake[r] \/ relay[r].full \/ \E k \in 1..Len(b) : b[k] = j)
      OBVIOUS
    <2>1. j \in Owed(r) /\ j \in Pending'
      BY <1>5 DEF NoNewDebt, Owed
    <2>2. Knows(r, j) /\ j # i
      BY <1>5, <2>1
    <2>3. wake[r] \/ relay[r].full \/ InBatch(r, j)
      BY <1>1, <2>2 DEF Knows, Working
    <2>4. InBatch(r, j) => \E k \in 1..Len(b) : b[k] = j
      BY <1>4, <1>7, <2>2 DEF InBatch
    <2> QED
      BY <2>2, <2>3, <2>4
  <1>10. CASE b # << >> /\ relay' = [relay EXCEPT ![r] = [relay[r] EXCEPT !.pc = "row", !.spent = 0, !.batch = b]]
    <2>1. PICK x \in Relay :
              /\ relay' = [relay EXCEPT ![r] = x]
              /\ x.pc = "row" /\ x.spent = 0 /\ x.age = relay[r].age
              /\ x.batch = b /\ x.full = relay[r].full
      <3>1. b \in Batches /\ "row" \in {"row", "renew"} /\ Types
        BY <1>7
      <3>2. relay' = [relay EXCEPT ![r] = [relay[r] EXCEPT !.pc = "row", !.spent = 0, !.batch = b]]
        BY <1>10
      <3> HIDE DEF IInv
      <3> QED
        BY <3>1, <3>2, BatchMoved, ZenonT(40)
    <2>2. relay'[r] = x
      BY <2>1 DEF Types
    <2>3. HoldsLease(r)'
      BY <1>1, <2>1, <2>2 DEF HoldsLease, Relying
    <2>4. InOrder(r)'
      <3>1. ASSUME NEW k \in 1..Len(b)
            PROVE  /\ b[k] \in Committed'
                   /\ \A j \in rows'[b[k]].after :
                         j \in Appended' \/ \E l \in 1..Len(b) : l < k /\ b[l] = j
        <4>1. k + 1 \in 1..Len(relay[r].batch) /\ b[k] = relay[r].batch[k + 1]
          BY <1>7
        <4>2. /\ b[k] \in Committed
              /\ \A j \in rows[b[k]].after :
                    j \in Appended \/ \E l \in 1..Len(relay[r].batch) : l < k + 1 /\ relay[r].batch[l] = j
          BY <1>2, <4>1 DEF InOrder
        <4>3. b[k] \in Committed' /\ rows'[b[k]].after = rows[b[k]].after
          BY <1>5, <4>2 DEF RowsLater
        <4>4. ASSUME NEW j \in rows[b[k]].after, j \notin Appended
              PROVE  \E l \in 1..Len(b) : l < k /\ b[l] = j
          <5>1. PICK l \in 1..Len(relay[r].batch) : l < k + 1 /\ relay[r].batch[l] = j
            BY <4>2, <4>4
          <5>2. l # 1
            BY <1>4, <4>4, <5>1
          <5>3. l - 1 \in 1..Len(b) /\ b[l - 1] = j
            BY <1>7, <5>1, <5>2
          <5>4. l \in Int /\ k \in Int
            BY <1>7, <5>3
          <5>5. l - 1 < k
            BY <5>1, <5>4
          <5> QED
            BY <5>3, <5>5
        <4> QED
          BY <1>5, <4>3, <4>4 DEF StreamLater
      <3> QED
        BY <1>10, <2>1, <2>2, <3>1 DEF InOrder
    <2>5. (\A j \in Owed(r) : Knows(r, j))'
      BY <1>8, <1>9, <2>1, <2>2 DEF Knows, Working, InBatch
    <2> QED
      BY <1>5, <1>8, <2>1, <2>3, <2>4, <2>5, RelayStep
  <1>11. CASE /\ b = << >> /\ relay[r].full
              /\ relay' = [relay EXCEPT ![r] = [relay[r] EXCEPT !.pc = "renew", !.spent = 0, !.batch = b]]
    <2>1. PICK x \in Relay : relay' = [relay EXCEPT ![r] = x] /\ x.pc = "renew"
      BY <1>7, <1>11, BatchMoved
    <2>2. relay'[r] = x
      BY <2>1 DEF Types
    <2>3. HoldsLease(r)' /\ InOrder(r)' /\ (\A j \in Owed(r) : Knows(r, j))'
      BY <2>1, <2>2 DEF HoldsLease, InOrder, Knows, Relying, Working
    <2> QED
      BY <1>5, <1>8, <2>1, <2>3, RelayStep
  <1>12. CASE b = << >> /\ ~relay[r].full /\ Return(r, "none")
    <2>1. PICK x \in Relay : relay' = [relay EXCEPT ![r] = x] /\ x.pc = "release"
      BY <1>12, ReturnFacts
    <2>2. relay'[r] = x
      BY <2>1 DEF Types
    <2>3. Len(b) = 0
      BY <1>12
    <2>4. \A j \in Owed(r)' : wake'[r]
      BY <1>8, <1>9, <1>12, <2>3
    <2>5. HoldsLease(r)' /\ InOrder(r)' /\ (\A j \in Owed(r) : Knows(r, j))'
      BY <2>1, <2>2, <2>4 DEF HoldsLease, InOrder, Knows, Relying, Working
    <2> QED
      BY <1>5, <1>8, <2>1, <2>5, RelayStep
  <1> QED
    BY <1>1, <1>6, <1>10, <1>11, <1>12 DEF AfterRow

-----------------------------------------------------------------------------
(* The end of a pass, and of a process *)

\* Rows that change without becoming committed, pending or published.
LEMMA MovedRows ==
    ASSUME IInv, rows' \in [Ids -> OutboxRow], UNCHANGED stream,
           \A i \in Ids :
              /\ rows'[i].after = rows[i].after /\ rows'[i].notified = rows[i].notified
              /\ rows'[i].by \in {rows[i].by, NoHolder}
              /\ rows'[i].state = "none" <=> rows[i].state = "none"
              /\ rows'[i].state \in {"pending", "published", "purged"}
                    <=> rows[i].state \in {"pending", "published", "purged"}
              /\ rows'[i].state = "pending" => rows[i].state = "pending"
              /\ rows'[i].state \in {"published", "purged"} => rows[i].state \in {"published", "purged"}
    PROVE  /\ RowsLater /\ NoNewDebt /\ RowsInOrder' /\ StreamLater /\ NoRepeats'
           /\ PublishedIsAppended' /\ SameAccepted
  <1> USE DEF IInv
  <1>1. Committed' = Committed /\ Appended' = Appended /\ Pending' \subseteq Pending
    BY DEF Committed, Appended, Pending
  <1>2. RowsLater
    BY <1>1 DEF RowsLater, Committed
  <1>3. NoNewDebt
    <2> SUFFICES ASSUME NEW d \in Replicas, NEW i \in Owed(d)' PROVE i \in Owed(d)
      BY DEF NoNewDebt
    <2>1. i \in Pending /\ rows'[i].by = d /\ rows'[i].notified /\ i \in Ids
      BY <1>1 DEF Owed, Pending
    <2>2. rows[i].by = d /\ rows[i].notified
      BY <2>1, Replica
    <2> QED
      BY <2>1, <2>2 DEF Owed
  <1>4. RowsInOrder'
    BY <1>1 DEF RowsInOrder
  <1>5. NoRepeats' /\ PublishedIsAppended' /\ StreamLater
    BY <1>1, SameStream DEF NoRepeats, PublishedIsAppended
  <1> QED
    BY <1>1, <1>2, <1>3, <1>4, <1>5 DEF SameAccepted, RowsLater

\* The purge changes no row that is not published.
LEMMA ReleasedRows ==
    ASSUME IInv, NEW r \in Replicas, Release(r)
    PROVE  /\ RowsLater /\ NoNewDebt /\ RowsInOrder' /\ StreamLater /\ NoRepeats'
           /\ PublishedIsAppended' /\ SameAccepted
  <1> USE DEF IInv
  <1>1. UNCHANGED stream
    BY DEF Release
  <1>2. PICK old \in {{}, Purgeable} :
           rows' = [i \in Ids |-> IF i \in old THEN [rows[i] EXCEPT !.state = "purged"] ELSE rows[i]]
    BY DEF Release
  <1>3. \A i \in Ids :
           /\ rows'[i] \in OutboxRow
           /\ rows'[i].after = rows[i].after /\ rows'[i].notified = rows[i].notified
           /\ rows'[i].by = rows[i].by
           /\ \/ rows'[i].state = rows[i].state
              \/ rows'[i].state = "purged" /\ rows[i].state = "published"
    <2> SUFFICES ASSUME NEW i \in Ids
                 PROVE  /\ rows'[i] \in OutboxRow
                        /\ rows'[i].after = rows[i].after /\ rows'[i].notified = rows[i].notified
                        /\ rows'[i].by = rows[i].by
                        /\ \/ rows'[i].state = rows[i].state
                           \/ rows'[i].state = "purged" /\ rows[i].state = "published"
      OBVIOUS
    <2>1. rows[i] \in OutboxRow
      BY DEF Types
    <2>2. CASE i \in old
      <3>1. rows[i].state = "published"
        BY <1>2, <2>2 DEF Purgeable
      <3>2. rows'[i] = [rows[i] EXCEPT !.state = "purged"]
        BY <1>2, <2>2
      <3> QED
        BY <2>1, <3>1, <3>2 DEF OutboxRow
    <2>3. CASE i \notin old
      BY <1>2, <2>1, <2>3
    <2> QED
      BY <2>2, <2>3
  <1>4. rows' \in [Ids -> OutboxRow]
    BY <1>2, <1>3
  <1> QED
    BY <1>1, <1>3, <1>4, MovedRows

LEMMA ReleaseInv ==
    ASSUME IInv, NEW r \in Replicas, Release(r)
    PROVE  IInv'
  <1> USE DEF IInv
  <1>1. UNCHANGED <<wake, stream, crashes>> /\ relay[r].pc = "release" /\ Goto(r, "idle")
        /\ lease' \in {lease, Released(r)}
        /\ wake' \in [Replicas -> BOOLEAN] /\ crashes' \in 0..MaxCrashes
    BY DEF Release, Goto, Types
  <1>5. RowsLater /\ NoNewDebt /\ RowsInOrder' /\ StreamLater /\ NoRepeats' /\ PublishedIsAppended'
    BY ReleasedRows
  <1>6. PICK x \in Relay : relay' = [relay EXCEPT ![r] = x] /\ x.pc = "idle" /\ x.err = relay[r].err
    BY <1>1, GotoFacts
  <1>7. relay'[r] = x
    BY <1>6 DEF Types
  <1>8. lease' \in Leases /\ \A d \in Replicas \ {r} : lease.holder = d /\ lease.left >= 0 => lease' = lease
    <2>1. NoLease \in Leases
      <3>1. 0 \in -(MaxStall + 1)..LeaseTTL
        BY Numbers
      <3> QED
        BY <3>1 DEF NoLease, Leases
    <2> QED
      BY <1>1, <2>1 DEF Released, Types
  <1>9. HoldsLease(r)' /\ InOrder(r)'
    BY <1>6, <1>7 DEF HoldsLease, InOrder, Relying, Working
  <1>10. (\A i \in Owed(r) : Knows(r, i))'
    <2> SUFFICES ASSUME NEW i \in Owed(r)' PROVE Knows(r, i)'
      OBVIOUS
    <2>1. Knows(r, i)
      BY <1>5 DEF NoNewDebt
    <2> QED
      BY <1>1, <1>6, <1>7, <2>1 DEF Knows, InBackoff, Working
  <1> QED
    BY <1>1, <1>5, <1>6, <1>8, <1>9, <1>10, RelayStep

\* A crash rolls open inserts back.
LEMMA CrashedRows ==
    ASSUME IInv, NEW r \in Replicas, Crash(r)
    PROVE  /\ RowsLater /\ NoNewDebt /\ RowsInOrder' /\ StreamLater /\ NoRepeats'
           /\ PublishedIsAppended' /\ SameAccepted
  <1> USE DEF IInv
  <1>1. UNCHANGED stream
    BY DEF Crash
  <1>3. \A i \in Ids :
           /\ rows'[i] \in OutboxRow
           /\ rows'[i].after = rows[i].after /\ rows'[i].notified = rows[i].notified
           /\ rows'[i].by \in {rows[i].by, NoHolder}
           /\ \/ rows'[i].state = rows[i].state
              \/ rows'[i].state = "lost" /\ rows[i].state = "open"
    <2> SUFFICES ASSUME NEW i \in Ids
                 PROVE  /\ rows'[i] \in OutboxRow
                        /\ rows'[i].after = rows[i].after /\ rows'[i].notified = rows[i].notified
                        /\ rows'[i].by \in {rows[i].by, NoHolder}
                        /\ \/ rows'[i].state = rows[i].state
                           \/ rows'[i].state = "lost" /\ rows[i].state = "open"
      OBVIOUS
    <2>1. rows[i] \in OutboxRow
      BY DEF Types
    <2>2. CASE rows[i].by = r
      <3>1. rows'[i] = [rows[i] EXCEPT !.by = NoHolder,
                                       !.state = IF rows[i].state = "open" THEN "lost" ELSE rows[i].state]
        BY <2>1, <2>2 DEF Crash, OutboxRow
      <3> QED
        BY <2>1, <3>1 DEF OutboxRow
    <2>3. CASE rows[i].by # r
      <3>1. rows'[i] = rows[i]
        BY <2>3 DEF Crash
      <3> QED
        BY <2>1, <3>1
    <2> QED
      BY <2>2, <2>3
  <1>4. rows' \in [Ids -> OutboxRow]
    <2> DEFINE F(i) == IF rows[i].by # r THEN rows[i]
                       ELSE [rows[i] EXCEPT !.by = NoHolder,
                                            !.state = IF @ = "open" THEN "lost" ELSE @]
    <2>1. rows' = [i \in Ids |-> F(i)]
      BY DEF Crash
    <2> HIDE DEF F
    <2>2. rows' = [i \in Ids |-> rows'[i]]
      BY <2>1
    <2> QED
      BY <1>3, <2>2
  <1> QED
    BY <1>1, <1>3, <1>4, MovedRows

LEMMA CrashInv ==
    ASSUME IInv, NEW r \in Replicas, Crash(r)
    PROVE  IInv'
  <1> USE DEF IInv
  <1>1. /\ relay' = [relay EXCEPT ![r] = Booted] /\ Booted \in Relay /\ Booted.pc = "renew"
        /\ wake' \in [Replicas -> BOOLEAN] /\ \A d \in Replicas \ {r} : wake'[d] = wake[d]
        /\ UNCHANGED stream
    BY BootedFacts DEF Crash, Types
  <1>2. crashes' \in 0..MaxCrashes
    <2>1. crashes \in 0..MaxCrashes /\ crashes < MaxCrashes /\ crashes' = crashes + 1
      BY DEF Crash, Types
    <2> QED
      BY <2>1, RelayAssumption
  <1>5. RowsLater /\ NoNewDebt /\ RowsInOrder' /\ StreamLater /\ NoRepeats' /\ PublishedIsAppended'
    BY CrashedRows
  <1>6. relay'[r] = Booted
    BY <1>1 DEF Types
  <1>7. lease' \in Leases
    <2>1. lease \in Leases
      BY DEF Types
    <2> QED
      BY <2>1 DEF Crash, Leases
  <1>8. \A d \in Replicas \ {r} : lease.holder = d /\ lease.left >= 0 => lease' = lease
    BY DEF Crash
  <1>9. HoldsLease(r)' /\ InOrder(r)' /\ (\A i \in Owed(r) : Knows(r, i))'
    BY <1>1, <1>6 DEF HoldsLease, InOrder, Knows, Relying, Working
  <1> QED
    BY <1>1, <1>2, <1>5, <1>7, <1>8, <1>9, RelayStep

-----------------------------------------------------------------------------
(* The handler, and time *)

\* Rows change and tokens arrive; the relays do nothing.
LEMMA RowStep ==
    ASSUME IInv, UNCHANGED <<lease, relay, stream, crashes>>,
           RowsLater, RowsInOrder', PublishedIsAppended',
           wake' \in [Replicas -> BOOLEAN], \A d \in Replicas : wake[d] => wake'[d],
           \A d \in Replicas : \A i \in Owed(d)' : i \in Owed(d) \/ wake'[d]
    PROVE  IInv'
  <1> USE DEF IInv
  <1>1. StreamLater /\ NoRepeats' /\ Types'
    BY SameStream DEF NoRepeats, Types, RowsLater
  <1>2. ASSUME NEW d \in Replicas
        PROVE  HoldsLease(d)' /\ InOrder(d)' /\ (\A i \in Owed(d) : Knows(d, i))'
    <2>1. HoldsLease(d)'
      BY LeaseKept
    <2>2. InOrder(d)'
      BY <1>1, InOrderKept
    <2>3. (\A i \in Owed(d) : Knows(d, i))'
      <3> SUFFICES ASSUME NEW i \in Owed(d)' PROVE Knows(d, i)'
        OBVIOUS
      <3>1. CASE i \in Owed(d)
        <4>1. Knows(d, i)
          BY <3>1
        <4> QED
          BY <4>1 DEF Knows, InBatch, InBackoff
      <3>2. CASE wake'[d]
        BY <3>2 DEF Knows
      <3> QED
        BY <3>1, <3>2
    <2> QED
      BY <2>1, <2>2, <2>3
  <1> QED
    BY <1>1, <1>2

\* A new row is the highest, and follows what is committed.
LEMMA EnqueueInv ==
    ASSUME IInv, NEW r \in Replicas, Enqueue(r)
    PROVE  IInv'
  <1> USE DEF IInv
  <1>1. PICK e \in Events, i \in Ids :
           /\ rows[i].state = "none"
           /\ \A j \in 1..(i - 1) : rows[j].state # "none"
           /\ rows' = [rows EXCEPT ![i] = [event |-> e, state |-> "open", by |-> r,
                                           notified |-> FALSE, after |-> Committed]]
    BY DEF Enqueue
  <1>2. UNCHANGED <<lease, relay, wake, stream, crashes>>
    BY DEF Enqueue
  <1>3. PICK x : x = [event |-> e, state |-> "open", by |-> r, notified |-> FALSE, after |-> Committed]
    OBVIOUS
  <1>4. x \in OutboxRow /\ x.state = "open" /\ x.notified = FALSE /\ x.after = Committed
    <2>1. Committed \in SUBSET Ids
      BY DEF Committed
    <2> QED
      BY <1>3, <2>1 DEF OutboxRow
  <1>5. rows' \in [Ids -> OutboxRow] /\ rows'[i] = x /\ \A j \in Ids : j # i => rows'[j] = rows[j]
    BY <1>1, <1>3, <1>4 DEF Types
  <1>6. /\ Committed' = Committed /\ Committed \subseteq Ids /\ i \notin Committed
        /\ Pending' = Pending /\ Pending \subseteq Ids /\ i \notin Pending
    BY <1>1, <1>4, <1>5 DEF Committed, Pending
  <1>7. RowsLater
    <2>1. \A j \in Committed : rows'[j] = rows[j]
      BY <1>5, <1>6
    <2> QED
      BY <1>5, <1>6, <2>1 DEF RowsLater
  <1>8. RowsInOrder'
    <2>0. Ids \subseteq Nat /\ \A j \in Ids : j < i => j \in 1..(i - 1)
      BY RelayAssumption DEF Ids
    <2>1. ASSUME NEW j \in Ids, NEW k \in Ids, j < k, rows'[k].state # "none"
          PROVE  rows'[j].state # "none"
      <3>1. CASE k = i
        <4>1. j # i
          BY <2>0, <2>1, <3>1
        <4> QED
          BY <1>1, <1>5, <2>0, <2>1, <3>1, <4>1
      <3>2. CASE k # i
        BY <1>4, <1>5, <2>1, <3>2 DEF RowsInOrder
      <3> QED
        BY <3>1, <3>2
    <2>2. \A j \in Committed : j < i
      <3> SUFFICES ASSUME NEW j \in Committed PROVE j < i
        OBVIOUS
      <3>1. j \in Ids /\ rows[j].state # "none" /\ j # i
        BY <1>6 DEF Committed
      <3>2. ~(i < j)
        BY <1>1, <3>1 DEF RowsInOrder
      <3>3. i \in Nat /\ j \in Nat
        BY <2>0, <3>1
      <3> QED
        BY <3>1, <3>2, <3>3
    <2>3. ASSUME NEW k \in Ids
          PROVE  rows'[k].after \subseteq Committed' /\ \A j \in rows'[k].after : j < k
      BY <1>4, <1>5, <1>6, <2>2 DEF RowsInOrder
    <2>4. ASSUME NEW k \in Ids, rows'[k].notified PROVE k \in Committed'
      BY <1>4, <1>5, <1>6, <2>4 DEF RowsInOrder
    <2> QED
      BY <2>1, <2>3, <2>4 DEF RowsInOrder
  <1>9. PublishedIsAppended'
    BY <1>2, <1>4, <1>5 DEF PublishedIsAppended, Appended
  <1>10. \A d \in Replicas : \A j \in Owed(d)' : j \in Owed(d)
    <2>1. \A j \in Pending : rows'[j] = rows[j]
      BY <1>5, <1>6
    <2> QED
      BY <1>6, <2>1 DEF Owed
  <1> QED
    BY <1>2, <1>7, <1>8, <1>9, <1>10, RowStep DEF Types

LEMMA CommitInv ==
    ASSUME IInv, NEW i \in Ids, Commit(i)
    PROVE  IInv'
  <1> USE DEF IInv
  <1>1. rows[i].state = "open" /\ UNCHANGED <<lease, relay, wake, stream, crashes>>
    BY DEF Commit
  <1>2. PICK s \in {"pending", "lost"} : rows' = [rows EXCEPT ![i].state = s]
    BY DEF Commit
  <1>3. PICK x : x = [rows[i] EXCEPT !.state = s]
    OBVIOUS
  <1>4. /\ x \in OutboxRow
        /\ x.state = s /\ x.by = rows[i].by /\ x.notified = rows[i].notified /\ x.after = rows[i].after
    <2>1. rows[i] \in OutboxRow
      BY DEF Types
    <2> QED
      BY <1>3, <2>1 DEF OutboxRow
  <1>5. rows' \in [Ids -> OutboxRow] /\ rows'[i] = x /\ \A j \in Ids : j # i => rows'[j] = rows[j]
    BY <1>2, <1>3, <1>4 DEF Types
  <1>6. Committed \subseteq Committed' /\ Pending' \subseteq Pending \union {i} /\ i \notin Committed
    BY <1>1, <1>4, <1>5 DEF Committed, Pending
  <1>7. \A j \in Ids : rows'[j].after = rows[j].after /\ rows'[j].notified = rows[j].notified
    BY <1>4, <1>5
  <1>8. RowsLater
    BY <1>5, <1>6, <1>7 DEF RowsLater, Committed
  <1>9. RowsInOrder'
    <2>1. \A j \in Ids : rows'[j].state = "none" <=> rows[j].state = "none"
      BY <1>1, <1>4, <1>5
    <2> QED
      BY <1>6, <1>7, <2>1 DEF RowsInOrder
  <1>10. PublishedIsAppended'
    BY <1>1, <1>4, <1>5 DEF PublishedIsAppended, Appended
  <1>11. ~rows[i].notified
    BY <1>6 DEF RowsInOrder
  <1>12. \A d \in Replicas : \A j \in Owed(d)' : j \in Owed(d)
    BY <1>4, <1>5, <1>6, <1>11 DEF Owed, Pending
  <1> QED
    BY <1>1, <1>8, <1>9, <1>10, <1>12, RowStep DEF Types

LEMMA NotifyInv ==
    ASSUME IInv, NEW i \in Ids, Notify(i)
    PROVE  IInv'
  <1> USE DEF IInv
  <1>1. /\ rows[i].by \in Replicas /\ i \in Committed
        /\ wake' = [wake EXCEPT ![rows[i].by] = TRUE]
        /\ rows' = [rows EXCEPT ![i].notified = TRUE]
        /\ UNCHANGED <<lease, relay, stream, crashes>>
    BY DEF Notify
  <1>2. PICK x : x = [rows[i] EXCEPT !.notified = TRUE]
    OBVIOUS
  <1>3. x \in OutboxRow /\ x.state = rows[i].state /\ x.by = rows[i].by /\ x.after = rows[i].after
    <2>1. rows[i] \in OutboxRow
      BY DEF Types
    <2> QED
      BY <1>2, <2>1 DEF OutboxRow
  <1>4. rows' \in [Ids -> OutboxRow] /\ rows'[i] = x /\ \A j \in Ids : j # i => rows'[j] = rows[j]
    BY <1>1, <1>2, <1>3 DEF Types
  <1>5. \A j \in Ids : /\ rows'[j].state = rows[j].state /\ rows'[j].after = rows[j].after
                       /\ rows'[j].by = rows[j].by
    BY <1>3, <1>4
  <1>6. Committed' = Committed /\ Pending' = Pending
    BY <1>5 DEF Committed, Pending
  <1>7. RowsLater
    BY <1>4, <1>5, <1>6 DEF RowsLater, Committed
  <1>8. RowsInOrder'
    BY <1>1, <1>4, <1>5, <1>6 DEF RowsInOrder
  <1>9. PublishedIsAppended'
    BY <1>1, <1>5 DEF PublishedIsAppended, Appended
  <1>10. /\ wake' \in [Replicas -> BOOLEAN] /\ wake'[rows[i].by]
         /\ \A d \in Replicas : wake[d] => wake'[d]
    BY <1>1 DEF Types
  <1>11. ASSUME NEW d \in Replicas, NEW j \in Owed(d)' PROVE j \in Owed(d) \/ wake'[d]
    <2>1. j \in Pending /\ j \in Ids /\ rows[j].by = d /\ rows'[j].notified
      BY <1>5, <1>6 DEF Owed, Pending
    <2>2. CASE j = i
      BY <1>10, <2>1, <2>2
    <2>3. CASE j # i
      BY <1>4, <2>1, <2>3 DEF Owed
    <2> QED
      BY <2>2, <2>3
  <1> QED
    BY <1>1, <1>7, <1>8, <1>9, <1>10, <1>11, RowStep

\* While time passes a lease loses no more than its holder's age gains.
LEMMA TickInv ==
    ASSUME IInv, Tick
    PROVE  IInv'
  <1> USE DEF IInv
  <1>1. UNCHANGED <<rows, wake, stream, crashes>>
    BY DEF Tick
  <1>2. PICK n : n = IF lease # NoLease /\ lease.left >= -MaxStall THEN lease.left - 1 ELSE lease.left
    OBVIOUS
  <1>3. /\ n \in Int /\ n >= lease.left - 1 /\ n <= lease.left /\ n \in -(MaxStall + 1)..LeaseTTL
    <2>1. lease.left \in -(MaxStall + 1)..LeaseTTL
      BY DEF Types, Leases
    <2> QED
      BY <1>2, <2>1, Numbers
  <1>4. lease' \in Leases /\ lease'.left = n /\ lease'.holder = lease.holder
    <2>1. lease \in Leases
      BY DEF Types
    <2>2. lease' = [lease EXCEPT !.left = n]
      BY <1>2, <2>1 DEF Tick, Leases
    <2> QED
      BY <1>3, <2>1, <2>2 DEF Leases
  <1>5. ASSUME NEW d \in Replicas
        PROVE  /\ relay'[d] \in Relay
               /\ relay'[d].pc = relay[d].pc /\ relay'[d].batch = relay[d].batch
               /\ relay'[d].full = relay[d].full /\ relay'[d].err = relay[d].err
               /\ relay[d].pc # "idle" =>
                     /\ relay'[d].spent = relay[d].spent + 1
                     /\ relay'[d].age < RenewEvery =>
                           relay[d].age < RenewEvery /\ relay'[d].age = relay[d].age + 1
    <2>0. relay[d] \in Relay
      BY RelayFacts
    <2>1. CASE relay[d].pc = "idle"
      <3>1. relay'[d] = relay[d]
        BY <2>1 DEF Tick
      <3> QED
        BY <2>0, <2>1, <3>1
    <2>2. CASE relay[d].pc # "idle"
      <3>1. PICK a : a = Capped(relay[d].age + 1)
        OBVIOUS
      <3>2. PICK s : s = relay[d].spent + 1
        OBVIOUS
      <3>3. relay[d].spent < MaxStall
        BY <2>2 DEF Tick
      <3>4. /\ s \in 0..MaxStall /\ a \in 0..RenewEvery
            /\ a < RenewEvery => relay[d].age < RenewEvery /\ a = relay[d].age + 1
        BY <3>1, <3>2, <3>3, RelayFacts, Numbers DEF Capped
      <3>5. relay'[d] = [relay[d] EXCEPT !.age = a, !.spent = s]
        BY <2>0, <2>2, <3>1, <3>2 DEF Tick, Relay
      <3> QED
        BY <2>0, <3>2, <3>4, <3>5 DEF Relay
    <2> QED
      BY <2>1, <2>2
  <1>6. Types'
    <2>1. relay' \in [Replicas -> Relay]
      <3> DEFINE F(d) == IF relay[d].pc = "idle" THEN relay[d]
                         ELSE [relay[d] EXCEPT !.age = Capped(@ + 1), !.spent = @ + 1]
      <3>1. relay' = [d \in Replicas |-> F(d)]
        BY DEF Tick
      <3> HIDE DEF F
      <3>2. relay' = [d \in Replicas |-> relay'[d]]
        BY <3>1
      <3> QED
        BY <1>5, <3>2
    <2> QED
      BY <1>1, <1>4, <2>1 DEF Types
  <1>7. RowsLater /\ StreamLater /\ RowsInOrder' /\ NoRepeats' /\ PublishedIsAppended'
    BY <1>1, SameTables
  <1>8. ASSUME NEW d \in Replicas
        PROVE  HoldsLease(d)' /\ InOrder(d)' /\ (\A i \in Owed(d) : Knows(d, i))'
    <2>1. HoldsLease(d)'
      <3>1. HoldsLease(d) /\ relay[d].age \in Nat /\ relay[d].spent \in Nat /\ lease.left \in Int
        BY RelayFacts, LeaseFacts
      <3>2. ASSUME relay'[d].pc \in Relying, relay'[d].age < RenewEvery
            PROVE  lease'.holder = d /\ lease'.left >= LeaseTTL - relay'[d].age
        BY <1>3, <1>4, <1>5, <3>1, <3>2, Numbers DEF HoldsLease, Relying
      <3>3. ASSUME relay'[d].pc = "append"
            PROVE  lease'.holder = d /\ lease'.left + relay'[d].spent >= MaxStall
        BY <1>3, <1>4, <1>5, <3>1, <3>3, Numbers DEF HoldsLease
      <3> QED
        BY <3>2, <3>3 DEF HoldsLease
    <2>2. InOrder(d)'
      BY <1>5, <1>7, InOrderKept
    <2>3. (\A i \in Owed(d) : Knows(d, i))'
      BY <1>1, <1>5 DEF Owed, Pending, Knows, InBatch, InBackoff
    <2> QED
      BY <2>1, <2>2, <2>3
  <1> QED
    BY <1>6, <1>7, <1>8

-----------------------------------------------------------------------------
(* The inductive invariant *)

LEMMA InitInv == Init => IInv
  <1> SUFFICES ASSUME Init PROVE IInv
    OBVIOUS
  <1>1. NoRow \in OutboxRow
    BY DEF NoRow, OutboxRow
  <1>2. NoLease \in Leases
    <2>1. 0 \in -(MaxStall + 1)..LeaseTTL
      BY Numbers
    <2> QED
      BY <2>1 DEF NoLease, Leases
  <1>3. stream \in Seq(Ids) /\ Len(stream) = 0
    BY DEF Init
  <1>4. Types
    BY <1>1, <1>2, <1>3, BootedFacts, RelayAssumption DEF Init, Types
  <1>5. \A i \in Ids : rows[i].state = "none" /\ rows[i].after = {} /\ ~rows[i].notified
    BY DEF Init, NoRow
  <1>6. Committed = {} /\ Pending = {}
    BY <1>5 DEF Committed, Pending
  <1>7. NoRepeats
    BY <1>3 DEF NoRepeats
  <1>8. RowsInOrder /\ PublishedIsAppended
    BY <1>5, <1>6 DEF RowsInOrder, PublishedIsAppended
  <1>9. \A r \in Replicas : relay[r].pc = "renew"
    BY BootedFacts DEF Init
  <1>10. \A r \in Replicas : HoldsLease(r) /\ InOrder(r) /\ \A i \in Owed(r) : Knows(r, i)
    BY <1>9 DEF HoldsLease, InOrder, Knows, Relying, Working
  <1> QED
    BY <1>4, <1>7, <1>8, <1>10 DEF IInv

LEMMA NextInv == IInv /\ [Next]_vars => IInv'
  <1> SUFFICES ASSUME IInv, [Next]_vars PROVE IInv'
    OBVIOUS
  <1>1. CASE UNCHANGED vars
    BY <1>1 DEF vars, IInv, Types, NoRepeats, RowsInOrder, PublishedIsAppended, HoldsLease,
       InOrder, Owed, Knows, Committed, Appended, Pending, InBatch, InBackoff
  <1>2. ASSUME NEW r \in Replicas,
               Enqueue(r) \/ Woken(r) \/ Timer(r) \/ Release(r) \/ Crash(r)
        PROVE  IInv'
    BY <1>2, EnqueueInv, WokenInv, ReleaseInv, CrashInv
  <1>3. ASSUME NEW r \in Replicas, Progress(r)
        PROVE  IInv'
    BY <1>3, RenewInv, PendingOutboxInv, RenewRowInv, XAddInv, MarkOutboxPublishedInv DEF Progress
  <1>4. ASSUME NEW r \in Replicas, Failure(r)
        PROVE  IInv'
    BY <1>4, RefusedInv, XAddFailsInv, MarkFailsInv DEF Failure
  <1> QED
    BY <1>1, <1>2, <1>3, <1>4, CommitInv, NotifyInv, TickInv DEF Next

\* The inductive invariant holds in every reachable state.
THEOREM RelayInvariant == Spec => []IInv
  BY InitInv, NextInv, PTL DEF Spec, SafeSpec

\* Types are kept.  The stream is no longer than the outbox: XADD repeats
\* a row, its first appearance does not.
THEOREM TypeCorrect == Spec => []TypeOK
  <1>1. IInv => TypeOK
    <2> SUFFICES ASSUME IInv PROVE TypeOK
      OBVIOUS
    <2>1. Types /\ NoRepeats
      BY DEF IInv
    <2>2. Len(stream) \in Nat /\ stream \in [1..Len(stream) -> Ids] /\ MaxRows \in Nat
      BY <2>1, RelayAssumption DEF Types
    <2>3. /\ IsFiniteSet(1..Len(stream)) /\ Cardinality(1..Len(stream)) = Len(stream)
          /\ IsFiniteSet(1..MaxRows) /\ Cardinality(1..MaxRows) = MaxRows
      <3>1. \A n \in Nat : IsFiniteSet(1..n) /\ Cardinality(1..n) = n
        <4> TAKE n \in Nat
        <4>1. 1 \in Int /\ n \in Int
          OBVIOUS
        <4>2. IsFiniteSet(1..n) /\ Cardinality(1..n) = IF 1 > n THEN 0 ELSE n - 1 + 1
          BY <4>1, FS_Interval
        <4> QED
          BY <4>2
      <3> QED
        BY <2>2, <3>1
    <2>4. Len(stream) <= MaxRows
      <3> SUFFICES ASSUME MaxRows < Len(stream) PROVE FALSE
        BY <2>2
      <3>1. \E j, k \in 1..Len(stream) : j # k /\ stream[j] = stream[k]
        <4>1. Ids = 1..MaxRows
          BY DEF Ids
        <4>2. stream \in [1..Len(stream) -> 1..MaxRows]
          BY <2>2, <4>1
        <4>3. Cardinality(1..MaxRows) < Cardinality(1..Len(stream))
          BY <2>3
        <4> QED
          BY <2>3, <4>2, <4>3, FS_PigeonHole
      <3> QED
        BY <2>1, <3>1 DEF NoRepeats
    <2>5. Len(stream) \in 0..MaxRows
      BY <2>2, <2>4
    <2>6. stream \in UNION {[1..n -> Ids] : n \in 0..MaxRows}
      BY <2>2, <2>5
    <2> QED
      BY <2>1, <2>6 DEF Types, TypeOK
  <1> QED
    BY <1>1, RelayInvariant, PTL

\* A relay whose XADD is under way holds a lease that has not run out, for any
\* leaseTTL, leaseRenewEvery and longest call with leaseRenewEvery + MaxStall
\* and 2 * MaxStall within leaseTTL (Relay.renew before each row).
THEOREM OneRelayPublishes == Spec => []PublishesUnderLease
  <1>1. IInv => PublishesUnderLease
    <2> SUFFICES ASSUME IInv, NEW r \in Replicas, relay[r].pc = "append"
                 PROVE  lease.holder = r /\ lease.left >= 0
      BY DEF PublishesUnderLease
    <2>1. lease.holder = r /\ lease.left + relay[r].spent >= MaxStall
      BY DEF IInv, HoldsLease
    <2> QED
      BY <2>1, RelayFacts, LeaseFacts, Numbers DEF IInv
  <1> QED
    BY <1>1, RelayInvariant, PTL

\* A relay that sleeps until its timer was told of no pending row of its own
\* (Notify, the wake channel of capacity one and Run's backoff).
THEOREM NoWakeIsLost == Spec => []NotifyNotLost
  <1>1. IInv => NotifyNotLost
    <2> SUFFICES ASSUME IInv, NEW r \in Replicas, NEW i \in Pending,
                        rows[i].by = r, rows[i].notified, relay[r].pc = "idle", ~InBackoff(r)
                 PROVE  wake[r]
      BY DEF NotifyNotLost
    <2>1. Knows(r, i)
      BY DEF IInv, Owed
    <2> QED
      BY <2>1 DEF Knows, Working
  <1> QED
    BY <1>1, RelayInvariant, PTL

-----------------------------------------------------------------------------
(* The outbox implements the delivery *)

Follows == [i \in Ids |-> IF i \in Committed THEN rows[i].after ELSE {}]

LEMMA AbstractStutter ==
    ASSUME SameAccepted, UNCHANGED stream
    PROVE  UNCHANGED <<Committed, Follows, stream>>
  BY DEF SameAccepted, Follows

\* The commit of an insert accepts the row; a rollback accepts nothing.
LEMMA CommitAccepts ==
    ASSUME IInv, NEW i \in Ids, Commit(i)
    PROVE  Abstract!Accept(i) \/ UNCHANGED <<Committed, Follows, stream>>
  <1> USE DEF IInv
  <1>1. rows[i].state = "open" /\ UNCHANGED stream
    BY DEF Commit
  <1>2. PICK s \in {"pending", "lost"} : rows' = [rows EXCEPT ![i].state = s]
    BY DEF Commit
  <1>3. /\ rows'[i].state = s
        /\ \A j \in Ids : rows'[j].after = rows[j].after
        /\ \A j \in Ids : j # i => rows'[j].state = rows[j].state
    <2>1. \A j \in Ids : rows[j] \in OutboxRow
      BY DEF Types
    <2> QED
      BY <1>2, <2>1 DEF Types, OutboxRow
  <1>4. CASE s = "lost"
    <2>1. SameAccepted
      BY <1>1, <1>3, <1>4 DEF SameAccepted, Committed
    <2> QED
      BY <1>1, <2>1, AbstractStutter
  <1>5. CASE s = "pending"
    <2>1. i \notin Committed /\ Committed' = Committed \union {i}
      BY <1>1, <1>3, <1>5 DEF Committed
    <2>2. rows[i].after \in SUBSET Committed
      BY DEF RowsInOrder
    <2>3. Follows' = [Follows EXCEPT ![i] = rows[i].after]
      BY <1>3, <2>1 DEF Follows
    <2> QED
      BY <1>1, <2>1, <2>2, <2>3 DEF Abstract!Accept, Follows
  <1> QED
    BY <1>4, <1>5

\* An XADD delivers a row behind all it had to follow, the first time.
LEMMA AppendDelivers ==
    ASSUME IInv, NEW r \in Replicas, relay[r].pc = "append", UNCHANGED rows,
           Append1(Head(relay[r].batch))
    PROVE  (\E i \in Ids : Abstract!Deliver(i)) \/ UNCHANGED <<Committed, Follows, stream>>
  <1>1. PICK i : i = Head(relay[r].batch)
    OBVIOUS
  <1>2. i \in Committed /\ i \in Ids /\ rows[i].after \subseteq Appended
    BY <1>1, HeadFacts DEF Working
  <1>3. SameAccepted
    BY DEF SameAccepted, Committed
  <1>4. CASE i \in Appended
    BY <1>1, <1>3, <1>4, AbstractStutter DEF Append1
  <1>5. CASE i \notin Appended
    <2>1. stream' = Append(stream, i)
      BY <1>1, <1>5 DEF Append1
    <2>2. Follows' = Follows /\ Committed' = Committed /\ Follows[i] = rows[i].after
      BY <1>2, <1>3 DEF SameAccepted, Follows
    <2>3. Abstract!Delivered = Appended
      BY DEF Abstract!Delivered, Appended
    <2>4. Abstract!Deliver(i)
      BY <1>2, <1>5, <2>1, <2>2, <2>3 DEF Abstract!Deliver, Follows
    <2> QED
      BY <1>2, <2>4
  <1> QED
    BY <1>4, <1>5

LEMMA StepsImplement ==
    ASSUME IInv, [Next]_vars
    PROVE  Abstract!Next \/ UNCHANGED <<Committed, Follows, stream>>
  <1> USE DEF IInv
  <1>1. CASE UNCHANGED <<rows, stream>>
    BY <1>1 DEF Committed, Follows
  <1>2. ASSUME NEW r \in Replicas, Enqueue(r)
        PROVE  UNCHANGED <<Committed, Follows, stream>>
    <2>1. PICK e \in Events, i \in Ids :
             /\ rows[i].state = "none" /\ UNCHANGED stream
             /\ rows' = [rows EXCEPT ![i] = [event |-> e, state |-> "open", by |-> r,
                                             notified |-> FALSE, after |-> Committed]]
      BY <1>2 DEF Enqueue
    <2>2. rows'[i].state = "open" /\ \A j \in Ids : j # i => rows'[j] = rows[j]
      BY <2>1 DEF Types
    <2>3. SameAccepted
      BY <2>1, <2>2 DEF SameAccepted, Committed
    <2> QED
      BY <2>1, <2>3, AbstractStutter
  <1>3. ASSUME NEW i \in Ids, Notify(i)
        PROVE  UNCHANGED <<Committed, Follows, stream>>
    <2>1. rows' = [rows EXCEPT ![i].notified = TRUE] /\ UNCHANGED stream
      BY <1>3 DEF Notify
    <2>2. \A j \in Ids : rows'[j].state = rows[j].state /\ rows'[j].after = rows[j].after
      <3>1. \A j \in Ids : rows[j] \in OutboxRow
        BY DEF Types
      <3> QED
        BY <2>1, <3>1 DEF Types, OutboxRow
    <2>3. SameAccepted
      BY <2>2 DEF SameAccepted, Committed
    <2> QED
      BY <2>1, <2>3, AbstractStutter
  <1>4. ASSUME NEW r \in Replicas, Release(r) \/ Crash(r)
        PROVE  UNCHANGED <<Committed, Follows, stream>>
    <2>1. SameAccepted /\ UNCHANGED stream
      BY <1>4, ReleasedRows, CrashedRows DEF Release, Crash
    <2> QED
      BY <2>1, AbstractStutter
  <1>5. ASSUME NEW r \in Replicas, MarkOutboxPublished(r) \/ MarkFails(r)
        PROVE  UNCHANGED <<Committed, Follows, stream>>
    <2>1. relay[r].pc = "mark" /\ UNCHANGED stream
          /\ (UNCHANGED rows \/ Published(Head(relay[r].batch)))
      BY <1>5 DEF MarkOutboxPublished, MarkFails
    <2>2. Head(relay[r].batch) \in Ids \cap Committed /\ Head(relay[r].batch) \in Appended
      BY <2>1, HeadFacts DEF InOrder, Working
    <2>3. CASE UNCHANGED rows
      BY <1>1, <2>1, <2>3 DEF Committed, Follows
    <2>4. CASE Published(Head(relay[r].batch))
      <3>1. SameAccepted
        BY <2>1, <2>2, <2>4, PublishedFacts
      <3> QED
        BY <2>1, <3>1, AbstractStutter
    <2> QED
      BY <2>1, <2>3, <2>4
  <1>6. ASSUME NEW r \in Replicas, XAdd(r) \/ XAddFails(r)
        PROVE  (\E i \in Ids : Abstract!Deliver(i)) \/ UNCHANGED <<Committed, Follows, stream>>
    <2>1. relay[r].pc = "append" /\ UNCHANGED rows
          /\ (UNCHANGED stream \/ Append1(Head(relay[r].batch)))
      BY <1>6 DEF XAdd, XAddFails
    <2>2. CASE UNCHANGED stream
      BY <2>1, <2>2 DEF Committed, Follows
    <2>3. CASE Append1(Head(relay[r].batch))
      BY <2>1, <2>3, AppendDelivers
    <2> QED
      BY <2>1, <2>2, <2>3
  <1>7. ASSUME NEW r \in Replicas,
               \/ Woken(r) \/ Timer(r) \/ Renew(r) \/ PendingOutbox(r) \/ RenewRow(r)
               \/ RenewFails(r) \/ QueryFails(r) \/ RenewRowFails(r)
        PROVE  UNCHANGED <<rows, stream>>
    BY <1>7 DEF Woken, Timer, Renew, PendingOutbox, RenewRow, RenewFails, QueryFails, RenewRowFails
  <1>8. Tick \/ UNCHANGED vars => UNCHANGED <<rows, stream>>
    BY DEF Tick, vars
  <1> QED
    BY <1>1, <1>2, <1>3, <1>4, <1>5, <1>6, <1>7, <1>8, CommitAccepts
    DEF Next, Progress, Failure, Abstract!Next

\* The safety of the delivery contract: the outbox, the lease and the relays
\* implement EventDelivery, whose stream never lets an event overtake one that
\* had been accepted when it arrived.
THEOREM OutboxImplementsDelivery == Spec => NoOvertaking
  <1>1. Init => Abstract!Init
    <2> SUFFICES ASSUME Init PROVE Abstract!Init
      OBVIOUS
    <2>1. Committed = {} /\ stream = << >>
      BY DEF Init, NoRow, Committed
    <2> QED
      BY <2>1 DEF Abstract!Init
  <1>2. IInv /\ [Next]_vars => [Abstract!Next]_(Abstract!vars)
    BY StepsImplement DEF Abstract!vars, Follows
  <1> QED
    BY <1>1, <1>2, RelayInvariant, PTL DEF Spec, SafeSpec, NoOvertaking, Abstract!Safety
=============================================================================
