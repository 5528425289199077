-------------------------- MODULE RefreshStoreProofs ------------------------
(***************************************************************************)
(* Proofs about RefreshStore, for any number of requests, any lifetimes    *)
(* and any length of the rotation chain.  The invariant orders the family: *)
(* nothing, neither in the table nor in a snapshot a request still works   *)
(* on, comes after a token that is not spent.  From it a snapshot whose    *)
(* unrevoked rows are unchanged has missed no token, which is what a       *)
(* revocation under REPEATABLE READ relies on.                             *)
(***************************************************************************)
EXTENDS RefreshStore, FiniteSetTheorems, TLAPS

Unspent(t) == tok[t].stored /\ tok[t].rotated = NotRotated

\* The successors of a token are stored after it is spent.
Chained == \A t, u \in Tokens : Unspent(t) /\ tok[u].stored => u <= t

HasSnapshot(c) == tx[c].phase \in {"wait", "locked"}

\* What a request saw may have been spent, revoked or deleted since, and is
\* not stored again.
SnapshotsOld ==
    \A c \in Calls : HasSnapshot(c) => \A t \in Tokens :
        tx[c].snap[t].stored =>
            /\ \A u \in Tokens : Unspent(u) => t <= u
            /\ tok[t].stored =>
                  /\ tx[c].snap[t].revoked => tok[t].revoked
                  /\ tx[c].snap[t].rotated # NotRotated => tok[t].rotated # NotRotated

\* A token the request did not see is there because one it saw was spent.
SnapshotsCover ==
    \A c \in Calls :
        HasSnapshot(c) /\ SameAsSnapshot(c, Unrevoked(tx[c].snap))
            => Unrevoked(tok) \subseteq Unrevoked(tx[c].snap)

\* Before the first token there is no request.
NothingBefore ==
    now = 0 /\ tok = NoTokens => ended = {} /\ \A c \in Calls : tx[c].phase = "idle"

HandedOut == issued # 0 => LiveTip(issued)

IInv ==
    /\ TypeOK
    /\ Chained
    /\ SnapshotsOld
    /\ SnapshotsCover
    /\ NothingBefore
    /\ HandedOut
    /\ RevocationIsFinal

-----------------------------------------------------------------------------
LEMMA RowFacts ==
    /\ Absent \in Row /\ ~Absent.stored
    /\ NoTokens \in [Tokens -> Row] /\ \A t \in Tokens : NoTokens[t] = Absent
    /\ NotRotated \notin Nat
    /\ \A n \in Nat : /\ Fresh(n) \in Row /\ Fresh(n).stored /\ ~Fresh(n).revoked
                      /\ Fresh(n).rotated = NotRotated
  <1>1. Absent \in Row /\ ~Absent.stored /\ NotRotated \notin Nat
    BY DEF Absent, Row, NotRotated
  <1>2. NoTokens \in [Tokens -> Row] /\ \A t \in Tokens : NoTokens[t] = Absent
    BY <1>1 DEF NoTokens
  <1>3. ASSUME NEW n \in Nat
        PROVE  /\ Fresh(n) \in Row /\ Fresh(n).stored /\ ~Fresh(n).revoked
               /\ Fresh(n).rotated = NotRotated
    BY DEF Fresh, Absent, Row, NotRotated
  <1> QED
    BY <1>1, <1>2, <1>3

LEMMA TokenFacts == 1 \in Tokens /\ Tokens \subseteq Nat \ {0}
  BY RefreshAssumption DEF Tokens

LEMMA NoTxFacts == NoTx \in Tx /\ NoTx.phase = "idle"
  BY RowFacts, TokenFacts, RefreshAssumption DEF NoTx, Tx, Ops

LEMMA TxFacts ==
    ASSUME TypeOK, NEW c \in Calls
    PROVE  /\ tx[c] \in Tx /\ tx[c].old \in Tokens /\ tx[c].old \in Nat
           /\ tx[c].snap \in [Tokens -> Row] /\ tx[c].expires \in Nat
  <1>1. tx[c] \in Tx
    BY DEF TypeOK
  <1> QED
    BY <1>1, TokenFacts DEF Tx

LEMMA InitInv == Init => IInv
  <1> SUFFICES ASSUME Init PROVE IInv
    OBVIOUS
  <1>1. \A c \in Calls : tx[c] = NoTx
    BY DEF Init
  <1>2. \A t \in Tokens : ~tok[t].stored
    BY RowFacts DEF Init
  <1>3. TypeOK
    BY RowFacts, NoTxFacts DEF Init, TypeOK
  <1>4. Chained /\ SnapshotsOld /\ SnapshotsCover /\ NothingBefore
    BY <1>1, <1>2, NoTxFacts
    DEF Init, Chained, Unspent, SnapshotsOld, SnapshotsCover, HasSnapshot, NothingBefore
  <1>5. HandedOut /\ RevocationIsFinal
    BY DEF Init, HandedOut, RevocationIsFinal
  <1> QED
    BY <1>3, <1>4, <1>5 DEF IInv

-----------------------------------------------------------------------------
(* Steps that write no row *)

\* A call moves; its transaction is new, over, or works on the table as it is
\* or as it saw it before.
LEMMA MovedInv ==
    ASSUME IInv, NEW c \in Calls, NEW x \in Tx, tx' = [tx EXCEPT ![c] = x],
           UNCHANGED <<tok, now, ended>>,
           \/ x.phase \in {"idle", "begin"}
           \/ x.phase = "wait" /\ x.snap = tok
           \/ x.phase = "locked" /\ HasSnapshot(c) /\ x.snap = tx[c].snap,
           x.phase # "idle" => tok # NoTokens \/ tx[c].phase # "idle",
           issued' \in Tokens \union {0}, issued' # 0 => LiveTip(issued')
    PROVE  IInv'
  <1> USE DEF IInv
  <1>1. /\ tx' \in [Calls -> Tx] /\ tx'[c] = x
        /\ \A d \in Calls : d # c => tx'[d] = tx[d]
    BY DEF TypeOK
  <1>2. TypeOK'
    BY <1>1 DEF TypeOK
  <1>3. Chained' /\ RevocationIsFinal' /\ HandedOut'
    BY DEF Chained, Unspent, RevocationIsFinal, Unrevoked, HandedOut, LiveTip
  <1>4. NothingBefore'
    BY <1>1 DEF NothingBefore
  <1>5. SnapshotsOld'
    <2>1. CASE x.phase = "wait" /\ x.snap = tok
      BY <1>1, <2>1 DEF SnapshotsOld, HasSnapshot, Chained, Unspent
    <2>2. CASE x.phase \in {"idle", "begin"}
      BY <1>1, <2>2 DEF SnapshotsOld, HasSnapshot, Unspent
    <2>3. CASE x.phase = "locked" /\ HasSnapshot(c) /\ x.snap = tx[c].snap
      BY <1>1, <2>3 DEF SnapshotsOld, HasSnapshot, Unspent
    <2> QED
      BY <2>1, <2>2, <2>3
  <1>6. SnapshotsCover'
    BY <1>1 DEF SnapshotsCover, HasSnapshot, Unrevoked, SameAsSnapshot
  <1> QED
    BY <1>2, <1>3, <1>4, <1>5, <1>6

\* 40001 or 40P01.
LEMMA ConflictInv ==
    ASSUME IInv, NEW c \in Calls, tx[c].phase # "idle", Conflict(c)
    PROVE  IInv'
  <1>1. TypeOK
    BY DEF IInv
  <1>2. PICK x \in Tx : x.phase \in {"idle", "begin"} /\ tx' = [tx EXCEPT ![c] = x]
    <2>1. CASE tx[c].attempt < MaxAttempts
      <3>1. PICK n : n = tx[c].attempt + 1
        OBVIOUS
      <3>2. n \in 1 .. MaxAttempts
        BY <1>1, <2>1, <3>1, TxFacts, RefreshAssumption DEF Tx
      <3>3. PICK x : x = [tx[c] EXCEPT !.phase = "begin", !.attempt = n, !.snap = NoTokens]
        OBVIOUS
      <3>4. x \in Tx /\ x.phase = "begin"
        BY <1>1, <3>2, <3>3, TxFacts, RowFacts DEF Tx
      <3>5. tx' = [tx EXCEPT ![c] = x]
        BY <1>1, <2>1, <3>1, <3>3 DEF Conflict, TypeOK
      <3> QED
        BY <3>4, <3>5
    <2>2. CASE ~(tx[c].attempt < MaxAttempts)
      BY <2>2, NoTxFacts DEF Conflict
    <2> QED
      BY <2>1, <2>2
  <1>3. UNCHANGED <<tok, now, ended>> /\ issued' = 0
    BY DEF Conflict
  <1> QED
    BY <1>2, <1>3, MovedInv

LEMMA RequestInv ==
    ASSUME IInv, NEW c \in Calls, NEW op \in Ops, NEW t \in Tokens, NEW n \in Nat,
           tok # NoTokens, Request(c, op, t, n)
    PROVE  IInv'
  <1>1. PICK x : x = [NoTx EXCEPT !.op = op, !.phase = "begin", !.old = t, !.expires = n]
    OBVIOUS
  <1>2. x \in Tx /\ x.phase = "begin"
    BY <1>1, NoTxFacts DEF Tx
  <1>3. tx' = [tx EXCEPT ![c] = x] /\ UNCHANGED <<tok, now, ended>> /\ issued' = 0
    BY <1>1 DEF Request
  <1> QED
    BY <1>2, <1>3, MovedInv

LEMMA TakeSnapshotInv ==
    ASSUME IInv, NEW c \in Calls, TakeSnapshot(c)
    PROVE  IInv'
  <1>1. PICK x : x = [tx[c] EXCEPT !.phase = "wait", !.snap = tok]
    OBVIOUS
  <1>2. tx[c] \in Tx /\ tok \in [Tokens -> Row]
    BY DEF IInv, TypeOK
  <1>3. x \in Tx /\ x.phase = "wait" /\ x.snap = tok
    BY <1>1, <1>2 DEF Tx
  <1>4. tx' = [tx EXCEPT ![c] = x] /\ UNCHANGED <<tok, now, ended>> /\ issued' = 0
    BY <1>1 DEF TakeSnapshot, IInv, TypeOK
  <1> QED
    BY <1>3, <1>4, MovedInv DEF TakeSnapshot

LEMMA LockOldInv ==
    ASSUME IInv, NEW c \in Calls, LockOld(c)
    PROVE  IInv'
  <1>1. CASE Conflict(c)
    BY <1>1, ConflictInv DEF LockOld
  <1>2. CASE ~Conflict(c)
    <2>1. PICK x : x = [tx[c] EXCEPT !.phase = "locked"]
      OBVIOUS
    <2>2. x \in Tx /\ x.phase = "locked" /\ x.snap = tx[c].snap
      BY <2>1, TxFacts DEF IInv, Tx
    <2>3. tx' = [tx EXCEPT ![c] = x] /\ UNCHANGED <<tok, now, ended>> /\ issued' = 0
      BY <1>2, <2>1 DEF LockOld, IInv, TypeOK
    <2>4. HasSnapshot(c) /\ tx[c].phase # "idle"
      BY DEF LockOld, HasSnapshot
    <2> QED
      BY <2>2, <2>3, <2>4, MovedInv
  <1> QED
    BY <1>1, <1>2

LEMMA EndTxInv ==
    ASSUME IInv, NEW c \in Calls, EndTx(c), UNCHANGED <<tok, now, ended>>,
           issued' \in Tokens \union {0}, issued' # 0 => LiveTip(issued')
    PROVE  IInv'
  BY NoTxFacts, MovedInv DEF EndTx

LEMMA GraceReplayInv ==
    ASSUME IInv, NEW c \in Calls, GraceReplay(c)
    PROVE  IInv'
  <1>1. CASE Conflict(c)
    BY <1>1, ConflictInv DEF GraceReplay, Replayed, Presented
  <1>2. CASE ~Conflict(c)
    <2>1. PICK child \in Tokens : LiveTip(child) /\ issued' = child
      BY <1>2 DEF GraceReplay, SuccessorIsTip
    <2>2. EndTx(c) /\ UNCHANGED <<tok, now, ended>>
      BY <1>2 DEF GraceReplay
    <2> QED
      BY <2>1, <2>2, EndTxInv
  <1> QED
    BY <1>1, <1>2

LEMMA DowngradeInv ==
    ASSUME IInv, NEW c \in Calls, Downgrade(c)
    PROVE  IInv'
  <1>1. PICK x : x = [NoTx EXCEPT !.op = "revokeFamily", !.phase = "begin", !.old = tx[c].old]
    OBVIOUS
  <1>2. x \in Tx /\ x.phase = "begin"
    BY <1>1, NoTxFacts, TxFacts DEF Tx, IInv, Ops
  <1>3. tx' = [tx EXCEPT ![c] = x] /\ UNCHANGED <<tok, now, ended>> /\ issued' = 0
    BY <1>1 DEF Downgrade
  <1> QED
    BY <1>2, <1>3, MovedInv DEF Downgrade, Presented

-----------------------------------------------------------------------------
(* Steps that write rows *)

\* The call ends; the calls that go on are where they were.
LEMMA EndedTx ==
    ASSUME TypeOK, NEW c \in Calls, EndTx(c)
    PROVE  /\ tx' \in [Calls -> Tx] /\ tx'[c].phase = "idle"
           /\ \A d \in Calls : d # c => tx'[d] = tx[d]
  BY NoTxFacts DEF TypeOK, EndTx

LEMMA InsertInv ==
    ASSUME IInv, Insert
    PROVE  IInv'
  <1> USE DEF IInv
  <1>1. PICK n \in Nat : tok' = [tok EXCEPT ![1] = Fresh(n)]
    <2>1. PICK ttl \in Lifetimes : now = 0 /\ tok' = [tok EXCEPT ![1] = Fresh(now + ttl)]
      BY DEF Insert
    <2>2. now + ttl \in Nat
      BY <2>1, RefreshAssumption
    <2> QED
      BY <2>1, <2>2
  <1>2. /\ tok = NoTokens /\ issued' = 1 /\ UNCHANGED <<now, tx, ended>>
        /\ ended = {} /\ \A c \in Calls : tx[c].phase = "idle"
    BY DEF Insert, NothingBefore
  <1>3. /\ tok' \in [Tokens -> Row]
        /\ tok'[1].stored /\ ~tok'[1].revoked /\ tok'[1].rotated = NotRotated
        /\ \A t \in Tokens : t # 1 => ~tok'[t].stored
    BY <1>1, <1>2, RowFacts, TokenFacts DEF TypeOK
  <1>4. TypeOK'
    BY <1>2, <1>3, TokenFacts DEF TypeOK
  <1>5. Chained' /\ HandedOut'
    BY <1>2, <1>3, TokenFacts DEF Chained, Unspent, HandedOut, LiveTip
  <1>6. SnapshotsOld' /\ SnapshotsCover' /\ RevocationIsFinal' /\ NothingBefore'
    BY <1>2 DEF SnapshotsOld, SnapshotsCover, HasSnapshot, RevocationIsFinal, NothingBefore
  <1> QED
    BY <1>4, <1>5, <1>6

\* The presented token is spent and its successor stored.  No snapshot holds
\* the successor yet, and one that is unchanged holds the presented token.
LEMMA RotateTipInv ==
    ASSUME IInv, NEW c \in Calls, RotateTip(c)
    PROVE  IInv'
  <1> USE DEF IInv
  <1>1. PICK old \in Tokens : old = tx[c].old
    BY TxFacts
  <1>2. PICK next : next = old + 1
    OBVIOUS
  <1>3. next \in Tokens /\ next # old /\ old \in Nat
    BY <1>1, <1>2, TokenFacts, RefreshAssumption DEF RotateTip, Tokens
  <1>4. /\ LiveTip(old) /\ Unspent(old) /\ ~tok[next].stored
        /\ tx[c].phase = "locked" /\ now \in Nat
    BY <1>1, <1>2 DEF RotateTip, Presented, LiveTip, Unspent, TypeOK
  <1>5. /\ tok' = [tok EXCEPT ![old] = Spent(tok[old]), ![next] = Fresh(tx[c].expires)]
        /\ issued' = next /\ EndTx(c) /\ UNCHANGED <<now, ended>>
    BY <1>1, <1>2, <1>3 DEF RotateTip, TypeOK
  <1>6. /\ Spent(tok[old]) \in Row /\ Spent(tok[old]).stored /\ ~Spent(tok[old]).revoked
        /\ Spent(tok[old]).rotated # NotRotated
    <2>1. tok[old] \in Row
      BY DEF TypeOK
    <2> QED
      BY <1>4, <2>1, RowFacts DEF Spent, Row, LiveTip
  <1>7. /\ tok' \in [Tokens -> Row]
        /\ tok'[old].stored /\ ~tok'[old].revoked /\ tok'[old].rotated # NotRotated
        /\ tok'[next].stored /\ ~tok'[next].revoked /\ tok'[next].rotated = NotRotated
        /\ \A t \in Tokens : t # old /\ t # next => tok'[t] = tok[t]
    BY <1>3, <1>5, <1>6, RowFacts, TxFacts DEF TypeOK
  <1>8. /\ tx' \in [Calls -> Tx] /\ tx'[c].phase = "idle"
        /\ \A d \in Calls : d # c => tx'[d] = tx[d]
    BY <1>5, EndedTx
  <1>9. TypeOK'
    BY <1>3, <1>5, <1>7, <1>8 DEF TypeOK
  <1>10. \A t \in Tokens : tok[t].stored => t <= old
    BY <1>4 DEF Chained
  <1>11. \A t \in Tokens : Unspent(t)' => t = next
    <2>1. ASSUME NEW t \in Tokens, Unspent(t)', t # next PROVE FALSE
      <3>1. t # old /\ tok'[t] = tok[t] /\ Unspent(t)
        BY <1>7, <2>1 DEF Unspent
      <3>2. t <= old /\ old <= t
        BY <1>4, <1>10, <3>1 DEF Chained, Unspent
      <3> QED
        BY <1>3, <3>1, <3>2, TokenFacts
    <2> QED
      BY <2>1
  <1>12. Chained'
    <2>1. ASSUME NEW u \in Tokens, tok'[u].stored PROVE u <= next
      BY <1>2, <1>3, <1>7, <1>10, <2>1, TokenFacts
    <2> QED
      BY <1>11, <2>1 DEF Chained
  <1>13. HandedOut'
    BY <1>3, <1>5, <1>7 DEF HandedOut, LiveTip
  <1>14. SnapshotsOld'
    <2>1. ASSUME NEW d \in Calls, HasSnapshot(d)', NEW t \in Tokens, tx'[d].snap[t].stored
          PROVE  /\ \A u \in Tokens : Unspent(u)' => t <= u
                 /\ tok'[t].stored =>
                       /\ tx'[d].snap[t].revoked => tok'[t].revoked
                       /\ tx'[d].snap[t].rotated # NotRotated => tok'[t].rotated # NotRotated
      <3>1. d # c /\ tx'[d] = tx[d] /\ HasSnapshot(d)
        BY <1>8, <2>1 DEF HasSnapshot
      <3>2. t <= old /\ t \in Nat
        BY <1>4, <2>1, <3>1, TokenFacts DEF SnapshotsOld
      <3>3. t # next
        BY <1>2, <1>3, <3>2
      <3>4. \A u \in Tokens : Unspent(u)' => t <= u
        BY <1>2, <1>3, <1>11, <3>2
      <3>5. CASE t = old
        <4>1. ~tok[old].revoked /\ tok[old].stored
          BY <1>4 DEF LiveTip
        <4> QED
          BY <1>7, <2>1, <3>1, <3>4, <3>5, <4>1 DEF SnapshotsOld
      <3>6. CASE t # old
        BY <1>7, <2>1, <3>1, <3>3, <3>4, <3>6 DEF SnapshotsOld
      <3> QED
        BY <3>5, <3>6
    <2> QED
      BY <2>1 DEF SnapshotsOld
  <1>15. SnapshotsCover'
    <2> SUFFICES ASSUME NEW d \in Calls, HasSnapshot(d)',
                        SameAsSnapshot(d, Unrevoked(tx[d].snap))'
                 PROVE  Unrevoked(tok)' \subseteq Unrevoked(tx[d].snap)'
      BY DEF SnapshotsCover
    <2>1. d # c /\ tx'[d] = tx[d] /\ HasSnapshot(d)
      BY <1>8 DEF HasSnapshot
    <2> DEFINE snap == tx[d].snap
               seen == Unrevoked(tx[d].snap)
    <2>2. \A t \in seen : tok'[t] = snap[t]
      BY <2>1 DEF SameAsSnapshot, Unrevoked
    <2>3. ~snap[next].stored
      BY <1>2, <1>3, <1>4, <2>1 DEF SnapshotsOld
    <2>4. old \notin seen
      <3> SUFFICES ASSUME old \in seen PROVE FALSE
        OBVIOUS
      <3>1. snap[old] = tok'[old] /\ snap[old].stored
        BY <1>7, <2>2
      <3>2. tok[old].rotated # NotRotated
        BY <1>4, <1>7, <2>1, <3>1 DEF SnapshotsOld, LiveTip
      <3> QED
        BY <1>4, <3>2 DEF LiveTip
    <2>5. \A t \in seen : tok[t] = snap[t]
      <3>1. \A t \in seen : t # next /\ t # old /\ t \in Tokens
        BY <2>3, <2>4 DEF Unrevoked
      <3> QED
        BY <1>7, <2>2, <3>1
    <2>6. Unrevoked(tok) \subseteq seen
      BY <2>1, <2>5 DEF SnapshotsCover, SameAsSnapshot
    <2>7. old \in Unrevoked(tok)
      BY <1>4 DEF Unrevoked, LiveTip
    <2> QED
      BY <2>4, <2>6, <2>7
  <1>16. NothingBefore'
    BY <1>7, RowFacts DEF NothingBefore
  <1>17. RevocationIsFinal'
    <2>1. Unrevoked(tok) # {}
      BY <1>4 DEF Unrevoked, LiveTip
    <2> QED
      BY <1>5, <2>1 DEF RevocationIsFinal
  <1> QED
    BY <1>9, <1>12, <1>13, <1>14, <1>15, <1>16, <1>17

\* Rows are revoked, after which all are when they were chosen well.
LEMMA RevokedInv ==
    ASSUME IInv, NEW c \in Calls, tx[c].phase # "idle", NEW rows \in SUBSET Tokens,
           tok' = Revoke(tok, rows), EndTx(c), issued' = 0, UNCHANGED now,
           NEW how \in {"reuse", "principal", "family"}, ended' = ended \union {how},
           how # "family" => Unrevoked(tok) \subseteq rows
    PROVE  IInv'
  <1> USE DEF IInv
  <1>1. ASSUME NEW t \in Tokens
        PROVE  /\ tok'[t] \in Row
               /\ tok'[t].stored = tok[t].stored /\ tok'[t].rotated = tok[t].rotated
               /\ tok[t].revoked => tok'[t].revoked
               /\ t \in rows /\ tok[t].stored => tok'[t].revoked
               /\ tok'[t] # tok[t] => tok'[t].revoked /\ tok'[t].stored
    <2>1. tok[t] \in Row
      BY DEF TypeOK
    <2>2. [tok[t] EXCEPT !.revoked = TRUE] \in Row
      BY <2>1 DEF Row
    <2>3. tok'[t] = IF t \in rows /\ tok[t].stored THEN [tok[t] EXCEPT !.revoked = TRUE]
                                                  ELSE tok[t]
      BY DEF Revoke
    <2> QED
      BY <2>1, <2>2, <2>3 DEF Row
  <1>2. tok' \in [Tokens -> Row]
    BY <1>1 DEF Revoke
  <1>3. /\ tx' \in [Calls -> Tx] /\ tx'[c].phase = "idle"
        /\ \A d \in Calls : d # c => tx'[d] = tx[d]
    BY EndedTx
  <1>4. TypeOK'
    BY <1>2, <1>3 DEF TypeOK
  <1>5. Chained'
    BY <1>1 DEF Chained, Unspent
  <1>6. SnapshotsOld'
    BY <1>1, <1>3 DEF SnapshotsOld, HasSnapshot, Unspent
  <1>7. Unrevoked(tok)' \subseteq Unrevoked(tok)
    BY <1>1 DEF Unrevoked
  <1>8. SnapshotsCover'
    <2> SUFFICES ASSUME NEW d \in Calls, HasSnapshot(d)',
                        SameAsSnapshot(d, Unrevoked(tx[d].snap))'
                 PROVE  Unrevoked(tok)' \subseteq Unrevoked(tx[d].snap)'
      BY DEF SnapshotsCover
    <2>1. tx'[d] = tx[d] /\ HasSnapshot(d)
      BY <1>3 DEF HasSnapshot
    <2>2. \A t \in Unrevoked(tx[d].snap) : tok'[t] = tx[d].snap[t]
      BY <2>1 DEF SameAsSnapshot, Unrevoked
    <2>3. \A t \in Unrevoked(tx[d].snap) : tok[t] = tx[d].snap[t]
      BY <1>1, <2>2 DEF Unrevoked
    <2>4. Unrevoked(tok) \subseteq Unrevoked(tx[d].snap)
      BY <2>1, <2>3 DEF SnapshotsCover, SameAsSnapshot
    <2> QED
      BY <1>7, <2>1, <2>4 DEF Unrevoked
  <1>9. NothingBefore'
    <2> SUFFICES ASSUME now = 0, tok' = NoTokens PROVE FALSE
      BY DEF NothingBefore
    <2>1. \A t \in Tokens : tok[t] = NoTokens[t]
      BY <1>1, RowFacts
    <2>2. tok = NoTokens
      BY <2>1, RowFacts DEF TypeOK, NoTokens
    <2> QED
      BY <2>2 DEF NothingBefore
  <1>10. RevocationIsFinal'
    <2>1. CASE how = "family"
      <3>1. ended' \intersect {"principal", "reuse"} = ended \intersect {"principal", "reuse"}
        BY <2>1
      <3>2. CASE ended \intersect {"principal", "reuse"} # {}
        BY <1>7, <3>2 DEF RevocationIsFinal
      <3> QED
        BY <3>1, <3>2 DEF RevocationIsFinal
    <2>2. CASE how # "family"
      BY <1>1, <1>7, <2>2 DEF RevocationIsFinal, Unrevoked
    <2> QED
      BY <2>1, <2>2
  <1> QED
    BY <1>4, <1>5, <1>6, <1>8, <1>9, <1>10 DEF HandedOut

LEMMA RevocationInv ==
    ASSUME IInv, NEW c \in Calls,
           ReuseDetected(c) \/ RevokePrincipalTx(c) \/ RevokeFamilyUpdate(c)
    PROVE  IInv'
  <1> DEFINE rows == Unrevoked(tx[c].snap)
  <1>1. tx[c].phase # "idle" /\ HasSnapshot(c) /\ rows \subseteq Tokens
    BY DEF ReuseDetected, Replayed, Presented, RevokePrincipalTx, RevokeFamilyUpdate,
       HasSnapshot, Unrevoked
  <1>2. Revokable(c, rows) => Unrevoked(tok) \subseteq rows
    BY <1>1 DEF Revokable, IInv, SnapshotsCover
  <1>3. CASE Conflict(c)
    BY <1>1, <1>3, ConflictInv
  <1>4. CASE ReuseDetected(c) /\ ~Conflict(c)
    <2>1. /\ Revokable(c, rows) /\ tok' = Revoke(tok, rows) /\ EndTx(c) /\ issued' = 0
          /\ UNCHANGED now /\ ended' = ended \union {"reuse"}
      BY <1>4 DEF ReuseDetected
    <2> QED
      BY <1>1, <1>2, <2>1, RevokedInv
  <1>5. CASE RevokePrincipalTx(c) /\ ~Conflict(c)
    <2>1. /\ Revokable(c, rows) /\ tok' = Revoke(tok, rows) /\ EndTx(c) /\ issued' = 0
          /\ UNCHANGED now /\ ended' = ended \union {"principal"}
      BY <1>5 DEF RevokePrincipalTx
    <2> QED
      BY <1>1, <1>2, <2>1, RevokedInv
  <1>6. CASE RevokeFamilyUpdate(c)
    <2>1. /\ tok' = Revoke(tok, rows) /\ EndTx(c) /\ issued' = 0
          /\ UNCHANGED now /\ ended' = ended \union {"family"}
      BY <1>6 DEF RevokeFamilyUpdate
    <2> QED
      BY <1>1, <2>1, RevokedInv
  <1> QED
    BY <1>3, <1>4, <1>5, <1>6

\* Expired rows are deleted.
LEMMA GCInv ==
    ASSUME IInv, GC
    PROVE  IInv'
  <1> USE DEF IInv
  <1>1. UNCHANGED <<now, tx, ended>> /\ issued' = 0 /\ now \in Nat /\ now # 0
    <2>1. PICK t \in Tokens : Expired(t)
      BY DEF GC
    <2>2. tok[t].expires \in Nat /\ tok[t].expires < now - Retention /\ now \in Nat
      BY <2>1 DEF Expired, TypeOK, Row
    <2> QED
      BY <2>2, RefreshAssumption DEF GC
  <1>2. \A t \in Tokens : tok'[t] = tok[t] \/ tok'[t] = Absent
    BY DEF GC
  <1>3. tok' \in [Tokens -> Row]
    BY RowFacts DEF GC, TypeOK
  <1>4. TypeOK'
    BY <1>1, <1>3 DEF TypeOK
  <1>5. Chained' /\ SnapshotsOld'
    BY <1>1, <1>2, RowFacts DEF Chained, Unspent, SnapshotsOld, HasSnapshot
  <1>6. Unrevoked(tok)' \subseteq Unrevoked(tok)
    BY <1>2, RowFacts DEF Unrevoked
  <1>7. SnapshotsCover'
    <2> SUFFICES ASSUME NEW d \in Calls, HasSnapshot(d)',
                        SameAsSnapshot(d, Unrevoked(tx[d].snap))'
                 PROVE  Unrevoked(tok)' \subseteq Unrevoked(tx[d].snap)'
      BY DEF SnapshotsCover
    <2>1. HasSnapshot(d) /\ tx'[d] = tx[d]
      BY <1>1 DEF HasSnapshot
    <2>2. \A t \in Unrevoked(tx[d].snap) : tok[t] = tx[d].snap[t]
      BY <1>2, <2>1, RowFacts DEF SameAsSnapshot, Unrevoked
    <2>3. Unrevoked(tok) \subseteq Unrevoked(tx[d].snap)
      BY <2>1, <2>2 DEF SnapshotsCover, SameAsSnapshot
    <2> QED
      BY <1>6, <2>1, <2>3 DEF Unrevoked
  <1>8. NothingBefore' /\ HandedOut' /\ RevocationIsFinal'
    BY <1>1, <1>6 DEF NothingBefore, HandedOut, RevocationIsFinal
  <1> QED
    BY <1>4, <1>5, <1>7, <1>8

LEMMA TickInv ==
    ASSUME IInv, Tick
    PROVE  IInv'
  <1> USE DEF IInv
  <1>1. UNCHANGED <<tok, tx, ended>> /\ issued' = 0 /\ now' = now + 1 /\ now \in Nat
    BY DEF Tick, TypeOK
  <1>2. TypeOK'
    BY <1>1 DEF TypeOK
  <1>3. Chained' /\ SnapshotsOld' /\ SnapshotsCover'
    BY <1>1 DEF Chained, Unspent, SnapshotsOld, SnapshotsCover, HasSnapshot, Unrevoked,
       SameAsSnapshot
  <1>4. NothingBefore' /\ HandedOut' /\ RevocationIsFinal'
    BY <1>1 DEF NothingBefore, HandedOut, RevocationIsFinal, Unrevoked
  <1> QED
    BY <1>2, <1>3, <1>4

-----------------------------------------------------------------------------
LEMMA NextInv == IInv /\ [Next]_vars => IInv'
  <1> SUFFICES ASSUME IInv, [Next]_vars PROVE IInv'
    OBVIOUS
  <1>1. ASSUME NEW c \in Calls, Step(c) PROVE IInv'
    <2>1. CASE RotateIf(c) \/ RevokeFamily(c) \/ RevokePrincipal(c)
      <3>1. now \in Nat /\ \A n \in Lifetimes : now + n \in Nat
        BY RefreshAssumption DEF IInv, TypeOK
      <3>2. PICK op \in Ops, t \in Tokens, n \in Nat : Request(c, op, t, n)
        BY <2>1, <3>1, TokenFacts DEF RotateIf, RevokeFamily, RevokePrincipal, Stored, Ops
      <3>3. Stored # {}
        BY <2>1 DEF RotateIf, RevokeFamily, RevokePrincipal
      <3>4. tok # NoTokens
        BY <3>3, RowFacts DEF Stored
      <3> QED
        BY <3>2, <3>4, RequestInv
    <2>2. CASE DeadlockVictim(c)
      BY <2>2, ConflictInv DEF DeadlockVictim, Replayed, Presented
    <2>3. CASE Rollback(c)
      BY <2>3, EndTxInv DEF Rollback
    <2> QED
      BY <1>1, <2>1, <2>2, <2>3, TakeSnapshotInv, LockOldInv, RotateTipInv, GraceReplayInv,
         RevocationInv, DowngradeInv DEF Step
  <1>2. CASE UNCHANGED vars
    BY <1>2 DEF vars, IInv, TypeOK, Chained, Unspent, SnapshotsOld, SnapshotsCover, HasSnapshot,
       Unrevoked, SameAsSnapshot, NothingBefore, HandedOut, LiveTip, RevocationIsFinal
  <1> QED
    BY <1>1, <1>2, InsertInv, GCInv, TickInv DEF Next

\* The inductive invariant holds in every reachable state.
THEOREM RefreshInvariant == Spec => []IInv
  BY InitInv, NextInv, PTL DEF Spec

\* Types are kept.
THEOREM TypeCorrect == Spec => []TypeOK
  <1>1. IInv => TypeOK
    BY DEF IInv
  <1> QED
    BY <1>1, RefreshInvariant, PTL

\* A family has at most one token that can still be rotated, and only that
\* one is handed out.
THEOREM AtMostOneTip == Spec => []OneLiveTip
  <1>1. IInv => OneLiveTip
    <2> SUFFICES ASSUME IInv PROVE OneLiveTip
      OBVIOUS
    <2> DEFINE S == {t \in Tokens : LiveTip(t)}
    <2>1. \A t, u \in S : t = u
      BY TokenFacts DEF IInv, Chained, Unspent, LiveTip
    <2>2. CASE S = {}
      BY <2>2, FS_EmptySet DEF OneLiveTip, IInv, HandedOut
    <2>3. CASE S # {}
      <3>1. PICK t : S = {t}
        BY <2>1, <2>3
      <3>2. Cardinality(S) = 1
        BY <3>1, FS_Singleton
      <3> QED
        BY <3>2 DEF OneLiveTip, IInv, HandedOut
    <2> QED
      BY <2>2, <2>3
  <1> QED
    BY <1>1, RefreshInvariant, PTL

\* A session reported revoked has no unrevoked token, then or later.
THEOREM RevokedForGood == Spec => []RevocationIsFinal
  <1>1. IInv => RevocationIsFinal
    BY DEF IInv
  <1> QED
    BY <1>1, RefreshInvariant, PTL
=============================================================================
