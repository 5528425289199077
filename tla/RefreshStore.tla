---------------------------- MODULE RefreshStore ----------------------------
(***************************************************************************)
(* internal/auth/refreshstore/postgres.go: one family of rotating OAuth    *)
(* refresh tokens and the transactions that race on it.                    *)
(*                                                                         *)
(* deriveSuccessorRefreshToken makes the successor of a token a function   *)
(* of the token, so the tokens of a family are the numbers 1, 2, 3, ...    *)
(* and the successor of t is t + 1; all its rows carry the same client and *)
(* principal.  Postgres is modelled by what the code relies on: a          *)
(* transaction works on the snapshot its first statement took, row locks   *)
(* are held to the end, and under REPEATABLE READ a lock on a row that     *)
(* changed since the snapshot fails with 40001.  Nothing uncommitted is    *)
(* visible, so a write and its commit are one step.                        *)
(***************************************************************************)
EXTENDS Integers, FiniteSets

CONSTANTS
    Calls,        \* concurrent requests
    MaxToken,     \* bound on the length of the rotation chain
    Lifetimes,    \* RefreshTokenTTL: it may be reconfigured between requests
    Grace,        \* rotationGraceWindow
    Retention,    \* GC's seven days
    MaxAttempts,  \* rotations and principal revocations retry 40001
    MaxTime       \* bound on the clock

ASSUME RefreshAssumption ==
    /\ MaxToken \in Nat \ {0}
    /\ Lifetimes \subseteq Nat
    /\ Grace \in Nat
    /\ Retention \in Nat
    /\ MaxAttempts \in Nat \ {0}
    /\ MaxTime \in Nat

VARIABLES
    tok,     \* the committed rows of oauth_refresh_tokens
    now,     \* the clock
    tx,      \* the request of each call and the transaction it is in
    ended,   \* the revocations that were reported done
    issued   \* the token the last step handed out, 0 if it handed out none

vars == <<tok, now, tx, ended, issued>>

Tokens == 1..MaxToken
NotRotated == -1

Row == [stored  : BOOLEAN,
        expires : Nat,
        rotated : Nat \union {NotRotated},
        revoked : BOOLEAN]

Absent == [stored |-> FALSE, expires |-> 0, rotated |-> NotRotated, revoked |-> FALSE]

Fresh(expires) == [Absent EXCEPT !.stored = TRUE, !.expires = expires]

Ops == {"rotate", "revokePrincipal", "revokeFamily"}

\* begin: no snapshot yet; wait: snapshot taken, row locks still to take;
\* locked: the row of the presented token is locked.
Tx == [op      : Ops,
       phase   : {"idle", "begin", "wait", "locked"},
       old     : Tokens,
       expires : Nat,
       attempt : 1..MaxAttempts,
       snap    : [Tokens -> Row]]

NoTokens == [t \in Tokens |-> Absent]

NoTx == [op |-> "rotate", phase |-> "idle", old |-> 1, expires |-> 0,
         attempt |-> 1, snap |-> NoTokens]

Init ==
    /\ tok = NoTokens
    /\ now = 0
    /\ tx = [c \in Calls |-> NoTx]
    /\ ended = {}
    /\ issued = 0

-----------------------------------------------------------------------------
LiveTip(t) == tok[t].stored /\ ~tok[t].revoked /\ tok[t].rotated = NotRotated

\* The rows of a table an "... AND revoked_at IS NULL" update selects.
Unrevoked(table) == {t \in Tokens : table[t].stored /\ ~table[t].revoked}

\* Row t is locked by a transaction other than that of c.
LockedByOther(c, t) ==
    \E d \in Calls \ {c} : tx[d].phase = "locked" /\ tx[d].old = t

\* REPEATABLE READ: c may lock these rows, nobody changed them.
CanLock(c, rows) == \A t \in rows : ~LockedByOther(c, t)
SameAsSnapshot(c, rows) == \A t \in rows : tok[t] = tx[c].snap[t]

Revoke(table, rows) ==
    [t \in Tokens |-> IF t \in rows /\ table[t].stored
                      THEN [table[t] EXCEPT !.revoked = TRUE] ELSE table[t]]

EndTx(c) == tx' = [tx EXCEPT ![c] = NoTx]

\* 40001 or 40P01: rolled back and tried again, at most MaxAttempts times;
\* then ErrServerError.
Conflict(c) ==
    /\ tx' = [tx EXCEPT ![c] =
                 IF tx[c].attempt < MaxAttempts
                 THEN [tx[c] EXCEPT !.phase = "begin", !.snap = NoTokens,
                                    !.attempt = tx[c].attempt + 1]
                 ELSE NoTx]
    /\ issued' = 0
    /\ UNCHANGED <<tok, now, ended>>

\* Nothing is written: a refusal (expired, revoked, wrong client, refused by
\* accept), the five second timeout, a lost connection or a crash.
Rollback(c) ==
    /\ tx[c].phase # "idle"
    /\ EndTx(c)
    /\ issued' = 0
    /\ UNCHANGED <<tok, now, ended>>

-----------------------------------------------------------------------------
\* Insert: the first token of the family, whose life starts the clock.
Insert ==
    \E ttl \in Lifetimes :
        /\ now = 0
        /\ tok = NoTokens
        /\ tok' = [tok EXCEPT ![1] = Fresh(now + ttl)]
        /\ issued' = 1
        /\ UNCHANGED <<now, tx, ended>>

\* A request arrives; t is a token some client was given.
Request(c, op, t, expires) ==
    /\ tx[c].phase = "idle"
    /\ tx' = [tx EXCEPT ![c] = [NoTx EXCEPT !.op = op, !.phase = "begin", !.old = t,
                                            !.expires = expires]]
    /\ issued' = 0
    /\ UNCHANGED <<tok, now, ended>>

Stored == {t \in Tokens : tok[t].stored}

RotateIf(c) == \E t \in Stored, ttl \in Lifetimes : Request(c, "rotate", t, now + ttl)
RevokeFamily(c) == \E t \in Stored : Request(c, "revokeFamily", t, 0)
RevokePrincipal(c) == Stored # {} /\ Request(c, "revokePrincipal", 1, 0)

\* The first statement of the transaction fixes what it sees.
TakeSnapshot(c) ==
    /\ tx[c].phase = "begin"
    /\ tx' = [tx EXCEPT ![c].phase = "wait", ![c].snap = tok]
    /\ issued' = 0
    /\ UNCHANGED <<tok, now, ended>>

-----------------------------------------------------------------------------
(* rotateTx.                                                               *)

\* SELECT ... FOR UPDATE of the presented token.
LockOld(c) ==
    /\ tx[c].op = "rotate" /\ tx[c].phase = "wait"
    /\ tx[c].snap[tx[c].old].stored
    /\ CanLock(c, {tx[c].old})
    /\ \/ /\ SameAsSnapshot(c, {tx[c].old})
          /\ tx' = [tx EXCEPT ![c].phase = "locked"]
          /\ issued' = 0
          /\ UNCHANGED <<tok, now, ended>>
       \/ ~SameAsSnapshot(c, {tx[c].old}) /\ Conflict(c)

\* The presented row, locked, not expired and not revoked: the checks all
\* three outcomes below share.
Presented(c) ==
    /\ tx[c].phase = "locked"
    /\ tok[tx[c].old].stored
    /\ now <= tok[tx[c].old].expires
    /\ ~tok[tx[c].old].revoked

Spent(row) == [row EXCEPT !.rotated = now]

\* The presented token is the live tip: spend it and store its successor.
RotateTip(c) ==
    LET old == tx[c].old IN
    /\ Presented(c)
    /\ tok[old].rotated = NotRotated
    /\ old < MaxToken
    /\ ~tok[old + 1].stored
    /\ tok' = [tok EXCEPT ![old] = Spent(@), ![old + 1] = Fresh(tx[c].expires)]
    /\ issued' = old + 1
    /\ EndTx(c)
    /\ UNCHANGED <<now, ended>>

Replayed(c) == Presented(c) /\ tok[tx[c].old].rotated # NotRotated

InGrace(c) == now - tok[tx[c].old].rotated < Grace

\* Mutant: the successor is read from the snapshot without a lock.
SuccessorFromSnapshot(c, child) ==
    /\ ~tx[c].snap[child].revoked
    /\ tx[c].snap[child].rotated = NotRotated
    /\ now < tx[c].snap[child].expires

\* The successor's row, locked, is still the live and unexpired tip.
SuccessorIsTip(c, child) ==
    /\ SameAsSnapshot(c, {child})
    /\ LiveTip(child)
    /\ now < tok[child].expires

\* A recent replay is a client that lost its answer: give it the same answer.
GraceReplay(c) ==
    LET child == tx[c].old + 1 IN
    /\ Replayed(c) /\ InGrace(c)
    /\ child \in Tokens /\ tx[c].snap[child].stored
    /\ CanLock(c, {child})
    /\ \/ /\ SuccessorIsTip(c, child)
          /\ issued' = child
          /\ EndTx(c)
          /\ UNCHANGED <<tok, now, ended>>
       \/ ~SameAsSnapshot(c, {child}) /\ Conflict(c)

\* Mutant: the update takes the rows as they are, as READ COMMITTED would.
RevokableReadCommitted(c, rows) == CanLock(c, rows)

\* An update under REPEATABLE READ goes through: no row it selects changed.
Revokable(c, rows) == CanLock(c, rows) /\ SameAsSnapshot(c, rows)

\* A late replay is reuse: the family is revoked.
ReuseDetected(c) ==
    LET rows == Unrevoked(tx[c].snap) IN
    /\ Replayed(c) /\ ~InGrace(c)
    /\ \/ /\ Revokable(c, rows)
          /\ tok' = Revoke(tok, rows)
          /\ ended' = ended \union {"reuse"}
          /\ issued' = 0
          /\ EndTx(c)
          /\ UNCHANGED now
       \/ CanLock(c, rows) /\ ~SameAsSnapshot(c, rows) /\ Conflict(c)

\* The rows a replay still has to lock.
Needs(c) == IF InGrace(c) THEN {tx[c].old + 1} ELSE Unrevoked(tx[c].snap)

\* RefreshAccessTokenForResource: accept refuses a session presented without
\* the client authentication it was issued under.  The rotation is rolled
\* back and the same request then revokes the family.
Downgrade(c) ==
    /\ Presented(c)
    /\ Replayed(c) => InGrace(c) /\ tx[c].old < MaxToken /\ SuccessorIsTip(c, tx[c].old + 1)
    /\ tx' = [tx EXCEPT ![c] = [NoTx EXCEPT !.op = "revokeFamily", !.phase = "begin",
                                            !.old = tx[c].old]]
    /\ issued' = 0
    /\ UNCHANGED <<tok, now, ended>>

\* Two replays that wait for each other's row: one is the victim.
DeadlockVictim(c) ==
    /\ Replayed(c)
    /\ \E d \in Calls \ {c} :
          Replayed(d) /\ tx[d].old \in Needs(c) /\ tx[c].old \in Needs(d)
    /\ Conflict(c)

-----------------------------------------------------------------------------
\* revokePrincipalTx: REPEATABLE READ, like the rotations.
RevokePrincipalTx(c) ==
    LET rows == Unrevoked(tx[c].snap) IN
    /\ tx[c].op = "revokePrincipal" /\ tx[c].phase = "wait"
    /\ \/ /\ Revokable(c, rows)
          /\ tok' = Revoke(tok, rows)
          /\ ended' = ended \union {"principal"}
          /\ issued' = 0
          /\ EndTx(c)
          /\ UNCHANGED now
       \/ CanLock(c, rows) /\ ~SameAsSnapshot(c, rows) /\ Conflict(c)

\* RevokeFamily: one READ COMMITTED statement.  It waits for row locks and
\* then updates the rows as they are, but sees no row stored since it started.
RevokeFamilyUpdate(c) ==
    LET rows == Unrevoked(tx[c].snap) IN
    /\ tx[c].op = "revokeFamily" /\ tx[c].phase = "wait"
    /\ tx[c].snap[tx[c].old].stored
    /\ CanLock(c, rows)
    /\ tok' = Revoke(tok, rows)
    /\ ended' = ended \union {"family"}
    /\ issued' = 0
    /\ EndTx(c)
    /\ UNCHANGED now

\* GC: rows that expired long ago are deleted, whatever else they say.
Expired(t) == tok[t].stored /\ tok[t].expires < now - Retention

GC ==
    /\ \E t \in Tokens : Expired(t)
    /\ \A t \in Tokens : Expired(t) => \A c \in Calls : tx[c].phase = "locked" => tx[c].old # t
    /\ tok' = [t \in Tokens |-> IF Expired(t) THEN Absent ELSE tok[t]]
    /\ issued' = 0
    /\ UNCHANGED <<now, tx, ended>>

Tick ==
    /\ now < MaxTime
    /\ now' = now + 1
    /\ issued' = 0
    /\ UNCHANGED <<tok, tx, ended>>

Step(c) ==
    \/ RotateIf(c) \/ RevokeFamily(c) \/ RevokePrincipal(c) \/ TakeSnapshot(c)
    \/ LockOld(c) \/ RotateTip(c) \/ GraceReplay(c) \/ ReuseDetected(c)
    \/ DeadlockVictim(c) \/ RevokePrincipalTx(c) \/ RevokeFamilyUpdate(c) \/ Downgrade(c) \/ Rollback(c)

Next == Insert \/ GC \/ Tick \/ \E c \in Calls : Step(c)

Spec == Init /\ [][Next]_vars

-----------------------------------------------------------------------------
\* Every variable keeps its type.
TypeOK ==
    /\ tok \in [Tokens -> Row]
    /\ now \in Nat
    /\ tx \in [Calls -> Tx]
    /\ ended \subseteq {"reuse", "principal", "family"}
    /\ issued \in Tokens \union {0}

\* However rotations, replays and retries race, a family has at most one token
\* that can still be rotated, and a token is handed out only while it is that
\* one: a grace-window replay neither opens a second branch nor resurrects a
\* successor that a racing rotation or revocation has superseded.
OneLiveTip ==
    /\ Cardinality({t \in Tokens : LiveTip(t)}) <= 1
    /\ issued # 0 => LiveTip(issued)

\* Once RevokePrincipal, or the reuse detection of Rotate, has reported the
\* session revoked, no token of it is left unrevoked and none appears later: a
\* rotation that raced with it did not leave its successor behind.
RevocationIsFinal == ended \intersect {"principal", "reuse"} # {} => Unrevoked(tok) = {}

\* Store.RevokeFamily "revokes all tokens that share a family_id with rawToken".
FamilyRevocationIsFinal == "family" \in ended => Unrevoked(tok) = {}
=============================================================================
