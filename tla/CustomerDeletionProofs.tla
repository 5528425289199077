----------------------- MODULE CustomerDeletionProofs -----------------------
(***************************************************************************)
(* Proofs about CustomerDeletion, for any number of customers and calls,   *)
(* any admission budget and any number of lost sessions of the run lock.   *)
(* The argument has three parts.  The claimed reservation of the name is   *)
(* unique, whoever owns or is about to own the workspace holds it, and it  *)
(* is given up only by the transaction that completes a deletion: so a     *)
(* deletion that waits or runs keeps the name even from calls that lost    *)
(* their lock.  A call of the stage complete knows, at each of its steps,  *)
(* what is already gone.  And as long as no session was lost, every call   *)
(* but a late release holds the lock.                                      *)
(***************************************************************************)
EXTENDS CustomerDeletion, TLAPS

TearingDown == {"idp", "site", "portal", "sessions", "finish"}

\* Only a prepared manifest is cancelled, only a complete one is released.
ManifestShape ==
    \A p \in Customers :
        /\ manifest[p].cancelled => manifest[p].status = "prepared"
        /\ manifest[p].released => manifest[p].status = "complete"

\* What a manifest says of the customer's account.
AccountFollowsManifest ==
    \A p \in Customers :
        /\ manifest[p].status = "deleting" => principal[p] = "disabled"
        /\ manifest[p].status = "complete" =>
              principal[p] = "removed" /\ left[p] = {} /\ reserve[p] = "none"
        /\ manifest[p].status \in {"prepared", "deleting"} => reserve[p] = "claimed"

\* Whoever has the workspace, or will have it when the workflow runs, holds
\* the one claimed reservation of its name.
ClaimedOnce ==
    /\ \A p \in Customers : tenant.owner = p \/ admitted = p => reserve[p] = "claimed"
    /\ \A p, q \in Customers : reserve[p] = "claimed" /\ reserve[q] = "claimed" => p = q

\* After completion the name belongs to nobody until it is released.
NameIsFree ==
    \A p \in Customers :
        manifest[p].status = "complete" /\ ~manifest[p].released =>
            tenant.owner = NoOne /\ admitted = NoOne /\ ~tenant.platform

\* What the workflow's progress says of the manifest and of the workspace.
WorkflowFollowsManifest ==
    \A p \in Customers :
        /\ wf[p] \in {"cleared", "removed"} => Begun(p) /\ ~manifest[p].released
        /\ wf[p] = "removed" => admitted = NoOne

\* What a call knows at each of its steps, with or without the lock.
CallKnows ==
    \A c \in Calls :
        LET p == call[c].who s == call[c].step IN
        /\ s # "idle" => p \in Customers
        /\ s = "insert" => reserve[p] = "claimed" \/ manifest[p].status = "complete"
        /\ s = "revoke" => Begun(p)
        /\ s \in {"release", "record"} => manifest[p].status = "complete"
        /\ s \in TearingDown \union {"platform"} =>
              /\ Begun(p)
              /\ manifest[p].status = "deleting" => tenant.owner = NoOne /\ admitted = NoOne
        /\ s \in TearingDown /\ manifest[p].status = "deleting" => ~tenant.platform
        /\ s \in {"site", "portal", "sessions", "finish"} => "idp" \notin left[p]
        /\ s \in {"portal", "sessions", "finish"} => "site" \notin left[p]
        /\ s \in {"sessions", "finish"} => "portal" \notin left[p]
        /\ s = "finish" => "sessions" \notin left[p]

\* As long as no session was lost, a call holds the lock unless it is a late
\* release, and what it has seen of the freeze is still so.
LockProtects ==
    lost = 0 =>
        \A c \in Calls :
            LET p == call[c].who s == call[c].step IN
            /\ s \notin {"idle", "release", "record"} => lock = c
            /\ s = "freeze" => manifest[p].status \in {"prepared", "deleting"}
            /\ s \in {"record", "forget"} => p \notin frozen

IInv ==
    /\ TypeOK
    /\ ManifestShape
    /\ AccountFollowsManifest
    /\ OnlyApprovedIdentities
    /\ ClaimedOnce
    /\ NameIsFree
    /\ WorkflowFollowsManifest
    /\ CallKnows
    /\ LockProtects
    /\ FreezeFollowsManifest


-----------------------------------------------------------------------------
LEMMA InitInv == Init => IInv
  BY DeletionAssumption
  DEF Init, IInv, TypeOK, Manifest, NoManifest, Outside, Steps, Idle, Begun, ManifestShape,
      AccountFollowsManifest, OnlyApprovedIdentities, ClaimedOnce, NameIsFree,
      WorkflowFollowsManifest, CallKnows, TearingDown, LockProtects, FreezeFollowsManifest

-----------------------------------------------------------------------------
(* What the shapes of a step do to the calls, the lock and the manifest *)

\* Call c, and no other, is now at step s for customer p.
Moves(c, p, s) ==
    /\ call' \in [Calls -> [who : Customers \union {NoOne}, step : Steps]]
    /\ call'[c].who = p /\ call'[c].step = s
    /\ \A d \in Calls : d # c => call'[d] = call[d]

LEMMA EnterStep ==
    ASSUME TypeOK, NEW c \in Calls, NEW p \in Customers, NEW s \in Steps, Enter(c, p, s)
    PROVE  Moves(c, p, s) /\ lock = NoCall /\ lock' = c
  BY DEF TypeOK, Enter, LockFree, Moves

LEMMA GotoStep ==
    ASSUME TypeOK, NEW c \in Calls, NEW s \in Steps, Goto(c, s)
    PROVE  Moves(c, call[c].who, s) /\ lock' = lock
  BY DEF TypeOK, Goto, Moves

LEMMA ReturnStep ==
    ASSUME TypeOK, NEW c \in Calls, Return(c)
    PROVE  /\ Moves(c, NoOne, "idle")
           /\ lock' \in Calls \union {NoCall}
           /\ lock # c => lock' = lock
  BY DEF TypeOK, Return, Moves, Idle, Steps

LEMMA StatusStep ==
    ASSUME TypeOK, NEW p \in Customers, NEW s \in {"prepared", "deleting", "complete"},
           manifest' = [manifest EXCEPT ![p].status = s]
    PROVE  /\ manifest' \in [Customers -> Manifest]
           /\ manifest'[p].status = s
           /\ manifest'[p].cancelled = manifest[p].cancelled
           /\ manifest'[p].released = manifest[p].released
           /\ \A q \in Customers : q # p => manifest'[q] = manifest[q]
  BY DEF TypeOK, Manifest

\* A step that only moves a call: it must know what its new step requires.
LEMMA QuietStep ==
    ASSUME IInv, NEW c \in Calls, NEW p, NEW s,
           Moves(c, p, s),
           UNCHANGED <<manifest, accounts, frozen, world, wf, lost>>,
           lock' \in Calls \union {NoCall}, lock \in {c, NoCall} \/ lock' = lock,
           s \notin {"idle", "release", "record"} /\ lost = 0 => lock' = c,
           s # "idle" => p \in Customers,
           s \notin {"revoke", "site", "portal", "sessions", "finish", "forget", "record"},
           s = "insert" => reserve[p] = "claimed",
           s = "freeze" => manifest[p].status \in {"prepared", "deleting"},
           s = "release" => manifest[p].status = "complete",
           s \in {"platform", "idp"} =>
               /\ Begun(p)
               /\ manifest[p].status = "deleting" => tenant.owner = NoOne /\ admitted = NoOne,
           s = "idp" => ~tenant.platform
    PROVE  IInv'
  <1> USE DEF IInv
  <1>1. TypeOK'
    BY DEF TypeOK, Moves, accounts, world
  <1>2. /\ ManifestShape' /\ AccountFollowsManifest' /\ OnlyApprovedIdentities' /\ ClaimedOnce'
        /\ NameIsFree' /\ WorkflowFollowsManifest' /\ FreezeFollowsManifest'
    BY DEF accounts, world, ManifestShape, AccountFollowsManifest, OnlyApprovedIdentities,
       ClaimedOnce, NameIsFree, WorkflowFollowsManifest, FreezeFollowsManifest, Begun
  <1>3. CallKnows'
    BY DEF accounts, world, CallKnows, Moves, TearingDown, Begun
  <1>4. LockProtects'
    BY DeletionAssumption DEF accounts, world, LockProtects, Moves
  <1> QED
    BY <1>1, <1>2, <1>3, <1>4

-----------------------------------------------------------------------------
(* Steps that only move a call *)

LEMMA ValidateInv ==
    ASSUME IInv, NEW c \in Calls, Validate(c)
    PROVE  IInv'
  <1>1. UNCHANGED <<manifest, accounts, frozen, world, wf, lost>> /\ TypeOK
    BY DEF Validate, IInv
  <1>2. PICK p : p = call[c].who
    OBVIOUS
  <1>3. Moves(c, p, "insert") /\ lock' = lock
    BY <1>1, <1>2, GotoStep DEF Validate, Steps
  <1>4. p \in Customers /\ (lost = 0 => lock = c) /\ lock \in Calls \union {NoCall}
    BY <1>2 DEF Validate, At, IInv, CallKnows, LockProtects, TypeOK
  <1>5. reserve[p] = "claimed"
    BY <1>2, <1>4 DEF Validate, Memberships, IInv, ClaimedOnce
  <1> QED
    BY <1>1, <1>3, <1>4, <1>5, QuietStep

LEMMA FailInv ==
    ASSUME IInv, NEW c \in Calls, Fail(c)
    PROVE  IInv'
  <1>1. UNCHANGED <<manifest, accounts, frozen, world, wf, lost>> /\ TypeOK
    BY DEF Fail, IInv
  <1>2. Moves(c, NoOne, "idle") /\ lock' \in Calls \union {NoCall} /\ (lock # c => lock' = lock)
    BY <1>1, ReturnStep DEF Fail
  <1> QED
    BY <1>1, <1>2, QuietStep

LEMMA CheckPlatformInv ==
    ASSUME IInv, NEW c \in Calls, CheckPlatformGone(c)
    PROVE  IInv'
  <1>1. UNCHANGED <<manifest, accounts, frozen, world, wf, lost>> /\ TypeOK
    BY DEF CheckPlatformGone, IInv
  <1>2. Moves(c, call[c].who, "idp") /\ lock' = lock /\ ~tenant.platform
    BY <1>1, GotoStep DEF CheckPlatformGone, Steps, Outside
  <1>3. /\ call[c].who \in Customers /\ (lost = 0 => lock = c)
        /\ Begun(call[c].who)
        /\ manifest[call[c].who].status = "deleting" => tenant.owner = NoOne /\ admitted = NoOne
    BY DEF CheckPlatformGone, At, IInv, CallKnows, LockProtects
  <1> QED
    BY <1>1, <1>2, <1>3, QuietStep DEF TypeOK

\* A call is admitted.
LEMMA EnterInv ==
    ASSUME IInv, NEW c \in Calls, NEW p \in Customers, NEW s \in {"validate", "freeze", "begin", "platform", "release", "cancel"},
           Enter(c, p, s), UNCHANGED <<manifest, accounts, frozen, world, wf, lost>>,
           s = "freeze" => manifest[p].status \in {"prepared", "deleting"},
           s = "release" => manifest[p].status = "complete",
           s = "platform" => Begun(p) /\ tenant.owner = NoOne /\ admitted = NoOne
    PROVE  IInv'
  <1>1. Moves(c, p, s) /\ lock = NoCall /\ lock' = c
    BY EnterStep DEF Steps, IInv
  <1> QED
    BY <1>1, QuietStep

LEMMA PrepareInv ==
    ASSUME IInv, NEW c \in Calls, NEW p \in Customers, Prepare(c, p)
    PROVE  IInv'
  <1>1. UNCHANGED <<manifest, accounts, frozen, world, wf, lost>>
    BY DEF Prepare
  <1>2. \/ manifest[p].status = "complete" /\ Enter(c, p, "release")
        \/ manifest[p].status \in {"prepared", "deleting"} /\ Enter(c, p, "freeze")
        \/ Enter(c, p, "validate")
    BY DEF Prepare
  <1> QED
    BY <1>1, <1>2, EnterInv

LEMMA BeginInv ==
    ASSUME IInv, NEW c \in Calls, NEW p \in Customers, Begin(c, p)
    PROVE  IInv'
  <1>1. UNCHANGED <<manifest, accounts, frozen, world, wf, lost>>
    BY DEF Begin
  <1>2. \/ manifest[p].status = "complete" /\ Enter(c, p, "release")
        \/ Enter(c, p, "begin")
    BY DEF Begin
  <1> QED
    BY <1>1, <1>2, EnterInv

LEMMA CompleteInv ==
    ASSUME IInv, NEW c \in Calls, NEW p \in Customers, Complete(c, p)
    PROVE  IInv'
  <1>1. UNCHANGED <<manifest, accounts, frozen, world, wf, lost>>
    BY DEF Complete
  <1>2. CASE manifest[p].status = "complete" /\ Enter(c, p, "release")
    BY <1>1, <1>2, EnterInv
  <1>3. CASE manifest[p].status = "deleting" /\ ~TenantExists /\ Enter(c, p, "platform")
    <2>1. tenant.owner = NoOne
      BY <1>3 DEF TenantExists
    <2>2. admitted = NoOne
      BY DEF Complete, IInv, WorkflowFollowsManifest
    <2> QED
      BY <1>1, <1>3, <2>1, <2>2, EnterInv DEF Begun
  <1> QED
    BY <1>2, <1>3 DEF Complete

LEMMA LateReleaseInv ==
    ASSUME IInv, NEW c \in Calls, NEW p \in Customers, LateRelease(c, p)
    PROVE  IInv'
  <1>1. UNCHANGED <<manifest, accounts, frozen, world, wf, lost>> /\ TypeOK
    BY DEF LateRelease, IInv
  <1>2. Moves(c, p, "release")
    BY <1>1 DEF LateRelease, TypeOK, Moves, Steps
  <1>3. lock' = lock /\ manifest[p].status = "complete"
    BY DEF LateRelease
  <1> QED
    BY <1>1, <1>2, <1>3, QuietStep DEF TypeOK

LEMMA CancelInv ==
    ASSUME IInv, NEW c \in Calls, NEW p \in Customers, Cancel(c, p)
    PROVE  IInv'
  <1>1. UNCHANGED <<manifest, accounts, frozen, world, wf, lost>> /\ Enter(c, p, "cancel")
    BY DEF Cancel
  <1> QED
    BY <1>1, EnterInv

LEMMA LoseLockInv ==
    ASSUME IInv, NEW c \in Calls, LoseLock(c)
    PROVE  IInv'
  <1> USE DEF IInv
  <1>1. /\ lock' = NoCall /\ lost' = lost + 1 /\ lost < MaxLost
        /\ UNCHANGED <<manifest, accounts, frozen, world, wf, call>>
    BY DEF LoseLock
  <1>2. lost' \in 0 .. MaxLost /\ lost' # 0
    BY <1>1, DeletionAssumption DEF TypeOK
  <1>3. TypeOK'
    BY <1>1, <1>2 DEF TypeOK, accounts, world
  <1>4. LockProtects' /\ FreezeFollowsManifest'
    BY <1>2 DEF LockProtects, FreezeFollowsManifest
  <1>5. /\ ManifestShape' /\ AccountFollowsManifest' /\ OnlyApprovedIdentities' /\ ClaimedOnce'
        /\ NameIsFree' /\ WorkflowFollowsManifest' /\ CallKnows'
    BY <1>1 DEF accounts, world, ManifestShape, AccountFollowsManifest, OnlyApprovedIdentities,
       ClaimedOnce, NameIsFree, WorkflowFollowsManifest, CallKnows, Begun
  <1> QED
    BY <1>3, <1>4, <1>5

-----------------------------------------------------------------------------
(* Steps of a call that change the account, the manifest or the portal *)

LEMMA PrepareCustomerDeletionInv ==
    ASSUME IInv, NEW c \in Calls, PrepareCustomerDeletion(c)
    PROVE  IInv'
  <1> DEFINE p == call[c].who
  <1> USE DEF IInv
  <1>1. Moves(c, p, "freeze") /\ lock' = lock
    BY GotoStep DEF PrepareCustomerDeletion, Steps
  <1>2. UNCHANGED <<principal, identities, left, reserve, frozen, tenant, extra, admitted, wf, lost>>
    BY DEF PrepareCustomerDeletion, accounts, world
  <1>3. /\ p \in Customers /\ (lost = 0 => lock = c)
        /\ reserve[p] = "claimed" \/ manifest[p].status = "complete"
    BY DEF PrepareCustomerDeletion, At, CallKnows, LockProtects
  <1>4. CASE manifest[p].status = "prepared" /\ UNCHANGED manifest
    BY <1>1, <1>2, <1>3, <1>4, QuietStep DEF accounts, world, TypeOK
  <1>5. CASE manifest[p].status = "none" /\ manifest' = [manifest EXCEPT ![p].status = "prepared"]
    <2>1. /\ manifest' \in [Customers -> Manifest]
          /\ manifest'[p].status = "prepared"
          /\ manifest'[p].cancelled = manifest[p].cancelled
          /\ manifest'[p].released = manifest[p].released
          /\ \A q \in Customers : q # p => manifest'[q] = manifest[q]
      BY <1>3, <1>5, StatusStep
    <2>2. manifest[p].status = "none" /\ ~manifest[p].released /\ ~manifest[p].cancelled
      BY <1>3, <1>5 DEF ManifestShape
    <2> HIDE <1>5
    <2>3. TypeOK'
      BY <1>1, <1>2, <2>1 DEF TypeOK, Moves
    <2>4. ManifestShape' /\ OnlyApprovedIdentities' /\ NameIsFree' /\ WorkflowFollowsManifest'
      BY <1>2, <1>3, <2>1, <2>2
      DEF ManifestShape, OnlyApprovedIdentities, NameIsFree, WorkflowFollowsManifest, Begun
    <2>5. AccountFollowsManifest' /\ ClaimedOnce'
      BY <1>2, <1>3, <2>1, <2>2 DEF AccountFollowsManifest, ClaimedOnce
    <2>6. CallKnows'
      BY <1>1, <1>2, <1>3, <2>1, <2>2 DEF CallKnows, Moves, TearingDown, Begun
    <2>7. LockProtects'
      BY <1>1, <1>2, <1>3, <2>1, <2>2 DEF LockProtects, Moves
    <2>8. FreezeFollowsManifest'
      BY <1>2, <1>3, <2>1, <2>2 DEF FreezeFollowsManifest, TypeOK
    <2> QED
      BY <2>3, <2>4, <2>5, <2>6, <2>7, <2>8
  <1> QED
    BY <1>4, <1>5 DEF PrepareCustomerDeletion

LEMMA FreezePortalInv ==
    ASSUME IInv, NEW c \in Calls, FreezePortal(c)
    PROVE  IInv'
  <1> DEFINE p == call[c].who
  <1> USE DEF IInv
  <1>1. /\ Moves(c, NoOne, "idle")
        /\ lock' \in Calls \union {NoCall} /\ (lock # c => lock' = lock)
    BY ReturnStep DEF FreezePortal
  <1>2. UNCHANGED <<manifest, principal, identities, left, reserve, tenant, extra, admitted, lost>>
    BY DEF FreezePortal, accounts, world
  <1>3. /\ p \in Customers
        /\ lost = 0 => lock = c /\ manifest[p].status \in {"prepared", "deleting"}
    BY DEF FreezePortal, At, CallKnows, LockProtects
  <1>4. frozen' = frozen \union {p} /\ (wf' = wf \/ wf' = [wf EXCEPT ![p] = "queued"])
    BY DEF FreezePortal
  <1>5. TypeOK'
    BY <1>1, <1>2, <1>3, <1>4
    DEF TypeOK, Moves
  <1>6. ManifestShape' /\ AccountFollowsManifest' /\ OnlyApprovedIdentities' /\ ClaimedOnce' /\ NameIsFree'
    BY <1>1, <1>2, <1>3, <1>4
    DEF ManifestShape, AccountFollowsManifest, TypeOK, OnlyApprovedIdentities, Begun, ClaimedOnce, NameIsFree
  <1>7. WorkflowFollowsManifest'
    BY <1>1, <1>2, <1>3, <1>4
    DEF WorkflowFollowsManifest, Begun, TypeOK
  <1>8. CallKnows'
    BY <1>1, <1>2, <1>3, <1>4
    DEF CallKnows, Moves, TearingDown, Begun
  <1>9. LockProtects'
    BY <1>1, <1>2, <1>3, <1>4
    DEF LockProtects, Moves, CallKnows
  <1>10. FreezeFollowsManifest'
    BY <1>1, <1>2, <1>3, <1>4
    DEF FreezeFollowsManifest, ManifestShape
  <1> QED
    BY <1>5, <1>6, <1>7, <1>8, <1>9, <1>10

LEMMA BeginCustomerDeletionInv ==
    ASSUME IInv, NEW c \in Calls, BeginCustomerDeletion(c)
    PROVE  IInv'
  <1> DEFINE p == call[c].who
  <1> USE DEF IInv
  <1>1. Moves(c, p, "revoke") /\ lock' = lock
    BY GotoStep DEF BeginCustomerDeletion, Steps
  <1>2. UNCHANGED <<identities, left, reserve, frozen, tenant, extra, admitted, wf, lost>>
    BY DEF BeginCustomerDeletion, world
  <1>3. p \in Customers /\ (lost = 0 => lock = c)
    BY DEF BeginCustomerDeletion, At, CallKnows, LockProtects
  <1>4. CASE manifest[p].status = "complete" /\ UNCHANGED <<manifest, principal>>
    <2>1. TypeOK'
      BY <1>1, <1>2, <1>4 DEF TypeOK, Moves
    <2>2. /\ ManifestShape' /\ AccountFollowsManifest' /\ OnlyApprovedIdentities' /\ ClaimedOnce'
          /\ NameIsFree' /\ WorkflowFollowsManifest' /\ FreezeFollowsManifest'
      BY <1>2, <1>4 DEF ManifestShape, AccountFollowsManifest, OnlyApprovedIdentities,
         ClaimedOnce, NameIsFree, WorkflowFollowsManifest, FreezeFollowsManifest, Begun
    <2>3. CallKnows' /\ LockProtects'
      BY <1>1, <1>2, <1>3, <1>4 DEF CallKnows, LockProtects, Moves, TearingDown, Begun
    <2> QED
      BY <2>1, <2>2, <2>3
  <1>5. CASE /\ manifest[p].status \in {"prepared", "deleting"} /\ StillApproved(p)
             /\ principal' = [principal EXCEPT ![p] = "disabled"]
             /\ manifest' = [manifest EXCEPT ![p].status = "deleting"]
    <2>1. /\ manifest' \in [Customers -> Manifest]
          /\ manifest'[p].status = "deleting"
          /\ manifest'[p].cancelled = manifest[p].cancelled
          /\ manifest'[p].released = manifest[p].released
          /\ \A q \in Customers : q # p => manifest'[q] = manifest[q]
      BY <1>3, <1>5, StatusStep
    <2>2. /\ manifest[p].status \in {"prepared", "deleting"}
          /\ ~manifest[p].released /\ ~manifest[p].cancelled
      BY <1>3, <1>5 DEF ManifestShape, BeginCustomerDeletion
    <2>3. /\ principal' \in [Customers -> {"active", "disabled", "removed"}]
          /\ principal'[p] = "disabled"
          /\ \A q \in Customers : q # p => principal'[q] = principal[q]
      BY <1>3, <1>5 DEF TypeOK
    <2>4. identities[p] # "moved"
      BY <1>3, <1>5 DEF StillApproved, OnlyApprovedIdentities, Begun
    <2> HIDE <1>5
    <2>5. TypeOK'
      BY <1>1, <1>2, <2>1, <2>3 DEF TypeOK, Moves
    <2>6. ManifestShape' /\ OnlyApprovedIdentities' /\ NameIsFree' /\ ClaimedOnce'
      BY <1>2, <1>3, <2>1, <2>2, <2>4
      DEF ManifestShape, OnlyApprovedIdentities, NameIsFree, ClaimedOnce, Begun
    <2>7. AccountFollowsManifest' /\ WorkflowFollowsManifest'
      BY <1>2, <1>3, <2>1, <2>2, <2>3 DEF AccountFollowsManifest, WorkflowFollowsManifest, Begun
    <2>8. CallKnows'
      <3>1. \A d \in Calls : call[d].who = p =>
                call[d].step \notin TearingDown \union {"platform"} \/ manifest[p].status = "deleting"
        BY <2>2 DEF CallKnows, Begun
      <3> QED
        BY <1>1, <1>2, <1>3, <2>1, <2>2, <3>1 DEF CallKnows, Moves, TearingDown, Begun
    <2>9. LockProtects'
      BY <1>1, <1>2, <1>3, <2>1, <2>2 DEF LockProtects, Moves
    <2>10. FreezeFollowsManifest'
      BY <1>2, <1>3, <2>1, <2>2 DEF FreezeFollowsManifest, TypeOK
    <2> QED
      BY <2>5, <2>6, <2>7, <2>8, <2>9, <2>10
  <1> QED
    BY <1>4, <1>5 DEF BeginCustomerDeletion

LEMMA RevokeSessionsInv ==
    ASSUME IInv, NEW c \in Calls, RevokeSessions(c)
    PROVE  IInv'
  <1> DEFINE p == call[c].who
  <1> USE DEF IInv
  <1>1. /\ Moves(c, NoOne, "idle")
        /\ lock' \in Calls \union {NoCall} /\ (lock # c => lock' = lock)
    BY ReturnStep DEF RevokeSessions
  <1>2. UNCHANGED <<manifest, principal, identities, reserve, frozen, tenant, extra, admitted, lost>>
    BY DEF RevokeSessions, world
  <1>3. p \in Customers /\ (lost = 0 => lock = c)
    BY DEF RevokeSessions, At, CallKnows, LockProtects
  <1>4. /\ left' \in [Customers -> SUBSET Outside]
        /\ \A q \in Customers : left'[q] \subseteq left[q]
    BY <1>3 DEF RevokeSessions, TypeOK
  <1>5. /\ wf' \in [Customers -> {"none", "queued", "begun", "cleared", "removed"}]
        /\ \A q \in Customers : wf'[q] = wf[q] \/ wf'[q] = "begun"
    BY <1>3 DEF RevokeSessions, TypeOK
  <1>6. TypeOK'
    BY <1>1, <1>2, <1>3, <1>4, <1>5
    DEF TypeOK, Moves
  <1>7. ManifestShape' /\ AccountFollowsManifest' /\ OnlyApprovedIdentities' /\ ClaimedOnce' /\ NameIsFree'
    BY <1>1, <1>2, <1>3, <1>4, <1>5
    DEF ManifestShape, AccountFollowsManifest, TypeOK, OnlyApprovedIdentities, Begun, ClaimedOnce, NameIsFree
  <1>8. WorkflowFollowsManifest'
    BY <1>1, <1>2, <1>3, <1>4, <1>5
    DEF WorkflowFollowsManifest, Begun
  <1>9. CallKnows'
    BY <1>1, <1>2, <1>3, <1>4, <1>5
    DEF CallKnows, Moves, TearingDown, Begun
  <1>10. LockProtects' /\ FreezeFollowsManifest'
    BY <1>1, <1>2, <1>3, <1>4, <1>5
    DEF LockProtects, Moves, FreezeFollowsManifest
  <1> QED
    BY <1>6, <1>7, <1>8, <1>9, <1>10

LEMMA TearDownInv ==
    ASSUME IInv, NEW c \in Calls, TearDown(c)
    PROVE  IInv'
  <1> DEFINE p == call[c].who
  <1> USE DEF IInv
  <1>1. call[c].step \in Outside /\ call[c].step \in TearingDown /\ After(call[c].step) \in TearingDown
    BY DEF TearDown, After, Outside, TearingDown
  <1>2. Moves(c, p, After(call[c].step)) /\ lock' = lock
    BY <1>1, GotoStep DEF TearDown, Steps, Outside, TearingDown
  <1>3. UNCHANGED <<manifest, principal, identities, reserve, frozen, tenant, extra, admitted, wf, lost>>
    BY DEF TearDown, world
  <1>4. /\ p \in Customers /\ (lost = 0 => lock = c) /\ Begun(p)
        /\ manifest[p].status = "deleting" =>
              tenant.owner = NoOne /\ admitted = NoOne /\ ~tenant.platform
    BY <1>1 DEF TearingDown, CallKnows, LockProtects
  <1>5. /\ left' \in [Customers -> SUBSET Outside]
        /\ \A q \in Customers : left'[q] \subseteq left[q]
        /\ left'[p] = left[p] \ {call[c].step}
    BY <1>4 DEF TearDown, TypeOK
  <1>6. TypeOK'
    BY <1>1, <1>2, <1>3, <1>4, <1>5
    DEF TypeOK, Moves
  <1>7. ManifestShape' /\ AccountFollowsManifest' /\ OnlyApprovedIdentities' /\ ClaimedOnce' /\ NameIsFree' /\ WorkflowFollowsManifest'
    BY <1>1, <1>2, <1>3, <1>4, <1>5
    DEF ManifestShape, AccountFollowsManifest, TypeOK, OnlyApprovedIdentities, Begun, ClaimedOnce, NameIsFree, WorkflowFollowsManifest
  <1>8. CallKnows'
    BY <1>1, <1>2, <1>3, <1>4, <1>5
    DEF CallKnows, Moves, TearingDown, Begun, After, Outside
  <1>9. LockProtects' /\ FreezeFollowsManifest'
    BY <1>1, <1>2, <1>3, <1>4, <1>5
    DEF LockProtects, Moves, FreezeFollowsManifest, TearingDown
  <1> QED
    BY <1>6, <1>7, <1>8, <1>9

LEMMA FinishInv ==
    ASSUME IInv, NEW c \in Calls, FinishCustomerDeletion(c)
    PROVE  IInv'
  <1> DEFINE p == call[c].who
  <1> USE DEF IInv
  <1>1. Moves(c, p, "release") /\ lock' = lock
    BY GotoStep DEF FinishCustomerDeletion, Steps
  <1>2. UNCHANGED <<identities, left, frozen, tenant, extra, admitted, wf, lost>>
    BY DEF FinishCustomerDeletion, world
  <1>3. /\ p \in Customers
        /\ Begun(p) /\ left[p] = {}
        /\ manifest[p].status = "deleting" =>
              tenant.owner = NoOne /\ admitted = NoOne /\ ~tenant.platform
    BY DEF FinishCustomerDeletion, CallKnows, TearingDown, At, TypeOK, Outside
  <1>4. CASE manifest[p].status = "complete" /\ UNCHANGED <<manifest, principal, reserve>>
    <2>1. TypeOK'
      BY <1>1, <1>2, <1>4 DEF TypeOK, Moves
    <2>2. /\ ManifestShape' /\ AccountFollowsManifest' /\ OnlyApprovedIdentities'
          /\ ClaimedOnce' /\ NameIsFree' /\ WorkflowFollowsManifest' /\ FreezeFollowsManifest'
      BY <1>2, <1>4 DEF ManifestShape, AccountFollowsManifest, OnlyApprovedIdentities, ClaimedOnce,
         NameIsFree, WorkflowFollowsManifest, FreezeFollowsManifest, Begun
    <2>3. CallKnows'
      BY <1>1, <1>2, <1>3, <1>4 DEF CallKnows, Moves, TearingDown, Begun
    <2>4. LockProtects'
      BY <1>1, <1>2, <1>3, <1>4 DEF LockProtects, Moves
    <2> QED BY <2>1, <2>2, <2>3, <2>4
  <1>5. CASE /\ manifest[p].status = "deleting" /\ principal[p] = "disabled"
             /\ reserve' = [reserve EXCEPT ![p] = "none"]
             /\ principal' = [principal EXCEPT ![p] = "removed"]
             /\ manifest' = [manifest EXCEPT ![p].status = "complete"]
    <2>0. /\ manifest' \in [Customers -> Manifest]
          /\ manifest'[p].status = "complete" /\ manifest'[p].cancelled = manifest[p].cancelled /\ manifest'[p].released = manifest[p].released
          /\ \A q \in Customers : q # p => manifest'[q] = manifest[q]
      BY <1>5, <1>3 DEF TypeOK, Manifest
    <2>1. TypeOK'
      BY <1>1, <1>2, <1>5, <2>0 DEF TypeOK, Moves
    <2>2. ManifestShape'
      BY <2>0, <1>3, <1>5 DEF ManifestShape
    <2>3. AccountFollowsManifest'
      BY <2>0, <1>2, <1>3, <1>5 DEF AccountFollowsManifest, TypeOK
    <2>4. OnlyApprovedIdentities'
      BY <2>0, <1>2, <1>3, <1>5 DEF OnlyApprovedIdentities, Begun
    <2>5. ClaimedOnce'
      BY <2>0, <1>2, <1>3, <1>5, DeletionAssumption DEF ClaimedOnce, TypeOK
    <2>6. NameIsFree'
      BY <2>0, <1>2, <1>3, <1>5 DEF NameIsFree
    <2>7. WorkflowFollowsManifest'
      BY <2>0, <1>2, <1>3, <1>5 DEF WorkflowFollowsManifest, Begun
    <2>8. CallKnows'
      BY <1>1, <1>2, <1>3, <1>5, <2>0 DEF CallKnows, Moves, TearingDown, Begun, TypeOK
    <2>9. LockProtects'
      BY <1>1, <1>2, <1>3, <1>5, <2>0 DEF LockProtects, Moves, FinishCustomerDeletion, At, CallKnows
    <2>10. FreezeFollowsManifest'
      BY <2>0, <1>2, <1>3, <1>5 DEF FreezeFollowsManifest, TypeOK
    <2> QED BY <2>1, <2>2, <2>3, <2>4, <2>5, <2>6, <2>7, <2>8, <2>9, <2>10
  <1> QED
    BY <1>4, <1>5 DEF FinishCustomerDeletion

LEMMA ReleasePortalInv ==
    ASSUME IInv, NEW c \in Calls, ReleasePortal(c)
    PROVE  IInv'
  <1> DEFINE p == call[c].who
  <1> USE DEF IInv
  <1>1. Moves(c, p, "record") /\ lock' = lock
    BY GotoStep DEF ReleasePortal, Steps
  <1>2. UNCHANGED <<manifest, principal, identities, left, reserve, tenant, extra, admitted, wf, lost>>
    BY DEF ReleasePortal, accounts, world
  <1>3. p \in Customers /\ manifest[p].status = "complete"
    BY DEF ReleasePortal, At, CallKnows
  <1>4. frozen' = frozen \ {p}
    BY DEF ReleasePortal
  <1>5. TypeOK'
    BY <1>1, <1>2, <1>3, <1>4
    DEF TypeOK, Moves
  <1>6. ManifestShape' /\ AccountFollowsManifest' /\ OnlyApprovedIdentities' /\ ClaimedOnce' /\ NameIsFree' /\ WorkflowFollowsManifest'
    BY <1>1, <1>2, <1>3, <1>4
    DEF ManifestShape, AccountFollowsManifest, TypeOK, OnlyApprovedIdentities, Begun, ClaimedOnce, NameIsFree, WorkflowFollowsManifest
  <1>7. CallKnows'
    BY <1>1, <1>2, <1>3, <1>4
    DEF CallKnows, Moves, TearingDown, Begun
  <1>8. LockProtects' /\ FreezeFollowsManifest'
    BY <1>1, <1>2, <1>3, <1>4
    DEF LockProtects, Moves, FreezeFollowsManifest
  <1> QED
    BY <1>5, <1>6, <1>7, <1>8

LEMMA ReleaseCustomerDeletionInv ==
    ASSUME IInv, NEW c \in Calls, ReleaseCustomerDeletion(c)
    PROVE  IInv'
  <1> DEFINE p == call[c].who
  <1> USE DEF IInv
  <1>1. /\ Moves(c, NoOne, "idle")
        /\ lock' \in Calls \union {NoCall} /\ (lock # c => lock' = lock)
    BY ReturnStep DEF ReleaseCustomerDeletion
  <1>2. UNCHANGED <<principal, identities, left, reserve, frozen, tenant, extra, admitted, lost>>
    BY DEF ReleaseCustomerDeletion, accounts, world
  <1>3. p \in Customers /\ manifest[p].status = "complete" /\ (lost = 0 => p \notin frozen)
    BY DEF ReleaseCustomerDeletion, At, CallKnows, LockProtects
  <1>4. /\ manifest' \in [Customers -> Manifest]
        /\ manifest'[p].status = "complete"
        /\ manifest'[p].cancelled = manifest[p].cancelled /\ manifest'[p].released
        /\ \A q \in Customers : q # p => manifest'[q] = manifest[q]
    <2>1. PICK m : m = [manifest[p] EXCEPT !.released = TRUE]
      OBVIOUS
    <2>2. manifest[p] \in Manifest /\ manifest \in [Customers -> Manifest]
      BY <1>3 DEF TypeOK
    <2>3. manifest' = [manifest EXCEPT ![p] = m]
      BY <2>1 DEF ReleaseCustomerDeletion
    <2>4. m \in Manifest /\ m.status = manifest[p].status /\ m.cancelled = manifest[p].cancelled /\ m.released
      BY <2>1, <2>2 DEF Manifest
    <2> QED
      BY <1>3, <2>2, <2>3, <2>4
  <1>5. /\ wf' \in [Customers -> {"none", "queued", "begun", "cleared", "removed"}]
        /\ wf'[p] = "none"
        /\ \A q \in Customers : q # p => wf'[q] = wf[q]
    BY <1>3 DEF ReleaseCustomerDeletion, TypeOK
  <1>6. TypeOK'
    BY <1>1, <1>2, <1>3, <1>4, <1>5
    DEF TypeOK, Moves
  <1>7. ManifestShape'
    BY <1>1, <1>2, <1>3, <1>4, <1>5
    DEF ManifestShape
  <1>8. AccountFollowsManifest'
    BY <1>1, <1>2, <1>3, <1>4, <1>5
    DEF AccountFollowsManifest, TypeOK
  <1>9. OnlyApprovedIdentities' /\ ClaimedOnce'
    BY <1>1, <1>2, <1>3, <1>4, <1>5
    DEF OnlyApprovedIdentities, Begun, ClaimedOnce, TypeOK
  <1>10. NameIsFree'
    BY <1>1, <1>2, <1>3, <1>4, <1>5
    DEF NameIsFree
  <1>11. WorkflowFollowsManifest'
    BY <1>1, <1>2, <1>3, <1>4, <1>5
    DEF WorkflowFollowsManifest, Begun
  <1>12. CallKnows'
    <2>1. \A q \in Customers : manifest'[q].status = manifest[q].status
      BY <1>3, <1>4
    <2>2. call'[c].step = "idle" /\ \A d \in Calls : d # c => call'[d] = call[d]
      BY <1>1 DEF Moves
    <2> QED
      BY <1>2, <2>1, <2>2 DEF CallKnows, TearingDown, Begun
  <1>13. LockProtects'
    BY <1>1, <1>2, <1>3, <1>4, <1>5
    DEF LockProtects, Moves, CallKnows
  <1>14. FreezeFollowsManifest'
    BY <1>1, <1>2, <1>3, <1>4, <1>5
    DEF FreezeFollowsManifest, TypeOK
  <1> QED
    BY <1>6, <1>7, <1>8, <1>9, <1>10, <1>11, <1>12, <1>13, <1>14

LEMMA CancelCustomerDeletionInv ==
    ASSUME IInv, NEW c \in Calls, CancelCustomerDeletion(c)
    PROVE  IInv'
  <1> DEFINE p == call[c].who
  <1> USE DEF IInv
  <1>1. Moves(c, p, "cancelPortal") /\ lock' = lock
    BY GotoStep DEF CancelCustomerDeletion, Steps
  <1>2. UNCHANGED <<principal, identities, left, reserve, frozen, tenant, extra, admitted, wf, lost>>
    BY DEF CancelCustomerDeletion, accounts, world
  <1>3. p \in Customers /\ (lost = 0 => lock = c) /\ manifest[p].status = "prepared"
    BY DEF CancelCustomerDeletion, At, CallKnows, LockProtects
  <1>4. /\ manifest' \in [Customers -> Manifest]
        /\ manifest'[p].status = "prepared" /\ manifest'[p].released = manifest[p].released
        /\ \A q \in Customers : q # p => manifest'[q] = manifest[q]
    <2>1. PICK m : m = [manifest[p] EXCEPT !.cancelled = TRUE]
      OBVIOUS
    <2>2. manifest[p] \in Manifest /\ manifest \in [Customers -> Manifest]
      BY <1>3 DEF TypeOK
    <2>3. manifest' = [manifest EXCEPT ![p] = m]
      BY <2>1 DEF CancelCustomerDeletion
    <2>4. m \in Manifest /\ m.status = manifest[p].status /\ m.released = manifest[p].released
      BY <2>1, <2>2 DEF Manifest
    <2> QED
      BY <1>3, <2>2, <2>3, <2>4
  <1>5. TypeOK'
    BY <1>1, <1>2, <1>3, <1>4
    DEF TypeOK, Moves
  <1>6. ManifestShape' /\ AccountFollowsManifest' /\ OnlyApprovedIdentities' /\ ClaimedOnce' /\ NameIsFree'
    BY <1>1, <1>2, <1>3, <1>4
    DEF ManifestShape, AccountFollowsManifest, TypeOK, OnlyApprovedIdentities, Begun, ClaimedOnce, NameIsFree
  <1>7. WorkflowFollowsManifest'
    BY <1>1, <1>2, <1>3, <1>4
    DEF WorkflowFollowsManifest, Begun
  <1>8. CallKnows'
    BY <1>1, <1>2, <1>3, <1>4
    DEF CallKnows, Moves, TearingDown, Begun
  <1>9. LockProtects'
    BY <1>1, <1>2, <1>3, <1>4
    DEF LockProtects, Moves
  <1>10. FreezeFollowsManifest'
    BY <1>1, <1>2, <1>3, <1>4
    DEF FreezeFollowsManifest, TypeOK
  <1> QED
    BY <1>5, <1>6, <1>7, <1>8, <1>9, <1>10

LEMMA CancelPortalInv ==
    ASSUME IInv, NEW c \in Calls, CancelPortal(c)
    PROVE  IInv'
  <1> DEFINE p == call[c].who
  <1> USE DEF IInv
  <1>1. Moves(c, p, "forget") /\ lock' = lock
    BY GotoStep DEF CancelPortal, Steps
  <1>2. UNCHANGED <<manifest, principal, identities, left, reserve, tenant, extra, admitted, wf, lost>>
    BY DEF CancelPortal, accounts, world
  <1>3. p \in Customers /\ (lost = 0 => lock = c)
    BY DEF CancelPortal, At, CallKnows, LockProtects
  <1>4. frozen' = frozen \ {p}
    BY DEF CancelPortal
  <1>5. TypeOK'
    BY <1>1, <1>2, <1>3, <1>4
    DEF TypeOK, Moves
  <1>6. ManifestShape' /\ AccountFollowsManifest' /\ OnlyApprovedIdentities' /\ ClaimedOnce' /\ NameIsFree' /\ WorkflowFollowsManifest'
    BY <1>1, <1>2, <1>3, <1>4
    DEF ManifestShape, AccountFollowsManifest, TypeOK, OnlyApprovedIdentities, Begun, ClaimedOnce, NameIsFree, WorkflowFollowsManifest
  <1>7. CallKnows'
    BY <1>1, <1>2, <1>3, <1>4
    DEF CallKnows, Moves, TearingDown, Begun
  <1>8. LockProtects' /\ FreezeFollowsManifest'
    BY <1>1, <1>2, <1>3, <1>4
    DEF LockProtects, Moves, FreezeFollowsManifest
  <1> QED
    BY <1>5, <1>6, <1>7, <1>8

LEMMA FinishCustomerCancellationInv ==
    ASSUME IInv, NEW c \in Calls, FinishCustomerCancellation(c)
    PROVE  IInv'
  <1> DEFINE p == call[c].who
  <1> USE DEF IInv
  <1>1. /\ Moves(c, NoOne, "idle")
        /\ lock' \in Calls \union {NoCall} /\ (lock # c => lock' = lock)
    BY ReturnStep DEF FinishCustomerCancellation
  <1>2. UNCHANGED <<principal, identities, left, reserve, frozen, tenant, extra, admitted, wf, lost>>
    BY DEF FinishCustomerCancellation, accounts, world
  <1>3. /\ p \in Customers /\ manifest[p].status = "prepared"
        /\ lost = 0 => lock = c /\ p \notin frozen
    BY DEF FinishCustomerCancellation, At, CallKnows, LockProtects
  <1>4. /\ manifest' \in [Customers -> Manifest]
        /\ manifest'[p].status = "none" /\ ~manifest'[p].cancelled /\ ~manifest'[p].released
        /\ \A q \in Customers : q # p => manifest'[q] = manifest[q]
    BY <1>3 DEF FinishCustomerCancellation, TypeOK, Manifest, NoManifest
  <1>5. TypeOK'
    BY <1>1, <1>2, <1>3, <1>4
    DEF TypeOK, Moves
  <1>6. ManifestShape'
    BY <1>1, <1>2, <1>3, <1>4
    DEF ManifestShape
  <1>7. AccountFollowsManifest'
    BY <1>1, <1>2, <1>3, <1>4
    DEF AccountFollowsManifest, TypeOK
  <1>8. OnlyApprovedIdentities' /\ ClaimedOnce'
    BY <1>1, <1>2, <1>3, <1>4
    DEF OnlyApprovedIdentities, Begun, ClaimedOnce, TypeOK
  <1>9. NameIsFree'
    BY <1>1, <1>2, <1>3, <1>4
    DEF NameIsFree
  <1>10. WorkflowFollowsManifest'
    BY <1>1, <1>2, <1>3, <1>4
    DEF WorkflowFollowsManifest, Begun
  <1>11. CallKnows'
    BY <1>1, <1>2, <1>3, <1>4
    DEF CallKnows, Moves, TearingDown, Begun
  <1>12. LockProtects'
    BY <1>1, <1>2, <1>3, <1>4
    DEF LockProtects, Moves
  <1>13. FreezeFollowsManifest'
    BY <1>1, <1>2, <1>3, <1>4
    DEF FreezeFollowsManifest, TypeOK
  <1> QED
    BY <1>5, <1>6, <1>7, <1>8, <1>9, <1>10, <1>11, <1>12, <1>13

-----------------------------------------------------------------------------
(* What happens beside the calls *)

LEMMA ResourcesInv ==
    ASSUME IInv, NEW c \in Calls, NEW p \in Customers, Resources(c, p)
    PROVE  IInv'
  <1> USE DEF IInv
  <1>1. UNCHANGED <<manifest, principal, identities, left, reserve, frozen, tenant, extra, admitted, call, lock, lost>>
    BY DEF Resources, accounts, world
  <1>2. /\ manifest[p].status = "deleting" /\ ~manifest[p].released
    BY DEF Resources, ManifestShape
  <1>3. /\ wf' \in [Customers -> {"none", "queued", "begun", "cleared", "removed"}]
        /\ wf'[p] = "cleared"
        /\ \A q \in Customers : q # p => wf'[q] = wf[q]
    BY DEF Resources, TypeOK
  <1>4. TypeOK'
    BY <1>1, <1>2, <1>3
    DEF TypeOK
  <1>5. ManifestShape' /\ AccountFollowsManifest' /\ OnlyApprovedIdentities' /\ ClaimedOnce' /\ NameIsFree'
    BY <1>1, <1>2, <1>3
    DEF ManifestShape, AccountFollowsManifest, TypeOK, OnlyApprovedIdentities, Begun, ClaimedOnce, NameIsFree
  <1>6. WorkflowFollowsManifest'
    BY <1>1, <1>2, <1>3
    DEF WorkflowFollowsManifest, Begun
  <1>7. CallKnows'
    BY <1>1, <1>2, <1>3
    DEF CallKnows, Moves, TearingDown, Begun
  <1>8. LockProtects' /\ FreezeFollowsManifest'
    BY <1>1, <1>2, <1>3
    DEF LockProtects, Moves, FreezeFollowsManifest
  <1> QED
    BY <1>4, <1>5, <1>6, <1>7, <1>8

LEMMA DecideSignupInv ==
    ASSUME IInv, NEW p \in Customers, DecideSignup(p)
    PROVE  IInv'
  <1> USE DEF IInv
  <1>1. UNCHANGED <<manifest, principal, identities, left, frozen, tenant, extra, admitted, wf, call, lock, lost>>
    BY DEF DecideSignup, world
  <1>2. principal[p] = "active" /\ reserve[p] = "none"
    BY DEF DecideSignup, Invitable
  <1>3. /\ reserve' \in [Customers -> {"none", "approved", "claimed"}]
        /\ reserve'[p] = "approved"
        /\ \A q \in Customers : q # p => reserve'[q] = reserve[q]
    BY DEF DecideSignup, TypeOK
  <1>4. TypeOK'
    BY <1>1, <1>2, <1>3
    DEF TypeOK
  <1>5. ManifestShape' /\ OnlyApprovedIdentities' /\ NameIsFree' /\ WorkflowFollowsManifest' /\ LockProtects' /\ FreezeFollowsManifest'
    BY <1>1, <1>2, <1>3
    DEF ManifestShape, OnlyApprovedIdentities, Begun, NameIsFree, WorkflowFollowsManifest, LockProtects, Moves, FreezeFollowsManifest
  <1>6. AccountFollowsManifest' /\ ClaimedOnce'
    BY <1>1, <1>2, <1>3
    DEF AccountFollowsManifest, TypeOK, ClaimedOnce
  <1>7. CallKnows'
    BY <1>1, <1>2, <1>3
    DEF CallKnows, Moves, TearingDown, Begun
  <1> QED
    BY <1>4, <1>5, <1>6, <1>7

LEMMA ExpireSignupInv ==
    ASSUME IInv, NEW p \in Customers, ExpireSignup(p)
    PROVE  IInv'
  <1> USE DEF IInv
  <1>1. UNCHANGED <<manifest, principal, identities, left, frozen, tenant, extra, admitted, wf, call, lock, lost>>
    BY DEF ExpireSignup, world
  <1>2. reserve[p] = "approved"
    BY DEF ExpireSignup
  <1>3. /\ reserve' \in [Customers -> {"none", "approved", "claimed"}]
        /\ reserve'[p] = "none"
        /\ \A q \in Customers : q # p => reserve'[q] = reserve[q]
    BY DEF ExpireSignup, TypeOK
  <1>4. TypeOK'
    BY <1>1, <1>2, <1>3
    DEF TypeOK
  <1>5. ManifestShape' /\ OnlyApprovedIdentities' /\ NameIsFree' /\ WorkflowFollowsManifest' /\ LockProtects' /\ FreezeFollowsManifest'
    BY <1>1, <1>2, <1>3
    DEF ManifestShape, OnlyApprovedIdentities, Begun, NameIsFree, WorkflowFollowsManifest, LockProtects, Moves, FreezeFollowsManifest
  <1>6. AccountFollowsManifest' /\ ClaimedOnce'
    BY <1>1, <1>2, <1>3
    DEF AccountFollowsManifest, TypeOK, ClaimedOnce
  <1>7. CallKnows'
    BY <1>1, <1>2, <1>3
    DEF CallKnows, Moves, TearingDown, Begun
  <1> QED
    BY <1>4, <1>5, <1>6, <1>7

LEMMA CreateTenantInv ==
    ASSUME IInv, NEW p \in Customers, CreateTenant(p)
    PROVE  IInv'
  <1> USE DEF IInv
  <1>1. UNCHANGED <<manifest, principal, identities, left, frozen, tenant, extra, wf, call, lock, lost>>
    BY DEF CreateTenant
  <1>2. admitted' = p /\ principal[p] = "active" /\ \A q \in Customers \ {p} : reserve[q] # "claimed"
    BY DEF CreateTenant
  <1>3. \A q \in Customers : manifest[q].status = "none" \/ manifest[q].released
    BY DEF CreateTenant, GuardCustomerTenantCreation, TenantDeletionPending
  <1>4. /\ reserve' \in [Customers -> {"none", "approved", "claimed"}]
        /\ reserve'[p] = "claimed"
        /\ \A q \in Customers : q # p => reserve'[q] = reserve[q]
    BY DEF CreateTenant, TypeOK
  <1>5. TypeOK'
    BY <1>1, <1>2, <1>3, <1>4
    DEF TypeOK
  <1>6. ManifestShape' /\ OnlyApprovedIdentities' /\ NameIsFree' /\ LockProtects' /\ FreezeFollowsManifest'
    BY <1>1, <1>2, <1>3, <1>4
    DEF ManifestShape, OnlyApprovedIdentities, Begun, NameIsFree, LockProtects, Moves, FreezeFollowsManifest
  <1>7. WorkflowFollowsManifest'
    BY <1>1, <1>2, <1>3, <1>4
    DEF WorkflowFollowsManifest, Begun
  <1>8. AccountFollowsManifest'
    BY <1>1, <1>2, <1>3, <1>4
    DEF AccountFollowsManifest, TypeOK
  <1>9. ClaimedOnce'
    BY <1>1, <1>2, <1>3, <1>4, DeletionAssumption
    DEF ClaimedOnce, TypeOK
  <1>10. CallKnows'
    BY <1>1, <1>2, <1>3, <1>4
    DEF CallKnows, Moves, TearingDown, Begun, ManifestShape
  <1> QED
    BY <1>5, <1>6, <1>7, <1>8, <1>9, <1>10

LEMMA LinkIdentityInv ==
    ASSUME IInv, NEW p \in Customers, LinkIdentity(p)
    PROVE  IInv'
  <1> USE DEF IInv
  <1>1. UNCHANGED <<manifest, principal, left, reserve, frozen, tenant, extra, admitted, wf, call, lock, lost>>
    BY DEF LinkIdentity, world
  <1>2. /\ identities' \in [Customers -> {"approved", "moved", "revoked"}]
        /\ identities'[p] = "moved"
        /\ \A q \in Customers : q # p => identities'[q] = identities[q]
    BY DEF LinkIdentity, TypeOK
  <1>3. ~Begun(p)
    BY DEF LinkIdentity, Begun, AccountFollowsManifest
  <1>4. TypeOK'
    BY <1>1, <1>2, <1>3
    DEF TypeOK
  <1>5. OnlyApprovedIdentities'
    BY <1>1, <1>2, <1>3
    DEF OnlyApprovedIdentities, Begun
  <1>6. ManifestShape' /\ AccountFollowsManifest' /\ ClaimedOnce' /\ NameIsFree' /\ WorkflowFollowsManifest'
    BY <1>1, <1>2, <1>3
    DEF ManifestShape, AccountFollowsManifest, TypeOK, ClaimedOnce, NameIsFree, WorkflowFollowsManifest, Begun
  <1>7. CallKnows' /\ LockProtects' /\ FreezeFollowsManifest'
    BY <1>1, <1>2, <1>3
    DEF CallKnows, Moves, TearingDown, Begun, LockProtects, FreezeFollowsManifest
  <1> QED
    BY <1>4, <1>5, <1>6, <1>7

LEMMA UnlinkIdentityInv ==
    ASSUME IInv, NEW p \in Customers, UnlinkIdentity(p)
    PROVE  IInv'
  <1> USE DEF IInv
  <1>1. UNCHANGED <<manifest, principal, left, reserve, frozen, tenant, extra, admitted, wf, call, lock, lost>>
    BY DEF UnlinkIdentity, world
  <1>2. /\ identities' \in [Customers -> {"approved", "moved", "revoked"}]
        /\ identities'[p] = "revoked"
        /\ \A q \in Customers : q # p => identities'[q] = identities[q]
    BY DEF UnlinkIdentity, TypeOK
  <1>3. TypeOK'
    BY <1>1, <1>2
    DEF TypeOK
  <1>4. OnlyApprovedIdentities'
    BY <1>1, <1>2
    DEF OnlyApprovedIdentities, Begun
  <1>5. ManifestShape' /\ AccountFollowsManifest' /\ ClaimedOnce' /\ NameIsFree' /\ WorkflowFollowsManifest'
    BY <1>1, <1>2
    DEF ManifestShape, AccountFollowsManifest, TypeOK, ClaimedOnce, NameIsFree, WorkflowFollowsManifest, Begun
  <1>6. CallKnows' /\ LockProtects' /\ FreezeFollowsManifest'
    BY <1>1, <1>2
    DEF CallKnows, Moves, TearingDown, Begun, LockProtects, FreezeFollowsManifest
  <1> QED
    BY <1>3, <1>4, <1>5, <1>6

LEMMA MergePrincipalsInv ==
    ASSUME IInv, NEW p \in Customers, MergePrincipals(p)
    PROVE  IInv'
  <1> USE DEF IInv
  <1>1. UNCHANGED <<manifest, left, reserve, frozen, tenant, extra, admitted, wf, call, lock, lost>>
    BY DEF MergePrincipals, world
  <1>2. ~Begun(p)
    BY DEF MergePrincipals, Begun, AccountFollowsManifest
  <1>3. /\ identities' \in [Customers -> {"approved", "moved", "revoked"}]
        /\ \A q \in Customers : q # p => identities'[q] = identities[q]
        /\ principal' \in [Customers -> {"active", "disabled", "removed"}]
        /\ \A q \in Customers : q # p => principal'[q] = principal[q]
    BY DEF MergePrincipals, TypeOK
  <1>4. TypeOK'
    BY <1>1, <1>2, <1>3
    DEF TypeOK
  <1>5. OnlyApprovedIdentities'
    BY <1>1, <1>2, <1>3
    DEF OnlyApprovedIdentities, Begun
  <1>6. AccountFollowsManifest'
    BY <1>1, <1>2, <1>3
    DEF AccountFollowsManifest, TypeOK, Begun
  <1>7. ManifestShape' /\ ClaimedOnce' /\ NameIsFree' /\ WorkflowFollowsManifest'
    BY <1>1, <1>2, <1>3
    DEF ManifestShape, ClaimedOnce, TypeOK, NameIsFree, WorkflowFollowsManifest, Begun
  <1>8. CallKnows' /\ LockProtects' /\ FreezeFollowsManifest'
    BY <1>1, <1>2, <1>3
    DEF CallKnows, Moves, TearingDown, Begun, LockProtects, FreezeFollowsManifest
  <1> QED
    BY <1>4, <1>5, <1>6, <1>7, <1>8

LEMMA DisablePrincipalInv ==
    ASSUME IInv, NEW p \in Customers, DisablePrincipal(p)
    PROVE  IInv'
  <1> USE DEF IInv
  <1>1. UNCHANGED <<manifest, identities, left, reserve, frozen, tenant, extra, admitted, wf, call, lock, lost>>
    BY DEF DisablePrincipal, world
  <1>2. ~Begun(p)
    BY DEF DisablePrincipal, Begun, AccountFollowsManifest
  <1>3. /\ principal' \in [Customers -> {"active", "disabled", "removed"}]
        /\ \A q \in Customers : q # p => principal'[q] = principal[q]
    BY DEF DisablePrincipal, TypeOK
  <1>4. TypeOK'
    BY <1>1, <1>2, <1>3
    DEF TypeOK
  <1>5. OnlyApprovedIdentities'
    BY <1>1, <1>2, <1>3
    DEF OnlyApprovedIdentities, Begun
  <1>6. AccountFollowsManifest'
    BY <1>1, <1>2, <1>3
    DEF AccountFollowsManifest, TypeOK, Begun
  <1>7. ManifestShape' /\ ClaimedOnce' /\ NameIsFree' /\ WorkflowFollowsManifest'
    BY <1>1, <1>2, <1>3
    DEF ManifestShape, ClaimedOnce, TypeOK, NameIsFree, WorkflowFollowsManifest, Begun
  <1>8. CallKnows' /\ LockProtects' /\ FreezeFollowsManifest'
    BY <1>1, <1>2, <1>3
    DEF CallKnows, Moves, TearingDown, Begun, LockProtects, FreezeFollowsManifest
  <1> QED
    BY <1>4, <1>5, <1>6, <1>7, <1>8

LEMMA LandTenantInv ==
    ASSUME IInv, LandTenant
    PROVE  IInv'
  <1> USE DEF IInv
  <1>1. UNCHANGED <<manifest, principal, identities, left, reserve, frozen, call, lock, lost>> /\ UNCHANGED <<extra, wf>>
    BY DEF LandTenant, Others, accounts
  <1>2. /\ admitted \in Customers /\ admitted' = NoOne
        /\ tenant' = tenant \/ tenant'.owner = admitted
        /\ tenant' \in [owner : Customers \union {NoOne}, platform : BOOLEAN]
    BY DEF LandTenant, TypeOK
  <1>3. /\ \A q \in Customers : tenant'.owner = q => tenant.owner = q \/ admitted = q
        /\ admitted # NoOne
    BY <1>2 DEF LandTenant
  <1>4. TypeOK'
    BY <1>1, <1>2, <1>3
    DEF TypeOK
  <1>5. ManifestShape' /\ AccountFollowsManifest' /\ OnlyApprovedIdentities' /\ LockProtects' /\ FreezeFollowsManifest'
    BY <1>1, <1>2, <1>3
    DEF ManifestShape, AccountFollowsManifest, TypeOK, OnlyApprovedIdentities, Begun, LockProtects, Moves, FreezeFollowsManifest
  <1>6. ClaimedOnce'
    BY <1>1, <1>2, <1>3, DeletionAssumption
    DEF ClaimedOnce, TypeOK
  <1>7. NameIsFree'
    BY <1>1, <1>2, <1>3
    DEF NameIsFree
  <1>8. WorkflowFollowsManifest'
    BY <1>1, <1>2, <1>3
    DEF WorkflowFollowsManifest, Begun
  <1>9. CallKnows'
    BY <1>1, <1>2, <1>3
    DEF CallKnows, Moves, TearingDown, Begun
  <1> QED
    BY <1>4, <1>5, <1>6, <1>7, <1>8, <1>9

LEMMA RemoveTenantInv ==
    ASSUME IInv, NEW p \in Customers, RemoveTenant(p)
    PROVE  IInv'
  <1> USE DEF IInv
  <1>1. UNCHANGED <<manifest, principal, identities, left, reserve, frozen, call, lock, lost>> /\ UNCHANGED <<extra, admitted>>
    BY DEF RemoveTenant, Others, accounts
  <1>2. /\ admitted = NoOne /\ tenant'.owner = NoOne /\ tenant'.platform = tenant.platform
        /\ tenant' \in [owner : Customers \union {NoOne}, platform : BOOLEAN]
    BY DEF RemoveTenant, TypeOK
  <1>3. /\ wf' \in [Customers -> {"none", "queued", "begun", "cleared", "removed"}]
        /\ wf[p] = "cleared" /\ wf'[p] = "removed"
        /\ \A q \in Customers : q # p => wf'[q] = wf[q]
    BY DEF RemoveTenant, TypeOK
  <1>4. TypeOK'
    BY <1>1, <1>2, <1>3
    DEF TypeOK
  <1>5. ManifestShape' /\ AccountFollowsManifest' /\ OnlyApprovedIdentities' /\ LockProtects' /\ FreezeFollowsManifest'
    BY <1>1, <1>2, <1>3
    DEF ManifestShape, AccountFollowsManifest, TypeOK, OnlyApprovedIdentities, Begun, LockProtects, Moves, FreezeFollowsManifest
  <1>6. ClaimedOnce'
    BY <1>1, <1>2, <1>3, DeletionAssumption
    DEF ClaimedOnce, TypeOK
  <1>7. NameIsFree'
    BY <1>1, <1>2, <1>3
    DEF NameIsFree
  <1>8. WorkflowFollowsManifest'
    BY <1>1, <1>2, <1>3
    DEF WorkflowFollowsManifest, Begun
  <1>9. CallKnows'
    BY <1>1, <1>2, <1>3
    DEF CallKnows, Moves, TearingDown, Begun
  <1> QED
    BY <1>4, <1>5, <1>6, <1>7, <1>8, <1>9

LEMMA DeleteWorkspaceInv ==
    ASSUME IInv, DeleteWorkspace
    PROVE  IInv'
  <1> USE DEF IInv
  <1>1. UNCHANGED <<manifest, principal, identities, left, reserve, frozen, call, lock, lost>> /\ UNCHANGED <<extra, admitted, wf>>
    BY DEF DeleteWorkspace, Others, accounts
  <1>2. /\ tenant'.owner = NoOne /\ tenant'.platform = tenant.platform
        /\ tenant' \in [owner : Customers \union {NoOne}, platform : BOOLEAN]
    BY DEF DeleteWorkspace, TypeOK
  <1>3. TypeOK'
    BY <1>1, <1>2
    DEF TypeOK
  <1>4. ManifestShape' /\ AccountFollowsManifest' /\ OnlyApprovedIdentities' /\ WorkflowFollowsManifest' /\ LockProtects' /\ FreezeFollowsManifest'
    BY <1>1, <1>2
    DEF ManifestShape, AccountFollowsManifest, TypeOK, OnlyApprovedIdentities, Begun, WorkflowFollowsManifest, LockProtects, Moves, FreezeFollowsManifest
  <1>5. ClaimedOnce'
    BY <1>1, <1>2, DeletionAssumption
    DEF ClaimedOnce, TypeOK
  <1>6. NameIsFree'
    BY <1>1, <1>2
    DEF NameIsFree
  <1>7. CallKnows'
    BY <1>1, <1>2
    DEF CallKnows, Moves, TearingDown, Begun
  <1> QED
    BY <1>3, <1>4, <1>5, <1>6, <1>7

LEMMA PruneInv ==
    ASSUME IInv, Prune
    PROVE  IInv'
  <1> USE DEF IInv
  <1>1. UNCHANGED <<manifest, principal, identities, left, reserve, frozen, call, lock, lost>> /\ UNCHANGED <<extra, admitted, wf>>
    BY DEF Prune, Others, accounts
  <1>2. /\ tenant'.owner = tenant.owner /\ ~tenant'.platform
        /\ tenant' \in [owner : Customers \union {NoOne}, platform : BOOLEAN]
    BY DEF Prune, TypeOK
  <1>3. TypeOK'
    BY <1>1, <1>2
    DEF TypeOK
  <1>4. ManifestShape' /\ AccountFollowsManifest' /\ OnlyApprovedIdentities' /\ WorkflowFollowsManifest' /\ LockProtects' /\ FreezeFollowsManifest'
    BY <1>1, <1>2
    DEF ManifestShape, AccountFollowsManifest, TypeOK, OnlyApprovedIdentities, Begun, WorkflowFollowsManifest, LockProtects, Moves, FreezeFollowsManifest
  <1>5. ClaimedOnce'
    BY <1>1, <1>2, DeletionAssumption
    DEF ClaimedOnce, TypeOK
  <1>6. NameIsFree'
    BY <1>1, <1>2
    DEF NameIsFree
  <1>7. CallKnows'
    BY <1>1, <1>2
    DEF CallKnows, Moves, TearingDown, Begun
  <1> QED
    BY <1>3, <1>4, <1>5, <1>6, <1>7

LEMMA ChangeMembersInv ==
    ASSUME IInv, NEW p \in Customers, ChangeMembers(p)
    PROVE  IInv'
  <1> USE DEF IInv
  <1>1. UNCHANGED <<manifest, principal, identities, left, reserve, frozen, call, lock, lost>> /\ UNCHANGED <<tenant, admitted, wf>>
    BY DEF ChangeMembers, Others, accounts
  <1>2. extra' \subseteq Customers
    BY DEF ChangeMembers, TypeOK
  <1>3. TypeOK'
    BY <1>1, <1>2
    DEF TypeOK
  <1>4. ManifestShape' /\ AccountFollowsManifest' /\ OnlyApprovedIdentities' /\ ClaimedOnce' /\ NameIsFree' /\ WorkflowFollowsManifest' /\ LockProtects' /\ FreezeFollowsManifest'
    BY <1>1, <1>2
    DEF ManifestShape, AccountFollowsManifest, TypeOK, OnlyApprovedIdentities, Begun, ClaimedOnce, NameIsFree, WorkflowFollowsManifest, LockProtects, Moves, FreezeFollowsManifest
  <1>5. CallKnows'
    BY <1>1, <1>2
    DEF CallKnows, Moves, TearingDown, Begun
  <1> QED
    BY <1>3, <1>4, <1>5

-----------------------------------------------------------------------------
LEMMA CallStepInv ==
    ASSUME IInv, NEW c \in Calls, CallStep(c)
    PROVE  IInv'
  BY ValidateInv, PrepareCustomerDeletionInv, FreezePortalInv, BeginCustomerDeletionInv,
     RevokeSessionsInv, CheckPlatformInv, TearDownInv, FinishInv, ReleasePortalInv,
     ReleaseCustomerDeletionInv, CancelCustomerDeletionInv, CancelPortalInv,
     FinishCustomerCancellationInv, FailInv, LoseLockInv
  DEF CallStep

LEMMA StepInv == IInv /\ [Next]_vars => IInv'
  <1> SUFFICES ASSUME IInv, [Next]_vars PROVE IInv'
    OBVIOUS
  <1>1. CASE Next
    BY <1>1, CallStepInv, PrepareInv, BeginInv, ResourcesInv, CompleteInv, LateReleaseInv, CancelInv,
       DecideSignupInv, ExpireSignupInv, CreateTenantInv, LinkIdentityInv, UnlinkIdentityInv,
       MergePrincipalsInv, DisablePrincipalInv, RemoveTenantInv, ChangeMembersInv, LandTenantInv,
       DeleteWorkspaceInv, PruneInv
    DEF Next
  <1>2. CASE UNCHANGED vars
    BY <1>2
    DEF vars, accounts, world, IInv, TypeOK, Begun, ManifestShape, AccountFollowsManifest,
        OnlyApprovedIdentities, ClaimedOnce, NameIsFree, WorkflowFollowsManifest, CallKnows,
        LockProtects, FreezeFollowsManifest
  <1> QED
    BY <1>1, <1>2

\* The inductive invariant holds in every state.
THEOREM DeletionInvariant == Spec => []IInv
  BY InitInv, StepInv, PTL DEF Spec

\* Every variable keeps its type.
THEOREM TypeCorrect == Spec => []TypeOK
  <1>1. IInv => TypeOK
    BY DEF IInv
  <1> QED
    BY <1>1, DeletionInvariant, PTL

\* Whatever was interrupted and repeated, a complete deletion left nothing of
\* the customer behind.
THEOREM CompleteIsComplete == Spec => []NothingLeftBehind
  <1>1. IInv => NothingLeftBehind
    BY DeletionAssumption
    DEF IInv, NothingLeftBehind, AccountFollowsManifest, NameIsFree, ClaimedOnce
  <1> QED
    BY <1>1, DeletionInvariant, PTL

\* While a deletion has begun and is not released, the workspace belongs to
\* its customer or to nobody.
THEOREM NameIsHeld == Spec => []NameHeldUntilReleased
  <1>1. IInv => NameHeldUntilReleased
    BY DEF IInv, NameHeldUntilReleased, AccountFollowsManifest, NameIsFree, ClaimedOnce, TypeOK, Begun
  <1> QED
    BY <1>1, DeletionInvariant, PTL

\* Nobody is deleted whose identities moved after the approval.
THEOREM ApprovedOnly == Spec => []OnlyApprovedIdentities
  <1>1. IInv => OnlyApprovedIdentities
    BY DEF IInv
  <1> QED
    BY <1>1, DeletionInvariant, PTL

\* Under the run lock the portal's freeze follows the manifest.
THEOREM FreezeIsReleased == Spec => []FreezeFollowsManifest
  <1>1. IInv => FreezeFollowsManifest
    BY DEF IInv
  <1> QED
    BY <1>1, DeletionInvariant, PTL

-----------------------------------------------------------------------------
(* A deletion that has begun only goes forward *)

\* The manifest of q does not fall back.
Forward(q) ==
    /\ Begun(q) => manifest'[q].status \in {"deleting", "complete"}
    /\ manifest[q].status = "complete" => manifest'[q].status = "complete"
    /\ manifest[q].released => manifest'[q].released

LEMMA CallStepForward ==
    ASSUME IInv, NEW c \in Calls, CallStep(c), NEW q \in Customers
    PROVE  Forward(q)
  <1> DEFINE p == call[c].who
  <1>1. TypeOK /\ ManifestShape
    BY DEF IInv
  <1>2. CASE UNCHANGED manifest
    BY <1>2 DEF Forward, Begun
  <1>3. CASE \/ PrepareCustomerDeletion(c) \/ BeginCustomerDeletion(c) \/ FinishCustomerDeletion(c)
             \/ ReleaseCustomerDeletion(c) \/ CancelCustomerDeletion(c)
             \/ FinishCustomerCancellation(c)
    <2>1. p \in Customers
      BY <1>3 DEF PrepareCustomerDeletion, BeginCustomerDeletion, FinishCustomerDeletion,
         ReleaseCustomerDeletion, CancelCustomerDeletion, FinishCustomerCancellation, At,
         IInv, CallKnows
    <2>2. CASE PrepareCustomerDeletion(c) \/ BeginCustomerDeletion(c) \/ FinishCustomerDeletion(c)
      <3>1. CASE UNCHANGED manifest
        BY <3>1, <1>2
      <3>2. CASE /\ manifest[p].status = "none"
                 /\ manifest' = [manifest EXCEPT ![p].status = "prepared"]
        BY <1>1, <2>1, <3>2, StatusStep DEF Forward, Begun, ManifestShape
      <3>3. CASE /\ manifest[p].status \in {"prepared", "deleting"}
                 /\ manifest' = [manifest EXCEPT ![p].status = "deleting"]
        BY <1>1, <2>1, <3>3, StatusStep DEF Forward, Begun, ManifestShape
      <3>4. CASE manifest' = [manifest EXCEPT ![p].status = "complete"]
        BY <1>1, <2>1, <3>4, StatusStep DEF Forward, Begun, ManifestShape
      <3> QED
        BY <2>2, <3>1, <3>2, <3>3, <3>4
        DEF PrepareCustomerDeletion, BeginCustomerDeletion, FinishCustomerDeletion
    <2>3. CASE ReleaseCustomerDeletion(c)
      <3>1. manifest' = [manifest EXCEPT ![p].released = TRUE]
        BY <2>3 DEF ReleaseCustomerDeletion
      <3>2. /\ manifest'[p].status = manifest[p].status /\ manifest'[p].released
            /\ \A r \in Customers : r # p => manifest'[r] = manifest[r]
        BY <1>1, <2>1, <3>1 DEF TypeOK, Manifest
      <3> QED
        BY <3>2 DEF Forward, Begun
    <2>4. CASE CancelCustomerDeletion(c)
      <3>1. manifest' = [manifest EXCEPT ![p].cancelled = TRUE]
        BY <2>4 DEF CancelCustomerDeletion
      <3>2. /\ manifest'[p].status = manifest[p].status /\ manifest'[p].released = manifest[p].released
            /\ \A r \in Customers : r # p => manifest'[r] = manifest[r]
        BY <1>1, <2>1, <3>1 DEF TypeOK, Manifest
      <3> QED
        BY <3>2 DEF Forward, Begun
    <2>5. CASE FinishCustomerCancellation(c)
      <3>1. /\ manifest[p].status = "prepared"
            /\ \A r \in Customers : r # p => manifest'[r] = manifest[r]
        BY <1>1, <2>1, <2>5 DEF FinishCustomerCancellation, TypeOK
      <3> QED
        BY <1>1, <2>1, <3>1 DEF Forward, Begun, ManifestShape
    <2> QED
      BY <1>3, <2>2, <2>3, <2>4, <2>5
  <1> QED
    BY <1>2, <1>3 DEF CallStep, Validate, FreezePortal, RevokeSessions, CheckPlatformGone, TearDown,
       ReleasePortal, CancelPortal, Fail, LoseLock

LEMMA NextForward ==
    ASSUME IInv, Next, NEW q \in Customers
    PROVE  Forward(q)
  <1>1. CASE \E c \in Calls : CallStep(c)
    BY <1>1, CallStepForward
  <1>2. CASE UNCHANGED manifest
    BY <1>2 DEF Forward, Begun
  <1> QED
    BY <1>1, <1>2
    DEF Next, Prepare, Begin, Resources, Complete, LateRelease, Cancel, DecideSignup, ExpireSignup,
        CreateTenant, LinkIdentity, UnlinkIdentity, MergePrincipals, DisablePrincipal, RemoveTenant,
        ChangeMembers, LandTenant, DeleteWorkspace, Prune, Others

\* A deletion that has begun is never cancelled, forgotten or undone, and its
\* principal is never active again, whatever a call does that lost its lock.
THEOREM DeletionOnlyGoesForward == Spec => DeletionIsFinal
  <1> DEFINE A == \A p \in Customers :
                     /\ Begun(p) =>
                           /\ manifest'[p].status \in {"deleting", "complete"}
                           /\ ~manifest'[p].cancelled
                           /\ principal'[p] # "active"
                     /\ manifest[p].status = "complete" => manifest'[p].status = "complete"
                     /\ manifest[p].released => manifest'[p].released
  <1>1. IInv /\ [Next]_vars => [A]_vars
    <2> SUFFICES ASSUME IInv, Next PROVE A
      BY DEF vars
    <2>1. IInv'
      BY StepInv
    <2>2. ASSUME NEW p \in Customers, manifest'[p].status \in {"deleting", "complete"}
          PROVE  ~manifest'[p].cancelled /\ principal'[p] # "active"
      BY <2>1, <2>2 DEF IInv, ManifestShape, AccountFollowsManifest
    <2> QED
      BY <2>2, NextForward DEF Forward
  <1> HIDE DEF A
  <1>2. Spec => [][A]_vars
    BY <1>1, DeletionInvariant, PTL DEF Spec
  <1> QED
    BY <1>2 DEF A, DeletionIsFinal
=============================================================================
