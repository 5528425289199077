-------------------------- MODULE CustomerDeletion --------------------------
(***************************************************************************)
(* Complete deletion of a customer account: the approved manifest          *)
(* (customer_deletions), the run lock, the callbacks of the delete-tenant  *)
(* workflow, cancellation, and what races with them: sign-up for the freed *)
(* name, identity links and merges, and other changes of the workspace.    *)
(*                                                                         *)
(* There is one workspace name.  Every call to the database, the portal,   *)
(* the identity provider or the session stores is a step of its own; a     *)
(* call may end after any of them, because something failed, an answer was *)
(* lost or the process died, and the session that holds the run lock may   *)
(* be lost while the call goes on.                                         *)
(***************************************************************************)
EXTENDS Naturals, FiniteSets

CONSTANTS
    Customers,   \* the human principals that may own the workspace
    NoOne,
    Calls,       \* requests and callbacks being handled
    NoCall,
    Slots,       \* signup_capacity.slots
    PublicFlow,  \* whether a customer may claim without an invitation
    MaxLost      \* bound: how often the session of the run lock is lost

ASSUME DeletionAssumption ==
    /\ NoOne \notin Customers
    /\ NoCall \notin Calls
    /\ Slots \in Nat
    /\ PublicFlow \in BOOLEAN
    /\ MaxLost \in Nat

VARIABLES
    manifest,    \* the rows of customer_deletions for the name, by principal
    principal,   \* principals.status
    identities,  \* "approved": exactly one live GitHub and one ZITADEL identity
    left,        \* what else there is of the customer outside the store
    reserve,     \* the live row of signup_requests for the name
    frozen,      \* customers the portal keeps frozen
    tenant,      \* the workspace in GitOps and on the platform
    extra,       \* customers with other or ambiguous memberships
    admitted,    \* the create-tenant workflow that was submitted and has not run
    wf,          \* the delete-tenant workflow of each customer
    call, lock,  \* the calls and the holder of the run lock
    lost

accounts == <<principal, identities, left, reserve>>
world == <<tenant, extra, admitted>>
vars == <<manifest, accounts, frozen, world, wf, call, lock, lost>>

Outside == {"idp", "site", "portal", "sessions"}
Manifest ==
    [status : {"none", "prepared", "deleting", "complete"}, cancelled : BOOLEAN, released : BOOLEAN]
NoManifest == [status |-> "none", cancelled |-> FALSE, released |-> FALSE]
Steps == {"idle", "validate", "insert", "freeze", "begin", "revoke", "platform", "finish",
          "release", "record", "cancel", "cancelPortal", "forget"} \union Outside
Idle == [who |-> NoOne, step |-> "idle"]

\* A customer owns the workspace, which it has a signup reservation for.
Init ==
    \E o \in Customers :
        /\ manifest = [p \in Customers |-> NoManifest]
        /\ principal = [p \in Customers |-> "active"]
        /\ identities = [p \in Customers |-> "approved"]
        /\ left = [p \in Customers |-> Outside]
        /\ reserve = [p \in Customers |-> IF p = o THEN "claimed" ELSE "none"]
        /\ frozen = {}
        /\ tenant = [owner |-> o, platform |-> TRUE]
        /\ extra = {}
        /\ admitted = NoOne
        /\ wf = [p \in Customers |-> "none"]
        /\ call = [c \in Calls |-> Idle]
        /\ lock = NoCall
        /\ lost = 0

-----------------------------------------------------------------------------
(* Calls and the run lock *)

\* WithCustomerDeletionLock: pg_try_advisory_lock, keyed by the tenant.
LockFree(c) == lock = NoCall

\* A call is admitted and goes to step s with the lock.
Enter(c, p, s) ==
    /\ call[c] = Idle /\ LockFree(c)
    /\ call' = [call EXCEPT ![c] = [who |-> p, step |-> s]]
    /\ lock' = c

At(c, s) == call[c].step = s
Goto(c, s) ==
    /\ call' = [call EXCEPT ![c].step = s]
    /\ UNCHANGED lock
Return(c) ==
    /\ call' = [call EXCEPT ![c] = Idle]
    /\ lock' = IF lock = c THEN NoCall ELSE lock

\* A step failed, its answer was lost or the process died: the call ends and
\* its session, with the lock, goes.
Fail(c) ==
    /\ call[c] # Idle
    /\ Return(c)
    /\ UNCHANGED <<manifest, accounts, frozen, world, wf, lost>>

\* The session is lost; the call goes on until its next ping notices.
LoseLock(c) ==
    /\ lock = c /\ lost < MaxLost
    /\ lock' = NoCall
    /\ lost' = lost + 1
    /\ UNCHANGED <<manifest, accounts, frozen, world, wf, call>>

-----------------------------------------------------------------------------
(* What the calls observe *)

TenantExists == tenant.owner # NoOne

\* customerMemberships: the sole owner of this workspace, or no access at all.
Memberships(p, requireOwner) ==
    /\ p \notin extra
    /\ (tenant.owner = p) <=> requireOwner

\* getPrincipalTx and customerDeletionIdentityTx.
Deletable(p) == principal[p] = "active" /\ identities[p] = "approved"

VerifyCustomer(p) == "idp" \in left[p]

\* Mutant: a completed deletion does not hold the name.
TenantDeletionPendingUntilComplete ==
    \E p \in Customers : manifest[p].status \in {"prepared", "deleting"}

\* CustomerTenantDeletionPending
TenantDeletionPending ==
    \E p \in Customers : manifest[p].status # "none" /\ ~manifest[p].released

\* CustomerSubjectDeleted, CustomerPrincipalDeleted: the uncached fence of
\* authentication.
Tombstoned(p) == manifest[p].status # "none" /\ ~manifest[p].cancelled

-----------------------------------------------------------------------------
(* Preparation: delete-tenant with delete_customer_account *)

\* Mutant: preparation does not take the run lock.
PrepareUnlocked(c, p) ==
    /\ call[c] = Idle
    /\ ~manifest[p].cancelled
    /\ \/ /\ manifest[p].status \in {"prepared", "deleting"} /\ Memberships(p, TenantExists)
          /\ call' = [call EXCEPT ![c] = [who |-> p, step |-> "freeze"]]
       \/ /\ manifest[p].status = "none" /\ Deletable(p)
          /\ call' = [call EXCEPT ![c] = [who |-> p, step |-> "validate"]]
    /\ UNCHANGED <<manifest, accounts, frozen, world, wf, lock, lost>>

\* prepareCustomerAccountDeletion up to its first write.
Prepare(c, p) ==
    /\ ~manifest[p].cancelled
    /\ \/ manifest[p].status = "complete" /\ Enter(c, p, "release")
       \/ /\ manifest[p].status \in {"prepared", "deleting"}
          /\ Memberships(p, TenantExists)
          /\ Enter(c, p, "freeze")
       \/ manifest[p].status = "none" /\ Deletable(p) /\ Enter(c, p, "validate")
    /\ UNCHANGED <<manifest, accounts, frozen, world, wf, lost>>

\* The observations made outside of the transactions.
Validate(c) ==
    LET p == call[c].who IN
    /\ At(c, "validate")
    /\ Memberships(p, TRUE) /\ VerifyCustomer(p)
    /\ Goto(c, "insert")
    /\ UNCHANGED <<manifest, accounts, frozen, world, wf, lost>>

\* The second transaction loads again and compares.
PrepareCustomerDeletion(c) ==
    LET p == call[c].who IN
    /\ At(c, "insert")
    /\ \/ /\ manifest[p].status = "none" /\ Deletable(p)
          /\ manifest' = [manifest EXCEPT ![p].status = "prepared"]
       \/ /\ manifest[p].status = "prepared" /\ ~manifest[p].cancelled
          /\ UNCHANGED manifest
    /\ Goto(c, "freeze")
    /\ UNCHANGED <<accounts, frozen, world, wf, lost>>

\* The portal freezes; when the answer arrives the workflow may be submitted.
FreezePortal(c) ==
    LET p == call[c].who IN
    /\ At(c, "freeze")
    /\ frozen' = frozen \union {p}
    /\ \/ wf' = [wf EXCEPT ![p] = "queued"]
       \/ UNCHANGED wf
    /\ Return(c)
    /\ UNCHANGED <<manifest, accounts, world, lost>>

-----------------------------------------------------------------------------
(* The callbacks of the workflow: AdvanceCustomerDeletion *)

Begin(c, p) ==
    /\ wf[p] = "queued" /\ ~manifest[p].cancelled
    /\ \/ manifest[p].status = "complete" /\ Enter(c, p, "release")
       \/ /\ manifest[p].status \in {"prepared", "deleting"}
          /\ Memberships(p, TenantExists)
          /\ manifest[p].status = "prepared" => VerifyCustomer(p)
          /\ Enter(c, p, "begin")
    /\ UNCHANGED <<manifest, accounts, frozen, world, wf, lost>>

\* Mutant: the identities are not read again.
StillApprovedAsRead(p) == TRUE

\* A prepared manifest begins only for the identities it was approved for.
StillApproved(p) == manifest[p].status = "prepared" => identities[p] = "approved"

BeginCustomerDeletion(c) ==
    LET p == call[c].who IN
    /\ At(c, "begin")
    /\ ~manifest[p].cancelled
    /\ \/ manifest[p].status = "complete" /\ UNCHANGED <<manifest, principal>>
       \/ /\ manifest[p].status \in {"prepared", "deleting"}
          /\ StillApproved(p)
          /\ principal' = [principal EXCEPT ![p] = "disabled"]
          /\ manifest' = [manifest EXCEPT ![p].status = "deleting"]
    /\ Goto(c, "revoke")
    /\ UNCHANGED <<identities, left, reserve, frozen, world, wf, lost>>

\* ForgetPrincipals and RevokeSessions, and the answer to the workflow.
RevokeSessions(c) ==
    LET p == call[c].who IN
    /\ At(c, "revoke")
    /\ left' = [left EXCEPT ![p] = @ \ {"sessions"}]
    /\ wf' = [wf EXCEPT ![p] = IF @ = "queued" THEN "begun" ELSE @]
    /\ Return(c)
    /\ UNCHANGED <<manifest, principal, identities, reserve, frozen, world, lost>>

\* The stage resources only observes.
Resources(c, p) ==
    /\ wf[p] = "begun"
    /\ call[c] = Idle /\ LockFree(c)
    /\ manifest[p].status = "deleting" /\ ~manifest[p].cancelled
    /\ Memberships(p, TenantExists)
    /\ wf' = [wf EXCEPT ![p] = "cleared"]
    /\ UNCHANGED <<manifest, accounts, frozen, world, call, lock, lost>>

Complete(c, p) ==
    /\ wf[p] = "removed" /\ ~manifest[p].cancelled
    /\ \/ manifest[p].status = "complete" /\ Enter(c, p, "release")
       \/ /\ manifest[p].status = "deleting"
          /\ Memberships(p, FALSE) /\ ~TenantExists
          /\ Enter(c, p, "platform")
    /\ UNCHANGED <<manifest, accounts, frozen, world, wf, lost>>

\* The callback reads a complete manifest before it takes the lock.
LateRelease(c, p) ==
    /\ wf[p] \in {"queued", "removed"}
    /\ call[c] = Idle
    /\ manifest[p].status = "complete"
    /\ call' = [call EXCEPT ![c] = [who |-> p, step |-> "release"]]
    /\ UNCHANGED <<manifest, accounts, frozen, world, wf, lock, lost>>

CheckPlatformGone(c) ==
    /\ At(c, "platform")
    /\ ~tenant.platform
    /\ Goto(c, "idp")
    /\ UNCHANGED <<manifest, accounts, frozen, world, wf, lost>>

\* Mutant: the sessions of the site are not revoked.
AfterIdp(s) ==
    CASE s = "idp" -> "portal" [] s = "site" -> "portal" [] s = "portal" -> "sessions" [] OTHER -> "finish"

\* The order of the stage complete.
After(s) ==
    CASE s = "idp" -> "site" [] s = "site" -> "portal" [] s = "portal" -> "sessions" [] OTHER -> "finish"

\* DeleteCustomer, RevokeSiteSessions, CleanPortal, RevokeSessions.
TearDown(c) ==
    LET p == call[c].who s == call[c].step IN
    /\ s \in Outside
    /\ left' = [left EXCEPT ![p] = @ \ {s}]
    /\ Goto(c, After(s))
    /\ UNCHANGED <<manifest, principal, identities, reserve, frozen, world, wf, lost>>

FinishCustomerDeletion(c) ==
    LET p == call[c].who IN
    /\ At(c, "finish")
    /\ \/ manifest[p].status = "complete" /\ UNCHANGED <<manifest, principal, reserve>>
       \/ /\ manifest[p].status = "deleting" /\ principal[p] = "disabled"
          /\ reserve' = [reserve EXCEPT ![p] = "none"]
          /\ principal' = [principal EXCEPT ![p] = "removed"]
          /\ manifest' = [manifest EXCEPT ![p].status = "complete"]
    /\ Goto(c, "release")
    /\ UNCHANGED <<identities, left, frozen, world, wf, lost>>

ReleasePortal(c) ==
    /\ At(c, "release")
    /\ frozen' = frozen \ {call[c].who}
    /\ Goto(c, "record")
    /\ UNCHANGED <<manifest, accounts, world, wf, lost>>

ReleaseCustomerDeletion(c) ==
    LET p == call[c].who IN
    /\ At(c, "record")
    /\ manifest[p].status = "complete"
    /\ manifest' = [manifest EXCEPT ![p].released = TRUE]
    /\ wf' = [wf EXCEPT ![p] = "none"]
    /\ Return(c)
    /\ UNCHANGED <<accounts, frozen, world, lost>>

-----------------------------------------------------------------------------
(* Cancellation *)

Cancel(c, p) ==
    /\ manifest[p].status = "prepared"
    /\ Enter(c, p, "cancel")
    /\ UNCHANGED <<manifest, accounts, frozen, world, wf, lost>>

\* Mutant: cancelled_at is stamped whatever the status has become.
CancelCustomerDeletionAnyStatus(c) ==
    LET p == call[c].who IN
    /\ At(c, "cancel")
    /\ manifest[p].status # "none"
    /\ manifest' = [manifest EXCEPT ![p].cancelled = TRUE]
    /\ Goto(c, "cancelPortal")
    /\ UNCHANGED <<accounts, frozen, world, wf, lost>>

CancelCustomerDeletion(c) ==
    LET p == call[c].who IN
    /\ At(c, "cancel")
    /\ manifest[p].status = "prepared"
    /\ manifest' = [manifest EXCEPT ![p].cancelled = TRUE]
    /\ Goto(c, "cancelPortal")
    /\ UNCHANGED <<accounts, frozen, world, wf, lost>>

CancelPortal(c) ==
    /\ At(c, "cancelPortal")
    /\ frozen' = frozen \ {call[c].who}
    /\ Goto(c, "forget")
    /\ UNCHANGED <<manifest, accounts, world, wf, lost>>

FinishCustomerCancellation(c) ==
    LET p == call[c].who IN
    /\ At(c, "forget")
    /\ manifest[p].status = "prepared" /\ manifest[p].cancelled
    /\ manifest' = [manifest EXCEPT ![p] = NoManifest]
    /\ Return(c)
    /\ UNCHANGED <<accounts, frozen, world, wf, lost>>

-----------------------------------------------------------------------------
(* Sign-up: reservations of the bounded admission budget *)

Used == {p \in Customers : reserve[p] # "none"}

\* DecideSignupRequest: an active customer without a workspace.
Invitable(p) == principal[p] = "active" /\ Memberships(p, FALSE)

\* DecideSignup: a free slot and no live reservation of the same GitHub id.
DecideSignup(p) ==
    /\ Invitable(p)
    /\ reserve[p] = "none" /\ Cardinality(Used) < Slots
    /\ reserve' = [reserve EXCEPT ![p] = "approved"]
    /\ UNCHANGED <<manifest, principal, identities, left, frozen, world, wf, call, lock, lost>>

ExpireSignup(p) ==
    /\ reserve[p] = "approved"
    /\ reserve' = [reserve EXCEPT ![p] = "none"]
    /\ UNCHANGED <<manifest, principal, identities, left, frozen, world, wf, call, lock, lost>>

\* Every path that creates a workspace respects the freeze of its name, and
\* only a customer without a tombstone authenticates.
GuardCustomerTenantCreation(p) == ~Tombstoned(p) /\ ~TenantDeletionPending

\* create-tenant: the guard, claimSignup (a replay for the
\* same name and principal passes, the public flow spends a slot of its own,
\* signup_claimed_tenant is unique) and the submission of the workflow.
CreateTenant(p) ==
    /\ admitted = NoOne
    /\ GuardCustomerTenantCreation(p)
    /\ principal[p] = "active"
    /\ reserve[p] # "none" \/ (PublicFlow /\ Cardinality(Used) < Slots)
    /\ \A q \in Customers \ {p} : reserve[q] # "claimed"
    /\ reserve' = [reserve EXCEPT ![p] = "claimed"]
    /\ admitted' = p
    /\ UNCHANGED <<manifest, principal, identities, left, frozen, tenant, extra, wf, call, lock, lost>>

-----------------------------------------------------------------------------
(* Principals: identities change while a deletion waits *)

LinkIdentity(p) ==
    /\ principal[p] = "active"
    /\ identities' = [identities EXCEPT ![p] = "moved"]
    /\ UNCHANGED <<manifest, principal, left, reserve, frozen, world, wf, call, lock, lost>>

UnlinkIdentity(p) ==
    /\ principal[p] # "removed" /\ identities[p] = "approved"
    /\ identities' = [identities EXCEPT ![p] = "revoked"]
    /\ UNCHANGED <<manifest, principal, left, reserve, frozen, world, wf, call, lock, lost>>

\* The live identities move to a principal outside of Customers, and this one
\* is disabled; for a principal that receives them it is LinkIdentity.
MergePrincipals(p) ==
    /\ principal[p] = "active"
    /\ identities' = [identities EXCEPT ![p] = "moved"]
    /\ principal' = [principal EXCEPT ![p] = "disabled"]
    /\ UNCHANGED <<manifest, left, reserve, frozen, world, wf, call, lock, lost>>

DisablePrincipal(p) ==
    /\ principal[p] = "active"
    /\ principal' = [principal EXCEPT ![p] = "disabled"]
    /\ UNCHANGED <<manifest, identities, left, reserve, frozen, world, wf, call, lock, lost>>

-----------------------------------------------------------------------------
(* GitOps, the platform and the workflows *)

Others == <<manifest, accounts, frozen, call, lock, lost>>

\* The create-tenant workflow runs.
LandTenant ==
    /\ admitted # NoOne
    /\ tenant' = IF TenantExists THEN tenant ELSE [owner |-> admitted, platform |-> TRUE]
    /\ admitted' = NoOne
    /\ UNCHANGED <<extra, wf, Others>>

\* The delete-tenant workflow removes the workspace it was cleared to remove.
RemoveTenant(p) ==
    /\ wf[p] = "cleared" /\ admitted = NoOne
    /\ tenant' = [tenant EXCEPT !.owner = NoOne]
    /\ wf' = [wf EXCEPT ![p] = "removed"]
    /\ UNCHANGED <<extra, admitted, Others>>

\* Deletion of the workspace alone.
DeleteWorkspace ==
    /\ TenantExists /\ admitted = NoOne
    /\ tenant' = [tenant EXCEPT !.owner = NoOne]
    /\ UNCHANGED <<extra, admitted, wf, Others>>

Prune ==
    /\ ~TenantExists /\ tenant.platform
    /\ tenant' = [tenant EXCEPT !.platform = FALSE]
    /\ UNCHANGED <<extra, admitted, wf, Others>>

\* A membership elsewhere, or another member of the workspace, comes and goes.
ChangeMembers(p) ==
    /\ principal[p] # "removed"
    /\ extra' = IF p \in extra THEN extra \ {p} ELSE extra \union {p}
    /\ UNCHANGED <<tenant, admitted, wf, Others>>

-----------------------------------------------------------------------------
CallStep(c) ==
    \/ Validate(c) \/ PrepareCustomerDeletion(c) \/ FreezePortal(c)
    \/ BeginCustomerDeletion(c) \/ RevokeSessions(c)
    \/ CheckPlatformGone(c) \/ TearDown(c) \/ FinishCustomerDeletion(c)
    \/ ReleasePortal(c) \/ ReleaseCustomerDeletion(c)
    \/ CancelCustomerDeletion(c) \/ CancelPortal(c) \/ FinishCustomerCancellation(c)
    \/ Fail(c) \/ LoseLock(c)

Next ==
    \/ \E c \in Calls : CallStep(c)
    \/ \E c \in Calls, p \in Customers :
          Prepare(c, p) \/ Begin(c, p) \/ Resources(c, p) \/ Complete(c, p) \/ LateRelease(c, p) \/ Cancel(c, p)
    \/ \E p \in Customers :
          \/ DecideSignup(p) \/ ExpireSignup(p) \/ CreateTenant(p)
          \/ LinkIdentity(p) \/ UnlinkIdentity(p) \/ MergePrincipals(p) \/ DisablePrincipal(p)
          \/ RemoveTenant(p) \/ ChangeMembers(p)
    \/ LandTenant \/ DeleteWorkspace \/ Prune

Spec == Init /\ [][Next]_vars

-----------------------------------------------------------------------------
(* Properties *)

Begun(p) == manifest[p].status \in {"deleting", "complete"}

\* Every variable has its type.
TypeOK ==
    /\ manifest \in [Customers -> Manifest]
    /\ principal \in [Customers -> {"active", "disabled", "removed"}]
    /\ identities \in [Customers -> {"approved", "moved", "revoked"}]
    /\ left \in [Customers -> SUBSET Outside]
    /\ reserve \in [Customers -> {"none", "approved", "claimed"}]
    /\ frozen \subseteq Customers /\ extra \subseteq Customers
    /\ tenant \in [owner : Customers \union {NoOne}, platform : BOOLEAN]
    /\ admitted \in Customers \union {NoOne}
    /\ wf \in [Customers -> {"none", "queued", "begun", "cleared", "removed"}]
    /\ call \in [Calls -> [who : Customers \union {NoOne}, step : Steps]]
    /\ lock \in Calls \union {NoCall}
    /\ lost \in 0 .. MaxLost

\* A deletion is complete only when nothing of the customer is left: the
\* principal and its reservation are gone with the account at the identity
\* provider, its sessions and its portal data, and until the name is released
\* so are the workspace and its resources, whatever was interrupted and
\* repeated on the way (the order of the stage complete and
\* FinishCustomerDeletion).
NothingLeftBehind ==
    \A p \in Customers :
        manifest[p].status = "complete" =>
            /\ principal[p] = "removed" /\ left[p] = {} /\ reserve[p] = "none"
            /\ tenant.owner # p
            /\ ~manifest[p].released => ~tenant.platform

\* As long as no session of the run lock was lost, the portal keeps a customer
\* frozen only while a manifest says so that can still be released or
\* cancelled: no preparation freezes again what a cancellation has opened
\* (prepareCustomerAccountDeletion and CancelCustomerDeletion share the lock).
FreezeFollowsManifest ==
    lost = 0 => \A p \in frozen : manifest[p].status # "none" /\ ~manifest[p].released

\* Once a deletion has begun, nobody else gets the workspace name until the
\* portal's release is recorded, and the workflow that was cleared to remove
\* the workspace never removes another customer's (guardCustomerTenantCreation,
\* signup_claimed_tenant, the stages begin and resources).
NameHeldUntilReleased ==
    \A p \in Customers :
        Begun(p) /\ ~manifest[p].released => tenant.owner \in {p, NoOne}

\* A customer whose identities were linked or merged elsewhere after the
\* approval is not deleted: begin reads them again under the principal's lock,
\* and afterwards the disabled principal's identities no longer move.
OnlyApprovedIdentities ==
    \A p \in Customers : Begun(p) => identities[p] # "moved"

\* Cancellation reverses only what has not begun: a deletion that has begun is
\* never cancelled, forgotten or begun again, its principal is never active
\* again, and a recorded release stays, even when a call runs on after it
\* lost the lock.
DeletionIsFinal ==
    [][\A p \in Customers :
          /\ Begun(p) =>
                /\ manifest'[p].status \in {"deleting", "complete"}
                /\ ~manifest'[p].cancelled
                /\ principal'[p] # "active"
          /\ manifest[p].status = "complete" => manifest'[p].status = "complete"
          /\ manifest[p].released => manifest'[p].released]_vars
=============================================================================
