--------------------------- MODULE FundPermissions ---------------------------
(***************************************************************************)
(* Who may do what in a fund: the masks of UFarmPermissionsModel.sol and   *)
(* the two ways UFarmFund.sol changes them, an update by another account   *)
(* and an invitation signed off-chain and accepted by the invitee.         *)
(*                                                                         *)
(* A mask is the set of its bits.  The digest of an invitation covers the  *)
(* invitee, the mask and the deadline but not the inviter, so the record   *)
(* of these three names the digest, and any account may have signed it.    *)
(***************************************************************************)
EXTENDS Integers, FiniteSets

CONSTANTS
  Accounts,
  Founder,                \* the owner the fund is created with
  Member, Owner, UpdateFundPermissions,
  OtherPermissions,       \* the bits that play no part in these checks
  Invitations,            \* the invitations that may be signed
  MaxTime                 \* bound of the clock

Permission == {Member, Owner, UpdateFundPermissions} \cup OtherPermissions
Mask       == SUBSET Permission

ASSUME PermissionsAssumption ==
  /\ Founder \in Accounts
  /\ Member # Owner /\ Member # UpdateFundPermissions /\ Owner # UpdateFundPermissions
  /\ {Member, Owner, UpdateFundPermissions} \cap OtherPermissions = {}
  /\ Invitations \subseteq [invitee : Accounts, permissionsMask : Mask, deadline : Nat]
  /\ MaxTime \in Nat

VARIABLES
  mask,             \* _accountMask
  acceptedInvites,  \* __acceptedInvites
  paused,           \* UFarmCore.isPaused
  now,              \* block.timestamp
  delegated,        \* for the properties: every bit an owner has ever given
  acceptances       \* for the properties: how often each digest was accepted

vars == <<mask, acceptedInvites, paused, now, delegated, acceptances>>

\* __init_UFarmFund gives the owner every bit.
Init ==
  /\ mask = [a \in Accounts |-> IF a = Founder THEN Permission ELSE {}]
  /\ acceptedInvites = {}
  /\ paused = FALSE
  /\ now = 0
  /\ delegated = {}
  /\ acceptances = [i \in Invitations |-> 0]

-----------------------------------------------------------------------------

IsOwner(account) == Owner \in mask[account]

Differ(permission, mask1, mask2) == (permission \in mask1) # (permission \in mask2)

\* Mistake: an owner may give up its own ownership.
CanUpdatePermissions_OwnOwner(updater, updatee, new) ==
  IF Differ(Owner, mask[updatee], new)
  THEN IsOwner(updater)
  ELSE \/ IsOwner(updater)
       \/ /\ {Member, UpdateFundPermissions} \subseteq mask[updater]
          /\ ~Differ(UpdateFundPermissions, mask[updatee], new)
          /\ new \subseteq mask[updater]

\* Mistake: an updater may give what it does not hold.
CanUpdatePermissions_AnyBits(updater, updatee, new) ==
  IF Differ(Owner, mask[updatee], new)
  THEN IsOwner(updater) /\ updater # updatee
  ELSE \/ IsOwner(updater)
       \/ /\ {Member, UpdateFundPermissions} \subseteq mask[updater]
          /\ ~Differ(UpdateFundPermissions, mask[updatee], new)

\* Mistake: updaters may make and unmake updaters.
CanUpdatePermissions_AnyUpdater(updater, updatee, new) ==
  IF Differ(Owner, mask[updatee], new)
  THEN IsOwner(updater) /\ updater # updatee
  ELSE \/ IsOwner(updater)
       \/ /\ {Member, UpdateFundPermissions} \subseteq mask[updater]
          /\ new \subseteq mask[updater]

\* _canUpdatePermissions
CanUpdatePermissions(updater, updatee, new) ==
  IF Differ(Owner, mask[updatee], new)
  THEN IsOwner(updater) /\ updater # updatee
  ELSE \/ IsOwner(updater)
       \/ /\ {Member, UpdateFundPermissions} \subseteq mask[updater]
          /\ ~Differ(UpdateFundPermissions, mask[updatee], new)
          /\ new \subseteq mask[updater]

\* _updatePermissions, on the authority of `by`.
SetMask(by, account, new) ==
  /\ new # mask[account]
  /\ mask' = [mask EXCEPT ![account] = new]
  /\ delegated' = IF IsOwner(by) THEN delegated \cup new ELSE delegated

\* Mistake: the digest is not remembered.
VerifyInvitation_Reusable(inviter, invitation) ==
  /\ Member \notin mask[invitation.invitee]
  /\ now <= invitation.deadline
  /\ invitation.permissionsMask # {}
  /\ CanUpdatePermissions(inviter, invitation.invitee, invitation.permissionsMask)

VerifyInvitation(inviter, invitation) ==
  /\ invitation \notin acceptedInvites
  /\ Member \notin mask[invitation.invitee]
  /\ now <= invitation.deadline
  /\ invitation.permissionsMask # {}
  /\ CanUpdatePermissions(inviter, invitation.invitee, invitation.permissionsMask)

\* Mistake: the digest is not marked when it is accepted.
AcceptInvitation_Unmarked(inviter, invitation) ==
  /\ ~paused
  /\ VerifyInvitation(inviter, invitation)
  /\ acceptances' = [acceptances EXCEPT ![invitation] = @ + 1]
  /\ SetMask(inviter, invitation.invitee, invitation.permissionsMask)
  /\ UNCHANGED <<acceptedInvites, paused, now>>

\* The invitee presents an invitation that carries inviter's signature.
AcceptInvitation(inviter, invitation) ==
  /\ ~paused
  /\ VerifyInvitation(inviter, invitation)
  /\ acceptedInvites' = acceptedInvites \cup {invitation}
  /\ acceptances' = [acceptances EXCEPT ![invitation] = @ + 1]
  /\ SetMask(inviter, invitation.invitee, invitation.permissionsMask)
  /\ UNCHANGED <<paused, now>>

UpdatePermissions(updater, account, new) ==
  /\ ~paused
  /\ CanUpdatePermissions(updater, account, new)
  /\ SetMask(updater, account, new)
  /\ UNCHANGED <<acceptedInvites, acceptances, paused, now>>

SwitchPause ==
  /\ paused' = ~paused
  /\ UNCHANGED <<mask, acceptedInvites, now, delegated, acceptances>>

Tick ==
  /\ now < MaxTime
  /\ now' = now + 1
  /\ UNCHANGED <<mask, acceptedInvites, paused, delegated, acceptances>>

Next ==
  \/ \E inviter \in Accounts, i \in Invitations : AcceptInvitation(inviter, i)
  \/ \E updater, account \in Accounts, new \in Mask :
       UpdatePermissions(updater, account, new)
  \/ SwitchPause
  \/ Tick

Spec == Init /\ [][Next]_vars

-----------------------------------------------------------------------------
(* Properties                                                              *)

\* Every variable keeps its type, and the digests marked as used are those
\* that were accepted.
PermissionsTypeOK ==
  /\ mask \in [Accounts -> Mask]
  /\ paused \in BOOLEAN
  /\ now \in Nat
  /\ delegated \in Mask
  /\ acceptances \in [Invitations -> Nat]
  /\ acceptedInvites = {i \in Invitations : acceptances[i] > 0}

\* However owners make and unmake each other, and whatever invitations they
\* accept, the fund never loses its last owner (UFarmFund.test.ts: "Many users
\* can be owners, last owner can't be removed").
AnOwnerRemains == \E a \in Accounts : IsOwner(a)

\* What an account that is not an owner holds was once given by an owner, to it
\* or to another: no chain of updates and invitations among members, and of
\* owners coming and going, makes up a permission.
RightsComeFromOwners ==
  \A a \in Accounts : ~IsOwner(a) => mask[a] \subseteq delegated

\* A digest lets its invitee in at most once, also after the member was removed
\* and whoever else has signed the same invitation.
InvitationAcceptedOnce == \A i \in Invitations : acceptances[i] <= 1

\* account's mask changes on the authority of `by`.
Changes(by, account) ==
  \/ UpdatePermissions(by, account, mask'[account])
  \/ \E i \in Invitations : i.invitee = account /\ AcceptInvitation(by, i)

\* Who is not an owner can neither touch an owner, not even the bits that do
\* not matter to ownership, nor make or unmake a manager of permissions.
OwnersAnswerToOwners ==
  [][\A by, a \in Accounts :
        (~IsOwner(by) /\ Changes(by, a)) =>
           /\ ~IsOwner(a)
           /\ ~Differ(UpdateFundPermissions, mask[a], mask'[a])]_vars
=============================================================================
