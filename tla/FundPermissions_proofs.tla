----------------------- MODULE FundPermissions_proofs -----------------------
(***************************************************************************)
(* Proofs about FundPermissions, for any accounts, permissions and         *)
(* invitations.  PermissionsInv is inductive as it stands: each of its     *)
(* parts needs only the types besides itself.                              *)
(***************************************************************************)
EXTENDS FundPermissions, TLAPS

\* The inductive invariant.
PermissionsInv ==
  /\ PermissionsTypeOK
  /\ AnOwnerRemains
  /\ RightsComeFromOwners
  /\ InvitationAcceptedOnce

\* What both ways of changing a mask have in common: the types stay, an owner
\* remains and every right still comes from an owner (_canUpdatePermissions
\* followed by _updatePermissions).
LEMMA MaskChange ==
  ASSUME NEW by \in Accounts, NEW account \in Accounts, NEW new \in Mask,
         PermissionsInv, CanUpdatePermissions(by, account, new),
         SetMask(by, account, new)
  PROVE  /\ mask' \in [Accounts -> Mask]
         /\ delegated' \in Mask
         /\ AnOwnerRemains'
         /\ RightsComeFromOwners'
<1>1. mask \in [Accounts -> Mask] /\ delegated \in Mask
  BY DEF PermissionsInv, PermissionsTypeOK
<1>2. mask' = [mask EXCEPT ![account] = new]
  BY DEF SetMask
<1>3. mask' \in [Accounts -> Mask]
  BY <1>1, <1>2
<1>4. delegated \subseteq delegated' /\ delegated' \in Mask
  BY <1>1 DEF SetMask, Mask
<1>5. \A a \in Accounts : a # account => mask'[a] = mask[a]
  BY <1>1, <1>2
<1>6. mask'[account] = new
  BY <1>1, <1>2
<1>7. AnOwnerRemains'
  <2>1. CASE Differ(Owner, mask[account], new)
    <3>1. IsOwner(by) /\ by # account
      BY <2>1 DEF CanUpdatePermissions
    <3> QED BY <3>1, <1>5 DEF AnOwnerRemains, IsOwner
  <2>2. CASE ~Differ(Owner, mask[account], new)
    <3>1. PICK o \in Accounts : IsOwner(o)
      BY DEF PermissionsInv, AnOwnerRemains
    <3>2. Owner \in mask'[o]
      BY <2>2, <3>1, <1>5, <1>6 DEF Differ, IsOwner
    <3> QED BY <3>2 DEF AnOwnerRemains, IsOwner
  <2> QED BY <2>1, <2>2
<1>8. RightsComeFromOwners'
  <2> SUFFICES ASSUME NEW a \in Accounts, Owner \notin mask'[a]
               PROVE  mask'[a] \subseteq delegated'
    BY DEF RightsComeFromOwners, IsOwner
  <2>1. CASE a # account
    <3>1. ~IsOwner(a) /\ mask'[a] = mask[a]
      BY <2>1, <1>5 DEF IsOwner
    <3> QED BY <3>1, <1>4 DEF PermissionsInv, RightsComeFromOwners
  <2>2. CASE a = account /\ IsOwner(by)
    BY <2>2, <1>6 DEF SetMask
  <2>3. CASE a = account /\ ~IsOwner(by)
    <3>1. new \subseteq mask[by]
      BY <2>3 DEF CanUpdatePermissions
    <3>2. mask[by] \subseteq delegated
      BY <2>3 DEF PermissionsInv, RightsComeFromOwners
    <3> QED BY <2>3, <3>1, <3>2, <1>4, <1>6
  <2> QED BY <2>1, <2>2, <2>3
<1> QED BY <1>3, <1>4, <1>7, <1>8

LEMMA PermissionsInit == Init => PermissionsInv
<1> SUFFICES ASSUME Init PROVE PermissionsInv
  OBVIOUS
<1>1. PermissionsTypeOK
  <2>1. mask \in [Accounts -> Mask]
    BY DEF Init, Mask
  <2>2. acceptances \in [Invitations -> Nat]
        /\ acceptedInvites = {i \in Invitations : acceptances[i] > 0}
    BY DEF Init
  <2>3. delegated \in Mask
    BY DEF Init, Mask
  <2> QED BY <2>1, <2>2, <2>3 DEF Init, PermissionsTypeOK
<1>2. AnOwnerRemains
  BY PermissionsAssumption DEF Init, AnOwnerRemains, IsOwner, Permission
<1>3. RightsComeFromOwners
  BY PermissionsAssumption DEF Init, RightsComeFromOwners, IsOwner, Permission
<1>4. InvitationAcceptedOnce
  BY DEF Init, InvitationAcceptedOnce
<1> QED BY <1>1, <1>2, <1>3, <1>4 DEF PermissionsInv

LEMMA PermissionsNext == PermissionsInv /\ [Next]_vars => PermissionsInv'
<1> SUFFICES ASSUME PermissionsInv, [Next]_vars PROVE PermissionsInv'
  OBVIOUS
<1>types. PermissionsTypeOK
  BY DEF PermissionsInv
<1>1. ASSUME NEW inviter \in Accounts, NEW i \in Invitations,
             AcceptInvitation(inviter, i)
      PROVE  PermissionsInv'
  <2>1. i.invitee \in Accounts /\ i.permissionsMask \in Mask
    BY PermissionsAssumption
  <2>2. CanUpdatePermissions(inviter, i.invitee, i.permissionsMask)
        /\ SetMask(inviter, i.invitee, i.permissionsMask)
    BY <1>1 DEF AcceptInvitation, VerifyInvitation
  <2>3. /\ mask' \in [Accounts -> Mask] /\ delegated' \in Mask
        /\ AnOwnerRemains' /\ RightsComeFromOwners'
    BY <2>1, <2>2, MaskChange
  <2>4. acceptances' = [acceptances EXCEPT ![i] = @ + 1]
        /\ acceptedInvites' = acceptedInvites \cup {i} /\ i \notin acceptedInvites
    BY <1>1 DEF AcceptInvitation, VerifyInvitation
  <2>5. acceptances \in [Invitations -> Nat] /\ acceptances[i] = 0
        /\ acceptedInvites = {j \in Invitations : acceptances[j] > 0}
    BY <1>types, <2>4 DEF PermissionsTypeOK
  <2>6. acceptances' \in [Invitations -> Nat]
        /\ acceptedInvites' = {j \in Invitations : acceptances'[j] > 0}
        /\ acceptances'[i] = 1
    BY <2>4, <2>5
  <2>7. PermissionsTypeOK'
    BY <1>types, <1>1, <2>3, <2>6 DEF PermissionsTypeOK, AcceptInvitation
  <2>8. InvitationAcceptedOnce'
    BY <2>4, <2>5, <2>6 DEF PermissionsInv, InvitationAcceptedOnce
  <2> QED BY <2>3, <2>7, <2>8 DEF PermissionsInv
<1>2. ASSUME NEW updater \in Accounts, NEW account \in Accounts, NEW new \in Mask,
             UpdatePermissions(updater, account, new)
      PROVE  PermissionsInv'
  <2>1. /\ mask' \in [Accounts -> Mask] /\ delegated' \in Mask
        /\ AnOwnerRemains' /\ RightsComeFromOwners'
    BY <1>2, MaskChange DEF UpdatePermissions
  <2>2. PermissionsTypeOK' /\ InvitationAcceptedOnce'
    BY <1>types, <1>2, <2>1
    DEF PermissionsInv, PermissionsTypeOK, InvitationAcceptedOnce, UpdatePermissions
  <2> QED BY <2>1, <2>2 DEF PermissionsInv
<1>3. CASE SwitchPause
  BY <1>3 DEF PermissionsInv, PermissionsTypeOK, AnOwnerRemains,
              RightsComeFromOwners, InvitationAcceptedOnce, IsOwner, SwitchPause
<1>4. CASE Tick
  BY <1>4 DEF PermissionsInv, PermissionsTypeOK, AnOwnerRemains,
              RightsComeFromOwners, InvitationAcceptedOnce, IsOwner, Tick
<1>5. CASE UNCHANGED vars
  BY <1>5 DEF PermissionsInv, PermissionsTypeOK, AnOwnerRemains,
              RightsComeFromOwners, InvitationAcceptedOnce, IsOwner, vars
<1> QED BY <1>1, <1>2, <1>3, <1>4, <1>5 DEF Next

\* The inductive invariant holds in every reachable state.
THEOREM PermissionsInvariant == Spec => []PermissionsInv
<1> QED BY PermissionsInit, PermissionsNext, PTL DEF Spec

\* Masks stay masks, and a digest is marked exactly if it was accepted
\* (_updatePermissions, verifyInvitation).
THEOREM PermissionsTypeCorrect == Spec => []PermissionsTypeOK
<1>1. PermissionsInv => PermissionsTypeOK
  BY DEF PermissionsInv
<1> QED BY <1>1, PermissionsInvariant, PTL

\* A fund never loses its last owner (_canUpdatePermissions).
THEOREM LastOwnerStays == Spec => []AnOwnerRemains
<1>1. PermissionsInv => AnOwnerRemains
  BY DEF PermissionsInv
<1> QED BY <1>1, PermissionsInvariant, PTL

\* Nobody but an owner holds what no owner ever gave (_canUpdatePermissions).
THEOREM NoPermissionFromNowhere == Spec => []RightsComeFromOwners
<1>1. PermissionsInv => RightsComeFromOwners
  BY DEF PermissionsInv
<1> QED BY <1>1, PermissionsInvariant, PTL

\* An invitation is accepted at most once (verifyInvitation).
THEOREM AcceptedOnce == Spec => []InvitationAcceptedOnce
<1>1. PermissionsInv => InvitationAcceptedOnce
  BY DEF PermissionsInv
<1> QED BY <1>1, PermissionsInvariant, PTL

\* Only an owner changes an owner's mask, or who manages permissions.
THEOREM OwnersAboveMembers == Spec => OwnersAnswerToOwners
<1>1. ASSUME PermissionsInv, NEW by \in Accounts, NEW a \in Accounts,
             ~IsOwner(by), Changes(by, a)
      PROVE  ~IsOwner(a) /\ ~Differ(UpdateFundPermissions, mask[a], mask'[a])
  <2>1. PICK new : CanUpdatePermissions(by, a, new) /\ SetMask(by, a, new)
    BY <1>1 DEF Changes, UpdatePermissions, AcceptInvitation, VerifyInvitation
  <2>2. mask'[a] = new
    BY <1>1, <2>1 DEF SetMask, PermissionsInv, PermissionsTypeOK
  <2>3. ~Differ(Owner, mask[a], new) /\ new \subseteq mask[by]
        /\ ~Differ(UpdateFundPermissions, mask[a], new)
    BY <1>1, <2>1 DEF CanUpdatePermissions
  <2> QED BY <1>1, <2>2, <2>3 DEF Differ, IsOwner
<1>2. PermissionsInv =>
        [\A by, a \in Accounts :
           (~IsOwner(by) /\ Changes(by, a)) =>
              /\ ~IsOwner(a)
              /\ ~Differ(UpdateFundPermissions, mask[a], mask'[a])]_vars
  BY <1>1
<1> QED BY <1>2, PermissionsInvariant, PTL DEF OwnersAnswerToOwners
=============================================================================
