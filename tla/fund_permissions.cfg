CONSTANTS
  Founder = Founder  alice = alice  bob = bob
  Member = Member  Owner = Owner  UpdateFundPermissions = UpdateFundPermissions
  CreatePool = CreatePool
  Accounts = {Founder, alice, bob}
  OtherPermissions = {CreatePool}
  Invitations <- MCInvitations
  MaxTime = 1
SPECIFICATION Spec
INVARIANTS
  PermissionsTypeOK
  AnOwnerRemains
  RightsComeFromOwners
  InvitationAcceptedOnce
PROPERTIES
  OwnersAnswerToOwners
