-------------------------- MODULE MCFundPermissions --------------------------
(***************************************************************************)
(* A small instance of FundPermissions for TLC.                            *)
(***************************************************************************)
EXTENDS FundPermissions

CONSTANTS alice, bob, CreatePool

\* One for an ordinary member, one that also makes an owner, one that strips
\* everything but membership from an owner who is no member.
MCInvitations ==
  {[invitee |-> alice, permissionsMask |-> {Member, CreatePool}, deadline |-> 1],
   [invitee |-> alice, permissionsMask |-> {Owner, Member}, deadline |-> 0],
   [invitee |-> bob, permissionsMask |-> {Member}, deadline |-> 0]}
=============================================================================
