----------------------------- MODULE MCUserState -----------------------------
(* An instance of UserState: a user, created before or not, and a group.       *)
EXTENDS UserState
CONSTANTS alice, staff

MCMembers == {{}, {alice}}
=============================================================================
