------------------------------ MODULE Identity ------------------------------
(***************************************************************************)
(* bind_claimed_role of promiseguard/identity.py: which roles an actor may *)
(* claim, given the local directory and the strict mode.                   *)
(***************************************************************************)
CONSTANTS
  Actors,
  Directory,   \* LOCAL_IDENTITY_DIRECTORY: the role of every registered actor
  Strict       \* PROMISEGUARD_STRICT_LOCAL_IDENTITY

UserRoles == {"OPERATIONS_ANALYST", "OPERATIONS_MANAGER", "AUDITOR",
              "SERVICE_IDENTITY"}

Claimable(actor) ==
  CASE actor \in DOMAIN Directory -> {Directory[actor]}
    [] actor \notin DOMAIN Directory /\ Strict -> {}
    [] OTHER -> UserRoles

ClaimableRoles == [actor \in Actors |-> Claimable(actor)]
=============================================================================
