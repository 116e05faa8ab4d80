----------------------------- MODULE Authority -----------------------------
(***************************************************************************)
(* contracts/src/core/Authority.sol: which roles an address holds. Roles   *)
(* are granted at deployment and held fixed here.                          *)
(***************************************************************************)
CONSTANTS
  Actors,    (* addresses that call                                          *)
  RolesOf    (* by actor: a set of role names                                *)

hasRole(who, role) == role \in RolesOf[who]

\* The two roles the emergency paths admit.
isOfficial(who) == hasRole(who, "GUARDIAN") \/ hasRole(who, "GOVERNANCE")
=============================================================================
