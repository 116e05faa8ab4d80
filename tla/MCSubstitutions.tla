--------------------------- MODULE MCSubstitutions -------------------------
(***************************************************************************)
(* Two HTTP calls on the application's requests, one of them with the zero *)
(* request id, a run of the script with a request of its own, and a        *)
(* challenge verified twice at once.                                       *)
(***************************************************************************)
EXTENDS Substitutions, TLC

Symmetric == Permutations(Calls) \union Permutations(Verifiers)
=============================================================================
