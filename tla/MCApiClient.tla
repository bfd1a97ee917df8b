------------------------------ MODULE MCApiClient ------------------------------
(* ApiClient with two concurrent calls. *)
EXTENDS ApiClient, TLC

Symmetry == Permutations(Reqs)
=============================================================================
