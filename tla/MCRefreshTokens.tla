--------------------------- MODULE MCRefreshTokens ---------------------------
(* RefreshTokens with a few requests and seconds. *)
EXTENDS RefreshTokens, TLC

Symmetry == Permutations(Reqs)
=============================================================================
