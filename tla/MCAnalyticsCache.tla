-------------------------- MODULE MCAnalyticsCache --------------------------
(* AnalyticsCache on small sets of files, requests and loads. *)
EXTENDS AnalyticsCache, TLC

Symmetry == Permutations(Files) \cup Permutations(Reqs) \cup Permutations(Loads)
=============================================================================
