------------------------------- MODULE MCMembers -------------------------------
(* Members with a founder and two people to come. *)
EXTENDS Members, TLC

Symmetry == Permutations(Users \ {Founder}) \cup Permutations(Reqs) \cup Permutations(Invites)
=============================================================================
