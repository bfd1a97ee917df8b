------------------------------- MODULE MCBilling -------------------------------
(* Billing with two subscriptions and two overlapping requests. *)
EXTENDS Billing, TLC

Symmetry == Permutations(Subs) \cup Permutations(Reqs)
=============================================================================
