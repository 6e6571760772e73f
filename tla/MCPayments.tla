----------------------------- MODULE MCPayments ------------------------------
(* Constant values for model-checking Payments. *)
EXTENDS Payments, TLC

\* Neither orders nor products are told apart by anything but their identity.
MCSymmetry == Permutations(Orders) \cup Permutations(Products)

==============================================================================
