------------------------------ MODULE MCBilling ------------------------------
(* Billing for TLC.                                                         *)
EXTENDS Billing, TLC

Symmetry == Permutations(Sessions)
=============================================================================
