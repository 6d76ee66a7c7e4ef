------------------------------ MODULE MCMailSync ------------------------------
(* MailSync for TLC.                                                        *)
EXTENDS MailSync, TLC

Symmetry == Permutations(Sessions)
=============================================================================
