------------------------- MODULE MCExternalActions -------------------------
(* Small instances of ExternalActions for TLC.                              *)
EXTENDS ExternalActions, TLC

Symmetry == Permutations(Sessions) \cup Permutations(Approvals) \cup Permutations(Ops)
=============================================================================
