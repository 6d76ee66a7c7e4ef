---------------------------- MODULE MCWorkItems ----------------------------
(* Small instances of WorkItems for TLC.                                    *)
EXTENDS WorkItems, TLC

CONSTANTS i1, i2, i3

(* Two items that a third one waits for, and an item on its own.            *)
Join == (i1 :> {}) @@ (i2 :> {}) @@ (i3 :> {i1, i2})
Alone == i1 :> {}

Symmetry == Permutations(Sessions) \cup Permutations(Runs)

(* The items that are joined may be exchanged as well.                      *)
JoinSymmetry == Symmetry \cup Permutations({i1, i2})
=============================================================================
