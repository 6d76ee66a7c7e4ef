---------------------------- MODULE MCMissionIntake ----------------------------
(* Small instances of MissionIntake for TLC.                                *)
EXTENDS MissionIntake, TLC

Symmetry == Permutations(Sessions) \cup Permutations(Decisions)
              \cup Permutations(Teams) \cup Permutations(Requests)
=============================================================================
