------------------------------- MODULE MCGates -------------------------------
(* Gates for TLC: gate B with one kind of evidence and one role, gate D     *)
(* with the live send's evidence and one of the drills that precede it.     *)
(* Gate C is like B; the signatures of D and what the production gate asks  *)
(* for besides the other gates play no part in the live send.               *)
EXTENDS Gates, TLC

MCKeys == {"B", "D", "PRODUCTION"}
MCRequirements == [g \in MCKeys |->
    CASE g = "B" -> {"mail_sync_stability"}
      [] g = "D" -> {"live_send_verification", "unknown_recovery_drill"}
      [] OTHER -> {}]
MCRoles == [g \in MCKeys |-> IF g = "B" THEN {"it_admin"} ELSE {}]
MCRows == {"sync", "drill", "live", "recovery"}
MCGateOf == [e \in MCRows |-> IF e = "sync" THEN "B" ELSE "D"]
MCEvidenceType == [e \in MCRows |->
    CASE e = "sync" -> "mail_sync_stability"
      [] e = "live" -> "live_send_verification"
      [] OTHER -> "unknown_recovery_drill"]

Symmetry == Permutations(Sessions)
=============================================================================
