SPECIFICATION Spec
CONSTANTS
  Sessions = {s1}
  Missions = {m1, m2, m3}
  HighRisk = {m1, m2}
  Approvals = {a1, a2, a3}
  Ops = {o1, o2, o3}
  None = None
  Modes = {"live", "demo"}
  DailyLimit = 2
  MissionLimit = 1
  SendQuota = 2
  MaxCrashes = 0
  MaxSends = 2
  MaxAged = 3
SYMMETRY Symmetry
CHECK_DEADLOCK FALSE
INVARIANTS OneSendPerApproval OutcomeAgreement DecisionAgreement
PROPERTIES TerminalStatesKept
