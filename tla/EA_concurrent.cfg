SPECIFICATION Spec
CONSTANTS
  Sessions = {s1, s2}
  Missions = {m1}
  HighRisk = {m1}
  Approvals = {a1, a2}
  Ops = {o1, o2}
  None = None
  Modes = {"live"}
  DailyLimit = 1
  MissionLimit = 2
  SendQuota = 2
  MaxCrashes = 1
  MaxSends = 2
  MaxAged = 1
SYMMETRY Symmetry
CHECK_DEADLOCK FALSE
INVARIANTS TypeOK SendsAccounted SendNeedsApproval MeteredWithinLimits ChargedOnlyForSent
PROPERTIES NoSendAfterResult DeliversAsPromised
