SPECIFICATION Spec
CONSTANTS
  i1 = i1
  i2 = i2
  i3 = i3
  Sessions = {s1, s2}
  Schedulers = {k1}
  Items = {i1, i2, i3}
  Deps <- Join
  Runs = {r1, r2}
  Claims = {"verified", "unverified", "disputed"}
  None = None
SYMMETRY JoinSymmetry
CHECK_DEADLOCK FALSE
INVARIANTS TypeOK NoOrphanItem AcceptedIsVerified NobodyWaitsForNothing ClosedRunsSettled
