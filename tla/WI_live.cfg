SPECIFICATION FairSpec
CONSTANTS
  i1 = i1
  i2 = i2
  i3 = i3
  Sessions = {s1, s2}
  Schedulers = {k1}
  Items = {i1}
  Deps <- Alone
  Runs = {r1, r2}
  Claims = {"verified"}
  None = None
CHECK_DEADLOCK FALSE
PROPERTIES EveryRunCloses EveryItemLeavesRunning
