SPECIFICATION Spec
CONSTANTS
  i1 = i1
  i2 = i2
  i3 = i3
  Sessions = {s1}
  Schedulers = {s1}
  Items = {i1, i2, i3}
  Deps <- Join
  Runs = {r1, r2, r3, r4}
  Claims = {"verified", "unverified", "disputed"}
  None = None
SYMMETRY Symmetry
CHECK_DEADLOCK FALSE
INVARIANTS OneOpenRunPerItem StartedAfterDependencies ReviewedItemsAccepted
PROPERTIES TerminalItemsKept
