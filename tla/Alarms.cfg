SPECIFICATION Spec
CONSTANTS
  u1 = u1
  u2 = u2
  f1 = f1
  a1 = a1
  a2 = a2
  a3 = a3
  p1 = p1
  p2 = p2
  n1 = n1
  n2 = n2
  n3 = n3
  None = None
  Users = {u1, u2}
  Folders = {f1}
  Alarms = {a1, a2, a3}
  Requests = {p1, p2}
  Names = {n1, n2, n3}
  Schedules <- SomeSchedules
  Limits <- SmallLimits
  Ops = {"create", "put", "delete", "enable", "disable", "bulk", "list", "makeFolder", "rename", "dropFolder", "setTier"}
  Window = 0
  MaxTime = 1
  MaxArrivals = 3
SYMMETRY Symmetry
INVARIANTS NamesUnique FiledWithOwner CollisionsExplained OvershootBounded SchedulesWereAllowed
PROPERTIES OnlyOwnRows NothingElseLost
CHECK_DEADLOCK FALSE
