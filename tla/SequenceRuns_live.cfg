SPECIFICATION FairSpec
CONSTANTS
  s1 = s1
  r1 = r1
  p1 = p1
  p2 = p2
  n1 = n1
  tab = tab
  None = None
  Sequences = {s1}
  Runs = {r1}
  Requests = {p1}
  Tabs = {tab}
  Names = {n1}
  Rules <- TwoRules
  Cycles = {1, 2}
  Ops = {"create", "put", "activate", "deactivate", "delete", "poll"}
  MaxTime = 3
  MaxStart = 1
  MaxEdits = 1
PROPERTIES RunEnds
