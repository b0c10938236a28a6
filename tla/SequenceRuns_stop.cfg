SPECIFICATION Spec
CONSTANTS
  s1 = s1
  r1 = r1
  r2 = r2
  p1 = p1
  p2 = p2
  n1 = n1
  tab = tab
  None = None
  Sequences = {s1}
  Runs = {r1, r2}
  Requests = {p1, p2}
  Tabs = {tab}
  Names = {n1}
  Rules <- OnceRule
  Cycles = {1}
  Ops = {"create", "get", "activate", "deactivate", "poll"}
  MaxTime = 2
  MaxStart = 1
  MaxEdits = 0
SYMMETRY Symmetry
INVARIANTS OneActiveRun EndedAfterStarted StopTakes
