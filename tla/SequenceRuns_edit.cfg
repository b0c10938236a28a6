SPECIFICATION Spec
CONSTANTS
  s1 = s1
  s2 = s2
  r1 = r1
  r2 = r2
  p1 = p1
  p2 = p2
  n1 = n1
  n2 = n2
  tab = tab
  None = None
  Sequences = {s1, s2}
  Runs = {r1, r2}
  Requests = {p1, p2}
  Tabs = {}
  Names = {n1, n2}
  Rules <- OnceRule
  Cycles = {1, 2}
  Ops = {"create", "put", "delete", "activate"}
  MaxTime = 1
  MaxStart = 0
  MaxEdits = 1
SYMMETRY Symmetry
INVARIANTS TypeOK CompletedReachedEnd EditSparesRun
PROPERTIES ImplementsLifecycle
