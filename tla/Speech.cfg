SPECIFICATION Spec
CONSTANTS
  t1 = t1
  s1 = s1
  s2 = s2
  w1 = w1
  w2 = w2
  j1 = j1
  j2 = j2
  None = None
  Tabs = {t1}
  Says = {s1, s2}
  Words = {w1, w2}
  Jobs = {j1, j2}
  MaxSynthesis = 2
  MaxSaid = 3
  MaxFaults = 2
INVARIANTS PaidOnce AnsweredIsKept
PROPERTY Heard
CHECK_DEADLOCK FALSE
