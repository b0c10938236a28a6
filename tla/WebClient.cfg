CONSTANTS
  a1 = a1
  a2 = a2
  x = x
  y = y
  None = None
  Alarms = {a1, a2}
  Texts = {x, y}
  LastStep = 2
  FirstAlarms <- OneAlarm
  MaxWire = 2
  Sessions <- MCSessions
SPECIFICATION Spec
INVARIANTS ListTruth DraftTruth
PROPERTY SubmitEnds
CHECK_DEADLOCK FALSE
