SPECIFICATION Spec
CONSTANTS
  a1 = a1
  a2 = a2
  r1 = r1
  t1 = t1
  t2 = t2
  Elsewhere = Elsewhere
  Tabs = {t1}
  Alarms = {a1}
  Runs = {}
  Schedule <- TwoInstants
  Poll = 2
  Lookahead = 4
  Horizon = 6
  Grace = 2
  FeedLimit = 3
  Retention = 3
  Latency = 1
  Skew = 0
  Events = {"turn", "switch"}
  MaxTime = 8
  RunSpec <- ShortChain
  MaxStepOccurrences = 5
PROPERTIES DisabledSilent
