SPECIFICATION Spec
CONSTANTS
  ada = ada
  bob = bob
  cyd = cyd
  e1 = e1
  e2 = e2
  s1 = s1
  s2 = s2
  s3 = s3
  s4 = s4
  p1 = p1
  p2 = p2
  None = None
  Users = {ada, bob, cyd}
  Sessions = {s1, s2, s3, s4}
  Emails = {e1, e2}
  Known <- TwoAccounts
  Open <- TwoDevices
  Seeded = {}
  Requests = {p1, p2}
  Ops = {"register", "verify", "resend", "forgot", "reset", "login", "logout", "password", "deleteMe", "patch"}
  MaxAttempts = 1
  MaxTries = 1
  CodeTtl = 1
  SessionTtl = 1
  LimitWindow = 1
  MaxTime = 1
  MaxArrivals = 3
SYMMETRY Symmetry
CHECK_DEADLOCK FALSE
INVARIANTS SessionsConfirmed StaleSessionsExplained AttemptsBounded
PROPERTIES AdministratorStays ImplementsAccountLifecycle
