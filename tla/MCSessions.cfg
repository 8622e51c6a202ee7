CONSTANTS
  t1 = t1
  t2 = t2
  r1 = r1
  r2 = r2
  r3 = r3
  Tabs = {t1, t2}
  Requests = {r1, r2, r3}
  TabOf <- Owners
  Slots = {1, 2}
  MaxSessions = 3
  MaxFaults = 1
SPECIFICATION Spec
SYMMETRY Alike
INVARIANTS
  OneUsable
  RefusedForAReason
  NobodyWaitsInVain
CHECK_DEADLOCK FALSE
