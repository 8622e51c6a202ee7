CONSTANTS
  m1 = m1
  m2 = m2
  e1 = e1
  r1 = r1
  f1 = f1
  f2 = f2
  Mutations = {m1, e1}
  Sends = {m1}
  Invalid = {}
  Rooms = {r1}
  RoomOf <- OneRoom
  Flushers = {f1, f2}
  MaxFlushes = 2
  MaxQueued = 2
SPECIFICATION Spec
PROPERTY RestartRestores
CHECK_DEADLOCK FALSE
