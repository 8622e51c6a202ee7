CONSTANTS
  u1 = u1
  u2 = u2
  Users = {u1, u2}
  DirectRooms <- OneRoom
  Nowhere = Nowhere
  MaxCalls = 2
  MaxFaults = 1
  FaultyCalls = 1
SYMMETRY Symmetry
SPECIFICATION ScreenSpec
INVARIANTS
  ScreensAgree
  NothingLeftOpen
  Negotiated
CHECK_DEADLOCK FALSE
