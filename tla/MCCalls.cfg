CONSTANTS
  u1 = u1
  u2 = u2
  u3 = u3
  group = group
  s1 = s1
  s2 = s2
  s3 = s3
  s4 = s4
  h1 = h1
  h2 = h2
  Users = {u1, u2, u3}
  Rooms = {group}
  Participants <- OneRoom
  Sockets = {s1, s2, s3, s4}
  OwnerOf <- Owners
  Handlers = {h1, h2}
  MaxCalls = 2
  MaxFaults = 1
SPECIFICATION Spec
SYMMETRY Symmetry
INVARIANTS
  CallsArePaired
  CallsAreLogged
  GoneIsGone
CHECK_DEADLOCK FALSE
