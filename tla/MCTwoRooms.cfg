\* Two rooms, the second created on the way: resets and removals that touch both, a retried message sent to each.
CONSTANTS
  u1 = u1
  u2 = u2
  r1 = r1
  r2 = r2
  q1 = q1
  q2 = q2
  c1 = c1
  Users = {u1, u2}
  Rooms = {r1, r2}
  InitialRooms = {r1}
  Requests = {q1, q2}
  ClientMsgIds = {c1}
  Annotations = {}
  NoUser = NoUser
  NoId = NoId
  MaxSequence = 2
  MaxIdentity = 2
SYMMETRY Symmetry
SPECIFICATION Spec
INVARIANTS
  UserStreamGapFree
  ExactlyOnceMessage
CHECK_DEADLOCK FALSE
