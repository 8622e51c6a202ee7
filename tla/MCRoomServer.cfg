\* One room, two users, two overlapping requests: every handler against every other.
CONSTANTS
  u1 = u1
  u2 = u2
  r1 = r1
  q1 = q1
  q2 = q2
  c1 = c1
  Users = {u1, u2}
  Rooms = {r1}
  InitialRooms = {r1}
  Requests = {q1, q2}
  ClientMsgIds = {c1}
  Annotations = {"READ_UPDATED"}
  NoUser = NoUser
  NoId = NoId
  MaxSequence = 4
  MaxIdentity = 2
SYMMETRY Symmetry
SPECIFICATION Spec
INVARIANTS
  TypeOK
  EventLogGapFree
  MessagesUseCurrentKey
  NoStaleIdentityMessage
  EnvelopesCurrent
  TransitionsTracked
  AdminsAreParticipants
PROPERTIES
  ImplementsRoomLog
  MembershipForcesRotation
CHECK_DEADLOCK FALSE
