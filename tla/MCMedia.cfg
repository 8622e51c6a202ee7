CONSTANTS
  u1 = u1
  u2 = u2
  r1 = r1
  r2 = r2
  f1 = f1
  Users = {u1, u2}
  Rooms = {r1, r2}
  Members <- Participants
  Files = {f1}
  Sends = {1, 2}
  Attempts = {1, 2}
  Chunks = 2
  MaxFaults = 1
  MaxRefusals = 1
SPECIFICATION Spec
INVARIANTS
  AttachmentsCanBeRead
  CommittedIsNeeded
PROPERTY OrphansArePruned
CHECK_DEADLOCK FALSE
