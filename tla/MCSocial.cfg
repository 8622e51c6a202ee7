SPECIFICATION Spec
CONSTANTS
  U1 = U1
  U2 = U2
  Users = {U1, U2}
  S1 = S1
  S2 = S2
  Slots = {S1, S2}
  MaxRequests = 2
  MaxRemovals = 1
  MaxOpenings = 2
  MaxFaults = 1
SYMMETRY SymmetryOfUsersAndSlots
INVARIANTS
  Mutual
  NotLockedOut
  OneConversation
CHECK_DEADLOCK FALSE
