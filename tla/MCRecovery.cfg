CONSTANTS
  r1 = r1
  r2 = r2
  Rooms = {r1, r2}
  User = User
  Limit = 2
  Unknown <- UnknownType
  Newer <- NewerVersion
  MaxSequence <- StreamLengths
  MaxGeneration = 3
SPECIFICATION FairSpec
INVARIANTS
  AppliedOnceInOrder
  NothingPassedOver
  RoomsFollowUserStream
PROPERTIES
  ReadyMeansCaughtUp
  SingleFlight
  RunsEnd
CHECK_DEADLOCK FALSE
