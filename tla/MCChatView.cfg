SPECIFICATION Spec
CONSTANTS
  R1 = R1
  R2 = R2
  K1 = K1
  Rooms = {R1, R2}
  NoRoom = NoRoom
  Keys = {K1}
  RoomOf <- RoomOfKey
  Nobody = Nobody
  PageSize = 1
  Slots = {1, 2}
  MaxPages = 2
  MaxMessages = 2
  MaxEvents = 3
  MaxInits = 1
  OthersPending = TRUE
INVARIANTS
  ShownOnce
  KeepsUp
  StaysGone
CHECK_DEADLOCK FALSE
