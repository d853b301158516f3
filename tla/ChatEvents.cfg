SPECIFICATION Spec
CONSTANTS
  Users = {u1, u2}
  Products = {p1}
  Rooms = {c1}
  Messages = {m1, m2}
  Slots = {s1, s2}
  NoDoc = NoDoc
  maxRetries = 2
  Faults = TRUE
INVARIANTS LastMessageIsNewest
PROPERTIES FollowsRoomLife EmptyRoomGoes EventSettles
CHECK_DEADLOCK FALSE
