SPECIFICATION Spec
CONSTANTS
  Users = {u1, u2}
  Products = {p1}
  Rooms = {c1, c2, c3}
  Messages = {m1}
  Slots = {s1, s2}
  NoDoc = NoDoc
  maxRetries = 1
  Faults = TRUE
SYMMETRY Symmetry
INVARIANTS TypeOK EmptyRoomIsRemoved NoMessageLeftBehind DuplicatesBounded
CHECK_DEADLOCK FALSE
