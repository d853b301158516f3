SPECIFICATION Spec
CONSTANTS
  Users = {u1, u2}
  Products = {p1}
  Rooms = {c1}
  Messages = {m1, m2}
  Slots = {s1}
  NoDoc = NoDoc
  maxRetries = 3
  Faults = FALSE
INVARIANTS LastMessageIsLast
CHECK_DEADLOCK FALSE
