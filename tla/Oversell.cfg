SPECIFICATION Spec
CONSTANTS
  Users = {u1, u2, u3}
  Products = {p1}
  Orders = {o1, o2}
  Slots = {r1, r2}
  Expiring = {}
  Patching = {u1, u2, u3}
  Departing = {u1, u2, u3}
  NoRow = NoRow
  Faults = FALSE
SYMMETRY Symmetry
INVARIANTS NoOversell
CHECK_DEADLOCK FALSE
