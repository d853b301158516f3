SPECIFICATION Spec
CONSTANTS
  Users = {u1, u2}
  Products = {p1}
  Orders = {o1}
  Slots = {r1}
  Expiring = {}
  Patching = {u1, u2}
  Departing = {u1, u2}
  NoRow = NoRow
  Faults = FALSE
SYMMETRY Symmetry
INVARIANTS CancelledPaymentFreesProduct
CHECK_DEADLOCK FALSE
