SPECIFICATION Spec
CONSTANTS
  Users = {u1, u2}
  Products = {p1}
  Orders = {o1}
  Slots = {r1, r2}
  Expiring = {u2}
  Patching = {u1, u2}
  Departing = {u2}
  NoRow = NoRow
  Faults = TRUE
SYMMETRY Symmetry
VIEW HistoryView
INVARIANTS TypeOK PartiesMatchProduct StatusEarned SoldIsBacked InFlightBacked WithdrawalIsFinal
PROPERTIES FollowsLifecycle TransitionsFollowRules
CHECK_DEADLOCK FALSE
