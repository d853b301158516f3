SPECIFICATION TradingSpec
CONSTANTS
  Users = {u1, u2, u3}
  Products = {p1}
  Orders = {o1, o2}
  Slots = {r1, r2}
  Expiring = {u3}
  Patching = {u1, u2, u3}
  Departing = {u3}
  NoRow = NoRow
  Faults = TRUE
  \* TrustScore
  Reviewers = {u1, u2}
  Deals = {o1, o2}
  Reviews = {v1, v2}
  Ratings = {1, 5}
  ReviewSlots = {r1, r2}
  NoRecord = NoRecord
  ReviewFaults = TRUE
SYMMETRY Symmetry
VIEW TradesView
CONSTRAINT SomeClaim
INVARIANTS
  LiveOrderHoldsProduct ConfirmedSaleStands
  TrustTypeOK ReviewsMatchOrders ScoreExplained HeldScoreFresh
CHECK_DEADLOCK FALSE
