SPECIFICATION CatSpec
CONSTANTS
  Categories = {c1, c2, c3}
  Goods = {}
  Admins = {a1, a2}
  NoCategory = NoCategory
  MaxChanges = 3
INVARIANT TreeStaysAcyclic
CHECK_DEADLOCK FALSE
