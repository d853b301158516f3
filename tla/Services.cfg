SPECIFICATION Spec
CONSTANTS
  buyer = buyer
  vendor = vendor
  fan = fan
  \* ChannelPool
  Publishers = {q1, q2}
  Emissions = {"order.paid", "message.sent"}
  PoolSize = 1
  MaxRetries <- MCRetries
  MaxOutages = 1
  \* CategoryTree
  Categories = {c1, c2, c3}
  Goods = {g1}
  Admins = {a1, a2}
  NoCategory = NoCategory
  MaxChanges = 3
  \* DirectChat
  Talkers = {buyer, vendor}
  Items = {i1}
  Vendor <- MCVendor
  ChatSlots = {x1, x2}
  MaxDmRooms = 2
  MaxDmTexts = 2
  MaxDmAsks = 4
  \* Accounts
  Emails = {e1, e2}
  SeededAdmin = e1
  Nicknames = {n1, n2}
  People = {p1, p2}
  AccountSlots = {s1, s2}
  MaxVisits = 3
  \* SwaggerRefresh
  Sessions = {t1, t2}
  NoToken = NoToken
  NoTimer = NoTimer
  MaxFlights = 2
  \* Listings
  Kinds <- MCKinds
  Walks <- MCWalks
  FirstRows = 3
  Limit = 1
  MaxEdits = 1
  \* Favorites
  Fans = {fan, u1}
  Wares = {w1}
  Maker <- MCMaker
  WishSlots = {h1, h2}
  MaxWishes = 4
  \* OrderNumbers
  Serials = {z1, z2}
  DrawSlots = {d1, d2}
  MaxDays = 1
  MaxDraws = 3
  \* Health
  RedisTries = 2
  MaxFlips = 2
  \* SeedRun
  MaxRuns = 2
  MaxGuests = 1
  \* Conversions
  MaxPages = 7
  MaxDelta = 2
  \* Receipts
  Readers = {buyer, vendor}
  Letters = {m1, m2}
  MarkSlots = {k1, k2}
  NoLetter = NoLetter
  MaxMarks = 2
INVARIANTS
  AllTypesOK
  LendingSound DeliverySound
  TreeSound TreeShowsAll
  DirectChatSound
  AccountsSound
  OnePendingTimer
  WalksSound
  CountsAddUp
  RefusedToTwin
  VerdictsSound
  SeedSound
  ConversionsFaithful
  ReceiptsSound
PROPERTIES
  RoomsGoWhenEmpty
  RequestsSettle
  LeftoverTokensEnd
CHECK_DEADLOCK FALSE
