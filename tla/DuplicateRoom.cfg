SPECIFICATION DmSpec
CONSTANTS
  vendor = vendor
  Talkers = {buyer, vendor}
  Items = {i1}
  Vendor <- MCVendor
  ChatSlots = {x1, x2}
  MaxDmRooms = 2
  MaxDmTexts = 1
  MaxDmAsks = 2
INVARIANT OneRoomPerPair
CHECK_DEADLOCK FALSE
