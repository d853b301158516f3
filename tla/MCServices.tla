------------------------------- MODULE MCServices -------------------------------
(***************************************************************************)
(* Values of the constants of Services that are functions or records.      *)
(***************************************************************************)
EXTENDS Services

CONSTANTS buyer, vendor, fan

MCRetries == [e \in Emissions |-> IF e = "order.paid" THEN 1 ELSE 0]
MCVendor  == [i \in Items |-> vendor]
MCMaker   == [p \in Wares |-> fan]

MCKinds ==
  {[active |-> TRUE,  mine |-> TRUE,  topic |-> TRUE, shelf |-> FALSE, place |-> "near"],
   [active |-> TRUE,  mine |-> FALSE, topic |-> TRUE, shelf |-> TRUE,  place |-> "far"],
   [active |-> FALSE, mine |-> TRUE,  topic |-> TRUE, shelf |-> TRUE,  place |-> "none"]}

Plain(name)  == [name |-> name, filters |-> {}, oldestFirst |-> FALSE]
Search(asks) == [name |-> "search", filters |-> asks, oldestFirst |-> FALSE]

MCWalks ==
  {Plain("products"), Plain("orders"), Plain("notifications"), Plain("chatRooms"),
   [name |-> "favorites", filters |-> {}, oldestFirst |-> TRUE],
   Search({"location", "keyword"}), Search({"keyword", "category"}), Search({"seller", "category"})}
=================================================================================
