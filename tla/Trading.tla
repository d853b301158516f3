-------------------------------- MODULE Trading --------------------------------
(***************************************************************************)
(* Orders, and the reviews that follow them, side by side.                 *)
(*                                                                         *)
(* Of an order the reviews see its parties and whether it is completed,    *)
(* and TrustScore lets both be what any course of the orders makes of      *)
(* them; of the reviews the orders see nothing.  So a behaviour of the two *)
(* is an interleaving of one of each, and it is enough to look at one at a *)
(* time, the one that `side` names, while the other rests.                 *)
(***************************************************************************)
EXTENDS MarketplaceProperties, TrustScore

VARIABLE side   \* the component that runs

tradingVars == <<side, vars, trustVars>>
-----------------------------------------------------------------------------
TradingInit ==
  /\ side \in {"orders", "reviews"}
  /\ Init /\ TrustInit
  /\ side = "orders" => \A o \in Deals : ~DealExists(o)

TradingNext ==
  \/ side = "orders"  /\ Next      /\ UNCHANGED <<side, trustVars>>
  \/ side = "reviews" /\ TrustNext /\ UNCHANGED <<side, vars>>

TradingSpec == TradingInit /\ [][TradingNext]_tradingVars
=================================================================================
