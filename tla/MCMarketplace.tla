---------------------------- MODULE MCMarketplace ----------------------------
(***************************************************************************)
(* Instances of the marketplace for TLC.  Users, orders and slots are      *)
(* interchangeable: no definition singles one out, so their permutations   *)
(* are symmetries, as long as they keep apart the users that the bounds    *)
(* tell apart.                                                             *)
(***************************************************************************)
EXTENDS MarketplaceProperties, TLC

\* Users are interchangeable within the bounds that tell them apart.
Alike(u, v) ==
  \A bound \in {Expiring, Patching, Departing} : u \in bound <=> v \in bound

Symmetry ==
  {f \in Permutations(Users) : \A u \in Users : Alike(u, f[u])}
    \cup Permutations(Orders) \cup Permutations(Slots)

\* What the actions and the properties of a run read: history that they do not
\* read (why a product may stand as it does) is left out of the states told apart.
HistoryView ==
  <<product, order, active, token, request, seen, item, late, patched, raced \ Products>>
=============================================================================
