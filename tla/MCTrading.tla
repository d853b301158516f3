------------------------------- MODULE MCTrading -------------------------------
(***************************************************************************)
(* Trading for TLC.  Both sides are given the same orders and slots, and   *)
(* the reviews two of the users, so one set of permutations serves both.   *)
(***************************************************************************)
EXTENDS Trading, TLC

\* Users are interchangeable within the bounds that tell them apart.
Alike(u, v) ==
  \A bound \in {Expiring, Patching, Departing, Reviewers} : u \in bound <=> v \in bound

Symmetry ==
  {f \in Permutations(Users) : \A u \in Users : Alike(u, f[u])}
    \cup Permutations(Orders) \cup Permutations(Slots)

\* What actions and properties of the run read: the statuses an order has had are
\* left out of the states told apart.  An id is fresh, too, if item has none for it.
TradesView ==
  <<product, order, active, token, request, item, late, patched, reopened, halfDone, raced,
    side, trustVars>>

\* Once each product has met a cause that LiveOrderHoldsProduct and
\* ConfirmedSaleStands except, no later state can violate them: raced, halfDone
\* and reopened only grow, and reopened products are among the patched.
SomeClaim == \E p \in Products : p \notin raced \cup halfDone \cup reopened
=================================================================================
