------------------------ MODULE MarketplaceProperties ------------------------
(***************************************************************************)
(* What is claimed of the marketplace.  The first group holds whatever     *)
(* overlaps and whatever fails.  The second is broken by overlaps and      *)
(* failures, and says which: each property holds of the rows to which none *)
(* of the causes it names has happened, and so says that there is no       *)
(* other.  The third are statements of the documentation that the code     *)
(* does not keep.                                                          *)
(***************************************************************************)
EXTENDS Marketplace

Quiet == \A r \in Slots : request[r] = Idle

\* The closing write of a product that a request still owes.
Owed(pc, p) == \E r \in Slots : request[r].pc = pc /\ request[r].product = p

\* A sale of the product went through the confirm endpoint.
Settled(p) ==
  \E o \in Orders :
    OrderExists(o) /\ order[o].product = p /\ "confirmedAt" \in order[o].stamps

-----------------------------------------------------------------------------
\* An order names the seller of its product and a buyer who is not that
\* seller, although create() takes the seller from a product row it read two
\* statements earlier and nothing in the schema relates the three columns.
PartiesMatchProduct ==
  \A o \in Orders : OrderExists(o) =>
    /\ ProductExists(order[o].product)
    /\ order[o].seller = product[order[o].product].seller
    /\ order[o].buyer # order[o].seller

\* No order ever shows a status that no status it held before leads to: stale
\* reads can make update, cancel and confirm act late, never act unearned.
StatusEarned ==
  \A o \in Orders :
    /\ seen[o] # {} => "PENDING" \in seen[o]
    /\ \A s \in seen[o] \ {"PENDING"} : \E q \in seen[o] : s \in Successors(q)
    /\ OrderExists(o) => order[o].status \in seen[o]

\* A product stands SOLD by the service's own doing only if an order opened
\* for it was delivered and then confirmed, even if that order has since been
\* deleted or overwritten: no race and no failed statement fakes a sale.  The
\* rule is that of confirm(); docs/database-design.md has the product SOLD from
\* the payment on, which no handler does.
SoldIsBacked ==
  \A p \in Products \ patched :
    ProductExists(p) /\ product[p].status = "SOLD" =>
      \E o \in Orders : item[o] = p /\ {"DELIVERED", "CONFIRMED"} \subseteq seen[o]

\* Every write a request still owes is backed by what has happened: its rows
\* exist, a status it is about to write has been earned, a sale it is about to
\* record has been confirmed.  Together with the three invariants above it is
\* inductive, which none of them is alone.
InFlightBacked ==
  \A r \in Slots :
    LET q == request[r] IN
      /\ q.pc = "insertOrder" =>
           /\ ProductExists(q.product)
           /\ q.seller = product[q.product].seller
           /\ q.buyer # q.seller
      /\ q.pc \in ProductWrites \cup {"patchProduct", "cancelOrder", "confirmOrder"} =>
           ProductExists(q.product)
      /\ q.pc = "patchOrder" => \E s \in seen[q.order] : q.to \in Successors(s)
      /\ q.pc = "cancelOrder" => \E s \in seen[q.order] : "CANCELLED" \in Successors(s)
      /\ q.pc = "confirmOrder" => "DELIVERED" \in seen[q.order]
      /\ q.pc \in OrderMoves => item[q.order] = q.product
      /\ q.pc = "sell" =>
           \E o \in Orders : item[o] = q.product /\ {"DELIVERED", "CONFIRMED"} \subseteq seen[o]

\* The detailed handlers implement the life cycle promised to the two parties.
Lifecycle == INSTANCE OrderLifecycle WITH Orders <- Orders, seen <- seen

FollowsLifecycle == Lifecycle!Spec

-----------------------------------------------------------------------------
\* A product has at most one order under way, and while it has one it is off the
\* market as soon as create() has run to its end, unless one of three things has
\* happened to it: two requests relied on it at once, a request died before its
\* last statement, or the seller put it back on sale under the order.
LiveOrderHoldsProduct ==
  \A p \in Products \ (raced \cup halfDone \cup reopened) :
    /\ Cardinality(LiveOrdersOf(p)) <= 1
    /\ LiveOrdersOf(p) # {} => product[p].status # "ACTIVE" \/ Owed("reserve", p)

\* Once an order has been confirmed through the confirm endpoint, its product
\* stays sold (or is removed by its seller), although cancel() of any order of
\* the product would write ACTIVE over it, unless requests raced for the product,
\* one died half-way, or the seller wrote a status by hand.
ConfirmedSaleStands ==
  \A p \in Products \ (raced \cup halfDone \cup patched) :
    Settled(p) => product[p].status \in {"SOLD", "DELETED"} \/ Owed("sell", p)

\* Every step that changes an order's status takes one transition of the code's
\* rules from the status the order has at that moment, unless two requests, or a
\* request and a withdrawal, relied on the order at once.  The rules are those of
\* validateStatusTransition and cancel(), which docs/database-design.md draws
\* otherwise (refunds from PAID alone, cancellation while SHIPPING).
TransitionsFollowRules ==
  [][\A o \in Orders \ raced :
       OrderExists(o) /\ OrderExists(o)' /\ order'[o].status # order[o].status
         => order'[o].status \in Successors(order[o].status)]_vars

\* After a user has withdrawn, no order of theirs is under way and nothing of
\* theirs is on sale, whatever others go on doing, unless they have gone on
\* themselves with the token they still had, or a request about a trade of theirs
\* was under way when the withdrawal was.  That the token is honoured at all is
\* what docs/business/user-soft-delete-policy.md rules out.
WithdrawalIsFinal ==
  \A u \in Users \ (active \cup late \cup raced) :
    /\ \A o \in Orders : Live(o) => ~Party(u, o)
    /\ \A p \in Products : ProductExists(p) /\ product[p].seller = u
                             => product[p].status # "ACTIVE"

-----------------------------------------------------------------------------
\* docs/1. PRD: concurrent orders for one product are prevented.
NoOversell == \A p \in Products \ patched : Cardinality(LiveOrdersOf(p)) <= 1

\* hasOngoingOrdersByUserId: nobody withdraws in the middle of a paid order.
NoWithdrawalMidTrade ==
  [][\A u \in active \ active', o \in Orders :
       OrderExists(o) /\ Party(u, o) => order[o].status \notin ongoingStatuses]_vars

\* docs/database-design.md: when a payment is called off, before or after it was
\* made, the product goes back on sale; it never stays reserved for nobody.
CancelledPaymentFreesProduct ==
  \A o \in Orders :
    Quiet /\ OrderExists(o) /\ "PAYMENT_PENDING" \in seen[o]
      /\ order[o].status \in {"CANCELLED", "REFUNDED"}
      /\ order[o].product \notin patched
      => product[order[o].product].status # "RESERVED"
           \/ LiveOrdersOf(order[o].product) # {}

\* docs/database-design.md: a deleted product cannot be brought back.
DeletedStaysDeleted ==
  [][\A p \in Products :
       ProductExists(p) /\ product[p].status = "DELETED" /\ p \notin patched
         => product'[p].status = "DELETED"]_vars
=============================================================================
