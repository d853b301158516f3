----------------------------- MODULE Marketplace -----------------------------
(***************************************************************************)
(* Orders, products and withdrawals of the secondhand marketplace, at the  *)
(* grain at which the service can be interrupted.                          *)
(*                                                                         *)
(* A request handler is an async function: it runs without interruption    *)
(* between two awaits, and every await is one SQL statement in a           *)
(* transaction of its own.  So a request is a sequence of statements, and  *)
(* between two of them any other request may run.  What a handler has read *)
(* and checked is carried in the request; what it is about to execute is   *)
(* the request's "pc".  No UPDATE of the code repeats the condition it was *)
(* checked under (the WHERE clause is the id alone), so a write applies to *)
(* whatever the row has become.                                            *)
(*                                                                         *)
(* The read, the checks and the early returns of a handler are the action  *)
(* that starts the request: a request the code rejects changes nothing and *)
(* is no step here.                                                        *)
(***************************************************************************)
EXTENDS OrderRules, Naturals, FiniteSets

CONSTANTS
  Users,      \* user rows; none is ever hard-deleted
  Products,   \* ids a product row may take
  Orders,     \* ids an order row may take; an id is used once
  Slots,      \* bound: how many requests overlap
  Expiring,   \* bound: the users whose access token may run out
  Patching,   \* bound: the sellers who may write a product's status by hand
  Departing,  \* bound: the users who may withdraw
  NoRow,      \* "findUnique returned null"
  Faults      \* whether a statement may fail, or the process stop, mid-request

ASSUME MarketplaceAssumption ==
  /\ Expiring \subseteq Users /\ Patching \subseteq Users /\ Departing \subseteq Users
  /\ Faults \in BOOLEAN
  /\ NoRow \notin [status : ProductStatus, seller : Users]
  /\ NoRow \notin [product : Products, buyer : Users, seller : Users,
                   status : OrderStatus, stamps : SUBSET Timestamps]

VARIABLES
  product,    \* table products: id -> row
  order,      \* table orders: id -> row
  active,     \* users with isActive = true
  token,      \* users holding an access token that has not expired
  request,    \* slot -> the statement the request in it executes next
  \* History, read by properties only:
  seen,       \* order id -> every status its row has had
  item,       \* order id -> the product it was opened for
  late,       \* users who sent a request after their withdrawal
  patched,    \* products whose seller has written the status by hand
  reopened,   \* of these, the ones he put on sale under an order that was live
  halfDone,   \* products of which a request died owing them RESERVED or SOLD
  raced       \* rows (products, orders, users) that two requests relied on at once

tables  == <<product, order, active, token>>
causes  == <<patched, reopened, halfDone, raced>>
history == <<seen, item, late, causes>>
vars    == <<product, order, active, token, request, seen, item, late,
             patched, reopened, halfDone, raced>>

-----------------------------------------------------------------------------
ProductRow == [status : ProductStatus, seller : Users]
OrderRow   == [product : Products, buyer : Users, seller : Users,
               status : OrderStatus, stamps : SUBSET Timestamps]

Idle == [pc |-> "idle"]

\* The statements left to a request, with what it knows when it gets there.
Request ==
  {Idle}
  \cup [pc : {"insertOrder"}, product : Products, buyer : Users, seller : Users]
  \cup [pc : {"reserve", "restore", "sell", "removeProduct"}, product : Products]
  \cup [pc : {"patchOrder"}, order : Orders, product : Products, to : OrderStatus]
  \cup [pc : {"cancelOrder", "confirmOrder"}, order : Orders, product : Products]
  \cup [pc : {"deleteOrder"}, order : Orders]
  \cup [pc : {"patchProduct"}, product : Products, to : ProductStatus]
  \cup [pc : {"issueToken", "checkOrders", "softDelete"}, user : Users]

\* Types of every variable.
TypeOK ==
  /\ product \in [Products -> ProductRow \cup {NoRow}]
  /\ order \in [Orders -> OrderRow \cup {NoRow}]
  /\ active \subseteq Users
  /\ token \subseteq Users
  /\ request \in [Slots -> Request]
  /\ seen \in [Orders -> SUBSET OrderStatus]
  /\ item \in [Orders -> Products \cup {NoRow}]
  /\ late \subseteq Users
  /\ patched \subseteq Products
  /\ reopened \subseteq Products
  /\ halfDone \subseteq Products
  /\ raced \subseteq Products \cup Orders \cup Users

Init ==
  /\ product = [p \in Products |-> NoRow]
  /\ order = [o \in Orders |-> NoRow]
  /\ active = Users
  /\ token = Users
  /\ request = [r \in Slots |-> Idle]
  /\ seen = [o \in Orders |-> {}]
  /\ item = [o \in Orders |-> NoRow]
  /\ late = {}
  /\ patched = {} /\ reopened = {} /\ halfDone = {} /\ raced = {}

-----------------------------------------------------------------------------
ProductExists(p) == product[p] # NoRow
OrderExists(o)   == order[o] # NoRow
Party(u, o)      == u \in {order[o].buyer, order[o].seller}
Fresh(o)         == seen[o] = {}

Live(o)          == OrderExists(o) /\ order[o].status \in LiveStatuses
LiveOrdersOf(p)  == {o \in Orders : Live(o) /\ order[o].product = p}

\* The closing write of create, cancel and confirm, and of a product's removal.
ProductWrites == {"reserve", "restore", "sell", "removeProduct"}
\* The write of an order's status in update, cancel and confirm.
OrderMoves == {"patchOrder", "cancelOrder", "confirmOrder"}

\* Bound: an order is opened only while an id is left for its INSERT.
RoomForOrder ==
  Cardinality({r \in Slots : request[r].pc = "insertOrder"})
    < Cardinality({o \in Orders : Fresh(o)})

\* JwtStrategy.validate accepts any unexpired token and reads no user row, so
\* a withdrawn user is still served until the token runs out.
Authenticated(u) ==
  /\ u \in token
  /\ late' = IF u \in active THEN late ELSE late \cup {u}

At(r, pc)      == request[r].pc = pc
Goto(r, next)  == request' = [request EXCEPT ![r] = next]
Finish(r)      == Goto(r, Idle)

\* The order and the product that create, update, cancel and confirm rely on from
\* their reads to their last write.
Rows(q) ==
  IF q.pc \in {"insertOrder", "reserve", "restore", "sell"} THEN {q.product}
  ELSE IF q.pc \in OrderMoves THEN {q.order, q.product}
  ELSE {}

\* The users whose trade is about to open, to move, or to go back on sale.
Parties(q) ==
  IF q.pc = "insertOrder" THEN {q.buyer, q.seller}
  ELSE IF q.pc \in OrderMoves /\ OrderExists(q.order)
    THEN {order[q.order].buyer, order[q.order].seller}
  ELSE IF q.pc \in {"restore", "patchProduct"} THEN {product[q.product].seller}
  ELSE {}

\* A withdrawal relies on no trade of its user being about to do so.
Crossed(q, n) ==
  IF q.pc = "softDelete" /\ q.user \in Parties(n) THEN {q.user} \cup Rows(n) ELSE {}

\* The rows that two requests rely on.
Shared(q, n) == (Rows(q) \cap Rows(n)) \cup Crossed(q, n) \cup Crossed(n, q)

\* A request has read and checked, and will next execute `next`.
Admit(r, next) ==
  /\ Goto(r, next)
  /\ raced' = raced \cup UNION {Shared(request[s], next) : s \in Slots \ {r}}

\* It begins: nobody else's is in its slot, and it is authenticated.
Start(r, u, next) ==
  /\ request[r] = Idle
  /\ Authenticated(u)
  /\ Admit(r, next)
  /\ UNCHANGED <<tables, seen, item, patched, reopened, halfDone>>

SetProduct(p, s) == product' = [product EXCEPT ![p].status = s]

\* UPDATE orders SET status, stamps WHERE id: the row as it now is, no
\* condition.  Prisma raises P2025 when the row is gone, and the handler ends.
SetOrder(o, s, stamps) ==
  /\ order' = [order EXCEPT ![o].status = s, ![o].stamps = @ \cup stamps]
  /\ seen' = [seen EXCEPT ![o] = @ \cup {s}]

-----------------------------------------------------------------------------
(***************************************************************************)
(* Orders                                                                  *)
(***************************************************************************)

\* Seeded fault: create() forgets that nobody buys from himself.
CreateOrderFromSelf(r, u, p) ==
  /\ ProductExists(p)
  /\ product[p].status = "ACTIVE"
  /\ RoomForOrder
  /\ Start(r, u, [pc |-> "insertOrder", product |-> p, buyer |-> u,
                  seller |-> product[p].seller])

\* Seeded fault: create() refuses sold and deleted products only.
CreateOrderReserved(r, u, p) ==
  /\ ProductExists(p)
  /\ product[p].status \in {"ACTIVE", "RESERVED"}
  /\ product[p].seller # u
  /\ RoomForOrder
  /\ Start(r, u, [pc |-> "insertOrder", product |-> p, buyer |-> u,
                  seller |-> product[p].seller])

\* create: the product is read, must be ACTIVE and not the buyer's own.  The
\* order-number lookup that follows changes nothing; losing its race against
\* the unique index is a failing INSERT, see Fail.
CreateOrder(r, u, p) ==
  /\ ProductExists(p)
  /\ product[p].status = "ACTIVE"
  /\ product[p].seller # u
  /\ RoomForOrder
  /\ Start(r, u, [pc |-> "insertOrder", product |-> p, buyer |-> u,
                  seller |-> product[p].seller])

InsertOrder(r, o) ==
  /\ At(r, "insertOrder")
  /\ Fresh(o)
  /\ LET q == request[r] IN
       /\ order' = [order EXCEPT ![o] =
            [product |-> q.product, buyer |-> q.buyer, seller |-> q.seller,
             status |-> "PENDING", stamps |-> {}]]
       /\ item' = [item EXCEPT ![o] = q.product]
       /\ Goto(r, [pc |-> "reserve", product |-> q.product])
  /\ seen' = [seen EXCEPT ![o] = {"PENDING"}]
  /\ UNCHANGED <<product, active, token, late, causes>>

\* Seeded fault: cancel() writes the order's new status into the product.
statusWrittenMixedEnums(pc) ==
  CASE pc = "reserve" -> "RESERVED" [] pc = "restore" -> "CANCELLED"
    [] pc = "sell" -> "SOLD"        [] pc = "removeProduct" -> "DELETED"

statusWritten(pc) ==
  CASE pc = "reserve" -> "RESERVED" [] pc = "restore" -> "ACTIVE"
    [] pc = "sell" -> "SOLD"        [] pc = "removeProduct" -> "DELETED"

WriteProduct(r) ==
  /\ request[r].pc \in ProductWrites
  /\ SetProduct(request[r].product, statusWritten(request[r].pc))
  /\ Finish(r)
  /\ UNCHANGED <<order, active, token, history>>

\* PATCH /orders/:id.  Status only: the other columns of the DTO play no part.
UpdateOrder(r, u, o, to) ==
  /\ OrderExists(o)
  /\ Party(u, o)
  /\ validateStatusTransition(order[o].status, to,
                              order[o].buyer = u, order[o].seller = u)
  /\ Start(r, u, [pc |-> "patchOrder", order |-> o, product |-> order[o].product,
                  to |-> to])

\* OrdersRepository.update: no timestamp, and the product is not told.
PatchOrder(r) ==
  /\ At(r, "patchOrder")
  /\ OrderExists(request[r].order)
  /\ SetOrder(request[r].order, request[r].to, {})
  /\ Finish(r)
  /\ UNCHANGED <<product, active, token, item, late, causes>>

\* Seeded fault: cancel() checks the caller and not the status.
CancelOrderAnyStatus(r, u, o) ==
  /\ OrderExists(o)
  /\ order[o].buyer = u
  /\ Start(r, u, [pc |-> "cancelOrder", order |-> o,
                  product |-> order[o].product])

CancelOrder(r, u, o) ==
  /\ OrderExists(o)
  /\ order[o].buyer = u
  /\ order[o].status \in cancellableStatuses
  /\ Start(r, u, [pc |-> "cancelOrder", order |-> o,
                  product |-> order[o].product])

\* Seeded fault: confirm() accepts a parcel that is still on its way.
ConfirmOrderEarly(r, u, o) ==
  /\ OrderExists(o)
  /\ order[o].buyer = u
  /\ order[o].status \in {"SHIPPING", "DELIVERED"}
  /\ Start(r, u, [pc |-> "confirmOrder", order |-> o,
                  product |-> order[o].product])

ConfirmOrder(r, u, o) ==
  /\ OrderExists(o)
  /\ order[o].buyer = u
  /\ order[o].status = "DELIVERED"
  /\ Start(r, u, [pc |-> "confirmOrder", order |-> o,
                  product |-> order[o].product])

\* OrdersRepository.updateStatus on behalf of cancel or confirm; the product
\* follows in a statement of its own.
UpdateStatus(r, pc, s, then) ==
  /\ At(r, pc)
  /\ OrderExists(request[r].order)
  /\ SetOrder(request[r].order, s, timestampOf(s))
  /\ Goto(r, [pc |-> then, product |-> request[r].product])
  /\ UNCHANGED <<product, active, token, item, late, causes>>

WriteCancelled(r) == UpdateStatus(r, "cancelOrder", "CANCELLED", "restore")
WriteConfirmed(r) == UpdateStatus(r, "confirmOrder", "CONFIRMED", "sell")

\* DELETE /orders/:id, by an administrator (no row is tied to the caller).
RemoveOrder(r, o) ==
  /\ request[r] = Idle
  /\ OrderExists(o)
  /\ Admit(r, [pc |-> "deleteOrder", order |-> o])
  /\ UNCHANGED <<tables, seen, item, late, patched, reopened, halfDone>>

DeleteOrder(r) ==
  /\ At(r, "deleteOrder")
  /\ OrderExists(request[r].order)
  /\ order' = [order EXCEPT ![request[r].order] = NoRow]
  /\ Finish(r)
  /\ UNCHANGED <<product, active, token, history>>

\* Any write to an order whose row has been deleted since it was read: P2025,
\* the handler throws and whatever was to follow is not done.
OrderGone(r) ==
  /\ request[r].pc \in OrderMoves \cup {"deleteOrder"}
  /\ ~OrderExists(request[r].order)
  /\ Finish(r)
  /\ UNCHANGED <<tables, history>>

-----------------------------------------------------------------------------
(***************************************************************************)
(* Products                                                                *)
(***************************************************************************)

\* POST /products: one INSERT, so no request is left in flight.
CreateProduct(u, p) ==
  /\ ~ProductExists(p)
  /\ Authenticated(u)
  /\ product' = [product EXCEPT ![p] = [status |-> "ACTIVE", seller |-> u]]
  /\ UNCHANGED <<order, active, token, request, seen, item, causes>>

\* PATCH /products/:id with a status: the seller may name any of the four.
UpdateProduct(r, u, p, to) ==
  /\ ProductExists(p)
  /\ product[p].seller = u
  /\ product[p].status # "DELETED"
  /\ u \in Patching
  /\ Start(r, u, [pc |-> "patchProduct", product |-> p, to |-> to])

PatchProduct(r) ==
  /\ At(r, "patchProduct")
  /\ SetProduct(request[r].product, request[r].to)
  /\ patched' = patched \cup {request[r].product}
  /\ reopened' = IF request[r].to = "ACTIVE" /\ LiveOrdersOf(request[r].product) # {}
                    THEN reopened \cup {request[r].product} ELSE reopened
  /\ Finish(r)
  /\ UNCHANGED <<order, active, token, seen, item, late, halfDone, raced>>

\* DELETE /products/:id: a soft delete, whatever orders there are.
RemoveProduct(r, u, p) ==
  /\ ProductExists(p)
  /\ product[p].seller = u
  /\ product[p].status # "DELETED"
  /\ Start(r, u, [pc |-> "removeProduct", product |-> p])

-----------------------------------------------------------------------------
(***************************************************************************)
(* Users                                                                   *)
(***************************************************************************)

\* login and refreshAccessToken read isActive; the password is compared and the
\* token signed only later, and by then the account may be withdrawn.
Login(r, u) ==
  /\ request[r] = Idle
  /\ u \in active \ token
  /\ Goto(r, [pc |-> "issueToken", user |-> u])
  /\ UNCHANGED <<tables, history>>

IssueToken(r) ==
  /\ At(r, "issueToken")
  /\ token' = token \cup {request[r].user}
  /\ Finish(r)
  /\ UNCHANGED <<product, order, active, history>>

TokenExpires(u) ==
  /\ u \in token \cap Expiring
  /\ token' = token \ {u}
  /\ UNCHANGED <<product, order, active, request, history>>

\* DELETE /users/me: isActive is read,
Withdraw(r, u) ==
  /\ u \in active \cap Departing
  /\ Start(r, u, [pc |-> "checkOrders", user |-> u])

HasOngoingOrders(u) ==
  \E o \in Orders : OrderExists(o) /\ Party(u, o) /\ order[o].status \in ongoingStatuses

\* then the orders, in a query of its own; an ongoing one ends the request;
CheckOrders(r) ==
  /\ At(r, "checkOrders")
  /\ Admit(r, IF HasOngoingOrders(request[r].user) THEN Idle
              ELSE [pc |-> "softDelete", user |-> request[r].user])
  /\ UNCHANGED <<tables, seen, item, late, patched, reopened, halfDone>>

\* then UsersRepository.softDelete, one transaction: the user's unpaid orders
\* are cancelled (no timestamp, products left alone), the ACTIVE products
\* deleted, the account deactivated.
SoftDelete(r) ==
  /\ At(r, "softDelete")
  /\ LET u == request[r].user
         unpaid == {o \in Orders : /\ OrderExists(o) /\ Party(u, o)
                                   /\ order[o].status \in unpaidStatuses}
         onSale == {p \in Products : /\ ProductExists(p)
                                     /\ product[p].seller = u
                                     /\ product[p].status = "ACTIVE"}
     IN  /\ order' = [o \in Orders |-> IF o \in unpaid
                        THEN [order[o] EXCEPT !.status = "CANCELLED"] ELSE order[o]]
         /\ seen' = [o \in Orders |-> IF o \in unpaid
                        THEN seen[o] \cup {"CANCELLED"} ELSE seen[o]]
         /\ product' = [p \in Products |-> IF p \in onSale
                        THEN [product[p] EXCEPT !.status = "DELETED"] ELSE product[p]]
         /\ active' = active \ {u}
  /\ Finish(r)
  /\ UNCHANGED <<token, item, late, causes>>

-----------------------------------------------------------------------------
\* A statement fails, or the process stops: the request ends where it stands
\* and what it has written stays written.
Fail(r) ==
  /\ Faults
  /\ request[r] # Idle
  /\ halfDone' = IF request[r].pc \in {"reserve", "sell"}
                    THEN halfDone \cup {request[r].product} ELSE halfDone
  /\ Finish(r)
  /\ UNCHANGED <<tables, seen, item, late, patched, reopened, raced>>

OrderRequest(r) ==
  \/ \E u \in Users, p \in Products : CreateOrder(r, u, p)
  \/ \E u \in Users, o \in Orders, s \in OrderStatus : UpdateOrder(r, u, o, s)
  \/ \E u \in Users, o \in Orders : CancelOrder(r, u, o) \/ ConfirmOrder(r, u, o)
  \/ \E o \in Orders : RemoveOrder(r, o) \/ InsertOrder(r, o)
  \/ PatchOrder(r) \/ WriteCancelled(r) \/ WriteConfirmed(r)
  \/ DeleteOrder(r) \/ OrderGone(r) \/ WriteProduct(r)

ProductRequest(r) ==
  \/ \E u \in Users, p \in Products, s \in ProductStatus : UpdateProduct(r, u, p, s)
  \/ \E u \in Users, p \in Products : RemoveProduct(r, u, p)
  \/ PatchProduct(r)

UserRequest(r) ==
  \/ \E u \in Users : Login(r, u) \/ Withdraw(r, u)
  \/ IssueToken(r) \/ CheckOrders(r) \/ SoftDelete(r)

Next ==
  \/ \E r \in Slots : OrderRequest(r) \/ ProductRequest(r) \/ UserRequest(r) \/ Fail(r)
  \/ \E u \in Users, p \in Products : CreateProduct(u, p)
  \/ \E u \in Users : TokenExpires(u)

Spec == Init /\ [][Next]_vars
=============================================================================
