-------------------------- MODULE MarketplaceProofs --------------------------
(***************************************************************************)
(* Proofs of the first two groups of MarketplaceProperties, for any number *)
(* of users, products, orders and overlapping requests, with or without    *)
(* faults.  The inductive invariant IInv carries the first group; RaceInv, *)
(* which carries the second, adds to it what a request still knows when no *)
(* other has relied on the same rows, and that `raced' misses no pair of   *)
(* requests that have.                                                     *)
(***************************************************************************)
EXTENDS MarketplaceProperties, FiniteSetTheorems, TLAPS

USE MarketplaceAssumption

\* The history variable item agrees with the row it was copied from.
ItemMatchesOrder ==
  \A o \in Orders : OrderExists(o) => item[o] = order[o].product

IInv ==
  /\ TypeOK
  /\ PartiesMatchProduct
  /\ ItemMatchesOrder
  /\ StatusEarned
  /\ SoldIsBacked
  /\ InFlightBacked

-----------------------------------------------------------------------------
(***************************************************************************)
(* What every step preserves, and what follows for the parts of the        *)
(* invariant the step does not write.                                      *)
(***************************************************************************)

\* Rows of products never go away nor change hands, and history only grows.
Grows ==
  /\ \A p \in Products : ProductExists(p) =>
       ProductExists(p)' /\ product'[p].seller = product[p].seller
  /\ \A o \in Orders : seen[o] \subseteq seen'[o]
  /\ \A o \in Orders : seen[o] # {} => item'[o] = item[o]

\* What InFlightBacked says of one request.
Backed(r) ==
  LET q == request[r] IN
    /\ q.pc = "insertOrder" =>
         /\ ProductExists(q.product)
         /\ q.seller = product[q.product].seller
         /\ q.buyer # q.seller
    /\ q.pc \in ProductWrites \cup {"patchProduct", "cancelOrder", "confirmOrder"} =>
         ProductExists(q.product)
    /\ q.pc = "patchOrder" => \E s \in seen[q.order] : q.to \in Successors(s)
    /\ q.pc = "cancelOrder" => \E s \in seen[q.order] : "CANCELLED" \in Successors(s)
    /\ q.pc = "confirmOrder" => "DELIVERED" \in seen[q.order]
    /\ q.pc \in OrderMoves => item[q.order] = q.product
    /\ q.pc = "sell" =>
         \E o \in Orders : item[o] = q.product /\ {"DELIVERED", "CONFIRMED"} \subseteq seen[o]

\* A well-typed request that stays in its slot stays backed while history grows.
LEMMA BackedStable ==
  ASSUME TypeOK, Grows, NEW r \in Slots, Backed(r), request'[r] = request[r]
  PROVE  Backed(r)'
<1>1. request[r] \in Request
  BY DEF TypeOK
<1>2. CASE request[r].pc = "insertOrder"
  <2>1. request[r].product \in Products
    BY <1>1, <1>2 DEF Request, Idle
  <2>. QED
    BY <1>2, <2>1 DEF Backed, Grows, ProductWrites, OrderMoves
<1>3. CASE request[r].pc \in {"reserve", "restore", "removeProduct", "patchProduct"}
  <2>1. request[r].product \in Products
    BY <1>1, <1>3 DEF Request, Idle, ProductWrites
  <2>. QED
    BY <1>3, <2>1 DEF Backed, Grows, ProductWrites, OrderMoves
<1>4. CASE request[r].pc = "sell"
  <2>1. request[r].product \in Products
    BY <1>1, <1>4 DEF Request, Idle
  <2>. QED
    BY <1>4, <2>1 DEF Backed, Grows, ProductWrites, OrderMoves
<1>5. CASE request[r].pc = "patchOrder"
  <2>1. request[r].order \in Orders
    BY <1>1, <1>5 DEF Request, Idle
  <2>. QED
    BY <1>5, <2>1 DEF Backed, Grows, ProductWrites, OrderMoves
<1>6. CASE request[r].pc \in {"cancelOrder", "confirmOrder"}
  <2>1. request[r].order \in Orders /\ request[r].product \in Products
    BY <1>1, <1>6 DEF Request, Idle
  <2>. QED
    BY <1>6, <2>1 DEF Backed, Grows, ProductWrites, OrderMoves
<1>7. CASE request[r].pc \in {"idle", "deleteOrder", "issueToken",
                           "checkOrders", "softDelete"}
  BY <1>7 DEF Backed, ProductWrites, OrderMoves
<1>8. request[r].pc \in
        {"insertOrder", "reserve", "restore", "sell", "removeProduct", "patchProduct",
         "patchOrder", "cancelOrder", "confirmOrder", "idle", "deleteOrder",
         "issueToken", "checkOrders", "softDelete"}
  BY <1>1 DEF Request, Idle
<1>. QED
  BY <1>2, <1>3, <1>4, <1>5, <1>6, <1>7, <1>8

\* A status is added to an order's history only behind one that leads to it.
Earns(o) ==
  \/ seen'[o] = seen[o]
  \/ seen[o] = {} /\ seen'[o] = {"PENDING"}
  \/ \E q \in seen[o], s \in OrderStatus : s \in Successors(q) /\ seen'[o] = seen[o] \cup {s}

LEMMA EarnedStable ==
  ASSUME TypeOK, StatusEarned, \A o \in Orders : Earns(o),
         \A o \in Orders : OrderExists(o)' => order'[o].status \in seen'[o]
  PROVE  StatusEarned'
<1> SUFFICES ASSUME NEW o \in Orders
             PROVE  /\ seen'[o] # {} => "PENDING" \in seen'[o]
                    /\ \A s \in seen'[o] \ {"PENDING"} :
                         \E q \in seen'[o] : s \in Successors(q)
  BY DEF StatusEarned
<1>1. /\ seen[o] # {} => "PENDING" \in seen[o]
      /\ \A s \in seen[o] \ {"PENDING"} : \E q \in seen[o] : s \in Successors(q)
  BY DEF StatusEarned
<1>. QED
  BY <1>1 DEF Earns

\* With history growing, only the slot that moves can lose its backing.
LEMMA InFlightStable ==
  ASSUME TypeOK, InFlightBacked, Grows, NEW r \in Slots, Backed(r)',
         \A x \in Slots \ {r} : request'[x] = request[x]
  PROVE  InFlightBacked'
<1>1. \A x \in Slots : Backed(x)
  BY DEF InFlightBacked, Backed
<1>2. \A x \in Slots : Backed(x)'
  BY <1>1, BackedStable
<1>. QED
  BY <1>2 DEF InFlightBacked, Backed

\* A sale stays backed unless the step itself makes a product SOLD.
LEMMA SoldStable ==
  ASSUME TypeOK, SoldIsBacked, Grows, patched \subseteq patched',
         \A p \in Products : ProductExists(p)' /\ product'[p].status = "SOLD" =>
           \/ ProductExists(p) /\ product[p].status = "SOLD"
           \/ p \in patched'
           \/ \E o \in Orders : item[o] = p /\ {"DELIVERED", "CONFIRMED"} \subseteq seen[o]
  PROVE  SoldIsBacked'
<1> SUFFICES ASSUME NEW p \in Products \ patched', ProductExists(p)',
                    product'[p].status = "SOLD"
             PROVE  \E o \in Orders :
                      item'[o] = p /\ {"DELIVERED", "CONFIRMED"} \subseteq seen'[o]
  BY DEF SoldIsBacked
<1>1. PICK o \in Orders : item[o] = p /\ {"DELIVERED", "CONFIRMED"} \subseteq seen[o]
  BY DEF SoldIsBacked
<1>2. item'[o] = p /\ {"DELIVERED", "CONFIRMED"} \subseteq seen'[o]
  BY <1>1 DEF Grows
<1>. QED
  BY <1>2

\* A step that leaves the tables alone and moves one request to a backed
\* statement: every admission, every refusal, every failure.
LEMMA RequestMoves ==
  ASSUME IInv, NEW r \in Slots, NEW next \in Request,
         request' = [request EXCEPT ![r] = next], Backed(r)',
         UNCHANGED <<product, order, active, seen, item, patched>>,
         token' \subseteq Users, late' \subseteq Users,
         reopened' \subseteq Products, halfDone' \subseteq Products,
         raced' \subseteq Products \cup Orders \cup Users
  PROVE  IInv'
<1> USE DEF IInv
<1>1. TypeOK'
  BY DEF TypeOK
<1>2. PartiesMatchProduct' /\ ItemMatchesOrder'
  BY DEF PartiesMatchProduct, ItemMatchesOrder, OrderExists, ProductExists
<1>3. StatusEarned' /\ SoldIsBacked'
  BY DEF StatusEarned, SoldIsBacked, OrderExists, ProductExists
<1>4. Grows
  BY DEF Grows, ProductExists
<1>5. InFlightBacked'
  <2>1. \A x \in Slots \ {r} : request'[x] = request[x]
    BY DEF TypeOK
  <2>. QED
    BY <1>4, <2>1, InFlightStable
<1>. QED
  BY <1>1, <1>2, <1>3, <1>5

LEMMA IdleIsRequest == Idle \in Request
  BY DEF Request

\* Ending a request never needs backing.
LEMMA FinishBacked ==
  ASSUME TypeOK, NEW r \in Slots, Finish(r)
  PROVE  /\ request'[r] = Idle
         /\ Backed(r)'
         /\ \A x \in Slots \ {r} : request'[x] = request[x]
         /\ request' \in [Slots -> Request]
<1>1. request' = [request EXCEPT ![r] = Idle]
  BY DEF Finish, Goto
<1>2. request'[r] = Idle /\ request' \in [Slots -> Request]
  BY <1>1, IdleIsRequest DEF TypeOK
<1>3. request'[r].pc = "idle"
  BY <1>2 DEF Idle
<1>4. Backed(r)'
  BY <1>3 DEF Backed, ProductWrites, OrderMoves
<1>. QED
  BY <1>1, <1>2, <1>4 DEF TypeOK

\* Requests that only end.
LEMMA RequestEnds ==
  ASSUME IInv, NEW r \in Slots, Finish(r), UNCHANGED <<tables, history>>
  PROVE  IInv'
<1>1. request' = [request EXCEPT ![r] = Idle] /\ Backed(r)'
  BY FinishBacked DEF IInv, Finish, Goto
<1>. QED
  BY <1>1, RequestMoves, IdleIsRequest DEF tables, history, causes, IInv, TypeOK

-----------------------------------------------------------------------------
(***************************************************************************)
(* Admissions: the read and the checks of a handler.                       *)
(***************************************************************************)

\* What two requests share are rows.
LEMMA SharedTyped ==
  ASSUME NEW q \in Request, NEW n \in Request
  PROVE  Shared(q, n) \subseteq Products \cup Orders \cup Users
<1>1. ASSUME NEW x \in Request
      PROVE  /\ Rows(x) \subseteq Products \cup Orders
             /\ x.pc = "softDelete" => x.user \in Users
  BY DEF Rows, OrderMoves, Request, Idle
<1>. QED
  BY <1>1 DEF Shared, Crossed

LEMMA AdmitTyped ==
  ASSUME TypeOK, NEW r \in Slots, NEW next \in Request, Admit(r, next)
  PROVE  /\ request' = [request EXCEPT ![r] = next]
         /\ request'[r] = next
         /\ raced' \subseteq Products \cup Orders \cup Users
<1>1. /\ request' = [request EXCEPT ![r] = next]
      /\ raced' = raced \cup UNION {Shared(request[s], next) : s \in Slots \ {r}}
  BY DEF Admit, Goto
<1>2. \A s \in Slots : Shared(request[s], next) \subseteq Products \cup Orders \cup Users
  BY SharedTyped DEF TypeOK
<1>. QED
  BY <1>1, <1>2 DEF TypeOK

\* Admission in general: what is left to show is that the first statement
\* owed is a request and is backed.
LEMMA Admitted ==
  ASSUME IInv, NEW r \in Slots, NEW u \in Users, NEW next \in Request,
         Start(r, u, next), request'[r] = next => Backed(r)'
  PROVE  IInv'
<1>1. UNCHANGED <<product, order, active, token, seen, item, patched, reopened, halfDone>>
  BY DEF Start, tables
<1>2. token' \subseteq Users /\ late' \subseteq Users
  BY <1>1 DEF Start, Authenticated, IInv, TypeOK
<1>3. /\ request' = [request EXCEPT ![r] = next]
      /\ request'[r] = next
      /\ raced' \subseteq Products \cup Orders \cup Users
  BY AdmitTyped DEF Start, IInv
<1>4. reopened' \subseteq Products /\ halfDone' \subseteq Products
  BY <1>1 DEF IInv, TypeOK
<1>. QED
  BY <1>1, <1>2, <1>3, <1>4, RequestMoves

LEMMA CreateOrderStep ==
  ASSUME IInv, NEW r \in Slots, NEW u \in Users, NEW p \in Products, CreateOrder(r, u, p)
  PROVE  IInv'
<1> DEFINE next == [pc |-> "insertOrder", product |-> p, buyer |-> u,
                    seller |-> product[p].seller]
<1>1. product[p] \in ProductRow /\ product[p].seller # u
  BY DEF CreateOrder, ProductExists, IInv, TypeOK
<1>2. next \in Request
  BY <1>1 DEF Request, ProductRow
<1>3. Start(r, u, next) /\ ProductExists(p) /\ product' = product
  BY DEF CreateOrder, Start, tables
<1>4. request'[r] = next => Backed(r)'
  BY <1>1, <1>3 DEF Backed, ProductExists, ProductWrites, OrderMoves
<1>. HIDE DEF next
<1>. QED
  BY <1>2, <1>3, <1>4, Admitted

\* What update, cancel and confirm learn from the order row they read.
LEMMA OrderRead ==
  ASSUME IInv, NEW o \in Orders, OrderExists(o)
  PROVE  /\ order[o] \in OrderRow
         /\ order[o].status \in seen[o]
         /\ order[o].product \in Products
         /\ ProductExists(order[o].product)
         /\ item[o] = order[o].product
<1>1. order[o] \in OrderRow
  BY DEF IInv, TypeOK, OrderExists
<1>2. order[o].product \in Products
  BY <1>1 DEF OrderRow
<1>. QED
  BY <1>1, <1>2 DEF IInv, StatusEarned, PartiesMatchProduct, ItemMatchesOrder

LEMMA UpdateOrderStep ==
  ASSUME IInv, NEW r \in Slots, NEW u \in Users, NEW o \in Orders,
         NEW to \in OrderStatus, UpdateOrder(r, u, o, to)
  PROVE  IInv'
<1> DEFINE next == [pc |-> "patchOrder", order |-> o, product |-> order[o].product,
                    to |-> to]
<1>2. Start(r, u, next) /\ OrderExists(o) /\ seen' = seen /\ item' = item
  BY DEF UpdateOrder, Start
<1>3. order[o].status \in seen[o] /\ order[o].product \in Products
        /\ item[o] = order[o].product
  BY <1>2, OrderRead
<1>1. next \in Request
  BY <1>3 DEF Request
<1>4. to \in Successors(order[o].status)
  BY DEF UpdateOrder, validateStatusTransition, Successors
<1>5. request'[r] = next => Backed(r)'
  BY <1>2, <1>3, <1>4 DEF Backed, ProductWrites, OrderMoves
<1>. HIDE DEF next
<1>. QED
  BY <1>1, <1>2, <1>5, Admitted

LEMMA CancelOrderStep ==
  ASSUME IInv, NEW r \in Slots, NEW u \in Users, NEW o \in Orders, CancelOrder(r, u, o)
  PROVE  IInv'
<1> DEFINE next == [pc |-> "cancelOrder", order |-> o, product |-> order[o].product]
<1>1. /\ OrderExists(o) /\ Start(r, u, next)
      /\ seen' = seen /\ product' = product /\ item' = item
  BY DEF CancelOrder, Start, tables
<1>2. next \in Request
  BY <1>1, OrderRead DEF Request
<1>3. "CANCELLED" \in Successors(order[o].status)
  BY DEF CancelOrder, Successors
<1>4. request'[r] = next => Backed(r)'
  BY <1>1, <1>3, OrderRead DEF Backed, ProductWrites, OrderMoves, ProductExists
<1>. HIDE DEF next
<1>. QED
  BY <1>1, <1>2, <1>4, Admitted

LEMMA ConfirmOrderStep ==
  ASSUME IInv, NEW r \in Slots, NEW u \in Users, NEW o \in Orders, ConfirmOrder(r, u, o)
  PROVE  IInv'
<1> DEFINE next == [pc |-> "confirmOrder", order |-> o, product |-> order[o].product]
<1>1. /\ OrderExists(o) /\ Start(r, u, next)
      /\ seen' = seen /\ product' = product /\ item' = item
      /\ order[o].status = "DELIVERED"
  BY DEF ConfirmOrder, Start, tables
<1>2. next \in Request
  BY <1>1, OrderRead DEF Request
<1>3. request'[r] = next => Backed(r)'
  BY <1>1, OrderRead DEF Backed, ProductWrites, OrderMoves, ProductExists
<1>. HIDE DEF next
<1>. QED
  BY <1>1, <1>2, <1>3, Admitted

LEMMA UpdateProductStep ==
  ASSUME IInv, NEW r \in Slots, NEW u \in Users, NEW p \in Products,
         NEW to \in ProductStatus, UpdateProduct(r, u, p, to)
  PROVE  IInv'
<1> DEFINE next == [pc |-> "patchProduct", product |-> p, to |-> to]
<1>1. Start(r, u, next) /\ ProductExists(p) /\ product' = product /\ next \in Request
  BY DEF UpdateProduct, Start, tables, Request
<1>2. request'[r] = next => Backed(r)'
  BY <1>1 DEF Backed, ProductWrites, OrderMoves, ProductExists
<1>. HIDE DEF next
<1>. QED
  BY <1>1, <1>2, Admitted

LEMMA RemoveProductStep ==
  ASSUME IInv, NEW r \in Slots, NEW u \in Users, NEW p \in Products, RemoveProduct(r, u, p)
  PROVE  IInv'
<1> DEFINE next == [pc |-> "removeProduct", product |-> p]
<1>1. Start(r, u, next) /\ ProductExists(p) /\ product' = product /\ next \in Request
  BY DEF RemoveProduct, Start, tables, Request
<1>2. request'[r] = next => Backed(r)'
  BY <1>1 DEF Backed, ProductWrites, OrderMoves, ProductExists
<1>. HIDE DEF next
<1>. QED
  BY <1>1, <1>2, Admitted

LEMMA WithdrawStep ==
  ASSUME IInv, NEW r \in Slots, NEW u \in Users, Withdraw(r, u)
  PROVE  IInv'
<1> DEFINE next == [pc |-> "checkOrders", user |-> u]
<1>1. Start(r, u, next) /\ next \in Request
  BY DEF Withdraw, Request
<1>2. request'[r] = next => Backed(r)'
  BY DEF Backed, ProductWrites, OrderMoves
<1>. HIDE DEF next
<1>. QED
  BY <1>1, <1>2, Admitted

LEMMA CheckOrdersStep ==
  ASSUME IInv, NEW r \in Slots, CheckOrders(r)
  PROVE  IInv'
<1>1. PICK next \in {Idle, [pc |-> "softDelete", user |-> request[r].user]} : Admit(r, next)
  BY DEF CheckOrders
<1>2. request[r].user \in Users
  BY DEF CheckOrders, At, IInv, TypeOK, Request, Idle
<1>3. next \in Request /\ next.pc \in {"idle", "softDelete"}
  BY <1>2 DEF Request, Idle
<1>4. /\ request' = [request EXCEPT ![r] = next] /\ request'[r] = next
      /\ raced' \subseteq Products \cup Orders \cup Users
  BY <1>1, <1>3, AdmitTyped DEF IInv
<1>5. Backed(r)'
  BY <1>3, <1>4 DEF Backed, ProductWrites, OrderMoves
<1>. QED
  BY <1>3, <1>4, <1>5, RequestMoves DEF CheckOrders, tables, IInv, TypeOK

LEMMA LoginStep ==
  ASSUME IInv, NEW r \in Slots, NEW u \in Users, Login(r, u)
  PROVE  IInv'
<1> DEFINE next == [pc |-> "issueToken", user |-> u]
<1>1. next \in Request
  BY DEF Request
<1>2. request' = [request EXCEPT ![r] = next] /\ request'[r] = next
  BY DEF Login, Goto, IInv, TypeOK
<1>3. Backed(r)'
  BY <1>2 DEF Backed, ProductWrites, OrderMoves
<1>. HIDE DEF next
<1>. QED
  BY <1>1, <1>2, <1>3, RequestMoves DEF Login, tables, history, causes, IInv, TypeOK

LEMMA IssueTokenStep ==
  ASSUME IInv, NEW r \in Slots, IssueToken(r)
  PROVE  IInv'
<1>1. request[r].user \in Users
  BY DEF IssueToken, At, IInv, TypeOK, Request, Idle
<1>2. token' \subseteq Users
  BY <1>1 DEF IssueToken, IInv, TypeOK
<1>3. request' = [request EXCEPT ![r] = Idle] /\ Backed(r)'
  BY FinishBacked DEF IssueToken, IInv, Finish, Goto
<1>. QED
  BY <1>2, <1>3, RequestMoves, IdleIsRequest DEF IssueToken, history, causes, IInv, TypeOK

LEMMA RemoveOrderStep ==
  ASSUME IInv, NEW r \in Slots, NEW o \in Orders, RemoveOrder(r, o)
  PROVE  IInv'
<1> DEFINE next == [pc |-> "deleteOrder", order |-> o]
<1>1. next \in Request /\ Admit(r, next)
  BY DEF RemoveOrder, Request
<1>2. /\ request' = [request EXCEPT ![r] = next] /\ request'[r] = next
      /\ raced' \subseteq Products \cup Orders \cup Users
  BY <1>1, AdmitTyped DEF IInv
<1>3. Backed(r)'
  BY <1>2 DEF Backed, ProductWrites, OrderMoves
<1>. HIDE DEF next
<1>. QED
  BY <1>1, <1>2, <1>3, RequestMoves DEF tables, RemoveOrder, IInv, TypeOK

\* A request that dies: only what it leaves half done is written.
LEMMA FailStep ==
  ASSUME IInv, NEW r \in Slots, Fail(r)
  PROVE  IInv'
<1>1. request[r].pc \in {"reserve", "sell"} => request[r].product \in Products
  BY DEF IInv, TypeOK, Request, Idle
<1>2. request' = [request EXCEPT ![r] = Idle] /\ Backed(r)'
  BY FinishBacked DEF Fail, IInv, Finish, Goto
<1>3. halfDone' \subseteq Products
  BY <1>1 DEF Fail, IInv, TypeOK
<1>. QED
  BY <1>2, <1>3, RequestMoves, IdleIsRequest DEF Fail, tables, IInv, TypeOK

-----------------------------------------------------------------------------
(***************************************************************************)
(* Writes.                                                                 *)
(***************************************************************************)

LEMMA InsertOrderStep ==
  ASSUME IInv, NEW r \in Slots, NEW o \in Orders, InsertOrder(r, o)
  PROVE  IInv'
<1> DEFINE q == request[r]
           row == [product |-> q.product, buyer |-> q.buyer, seller |-> q.seller,
                   status |-> "PENDING", stamps |-> {}]
           next == [pc |-> "reserve", product |-> q.product]
<1>1. TypeOK
  BY DEF IInv
<1>2. q.product \in Products /\ q.buyer \in Users /\ q.seller \in Users
  BY <1>1 DEF TypeOK, InsertOrder, At, Request, Idle
<1>3. /\ ProductExists(q.product)
      /\ q.seller = product[q.product].seller
      /\ q.buyer # q.seller
  BY DEF IInv, InFlightBacked, InsertOrder, At
<1>4. row \in OrderRow /\ row # NoRow
  BY <1>2 DEF OrderRow, OrderStatus
<1>5. /\ order' = [order EXCEPT ![o] = row]
      /\ item' = [item EXCEPT ![o] = q.product]
      /\ request' = [request EXCEPT ![r] = next]
      /\ seen' = [seen EXCEPT ![o] = {"PENDING"}]
      /\ seen[o] = {}
      /\ UNCHANGED <<product, active, token, late, patched, reopened, halfDone, raced>>
  BY DEF InsertOrder, Goto, Fresh, causes
<1>6. next \in Request
  BY <1>2 DEF Request
<1>7. TypeOK'
  BY <1>1, <1>2, <1>4, <1>5, <1>6 DEF TypeOK, OrderStatus
<1>8. Grows
  BY <1>1, <1>5 DEF Grows, TypeOK, ProductExists
<1>9. PartiesMatchProduct' /\ ItemMatchesOrder'
  <2> SUFFICES ASSUME NEW x \in Orders, OrderExists(x)'
               PROVE  /\ ProductExists(order[x].product)'
                      /\ order'[x].seller = product'[order'[x].product].seller
                      /\ order'[x].buyer # order'[x].seller
                      /\ item'[x] = order'[x].product
    BY DEF PartiesMatchProduct, ItemMatchesOrder
  <2>1. CASE x = o
    <3>1. order'[x] = row /\ item'[x] = q.product
      BY <1>1, <1>5, <2>1 DEF TypeOK
    <3>2. /\ order'[x].product = q.product
          /\ order'[x].seller = q.seller
          /\ order'[x].buyer = q.buyer
      BY <3>1
    <3>. QED
      BY <3>1, <3>2, <1>3, <1>5 DEF ProductExists
  <2>2. CASE x # o
    <3>1. order'[x] = order[x] /\ item'[x] = item[x] /\ OrderExists(x)
      BY <1>1, <1>5, <2>2 DEF TypeOK, OrderExists
    <3>. QED
      BY <3>1, <1>5 DEF IInv, PartiesMatchProduct, ItemMatchesOrder, ProductExists
  <2>. QED
    BY <2>1, <2>2
<1>10. StatusEarned'
  <2>1. \A x \in Orders : Earns(x)
    BY <1>1, <1>5 DEF Earns, TypeOK
  <2>2. \A x \in Orders : OrderExists(x)' => order'[x].status \in seen'[x]
    BY <1>1, <1>5 DEF IInv, StatusEarned, OrderExists, TypeOK
  <2>. QED
    BY <1>1, <2>1, <2>2, EarnedStable DEF IInv
<1>11. SoldIsBacked'
  BY <1>1, <1>5, <1>8, SoldStable DEF IInv, ProductExists
<1>12. InFlightBacked'
  <2>1. request'[r] = next /\ \A x \in Slots \ {r} : request'[x] = request[x]
    BY <1>1, <1>5 DEF TypeOK
  <2>2. Backed(r)'
    BY <1>3, <1>5, <2>1 DEF Backed, ProductWrites, OrderMoves, ProductExists
  <2>. HIDE DEF next
  <2>. QED
    BY <1>1, <1>8, <2>1, <2>2, InFlightStable DEF IInv
<1>. QED
  BY <1>7, <1>9, <1>10, <1>11, <1>12 DEF IInv

\* Writing the status of a product: everything but a SOLD is harmless.
LEMMA ProductStatusWritten ==
  ASSUME IInv, NEW r \in Slots, NEW p \in Products, ProductExists(p),
         NEW s \in ProductStatus, SetProduct(p, s), Finish(r),
         UNCHANGED <<order, active, token, seen, item, late, halfDone, raced>>,
         patched \subseteq patched', patched' \subseteq Products, reopened' \subseteq Products,
         \/ s # "SOLD"
         \/ p \in patched'
         \/ \E o \in Orders : item[o] = p /\ {"DELIVERED", "CONFIRMED"} \subseteq seen[o]
  PROVE  IInv'
<1>1. TypeOK
  BY DEF IInv
<1>2. product[p] \in ProductRow
  BY <1>1 DEF TypeOK, ProductExists
<1>3. /\ product' \in [Products -> ProductRow \cup {NoRow}]
      /\ product'[p] = [status |-> s, seller |-> product[p].seller]
      /\ \A x \in Products \ {p} : product'[x] = product[x]
  BY <1>1, <1>2 DEF SetProduct, TypeOK, ProductRow
<1>4. product'[p].seller = product[p].seller /\ product'[p] # NoRow
  BY <1>2, <1>3 DEF ProductRow
<1>5. /\ Backed(r)'
      /\ \A x \in Slots \ {r} : request'[x] = request[x]
      /\ request' \in [Slots -> Request]
  BY <1>1, FinishBacked
<1>6. TypeOK'
  BY <1>1, <1>3, <1>5 DEF TypeOK
<1>7. Grows
  BY <1>3, <1>4 DEF Grows, ProductExists
<1>8. PartiesMatchProduct' /\ ItemMatchesOrder'
  <2> SUFFICES ASSUME NEW x \in Orders, OrderExists(x)
               PROVE  /\ ProductExists(order[x].product)'
                      /\ order[x].seller = product'[order[x].product].seller
                      /\ order[x].buyer # order[x].seller
                      /\ item[x] = order[x].product
    BY DEF PartiesMatchProduct, ItemMatchesOrder, OrderExists, ProductExists
  <2>. QED
    BY <1>7, OrderRead DEF Grows, IInv, PartiesMatchProduct
<1>9. StatusEarned'
  BY DEF IInv, StatusEarned, OrderExists
<1>10. SoldIsBacked'
  <2>1. \A x \in Products : ProductExists(x)' /\ product'[x].status = "SOLD" =>
           \/ ProductExists(x) /\ product[x].status = "SOLD"
           \/ x \in patched'
           \/ \E o \in Orders : item[o] = x /\ {"DELIVERED", "CONFIRMED"} \subseteq seen[o]
    BY <1>3 DEF ProductExists
  <2>. QED
    BY <1>1, <1>7, <2>1, SoldStable DEF IInv
<1>11. InFlightBacked'
  BY <1>1, <1>5, <1>7, InFlightStable DEF IInv
<1>. QED
  BY <1>6, <1>8, <1>9, <1>10, <1>11 DEF IInv

LEMMA WriteProductStep ==
  ASSUME IInv, NEW r \in Slots, WriteProduct(r)
  PROVE  IInv'
<1> DEFINE p == request[r].product
           s == statusWritten(request[r].pc)
<1>1. request[r].pc \in ProductWrites /\ p \in Products
  BY DEF WriteProduct, ProductWrites, IInv, TypeOK, Request, Idle
<1>2. ProductExists(p)
  BY <1>1 DEF IInv, InFlightBacked
<1>3. s \in ProductStatus
  BY <1>1 DEF statusWritten, ProductWrites, ProductStatus
<1>4. \/ s # "SOLD"
      \/ \E o \in Orders : item[o] = p /\ {"DELIVERED", "CONFIRMED"} \subseteq seen[o]
  <2>1. CASE request[r].pc = "sell"
    BY <2>1 DEF IInv, InFlightBacked
  <2>2. CASE request[r].pc # "sell"
    BY <1>1, <2>2 DEF statusWritten, ProductWrites
  <2>. QED
    BY <2>1, <2>2
<1>5. /\ SetProduct(p, s) /\ Finish(r) /\ patched' = patched /\ reopened' = reopened
      /\ UNCHANGED <<order, active, token, seen, item, late, halfDone, raced>>
  BY DEF WriteProduct, history, causes
<1>6. patched \subseteq Products /\ reopened \subseteq Products
  BY DEF IInv, TypeOK
<1>. HIDE DEF p, s
<1>. QED
  BY <1>1, <1>2, <1>3, <1>4, <1>5, <1>6, ProductStatusWritten

LEMMA PatchProductStep ==
  ASSUME IInv, NEW r \in Slots, PatchProduct(r)
  PROVE  IInv'
<1> DEFINE p == request[r].product
           s == request[r].to
<1>1. p \in Products /\ s \in ProductStatus
  BY DEF PatchProduct, At, IInv, TypeOK, Request, Idle
<1>2. ProductExists(p)
  BY DEF PatchProduct, At, IInv, InFlightBacked
<1>3. /\ SetProduct(p, s) /\ Finish(r) /\ patched' = patched \cup {p}
      /\ UNCHANGED <<order, active, token, seen, item, late, halfDone, raced>>
      /\ reopened' \subseteq reopened \cup {p}
  BY DEF PatchProduct
<1>4. /\ patched' \subseteq Products /\ patched \subseteq patched' /\ p \in patched'
      /\ reopened' \subseteq Products
  BY <1>1, <1>3 DEF IInv, TypeOK
<1>. HIDE DEF p, s
<1>. QED
  BY <1>1, <1>2, <1>3, <1>4, ProductStatusWritten

\* Writing the status of an order that has earned it, and stamping it.
LEMMA OrderStatusWritten ==
  ASSUME IInv, NEW r \in Slots, NEW o \in Orders, OrderExists(o),
         NEW s \in OrderStatus, NEW stamps \in SUBSET Timestamps, SetOrder(o, s, stamps),
         \E q \in seen[o] : s \in Successors(q),
         NEW next \in Request, Goto(r, next), request'[r] = next => Backed(r)',
         UNCHANGED <<product, active, token, item, late, causes>>
  PROVE  IInv'
<1>1. TypeOK /\ UNCHANGED <<patched, reopened, halfDone, raced>>
  BY DEF IInv, causes
<1>2. order[o] \in OrderRow /\ order[o].stamps \cup stamps \in SUBSET Timestamps
  BY <1>1 DEF TypeOK, OrderExists, OrderRow
<1>3. /\ order' \in [Orders -> OrderRow \cup {NoRow}]
      /\ order'[o] \in OrderRow
      /\ order'[o].product = order[o].product
      /\ order'[o].buyer = order[o].buyer
      /\ order'[o].seller = order[o].seller
      /\ order'[o].status = s
      /\ \A x \in Orders \ {o} : order'[x] = order[x]
  BY <1>1, <1>2 DEF SetOrder, TypeOK, OrderRow
<1>4. /\ seen' \in [Orders -> SUBSET OrderStatus]
      /\ seen'[o] = seen[o] \cup {s}
      /\ \A x \in Orders \ {o} : seen'[x] = seen[x]
  BY <1>1 DEF SetOrder, TypeOK
<1>5. /\ request'[r] = next
      /\ request' \in [Slots -> Request]
      /\ \A x \in Slots \ {r} : request'[x] = request[x]
  BY <1>1 DEF Goto, TypeOK
<1>6. TypeOK'
  BY <1>1, <1>3, <1>4, <1>5 DEF TypeOK
<1>7. Grows
  BY <1>4 DEF Grows, ProductExists
<1>8. PartiesMatchProduct' /\ ItemMatchesOrder'
  <2> SUFFICES ASSUME NEW x \in Orders, OrderExists(x)'
               PROVE  /\ ProductExists(order[x].product)'
                      /\ order'[x].seller = product'[order'[x].product].seller
                      /\ order'[x].buyer # order'[x].seller
                      /\ item'[x] = order'[x].product
    BY DEF PartiesMatchProduct, ItemMatchesOrder
  <2>1. /\ OrderExists(x)
        /\ order'[x].product = order[x].product
        /\ order'[x].buyer = order[x].buyer
        /\ order'[x].seller = order[x].seller
    BY <1>3 DEF OrderExists
  <2>. QED
    BY <2>1 DEF IInv, PartiesMatchProduct, ItemMatchesOrder, ProductExists
<1>9. StatusEarned'
  <2>1. \A x \in Orders : Earns(x)
    BY <1>4 DEF Earns
  <2>2. \A x \in Orders : OrderExists(x)' => order'[x].status \in seen'[x]
    BY <1>3, <1>4 DEF IInv, StatusEarned, OrderExists
  <2>. QED
    BY <1>1, <2>1, <2>2, EarnedStable DEF IInv
<1>10. SoldIsBacked'
  BY <1>1, <1>7, SoldStable DEF IInv, ProductExists
<1>11. InFlightBacked'
  BY <1>1, <1>5, <1>7, InFlightStable DEF IInv
<1>. QED
  BY <1>6, <1>8, <1>9, <1>10, <1>11 DEF IInv

LEMMA PatchOrderStep ==
  ASSUME IInv, NEW r \in Slots, PatchOrder(r)
  PROVE  IInv'
<1> DEFINE o == request[r].order
           s == request[r].to
<1>1. o \in Orders /\ s \in OrderStatus
  BY DEF PatchOrder, At, IInv, TypeOK, Request, Idle
<1>2. \E q \in seen[o] : s \in Successors(q)
  BY DEF PatchOrder, At, IInv, InFlightBacked
<1>3. /\ OrderExists(o) /\ SetOrder(o, s, {}) /\ Goto(r, Idle)
      /\ UNCHANGED <<product, active, token, item, late, causes>>
  BY DEF PatchOrder, Finish
<1>4. request'[r] = Idle => Backed(r)'
  BY DEF Backed, ProductWrites, OrderMoves, Idle
<1>. HIDE DEF o, s
<1>. QED
  BY <1>1, <1>2, <1>3, <1>4, IdleIsRequest, OrderStatusWritten

LEMMA WriteCancelledStep ==
  ASSUME IInv, NEW r \in Slots, WriteCancelled(r)
  PROVE  IInv'
<1> DEFINE o == request[r].order
           next == [pc |-> "restore", product |-> request[r].product]
<1>1. o \in Orders /\ request[r].product \in Products
  BY DEF WriteCancelled, UpdateStatus, At, IInv, TypeOK, Request, Idle
<1>2. /\ \E q \in seen[o] : "CANCELLED" \in Successors(q)
      /\ ProductExists(request[r].product)
  BY DEF WriteCancelled, UpdateStatus, At, IInv, InFlightBacked
<1>3. /\ OrderExists(o) /\ SetOrder(o, "CANCELLED", {"cancelledAt"}) /\ Goto(r, next)
      /\ UNCHANGED <<product, active, token, item, late, causes>>
  BY DEF WriteCancelled, UpdateStatus, timestampOf
<1>4. request'[r] = next => Backed(r)'
  BY <1>2, <1>3 DEF Backed, ProductWrites, OrderMoves, ProductExists
<1>5. next \in Request
  BY <1>1 DEF Request
<1>6. "CANCELLED" \in OrderStatus /\ {"cancelledAt"} \in SUBSET Timestamps
  BY DEF OrderStatus, Timestamps
<1>. HIDE DEF o, next
<1>. QED
  BY <1>1, <1>2, <1>3, <1>4, <1>5, <1>6, OrderStatusWritten

LEMMA WriteConfirmedStep ==
  ASSUME IInv, NEW r \in Slots, WriteConfirmed(r)
  PROVE  IInv'
<1> DEFINE o == request[r].order
           next == [pc |-> "sell", product |-> request[r].product]
<1>1. o \in Orders /\ request[r].product \in Products
  BY DEF WriteConfirmed, UpdateStatus, At, IInv, TypeOK, Request, Idle
<1>2. /\ "DELIVERED" \in seen[o] /\ item[o] = request[r].product
      /\ ProductExists(request[r].product)
  BY DEF WriteConfirmed, UpdateStatus, At, IInv, InFlightBacked, OrderMoves
<1>3. /\ OrderExists(o) /\ SetOrder(o, "CONFIRMED", {"confirmedAt"}) /\ Goto(r, next)
      /\ UNCHANGED <<product, active, token, item, late, causes>>
  BY DEF WriteConfirmed, UpdateStatus, timestampOf
<1>4. \E q \in seen[o] : "CONFIRMED" \in Successors(q)
  BY <1>2 DEF Successors, allowedTransitions, OrderStatus
<1>5. seen'[o] = seen[o] \cup {"CONFIRMED"}
  BY <1>1, <1>3 DEF SetOrder, IInv, TypeOK
<1>6. request'[r] = next => Backed(r)'
  BY <1>1, <1>2, <1>3, <1>5 DEF Backed, ProductWrites, OrderMoves, ProductExists
<1>7. next \in Request
  BY <1>1 DEF Request
<1>8. "CONFIRMED" \in OrderStatus /\ {"confirmedAt"} \in SUBSET Timestamps
  BY DEF OrderStatus, Timestamps
<1>. HIDE DEF o, next
<1>. QED
  BY <1>1, <1>2, <1>3, <1>4, <1>6, <1>7, <1>8, OrderStatusWritten

LEMMA DeleteOrderStep ==
  ASSUME IInv, NEW r \in Slots, DeleteOrder(r)
  PROVE  IInv'
<1>1. TypeOK
  BY DEF IInv
<1>2. /\ order' = [order EXCEPT ![request[r].order] = NoRow]
      /\ Finish(r)
      /\ UNCHANGED <<product, active, token, seen, item, late, patched, reopened, halfDone,
                     raced>>
  BY DEF DeleteOrder, history, causes
<1>3. \A x \in Orders : OrderExists(x)' => OrderExists(x) /\ order'[x] = order[x]
  BY <1>1, <1>2 DEF TypeOK, OrderExists
<1>4. /\ Backed(r)'
      /\ \A x \in Slots \ {r} : request'[x] = request[x]
      /\ request' \in [Slots -> Request]
  BY <1>1, <1>2, FinishBacked
<1>5. TypeOK'
  BY <1>1, <1>2, <1>4 DEF TypeOK
<1>6. Grows
  BY <1>2 DEF Grows, ProductExists
<1>7. PartiesMatchProduct' /\ ItemMatchesOrder'
  BY <1>2, <1>3 DEF IInv, PartiesMatchProduct, ItemMatchesOrder, ProductExists
<1>8. StatusEarned'
  BY <1>2, <1>3 DEF IInv, StatusEarned
<1>9. SoldIsBacked'
  BY <1>2 DEF IInv, SoldIsBacked, ProductExists
<1>10. InFlightBacked'
  BY <1>1, <1>4, <1>6, InFlightStable DEF IInv
<1>. QED
  BY <1>5, <1>7, <1>8, <1>9, <1>10 DEF IInv

LEMMA SoftDeleteStep ==
  ASSUME IInv, NEW r \in Slots, SoftDelete(r)
  PROVE  IInv'
<1> DEFINE u == request[r].user
           unpaid == {o \in Orders : /\ OrderExists(o) /\ Party(u, o)
                                     /\ order[o].status \in unpaidStatuses}
           onSale == {p \in Products : /\ ProductExists(p)
                                       /\ product[p].seller = u
                                       /\ product[p].status = "ACTIVE"}
<1>1. TypeOK
  BY DEF IInv
<1>2. /\ order' = [o \in Orders |-> IF o \in unpaid
                      THEN [order[o] EXCEPT !.status = "CANCELLED"] ELSE order[o]]
      /\ seen' = [o \in Orders |-> IF o \in unpaid
                      THEN seen[o] \cup {"CANCELLED"} ELSE seen[o]]
      /\ product' = [p \in Products |-> IF p \in onSale
                      THEN [product[p] EXCEPT !.status = "DELETED"] ELSE product[p]]
      /\ active' = active \ {u}
      /\ Finish(r)
      /\ UNCHANGED <<token, item, late, patched, reopened, halfDone, raced>>
  BY DEF SoftDelete, causes
<1>3. \A o \in unpaid : order[o] \in OrderRow /\ order[o].status \in unpaidStatuses
  BY <1>1 DEF TypeOK, OrderExists
<1>4. \A p \in onSale : product[p] \in ProductRow
  BY <1>1 DEF TypeOK, ProductExists
<1>. HIDE DEF unpaid, onSale, u
<1>5. \A o \in Orders :
        /\ order'[o] \in OrderRow \cup {NoRow}
        /\ o \in unpaid => /\ order'[o] \in OrderRow
                           /\ order'[o].product = order[o].product
                           /\ order'[o].buyer = order[o].buyer
                           /\ order'[o].seller = order[o].seller
                           /\ order'[o].status = "CANCELLED"
                           /\ seen'[o] = seen[o] \cup {"CANCELLED"}
        /\ o \notin unpaid => order'[o] = order[o] /\ seen'[o] = seen[o]
  <2> SUFFICES ASSUME NEW o \in Orders
               PROVE  /\ order'[o] \in OrderRow \cup {NoRow}
                      /\ o \in unpaid => /\ order'[o] \in OrderRow
                           /\ order'[o].product = order[o].product
                           /\ order'[o].buyer = order[o].buyer
                           /\ order'[o].seller = order[o].seller
                           /\ order'[o].status = "CANCELLED"
                           /\ seen'[o] = seen[o] \cup {"CANCELLED"}
                      /\ o \notin unpaid => order'[o] = order[o] /\ seen'[o] = seen[o]
    OBVIOUS
  <2>1. CASE o \in unpaid
    BY <1>2, <1>3, <2>1 DEF OrderRow, OrderStatus
  <2>2. CASE o \notin unpaid
    BY <1>1, <1>2, <2>2 DEF TypeOK
  <2>. QED
    BY <2>1, <2>2
<1>6. \A p \in Products :
        /\ product'[p] \in ProductRow \cup {NoRow}
        /\ p \in onSale => /\ product'[p] \in ProductRow
                           /\ product'[p].seller = product[p].seller
                           /\ product'[p].status = "DELETED"
        /\ p \notin onSale => product'[p] = product[p]
  <2> SUFFICES ASSUME NEW p \in Products
               PROVE  /\ product'[p] \in ProductRow \cup {NoRow}
                      /\ p \in onSale => /\ product'[p] \in ProductRow
                                         /\ product'[p].seller = product[p].seller
                                         /\ product'[p].status = "DELETED"
                      /\ p \notin onSale => product'[p] = product[p]
    OBVIOUS
  <2>1. CASE p \in onSale
    BY <1>2, <1>4, <2>1 DEF ProductRow, ProductStatus
  <2>2. CASE p \notin onSale
    BY <1>1, <1>2, <2>2 DEF TypeOK
  <2>. QED
    BY <2>1, <2>2
<1>7. \A o \in Orders : OrderExists(o)' =>
        /\ OrderExists(o)
        /\ order'[o].product = order[o].product
        /\ order'[o].buyer = order[o].buyer
        /\ order'[o].seller = order[o].seller
  BY <1>3, <1>5 DEF OrderExists, OrderRow
<1>8. /\ Backed(r)'
      /\ \A x \in Slots \ {r} : request'[x] = request[x]
      /\ request' \in [Slots -> Request]
  BY <1>1, <1>2, FinishBacked
<1>9. TypeOK'
  <2>1. /\ order' \in [Orders -> OrderRow \cup {NoRow}]
        /\ product' \in [Products -> ProductRow \cup {NoRow}]
    BY <1>2, <1>5, <1>6
  <2>2. seen' \in [Orders -> SUBSET OrderStatus]
    BY <1>1, <1>2 DEF TypeOK, OrderStatus
  <2>. QED
    BY <1>1, <1>2, <1>8, <2>1, <2>2 DEF TypeOK
<1>10. Grows
  <2>1. \A p \in Products : ProductExists(p) =>
          ProductExists(p)' /\ product'[p].seller = product[p].seller
    BY <1>6 DEF ProductExists, ProductRow
  <2>. QED
    BY <1>2, <1>5, <2>1 DEF Grows
<1>11. PartiesMatchProduct' /\ ItemMatchesOrder'
  <2> SUFFICES ASSUME NEW x \in Orders, OrderExists(x)'
               PROVE  /\ ProductExists(order[x].product)'
                      /\ order'[x].seller = product'[order'[x].product].seller
                      /\ order'[x].buyer # order'[x].seller
                      /\ item'[x] = order'[x].product
    BY DEF PartiesMatchProduct, ItemMatchesOrder
  <2>1. /\ OrderExists(x)
        /\ order'[x].product = order[x].product
        /\ order'[x].buyer = order[x].buyer
        /\ order'[x].seller = order[x].seller
        /\ item'[x] = item[x]
    BY <1>2, <1>7
  <2>2. /\ ProductExists(order[x].product)'
        /\ product'[order[x].product].seller = product[order[x].product].seller
    <3>1. order[x].product \in Products /\ ProductExists(order[x].product)
      BY <2>1, OrderRead
    <3>. QED
      BY <1>10, <2>1, <3>1 DEF Grows, ProductExists
  <2>3. /\ order[x].seller = product[order[x].product].seller
        /\ order[x].buyer # order[x].seller
        /\ item[x] = order[x].product
    BY <2>1 DEF IInv, PartiesMatchProduct, ItemMatchesOrder
  <2>. QED
    BY <2>1, <2>2, <2>3
<1>12. StatusEarned'
  <2>1. ASSUME NEW o \in Orders
        PROVE  Earns(o)
    <3>1. CASE o \in unpaid
      <4>1. order[o].status \in seen[o]
        BY <1>3, <3>1 DEF IInv, StatusEarned, OrderExists, OrderRow
      <4>2. "CANCELLED" \in Successors(order[o].status) /\ "CANCELLED" \in OrderStatus
        BY <1>3, <3>1 DEF unpaidStatuses, cancellableStatuses, Successors, OrderStatus
      <4>. QED
        BY <1>5, <3>1, <4>1, <4>2 DEF Earns
    <3>2. CASE o \notin unpaid
      BY <1>5, <3>2 DEF Earns
    <3>. QED
      BY <3>1, <3>2
  <2>2. \A o \in Orders : OrderExists(o)' => order'[o].status \in seen'[o]
    BY <1>5, <1>7 DEF IInv, StatusEarned
  <2>. QED
    BY <1>1, <2>1, <2>2, EarnedStable DEF IInv
<1>13. SoldIsBacked'
  <2>1. \A p \in Products : ProductExists(p)' /\ product'[p].status = "SOLD" =>
           ProductExists(p) /\ product[p].status = "SOLD"
    BY <1>6 DEF ProductExists
  <2>. QED
    BY <1>1, <1>2, <1>10, <2>1, SoldStable DEF IInv
<1>14. InFlightBacked'
  BY <1>1, <1>8, <1>10, InFlightStable DEF IInv
<1>. QED
  BY <1>9, <1>11, <1>12, <1>13, <1>14 DEF IInv

\* Steps that leave every request where it is.
LEMMA TableStep ==
  ASSUME IInv, \/ \E u \in Users, p \in Products : CreateProduct(u, p)
               \/ \E u \in Users : TokenExpires(u)
  PROVE  IInv'
<1>1. TypeOK
  BY DEF IInv
<1>2. UNCHANGED <<order, active, request, seen, item, patched, reopened, halfDone, raced>>
  BY DEF CreateProduct, TokenExpires, history, causes
<1>3. /\ product' \in [Products -> ProductRow \cup {NoRow}]
      /\ \A p \in Products :
           \/ product'[p] = product[p]
           \/ ~ProductExists(p) /\ ProductExists(p)' /\ product'[p].status = "ACTIVE"
  <2>1. ASSUME NEW u \in Users, NEW p \in Products, CreateProduct(u, p)
        PROVE  /\ product' \in [Products -> ProductRow \cup {NoRow}]
               /\ \A x \in Products :
                    \/ product'[x] = product[x]
                    \/ ~ProductExists(x) /\ ProductExists(x)' /\ product'[x].status = "ACTIVE"
    <3> DEFINE row == [status |-> "ACTIVE", seller |-> u]
    <3>1. row \in ProductRow /\ row # NoRow /\ row.status = "ACTIVE"
      BY DEF ProductRow, ProductStatus
    <3>2. product' = [product EXCEPT ![p] = row] /\ ~ProductExists(p)
      BY <2>1 DEF CreateProduct
    <3>. HIDE DEF row
    <3>. QED
      BY <1>1, <3>1, <3>2 DEF TypeOK, ProductExists
  <2>2. CASE UNCHANGED product
    BY <1>1, <2>2 DEF TypeOK
  <2>. QED
    BY <2>1, <2>2 DEF TokenExpires
<1>4. token' \subseteq Users /\ late' \subseteq Users
  BY <1>1 DEF TypeOK, CreateProduct, Authenticated, TokenExpires, history
<1>5. TypeOK'
  BY <1>1, <1>2, <1>3, <1>4 DEF TypeOK
<1>6. Grows
  BY <1>2, <1>3 DEF Grows, ProductExists
<1>7. PartiesMatchProduct' /\ ItemMatchesOrder'
  <2> SUFFICES ASSUME NEW x \in Orders, OrderExists(x)
               PROVE  /\ ProductExists(order[x].product)'
                      /\ order[x].seller = product'[order[x].product].seller
                      /\ order[x].buyer # order[x].seller
                      /\ item[x] = order[x].product
    BY <1>2 DEF PartiesMatchProduct, ItemMatchesOrder, OrderExists, ProductExists
  <2>. QED
    BY <1>2, <1>6, OrderRead DEF Grows, IInv, PartiesMatchProduct, ProductExists
<1>8. StatusEarned'
  BY <1>2 DEF IInv, StatusEarned, OrderExists
<1>9. SoldIsBacked'
  <2>1. \A p \in Products : ProductExists(p)' /\ product'[p].status = "SOLD" =>
           ProductExists(p) /\ product[p].status = "SOLD"
    BY <1>3 DEF ProductExists
  <2>. QED
    BY <1>1, <1>2, <1>6, <2>1, SoldStable DEF IInv
<1>10. InFlightBacked'
  <2>1. \A x \in Slots : Backed(x)
    BY DEF IInv, InFlightBacked, Backed
  <2>2. \A x \in Slots : Backed(x)'
    BY <1>1, <1>2, <1>6, <2>1, BackedStable
  <2>. QED
    BY <2>2 DEF InFlightBacked, Backed
<1>. QED
  BY <1>5, <1>7, <1>8, <1>9, <1>10 DEF IInv

-----------------------------------------------------------------------------
(***************************************************************************)
(* The invariant, and what it gives.                                       *)
(***************************************************************************)

LEMMA InitIInv == Init => IInv
<1> SUFFICES ASSUME Init PROVE IInv
  OBVIOUS
<1>1. TypeOK
  BY IdleIsRequest DEF Init, TypeOK
<1>2. PartiesMatchProduct /\ ItemMatchesOrder /\ StatusEarned /\ SoldIsBacked
  BY DEF Init, PartiesMatchProduct, ItemMatchesOrder, StatusEarned, SoldIsBacked,
         OrderExists, ProductExists
<1>3. \A r \in Slots : request[r].pc = "idle"
  BY DEF Init, Idle
<1>4. InFlightBacked
  BY <1>3 DEF InFlightBacked, ProductWrites, OrderMoves
<1>. QED
  BY <1>1, <1>2, <1>4 DEF IInv

LEMMA NextIInv == IInv /\ [Next]_vars => IInv'
<1> SUFFICES ASSUME IInv, [Next]_vars PROVE IInv'
  OBVIOUS
<1>1. CASE UNCHANGED vars
  BY <1>1 DEF vars, IInv, TypeOK, PartiesMatchProduct, ItemMatchesOrder, StatusEarned,
              SoldIsBacked, InFlightBacked, OrderExists, ProductExists
<1>2. ASSUME NEW r \in Slots, OrderRequest(r)
      PROVE  IInv'
  <2>1. ASSUME NEW u \in Users, NEW p \in Products, CreateOrder(r, u, p) PROVE IInv'
    BY <2>1, CreateOrderStep
  <2>2. ASSUME NEW u \in Users, NEW o \in Orders, NEW s \in OrderStatus,
               UpdateOrder(r, u, o, s)
        PROVE IInv'
    BY <2>2, UpdateOrderStep
  <2>3. ASSUME NEW u \in Users, NEW o \in Orders, CancelOrder(r, u, o) PROVE IInv'
    BY <2>3, CancelOrderStep
  <2>4. ASSUME NEW u \in Users, NEW o \in Orders, ConfirmOrder(r, u, o) PROVE IInv'
    BY <2>4, ConfirmOrderStep
  <2>5. ASSUME NEW o \in Orders, RemoveOrder(r, o) PROVE IInv'
    BY <2>5, RemoveOrderStep
  <2>6. ASSUME NEW o \in Orders, InsertOrder(r, o) PROVE IInv'
    BY <2>6, InsertOrderStep
  <2>7. CASE OrderGone(r)
    BY <2>7, RequestEnds DEF OrderGone
  <2>. QED
    BY <1>2, <2>1, <2>2, <2>3, <2>4, <2>5, <2>6, <2>7, PatchOrderStep, WriteCancelledStep,
       WriteConfirmedStep, DeleteOrderStep, WriteProductStep DEF OrderRequest
<1>3. ASSUME NEW r \in Slots, ProductRequest(r)
      PROVE  IInv'
  BY <1>3, UpdateProductStep, RemoveProductStep, PatchProductStep DEF ProductRequest
<1>4. ASSUME NEW r \in Slots, UserRequest(r)
      PROVE  IInv'
  BY <1>4, LoginStep, IssueTokenStep, WithdrawStep, CheckOrdersStep, SoftDeleteStep DEF UserRequest
<1>5. ASSUME NEW r \in Slots, Fail(r)
      PROVE  IInv'
  BY <1>5, FailStep
<1>. QED
  BY <1>1, <1>2, <1>3, <1>4, <1>5, TableStep DEF Next

LEMMA Invariant == Spec => []IInv
  BY InitIInv, NextIInv, PTL DEF Spec

\* Every variable keeps its type: a write never reaches a row that is not there.
THEOREM TypeCorrect == Spec => []TypeOK
<1>1. IInv => TypeOK
  BY DEF IInv
<1>. QED
  BY <1>1, Invariant, PTL

\* Orders keep the parties their product gives them.
THEOREM PartiesCorrect == Spec => []PartiesMatchProduct
<1>1. IInv => PartiesMatchProduct
  BY DEF IInv
<1>. QED
  BY <1>1, Invariant, PTL

\* No order shows a status that nothing it held before leads to.
THEOREM StatusesEarned == Spec => []StatusEarned
<1>1. IInv => StatusEarned
  BY DEF IInv
<1>. QED
  BY <1>1, Invariant, PTL

\* No race and no failed statement fakes a sale.
THEOREM SalesBacked == Spec => []SoldIsBacked
<1>1. IInv => SoldIsBacked
  BY DEF IInv
<1>. QED
  BY <1>1, Invariant, PTL

\* What a request in flight is about to write is backed by what has happened.
THEOREM RequestsBacked == Spec => []InFlightBacked
<1>1. IInv => InFlightBacked
  BY DEF IInv
<1>. QED
  BY <1>1, Invariant, PTL

-----------------------------------------------------------------------------
(***************************************************************************)
(* The handlers implement OrderLifecycle.                                  *)
(***************************************************************************)

\* Writing an earned status is an Advance of that order alone.
LEMMA WriteEarns ==
  ASSUME IInv, NEW o \in Orders, NEW s \in OrderStatus, NEW stamps, SetOrder(o, s, stamps),
         \E q \in seen[o] : s \in Successors(q)
  PROVE  \A x \in Orders : Earns(x)
<1>1. /\ seen'[o] = seen[o] \cup {s}
      /\ \A x \in Orders \ {o} : seen'[x] = seen[x]
  BY DEF SetOrder, IInv, TypeOK
<1>. QED
  BY <1>1 DEF Earns

LEMMA StepEarns ==
  ASSUME IInv, [Next]_vars
  PROVE  \A x \in Orders : Earns(x)
<1>1. CASE seen' = seen
  BY <1>1 DEF Earns
<1>2. ASSUME NEW r \in Slots, NEW o \in Orders, InsertOrder(r, o)
      PROVE  \A x \in Orders : Earns(x)
  <2>1. seen' = [seen EXCEPT ![o] = {"PENDING"}] /\ seen[o] = {}
    BY <1>2 DEF InsertOrder, Fresh
  <2>2. seen \in [Orders -> SUBSET OrderStatus]
    BY DEF IInv, TypeOK
  <2>. QED
    BY <2>1, <2>2 DEF Earns
<1>3. ASSUME NEW r \in Slots, PatchOrder(r)
      PROVE  \A x \in Orders : Earns(x)
  <2>1. request[r].order \in Orders /\ request[r].to \in OrderStatus
    BY <1>3 DEF PatchOrder, At, IInv, TypeOK, Request, Idle
  <2>2. \E q \in seen[request[r].order] : request[r].to \in Successors(q)
    BY <1>3 DEF PatchOrder, At, IInv, InFlightBacked
  <2>. QED
    BY <1>3, <2>1, <2>2, WriteEarns DEF PatchOrder
<1>4. ASSUME NEW r \in Slots, WriteCancelled(r)
      PROVE  \A x \in Orders : Earns(x)
  <2>1. request[r].order \in Orders /\ "CANCELLED" \in OrderStatus
    BY <1>4 DEF WriteCancelled, UpdateStatus, At, IInv, TypeOK, Request, Idle, OrderStatus
  <2>2. \E q \in seen[request[r].order] : "CANCELLED" \in Successors(q)
    BY <1>4 DEF WriteCancelled, UpdateStatus, At, IInv, InFlightBacked
  <2>3. SetOrder(request[r].order, "CANCELLED", timestampOf("CANCELLED"))
    BY <1>4 DEF WriteCancelled, UpdateStatus
  <2>. QED
    BY <2>1, <2>2, <2>3, WriteEarns
<1>5. ASSUME NEW r \in Slots, WriteConfirmed(r)
      PROVE  \A x \in Orders : Earns(x)
  <2>1. request[r].order \in Orders /\ "CONFIRMED" \in OrderStatus
    BY <1>5 DEF WriteConfirmed, UpdateStatus, At, IInv, TypeOK, Request, Idle, OrderStatus
  <2>2. "DELIVERED" \in seen[request[r].order]
    BY <1>5 DEF WriteConfirmed, UpdateStatus, At, IInv, InFlightBacked
  <2>3. "CONFIRMED" \in Successors("DELIVERED")
    BY DEF Successors, allowedTransitions, OrderStatus
  <2>4. SetOrder(request[r].order, "CONFIRMED", timestampOf("CONFIRMED"))
    BY <1>5 DEF WriteConfirmed, UpdateStatus
  <2>. QED
    BY <2>1, <2>2, <2>3, <2>4, WriteEarns
<1>6. ASSUME NEW r \in Slots, SoftDelete(r)
      PROVE  \A x \in Orders : Earns(x)
  <2> DEFINE unpaid == {o \in Orders : /\ OrderExists(o) /\ Party(request[r].user, o)
                                       /\ order[o].status \in unpaidStatuses}
  <2> SUFFICES ASSUME NEW x \in Orders PROVE Earns(x)
    OBVIOUS
  <2>1. seen'[x] = IF x \in unpaid THEN seen[x] \cup {"CANCELLED"} ELSE seen[x]
    BY <1>6 DEF SoftDelete
  <2>2. CASE x \in unpaid
    <3>1. order[x].status \in seen[x] /\ order[x].status \in unpaidStatuses
      BY <2>2 DEF IInv, StatusEarned
    <3>2. "CANCELLED" \in Successors(order[x].status) /\ "CANCELLED" \in OrderStatus
      BY <3>1 DEF unpaidStatuses, cancellableStatuses, Successors, OrderStatus
    <3>. QED
      BY <2>1, <2>2, <3>1, <3>2 DEF Earns
  <2>3. CASE x \notin unpaid
    BY <2>1, <2>3 DEF Earns
  <2>. QED
    BY <2>2, <2>3
<1>7. \A r \in Slots : Fail(r) => seen' = seen
  BY DEF Fail, history
<1>8. \A r \in Slots : OrderRequest(r) =>
        \/ seen' = seen \/ \E o \in Orders : InsertOrder(r, o)
        \/ PatchOrder(r) \/ WriteCancelled(r) \/ WriteConfirmed(r)
  <2>1. \A r \in Slots, u \in Users, p \in Products : CreateOrder(r, u, p) => seen' = seen
    BY DEF CreateOrder, Start
  <2>2. \A r \in Slots, u \in Users, o \in Orders, to \in OrderStatus :
          UpdateOrder(r, u, o, to) => seen' = seen
    BY DEF UpdateOrder, Start
  <2>3. \A r \in Slots, u \in Users, o \in Orders :
          CancelOrder(r, u, o) \/ ConfirmOrder(r, u, o) => seen' = seen
    BY DEF CancelOrder, ConfirmOrder, Start
  <2>4. \A r \in Slots, o \in Orders : RemoveOrder(r, o) => seen' = seen
    BY DEF RemoveOrder
  <2>5. \A r \in Slots : DeleteOrder(r) \/ OrderGone(r) \/ WriteProduct(r) => seen' = seen
    BY DEF DeleteOrder, OrderGone, WriteProduct, history
  <2>. QED
    BY <2>1, <2>2, <2>3, <2>4, <2>5 DEF OrderRequest
<1>9. \A r \in Slots : ProductRequest(r) => seen' = seen
  BY DEF ProductRequest, UpdateProduct, RemoveProduct, PatchProduct, Start
<1>10. \A r \in Slots : UserRequest(r) => seen' = seen \/ SoftDelete(r)
  BY DEF UserRequest, Login, IssueToken, Withdraw, CheckOrders, Start, history
<1>11. \A u \in Users, p \in Products :
         CreateProduct(u, p) \/ TokenExpires(u) => seen' = seen
  BY DEF CreateProduct, TokenExpires, history
<1>12. \A u \in Users : TokenExpires(u) => seen' = seen
  BY DEF TokenExpires, history
<1>. QED
  BY <1>1, <1>2, <1>3, <1>4, <1>5, <1>6, <1>7, <1>8, <1>9, <1>10, <1>11, <1>12 DEF Next, vars

\* The handlers, stale reads and failures included, implement the life cycle an
\* order is promised.
THEOREM Refinement == Spec => FollowsLifecycle
<1>1. Init => Lifecycle!Init
  BY DEF Init, Lifecycle!Init
<1>2. IInv /\ IInv' /\ [Next]_vars => [Lifecycle!Next]_seen
  <2> SUFFICES ASSUME IInv, IInv', [Next]_vars PROVE Lifecycle!Next
    OBVIOUS
  <2>1. seen' \in [Orders -> SUBSET OrderStatus]
    BY DEF IInv, TypeOK
  <2>2. \A o \in Orders : Earns(o)
    BY StepEarns
  <2>3. ASSUME NEW o \in Orders
        PROVE  \/ seen'[o] = seen[o]
               \/ Lifecycle!Open(seen[o], seen'[o])
               \/ Lifecycle!Advance(seen[o], seen'[o])
    BY <2>2 DEF Earns, Lifecycle!Open, Lifecycle!Advance, Lifecycle!Successors,
              Lifecycle!OrderStatus, Lifecycle!cancellableStatuses,
              Lifecycle!allowedTransitions, Successors, OrderStatus, cancellableStatuses,
              allowedTransitions
  <2>. QED
    BY <2>1, <2>3 DEF Lifecycle!Next, Lifecycle!OrderStatus, OrderStatus
<1>. QED
  BY <1>1, <1>2, Invariant, PTL DEF Spec, FollowsLifecycle, Lifecycle!Spec

-----------------------------------------------------------------------------
(***************************************************************************)
(* The second group of MarketplaceProperties.  Any requests overlap and    *)
(* any of them dies; what is proved is that nothing but the causes each    *)
(* property names can break it.                                            *)
(***************************************************************************)

\* Nothing has happened that lets a live order of the product go unheld,
Orderly(p) == p \in Products \ (raced \cup halfDone \cup reopened)

\* or a confirmed sale of it be written over.
Untouched(p) == p \in Products \ (raced \cup halfDone \cup patched)

\* A withdrawn user whom nothing excuses any more.
Gone(u) == u \in Users \ (active \cup late \cup raced)

\* What a request has read is still so when it writes, unless another relied on
\* the same rows.  InFlightBacked keeps of this only what no race can undo.
KnowsOrder(q) ==
  q.pc \in OrderMoves /\ OrderExists(q.order) /\ ~(Rows(q) \subseteq raced) =>
    /\ q.pc = "patchOrder" => q.to \in allowedTransitions[order[q.order].status]
    /\ q.pc = "cancelOrder" => order[q.order].status \in cancellableStatuses
    /\ q.pc = "confirmOrder" => order[q.order].status = "DELIVERED"

KnowsProduct(q) ==
  /\ q.pc \in {"insertOrder", "restore"} /\ Orderly(q.product) =>
       LiveOrdersOf(q.product) = {}
  /\ q.pc \in {"insertOrder", "reserve", "restore"} /\ Untouched(q.product) =>
       ~Settled(q.product)

KnowsUser(q) ==
  q.pc = "softDelete" /\ q.user \notin raced => ~HasOngoingOrders(q.user)

Knows(q) ==
  /\ KnowsOrder(q) /\ KnowsProduct(q) /\ KnowsUser(q)
  /\ \A u \in Parties(q) : ~Gone(u)

\* raced misses no pair of requests that rely on the same rows.
RacesRecorded ==
  \A r, s \in Slots : r # s =>
    \A q \in {request[r]}, n \in {request[s]} : Shared(q, n) \subseteq raced

\* The orders of a product, and its row.
Trade(p) ==
  /\ Orderly(p) =>
       /\ \A o, x \in LiveOrdersOf(p) : o = x
       /\ LiveOrdersOf(p) # {} => product[p].status # "ACTIVE" \/ Owed("reserve", p)
  /\ Untouched(p) /\ Settled(p) =>
       /\ LiveOrdersOf(p) = {}
       /\ product[p].status \in {"SOLD", "DELETED"} \/ Owed("sell", p)

RaceInv ==
  /\ IInv
  /\ RacesRecorded
  /\ \A r \in Slots : \A q \in {request[r]} : Knows(q)
  /\ \A p \in Products : Trade(p)
  /\ reopened \subseteq patched
  /\ WithdrawalIsFinal

-----------------------------------------------------------------------------
(***************************************************************************)
(* What a step has to leave alone for each part of RaceInv to survive it.  *)
(***************************************************************************)

\* The fields of a request in flight are rows,
LEMMA RequestTyped ==
  ASSUME IInv, NEW r \in Slots, NEW q, q = request[r]
  PROVE  /\ q.pc \in ProductWrites \cup OrderMoves \cup {"insertOrder", "patchProduct"} =>
              q.product \in Products
         /\ q.pc \in OrderMoves \cup {"deleteOrder"} => q.order \in Orders
         /\ q.pc = "softDelete" => q.user \in Users
         /\ q.pc = "patchOrder" => q.to \in OrderStatus
         /\ q.pc = "patchProduct" => q.to \in ProductStatus
<1>1. q \in Request
  BY DEF IInv, TypeOK
<1>. QED
  BY <1>1 DEF Request, Idle, ProductWrites, OrderMoves

\* and these rows are there.
LEMMA RequestBacked ==
  ASSUME IInv, NEW r \in Slots, NEW q, q = request[r]
  PROVE  /\ q.pc \in ProductWrites \cup {"insertOrder", "patchProduct"} =>
              ProductExists(q.product)
         /\ q.pc = "insertOrder" => q.seller = product[q.product].seller
         /\ q.pc \in OrderMoves => seen[q.order] # {}
         /\ q.pc \in OrderMoves /\ OrderExists(q.order) =>
              /\ order[q.order].product = q.product
              /\ ProductExists(q.product)
              /\ order[q.order].seller = product[q.product].seller
<1>1. Backed(r)
  BY DEF IInv, InFlightBacked, Backed
<1>2. q.pc \in OrderMoves => q.order \in Orders
  BY RequestTyped
<1>3. q.pc \in OrderMoves => seen[q.order] # {} /\ item[q.order] = q.product
  BY <1>1 DEF Backed, OrderMoves
<1>4. q.pc \in OrderMoves /\ OrderExists(q.order) => order[q.order].product = q.product
  BY <1>2, <1>3 DEF IInv, ItemMatchesOrder
<1>5. q.pc \in OrderMoves /\ OrderExists(q.order) =>
        /\ ProductExists(q.product)
        /\ order[q.order].seller = product[q.product].seller
  BY <1>2, <1>4 DEF IInv, PartiesMatchProduct
<1>. QED
  BY <1>1, <1>3, <1>4, <1>5 DEF Backed, ProductWrites

\* The row behind a live order or a settled sale, and that of its product.
LEMMA TradedExists ==
  ASSUME IInv, NEW p \in Products, LiveOrdersOf(p) # {} \/ Settled(p)
  PROVE  ProductExists(p)
  BY DEF LiveOrdersOf, Live, Settled, IInv, PartiesMatchProduct

\* Rows keep their parties: an order that has been opened is never opened again.
RowsStay ==
  /\ \A o \in Orders : seen[o] # {} /\ OrderExists(o)' =>
       /\ OrderExists(o)
       /\ order'[o].product = order[o].product
       /\ order'[o].buyer = order[o].buyer /\ order'[o].seller = order[o].seller
  /\ \A p \in Products : ProductExists(p) => product'[p].seller = product[p].seller

\* Causes are never taken back.
CausesGrow ==
  /\ patched \subseteq patched' /\ reopened \subseteq reopened'
  /\ halfDone \subseteq halfDone' /\ raced \subseteq raced'

\* What a step must not do to another request, save racing with it.
Spares(n) ==
  /\ \A u \in Parties(n) : Gone(u)' => Gone(u)
  /\ n.pc \in OrderMoves /\ OrderExists(n.order) /\ OrderExists(n.order)' =>
       order'[n.order].status = order[n.order].status \/ Rows(n) \subseteq raced'
  /\ n.pc \in {"insertOrder", "reserve", "restore"} =>
       \/ n.product \in raced'
       \/ /\ LiveOrdersOf(n.product)' \subseteq LiveOrdersOf(n.product)
          /\ Settled(n.product)' => Settled(n.product)
  /\ n.pc = "softDelete" =>
       n.user \in raced' \/ (HasOngoingOrders(n.user)' => HasOngoingOrders(n.user))

LEMMA PartiesStay ==
  ASSUME IInv, NEW s \in Slots, NEW n, n = request[s], RowsStay
  PROVE  Parties(n)' \subseteq Parties(n)
<1>1. CASE n.pc \in OrderMoves
  <2>1. n.order \in Orders /\ seen[n.order] # {}
    BY <1>1, RequestTyped, RequestBacked
  <2>2. OrderExists(n.order)' =>
          /\ OrderExists(n.order)
          /\ order'[n.order].buyer = order[n.order].buyer
          /\ order'[n.order].seller = order[n.order].seller
    BY <2>1 DEF RowsStay
  <2>. QED
    BY <1>1, <2>2 DEF Parties, OrderMoves
<1>2. CASE n.pc \in {"restore", "patchProduct"}
  <2>1. n.product \in Products /\ ProductExists(n.product)
    BY <1>2, RequestTyped, RequestBacked DEF ProductWrites
  <2>2. product'[n.product].seller = product[n.product].seller
    BY <2>1 DEF RowsStay
  <2>. QED
    BY <1>2, <2>2 DEF Parties, OrderMoves
<1>3. CASE n.pc \notin OrderMoves \cup {"restore", "patchProduct"}
  BY <1>3 DEF Parties, OrderMoves
<1>. QED
  BY <1>1, <1>2, <1>3

LEMMA OthersKnow ==
  ASSUME IInv, NEW s \in Slots, NEW n, n = request[s], Knows(n),
         RowsStay, CausesGrow, Spares(n)
  PROVE  Knows(n)'
<1>1. Parties(n)' \subseteq Parties(n)
  BY PartiesStay
<1>2. KnowsOrder(n)'
  <2> SUFFICES ASSUME n.pc \in OrderMoves, OrderExists(n.order)', ~(Rows(n) \subseteq raced')
               PROVE  /\ n.pc = "patchOrder" =>
                           n.to \in allowedTransitions[order'[n.order].status]
                      /\ n.pc = "cancelOrder" => order'[n.order].status \in cancellableStatuses
                      /\ n.pc = "confirmOrder" => order'[n.order].status = "DELIVERED"
    BY DEF KnowsOrder
  <2>1. n.order \in Orders /\ seen[n.order] # {}
    BY RequestTyped, RequestBacked
  <2>2. OrderExists(n.order)
    BY <2>1 DEF RowsStay
  <2>3. order'[n.order].status = order[n.order].status
    BY <2>2 DEF Spares
  <2>4. ~(Rows(n) \subseteq raced)
    BY DEF CausesGrow
  <2>. QED
    BY <2>2, <2>3, <2>4 DEF Knows, KnowsOrder
<1>3. KnowsProduct(n)'
  <2>1. /\ Orderly(n.product)' => Orderly(n.product) /\ n.product \notin raced'
        /\ Untouched(n.product)' => Untouched(n.product) /\ n.product \notin raced'
    BY DEF Orderly, Untouched, CausesGrow
  <2>. QED
    BY <2>1 DEF KnowsProduct, Knows, Spares
<1>4. KnowsUser(n)'
  BY DEF KnowsUser, Knows, Spares, CausesGrow
<1>5. \A u \in Parties(n)' : ~Gone(u)'
  BY <1>1 DEF Knows, Spares
<1>. QED
  BY <1>2, <1>3, <1>4, <1>5 DEF Knows

\* Requests that rely on less share less.
LEMMA SharesLess ==
  ASSUME NEW q, NEW q1, NEW n, Rows(q1) \subseteq Rows(q), Parties(q1)' \subseteq Parties(q),
         q1.pc = "softDelete" => q1 = q, Parties(n)' \subseteq Parties(n)
  PROVE  Shared(q1, n)' \subseteq Shared(q, n) /\ Shared(n, q1)' \subseteq Shared(n, q)
  BY DEF Shared, Crossed

\* A request that goes on with less than it relied on races with nobody new.
LEMMA PairsKept ==
  ASSUME RacesRecorded, raced \subseteq raced', NEW r \in Slots,
         \A s \in Slots \ {r} : request'[s] = request[s],
         \A s \in Slots \ {r} : \A n \in {request[s]} : Parties(n)' \subseteq Parties(n),
         NEW q, q = request[r], NEW next, next = request'[r],
         Rows(next) \subseteq Rows(q), Parties(next)' \subseteq Parties(q),
         next.pc # "softDelete"
  PROVE  RacesRecorded'
<1> SUFFICES ASSUME NEW s \in Slots, NEW t \in Slots, s # t,
                    NEW x \in {request'[s]}, NEW y \in {request'[t]}
             PROVE  Shared(x, y)' \subseteq raced'
  BY DEF RacesRecorded
<1>1. CASE s = r
  <2>1. y = request[t] /\ Parties(y)' \subseteq Parties(y)
    BY <1>1
  <2>2. Shared(next, y)' \subseteq Shared(q, y)
    BY <2>1, SharesLess
  <2>3. Shared(q, y) \subseteq raced
    BY <1>1, <2>1 DEF RacesRecorded
  <2>. QED
    BY <1>1, <2>2, <2>3
<1>2. CASE t = r
  <2>1. x = request[s] /\ Parties(x)' \subseteq Parties(x)
    BY <1>2
  <2>2. Shared(x, next)' \subseteq Shared(x, q)
    BY <2>1, SharesLess
  <2>3. Shared(x, q) \subseteq raced
    BY <1>2, <2>1 DEF RacesRecorded
  <2>. QED
    BY <1>2, <2>2, <2>3
<1>3. CASE s # r /\ t # r
  <2>1. /\ x = request[s] /\ Parties(x)' \subseteq Parties(x)
        /\ y = request[t] /\ Parties(y)' \subseteq Parties(y)
    BY <1>3
  <2>2. Shared(x, y)' \subseteq Shared(x, y)
    BY <2>1, SharesLess
  <2>3. Shared(x, y) \subseteq raced
    BY <2>1 DEF RacesRecorded
  <2>. QED
    BY <2>2, <2>3
<1>. QED
  BY <1>1, <1>2, <1>3

\* What is owed by others stays owed.
LEMMA OwedStays ==
  ASSUME NEW r \in Slots, \A s \in Slots \ {r} : request'[s] = request[s],
         NEW pc, NEW p, request[r].pc # pc \/ request[r].product # p, Owed(pc, p)
  PROVE  Owed(pc, p)'
  BY DEF Owed

\* A trade that gains no order and no confirmation, and whose product changes
\* hands with nobody, stays in order.
LEMMA TradeKept ==
  ASSUME NEW p \in Products, Trade(p), CausesGrow, reopened' \subseteq patched',
         LiveOrdersOf(p)' \subseteq LiveOrdersOf(p), Settled(p)' => Settled(p),
         Orderly(p)' /\ LiveOrdersOf(p) # {} /\ product'[p].status = "ACTIVE" =>
           /\ product[p].status = "ACTIVE"
           /\ Owed("reserve", p) => Owed("reserve", p)',
         Untouched(p)' /\ Settled(p) =>
           \/ product'[p].status \in {"SOLD", "DELETED"}
           \/ /\ product[p].status \notin {"SOLD", "DELETED"}
              /\ Owed("sell", p) => Owed("sell", p)'
  PROVE  Trade(p)'
<1>1. /\ Orderly(p)' => Orderly(p)
      /\ Untouched(p)' => Untouched(p)
  BY DEF Orderly, Untouched, CausesGrow
<1>2. ASSUME Orderly(p)'
      PROVE  /\ \A o, x \in LiveOrdersOf(p)' : o = x
             /\ LiveOrdersOf(p)' # {} => product'[p].status # "ACTIVE" \/ Owed("reserve", p)'
  BY <1>1, <1>2 DEF Trade
<1>3. ASSUME Untouched(p)', Settled(p)'
      PROVE  /\ LiveOrdersOf(p)' = {}
             /\ product'[p].status \in {"SOLD", "DELETED"} \/ Owed("sell", p)'
  BY <1>1, <1>3 DEF Trade
<1>. QED
  BY <1>2, <1>3 DEF Trade

\* A step that withdraws nobody keeps the withdrawn out of every trade if what it
\* opens or puts on sale belongs to nobody of them.
LEMMA WithdrawnKept ==
  ASSUME WithdrawalIsFinal, \A u \in Users : Gone(u)' => Gone(u),
         \A o \in Orders : Live(o)' =>
           \/ Live(o) /\ order'[o].buyer = order[o].buyer /\ order'[o].seller = order[o].seller
           \/ ~Gone(order[o].buyer)' /\ ~Gone(order[o].seller)',
         \A p \in Products : ProductExists(p)' /\ product'[p].status = "ACTIVE" =>
           \/ ProductExists(p) /\ product[p].status = "ACTIVE"
                /\ product'[p].seller = product[p].seller
           \/ ~Gone(product[p].seller)'
  PROVE  WithdrawalIsFinal'
<1> SUFFICES ASSUME NEW u \in Users, Gone(u)'
             PROVE  /\ \A o \in Orders : Live(o)' => ~Party(u, o)'
                    /\ \A p \in Products : ProductExists(p)' /\ product'[p].seller = u
                                             => product'[p].status # "ACTIVE"
  BY DEF WithdrawalIsFinal, Gone
<1>1. Gone(u)
  OBVIOUS
<1>2. /\ \A o \in Orders : Live(o) => ~Party(u, o)
      /\ \A p \in Products : ProductExists(p) /\ product[p].seller = u
                               => product[p].status # "ACTIVE"
  BY <1>1 DEF WithdrawalIsFinal, Gone
<1>3. \A o \in Orders : Live(o)' => ~Party(u, o)'
  BY <1>2 DEF Party, Gone
<1>4. \A p \in Products : ProductExists(p)' /\ product'[p].seller = u
                           => product'[p].status # "ACTIVE"
  BY <1>2 DEF Gone
<1>. QED
  BY <1>3, <1>4

\* One request takes a step: the others still know what they knew.
LEMMA RequestStep ==
  ASSUME RaceInv, IInv', NEW r \in Slots,
         \A s \in Slots \ {r} : request'[s] = request[s],
         RowsStay, CausesGrow, \A s \in Slots \ {r} : \A n \in {request[s]} : Spares(n),
         NEW next, next = request'[r], Knows(next)', RacesRecorded',
         \A p \in Products : Trade(p)', reopened' \subseteq patched', WithdrawalIsFinal'
  PROVE  RaceInv'
<1>1. ASSUME NEW s \in Slots, NEW n \in {request'[s]}
      PROVE  Knows(n)'
  <2>1. CASE s = r
    BY <2>1
  <2>2. CASE s # r
    <3>1. n = request[s] /\ Knows(n) /\ Spares(n)
      BY <2>2 DEF RaceInv
    <3>. QED
      BY <3>1, OthersKnow DEF RaceInv
  <2>. QED
    BY <2>1, <2>2
<1>. QED
  BY <1>1 DEF RaceInv

\* The same for a request that goes on with what it has, or ends.
LEMMA GoesOn ==
  ASSUME RaceInv, IInv', NEW r \in Slots,
         \A s \in Slots \ {r} : request'[s] = request[s],
         RowsStay, CausesGrow, \A s \in Slots \ {r} : \A n \in {request[s]} : Spares(n),
         NEW q, q = request[r], NEW next, next = request'[r], Knows(next)',
         Rows(next) \subseteq Rows(q), Parties(next)' \subseteq Parties(q),
         next.pc # "softDelete",
         \A p \in Products : Trade(p)', reopened' \subseteq patched', WithdrawalIsFinal'
  PROVE  RaceInv'
<1>1. \A s \in Slots \ {r} : \A n \in {request[s]} : Parties(n)' \subseteq Parties(n)
  BY PartiesStay DEF RaceInv
<1>2. RacesRecorded'
  BY <1>1, PairsKept DEF RaceInv, CausesGrow
<1>. QED
  BY <1>2, RequestStep

\* A request that is over owes, knows and shares nothing.
LEMMA OverKnows ==
  ASSUME NEW q, q = Idle
  PROVE  Knows(q)' /\ Rows(q) = {} /\ Parties(q)' = {} /\ q.pc # "softDelete"
  BY DEF Knows, KnowsOrder, KnowsProduct, KnowsUser, Rows, Parties, Idle, OrderMoves

LEMMA Over ==
  ASSUME TypeOK, NEW r \in Slots, Finish(r)
  PROVE  /\ request'[r] = Idle
         /\ \A s \in Slots \ {r} : request'[s] = request[s]
  BY DEF Finish, Goto, TypeOK

\* What stays when the tables do.
TablesStay ==
  /\ UNCHANGED <<product, order, active, patched, reopened>>
  /\ late \subseteq late' /\ halfDone \subseteq halfDone' /\ raced \subseteq raced'

LEMMA TablesFrame ==
  ASSUME RaceInv, TablesStay
  PROVE  /\ RowsStay /\ CausesGrow /\ reopened' \subseteq patched'
         /\ \A u : Gone(u)' => Gone(u)
         /\ \A p : LiveOrdersOf(p)' = LiveOrdersOf(p) /\ (Settled(p)' <=> Settled(p))
         /\ \A u : HasOngoingOrders(u)' <=> HasOngoingOrders(u)
         /\ \A q : Parties(q)' = Parties(q)
         /\ \A n : Spares(n)
         /\ WithdrawalIsFinal'
<1>1. RowsStay /\ CausesGrow /\ reopened' \subseteq patched'
  BY DEF TablesStay, RowsStay, CausesGrow, OrderExists, RaceInv
<1>2. /\ \A u : Gone(u)' => Gone(u)
      /\ \A u : HasOngoingOrders(u)' <=> HasOngoingOrders(u)
      /\ \A q : Parties(q)' = Parties(q)
  BY DEF TablesStay, Gone, HasOngoingOrders, Parties, OrderExists, Party
<1>3. \A p : LiveOrdersOf(p)' = LiveOrdersOf(p) /\ (Settled(p)' <=> Settled(p))
  BY DEF TablesStay, LiveOrdersOf, Live, Settled, OrderExists
<1>4. \A n : Spares(n)
  BY <1>2, <1>3 DEF Spares, TablesStay
<1>5. WithdrawalIsFinal'
  BY <1>2, WithdrawnKept DEF RaceInv, TablesStay, Live, OrderExists, ProductExists
<1>. QED
  BY <1>1, <1>2, <1>3, <1>4, <1>5

\* Trades stay in order when the tables do, and the request that moves owed no
\* product a write, or dies and is counted.
LEMMA TradesStay ==
  ASSUME RaceInv, TablesStay, NEW r \in Slots,
         \A s \in Slots \ {r} : request'[s] = request[s],
         request[r].pc \in {"reserve", "sell"} => request[r].product \in halfDone'
  PROVE  \A p \in Products : Trade(p)'
<1> SUFFICES ASSUME NEW p \in Products PROVE Trade(p)'
  OBVIOUS
<1>1. /\ CausesGrow /\ reopened' \subseteq patched'
      /\ LiveOrdersOf(p)' = LiveOrdersOf(p) /\ (Settled(p)' <=> Settled(p))
  BY TablesFrame
<1>2. Trade(p) /\ product' = product
  BY DEF RaceInv, TablesStay
<1>3. CASE p \in halfDone'
  BY <1>3 DEF Trade, Orderly, Untouched
<1>4. CASE p \notin halfDone'
  <2>1. ASSUME NEW pc \in {"reserve", "sell"}, Owed(pc, p)
        PROVE  Owed(pc, p)'
    BY <1>4, <2>1, OwedStays
  <2>2. \/ product'[p].status \in {"SOLD", "DELETED"}
        \/ product[p].status \notin {"SOLD", "DELETED"}
    BY <1>2
  <2>3. product'[p].status = product[p].status
    BY <1>2
  <2>. QED
    BY <1>1, <1>2, <2>1, <2>2, <2>3, TradeKept
<1>. QED
  BY <1>3, <1>4

\* A request that ends before its next write.
LEMMA Ends ==
  ASSUME RaceInv, IInv', NEW r \in Slots, Finish(r), TablesStay,
         request[r].pc \in {"reserve", "sell"} => request[r].product \in halfDone'
  PROVE  RaceInv'
<1>1. PICK q : q = request[r]
  OBVIOUS
<1>2. PICK next : next = Idle
  OBVIOUS
<1>3. request'[r] = next /\ \A s \in Slots \ {r} : request'[s] = request[s]
  BY <1>2, Over DEF RaceInv, IInv
<1>4. Knows(next)' /\ Rows(next) = {} /\ Parties(next)' = {} /\ next.pc # "softDelete"
  BY <1>2, OverKnows
<1>5. \A p \in Products : Trade(p)'
  BY <1>3, TradesStay
<1>6. /\ RowsStay /\ CausesGrow /\ reopened' \subseteq patched' /\ WithdrawalIsFinal'
      /\ \A n : Spares(n)
  BY TablesFrame
<1>. QED
  BY <1>1, <1>3, <1>4, <1>5, <1>6, GoesOn

\* Admission records the races it begins.
LEMMA AdmitsRecorded ==
  ASSUME RaceInv, TablesStay, NEW r \in Slots, NEW next, Admit(r, next)
  PROVE  /\ RacesRecorded'
         /\ request'[r] = next
         /\ \A s \in Slots \ {r} : request'[s] = request[s]
<1>1. /\ request'[r] = next
      /\ \A s \in Slots \ {r} : request'[s] = request[s]
      /\ raced' = raced \cup UNION {Shared(request[s], next) : s \in Slots \ {r}}
  BY DEF Admit, Goto, RaceInv, IInv, TypeOK
<1>2. \A q, n : Shared(q, n)' = Shared(q, n) /\ Shared(q, n) = Shared(n, q)
  <2>1. \A q : Parties(q)' = Parties(q)
    BY TablesFrame
  <2>. QED
    BY <2>1 DEF Shared, Crossed
<1>3. ASSUME NEW s \in Slots, NEW t \in Slots, s # t,
             NEW x \in {request'[s]}, NEW y \in {request'[t]}
      PROVE  Shared(x, y)' \subseteq raced'
  <2>1. CASE s = r
    <3>1. x = next /\ y = request[t] /\ t \in Slots \ {r}
      BY <1>1, <1>3, <2>1
    <3>2. Shared(y, x) \subseteq raced'
      BY <1>1, <3>1
    <3>. QED
      BY <1>2, <3>2
  <2>2. CASE t = r
    <3>1. y = next /\ x = request[s] /\ s \in Slots \ {r}
      BY <1>1, <1>3, <2>2
    <3>2. Shared(x, y) \subseteq raced'
      BY <1>1, <3>1
    <3>. QED
      BY <1>2, <3>2
  <2>3. CASE s # r /\ t # r
    <3>1. x = request[s] /\ y = request[t]
      BY <1>1, <2>3
    <3>2. Shared(x, y) \subseteq raced
      BY <1>3, <3>1 DEF RaceInv, RacesRecorded
    <3>. QED
      BY <1>1, <1>2, <3>2
  <2>. QED
    BY <2>1, <2>2, <2>3
<1>. QED
  BY <1>1, <1>3 DEF RacesRecorded

\* A handler that has been admitted knows what it has just read.
LEMMA Reads ==
  ASSUME RaceInv, IInv', TablesStay, NEW r \in Slots, NEW next, Admit(r, next),
         request[r].pc \notin {"reserve", "sell"}, Knows(next)'
  PROVE  RaceInv'
<1>1. /\ RacesRecorded' /\ request'[r] = next
      /\ \A s \in Slots \ {r} : request'[s] = request[s]
  BY AdmitsRecorded
<1>2. \A p \in Products : Trade(p)'
  BY <1>1, TradesStay
<1>3. /\ RowsStay /\ CausesGrow /\ reopened' \subseteq patched' /\ WithdrawalIsFinal'
      /\ \A n : Spares(n)
  BY TablesFrame
<1>. QED
  BY <1>1, <1>2, <1>3, RequestStep

\* One that starts with it does so on behalf of a user who has not gone.
LEMMA Starts ==
  ASSUME RaceInv, NEW r \in Slots, NEW u \in Users, NEW next, Start(r, u, next)
  PROVE  /\ TablesStay /\ Admit(r, next) /\ request[r].pc = "idle"
         /\ ~Gone(u)'
  BY DEF Start, Admit, Authenticated, Idle, tables, TablesStay, Gone

-----------------------------------------------------------------------------
(***************************************************************************)
(* Admissions, refusals and endings.                                       *)
(***************************************************************************)

\* A product that another request owes a write is shared with it.
LEMMA OwedRaces ==
  ASSUME NEW r \in Slots, NEW next, Admit(r, next), NEW p, p \in Rows(next),
         NEW pc \in {"reserve", "sell"}, request[r].pc # pc, Owed(pc, p)
  PROVE  p \in raced'
<1>1. PICK s \in Slots \ {r} : request[s].pc = pc /\ request[s].product = p
  BY DEF Owed
<1>2. p \in Rows(request[s])
  BY <1>1 DEF Rows
<1>3. p \in Shared(request[s], next)
  BY <1>2 DEF Shared
<1>. QED
  BY <1>3 DEF Admit

\* Requests that rely on nothing.
LEMMA Careless ==
  ASSUME NEW q, q.pc \in {"idle", "removeProduct", "checkOrders", "issueToken", "deleteOrder"}
  PROVE  Knows(q)' /\ Rows(q) = {} /\ Parties(q)' = {} /\ q.pc # "softDelete"
  BY DEF Knows, KnowsOrder, KnowsProduct, KnowsUser, Rows, Parties, OrderMoves

LEMMA CreateOrderRaces ==
  ASSUME RaceInv, IInv', NEW r \in Slots, NEW u \in Users, NEW p \in Products,
         CreateOrder(r, u, p)
  PROVE  RaceInv'
<1>1. PICK next : next = [pc |-> "insertOrder", product |-> p, buyer |-> u,
                          seller |-> product[p].seller]
  OBVIOUS
<1>2. Start(r, u, next) /\ ProductExists(p) /\ product[p].status = "ACTIVE"
  BY <1>1 DEF CreateOrder
<1>3. TablesStay /\ Admit(r, next) /\ request[r].pc = "idle" /\ ~Gone(u)'
  BY <1>2, Starts
<1>4. /\ CausesGrow /\ \A v : Gone(v)' => Gone(v)
      /\ LiveOrdersOf(p)' = LiveOrdersOf(p) /\ (Settled(p)' <=> Settled(p))
  BY <1>3, TablesFrame
<1>5. p \in Rows(next) /\ Trade(p)
  BY <1>1 DEF Rows, RaceInv
<1>6. Orderly(p)' => LiveOrdersOf(p)' = {}
  <2> SUFFICES ASSUME Orderly(p)', LiveOrdersOf(p) # {} PROVE FALSE
    BY <1>4
  <2>1. Orderly(p)
    BY <1>4 DEF Orderly, CausesGrow
  <2>2. Owed("reserve", p)
    BY <1>2, <2>1, <1>5 DEF Trade
  <2>3. p \in raced'
    BY <1>3, <1>5, <2>2, OwedRaces
  <2>. QED
    BY <2>3 DEF Orderly
<1>7. Untouched(p)' => ~Settled(p)'
  <2> SUFFICES ASSUME Untouched(p)', Settled(p) PROVE FALSE
    BY <1>4
  <2>1. Untouched(p)
    BY <1>4 DEF Untouched, CausesGrow
  <2>2. Owed("sell", p)
    BY <1>2, <2>1, <1>5 DEF Trade
  <2>3. p \in raced'
    BY <1>3, <1>5, <2>2, OwedRaces
  <2>. QED
    BY <2>3 DEF Untouched
<1>8. ~Gone(product[p].seller)
  BY <1>2 DEF RaceInv, WithdrawalIsFinal, Gone
<1>9. \A v \in Parties(next)' : ~Gone(v)'
  <2>1. PICK w : w = product[p].seller
    OBVIOUS
  <2>2. ~Gone(w)' /\ Parties(next)' = {u, w}
    BY <1>1, <1>4, <1>8, <2>1 DEF Parties
  <2>. QED
    BY <1>3, <2>2
<1>10. Knows(next)'
  BY <1>1, <1>6, <1>7, <1>9 DEF Knows, KnowsOrder, KnowsProduct, KnowsUser, OrderMoves
<1>. QED
  BY <1>3, <1>10, Reads

\* Only a live order has a status that may follow.
LEMMA MovesWhileLive ==
  ASSUME NEW s, NEW q \in OrderStatus,
         s \in allowedTransitions[q] \/ q \in cancellableStatuses
  PROVE  q \in LiveStatuses
  BY DEF LiveStatuses, cancellableStatuses, allowedTransitions, OrderStatus

\* The three endpoints that move an order know the status it has and that neither
\* party has gone.
LEMMA MoveAdmitted ==
  ASSUME RaceInv, IInv', NEW r \in Slots, NEW u \in Users, NEW o \in Orders,
         OrderExists(o), NEW next, next.pc \in OrderMoves, next.order = o,
         Start(r, u, next),
         next.pc = "patchOrder" => next.to \in allowedTransitions[order[o].status],
         next.pc = "cancelOrder" => order[o].status \in cancellableStatuses,
         next.pc = "confirmOrder" => order[o].status = "DELIVERED"
  PROVE  RaceInv'
<1>1. TablesStay /\ Admit(r, next) /\ request[r].pc = "idle"
  BY Starts
<1>2. order' = order /\ \A v : Gone(v)' => Gone(v)
  BY <1>1, TablesFrame DEF TablesStay
<1>3. order[o].status \in OrderStatus
  BY OrderRead DEF RaceInv, OrderRow
<1>4. order[o].status \in LiveStatuses
  <2>1. "DELIVERED" \in LiveStatuses
    BY DEF LiveStatuses, allowedTransitions, OrderStatus
  <2>. QED
    BY <1>3, <2>1, MovesWhileLive DEF OrderMoves
<1>5. Live(o)
  BY <1>4 DEF Live
<1>6. PICK b, c : b = order[o].buyer /\ c = order[o].seller
  OBVIOUS
<1>7. ~Gone(b) /\ ~Gone(c)
  BY <1>5, <1>6 DEF RaceInv, WithdrawalIsFinal, Gone, Party
<1>8. Parties(next)' = {b, c}
  BY <1>2, <1>6 DEF Parties, OrderMoves, OrderExists
<1>9. \A v \in Parties(next)' : ~Gone(v)'
  BY <1>2, <1>7, <1>8
<1>10. Knows(next)'
  BY <1>2, <1>9 DEF Knows, KnowsOrder, KnowsProduct, KnowsUser, OrderMoves
<1>. QED
  BY <1>1, <1>10, Reads

LEMMA UpdateOrderRaces ==
  ASSUME RaceInv, IInv', NEW r \in Slots, NEW u \in Users, NEW o \in Orders,
         NEW to \in OrderStatus, UpdateOrder(r, u, o, to)
  PROVE  RaceInv'
<1>1. PICK next : next = [pc |-> "patchOrder", order |-> o, product |-> order[o].product,
                          to |-> to]
  OBVIOUS
<1>2. /\ Start(r, u, next) /\ OrderExists(o)
      /\ to \in allowedTransitions[order[o].status]
  BY <1>1 DEF UpdateOrder, validateStatusTransition
<1>. QED
  BY <1>1, <1>2, MoveAdmitted DEF OrderMoves

LEMMA CancelOrderRaces ==
  ASSUME RaceInv, IInv', NEW r \in Slots, NEW u \in Users, NEW o \in Orders,
         CancelOrder(r, u, o)
  PROVE  RaceInv'
<1>1. PICK next : next = [pc |-> "cancelOrder", order |-> o, product |-> order[o].product]
  OBVIOUS
<1>2. Start(r, u, next) /\ OrderExists(o) /\ order[o].status \in cancellableStatuses
  BY <1>1 DEF CancelOrder
<1>. QED
  BY <1>1, <1>2, MoveAdmitted DEF OrderMoves

LEMMA ConfirmOrderRaces ==
  ASSUME RaceInv, IInv', NEW r \in Slots, NEW u \in Users, NEW o \in Orders,
         ConfirmOrder(r, u, o)
  PROVE  RaceInv'
<1>1. PICK next : next = [pc |-> "confirmOrder", order |-> o, product |-> order[o].product]
  OBVIOUS
<1>2. Start(r, u, next) /\ OrderExists(o) /\ order[o].status = "DELIVERED"
  BY <1>1 DEF ConfirmOrder
<1>. QED
  BY <1>1, <1>2, MoveAdmitted DEF OrderMoves

LEMMA UpdateProductRaces ==
  ASSUME RaceInv, IInv', NEW r \in Slots, NEW u \in Users, NEW p \in Products,
         NEW to \in ProductStatus, UpdateProduct(r, u, p, to)
  PROVE  RaceInv'
<1>1. PICK next : next = [pc |-> "patchProduct", product |-> p, to |-> to]
  OBVIOUS
<1>2. Start(r, u, next) /\ product[p].seller = u
  BY <1>1 DEF UpdateProduct
<1>3. TablesStay /\ Admit(r, next) /\ request[r].pc = "idle" /\ ~Gone(u)'
  BY <1>2, Starts
<1>4. Parties(next)' = {u}
  BY <1>1, <1>2, <1>3 DEF Parties, OrderMoves, TablesStay
<1>5. Knows(next)'
  BY <1>1, <1>3, <1>4 DEF Knows, KnowsOrder, KnowsProduct, KnowsUser, OrderMoves
<1>. QED
  BY <1>3, <1>5, Reads

LEMMA RemoveProductRaces ==
  ASSUME RaceInv, IInv', NEW r \in Slots, NEW u \in Users, NEW p \in Products,
         RemoveProduct(r, u, p)
  PROVE  RaceInv'
<1>1. PICK next : next = [pc |-> "removeProduct", product |-> p]
  OBVIOUS
<1>2. Start(r, u, next)
  BY <1>1 DEF RemoveProduct
<1>3. TablesStay /\ Admit(r, next) /\ request[r].pc = "idle"
  BY <1>2, Starts
<1>4. Knows(next)'
  BY <1>1, Careless
<1>. QED
  BY <1>3, <1>4, Reads

LEMMA WithdrawRaces ==
  ASSUME RaceInv, IInv', NEW r \in Slots, NEW u \in Users, Withdraw(r, u)
  PROVE  RaceInv'
<1>1. PICK next : next = [pc |-> "checkOrders", user |-> u]
  OBVIOUS
<1>2. Start(r, u, next)
  BY <1>1 DEF Withdraw
<1>3. TablesStay /\ Admit(r, next) /\ request[r].pc = "idle"
  BY <1>2, Starts
<1>4. Knows(next)'
  BY <1>1, Careless
<1>. QED
  BY <1>3, <1>4, Reads

LEMMA RemoveOrderRaces ==
  ASSUME RaceInv, IInv', NEW r \in Slots, NEW o \in Orders, RemoveOrder(r, o)
  PROVE  RaceInv'
<1>1. PICK next : next = [pc |-> "deleteOrder", order |-> o]
  OBVIOUS
<1>2. TablesStay /\ Admit(r, next) /\ request[r].pc = "idle"
  BY <1>1 DEF RemoveOrder, TablesStay, tables, Admit, Idle
<1>3. Knows(next)'
  BY <1>1, Careless
<1>. QED
  BY <1>2, <1>3, Reads

LEMMA LoginRaces ==
  ASSUME RaceInv, IInv', NEW r \in Slots, NEW u \in Users, Login(r, u)
  PROVE  RaceInv'
<1>1. PICK next : next = [pc |-> "issueToken", user |-> u]
  OBVIOUS
<1>2. PICK q : q = request[r]
  OBVIOUS
<1>3. /\ TablesStay /\ q.pc = "idle" /\ request'[r] = next
      /\ \A s \in Slots \ {r} : request'[s] = request[s]
  BY <1>1, <1>2 DEF Login, TablesStay, tables, history, causes, Idle, Goto, RaceInv, IInv, TypeOK
<1>4. Knows(next)' /\ Rows(next) = {} /\ Parties(next)' = {} /\ next.pc # "softDelete"
  BY <1>1, Careless
<1>5. \A p \in Products : Trade(p)'
  BY <1>2, <1>3, TradesStay
<1>6. /\ RowsStay /\ CausesGrow /\ reopened' \subseteq patched' /\ WithdrawalIsFinal'
      /\ \A n : Spares(n)
  BY <1>3, TablesFrame
<1>. QED
  BY <1>2, <1>3, <1>4, <1>5, <1>6, GoesOn

LEMMA CheckOrdersRaces ==
  ASSUME RaceInv, IInv', NEW r \in Slots, CheckOrders(r)
  PROVE  RaceInv'
<1>1. TablesStay /\ request[r].pc = "checkOrders"
  BY DEF CheckOrders, At, Admit, TablesStay, tables
<1>2. CASE HasOngoingOrders(request[r].user)
  <2>1. PICK next : next = Idle
    OBVIOUS
  <2>2. Admit(r, next) /\ Knows(next)'
    BY <1>2, <2>1, OverKnows DEF CheckOrders
  <2>. QED
    BY <1>1, <2>2, Reads
<1>3. CASE ~HasOngoingOrders(request[r].user)
  <2>1. PICK u : u = request[r].user
    OBVIOUS
  <2>2. PICK next : next = [pc |-> "softDelete", user |-> u]
    OBVIOUS
  <2>3. Admit(r, next)
    BY <1>3, <2>1, <2>2 DEF CheckOrders
  <2>4. ~HasOngoingOrders(u)'
    BY <1>1, <1>3, <2>1, TablesFrame
  <2>5. Knows(next)'
    BY <2>2, <2>4 DEF Knows, KnowsOrder, KnowsProduct, KnowsUser, OrderMoves, Parties
  <2>. QED
    BY <1>1, <2>3, <2>5, Reads
<1>. QED
  BY <1>2, <1>3

LEMMA OrderGoneRaces ==
  ASSUME RaceInv, IInv', NEW r \in Slots, OrderGone(r)
  PROVE  RaceInv'
<1>1. TablesStay /\ Finish(r) /\ request[r].pc \notin {"reserve", "sell"}
  BY DEF OrderGone, TablesStay, tables, history, causes, OrderMoves
<1>. QED
  BY <1>1, Ends

LEMMA IssueTokenRaces ==
  ASSUME RaceInv, IInv', NEW r \in Slots, IssueToken(r)
  PROVE  RaceInv'
<1>1. TablesStay /\ Finish(r) /\ request[r].pc \notin {"reserve", "sell"}
  BY DEF IssueToken, At, TablesStay, history, causes
<1>. QED
  BY <1>1, Ends

\* A request that dies owing a product RESERVED or SOLD leaves it half done.
LEMMA FailRaces ==
  ASSUME RaceInv, IInv', NEW r \in Slots, Fail(r)
  PROVE  RaceInv'
<1>1. /\ TablesStay /\ Finish(r)
      /\ request[r].pc \in {"reserve", "sell"} => request[r].product \in halfDone'
  BY DEF Fail, TablesStay, tables
<1>. QED
  BY <1>1, Ends

-----------------------------------------------------------------------------
(***************************************************************************)
(* Writes to an order.                                                     *)
(***************************************************************************)

\* What the UPDATE of an order leaves of its row.
LEMMA OrderSet ==
  ASSUME IInv, NEW o \in Orders, NEW s \in OrderStatus, NEW stamps,
         OrderExists(o), SetOrder(o, s, stamps)
  PROVE  /\ order'[o].status = s /\ order'[o].stamps = order[o].stamps \cup stamps
         /\ order'[o].product = order[o].product
         /\ order'[o].buyer = order[o].buyer /\ order'[o].seller = order[o].seller
         /\ \A x \in Orders \ {o} : order'[x] = order[x]
<1>1. order[o] \in OrderRow
  BY OrderRead
<1>. QED
  BY <1>1 DEF SetOrder, OrderRow, IInv, TypeOK

\* A request writes the status it has checked the order for.
Moves(r, q, s, stamps) ==
  /\ q = request[r] /\ q.pc \in OrderMoves /\ OrderExists(q.order)
  /\ SetOrder(q.order, s, stamps)
  /\ UNCHANGED <<product, active, late, causes>>

\* Unless it raced, the order was live.
LEMMA MovesLive ==
  ASSUME RaceInv, NEW r \in Slots, NEW q, q = request[r], q.pc \in OrderMoves,
         OrderExists(q.order), ~(Rows(q) \subseteq raced)
  PROVE  Live(q.order)
<1>1. KnowsOrder(q) /\ q.order \in Orders
  BY RequestTyped DEF RaceInv, Knows
<1>2. order[q.order].status \in OrderStatus
  BY <1>1, OrderRead DEF RaceInv, OrderRow
<1>3. "DELIVERED" \in LiveStatuses
  BY DEF LiveStatuses, allowedTransitions, OrderStatus
<1>4. order[q.order].status \in LiveStatuses
  BY <1>1, <1>2, <1>3, MovesWhileLive DEF KnowsOrder, OrderMoves
<1>. QED
  BY <1>4 DEF Live

\* Others that rely on the order, its product or its parties have been counted.
LEMMA MoveSpares ==
  ASSUME RaceInv, NEW r \in Slots, NEW q, NEW s \in OrderStatus, NEW stamps,
         Moves(r, q, s, stamps),
         NEW t \in Slots, t # r, NEW n, n = request[t]
  PROVE  Spares(n)
<1>1. q.order \in Orders /\ q.product \in Products /\ order[q.order].product = q.product
  BY RequestTyped, RequestBacked DEF Moves, RaceInv
<1>2. /\ order'[q.order].product = q.product
      /\ order'[q.order].buyer = order[q.order].buyer
      /\ order'[q.order].seller = order[q.order].seller
      /\ \A x \in Orders \ {q.order} : order'[x] = order[x]
  BY <1>1, OrderSet DEF Moves, RaceInv
<1>3. Shared(q, n) \subseteq raced /\ Shared(n, q) \subseteq raced /\ raced' = raced
  BY DEF RaceInv, RacesRecorded, Moves, causes
<1>4. \A u : Gone(u)' => Gone(u)
  BY DEF Gone, Moves, causes
<1>5. n.pc \in OrderMoves /\ OrderExists(n.order) /\ OrderExists(n.order)' =>
        order'[n.order].status = order[n.order].status \/ Rows(n) \subseteq raced'
  <2> SUFFICES ASSUME n.pc \in OrderMoves, OrderExists(n.order), n.order = q.order
               PROVE  Rows(n) \subseteq raced'
    BY <1>2, RequestTyped DEF RaceInv
  <2>1. n.product = q.product
    BY <1>1, RequestBacked DEF RaceInv
  <2>2. Rows(n) = {q.order, q.product} /\ Rows(q) = {q.order, q.product}
    BY <2>1 DEF Rows, Moves, OrderMoves
  <2>. QED
    BY <1>3, <2>2 DEF Shared
<1>6. n.pc \in {"insertOrder", "reserve", "restore"} =>
        \/ n.product \in raced'
        \/ /\ LiveOrdersOf(n.product)' \subseteq LiveOrdersOf(n.product)
           /\ Settled(n.product)' => Settled(n.product)
  <2> SUFFICES ASSUME n.pc \in {"insertOrder", "reserve", "restore"}
               PROVE  \/ n.product \in raced'
                      \/ /\ LiveOrdersOf(n.product)' \subseteq LiveOrdersOf(n.product)
                         /\ Settled(n.product)' => Settled(n.product)
    OBVIOUS
  <2>1. CASE n.product = q.product
    <3>1. q.product \in Rows(n) /\ q.product \in Rows(q)
      BY <2>1 DEF Rows, Moves, OrderMoves
    <3>. QED
      BY <1>3, <2>1, <3>1 DEF Shared
  <2>2. CASE n.product # q.product
    BY <1>1, <1>2, <2>2 DEF LiveOrdersOf, Live, OrderExists, Settled
  <2>. QED
    BY <2>1, <2>2
<1>7. n.pc = "softDelete" =>
        n.user \in raced' \/ (HasOngoingOrders(n.user)' => HasOngoingOrders(n.user))
  <2> SUFFICES ASSUME n.pc = "softDelete", HasOngoingOrders(n.user)', ~HasOngoingOrders(n.user)
               PROVE  n.user \in raced'
    OBVIOUS
  <2>1. PICK x \in Orders : /\ OrderExists(x)' /\ n.user \in {order'[x].buyer, order'[x].seller}
                            /\ order'[x].status \in ongoingStatuses
    BY DEF HasOngoingOrders, Party
  <2>2. x = q.order
    BY <1>2, <2>1 DEF HasOngoingOrders, Party, OrderExists
  <2>3. n.user \in Parties(q)
    BY <1>2, <2>1, <2>2 DEF Parties, Moves, OrderMoves
  <2>. QED
    BY <1>3, <2>3 DEF Shared, Crossed
<1>. QED
  BY <1>4, <1>5, <1>6, <1>7 DEF Spares

\* The rows, and what the withdrawn have.
LEMMA MoveFrame ==
  ASSUME RaceInv, NEW r \in Slots, NEW q, NEW s \in OrderStatus, NEW stamps,
         Moves(r, q, s, stamps)
  PROVE  RowsStay /\ CausesGrow /\ reopened' \subseteq patched' /\ WithdrawalIsFinal'
<1>1. q.order \in Orders /\ OrderExists(q.order) /\ IInv
  BY RequestTyped DEF Moves, RaceInv
<1>2. /\ order'[q.order].product = order[q.order].product
      /\ order'[q.order].buyer = order[q.order].buyer
      /\ order'[q.order].seller = order[q.order].seller
      /\ \A x \in Orders \ {q.order} : order'[x] = order[x]
  BY <1>1, OrderSet DEF Moves
<1>3. RowsStay
  BY <1>1, <1>2 DEF RowsStay, Moves, OrderExists
<1>4. CausesGrow /\ reopened' \subseteq patched' /\ \A u : Gone(u)' <=> Gone(u)
  BY DEF CausesGrow, Gone, Moves, causes, RaceInv
<1>5. PICK b, c : b = order[q.order].buyer /\ c = order[q.order].seller
  OBVIOUS
<1>6. ~Gone(b)' /\ ~Gone(c)'
  <2>1. Parties(q) = {b, c}
    BY <1>1, <1>5 DEF Parties, Moves, OrderMoves
  <2>. QED
    BY <1>4, <2>1 DEF RaceInv, Knows, Moves
<1>7. WithdrawalIsFinal'
  <2>1. \A o \in Orders : Live(o)' =>
           \/ Live(o) /\ order'[o].buyer = order[o].buyer /\ order'[o].seller = order[o].seller
           \/ ~Gone(order[o].buyer)' /\ ~Gone(order[o].seller)'
    <3> SUFFICES ASSUME NEW o \in Orders, Live(o)'
                 PROVE  \/ Live(o) /\ order'[o].buyer = order[o].buyer
                             /\ order'[o].seller = order[o].seller
                        \/ ~Gone(order[o].buyer)' /\ ~Gone(order[o].seller)'
      OBVIOUS
    <3>1. CASE o = q.order
      <4>1. order'[o].buyer = b /\ order'[o].seller = c
        BY <1>2, <1>5, <3>1
      <4>. QED
        BY <1>6, <4>1
    <3>2. CASE o # q.order
      BY <1>2, <3>2 DEF Live, OrderExists
    <3>. QED
      BY <3>1, <3>2
  <2>2. product' = product
    BY DEF Moves
  <2>. QED
    BY <1>4, <2>1, <2>2, WithdrawnKept DEF RaceInv, ProductExists
<1>. QED
  BY <1>3, <1>4, <1>7

\* Orders of other products are as they were; the one of this product stays live
\* at most.
LEMMA MoveTrades ==
  ASSUME RaceInv, NEW r \in Slots, NEW q, NEW s \in OrderStatus, NEW stamps,
         Moves(r, q, s, stamps), NEW p \in Products
  PROVE  /\ p # q.product => /\ LiveOrdersOf(p)' = LiveOrdersOf(p)
                             /\ Settled(p)' <=> Settled(p)
         /\ p \notin raced => LiveOrdersOf(p)' \subseteq LiveOrdersOf(p)
         /\ p \notin raced /\ p = q.product => q.order \in LiveOrdersOf(p)
         /\ "confirmedAt" \notin stamps => (Settled(p)' => Settled(p))
         /\ s \notin LiveStatuses => q.order \notin LiveOrdersOf(p)'
<1>1. /\ q.order \in Orders /\ OrderExists(q.order) /\ IInv
      /\ order[q.order].product = q.product
  BY RequestTyped, RequestBacked DEF Moves, RaceInv
<1>2. /\ order'[q.order].status = s
      /\ order'[q.order].stamps = order[q.order].stamps \cup stamps
      /\ order'[q.order].product = q.product
      /\ \A x \in Orders \ {q.order} : order'[x] = order[x]
  BY <1>1, OrderSet DEF Moves
<1>3. p \notin raced /\ p = q.product => Live(q.order)
  <2>1. q.product \in Rows(q)
    BY DEF Rows, Moves, OrderMoves
  <2>. QED
    BY <1>1, <2>1, MovesLive DEF Moves
<1>4. p # q.product => LiveOrdersOf(p)' = LiveOrdersOf(p) /\ (Settled(p)' <=> Settled(p))
  BY <1>1, <1>2 DEF LiveOrdersOf, Live, OrderExists, Settled
<1>5. \A x \in Orders \ {q.order} : (Live(x)' <=> Live(x)) /\ order'[x].product = order[x].product
  BY <1>2 DEF Live, OrderExists
<1>6. p \notin raced => LiveOrdersOf(p)' \subseteq LiveOrdersOf(p)
  BY <1>1, <1>2, <1>3, <1>5 DEF LiveOrdersOf
<1>7. "confirmedAt" \notin stamps => (Settled(p)' => Settled(p))
  BY <1>1, <1>2 DEF OrderExists, Settled
<1>8. s \notin LiveStatuses => q.order \notin LiveOrdersOf(p)'
  BY <1>2 DEF LiveOrdersOf, Live
<1>. QED
  BY <1>1, <1>3, <1>4, <1>6, <1>7, <1>8 DEF LiveOrdersOf

LEMMA MoveTradeKept ==
  ASSUME RaceInv, NEW r \in Slots, NEW q, NEW s \in OrderStatus, NEW stamps,
         Moves(r, q, s, stamps), \A t \in Slots \ {r} : request'[t] = request[t],
         NEW p \in Products, p # q.product \/ "confirmedAt" \notin stamps
  PROVE  Trade(p)'
<1>1. CASE p \in raced
  BY <1>1 DEF Trade, Orderly, Untouched, Moves, causes
<1>2. CASE p \notin raced
  <2>1. LiveOrdersOf(p)' \subseteq LiveOrdersOf(p) /\ (Settled(p)' => Settled(p))
    BY <1>2, MoveTrades
  <2>2. CausesGrow /\ reopened' \subseteq patched' /\ Trade(p) /\ product' = product
    BY MoveFrame DEF RaceInv, Moves
  <2>3. ASSUME NEW pc \in {"reserve", "sell"}, Owed(pc, p)
        PROVE  Owed(pc, p)'
    BY <2>3, OwedStays DEF Moves, OrderMoves
  <2>4. product'[p].status = product[p].status
    BY <2>2
  <2>. QED
    BY <2>1, <2>2, <2>3, <2>4, TradeKept
<1>. QED
  BY <1>1, <1>2

LEMMA PatchOrderRaces ==
  ASSUME RaceInv, IInv', NEW r \in Slots, PatchOrder(r)
  PROVE  RaceInv'
<1>1. PICK q : q = request[r]
  OBVIOUS
<1>2. PICK next : next = Idle
  OBVIOUS
<1>3. q.to \in OrderStatus /\ Moves(r, q, q.to, {})
  BY <1>1, RequestTyped DEF PatchOrder, At, Moves, OrderMoves, RaceInv
<1>4. request'[r] = next /\ \A s \in Slots \ {r} : request'[s] = request[s]
  BY <1>2, Over DEF PatchOrder, RaceInv, IInv
<1>5. Knows(next)' /\ Rows(next) = {} /\ Parties(next)' = {} /\ next.pc # "softDelete"
  BY <1>2, OverKnows
<1>6. \A s \in Slots \ {r} : \A n \in {request[s]} : Spares(n)
  BY <1>3, MoveSpares
<1>7. RowsStay /\ CausesGrow /\ reopened' \subseteq patched' /\ WithdrawalIsFinal'
  BY <1>3, MoveFrame
<1>8. \A p \in Products : Trade(p)'
  BY <1>3, <1>4, MoveTradeKept
<1>. QED
  BY <1>1, <1>4, <1>5, <1>6, <1>7, <1>8, GoesOn

LEMMA WriteCancelledRaces ==
  ASSUME RaceInv, IInv', NEW r \in Slots, WriteCancelled(r)
  PROVE  RaceInv'
<1>1. PICK q : q = request[r]
  OBVIOUS
<1>2. PICK p : p = q.product
  OBVIOUS
<1>3. PICK next : next = [pc |-> "restore", product |-> p]
  OBVIOUS
<1>4. "CANCELLED" \in OrderStatus /\ "CANCELLED" \notin LiveStatuses
  BY DEF OrderStatus, LiveStatuses, allowedTransitions
<1>5. q.pc = "cancelOrder" /\ Moves(r, q, "CANCELLED", {"cancelledAt"})
  BY <1>1 DEF WriteCancelled, UpdateStatus, timestampOf, At, Moves, OrderMoves
<1>6. request'[r] = next /\ \A s \in Slots \ {r} : request'[s] = request[s]
  BY <1>1, <1>2, <1>3 DEF WriteCancelled, UpdateStatus, Goto, RaceInv, IInv, TypeOK
<1>7. p \in Products /\ Trade(p) /\ Rows(next) \subseteq Rows(q) /\ next.pc # "softDelete"
  BY <1>1, <1>2, <1>3, <1>5, RequestTyped DEF RaceInv, Rows, OrderMoves
<1>8. Parties(next)' \subseteq Parties(q)
  <2>1. Parties(next)' = {product[p].seller}
    BY <1>3, <1>5 DEF Parties, OrderMoves, Moves
  <2>2. product[p].seller = order[q.order].seller /\ OrderExists(q.order)
    BY <1>1, <1>2, <1>5, RequestBacked DEF Moves, RaceInv
  <2>. QED
    BY <1>5, <2>1, <2>2 DEF Parties, OrderMoves
<1>9. /\ \A s \in Slots \ {r} : \A n \in {request[s]} : Spares(n)
      /\ RowsStay /\ CausesGrow /\ reopened' \subseteq patched' /\ WithdrawalIsFinal'
      /\ \A x \in Products : Trade(x)'
  BY <1>4, <1>5, <1>6, MoveSpares, MoveFrame, MoveTradeKept
<1>10. /\ p \notin raced => /\ LiveOrdersOf(p)' \subseteq LiveOrdersOf(p)
                            /\ q.order \in LiveOrdersOf(p)
       /\ Settled(p)' => Settled(p)
       /\ q.order \notin LiveOrdersOf(p)'
  BY <1>2, <1>4, <1>5, <1>7, MoveTrades
<1>11. Orderly(p)' => LiveOrdersOf(p)' = {}
  <2>1. Orderly(p)' => Orderly(p) /\ p \notin raced
    BY <1>9 DEF Orderly, CausesGrow
  <2>. QED
    BY <1>7, <1>10, <2>1 DEF Trade
<1>12. Untouched(p)' => ~Settled(p)'
  <2>1. Untouched(p)' => Untouched(p) /\ p \notin raced
    BY <1>9 DEF Untouched, CausesGrow
  <2>. QED
    BY <1>7, <1>10, <2>1 DEF Trade
<1>13. \A u \in Parties(next)' : ~Gone(u)'
  <2>1. \A u \in Parties(q) : ~Gone(u)
    BY <1>1 DEF RaceInv, Knows
  <2>2. \A u : Gone(u)' => Gone(u)
    BY <1>5 DEF Gone, Moves, causes
  <2>. QED
    BY <1>8, <2>1, <2>2
<1>14. Knows(next)'
  BY <1>3, <1>11, <1>12, <1>13 DEF Knows, KnowsOrder, KnowsProduct, KnowsUser, OrderMoves
<1>. QED
  BY <1>1, <1>6, <1>7, <1>8, <1>9, <1>14, GoesOn

LEMMA WriteConfirmedRaces ==
  ASSUME RaceInv, IInv', NEW r \in Slots, WriteConfirmed(r)
  PROVE  RaceInv'
<1>1. PICK q : q = request[r]
  OBVIOUS
<1>2. PICK p : p = q.product
  OBVIOUS
<1>3. PICK next : next = [pc |-> "sell", product |-> p]
  OBVIOUS
<1>4. "CONFIRMED" \in OrderStatus /\ "CONFIRMED" \notin LiveStatuses
  BY DEF OrderStatus, LiveStatuses, allowedTransitions
<1>5. q.pc = "confirmOrder" /\ Moves(r, q, "CONFIRMED", {"confirmedAt"})
  BY <1>1 DEF WriteConfirmed, UpdateStatus, timestampOf, At, Moves, OrderMoves
<1>6. request'[r] = next /\ \A s \in Slots \ {r} : request'[s] = request[s]
  BY <1>1, <1>2, <1>3 DEF WriteConfirmed, UpdateStatus, Goto, RaceInv, IInv, TypeOK
<1>7. p \in Products /\ Trade(p) /\ Rows(next) \subseteq Rows(q) /\ next.pc # "softDelete"
  BY <1>1, <1>2, <1>3, <1>5, RequestTyped DEF RaceInv, Rows, OrderMoves
<1>8. Knows(next)' /\ Parties(next)' = {}
  BY <1>3 DEF Knows, KnowsOrder, KnowsProduct, KnowsUser, Parties, OrderMoves
<1>9. /\ \A s \in Slots \ {r} : \A n \in {request[s]} : Spares(n)
      /\ RowsStay /\ CausesGrow /\ reopened' \subseteq patched' /\ WithdrawalIsFinal'
      /\ \A x \in Products \ {p} : Trade(x)'
  BY <1>2, <1>4, <1>5, <1>6, MoveSpares, MoveFrame, MoveTradeKept
<1>10. /\ p \notin raced => /\ LiveOrdersOf(p)' \subseteq LiveOrdersOf(p)
                            /\ q.order \in LiveOrdersOf(p)
       /\ q.order \notin LiveOrdersOf(p)'
  BY <1>2, <1>4, <1>5, <1>7, MoveTrades
<1>11. Orderly(p)' => LiveOrdersOf(p)' = {}
  <2>1. Orderly(p)' => Orderly(p) /\ p \notin raced
    BY <1>9 DEF Orderly, CausesGrow
  <2>. QED
    BY <1>7, <1>10, <2>1 DEF Trade
<1>12. Owed("sell", p)'
  BY <1>3, <1>6 DEF Owed
<1>13. Untouched(p)' => Orderly(p)'
  BY <1>9 DEF Untouched, Orderly
<1>14. Trade(p)'
  BY <1>11, <1>12, <1>13 DEF Trade
<1>. QED
  BY <1>1, <1>6, <1>7, <1>8, <1>9, <1>14, GoesOn

\* A new order: its product had none under way and no confirmed sale.
LEMMA InsertOrderRaces ==
  ASSUME RaceInv, IInv', NEW r \in Slots, NEW o \in Orders, InsertOrder(r, o)
  PROVE  RaceInv'
<1>1. PICK q : q = request[r]
  OBVIOUS
<1>2. PICK p : p = q.product
  OBVIOUS
<1>3. PICK next : next = [pc |-> "reserve", product |-> p]
  OBVIOUS
<1>4. PICK row : row = [product |-> q.product, buyer |-> q.buyer, seller |-> q.seller,
                        status |-> "PENDING", stamps |-> {}]
  OBVIOUS
<1>5. /\ q.pc = "insertOrder" /\ p \in Products /\ Knows(q)
      /\ Rows(q) = {p} /\ Parties(q) = {q.buyer, q.seller}
  <2>1. q.pc = "insertOrder"
    BY <1>1 DEF InsertOrder, At
  <2>. QED
    BY <1>1, <1>2, <2>1, RequestTyped DEF Rows, Parties, RaceInv
<1>6. /\ order' = [order EXCEPT ![o] = row]
      /\ seen[o] = {}
      /\ UNCHANGED <<product, active, late, patched, reopened, halfDone, raced>>
  BY <1>1, <1>4 DEF InsertOrder, Fresh, causes
<1>7. /\ order'[o] = row
      /\ \A x \in Orders \ {o} : order'[x] = order[x]
      /\ request'[r] = next
      /\ \A s \in Slots \ {r} : request'[s] = request[s]
  BY <1>1, <1>2, <1>3, <1>6 DEF InsertOrder, Goto, RaceInv, IInv, TypeOK
<1>8. ~OrderExists(o)
  BY <1>6 DEF RaceInv, IInv, StatusEarned
<1>9. row.product = p /\ row.buyer = q.buyer /\ row.seller = q.seller
        /\ row.status = "PENDING" /\ row.stamps = {}
  BY <1>2, <1>4
<1>10. RowsStay /\ CausesGrow /\ reopened' \subseteq patched' /\ \A u : Gone(u)' <=> Gone(u)
  BY <1>6, <1>7 DEF RowsStay, CausesGrow, Gone, OrderExists, RaceInv
<1>11. \A x \in Products \ {p} : LiveOrdersOf(x)' = LiveOrdersOf(x)
  BY <1>7, <1>8, <1>9 DEF LiveOrdersOf, Live, OrderExists
<1>12. \A x \in Products : Settled(x)' => Settled(x)
  BY <1>7, <1>9 DEF Settled, OrderExists
<1>13. ASSUME NEW s \in Slots \ {r}, NEW n \in {request[s]}
       PROVE  Spares(n)
  <2>1. n.pc \in OrderMoves => n.order \in Orders \ {o}
    BY <1>6, RequestTyped, RequestBacked DEF RaceInv
  <2>2. n.pc \in {"insertOrder", "reserve", "restore"} => n.product \in Products
    BY RequestTyped DEF RaceInv, ProductWrites
  <2>3. n.pc \in {"insertOrder", "reserve", "restore"} /\ n.product = p => p \in raced'
    <3> SUFFICES ASSUME n.pc \in {"insertOrder", "reserve", "restore"}, n.product = p
                 PROVE  p \in raced'
      OBVIOUS
    <3>1. p \in Shared(q, n)
      BY <1>5 DEF Shared, Rows
    <3>2. Shared(q, n) \subseteq raced
      BY <1>1 DEF RaceInv, RacesRecorded
    <3>. QED
      BY <1>6, <3>1, <3>2
  <2>4. \A u : HasOngoingOrders(u)' => HasOngoingOrders(u)
    BY <1>7, <1>9 DEF HasOngoingOrders, ongoingStatuses, OrderExists, Party
  <2>. QED
    BY <1>7, <1>10, <1>11, <1>12, <2>1, <2>2, <2>3, <2>4 DEF Spares
<1>14. Knows(next)' /\ Parties(next)' = {} /\ Rows(next) = {p} /\ next.pc # "softDelete"
  <2>1. Untouched(p)' => ~Settled(p)'
    BY <1>2, <1>5, <1>6, <1>12 DEF Knows, KnowsProduct, Untouched
  <2>. QED
    BY <1>3, <2>1 DEF Knows, KnowsOrder, KnowsProduct, KnowsUser, Parties, Rows, OrderMoves
<1>15. ASSUME NEW x \in Products
       PROVE  Trade(x)'
  <2>1. CASE x = p
    <3>1. Untouched(p)' => ~Settled(p)'
      BY <1>3, <1>14 DEF Knows, KnowsProduct
    <3>2. Owed("reserve", p)'
      BY <1>3, <1>7 DEF Owed
    <3>3. Orderly(p)' => LiveOrdersOf(p) = {}
      BY <1>2, <1>5, <1>6 DEF Knows, KnowsProduct, Orderly
    <3>4. LiveOrdersOf(p)' \subseteq LiveOrdersOf(p) \cup {o}
      BY <1>7 DEF LiveOrdersOf, Live, OrderExists
    <3>5. Orderly(p)' => \A y, z \in LiveOrdersOf(p)' : y = z
      BY <3>3, <3>4
    <3>. QED
      BY <2>1, <3>1, <3>2, <3>5 DEF Trade
  <2>2. CASE x # p
    <3>1. ASSUME NEW pc \in {"reserve", "sell"}, Owed(pc, x)
          PROVE  Owed(pc, x)'
      BY <1>1, <1>5, <1>7, <3>1, OwedStays
    <3>2. product'[x].status = product[x].status /\ Trade(x)
      BY <1>6 DEF RaceInv
    <3>. QED
      BY <1>10, <1>11, <1>12, <2>2, <3>1, <3>2, TradeKept
  <2>. QED
    BY <2>1, <2>2
<1>16. WithdrawalIsFinal'
  <2>1. PICK b, c : b = q.buyer /\ c = q.seller
    OBVIOUS
  <2>2. ~Gone(b)' /\ ~Gone(c)'
    BY <1>5, <1>10, <2>1 DEF Knows
  <2>3. \A x \in Orders : Live(x)' =>
           \/ Live(x) /\ order'[x].buyer = order[x].buyer /\ order'[x].seller = order[x].seller
           \/ ~Gone(order[x].buyer)' /\ ~Gone(order[x].seller)'
    <3> SUFFICES ASSUME NEW x \in Orders, Live(x)'
                 PROVE  \/ Live(x) /\ order'[x].buyer = order[x].buyer
                             /\ order'[x].seller = order[x].seller
                        \/ ~Gone(order[x].buyer)' /\ ~Gone(order[x].seller)'
      OBVIOUS
    <3>1. CASE x = o
      <4>1. order'[x].buyer = b /\ order'[x].seller = c
        BY <1>7, <1>9, <2>1, <3>1
      <4>. QED
        BY <2>2, <4>1
    <3>2. CASE x # o
      BY <1>7, <3>2 DEF Live, OrderExists
    <3>. QED
      BY <3>1, <3>2
  <2>. QED
    BY <1>6, <1>10, <2>3, WithdrawnKept DEF RaceInv, ProductExists
<1>17. Rows(next) \subseteq Rows(q) /\ Parties(next)' \subseteq Parties(q)
  BY <1>5, <1>14
<1>. QED
  BY <1>1, <1>7, <1>10, <1>13, <1>14, <1>15, <1>16, <1>17, GoesOn

LEMMA DeleteOrderRaces ==
  ASSUME RaceInv, IInv', NEW r \in Slots, DeleteOrder(r)
  PROVE  RaceInv'
<1>1. PICK q : q = request[r]
  OBVIOUS
<1>2. PICK next : next = Idle
  OBVIOUS
<1>3. /\ q.pc = "deleteOrder" /\ order' = [order EXCEPT ![q.order] = NoRow]
      /\ UNCHANGED <<product, active, late, patched, reopened, halfDone, raced>>
  BY <1>1 DEF DeleteOrder, At, history, causes
<1>4. request'[r] = next /\ \A s \in Slots \ {r} : request'[s] = request[s]
  BY <1>2, Over DEF DeleteOrder, RaceInv, IInv
<1>5. Knows(next)' /\ Rows(next) = {} /\ Parties(next)' = {} /\ next.pc # "softDelete"
  BY <1>2, OverKnows
<1>6. \A x \in Orders : OrderExists(x)' => OrderExists(x) /\ order'[x] = order[x]
  BY <1>3 DEF RaceInv, IInv, TypeOK, OrderExists
<1>7. RowsStay /\ CausesGrow /\ reopened' \subseteq patched' /\ \A u : Gone(u)' <=> Gone(u)
  BY <1>3, <1>6 DEF RowsStay, CausesGrow, Gone, RaceInv
<1>8. \A x : LiveOrdersOf(x)' \subseteq LiveOrdersOf(x) /\ (Settled(x)' => Settled(x))
  BY <1>6 DEF LiveOrdersOf, Live, Settled
<1>9. \A u : HasOngoingOrders(u)' => HasOngoingOrders(u)
  BY <1>6 DEF HasOngoingOrders, Party
<1>10. ASSUME NEW s \in Slots \ {r}, NEW n \in {request[s]}
       PROVE  Spares(n)
  <2>1. n.pc \in OrderMoves => n.order \in Orders
    BY RequestTyped DEF RaceInv
  <2>. QED
    BY <1>6, <1>7, <1>8, <1>9, <2>1 DEF Spares
<1>11. ASSUME NEW p \in Products
       PROVE  Trade(p)'
  <2>1. ASSUME NEW pc \in {"reserve", "sell"}, Owed(pc, p)
        PROVE  Owed(pc, p)'
    BY <1>1, <1>3, <1>4, <2>1, OwedStays
  <2>2. product'[p].status = product[p].status /\ Trade(p)
    BY <1>3 DEF RaceInv
  <2>. QED
    BY <1>7, <1>8, <2>1, <2>2, TradeKept
<1>12. WithdrawalIsFinal'
  <2>1. \A o \in Orders : Live(o)' =>
          Live(o) /\ order'[o].buyer = order[o].buyer /\ order'[o].seller = order[o].seller
    BY <1>6 DEF Live
  <2>. QED
    BY <1>3, <1>7, <2>1, WithdrawnKept DEF RaceInv, ProductExists
<1>. QED
  BY <1>1, <1>4, <1>5, <1>7, <1>10, <1>11, <1>12, GoesOn

-----------------------------------------------------------------------------
(***************************************************************************)
(* Writes to a product, and the withdrawal.                                *)
(***************************************************************************)

\* A request sets the status of a product: it must not put on sale what is
\* traded or sold, nor what belongs to somebody gone.
LEMMA ProductWritten ==
  ASSUME RaceInv, IInv', NEW r \in Slots, NEW q, q = request[r],
         NEW p \in Products, p = q.product, ProductExists(p), NEW s \in ProductStatus,
         SetProduct(p, s), Finish(r), UNCHANGED <<order, active, late>>,
         CausesGrow, reopened' \subseteq patched',
         Orderly(p)' /\ LiveOrdersOf(p) # {} => s # "ACTIVE",
         Untouched(p)' /\ Settled(p) => s \in {"SOLD", "DELETED"},
         s = "ACTIVE" => product[p].seller \in Parties(q)
  PROVE  RaceInv'
<1>1. PICK next : next = Idle
  OBVIOUS
<1>2. request'[r] = next /\ \A t \in Slots \ {r} : request'[t] = request[t]
  BY <1>1, Over DEF RaceInv, IInv
<1>3. Knows(next)' /\ Rows(next) = {} /\ Parties(next)' = {} /\ next.pc # "softDelete"
  BY <1>1, OverKnows
<1>4. product[p] \in ProductRow
  BY DEF RaceInv, IInv, TypeOK, ProductExists
<1>5. /\ product'[p].status = s /\ product'[p].seller = product[p].seller
      /\ \A x \in Products \ {p} : product'[x] = product[x]
  BY <1>4 DEF SetProduct, RaceInv, IInv, TypeOK, ProductRow
<1>6. RowsStay /\ \A u : Gone(u)' => Gone(u)
  BY <1>5 DEF RowsStay, OrderExists, Gone, CausesGrow
<1>7. /\ \A x : LiveOrdersOf(x)' = LiveOrdersOf(x) /\ (Settled(x)' <=> Settled(x))
      /\ \A u : HasOngoingOrders(u)' <=> HasOngoingOrders(u)
  BY DEF LiveOrdersOf, Live, OrderExists, Settled, HasOngoingOrders, Party
<1>8. \A n : Spares(n)
  BY <1>6, <1>7 DEF Spares
<1>9. ASSUME NEW x \in Products
      PROVE  Trade(x)'
  <2>1. Trade(x) /\ LiveOrdersOf(x)' = LiveOrdersOf(x) /\ (Settled(x)' <=> Settled(x))
    BY <1>7 DEF RaceInv
  <2>2. CASE x = p
    BY <1>5, <2>1, <2>2, TradeKept
  <2>3. CASE x # p
    <3>1. ASSUME NEW pc \in {"reserve", "sell"}, Owed(pc, x)
          PROVE  Owed(pc, x)'
      BY <1>2, <2>3, <3>1, OwedStays
    <3>2. product'[x].status = product[x].status
      BY <1>5, <2>3
    <3>. QED
      BY <2>1, <3>1, <3>2, TradeKept
  <2>. QED
    BY <2>2, <2>3
<1>10. WithdrawalIsFinal'
  <2>1. \A x \in Products : ProductExists(x)' /\ product'[x].status = "ACTIVE" =>
          \/ ProductExists(x) /\ product[x].status = "ACTIVE"
               /\ product'[x].seller = product[x].seller
          \/ ~Gone(product[x].seller)'
    <3> SUFFICES ASSUME NEW x \in Products, ProductExists(x)', product'[x].status = "ACTIVE"
                 PROVE  \/ ProductExists(x) /\ product[x].status = "ACTIVE"
                             /\ product'[x].seller = product[x].seller
                        \/ ~Gone(product[x].seller)'
      OBVIOUS
    <3>1. CASE x = p
      <4>1. PICK u : u = product[p].seller
        OBVIOUS
      <4>2. ~Gone(u)'
        BY <1>5, <1>6, <3>1, <4>1 DEF RaceInv, Knows
      <4>3. product'[x].seller = u
        BY <1>5, <3>1, <4>1
      <4>. QED
        BY <4>2, <4>3
    <3>2. CASE x # p
      BY <1>5, <3>2 DEF ProductExists
    <3>. QED
      BY <3>1, <3>2
  <2>2. \A o \in Orders : Live(o)' =>
          Live(o) /\ order'[o].buyer = order[o].buyer /\ order'[o].seller = order[o].seller
    BY DEF Live, OrderExists
  <2>. QED
    BY <1>6, <2>1, <2>2, WithdrawnKept DEF RaceInv
<1>. QED
  BY <1>2, <1>3, <1>6, <1>8, <1>9, <1>10, GoesOn

LEMMA WriteProductRaces ==
  ASSUME RaceInv, IInv', NEW r \in Slots, WriteProduct(r)
  PROVE  RaceInv'
<1>1. PICK q : q = request[r]
  OBVIOUS
<1>2. q.pc \in ProductWrites /\ q.product \in Products /\ ProductExists(q.product)
  BY <1>1, RequestTyped, RequestBacked DEF WriteProduct, RaceInv
<1>3. PICK p \in Products : p = q.product
  BY <1>2
<1>4. PICK s \in ProductStatus : s = statusWritten(q.pc)
  BY <1>2 DEF statusWritten, ProductWrites, ProductStatus
<1>5. /\ SetProduct(p, s) /\ Finish(r)
      /\ UNCHANGED <<order, active, late, patched, reopened, halfDone, raced>>
  BY <1>1, <1>3, <1>4 DEF WriteProduct, history, causes
<1>6. CausesGrow /\ reopened' \subseteq patched'
  BY <1>5 DEF CausesGrow, RaceInv
<1>7. Knows(q) /\ (Orderly(p)' <=> Orderly(p)) /\ (Untouched(p)' <=> Untouched(p))
  BY <1>1, <1>5 DEF RaceInv, Orderly, Untouched
<1>8. s = "ACTIVE" => q.pc = "restore"
  BY <1>2, <1>4 DEF statusWritten, ProductWrites
<1>9. s \in {"SOLD", "DELETED"} \/ q.pc \in {"reserve", "restore"}
  BY <1>2, <1>4 DEF statusWritten, ProductWrites
<1>10. Orderly(p)' /\ LiveOrdersOf(p) # {} => s # "ACTIVE"
  BY <1>3, <1>7, <1>8 DEF Knows, KnowsProduct
<1>11. Untouched(p)' /\ Settled(p) => s \in {"SOLD", "DELETED"}
  BY <1>3, <1>7, <1>9 DEF Knows, KnowsProduct
<1>12. s = "ACTIVE" => product[p].seller \in Parties(q)
  BY <1>3, <1>8 DEF Parties, OrderMoves
<1>. QED
  BY <1>1, <1>2, <1>3, <1>5, <1>6, <1>10, <1>11, <1>12, ProductWritten

LEMMA PatchProductRaces ==
  ASSUME RaceInv, IInv', NEW r \in Slots, PatchProduct(r)
  PROVE  RaceInv'
<1>1. PICK q : q = request[r]
  OBVIOUS
<1>2. /\ q.pc = "patchProduct" /\ q.product \in Products /\ ProductExists(q.product)
      /\ q.to \in ProductStatus
  BY <1>1, RequestTyped, RequestBacked DEF PatchProduct, At, RaceInv
<1>3. PICK p \in Products : p = q.product
  BY <1>2
<1>4. PICK s \in ProductStatus : s = q.to
  BY <1>2
<1>5. /\ SetProduct(p, s) /\ Finish(r) /\ UNCHANGED <<order, active, late, halfDone, raced>>
      /\ patched' = patched \cup {p}
      /\ reopened' = IF s = "ACTIVE" /\ LiveOrdersOf(p) # {}
                       THEN reopened \cup {p} ELSE reopened
  BY <1>1, <1>3, <1>4 DEF PatchProduct
<1>6. CausesGrow /\ reopened' \subseteq patched'
  BY <1>5 DEF CausesGrow, RaceInv
<1>7. Orderly(p)' /\ LiveOrdersOf(p) # {} => s # "ACTIVE"
  BY <1>5 DEF Orderly
<1>8. ~Untouched(p)'
  BY <1>5 DEF Untouched
<1>9. product[p].seller \in Parties(q)
  BY <1>2, <1>3 DEF Parties, OrderMoves
<1>. QED
  BY <1>1, <1>2, <1>3, <1>5, <1>6, <1>7, <1>8, <1>9, ProductWritten

\* What a withdrawal does to the rows of orders and products.
LEMMA SoftDeleted ==
  ASSUME IInv, NEW r \in Slots, SoftDelete(r)
  PROVE  \E u \in Users :
           /\ u = request[r].user /\ active' = active \ {u}
           /\ \A o \in Orders :
                IF OrderExists(o) /\ Party(u, o) /\ order[o].status \in unpaidStatuses
                  THEN /\ order'[o].status = "CANCELLED" /\ OrderExists(o)'
                       /\ order'[o].product = order[o].product
                       /\ order'[o].buyer = order[o].buyer
                       /\ order'[o].seller = order[o].seller
                       /\ order'[o].stamps = order[o].stamps
                  ELSE order'[o] = order[o]
           /\ \A p \in Products :
                IF ProductExists(p) /\ product[p].seller = u /\ product[p].status = "ACTIVE"
                  THEN product'[p].status = "DELETED" /\ product'[p].seller = product[p].seller
                  ELSE product'[p] = product[p]
<1>1. PICK u \in Users : u = request[r].user
  BY DEF SoftDelete, At, IInv, TypeOK, Request, Idle
<1>2. active' = active \ {u}
  BY <1>1 DEF SoftDelete
<1>3. ASSUME NEW o \in Orders
      PROVE  IF OrderExists(o) /\ Party(u, o) /\ order[o].status \in unpaidStatuses
               THEN /\ order'[o].status = "CANCELLED" /\ OrderExists(o)'
                    /\ order'[o].product = order[o].product
                    /\ order'[o].buyer = order[o].buyer
                    /\ order'[o].seller = order[o].seller
                    /\ order'[o].stamps = order[o].stamps
               ELSE order'[o] = order[o]
  <2>1. order'[o] = IF OrderExists(o) /\ Party(u, o) /\ order[o].status \in unpaidStatuses
                      THEN [order[o] EXCEPT !.status = "CANCELLED"] ELSE order[o]
    BY <1>1 DEF SoftDelete
  <2>2. CASE OrderExists(o) /\ Party(u, o) /\ order[o].status \in unpaidStatuses
    <3>1. order[o] \in OrderRow
      BY <2>2, OrderRead
    <3>2. order'[o] = [order[o] EXCEPT !.status = "CANCELLED"]
      BY <2>1, <2>2
    <3>3. order'[o] \in OrderRow
      BY <3>1, <3>2 DEF OrderRow, OrderStatus
    <3>4. order'[o] # NoRow
      BY <3>3 DEF OrderRow
    <3>. QED
      BY <2>2, <3>1, <3>2, <3>4 DEF OrderRow, OrderExists
  <2>. QED
    BY <2>1, <2>2
<1>4. ASSUME NEW p \in Products
      PROVE  IF ProductExists(p) /\ product[p].seller = u /\ product[p].status = "ACTIVE"
               THEN product'[p].status = "DELETED" /\ product'[p].seller = product[p].seller
               ELSE product'[p] = product[p]
  <2>1. product'[p] = IF ProductExists(p) /\ product[p].seller = u
                           /\ product[p].status = "ACTIVE"
                        THEN [product[p] EXCEPT !.status = "DELETED"] ELSE product[p]
    BY <1>1 DEF SoftDelete
  <2>2. ProductExists(p) => product[p] \in ProductRow
    BY DEF IInv, TypeOK, ProductExists
  <2>. QED
    BY <2>1, <2>2 DEF ProductRow
<1>. QED
  BY <1>1, <1>2, <1>3, <1>4

\* A withdrawal that found no ongoing order leaves none, nor one that is unpaid;
\* whoever was about to change that has been counted.
LEMMA SoftDeleteRaces ==
  ASSUME RaceInv, IInv', NEW r \in Slots, SoftDelete(r)
  PROVE  RaceInv'
<1>1. IInv
  BY DEF RaceInv
<1>2. PICK q : q = request[r]
  OBVIOUS
<1>3. PICK u \in Users :
        /\ u = q.user /\ active' = active \ {u}
        /\ \A o \in Orders :
             IF OrderExists(o) /\ Party(u, o) /\ order[o].status \in unpaidStatuses
               THEN /\ order'[o].status = "CANCELLED" /\ OrderExists(o)'
                    /\ order'[o].product = order[o].product
                    /\ order'[o].buyer = order[o].buyer
                    /\ order'[o].seller = order[o].seller
                    /\ order'[o].stamps = order[o].stamps
               ELSE order'[o] = order[o]
        /\ \A p \in Products :
             IF ProductExists(p) /\ product[p].seller = u /\ product[p].status = "ACTIVE"
               THEN product'[p].status = "DELETED" /\ product'[p].seller = product[p].seller
               ELSE product'[p] = product[p]
  BY <1>1, <1>2, SoftDeleted
<1>4. PICK next : next = Idle
  OBVIOUS
<1>5. request'[r] = next /\ \A s \in Slots \ {r} : request'[s] = request[s]
  BY <1>1, <1>4, Over DEF SoftDelete, IInv
<1>6. Knows(next)' /\ Rows(next) = {} /\ Parties(next)' = {} /\ next.pc # "softDelete"
  BY <1>4, OverKnows
<1>7. q.pc = "softDelete" /\ UNCHANGED <<late, patched, reopened, halfDone, raced>>
  BY <1>2 DEF SoftDelete, At, causes
<1>8. \A o \in Orders : OrderExists(o)' =>
        /\ OrderExists(o) /\ order'[o].product = order[o].product
        /\ order'[o].buyer = order[o].buyer /\ order'[o].seller = order[o].seller
        /\ order'[o].stamps = order[o].stamps
        /\ \/ order'[o].status = order[o].status
           \/ /\ order'[o].status = "CANCELLED"
              /\ Party(u, o)
  <2> SUFFICES ASSUME NEW o \in Orders, OrderExists(o)'
               PROVE  /\ OrderExists(o) /\ order'[o].product = order[o].product
                      /\ order'[o].buyer = order[o].buyer /\ order'[o].seller = order[o].seller
                      /\ order'[o].stamps = order[o].stamps
                      /\ \/ order'[o].status = order[o].status
                         \/ /\ order'[o].status = "CANCELLED"
                            /\ Party(u, o)
    OBVIOUS
  <2>1. CASE OrderExists(o) /\ Party(u, o) /\ order[o].status \in unpaidStatuses
    BY <1>3, <2>1
  <2>2. CASE ~(OrderExists(o) /\ Party(u, o) /\ order[o].status \in unpaidStatuses)
    <3>1. order'[o] = order[o]
      BY <1>3, <2>2
    <3>. QED
      BY <3>1 DEF OrderExists
  <2>. QED
    BY <2>1, <2>2
<1>9. "CANCELLED" \notin LiveStatuses /\ "CANCELLED" \notin ongoingStatuses
  BY DEF LiveStatuses, ongoingStatuses, allowedTransitions
<1>10. \A o \in Orders : Live(o)' => Live(o)
  BY <1>8, <1>9 DEF Live
<1>11. \A x : LiveOrdersOf(x)' \subseteq LiveOrdersOf(x) /\ (Settled(x)' => Settled(x))
  BY <1>8, <1>10 DEF LiveOrdersOf, Live, Settled
<1>12. \A v : HasOngoingOrders(v)' => HasOngoingOrders(v)
  BY <1>8, <1>9 DEF HasOngoingOrders, Party
<1>13. \A p \in Products :
         /\ ProductExists(p) => product'[p].seller = product[p].seller
         /\ product'[p].status \in {product[p].status, "DELETED"}
  BY <1>3
<1>14. RowsStay /\ CausesGrow /\ reopened' \subseteq patched'
  BY <1>7, <1>8, <1>13 DEF RowsStay, CausesGrow, RaceInv
<1>15. \A v : Gone(v)' => Gone(v) \/ v = u
  BY <1>3, <1>7 DEF Gone
<1>16. ASSUME NEW s \in Slots \ {r}, NEW n \in {request[s]}
       PROVE  Spares(n)
  <2>1. Shared(q, n) \subseteq raced
    BY <1>2 DEF RaceInv, RacesRecorded
  <2>2. u \in Parties(n) => u \in raced /\ Rows(n) \subseteq raced
    BY <1>3, <1>7, <2>1 DEF Shared, Crossed
  <2>3. \A v \in Parties(n) : Gone(v)' => Gone(v)
    BY <1>7, <1>15, <2>2 DEF Gone
  <2>4. n.pc \in OrderMoves => n.order \in Orders
    BY RequestTyped DEF RaceInv
  <2>5. n.pc \in OrderMoves /\ OrderExists(n.order) /\ OrderExists(n.order)' =>
          order'[n.order].status = order[n.order].status \/ Rows(n) \subseteq raced'
    <3> SUFFICES ASSUME n.pc \in OrderMoves, OrderExists(n.order), OrderExists(n.order)',
                        Party(u, n.order)
                 PROVE  Rows(n) \subseteq raced'
      BY <1>8, <2>4
    <3>1. u \in Parties(n)
      BY DEF Parties, Party, OrderMoves
    <3>. QED
      BY <1>7, <2>2, <3>1
  <2>. QED
    BY <1>11, <1>12, <2>3, <2>5 DEF Spares
<1>17. ASSUME NEW p \in Products
       PROVE  Trade(p)'
  <2>1. ASSUME NEW pc \in {"reserve", "sell"}, Owed(pc, p)
        PROVE  Owed(pc, p)'
    BY <1>2, <1>5, <1>7, <2>1, OwedStays
  <2>2. product'[p].status \in {product[p].status, "DELETED"} /\ Trade(p)
    BY <1>13 DEF RaceInv
  <2>. QED
    BY <1>11, <1>14, <2>1, <2>2, TradeKept
<1>18. \A o \in Orders : Live(o)' =>
         Live(o) /\ order'[o].buyer = order[o].buyer /\ order'[o].seller = order[o].seller
  BY <1>8, <1>10 DEF Live
<1>19. \A p \in Products : ProductExists(p)' /\ product'[p].status = "ACTIVE" =>
         /\ product'[p] = product[p] /\ ProductExists(p)
         /\ product[p].seller # u
  BY <1>3 DEF ProductExists
<1>20. WithdrawalIsFinal'
  <2> SUFFICES ASSUME NEW v \in Users, Gone(v)'
               PROVE  /\ \A o \in Orders : Live(o)' => ~Party(v, o)'
                      /\ \A p \in Products : ProductExists(p)' /\ product'[p].seller = v
                                               => product'[p].status # "ACTIVE"
    BY DEF WithdrawalIsFinal, Gone
  <2>1. CASE v = u
    <3>1. ~HasOngoingOrders(u)
      BY <1>2, <1>3, <1>7, <2>1 DEF RaceInv, Knows, KnowsUser, Gone
    <3>2. \A o \in Orders : Live(o)' => ~Party(u, o)'
      <4> SUFFICES ASSUME NEW o \in Orders, Live(o)', Party(u, o)' PROVE FALSE
        OBVIOUS
      <4>1. Live(o) /\ Party(u, o) /\ order[o] \in OrderRow
        BY <1>1, <1>18, OrderRead DEF Live, Party
      <4>2. order[o].status \in unpaidStatuses \cup ongoingStatuses
        BY <4>1 DEF Live, LiveStatuses, unpaidStatuses, ongoingStatuses, allowedTransitions,
                    OrderRow, OrderStatus
      <4>3. order[o].status \in unpaidStatuses /\ OrderExists(o)
        BY <3>1, <4>1, <4>2 DEF HasOngoingOrders, Live
      <4>4. order'[o].status = "CANCELLED"
        BY <1>3, <4>1, <4>3
      <4>. QED
        BY <1>9, <4>4 DEF Live
    <3>. QED
      BY <1>19, <2>1, <3>2
  <2>2. CASE v # u
    <3>1. Gone(v)
      BY <1>15, <2>2
    <3>2. /\ \A o \in Orders : Live(o) => ~Party(v, o)
          /\ \A p \in Products : ProductExists(p) /\ product[p].seller = v
                                   => product[p].status # "ACTIVE"
      BY <3>1 DEF RaceInv, WithdrawalIsFinal, Gone
    <3>. QED
      BY <1>18, <1>19, <3>2 DEF Party
  <2>. QED
    BY <2>1, <2>2
<1>21. Rows(next) \subseteq Rows(q) /\ Parties(next)' \subseteq Parties(q)
  BY <1>6
<1>. QED
  BY <1>2, <1>5, <1>6, <1>14, <1>16, <1>17, <1>20, <1>21, GoesOn

\* Steps that leave every request where it is, and stutters.
LEMMA TableStepRaces ==
  ASSUME RaceInv, IInv', \/ \E u \in Users, p \in Products : CreateProduct(u, p)
                         \/ \E u \in Users : TokenExpires(u)
                         \/ UNCHANGED vars
  PROVE  RaceInv'
<1>1. /\ UNCHANGED <<order, active, request, patched, reopened, halfDone, raced>>
      /\ late \subseteq late'
  BY DEF CreateProduct, TokenExpires, Authenticated, history, causes, vars
<1>2. \A p \in Products :
        \/ product'[p] = product[p]
        \/ ~ProductExists(p) /\ ~Gone(product[p].seller)'
  <2>1. ASSUME NEW u \in Users, NEW x \in Products, CreateProduct(u, x), NEW p \in Products
        PROVE  \/ product'[p] = product[p]
               \/ ~ProductExists(p) /\ ~Gone(product[p].seller)'
    <3>1. /\ ~ProductExists(x) /\ product' = [product EXCEPT ![x] =
                                                [status |-> "ACTIVE", seller |-> u]]
          /\ ~Gone(u)'
      BY <1>1, <2>1 DEF CreateProduct, Authenticated, Gone
    <3>2. CASE p = x
      <4>1. product'[p].seller = u
        BY <3>1, <3>2 DEF RaceInv, IInv, TypeOK
      <4>. QED
        BY <3>1, <3>2, <4>1
    <3>3. CASE p # x
      BY <3>1, <3>3 DEF RaceInv, IInv, TypeOK
    <3>. QED
      BY <3>2, <3>3
  <2>. QED
    BY <2>1 DEF TokenExpires, vars
<1>3. /\ RowsStay /\ CausesGrow /\ reopened' \subseteq patched'
      /\ \A u : Gone(u)' => Gone(u)
  BY <1>1, <1>2 DEF RowsStay, CausesGrow, OrderExists, Gone, RaceInv
<1>4. /\ \A p : LiveOrdersOf(p)' = LiveOrdersOf(p) /\ (Settled(p)' <=> Settled(p))
      /\ \A u : HasOngoingOrders(u)' <=> HasOngoingOrders(u)
  BY <1>1 DEF LiveOrdersOf, Live, OrderExists, Settled, HasOngoingOrders, Party
<1>5. \A n : Spares(n)
  BY <1>1, <1>3, <1>4 DEF Spares
<1>6. ASSUME NEW s \in Slots, NEW n \in {request'[s]}
      PROVE  Knows(n)'
  <2>1. n = request[s] /\ Knows(n)
    BY <1>1 DEF RaceInv
  <2>. QED
    BY <1>3, <1>5, <2>1, OthersKnow DEF RaceInv
<1>7. RacesRecorded'
  <2> SUFFICES ASSUME NEW s \in Slots, NEW t \in Slots, s # t,
                      NEW x \in {request'[s]}, NEW y \in {request'[t]}
               PROVE  Shared(x, y)' \subseteq raced'
    BY DEF RacesRecorded
  <2>1. x = request[s] /\ y = request[t]
    BY <1>1
  <2>2. Parties(x)' \subseteq Parties(x) /\ Parties(y)' \subseteq Parties(y)
    BY <1>3, <2>1, PartiesStay DEF RaceInv
  <2>3. Shared(x, y)' \subseteq Shared(x, y)
    BY <2>2, SharesLess
  <2>4. Shared(x, y) \subseteq raced
    BY <2>1 DEF RaceInv, RacesRecorded
  <2>. QED
    BY <1>1, <2>3, <2>4
<1>8. ASSUME NEW p \in Products
      PROVE  Trade(p)'
  <2>1. Trade(p) /\ LiveOrdersOf(p)' = LiveOrdersOf(p) /\ (Settled(p)' <=> Settled(p))
    BY <1>4 DEF RaceInv
  <2>2. \A pc : Owed(pc, p)' <=> Owed(pc, p)
    BY <1>1 DEF Owed
  <2>3. CASE product'[p] = product[p]
    <3>1. product'[p].status = product[p].status
      BY <2>3
    <3>. QED
      BY <1>3, <2>1, <2>2, <3>1, TradeKept
  <2>4. CASE ~ProductExists(p)
    <3>1. LiveOrdersOf(p) = {} /\ ~Settled(p)
      BY <2>4, TradedExists DEF RaceInv
    <3>. QED
      BY <1>3, <2>1, <3>1, TradeKept
  <2>. QED
    BY <1>2, <2>3, <2>4
<1>9. WithdrawalIsFinal'
  <2>1. \A o \in Orders : Live(o)' =>
          Live(o) /\ order'[o].buyer = order[o].buyer /\ order'[o].seller = order[o].seller
    BY <1>1 DEF Live, OrderExists
  <2>2. \A p \in Products : ProductExists(p)' /\ product'[p].status = "ACTIVE" =>
          \/ ProductExists(p) /\ product[p].status = "ACTIVE"
               /\ product'[p].seller = product[p].seller
          \/ ~Gone(product[p].seller)'
    BY <1>2 DEF ProductExists
  <2>. QED
    BY <1>3, <2>1, <2>2, WithdrawnKept DEF RaceInv
<1>. QED
  BY <1>3, <1>6, <1>7, <1>8, <1>9 DEF RaceInv

-----------------------------------------------------------------------------
(***************************************************************************)
(* The invariant, and what it gives.                                       *)
(***************************************************************************)

LEMMA InitRaceInv == Init => RaceInv
<1> SUFFICES ASSUME Init PROVE RaceInv
  OBVIOUS
<1>1. \A o \in Orders : ~OrderExists(o)
  BY DEF Init, OrderExists
<1>2. \A p \in Products : Trade(p)
  BY <1>1 DEF Trade, LiveOrdersOf, Live, Settled
<1>3. WithdrawalIsFinal /\ reopened \subseteq patched
  BY DEF Init, WithdrawalIsFinal
<1>4. \A r \in Slots : \A q \in {request[r]} : q.pc = "idle"
  BY DEF Init, Idle
<1>5. \A r \in Slots : \A q \in {request[r]} : Knows(q)
  BY <1>4 DEF Knows, KnowsOrder, KnowsProduct, KnowsUser, Parties, OrderMoves
<1>6. RacesRecorded
  BY <1>4 DEF RacesRecorded, Shared, Crossed, Rows, OrderMoves
<1>. QED
  BY <1>2, <1>3, <1>5, <1>6, InitIInv DEF RaceInv

LEMMA NextRaceInv == RaceInv /\ [Next]_vars => RaceInv'
<1> SUFFICES ASSUME RaceInv, [Next]_vars PROVE RaceInv'
  OBVIOUS
<1>1. IInv'
  BY NextIInv DEF RaceInv
<1>2. CASE UNCHANGED vars
  BY <1>1, <1>2, TableStepRaces
<1>3. ASSUME NEW r \in Slots, OrderRequest(r)
      PROVE  RaceInv'
  <2>1. ASSUME NEW u \in Users, NEW p \in Products, CreateOrder(r, u, p) PROVE RaceInv'
    BY <1>1, <2>1, CreateOrderRaces
  <2>2. ASSUME NEW u \in Users, NEW o \in Orders, NEW s \in OrderStatus,
               UpdateOrder(r, u, o, s)
        PROVE RaceInv'
    BY <1>1, <2>2, UpdateOrderRaces
  <2>3. ASSUME NEW u \in Users, NEW o \in Orders, CancelOrder(r, u, o) PROVE RaceInv'
    BY <1>1, <2>3, CancelOrderRaces
  <2>4. ASSUME NEW u \in Users, NEW o \in Orders, ConfirmOrder(r, u, o) PROVE RaceInv'
    BY <1>1, <2>4, ConfirmOrderRaces
  <2>5. ASSUME NEW o \in Orders, RemoveOrder(r, o) PROVE RaceInv'
    BY <1>1, <2>5, RemoveOrderRaces
  <2>6. ASSUME NEW o \in Orders, InsertOrder(r, o) PROVE RaceInv'
    BY <1>1, <2>6, InsertOrderRaces
  <2>. QED
    BY <1>1, <1>3, <2>1, <2>2, <2>3, <2>4, <2>5, <2>6, OrderGoneRaces, PatchOrderRaces,
       WriteCancelledRaces, WriteConfirmedRaces, DeleteOrderRaces, WriteProductRaces
       DEF OrderRequest
<1>4. ASSUME NEW r \in Slots, ProductRequest(r)
      PROVE  RaceInv'
  BY <1>1, <1>4, UpdateProductRaces, RemoveProductRaces, PatchProductRaces DEF ProductRequest
<1>5. ASSUME NEW r \in Slots, UserRequest(r)
      PROVE  RaceInv'
  BY <1>1, <1>5, LoginRaces, IssueTokenRaces, WithdrawRaces, CheckOrdersRaces, SoftDeleteRaces
     DEF UserRequest
<1>6. ASSUME NEW r \in Slots, Fail(r)
      PROVE  RaceInv'
  BY <1>1, <1>6, FailRaces
<1>. QED
  BY <1>1, <1>2, <1>3, <1>4, <1>5, <1>6, TableStepRaces DEF Next

LEMMA RaceInvariant == Spec => []RaceInv
  BY InitRaceInv, NextRaceInv, PTL DEF Spec

\* Whatever overlaps and whatever dies, a product whose orders did not race, were
\* not left half done and not sold over by its seller has at most one order under
\* way, and while it has one it is off the market.
THEOREM LiveOrdersHold == Spec => []LiveOrderHoldsProduct
<1>1. RaceInv => LiveOrderHoldsProduct
  <2> SUFFICES ASSUME RaceInv, NEW p \in Products \ (raced \cup halfDone \cup reopened)
               PROVE  /\ Cardinality(LiveOrdersOf(p)) <= 1
                      /\ LiveOrdersOf(p) # {} =>
                           product[p].status # "ACTIVE" \/ Owed("reserve", p)
    BY DEF LiveOrderHoldsProduct
  <2>1. Orderly(p) /\ Trade(p)
    BY DEF RaceInv, Orderly
  <2>2. Cardinality(LiveOrdersOf(p)) <= 1
    <3>1. CASE LiveOrdersOf(p) = {}
      BY <3>1, FS_EmptySet
    <3>2. ASSUME NEW o \in LiveOrdersOf(p)
          PROVE  Cardinality(LiveOrdersOf(p)) <= 1
      <4>1. LiveOrdersOf(p) = {o}
        BY <2>1, <3>2 DEF Trade
      <4>2. Cardinality({o}) = 1
        BY FS_Singleton
      <4>. QED
        BY <4>1, <4>2
    <3>. QED
      BY <3>1, <3>2
  <2>. QED
    BY <2>1, <2>2 DEF Trade
<1>. QED
  BY <1>1, RaceInvariant, PTL

\* Whatever overlaps, a sale that was confirmed is undone by nothing but a race
\* for its product, a request that died half-way, or a status written by hand.
THEOREM ConfirmedSalesStand == Spec => []ConfirmedSaleStands
<1>1. RaceInv => ConfirmedSaleStands
  <2> SUFFICES ASSUME RaceInv, NEW p \in Products \ (raced \cup halfDone \cup patched), Settled(p)
               PROVE  product[p].status \in {"SOLD", "DELETED"} \/ Owed("sell", p)
    BY DEF ConfirmedSaleStands
  <2>. QED
    BY DEF RaceInv, Untouched, Trade
<1>. QED
  BY <1>1, RaceInvariant, PTL

\* A withdrawal leaves nothing of the user under way, and nothing that others do
\* brings any of it back, but for the races WithdrawalIsFinal names.
THEOREM WithdrawalsFinal == Spec => []WithdrawalIsFinal
<1>1. RaceInv => WithdrawalIsFinal
  BY DEF RaceInv
<1>. QED
  BY <1>1, RaceInvariant, PTL

\* The status an order takes follows, in the rules, the one it has in that state.
LEMMA StepFollowsRules ==
  ASSUME RaceInv, [Next]_vars, NEW o \in Orders \ raced, OrderExists(o), OrderExists(o)',
         order'[o].status # order[o].status
  PROVE  order'[o].status \in Successors(order[o].status)
<1>1. TypeOK /\ IInv
  BY DEF RaceInv, IInv
<1>2. order' # order
  OBVIOUS
<1>3. ASSUME NEW r \in Slots, PatchOrder(r) \/ WriteCancelled(r) \/ WriteConfirmed(r)
      PROVE  order'[o].status \in Successors(order[o].status)
  <2>1. PICK q : q = request[r]
    OBVIOUS
  <2>2. /\ q.pc \in OrderMoves /\ OrderExists(q.order) /\ KnowsOrder(q)
        /\ q.order \in Orders /\ (q.pc = "patchOrder" => q.to \in OrderStatus)
    BY <1>1, <1>3, <2>1, RequestTyped
       DEF PatchOrder, WriteCancelled, WriteConfirmed, UpdateStatus, At, OrderMoves, RaceInv, Knows
  <2>3. q.order = o
    BY <1>1, <1>3, <2>1 DEF PatchOrder, WriteCancelled, WriteConfirmed, UpdateStatus, SetOrder,
                            TypeOK
  <2>4. ~(Rows(q) \subseteq raced)
    BY <2>2, <2>3 DEF Rows, OrderMoves
  <2>5. CASE PatchOrder(r)
    <3>1. order'[o].status = q.to /\ q.pc = "patchOrder"
      BY <1>1, <2>1, <2>2, <2>3, <2>5, OrderSet DEF PatchOrder, At
    <3>. QED
      BY <2>2, <2>3, <2>4, <3>1 DEF KnowsOrder, Successors
  <2>6. CASE WriteCancelled(r)
    <3>1. order'[o].status = "CANCELLED" /\ q.pc = "cancelOrder"
      BY <1>1, <2>1, <2>2, <2>3, <2>6, OrderSet DEF WriteCancelled, UpdateStatus, OrderStatus, At
    <3>. QED
      BY <2>2, <2>3, <2>4, <3>1 DEF KnowsOrder, Successors
  <2>7. CASE WriteConfirmed(r)
    <3>1. order'[o].status = "CONFIRMED" /\ q.pc = "confirmOrder"
      BY <1>1, <2>1, <2>2, <2>3, <2>7, OrderSet DEF WriteConfirmed, UpdateStatus, OrderStatus, At
    <3>2. "CONFIRMED" \in Successors("DELIVERED")
      BY DEF Successors, allowedTransitions, OrderStatus
    <3>. QED
      BY <2>2, <2>3, <2>4, <3>1, <3>2 DEF KnowsOrder
  <2>. QED
    BY <1>3, <2>5, <2>6, <2>7
<1>4. ASSUME NEW r \in Slots, SoftDelete(r)
      PROVE  order'[o].status \in Successors(order[o].status)
  BY <1>1, <1>4, SoftDeleted DEF unpaidStatuses, cancellableStatuses, Successors
<1>5. ASSUME NEW r \in Slots, NEW x \in Orders, InsertOrder(r, x)
      PROVE  FALSE
  <2>1. ~OrderExists(x)
    BY <1>1, <1>5 DEF InsertOrder, Fresh, IInv, StatusEarned
  <2>. QED
    BY <1>1, <1>5, <2>1 DEF InsertOrder, TypeOK
<1>6. ASSUME NEW r \in Slots, DeleteOrder(r)
      PROVE  FALSE
  BY <1>1, <1>6 DEF DeleteOrder, OrderExists, TypeOK
<1>7. \A r \in Slots : OrderRequest(r) =>
        \/ order' = order \/ \E x \in Orders : InsertOrder(r, x)
        \/ PatchOrder(r) \/ WriteCancelled(r) \/ WriteConfirmed(r) \/ DeleteOrder(r)
  <2>1. \A r \in Slots, u \in Users, p \in Products : CreateOrder(r, u, p) => order' = order
    BY DEF CreateOrder, Start, tables
  <2>2. \A r \in Slots, u \in Users, x \in Orders, to \in OrderStatus :
          UpdateOrder(r, u, x, to) => order' = order
    BY DEF UpdateOrder, Start, tables
  <2>3. \A r \in Slots, u \in Users, x \in Orders :
          CancelOrder(r, u, x) \/ ConfirmOrder(r, u, x) => order' = order
    BY DEF CancelOrder, ConfirmOrder, Start, tables
  <2>4. \A r \in Slots, x \in Orders : RemoveOrder(r, x) => order' = order
    BY DEF RemoveOrder, tables
  <2>5. \A r \in Slots : OrderGone(r) \/ WriteProduct(r) => order' = order
    BY DEF OrderGone, WriteProduct, tables
  <2>. QED
    BY <2>1, <2>2, <2>3, <2>4, <2>5 DEF OrderRequest
<1>8. \A r \in Slots : ProductRequest(r) => order' = order
  BY DEF ProductRequest, UpdateProduct, RemoveProduct, PatchProduct, Start, tables
<1>9. \A r \in Slots : UserRequest(r) => order' = order \/ SoftDelete(r)
  BY DEF UserRequest, Login, IssueToken, Withdraw, CheckOrders, Start, tables
<1>10. \A r \in Slots : Fail(r) => order' = order
  BY DEF Fail, tables
<1>11. /\ \A u \in Users, p \in Products : CreateProduct(u, p) => order' = order
       /\ \A u \in Users : TokenExpires(u) => order' = order
  BY DEF CreateProduct, TokenExpires
<1>. QED
  BY <1>2, <1>3, <1>4, <1>5, <1>6, <1>7, <1>8, <1>9, <1>10, <1>11 DEF Next, vars

\* Every change of a status is a transition of the rules from the status the order
\* has at that moment, unless two requests relied on the order at once.
THEOREM RulesFollowed == Spec => TransitionsFollowRules
<1>1. RaceInv /\ [Next]_vars =>
        [\A o \in Orders \ raced :
           OrderExists(o) /\ OrderExists(o)' /\ order'[o].status # order[o].status
             => order'[o].status \in Successors(order[o].status)]_vars
  BY StepFollowsRules
<1>. QED
  BY <1>1, RaceInvariant, PTL DEF Spec, TransitionsFollowRules
=============================================================================
