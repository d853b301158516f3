------------------------------ MODULE OrderRules ------------------------------
(***************************************************************************)
(* The status vocabulary of the marketplace and the rules of               *)
(* OrdersService that do not depend on the database: which status may      *)
(* follow which, who may ask for it, and which statuses the handlers       *)
(* single out.  Constant-level: no variables.                              *)
(***************************************************************************)

\* enum OrderStatus and enum ProductStatus of prisma/schema.prisma
OrderStatus == {"PENDING", "PAYMENT_PENDING", "PAID", "SHIPPING",
                "DELIVERED", "CONFIRMED", "CANCELLED", "REFUNDED"}

ProductStatus == {"ACTIVE", "RESERVED", "SOLD", "DELETED"}

\* allowedTransitions of validateStatusTransition
allowedTransitions ==
  [s \in OrderStatus |->
     CASE s = "PENDING"         -> {"PAYMENT_PENDING", "CANCELLED"}
       [] s = "PAYMENT_PENDING" -> {"PAID", "CANCELLED"}
       [] s = "PAID"            -> {"SHIPPING", "REFUNDED"}
       [] s = "SHIPPING"        -> {"DELIVERED"}
       [] s = "DELIVERED"       -> {"CONFIRMED", "REFUNDED"}
       [] OTHER                 -> {}]

sellerOnlyStatus == {"SHIPPING", "DELIVERED"}
buyerOnlyStatus  == {"CONFIRMED", "CANCELLED"}

\* Seeded fault: only the role is checked.
validateRoleOnly(current, new, isBuyer, isSeller) ==
  /\ new \in sellerOnlyStatus => isSeller
  /\ new \in buyerOnlyStatus => isBuyer

\* validateStatusTransition: the table first, then the role of the caller
validateStatusTransition(current, new, isBuyer, isSeller) ==
  /\ new \in allowedTransitions[current]
  /\ new \in sellerOnlyStatus => isSeller
  /\ new \in buyerOnlyStatus => isBuyer

\* Seeded fault: a confirmed order can be cancelled.
cancellableAfterConfirm == {"PENDING", "PAYMENT_PENDING", "PAID", "CONFIRMED"}

\* OrdersService.cancel: what a buyer may still call off
cancellableStatuses == {"PENDING", "PAYMENT_PENDING", "PAID"}

\* Seeded fault: a paid order not yet shipped does not bar a withdrawal.
ongoingOnceShipped == {"SHIPPING", "DELIVERED"}

\* OrdersService.hasOngoingOrdersByUserId: what bars a withdrawal
ongoingStatuses == {"PAID", "SHIPPING", "DELIVERED"}

\* UsersRepository.softDelete: what a withdrawal cancels on its way
unpaidStatuses == {"PENDING", "PAYMENT_PENDING"}

\* OrdersRepository.updateStatus: the timestamp column a status sets, if any
Timestamps == {"paidAt", "completedAt", "confirmedAt", "cancelledAt"}

timestampOf(s) ==
  CASE s = "PAID"                       -> {"paidAt"}
    [] s = "CONFIRMED"                  -> {"confirmedAt"}
    [] s = "DELIVERED"                  -> {"completedAt"}
    [] s \in {"CANCELLED", "REFUNDED"}  -> {"cancelledAt"}
    [] OTHER                            -> {}

-----------------------------------------------------------------------------
(***************************************************************************)
(* Vocabulary of the properties, not of the code.                          *)
(***************************************************************************)

\* An order that is still going somewhere.
LiveStatuses == {s \in OrderStatus : allowedTransitions[s] # {}}

\* Every way a status may be left, over all the endpoints: the table of
\* PATCH /orders/:id and the extra way out that cancel() grants.
Successors(s) ==
  allowedTransitions[s] \cup
  (IF s \in cancellableStatuses THEN {"CANCELLED"} ELSE {})
=============================================================================
