---------------------------- MODULE OrderLifecycle ----------------------------
(***************************************************************************)
(* What the marketplace promises about an order, whatever requests overlap *)
(* and whichever of them die half-way: an order starts PENDING, and it     *)
(* takes a status only after it has held one from which the rules lead     *)
(* there.  The promise is about the statuses an order has ever held, not   *)
(* the one it holds: a request may act on a status that has since changed. *)
(***************************************************************************)
EXTENDS OrderRules

CONSTANT Orders

VARIABLE seen   \* order id -> the statuses the order has held

Init == seen = [o \in Orders |-> {}]

Open(before, after) == before = {} /\ after = {"PENDING"}

Advance(before, after) ==
  \E from \in before, to \in OrderStatus :
    to \in Successors(from) /\ after = before \cup {to}

\* Several orders may move at once: a withdrawal cancels all that are unpaid.
Next ==
  /\ seen' \in [Orders -> SUBSET OrderStatus]
  /\ \A o \in Orders : \/ seen'[o] = seen[o]
                       \/ Open(seen[o], seen'[o])
                       \/ Advance(seen[o], seen'[o])

Spec == Init /\ [][Next]_seen
=============================================================================
