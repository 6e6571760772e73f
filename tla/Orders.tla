------------------------------- MODULE Orders --------------------------------
(***************************************************************************)
(* The orders app: placing an order takes its units off the shelf, and     *)
(* every later change of status goes through transition_order.             *)
(*                                                                         *)
(* A service function decorated with transaction.atomic is one action: the *)
(* database is SQLite, which runs writing transactions one after another   *)
(* and makes a loser abort without effect.  What a view reads before it    *)
(* calls the service is not in that transaction, so an endpoint whose      *)
(* service trusts such a read is two actions with a request in flight in   *)
(* between (here: cancel).  A request that raises changes nothing and is   *)
(* no step.                                                                *)
(***************************************************************************)
EXTENDS OrderStates, Products

CONSTANT Orders     \* order ids

VARIABLES
  status,           \* Order.status, NotPlaced while there is no row
  method,           \* Order.payment_method
  payment,          \* Order.payment_status
  lines,            \* OrderItem rows: units of each product
  lastEvent,        \* the newest OrderStatusEvent row: <<from, to, role>>
  cancelling        \* cancel requests in flight, past their status check

orderRows == <<status, method, payment, lines, lastEvent>>
ordersVars == <<productRows, orderRows, cancelling>>

NoLines == [p \in Products |-> 0]
Placement == <<NotPlaced, "PLACED", "CUSTOMER">>
NoEvent == <<NotPlaced, NotPlaced, "CUSTOMER">>

OrdersTypeOK ==
  /\ ProductTypeOK
  /\ status \in [Orders -> OrderStatus \cup {NotPlaced}]
  /\ method \in [Orders -> PaymentMethod]
  /\ payment \in [Orders -> PaymentStatus]
  /\ lines \in [Orders -> [Products -> Nat]]
  /\ lastEvent \in [Orders -> (OrderStatus \cup {NotPlaced})
                             \X (OrderStatus \cup {NotPlaced}) \X Role]
  /\ cancelling \subseteq Orders \X Role

OrderRowsInit ==
  /\ status = [o \in Orders |-> NotPlaced]
  /\ method = [o \in Orders |-> "ONLINE"]
  /\ payment = [o \in Orders |-> "PENDING"]
  /\ lines = [o \in Orders |-> NoLines]
  /\ lastEvent = [o \in Orders |-> NoEvent]
  /\ cancelling = {}

OrdersInit == ProductInit /\ OrderRowsInit

-----------------------------------------------------------------------------
(***************************************************************************)
(* Seeded faults: what a slip would make of a definition below.  No        *)
(* specification uses them; each breaks a property stated at the end.      *)
(***************************************************************************)
\* InStock comparing with <= stock + 1.
InStockOffByOne(f) ==
  \A p \in Products : f[p] > 0 => p \in live /\ f[p] <= stock[p] + 1

-----------------------------------------------------------------------------
\* The item loop of place_order: every row is there and has the units.
InStock(f) == \A p \in Products : f[p] > 0 => p \in live /\ f[p] <= stock[p]

(***************************************************************************)
(* place_order, from the point where the cart has been validated: f is the *)
(* cart's content.  (Checkout.tla adds the cart.)                          *)
(***************************************************************************)
PlaceOrder(o, f, m) ==
  /\ status[o] = NotPlaced
  /\ f # NoLines
  /\ InStock(f)
  /\ status' = [status EXCEPT ![o] = "PLACED"]
  /\ method' = [method EXCEPT ![o] = m]
  /\ payment' = [payment EXCEPT ![o] = "PENDING"]
  /\ lines' = [lines EXCEPT ![o] = f]
  /\ stock' = [p \in Products |-> stock[p] - f[p]]
  /\ lastEvent' = [lastEvent EXCEPT ![o] = Placement]
  /\ UNCHANGED <<live, cancelling>>

\* _release_stock: an item whose product was deleted has nothing to return to.
ReleasedStock(o) ==
  [p \in Products |-> IF p \in live THEN stock[p] + lines[o][p] ELSE stock[p]]

\* The cash is in once a COD order is delivered.
SettledPayment(o, target) ==
  IF target = "DELIVERED" /\ method[o] = "COD" THEN "PAID" ELSE payment[o]

\* What transition_order writes: status, stock, payment_status, audit entry.
WriteTransition(o, target, role) ==
  /\ status' = [status EXCEPT ![o] = target]
  /\ stock' = IF target \in STOCK_RELEASING_STATUSES
                THEN ReleasedStock(o) ELSE stock
  /\ payment' = [payment EXCEPT ![o] = SettledPayment(o, target)]
  /\ lastEvent' = [lastEvent EXCEPT ![o] = <<status[o], target, role>>]
  /\ UNCHANGED <<live, method, lines>>

\* Seeded fault: to ask for the status the order already has is let through, so
\* that the second of two cancels returns the units again.
TransitionOrderAgain(o, target, role) ==
  /\ CanTransition(status[o], target, role) \/ target = status[o]
  /\ WriteTransition(o, target, role)

\* transition_order reads the row again inside its transaction and asserts the
\* edge before it writes.
TransitionOrder(o, target, role) ==
  /\ CanTransition(status[o], target, role)
  /\ WriteTransition(o, target, role)

\* POST /api/orders/<id>/transition/
Transition(o, target, role) ==
  /\ TransitionOrder(o, target, role)
  /\ UNCHANGED cancelling

\* POST /api/orders/<id>/cancel/: the view reads the order, and cancel_order
\* checks that status ...
CancelRead(o, role) ==
  /\ status[o] \in {"PLACED", "ACCEPTED"}
  /\ cancelling' = cancelling \cup {<<o, role>>}
  /\ UNCHANGED <<productRows, orderRows>>

\* ... before transition_order opens the transaction: it cancels, or refuses.
\* Another request that has read the same may still be there.
CancelCommit(o, role) ==
  /\ <<o, role>> \in cancelling
  /\ cancelling' \in {cancelling \ {<<o, role>>}, cancelling}
  /\ \/ TransitionOrder(o, "CANCELLED", role)
     \/ /\ ~CanTransition(status[o], "CANCELLED", role)
        /\ UNCHANGED <<productRows, orderRows>>

-----------------------------------------------------------------------------
\* Who reaches an order without being assigned its delivery: get_queryset shows
\* a delivery partner only the orders assigned to him (see Fulfilment.tla).
EndpointRoles == {"CUSTOMER", "SHOPKEEPER", "ADMIN"}

ProductStep ==
  /\ \E p \in Products : DestroyProduct(p) \/ \E v \in 0..MaxStock : UpdateStock(p, v)
  /\ UNCHANGED <<orderRows, cancelling>>

\* What can happen to an order once it is placed.
OrderLifeStep(o) ==
  \/ \E target \in OrderStatus, role \in EndpointRoles : Transition(o, target, role)
  \/ \E role \in {"CUSTOMER", "ADMIN"} : CancelRead(o, role) \/ CancelCommit(o, role)

OrderStep ==
  \E o \in Orders :
    \/ \E f \in [Products -> 0..MaxStock], m \in PaymentMethod : PlaceOrder(o, f, m)
    \/ OrderLifeStep(o)

OrdersNext == ProductStep \/ OrderStep

OrdersSpec == OrdersInit /\ [][OrdersNext]_ordersVars

-----------------------------------------------------------------------------
(***************************************************************************)
(* The audit trail tells the whole truth: an order changes status only     *)
(* with a new entry, the entry starts at the status the order really had   *)
(* and ends at the one it gets, and it is the order's placement or an edge *)
(* that the entry's role may walk.  (Two cancels, or a cancel and another  *)
(* transition, may race: transition_order reads the row again, so neither  *)
(* writes from a status that is gone.)                                     *)
(***************************************************************************)
AuditedStep(o) ==
  /\ lastEvent'[o] # lastEvent[o] =>
       /\ lastEvent'[o][1] = status[o]
       /\ lastEvent'[o] \in TRANSITIONS \cup {Placement}
  /\ status'[o] # status[o] => lastEvent'[o] # lastEvent[o]
  /\ status'[o] = lastEvent'[o][2]

AuditTrailIntact == [][\A o \in Orders : AuditedStep(o)]_ordersVars

(***************************************************************************)
(* What an order has taken and not returned, for Inventory: its lines,     *)
(* until it is cancelled or rejected.                                      *)
(***************************************************************************)
Held ==
  [o \in Orders |-> [p \in Products |->
     IF p \in live /\ status[o] \notin {"CANCELLED", "REJECTED"}
       THEN lines[o][p] ELSE 0]]

Shelf == INSTANCE Inventory WITH shelf <- stock, held <- Held, books <- orderRows

\* Orders keep the inventory's promise: stock leaves the shelf once, when the
\* order is placed, and returns once, when the order is cancelled or rejected,
\* whatever races on the way; no order takes more than there is.  (A second
\* return is no recount: it comes with a new audit entry.)
InventoryKept == Shelf!Spec

==============================================================================
