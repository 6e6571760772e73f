----------------------------- MODULE OrderStates -----------------------------
(***************************************************************************)
(* The vocabulary of an order: its statuses, the roles of the people who   *)
(* move it, and the table of moves.  Pure definitions, no state.           *)
(***************************************************************************)

Role == {"CUSTOMER", "SHOPKEEPER", "DELIVERY_PARTNER", "ADMIN"}

OrderStatus == {"PLACED", "ACCEPTED", "PREPARING", "READY_FOR_PICKUP",
                "ASSIGNED", "PICKED_UP", "OUT_FOR_DELIVERY", "DELIVERED",
                "CANCELLED", "REJECTED"}

PaymentStatus == {"PENDING", "PAID", "FAILED", "REFUNDED"}

PaymentMethod == {"ONLINE", "COD"}

TERMINAL_STATUSES == {"DELIVERED", "CANCELLED", "REJECTED"}

\* Reaching one of these returns the order's units to the shelf.
STOCK_RELEASING_STATUSES == {"CANCELLED", "REJECTED"}

\* The row that does not exist yet; also the from_status of an order's first
\* audit entry, the empty string of the code.
NotPlaced == "NOT_PLACED"

\* The edges of the order graph, each with the roles that may walk it, as a set
\* of <<from, to, role>>.
TRANSITIONS ==
  UNION {
    {"PLACED"}    \X {"ACCEPTED", "REJECTED"}  \X {"SHOPKEEPER", "ADMIN"},
    {"PLACED"}    \X {"CANCELLED"}             \X {"CUSTOMER", "ADMIN"},
    {"ACCEPTED"}  \X {"PREPARING", "REJECTED"} \X {"SHOPKEEPER", "ADMIN"},
    {"ACCEPTED"}  \X {"CANCELLED"}             \X {"CUSTOMER", "ADMIN"},
    {"PREPARING"} \X {"READY_FOR_PICKUP"}      \X {"SHOPKEEPER", "ADMIN"},
    {"PREPARING"} \X {"CANCELLED"}             \X {"ADMIN"},
    {"READY_FOR_PICKUP"} \X {"ASSIGNED", "CANCELLED"} \X {"ADMIN"},
    {"ASSIGNED"}  \X {"PICKED_UP"}             \X {"DELIVERY_PARTNER", "ADMIN"},
    {"ASSIGNED"}  \X {"CANCELLED"}             \X {"ADMIN"},
    {"PICKED_UP"} \X {"OUT_FOR_DELIVERY"}      \X {"DELIVERY_PARTNER", "ADMIN"},
    {"OUT_FOR_DELIVERY"} \X {"DELIVERED"}      \X {"DELIVERY_PARTNER", "ADMIN"}}

\* assert_can_transition returns instead of raising.
CanTransition(from, to, role) == <<from, to, role>> \in TRANSITIONS

==============================================================================
