---------------------------- MODULE OrdersProofs -----------------------------
(***************************************************************************)
(* Theorems about Orders, for every set of orders and products and every   *)
(* MaxStock, with their proofs.                                            *)
(***************************************************************************)
EXTENDS Orders, TLAPS

(***************************************************************************)
(* What the proofs need to know of the table: an edge starts at a placed   *)
(* order that is not finished, never leads back to PLACED, and reaches     *)
(* DELIVERED only from OUT_FOR_DELIVERY.                                   *)
(***************************************************************************)
LEMMA EdgeFacts ==
  ASSUME NEW from, NEW to, NEW role, CanTransition(from, to, role)
  PROVE  /\ from \in OrderStatus \ TERMINAL_STATUSES
         /\ to \in OrderStatus \ {"PLACED"}
         /\ role \in Role
         /\ from # NotPlaced
  BY DEF CanTransition, TRANSITIONS, OrderStatus, TERMINAL_STATUSES, Role, NotPlaced

-----------------------------------------------------------------------------
(***************************************************************************)
(* What the actions write, given a typed state: one lemma for placing an   *)
(* order, one for transition_order.  The action proofs cite these.         *)
(***************************************************************************)
LEMMA ReleasedStockType ==
  ASSUME OrdersTypeOK, NEW o \in Orders
  PROVE  ReleasedStock(o) \in [Products -> Nat]
  BY DEF OrdersTypeOK, ProductTypeOK, ReleasedStock

LEMMA PlaceOrderType ==
  ASSUME OrdersTypeOK,
         NEW o \in Orders, NEW f \in [Products -> Nat], NEW m \in PaymentMethod,
         PlaceOrder(o, f, m)
  PROVE  OrdersTypeOK'
<1>1. stock' \in [Products -> Nat]
  <2>1. ASSUME NEW p \in Products
        PROVE  stock[p] - f[p] \in Nat
    <3>1. f[p] \in Nat /\ stock[p] \in Nat
      BY DEF OrdersTypeOK, ProductTypeOK
    <3>2. f[p] <= stock[p]
      BY <3>1 DEF PlaceOrder, InStock
    <3> QED
      BY <3>1, <3>2
  <2> QED
    BY <2>1 DEF PlaceOrder
<1>2. lines' \in [Orders -> [Products -> Nat]]
  BY DEF OrdersTypeOK, PlaceOrder
<1>3. /\ status' \in [Orders -> OrderStatus \cup {NotPlaced}]
      /\ method' \in [Orders -> PaymentMethod]
      /\ payment' \in [Orders -> PaymentStatus]
  BY DEF OrdersTypeOK, PlaceOrder, OrderStatus, PaymentStatus
<1>4. lastEvent' \in [Orders -> (OrderStatus \cup {NotPlaced})
                                \X (OrderStatus \cup {NotPlaced}) \X Role]
  BY DEF OrdersTypeOK, PlaceOrder, Placement, OrderStatus, Role
<1>5. live' \subseteq Products /\ cancelling' \subseteq Orders \X Role
  BY DEF OrdersTypeOK, ProductTypeOK, PlaceOrder
<1> QED
  BY <1>1, <1>2, <1>3, <1>4, <1>5 DEF OrdersTypeOK, ProductTypeOK

LEMMA TransitionOrderType ==
  ASSUME OrdersTypeOK, cancelling' \subseteq Orders \X Role,
         NEW o \in Orders, NEW target, NEW role,
         TransitionOrder(o, target, role)
  PROVE  OrdersTypeOK'
<1>1. /\ target \in OrderStatus
      /\ status[o] \in OrderStatus
      /\ role \in Role
  BY EdgeFacts DEF TransitionOrder
<1>2. stock' \in [Products -> Nat]
  BY ReleasedStockType
  DEF OrdersTypeOK, ProductTypeOK, TransitionOrder, WriteTransition
<1>3. SettledPayment(o, target) \in PaymentStatus
  BY DEF OrdersTypeOK, SettledPayment, PaymentStatus
<1>4. /\ status' \in [Orders -> OrderStatus \cup {NotPlaced}]
      /\ payment' \in [Orders -> PaymentStatus]
      /\ lastEvent' \in [Orders -> (OrderStatus \cup {NotPlaced})
                                   \X (OrderStatus \cup {NotPlaced}) \X Role]
  BY <1>1, <1>3 DEF OrdersTypeOK, TransitionOrder, WriteTransition
<1>5. UNCHANGED <<live, method, lines>>
  BY DEF TransitionOrder, WriteTransition
<1> QED
  BY <1>2, <1>4, <1>5 DEF OrdersTypeOK, ProductTypeOK

-----------------------------------------------------------------------------
(***************************************************************************)
(* Every action keeps the types.  The stock never goes below zero because  *)
(* PlaceOrder tests it in the transaction that takes from it.              *)
(***************************************************************************)
LEMMA TypeStep == OrdersTypeOK /\ [OrdersNext]_ordersVars => OrdersTypeOK'
<1> SUFFICES ASSUME OrdersTypeOK, [OrdersNext]_ordersVars
             PROVE  OrdersTypeOK'
  OBVIOUS
<1>1. ASSUME NEW p \in Products, DestroyProduct(p), UNCHANGED <<orderRows, cancelling>>
      PROVE  OrdersTypeOK'
  BY <1>1 DEF OrdersTypeOK, ProductTypeOK, DestroyProduct, orderRows
<1>2. ASSUME NEW p \in Products, NEW v \in 0..MaxStock, UpdateStock(p, v),
             UNCHANGED <<orderRows, cancelling>>
      PROVE  OrdersTypeOK'
  BY <1>2, MaxStockAssumption
  DEF OrdersTypeOK, ProductTypeOK, UpdateStock, orderRows
<1>3. ASSUME NEW o \in Orders, NEW f \in [Products -> 0..MaxStock],
             NEW m \in PaymentMethod, PlaceOrder(o, f, m)
      PROVE  OrdersTypeOK'
  <2>1. f \in [Products -> Nat]
    BY MaxStockAssumption
  <2> QED
    BY <1>3, <2>1, PlaceOrderType
<1>4. ASSUME NEW o \in Orders, NEW target, NEW role, Transition(o, target, role)
      PROVE  OrdersTypeOK'
  <2>1. TransitionOrder(o, target, role) /\ cancelling' \subseteq Orders \X Role
    BY <1>4 DEF Transition, OrdersTypeOK
  <2> QED
    BY <2>1, TransitionOrderType
<1>5. ASSUME NEW o \in Orders, NEW role \in {"CUSTOMER", "ADMIN"}, CancelRead(o, role)
      PROVE  OrdersTypeOK'
  BY <1>5 DEF OrdersTypeOK, ProductTypeOK, CancelRead, productRows, orderRows, Role
<1>6. ASSUME NEW o \in Orders, NEW role \in {"CUSTOMER", "ADMIN"}, CancelCommit(o, role)
      PROVE  OrdersTypeOK'
  <2>1. cancelling' \subseteq Orders \X Role
    BY <1>6 DEF CancelCommit, OrdersTypeOK
  <2>2. CASE TransitionOrder(o, "CANCELLED", role)
    BY <2>1, <2>2, TransitionOrderType
  <2>3. CASE UNCHANGED <<productRows, orderRows>>
    BY <2>1, <2>3 DEF OrdersTypeOK, ProductTypeOK, productRows, orderRows
  <2> QED
    BY <1>6, <2>2, <2>3 DEF CancelCommit
<1>7. CASE UNCHANGED ordersVars
  BY <1>7 DEF OrdersTypeOK, ProductTypeOK, ordersVars, productRows, orderRows
<1> QED
  BY <1>1, <1>2, <1>3, <1>4, <1>5, <1>6, <1>7
  DEF OrdersNext, ProductStep, OrderStep, OrderLifeStep

(***************************************************************************)
(* Every reachable state of the orders app is well typed; in particular no *)
(* sequence of orders, cancels and recounts makes stock_quantity negative. *)
(***************************************************************************)
THEOREM OrdersTypeCorrect == OrdersSpec => []OrdersTypeOK
<1>1. OrdersInit => OrdersTypeOK
  BY MaxStockAssumption
  DEF OrdersInit, ProductInit, OrderRowsInit, OrdersTypeOK, ProductTypeOK,
      NoLines, NoEvent, OrderStatus, PaymentStatus, PaymentMethod, Role
<1> QED
  BY <1>1, TypeStep, PTL DEF OrdersSpec

-----------------------------------------------------------------------------
(***************************************************************************)
(* The strengthening the other properties need: the newest audit entry     *)
(* ends at the status, and an order that is not placed has no lines.  It   *)
(* says nothing of payment_status, which has other writers, too.           *)
(***************************************************************************)
TrailEndsAtStatus == \A o \in Orders : status[o] = lastEvent[o][2]

UnplacedHasNoLines == \A o \in Orders : status[o] = NotPlaced => lines[o] = NoLines

TrailInv ==
  /\ OrdersTypeOK
  /\ TrailEndsAtStatus
  /\ UnplacedHasNoLines

LEMMA PlaceOrderTrail ==
  ASSUME TrailInv, OrdersTypeOK',
         NEW o \in Orders, NEW f, NEW m, PlaceOrder(o, f, m)
  PROVE  TrailInv'
<1>1. TrailEndsAtStatus'
  BY DEF TrailInv, OrdersTypeOK, TrailEndsAtStatus, PlaceOrder, Placement
<1>2. UnplacedHasNoLines'
  BY DEF TrailInv, OrdersTypeOK, UnplacedHasNoLines, PlaceOrder, NotPlaced, NoLines
<1> QED
  BY <1>1, <1>2 DEF TrailInv

LEMMA TransitionOrderTrail ==
  ASSUME TrailInv, OrdersTypeOK',
         NEW o \in Orders, NEW target, NEW role, TransitionOrder(o, target, role)
  PROVE  TrailInv'
<1>1. status[o] \in OrderStatus /\ target \in OrderStatus
  BY EdgeFacts DEF TransitionOrder
<1>2. TrailEndsAtStatus'
  BY DEF TrailInv, OrdersTypeOK, TrailEndsAtStatus, TransitionOrder, WriteTransition
<1>3. UnplacedHasNoLines'
  BY <1>1
  DEF TrailInv, OrdersTypeOK, UnplacedHasNoLines, TransitionOrder, WriteTransition,
      NotPlaced, NoLines, OrderStatus
<1> QED
  BY <1>2, <1>3 DEF TrailInv

\* Steps that touch no order row, or only payment_status, keep the trail.
LEMMA SameTrail ==
  ASSUME TrailInv, OrdersTypeOK', UNCHANGED <<status, lines, lastEvent>>
  PROVE  TrailInv'
  BY DEF TrailInv, TrailEndsAtStatus, UnplacedHasNoLines, NoLines

\* What a step of the orders app comes down to.
LEMMA OrdersStepKinds ==
  ASSUME [OrdersNext]_ordersVars
  PROVE  \/ UNCHANGED orderRows
         \/ \E o \in Orders : \E f, m : PlaceOrder(o, f, m)
         \/ \E o \in Orders : \E target, role : TransitionOrder(o, target, role)
BY DEF OrdersNext, ProductStep, OrderStep, OrderLifeStep, Transition, CancelRead,
       CancelCommit, ordersVars

LEMMA TrailStep == TrailInv /\ [OrdersNext]_ordersVars => TrailInv'
BY TypeStep, OrdersStepKinds, PlaceOrderTrail, TransitionOrderTrail, SameTrail
DEF TrailInv, orderRows

LEMMA TrailInit == OrdersInit => TrailInv
<1>1. OrdersInit => OrdersTypeOK
  BY MaxStockAssumption
  DEF OrdersInit, ProductInit, OrderRowsInit, OrdersTypeOK, ProductTypeOK,
      NoLines, NoEvent, OrderStatus, PaymentStatus, PaymentMethod, Role
<1> QED
  BY <1>1
  DEF OrdersInit, OrderRowsInit, TrailInv, TrailEndsAtStatus, NoEvent,
      UnplacedHasNoLines, NotPlaced

LEMMA OrdersInvariant == OrdersSpec => []TrailInv
BY TrailInit, TrailStep, PTL DEF OrdersSpec

LEMMA StepsAreAudited ==
  ASSUME TrailInv, TrailInv', [OrdersNext]_ordersVars, NEW x \in Orders
  PROVE  AuditedStep(x)
<1>1. /\ status'[x] = lastEvent'[x][2]
      /\ status'[x] # status[x] => lastEvent'[x] # lastEvent[x]
  BY DEF TrailInv, TrailEndsAtStatus
<1>2. ASSUME NEW o \in Orders, NEW f, NEW m, PlaceOrder(o, f, m),
             lastEvent'[x] # lastEvent[x]
      PROVE  lastEvent'[x][1] = status[x] /\ lastEvent'[x] = Placement
  BY <1>2 DEF TrailInv, OrdersTypeOK, PlaceOrder, Placement
<1>3. ASSUME NEW o \in Orders, NEW target, NEW role,
             TransitionOrder(o, target, role), lastEvent'[x] # lastEvent[x]
      PROVE  lastEvent'[x][1] = status[x] /\ lastEvent'[x] \in TRANSITIONS
  BY <1>3 DEF TrailInv, OrdersTypeOK, TransitionOrder, WriteTransition, CanTransition
<1>4. lastEvent'[x] # lastEvent[x] =>
        /\ lastEvent'[x][1] = status[x]
        /\ lastEvent'[x] \in TRANSITIONS \cup {Placement}
  BY <1>2, <1>3, OrdersStepKinds DEF orderRows
<1> QED
  BY <1>1, <1>4 DEF AuditedStep

(***************************************************************************)
(* The audit trail records every change of status, as the change that      *)
(* really happened, made by a role entitled to it.                         *)
(***************************************************************************)
THEOREM AuditTrail == OrdersSpec => AuditTrailIntact
<1>1. TrailInv /\ TrailInv' /\ [OrdersNext]_ordersVars
        => [\A o \in Orders : AuditedStep(o)]_ordersVars
  BY StepsAreAudited
<1> QED
  BY <1>1, OrdersInvariant, PTL DEF OrdersSpec, AuditTrailIntact

-----------------------------------------------------------------------------
(***************************************************************************)
(* The refinement of Inventory.  Held is what an order has taken and not   *)
(* returned; each lemma maps one kind of step.                             *)
(***************************************************************************)
LEMMA PlaceOrderTakes ==
  ASSUME TrailInv, NEW o \in Orders, NEW f \in [Products -> Nat], NEW m,
         PlaceOrder(o, f, m)
  PROVE  Shelf!Take(o)
<1>1. Held[o] = Shelf!Nothing
  BY DEF TrailInv, UnplacedHasNoLines, PlaceOrder, Held, Shelf!Nothing, NoLines
<1>2. \A p \in Products : Held'[o][p] = f[p]
  BY DEF TrailInv, OrdersTypeOK, PlaceOrder, InStock, Held
<1>3. Held' = [Held EXCEPT ![o] = Held'[o]]
  BY DEF TrailInv, OrdersTypeOK, PlaceOrder, Held
<1>4. \A p \in Products : f[p] \in 0..stock[p]
  <2> SUFFICES ASSUME NEW p \in Products
               PROVE  f[p] \in 0..stock[p]
    OBVIOUS
  <2>1. f[p] \in Nat /\ stock[p] \in Nat
    BY DEF TrailInv, OrdersTypeOK, ProductTypeOK
  <2> QED
    BY <2>1 DEF PlaceOrder, InStock
<1>5. stock' = [p \in Products |-> stock[p] - Held'[o][p]]
  BY <1>2 DEF PlaceOrder
<1>6. UNCHANGED live
  BY DEF PlaceOrder
<1>7. orderRows' # orderRows
  BY DEF PlaceOrder, TrailInv, OrdersTypeOK, NotPlaced, orderRows
<1> QED
  BY <1>1, <1>2, <1>3, <1>4, <1>5, <1>6, <1>7 DEF Shelf!Take

LEMMA TransitionOrderGivesBackOrWrites ==
  ASSUME TrailInv, NEW o \in Orders, NEW target, NEW role,
         TransitionOrder(o, target, role)
  PROVE  Shelf!GiveBack(o) \/ Shelf!Write
<1>1. /\ status[o] \notin {"CANCELLED", "REJECTED"}
      /\ UNCHANGED <<live, lines>>
      /\ status' = [status EXCEPT ![o] = target]
  BY EdgeFacts
  DEF TransitionOrder, WriteTransition, OrderStatus, TERMINAL_STATUSES
<1>2. CASE target \in STOCK_RELEASING_STATUSES
  <2>1. stock' = [p \in Products |-> stock[p] + Held[o][p]]
    <3>1. stock' = ReleasedStock(o)
      BY <1>2 DEF TransitionOrder, WriteTransition
    <3>2. ASSUME NEW p \in Products
          PROVE  ReleasedStock(o)[p] = stock[p] + Held[o][p]
      BY <1>1 DEF ReleasedStock, Held, TrailInv, OrdersTypeOK, ProductTypeOK
    <3> QED
      BY <3>1, <3>2 DEF ReleasedStock
  <2>2. Held' = [Held EXCEPT ![o] = Shelf!Nothing]
    BY <1>1, <1>2
    DEF Held, Shelf!Nothing, STOCK_RELEASING_STATUSES, TrailInv, OrdersTypeOK
  <2>3. orderRows' # orderRows
    BY <1>1, <1>2 DEF STOCK_RELEASING_STATUSES, TrailInv, OrdersTypeOK, orderRows
  <2> QED
    BY <1>1, <2>1, <2>2, <2>3 DEF Shelf!GiveBack
<1>3. CASE target \notin STOCK_RELEASING_STATUSES
  <2>1. stock' = stock
    BY <1>3 DEF TransitionOrder, WriteTransition
  <2>2. Held' = Held
    BY <1>1, <1>3 DEF Held, STOCK_RELEASING_STATUSES, TrailInv, OrdersTypeOK
  <2> QED
    BY <1>1, <2>1, <2>2 DEF Shelf!Write
<1> QED
  BY <1>2, <1>3

LEMMA ProductStepMaps ==
  ASSUME TrailInv, ProductStep
  PROVE  \E p \in Products : Shelf!Recount(p) \/ Shelf!Discontinue(p)
<1>1. ASSUME NEW p \in Products, DestroyProduct(p), UNCHANGED orderRows
      PROVE  Shelf!Discontinue(p)
  BY <1>1 DEF DestroyProduct, orderRows, Shelf!Discontinue, Held
<1>2. ASSUME NEW p \in Products, NEW v \in 0..MaxStock, UpdateStock(p, v),
             UNCHANGED orderRows
      PROVE  Shelf!Recount(p)
  <2>1. stock'[p] \in Nat /\ stock' = [stock EXCEPT ![p] = stock'[p]]
    BY <1>2, MaxStockAssumption DEF UpdateStock, TrailInv, OrdersTypeOK, ProductTypeOK
  <2>2. UNCHANGED <<live, Held, orderRows>>
    BY <1>2 DEF UpdateStock, orderRows, Held
  <2> QED
    BY <1>2, <2>1, <2>2 DEF Shelf!Recount, UpdateStock
<1> QED
  BY <1>1, <1>2 DEF ProductStep

LEMMA OrdersInitMaps == OrdersInit => Shelf!Init
  BY MaxStockAssumption
  DEF OrdersInit, ProductInit, OrderRowsInit, Shelf!Init, Shelf!Nothing, Held, NoLines

LEMMA OrdersStepMaps ==
  ASSUME TrailInv, [OrdersNext]_ordersVars
  PROVE  [Shelf!Next]_(Shelf!vars)
<1>1. ASSUME NEW o \in Orders, NEW f \in [Products -> 0..MaxStock], NEW m,
             PlaceOrder(o, f, m)
      PROVE  Shelf!Next
  <2>1. f \in [Products -> Nat]
    BY MaxStockAssumption
  <2> QED
    BY <1>1, <2>1, PlaceOrderTakes DEF Shelf!Next
<1>2. ASSUME NEW o \in Orders, NEW target, NEW role, TransitionOrder(o, target, role)
      PROVE  [Shelf!Next]_(Shelf!vars)
  BY <1>2, TransitionOrderGivesBackOrWrites DEF Shelf!Next
<1>3. CASE UNCHANGED <<productRows, orderRows>>
  BY <1>3 DEF productRows, orderRows, Shelf!vars, Held
<1>4. CASE ProductStep
  BY <1>4, ProductStepMaps DEF Shelf!Next
<1> QED
  BY <1>1, <1>2, <1>3, <1>4
  DEF OrdersNext, OrderStep, OrderLifeStep, Transition, CancelRead, CancelCommit,
      ordersVars

(***************************************************************************)
(* The orders app implements Inventory: whatever cancels, rejections and   *)
(* transitions race, an order's units leave the shelf once and come back   *)
(* at most once, and it never takes more than the shelf has.               *)
(***************************************************************************)
THEOREM InventoryRefinement == OrdersSpec => InventoryKept
<1>1. TrailInv /\ [OrdersNext]_ordersVars => [Shelf!Next]_(Shelf!vars)
  BY OrdersStepMaps
<1> QED
  BY <1>1, OrdersInitMaps, OrdersInvariant, PTL DEF OrdersSpec, InventoryKept, Shelf!Spec

==============================================================================
