--------------------------- MODULE CheckoutProofs ----------------------------
(***************************************************************************)
(* Theorems about Carts and about Checkout, for every set of customers,    *)
(* shops, products and orders.  What carts and orders promise apart they   *)
(* promise together: a step of Checkout is one of Carts, or of an order's  *)
(* later life, whose lemmas are used here, or place_order.                 *)
(***************************************************************************)
EXTENDS LockedCheckout, OrdersProofs

-----------------------------------------------------------------------------
(***************************************************************************)
(* Carts: types, and the one-shop rule when no customer adds to a cart     *)
(* while his own DELETE of it is running.                                  *)
(***************************************************************************)
LEMMA CartsTypeStep == CartsTypeOK /\ [CartsNext]_cartsVars => CartsTypeOK'
<1> SUFFICES ASSUME CartsTypeOK, [CartsNext]_cartsVars
             PROVE  CartsTypeOK'
  OBVIOUS
<1> USE DEF CartsTypeOK, ProductTypeOK
<1>1. ASSUME NEW c \in Customers, NEW p \in Products, NEW q \in 1..MaxStock,
             NEW replace \in BOOLEAN, AddItem(c, p, q, replace)
      PROVE  CartsTypeOK'
  <2>1. /\ UNCHANGED <<productRows, shopFlags, clearing>>
        /\ cartShop' = [cartShop EXCEPT ![c] = ShopOf[p]]
        /\ \E kept \in {EmptyLines, cartQty[c]} :
             cartQty' = [cartQty EXCEPT ![c] = [kept EXCEPT ![p] = @ + q]]
    BY <1>1 DEF AddItem, AttachedShop
  <2>2. cartShop' \in [Customers -> Shops \cup {NoShop}]
    BY <2>1, CartsAssumption
  <2>3. cartQty' \in [Customers -> [Products -> Nat]]
    <3>1. EmptyLines \in [Products -> Nat]
      BY DEF EmptyLines
    <3>2. q \in Nat
      BY MaxStockAssumption
    <3> QED
      BY <2>1, <3>1, <3>2
  <2> QED
    BY <2>1, <2>2, <2>3 DEF productRows, shopFlags
<1>2. ASSUME NEW c \in Customers, NEW p \in Products, NEW q \in 0..MaxStock,
             SetItemQuantity(c, p, q)
      PROVE  CartsTypeOK'
  BY <1>2, MaxStockAssumption DEF SetItemQuantity, productRows, shopFlags
<1>3. ASSUME NEW c \in Customers, ClearDeleteRows(c) \/ ClearDetachShop(c)
      PROVE  CartsTypeOK'
  BY <1>3 DEF ClearDeleteRows, ClearDetachShop, EmptyLines, productRows, shopFlags
<1>4. ASSUME NEW s \in Shops, ModerateShop(s) \/ UpdateShopProfile(s)
      PROVE  CartsTypeOK'
  BY <1>4 DEF ModerateShop, UpdateShopProfile, productRows, cartRows
<1>5. ASSUME NEW p \in Products, SetAvailability(p)
      PROVE  CartsTypeOK'
  BY <1>5 DEF SetAvailability, productRows, cartRows
<1>6. ASSUME NEW p \in Products, NEW v \in 0..MaxStock, SetStock(p, v)
      PROVE  CartsTypeOK'
  BY <1>6, MaxStockAssumption DEF SetStock, UpdateStock, shopFlags, cartRows
<1>7. ASSUME NEW p \in Products, DeleteProduct(p)
      PROVE  CartsTypeOK'
  BY <1>7 DEF DeleteProduct, DestroyProduct, shopFlags
<1>8. CASE UNCHANGED cartsVars
  BY <1>8 DEF cartsVars, productRows, shopFlags, cartRows
<1> QED
  BY <1>1, <1>2, <1>3, <1>4, <1>5, <1>6, <1>7, <1>8
  DEF CartsNext, CustomerStep, ShopStep

LEMMA CartsTypeInit == CartsInit => CartsTypeOK
  BY MaxStockAssumption
  DEF CartsInit, ProductInit, CartRowsInit, CartsTypeOK, ProductTypeOK, EmptyLines

(***************************************************************************)
(* Every reachable state of the carts is well typed.                       *)
(***************************************************************************)
THEOREM CartsTypeCorrect == CartsSpec => []CartsTypeOK
  BY CartsTypeInit, CartsTypeStep, PTL DEF CartsSpec

-----------------------------------------------------------------------------
(***************************************************************************)
(* The one-shop rule.  Inductive only together with: while a customer's    *)
(* DELETE is between its two statements, his cart has no lines.            *)
(***************************************************************************)
ClearingIsEmpty ==
  \A c \in clearing : \A p \in Products : cartQty[c][p] = 0

SerialInv == CartsTypeOK /\ AttachedToItsShop /\ ClearingIsEmpty

LEMMA SerialStep == SerialInv /\ [SerialCartsNext]_cartsVars => SerialInv'
<1> SUFFICES ASSUME SerialInv, [SerialCartsNext]_cartsVars
             PROVE  AttachedToItsShop' /\ ClearingIsEmpty'
  BY CartsTypeStep DEF SerialInv, SerialCartsNext
<1> USE DEF SerialInv, CartsTypeOK, ProductTypeOK, AttachedToItsShop, ClearingIsEmpty,
            EmptyLines
<1>1. ASSUME NEW c \in Customers, NEW p \in Products, NEW q \in 1..MaxStock,
             NEW replace \in BOOLEAN, AddItem(c, p, q, replace),
             \A d \in clearing : cartQty'[d] = EmptyLines
      PROVE  AttachedToItsShop' /\ ClearingIsEmpty'
  <2>1. /\ UNCHANGED clearing
        /\ cartShop' = [cartShop EXCEPT ![c] = ShopOf[p]]
    BY <1>1 DEF AddItem, AttachedShop
  <2>2. \A r \in Products : cartQty'[c][r] > 0 => ShopOf[r] = ShopOf[p]
    <3>1. CASE DifferentShop(c, p)
      BY <1>1, <3>1 DEF AddItem
    <3>2. CASE ~DifferentShop(c, p)
      <4>1. \A r \in Products : cartQty[c][r] > 0 => ShopOf[r] = ShopOf[p]
        BY <3>2, CartsAssumption DEF DifferentShop, HasItems
      <4>2. \A r \in Products \ {p} : cartQty'[c][r] = cartQty[c][r]
        BY <1>1, <3>2 DEF AddItem
      <4> QED
        BY <4>1, <4>2
    <3> QED
      BY <3>1, <3>2
  <2>3. \A d \in Customers \ {c} : cartQty'[d] = cartQty[d]
    BY <1>1 DEF AddItem
  <2> QED
    BY <1>1, <2>1, <2>2, <2>3
<1>2. ASSUME NEW c \in Customers, NEW p \in Products, NEW q \in 0..MaxStock,
             SetItemQuantity(c, p, q)
      PROVE  AttachedToItsShop' /\ ClearingIsEmpty'
  <2>1. /\ UNCHANGED clearing
        /\ \A d \in Customers \ {c} : cartQty'[d] = cartQty[d] /\ cartShop'[d] = cartShop[d]
        /\ \A r \in Products \ {p} : cartQty'[c][r] = cartQty[c][r]
        /\ cartQty[c][p] > 0
    BY <1>2 DEF SetItemQuantity
  <2>2. \A r \in Products : cartQty'[c][r] > 0 => cartShop'[c] = ShopOf[r]
    <3>1. \A r \in Products : cartQty'[c][r] > 0 => cartShop'[c] = cartShop[c]
      BY <1>2 DEF SetItemQuantity
    <3> QED
      BY <2>1, <3>1
  <2>3. c \notin clearing
    BY <2>1
  <2>4. AttachedToItsShop'
    BY <2>1, <2>2
  <2>5. ClearingIsEmpty'
    BY <2>1, <2>3
  <2> QED
    BY <2>4, <2>5
<1>3. ASSUME NEW c \in Customers, ClearDeleteRows(c)
      PROVE  AttachedToItsShop' /\ ClearingIsEmpty'
  BY <1>3 DEF ClearDeleteRows
<1>4. ASSUME NEW c \in Customers, ClearDetachShop(c)
      PROVE  AttachedToItsShop' /\ ClearingIsEmpty'
  BY <1>4 DEF ClearDetachShop
<1>5. ASSUME NEW p \in Products, DeleteProduct(p)
      PROVE  AttachedToItsShop' /\ ClearingIsEmpty'
  <2>1. /\ UNCHANGED <<cartShop, clearing>>
        /\ \A d \in Customers, r \in Products :
             cartQty'[d][r] = IF r = p THEN 0 ELSE cartQty[d][r]
    BY <1>5 DEF DeleteProduct
  <2> QED
    BY <2>1
<1>6. CASE UNCHANGED cartRows
  BY <1>6 DEF cartRows
<1> HIDE DEF SerialInv, CartsTypeOK, ProductTypeOK, AttachedToItsShop, ClearingIsEmpty,
             EmptyLines
<1>7. CASE CustomerStep /\ \A d \in clearing : cartQty'[d] = EmptyLines
  BY <1>1, <1>2, <1>3, <1>4, <1>7 DEF CustomerStep
<1>8. CASE ShopStep
  BY <1>5, <1>6, <1>8
  DEF ShopStep, ModerateShop, UpdateShopProfile, SetAvailability, SetStock
<1> QED
  BY <1>6, <1>7, <1>8 DEF SerialCartsNext, CartsNext, cartsVars

(***************************************************************************)
(* A cart with lines is attached to the shop they all come from, as long   *)
(* as no customer adds to a cart he is just clearing.                      *)
(***************************************************************************)
THEOREM OneShopPerCart == SerialCartsSpec => [](AttachedToItsShop /\ SingleShop)
<1>1. CartsInit => SerialInv
  BY CartsTypeInit
  DEF CartsInit, CartRowsInit, SerialInv, AttachedToItsShop, ClearingIsEmpty, EmptyLines
<1>2. SerialInv => AttachedToItsShop /\ SingleShop
  BY DEF SerialInv, AttachedToItsShop, SingleShop
<1> QED
  BY <1>1, <1>2, SerialStep, PTL DEF SerialCartsSpec

-----------------------------------------------------------------------------
LEMMA NoDeadLineStep ==
  CartsTypeOK /\ NoLineOfDeletedProduct /\ [CartsNext]_cartsVars => NoLineOfDeletedProduct'
<1> SUFFICES ASSUME CartsTypeOK, NoLineOfDeletedProduct, [CartsNext]_cartsVars
             PROVE  NoLineOfDeletedProduct'
  OBVIOUS
<1> USE DEF CartsTypeOK, ProductTypeOK, NoLineOfDeletedProduct, EmptyLines
<1>1. ASSUME NEW c \in Customers, NEW p \in Products, NEW q \in 1..MaxStock,
             NEW replace \in BOOLEAN, AddItem(c, p, q, replace)
      PROVE  NoLineOfDeletedProduct'
  BY <1>1 DEF AddItem, productRows
<1>2. ASSUME NEW c \in Customers, NEW p \in Products, NEW q \in 0..MaxStock,
             SetItemQuantity(c, p, q)
      PROVE  NoLineOfDeletedProduct'
  BY <1>2 DEF SetItemQuantity, productRows
<1>3. ASSUME NEW c \in Customers, ClearDeleteRows(c) \/ ClearDetachShop(c)
      PROVE  NoLineOfDeletedProduct'
  BY <1>3 DEF ClearDeleteRows, ClearDetachShop, productRows
<1>4. ASSUME NEW p \in Products, DeleteProduct(p)
      PROVE  NoLineOfDeletedProduct'
  BY <1>4 DEF DeleteProduct, DestroyProduct
<1>5. CASE UNCHANGED <<live, cartRows>>
  BY <1>5 DEF cartRows
<1> QED
  BY <1>1, <1>2, <1>3, <1>4, <1>5
  DEF CartsNext, CustomerStep, ShopStep, ModerateShop, UpdateShopProfile,
      SetAvailability, SetStock, UpdateStock, cartsVars, productRows

(***************************************************************************)
(* No cart ever holds a product whose row is gone: deleting a product      *)
(* takes its cart lines along, and nothing is added afterwards.            *)
(***************************************************************************)
THEOREM NoDeadLine == CartsSpec => []NoLineOfDeletedProduct
<1>1. CartsInit => NoLineOfDeletedProduct
  BY DEF CartsInit, CartRowsInit, NoLineOfDeletedProduct, EmptyLines
<1> QED
  BY <1>1, NoDeadLineStep, CartsTypeCorrect, PTL DEF CartsSpec

-----------------------------------------------------------------------------
(***************************************************************************)
(* Checkout.  The rows' invariant holds whatever customers do at once: the *)
(* types, no line of a deleted product, and what Orders keeps by itself.   *)
(***************************************************************************)
RowsInv ==
  /\ CartsTypeOK
  /\ NoLineOfDeletedProduct
  /\ TrailInv
  /\ orderShop \in [Orders -> Shops \cup {NoShop}]

\* A cart or shop request, for the orders: the shopkeeper's stock, or nothing.
LEMMA CartRequestForOrders ==
  ASSUME CartOrShopRequest
  PROVE  ProductStep \/ UNCHANGED <<productRows, orderRows>>
<1>1. CASE CustomerStep
  BY <1>1
  DEF CartOrShopRequest, CustomerStep, AddItem, SetItemQuantity, ClearDeleteRows,
      ClearDetachShop
<1>2. CASE ShopStep
  BY <1>2
  DEF CartOrShopRequest, ShopStep, ModerateShop, UpdateShopProfile, SetAvailability,
      DeleteProduct, SetStock, ProductStep
<1> QED
  BY <1>1, <1>2 DEF CartOrShopRequest, CartsNext

\* An order's later life writes neither its lines nor the product rows' ids.
LEMMA OrderLifeShape ==
  ASSUME NEW o \in Orders, OrderLifeStep(o)
  PROVE  OrdersNext /\ UNCHANGED <<live, lines>>
<1>1. OrdersNext
  BY DEF OrdersNext, OrderStep
<1>2. UNCHANGED <<live, lines>>
  BY DEF OrderLifeStep, Transition, CancelRead, CancelCommit, TransitionOrder,
         WriteTransition, productRows, orderRows
<1> QED
  BY <1>1, <1>2

LEMMA CartRequestKeepsRows ==
  ASSUME RowsInv, CartOrShopRequest
  PROVE  RowsInv'
<1>1. CartsTypeOK'
  BY CartsTypeStep DEF RowsInv, CartOrShopRequest
<1>2. NoLineOfDeletedProduct'
  BY NoDeadLineStep DEF RowsInv, CartOrShopRequest
<1>3. UNCHANGED <<orderRows, cancelling, orderShop>>
  BY DEF CartOrShopRequest
<1>4. TrailInv'
  <2>1. OrdersTypeOK'
    BY <1>1, <1>3 DEF RowsInv, CartsTypeOK, TrailInv, OrdersTypeOK, orderRows
  <2> QED
    BY <1>3, <2>1, SameTrail DEF RowsInv, orderRows
<1> QED
  BY <1>1, <1>2, <1>3, <1>4 DEF RowsInv

LEMMA OrderRequestKeepsRows ==
  ASSUME RowsInv, OrderRequest
  PROVE  RowsInv'
<1>1. OrdersNext /\ UNCHANGED <<live, lines, shopFlags, cartRows, orderShop>>
  BY OrderLifeShape DEF OrderRequest
<1>2. TrailInv'
  BY <1>1, TrailStep DEF RowsInv
<1>3. CartsTypeOK'
  BY <1>1, <1>2
  DEF RowsInv, TrailInv, OrdersTypeOK, CartsTypeOK, shopFlags, cartRows
<1>4. NoLineOfDeletedProduct'
  BY <1>1 DEF RowsInv, NoLineOfDeletedProduct, cartRows
<1> QED
  BY <1>1, <1>2, <1>3, <1>4 DEF RowsInv

\* What place_order does to carts and to the order's shop.
LEMMA PlaceOrderFromCartWrites ==
  ASSUME RowsInv, NEW o \in Orders, NEW c \in Customers, NEW m \in PaymentMethod,
         PlaceOrderFromCart(o, c, m)
  PROVE  /\ PlaceOrder(o, cartQty[c], m)
         /\ cartQty[c] \in [Products -> Nat]
         /\ orderShop' = [orderShop EXCEPT ![o] = cartShop[c]]
         /\ UNCHANGED <<live, shopFlags, clearing>>
         /\ cartQty'[c] = EmptyLines
         /\ \A d \in Customers \ {c} :
              cartQty'[d] = cartQty[d] /\ cartShop'[d] = cartShop[d]
<1>1. /\ cartQty \in [Customers -> [Products -> Nat]]
      /\ cartShop \in [Customers -> Shops \cup {NoShop}]
  BY DEF RowsInv, CartsTypeOK
<1> QED
  BY <1>1 DEF PlaceOrderFromCart, PlaceOrder

LEMMA PlaceOrderFromCartKeepsRows ==
  ASSUME RowsInv, NEW o \in Orders, NEW c \in Customers, NEW m \in PaymentMethod,
         PlaceOrderFromCart(o, c, m)
  PROVE  RowsInv'
<1>1. /\ cartQty \in [Customers -> [Products -> Nat]]
      /\ cartShop \in [Customers -> Shops \cup {NoShop}]
      /\ EmptyLines \in [Products -> Nat]
      /\ TrailInv /\ OrdersTypeOK
  BY DEF RowsInv, CartsTypeOK, TrailInv, OrdersTypeOK, EmptyLines
<1>2. OrdersTypeOK' /\ TrailInv'
  BY <1>1, PlaceOrderFromCartWrites, PlaceOrderType, PlaceOrderTrail
<1>3. CartsTypeOK'
  <2>1. ProductTypeOK'
    BY <1>2 DEF OrdersTypeOK
  <2>2. cartQty' = [cartQty EXCEPT ![c] = EmptyLines]
        /\ cartShop' = [cartShop EXCEPT ![c] = NoShop]
    BY DEF PlaceOrderFromCart
  <2> QED
    BY <1>1, <2>1, <2>2, PlaceOrderFromCartWrites DEF RowsInv, CartsTypeOK, shopFlags
<1>4. NoLineOfDeletedProduct'
  <2>1. \A d \in Customers, p \in Products : cartQty'[d][p] > 0 => cartQty'[d] = cartQty[d]
    BY PlaceOrderFromCartWrites DEF EmptyLines
  <2> QED
    BY <2>1, PlaceOrderFromCartWrites DEF RowsInv, NoLineOfDeletedProduct
<1>5. orderShop' \in [Orders -> Shops \cup {NoShop}]
  BY <1>1, PlaceOrderFromCartWrites DEF RowsInv
<1> QED
  BY <1>2, <1>3, <1>4, <1>5 DEF RowsInv

LEMMA RowsInvInit == Init => RowsInv
<1> SUFFICES ASSUME Init PROVE RowsInv
  OBVIOUS
<1>1. CartsTypeOK
  BY CartsTypeInit DEF Init, CartsInit
<1>2. NoLineOfDeletedProduct
  BY DEF Init, CartRowsInit, NoLineOfDeletedProduct, EmptyLines
<1>3. OrdersTypeOK
  BY MaxStockAssumption
  DEF Init, ProductInit, OrderRowsInit, OrdersTypeOK, ProductTypeOK,
      NoLines, NoEvent, OrderStatus, PaymentStatus, PaymentMethod, Role
<1>4. TrailInv
  BY <1>3
  DEF Init, OrderRowsInit, TrailInv, TrailEndsAtStatus, UnplacedHasNoLines,
      NoEvent, NoLines
<1> QED
  BY <1>1, <1>2, <1>4 DEF RowsInv, Init

LEMMA RowsInvStep == RowsInv /\ [Next]_vars => RowsInv'
<1> SUFFICES ASSUME RowsInv, [Next]_vars
             PROVE  RowsInv'
  OBVIOUS
<1>1. CASE UNCHANGED vars
  BY <1>1
  DEF vars, productRows, shopFlags, cartRows, orderRows, RowsInv, CartsTypeOK,
      ProductTypeOK, NoLineOfDeletedProduct, TrailInv, OrdersTypeOK,
      TrailEndsAtStatus, UnplacedHasNoLines, NoLines
<1> QED
  BY <1>1, CartRequestKeepsRows, OrderRequestKeepsRows, PlaceOrderFromCartKeepsRows
  DEF Next

LEMMA RowsInvariant == Spec => []RowsInv
BY RowsInvInit, RowsInvStep, PTL DEF Spec

(***************************************************************************)
(* Carts, shops, products and orders keep their types together, and no     *)
(* cart keeps a deleted product, whatever is under way at once: a DELETE   *)
(* of the cart crossed by an add included.                                 *)
(***************************************************************************)
THEOREM CheckoutTypeCorrect == Spec => [](TypeOK /\ NoLineOfDeletedProduct)
<1>1. RowsInv => TypeOK /\ NoLineOfDeletedProduct
  BY DEF RowsInv, TypeOK, TrailInv
<1> QED
  BY <1>1, RowsInvariant, PTL

(***************************************************************************)
(* Carts and orders together still implement Inventory: a cart holds no    *)
(* units, and checking it out takes them once.  Not even the race of       *)
(* clear_cart, which spoils the one-shop rule, can lose or double a unit.  *)
(***************************************************************************)
THEOREM CheckoutKeepsInventory == Spec => InventoryKept
<1>1. Init => Shelf!Init
  BY MaxStockAssumption
  DEF Init, ProductInit, OrderRowsInit, Shelf!Init, Shelf!Nothing, Held, NoLines
<1>2. RowsInv /\ [Next]_vars => [Shelf!Next]_(Shelf!vars)
  <2> SUFFICES ASSUME RowsInv, [Next]_vars
               PROVE  [Shelf!Next]_(Shelf!vars)
    OBVIOUS
  <2>1. TrailInv
    BY DEF RowsInv
  <2>2. CASE UNCHANGED <<productRows, orderRows>>
    BY <2>2 DEF productRows, orderRows, Shelf!vars, Held
  <2>3. CASE ProductStep
    BY <2>1, <2>3, OrdersStepMaps DEF OrdersNext
  <2>4. CASE OrderRequest
    BY <2>1, <2>4, OrderLifeShape, OrdersStepMaps DEF OrderRequest
  <2>5. ASSUME NEW o \in Orders, NEW c \in Customers, NEW m \in PaymentMethod,
               PlaceOrderFromCart(o, c, m)
        PROVE  [Shelf!Next]_(Shelf!vars)
    BY <2>1, <2>5, PlaceOrderFromCartWrites, PlaceOrderTakes DEF Shelf!Next
  <2> QED
    BY <2>2, <2>3, <2>4, <2>5, CartRequestForOrders DEF Next, vars
<1> QED
  BY <1>1, <1>2, RowsInvariant, PTL DEF Spec, InventoryKept, Shelf!Spec

-----------------------------------------------------------------------------
(***************************************************************************)
(* The one-shop rule needs more: the order's shop is right because the     *)
(* cart's was (SerialInv), and stays right because neither it nor the      *)
(* lines are ever written again.                                           *)
(***************************************************************************)
CheckoutInv == SerialInv /\ RowsInv /\ OrderFromItsShop

LEMMA CartRequestKeepsInv ==
  ASSUME CheckoutInv, CartOrShopRequest, \A c \in clearing : cartQty'[c] = EmptyLines
  PROVE  CheckoutInv'
<1>1. RowsInv'
  BY CartRequestKeepsRows DEF CheckoutInv
<1>2. SerialInv'
  BY SerialStep DEF CheckoutInv, CartOrShopRequest, SerialCartsNext
<1>3. OrderFromItsShop'
  BY DEF CheckoutInv, CartOrShopRequest, OrderFromItsShop, orderRows
<1> QED
  BY <1>1, <1>2, <1>3 DEF CheckoutInv

LEMMA OrderRequestKeepsInv ==
  ASSUME CheckoutInv, OrderRequest
  PROVE  CheckoutInv'
<1>1. RowsInv'
  BY OrderRequestKeepsRows DEF CheckoutInv
<1>2. UNCHANGED <<lines, cartRows, orderShop>>
  BY OrderLifeShape DEF OrderRequest
<1>3. SerialInv' /\ OrderFromItsShop'
  BY <1>1, <1>2
  DEF CheckoutInv, RowsInv, SerialInv, AttachedToItsShop, ClearingIsEmpty, cartRows,
      OrderFromItsShop
<1> QED
  BY <1>1, <1>3 DEF CheckoutInv

LEMMA PlaceOrderFromCartKeepsInv ==
  ASSUME CheckoutInv, NEW o \in Orders, NEW c \in Customers, NEW m \in PaymentMethod,
         PlaceOrderFromCart(o, c, m)
  PROVE  CheckoutInv'
<1>1. RowsInv /\ RowsInv'
  BY PlaceOrderFromCartKeepsRows DEF CheckoutInv
<1>2. AttachedToItsShop'
  <2>1. \A d \in Customers, p \in Products : cartQty'[d][p] > 0 =>
          cartQty'[d] = cartQty[d] /\ cartShop'[d] = cartShop[d]
    BY <1>1, PlaceOrderFromCartWrites DEF EmptyLines
  <2> QED
    BY <2>1 DEF CheckoutInv, SerialInv, AttachedToItsShop
<1>3. ClearingIsEmpty'
  <2>1. clearing \subseteq Customers
    BY DEF CheckoutInv, SerialInv, CartsTypeOK
  <2>2. \A d \in Customers : d = c \/ cartQty'[d] = cartQty[d]
    BY <1>1, PlaceOrderFromCartWrites
  <2>3. clearing' = clearing /\ cartQty'[c] = EmptyLines
    BY <1>1, PlaceOrderFromCartWrites
  <2> QED
    BY <2>1, <2>2, <2>3 DEF CheckoutInv, SerialInv, ClearingIsEmpty, EmptyLines
<1>4. OrderFromItsShop'
  <2>1. lines' = [lines EXCEPT ![o] = cartQty[c]]
    BY DEF PlaceOrderFromCart, PlaceOrder
  <2>2. \A p \in Products : cartQty[c][p] > 0 => cartShop[c] = ShopOf[p]
    BY DEF CheckoutInv, SerialInv, AttachedToItsShop
  <2>3. /\ orderShop \in [Orders -> Shops \cup {NoShop}] /\ OrderFromItsShop
        /\ lines \in [Orders -> [Products -> Nat]]
    BY DEF CheckoutInv, RowsInv, TrailInv, OrdersTypeOK
  <2>4. orderShop' = [orderShop EXCEPT ![o] = cartShop[c]]
    BY <1>1, PlaceOrderFromCartWrites
  <2> QED
    BY <2>1, <2>2, <2>3, <2>4 DEF OrderFromItsShop
<1> QED
  BY <1>1, <1>2, <1>3, <1>4 DEF CheckoutInv, SerialInv, RowsInv

LEMMA CheckoutInit == Init => CheckoutInv
<1> SUFFICES ASSUME Init PROVE CheckoutInv
  OBVIOUS
<1>1. RowsInv
  BY RowsInvInit
<1>2. SerialInv
  BY <1>1
  DEF RowsInv, Init, CartRowsInit, SerialInv, AttachedToItsShop, ClearingIsEmpty, EmptyLines
<1>3. OrderFromItsShop
  BY DEF Init, OrderRowsInit, OrderFromItsShop, NoLines
<1> QED
  BY <1>1, <1>2, <1>3 DEF CheckoutInv

LEMMA CheckoutStep == CheckoutInv /\ [SerialNext]_vars => CheckoutInv'
<1> SUFFICES ASSUME CheckoutInv, [SerialNext]_vars
             PROVE  CheckoutInv'
  OBVIOUS
<1>1. CASE UNCHANGED vars
  <2>1. RowsInv'
    BY <1>1, RowsInvStep DEF CheckoutInv
  <2> QED
    BY <1>1, <2>1
    DEF vars, cartRows, orderRows, CheckoutInv, RowsInv, SerialInv, AttachedToItsShop,
        ClearingIsEmpty, OrderFromItsShop
<1> QED
  BY <1>1, CartRequestKeepsInv, OrderRequestKeepsInv, PlaceOrderFromCartKeepsInv
  DEF SerialNext, Next

(***************************************************************************)
(* With nobody adding to a cart he is just clearing, every order is for    *)
(* the shop it is addressed to, whichever flags, stock figures and other   *)
(* carts change between filling the cart and checking it out; and no cart  *)
(* mixes shops.                                                            *)
(***************************************************************************)
THEOREM OrdersGoToTheirShop == SerialSpec => [](OrderFromItsShop /\ AttachedToItsShop)
<1>1. CheckoutInv => OrderFromItsShop /\ AttachedToItsShop
  BY DEF CheckoutInv, SerialInv
<1> QED
  BY <1>1, CheckoutInit, CheckoutStep, PTL DEF SerialSpec

-----------------------------------------------------------------------------
(***************************************************************************)
(* LockedCheckout.  What a request has read stays true until it ends,      *)
(* because nobody commits while it has its lock; so its own commit is the  *)
(* one step that Checkout takes it for.                                    *)
(***************************************************************************)
\* Nothing is left out of the item loop when it starts.
LoopTakesAll ==
  \A r \in Requests : At(r, "insert") =>
    tx[r].todo = {p \in Products : tx[r].items[p] > 0}

LockedInv ==
  /\ RowsInv
  /\ tx \in [Requests -> Transaction \cup {NoTransaction}]
  /\ NoReadIsStale
  /\ LoopTakesAll

\* A reader's record, typed.
LEMMA ReaderFacts ==
  ASSUME LockedInv, NEW r \in Requests, ~At(r, "none")
  PROVE  /\ tx[r] \in Transaction
         /\ r \in Readers
         /\ cartQty[tx[r].customer] \in [Products -> Nat]
<1>1. tx[r] \in Transaction
  BY DEF LockedInv, At, NoTransaction
<1>2. tx[r].customer \in Customers
  BY <1>1 DEF Transaction
<1> QED
  BY <1>1, <1>2 DEF Readers, LockedInv, RowsInv, CartsTypeOK

\* The commit of a request is place_order in one step.
LEMMA CommitIsOneStep ==
  ASSUME LockedInv, NEW r \in Requests, NEW o \in Orders, Commit(r, o)
  PROVE  \E c \in Customers, m \in PaymentMethod : PlaceOrderFromCart(o, c, m)
<1> DEFINE t == tx[r]
           c == t.customer
           m == t.method
<1>1. At(r, "write") /\ t.todo = {} /\ t.at = "write"
  BY DEF Commit, At
<1>2. t \in Transaction /\ r \in Readers /\ cartQty[c] \in [Products -> Nat]
  BY <1>1, ReaderFacts DEF At
<1>3. c \in Customers /\ m \in PaymentMethod /\ t.shop \in Shops
  BY <1>2 DEF Transaction
<1>4. /\ cartShop[c] = t.shop
      /\ StillOpen(t)
      /\ \A p \in Products :
           cartQty[c][p] > 0 => available[p] /\ cartQty[c][p] <= stock[p]
      /\ t.items = cartQty[c]
      /\ \A p \in Products :
           t.items[p] > 0 => p \in live /\ t.left[p] = stock[p] - t.items[p]
  BY <1>1, <1>2 DEF LockedInv, NoReadIsStale, ReadsHold
<1> HIDE DEF t, c, m
<1>5. ValidCart(c)
  <2>1. cartShop[c] # NoShop
    BY <1>3, <1>4, CartsAssumption
  <2> QED
    BY <1>4, <2>1 DEF ValidCart, StillOpen, c
<1>6. m = "COD" => cod[cartShop[c]]
  BY <1>4 DEF StillOpen, m
<1>7. PlaceOrder(o, cartQty[c], m)
  <2>1. cartQty[c] # NoLines
    BY <1>4 DEF StillOpen, HasItems, NoLines, c
  <2>2. InStock(cartQty[c])
    BY <1>4 DEF InStock
  <2>3. stock \in [Products -> Nat]
    BY DEF LockedInv, RowsInv, CartsTypeOK, ProductTypeOK
  <2>4. stock' = [p \in Products |-> stock[p] - cartQty[c][p]]
    <3>1. stock' = [p \in Products |-> IF t.items[p] > 0 THEN t.left[p] ELSE stock[p]]
      BY DEF Commit, t
    <3>2. \A p \in Products : ~(cartQty[c][p] > 0) => stock[p] - cartQty[c][p] = stock[p]
      BY <1>2, <2>3
    <3> QED
      BY <1>4, <3>1, <3>2
  <2> QED
    BY <1>4, <2>1, <2>2, <2>4 DEF PlaceOrder, Commit, t, m
<1>8. /\ orderShop' = [orderShop EXCEPT ![o] = cartShop[c]]
      /\ cartQty' = [cartQty EXCEPT ![c] = EmptyLines]
      /\ cartShop' = [cartShop EXCEPT ![c] = NoShop]
      /\ UNCHANGED <<shopFlags, clearing>>
  BY <1>4 DEF Commit, t, c
<1>9. PlaceOrderFromCart(o, c, m)
  BY <1>5, <1>6, <1>7, <1>8 DEF PlaceOrderFromCart
<1> QED
  BY <1>3, <1>9

LEMMA LockedStepIsStep == LockedInv /\ [LockedNext]_lockedVars => [Next]_vars
<1> SUFFICES ASSUME LockedInv, [LockedNext]_lockedVars PROVE [Next]_vars
  OBVIOUS
<1>1. CASE OtherRequest
  BY <1>1 DEF OtherRequest, Next
<1>2. ASSUME NEW r \in Requests, NEW o \in Orders, Commit(r, o)
      PROVE  Next
  BY <1>2, CommitIsOneStep DEF Next
<1> QED
  BY <1>1, <1>2 DEF LockedNext, lockedVars

-----------------------------------------------------------------------------
\* What a transaction has read is about the committed rows: it is kept by a step
\* that writes none of them and by one after which nobody has a lock.
LEMMA ReadsSurvive ==
  ASSUME LockedInv, tx' = tx, database' = database
  PROVE  NoReadIsStale'
<1>1. UNCHANGED <<live, stock, approved, accepting, cod, available, cartShop, cartQty>>
  BY DEF database, productRows, shopFlags
<1> QED
  BY <1>1 DEF LockedInv, NoReadIsStale, ReadsHold, StillOpen, HasItems, Readers, At

\* A request's record becomes u, and what u has read holds.
LEMMA RecordWritten ==
  ASSUME LockedInv, UNCHANGED vars, NEW r \in Requests,
         NEW u \in Transaction \cup {NoTransaction},
         tx' = [tx EXCEPT ![r] = u],
         u.at # "none" => ReadsHold(u),
         u.at = "insert" => u.todo = {p \in Products : u.items[p] > 0}
  PROVE  LockedInv'
<1>1. /\ tx' \in [Requests -> Transaction \cup {NoTransaction}]
      /\ tx'[r] = u
      /\ \A s \in Requests \ {r} : tx'[s] = tx[s]
  BY DEF LockedInv
<1>2. RowsInv'
  BY RowsInvStep DEF LockedInv
<1>3. NoReadIsStale'
  <2>1. \A t : ReadsHold(t) => ReadsHold(t)'
    BY DEF vars, productRows, shopFlags, cartRows, ReadsHold, StillOpen, HasItems
  <2> QED
    BY <1>1, <2>1 DEF LockedInv, NoReadIsStale, Readers, At
<1>4. LoopTakesAll'
  BY <1>1 DEF LockedInv, LoopTakesAll, At
<1> QED
  BY <1>1, <1>2, <1>3, <1>4 DEF LockedInv

\* One statement: what it reads holds, because it has just been read.
LEMMA StatementKeepsInv ==
  ASSUME LockedInv, NEW r \in Requests, Statement(r), UNCHANGED vars
  PROVE  LockedInv'
<1> DEFINE t == tx[r]
<1>1. ASSUME NEW c \in Customers, NEW m \in PaymentMethod, ReadCart(r, c, m)
      PROVE  LockedInv'
  <2> DEFINE u == [at |-> "shop", customer |-> c, method |-> m, shop |-> cartShop[c],
                   items |-> NoLines, left |-> NoLines, todo |-> {}]
  <2>1. cartShop[c] \in Shops /\ NoLines \in [Products -> Nat]
    BY <1>1 DEF ReadCart, LockedInv, RowsInv, CartsTypeOK, NoLines
  <2>2. u \in Transaction
    BY <2>1 DEF Transaction
  <2>3. ReadsHold(u)
    BY DEF ReadsHold
  <2>4. tx' = [tx EXCEPT ![r] = u]
    BY <1>1 DEF ReadCart
  <2>5. u.at = "shop"
    OBVIOUS
  <2> QED
    BY <2>2, <2>3, <2>4, <2>5, RecordWritten
<1>2. CASE Rollback(r)
  <2>1. tx' = [tx EXCEPT ![r] = NoTransaction] /\ NoTransaction.at = "none"
    BY <1>2 DEF Rollback, NoTransaction
  <2> QED
    BY <2>1, RecordWritten
<1>3. ASSUME ~At(r, "none")
      PROVE  t \in Transaction /\ ReadsHold(t) /\ cartQty[t.customer] \in [Products -> Nat]
  BY <1>3, ReaderFacts DEF LockedInv, NoReadIsStale
<1>4. CASE ReadShop(r)
  <2> DEFINE u == [t EXCEPT !.at = "cart lines"]
  <2>1. t \in Transaction /\ ReadsHold(t) /\ StillOpen(t) /\ tx' = [tx EXCEPT ![r] = u]
    BY <1>3, <1>4 DEF ReadShop, At, StillOpen
  <2>2. u \in Transaction /\ u.at = "cart lines"
    BY <2>1 DEF Transaction
  <2>3. ReadsHold(u)
    BY <2>1 DEF Transaction, ReadsHold, StillOpen
  <2> QED
    BY <2>1, <2>2, <2>3, RecordWritten
<1>5. CASE ReadCartLines(r)
  <2> DEFINE u == [t EXCEPT !.at = "items"]
  <2>1. t \in Transaction /\ ReadsHold(t) /\ t.at = "cart lines" /\ tx' = [tx EXCEPT ![r] = u]
    BY <1>3, <1>5 DEF ReadCartLines, At
  <2>2. u \in Transaction /\ u.at = "items"
    BY <2>1 DEF Transaction
  <2>3. ReadsHold(u)
    BY <1>5, <2>1 DEF Transaction, ReadsHold, StillOpen, ReadCartLines
  <2> QED
    BY <2>1, <2>2, <2>3, RecordWritten
<1>6. CASE ReadItems(r)
  <2> DEFINE inCart == cartQty[t.customer]
             u == [t EXCEPT !.at = "insert", !.items = inCart,
                            !.todo = {p \in Products : inCart[p] > 0}]
  <2>1. /\ t \in Transaction /\ ReadsHold(t) /\ t.at = "items"
        /\ inCart \in [Products -> Nat]
        /\ tx' = [tx EXCEPT ![r] = u]
    BY <1>3, <1>6 DEF ReadItems, At
  <2>2. /\ u \in Transaction /\ u.at = "insert"
        /\ u.todo = {p \in Products : u.items[p] > 0}
    BY <2>1 DEF Transaction
  <2>3. ReadsHold(u)
    BY <2>1 DEF Transaction, ReadsHold, StillOpen
  <2> QED
    BY <2>1, <2>2, <2>3, RecordWritten
<1>7. CASE InsertOrder(r)
  <2> DEFINE u == [t EXCEPT !.at = "write"]
  <2>1. t \in Transaction /\ ReadsHold(t) /\ t.at = "insert" /\ tx' = [tx EXCEPT ![r] = u]
    BY <1>3, <1>7 DEF InsertOrder, At
  <2>2. u \in Transaction /\ u.at = "write"
    BY <2>1 DEF Transaction
  <2>3. t.todo = {p \in Products : t.items[p] > 0}
    BY <2>1 DEF LockedInv, LoopTakesAll, At
  <2>4. ReadsHold(u)
    BY <2>1, <2>3 DEF Transaction, ReadsHold, StillOpen
  <2> QED
    BY <2>1, <2>2, <2>4, RecordWritten
<1>8. ASSUME NEW p \in Products, TakeItem(r, p)
      PROVE  LockedInv'
  <2> DEFINE u == [t EXCEPT !.left[p] = stock[p] - t.items[p], !.todo = t.todo \ {p}]
  <2>1. /\ t \in Transaction /\ ReadsHold(t) /\ t.at = "write"
        /\ tx' = [tx EXCEPT ![r] = u]
    BY <1>3, <1>8 DEF TakeItem, At
  <2>2. stock[p] - t.items[p] \in Nat /\ p \in live
    <3>1. stock[p] \in Nat
      BY DEF LockedInv, RowsInv, CartsTypeOK, ProductTypeOK
    <3>2. t.items[p] \in Nat
      BY <2>1 DEF Transaction
    <3>3. t.items[p] <= stock[p] /\ p \in live
      BY <1>8 DEF TakeItem
    <3> HIDE DEF t
    <3> QED
      BY <3>1, <3>2, <3>3
  <2>3. u \in Transaction /\ u.at = "write"
    BY <2>1, <2>2 DEF Transaction
  <2>4. ReadsHold(u)
    BY <2>1, <2>2 DEF Transaction, ReadsHold, StillOpen
  <2> QED
    BY <2>1, <2>3, <2>4, RecordWritten
<1> QED
  BY <1>1, <1>2, <1>4, <1>5, <1>6, <1>7, <1>8 DEF Statement

\* A commit, or another endpoint's write, comes when nobody else has a lock.
LEMMA LockedInvStep == LockedInv /\ [LockedNext]_lockedVars => LockedInv'
<1> SUFFICES ASSUME LockedInv, [LockedNext]_lockedVars PROVE LockedInv'
  OBVIOUS
<1>1. RowsInv'
  BY LockedStepIsStep, RowsInvStep DEF LockedInv
<1>2. ASSUME tx' = tx
      PROVE  tx' \in [Requests -> Transaction \cup {NoTransaction}] /\ LoopTakesAll'
  BY <1>2 DEF LockedInv, LoopTakesAll, At
<1>3. CASE OtherRequest
  <2>1. tx' = tx /\ (Readers # {} => database' = database)
    BY <1>3 DEF OtherRequest
  <2>2. NoReadIsStale'
    <3>1. CASE Readers = {}
      BY <2>1, <3>1 DEF NoReadIsStale, Readers, At
    <3> QED
      BY <2>1, <3>1, ReadsSurvive
  <2> QED
    BY <1>1, <1>2, <2>1, <2>2 DEF LockedInv
<1>4. ASSUME NEW r \in Requests, NEW o \in Orders, Commit(r, o)
      PROVE  LockedInv'
  <2>1. tx' = [tx EXCEPT ![r] = NoTransaction]
    BY <1>4 DEF Commit
  <2>2. tx' \in [Requests -> Transaction \cup {NoTransaction}] /\ Readers' = {}
    BY <1>4, <2>1 DEF Commit, OtherReaders, LockedInv, Readers, At, NoTransaction
  <2> QED
    BY <1>1, <2>2 DEF LockedInv, NoReadIsStale, LoopTakesAll, Readers, At
<1>5. CASE UNCHANGED lockedVars
  <2>1. tx' = tx /\ database' = database
    BY <1>5 DEF lockedVars, vars, database, cartRows
  <2> QED
    BY <1>1, <1>2, <2>1, ReadsSurvive DEF LockedInv
<1>6. ASSUME NEW r \in Requests, Statement(r), UNCHANGED vars
      PROVE  LockedInv'
  BY <1>6, StatementKeepsInv
<1> QED
  BY <1>3, <1>4, <1>5, <1>6 DEF LockedNext

LEMMA LockedInvariant == LockedSpec => []LockedInv
<1>1. LockedInit => LockedInv
  BY RowsInvInit
  DEF LockedInit, LockedInv, NoReadIsStale, LoopTakesAll, Readers, At, NoTransaction
<1> QED
  BY <1>1, LockedInvStep, PTL DEF LockedSpec

(***************************************************************************)
(* Every reachable state is well typed, figures not yet committed too, and *)
(* what place_order has read is what the database says as long as it runs, *)
(* for any number of requests, of one customer or of several.              *)
(***************************************************************************)
THEOREM ReadsStayTrue == LockedSpec => [](LockedTypeOK /\ NoReadIsStale)
<1>1. LockedInv => LockedTypeOK /\ NoReadIsStale
  BY DEF LockedInv, RowsInv, TrailInv, LockedTypeOK, TypeOK
<1> QED
  BY <1>1, LockedInvariant, PTL

(***************************************************************************)
(* Checkout statement by statement implements checkout in one step: the    *)
(* grain that Checkout takes for granted is what SQLite's locks give.      *)
(***************************************************************************)
THEOREM StatementsAreOneStep == LockedSpec => PlacedAtOnce
<1>1. LockedInit => Init
  BY DEF LockedInit
<1> QED
  BY <1>1, LockedInvariant, LockedStepIsStep, PTL DEF LockedSpec, PlacedAtOnce, Spec

(***************************************************************************)
(* So the promises of Checkout hold of its statements: the units taken by  *)
(* checkouts that run side by side are there, and each is taken once.      *)
(***************************************************************************)
COROLLARY StatementsKeepInventory == LockedSpec => InventoryKept /\ []NoLineOfDeletedProduct
BY StatementsAreOneStep, CheckoutKeepsInventory, CheckoutTypeCorrect, PTL DEF PlacedAtOnce

==============================================================================
