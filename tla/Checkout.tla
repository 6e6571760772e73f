------------------------------- MODULE Checkout ------------------------------
(***************************************************************************)
(* Carts and orders together: POST /api/orders/ turns the customer's cart  *)
(* into an order.  The only action of its own is place_order as a whole;   *)
(* everything else is a step of Carts or of Orders.                        *)
(***************************************************************************)
EXTENDS Carts, Orders

VARIABLE orderShop    \* Order.shop; NoShop while there is no row

vars == <<productRows, shopFlags, cartRows, orderRows, cancelling, orderShop>>

TypeOK ==
  /\ CartsTypeOK
  /\ OrdersTypeOK
  /\ orderShop \in [Orders -> Shops \cup {NoShop}]

Init ==
  /\ ProductInit /\ CartRowsInit /\ OrderRowsInit
  /\ orderShop = [o \in Orders |-> NoShop]

\* validate_cart_for_checkout
ValidCart(c) ==
  /\ cartShop[c] # NoShop
  /\ HasItems(c)
  /\ approved[cartShop[c]]
  /\ accepting[cartShop[c]]
  /\ \A p \in Products :
       cartQty[c][p] > 0 => available[p] /\ cartQty[c][p] <= stock[p]

(***************************************************************************)
(* place_order: validate the cart, refuse cash the shop does not take,     *)
(* create the order with its items and take their stock, clear the cart.   *)
(***************************************************************************)
PlaceOrderFromCart(o, c, m) ==
  /\ ValidCart(c)
  /\ m = "COD" => cod[cartShop[c]]
  /\ PlaceOrder(o, cartQty[c], m)
  /\ orderShop' = [orderShop EXCEPT ![o] = cartShop[c]]
  /\ cartQty' = [cartQty EXCEPT ![c] = EmptyLines]
  /\ cartShop' = [cartShop EXCEPT ![c] = NoShop]
  /\ UNCHANGED <<shopFlags, clearing>>

\* A cart or shop request leaves the orders alone, an order's later life leaves
\* the carts alone.
CartOrShopRequest ==
  /\ CartsNext
  /\ UNCHANGED <<orderRows, cancelling, orderShop>>

OrderRequest ==
  /\ \E o \in Orders : OrderLifeStep(o)
  /\ UNCHANGED <<shopFlags, cartRows, orderShop>>

Next ==
  \/ CartOrShopRequest
  \/ OrderRequest
  \/ \E o \in Orders, c \in Customers, m \in PaymentMethod : PlaceOrderFromCart(o, c, m)

Spec == Init /\ [][Next]_vars

\* As SerialCartsNext: no customer adds to a cart he is just clearing.
SerialNext == Next /\ \A c \in clearing : cartQty'[c] = EmptyLines

SerialSpec == Init /\ [][SerialNext]_vars

-----------------------------------------------------------------------------
(***************************************************************************)
(* An order is for the shop it is addressed to: every line is a product of *)
(* Order.shop, the shop whose keeper will see the order and pack it.       *)
(***************************************************************************)
OrderFromItsShop ==
  \A o \in Orders, p \in Products :
    lines[o][p] > 0 => orderShop[o] = ShopOf[p]

==============================================================================
