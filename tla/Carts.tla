-------------------------------- MODULE Carts --------------------------------
(***************************************************************************)
(* The customers' carts, and the shop and product flags that decide what   *)
(* may be put in one and whether it may be checked out.                    *)
(*                                                                         *)
(* add_item and set_item_quantity are transactions, one action each.       *)
(* clear_cart (DELETE /api/cart/) is not: it deletes the rows in one       *)
(* autocommitted statement and detaches the shop in another.               *)
(***************************************************************************)
EXTENDS Products

CONSTANTS
  Customers,
  Shops,
  ShopOf,     \* the shop of each product, which no endpoint changes
  NoShop      \* Cart.shop is null

ASSUME CartsAssumption ==
  /\ ShopOf \in [Products -> Shops]
  /\ NoShop \notin Shops

VARIABLES
  approved,   \* Shop.status = APPROVED
  accepting,  \* Shop.is_accepting_orders
  cod,        \* Shop.cod_enabled
  available,  \* Product.is_available
  cartShop,   \* Cart.shop
  cartQty,    \* CartItem.quantity; 0 where there is no row
  clearing    \* customers whose clear_cart has deleted the rows so far

shopFlags == <<approved, accepting, cod, available>>
cartRows == <<cartShop, cartQty, clearing>>
cartsVars == <<productRows, shopFlags, cartRows>>

EmptyLines == [p \in Products |-> 0]

CartsTypeOK ==
  /\ ProductTypeOK
  /\ approved \in [Shops -> BOOLEAN]
  /\ accepting \in [Shops -> BOOLEAN]
  /\ cod \in [Shops -> BOOLEAN]
  /\ available \in [Products -> BOOLEAN]
  /\ cartShop \in [Customers -> Shops \cup {NoShop}]
  /\ cartQty \in [Customers -> [Products -> Nat]]
  /\ clearing \subseteq Customers

CartRowsInit ==
  /\ approved = [s \in Shops |-> TRUE]
  /\ accepting = [s \in Shops |-> TRUE]
  /\ cod = [s \in Shops |-> TRUE]
  /\ available = [p \in Products |-> TRUE]
  /\ cartShop = [c \in Customers |-> NoShop]
  /\ cartQty = [c \in Customers |-> EmptyLines]
  /\ clearing = {}

CartsInit == ProductInit /\ CartRowsInit

-----------------------------------------------------------------------------
HasItems(c) == \E p \in Products : cartQty[c][p] > 0

(***************************************************************************)
(* Seeded fault: AttachedShop attaching only a detached cart ("if not      *)
(* cart.shop_id").  No specification uses it; it breaks AttachedToItsShop, *)
(* by way of a deleted product.                                            *)
(***************************************************************************)
AttachedOnlyIfDetached(c, p) ==
  IF cartShop[c] # NoShop /\ ~HasItems(c) THEN cartShop[c] ELSE ShopOf[p]

\* _validate_orderable
Orderable(p, q) ==
  /\ approved[ShopOf[p]]
  /\ available[p]
  /\ q \in 1..stock[p]

\* The product is from another shop than the cart's, and the cart has lines.
DifferentShop(c, p) ==
  /\ cartShop[c] \notin {NoShop, ShopOf[p]}
  /\ HasItems(c)

\* Whatever the cart was attached to, a line of p attaches it to p's shop.
AttachedShop(c, p) == ShopOf[p]

\* POST /api/cart/items/: add to the line or start one; with replace_cart the
\* lines of another shop are dropped first.
AddItem(c, p, q, replace) ==
  LET kept == IF DifferentShop(c, p) THEN EmptyLines ELSE cartQty[c]
  IN  /\ p \in live
      /\ DifferentShop(c, p) => replace
      /\ Orderable(p, kept[p] + q)
      /\ cartQty' = [cartQty EXCEPT ![c] = [kept EXCEPT ![p] = @ + q]]
      /\ cartShop' = [cartShop EXCEPT ![c] = AttachedShop(c, p)]
      /\ UNCHANGED <<productRows, shopFlags, clearing>>

\* PATCH and DELETE /api/cart/items/<id>/: the last line to go takes the shop
\* along.
SetItemQuantity(c, p, q) ==
  /\ cartQty[c][p] > 0
  /\ q > 0 => Orderable(p, q)
  /\ cartQty' = [cartQty EXCEPT ![c][p] = q]
  /\ cartShop' = [cartShop EXCEPT ![c] =
       IF \E r \in Products : cartQty'[c][r] > 0 THEN @ ELSE NoShop]
  /\ UNCHANGED <<productRows, shopFlags, clearing>>

\* DELETE /api/cart/: delete_all_for_cart ...
ClearDeleteRows(c) ==
  /\ c \notin clearing
  /\ cartQty' = [cartQty EXCEPT ![c] = EmptyLines]
  /\ clearing' = clearing \cup {c}
  /\ UNCHANGED <<productRows, shopFlags, cartShop>>

\* ... then update(cart, shop=None).
ClearDetachShop(c) ==
  /\ c \in clearing
  /\ cartShop' = [cartShop EXCEPT ![c] = NoShop]
  /\ clearing' = clearing \ {c}
  /\ UNCHANGED <<productRows, shopFlags, cartQty>>

-----------------------------------------------------------------------------
\* Seeded fault: DeleteProduct without the cascade (on_delete=DO_NOTHING).  It
\* breaks NoLineOfDeletedProduct.
DeleteProductAlone(p) ==
  /\ DestroyProduct(p)
  /\ UNCHANGED <<shopFlags, cartRows>>

\* An admin approves, rejects or suspends a shop.
ModerateShop(s) ==
  /\ approved' = [approved EXCEPT ![s] = ~@]
  /\ UNCHANGED <<productRows, accepting, cod, available, cartRows>>

\* PATCH /api/shops/my-shop/
UpdateShopProfile(s) ==
  /\ \/ /\ accepting' = [accepting EXCEPT ![s] = ~@]
        /\ UNCHANGED cod
     \/ /\ cod' = [cod EXCEPT ![s] = ~@]
        /\ UNCHANGED accepting
  /\ UNCHANGED <<productRows, approved, available, cartRows>>

\* toggle_availability, and the is_available field of a product PUT or PATCH:
\* whatever was read before, the write stores one of the two values.
SetAvailability(p) ==
  /\ p \in live
  /\ available' = [available EXCEPT ![p] = ~@]
  /\ UNCHANGED <<productRows, approved, accepting, cod, cartRows>>

SetStock(p, v) ==
  /\ UpdateStock(p, v)
  /\ UNCHANGED <<shopFlags, cartRows>>

\* Deleting a product cascades to the cart lines that hold it.
DeleteProduct(p) ==
  /\ DestroyProduct(p)
  /\ cartQty' = [c \in Customers |-> [cartQty[c] EXCEPT ![p] = 0]]
  /\ UNCHANGED <<shopFlags, cartShop, clearing>>

CustomerStep ==
  \E c \in Customers :
    \/ \E p \in Products, q \in 1..MaxStock, replace \in BOOLEAN : AddItem(c, p, q, replace)
    \/ \E p \in Products, q \in 0..MaxStock : SetItemQuantity(c, p, q)
    \/ ClearDeleteRows(c)
    \/ ClearDetachShop(c)

ShopStep ==
  \/ \E s \in Shops : ModerateShop(s) \/ UpdateShopProfile(s)
  \/ \E p \in Products :
       \/ SetAvailability(p)
       \/ DeleteProduct(p)
       \/ \E v \in 0..MaxStock : SetStock(p, v)

CartsNext == CustomerStep \/ ShopStep

CartsSpec == CartsInit /\ [][CartsNext]_cartsVars

\* The same system when no customer adds to a cart while his own DELETE of it
\* is still running.
SerialCartsNext == CartsNext /\ \A c \in clearing : cartQty'[c] = EmptyLines

SerialCartsSpec == CartsInit /\ [][SerialCartsNext]_cartsVars

-----------------------------------------------------------------------------
(***************************************************************************)
(* "One active cart per customer, holding items from a single shop."       *)
(***************************************************************************)
SingleShop ==
  \A c \in Customers : \A p, q \in Products :
    cartQty[c][p] > 0 /\ cartQty[c][q] > 0 => ShopOf[p] = ShopOf[q]

(***************************************************************************)
(* What add_item relies on to keep a cart to one shop: a cart with lines   *)
(* is attached to the shop of each of them (it alone is compared with the  *)
(* shop of the next product).                                              *)
(***************************************************************************)
AttachedToItsShop ==
  \A c \in Customers, p \in Products :
    cartQty[c][p] > 0 => cartShop[c] = ShopOf[p]

(***************************************************************************)
(* A deleted product is in nobody's cart.                                  *)
(***************************************************************************)
NoLineOfDeletedProduct ==
  \A c \in Customers, p \in Products : cartQty[c][p] > 0 => p \in live

==============================================================================
