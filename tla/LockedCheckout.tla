--------------------------- MODULE LockedCheckout ----------------------------
(***************************************************************************)
(* place_order statement by statement, as SQLite runs it.  Checkout takes  *)
(* it for one step; that this is right is what is checked and proved here. *)
(*                                                                         *)
(* The database is external.  With the settings of this repository (no     *)
(* journal mode, BEGIN without IMMEDIATE, select_for_update ignored) a     *)
(* transaction has a shared lock from its first SELECT to its end, the     *)
(* reserved lock from its first write, and commits when no other           *)
(* transaction has a shared lock.  What cannot have its lock in time       *)
(* raises "database is locked" and is rolled back.                         *)
(*                                                                         *)
(* The variables of Checkout are what has been committed.  A transaction   *)
(* is the record of what its request has read, and of the figures it has   *)
(* written and nobody else sees.  The other endpoints stay one step each.  *)
(***************************************************************************)
EXTENDS Checkout

CONSTANT Requests     \* POST /api/orders/ requests, two of a customer included

VARIABLE tx           \* the transaction of each request

lockedVars == <<vars, tx>>

NoTransaction == [at |-> "none"]

\* The next statement of place_order; its local variables; the stock figures it
\* has written, and the items it has not come to.
Transaction ==
  [at : {"shop", "cart lines", "items", "insert", "write"},
   customer : Customers, method : PaymentMethod, shop : Shops,
   items : [Products -> Nat], left : [Products -> Nat], todo : SUBSET Products]

LockedTypeOK ==
  /\ TypeOK
  /\ tx \in [Requests -> Transaction \cup {NoTransaction}]

LockedInit ==
  /\ Init
  /\ tx = [r \in Requests |-> NoTransaction]

-----------------------------------------------------------------------------
At(r, place) == tx[r].at = place

\* Seeded faults: the cart validated before the transaction begins, so that its
\* reads lock nothing; and a database whose commits wait for no reader.
OnlyWriters == {r \in Requests : At(r, "write")}
NobodyElse(r) == {}

\* Who has a shared lock, who the reserved one, and whom a commit of r waits for.
Readers == {r \in Requests : ~At(r, "none")}
Writers == {r \in Requests : At(r, "write")}
OtherReaders(r) == Readers \ {r}

-----------------------------------------------------------------------------
\* get_or_create_cart: a cart without a shop, or one that had to be created, is
\* empty and is refused.
ReadCart(r, c, m) ==
  /\ At(r, "none")
  /\ cartShop[c] # NoShop
  /\ tx' = [tx EXCEPT ![r] =
       [at |-> "shop", customer |-> c, method |-> m, shop |-> cartShop[c],
        items |-> NoLines, left |-> NoLines, todo |-> {}]]

\* exists_for_cart, and cart.shop: the row is read once and kept.
ReadShop(r) ==
  LET t == tx[r]
  IN  /\ At(r, "shop")
      /\ HasItems(t.customer)
      /\ approved[t.shop] /\ accepting[t.shop]
      /\ t.method = "COD" => cod[t.shop]
      /\ tx' = [tx EXCEPT ![r].at = "cart lines"]

\* for_cart_with_products, which only looks for problems ...
ReadCartLines(r) ==
  LET inCart == cartQty[tx[r].customer]
  IN  /\ At(r, "cart lines")
      /\ \A p \in Products : inCart[p] > 0 => available[p] /\ inCart[p] <= stock[p]
      /\ tx' = [tx EXCEPT ![r].at = "items"]

\* ... and cart.items.all(), which is what will be ordered.
ReadItems(r) ==
  LET inCart == cartQty[tx[r].customer]
  IN  /\ At(r, "items")
      /\ tx' = [tx EXCEPT ![r].at = "insert", ![r].items = inCart,
                          ![r].todo = {p \in Products : inCart[p] > 0}]

\* create_order is the first write.  (The row is nobody else's to see, and gets
\* its id, as far as the others are concerned, in Commit.)
InsertOrder(r) ==
  /\ At(r, "insert")
  /\ Writers = {}
  /\ tx' = [tx EXCEPT ![r].at = "write"]

\* One turn of the item loop: the product's row as committed, and its new figure.
TakeItem(r, p) ==
  /\ At(r, "write")
  /\ p \in tx[r].todo
  /\ p \in live
  /\ tx[r].items[p] <= stock[p]
  /\ tx' = [tx EXCEPT ![r].left[p] = stock[p] - tx[r].items[p],
                      ![r].todo = @ \ {p}]

\* The order with its items and its audit entry, the figures, the cart cleared:
\* all of it appears at once, when nobody else is reading.
Commit(r, o) ==
  LET t == tx[r]
  IN  /\ At(r, "write") /\ t.todo = {}
      /\ OtherReaders(r) = {}
      /\ status[o] = NotPlaced
      /\ status' = [status EXCEPT ![o] = "PLACED"]
      /\ method' = [method EXCEPT ![o] = t.method]
      /\ payment' = [payment EXCEPT ![o] = "PENDING"]
      /\ lines' = [lines EXCEPT ![o] = t.items]
      /\ orderShop' = [orderShop EXCEPT ![o] = t.shop]
      /\ lastEvent' = [lastEvent EXCEPT ![o] = Placement]
      /\ stock' = [p \in Products |-> IF t.items[p] > 0 THEN t.left[p] ELSE stock[p]]
      /\ cartQty' = [cartQty EXCEPT ![t.customer] = EmptyLines]
      /\ cartShop' = [cartShop EXCEPT ![t.customer] = NoShop]
      /\ tx' = [tx EXCEPT ![r] = NoTransaction]
      /\ UNCHANGED <<live, shopFlags, clearing, cancelling>>

\* It raises, finds the database locked, or its process dies: rolled back.
Rollback(r) ==
  /\ ~At(r, "none")
  /\ tx' = [tx EXCEPT ![r] = NoTransaction]

Statement(r) ==
  \/ \E c \in Customers, m \in PaymentMethod : ReadCart(r, c, m)
  \/ ReadShop(r) \/ ReadCartLines(r) \/ ReadItems(r) \/ InsertOrder(r)
  \/ \E p \in Products : TakeItem(r, p)
  \/ Rollback(r)

\* Every other endpoint: it may write only while no checkout has a lock.
database == <<productRows, shopFlags, cartShop, cartQty, orderRows, orderShop>>

OtherRequest ==
  /\ CartOrShopRequest \/ OrderRequest
  /\ Readers # {} => database' = database
  /\ UNCHANGED tx

LockedNext ==
  \/ OtherRequest
  \/ \E r \in Requests : Statement(r) /\ UNCHANGED vars
  \/ \E r \in Requests, o \in Orders : Commit(r, o)

LockedSpec == LockedInit /\ [][LockedNext]_lockedVars

-----------------------------------------------------------------------------
(***************************************************************************)
(* What place_order has read, several statements ago, is still what the    *)
(* database says: the shop and its flags, the lines, the figures of the    *)
(* products.  (It locks no row of the cart, and on SQLite not even the     *)
(* products': it is the order in which locks are given that keeps it so.)  *)
(***************************************************************************)
StillOpen(t) ==
  /\ HasItems(t.customer)
  /\ approved[t.shop] /\ accepting[t.shop]
  /\ t.method = "COD" => cod[t.shop]

ReadsHold(t) ==
  LET inCart == cartQty[t.customer]
  IN  /\ cartShop[t.customer] = t.shop
      /\ t.at # "shop" => StillOpen(t)
      /\ t.at \notin {"shop", "cart lines"} =>
           \A p \in Products : inCart[p] > 0 => available[p] /\ inCart[p] <= stock[p]
      /\ t.at \in {"insert", "write"} => t.items = inCart
      /\ t.at = "write" =>
           \A p \in Products \ t.todo :
             t.items[p] > 0 => p \in live /\ t.left[p] = stock[p] - t.items[p]

NoReadIsStale == \A r \in Readers : ReadsHold(tx[r])

(***************************************************************************)
(* Checkout statement by statement is checkout in one step: nobody can     *)
(* tell the difference, two requests for one cart and two carts with the   *)
(* same last unit included, and whatever is rolled back leaves no trace.   *)
(***************************************************************************)
PlacedAtOnce == Spec

==============================================================================
