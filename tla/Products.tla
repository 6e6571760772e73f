------------------------------ MODULE Products -------------------------------
(***************************************************************************)
(* The shelf: which product rows exist and how many units each one has.    *)
(* Carts read it, orders take from it and give back to it, a shopkeeper or *)
(* an admin overwrites it.                                                 *)
(***************************************************************************)
EXTENDS Integers

CONSTANTS
  Products,   \* product ids; every one has a row at the start
  MaxStock    \* the largest stock figure a shopkeeper types in

ASSUME MaxStockAssumption == MaxStock \in Nat

VARIABLES
  live,       \* the products whose row has not been deleted
  stock       \* Product.stock_quantity (kept, and meaningless, once deleted)

productRows == <<live, stock>>

ProductTypeOK ==
  /\ live \subseteq Products
  /\ stock \in [Products -> Nat]

ProductInit ==
  /\ live = Products
  /\ stock \in [Products -> 0..MaxStock]

(***************************************************************************)
(* Seeded fault: the figure taken as units sold since, not as the new      *)
(* count.  No specification uses it; it breaks the type invariants.        *)
(***************************************************************************)
UpdateStockRelative(p, v) ==
  /\ p \in live
  /\ stock' = [stock EXCEPT ![p] = @ - v]
  /\ UNCHANGED live

\* POST .../stock/ and the stock_quantity field of a product PUT or PATCH: an
\* absolute figure, whatever the row holds by then.
UpdateStock(p, v) ==
  /\ p \in live
  /\ stock' = [stock EXCEPT ![p] = v]
  /\ UNCHANGED live

\* DELETE on a managed product.
DestroyProduct(p) ==
  /\ p \in live
  /\ live' = live \ {p}
  /\ UNCHANGED stock

==============================================================================
