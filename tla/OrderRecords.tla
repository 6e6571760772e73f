---------------------------- MODULE OrderRecords -----------------------------
(***************************************************************************)
(* What an order copies at checkout from rows that live on: the address it *)
(* goes to and the prices it was bought at.  The address is read by the    *)
(* serializer, before place_order and outside its transaction; the prices  *)
(* inside it.  What the cart holds and whether there is stock is the       *)
(* subject of Carts and Checkout: here a basket is any basket.             *)
(***************************************************************************)
EXTENDS Addresses, Listings, Integers

CONSTANTS
  Orders,
  MaxQuantity     \* bound on the units of a line

ASSUME MaxQuantityAssumption == MaxQuantity \in Nat

VARIABLES
  placing,        \* POST /api/orders/ requests whose address has been looked up
  record          \* columns of the Order and its items; NoRecord if not placed

recordVars == <<addressVars, listingVars, placing, record>>

Baskets == [Products -> 0..MaxQuantity] \ {[p \in Products |-> 0]}

NoRecord == [total |-> 0]

RecordsTypeOK ==
  /\ AddressesTypeOK
  /\ ListingsTypeOK
  /\ placing \subseteq [order : Orders, customer : Users, address : Addresses]
  /\ \A o \in Orders : record[o] # NoRecord =>
       /\ record[o].customer \in Users /\ record[o].address \in Addresses
       /\ record[o].quantity \in Baskets /\ record[o].total \in Nat \ {0}
       /\ record[o].subtotal \in 1..record[o].total

RecordsInit ==
  /\ AddressesInit /\ ListingsInit
  /\ placing = {}
  /\ record = [o \in Orders |-> NoRecord]

-----------------------------------------------------------------------------
\* CheckoutAddressSerializer.validate: get_for_user.
CheckoutRead(o, u, a) ==
  /\ record[o] = NoRecord
  /\ a \in Book(u)
  /\ placing' = placing \cup {[order |-> o, customer |-> u, address |-> a]}
  /\ UNCHANGED <<addressVars, listingVars, record>>

\* place_order: everything is charged at the prices of this moment, and the
\* address is what was looked up, whatever has become of its row.
PlaceOrder(r, basket) ==
  /\ r \in placing
  /\ record[r.order] = NoRecord
  /\ \A p \in Products : basket[p] # 0 => p \in listed
  /\ LET bill == Calculate([p \in Products |-> EffectivePrice(p)], basket)
     IN  record' = [record EXCEPT ![r.order] =
           [customer |-> r.customer, address |-> r.address, quantity |-> basket,
            subtotal |-> bill.subtotal, total |-> bill.total]]
  /\ placing' = {other \in placing : other.order # r.order}
  /\ UNCHANGED <<addressVars, listingVars>>

RecordsNext ==
  \/ AddressesNext /\ UNCHANGED <<listingVars, placing, record>>
  \/ ListingsNext /\ UNCHANGED <<addressVars, placing, record>>
  \/ \E o \in Orders, u \in Users, a \in Addresses : CheckoutRead(o, u, a)
  \/ \E r \in placing, basket \in Baskets : PlaceOrder(r, basket)

RecordsSpec == RecordsInit /\ [][RecordsNext]_recordVars

-----------------------------------------------------------------------------
(***************************************************************************)
(* However price and discount edits have crossed, nobody is charged more   *)
(* for the goods than their list prices of this moment, nor more than one  *)
(* delivery fee on top, and no fee from FREE_DELIVERY_ABOVE on.            *)
(***************************************************************************)
NeverDearerThanListed ==
  [][\A o \in Orders : record[o] = NoRecord /\ record'[o] # NoRecord =>
       LET bought == record'[o]
           fee == bought.total - bought.subtotal
       IN  /\ bought.subtotal <= Sum([p \in Products |-> price[p] * bought.quantity[p]])
           /\ fee <= (IF bought.subtotal < FREE_DELIVERY_ABOVE THEN DeliveryFee ELSE 0)]_recordVars

==============================================================================
