----------------------------- MODULE MCCheckout ------------------------------
(* Constant values and bounds for model-checking Checkout. *)
EXTENDS Checkout, FiniteSets, TLC

\* Some allotment of the products that leaves no shop without one.
MCShopOf ==
  CHOOSE f \in [Products -> Shops] : \A s \in Shops : \E p \in Products : f[p] = s

\* Two shops with one product each: they change places together.
MCOtherShop ==
  [x \in Shops \cup Products |->
     IF x \in Shops THEN CHOOSE s \in Shops : s # x ELSE CHOOSE p \in Products : p # x]

MCSymmetry == Permutations(Orders) \cup Permutations(Customers) \cup {MCOtherShop}

Off(flag) == {x \in DOMAIN flag : ~flag[x]}

InFlight == Cardinality(cancelling) + Cardinality(clearing)

\* Bounds of the search: at most one shop or product flag is off or one request
\* is in flight at a time, one product may be deleted, and an order is not
\* followed past PLACED except to its end (its later life touches no cart, and
\* the run of Payments has its effects on the stock).
MCSmall ==
  /\ Cardinality(Off(approved)) + Cardinality(Off(accepting))
       + Cardinality(Off(cod)) + Cardinality(Off(available)) + InFlight <= 1
  /\ Cardinality(Products \ live) <= 1
  /\ \A o \in Orders : status[o] \in {NotPlaced, "PLACED", "CANCELLED"}

==============================================================================
