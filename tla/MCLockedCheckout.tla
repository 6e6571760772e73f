-------------------------- MODULE MCLockedCheckout ---------------------------
(* Constant values and bounds for model-checking LockedCheckout. *)
EXTENDS LockedCheckout, FiniteSets, TLC

\* One shop sells everything.
MCShopOf == [p \in Products |-> CHOOSE s \in Shops : TRUE]

MCSymmetry ==
  Permutations(Orders) \cup Permutations(Customers) \cup Permutations(Products)
    \cup Permutations(Requests)

Off(flag) == {x \in DOMAIN flag : ~flag[x]}

\* Bounds of the search: of the things that can stand in a checkout's way (a
\* flag that is off, a deleted product) there is one at a time, an order is not
\* followed past PLACED except to its end, one of them, and the requests in two
\* parts (cancel, clear_cart) stay out.  Only cash is asked of the shop's flags,
\* so one checkout at a time pays online, and no order is followed that did.
MCSmall ==
  /\ Cardinality(Off(approved)) + Cardinality(Off(accepting))
       + Cardinality(Off(cod)) + Cardinality(Off(available))
       + Cardinality(Products \ live)
       + Cardinality({o \in Orders : status[o] = "CANCELLED"}) <= 1
  /\ clearing = {} /\ cancelling = {}
  /\ \A o \in Orders :
       \/ status[o] = NotPlaced
       \/ status[o] \in {"PLACED", "CANCELLED"} /\ method[o] = "COD"
  /\ \A r \in Readers : tx[r].method = "ONLINE" => Readers = {r}

==============================================================================
