------------------------------- MODULE MCCarts -------------------------------
(* Constant values for model-checking Carts. *)
EXTENDS Carts

\* Some allotment of the products that leaves no shop without one.
MCShopOf ==
  CHOOSE f \in [Products -> Shops] : \A s \in Shops : \E p \in Products : f[p] = s

==============================================================================
