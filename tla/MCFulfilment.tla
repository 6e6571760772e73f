---------------------------- MODULE MCFulfilment -----------------------------
(* Constant values and bounds for model-checking Fulfilment. *)
EXTENDS Fulfilment, TLC

CONSTANT MaxInFlight    \* requests in flight at a time

MCSymmetry == Permutations(Orders) \cup Permutations(Partners)

MCFewRequests ==
  Cardinality(cancelling) + Cardinality(assigning) + Cardinality(advancing)
    + Cardinality(goingOnline)
    + Cardinality({d \in Partners : patching[d] # NoSnapshot}) <= MaxInFlight

==============================================================================
