----------------------------- MODULE Inventory -------------------------------
(***************************************************************************)
(* What the shop is promised about its stock, without orders, statuses or  *)
(* requests: a unit is either on the shelf or with exactly one order.      *)
(* Units move to an order when it takes them and back when it returns all  *)
(* it took, and the books say so; the shopkeeper alone can make shelf      *)
(* units appear or vanish, and he writes nothing in the orders' books.  So *)
(* an order that takes or returns what it does not hold is no recount.     *)
(***************************************************************************)
EXTENDS Integers

CONSTANTS Products, Orders

VARIABLES
  live,     \* the products still sold
  shelf,    \* units on the shelf
  held,     \* units each order has taken and not returned
  books     \* whatever is written about orders: any value, changed by orders only

vars == <<live, shelf, held, books>>

Nothing == [p \in Products |-> 0]

Init ==
  /\ live = Products
  /\ shelf \in [Products -> Nat]
  /\ held = [o \in Orders |-> Nothing]

\* An order takes f, all of it or nothing, and at most what the shelf has.
Take(o) ==
  /\ held[o] = Nothing
  /\ held' = [held EXCEPT ![o] = held'[o]]
  /\ \A p \in Products : held'[o][p] \in 0..shelf[p]
  /\ shelf' = [p \in Products |-> shelf[p] - held'[o][p]]
  /\ books' # books
  /\ UNCHANGED live

\* An order returns everything it holds.
GiveBack(o) ==
  /\ shelf' = [p \in Products |-> shelf[p] + held[o][p]]
  /\ held' = [held EXCEPT ![o] = Nothing]
  /\ books' # books
  /\ UNCHANGED live

\* Anything else that befalls an order moves no unit.
Write == UNCHANGED <<live, shelf, held>>

\* The shopkeeper recounts one product's shelf.
Recount(p) ==
  /\ p \in live
  /\ shelf'[p] \in Nat
  /\ shelf' = [shelf EXCEPT ![p] = shelf'[p]]
  /\ UNCHANGED <<live, held, books>>

\* A product is dropped from the range: orders keep no claim on its units.
Discontinue(p) ==
  /\ p \in live
  /\ live' = live \ {p}
  /\ held' = [o \in Orders |-> [held[o] EXCEPT ![p] = 0]]
  /\ UNCHANGED <<shelf, books>>

Next ==
  \/ \E o \in Orders : Take(o) \/ GiveBack(o)
  \/ Write
  \/ \E p \in Products : Recount(p) \/ Discontinue(p)

Spec == Init /\ [][Next]_vars

==============================================================================
