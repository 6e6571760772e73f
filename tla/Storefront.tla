----------------------------- MODULE Storefront ------------------------------
(***************************************************************************)
(* The cart slice on top of the session: the page shows the cart that the  *)
(* last answer to arrive brought along.  Of a cart it matters here whose   *)
(* it is and whether it is still what the server has; a customer's cart    *)
(* is changed by his requests from this page and by nothing else.          *)
(***************************************************************************)
EXTENDS ClientSession

CONSTANT NoCart     \* state.cart.cart is null

VARIABLES
  cart,         \* state.cart.cart
  current,      \* the answered requests whose cart is still the server's
  disturbed     \* history: the last cart request met another one or failed

storefrontVars == <<clientVars, cart, current, disturbed>>

CartRequests == {r \in Pending : request[r].kind \in {"change", "fetch", "order"}}

StorefrontTypeOK ==
  /\ ClientTypeOK
  /\ cart \in [of : Users, current : BOOLEAN] \cup {NoCart}
  /\ current \subseteq In("answered")
  /\ disturbed \in BOOLEAN

Init ==
  /\ ClientInit
  /\ cart = NoCart
  /\ current = {}
  /\ disturbed = FALSE

-----------------------------------------------------------------------------
\* A session step that neither ends a cart request nor starts one.
SessionStep ==
  /\ \/ Boot \/ Refreshed
     \/ \E u \in Users : LogIn(u)
     \/ LogInFails
     \/ \E r \in Requests : Refused(r)
  /\ UNCHANGED <<cart, current, disturbed>>

\* The user changes; the slice does not: nothing dispatches resetCart.
UserChanges ==
  /\ Logout \/ LoggedIn \/ RefreshFails
  /\ disturbed' = TRUE
  /\ UNCHANGED <<cart, current>>

ReloadPage ==
  /\ Reload
  /\ cart' = NoCart /\ current' = {} /\ disturbed' = FALSE

SendRequest(r, kind) ==
  /\ Send(r, kind)
  /\ disturbed' = (CartRequests # {})
  /\ UNCHANGED <<cart, current>>

\* What the server holds has changed: no earlier copy is current any more.
Outdated(u) == {r \in current : request[r].as = u}

ServeRequest(r) ==
  LET u == request[r].as
      changes == request[r].kind \in {"change", "order"}
      brings == request[r].kind \in {"change", "fetch"}
  IN  /\ Serve(r)
      /\ current' = (IF changes THEN current \ Outdated(u) ELSE current)
                      \cup (IF brings THEN {r} ELSE {})
      /\ cart' = IF changes /\ cart # NoCart /\ cart.of = u
                   THEN [cart EXCEPT !.current = FALSE] ELSE cart
      /\ UNCHANGED disturbed

\* setCart, whichever request the answer belongs to.
AnswerArrives(r) ==
  /\ Answered(r)
  /\ cart' = IF request[r].kind \in {"change", "fetch"}
               THEN [of |-> request[r].as, current |-> r \in current] ELSE cart
  /\ current' = current \ {r}
  /\ disturbed' = IF request[r].kind = "order" THEN CartRequests # {r} ELSE disturbed

\* setError leaves the cart as it is.
RequestFails(r) ==
  /\ Fails(r) \/ RefusedForGood(r)
  /\ current' = current \ {r}
  /\ disturbed' = (disturbed \/ r \in CartRequests)
  /\ UNCHANGED cart

Settling(r) ==
  ServeRequest(r) \/ AnswerArrives(r) \/ RequestFails(r)
    \/ (Refused(r) /\ UNCHANGED <<cart, current, disturbed>>)

RefreshSettles ==
  \/ Refreshed /\ UNCHANGED <<cart, current, disturbed>>
  \/ RefreshFails /\ disturbed' = TRUE /\ UNCHANGED <<cart, current>>

Next ==
  \/ SessionStep
  \/ UserChanges
  \/ ReloadPage
  \/ \E r \in Requests :
       \/ \E kind \in Kinds : SendRequest(r, kind)
       \/ ServeRequest(r)
       \/ AnswerArrives(r)
       \/ RequestFails(r)

\* The network answers or fails in the end.
Spec ==
  /\ Init /\ [][Next]_storefrontVars
  /\ \A r \in Requests : WF_storefrontVars(Settling(r))
  /\ WF_storefrontVars(RefreshSettles)

-----------------------------------------------------------------------------
(***************************************************************************)
(* The badge and the cart page are right once the last cart request has    *)
(* been answered - of a customer who did not have two of them under way at *)
(* once.  (Answers carry the cart of the moment they were made; setCart    *)
(* takes them in the order they arrive.)                                   *)
(***************************************************************************)
CartShownIsCurrent ==
  ~crossed /\ ~disturbed /\ CartRequests = {} /\ user # NoOne
    => cart \in {NoCart, [of |-> user, current |-> TRUE]}

==============================================================================
