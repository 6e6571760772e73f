---------------------------- MODULE ClientSession ----------------------------
(***************************************************************************)
(* One tab of the browser: the tokens in localStorage, the user the page   *)
(* shows, and the requests under way, which share one token refresh when   *)
(* they are refused.  JavaScript runs one callback at a time, so each      *)
(* action is what one answer or one click sets off until nothing is left   *)
(* to do at once; what comes between two actions is the network.           *)
(***************************************************************************)
CONSTANTS
  Users,
  NoOne,
  Requests     \* names for the requests of the page, used again and again

ASSUME ClientAssumption == NoOne \notin Users

VARIABLES
  tokens,      \* whose token pair localStorage holds
  user,        \* state.auth.user
  page,        \* "loading" until App's first effect has run
  loggingIn,   \* whose credentials a pending POST /auth/login/ carries
  request,     \* what has become of each request
  refreshing,  \* refreshPromise: whose tokens are being refreshed
  crossed      \* history: the session changed while something was under way

clientVars == <<tokens, user, page, loggingIn, request, refreshing, crossed>>

Someone == Users \cup {NoOne}

\* GET /auth/me/; a request that changes the cart and answers with it; GET
\* /cart/; POST /orders/.  Any other request is to the session as these are.
Kinds == {"me", "change", "fetch", "order"}

\* "sent": on its way to the server; "answered": dealt with, the answer on its
\* way back; "waiting": refused, for the refresh to end.
Idle == [phase |-> "idle"]
UnderWay == [phase : {"sent", "answered", "waiting"}, kind : Kinds, as : Someone,
             retried : BOOLEAN]

ClientTypeOK ==
  /\ tokens \in Someone /\ user \in Someone
  /\ page \in {"loading", "running"}
  /\ loggingIn \in Someone
  /\ request \in [Requests -> UnderWay \cup {Idle}]
  /\ refreshing \in Someone
  /\ crossed \in BOOLEAN

ClientInit ==
  /\ tokens \in Someone
  /\ user = NoOne /\ loggingIn = NoOne /\ refreshing = NoOne
  /\ page = "loading"
  /\ request = [r \in Requests |-> Idle]
  /\ crossed = FALSE

-----------------------------------------------------------------------------
In(phase) == {r \in Requests : request[r].phase = phase}
Pending == {r \in Requests : request[r] # Idle}

\* The request interceptor puts in the token of this moment.
New(kind) == [phase |-> "sent", kind |-> kind, as |-> tokens, retried |-> FALSE]

\* fetchCurrentUser.rejected shows nobody; no other failure touches the user.
UserAfterFailure(r) == IF request[r].kind = "me" THEN NoOne ELSE user

\* App's effect: a page with tokens asks who it is, one without is logged out.
Boot ==
  /\ page = "loading"
  /\ page' = "running"
  /\ IF tokens = NoOne THEN UNCHANGED request
     ELSE \E r \in Requests : request' = [request EXCEPT ![r] = New("me")]
  /\ UNCHANGED <<tokens, user, loggingIn, refreshing, crossed>>

\* The page is loaded again: only localStorage survives.  (What it had sent is
\* either dealt with already or lost.)
Reload ==
  /\ page = "running"
  /\ page' = "loading"
  /\ user' = NoOne /\ loggingIn' = NoOne /\ refreshing' = NoOne
  /\ request' = [r \in Requests |-> Idle]
  /\ crossed' = FALSE
  /\ UNCHANGED tokens

Send(r, kind) ==
  /\ page = "running"
  /\ request[r] = Idle
  /\ kind # "me"
  /\ request' = [request EXCEPT ![r] = New(kind)]
  /\ UNCHANGED <<tokens, user, page, loggingIn, refreshing, crossed>>

\* The server does what it is asked by whoever the token names.
Serve(r) ==
  /\ r \in In("sent")
  /\ request[r].as # NoOne
  /\ request' = [request EXCEPT ![r].phase = "answered"]
  /\ UNCHANGED <<tokens, user, page, loggingIn, refreshing, crossed>>

-----------------------------------------------------------------------------
\* Seeded fault: Checkout without its fetchCart.  It breaks CartShownIsCurrent
\* (Storefront).
NothingFollows(r) == Idle

\* The checkout page asks for the cart again once its order is placed.
Follows(r) == IF request[r].kind = "order" THEN New("fetch") ELSE Idle

\* The answer arrives; fetchCurrentUser.fulfilled shows whom it names.
Answered(r) ==
  /\ r \in In("answered")
  /\ user' = IF request[r].kind = "me" THEN request[r].as ELSE user
  /\ request' = [request EXCEPT ![r] = Follows(r)]
  /\ UNCHANGED <<tokens, page, loggingIn, refreshing, crossed>>

\* A network failure, of the request or of its answer, or an error answer other
\* than 401.
Fails(r) ==
  /\ r \in In("sent") \cup In("answered")
  /\ user' = UserAfterFailure(r)
  /\ request' = [request EXCEPT ![r] = Idle]
  /\ UNCHANGED <<tokens, page, loggingIn, refreshing, crossed>>

\* Seeded fault: config._retried never set.  It breaks EverySettles.
MayRetryAlways(r) == tokens # NoOne

MayRetry(r) == ~request[r].retried /\ tokens # NoOne

\* 401: the token has expired, is missing, or its user has been deactivated.
\* The first time the request waits for the refresh, which the first of a burst
\* starts ...
Refused(r) ==
  /\ r \in In("sent")
  /\ MayRetry(r)
  /\ request' = [request EXCEPT ![r].phase = "waiting", ![r].retried = TRUE]
  /\ refreshing' = IF refreshing = NoOne THEN tokens ELSE refreshing
  /\ UNCHANGED <<tokens, user, page, loggingIn, crossed>>

\* ... the second time, or with no tokens to refresh, it has failed.
RefusedForGood(r) ==
  /\ r \in In("sent")
  /\ ~MayRetry(r)
  /\ user' = UserAfterFailure(r)
  /\ request' = [request EXCEPT ![r] = Idle]
  /\ UNCHANGED <<tokens, page, loggingIn, refreshing, crossed>>

\* The new access token is stored next to the refresh token it was asked for
\* with, and everybody who waited is sent again with it.
Refreshed ==
  /\ refreshing # NoOne
  /\ tokens' = refreshing
  /\ refreshing' = NoOne
  /\ request' = [r \in Requests |->
       IF r \in In("waiting") THEN [request[r] EXCEPT !.phase = "sent", !.as = refreshing]
                              ELSE request[r]]
  /\ UNCHANGED <<user, page, loggingIn, crossed>>

\* Whether, at a change of the session, anything but rest is still under way.
StillUnderWay(rest) == rest # {} \/ loggingIn # NoOne

\* Seeded faults: RefreshFails without the qc:logout event, and with the
\* rejected promise kept.  They break OneSession and RefreshServesWaiters.
RefreshFailsSilently ==
  /\ refreshing # NoOne
  /\ tokens' = NoOne /\ refreshing' = NoOne
  /\ request' = [r \in Requests |-> IF r \in In("waiting") THEN Idle ELSE request[r]]
  /\ crossed' = StillUnderWay(Pending \ In("waiting"))
  /\ UNCHANGED <<user, page, loggingIn>>

RefreshFailsForEver ==
  /\ refreshing # NoOne
  /\ tokens' = NoOne /\ user' = NoOne
  /\ request' = [r \in Requests |-> IF r \in In("waiting") THEN Idle ELSE request[r]]
  /\ crossed' = StillUnderWay(Pending \ In("waiting"))
  /\ UNCHANGED <<page, loggingIn, refreshing>>

\* The refresh is refused or lost: everybody who waited fails, and the
\* qc:logout event logs the page out.
RefreshFails ==
  /\ refreshing # NoOne
  /\ tokens' = NoOne /\ user' = NoOne /\ refreshing' = NoOne
  /\ request' = [r \in Requests |-> IF r \in In("waiting") THEN Idle ELSE request[r]]
  /\ crossed' = StillUnderWay(Pending \ In("waiting"))
  /\ UNCHANGED <<page, loggingIn>>

-----------------------------------------------------------------------------
Logout ==
  /\ page = "running" /\ user # NoOne
  /\ tokens' = NoOne /\ user' = NoOne
  /\ crossed' = StillUnderWay(Pending)
  /\ UNCHANGED <<page, loggingIn, request, refreshing>>

\* The login page, which sends on whoever is authenticated already.
LogIn(u) ==
  /\ page = "running" /\ loggingIn = NoOne
  /\ user = NoOne \/ tokens = NoOne
  /\ loggingIn' = u
  /\ UNCHANGED <<tokens, user, page, request, refreshing, crossed>>

LoggedIn ==
  /\ loggingIn # NoOne
  /\ tokens' = loggingIn /\ user' = loggingIn /\ loggingIn' = NoOne
  /\ crossed' = (Pending # {})
  /\ UNCHANGED <<page, request, refreshing>>

LogInFails ==
  /\ loggingIn # NoOne
  /\ loggingIn' = NoOne
  /\ UNCHANGED <<tokens, user, page, request, refreshing, crossed>>

-----------------------------------------------------------------------------
(***************************************************************************)
(* As long as no login, logout or failed refresh has come in the middle of *)
(* something, the page shows nobody or the owner of the stored tokens, and *)
(* every request goes out as him.  (When one has, a refresh that ends late *)
(* brings a logged-out user's tokens back or sends the next user's request *)
(* as the one before, and a late /me shows him: api.js does not look       *)
(* whether the tokens are still those it started with.)                    *)
(***************************************************************************)
OneSession ==
  ~crossed =>
    /\ user \in {NoOne, tokens}
    /\ \A r \in In("sent") \cup In("answered") : request[r].as = tokens

(***************************************************************************)
(* refreshPromise lives exactly as long as somebody waits for it: nobody   *)
(* waits for a refresh that is over, and no refused request finds an old   *)
(* promise instead of starting a refresh.                                  *)
(***************************************************************************)
RefreshServesWaiters == (refreshing # NoOne) <=> (In("waiting") # {})

(***************************************************************************)
(* Every request settles, whatever is refused how often: a 401 is retried  *)
(* once, and nobody waits for a refresh for ever.                          *)
(***************************************************************************)
EverySettles == \A r \in Requests : request[r] # Idle ~> request[r] = Idle

==============================================================================
