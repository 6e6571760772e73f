--------------------------- MODULE StorefrontProofs ---------------------------
(***************************************************************************)
(* Theorems about the client, for every set of users and any number of     *)
(* requests under way at once: who the page shows and sends as, that a     *)
(* refresh ends when nobody waits for it and not before, and that an       *)
(* undisturbed cart is the server's.                                       *)
(***************************************************************************)
EXTENDS Storefront, TLAPS

-----------------------------------------------------------------------------
(***************************************************************************)
(* The inductive invariant of the session.  A page that is loading has     *)
(* nothing under way, so Boot may take any name for its request; only a    *)
(* request with somebody's token is answered; and while nothing crosses,   *)
(* the refresh under way is that of the stored tokens.                     *)
(***************************************************************************)
LoadingIsQuiet ==
  page = "loading" =>
    /\ user = NoOne /\ loggingIn = NoOne /\ refreshing = NoOne
    /\ request = [r \in Requests |-> Idle]

AnsweredToSomebody == \A r \in In("answered") : request[r].as \in Users

RefreshOfStored == ~crossed => refreshing \in {NoOne, tokens}

SessionInv ==
  /\ ClientTypeOK
  /\ LoadingIsQuiet
  /\ AnsweredToSomebody
  /\ RefreshServesWaiters
  /\ RefreshOfStored
  /\ OneSession

(***************************************************************************)
(* The inductive invariant of the cart: as long as nothing disturbs them,  *)
(* one request at a time has to do with the cart, what it brings back is   *)
(* what the server has, and so is what is shown between two requests.      *)
(***************************************************************************)
OneCartRequest == \A r, q \in CartRequests : r = q

BringsCurrent ==
  \A r \in CartRequests :
    request[r].phase = "answered" /\ request[r].kind # "order" => r \in current

ShowsCurrent ==
  CartRequests = {} => cart \in {NoCart, [of |-> tokens, current |-> TRUE]}

CartInv ==
  ~crossed /\ ~disturbed => OneCartRequest /\ BringsCurrent /\ ShowsCurrent

StorefrontInv == SessionInv /\ StorefrontTypeOK /\ CartInv

-----------------------------------------------------------------------------
\* A request that is under way has all its fields.
LEMMA RequestFacts ==
  ASSUME ClientTypeOK, NEW r \in Requests
  PROVE  /\ request[r] = Idle \/ request[r] \in UnderWay
         /\ request[r] # Idle <=> request[r].phase \in {"sent", "answered", "waiting"}
         /\ request[r].phase \in {"idle", "sent", "answered", "waiting"}
         /\ request[r] # Idle => /\ request[r] \in UnderWay
                                 /\ request[r].kind \in Kinds
                                 /\ request[r].as \in Someone
                                 /\ request[r].retried \in BOOLEAN
BY DEF ClientTypeOK, UnderWay, Idle

LEMMA NewFacts ==
  ASSUME ClientTypeOK, NEW kind \in Kinds
  PROVE  /\ New(kind) \in UnderWay /\ New(kind).phase = "sent"
         /\ New(kind).as = tokens /\ New(kind).kind = kind
BY DEF ClientTypeOK, New, UnderWay

(***************************************************************************)
(* What an action does to the requests, said once: one request r becomes   *)
(* new, the others stay.                                                   *)
(***************************************************************************)
Becomes(r, new) ==
  /\ request' = [request EXCEPT ![r] = new]
  /\ new \in UnderWay \cup {Idle}

LEMMA BecomesFacts ==
  ASSUME ClientTypeOK, NEW r \in Requests, NEW new, Becomes(r, new)
  PROVE  /\ request' \in [Requests -> UnderWay \cup {Idle}]
         /\ request'[r] = new
         /\ \A q \in Requests \ {r} : request'[q] = request[q]
BY DEF ClientTypeOK, Becomes

-----------------------------------------------------------------------------
(***************************************************************************)
(* The session, action by action.  First those that change one request and *)
(* neither tokens nor refresh: it must not come out of the waiting room by *)
(* them, and must go on as the owner of the tokens.                        *)
(***************************************************************************)
LEMMA OneRequestKeepsInv ==
  ASSUME SessionInv, NEW r \in Requests, NEW new, Becomes(r, new),
         r \notin In("waiting"), new.phase # "waiting",
         new.phase = "answered" => new.as \in Users,
         ~crossed /\ new.phase \in {"sent", "answered"} => new.as = tokens,
         page' = "running", user' \in Someone, ~crossed => user' \in {NoOne, tokens},
         UNCHANGED <<tokens, loggingIn, refreshing, crossed>>
  PROVE  SessionInv'
<1>1. ClientTypeOK'
  BY BecomesFacts DEF SessionInv, ClientTypeOK
<1>2. /\ request'[r] = new
      /\ \A q \in Requests \ {r} : request'[q] = request[q]
  BY BecomesFacts DEF SessionInv
<1>3. In("waiting")' = In("waiting")
  BY <1>2 DEF In
<1>4. LoadingIsQuiet' /\ RefreshServesWaiters' /\ RefreshOfStored'
  BY <1>3 DEF SessionInv, LoadingIsQuiet, RefreshServesWaiters, RefreshOfStored
<1>5. AnsweredToSomebody' /\ OneSession'
  BY <1>2 DEF SessionInv, AnsweredToSomebody, OneSession, In
<1> QED
  BY <1>1, <1>4, <1>5 DEF SessionInv

LEMMA BootKeepsInv ==
  ASSUME SessionInv, Boot
  PROVE  SessionInv'
<1>1. /\ user = NoOne /\ loggingIn = NoOne /\ refreshing = NoOne
      /\ request = [r \in Requests |-> Idle]
      /\ page' = "running" /\ UNCHANGED <<tokens, user, loggingIn, refreshing, crossed>>
  BY DEF SessionInv, LoadingIsQuiet, Boot
<1>2. CASE UNCHANGED request
  BY <1>1, <1>2
  DEF SessionInv, ClientTypeOK, LoadingIsQuiet, AnsweredToSomebody, RefreshServesWaiters,
      RefreshOfStored, OneSession, In
<1>3. ASSUME NEW r \in Requests, request' = [request EXCEPT ![r] = New("me")]
      PROVE  SessionInv'
  <2>1. /\ New("me") \in UnderWay
        /\ New("me").phase = "sent" /\ New("me").as = tokens
    BY NewFacts DEF SessionInv, Kinds
  <2>2. Becomes(r, New("me")) /\ r \notin In("waiting")
    BY <1>1, <1>3, <2>1 DEF Becomes, In, Idle
  <2> QED
    BY <1>1, <2>1, <2>2, OneRequestKeepsInv DEF Someone
<1> QED
  BY <1>2, <1>3 DEF Boot

LEMMA ReloadKeepsInv ==
  ASSUME SessionInv, Reload
  PROVE  SessionInv'
BY DEF SessionInv, Reload, ClientTypeOK, Someone, LoadingIsQuiet, AnsweredToSomebody,
       RefreshServesWaiters, RefreshOfStored, OneSession, In, Idle

LEMMA SendKeepsInv ==
  ASSUME SessionInv, NEW r \in Requests, NEW kind \in Kinds, Send(r, kind)
  PROVE  SessionInv'
<1>1. /\ New(kind) \in UnderWay
      /\ New(kind).phase = "sent" /\ New(kind).as = tokens
  BY NewFacts DEF SessionInv
<1>2. Becomes(r, New(kind)) /\ r \notin In("waiting")
  BY <1>1 DEF Send, Becomes, In, Idle
<1> QED
  BY <1>1, <1>2, OneRequestKeepsInv DEF Send, SessionInv, ClientTypeOK, OneSession

LEMMA ServeKeepsInv ==
  ASSUME SessionInv, NEW r \in Requests, Serve(r)
  PROVE  SessionInv'
<1> DEFINE new == [request[r] EXCEPT !.phase = "answered"]
<1>1. request[r] \in UnderWay /\ request[r].phase = "sent"
  BY RequestFacts DEF SessionInv, Serve, In
<1>2. new \in UnderWay /\ new.phase = "answered" /\ new.as = request[r].as
  BY <1>1 DEF UnderWay
<1>3. new.as \in Users
  BY <1>1, <1>2 DEF Serve, UnderWay, Someone
<1>4. ~crossed => new.as = tokens
  BY <1>1, <1>2 DEF SessionInv, OneSession, In
<1>5. Becomes(r, new) /\ r \notin In("waiting")
  BY <1>1, <1>2 DEF Serve, Becomes, In, SessionInv, ClientTypeOK
<1>6. page = "running"
  BY <1>1 DEF SessionInv, LoadingIsQuiet, ClientTypeOK, Idle
<1> QED
  BY <1>2, <1>3, <1>4, <1>5, <1>6, OneRequestKeepsInv
  DEF Serve, SessionInv, ClientTypeOK, OneSession

\* A request that has failed or been answered leaves, or becomes another.
LEMMA AnsweredKeepsInv ==
  ASSUME SessionInv, NEW r \in Requests, Answered(r)
  PROVE  SessionInv'
<1>1. /\ r \in In("answered") /\ request[r].as \in Users
      /\ ~crossed => request[r].as = tokens
  BY DEF SessionInv, Answered, AnsweredToSomebody, OneSession
<1>2. /\ Follows(r) \in UnderWay \cup {Idle}
      /\ Follows(r).phase \in {"sent", "idle"}
      /\ Follows(r).phase = "sent" => Follows(r).as = tokens
  BY NewFacts DEF Follows, Idle, SessionInv, Kinds
<1>3. Becomes(r, Follows(r)) /\ r \notin In("waiting")
  BY <1>1, <1>2 DEF Answered, Becomes, In
<1>4. page = "running"
  BY <1>1 DEF SessionInv, LoadingIsQuiet, ClientTypeOK, Idle, In
<1>5. user' \in Someone /\ (~crossed => user' \in {NoOne, tokens})
  BY <1>1 DEF Answered, SessionInv, ClientTypeOK, OneSession, Someone
<1> QED
  BY <1>2, <1>3, <1>4, <1>5, OneRequestKeepsInv DEF Answered

LEMMA FailureKeepsInv ==
  ASSUME SessionInv, NEW r \in Requests, Fails(r) \/ RefusedForGood(r)
  PROVE  SessionInv'
<1>1. /\ r \in In("sent") \cup In("answered")
      /\ request' = [request EXCEPT ![r] = Idle] /\ user' = UserAfterFailure(r)
      /\ UNCHANGED <<tokens, page, loggingIn, refreshing, crossed>>
  BY DEF Fails, RefusedForGood
<1>2. Becomes(r, Idle) /\ r \notin In("waiting") /\ Idle.phase = "idle"
  BY <1>1 DEF Becomes, In, Idle
<1>3. page = "running"
  BY <1>1 DEF SessionInv, LoadingIsQuiet, ClientTypeOK, Idle, In
<1>4. user' \in Someone /\ (~crossed => user' \in {NoOne, tokens})
  BY <1>1 DEF UserAfterFailure, SessionInv, ClientTypeOK, OneSession, Someone
<1> QED
  BY <1>1, <1>2, <1>3, <1>4, OneRequestKeepsInv

\* The first of a burst starts the refresh, the others find it started.
LEMMA RefusedKeepsInv ==
  ASSUME SessionInv, NEW r \in Requests, Refused(r)
  PROVE  SessionInv'
<1> DEFINE new == [request[r] EXCEPT !.phase = "waiting", !.retried = TRUE]
<1>1. request[r] \in UnderWay /\ request[r].phase = "sent" /\ tokens # NoOne
  BY RequestFacts DEF SessionInv, Refused, MayRetry, In
<1>2. new \in UnderWay /\ new.phase = "waiting"
  BY <1>1 DEF UnderWay
<1>3. Becomes(r, new)
  BY <1>1, <1>2 DEF Refused, Becomes, SessionInv, ClientTypeOK
<1>4. /\ request' \in [Requests -> UnderWay \cup {Idle}] /\ request'[r] = new
      /\ \A q \in Requests \ {r} : request'[q] = request[q]
  BY <1>3, BecomesFacts DEF SessionInv
<1>5. /\ refreshing' \in Someone /\ refreshing' # NoOne
      /\ ~crossed => refreshing' = tokens
  BY <1>1 DEF Refused, SessionInv, ClientTypeOK, RefreshOfStored
<1>6. page = "running"
  BY <1>1 DEF SessionInv, LoadingIsQuiet, ClientTypeOK, Idle
<1>7. ClientTypeOK' /\ LoadingIsQuiet' /\ RefreshOfStored'
  BY <1>4, <1>5, <1>6
  DEF Refused, SessionInv, ClientTypeOK, LoadingIsQuiet, RefreshOfStored
<1>8. RefreshServesWaiters'
  <2>1. r \in In("waiting")'
    BY <1>2, <1>4 DEF In
  <2> QED
    BY <1>5, <2>1 DEF RefreshServesWaiters
<1>9. AnsweredToSomebody' /\ OneSession'
  BY <1>2, <1>4 DEF Refused, SessionInv, AnsweredToSomebody, OneSession, In
<1> QED
  BY <1>7, <1>8, <1>9 DEF SessionInv

LEMMA RefreshedKeepsInv ==
  ASSUME SessionInv, Refreshed
  PROVE  SessionInv'
<1>1. /\ request \in [Requests -> UnderWay \cup {Idle}]
      /\ refreshing \in Users /\ tokens' = refreshing /\ refreshing' = NoOne
      /\ UNCHANGED <<user, page, loggingIn, crossed>>
  BY DEF SessionInv, ClientTypeOK, Refreshed, Someone
<1>2. ASSUME NEW r \in Requests
      PROVE  /\ request'[r] \in UnderWay \cup {Idle}
             /\ request'[r].phase # "waiting"
             /\ r \in In("waiting") => /\ request'[r].phase = "sent"
                                       /\ request'[r].as = refreshing
             /\ r \notin In("waiting") => request'[r] = request[r]
  <2>1. CASE r \in In("waiting")
    <3>1. request[r] \in UnderWay
      BY <2>1, RequestFacts DEF SessionInv, In
    <3>2. request'[r] = [request[r] EXCEPT !.phase = "sent", !.as = refreshing]
      BY <2>1 DEF Refreshed
    <3> QED
      BY <1>1, <2>1, <3>1, <3>2 DEF UnderWay, Someone
  <2>2. CASE r \notin In("waiting")
    BY <1>1, <2>2 DEF Refreshed, In
  <2> QED
    BY <2>1, <2>2
<1>3. request' \in [Requests -> UnderWay \cup {Idle}]
  BY <1>2 DEF Refreshed
<1>4. page = "running"
  BY <1>1, ClientAssumption DEF SessionInv, LoadingIsQuiet, ClientTypeOK
<1>5. ClientTypeOK' /\ LoadingIsQuiet' /\ RefreshOfStored'
  BY <1>1, <1>3, <1>4
  DEF SessionInv, ClientTypeOK, LoadingIsQuiet, RefreshOfStored, Someone
<1>6. RefreshServesWaiters'
  BY <1>1, <1>2 DEF RefreshServesWaiters, In
<1>7. AnsweredToSomebody'
  BY <1>2 DEF SessionInv, AnsweredToSomebody, In
<1>8. ~crossed => tokens' = tokens
  BY <1>1, ClientAssumption DEF SessionInv, RefreshOfStored
<1>9. OneSession'
  BY <1>1, <1>2, <1>8 DEF SessionInv, OneSession, In
<1> QED
  BY <1>5, <1>6, <1>7, <1>9 DEF SessionInv

LEMMA RefreshFailsKeepsInv ==
  ASSUME SessionInv, RefreshFails
  PROVE  SessionInv'
<1>1. /\ tokens' = NoOne /\ user' = NoOne /\ refreshing' = NoOne
      /\ \A r \in Requests :
           request'[r] = IF r \in In("waiting") THEN Idle ELSE request[r]
      /\ request' \in [Requests -> UnderWay \cup {Idle}]
      /\ UNCHANGED <<page, loggingIn>>
      /\ crossed' \in BOOLEAN
  BY DEF SessionInv, ClientTypeOK, RefreshFails, StillUnderWay
<1>2. In("waiting")' = {} /\ In("answered")' = In("answered")
      /\ \A r \in In("answered") : request'[r] = request[r]
  BY <1>1 DEF In, Idle
<1>3. page = "running"
  BY DEF RefreshFails, SessionInv, LoadingIsQuiet, ClientTypeOK
<1>4. ClientTypeOK' /\ LoadingIsQuiet' /\ RefreshOfStored' /\ RefreshServesWaiters'
  BY <1>1, <1>2, <1>3
  DEF SessionInv, ClientTypeOK, LoadingIsQuiet, RefreshOfStored, RefreshServesWaiters,
      Someone
<1>5. AnsweredToSomebody'
  BY <1>2 DEF SessionInv, AnsweredToSomebody
<1>6. OneSession'
  <2>1. ~crossed' => \A r \in Requests : request'[r] = Idle
    BY <1>1 DEF RefreshFails, StillUnderWay, Pending
  <2> QED
    BY <1>1, <2>1 DEF OneSession, In, Idle
<1> QED
  BY <1>4, <1>5, <1>6 DEF SessionInv

\* The session changes hands: crossed, unless nothing is under way.
LEMMA SessionChangeKeepsInv ==
  ASSUME SessionInv, Logout \/ LoggedIn
  PROVE  SessionInv'
<1>1. /\ tokens' \in Someone /\ user' = tokens' /\ loggingIn' \in Someone
      /\ crossed' \in BOOLEAN /\ (~crossed' => Pending = {})
      /\ UNCHANGED <<page, request, refreshing>>
  BY DEF SessionInv, ClientTypeOK, Logout, LoggedIn, StillUnderWay, Someone
<1>2. page = "running"
  BY DEF Logout, LoggedIn, SessionInv, LoadingIsQuiet, ClientTypeOK
<1>3. ~crossed' => /\ In("waiting") = {} /\ In("sent") \cup In("answered") = {}
                   /\ refreshing = NoOne
  <2>1. ~crossed' => \A r \in Requests : request[r] = Idle
    BY <1>1 DEF Pending
  <2>2. ~crossed' => In("waiting") = {} /\ In("sent") \cup In("answered") = {}
    BY <2>1 DEF In, Idle
  <2> QED
    BY <2>2 DEF SessionInv, RefreshServesWaiters
<1>4. ClientTypeOK' /\ LoadingIsQuiet' /\ RefreshServesWaiters' /\ AnsweredToSomebody'
  <2>1. ClientTypeOK' /\ LoadingIsQuiet'
    BY <1>1, <1>2 DEF SessionInv, ClientTypeOK, LoadingIsQuiet
  <2>2. RefreshServesWaiters' /\ AnsweredToSomebody'
    BY <1>1 DEF SessionInv, RefreshServesWaiters, AnsweredToSomebody, In
  <2> QED
    BY <2>1, <2>2
<1>5. RefreshOfStored' /\ OneSession'
  BY <1>1, <1>3 DEF RefreshOfStored, OneSession, In
<1> QED
  BY <1>4, <1>5 DEF SessionInv

LEMMA LogInKeepsInv ==
  ASSUME SessionInv, (\E u \in Users : LogIn(u)) \/ LogInFails
  PROVE  SessionInv'
<1>1. /\ loggingIn' \in Someone /\ page = "running"
      /\ UNCHANGED <<tokens, user, page, request, refreshing, crossed>>
  <2>1. CASE \E u \in Users : LogIn(u)
    BY <2>1 DEF LogIn, Someone
  <2>2. CASE LogInFails
    BY <2>2 DEF LogInFails, SessionInv, ClientTypeOK, LoadingIsQuiet, Someone
  <2> QED
    BY <2>1, <2>2
<1>2. ClientTypeOK' /\ LoadingIsQuiet'
  BY <1>1 DEF SessionInv, ClientTypeOK, LoadingIsQuiet
<1>3. AnsweredToSomebody' /\ RefreshServesWaiters' /\ RefreshOfStored' /\ OneSession'
  BY <1>1
  DEF SessionInv, AnsweredToSomebody, RefreshServesWaiters, RefreshOfStored, OneSession, In
<1> QED
  BY <1>2, <1>3 DEF SessionInv

LEMMA SessionStutterKeepsInv ==
  ASSUME SessionInv, UNCHANGED clientVars
  PROVE  SessionInv'
BY DEF clientVars, SessionInv, ClientTypeOK, LoadingIsQuiet, RefreshServesWaiters,
       AnsweredToSomebody, RefreshOfStored, OneSession, In

LEMMA SessionInvInit == Init => SessionInv
<1> SUFFICES ASSUME Init PROVE SessionInv
  OBVIOUS
<1>1. ClientTypeOK /\ LoadingIsQuiet
  BY DEF Init, ClientInit, ClientTypeOK, LoadingIsQuiet, Someone
<1>2. \A phase \in {"sent", "answered", "waiting"} : In(phase) = {}
  BY DEF Init, ClientInit, In, Idle
<1>3. AnsweredToSomebody /\ RefreshServesWaiters /\ RefreshOfStored /\ OneSession
  BY <1>2
  DEF Init, ClientInit, AnsweredToSomebody, RefreshServesWaiters, RefreshOfStored, OneSession
<1> QED
  BY <1>1, <1>3 DEF SessionInv

LEMMA SessionInvStep == SessionInv /\ [Next]_storefrontVars => SessionInv'
<1> SUFFICES ASSUME SessionInv, [Next]_storefrontVars
             PROVE  SessionInv'
  OBVIOUS
<1>1. CASE SessionStep
  BY <1>1, BootKeepsInv, RefreshedKeepsInv, LogInKeepsInv, RefusedKeepsInv DEF SessionStep
<1>2. CASE UserChanges \/ ReloadPage
  BY <1>2, SessionChangeKeepsInv, RefreshFailsKeepsInv, ReloadKeepsInv
  DEF UserChanges, ReloadPage
<1>3. ASSUME NEW r \in Requests,
             \/ \E kind \in Kinds : SendRequest(r, kind)
             \/ ServeRequest(r) \/ AnswerArrives(r) \/ RequestFails(r)
      PROVE  SessionInv'
  BY <1>3, SendKeepsInv, ServeKeepsInv, AnsweredKeepsInv, FailureKeepsInv
  DEF SendRequest, ServeRequest, AnswerArrives, RequestFails
<1>4. CASE UNCHANGED storefrontVars
  BY <1>4, SessionStutterKeepsInv DEF storefrontVars
<1> QED
  BY <1>1, <1>2, <1>3, <1>4 DEF Next

LEMMA SessionInvariant == Spec => []SessionInv
BY SessionInvInit, SessionInvStep, PTL DEF Spec

(***************************************************************************)
(* As long as no login, logout or failed refresh comes in the middle of    *)
(* something, the page shows nobody or the owner of the stored tokens and  *)
(* sends as him, for any number of requests refused and retried at once    *)
(* (services/api.js, authSlice.js).                                        *)
(***************************************************************************)
THEOREM SessionIsOne == Spec => []OneSession
<1>1. SessionInv => OneSession
  BY DEF SessionInv
<1> QED
  BY <1>1, SessionInvariant, PTL

(***************************************************************************)
(* refreshPromise is there exactly while somebody waits for it, however    *)
(* many requests share it, fail, or come late, and whatever the user does  *)
(* meanwhile (services/api.js).                                            *)
(***************************************************************************)
THEOREM RefreshIsAwaited == Spec => []RefreshServesWaiters
<1>1. SessionInv => RefreshServesWaiters
  BY DEF SessionInv
<1> QED
  BY <1>1, SessionInvariant, PTL

-----------------------------------------------------------------------------
(***************************************************************************)
(* The cart: types first.                                                  *)
(***************************************************************************)
CartOf == [of : Users, current : BOOLEAN] \cup {NoCart}

LEMMA StorefrontTypeStep ==
  ASSUME SessionInv, SessionInv', StorefrontTypeOK, [Next]_storefrontVars
  PROVE  StorefrontTypeOK'
<1> SUFFICES cart' \in CartOf /\ current' \subseteq In("answered")' /\ disturbed' \in BOOLEAN
  BY DEF StorefrontTypeOK, SessionInv, CartOf
<1>1. cart \in CartOf /\ current \subseteq In("answered") /\ disturbed \in BOOLEAN
  BY DEF StorefrontTypeOK, CartOf
<1>2. ClientTypeOK /\ ClientTypeOK'
  BY DEF SessionInv
<1>3. CASE SessionStep \/ UserChanges
  <2>1. UNCHANGED <<cart, current>> /\ disturbed' \in BOOLEAN
    BY <1>1, <1>3 DEF SessionStep, UserChanges
  <2>2. ASSUME NEW q \in In("answered")
        PROVE  q \in In("answered")'
    <3>1. request[q].phase = "answered" /\ q \in Requests
      BY DEF In
    <3>2. CASE Boot
      BY <3>1, <3>2 DEF Boot, SessionInv, LoadingIsQuiet, Idle
    <3>3. CASE Refreshed \/ RefreshFails
      BY <3>1, <3>3 DEF Refreshed, RefreshFails, In
    <3>4. ASSUME NEW r \in Requests, Refused(r)
          PROVE  q \in In("answered")'
      BY <1>2, <3>1, <3>4 DEF Refused, In, ClientTypeOK
    <3>5. CASE UNCHANGED request
      BY <3>1, <3>5 DEF In
    <3> QED
      BY <1>3, <3>2, <3>3, <3>4, <3>5
      DEF SessionStep, UserChanges, LogIn, LogInFails, Logout, LoggedIn
  <2> QED
    BY <1>1, <2>1, <2>2
<1>4. CASE ReloadPage
  BY <1>4 DEF ReloadPage, CartOf
<1>5. ASSUME NEW r \in Requests, NEW kind \in Kinds, SendRequest(r, kind)
      PROVE  cart' \in CartOf /\ current' \subseteq In("answered")' /\ disturbed' \in BOOLEAN
  <2>1. request' = [request EXCEPT ![r] = New(kind)] /\ request[r] = Idle
    BY <1>5 DEF SendRequest, Send
  <2>2. In("answered") \subseteq In("answered")'
    BY <1>2, <2>1 DEF In, Idle, ClientTypeOK
  <2> QED
    BY <1>1, <1>5, <2>2 DEF SendRequest
<1>6. ASSUME NEW r \in Requests, ServeRequest(r)
      PROVE  cart' \in CartOf /\ current' \subseteq In("answered")' /\ disturbed' \in BOOLEAN
  <2>1. /\ request' = [request EXCEPT ![r].phase = "answered"]
        /\ current' \subseteq current \cup {r} /\ UNCHANGED disturbed
        /\ cart' \in {cart, [cart EXCEPT !.current = FALSE]}
        /\ cart' # cart => cart # NoCart
    BY <1>6 DEF ServeRequest, Serve, Outdated
  <2>2. request[r] \in UnderWay
    BY <1>6, <1>2, RequestFacts DEF ServeRequest, Serve, In
  <2>3. In("answered") \cup {r} \subseteq In("answered")'
    BY <1>2, <2>1, <2>2 DEF In, ClientTypeOK, UnderWay
  <2> QED
    BY <1>1, <2>1, <2>3 DEF CartOf
<1>7. ASSUME NEW r \in Requests, AnswerArrives(r)
      PROVE  cart' \in CartOf /\ current' \subseteq In("answered")' /\ disturbed' \in BOOLEAN
  <2>1. /\ request' = [request EXCEPT ![r] = Follows(r)]
        /\ current' = current \ {r} /\ disturbed' \in BOOLEAN
        /\ cart' \in {cart, [of |-> request[r].as, current |-> r \in current]}
        /\ r \in In("answered")
    BY <1>1, <1>7 DEF AnswerArrives, Answered
  <2>2. request[r].as \in Users
    BY <2>1 DEF SessionInv, AnsweredToSomebody
  <2>3. In("answered") \ {r} \subseteq In("answered")'
    BY <1>2, <2>1 DEF In, ClientTypeOK
  <2>4. cart' \in CartOf
    <3>1. [of |-> request[r].as, current |-> r \in current] \in CartOf
      BY <2>2 DEF CartOf
    <3> QED
      BY <1>1, <2>1, <3>1
  <2> QED
    BY <1>1, <2>1, <2>3, <2>4
<1>8. ASSUME NEW r \in Requests, RequestFails(r)
      PROVE  cart' \in CartOf /\ current' \subseteq In("answered")' /\ disturbed' \in BOOLEAN
  <2>1. request' = [request EXCEPT ![r] = Idle]
    BY <1>8 DEF RequestFails, Fails, RefusedForGood
  <2>2. In("answered") \ {r} \subseteq In("answered")'
    BY <1>2, <2>1 DEF In, ClientTypeOK
  <2> QED
    BY <1>1, <1>8, <2>2 DEF RequestFails
<1>9. CASE UNCHANGED storefrontVars
  BY <1>1, <1>9 DEF storefrontVars, clientVars, In
<1> QED
  BY <1>3, <1>4, <1>5, <1>6, <1>7, <1>8, <1>9 DEF Next

(***************************************************************************)
(* What is said of cart requests survives a step that starts none, ends    *)
(* none and answers none.                                                  *)
(***************************************************************************)
CartRequestsKept ==
  /\ CartRequests' = CartRequests
  /\ \A q \in CartRequests :
       /\ request'[q].kind = request[q].kind
       /\ request'[q].phase = "answered" => request[q].phase = "answered"

LEMMA KeptKeepsCart ==
  ASSUME OneCartRequest, BringsCurrent, ShowsCurrent, CartRequestsKept,
         current \cap CartRequests \subseteq current', UNCHANGED <<tokens, cart>>
  PROVE  OneCartRequest' /\ BringsCurrent' /\ ShowsCurrent'
BY DEF OneCartRequest, BringsCurrent, ShowsCurrent, CartRequestsKept

\* A change of one request r, for the cart requests.
LEMMA OneRequestCart ==
  ASSUME ClientTypeOK, NEW r \in Requests, NEW new, Becomes(r, new)
  PROVE  LET isCart == new # Idle /\ new.kind \in {"change", "fetch", "order"}
         IN  CartRequests' = (CartRequests \ {r}) \cup (IF isCart THEN {r} ELSE {})
BY BecomesFacts DEF CartRequests, Pending

LEMMA SameCartRequests ==
  ASSUME ClientTypeOK, NEW r \in Requests, NEW new, Becomes(r, new),
         request[r] # Idle, new # Idle, new.kind = request[r].kind,
         new.phase = "answered" => r \notin CartRequests
  PROVE  CartRequestsKept
<1>1. CartRequests' = CartRequests
  BY OneRequestCart DEF CartRequests, Pending
<1>2. request'[r] = new /\ \A q \in Requests \ {r} : request'[q] = request[q]
  BY BecomesFacts
<1> QED
  BY <1>1, <1>2 DEF CartRequestsKept, CartRequests, Pending

\* Only "me" is no cart request.
LEMMA OtherIsMe ==
  ASSUME ClientTypeOK, NEW r \in Requests, request[r] # Idle
  PROVE  r \notin CartRequests <=> request[r].kind = "me"
BY RequestFacts DEF CartRequests, Pending, Kinds

LEMMA SessionStepKeepsCart ==
  ASSUME SessionInv, OneCartRequest, BringsCurrent, ShowsCurrent, ~crossed, SessionStep
  PROVE  OneCartRequest' /\ BringsCurrent' /\ ShowsCurrent'
<1>1. ClientTypeOK
  BY DEF SessionInv
<1>2. CartRequestsKept
  <2>1. CASE Boot
    <3>1. CartRequests = {}
      BY <2>1 DEF Boot, SessionInv, LoadingIsQuiet, CartRequests, Pending, Idle
    <3>2. CASE UNCHANGED request
      BY <3>1, <3>2 DEF CartRequestsKept, CartRequests, Pending
    <3>3. ASSUME NEW r \in Requests, request' = [request EXCEPT ![r] = New("me")]
          PROVE  CartRequestsKept
      <4>1. Becomes(r, New("me")) /\ New("me").kind = "me"
        BY <1>1, <3>3, NewFacts DEF Becomes, Kinds
      <4> QED
        BY <1>1, <3>1, <4>1, OneRequestCart DEF CartRequestsKept
    <3> QED
      BY <2>1, <3>2, <3>3 DEF Boot
  <2>2. CASE Refreshed
    <3>1. ASSUME NEW q \in Requests
          PROVE  \/ request'[q] = request[q]
                 \/ /\ request[q] # Idle /\ request'[q] # Idle
                    /\ request'[q].kind = request[q].kind
                    /\ request'[q].phase = "sent"
      <4>1. CASE q \in In("waiting")
        <5>1. request[q] \in UnderWay /\ request[q] # Idle
          BY <1>1, <4>1, RequestFacts DEF In, Idle
        <5>2. request'[q] = [request[q] EXCEPT !.phase = "sent", !.as = refreshing]
          BY <2>2, <4>1 DEF Refreshed
        <5> QED
          BY <5>1, <5>2 DEF UnderWay, Idle
      <4>2. CASE q \notin In("waiting")
        BY <2>2, <4>2 DEF Refreshed, In
      <4> QED
        BY <4>1, <4>2
    <3> QED
      BY <3>1 DEF CartRequestsKept, CartRequests, Pending
  <2>3. ASSUME NEW r \in Requests, Refused(r)
        PROVE  CartRequestsKept
    <3> DEFINE new == [request[r] EXCEPT !.phase = "waiting", !.retried = TRUE]
    <3>1. request[r] \in UnderWay /\ request[r] # Idle
      BY <1>1, <2>3, RequestFacts DEF Refused, In, Idle
    <3>2. /\ new \in UnderWay /\ new.phase = "waiting" /\ new # Idle
          /\ new.kind = request[r].kind
      BY <3>1 DEF UnderWay, Idle
    <3>3. Becomes(r, new)
      BY <1>1, <2>3, <3>2 DEF Refused, Becomes, ClientTypeOK
    <3> QED
      BY <1>1, <3>1, <3>2, <3>3, SameCartRequests
  <2>4. CASE UNCHANGED request
    BY <2>4 DEF CartRequestsKept, CartRequests, Pending
  <2> QED
    BY <2>1, <2>2, <2>3, <2>4 DEF SessionStep, LogIn, LogInFails
<1>3. UNCHANGED tokens
  BY DEF SessionStep, Boot, Refreshed, Refused, LogIn, LogInFails, SessionInv, RefreshOfStored
<1> QED
  BY <1>2, <1>3, KeptKeepsCart DEF SessionStep

\* A cart request sent into quiet is the only one, and makes up for what went
\* wrong before.
LEMMA SendKeepsCart ==
  ASSUME SessionInv, NEW r \in Requests, NEW kind \in Kinds, SendRequest(r, kind),
         ~disturbed'
  PROVE  OneCartRequest' /\ BringsCurrent' /\ ShowsCurrent'
<1>1. CartRequests = {} /\ kind # "me" /\ kind \in Kinds
  BY DEF SendRequest, Send
<1>2. /\ New(kind) \in UnderWay /\ New(kind).phase = "sent"
      /\ New(kind).kind = kind /\ New(kind) # Idle
  BY NewFacts DEF SessionInv, Idle
<1>3. ClientTypeOK /\ Becomes(r, New(kind))
  BY <1>2 DEF SendRequest, Send, Becomes, SessionInv
<1>4. CartRequests' = {r} /\ request'[r].phase = "sent"
  BY <1>1, <1>2, <1>3, OneRequestCart, BecomesFacts DEF Kinds
<1> QED
  BY <1>4 DEF OneCartRequest, BringsCurrent, ShowsCurrent

LEMMA ServeKeepsCart ==
  ASSUME SessionInv, NEW r \in Requests, ServeRequest(r),
         OneCartRequest, BringsCurrent, ShowsCurrent
  PROVE  OneCartRequest' /\ BringsCurrent' /\ ShowsCurrent'
<1> DEFINE new == [request[r] EXCEPT !.phase = "answered"]
<1>1. ClientTypeOK /\ request[r] \in UnderWay /\ request[r] # Idle
  BY RequestFacts DEF SessionInv, ServeRequest, Serve, In, Idle
<1>2. /\ new \in UnderWay /\ new # Idle /\ new.kind = request[r].kind
      /\ request[r].kind \in Kinds
  BY <1>1 DEF UnderWay, Idle
<1>3. Becomes(r, new)
  BY <1>1, <1>2 DEF ServeRequest, Serve, Becomes, ClientTypeOK
<1>4. CartRequests' = CartRequests
  BY <1>1, <1>2, <1>3, OneRequestCart DEF CartRequests, Pending
<1>5. tokens' = tokens
  BY DEF ServeRequest, Serve
<1>6. CASE r \in CartRequests
  <2>1. \A q \in CartRequests : q = r
    BY <1>6 DEF OneCartRequest
  <2>2. request'[r].kind # "order" => r \in current'
    <3>1. request'[r] = new
      BY <1>1, <1>3, BecomesFacts
    <3>2. request[r].kind # "order" => request[r].kind \in {"change", "fetch"}
      BY <1>6 DEF CartRequests
    <3> QED
      BY <1>2, <3>1, <3>2 DEF ServeRequest
  <2> QED
    BY <1>4, <1>6, <2>1, <2>2 DEF OneCartRequest, BringsCurrent, ShowsCurrent
<1>7. CASE r \notin CartRequests
  <2>1. request[r].kind = "me"
    BY <1>1, <1>7, OtherIsMe
  <2>2. UNCHANGED <<cart, current>>
    BY <2>1 DEF ServeRequest
  <2>3. CartRequestsKept
    BY <1>1, <1>2, <1>3, <1>7, SameCartRequests
  <2> QED
    BY <1>5, <2>2, <2>3, KeptKeepsCart
<1> QED
  BY <1>6, <1>7

LEMMA AnswerKeepsCart ==
  ASSUME SessionInv, NEW r \in Requests, AnswerArrives(r), ~crossed, ~disturbed',
         ~disturbed => OneCartRequest /\ BringsCurrent /\ ShowsCurrent
  PROVE  OneCartRequest' /\ BringsCurrent' /\ ShowsCurrent'
<1>1. ClientTypeOK /\ r \in In("answered") /\ request[r] # Idle /\ tokens' = tokens
  BY DEF SessionInv, AnswerArrives, Answered, In, Idle
<1>2. request[r].kind \in Kinds /\ request[r].as = tokens
  BY <1>1, RequestFacts DEF SessionInv, OneSession
<1>3. CASE request[r].kind = "order"
  <2>1. CartRequests = {r}
    BY <1>3 DEF AnswerArrives
  <2>2. /\ Follows(r) = New("fetch") /\ New("fetch") \in UnderWay
        /\ New("fetch").phase = "sent" /\ New("fetch").kind = "fetch"
    BY <1>1, <1>3, NewFacts DEF Follows, Kinds
  <2>3. Becomes(r, New("fetch")) /\ New("fetch") # Idle
    BY <2>2 DEF AnswerArrives, Answered, Becomes, Idle
  <2>4. CartRequests' = {r} /\ request'[r].phase = "sent"
    BY <1>1, <2>1, <2>2, <2>3, OneRequestCart, BecomesFacts
  <2> QED
    BY <2>4 DEF OneCartRequest, BringsCurrent, ShowsCurrent
<1>4. CASE request[r].kind # "order"
  <2>1. OneCartRequest /\ BringsCurrent /\ ShowsCurrent
    BY <1>4 DEF AnswerArrives
  <2>2. Becomes(r, Idle)
    BY <1>4 DEF AnswerArrives, Answered, Follows, Becomes
  <2>3. CartRequests' = CartRequests \ {r}
    BY <1>1, <2>2, OneRequestCart
  <2>4. CASE request[r].kind = "me"
    <3>1. r \notin CartRequests
      BY <1>1, <2>4, OtherIsMe
    <3>2. CartRequestsKept
      BY <1>1, <2>2, <2>3, <3>1, BecomesFacts DEF CartRequestsKept, CartRequests, Pending
    <3>3. UNCHANGED cart /\ current' = current \ {r}
      BY <2>4 DEF AnswerArrives
    <3> QED
      BY <1>1, <2>1, <3>1, <3>2, <3>3, KeptKeepsCart
  <2>5. CASE request[r].kind \in {"change", "fetch"}
    <3>1. r \in CartRequests
      BY <1>1, <2>5, OtherIsMe
    <3>2. CartRequests' = {}
      BY <2>1, <2>3, <3>1 DEF OneCartRequest
    <3>3. r \in current
      BY <1>1, <1>4, <2>1, <3>1 DEF BringsCurrent, In
    <3>4. cart' = [of |-> tokens, current |-> TRUE]
      BY <1>2, <2>5, <3>3 DEF AnswerArrives
    <3> QED
      BY <1>1, <3>2, <3>4 DEF OneCartRequest, BringsCurrent, ShowsCurrent
  <2> QED
    BY <1>2, <1>4, <2>4, <2>5 DEF Kinds
<1> QED
  BY <1>3, <1>4

LEMMA FailureKeepsCart ==
  ASSUME SessionInv, NEW r \in Requests, RequestFails(r), ~disturbed',
         OneCartRequest, BringsCurrent, ShowsCurrent
  PROVE  OneCartRequest' /\ BringsCurrent' /\ ShowsCurrent'
<1>1. /\ r \notin CartRequests /\ request' = [request EXCEPT ![r] = Idle]
      /\ current' = current \ {r} /\ UNCHANGED <<tokens, cart>>
  BY DEF RequestFails, Fails, RefusedForGood
<1>2. ClientTypeOK /\ Becomes(r, Idle)
  BY <1>1 DEF Becomes, SessionInv
<1>3. CartRequests' = CartRequests
  BY <1>1, <1>2, OneRequestCart
<1>4. CartRequestsKept
  BY <1>1, <1>2, <1>3, BecomesFacts DEF CartRequestsKept, CartRequests, Pending
<1> QED
  BY <1>1, <1>4, KeptKeepsCart

LEMMA CartInvStep ==
  ASSUME SessionInv, CartInv, [Next]_storefrontVars
  PROVE  CartInv'
<1> SUFFICES ASSUME ~crossed', ~disturbed'
             PROVE  OneCartRequest' /\ BringsCurrent' /\ ShowsCurrent'
  BY DEF CartInv
<1>1. CASE SessionStep
  <2>1. ~crossed /\ ~disturbed
    <3>1. crossed' = crossed /\ disturbed' = disturbed
      BY <1>1 DEF SessionStep, Boot, Refreshed, LogIn, LogInFails, Refused
    <3> QED
      BY <3>1
  <2> QED
    BY <1>1, <2>1, SessionStepKeepsCart DEF CartInv
<1>2. CASE UserChanges
  BY <1>2 DEF UserChanges
<1>3. CASE ReloadPage
  <2>1. CartRequests' = {} /\ cart' = NoCart
    BY <1>3 DEF ReloadPage, Reload, CartRequests, Pending
  <2> QED
    BY <2>1 DEF OneCartRequest, BringsCurrent, ShowsCurrent
<1>4. ASSUME NEW r \in Requests, NEW kind \in Kinds, SendRequest(r, kind)
      PROVE  OneCartRequest' /\ BringsCurrent' /\ ShowsCurrent'
  BY <1>4, SendKeepsCart
<1>5. ASSUME NEW r \in Requests, ServeRequest(r)
      PROVE  OneCartRequest' /\ BringsCurrent' /\ ShowsCurrent'
  BY <1>5, ServeKeepsCart DEF CartInv, ServeRequest, Serve
<1>6. ASSUME NEW r \in Requests, AnswerArrives(r)
      PROVE  OneCartRequest' /\ BringsCurrent' /\ ShowsCurrent'
  BY <1>6, AnswerKeepsCart DEF CartInv, AnswerArrives, Answered
<1>7. ASSUME NEW r \in Requests, RequestFails(r)
      PROVE  OneCartRequest' /\ BringsCurrent' /\ ShowsCurrent'
  BY <1>7, FailureKeepsCart DEF CartInv, RequestFails, Fails, RefusedForGood
<1>8. CASE UNCHANGED storefrontVars
  BY <1>8
  DEF storefrontVars, clientVars, CartInv, OneCartRequest, BringsCurrent, ShowsCurrent,
      CartRequests, Pending
<1> QED
  BY <1>1, <1>2, <1>3, <1>4, <1>5, <1>6, <1>7, <1>8 DEF Next

LEMMA StorefrontInvariant == Spec => []StorefrontInv
<1>1. Init => StorefrontInv
  <2> SUFFICES ASSUME Init PROVE StorefrontInv
    OBVIOUS
  <2>1. SessionInv
    BY SessionInvInit
  <2>2. StorefrontTypeOK
    BY <2>1 DEF SessionInv, Init, StorefrontTypeOK
  <2>3. CartRequests = {}
    <3>1. \A r \in Requests : request[r] = Idle
      BY DEF Init, ClientInit
    <3> QED
      BY <3>1 DEF CartRequests, Pending
  <2>4. CartInv
    BY <2>3 DEF Init, CartInv, OneCartRequest, BringsCurrent, ShowsCurrent
  <2> QED
    BY <2>1, <2>2, <2>4 DEF StorefrontInv
<1>2. StorefrontInv /\ [Next]_storefrontVars => StorefrontInv'
  BY SessionInvStep, StorefrontTypeStep, CartInvStep DEF StorefrontInv
<1> QED
  BY <1>1, <1>2, PTL DEF Spec

(***************************************************************************)
(* Every variable of the page has its type: what the slice holds is        *)
(* somebody's cart, and it came with an answer (cartSlice.js).             *)
(***************************************************************************)
THEOREM StorefrontTypeCorrect == Spec => []StorefrontTypeOK
<1>1. StorefrontInv => StorefrontTypeOK
  BY DEF StorefrontInv
<1> QED
  BY <1>1, StorefrontInvariant, PTL

(***************************************************************************)
(* What the page shows is the server's cart once the last cart request has *)
(* been answered, of a customer who had one of them under way at a time,   *)
(* whatever refreshes came between (cartSlice.js).                         *)
(***************************************************************************)
THEOREM CartIsCurrent == Spec => []CartShownIsCurrent
<1>1. StorefrontInv => CartShownIsCurrent
  BY DEF StorefrontInv, SessionInv, OneSession, CartInv, ShowsCurrent, CartShownIsCurrent
<1> QED
  BY <1>1, StorefrontInvariant, PTL

==============================================================================
