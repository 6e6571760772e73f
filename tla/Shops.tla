-------------------------------- MODULE Shops --------------------------------
(***************************************************************************)
(* A shop from its owner's registration through its moderation.  A shop is *)
(* named by its owner, of whom it is the only one (a OneToOneField).       *)
(*                                                                         *)
(* Moderation is three steps: the view reads the row; the service compares *)
(* the status it was handed and writes the new one; then, outside any      *)
(* transaction, it publishes what it has done.  Two administrators may     *)
(* cross.  The notice then takes the way EventBus describes in detail: it  *)
(* is told by a worker who reads it from the stream some time, or by the   *)
(* request itself if Redis does not answer, or by both, or by nobody.      *)
(***************************************************************************)
EXTENDS Accounts, Integers

CONSTANT DayLength    \* times of day are 0..DayLength-1

ASSUME DayAssumption == DayLength \in Nat \ {0}

VARIABLES
  shopStatus,     \* Shop.status; "none" where there is no row
  statusReason,   \* Shop.status_reason: blank, an approval's note, a complaint
  approvedAt,     \* shops whose approved_at is set
  kyc,            \* shops with a ShopKyc row
  hours,          \* Shop.opening_time and closing_time
  accepting,      \* shops whose is_accepting_orders is true
  moderating,     \* moderation requests that have read their shop
  underWay,       \* notices of committed writes that may still be told
  lastNotice,     \* what the owner was told last
  doubtful        \* history: owners with two notices under way at once, or one lost

profileVars == <<hours, accepting>>
shopVars == <<shopStatus, statusReason, approvedAt, kyc, profileVars, moderating,
              underWay, lastNotice, doubtful>>
shopsVars == <<accountVars, shopVars>>

ShopStatus == {"PENDING", "APPROVED", "REJECTED", "SUSPENDED"}

Reason == {"", "note", "complaint"}

\* Where a notice is: with the request that wrote, before XADD or after its
\* failure, or in the stream and with the worker that has read it.
Place == {"web", "fallback", "stream"}
Notice == [owner : Emails, notice : ShopStatus, at : Place]

Times == 0..(DayLength - 1)
Hours == [opening_time : Times, closing_time : Times]

ShopsTypeOK ==
  /\ AccountsTypeOK
  /\ shopStatus \in [Emails -> ShopStatus \cup {"none"}]
  /\ statusReason \in [Emails -> Reason]
  /\ approvedAt \subseteq Emails /\ kyc \subseteq Emails
  /\ hours \in [Emails -> Hours] /\ accepting \subseteq Emails
  /\ moderating \subseteq
       [owner : Emails, seen : ShopStatus, status : ShopStatus, reason : Reason]
  /\ underWay \subseteq Notice
  /\ lastNotice \in [Emails -> ShopStatus \cup {"none"}]
  /\ doubtful \subseteq Emails

ShopsInit ==
  /\ AccountsInit
  /\ shopStatus = [e \in Emails |-> "none"]
  /\ statusReason = [e \in Emails |-> ""]
  /\ approvedAt = {} /\ kyc = {}
  /\ hours = [e \in Emails |-> [opening_time |-> 0, closing_time |-> 0]]
  /\ accepting = {}
  /\ moderating = {} /\ underWay = {}
  /\ lastNotice = [e \in Emails |-> "none"]
  /\ doubtful = {}

-----------------------------------------------------------------------------
ToPublish(e, status) == [owner |-> e, notice |-> status, at |-> "web"]

\* Seeded fault: RegisterShopkeeper without its transaction, stopped after the
\* user's INSERT.  It breaks RegistrationsAreWhole.
RegisterOwnerAlone(i, h) ==
  /\ i.role = "SHOPKEEPER"
  /\ InsertUser(i)
  /\ UNCHANGED <<profiles, shopVars>>

\* register_shopkeeper: the user, the shop and its KYC row, or none of them.
RegisterShopkeeper(i, h) ==
  /\ i.role = "SHOPKEEPER"
  /\ InsertUser(i)
  /\ shopStatus' = [shopStatus EXCEPT ![i.email] = "PENDING"]
  /\ kyc' = kyc \cup {i.email}
  /\ hours' = [hours EXCEPT ![i.email] = h]
  /\ accepting' = accepting \cup {i.email}
  /\ underWay' = underWay \cup {ToPublish(i.email, "PENDING")}
  /\ UNCHANGED <<profiles, statusReason, approvedAt, moderating, lastNotice, doubtful>>

\* PATCH /api/shops/my-shop/ writes what it sends; the rest is as it was.
UpdateMyShop(e, h, accepts) ==
  /\ shopStatus[e] # "none"
  /\ hours' = [hours EXCEPT ![e] = h]
  /\ accepting' = IF accepts THEN accepting \cup {e} ELSE accepting \ {e}
  /\ UNCHANGED <<accountVars, shopStatus, statusReason, approvedAt, kyc, moderating,
                 underWay, lastNotice, doubtful>>

\* What each of approve, reject and suspend takes for a reason.
ReasonsFor(status) ==
  IF status = "APPROVED" THEN {"", "note"} ELSE {"complaint"}

\* POST /api/shops/admin/<id>/approve/, reject/ or suspend/: get_object.
ModerateRead(e, status, reason) ==
  /\ shopStatus[e] # "none"
  /\ reason \in ReasonsFor(status)
  /\ moderating' = moderating \cup
       {[owner |-> e, seen |-> shopStatus[e], status |-> status, reason |-> reason]}
  /\ UNCHANGED <<accountVars, shopStatus, statusReason, approvedAt, kyc, profileVars,
                 underWay, lastNotice, doubtful>>

\* Seeded fault: a blank reason not written, so that an approval without a note
\* leaves the complaint of the rejection before.  It breaks ReasonFits.
ReasonKeptIfBlank(i) ==
  [statusReason EXCEPT ![i.owner] = IF i.reason = "" THEN @ ELSE i.reason]

ReasonWritten(i) == [statusReason EXCEPT ![i.owner] = i.reason]

\* _transition up to its update.  Another request that has read the same may
\* still be there.  If a notice of the same shop is still under way, it is open
\* which of the two the owner gets last.
ModerateWrite(i) ==
  /\ i \in moderating
  /\ i.seen # i.status
  /\ moderating' \in {moderating \ {i}, moderating}
  /\ shopStatus' = [shopStatus EXCEPT ![i.owner] = i.status]
  /\ statusReason' = ReasonWritten(i)
  /\ approvedAt' = IF i.status = "APPROVED" THEN approvedAt \cup {i.owner} ELSE approvedAt
  /\ underWay' = underWay \cup {ToPublish(i.owner, i.status)}
  /\ doubtful' = IF \E x \in underWay : x.owner = i.owner
                   THEN doubtful \cup {i.owner} ELSE doubtful \ {i.owner}
  /\ UNCHANGED <<accountVars, kyc, profileVars, lastNotice>>

\* Seeded fault: the event published before the comparison, so that a request
\* which is refused has already announced.  It breaks LastNoticeIsTrue.
ModerateConflictAnnounced(i) ==
  /\ i \in moderating
  /\ i.seen = i.status
  /\ moderating' = moderating \ {i}
  /\ underWay' = underWay \cup {ToPublish(i.owner, i.status)}
  /\ UNCHANGED <<accountVars, shopStatus, statusReason, approvedAt, kyc, profileVars,
                 lastNotice, doubtful>>

\* "Shop is already ...", by what the request has read.
ModerateConflict(i) ==
  /\ i \in moderating
  /\ i.seen = i.status
  /\ moderating' = moderating \ {i}
  /\ UNCHANGED <<accountVars, shopStatus, statusReason, approvedAt, kyc, profileVars,
                 underWay, lastNotice, doubtful>>

\* What is under way without x; but an equal notice of another write may be.
Without(x) == {underWay \ {x}, underWay}

\* publish: XADD is answered; or it fails, and dispatch runs in the request; or
\* Redis takes the entry and does not answer in time, and both happen.
Publish(x) ==
  /\ x \in underWay /\ x.at = "web"
  /\ \E rest \in Without(x),
        places \in {{"stream"}, {"fallback"}, {"stream", "fallback"}} :
       underWay' = rest \cup {[x EXCEPT !.at = place] : place \in places}
  /\ UNCHANGED <<accountVars, shopStatus, statusReason, approvedAt, kyc, profileVars,
                 moderating, lastNotice, doubtful>>

\* dispatch, in the request or in the worker that has read the entry, whichever
\* entry that is: the handler notifies the owner.
Tell(x) ==
  /\ x \in underWay /\ x.at # "web"
  /\ lastNotice' = [lastNotice EXCEPT ![x.owner] = x.notice]
  /\ underWay' \in Without(x)
  /\ UNCHANGED <<accountVars, shopStatus, statusReason, approvedAt, kyc, profileVars,
                 moderating, doubtful>>

\* The process ends before or during publish; the stream drops the entry, or had
\* no group yet; its worker ends; or the handler raises, which dispatch logs.
NoticeLost(x) ==
  /\ x \in underWay
  /\ underWay' \in Without(x)
  /\ doubtful' = doubtful \cup {x.owner}
  /\ UNCHANGED <<accountVars, shopStatus, statusReason, approvedAt, kyc, profileVars,
                 moderating, lastNotice>>

ShopsNext ==
  \/ AccountsNext /\ UNCHANGED shopVars
  \/ \E i \in signingUp, h \in Hours : RegisterShopkeeper(i, h)
  \/ \E e \in Emails, h \in Hours, accepts \in BOOLEAN : UpdateMyShop(e, h, accepts)
  \/ \E e \in Emails, status \in ShopStatus \ {"PENDING"}, reason \in Reason :
       ModerateRead(e, status, reason)
  \/ \E i \in moderating : ModerateWrite(i) \/ ModerateConflict(i)
  \/ \E x \in underWay : Publish(x) \/ Tell(x) \/ NoticeLost(x)

ShopsSpec == ShopsInit /\ [][ShopsNext]_shopsVars

-----------------------------------------------------------------------------
\* Seeded fault: OpenNow that takes every shop to close before midnight.  It
\* breaks OpeningHoursAreAnArc.
OpenBeforeMidnight(e, now) ==
  /\ shopStatus[e] = "APPROVED" /\ e \in accepting
  /\ hours[e].opening_time <= now /\ now <= hours[e].closing_time

\* Shop.is_open_now
OpenNow(e, now) ==
  /\ shopStatus[e] = "APPROVED" /\ e \in accepting
  /\ IF hours[e].opening_time <= hours[e].closing_time
       THEN hours[e].opening_time <= now /\ now <= hours[e].closing_time
       ELSE now >= hours[e].opening_time \/ now <= hours[e].closing_time

-----------------------------------------------------------------------------
(***************************************************************************)
(* A shopkeeper has a shop with its KYC row, and a shop has its owner; a   *)
(* delivery partner has his profile; and whatever stops a registration,    *)
(* it leaves no part of them behind.                                       *)
(***************************************************************************)
RegistrationsAreWhole ==
  \A e \in Emails : /\ (role[e] = "SHOPKEEPER") <=> (shopStatus[e] # "none")
                    /\ (e \in kyc) <=> (shopStatus[e] # "none")
                    /\ (role[e] = "DELIVERY_PARTNER") <=> (e \in profiles)

(***************************************************************************)
(* Two administrators who moderate from the same reading leave the status  *)
(* of one of them with the reason of the same one: a shop that was turned  *)
(* down says why, no other carries a complaint, an approved one is dated.  *)
(***************************************************************************)
ReasonFits ==
  \A e \in Emails :
    /\ shopStatus[e] \in {"REJECTED", "SUSPENDED"} <=> statusReason[e] = "complaint"
    /\ shopStatus[e] = "APPROVED" => e \in approvedAt

(***************************************************************************)
(* The last thing the owner was told is what his shop is, once no notice   *)
(* of it is under way - provided the last write found none of an earlier   *)
(* one under way, and none was lost since.  _transition does not hold the  *)
(* row while it publishes, and nothing numbers the notices: with two under *)
(* way, in requests or in the stream, either may come last.                *)
(***************************************************************************)
LastNoticeIsTrue ==
  \A e \in Emails :
    e \notin doubtful /\ ~(\E x \in underWay : x.owner = e)
      => lastNotice[e] = shopStatus[e]

(***************************************************************************)
(* An approved shop that accepts orders is open on one arc of the clock,   *)
(* both ends included, also if it closes after midnight; no other shop is  *)
(* ever open.                                                              *)
(***************************************************************************)
OpeningHoursAreAnArc ==
  \A e \in Emails, now \in Times :
    OpenNow(e, now) <=>
      /\ shopStatus[e] = "APPROVED" /\ e \in accepting
      /\ (now - hours[e].opening_time) % DayLength
           <= (hours[e].closing_time - hours[e].opening_time) % DayLength

==============================================================================
