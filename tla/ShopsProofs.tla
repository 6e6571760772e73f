----------------------------- MODULE ShopsProofs ------------------------------
(***************************************************************************)
(* Proofs about accounts and shops: for any number of people, of mobile    *)
(* numbers, and of registrations, profile edits and moderation requests    *)
(* that are under way at once.                                             *)
(***************************************************************************)
EXTENDS Shops, TLAPS

-----------------------------------------------------------------------------
(***************************************************************************)
(* Accounts.                                                               *)
(***************************************************************************)
AccountsInv == AccountsTypeOK /\ PhonesUnique

\* The INSERT of a user, and no more of the request than that.
UserInserted(i) ==
  /\ i.email \in Emails /\ i.role \in SelfServiceRoles /\ i.phone \in Phones
  /\ i.email \notin Registered
  /\ \A e \in Emails : /\ role'[e] = IF e = i.email THEN i.role ELSE role[e]
                       /\ phone'[e] = IF e = i.email THEN i.phone ELSE phone[e]
  /\ Registered' = Registered \cup {i.email}

LEMMA InsertUserFacts ==
  ASSUME AccountsInv, NEW i \in signingUp, InsertUser(i)
  PROVE  UserInserted(i)
<1>1. i \in [email : Emails, phone : Phones, role : SelfServiceRoles]
  BY DEF AccountsInv, AccountsTypeOK
<1>2. /\ role \in [Emails -> SelfServiceRoles \cup {"none"}]
      /\ phone \in [Emails -> Phones \cup {NoPhone}]
  BY DEF AccountsInv, AccountsTypeOK
<1>3. \A e \in Emails : /\ role'[e] = IF e = i.email THEN i.role ELSE role[e]
                        /\ phone'[e] = IF e = i.email THEN i.phone ELSE phone[e]
  BY <1>1, <1>2 DEF InsertUser
<1>4. i.role # "none"
  BY <1>1 DEF SelfServiceRoles
<1>5. Registered' = Registered \cup {i.email}
  BY <1>1, <1>3, <1>4 DEF Registered
<1> QED
  BY <1>1, <1>3, <1>5 DEF UserInserted, InsertUser

LEMMA InsertUserKeepsInv ==
  ASSUME AccountsInv, NEW i \in signingUp, InsertUser(i), profiles' \subseteq Emails
  PROVE  AccountsInv'
<1>1. UserInserted(i)
  BY InsertUserFacts
<1>2. AccountsTypeOK'
  <2>1. i \in [email : Emails, phone : Phones, role : SelfServiceRoles]
    BY DEF AccountsInv, AccountsTypeOK
  <2>2. /\ role' \in [Emails -> SelfServiceRoles \cup {"none"}]
        /\ phone' \in [Emails -> Phones \cup {NoPhone}]
    BY <2>1 DEF AccountsInv, AccountsTypeOK, InsertUser
  <2>3. active' \subseteq Registered'
    BY <1>1 DEF UserInserted, InsertUser, AccountsInv, AccountsTypeOK
  <2> QED
    BY <2>2, <2>3 DEF AccountsInv, AccountsTypeOK, InsertUser
<1>3. PhonesUnique'
  <2>1. \A other \in Registered \ {i.email} : phone[other] # i.phone
    BY DEF InsertUser, ColumnsAllow, PhoneTaken
  <2>2. Registered \subseteq Emails
    BY DEF Registered
  <2> QED
    BY <1>1, <2>1, <2>2 DEF UserInserted, AccountsInv, PhonesUnique
<1> QED
  BY <1>2, <1>3 DEF AccountsInv

\* Everything but the INSERT leaves role and profiles alone.
AccountsOtherStep ==
  \/ \E e \in Emails, n \in Phones :
       (\E r \in SelfServiceRoles : SignUpCheck(e, n, r)) \/ PhoneEditCheck(e, n)
  \/ \E i \in signingUp : SignUpFails(i)
  \/ \E i \in phoneEdits : PhoneEditSave(i)
  \/ \E e \in Emails, isActive \in BOOLEAN : SetUserActive(e, isActive)

LEMMA AccountsOtherStepKeepsInv ==
  ASSUME AccountsInv, AccountsOtherStep
  PROVE  AccountsInv' /\ UNCHANGED <<role, profiles>>
<1>1. ASSUME NEW e \in Emails, NEW n \in Phones, NEW r \in SelfServiceRoles,
             SignUpCheck(e, n, r)
      PROVE  AccountsInv' /\ UNCHANGED <<role, profiles>>
  <2>1. [email |-> e, phone |-> n, role |-> r]
          \in [email : Emails, phone : Phones, role : SelfServiceRoles]
    OBVIOUS
  <2> QED
    BY <1>1, <2>1 DEF SignUpCheck, AccountsInv, AccountsTypeOK, PhonesUnique, Registered
<1>2. ASSUME NEW e \in Emails, NEW n \in Phones, PhoneEditCheck(e, n)
      PROVE  AccountsInv' /\ UNCHANGED <<role, profiles>>
  <2>1. [email |-> e, phone |-> n] \in [email : Emails, phone : Phones]
    OBVIOUS
  <2> QED
    BY <1>2, <2>1 DEF PhoneEditCheck, AccountsInv, AccountsTypeOK, PhonesUnique, Registered
<1>3. ASSUME NEW i \in signingUp, SignUpFails(i)
      PROVE  AccountsInv' /\ UNCHANGED <<role, profiles>>
  BY <1>3 DEF SignUpFails, AccountsInv, AccountsTypeOK, PhonesUnique, Registered
<1>4. ASSUME NEW i \in phoneEdits, PhoneEditSave(i)
      PROVE  AccountsInv' /\ UNCHANGED <<role, profiles>>
  <2>1. i \in [email : Emails, phone : Phones]
    BY DEF AccountsInv, AccountsTypeOK
  <2>2. phone \in [Emails -> Phones \cup {NoPhone}] /\ Registered \subseteq Emails
    BY DEF AccountsInv, AccountsTypeOK, Registered
  <2>3. Registered' = Registered /\ UNCHANGED <<role, profiles>>
    BY <1>4 DEF PhoneEditSave, Registered
  <2>4. CASE ~ColumnsAllow(i)
    BY <1>4, <2>3, <2>4 DEF PhoneEditSave, AccountsInv, AccountsTypeOK, PhonesUnique
  <2>5. CASE ColumnsAllow(i)
    <3>1. phone' = [phone EXCEPT ![i.email] = i.phone]
      BY <1>4, <2>5 DEF PhoneEditSave
    <3>2. phone' \in [Emails -> Phones \cup {NoPhone}]
      BY <2>1, <2>2, <3>1
    <3>3. \A e \in Emails : phone'[e] = IF e = i.email THEN i.phone ELSE phone[e]
      BY <2>1, <2>2, <3>1
    <3>4. \A other \in Registered \ {i.email} : phone[other] # i.phone
      BY <2>5 DEF ColumnsAllow, PhoneTaken
    <3>5. PhonesUnique'
      BY <2>2, <2>3, <3>3, <3>4 DEF AccountsInv, PhonesUnique
    <3> QED
      BY <1>4, <2>3, <3>2, <3>5 DEF PhoneEditSave, AccountsInv, AccountsTypeOK
  <2> QED
    BY <2>4, <2>5
<1>5. ASSUME NEW e \in Emails, NEW isActive \in BOOLEAN, SetUserActive(e, isActive)
      PROVE  AccountsInv' /\ UNCHANGED <<role, profiles>>
  BY <1>5 DEF SetUserActive, AccountsInv, AccountsTypeOK, PhonesUnique, Registered
<1> QED
  BY <1>1, <1>2, <1>3, <1>4, <1>5 DEF AccountsOtherStep

-----------------------------------------------------------------------------
(***************************************************************************)
(* Shops.  A request under way is about a shop there is, and has a reason  *)
(* that fits what it asks for; a notice under way, wherever it is, says    *)
(* what the shop is now, unless its owner is marked.                       *)
(***************************************************************************)
RequestsKnown ==
  \A i \in moderating :
    /\ shopStatus[i.owner] # "none"
    /\ i.status \in {"REJECTED", "SUSPENDED"} <=> i.reason = "complaint"

NoticesTrue ==
  \A x \in underWay :
    /\ shopStatus[x.owner] # "none"
    /\ x.owner \notin doubtful => x.notice = shopStatus[x.owner]

ShopsInv ==
  /\ ShopsTypeOK
  /\ PhonesUnique
  /\ RegistrationsAreWhole
  /\ ReasonFits
  /\ RequestsKnown
  /\ NoticesTrue
  /\ LastNoticeIsTrue

LEMMA ZeroIsATime == 0 \in Times
<1>1. DayLength \in Nat /\ DayLength # 0
  BY DayAssumption
<1>2. 0 <= DayLength - 1
  BY <1>1
<1> QED
  BY <1>1, <1>2 DEF Times

LEMMA ShopsInitInv == ShopsInit => ShopsInv
<1> SUFFICES ASSUME ShopsInit PROVE ShopsInv
  OBVIOUS
<1> USE DEF ShopsInit, AccountsInit
<1>1. AccountsTypeOK /\ PhonesUnique
  BY DEF AccountsTypeOK, PhonesUnique, Registered
<1>2. ShopsTypeOK
  <2>1. 0 \in Times
    BY ZeroIsATime
  <2>2. hours \in [Emails -> Hours]
    BY <2>1 DEF Hours
  <2> QED
    BY <1>1, <2>2 DEF ShopsTypeOK, Reason
<1>3. RegistrationsAreWhole /\ ReasonFits
  BY DEF RegistrationsAreWhole, ReasonFits
<1>4. RequestsKnown /\ NoticesTrue /\ LastNoticeIsTrue
  BY DEF RequestsKnown, NoticesTrue, LastNoticeIsTrue
<1> QED
  BY <1>1, <1>2, <1>3, <1>4 DEF ShopsInv

\* Steps of accounts that touch no shop.
LEMMA AccountsStepKeepsShops ==
  ASSUME ShopsInv, AccountsInv', UNCHANGED shopVars,
         \A e \in Emails : /\ role'[e] = "SHOPKEEPER" <=> role[e] = "SHOPKEEPER"
                           /\ (role'[e] = "DELIVERY_PARTNER") <=> (e \in profiles')
  PROVE  ShopsInv'
<1> USE DEF shopVars, profileVars
<1>1. ShopsTypeOK'
  BY DEF ShopsInv, ShopsTypeOK, AccountsInv
<1>2. RegistrationsAreWhole' /\ ReasonFits'
  BY DEF ShopsInv, RegistrationsAreWhole, ReasonFits
<1>3. RequestsKnown' /\ NoticesTrue' /\ LastNoticeIsTrue'
  BY DEF ShopsInv, RequestsKnown, NoticesTrue, LastNoticeIsTrue
<1> QED
  BY <1>1, <1>2, <1>3 DEF ShopsInv, AccountsInv

LEMMA AccountsNextKeepsInv ==
  ASSUME ShopsInv, AccountsNext, UNCHANGED shopVars
  PROVE  ShopsInv'
<1>1. AccountsInv
  BY DEF ShopsInv, ShopsTypeOK, AccountsInv
<1>2. profiles \subseteq Emails
  BY DEF ShopsInv, ShopsTypeOK, AccountsTypeOK
<1>3. \A e \in Emails : (role[e] = "DELIVERY_PARTNER") <=> (e \in profiles)
  BY DEF ShopsInv, RegistrationsAreWhole
<1>4. CASE AccountsOtherStep
  BY <1>1, <1>3, <1>4, AccountsOtherStepKeepsInv, AccountsStepKeepsShops
<1>5. ASSUME NEW i \in signingUp, RegisterCustomer(i)
      PROVE  ShopsInv'
  <2>1. UserInserted(i) /\ AccountsInv'
    BY <1>1, <1>2, <1>5, InsertUserFacts, InsertUserKeepsInv DEF RegisterCustomer
  <2>2. role[i.email] = "none"
    BY <2>1 DEF UserInserted, Registered
  <2>3. \A e \in Emails : /\ role'[e] = "SHOPKEEPER" <=> role[e] = "SHOPKEEPER"
                          /\ (role'[e] = "DELIVERY_PARTNER") <=> (e \in profiles')
    BY <1>3, <1>5, <2>1, <2>2 DEF UserInserted, RegisterCustomer
  <2> QED
    BY <2>1, <2>3, AccountsStepKeepsShops
<1>6. ASSUME NEW i \in signingUp, RegisterDeliveryPartner(i)
      PROVE  ShopsInv'
  <2>1. i.email \in Emails
    BY <1>1, <1>6, InsertUserFacts DEF UserInserted, RegisterDeliveryPartner
  <2>2. UserInserted(i) /\ AccountsInv'
    BY <1>1, <1>2, <1>6, <2>1, InsertUserFacts, InsertUserKeepsInv
    DEF RegisterDeliveryPartner
  <2>3. role[i.email] = "none"
    BY <2>2 DEF UserInserted, Registered
  <2>4. \A e \in Emails : /\ role'[e] = "SHOPKEEPER" <=> role[e] = "SHOPKEEPER"
                          /\ (role'[e] = "DELIVERY_PARTNER") <=> (e \in profiles')
    BY <1>3, <1>6, <2>2, <2>3 DEF UserInserted, RegisterDeliveryPartner
  <2> QED
    BY <2>2, <2>4, AccountsStepKeepsShops
<1> QED
  BY <1>4, <1>5, <1>6 DEF AccountsNext, AccountsOtherStep

LEMMA RegisterShopkeeperKeepsInv ==
  ASSUME ShopsInv, NEW i \in signingUp, NEW h \in Hours, RegisterShopkeeper(i, h)
  PROVE  ShopsInv'
<1>1. AccountsInv /\ profiles \subseteq Emails
  BY DEF ShopsInv, ShopsTypeOK, AccountsInv, AccountsTypeOK
<1>2. UserInserted(i) /\ AccountsInv'
  BY <1>1, InsertUserFacts, InsertUserKeepsInv DEF RegisterShopkeeper
<1>3. i.email \in Emails /\ role[i.email] = "none" /\ i.role = "SHOPKEEPER"
  BY <1>2 DEF UserInserted, Registered, RegisterShopkeeper
<1>4. shopStatus \in [Emails -> ShopStatus \cup {"none"}]
  BY DEF ShopsInv, ShopsTypeOK
<1>5. shopStatus[i.email] = "none" /\ i.email \notin kyc
  BY <1>3 DEF ShopsInv, RegistrationsAreWhole
<1>6. \A e \in Emails : shopStatus'[e] = IF e = i.email THEN "PENDING" ELSE shopStatus[e]
  BY <1>3, <1>4 DEF RegisterShopkeeper
<1>7. ShopsTypeOK'
  <2>1. /\ shopStatus' \in [Emails -> ShopStatus \cup {"none"}]
        /\ hours' \in [Emails -> Hours] /\ accepting' \subseteq Emails
    BY <1>3, <1>4 DEF RegisterShopkeeper, ShopStatus, ShopsInv, ShopsTypeOK
  <2>2. ToPublish(i.email, "PENDING") \in Notice
    BY <1>3 DEF ShopStatus, Notice, Place, ToPublish
  <2> QED
    BY <1>2, <1>3, <2>1, <2>2 DEF RegisterShopkeeper, ShopsInv, ShopsTypeOK, AccountsInv
<1>8. RegistrationsAreWhole'
  BY <1>2, <1>3, <1>6
  DEF UserInserted, RegisterShopkeeper, ShopsInv, RegistrationsAreWhole
<1>9. ReasonFits'
  BY <1>3, <1>5, <1>6 DEF RegisterShopkeeper, ShopsInv, ReasonFits
<1>10. RequestsKnown'
  <2>1. \A m \in moderating : m.owner \in Emails /\ m.owner # i.email
    BY <1>5 DEF ShopsInv, ShopsTypeOK, RequestsKnown
  <2> QED
    BY <1>6, <2>1 DEF RegisterShopkeeper, ShopsInv, RequestsKnown
<1>11. \A x \in underWay : x.owner \in Emails /\ x.owner # i.email
  BY <1>5 DEF ShopsInv, ShopsTypeOK, Notice, NoticesTrue
<1>12. NoticesTrue'
  BY <1>3, <1>6, <1>11 DEF RegisterShopkeeper, ToPublish, ShopsInv, NoticesTrue
<1>13. LastNoticeIsTrue'
  <2> SUFFICES ASSUME NEW e \in Emails, e \notin doubtful',
                      ~(\E x \in underWay' : x.owner = e)
               PROVE  lastNotice'[e] = shopStatus'[e]
    BY DEF LastNoticeIsTrue
  <2> DEFINE new == ToPublish(i.email, "PENDING")
  <2>1. new \in underWay' /\ underWay \subseteq underWay' /\ new.owner = i.email
    BY DEF RegisterShopkeeper, ToPublish
  <2> HIDE DEF new
  <2>2. e # i.email /\ ~(\E x \in underWay : x.owner = e)
    BY <2>1
  <2> QED
    BY <1>6, <2>2 DEF RegisterShopkeeper, ShopsInv, LastNoticeIsTrue
<1> QED
  BY <1>2, <1>7, <1>8, <1>9, <1>10, <1>12, <1>13 DEF ShopsInv, AccountsInv

\* Steps of a shop leave the accounts alone.
LEMMA AccountsKept ==
  ASSUME ShopsInv, UNCHANGED accountVars
  PROVE  AccountsTypeOK' /\ PhonesUnique'
BY DEF ShopsInv, ShopsTypeOK, accountVars, AccountsTypeOK, PhonesUnique, Registered

LEMMA UpdateMyShopKeepsInv ==
  ASSUME ShopsInv, NEW e \in Emails, NEW h \in Hours, NEW accepts \in BOOLEAN,
         UpdateMyShop(e, h, accepts)
  PROVE  ShopsInv'
<1> USE DEF UpdateMyShop
<1>1. hours' \in [Emails -> Hours] /\ accepting' \subseteq Emails
  BY DEF ShopsInv, ShopsTypeOK
<1>2. ShopsTypeOK' /\ PhonesUnique'
  BY <1>1, AccountsKept DEF ShopsInv, ShopsTypeOK
<1>3. RegistrationsAreWhole' /\ ReasonFits'
  BY DEF ShopsInv, RegistrationsAreWhole, ReasonFits, accountVars
<1>4. RequestsKnown' /\ NoticesTrue' /\ LastNoticeIsTrue'
  BY DEF ShopsInv, RequestsKnown, NoticesTrue, LastNoticeIsTrue
<1> QED
  BY <1>2, <1>3, <1>4 DEF ShopsInv

LEMMA ModerateReadKeepsInv ==
  ASSUME ShopsInv, NEW e \in Emails, NEW status \in ShopStatus \ {"PENDING"},
         NEW reason \in Reason, ModerateRead(e, status, reason)
  PROVE  ShopsInv'
<1> DEFINE new == [owner |-> e, seen |-> shopStatus[e], status |-> status,
                   reason |-> reason]
<1> USE DEF ModerateRead, profileVars
<1>1. new \in [owner : Emails, seen : ShopStatus, status : ShopStatus, reason : Reason]
  BY DEF ShopsInv, ShopsTypeOK
<1>2. ShopsTypeOK' /\ PhonesUnique'
  BY <1>1, AccountsKept DEF ShopsInv, ShopsTypeOK
<1>3. RegistrationsAreWhole' /\ ReasonFits'
  BY DEF ShopsInv, RegistrationsAreWhole, ReasonFits, accountVars
<1>4. RequestsKnown'
  <2>1. status \in {"REJECTED", "SUSPENDED"} <=> reason = "complaint"
    BY DEF ReasonsFor, ShopStatus
  <2> QED
    BY <2>1 DEF ShopsInv, RequestsKnown
<1>5. NoticesTrue' /\ LastNoticeIsTrue'
  BY DEF ShopsInv, NoticesTrue, LastNoticeIsTrue
<1> QED
  BY <1>2, <1>3, <1>4, <1>5 DEF ShopsInv

LEMMA ModerateConflictKeepsInv ==
  ASSUME ShopsInv, NEW i \in moderating, ModerateConflict(i)
  PROVE  ShopsInv'
<1> USE DEF ModerateConflict, profileVars
<1>1. ShopsTypeOK' /\ PhonesUnique'
  BY AccountsKept DEF ShopsInv, ShopsTypeOK
<1>2. RegistrationsAreWhole' /\ ReasonFits'
  BY DEF ShopsInv, RegistrationsAreWhole, ReasonFits, accountVars
<1>3. RequestsKnown' /\ NoticesTrue' /\ LastNoticeIsTrue'
  BY DEF ShopsInv, RequestsKnown, NoticesTrue, LastNoticeIsTrue
<1> QED
  BY <1>1, <1>2, <1>3 DEF ShopsInv

LEMMA ModerateWriteKeepsInv ==
  ASSUME ShopsInv, NEW i \in moderating, ModerateWrite(i)
  PROVE  ShopsInv'
<1>1. i \in [owner : Emails, seen : ShopStatus, status : ShopStatus, reason : Reason]
  BY DEF ShopsInv, ShopsTypeOK
<1>2. /\ shopStatus \in [Emails -> ShopStatus \cup {"none"}]
      /\ statusReason \in [Emails -> Reason]
  BY DEF ShopsInv, ShopsTypeOK
<1>3. \A e \in Emails :
        /\ shopStatus'[e] = IF e = i.owner THEN i.status ELSE shopStatus[e]
        /\ statusReason'[e] = IF e = i.owner THEN i.reason ELSE statusReason[e]
  BY <1>1, <1>2 DEF ModerateWrite, ReasonWritten
<1>4. /\ shopStatus[i.owner] # "none"
      /\ i.status \in {"REJECTED", "SUSPENDED"} <=> i.reason = "complaint"
  BY DEF ShopsInv, RequestsKnown
<1>5. i.status # "none"
  BY <1>1 DEF ShopStatus
<1>6. ShopsTypeOK' /\ PhonesUnique'
  <2>1. /\ shopStatus' \in [Emails -> ShopStatus \cup {"none"}]
        /\ statusReason' \in [Emails -> Reason]
    BY <1>1, <1>2 DEF ModerateWrite, ReasonWritten
  <2>2. ToPublish(i.owner, i.status) \in Notice
    BY <1>1 DEF Notice, Place, ToPublish
  <2>3. approvedAt' \subseteq Emails /\ doubtful' \subseteq Emails
    BY <1>1 DEF ModerateWrite, ShopsInv, ShopsTypeOK
  <2> QED
    BY <2>1, <2>2, <2>3, AccountsKept DEF ModerateWrite, profileVars, ShopsInv, ShopsTypeOK
<1>7. RegistrationsAreWhole'
  BY <1>3, <1>4, <1>5 DEF ModerateWrite, ShopsInv, RegistrationsAreWhole, accountVars
<1>8. ReasonFits'
  BY <1>3, <1>4 DEF ModerateWrite, ShopsInv, ReasonFits
<1>9. RequestsKnown'
  <2>1. \A m \in moderating' : m \in moderating /\ m.owner \in Emails
    BY DEF ModerateWrite, ShopsInv, ShopsTypeOK
  <2> QED
    BY <1>3, <1>5, <2>1 DEF ShopsInv, RequestsKnown
<1>10. \A x \in underWay : x.owner \in Emails
  BY DEF ShopsInv, ShopsTypeOK, Notice
<1> DEFINE new == ToPublish(i.owner, i.status)
<1>11. new.owner = i.owner /\ new.notice = i.status
  BY DEF ToPublish
<1>12. underWay' = underWay \cup {new}
  BY DEF ModerateWrite
<1> HIDE DEF new
<1>13. \A e \in Emails : e # i.owner => (e \in doubtful' <=> e \in doubtful)
  BY DEF ModerateWrite
<1>14. i.owner \notin doubtful' => ~(\E x \in underWay : x.owner = i.owner)
  BY DEF ModerateWrite
<1>15. NoticesTrue'
  <2> SUFFICES ASSUME NEW x \in underWay'
               PROVE  /\ shopStatus'[x.owner] # "none"
                      /\ x.owner \notin doubtful' => x.notice = shopStatus'[x.owner]
    BY DEF NoticesTrue
  <2>1. CASE x = new
    BY <1>1, <1>3, <1>5, <1>11, <2>1
  <2>2. CASE x \in underWay
    BY <1>3, <1>5, <1>10, <1>13, <1>14, <2>2 DEF ShopsInv, NoticesTrue
  <2> QED
    BY <1>12, <2>1, <2>2
<1>16. LastNoticeIsTrue'
  <2> SUFFICES ASSUME NEW e \in Emails, e \notin doubtful',
                      ~(\E x \in underWay' : x.owner = e)
               PROVE  lastNotice'[e] = shopStatus'[e]
    BY DEF LastNoticeIsTrue
  <2>1. e # i.owner /\ ~(\E x \in underWay : x.owner = e)
    BY <1>11, <1>12
  <2> QED
    BY <1>3, <1>13, <2>1 DEF ModerateWrite, ShopsInv, LastNoticeIsTrue
<1> QED
  BY <1>6, <1>7, <1>8, <1>9, <1>15, <1>16 DEF ShopsInv

\* What publishing, telling and losing a notice have in common.
NoticeStepKeepsRest ==
  UNCHANGED <<accountVars, shopStatus, statusReason, approvedAt, kyc, profileVars,
              moderating>>

LEMMA RestKept ==
  ASSUME ShopsInv, NoticeStepKeepsRest, underWay' \subseteq Notice,
         lastNotice' \in [Emails -> ShopStatus \cup {"none"}], doubtful' \subseteq Emails
  PROVE  /\ ShopsTypeOK' /\ PhonesUnique' /\ RegistrationsAreWhole' /\ ReasonFits'
         /\ RequestsKnown'
<1> USE DEF NoticeStepKeepsRest, profileVars
<1>1. ShopsTypeOK' /\ PhonesUnique'
  BY AccountsKept DEF ShopsInv, ShopsTypeOK
<1>2. RegistrationsAreWhole' /\ ReasonFits'
  BY DEF ShopsInv, RegistrationsAreWhole, ReasonFits, accountVars
<1>3. RequestsKnown'
  BY DEF ShopsInv, RequestsKnown
<1> QED
  BY <1>1, <1>2, <1>3

LEMMA PublishKeepsInv ==
  ASSUME ShopsInv, NEW x \in underWay, Publish(x)
  PROVE  ShopsInv'
<1>1. PICK rest \in Without(x), places \in {{"stream"}, {"fallback"}, {"stream", "fallback"}} :
        underWay' = rest \cup {[x EXCEPT !.at = place] : place \in places}
  BY DEF Publish
<1>2. x \in Notice /\ underWay \subseteq Notice
  BY DEF ShopsInv, ShopsTypeOK
<1>3. places # {} /\ places \subseteq Place /\ rest \subseteq underWay
      /\ underWay \ {x} \subseteq rest
  BY DEF Place, Without
<1>4. \A place \in Place : LET y == [x EXCEPT !.at = place]
                          IN  y \in Notice /\ y.owner = x.owner /\ y.notice = x.notice
  BY <1>2 DEF Notice
<1>5. \A y \in underWay' :
        y \in Notice /\ \E z \in underWay : y.owner = z.owner /\ y.notice = z.notice
  BY <1>1, <1>2, <1>3, <1>4
<1>6. \A z \in underWay : \E y \in underWay' : y.owner = z.owner
  <2>1. PICK place \in places : TRUE
    BY <1>3
  <2>2. [x EXCEPT !.at = place] \in underWay'
    BY <1>1, <2>1
  <2>3. [x EXCEPT !.at = place].owner = x.owner
    BY <1>3, <1>4
  <2> QED
    BY <1>1, <1>3, <2>2, <2>3
<1>7. UNCHANGED <<shopStatus, lastNotice, doubtful>>
  BY DEF Publish
<1>8. ShopsTypeOK' /\ PhonesUnique' /\ RegistrationsAreWhole' /\ ReasonFits' /\ RequestsKnown'
  <2>1. underWay' \subseteq Notice
    BY <1>5
  <2>2. NoticeStepKeepsRest
    BY DEF Publish, NoticeStepKeepsRest
  <2> QED
    BY <1>7, <2>1, <2>2, RestKept DEF ShopsInv, ShopsTypeOK
<1>9. NoticesTrue'
  BY <1>5, <1>7 DEF ShopsInv, NoticesTrue
<1>10. LastNoticeIsTrue'
  BY <1>6, <1>7 DEF ShopsInv, LastNoticeIsTrue
<1> QED
  BY <1>8, <1>9, <1>10 DEF ShopsInv

LEMMA TellKeepsInv ==
  ASSUME ShopsInv, NEW x \in underWay, Tell(x)
  PROVE  ShopsInv'
<1>1. x \in Notice /\ lastNotice \in [Emails -> ShopStatus \cup {"none"}]
  BY DEF ShopsInv, ShopsTypeOK
<1>2. x.owner \in Emails /\ x.notice \in ShopStatus
  BY <1>1 DEF Notice
<1>3. lastNotice' \in [Emails -> ShopStatus \cup {"none"}]
  BY <1>1, <1>2 DEF Tell
<1>4. \A e \in Emails : lastNotice'[e] = IF e = x.owner THEN x.notice ELSE lastNotice[e]
  BY <1>1, <1>2 DEF Tell
<1>5. underWay' \subseteq underWay /\ underWay \ {x} \subseteq underWay'
  BY DEF Tell, Without
<1>6. UNCHANGED <<shopStatus, doubtful>>
  BY DEF Tell
<1>7. ShopsTypeOK' /\ PhonesUnique' /\ RegistrationsAreWhole' /\ ReasonFits' /\ RequestsKnown'
  <2>1. NoticeStepKeepsRest
    BY DEF Tell, NoticeStepKeepsRest
  <2> QED
    BY <1>3, <1>5, <1>6, <2>1, RestKept DEF ShopsInv, ShopsTypeOK
<1>8. NoticesTrue'
  BY <1>5, <1>6 DEF ShopsInv, NoticesTrue
<1>9. LastNoticeIsTrue'
  <2> SUFFICES ASSUME NEW e \in Emails, e \notin doubtful',
                      ~(\E y \in underWay' : y.owner = e)
               PROVE  lastNotice'[e] = shopStatus'[e]
    BY DEF LastNoticeIsTrue
  <2>1. CASE e = x.owner
    BY <1>4, <1>6, <2>1 DEF ShopsInv, NoticesTrue
  <2>2. CASE e # x.owner
    <3>1. ~(\E y \in underWay : y.owner = e)
      BY <1>5, <2>2
    <3> QED
      BY <1>4, <1>6, <2>2, <3>1 DEF ShopsInv, LastNoticeIsTrue
  <2> QED
    BY <2>1, <2>2
<1> QED
  BY <1>7, <1>8, <1>9 DEF ShopsInv

LEMMA NoticeLostKeepsInv ==
  ASSUME ShopsInv, NEW x \in underWay, NoticeLost(x)
  PROVE  ShopsInv'
<1>1. x.owner \in Emails
  BY DEF ShopsInv, ShopsTypeOK, Notice
<1>2. underWay' \subseteq underWay /\ underWay \ {x} \subseteq underWay'
  BY DEF NoticeLost, Without
<1>3. UNCHANGED <<shopStatus, lastNotice>> /\ doubtful' = doubtful \cup {x.owner}
  BY DEF NoticeLost
<1>4. ShopsTypeOK' /\ PhonesUnique' /\ RegistrationsAreWhole' /\ ReasonFits' /\ RequestsKnown'
  <2>1. NoticeStepKeepsRest
    BY DEF NoticeLost, NoticeStepKeepsRest
  <2> QED
    BY <1>1, <1>2, <1>3, <2>1, RestKept DEF ShopsInv, ShopsTypeOK
<1>5. NoticesTrue'
  BY <1>2, <1>3 DEF ShopsInv, NoticesTrue
<1>6. LastNoticeIsTrue'
  <2> SUFFICES ASSUME NEW e \in Emails, e \notin doubtful',
                      ~(\E y \in underWay' : y.owner = e)
               PROVE  lastNotice'[e] = shopStatus'[e]
    BY DEF LastNoticeIsTrue
  <2>1. e # x.owner /\ e \notin doubtful
    BY <1>3
  <2>2. ~(\E y \in underWay : y.owner = e)
    BY <1>2, <2>1
  <2> QED
    BY <1>3, <2>1, <2>2 DEF ShopsInv, LastNoticeIsTrue
<1> QED
  BY <1>4, <1>5, <1>6 DEF ShopsInv

LEMMA ShopsInvariant == ShopsSpec => []ShopsInv
<1>1. ShopsInv /\ [ShopsNext]_shopsVars => ShopsInv'
  <2> SUFFICES ASSUME ShopsInv, [ShopsNext]_shopsVars
               PROVE  ShopsInv'
    OBVIOUS
  <2>1. CASE UNCHANGED shopsVars
    <3>1. ShopsTypeOK' /\ PhonesUnique'
      BY <2>1, AccountsKept DEF shopsVars, shopVars, profileVars, ShopsInv, ShopsTypeOK
    <3>2. RegistrationsAreWhole' /\ ReasonFits'
      BY <2>1 DEF shopsVars, shopVars, accountVars, ShopsInv, RegistrationsAreWhole,
                  ReasonFits
    <3>3. RequestsKnown' /\ NoticesTrue' /\ LastNoticeIsTrue'
      BY <2>1 DEF shopsVars, shopVars, ShopsInv, RequestsKnown, NoticesTrue,
                  LastNoticeIsTrue
    <3> QED
      BY <3>1, <3>2, <3>3 DEF ShopsInv
  <2> QED
    BY <2>1, AccountsNextKeepsInv, RegisterShopkeeperKeepsInv, UpdateMyShopKeepsInv,
       ModerateReadKeepsInv, ModerateWriteKeepsInv, ModerateConflictKeepsInv,
       PublishKeepsInv, TellKeepsInv, NoticeLostKeepsInv
    DEF ShopsNext
<1> QED
  BY <1>1, ShopsInitInv, PTL DEF ShopsSpec

-----------------------------------------------------------------------------
\* Both branches of is_open_now, without a shop.
LEMMA ArcFacts ==
  ASSUME NEW opening \in Times, NEW closing \in Times, NEW now \in Times
  PROVE  (now - opening) % DayLength <= (closing - opening) % DayLength
           <=> IF opening <= closing THEN opening <= now /\ now <= closing
                                     ELSE now >= opening \/ now <= closing
<1>1. \A t, u \in 0..(DayLength - 1) :
        (t - u) % DayLength = IF u <= t THEN t - u ELSE t - u + DayLength
  BY DayAssumption
<1> QED
  BY <1>1, DayAssumption DEF Times

(***************************************************************************)
(* Users and shops stay well typed: no row of a shop without an account's  *)
(* e-mail, no active user without a row (accounts/models.py,               *)
(* shops/models.py).                                                       *)
(***************************************************************************)
THEOREM ShopsTypeCorrect == ShopsSpec => []ShopsTypeOK
<1>1. ShopsInv => ShopsTypeOK
  BY DEF ShopsInv
<1> QED
  BY <1>1, ShopsInvariant, PTL

(***************************************************************************)
(* However many sign-ups and profile edits have found a number free, at    *)
(* most one gets it (accounts/serializers.py, accounts/models.py).         *)
(***************************************************************************)
THEOREM NumbersUnique == ShopsSpec => []PhonesUnique
<1>1. ShopsInv => PhonesUnique
  BY DEF ShopsInv
<1> QED
  BY <1>1, ShopsInvariant, PTL

(***************************************************************************)
(* Every registration leaves all of its rows or none                       *)
(* (shops/services.py, delivery/services.py).                              *)
(***************************************************************************)
THEOREM RegistrationsWhole == ShopsSpec => []RegistrationsAreWhole
<1>1. ShopsInv => RegistrationsAreWhole
  BY DEF ShopsInv
<1> QED
  BY <1>1, ShopsInvariant, PTL

(***************************************************************************)
(* Status, reason and approval date fit together; and an owner who has no  *)
(* notice under way was told last what his shop is, provided the last      *)
(* write met no earlier notice under way and none was lost since - for any *)
(* number of administrators who moderate at once, and whether a notice     *)
(* goes through the stream, the fallback or both (shops/services.py,       *)
(* _transition; events/bus.py, publish).                                   *)
(***************************************************************************)
THEOREM ModerationConsistent == ShopsSpec => [](ReasonFits /\ LastNoticeIsTrue)
<1>1. ShopsInv => ReasonFits /\ LastNoticeIsTrue
  BY DEF ShopsInv
<1> QED
  BY <1>1, ShopsInvariant, PTL

(***************************************************************************)
(* The two branches of is_open_now are one arc of the clock, for a day of  *)
(* any length and any hours a shopkeeper sets (shops/models.py,            *)
(* is_open_now; shops/services.py, update_shop_profile).                   *)
(***************************************************************************)
THEOREM HoursAreAnArc == ShopsSpec => []OpeningHoursAreAnArc
<1>1. ShopsInv => OpeningHoursAreAnArc
  <2> SUFFICES ASSUME ShopsInv, NEW e \in Emails, NEW now \in Times
               PROVE  OpenNow(e, now) <=>
                        /\ shopStatus[e] = "APPROVED" /\ e \in accepting
                        /\ (now - hours[e].opening_time) % DayLength
                             <= (hours[e].closing_time - hours[e].opening_time) % DayLength
    BY DEF OpeningHoursAreAnArc
  <2>1. hours[e].opening_time \in Times /\ hours[e].closing_time \in Times
    BY DEF ShopsInv, ShopsTypeOK, Hours
  <2> QED
    BY <2>1, ArcFacts DEF OpenNow
<1> QED
  BY <1>1, ShopsInvariant, PTL

==============================================================================
