------------------------------ MODULE Accounts -------------------------------
(***************************************************************************)
(* The user table: sign-up, the profile's mobile number and the admin's    *)
(* switch.  A user is named by his e-mail, which no endpoint changes.      *)
(*                                                                         *)
(* Sign-up and profile edits look for the number first, in the serializer, *)
(* and write later: in between others may take it.  What decides then are  *)
(* the unique columns.                                                     *)
(***************************************************************************)
CONSTANTS
  Emails,     \* in the lower case save() stores
  Phones,
  NoPhone     \* where there is no row

ASSUME AccountsAssumption == NoPhone \notin Phones

VARIABLES
  role,         \* User.role; "none" where there is no row
  phone,        \* User.phone
  active,       \* users whose is_active is true
  signingUp,    \* registrations whose serializer has found nothing against them
  profiles,     \* users with a DeliveryPartnerProfile row
  phoneEdits    \* PATCH /api/auth/me/ requests that have found the number free

accountVars == <<role, phone, active, signingUp, profiles, phoneEdits>>

\* The roles the three registration endpoints give.
SelfServiceRoles == {"CUSTOMER", "SHOPKEEPER", "DELIVERY_PARTNER"}

Registered == {e \in Emails : role[e] # "none"}

AccountsTypeOK ==
  /\ role \in [Emails -> SelfServiceRoles \cup {"none"}]
  /\ phone \in [Emails -> Phones \cup {NoPhone}]
  /\ active \subseteq Registered
  /\ signingUp \subseteq [email : Emails, phone : Phones, role : SelfServiceRoles]
  /\ profiles \subseteq Emails
  /\ phoneEdits \subseteq [email : Emails, phone : Phones]

AccountsInit ==
  /\ role = [e \in Emails |-> "none"]
  /\ phone = [e \in Emails |-> NoPhone]
  /\ active = {}
  /\ signingUp = {}
  /\ profiles = {} /\ phoneEdits = {}

-----------------------------------------------------------------------------
\* exists_by_phone, leaving out the user himself.
PhoneTaken(n, e) == \E other \in Registered \ {e} : phone[other] = n

\* Seeded fault: the column without unique=True, so that only the serializers
\* look.  It breaks PhonesUnique.
ColumnsAllowAnything(i) == TRUE

\* What the database lets in: email and phone are unique.
ColumnsAllow(i) == ~PhoneTaken(i.phone, i.email)

\* A registration serializer: validate_email and validate_phone.
SignUpCheck(e, n, r) ==
  /\ e \notin Registered
  /\ ~PhoneTaken(n, e)
  /\ signingUp' = signingUp \cup {[email |-> e, phone |-> n, role |-> r]}
  /\ UNCHANGED <<role, phone, active, profiles, phoneEdits>>

\* register_user: full_clean, then the INSERT.
InsertUser(i) ==
  /\ i \in signingUp
  /\ i.email \notin Registered /\ ColumnsAllow(i)
  /\ role' = [role EXCEPT ![i.email] = i.role]
  /\ phone' = [phone EXCEPT ![i.email] = i.phone]
  /\ active' = active \cup {i.email}
  /\ signingUp' = signingUp \ {i}
  /\ UNCHANGED phoneEdits

RegisterCustomer(i) ==
  /\ i.role = "CUSTOMER"
  /\ InsertUser(i)
  /\ UNCHANGED profiles

\* register_delivery_partner: the user and his profile, or neither.
RegisterDeliveryPartner(i) ==
  /\ i.role = "DELIVERY_PARTNER"
  /\ InsertUser(i)
  /\ profiles' = profiles \cup {i.email}

\* ... or the ValidationError or IntegrityError that takes everything back.
SignUpFails(i) ==
  /\ i \in signingUp
  /\ i.email \in Registered \/ ~ColumnsAllow(i)
  /\ signingUp' = signingUp \ {i}
  /\ UNCHANGED <<role, phone, active, profiles, phoneEdits>>

\* PATCH /api/auth/me/: a deactivated user's token is refused; validate_phone.
PhoneEditCheck(e, n) ==
  /\ e \in active
  /\ ~PhoneTaken(n, e)
  /\ phoneEdits' = phoneEdits \cup {[email |-> e, phone |-> n]}
  /\ UNCHANGED <<role, phone, active, signingUp, profiles>>

\* update_profile, on the row of a user who may have been deactivated since.
\* Another edit that found the same number free may still be there.
PhoneEditSave(i) ==
  /\ i \in phoneEdits
  /\ phone' = IF ColumnsAllow(i) THEN [phone EXCEPT ![i.email] = i.phone] ELSE phone
  /\ phoneEdits' \in {phoneEdits \ {i}, phoneEdits}
  /\ UNCHANGED <<role, active, signingUp, profiles>>

\* Seeded fault: SetUserActive without "User not found".  It breaks the type
\* invariant.
SetAnybodyActive(e, isActive) ==
  /\ active' = IF isActive THEN active \cup {e} ELSE active \ {e}
  /\ UNCHANGED <<role, phone, signingUp, profiles, phoneEdits>>

\* POST /api/dashboard/users/<id>/activate/ and deactivate/
SetUserActive(e, isActive) ==
  /\ e \in Registered
  /\ active' = IF isActive THEN active \cup {e} ELSE active \ {e}
  /\ UNCHANGED <<role, phone, signingUp, profiles, phoneEdits>>

AccountsNext ==
  \/ \E e \in Emails, n \in Phones :
       \/ \E r \in SelfServiceRoles : SignUpCheck(e, n, r)
       \/ PhoneEditCheck(e, n)
  \/ \E i \in signingUp :
       RegisterCustomer(i) \/ RegisterDeliveryPartner(i) \/ SignUpFails(i)
  \/ \E i \in phoneEdits : PhoneEditSave(i)
  \/ \E e \in Emails, isActive \in BOOLEAN : SetUserActive(e, isActive)

-----------------------------------------------------------------------------
(***************************************************************************)
(* No two accounts have the same mobile number, whichever sign-ups and     *)
(* profile edits cross between their look at the table and their write.    *)
(***************************************************************************)
PhonesUnique ==
  \A a, b \in Registered : phone[a] = phone[b] => a = b

==============================================================================
