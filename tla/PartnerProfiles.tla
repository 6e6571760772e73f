--------------------------- MODULE PartnerProfiles ---------------------------
(***************************************************************************)
(* Delivery partners' profiles: approval by an admin, online and offline   *)
(* by the partner, and the count of deliveries.                            *)
(*                                                                         *)
(* None of these views opens a transaction, so a request that reads the    *)
(* row and writes it later is two actions.  set_availability writes back   *)
(* only is_online.  PATCH /api/delivery/profile/ calls serializer.save(),  *)
(* which writes every column of the row it read, and lets the partner set  *)
(* is_online.                                                              *)
(***************************************************************************)
EXTENDS Naturals

CONSTANTS
  Partners,
  NoSnapshot    \* no PATCH of this profile is in flight

VARIABLES
  isApproved,   \* DeliveryPartnerProfile.is_approved
  isOnline,     \* DeliveryPartnerProfile.is_online
  total,        \* DeliveryPartnerProfile.total_deliveries
  goingOnline,  \* partners whose availability request has passed its check
  patching      \* the row a PATCH of the profile has read

profileRows == <<isApproved, isOnline, total>>
profileVars == <<profileRows, goingOnline, patching>>

Snapshot == [isApproved : BOOLEAN, total : Nat]

ProfileTypeOK ==
  /\ isApproved \in [Partners -> BOOLEAN]
  /\ isOnline \in [Partners -> BOOLEAN]
  /\ total \in [Partners -> Nat]
  /\ goingOnline \subseteq Partners
  /\ patching \in [Partners -> Snapshot \cup {NoSnapshot}]

\* As register_delivery_partner leaves a profile.
ProfileInit ==
  /\ isApproved = [d \in Partners |-> FALSE]
  /\ isOnline = [d \in Partners |-> FALSE]
  /\ total = [d \in Partners |-> 0]
  /\ goingOnline = {}
  /\ patching = [d \in Partners |-> NoSnapshot]

-----------------------------------------------------------------------------
\* POST .../availability/ {is_online: true}: read and check ...
AvailabilityRead(d) ==
  /\ isApproved[d]
  /\ goingOnline' = goingOnline \cup {d}
  /\ UNCHANGED <<profileRows, patching>>

\* ... then write.
AvailabilityWrite(d) ==
  /\ d \in goingOnline
  /\ goingOnline' = goingOnline \ {d}
  /\ isOnline' = [isOnline EXCEPT ![d] = TRUE]
  /\ UNCHANGED <<isApproved, total, patching>>

\* Going offline needs no check.
GoOffline(d) ==
  /\ isOnline' = [isOnline EXCEPT ![d] = FALSE]
  /\ UNCHANGED <<isApproved, total, goingOnline, patching>>

\* The admin's approve and activate do the same.
Approve(d) ==
  /\ isApproved' = [isApproved EXCEPT ![d] = TRUE]
  /\ UNCHANGED <<isOnline, total, goingOnline, patching>>

Deactivate(d) ==
  /\ isApproved' = [isApproved EXCEPT ![d] = FALSE]
  /\ isOnline' = [isOnline EXCEPT ![d] = FALSE]
  /\ UNCHANGED <<total, goingOnline, patching>>

PatchRead(d) ==
  /\ patching[d] = NoSnapshot
  /\ patching' = [patching EXCEPT ![d] =
                    [isApproved |-> isApproved[d], total |-> total[d]]]
  /\ UNCHANGED <<profileRows, goingOnline>>

\* online: what the request asks for, or what the row said.
PatchWrite(d, online) ==
  /\ patching[d] # NoSnapshot
  /\ isApproved' = [isApproved EXCEPT ![d] = patching[d].isApproved]
  /\ total' = [total EXCEPT ![d] = patching[d].total]
  /\ isOnline' = [isOnline EXCEPT ![d] = online]
  /\ patching' = [patching EXCEPT ![d] = NoSnapshot]
  /\ UNCHANGED goingOnline

ProfileStep ==
  \E d \in Partners :
    \/ AvailabilityRead(d)
    \/ AvailabilityWrite(d)
    \/ GoOffline(d)
    \/ Approve(d)
    \/ Deactivate(d)
    \/ PatchRead(d)
    \/ \E online \in BOOLEAN : PatchWrite(d, online)

==============================================================================
