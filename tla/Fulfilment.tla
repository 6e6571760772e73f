------------------------------ MODULE Fulfilment -----------------------------
(***************************************************************************)
(* Orders on their way to the customer: an admin assigns a partner to a    *)
(* ready order, and the delivery row is then advanced next to the order.   *)
(*                                                                         *)
(* assign_partner and transition_delivery are transactions, but the status *)
(* they test is that of an order, or a delivery, their view read before:   *)
(* each is a read and, any time later, a commit.                           *)
(***************************************************************************)
EXTENDS Orders, PartnerProfiles, FiniteSets

CONSTANT NoPartner

ASSUME NoPartnerAssumption == NoPartner \notin Partners
ASSUME NoSnapshotAssumption == NoSnapshot \notin Snapshot
ASSUME OrdersFinite == IsFiniteSet(Orders)

VARIABLES
  partner,      \* Order.delivery_partner, and Delivery.partner
  delivery,     \* Delivery.status, NoDelivery while there is no row
  assigning,    \* assign requests in flight: <<order, partner>>
  advancing     \* delivery transition requests in flight: <<order, target, role>>

deliveryRows == <<partner, delivery>>
requests == <<cancelling, assigning, advancing>>
vars == <<productRows, orderRows, profileVars, deliveryRows, requests>>

DeliveryStatus == {"ASSIGNED", "ACCEPTED", "PICKED_UP", "OUT_FOR_DELIVERY",
                   "DELIVERED", "CANCELLED"}
NoDelivery == "NO_DELIVERY"

\* The edges of Delivery.status and the roles that may drive them.
DELIVERY_TRANSITIONS ==
  UNION {
    {"ASSIGNED"}  \X {"ACCEPTED"}  \X {"DELIVERY_PARTNER", "ADMIN"},
    {"ASSIGNED"}  \X {"CANCELLED"} \X {"ADMIN"},
    {"ACCEPTED"}  \X {"PICKED_UP"} \X {"DELIVERY_PARTNER", "ADMIN"},
    {"PICKED_UP"} \X {"OUT_FOR_DELIVERY"} \X {"DELIVERY_PARTNER", "ADMIN"},
    {"OUT_FOR_DELIVERY"} \X {"DELIVERED"} \X {"DELIVERY_PARTNER", "ADMIN"}}

\* Seeded fault, used by no specification: the table below without its first
\* entry.
MappedWithoutPickup == {"OUT_FOR_DELIVERY", "DELIVERED"}

\* DELIVERY_TO_ORDER_STATUS maps each of these to the order status of the same
\* name, and nothing else.
MAPPED_STATUSES == {"PICKED_UP", "OUT_FOR_DELIVERY", "DELIVERED"}

TypeOK ==
  /\ OrdersTypeOK
  /\ ProfileTypeOK
  /\ partner \in [Orders -> Partners \cup {NoPartner}]
  /\ delivery \in [Orders -> DeliveryStatus \cup {NoDelivery}]
  /\ assigning \subseteq Orders \X Partners
  /\ advancing \subseteq Orders \X DeliveryStatus \X Role

Init ==
  /\ OrdersInit /\ ProfileInit
  /\ partner = [o \in Orders |-> NoPartner]
  /\ delivery = [o \in Orders |-> NoDelivery]
  /\ assigning = {}
  /\ advancing = {}

-----------------------------------------------------------------------------
(***************************************************************************)
(* Seeded faults, as in Orders.                                            *)
(***************************************************************************)
\* AssignCommit without the look-up of an existing delivery.
AssignableAgain(o, d) == isApproved[d]

\* OrderFollows with transition_order's refusal swallowed.
OrderFollowsIfItCan(o, target, role) ==
  IF target \in MAPPED_STATUSES /\ CanTransition(status[o], target, role)
    THEN TransitionOrder(o, target, role)
    ELSE UNCHANGED <<productRows, orderRows>>

-----------------------------------------------------------------------------
\* AdminAssignDeliveryView reads the order ...
AssignRead(o, d) ==
  /\ status[o] = "READY_FOR_PICKUP"
  /\ assigning' = assigning \cup {<<o, d>>}
  /\ UNCHANGED <<productRows, orderRows, profileVars, deliveryRows, cancelling, advancing>>

\* What assign_partner looks up in its own transaction.
Assignable(o, d) == delivery[o] = NoDelivery /\ isApproved[d]

\* ... and assign_partner takes that order's status for the current one.  It
\* writes Order.status itself, past transition_order.  (Another request that has
\* read the same may still be there, here and in AdvanceCommit.)
AssignCommit(o, d) ==
  /\ <<o, d>> \in assigning
  /\ assigning' \in {assigning \ {<<o, d>>}, assigning}
  /\ \/ /\ Assignable(o, d)
        /\ delivery' = [delivery EXCEPT ![o] = "ASSIGNED"]
        /\ partner' = [partner EXCEPT ![o] = d]
        /\ status' = [status EXCEPT ![o] = "ASSIGNED"]
        /\ lastEvent' = [lastEvent EXCEPT ![o] = <<"READY_FOR_PICKUP", "ASSIGNED", "ADMIN">>]
        /\ UNCHANGED <<method, payment, lines>>
     \/ /\ ~Assignable(o, d)
        /\ UNCHANGED <<orderRows, deliveryRows>>
  /\ UNCHANGED <<productRows, profileVars, cancelling, advancing>>

\* DeliveryDetailView reads the delivery: the edge is looked up from there.
AdvanceRead(o, target, role) ==
  /\ <<delivery[o], target, role>> \in DELIVERY_TRANSITIONS
  /\ advancing' = advancing \cup {<<o, target, role>>}
  /\ UNCHANGED <<productRows, orderRows, profileVars, deliveryRows, cancelling, assigning>>

\* The partner's count goes up when his delivery is completed.
Credited(o, target) ==
  IF target = "DELIVERED" THEN [total EXCEPT ![partner[o]] = @ + 1] ELSE total

\* A mapped status takes the order along, or raises.
OrderFollows(o, target, role) ==
  IF target \in MAPPED_STATUSES
    THEN TransitionOrder(o, target, role)
    ELSE UNCHANGED <<productRows, orderRows>>

\* transition_delivery writes the delivery, the order and the count; if the
\* order cannot follow, everything is rolled back.
AdvanceCommit(o, target, role) ==
  /\ <<o, target, role>> \in advancing
  /\ advancing' \in {advancing \ {<<o, target, role>>}, advancing}
  /\ \/ /\ delivery' = [delivery EXCEPT ![o] = target]
        /\ OrderFollows(o, target, role)
        /\ total' = Credited(o, target)
     \/ /\ target \in MAPPED_STATUSES /\ ~CanTransition(status[o], target, role)
        /\ UNCHANGED <<productRows, orderRows, delivery, total>>
  /\ UNCHANGED <<partner, isApproved, isOnline, goingOnline, patching, cancelling, assigning>>

-----------------------------------------------------------------------------
\* The order endpoint, for the partner an order is assigned to as well.
PartnerTransition(o, target) ==
  /\ partner[o] # NoPartner
  /\ Transition(o, target, "DELIVERY_PARTNER")

OrdersOnly ==
  /\ OrdersNext \/ \E o \in Orders, target \in OrderStatus : PartnerTransition(o, target)
  /\ UNCHANGED <<profileVars, deliveryRows, assigning, advancing>>

ProfilesOnly ==
  /\ ProfileStep
  /\ UNCHANGED <<productRows, orderRows, deliveryRows, requests>>

DeliveryStep ==
  \E o \in Orders :
    \/ \E d \in Partners : AssignRead(o, d) \/ AssignCommit(o, d)
    \/ \E target \in DeliveryStatus, role \in {"DELIVERY_PARTNER", "ADMIN"} :
         AdvanceRead(o, target, role) \/ AdvanceCommit(o, target, role)

Next == OrdersOnly \/ ProfilesOnly \/ DeliveryStep

Spec == Init /\ [][Next]_vars

\* The same system when nobody cancels an order, or moves it past assignment,
\* while a request to assign it is in flight.
AssignmentsUndisturbed ==
  \A r \in assigning : delivery[r[1]] = NoDelivery =>
    status[r[1]] \in {"READY_FOR_PICKUP", "ASSIGNED"}

UndisturbedSpec == Init /\ [][Next /\ AssignmentsUndisturbed']_vars

-----------------------------------------------------------------------------
(***************************************************************************)
(* "The only allowed transitions": an order never changes status along     *)
(* anything but an edge of the table.                                      *)
(***************************************************************************)
OnlyTableEdges ==
  [][\A o \in Orders : status'[o] # status[o] =>
       \/ status[o] = NotPlaced
       \/ \E role \in Role : CanTransition(status[o], status'[o], role)]_vars

(***************************************************************************)
(* A delivery never runs ahead of its order, whatever is stale: nobody is  *)
(* told the parcel is picked up, on the road or handed over while the      *)
(* order has not got that far.                                             *)
(***************************************************************************)
DeliveryNeverAhead ==
  \A o \in Orders :
    /\ delivery[o] = "DELIVERED" => status[o] = "DELIVERED"
    /\ delivery[o] = "OUT_FOR_DELIVERY" => status[o] \in {"OUT_FOR_DELIVERY", "DELIVERED"}
    /\ delivery[o] = "PICKED_UP" => status[o] \in MAPPED_STATUSES

(***************************************************************************)
(* A partner is credited at most once for each order he delivered, however *)
(* often "delivered" is sent, and nothing for an order that was not.       *)
(***************************************************************************)
DeliveredBy(d) == {o \in Orders : partner[o] = d /\ status[o] = "DELIVERED"}

CreditedAtMostOnce == \A d \in Partners : total[d] <= Cardinality(DeliveredBy(d))

==============================================================================
