--------------------------- MODULE FulfilmentProofs --------------------------
(***************************************************************************)
(* Theorems about Fulfilment, for any finite set of orders, any products   *)
(* and partners, and any number of requests in flight, with their proofs.  *)
(* The order's own steps are those of Orders, whose lemmas are used here.  *)
(***************************************************************************)
EXTENDS Fulfilment, OrdersProofs, FiniteSetTheorems

-----------------------------------------------------------------------------
(***************************************************************************)
(* What a step does to orders: nothing, a step of the orders app, or the   *)
(* assignment's own write.  What it does to profiles: nothing, a step of   *)
(* theirs, or a credit.                                                    *)
(***************************************************************************)
LEMMA ProfileTypeStep ==
  ASSUME ProfileTypeOK, ProfileStep
  PROVE  ProfileTypeOK'
<1> USE DEF ProfileTypeOK, profileRows, Snapshot
<1>1. ASSUME NEW d \in Partners, AvailabilityRead(d)
      PROVE  ProfileTypeOK'
  BY <1>1 DEF AvailabilityRead
<1>2. ASSUME NEW d \in Partners, AvailabilityWrite(d)
      PROVE  ProfileTypeOK'
  BY <1>2 DEF AvailabilityWrite
<1>3. ASSUME NEW d \in Partners, GoOffline(d)
      PROVE  ProfileTypeOK'
  BY <1>3 DEF GoOffline
<1>4. ASSUME NEW d \in Partners, Approve(d)
      PROVE  ProfileTypeOK'
  BY <1>4 DEF Approve
<1>5. ASSUME NEW d \in Partners, Deactivate(d)
      PROVE  ProfileTypeOK'
  BY <1>5 DEF Deactivate
<1>6. ASSUME NEW d \in Partners, PatchRead(d)
      PROVE  ProfileTypeOK'
  BY <1>6 DEF PatchRead
<1>7. ASSUME NEW d \in Partners, NEW online \in BOOLEAN, PatchWrite(d, online)
      PROVE  ProfileTypeOK'
  <2>1. patching[d] \in Snapshot
    BY <1>7 DEF PatchWrite
  <2> QED
    BY <1>7, <2>1 DEF PatchWrite
<1> QED
  BY <1>1, <1>2, <1>3, <1>4, <1>5, <1>6, <1>7 DEF ProfileStep

LEMMA OrdersOnlyType ==
  ASSUME OrdersTypeOK, OrdersOnly
  PROVE  OrdersTypeOK'
<1>1. CASE OrdersNext
  BY <1>1, TypeStep
<1>2. ASSUME NEW o \in Orders, NEW target, PartnerTransition(o, target)
      PROVE  OrdersTypeOK'
  <2>1. cancelling' \subseteq Orders \X Role
    BY <1>2 DEF PartnerTransition, Transition, OrdersTypeOK
  <2> QED
    BY <1>2, <2>1, TransitionOrderType DEF PartnerTransition, Transition
<1> QED
  BY <1>1, <1>2 DEF OrdersOnly

\* What AssignCommit writes when it writes.
Assigned(o, d) ==
  /\ Assignable(o, d)
  /\ <<o, d>> \in assigning
  /\ delivery' = [delivery EXCEPT ![o] = "ASSIGNED"]
  /\ partner' = [partner EXCEPT ![o] = d]
  /\ status' = [status EXCEPT ![o] = "ASSIGNED"]
  /\ lastEvent' = [lastEvent EXCEPT ![o] = <<"READY_FOR_PICKUP", "ASSIGNED", "ADMIN">>]
  /\ UNCHANGED <<method, payment, lines, productRows, cancelling, profileVars>>

LEMMA AssignedType ==
  ASSUME OrdersTypeOK, NEW o \in Orders, NEW d \in Partners, Assigned(o, d)
  PROVE  OrdersTypeOK'
<1>1. /\ "ASSIGNED" \in OrderStatus
      /\ <<"READY_FOR_PICKUP", "ASSIGNED", "ADMIN">>
           \in (OrderStatus \cup {NotPlaced}) \X (OrderStatus \cup {NotPlaced}) \X Role
  BY DEF OrderStatus, Role
<1>2. /\ status' \in [Orders -> OrderStatus \cup {NotPlaced}]
      /\ lastEvent' \in [Orders -> (OrderStatus \cup {NotPlaced})
                                   \X (OrderStatus \cup {NotPlaced}) \X Role]
  BY <1>1 DEF Assigned, OrdersTypeOK
<1> QED
  BY <1>2 DEF Assigned, OrdersTypeOK, ProductTypeOK, productRows

\* What AdvanceCommit writes when it writes.
Advanced(o, target, role) ==
  /\ delivery' = [delivery EXCEPT ![o] = target]
  /\ OrderFollows(o, target, role)
  /\ total' = Credited(o, target)
  /\ UNCHANGED <<partner, isApproved, isOnline, goingOnline, patching, cancelling>>

LEMMA AdvancedType ==
  ASSUME TypeOK, NEW o \in Orders, NEW target \in DeliveryStatus, NEW role,
         Advanced(o, target, role)
  PROVE  OrdersTypeOK' /\ ProfileTypeOK'
<1>1. OrdersTypeOK'
  <2>1. OrdersTypeOK /\ cancelling' \subseteq Orders \X Role
    BY DEF TypeOK, Advanced, OrdersTypeOK
  <2>2. CASE TransitionOrder(o, target, role)
    BY <2>1, <2>2, TransitionOrderType
  <2>3. CASE UNCHANGED <<productRows, orderRows>>
    BY <2>1, <2>3 DEF OrdersTypeOK, ProductTypeOK, productRows, orderRows
  <2> QED
    BY <2>2, <2>3 DEF Advanced, OrderFollows
<1>2. Credited(o, target) \in [Partners -> Nat]
  <2>1. total \in [Partners -> Nat]
    BY DEF TypeOK, ProfileTypeOK
  <2>2. CASE partner[o] \in Partners /\ target = "DELIVERED"
    <3>1. total[partner[o]] + 1 \in Nat
      BY <2>1, <2>2
    <3>2. Credited(o, target) = [total EXCEPT ![partner[o]] = total[partner[o]] + 1]
      BY <2>2 DEF Credited
    <3> QED
      BY <2>1, <3>1, <3>2
  <2>3. CASE partner[o] \notin Partners /\ target = "DELIVERED"
    <3>1. Credited(o, target) = [total EXCEPT ![partner[o]] = total[partner[o]] + 1]
      BY <2>3 DEF Credited
    <3> QED
      BY <2>1, <2>3, <3>1
  <2>4. CASE target # "DELIVERED"
    BY <2>1, <2>4 DEF Credited
  <2> QED
    BY <2>2, <2>3, <2>4
<1>3. ProfileTypeOK'
  BY <1>2 DEF Advanced, TypeOK, ProfileTypeOK
<1> QED
  BY <1>1, <1>3

\* The commits write all of that or, of the rows, nothing.
LEMMA CommitCases ==
  ASSUME NEW o \in Orders
  PROVE  /\ \A d \in Partners : AssignCommit(o, d) =>
              /\ Assigned(o, d) \/ UNCHANGED <<productRows, orderRows, deliveryRows>>
              /\ assigning' \subseteq assigning
              /\ UNCHANGED <<profileVars, cancelling, advancing>>
         /\ \A target, role : AdvanceCommit(o, target, role) =>
              /\ \/ Advanced(o, target, role)
                 \/ UNCHANGED <<productRows, orderRows, deliveryRows, profileVars>>
              /\ advancing' \subseteq advancing
              /\ UNCHANGED <<cancelling, assigning, partner>>
BY DEF AssignCommit, AdvanceCommit, Assigned, Advanced, orderRows, deliveryRows,
       profileVars, profileRows

LEMMA FulfilmentTypeStep == TypeOK /\ [Next]_vars => TypeOK'
<1> SUFFICES ASSUME TypeOK, [Next]_vars
             PROVE  TypeOK'
  OBVIOUS
<1>1. /\ partner \in [Orders -> Partners \cup {NoPartner}]
      /\ delivery \in [Orders -> DeliveryStatus \cup {NoDelivery}]
      /\ OrdersTypeOK /\ ProfileTypeOK
  BY DEF TypeOK
<1>2. UNCHANGED <<productRows, orderRows>> /\ UNCHANGED cancelling => OrdersTypeOK'
  BY <1>1 DEF OrdersTypeOK, ProductTypeOK, productRows, orderRows
<1>3. UNCHANGED profileVars => ProfileTypeOK'
  BY <1>1 DEF ProfileTypeOK, profileVars, profileRows
<1>4. CASE OrdersOnly
  <2>1. OrdersTypeOK'
    BY <1>1, <1>4, OrdersOnlyType
  <2> QED
    BY <1>3, <1>4, <2>1 DEF OrdersOnly, TypeOK, deliveryRows
<1>5. CASE ProfilesOnly
  <2>1. ProfileTypeOK'
    BY <1>1, <1>5, ProfileTypeStep DEF ProfilesOnly
  <2> QED
    BY <1>2, <1>5, <2>1 DEF ProfilesOnly, TypeOK, deliveryRows, requests
<1>6. ASSUME NEW o \in Orders, NEW d \in Partners, AssignRead(o, d)
      PROVE  TypeOK'
  BY <1>2, <1>3, <1>6 DEF AssignRead, TypeOK, deliveryRows
<1>7. ASSUME NEW o \in Orders, NEW d \in Partners, AssignCommit(o, d)
      PROVE  TypeOK'
  <2>1. /\ assigning' \subseteq Orders \X Partners
        /\ advancing' \subseteq Orders \X DeliveryStatus \X Role
        /\ ProfileTypeOK'
    BY <1>3, <1>7, CommitCases DEF TypeOK
  <2>2. CASE Assigned(o, d)
    <3>1. /\ partner' \in [Orders -> Partners \cup {NoPartner}]
          /\ delivery' \in [Orders -> DeliveryStatus \cup {NoDelivery}]
      BY <1>1, <2>2 DEF Assigned, DeliveryStatus
    <3> QED
      BY <1>1, <2>1, <2>2, <3>1, AssignedType DEF TypeOK
  <2>3. CASE UNCHANGED <<productRows, orderRows, deliveryRows>>
    BY <1>1, <1>2, <1>7, <2>1, <2>3, CommitCases DEF TypeOK, deliveryRows
  <2> QED
    BY <1>7, <2>2, <2>3, CommitCases
<1>8. ASSUME NEW o \in Orders, NEW target \in DeliveryStatus,
             NEW role \in {"DELIVERY_PARTNER", "ADMIN"}, AdvanceRead(o, target, role)
      PROVE  TypeOK'
  BY <1>2, <1>3, <1>8 DEF AdvanceRead, TypeOK, deliveryRows, Role
<1>9. ASSUME NEW o \in Orders, NEW target \in DeliveryStatus,
             NEW role \in {"DELIVERY_PARTNER", "ADMIN"}, AdvanceCommit(o, target, role)
      PROVE  TypeOK'
  <2>1. /\ assigning' \subseteq Orders \X Partners
        /\ advancing' \subseteq Orders \X DeliveryStatus \X Role
        /\ partner' \in [Orders -> Partners \cup {NoPartner}]
    BY <1>1, <1>9, CommitCases DEF TypeOK
  <2>2. CASE Advanced(o, target, role)
    <3>1. delivery' \in [Orders -> DeliveryStatus \cup {NoDelivery}]
      BY <1>1, <2>2 DEF Advanced
    <3> QED
      BY <2>1, <2>2, <3>1, AdvancedType DEF TypeOK
  <2>3. CASE UNCHANGED <<productRows, orderRows, deliveryRows, profileVars>>
    BY <1>1, <1>2, <1>3, <1>9, <2>1, <2>3, CommitCases DEF TypeOK, deliveryRows
  <2> QED
    BY <1>9, <2>2, <2>3, CommitCases
<1>10. CASE UNCHANGED vars
  BY <1>2, <1>3, <1>10 DEF vars, requests, TypeOK, deliveryRows
<1> QED
  BY <1>4, <1>5, <1>6, <1>7, <1>8, <1>9, <1>10 DEF Next, DeliveryStep

LEMMA InitTyped == Init => TypeOK
  BY MaxStockAssumption
  DEF Init, OrdersInit, ProductInit, OrderRowsInit, ProfileInit, TypeOK, OrdersTypeOK,
      ProductTypeOK, ProfileTypeOK, NoLines, NoEvent, OrderStatus, PaymentStatus,
      PaymentMethod, Role

(***************************************************************************)
(* Every reachable state of the delivery of orders is well typed: no       *)
(* delivery, partner or order ever has a status that does not exist.       *)
(***************************************************************************)
THEOREM FulfilmentTypeCorrect == Spec => []TypeOK
  BY InitTyped, FulfilmentTypeStep, PTL DEF Spec

-----------------------------------------------------------------------------
(***************************************************************************)
(* What one step can do to the status of one order, to its delivery and to *)
(* its partner.                                                            *)
(***************************************************************************)
\* Once picked up, an order only goes on; once delivered, nowhere.
LEMMA RoadFacts ==
  ASSUME NEW from, NEW to, NEW role, CanTransition(from, to, role)
  PROVE  /\ from \in MAPPED_STATUSES => to \in MAPPED_STATUSES
         /\ from = "OUT_FOR_DELIVERY" => to = "DELIVERED"
         /\ from # "DELIVERED"
  BY DEF CanTransition, TRANSITIONS, MAPPED_STATUSES

Moved(x) ==
  \/ status'[x] = status[x]
  \/ status[x] = NotPlaced /\ status'[x] = "PLACED"
  \/ \E role : CanTransition(status[x], status'[x], role)
  \/ /\ delivery[x] = NoDelivery /\ status'[x] = "ASSIGNED"
     /\ \E d \in Partners : <<x, d>> \in assigning

LEMMA StatusChange ==
  ASSUME TypeOK, [Next]_vars, NEW x \in Orders
  PROVE  Moved(x)
<1> USE DEF Moved
<1>1. status \in [Orders -> OrderStatus \cup {NotPlaced}]
  BY DEF TypeOK, OrdersTypeOK
<1>2. ASSUME NEW o \in Orders, NEW target, NEW role, TransitionOrder(o, target, role)
      PROVE  Moved(x)
  BY <1>1, <1>2 DEF TransitionOrder, WriteTransition
<1>3. ASSUME NEW o \in Orders, NEW f, NEW m, PlaceOrder(o, f, m)
      PROVE  Moved(x)
  BY <1>1, <1>3 DEF PlaceOrder
<1>4. CASE UNCHANGED orderRows
  BY <1>4 DEF orderRows
<1>5. CASE OrdersNext
  BY <1>2, <1>3, <1>4, <1>5
  DEF OrdersNext, ProductStep, OrderStep, OrderLifeStep, Transition, CancelRead,
      CancelCommit
<1>6. CASE OrdersOnly
  BY <1>2, <1>5, <1>6 DEF OrdersOnly, PartnerTransition, Transition
<1>7. ASSUME NEW o \in Orders, NEW d \in Partners, AssignCommit(o, d)
      PROVE  Moved(x)
  <2>1. CASE Assigned(o, d)
    BY <1>1, <2>1 DEF Assigned, Assignable
  <2> QED
    BY <1>4, <1>7, <2>1, CommitCases
<1>8. ASSUME NEW o \in Orders, NEW target, NEW role, AdvanceCommit(o, target, role)
      PROVE  Moved(x)
  <2>1. CASE Advanced(o, target, role)
    BY <1>2, <1>4, <2>1 DEF Advanced, OrderFollows
  <2> QED
    BY <1>4, <1>8, <2>1, CommitCases
<1>9. CASE DeliveryStep
  BY <1>4, <1>7, <1>8, <1>9 DEF DeliveryStep, AssignRead, AdvanceRead
<1>10. CASE ProfilesOnly \/ UNCHANGED vars
  BY <1>4, <1>10 DEF ProfilesOnly, vars
<1> QED
  BY <1>6, <1>9, <1>10 DEF Next

\* A delivery is created, or left alone, or advanced with its order.
Carried(x) ==
  \/ delivery'[x] = delivery[x] /\ partner'[x] = partner[x]
  \/ delivery[x] = NoDelivery /\ delivery'[x] = "ASSIGNED"
  \/ /\ delivery'[x] \in DeliveryStatus
     /\ delivery'[x] \in MAPPED_STATUSES => status'[x] = delivery'[x]
     /\ partner'[x] = partner[x]

LEMMA DeliveryChange ==
  ASSUME TypeOK, [Next]_vars, NEW x \in Orders
  PROVE  Carried(x)
<1> USE DEF Carried
<1>1. /\ status \in [Orders -> OrderStatus \cup {NotPlaced}]
      /\ delivery \in [Orders -> DeliveryStatus \cup {NoDelivery}]
      /\ partner \in [Orders -> Partners \cup {NoPartner}]
  BY DEF TypeOK, OrdersTypeOK
<1>2. CASE UNCHANGED deliveryRows
  BY <1>2 DEF deliveryRows
<1>3. ASSUME NEW o \in Orders, NEW d \in Partners, AssignCommit(o, d)
      PROVE  Carried(x)
  <2>1. CASE Assigned(o, d)
    BY <1>1, <2>1 DEF Assigned, Assignable
  <2> QED
    BY <1>2, <1>3, <2>1, CommitCases
<1>4. ASSUME NEW o \in Orders, NEW target \in DeliveryStatus, NEW role,
             AdvanceCommit(o, target, role)
      PROVE  Carried(x)
  <2>1. CASE Advanced(o, target, role)
    <3>1. target \in MAPPED_STATUSES => status'[o] = target
      BY <1>1, <2>1 DEF Advanced, OrderFollows, TransitionOrder, WriteTransition
    <3> QED
      BY <1>1, <2>1, <3>1 DEF Advanced
  <2> QED
    BY <1>2, <1>4, <2>1, CommitCases
<1>5. CASE DeliveryStep
  BY <1>2, <1>3, <1>4, <1>5 DEF DeliveryStep, AssignRead, AdvanceRead
<1> QED
  BY <1>2, <1>5 DEF Next, OrdersOnly, ProfilesOnly, vars

(***************************************************************************)
(* A delivery never runs ahead of its order: an order past pickup only     *)
(* goes on, and the delivery reaches pickup and beyond only in the         *)
(* transaction that takes the order there.                                 *)
(***************************************************************************)
LEMMA NeverAheadStep ==
  TypeOK /\ DeliveryNeverAhead /\ [Next]_vars => DeliveryNeverAhead'
<1> SUFFICES ASSUME TypeOK, DeliveryNeverAhead, [Next]_vars, NEW x \in Orders
             PROVE  /\ delivery'[x] = "DELIVERED" => status'[x] = "DELIVERED"
                    /\ delivery'[x] = "OUT_FOR_DELIVERY" =>
                         status'[x] \in {"OUT_FOR_DELIVERY", "DELIVERED"}
                    /\ delivery'[x] = "PICKED_UP" => status'[x] \in MAPPED_STATUSES
  BY DEF DeliveryNeverAhead
<1>1. CASE delivery'[x] = delivery[x]
  BY <1>1, StatusChange, RoadFacts
  DEF Moved, DeliveryNeverAhead, NoDelivery, NotPlaced, MAPPED_STATUSES
<1>2. CASE delivery'[x] # delivery[x]
  BY <1>2, DeliveryChange DEF Carried, MAPPED_STATUSES
<1> QED
  BY <1>1, <1>2

THEOREM DeliveryBehindOrder == Spec => []DeliveryNeverAhead
<1>1. Init => DeliveryNeverAhead
  BY DEF Init, DeliveryNeverAhead, NoDelivery
<1> QED
  BY <1>1, NeverAheadStep, FulfilmentTypeCorrect, PTL DEF Spec

-----------------------------------------------------------------------------
(***************************************************************************)
(* The strengthening CreditedAtMostOnce needs: an order without a delivery *)
(* has no partner, and a PATCH in flight has not read more deliveries than *)
(* its partner has made.                                                   *)
(***************************************************************************)
PartnerMeansDelivery ==
  \A o \in Orders : delivery[o] = NoDelivery => partner[o] = NoPartner

SnapshotsEarned ==
  \A d \in Partners :
    patching[d] # NoSnapshot => patching[d].total <= Cardinality(DeliveredBy(d))

CreditInv == TypeOK /\ PartnerMeansDelivery /\ SnapshotsEarned /\ CreditedAtMostOnce

\* An order once delivered stays delivered, by the same partner.
LEMMA DeliveredGrows ==
  ASSUME TypeOK, PartnerMeansDelivery, [Next]_vars, NEW d \in Partners
  PROVE  /\ DeliveredBy(d) \subseteq DeliveredBy(d)'
         /\ IsFiniteSet(DeliveredBy(d)) /\ Cardinality(DeliveredBy(d)) \in Nat
         /\ IsFiniteSet(DeliveredBy(d)') /\ Cardinality(DeliveredBy(d)') \in Nat
         /\ Cardinality(DeliveredBy(d)) <= Cardinality(DeliveredBy(d)')
<1>1. ASSUME NEW x \in Orders, partner[x] = d, status[x] = "DELIVERED"
      PROVE  partner'[x] = d /\ status'[x] = "DELIVERED"
  <2>1. delivery[x] # NoDelivery
    BY <1>1, NoPartnerAssumption DEF PartnerMeansDelivery
  <2>2. partner'[x] = d
    BY <1>1, <2>1, DeliveryChange DEF Carried
  <2>3. status'[x] = "DELIVERED"
    BY <1>1, <2>1, StatusChange, RoadFacts DEF Moved, NotPlaced
  <2> QED
    BY <2>2, <2>3
<1>2. DeliveredBy(d) \subseteq DeliveredBy(d)'
  BY <1>1 DEF DeliveredBy
<1>3. IsFiniteSet(DeliveredBy(d)) /\ IsFiniteSet(DeliveredBy(d)')
  BY OrdersFinite, FS_Subset DEF DeliveredBy
<1>4. Cardinality(DeliveredBy(d)) <= Cardinality(DeliveredBy(d)')
  BY <1>2, <1>3, FS_Subset
<1> QED
  BY <1>2, <1>3, <1>4, FS_CardinalityType

\* What a step can do to a partner's count, and to a PATCH of it in flight.
Counted(d) ==
  \/ total'[d] = total[d]
  \/ patching[d] # NoSnapshot /\ total'[d] = patching[d].total
  \/ \E o \in Orders : /\ total'[d] = total[d] + 1
                       /\ partner[o] = d /\ partner'[o] = d
                       /\ status[o] # "DELIVERED" /\ status'[o] = "DELIVERED"

LEMMA TotalChange ==
  ASSUME TypeOK, [Next]_vars, NEW d \in Partners
  PROVE  Counted(d)
<1> USE DEF Counted
<1>1. /\ status \in [Orders -> OrderStatus \cup {NotPlaced}]
      /\ total \in [Partners -> Nat]
  BY DEF TypeOK, OrdersTypeOK, ProfileTypeOK
<1>2. CASE UNCHANGED total
  BY <1>2
<1>3. CASE ProfilesOnly
  BY <1>1, <1>3
  DEF ProfilesOnly, ProfileStep, AvailabilityRead, AvailabilityWrite, GoOffline, Approve,
      Deactivate, PatchRead, PatchWrite, profileRows
<1>4. ASSUME NEW o \in Orders, NEW target, NEW role, AdvanceCommit(o, target, role)
      PROVE  Counted(d)
  <2>1. CASE Advanced(o, target, role)
    <3>1. CASE target = "DELIVERED" /\ partner[o] = d
      <4>1. status[o] # "DELIVERED" /\ status'[o] = "DELIVERED" /\ partner'[o] = d
        BY <1>1, <1>4, <2>1, <3>1, RoadFacts, CommitCases
        DEF Advanced, OrderFollows, MAPPED_STATUSES, TransitionOrder, WriteTransition
      <4>2. total'[d] = total[d] + 1
        BY <1>1, <2>1, <3>1 DEF Advanced, Credited
      <4> QED
        BY <3>1, <4>1, <4>2
    <3>2. CASE ~(target = "DELIVERED" /\ partner[o] = d)
      BY <1>1, <2>1, <3>2 DEF Advanced, Credited
    <3> QED
      BY <3>1, <3>2
  <2> QED
    BY <1>2, <1>4, <2>1, CommitCases DEF profileVars, profileRows
<1> QED
  BY <1>2, <1>3, <1>4, CommitCases
  DEF Next, OrdersOnly, DeliveryStep, AssignRead, AdvanceRead, vars, profileVars,
      profileRows

LEMMA SnapshotChange ==
  ASSUME TypeOK, [Next]_vars, NEW d \in Partners
  PROVE  \/ patching'[d] \in {NoSnapshot, patching[d]}
         \/ patching'[d].total = total[d]
<1>1. patching \in [Partners -> Snapshot \cup {NoSnapshot}]
  BY DEF TypeOK, ProfileTypeOK
<1>2. CASE UNCHANGED patching
  BY <1>2
<1>3. CASE ProfilesOnly
  BY <1>1, <1>3
  DEF ProfilesOnly, ProfileStep, AvailabilityRead, AvailabilityWrite, GoOffline, Approve,
      Deactivate, PatchRead, PatchWrite, profileRows
<1> QED
  BY <1>2, <1>3
  DEF Next, OrdersOnly, DeliveryStep, AssignRead, AssignCommit, AdvanceRead,
      AdvanceCommit, vars, profileVars

LEMMA CreditStep == CreditInv /\ [Next]_vars => CreditInv'
<1> SUFFICES ASSUME CreditInv, [Next]_vars
             PROVE  CreditInv'
  OBVIOUS
<1> USE DEF CreditInv
<1>1. TypeOK'
  BY FulfilmentTypeStep
<1>2. PartnerMeansDelivery'
  <2> SUFFICES ASSUME NEW x \in Orders, delivery'[x] = NoDelivery
               PROVE  partner'[x] = NoPartner
    BY DEF PartnerMeansDelivery
  <2>1. Carried(x)
    BY DeliveryChange
  <2> QED
    BY <2>1 DEF Carried, PartnerMeansDelivery, DeliveryStatus, NoDelivery
<1>3. ASSUME NEW d \in Partners
      PROVE  /\ total'[d] <= Cardinality(DeliveredBy(d)')
             /\ patching'[d] # NoSnapshot =>
                  patching'[d].total <= Cardinality(DeliveredBy(d)')
  <2> DEFINE before == Cardinality(DeliveredBy(d))
             after == Cardinality(DeliveredBy(d)')
  <2>1. before \in Nat /\ after \in Nat /\ before <= after
    BY DeliveredGrows
  <2>2. total[d] \in Nat /\ total[d] <= before
    BY DEF TypeOK, ProfileTypeOK, CreditedAtMostOnce
  <2>3. patching[d] # NoSnapshot => patching[d].total \in Nat /\ patching[d].total <= before
    BY DEF TypeOK, ProfileTypeOK, Snapshot, SnapshotsEarned
  <2>4. ASSUME NEW o \in Orders, partner[o] = d, partner'[o] = d,
               status[o] # "DELIVERED", status'[o] = "DELIVERED"
        PROVE  before + 1 <= after
    <3>1. /\ o \notin DeliveredBy(d)
          /\ DeliveredBy(d) \cup {o} \subseteq DeliveredBy(d)'
      BY <2>4, DeliveredGrows DEF DeliveredBy
    <3>2. Cardinality(DeliveredBy(d) \cup {o}) = before + 1
      BY <3>1, FS_AddElement, DeliveredGrows
    <3>3. Cardinality(DeliveredBy(d) \cup {o}) <= after
      BY <3>1, FS_Subset, DeliveredGrows
    <3> QED
      BY <3>2, <3>3
  <2> HIDE DEF before, after
  <2>5. total'[d] <= after
    <3>1. CASE total'[d] = total[d]
      BY <2>1, <2>2, <3>1
    <3>2. CASE patching[d] # NoSnapshot /\ total'[d] = patching[d].total
      BY <2>1, <2>3, <3>2
    <3>3. ASSUME NEW o \in Orders, total'[d] = total[d] + 1, partner[o] = d,
                 partner'[o] = d, status[o] # "DELIVERED", status'[o] = "DELIVERED"
          PROVE  total'[d] <= after
      BY <2>1, <2>2, <2>4, <3>3
    <3> QED
      BY <3>1, <3>2, <3>3, TotalChange DEF Counted
  <2>6. patching'[d] # NoSnapshot => patching'[d].total <= after
    <3>1. CASE patching'[d] = patching[d]
      BY <2>1, <2>3, <3>1
    <3>2. CASE patching'[d].total = total[d]
      BY <2>1, <2>2, <3>2
    <3> QED
      BY <3>1, <3>2, SnapshotChange
  <2> QED
    BY <2>5, <2>6 DEF after
<1> QED
  BY <1>1, <1>2, <1>3 DEF SnapshotsEarned, CreditedAtMostOnce

(***************************************************************************)
(* No partner is credited more deliveries than he made, even though two    *)
(* "delivered" requests may be in flight for one order and a PATCH of his  *)
(* profile writes back a count it read long before.                        *)
(***************************************************************************)
THEOREM CreditsEarned == Spec => []CreditedAtMostOnce
<1>1. Init => CreditInv
  <2> SUFFICES ASSUME Init
               PROVE  CreditInv
    OBVIOUS
  <2>1. TypeOK
    BY InitTyped
  <2>2. PartnerMeansDelivery /\ SnapshotsEarned
    BY DEF Init, ProfileInit, PartnerMeansDelivery, SnapshotsEarned
  <2>3. ASSUME NEW d \in Partners
        PROVE  total[d] <= Cardinality(DeliveredBy(d))
    <3>1. DeliveredBy(d) = {}
      BY NoPartnerAssumption DEF Init, DeliveredBy
    <3> QED
      BY <2>1, <3>1, FS_EmptySet DEF Init, ProfileInit
  <2> QED
    BY <2>1, <2>2, <2>3 DEF CreditInv, CreditedAtMostOnce
<1> QED
  BY <1>1, CreditStep, PTL DEF Spec, CreditInv

-----------------------------------------------------------------------------
(***************************************************************************)
(* When no assignment is disturbed, its own write of Order.status, past    *)
(* the state machine, is one the state machine would have made.            *)
(***************************************************************************)
\* The strengthening: what the orders app keeps, kept by the deliveries too.
UndisturbedInv == TypeOK /\ TrailInv /\ AssignmentsUndisturbed

UndisturbedNext == Next /\ AssignmentsUndisturbed'

LEMMA AssignedFromReady ==
  ASSUME AssignmentsUndisturbed, NEW o \in Orders, NEW d \in Partners, Assigned(o, d)
  PROVE  status[o] \in {"READY_FOR_PICKUP", "ASSIGNED"}
  BY DEF AssignmentsUndisturbed, Assigned, Assignable

LEMMA AssignedInv ==
  ASSUME UndisturbedInv, OrdersTypeOK', NEW o \in Orders, NEW d \in Partners,
         Assigned(o, d)
  PROVE  TrailInv'
<1>2. /\ status' = [status EXCEPT ![o] = "ASSIGNED"]
      /\ lastEvent' = [lastEvent EXCEPT ![o] = <<"READY_FOR_PICKUP", "ASSIGNED", "ADMIN">>]
      /\ UNCHANGED <<method, payment, lines>>
  BY DEF Assigned
<1>3. TrailInv
  BY DEF UndisturbedInv
<1>4. TrailEndsAtStatus'
  BY <1>2, <1>3 DEF TrailInv, OrdersTypeOK, TrailEndsAtStatus
<1>5. UnplacedHasNoLines'
  BY <1>2, <1>3 DEF TrailInv, OrdersTypeOK, UnplacedHasNoLines, NotPlaced, NoLines
<1> QED
  BY <1>3, <1>4, <1>5 DEF TrailInv

\* A step is the orders app's own, or transition_order from somewhere else, or
\* an assignment, or leaves orders and products alone.
LEMMA StepKinds ==
  ASSUME TypeOK, [Next]_vars
  PROVE  \/ OrdersNext
         \/ \E o \in Orders : \E target, role : TransitionOrder(o, target, role)
         \/ \E o \in Orders, d \in Partners : Assigned(o, d)
         \/ UNCHANGED <<productRows, orderRows>>
<1>1. CASE OrdersOnly
  BY <1>1 DEF OrdersOnly, PartnerTransition, Transition
<1>2. ASSUME NEW o \in Orders, NEW d \in Partners, AssignCommit(o, d)
      PROVE  Assigned(o, d) \/ UNCHANGED <<productRows, orderRows>>
  BY <1>2, CommitCases
<1>3. ASSUME NEW o \in Orders, NEW target, NEW role, AdvanceCommit(o, target, role)
      PROVE  \/ TransitionOrder(o, target, role)
             \/ UNCHANGED <<productRows, orderRows>>
  BY <1>3, CommitCases DEF Advanced, OrderFollows
<1>4. CASE DeliveryStep
  BY <1>2, <1>3, <1>4 DEF DeliveryStep, AssignRead, AdvanceRead
<1> QED
  BY <1>1, <1>4 DEF Next, ProfilesOnly, vars

LEMMA UndisturbedStep ==
  UndisturbedInv /\ [UndisturbedNext]_vars => UndisturbedInv'
<1> SUFFICES ASSUME UndisturbedInv, [UndisturbedNext]_vars
             PROVE  UndisturbedInv'
  OBVIOUS
<1>1. [Next]_vars /\ TypeOK /\ TrailInv
  BY DEF UndisturbedNext, UndisturbedInv
<1>2. TypeOK' /\ OrdersTypeOK'
  BY <1>1, FulfilmentTypeStep DEF TypeOK
<1>3. AssignmentsUndisturbed'
  BY DEF UndisturbedNext, UndisturbedInv, AssignmentsUndisturbed, vars, requests,
         deliveryRows, orderRows
<1>4. TrailInv'
  <2>1. CASE OrdersNext
    BY <1>1, <2>1, TrailStep
  <2>2. CASE \E o \in Orders : \E target, role : TransitionOrder(o, target, role)
    BY <1>1, <1>2, <2>2, TransitionOrderTrail
  <2>3. CASE \E o \in Orders, d \in Partners : Assigned(o, d)
    BY <1>2, <2>3, AssignedInv
  <2>4. CASE UNCHANGED <<productRows, orderRows>>
    BY <1>1, <1>2, <2>4, SameTrail DEF orderRows
  <2> QED
    BY <1>1, <2>1, <2>2, <2>3, <2>4, StepKinds
<1> QED
  BY <1>2, <1>3, <1>4 DEF UndisturbedInv

LEMMA UndisturbedInvariant == UndisturbedSpec => []UndisturbedInv
<1>1. Init => UndisturbedInv
  BY InitTyped
  DEF Init, UndisturbedInv, AssignmentsUndisturbed, OrdersInit, OrderRowsInit, TrailInv,
      TypeOK, TrailEndsAtStatus, UnplacedHasNoLines, NoEvent, NoLines
<1> QED
  BY <1>1, UndisturbedStep, PTL DEF UndisturbedSpec, UndisturbedNext

(***************************************************************************)
(* "The only allowed transitions": with assignments undisturbed, an order  *)
(* changes status along edges of the table only.                           *)
(***************************************************************************)
THEOREM UndisturbedEdges == UndisturbedSpec => OnlyTableEdges
<1>1. ASSUME UndisturbedInv, [Next]_vars, NEW x \in Orders, status'[x] # status[x]
      PROVE  \/ status[x] = NotPlaced
             \/ \E role \in Role : CanTransition(status[x], status'[x], role)
  <2>1. Moved(x)
    BY <1>1, StatusChange DEF UndisturbedInv
  <2>2. CASE \E role : CanTransition(status[x], status'[x], role)
    BY <2>2, EdgeFacts
  <2>3. ASSUME NEW d \in Partners, delivery[x] = NoDelivery, status'[x] = "ASSIGNED",
               <<x, d>> \in assigning
        PROVE  CanTransition(status[x], status'[x], "ADMIN")
    <3>1. status[x] = "READY_FOR_PICKUP"
      BY <1>1, <2>3 DEF UndisturbedInv, AssignmentsUndisturbed
    <3> QED
      BY <2>3, <3>1 DEF CanTransition, TRANSITIONS
  <2> QED
    BY <1>1, <2>1, <2>2, <2>3 DEF Moved, Role
<1> DEFINE Along == \A o \in Orders : status'[o] # status[o] =>
                      \/ status[o] = NotPlaced
                      \/ \E role \in Role : CanTransition(status[o], status'[o], role)
<1>2. UndisturbedInv /\ [UndisturbedNext]_vars => [Along]_vars
  BY <1>1 DEF UndisturbedNext
<1> QED
  BY <1>2, UndisturbedInvariant, PTL DEF UndisturbedSpec, UndisturbedNext, OnlyTableEdges

(***************************************************************************)
(* With assignments undisturbed, orders and deliveries together keep the   *)
(* inventory's promise: an assignment takes and returns no units.          *)
(***************************************************************************)
THEOREM UndisturbedInventory == UndisturbedSpec => InventoryKept
<1>1. Init => Shelf!Init
  BY OrdersInitMaps DEF Init
<1>2. UndisturbedInv /\ [UndisturbedNext]_vars => [Shelf!Next]_(Shelf!vars)
  <2> SUFFICES ASSUME UndisturbedInv, [UndisturbedNext]_vars
               PROVE  [Shelf!Next]_(Shelf!vars)
    OBVIOUS
  <2>1. TypeOK /\ TrailInv /\ [Next]_vars
    BY DEF UndisturbedInv, UndisturbedNext
  <2>2. CASE OrdersNext
    BY <2>1, <2>2, OrdersStepMaps
  <2>3. CASE \E o \in Orders : \E target, role : TransitionOrder(o, target, role)
    BY <2>1, <2>3, TransitionOrderGivesBackOrWrites DEF Shelf!Next
  <2>4. ASSUME NEW o \in Orders, NEW d \in Partners, Assigned(o, d)
        PROVE  Shelf!Write
    <3>1. status[o] \in {"READY_FOR_PICKUP", "ASSIGNED"}
      BY <2>4, AssignedFromReady DEF UndisturbedInv
    <3>2. /\ status' = [status EXCEPT ![o] = "ASSIGNED"]
          /\ UNCHANGED <<lines, live, stock>>
      BY <2>4 DEF Assigned, productRows
    <3>3. Held' = Held
      BY <2>1, <3>1, <3>2 DEF Held, TrailInv, OrdersTypeOK
    <3> QED
      BY <3>2, <3>3 DEF Shelf!Write
  <2>5. CASE UNCHANGED <<productRows, orderRows>>
    BY <2>5 DEF productRows, orderRows, Shelf!vars, Held
  <2> QED
    BY <2>1, <2>2, <2>3, <2>4, <2>5, StepKinds DEF Shelf!Next
<1> QED
  BY <1>1, <1>2, UndisturbedInvariant, PTL
  DEF UndisturbedSpec, UndisturbedNext, InventoryKept, Shelf!Spec

==============================================================================
