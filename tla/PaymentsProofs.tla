--------------------------- MODULE PaymentsProofs ----------------------------
(***************************************************************************)
(* Theorems about Payments, for every set of orders and products and every *)
(* bound, with their proofs.  The order's own steps are those of Orders,   *)
(* whose lemmas are used here.                                             *)
(***************************************************************************)
EXTENDS Payments, OrdersProofs

\* Nothing has been tried on, or paid for, an order that is not placed yet.
UnplacedUntried ==
  \A o \in Orders : status[o] = NotPlaced =>
    attempts[o] = <<>> /\ o \notin initiating /\ payment[o] # "PAID"

PaymentsInv ==
  /\ PaymentsTypeOK
  /\ UnplacedUntried
  /\ PaidWhenDue
  /\ SuccessIsCaptured
  /\ OneOpenAttempt

\* The rows, with row as number k: the last one, or one more.
Put(rows, k, row) == [i \in 1..k |-> IF i = k THEN row ELSE rows[i]]

-----------------------------------------------------------------------------
(***************************************************************************)
(* The row initiate_payment writes, and where: after the last row when no  *)
(* row is pending, and over the last one when it is the pending one.       *)
(***************************************************************************)
LEMMA InitiateWrites ==
  ASSUME PaymentsTypeOK, OneOpenAttempt, NEW o \in Orders, InitiateCommit(o)
  PROVE  \E row \in PaymentRow, k \in Nat \ {0} :
           /\ row.status = "PENDING"
           /\ attempts' = [attempts EXCEPT ![o] = Put(attempts[o], k, row)]
           /\ \/ k = Len(attempts[o]) + 1 /\ PendingRows(o) = {}
              \/ k = Len(attempts[o]) /\ PendingRows(o) = {k}
<1> DEFINE row == [gatewayOrder |-> IF method[o] = "ONLINE" THEN issued[o] + 1
                                                           ELSE CodMarker,
                   status |-> "PENDING"]
           newest == CHOOSE i \in PendingRows(o) : \A j \in PendingRows(o) : j <= i
           n == Len(attempts[o])
<1>1. row \in PaymentRow /\ row.status = "PENDING"
  BY DEF PaymentsTypeOK, PaymentRow, GatewayOrder, CodMarker
<1>2. attempts[o] \in Seq(PaymentRow) /\ n \in Nat
  BY DEF PaymentsTypeOK
<1>3. CASE PendingRows(o) = {}
  <2>1. attempts' = [attempts EXCEPT ![o] = Append(@, row)]
    BY <1>3 DEF InitiateCommit
  <2>2. Append(attempts[o], row) = Put(attempts[o], n + 1, row)
    BY <1>1, <1>2 DEF Put
  <2> HIDE DEF row
  <2> USE <1>1, <1>2, <2>1
  <2> WITNESS row \in PaymentRow, n + 1 \in Nat \ {0}
  <2> QED
    BY <1>1, <1>3, <2>1, <2>2
<1>4. CASE PendingRows(o) # {}
  <2>1. PendingRows(o) = {n} /\ n \in 1..n
    BY <1>2, <1>4 DEF PendingRows, OneOpenAttempt
  <2>2. newest = n
    BY <1>2, <2>1
  <2>3. attempts' = [attempts EXCEPT ![o] = [@ EXCEPT ![newest] = row]]
    BY <1>4 DEF InitiateCommit
  <2>4. [attempts[o] EXCEPT ![n] = row] = Put(attempts[o], n, row)
    BY <1>2, <2>1 DEF Put
  <2> HIDE DEF row, newest
  <2> USE <1>1, <1>2, <2>1
  <2> WITNESS row \in PaymentRow, n \in Nat \ {0}
  <2> QED
    BY <1>1, <2>1, <2>2, <2>3, <2>4
<1> QED
  BY <1>3, <1>4

(***************************************************************************)
(* What verify_payment writes: success on the last row, PAID on the order. *)
(***************************************************************************)
LEMMA VerifyWrites ==
  ASSUME PaymentsTypeOK, NEW o \in Orders, NEW n, VerifyPayment(o, n)
  PROVE  LET last == Len(attempts[o])
             row  == [attempts[o][last] EXCEPT !.status = "SUCCESS"]
         IN  /\ last \in Nat \ {0}
             /\ row \in PaymentRow
             /\ row.status = "SUCCESS"
             /\ row.gatewayOrder = attempts[o][last].gatewayOrder
             /\ Accepts(o, attempts[o][last], n)
             /\ attempts' = [attempts EXCEPT ![o] = Put(attempts[o], last, row)]
<1> DEFINE last == Len(attempts[o])
           row  == [attempts[o][last] EXCEPT !.status = "SUCCESS"]
<1>1. attempts[o] \in Seq(PaymentRow) /\ attempts[o] # <<>>
  BY DEF PaymentsTypeOK, VerifyPayment
<1>2. last \in Nat \ {0} /\ attempts[o][last] \in PaymentRow
  BY <1>1
<1>3. row \in PaymentRow /\ row.status = "SUCCESS"
      /\ row.gatewayOrder = attempts[o][last].gatewayOrder
  BY <1>2 DEF PaymentRow
<1>4. [attempts[o] EXCEPT ![last] = row] = Put(attempts[o], last, row)
  BY <1>1, <1>2 DEF Put
<1>5. attempts' = [attempts EXCEPT ![o] = [attempts[o] EXCEPT ![last] = row]]
  BY DEF VerifyPayment, Conclude
<1> QED
  BY <1>2, <1>3, <1>4, <1>5 DEF VerifyPayment

LEMMA PutFacts ==
  ASSUME NEW rows \in Seq(PaymentRow), NEW row \in PaymentRow, NEW k \in Nat \ {0},
         k = Len(rows) \/ k = Len(rows) + 1
  PROVE  /\ Put(rows, k, row) \in Seq(PaymentRow)
         /\ Len(Put(rows, k, row)) = k
         /\ DOMAIN Put(rows, k, row) = 1..k
         /\ Put(rows, k, row)[k] = row
         /\ \A i \in 1..k : i # k =>
              i \in DOMAIN rows /\ Put(rows, k, row)[i] = rows[i]
<1>1. \A i \in 1..k : i # k => i \in DOMAIN rows /\ rows[i] \in PaymentRow
  OBVIOUS
<1>2. Put(rows, k, row) \in [1..k -> PaymentRow]
  BY <1>1 DEF Put
<1>3. Put(rows, k, row) \in Seq(PaymentRow) /\ Len(Put(rows, k, row)) = k
  BY <1>2
<1> QED
  BY <1>1, <1>3 DEF Put

-----------------------------------------------------------------------------
(***************************************************************************)
(* Every action keeps the invariant.  The order's own steps come first.    *)
(***************************************************************************)
\* What a step of the orders app does that payments depend on: it places an
\* order that was not placed, or it moves one along an edge of the table, or it
\* leaves the three columns alone.
OrderRowsStep ==
  \/ \E o \in Orders, m \in PaymentMethod :
       /\ status[o] = NotPlaced
       /\ status' = [status EXCEPT ![o] = "PLACED"]
       /\ method' = [method EXCEPT ![o] = m]
       /\ payment' = [payment EXCEPT ![o] = "PENDING"]
  \/ \E o \in Orders, target \in OrderStatus :
       /\ status[o] \notin TERMINAL_STATUSES \cup {NotPlaced}
       /\ status' = [status EXCEPT ![o] = target]
       /\ method' = method
       /\ payment' = [payment EXCEPT ![o] = SettledPayment(o, target)]
  \/ UNCHANGED <<status, method, payment>>

LEMMA OrdersStepShape == [OrdersNext]_ordersVars => OrderRowsStep
<1>1. ASSUME NEW o \in Orders, NEW target, NEW role, TransitionOrder(o, target, role)
      PROVE  OrderRowsStep
  <2>1. target \in OrderStatus /\ status[o] \notin TERMINAL_STATUSES \cup {NotPlaced}
    BY <1>1, EdgeFacts DEF TransitionOrder
  <2> QED
    BY <1>1, <2>1 DEF TransitionOrder, WriteTransition, OrderRowsStep
<1>2. ASSUME NEW o \in Orders, NEW f, NEW m \in PaymentMethod, PlaceOrder(o, f, m)
      PROVE  OrderRowsStep
  BY <1>2 DEF PlaceOrder, OrderRowsStep
<1>3. ASSUME ProductStep
      PROVE  OrderRowsStep
  BY <1>3 DEF ProductStep, orderRows, OrderRowsStep
<1>4. ASSUME NEW o \in Orders, NEW role, CancelRead(o, role)
      PROVE  OrderRowsStep
  BY <1>4 DEF CancelRead, orderRows, OrderRowsStep
<1>5. ASSUME NEW o \in Orders, NEW role, CancelCommit(o, role)
      PROVE  OrderRowsStep
  BY <1>1, <1>5 DEF CancelCommit, orderRows, OrderRowsStep
<1>6. CASE UNCHANGED ordersVars
  BY <1>6 DEF ordersVars, orderRows, OrderRowsStep
<1> QED
  BY <1>1, <1>2, <1>3, <1>4, <1>5, <1>6
  DEF OrdersNext, OrderStep, OrderLifeStep, Transition

LEMMA OrderLifeKeepsInv ==
  ASSUME PaymentsInv, [OrdersNext]_ordersVars, UNCHANGED paymentVars
  PROVE  PaymentsInv'
<1>1. PaymentsTypeOK'
  BY TypeStep DEF PaymentsInv, PaymentsTypeOK, paymentVars
<1>2. UNCHANGED <<attempts, initiating, captured>>
  BY DEF paymentVars
<1>3. OneOpenAttempt'
  BY <1>2 DEF PaymentsInv, OneOpenAttempt
<1>4. OrdersTypeOK
  BY DEF PaymentsInv, PaymentsTypeOK
<1>5. ASSUME NEW o \in Orders, NEW m \in PaymentMethod,
             status[o] = NotPlaced,
             status' = [status EXCEPT ![o] = "PLACED"],
             method' = [method EXCEPT ![o] = m],
             payment' = [payment EXCEPT ![o] = "PENDING"]
      PROVE  (UnplacedUntried /\ PaidWhenDue /\ SuccessIsCaptured)'
  <2>1. UnplacedUntried'
    BY <1>2, <1>4, <1>5 DEF PaymentsInv, UnplacedUntried, OrdersTypeOK, NotPlaced
  <2>2. attempts[o] = <<>>
    BY <1>5 DEF PaymentsInv, UnplacedUntried
  <2>3. PaidWhenDue'
    BY <1>2, <1>4, <1>5, <2>2 DEF PaymentsInv, PaidWhenDue, HasSuccess, OrdersTypeOK
  <2>4. \A p \in Orders : DOMAIN attempts[p] # {} => method'[p] = method[p]
    BY <1>4, <1>5, <2>2 DEF OrdersTypeOK
  <2>5. SuccessIsCaptured'
    BY <1>2, <2>4 DEF PaymentsInv, SuccessIsCaptured
  <2> QED
    BY <2>1, <2>3, <2>5
<1>6. ASSUME NEW o \in Orders, NEW target \in OrderStatus,
             status[o] \notin TERMINAL_STATUSES \cup {NotPlaced},
             status' = [status EXCEPT ![o] = target],
             method' = method,
             payment' = [payment EXCEPT ![o] = SettledPayment(o, target)]
      PROVE  (UnplacedUntried /\ PaidWhenDue /\ SuccessIsCaptured)'
  <2>1. UnplacedUntried'
    BY <1>2, <1>4, <1>6
    DEF PaymentsInv, UnplacedUntried, OrdersTypeOK, NotPlaced, OrderStatus
  <2>2. \A p \in Orders : HasSuccess(p)' = HasSuccess(p)
    BY <1>2 DEF HasSuccess
  <2>3. PaidWhenDue'
    BY <1>4, <1>6, <2>2
    DEF PaymentsInv, PaidWhenDue, OrdersTypeOK, SettledPayment, TERMINAL_STATUSES
  <2>4. SuccessIsCaptured'
    BY <1>2, <1>6 DEF PaymentsInv, SuccessIsCaptured
  <2> QED
    BY <2>1, <2>3, <2>4
<1>7. ASSUME UNCHANGED <<status, method, payment>>
      PROVE  (UnplacedUntried /\ PaidWhenDue /\ SuccessIsCaptured)'
  BY <1>2, <1>7
  DEF PaymentsInv, UnplacedUntried, PaidWhenDue, HasSuccess, SuccessIsCaptured
<1>8. (UnplacedUntried /\ PaidWhenDue /\ SuccessIsCaptured)'
  BY <1>5, <1>6, <1>7, OrdersStepShape DEF OrderRowsStep
<1> QED
  BY <1>1, <1>3, <1>8 DEF PaymentsInv

-----------------------------------------------------------------------------
(***************************************************************************)
(* A write to the last row of o, or of a new one: what it does to each     *)
(* part of the invariant when it leaves the order's status and method.     *)
(***************************************************************************)
LEMMA PutKeepsInv ==
  ASSUME PaymentsInv, UNCHANGED <<status, method>>,
         OrdersTypeOK', initiating' \subseteq initiating, issued' \in [Orders -> Nat],
         UNCHANGED captured,
         NEW o \in Orders, status[o] # NotPlaced,
         \A p \in Orders \ {o} : payment'[p] = payment[p],
         NEW k \in Nat \ {0}, NEW row \in PaymentRow,
         attempts' = [attempts EXCEPT ![o] = Put(attempts[o], k, row)],
         k = Len(attempts[o]) \/ k = Len(attempts[o]) + 1,
         PendingRows(o) \subseteq {k},
         row.status = "SUCCESS" /\ method[o] = "ONLINE"
            => <<o, row.gatewayOrder>> \in captured,
         PaidWhenDue'
  PROVE  PaymentsInv'
<1>1. /\ attempts \in [Orders -> Seq(PaymentRow)]
      /\ attempts[o] \in Seq(PaymentRow)
  BY DEF PaymentsInv, PaymentsTypeOK
<1>2. /\ Put(attempts[o], k, row) \in Seq(PaymentRow)
      /\ Len(Put(attempts[o], k, row)) = k
      /\ DOMAIN Put(attempts[o], k, row) = 1..k
      /\ Put(attempts[o], k, row)[k] = row
      /\ \A i \in 1..k : i # k =>
           i \in DOMAIN attempts[o] /\ Put(attempts[o], k, row)[i] = attempts[o][i]
  <2> DEFINE rows == attempts[o]
  <2>1. rows \in Seq(PaymentRow) /\ (k = Len(rows) \/ k = Len(rows) + 1)
    BY <1>1
  <2>2. /\ Put(rows, k, row) \in Seq(PaymentRow)
        /\ Len(Put(rows, k, row)) = k
        /\ DOMAIN Put(rows, k, row) = 1..k
        /\ Put(rows, k, row)[k] = row
        /\ \A i \in 1..k : i # k => i \in DOMAIN rows /\ Put(rows, k, row)[i] = rows[i]
    <3> HIDE DEF rows
    <3> QED
      BY ONLY <2>1, k \in Nat \ {0}, row \in PaymentRow, PutFacts
  <2> QED
    BY <2>2
<1>3. attempts'[o] = Put(attempts[o], k, row)
      /\ \A p \in Orders \ {o} : attempts'[p] = attempts[p]
  BY <1>1
<1>4. PaymentsTypeOK'
  BY <1>1, <1>2 DEF PaymentsInv, PaymentsTypeOK
<1>5. UnplacedUntried'
  BY <1>3 DEF PaymentsInv, UnplacedUntried
<1>6. SuccessIsCaptured'
  <2>1. ASSUME NEW i \in DOMAIN attempts'[o],
               method[o] = "ONLINE", attempts'[o][i].status = "SUCCESS"
        PROVE  <<o, attempts'[o][i].gatewayOrder>> \in captured
    BY <1>2, <1>3, <2>1 DEF PaymentsInv, SuccessIsCaptured
  <2>2. SuccessIsCaptured /\ UNCHANGED <<method, captured>>
    BY DEF PaymentsInv
  <2> QED
    BY <1>3, <2>1, <2>2 DEF SuccessIsCaptured
<1>7. OneOpenAttempt'
  <2>1. ASSUME NEW i \in DOMAIN attempts'[o], attempts'[o][i].status = "PENDING"
        PROVE  i = Len(attempts'[o])
    BY <1>2, <1>3, <2>1 DEF PendingRows
  <2> QED
    BY <1>3, <2>1 DEF PaymentsInv, OneOpenAttempt
<1> QED
  BY <1>4, <1>5, <1>6, <1>7 DEF PaymentsInv

LEMMA InitiateKeepsInv ==
  ASSUME PaymentsInv, NEW o \in Orders, InitiateCommit(o)
  PROVE  PaymentsInv'
<1>1. PaymentsTypeOK /\ OneOpenAttempt
  BY DEF PaymentsInv
<1>2. PICK row \in PaymentRow, k \in Nat \ {0} :
        /\ row.status = "PENDING"
        /\ attempts' = [attempts EXCEPT ![o] = Put(attempts[o], k, row)]
        /\ \/ k = Len(attempts[o]) + 1 /\ PendingRows(o) = {}
           \/ k = Len(attempts[o]) /\ PendingRows(o) = {k}
  BY <1>1, InitiateWrites
<1>3. /\ UNCHANGED <<ordersVars, captured>>
      /\ initiating' \subseteq initiating
      /\ issued' \in [Orders -> Nat]
      /\ status[o] # NotPlaced
  BY DEF PaymentsInv, PaymentsTypeOK, UnplacedUntried, InitiateCommit
<1>4. OrdersTypeOK' /\ UNCHANGED <<status, method, payment>>
  <2>1. [OrdersNext]_ordersVars
    BY <1>3
  <2> QED
    BY <1>1, <1>3, <2>1, TypeStep DEF PaymentsTypeOK, ordersVars, orderRows
<1>5. attempts \in [Orders -> Seq(PaymentRow)] /\ attempts[o] \in Seq(PaymentRow)
  BY <1>1 DEF PaymentsTypeOK
<1>6. HasSuccess(o)' <=> HasSuccess(o)
  <2>1. attempts'[o] = Put(attempts[o], k, row)
    BY <1>2, <1>5
  <2>2. attempts'[o][k] = row
    BY <2>1 DEF Put
  <2>3. /\ DOMAIN attempts'[o] = 1..k
        /\ \A i \in 1..k : i # k =>
             i \in DOMAIN attempts[o] /\ attempts'[o][i] = attempts[o][i]
    BY <1>2, <1>5, <2>1, PutFacts
  <2>4. \A i \in DOMAIN attempts[o] : attempts[o][i].status = "SUCCESS"
                                       => i \in 1..k /\ i # k
    BY <1>2, <1>5 DEF PendingRows
  <2> QED
    BY <1>2, <2>2, <2>3, <2>4 DEF HasSuccess
<1>7. PaidWhenDue'
  BY <1>2, <1>4, <1>5, <1>6 DEF PaymentsInv, PaidWhenDue, HasSuccess
<1> QED
  BY <1>2, <1>3, <1>4, <1>7, PutKeepsInv

LEMMA VerifyKeepsInv ==
  ASSUME PaymentsInv, NEW o \in Orders, NEW n, VerifyPayment(o, n)
  PROVE  PaymentsInv'
<1> DEFINE k   == Len(attempts[o])
           row == [attempts[o][k] EXCEPT !.status = "SUCCESS"]
<1>1. PaymentsTypeOK /\ OrdersTypeOK
  BY DEF PaymentsInv, PaymentsTypeOK
<1>2. /\ k \in Nat \ {0}
      /\ row \in PaymentRow
      /\ row.status = "SUCCESS"
      /\ row.gatewayOrder = attempts[o][k].gatewayOrder
      /\ Accepts(o, attempts[o][k], n)
      /\ attempts' = [attempts EXCEPT ![o] = Put(attempts[o], k, row)]
  BY <1>1, VerifyWrites
<1> HIDE DEF row
<1>3. /\ UNCHANGED <<status, method, initiating, issued, captured>>
      /\ payment' = [payment EXCEPT ![o] = "PAID"]
      /\ attempts[o] # <<>>
  BY DEF VerifyPayment, Conclude
<1>4. OrdersTypeOK'
  BY <1>1 DEF VerifyPayment, Conclude, OrdersTypeOK, ProductTypeOK, productRows,
              PaymentStatus
<1>5. status[o] # NotPlaced /\ PendingRows(o) \subseteq {k}
  BY <1>3 DEF PaymentsInv, UnplacedUntried, OneOpenAttempt, PendingRows
<1>6. row.status = "SUCCESS" /\ method[o] = "ONLINE" => <<o, row.gatewayOrder>> \in captured
  BY <1>2 DEF Accepts
<1>7. attempts \in [Orders -> Seq(PaymentRow)] /\ payment \in [Orders -> PaymentStatus]
      /\ issued \in [Orders -> Nat]
  BY <1>1 DEF PaymentsTypeOK, OrdersTypeOK
<1>8. PaidWhenDue'
  <2>1. attempts'[o] = Put(attempts[o], k, row) /\ payment'[o] = "PAID"
    BY <1>2, <1>3, <1>7
  <2>2. attempts'[o][k] = row /\ k \in DOMAIN attempts'[o]
    BY <1>2, <2>1 DEF Put
  <2>3. HasSuccess(o)'
    BY <1>2, <2>2 DEF HasSuccess
  <2>4. \A p \in Orders \ {o} : attempts'[p] = attempts[p] /\ payment'[p] = payment[p]
    BY <1>2, <1>3, <1>7
  <2> QED
    BY <1>3, <2>1, <2>3, <2>4 DEF PaymentsInv, PaidWhenDue, HasSuccess
<1> HIDE DEF k
<1>9. k = Len(attempts[o])
  BY DEF k
<1> QED
  BY <1>2, <1>3, <1>4, <1>5, <1>6, <1>7, <1>8, <1>9, PutKeepsInv

\* The steps that write no Payment row and no order.
LEMMA OtherStepsKeepInv ==
  ASSUME PaymentsInv, NEW o \in Orders, NEW n \in Nat,
         InitiateRead(o) \/ Capture(o, n)
  PROVE  PaymentsInv'
<1>1. UNCHANGED <<ordersVars, attempts, issued>>
  BY DEF InitiateRead, Capture
<1>2. OrdersTypeOK' /\ UNCHANGED <<status, method, payment>>
  BY <1>1, TypeStep
  DEF PaymentsInv, PaymentsTypeOK, ordersVars, orderRows
<1>3. PaymentsTypeOK'
  <2>1. initiating' \subseteq Orders
    BY DEF PaymentsInv, PaymentsTypeOK, InitiateRead, Capture
  <2>2. captured' \subseteq Orders \X GatewayOrder
    BY DEF PaymentsInv, PaymentsTypeOK, InitiateRead, Capture, GatewayOrder
  <2> QED
    BY <1>1, <1>2, <2>1, <2>2 DEF PaymentsInv, PaymentsTypeOK
<1>4. UnplacedUntried'
  BY <1>1, <1>2 DEF PaymentsInv, UnplacedUntried, InitiateRead, Capture
<1>5. PaidWhenDue' /\ OneOpenAttempt'
  BY <1>1, <1>2 DEF PaymentsInv, PaidWhenDue, HasSuccess, OneOpenAttempt
<1>6. captured \subseteq captured'
  BY DEF InitiateRead, Capture
<1>7. SuccessIsCaptured'
  BY <1>1, <1>2, <1>6 DEF PaymentsInv, SuccessIsCaptured
<1> QED
  BY <1>3, <1>4, <1>5, <1>7 DEF PaymentsInv

LEMMA PaymentsInvInit == PaymentsInit => PaymentsInv
<1> SUFFICES ASSUME PaymentsInit PROVE PaymentsInv
  OBVIOUS
<1>1. OrdersTypeOK
  BY MaxStockAssumption
  DEF PaymentsInit, OrdersInit, ProductInit, OrderRowsInit, OrdersTypeOK, ProductTypeOK,
      NoLines, NoEvent, OrderStatus, PaymentStatus, PaymentMethod, Role
<1>2. PaymentsTypeOK
  BY <1>1 DEF PaymentsInit, PaymentsTypeOK
<1>3. \A o \in Orders : attempts[o] = <<>> /\ payment[o] = "PENDING" /\ status[o] = NotPlaced
  BY DEF PaymentsInit, OrdersInit, OrderRowsInit
<1>4. PaidWhenDue
  BY <1>3 DEF PaidWhenDue, HasSuccess, NotPlaced
<1> QED
  BY <1>2, <1>3, <1>4
  DEF PaymentsInv, PaymentsInit, UnplacedUntried, SuccessIsCaptured, OneOpenAttempt

LEMMA PaymentsInvStep == PaymentsInv /\ [PaymentsNext]_paymentsVars => PaymentsInv'
<1> SUFFICES ASSUME PaymentsInv, [PaymentsNext]_paymentsVars PROVE PaymentsInv'
  OBVIOUS
<1>1. CASE OrdersNext /\ UNCHANGED paymentVars
  BY <1>1, OrderLifeKeepsInv
<1>2. ASSUME NEW o \in Orders, InitiateCommit(o)
      PROVE  PaymentsInv'
  BY <1>2, InitiateKeepsInv
<1>3. ASSUME NEW o \in Orders, NEW n, VerifyPayment(o, n)
      PROVE  PaymentsInv'
  BY <1>3, VerifyKeepsInv
<1>4. ASSUME NEW o \in Orders, NEW n \in Nat,
             InitiateRead(o) \/ Capture(o, n)
      PROVE  PaymentsInv'
  BY <1>4, OtherStepsKeepInv
<1>5. ASSUME UNCHANGED paymentsVars
      PROVE  PaymentsInv'
  BY <1>5, OrderLifeKeepsInv DEF paymentsVars
<1>6. 0..MaxIssued \subseteq Nat /\ 0 \in Nat
  BY MaxIssuedAssumption
<1> QED
  BY <1>1, <1>2, <1>3, <1>4, <1>5, <1>6 DEF PaymentsNext, PaymentStep

(***************************************************************************)
(* Every reachable state is well typed: no committed row is ever FAILED   *)
(* or CREATED.                                                             *)
(***************************************************************************)
THEOREM PaymentsTypeCorrect == PaymentsSpec => []PaymentsTypeOK
<1>1. PaymentsInv => PaymentsTypeOK
  BY DEF PaymentsInv
<1> QED
  BY <1>1, PaymentsInvInit, PaymentsInvStep, PTL DEF PaymentsSpec

(***************************************************************************)
(* An online order is PAID exactly when an attempt of it succeeded, and a  *)
(* cash order once it is delivered or verified; an online attempt succeeds *)
(* only on money the customer paid for the gateway order its row names;    *)
(* and the only open attempt is the one verify_payment will look at.       *)
(***************************************************************************)
THEOREM PaymentsConsistent ==
  PaymentsSpec => [](PaidWhenDue /\ SuccessIsCaptured /\ OneOpenAttempt)
<1>1. PaymentsInv => PaidWhenDue /\ SuccessIsCaptured /\ OneOpenAttempt
  BY DEF PaymentsInv
<1> QED
  BY <1>1, PaymentsInvInit, PaymentsInvStep, PTL DEF PaymentsSpec

(***************************************************************************)
(* No step takes PAID away: transition_order only ever adds it, and a      *)
(* verification either sets it or is rolled back.  An unplaced order is    *)
(* not PAID, so placing one takes nothing away either.                     *)
(***************************************************************************)
THEOREM PaymentsFinal == PaymentsSpec => PaidIsFinal
<1> DEFINE Kept == \A o \in Orders : payment[o] = "PAID" => payment'[o] = "PAID"
<1>1. PaymentsInv /\ [PaymentsNext]_paymentsVars => [Kept]_paymentsVars
  <2> SUFFICES ASSUME PaymentsInv, PaymentsNext
               PROVE  Kept
    OBVIOUS
  <2>1. payment \in [Orders -> PaymentStatus]
    BY DEF PaymentsInv, PaymentsTypeOK, OrdersTypeOK
  <2>2. \A o \in Orders : status[o] = NotPlaced => payment[o] # "PAID"
    BY DEF PaymentsInv, UnplacedUntried
  <2>3. CASE OrdersNext
    <3>1. OrderRowsStep
      BY <2>3, OrdersStepShape
    <3> QED
      BY <2>1, <2>2, <3>1 DEF OrderRowsStep, SettledPayment
  <2>4. ASSUME NEW o \in Orders, PaymentStep(o)
        PROVE  Kept
    <3>1. payment' = payment \/ payment' = [payment EXCEPT ![o] = "PAID"]
      BY <2>4 DEF PaymentStep, InitiateRead, InitiateCommit, VerifyPayment, Conclude,
                  Capture, ordersVars, orderRows
    <3> QED
      BY <2>1, <3>1
  <2> QED
    BY <2>3, <2>4 DEF PaymentsNext
<1> QED
  BY <1>1, PaymentsInvInit, PaymentsInvStep, PTL DEF PaymentsSpec, PaidIsFinal

-----------------------------------------------------------------------------
(***************************************************************************)
(* What payments may not disturb.  Its services write payment_status, and  *)
(* nothing else of the orders app, so that the orders' invariant goes on   *)
(* to hold.                                                                *)
(***************************************************************************)
LEMMA PaymentStepForOrders ==
  ASSUME NEW o \in Orders, PaymentStep(o)
  PROVE  UNCHANGED <<productRows, status, method, lines, lastEvent>>
BY DEF PaymentStep, InitiateRead, InitiateCommit, VerifyPayment, Conclude, Capture,
       ordersVars, orderRows

LEMMA TrailInvariant == PaymentsSpec => []TrailInv
<1>1. PaymentsInit => TrailInv
  BY TrailInit DEF PaymentsInit
<1>2. TrailInv /\ PaymentsTypeOK' /\ [PaymentsNext]_paymentsVars => TrailInv'
  <2> SUFFICES ASSUME TrailInv, PaymentsTypeOK', [PaymentsNext]_paymentsVars
               PROVE  TrailInv'
    OBVIOUS
  <2>1. CASE [OrdersNext]_ordersVars
    BY <2>1, TrailStep
  <2>2. ASSUME NEW o \in Orders, PaymentStep(o)
        PROVE  TrailInv'
    BY <2>2, PaymentStepForOrders, SameTrail DEF PaymentsTypeOK
  <2> QED
    BY <2>1, <2>2 DEF PaymentsNext, paymentsVars
<1> QED
  BY <1>1, <1>2, PaymentsTypeCorrect, PTL DEF PaymentsSpec

(***************************************************************************)
(* The audit trail stays intact when orders are paid: no initiation,       *)
(* verification or late answer changes a status or writes an entry.        *)
(***************************************************************************)
THEOREM PaymentsKeepTrail == PaymentsSpec => AuditTrailIntact
<1>1. TrailInv /\ TrailInv' /\ [PaymentsNext]_paymentsVars
        => [\A o \in Orders : AuditedStep(o)]_ordersVars
  <2> SUFFICES ASSUME TrailInv, TrailInv', [PaymentsNext]_paymentsVars,
                      NEW x \in Orders
               PROVE  AuditedStep(x)
    OBVIOUS
  <2>1. CASE [OrdersNext]_ordersVars
    BY <2>1, StepsAreAudited
  <2>2. ASSUME NEW o \in Orders, PaymentStep(o)
        PROVE  AuditedStep(x)
    BY <2>2, PaymentStepForOrders DEF AuditedStep, TrailInv, TrailEndsAtStatus
  <2> QED
    BY <2>1, <2>2 DEF PaymentsNext, paymentsVars
<1> QED
  BY <1>1, TrailInvariant, PTL DEF PaymentsSpec, AuditTrailIntact

(***************************************************************************)
(* Orders and payments together implement Inventory: what is paid, twice   *)
(* initiated or never paid takes and returns no unit.                      *)
(***************************************************************************)
THEOREM PaymentsKeepInventory == PaymentsSpec => InventoryKept
<1>1. PaymentsInit => Shelf!Init
  BY OrdersInitMaps DEF PaymentsInit
<1>2. TrailInv /\ [PaymentsNext]_paymentsVars => [Shelf!Next]_(Shelf!vars)
  <2> SUFFICES ASSUME TrailInv, [PaymentsNext]_paymentsVars
               PROVE  [Shelf!Next]_(Shelf!vars)
    OBVIOUS
  <2>1. CASE [OrdersNext]_ordersVars
    BY <2>1, OrdersStepMaps
  <2>2. ASSUME NEW o \in Orders, PaymentStep(o)
        PROVE  Shelf!Write
    BY <2>2, PaymentStepForOrders DEF productRows, Shelf!Write, Held
  <2> QED
    BY <2>1, <2>2 DEF PaymentsNext, paymentsVars, Shelf!Next
<1> QED
  BY <1>1, <1>2, TrailInvariant, PTL DEF PaymentsSpec, InventoryKept, Shelf!Spec

=============================================================================
