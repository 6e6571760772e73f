------------------------------ MODULE Payments -------------------------------
(***************************************************************************)
(* The payments app next to the life of the orders it is paid for.         *)
(*                                                                         *)
(* The gateway is external: it issues a gateway order per initiation, the  *)
(* customer may pay any of those he was shown.  Of its answers only what   *)
(* verify_payment tells apart is kept: whether the signature is that of a  *)
(* payment really made for the gateway order presented.  (The keys are     *)
(* configured: there is no sandbox here.)  The webhook reads and writes no *)
(* row, so it is no step.                                                  *)
(*                                                                         *)
(* verify_payment reports a failure by raising, out of the transaction in  *)
(* which it has just written FAILED: the write is undone, so a failed      *)
(* verification is no step, and CREATED never leaves the transaction that  *)
(* writes it.  PENDING and SUCCESS are the statuses a row can be seen in.  *)
(***************************************************************************)
EXTENDS Orders, Sequences

CONSTANT MaxIssued    \* bound: gateway orders the gateway issues per order

ASSUME MaxIssuedAssumption == MaxIssued \in Nat

VARIABLES
  attempts,     \* Payment rows of an order, oldest first
  initiating,   \* orders with an initiate request past its paid-already check
  issued,       \* how many gateway orders the gateway has issued for an order
  captured      \* <<order, gateway order>>: the customer's money is taken

paymentVars == <<attempts, initiating, issued, captured>>
paymentsVars == <<ordersVars, paymentVars>>

\* Gateway orders are numbered as issued; cash has one marker per order.
CodMarker == 0
GatewayOrder == Nat

PaymentRow == [gatewayOrder : GatewayOrder, status : {"PENDING", "SUCCESS"}]

PaymentsTypeOK ==
  /\ OrdersTypeOK
  /\ attempts \in [Orders -> Seq(PaymentRow)]
  /\ initiating \subseteq Orders
  /\ issued \in [Orders -> Nat]
  /\ captured \subseteq Orders \X GatewayOrder

PaymentsInit ==
  /\ OrdersInit
  /\ attempts = [o \in Orders |-> <<>>]
  /\ initiating = {}
  /\ issued = [o \in Orders |-> 0]
  /\ captured = {}

-----------------------------------------------------------------------------
\* Seeded faults: filter(status=CREATED), which no committed row has; and no
\* filter at all.
PendingRowsNeverFound(o) == {}
PendingRowsUnfiltered(o) == DOMAIN attempts[o]

\* get_pending_for_order: the rows initiate_payment may use again.
PendingRows(o) == {i \in DOMAIN attempts[o] : attempts[o][i].status = "PENDING"}

\* Seeded fault: the signature checked, but not that it is for this row.
AcceptsAnySigned(o, r, n) == method[o] = "COD" \/ <<o, n>> \in captured

\* What the gateway's verify_payment accepts for row r when the client presents
\* gateway order n: anything for cash; online the row's own gateway order, paid.
Accepts(o, r, n) ==
  \/ method[o] = "COD"
  \/ n = r.gatewayOrder /\ <<o, n>> \in captured

\* POST /api/payments/initiate/: the view reads the order, and initiate_payment
\* tests the payment status of that read ...
InitiateRead(o) ==
  /\ status[o] # NotPlaced
  /\ payment[o] # "PAID"
  /\ initiating' = initiating \cup {o}
  /\ UNCHANGED <<ordersVars, attempts, issued, captured>>

\* ... before its first query.  The pending row, if there is one, is used again
\* and its gateway order replaced; otherwise there is a new row.
InitiateCommit(o) ==
  LET pending == PendingRows(o)
      newest  == CHOOSE i \in pending : \A j \in pending : j <= i
      online  == method[o] = "ONLINE"
      row     == [gatewayOrder |-> IF online THEN issued[o] + 1 ELSE CodMarker,
                  status |-> "PENDING"]
  IN  /\ o \in initiating
      /\ issued[o] < MaxIssued
      /\ initiating' = initiating \ {o}
      /\ issued' = [issued EXCEPT ![o] = IF online THEN @ + 1 ELSE @]
      /\ attempts' = [attempts EXCEPT ![o] =
           IF pending = {} THEN Append(@, row) ELSE [@ EXCEPT ![newest] = row]]
      /\ UNCHANGED <<ordersVars, captured>>

\* verify_payment's writes: to the newest row and to the order.
Conclude(o, rowStatus, paymentStatus) ==
  /\ attempts' = [attempts EXCEPT ![o][Len(attempts[o])].status = rowStatus]
  /\ payment' = [payment EXCEPT ![o] = paymentStatus]
  /\ UNCHANGED <<productRows, status, method, lines, lastEvent, cancelling,
                 initiating, issued, captured>>

\* Seeded fault: a failure that is returned, not raised, so that its writes stay.
VerifyPaymentKeepingFailure(o, n) ==
  /\ attempts[o] # <<>>
  /\ IF Accepts(o, attempts[o][Len(attempts[o])], n)
       THEN Conclude(o, "SUCCESS", "PAID") ELSE Conclude(o, "FAILED", "FAILED")

\* POST /api/payments/verify/ for gateway order n: latest_for_order is the row
\* that counts, whatever its status.
VerifyPayment(o, n) ==
  /\ attempts[o] # <<>>
  /\ Accepts(o, attempts[o][Len(attempts[o])], n)
  /\ Conclude(o, "SUCCESS", "PAID")

\* External: the customer pays a gateway order he was shown, in any of his tabs.
Capture(o, n) ==
  /\ method[o] = "ONLINE"
  /\ n \in 1..issued[o]
  /\ captured' = captured \cup {<<o, n>>}
  /\ UNCHANGED <<ordersVars, attempts, initiating, issued>>

-----------------------------------------------------------------------------
PaymentStep(o) ==
  \/ InitiateRead(o) \/ InitiateCommit(o)
  \/ \E n \in 0..MaxIssued : VerifyPayment(o, n) \/ Capture(o, n)

PaymentsNext ==
  \/ OrdersNext /\ UNCHANGED paymentVars
  \/ \E o \in Orders : PaymentStep(o)

PaymentsSpec == PaymentsInit /\ [][PaymentsNext]_paymentsVars

-----------------------------------------------------------------------------
(***************************************************************************)
(* Whatever was initiated, retried, delivered or cancelled in between, an  *)
(* online order is PAID exactly when one of its attempts succeeded; and a  *)
(* cash order is PAID once it is delivered, or verified if that was        *)
(* earlier.  (Its rows do not tell the same: a verification pays a cash    *)
(* order before its delivery, and a delivery leaves its row PENDING.)      *)
(***************************************************************************)
HasSuccess(o) == \E i \in DOMAIN attempts[o] : attempts[o][i].status = "SUCCESS"

PaidWhenDue ==
  \A o \in Orders :
    /\ method[o] = "ONLINE" => (payment[o] = "PAID" <=> HasSuccess(o))
    /\ method[o] = "COD" /\ (status[o] = "DELIVERED" \/ HasSuccess(o))
         => payment[o] = "PAID"

(***************************************************************************)
(* No online attempt is a success unless the customer paid just the        *)
(* gateway order its row names, though rows are used again and their       *)
(* gateway orders replaced while old checkouts are still open.             *)
(***************************************************************************)
SuccessIsCaptured ==
  \A o \in Orders : \A i \in DOMAIN attempts[o] :
    method[o] = "ONLINE" /\ attempts[o][i].status = "SUCCESS"
      => <<o, attempts[o][i].gatewayOrder>> \in captured

(***************************************************************************)
(* At most one attempt of an order is open, and it is the newest: the one  *)
(* that verify_payment will look at.                                       *)
(***************************************************************************)
OneOpenAttempt ==
  \A o \in Orders : \A i \in DOMAIN attempts[o] :
    attempts[o][i].status = "PENDING" => i = Len(attempts[o])

\* A payment once PAID stays so: no late, repeated or failing verification, no
\* second attempt and no cancellation takes it back.
PaidIsFinal ==
  [][\A o \in Orders : payment[o] = "PAID" => payment'[o] = "PAID"]_paymentsVars

-----------------------------------------------------------------------------
(***************************************************************************)
(* "One row per payment attempt" (payments/models.py): each payment that   *)
(* the customer makes has a row that names it.  Not so: initiating again   *)
(* replaces the gateway order of the pending row, and the first one can    *)
(* still be paid.                                                          *)
(***************************************************************************)
CapturedHasRow ==
  \A c \in captured :
    \E i \in DOMAIN attempts[c[1]] : attempts[c[1]][i].gatewayOrder = c[2]

==============================================================================
