---------------------------- MODULE OrderPayments ----------------------------
(***************************************************************************)
(* One order and its payments: modules/orders/orders.service.ts,            *)
(* modules/payments/payments.service.ts and the handlers that carry payment *)
(* events to the order.                                                     *)
(*                                                                          *)
(* Transactions run under InnoDB's REPEATABLE READ.  recordPayment looks a  *)
(* key up before it locks the order, so its plain reads show the database   *)
(* as it was before the lock was granted, while its updates act on current  *)
(* rows.  The order's own services read the status outside the transaction  *)
(* that writes it.  Published events reach their handlers any number of     *)
(* times and in any order, which EventDelivery allows.                      *)
(***************************************************************************)
EXTENDS Integers, FiniteSets, FiniteSetsExt

CONSTANTS
  Payment,     \* payment rows the requests may create, one for each idempotency key
  Unkeyed,     \* those requested without key or reference, which are never replayed
  Amount,      \* Amount[p]: the amount of payment p
  Total,       \* the order's total
  Client,      \* requests and handler calls in flight
  MaxRefunds   \* bound on the length of a chain of refunds of refunds

ASSUME OrderPaymentsAssumption ==
  /\ Unkeyed \subseteq Payment
  /\ Amount \in [Payment -> Nat \ {0}]
  /\ Total \in Nat
  /\ MaxRefunds \in Nat
  /\ IsFiniteSet(Payment)

VARIABLES
  order,    \* orders.status; "NONE" before the row exists
  row,      \* row[p]: payments.status of payment p; "NONE" before the row exists
  refunds,  \* refunds[p]: rows in the chain refund of p, refund of that refund, ...
  sent,     \* names of the events published for the order
  call      \* call[c]: what client c has read and has not acted on yet

vars == <<order, row, refunds, sent, call>>

OrderStatus == {"NONE", "PENDING", "PAID", "COMPLETED", "CANCELLED", "REFUNDED"}
PaymentStatus == {"PENDING", "AWAITING_VERIFICATION", "SUCCESS", "FAILED"}
EventName == {"order.created", "order.paid", "order.completed", "order.cancelled",
              "order.refunded", "payment.succeeded", "payment.succeeded.full",
              "payment.failed", "payment.refunded"}

View == [order : OrderStatus, row : [Payment -> PaymentStatus \cup {"NONE"}],
         refunds : [Payment -> 0..MaxRefunds]]
StatusOp == {"markPaid", "complete", "cancel", "markRefunded"}
Idle == [op |-> "idle"]
Call == {Idle}
        \cup [op : {"record"}, payment : Payment, desired : PaymentStatus, view : View]
        \cup [op : StatusOp]

Init ==
  /\ order = "NONE"
  /\ row = [p \in Payment |-> "NONE"]
  /\ refunds = [p \in Payment |-> 0]
  /\ sent = {}
  /\ call = [c \in Client |-> Idle]

Now == [order |-> order, row |-> row, refunds |-> refunds]

-----------------------------------------------------------------------------
(* sumSuccessfulPayments: a refund row carries the opposite amount, so a     *)
(* chain of even length leaves the payment's amount in the sum.             *)
AmountSum(P) == MapThenSumSet(LAMBDA p : Amount[p], P)
Counted(v) == {p \in Payment : v.row[p] = "SUCCESS" /\ v.refunds[p] % 2 = 0}
SumSuccessful(v) == AmountSum(Counted(v))

\* What the transaction reads once it has itself written status s into row p.
WithPayment(v, p, s) == [v EXCEPT !.row[p] = s]

-----------------------------------------------------------------------------
(* recordPayment in a transaction whose plain reads show v.                 *)

\* finalizePaymentStatus' table of transitions.
Finalizable(s, desired) ==
  \/ s = "PENDING"
  \/ s = "AWAITING_VERIFICATION" /\ desired \in {"SUCCESS", "FAILED"}

Transitions(v, p, desired) == desired # "PENDING" /\ v.row[p] # desired

\* Mutant: the status is written whatever it has become since it was read.
AcceptedUnconditionally(v, p, desired) ==
  /\ v.order \in {"PENDING", "PAID", "COMPLETED"}
  /\ ~(desired = "SUCCESS" /\ v.order \in {"PAID", "COMPLETED"} /\ v.row[p] # "SUCCESS")
  /\ v.row[p] = "NONE" => row[p] = "NONE"
  /\ Transitions(v, p, desired) => v.row[p] = "NONE" \/ Finalizable(v.row[p], desired)

\* Everything that does not throw, hit the unique key or lose updateStatusIfCurrent.
Accepted(v, p, desired) ==
  /\ v.order \in {"PENDING", "PAID", "COMPLETED"}
  /\ ~(desired = "SUCCESS" /\ v.order \in {"PAID", "COMPLETED"} /\ v.row[p] # "SUCCESS")
  /\ v.row[p] = "NONE" => row[p] = "NONE"
  /\ Transitions(v, p, desired) =>
       /\ v.row[p] = row[p]
       /\ v.row[p] = "NONE" \/ Finalizable(v.row[p], desired)

NewStatus(v, p, desired) ==
  IF Transitions(v, p, desired) \/ v.row[p] = "NONE" THEN desired ELSE row[p]

\* The status the transaction has read back, for the flags and the payload.
StatusSeen(v, p, desired) ==
  IF desired = "PENDING" /\ v.row[p] # "NONE" THEN v.row[p] ELSE desired

\* Mutant: the sum is not compared.
AnyPaid(v, p, desired) == StatusSeen(v, p, desired) = "SUCCESS"

FullyPaid(v, p, desired) ==
  /\ StatusSeen(v, p, desired) = "SUCCESS"
  /\ SumSuccessful(WithPayment(v, p, "SUCCESS")) >= Total

\* Mutant: the payment's status is written to the order.
OrderAfterMixedUp(v, p, desired, current) ==
  IF ~Transitions(v, p, desired) \/ current # "PENDING" THEN current
  ELSE IF desired = "SUCCESS" /\ v.order = "PENDING" /\ FullyPaid(v, p, desired) THEN "PAID"
  ELSE IF desired = "FAILED" THEN "FAILED"
  ELSE current

\* Both order updates are conditional on the current status being PENDING.
OrderAfter(v, p, desired, current) ==
  IF ~Transitions(v, p, desired) \/ current # "PENDING" THEN current
  ELSE IF desired = "SUCCESS" /\ v.order = "PENDING" /\ FullyPaid(v, p, desired) THEN "PAID"
  ELSE IF desired = "FAILED" THEN "CANCELLED"
  ELSE current

\* A request for PENDING that finds the key's row announces its status once more, and the
\* order's with it.
Replays(v, p, desired) == desired = "PENDING" /\ v.row[p] # "NONE"

\* Mutants: the change of the order is not announced; order.paid whatever the payment is.
PaymentEventsOnly(v, p, desired, current) ==
  LET acts == Transitions(v, p, desired) \/ Replays(v, p, desired)
      status == StatusSeen(v, p, desired)
  IN  {n \in EventName :
         \/ n = "payment.succeeded" /\ acts /\ status = "SUCCESS"
         \/ n = "payment.succeeded.full" /\ acts /\ FullyPaid(v, p, desired)
         \/ n = "payment.failed" /\ acts /\ status = "FAILED"}

PaymentEventsPaid(v, p, desired, current) ==
  PaymentEventsOnly(v, p, desired, current)
    \cup IF Transitions(v, p, desired) \/ Replays(v, p, desired) THEN {"order.paid"} ELSE {}

PaymentEvents(v, p, desired, current) ==
  LET acts == Transitions(v, p, desired) \/ Replays(v, p, desired)
      status == StatusSeen(v, p, desired)
      after == OrderAfter(v, p, desired, current)
      changed == Replays(v, p, desired) \/ after # current
  IN  {n \in EventName :
         \/ n = "payment.succeeded" /\ acts /\ status = "SUCCESS"
         \/ n = "payment.succeeded.full" /\ acts /\ FullyPaid(v, p, desired)
         \/ n = "payment.failed" /\ acts /\ status = "FAILED"
         \/ n = "order.paid" /\ acts /\ changed /\ status = "SUCCESS"
         \/ n = "order.cancelled" /\ acts /\ changed /\ status = "FAILED"}

\* The transaction commits; current and published are the order's status and the events as
\* the earlier statements of the same transaction left them.
Record(v, p, desired, current, published) ==
  /\ Accepted(v, p, desired)
  /\ row' = [row EXCEPT ![p] = NewStatus(v, p, desired)]
  /\ order' = OrderAfter(v, p, desired, current)
  /\ sent' = published \cup PaymentEvents(v, p, desired, current)
  /\ UNCHANGED refunds

-----------------------------------------------------------------------------
(* createWithSource through the orders API.                                 *)
Create ==
  /\ order = "NONE"
  /\ order' = "PENDING"
  /\ sent' = sent \cup {"order.created"}
  /\ UNCHANGED <<row, refunds, call>>

(* A store checkout or a POS sale creates the order and records its payment  *)
(* in one transaction.  One that finds its order again is RecordKeyed.       *)
Checkout(p, desired) ==
  /\ order = "NONE"
  /\ p \notin Unkeyed /\ desired # "FAILED"
  /\ Record([Now EXCEPT !.order = "PENDING"], p, desired, "PENDING", sent \cup {"order.created"})
  /\ UNCHANGED call

\* Without key or reference the first plain read comes after the lock.
RecordUnkeyed(p, desired) ==
  /\ p \in Unkeyed
  /\ row[p] = "NONE"
  /\ Record(Now, p, desired, order, sent)
  /\ UNCHANGED call

\* findExistingPaymentForReplay: the read that fixes the transaction's view.
LookUpKey(c, p, desired) ==
  /\ call[c] = Idle
  /\ order # "NONE"
  /\ p \notin Unkeyed
  /\ call' = [call EXCEPT ![c] = [op |-> "record", payment |-> p, desired |-> desired,
                                  view |-> Now]]
  /\ UNCHANGED <<order, row, refunds, sent>>

(* The lock is granted and the transaction commits, or it throws and rolls   *)
(* back; a duplicate key answers with the other request's row.               *)
RecordKeyed(c) ==
  /\ call[c].op = "record"
  /\ LET v == call[c].view
         p == call[c].payment
         desired == call[c].desired
     IN  \/ Record(v, p, desired, order, sent)
         \/ ~Accepted(v, p, desired) /\ UNCHANGED <<order, row, refunds, sent>>
  /\ call' = [call EXCEPT ![c] = Idle]

-----------------------------------------------------------------------------
\* Mutant: any payment can be refunded.
RefundAnyPayment(p) ==
  /\ row[p] # "NONE"
  /\ refunds[p] < MaxRefunds
  /\ refunds' = [refunds EXCEPT ![p] = @ + 1]
  /\ order' = IF order \in {"PAID", "COMPLETED"} THEN "REFUNDED" ELSE order
  /\ sent' = sent \cup {"payment.refunded"}
                  \cup (IF order' # order THEN {"order.refunded"} ELSE {})
  /\ UNCHANGED <<row, call>>

(* refundPayment locks the payment before its first plain read, so it sees   *)
(* an earlier refund and returns it.  A refund row is itself SUCCESS and can *)
(* be refunded: what is left to refund is the end of p's chain.              *)
RefundPayment(p) ==
  /\ row[p] = "SUCCESS"
  /\ refunds[p] < MaxRefunds
  /\ refunds' = [refunds EXCEPT ![p] = @ + 1]
  /\ order' = IF order \in {"PAID", "COMPLETED"} THEN "REFUNDED" ELSE order
  /\ sent' = sent \cup {"payment.refunded"}
                  \cup (IF order' # order THEN {"order.refunded"} ELSE {})
  /\ UNCHANGED <<row, call>>

-----------------------------------------------------------------------------
(* markPaid, complete, cancel and markRefunded: a read, a check, and later a *)
(* transaction that writes the status whatever it is by then.                *)
AllowedFrom == [markPaid |-> {"PENDING"}, complete |-> {"PAID"}, cancel |-> {"PENDING"},
                markRefunded |-> {"PAID", "COMPLETED"}]
Writes == [markPaid |-> "PAID", complete |-> "COMPLETED", cancel |-> "CANCELLED",
           markRefunded |-> "REFUNDED"]
Announces == [markPaid |-> "order.paid", complete |-> "order.completed",
              cancel |-> "order.cancelled", markRefunded |-> "order.refunded"]

\* Mutant: administrators also mark orders refunded.
MayCallByHand(op) ==
  \/ op \in {"complete", "cancel", "markRefunded"}
  \/ op = "markPaid" /\ "payment.succeeded.full" \in sent

\* Administrators complete and cancel (and payment.failed cancels); the other two are only
\* called by the handlers of payment events.
MayCall(op) ==
  \/ op \in {"complete", "cancel"}
  \/ op = "markPaid" /\ "payment.succeeded.full" \in sent
  \/ op = "markRefunded" /\ "payment.refunded" \in sent

FindOne(c, op) ==
  /\ call[c] = Idle
  /\ MayCall(op)
  /\ order \in AllowedFrom[op]
  /\ call' = [call EXCEPT ![c] = [op |-> op]]
  /\ UNCHANGED <<order, row, refunds, sent>>

UpdateStatus(c) ==
  /\ call[c].op \in StatusOp
  /\ order' = Writes[call[c].op]
  /\ sent' = sent \cup {Announces[call[c].op]}
  /\ call' = [call EXCEPT ![c] = Idle]
  /\ UNCHANGED <<row, refunds>>

\* The request is dropped, its lock wait times out or its process dies.
Abandon(c) ==
  /\ call[c] # Idle
  /\ call' = [call EXCEPT ![c] = Idle]
  /\ UNCHANGED <<order, row, refunds, sent>>

Next ==
  \/ Create
  \/ \E p \in Payment, desired \in PaymentStatus : Checkout(p, desired)
  \/ \E p \in Payment, desired \in PaymentStatus : RecordUnkeyed(p, desired)
  \/ \E c \in Client, p \in Payment, desired \in PaymentStatus : LookUpKey(c, p, desired)
  \/ \E c \in Client : RecordKeyed(c)
  \/ \E p \in Payment : RefundPayment(p)
  \/ \E c \in Client, op \in StatusOp : FindOne(c, op)
  \/ \E c \in Client : UpdateStatus(c)
  \/ \E c \in Client : Abandon(c)

Spec == Init /\ [][Next]_vars

-----------------------------------------------------------------------------
TypeOK ==
  /\ order \in OrderStatus
  /\ row \in [Payment -> PaymentStatus \cup {"NONE"}]
  /\ refunds \in [Payment -> 0..MaxRefunds]
  /\ sent \subseteq EventName
  /\ call \in [Client -> Call]

(* A payment that has succeeded or failed stays so: two requests that both   *)
(* saw it open (an approval and a retried checkout, say) do not overwrite    *)
(* one another, because the update is conditional on the status as read.     *)
Final(s) == s \in {"SUCCESS", "FAILED"}
FinalStays == [][\A p \in Payment : Final(row[p]) => row'[p] = row[p]]_vars

(* Only a successful payment has a refund, whatever has happened since.      *)
RefundNeedsPayment == \A p \in Payment : refunds[p] > 0 => row[p] = "SUCCESS"

(* Whoever wrote the order's status published the event for it in the same   *)
(* transaction: stock, books and customer hear of every status, and a        *)
(* completed or refunded order was announced as paid before.                 *)
StatusAnnounced ==
  /\ order # "NONE" => "order.created" \in sent
  /\ order \in {"PAID", "COMPLETED", "REFUNDED"} => "order.paid" \in sent
  /\ order = "COMPLETED" => "order.completed" \in sent
  /\ order = "CANCELLED" => "order.cancelled" \in sent
  /\ order = "REFUNDED" => "order.refunded" \in sent

(* order.paid deducts stock and books the sale.  It is never published       *)
(* without a successful payment, also when a replay or a late                *)
(* payment.succeeded publishes it.                                           *)
PaidNeedsPayment ==
  "order.paid" \in sent => \E p \in Payment : row[p] = "SUCCESS"

(* No order is given the status PAID on part of its total: stale sums only   *)
(* ever miss payments.  Refunds are not subtracted here.                     *)
PaidInFull ==
  order \in {"PAID", "COMPLETED", "REFUNDED"} =>
    AmountSum({p \in Payment : row[p] = "SUCCESS"}) >= Total

(* An order is REFUNDED only after one of its payments was refunded.         *)
RefundedNeedsRefund == order = "REFUNDED" => \E p \in Payment : refunds[p] > 0

(* "rejects a new successful payment when the order is already PAID".        *)
NoSecondPayment ==
  [][\A p \in Payment :
       order \in {"PAID", "COMPLETED"} /\ row[p] # "SUCCESS" => row'[p] # "SUCCESS"]_vars

(* "Only pending orders can be cancelled".                                   *)
OnlyPendingIsCancelled == [][order' = "CANCELLED" => order \in {"PENDING", "CANCELLED"}]_vars

\* What a status stands for: PAID and what follows it for the total, REFUNDED for a refund.
StatusMatchesPayments == PaidInFull /\ RefundedNeedsRefund
=============================================================================
