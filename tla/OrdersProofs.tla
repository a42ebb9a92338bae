----------------------------- MODULE OrdersProofs -----------------------------
(***************************************************************************)
(* Theorems about orders: an order and its payments, the checkout that      *)
(* places it, and the evidence of its payments, for any numbers of payments, *)
(* requests, shoppers and images and any amounts.                           *)
(***************************************************************************)
EXTENDS OrderPayments, Checkout, PaymentEvidence, Totals

-----------------------------------------------------------------------------
(* An order and its payments (OrderPayments).                               *)

-----------------------------------------------------------------------------
(* Types.                                                                   *)
LEMMA RecordType ==
  ASSUME TypeOK, NEW v \in View, NEW p \in Payment, NEW desired \in PaymentStatus,
         NEW current \in OrderStatus, NEW published \in SUBSET EventName,
         Record(v, p, desired, current, published)
  PROVE  /\ order' \in OrderStatus
         /\ row' \in [Payment -> PaymentStatus \cup {"NONE"}]
         /\ refunds' \in [Payment -> 0..MaxRefunds]
         /\ sent' \subseteq EventName
  <1>1. OrderAfter(v, p, desired, current) \in OrderStatus
    BY DEF OrderAfter, OrderStatus
  <1>2. NewStatus(v, p, desired) \in PaymentStatus \cup {"NONE"}
    BY DEF NewStatus, TypeOK
  <1>3. PaymentEvents(v, p, desired, current) \subseteq EventName
    BY DEF PaymentEvents
  <1> QED
    BY <1>1, <1>2, <1>3 DEF Record, TypeOK

(* Replacing one call by a well-typed one is well typed.                    *)
LEMMA CallUpdate ==
  ASSUME TypeOK, NEW c \in Client, NEW x \in Call, call' = [call EXCEPT ![c] = x]
  PROVE  call' \in [Client -> Call]
  BY DEF TypeOK

(* No call is a call.                                                       *)
LEMMA IdleIsCall == Idle \in Call
  BY DEF Call

(* The current rows are a possible view.                                    *)
LEMMA NowIsView == TypeOK => Now \in View
  BY DEF TypeOK, Now, View

(* What a recordPayment in flight carries.                                  *)
LEMMA RecordCallType ==
  ASSUME TypeOK, NEW c \in Client, call[c].op = "record"
  PROVE  /\ call[c].view \in View
         /\ call[c].payment \in Payment
         /\ call[c].desired \in PaymentStatus
  BY DEF TypeOK, Call, Idle, StatusOp

(* The variables have their types.                                          *)
THEOREM OrderTypeCorrect == Spec => []TypeOK
  <1>1. Init => TypeOK
    BY IdleIsCall, OrderPaymentsAssumption
       DEF OrderPaymentsAssumption, Init, TypeOK, OrderStatus
  <1>2. TypeOK /\ [Next]_vars => TypeOK'
    <2> SUFFICES ASSUME TypeOK, [Next]_vars PROVE TypeOK'
      OBVIOUS
    <2>1. CASE Create
      BY <2>1 DEF Create, TypeOK, OrderStatus, EventName
    <2>2. ASSUME NEW p \in Payment, NEW desired \in PaymentStatus, Checkout(p, desired)
          PROVE  TypeOK'
      <3>1. [Now EXCEPT !.order = "PENDING"] \in View
        BY NowIsView DEF View, OrderStatus
      <3>2. "PENDING" \in OrderStatus /\ sent \cup {"order.created"} \in SUBSET EventName
        BY DEF OrderStatus, EventName, TypeOK
      <3> QED
        BY <2>2, <3>1, <3>2, RecordType DEF Checkout, TypeOK
    <2>3. ASSUME NEW p \in Payment, NEW desired \in PaymentStatus, RecordUnkeyed(p, desired)
          PROVE  TypeOK'
      <3>1. order \in OrderStatus /\ sent \in SUBSET EventName
        BY DEF TypeOK
      <3> QED
        BY <2>3, <3>1, NowIsView, RecordType DEF RecordUnkeyed, TypeOK
    <2>4. ASSUME NEW c \in Client, NEW p \in Payment, NEW desired \in PaymentStatus,
                 LookUpKey(c, p, desired)
          PROVE  TypeOK'
      <3>1. [op |-> "record", payment |-> p, desired |-> desired, view |-> Now] \in Call
        BY NowIsView DEF Call
      <3> QED
        BY <2>4, <3>1, CallUpdate DEF LookUpKey, TypeOK
    <2>5. ASSUME NEW c \in Client, RecordKeyed(c) PROVE TypeOK'
      <3>1. call' \in [Client -> Call]
        BY <2>5, CallUpdate, IdleIsCall DEF RecordKeyed
      <3>2. CASE UNCHANGED <<order, row, refunds, sent>>
        BY <3>1, <3>2 DEF TypeOK
      <3>3. CASE Record(call[c].view, call[c].payment, call[c].desired, order, sent)
        <4>1. /\ call[c].view \in View /\ call[c].payment \in Payment
              /\ call[c].desired \in PaymentStatus
          BY <2>5, RecordCallType DEF RecordKeyed
        <4>2. order \in OrderStatus /\ sent \in SUBSET EventName
          BY DEF TypeOK
        <4> QED
          BY <3>1, <3>3, <4>1, <4>2, RecordType DEF TypeOK
      <3> QED
        BY <2>5, <3>2, <3>3 DEF RecordKeyed
    <2>6. ASSUME NEW p \in Payment, RefundPayment(p) PROVE TypeOK'
      <3>1. refunds' \in [Payment -> 0..MaxRefunds]
        BY <2>6, OrderPaymentsAssumption
           DEF OrderPaymentsAssumption, RefundPayment, TypeOK
      <3> QED
        BY <2>6, <3>1 DEF RefundPayment, TypeOK, OrderStatus, EventName
    <2>7. ASSUME NEW c \in Client, NEW op \in StatusOp, FindOne(c, op) PROVE TypeOK'
      <3>1. [op |-> op] \in Call
        BY DEF Call
      <3> QED
        BY <2>7, <3>1, CallUpdate DEF FindOne, TypeOK
    <2>8. ASSUME NEW c \in Client, UpdateStatus(c) PROVE TypeOK'
      <3>1. Writes[call[c].op] \in OrderStatus /\ Announces[call[c].op] \in EventName
        BY <2>8 DEF UpdateStatus, StatusOp, Writes, Announces, OrderStatus, EventName
      <3> QED
        BY <2>8, <3>1, CallUpdate, IdleIsCall DEF UpdateStatus, TypeOK
    <2>9. ASSUME NEW c \in Client, Abandon(c) PROVE TypeOK'
      BY <2>9, CallUpdate, IdleIsCall DEF Abandon, TypeOK
    <2>10. CASE UNCHANGED vars
      BY <2>10 DEF vars, TypeOK
    <2> QED
      BY <2>1, <2>2, <2>3, <2>4, <2>5, <2>6, <2>7, <2>8, <2>9, <2>10 DEF Next
  <1> QED
    BY <1>1, <1>2, PTL DEF Spec
-----------------------------------------------------------------------------
(* Safety.  What a call in flight may rely on although it read it long ago: *)
(* a payment it saw final is still so, the money or the refund that let it  *)
(* start is still there, and the events it presupposes were published.      *)
SomeSuccess == \E p \in Payment : row[p] = "SUCCESS"

\* Some payment was refunded.
SomeRefund == \E p \in Payment : refunds[p] > 0

\* What a call in flight has read still holds.
CallInv(c) ==
  /\ call[c] # Idle => "order.created" \in sent
  /\ call[c].op = "record" => \A p \in Payment : Final(call[c].view.row[p])
                                                   => row[p] = call[c].view.row[p]
  /\ call[c].op = "markPaid" => SomeSuccess
  /\ call[c].op \in {"complete", "markRefunded"} => "order.paid" \in sent
  /\ call[c].op = "markRefunded" => SomeRefund

\* Events say what the status says.
EventInv ==
  /\ "payment.succeeded.full" \in sent => SomeSuccess
  /\ "payment.refunded" \in sent => SomeRefund

\* What a step needs and leaves.
OrderInv ==
  /\ StatusAnnounced
  /\ RefundNeedsPayment
  /\ PaidNeedsPayment
  /\ RefundedNeedsRefund
  /\ EventInv
  /\ \A c \in Client : CallInv(c)

\* What every step keeps of payments, refunds and events.
Grows ==
  /\ \A p \in Payment : Final(row[p]) => row'[p] = row[p]
  /\ \A p \in Payment : refunds[p] > 0 => refunds'[p] > 0
  /\ sent \subseteq sent'

(* What a recordPayment that commits does to statuses, refunds and events.  *)
LEMMA RecordFacts ==
  ASSUME TypeOK, NEW v \in View, NEW p \in Payment, NEW desired \in PaymentStatus,
         NEW current \in OrderStatus, NEW published \in SUBSET EventName,
         Record(v, p, desired, current, published),
         \A q \in Payment : Final(v.row[q]) => row[q] = v.row[q],
         sent \subseteq published
  PROVE  /\ Grows
         /\ refunds' = refunds
         /\ sent' = published \cup PaymentEvents(v, p, desired, current)
         /\ order' = OrderAfter(v, p, desired, current)
         /\ v.order \in {"PENDING", "PAID", "COMPLETED"}
  <1>1. NewStatus(v, p, desired) = row[p] \/ ~Final(row[p])
    BY DEF Record, Accepted, NewStatus, Transitions, Finalizable, Final
  <1>2. \A q \in Payment : Final(row[q]) => row'[q] = row[q]
    BY <1>1 DEF Record, TypeOK
  <1> QED
    BY <1>2 DEF Record, Grows, Accepted

\* The transaction saw its payment succeed: by its own write, or in its view, and then it is so.
LEMMA SuccessSeen ==
  ASSUME TypeOK, NEW v \in View, NEW p \in Payment, NEW desired \in PaymentStatus,
         NEW current \in OrderStatus, NEW published \in SUBSET EventName,
         Record(v, p, desired, current, published),
         \A q \in Payment : Final(v.row[q]) => row[q] = v.row[q],
         StatusSeen(v, p, desired) = "SUCCESS",
         Transitions(v, p, desired) \/ Replays(v, p, desired)
  PROVE  row'[p] = "SUCCESS"
  <1>1. row'[p] = NewStatus(v, p, desired)
    BY DEF Record, TypeOK
  <1>2. CASE Transitions(v, p, desired)
    BY <1>1, <1>2 DEF Transitions, StatusSeen, NewStatus
  <1>3. CASE Replays(v, p, desired) /\ ~Transitions(v, p, desired)
    <2>1. v.row[p] = "SUCCESS"
      BY <1>3 DEF Replays, StatusSeen
    <2>2. row[p] = "SUCCESS"
      BY <2>1 DEF Final
    <2> QED
      BY <1>1, <1>3, <2>1, <2>2 DEF NewStatus
  <1> QED
    BY <1>2, <1>3

\* The events of the transaction, read the other way.
LEMMA RecordEvents ==
  ASSUME NEW v \in View, NEW p \in Payment, NEW desired \in PaymentStatus,
         NEW current \in OrderStatus
  PROVE  LET E == PaymentEvents(v, p, desired, current)
             seen == /\ StatusSeen(v, p, desired) = "SUCCESS"
                     /\ Transitions(v, p, desired) \/ Replays(v, p, desired)
             after == OrderAfter(v, p, desired, current)
         IN  /\ "order.paid" \in E => seen
             /\ "payment.succeeded.full" \in E => seen
             /\ "payment.refunded" \notin E
             /\ after # current => /\ current = "PENDING"
                                   /\ \/ after = "PAID" /\ "order.paid" \in E
                                      \/ after = "CANCELLED" /\ "order.cancelled" \in E
  <1>1. /\ "order.paid" \in PaymentEvents(v, p, desired, current)
             => StatusSeen(v, p, desired) = "SUCCESS"
                /\ (Transitions(v, p, desired) \/ Replays(v, p, desired))
        /\ "payment.succeeded.full" \in PaymentEvents(v, p, desired, current)
             => StatusSeen(v, p, desired) = "SUCCESS"
                /\ (Transitions(v, p, desired) \/ Replays(v, p, desired))
        /\ "payment.refunded" \notin PaymentEvents(v, p, desired, current)
    BY DEF PaymentEvents, FullyPaid
  <1>2. ASSUME OrderAfter(v, p, desired, current) # current
        PROVE  /\ current = "PENDING"
               /\ \/ /\ OrderAfter(v, p, desired, current) = "PAID"
                     /\ "order.paid" \in PaymentEvents(v, p, desired, current)
                  \/ /\ OrderAfter(v, p, desired, current) = "CANCELLED"
                     /\ "order.cancelled" \in PaymentEvents(v, p, desired, current)
    <2>1. /\ Transitions(v, p, desired) /\ current = "PENDING"
          /\ \/ desired = "SUCCESS" /\ OrderAfter(v, p, desired, current) = "PAID"
             \/ desired = "FAILED" /\ OrderAfter(v, p, desired, current) = "CANCELLED"
      BY <1>2 DEF OrderAfter
    <2>2. StatusSeen(v, p, desired) = desired
      BY <2>1 DEF StatusSeen
    <2> QED
      BY <1>2, <2>1, <2>2 DEF PaymentEvents, EventName
  <1> QED
    BY <1>1, <1>2

\* What a record does to the invariant, whoever runs it.
LEMMA RecordInv ==
  ASSUME TypeOK, OrderInv, NEW v \in View, NEW p \in Payment, NEW desired \in PaymentStatus,
         NEW current \in OrderStatus, NEW published \in SUBSET EventName,
         Record(v, p, desired, current, published),
         \A q \in Payment : Final(v.row[q]) => row[q] = v.row[q],
         \/ current = order /\ published = sent
         \/ order = "NONE" /\ current = "PENDING" /\ published = sent \cup {"order.created"},
         "order.created" \in published
  PROVE  /\ Grows
         /\ StatusAnnounced' /\ RefundNeedsPayment' /\ PaidNeedsPayment'
         /\ RefundedNeedsRefund' /\ EventInv'
  <1>. DEFINE E == PaymentEvents(v, p, desired, current)
              after == OrderAfter(v, p, desired, current)
  <1>1. /\ Grows /\ refunds' = refunds /\ sent' = published \cup E /\ order' = after
    BY RecordFacts
  <1>2. "order.paid" \in E \/ "payment.succeeded.full" \in E => SomeSuccess'
    BY RecordEvents, SuccessSeen DEF SomeSuccess
  <1>3. /\ "payment.refunded" \notin E
        /\ after # current => /\ current = "PENDING"
                              /\ \/ after = "PAID" /\ "order.paid" \in E
                                 \/ after = "CANCELLED" /\ "order.cancelled" \in E
    BY RecordEvents
  <1>4. SomeSuccess => SomeSuccess'
    BY <1>1 DEF SomeSuccess, Grows, Final
  <1>5. StatusAnnounced'
    <2>1. CASE after = current
      BY <1>1, <2>1 DEF OrderInv, StatusAnnounced
    <2>2. CASE after # current
      BY <1>1, <1>3, <2>2 DEF StatusAnnounced
    <2> QED
      BY <2>1, <2>2
  <1>6. RefundNeedsPayment'
    BY <1>1 DEF OrderInv, RefundNeedsPayment, Grows, Final
  <1>7. PaidNeedsPayment'
    BY <1>1, <1>2, <1>4 DEF OrderInv, PaidNeedsPayment, SomeSuccess
  <1>8. RefundedNeedsRefund'
    BY <1>1, <1>3 DEF OrderInv, RefundedNeedsRefund
  <1>9. EventInv'
    BY <1>1, <1>2, <1>3, <1>4 DEF OrderInv, EventInv, SomeRefund
  <1> QED
    BY <1>1, <1>5, <1>6, <1>7, <1>8, <1>9

\* A client the step does not touch.
LEMMA OtherCalls ==
  ASSUME TypeOK, NEW c \in Client, CallInv(c), Grows, call'[c] = call[c]
  PROVE  CallInv(c)'
  <1>1. call[c].op = "record" => call[c].view \in View
    BY RecordCallType
  <1>2. SomeSuccess => SomeSuccess'
    BY DEF SomeSuccess, Grows, Final
  <1>3. SomeRefund => SomeRefund'
    BY DEF SomeRefund, Grows
  <1>4. ASSUME call[c].op = "record", NEW p \in Payment, Final(call[c].view.row[p])
        PROVE  row'[p] = call[c].view.row[p]
    BY <1>4 DEF CallInv, Grows
  <1> QED
    BY <1>2, <1>3, <1>4 DEF CallInv, Grows

(* A client without a call has nothing to keep.                             *)
LEMMA IdleCalls ==
  ASSUME NEW c \in Client, call'[c] = Idle
  PROVE  CallInv(c)'
  BY DEF CallInv, Idle

(* Every step keeps OrderInv, and statuses, payments and events only grow.  *)
LEMMA OrderStep == TypeOK /\ OrderInv /\ [Next]_vars => OrderInv' /\ Grows
  <1> SUFFICES ASSUME TypeOK, OrderInv, [Next]_vars PROVE OrderInv' /\ Grows
    OBVIOUS
  <1>1. /\ order \in OrderStatus /\ sent \in SUBSET EventName
        /\ order # "NONE" => "order.created" \in sent
        /\ \A c \in Client : CallInv(c)
    BY DEF TypeOK, OrderInv, StatusAnnounced
  <1>2. ASSUME Grows, call' = call PROVE \A c \in Client : CallInv(c)'
    BY <1>1, <1>2, OtherCalls
  <1>3. ASSUME Grows, NEW c \in Client, NEW x, call' = [call EXCEPT ![c] = x], CallInv(c)'
        PROVE  \A d \in Client : CallInv(d)'
    <2> SUFFICES ASSUME NEW d \in Client, d # c PROVE CallInv(d)'
      BY <1>3
    <2>1. call'[d] = call[d]
      BY <1>3 DEF TypeOK
    <2> QED
      BY <1>1, <1>3, <2>1, OtherCalls
  <1>4. CASE Create
    <2>1. Grows /\ call' = call /\ row' = row /\ refunds' = refunds
      BY <1>4 DEF Create, Grows
    <2>2. StatusAnnounced' /\ RefundNeedsPayment' /\ PaidNeedsPayment' /\ RefundedNeedsRefund'
          /\ EventInv'
      BY <1>4 DEF Create, OrderInv, StatusAnnounced, RefundNeedsPayment, PaidNeedsPayment,
                  RefundedNeedsRefund, EventInv, SomeSuccess, SomeRefund
    <2> QED
      BY <1>2, <2>1, <2>2 DEF OrderInv
  <1>5. ASSUME NEW p \in Payment, NEW desired \in PaymentStatus, Checkout(p, desired)
        PROVE  OrderInv' /\ Grows
    <2>1. /\ [Now EXCEPT !.order = "PENDING"] \in View
          /\ [Now EXCEPT !.order = "PENDING"].row = row
      BY NowIsView DEF View, OrderStatus, Now
    <2>2. "PENDING" \in OrderStatus /\ sent \cup {"order.created"} \in SUBSET EventName
      BY <1>1 DEF OrderStatus, EventName
    <2>3. /\ Record([Now EXCEPT !.order = "PENDING"], p, desired, "PENDING",
                    sent \cup {"order.created"})
          /\ order = "NONE" /\ call' = call
      BY <1>5 DEF Checkout
    <2> HIDE DEF Now
    <2>4. /\ Grows
          /\ StatusAnnounced' /\ RefundNeedsPayment' /\ PaidNeedsPayment'
          /\ RefundedNeedsRefund' /\ EventInv'
      BY <2>1, <2>2, <2>3, RecordInv
    <2> QED
      BY <1>2, <2>3, <2>4 DEF OrderInv
  <1>6. ASSUME NEW p \in Payment, NEW desired \in PaymentStatus, RecordUnkeyed(p, desired)
        PROVE  OrderInv' /\ Grows
    <2>1. Now \in View /\ Now.row = row /\ Now.order = order
      BY NowIsView DEF Now
    <2>2. Record(Now, p, desired, order, sent) /\ call' = call
      BY <1>6 DEF RecordUnkeyed
    <2>3. "order.created" \in sent
      BY <1>1, <2>1, <2>2 DEF Record, Accepted
    <2>4. /\ Grows
          /\ StatusAnnounced' /\ RefundNeedsPayment' /\ PaidNeedsPayment'
          /\ RefundedNeedsRefund' /\ EventInv'
      BY <1>1, <2>1, <2>2, <2>3, RecordInv
    <2> QED
      BY <1>2, <2>2, <2>4 DEF OrderInv
  <1>7. ASSUME NEW c \in Client, NEW p \in Payment, NEW desired \in PaymentStatus,
               LookUpKey(c, p, desired)
        PROVE  OrderInv' /\ Grows
    <2>. DEFINE x == [op |-> "record", payment |-> p, desired |-> desired, view |-> Now]
    <2>1. /\ call' = [call EXCEPT ![c] = x] /\ order # "NONE"
          /\ UNCHANGED <<order, row, refunds, sent>>
      BY <1>7 DEF LookUpKey
    <2>2. Grows
      BY <2>1 DEF Grows
    <2>3. call'[c] = x
      BY <2>1 DEF TypeOK
    <2>4. CallInv(c)'
      BY <1>1, <2>1, <2>3 DEF CallInv, Now
    <2>5. \A d \in Client : CallInv(d)'
      BY <1>3, <2>1, <2>2, <2>4
    <2> QED
      BY <2>1, <2>2, <2>5 DEF OrderInv, StatusAnnounced, RefundNeedsPayment,
         PaidNeedsPayment, RefundedNeedsRefund, EventInv, SomeSuccess, SomeRefund
  <1>8. ASSUME NEW c \in Client, call' = [call EXCEPT ![c] = Idle],
               UNCHANGED <<order, row, refunds, sent>>
        PROVE  OrderInv' /\ Grows
    <2>1. Grows
      BY <1>8 DEF Grows
    <2>2. CallInv(c)'
      BY <1>8, IdleCalls DEF TypeOK
    <2>3. \A d \in Client : CallInv(d)'
      BY <1>3, <1>8, <2>1, <2>2
    <2> QED
      BY <1>8, <2>1, <2>3 DEF OrderInv, StatusAnnounced, RefundNeedsPayment,
         PaidNeedsPayment, RefundedNeedsRefund, EventInv, SomeSuccess, SomeRefund
  <1>9. ASSUME NEW c \in Client, RecordKeyed(c) PROVE OrderInv' /\ Grows
    <2>1. /\ call' = [call EXCEPT ![c] = Idle]
          /\ call[c].op = "record"
      BY <1>9 DEF RecordKeyed
    <2>2. CASE UNCHANGED <<order, row, refunds, sent>>
      BY <1>8, <2>1, <2>2
    <2>3. CASE Record(call[c].view, call[c].payment, call[c].desired, order, sent)
      <3>1. /\ call[c].view \in View /\ call[c].payment \in Payment
            /\ call[c].desired \in PaymentStatus
        BY <2>1, RecordCallType
      <3>2. /\ \A q \in Payment : Final(call[c].view.row[q]) => row[q] = call[c].view.row[q]
            /\ "order.created" \in sent
        BY <1>1, <2>1 DEF CallInv, Idle
      <3>3. /\ Grows
            /\ StatusAnnounced' /\ RefundNeedsPayment' /\ PaidNeedsPayment'
            /\ RefundedNeedsRefund' /\ EventInv'
        BY <1>1, <2>3, <3>1, <3>2, RecordInv
      <3>4. CallInv(c)'
        BY <2>1, IdleCalls DEF TypeOK
      <3>5. \A d \in Client : CallInv(d)'
        BY <1>3, <2>1, <3>3, <3>4
      <3> QED
        BY <3>3, <3>5 DEF OrderInv
    <2> QED
      BY <1>9, <2>2, <2>3 DEF RecordKeyed
  <1>10. ASSUME NEW p \in Payment, RefundPayment(p) PROVE OrderInv' /\ Grows
    <2>1. /\ row[p] = "SUCCESS" /\ row' = row /\ call' = call
          /\ \A q \in Payment : refunds'[q] = IF q = p THEN refunds[p] + 1 ELSE refunds[q]
          /\ \A q \in Payment : refunds[q] \in Nat
      BY <1>10, OrderPaymentsAssumption
         DEF OrderPaymentsAssumption, RefundPayment, TypeOK
    <2>2. refunds'[p] > 0 /\ SomeRefund'
      BY <2>1 DEF SomeRefund
    <2>3. Grows
      BY <1>10, <2>1 DEF RefundPayment, Grows
    <2>4. RefundNeedsPayment'
      BY <2>1 DEF OrderInv, RefundNeedsPayment
    <2>5. StatusAnnounced'
      BY <1>10 DEF RefundPayment, OrderInv, StatusAnnounced
    <2>6. PaidNeedsPayment'
      BY <2>1 DEF PaidNeedsPayment
    <2>7. RefundedNeedsRefund' /\ EventInv'
      BY <2>1, <2>2 DEF RefundedNeedsRefund, EventInv, SomeRefund, SomeSuccess
    <2> QED
      BY <1>2, <2>1, <2>3, <2>4, <2>5, <2>6, <2>7 DEF OrderInv
  <1>11. ASSUME NEW c \in Client, NEW op \in StatusOp, FindOne(c, op)
         PROVE  OrderInv' /\ Grows
    <2>1. /\ call' = [call EXCEPT ![c] = [op |-> op]] /\ order \in AllowedFrom[op] /\ MayCall(op)
          /\ UNCHANGED <<order, row, refunds, sent>>
      BY <1>11 DEF FindOne
    <2>2. Grows
      BY <2>1 DEF Grows
    <2>3. call'[c] = [op |-> op]
      BY <2>1 DEF TypeOK
    <2>4. order # "NONE" /\ (op \in {"complete", "markRefunded"} => order \in {"PAID", "COMPLETED"})
      BY <2>1 DEF AllowedFrom, StatusOp
    <2>5. /\ op = "markPaid" => SomeSuccess
          /\ op = "markRefunded" => SomeRefund
          /\ op \in {"complete", "markRefunded"} => "order.paid" \in sent
      BY <2>1, <2>4 DEF MayCall, OrderInv, EventInv, StatusAnnounced
    <2>6. CallInv(c)'
      BY <1>1, <2>1, <2>3, <2>4, <2>5 DEF CallInv, SomeSuccess, SomeRefund, StatusOp
    <2>7. \A d \in Client : CallInv(d)'
      BY <1>3, <2>1, <2>2, <2>6
    <2> QED
      BY <2>1, <2>2, <2>7 DEF OrderInv, StatusAnnounced, RefundNeedsPayment,
         PaidNeedsPayment, RefundedNeedsRefund, EventInv, SomeSuccess, SomeRefund
  <1>12. ASSUME NEW c \in Client, UpdateStatus(c) PROVE OrderInv' /\ Grows
    <2>1. /\ call' = [call EXCEPT ![c] = Idle] /\ row' = row /\ refunds' = refunds
          /\ order' = Writes[call[c].op] /\ sent' = sent \cup {Announces[call[c].op]}
          /\ call[c].op \in StatusOp
      BY <1>12 DEF UpdateStatus
    <2>2. Grows
      BY <2>1 DEF Grows
    <2>3. /\ "order.created" \in sent
          /\ call[c].op = "markPaid" => SomeSuccess
          /\ call[c].op \in {"complete", "markRefunded"} => "order.paid" \in sent
          /\ call[c].op = "markRefunded" => SomeRefund
      <3>1. call[c] # Idle
        BY <2>1 DEF Idle, StatusOp
      <3> QED
        BY <1>1, <3>1 DEF CallInv
    <2>4. StatusAnnounced'
      BY <2>1, <2>3 DEF StatusAnnounced, StatusOp, Writes, Announces
    <2>5. RefundNeedsPayment' /\ RefundedNeedsRefund'
      BY <2>1, <2>3 DEF OrderInv, RefundNeedsPayment, RefundedNeedsRefund, SomeRefund, StatusOp,
                        Writes
    <2>6. PaidNeedsPayment' /\ EventInv'
      BY <2>1, <2>3 DEF OrderInv, PaidNeedsPayment, EventInv, SomeSuccess, SomeRefund, StatusOp,
                        Announces
    <2>7. CallInv(c)'
      BY <2>1, IdleCalls DEF TypeOK
    <2>8. \A d \in Client : CallInv(d)'
      BY <1>3, <2>1, <2>2, <2>7
    <2> QED
      BY <2>2, <2>4, <2>5, <2>6, <2>8 DEF OrderInv
  <1>13. ASSUME NEW c \in Client, Abandon(c) PROVE OrderInv' /\ Grows
    BY <1>8, <1>13 DEF Abandon
  <1>14. CASE UNCHANGED vars
    <2>1. Grows /\ call' = call
      BY <1>14 DEF vars, Grows
    <2> QED
      BY <1>2, <1>14, <2>1 DEF vars, OrderInv, StatusAnnounced, RefundNeedsPayment,
         PaidNeedsPayment, RefundedNeedsRefund, EventInv, SomeSuccess, SomeRefund
  <1> QED
    BY <1>4, <1>5, <1>6, <1>7, <1>9, <1>10, <1>11, <1>12, <1>13, <1>14 DEF Next

(* OrderInv always holds.                                                   *)
LEMMA OrderInvariant == Spec => []OrderInv
  <1>1. Init => OrderInv
    <2> SUFFICES ASSUME Init PROVE OrderInv
      OBVIOUS
    <2>1. /\ order = "NONE" /\ sent = {}
          /\ \A p \in Payment : refunds[p] = 0
          /\ \A c \in Client : call[c] = Idle
      BY DEF Init
    <2>2. \A c \in Client : CallInv(c)
      BY <2>1 DEF CallInv, Idle
    <2> QED
      BY <2>1, <2>2 DEF OrderInv, StatusAnnounced, RefundNeedsPayment, PaidNeedsPayment,
                        RefundedNeedsRefund, EventInv
  <1> QED
    BY <1>1, OrderStep, OrderTypeCorrect, PTL DEF Spec

(* Stock, books and customer are told of every status the order is given.   *)
THEOREM StatusesAreAnnounced == Spec => []StatusAnnounced
  BY OrderInvariant, PTL DEF OrderInv

(* Nothing is shipped or booked as paid without a successful payment.       *)
THEOREM PaidOrdersHavePayments == Spec => []PaidNeedsPayment
  BY OrderInvariant, PTL DEF OrderInv

(* A refund refunds a successful payment, and a refunded order has one.      *)
THEOREM RefundsHavePayments == Spec => [](RefundNeedsPayment /\ RefundedNeedsRefund)
  BY OrderInvariant, PTL DEF OrderInv

(* No request overwrites a payment that has succeeded or failed.             *)
THEOREM FinalPaymentsStay == Spec => FinalStays
  <1>1. TypeOK /\ OrderInv /\ [Next]_vars
          => [\A p \in Payment : Final(row[p]) => row'[p] = row[p]]_vars
    BY OrderStep DEF Grows
  <1> QED
    BY <1>1, OrderTypeCorrect, OrderInvariant, PTL DEF Spec, FinalStays

-----------------------------------------------------------------------------
(* The money.  Sums read long ago only ever miss payments, because a        *)
(* payment that has succeeded stays so; so whoever found the total paid,    *)
(* or relies on an event or a status that says so, is still right.          *)
Succeeded == {p \in Payment : row[p] = "SUCCESS"}

\* The payments that succeeded cover the total.
TotalPaid == AmountSum(Succeeded) >= Total

\* What a step needs and leaves of the money.
MoneyInv ==
  /\ order \in {"PAID", "COMPLETED", "REFUNDED"} => TotalPaid
  /\ "payment.succeeded.full" \in sent => TotalPaid
  /\ \A c \in Client : call[c].op \in {"markPaid", "complete", "markRefunded"} => TotalPaid

\* The sum of a larger set of payments is not smaller.
LEMMA MorePayments ==
  ASSUME NEW P \in SUBSET Payment, NEW Q \in SUBSET P
  PROVE  /\ AmountSum(P) \in Nat /\ AmountSum(Q) \in Nat
         /\ AmountSum(Q) <= AmountSum(P)
  <1>1. \A S : AmountSum(S) = SumOf(Amount, S)
    BY DEF AmountSum, SumOf, MapThenSumSet, MapThenFoldSet
  <1>2. IsFiniteSet(P) /\ IsFiniteSet(Q) /\ \A p \in P : Amount[p] \in Nat
    BY OrderPaymentsAssumption, FS_Subset DEF OrderPaymentsAssumption
  <1>3. SumOf(Amount, P) \in Nat /\ SumOf(Amount, Q) \in Nat
    BY <1>2, TotalNat
  <1>4. SumOf(Amount, Q) <= SumOf(Amount, P)
    BY <1>2, TotalGrows
  <1> QED
    BY <1>1, <1>3, <1>4

\* What has been paid in full stays paid.
LEMMA PaidStays == TypeOK /\ Grows /\ TotalPaid => TotalPaid'
  <1> SUFFICES ASSUME TypeOK, Grows, TotalPaid PROVE TotalPaid'
    OBVIOUS
  <1>1. Succeeded \in SUBSET Succeeded' /\ Succeeded' \in SUBSET Payment
    BY DEF Succeeded, Grows, Final
  <1>2. AmountSum(Succeeded) \in Nat /\ AmountSum(Succeeded') \in Nat
        /\ AmountSum(Succeeded) <= AmountSum(Succeeded')
    BY <1>1, MorePayments
  <1> QED
    BY <1>2, OrderPaymentsAssumption DEF OrderPaymentsAssumption, TotalPaid

\* A transaction that found the total paid, by whatever it saw, was right.
LEMMA SumIsReached ==
  ASSUME TypeOK, NEW v \in View, NEW p \in Payment, NEW desired \in PaymentStatus,
         NEW current \in OrderStatus, NEW published \in SUBSET EventName,
         Record(v, p, desired, current, published), Grows,
         \A q \in Payment : Final(v.row[q]) => row[q] = v.row[q],
         FullyPaid(v, p, desired),
         Transitions(v, p, desired) \/ Replays(v, p, desired)
  PROVE  TotalPaid'
  <1> DEFINE C == Counted(WithPayment(v, p, "SUCCESS"))
  <1>1. row'[p] = "SUCCESS"
    BY SuccessSeen DEF FullyPaid
  <1>2. \A q \in Payment \ {p} : v.row[q] = "SUCCESS" => row'[q] = "SUCCESS"
    BY DEF Grows, Final
  <1>3. C \in SUBSET Succeeded' /\ Succeeded' \in SUBSET Payment
    BY <1>1, <1>2 DEF Counted, WithPayment, Succeeded, View
  <1>4. AmountSum(C) >= Total
    BY DEF FullyPaid, SumSuccessful
  <1>5. AmountSum(C) \in Nat /\ AmountSum(Succeeded') \in Nat
        /\ AmountSum(C) <= AmountSum(Succeeded')
    BY <1>3, MorePayments
  <1> HIDE DEF C
  <1> QED
    BY <1>4, <1>5, OrderPaymentsAssumption DEF OrderPaymentsAssumption, TotalPaid

\* What a record does to the money, whoever runs it.
LEMMA RecordMoney ==
  ASSUME TypeOK, MoneyInv, NEW v \in View, NEW p \in Payment, NEW desired \in PaymentStatus,
         NEW current \in OrderStatus, NEW published \in SUBSET EventName,
         Record(v, p, desired, current, published), Grows,
         \A q \in Payment : Final(v.row[q]) => row[q] = v.row[q],
         \/ current = order /\ published = sent
         \/ current = "PENDING" /\ published = sent \cup {"order.created"}
  PROVE  /\ order' \in {"PAID", "COMPLETED", "REFUNDED"} => TotalPaid'
         /\ "payment.succeeded.full" \in sent' => TotalPaid'
  <1>1. order' = OrderAfter(v, p, desired, current)
        /\ sent' = published \cup PaymentEvents(v, p, desired, current)
    BY DEF Record
  <1>2. TotalPaid => TotalPaid'
    BY PaidStays
  <1>3. ASSUME order' \in {"PAID", "COMPLETED", "REFUNDED"} PROVE TotalPaid'
    <2>1. CASE OrderAfter(v, p, desired, current) = current
      BY <1>1, <1>2, <1>3, <2>1 DEF MoneyInv
    <2>2. CASE OrderAfter(v, p, desired, current) # current
      <3>1. Transitions(v, p, desired) /\ FullyPaid(v, p, desired)
        BY <1>1, <1>3, <2>2 DEF OrderAfter
      <3> QED
        BY <3>1, SumIsReached
    <2> QED
      BY <2>1, <2>2
  <1>4. ASSUME "payment.succeeded.full" \in sent' PROVE TotalPaid'
    <2>1. CASE "payment.succeeded.full" \in published
      BY <1>2, <2>1 DEF MoneyInv
    <2>2. CASE "payment.succeeded.full" \in PaymentEvents(v, p, desired, current)
      <3>1. FullyPaid(v, p, desired) /\ (Transitions(v, p, desired) \/ Replays(v, p, desired))
        BY <2>2 DEF PaymentEvents
      <3> QED
        BY <3>1, SumIsReached
    <2> QED
      BY <1>1, <1>4, <2>1, <2>2
  <1> QED
    BY <1>3, <1>4

\* Every step keeps MoneyInv.
LEMMA MoneyStep == TypeOK /\ OrderInv /\ MoneyInv /\ [Next]_vars => MoneyInv'
  <1> SUFFICES ASSUME TypeOK, OrderInv, MoneyInv, [Next]_vars PROVE MoneyInv'
    OBVIOUS
  <1>1. Grows /\ (TotalPaid => TotalPaid')
    BY OrderStep, PaidStays
  <1> DEFINE Steady == /\ order' \in {"PAID", "COMPLETED", "REFUNDED"} => TotalPaid'
                       /\ "payment.succeeded.full" \in sent' => TotalPaid'
             Relies(x) == x.op \in {"markPaid", "complete", "markRefunded"}
  <1>2. ASSUME Steady, NEW c \in Client, NEW x, call' = [call EXCEPT ![c] = x],
               Relies(x) => TotalPaid'
        PROVE  MoneyInv'
    BY <1>1, <1>2 DEF MoneyInv, TypeOK
  <1>3. ASSUME Steady, call' = call PROVE MoneyInv'
    BY <1>1, <1>3 DEF MoneyInv
  <1>4. ~Relies(Idle)
    BY DEF Idle
  <1>5. ASSUME UNCHANGED <<order, row, refunds, sent>> PROVE Steady
    BY <1>1, <1>5 DEF MoneyInv
  <1>6. order \in OrderStatus /\ sent \in SUBSET EventName
    BY DEF TypeOK
  <1> HIDE DEF Steady, Relies
  <1>7. CASE Create
    BY <1>1, <1>3, <1>7 DEF Create, MoneyInv, Steady
  <1>8. ASSUME NEW p \in Payment, NEW desired \in PaymentStatus, Checkout(p, desired)
        PROVE  MoneyInv'
    <2>1. /\ [Now EXCEPT !.order = "PENDING"] \in View
          /\ [Now EXCEPT !.order = "PENDING"].row = row
      BY NowIsView DEF View, OrderStatus, Now
    <2>2. "PENDING" \in OrderStatus /\ sent \cup {"order.created"} \in SUBSET EventName
      BY <1>6 DEF OrderStatus, EventName
    <2>3. /\ Record([Now EXCEPT !.order = "PENDING"], p, desired, "PENDING",
                    sent \cup {"order.created"})
          /\ call' = call
      BY <1>8 DEF Checkout
    <2> HIDE DEF Now
    <2>4. Steady
      BY <1>1, <2>1, <2>2, <2>3, RecordMoney DEF Steady
    <2> QED
      BY <1>3, <2>3, <2>4
  <1>9. ASSUME NEW p \in Payment, NEW desired \in PaymentStatus, RecordUnkeyed(p, desired)
        PROVE  MoneyInv'
    <2>1. Now \in View /\ Now.row = row
      BY NowIsView DEF Now
    <2>2. Record(Now, p, desired, order, sent) /\ call' = call
      BY <1>9 DEF RecordUnkeyed
    <2>3. Steady
      BY <1>1, <1>6, <2>1, <2>2, RecordMoney DEF Steady
    <2> QED
      BY <1>3, <2>2, <2>3
  <1>10. ASSUME NEW c \in Client, NEW p \in Payment, NEW desired \in PaymentStatus,
                LookUpKey(c, p, desired)
         PROVE  MoneyInv'
    <2> DEFINE x == [op |-> "record", payment |-> p, desired |-> desired, view |-> Now]
    <2>1. ~Relies(x)
      BY DEF Relies
    <2> QED
      BY <1>2, <1>5, <1>10, <2>1 DEF LookUpKey
  <1>11. ASSUME NEW c \in Client, RecordKeyed(c) PROVE MoneyInv'
    <2>1. call' = [call EXCEPT ![c] = Idle] /\ call[c].op = "record"
      BY <1>11 DEF RecordKeyed
    <2>2. CASE UNCHANGED <<order, row, refunds, sent>>
      BY <1>2, <1>4, <1>5, <2>1, <2>2
    <2>3. CASE Record(call[c].view, call[c].payment, call[c].desired, order, sent)
      <3>1. /\ call[c].view \in View /\ call[c].payment \in Payment
            /\ call[c].desired \in PaymentStatus
        BY <2>1, RecordCallType
      <3>2. \A q \in Payment : Final(call[c].view.row[q]) => row[q] = call[c].view.row[q]
        BY <2>1 DEF CallInv, OrderInv
      <3>3. Steady
        BY <1>1, <1>6, <2>3, <3>1, <3>2, RecordMoney DEF Steady
      <3> QED
        BY <1>2, <1>4, <2>1, <3>3
    <2> QED
      BY <1>11, <2>2, <2>3 DEF RecordKeyed
  <1>12. ASSUME NEW p \in Payment, RefundPayment(p) PROVE MoneyInv'
    BY <1>1, <1>3, <1>12 DEF RefundPayment, MoneyInv, Steady
  <1>13. ASSUME NEW c \in Client, NEW op \in StatusOp, FindOne(c, op) PROVE MoneyInv'
    <2>1. Relies([op |-> op]) => TotalPaid'
      BY <1>1, <1>13 DEF FindOne, Relies, AllowedFrom, MayCall, MoneyInv
    <2> QED
      BY <1>2, <1>5, <1>13, <2>1 DEF FindOne
  <1>14. ASSUME NEW c \in Client, UpdateStatus(c) PROVE MoneyInv'
    <2>1. call' = [call EXCEPT ![c] = Idle]
      BY <1>14 DEF UpdateStatus
    <2>2. Steady
      BY <1>1, <1>14 DEF UpdateStatus, StatusOp, Writes, Announces, MoneyInv, Steady
    <2> QED
      BY <1>2, <1>4, <2>1, <2>2
  <1>15. ASSUME NEW c \in Client, Abandon(c) PROVE MoneyInv'
    BY <1>2, <1>4, <1>5, <1>15 DEF Abandon
  <1>16. CASE UNCHANGED vars
    BY <1>3, <1>5, <1>16 DEF vars
  <1> QED
    BY <1>7, <1>8, <1>9, <1>10, <1>11, <1>12, <1>13, <1>14, <1>15, <1>16 DEF Next

(* No order is given the status PAID on part of its total, or REFUNDED       *)
(* without a refund, however many requests pay, cancel and refund it at once *)
(* and whatever sums they have read (PaymentsService, OrdersService).        *)
THEOREM StatusesMatchPayments == Spec => []StatusMatchesPayments
  <1>1. Init => MoneyInv
    BY DEF Init, MoneyInv, Idle
  <1>2. Spec => []MoneyInv
    BY <1>1, MoneyStep, OrderTypeCorrect, OrderInvariant, PTL DEF Spec
  <1>3. OrderInv /\ MoneyInv => StatusMatchesPayments
    BY DEF OrderInv, MoneyInv, StatusMatchesPayments, PaidInFull, TotalPaid, Succeeded
  <1> QED
    BY <1>2, <1>3, OrderInvariant, PTL

-----------------------------------------------------------------------------
(* The checkout (Checkout).  What a call has computed fits what it has read, *)
(* and the voucher's counter counts the orders it was taken off.            *)

\* What a checkout has computed.
Computed == [stage : {"read", "priced"}, key : OrderKey, member : BOOLEAN, voucher : BOOLEAN,
             subtotal : Nat, minimum : Nat, discount : Nat, repriced : BOOLEAN]

\* A discount fits the subtotal it was computed for, and the subtotal the minimum.
FitsSoFar(basket) ==
  /\ basket.discount <= basket.subtotal
  /\ ~basket.repriced => basket.subtotal >= basket.minimum
  /\ basket.stage = "read" => ~basket.repriced

\* Every call in flight has computed a discount that fits.
Shopped == \A w \in Shopper : shopping[w] = NotShopping \/ (shopping[w] \in Computed /\ FitsSoFar(shopping[w]))

\* used_count is the number of discounted orders that still stand, and what was
\* counted twice; it stays under the limit as long as nobody lowers that.
VoucherAddsUp ==
  /\ IsFiniteSet(Discounted)
  /\ voucher.used = Cardinality(Discounted) + repeats
  /\ ~voucher.exists => voucher.used = 0
  /\ ~lowered /\ voucher.limit # NoLimit => voucher.used <= voucher.limit

\* What a step needs and leaves.
CheckoutInv == CheckoutTypeOK /\ shopping \in [Shopper -> {NotShopping} \cup Computed] /\ Shopped
               /\ VoucherAddsUp /\ DiscountFitsOrder

\* Rows of orders and of the voucher.
Order == [status : {"PENDING", "PAID", "CANCELLED"}, subtotal : Nat, discount : Nat,
          voucher : BOOLEAN, minimum : Nat]
Row == [exists : BOOLEAN, active : BOOLEAN, percent : BOOLEAN, value : Nat,
        minimum : Nat, limit : Nat \cup {NoLimit}, used : Nat]

\* Prices are natural numbers.
LEMMA PriceType ==
  ASSUME CheckoutAssumption, CheckoutTypeOK, NEW member \in BOOLEAN
  PROVE  ResolvePrice(member) \in Nat
  BY DEF CheckoutAssumption, CheckoutTypeOK, ResolvePrice

\* A discount is a natural number and at most the subtotal.
LEMMA DiscountType ==
  ASSUME CheckoutTypeOK, NEW subtotal \in Nat
  PROVE  DiscountOf(subtotal) \in Nat /\ DiscountOf(subtotal) <= subtotal
  <1>1. voucher.value \in Nat /\ voucher.percent \in BOOLEAN
    BY DEF CheckoutTypeOK
  <1> DEFINE p == subtotal * voucher.value
             d == IF voucher.percent THEN p \div 100 ELSE voucher.value
  <1>2. p \in Nat
    BY <1>1
  <1>3. d \in Nat
    <2> HIDE DEF p
    <2> QED
      BY <1>1, <1>2
  <1> HIDE DEF d
  <1>4. AtMost(d, subtotal) \in Nat /\ AtMost(d, subtotal) <= subtotal
    BY <1>3 DEF AtMost
  <1> QED
    BY <1>4 DEF d, DiscountOf

\* A price or the voucher changes: calls in flight keep what they have computed.
LEMMA PricesAndVouchers ==
  ASSUME CheckoutAssumption, CheckoutInv,
         \/ \E amount \in PriceSet, on \in BOOLEAN : ChangePrice(amount, on)
         \/ \E minimum \in MinimumSet, limit \in LimitSet :
              \/ \E value \in PercentSet : CreateVoucher(TRUE, value, minimum, limit)
              \/ \E value \in FixedSet : CreateVoucher(FALSE, value, minimum, limit)
              \/ \E active \in BOOLEAN : UpdateVoucher(active, minimum, limit)
  PROVE  CheckoutInv'
  <1>1. CheckoutTypeOK /\ VoucherAddsUp /\ repeats \in Nat
    BY DEF CheckoutInv, CheckoutTypeOK
  <1>2. UNCHANGED <<placed, shopping, changed>> => Shopped' /\ DiscountFitsOrder' /\ Discounted' = Discounted
    BY DEF CheckoutInv, Shopped, DiscountFitsOrder, Discounted, FitsSoFar
  <1>3. ASSUME NEW amount \in PriceSet, NEW on \in BOOLEAN, ChangePrice(amount, on) PROVE CheckoutInv'
    <2>1. UNCHANGED <<voucher, placed, shopping, repeats, lowered, changed>>
      BY <1>3 DEF ChangePrice
    <2>2. CheckoutTypeOK'
      BY <1>1, <1>3 DEF ChangePrice, CheckoutTypeOK
    <2>3. VoucherAddsUp'
      BY <1>1, <1>2, <2>1 DEF VoucherAddsUp
    <2> QED
      BY <1>2, <2>1, <2>2, <2>3 DEF CheckoutInv
  <1>4. ASSUME NEW coupon \in Row, WriteVoucher(coupon), coupon.exists, coupon.used = voucher.used PROVE CheckoutInv'
    <2>1. UNCHANGED <<sellingPrice, promoted, placed, shopping, repeats, changed>> /\ voucher' = coupon
          /\ lowered' = (lowered \/ (coupon.limit # NoLimit /\ coupon.limit < coupon.used))
      BY <1>4 DEF WriteVoucher
    <2>2. coupon.used \in Nat /\ coupon.limit \in Nat \cup {NoLimit} /\ lowered' \in BOOLEAN
      BY <2>1 DEF Row
    <2>3. CheckoutTypeOK'
      BY <1>1, <2>1, <2>2 DEF CheckoutTypeOK, Row
    <2>4. Discounted' = Discounted /\ repeats' = repeats /\ voucher'.used = voucher.used /\ voucher'.exists
      BY <1>2, <1>4, <2>1
    <2>5. IsFiniteSet(Discounted)' /\ voucher'.used = Cardinality(Discounted') + repeats'
      BY <1>1, <2>4 DEF VoucherAddsUp
    <2>6. ~lowered' /\ coupon.limit # NoLimit => coupon.used <= coupon.limit
      <3>1. SUFFICES ASSUME ~lowered', coupon.limit # NoLimit PROVE coupon.used <= coupon.limit
        OBVIOUS
      <3>2. ~ (coupon.limit < coupon.used) /\ coupon.limit \in Nat
        BY <2>1, <2>2, <3>1
      <3> QED
        BY <2>2, <3>2
    <2>7. VoucherAddsUp'
      BY <2>1, <2>4, <2>5, <2>6 DEF VoucherAddsUp
    <2> QED
      BY <1>2, <2>1, <2>3, <2>7 DEF CheckoutInv
  <1>5. ASSUME NEW minimum \in MinimumSet, NEW limit \in LimitSet, NEW percent \in BOOLEAN,
               NEW value \in PercentSet \cup FixedSet, CreateVoucher(percent, value, minimum, limit)
        PROVE  CheckoutInv'
    <2> DEFINE coupon == [exists |-> TRUE, active |-> TRUE, percent |-> percent, value |-> value,
                       minimum |-> minimum, limit |-> limit, used |-> 0]
    <2>1. coupon \in Row /\ WriteVoucher(coupon) /\ coupon.exists /\ coupon.used = 0
      BY <1>5 DEF CreateVoucher, Row, CheckoutAssumption
    <2>2. voucher.used = 0
      BY <1>1, <1>5 DEF CreateVoucher, VoucherAddsUp
    <2> HIDE DEF coupon
    <2> QED
      BY <1>4, <2>1, <2>2
  <1>6. ASSUME NEW minimum \in MinimumSet, NEW limit \in LimitSet, NEW active \in BOOLEAN,
               UpdateVoucher(active, minimum, limit)
        PROVE  CheckoutInv'
    <2> DEFINE coupon == [voucher EXCEPT !.active = active, !.minimum = minimum, !.limit = limit]
    <2>1. coupon \in Row /\ WriteVoucher(coupon) /\ coupon.exists /\ coupon.used = voucher.used
      BY <1>1, <1>6 DEF UpdateVoucher, Row, CheckoutAssumption, CheckoutTypeOK
    <2> HIDE DEF coupon
    <2> QED
      BY <1>4, <2>1
  <1> QED
    BY <1>3, <1>5, <1>6

\* Every step of a checkout keeps the invariant.
LEMMA CheckoutSteps ==
  ASSUME CheckoutAssumption, CheckoutInv, NEW w \in Shopper,
         \/ \E k \in OrderKey, member, withVoucher \in BOOLEAN : CheckoutReads(w, k, member, withVoucher)
         \/ CheckoutPrices(w)
         \/ AbandonCheckout(w)
  PROVE  CheckoutInv'
  <1>1. /\ CheckoutTypeOK /\ VoucherAddsUp /\ DiscountFitsOrder /\ Shopped
        /\ shopping \in [Shopper -> {NotShopping} \cup Computed]
    BY DEF CheckoutInv
  <1>2. ASSUME NEW basket, basket = NotShopping \/ (basket \in Computed /\ FitsSoFar(basket)),
               shopping' = [shopping EXCEPT ![w] = basket],
               UNCHANGED <<sellingPrice, promoted, voucher, placed, repeats, lowered, changed>>
        PROVE  CheckoutInv'
    <2>1. shopping' \in [Shopper -> {NotShopping} \cup Computed]
      BY <1>1, <1>2
    <2>2. \A v \in Shopper : shopping'[v] = IF v = w THEN basket ELSE shopping[v]
      BY <1>1, <1>2
    <2>3. Shopped'
      BY <1>1, <1>2, <2>2 DEF Shopped, FitsSoFar
    <2>4. \A v \in Shopper : shopping'[v].stage \in {"none", "read", "priced"}
      BY <2>1 DEF Computed, NotShopping
    <2>5. CheckoutTypeOK'
      BY <1>1, <1>2, <2>4 DEF CheckoutTypeOK
    <2>6. VoucherAddsUp' /\ DiscountFitsOrder'
      BY <1>1, <1>2 DEF VoucherAddsUp, DiscountFitsOrder, Discounted
    <2> QED
      BY <2>1, <2>3, <2>5, <2>6 DEF CheckoutInv
  <1>3. ASSUME NEW k \in OrderKey, NEW member \in BOOLEAN, NEW withVoucher \in BOOLEAN,
               CheckoutReads(w, k, member, withVoucher)
        PROVE  CheckoutInv'
    <2> DEFINE subtotal == ResolvePrice(member)
               minimum == IF withVoucher THEN voucher.minimum ELSE 0
               discount == IF withVoucher THEN DiscountOf(subtotal) ELSE 0
               basket == [stage |-> "read", key |-> k, member |-> member, voucher |-> withVoucher,
                        subtotal |-> subtotal, minimum |-> minimum, discount |-> discount, repriced |-> FALSE]
    <2>1. subtotal \in Nat
      BY <1>1, PriceType
    <2>2. minimum \in Nat /\ minimum <= subtotal
      BY <1>1, <1>3, <2>1 DEF CheckoutReads, CheckoutTypeOK
    <2>3. discount \in Nat /\ discount <= subtotal
      BY <1>1, <2>1, DiscountType
    <2>4. shopping' = [shopping EXCEPT ![w] = basket]
      BY <1>3 DEF CheckoutReads
    <2>5. UNCHANGED <<sellingPrice, promoted, voucher, placed, repeats, lowered, changed>>
      BY <1>3 DEF CheckoutReads
    <2> HIDE DEF subtotal, minimum, discount
    <2>6. basket \in Computed /\ FitsSoFar(basket)
      BY <2>1, <2>2, <2>3 DEF Computed, FitsSoFar
    <2> HIDE DEF basket
    <2> QED
      BY <1>2, <2>4, <2>5, <2>6
  <1>4. ASSUME CheckoutPrices(w) PROVE CheckoutInv'
    <2> DEFINE old == shopping[w]
               subtotal == ResolvePrice(old.member)
               other == subtotal # old.subtotal
               basket == [old EXCEPT !.stage = "priced", !.member = FALSE, !.subtotal = subtotal,
                                     !.repriced = other]
    <2>1. old \in Computed /\ FitsSoFar(old)
      BY <1>1, <1>4 DEF CheckoutPrices, Shopped, NotShopping
    <2>2. subtotal \in Nat
      BY <1>1, <2>1, PriceType DEF Computed
    <2>3. old.discount <= subtotal
      BY <1>4, <2>1, <2>2 DEF CheckoutPrices, TotalAllowed, Computed
    <2>4. shopping' = [shopping EXCEPT ![w] = basket]
      BY <1>1, <1>4, <2>1 DEF CheckoutPrices
    <2>5. UNCHANGED <<sellingPrice, promoted, voucher, placed, repeats, lowered, changed>>
      BY <1>4 DEF CheckoutPrices
    <2>6. ~old.repriced
      BY <1>4, <2>1 DEF CheckoutPrices, FitsSoFar
    <2> HIDE DEF old, subtotal
    <2>7. basket \in Computed /\ FitsSoFar(basket)
      BY <2>1, <2>2, <2>3, <2>6 DEF Computed, FitsSoFar
    <2> HIDE DEF basket
    <2> QED
      BY <1>2, <2>4, <2>5, <2>7
  <1>5. ASSUME AbandonCheckout(w) PROVE CheckoutInv'
    BY <1>2, <1>5 DEF AbandonCheckout
  <1> QED
    BY <1>3, <1>4, <1>5

\* A checkout that commits: with a new order its voucher discounts one more order, with
\* the order it finds again it counts one more repeat.
LEMMA Commits ==
  ASSUME CheckoutAssumption, CheckoutInv, NEW w \in Shopper, NEW paid \in BOOLEAN,
         CheckoutCommits(w, paid)
  PROVE  CheckoutInv'
  <1> DEFINE basket == shopping[w]
             k == basket.key
             placing == [status |-> IF paid THEN "PAID" ELSE "PENDING", subtotal |-> basket.subtotal,
                       discount |-> basket.discount, voucher |-> basket.voucher, minimum |-> basket.minimum]
  <1>1. /\ CheckoutTypeOK /\ VoucherAddsUp /\ DiscountFitsOrder /\ Shopped
        /\ shopping \in [Shopper -> {NotShopping} \cup Computed]
    BY DEF CheckoutInv
  <1>2. basket \in Computed /\ FitsSoFar(basket)
    BY <1>1 DEF CheckoutCommits, Shopped, NotShopping
  <1>3. k \in OrderKey /\ basket.voucher \in BOOLEAN
    BY <1>2 DEF Computed
  <1>4. /\ sellingPrice \in PriceSet /\ promoted \in BOOLEAN /\ voucher \in Row
        /\ placed \in [OrderKey -> {NoOrder} \cup Order] /\ repeats \in Nat
        /\ lowered \in BOOLEAN /\ changed \subseteq OrderKey
    BY <1>1 DEF CheckoutTypeOK, Row, Order
  <1>5. /\ UNCHANGED <<sellingPrice, promoted, lowered>>
        /\ shopping' = [shopping EXCEPT ![w] = NotShopping]
        /\ voucher' = IF basket.voucher THEN [voucher EXCEPT !.used = voucher.used + 1] ELSE voucher
        /\ basket.voucher => Consumable
    BY DEF CheckoutCommits
  <1>6. /\ voucher' \in Row /\ voucher'.limit = voucher.limit /\ voucher'.exists = voucher.exists
        /\ voucher'.used = IF basket.voucher THEN voucher.used + 1 ELSE voucher.used
    BY <1>4, <1>5 DEF Row
  <1>7. /\ ~voucher'.exists => voucher'.used = 0
        /\ ~lowered' /\ voucher'.limit # NoLimit => voucher'.used <= voucher'.limit
    <2>1. CASE basket.voucher
      <3>1. voucher.limit \in Nat \cup {NoLimit} /\ voucher.used \in Nat
        BY <1>4 DEF Row
      <3> QED
        BY <1>5, <1>6, <2>1, <3>1 DEF Consumable
    <2>2. CASE ~basket.voucher
      BY <1>1, <1>5, <1>6, <2>2 DEF VoucherAddsUp
    <2> QED
      BY <2>1, <2>2
  <1>8. shopping' \in [Shopper -> {NotShopping} \cup Computed] /\ Shopped'
    BY <1>1, <1>5 DEF Shopped, FitsSoFar
  <1>9. \A v \in Shopper : shopping'[v].stage \in {"none", "read", "priced"}
    BY <1>8 DEF Computed, NotShopping
  <1>10. /\ voucher.used = Cardinality(Discounted) + repeats /\ voucher.used \in Nat
         /\ IsFiniteSet(Discounted) /\ Cardinality(Discounted) \in Nat
    BY <1>1, <1>4, FS_CardinalityType DEF VoucherAddsUp, Row
  <1>11. ASSUME placed[k] = NoOrder, placed' = [placed EXCEPT ![k] = placing], repeats' = repeats,
                changed' = IF basket.repriced THEN changed \cup {k} ELSE changed
         PROVE  CheckoutInv'
    <2>1. placing \in Order
      BY <1>2 DEF Computed, Order
    <2>2. placing # NoOrder /\ placing.voucher = basket.voucher
      BY DEF NoOrder
    <2>3. placed' \in [OrderKey -> {NoOrder} \cup Order] /\ changed' \subseteq OrderKey
      BY <1>3, <1>4, <1>11, <2>1
    <2>4. CheckoutTypeOK'
      BY <1>4, <1>5, <1>6, <1>9, <1>11, <2>3 DEF CheckoutTypeOK, Row, Order
    <2>5. \A j \in OrderKey : placed'[j] = IF j = k THEN placing ELSE placed[j]
      BY <1>3, <1>4, <1>11
    <2>6. DiscountFitsOrder'
      <3>1. /\ placing.discount <= placing.subtotal
            /\ k \notin changed' => placing.subtotal >= placing.minimum
        BY <1>2, <1>11 DEF FitsSoFar
      <3>2. changed \subseteq changed'
        BY <1>11
      <3> HIDE DEF placing, k, basket
      <3> QED
        BY <1>1, <2>5, <3>1, <3>2 DEF DiscountFitsOrder
    <2>7. k \notin Discounted /\ Discounted' = IF basket.voucher THEN Discounted \cup {k} ELSE Discounted
      <3> HIDE DEF placing, k, basket
      <3> QED
        BY <1>3, <1>11, <2>2, <2>5 DEF Discounted
    <2>8. IsFiniteSet(Discounted') /\ voucher'.used = Cardinality(Discounted') + repeats'
      <3>1. CASE basket.voucher
        <4>1. IsFiniteSet(Discounted \cup {k}) /\ Cardinality(Discounted \cup {k}) = Cardinality(Discounted) + 1
          BY <1>10, <2>7, FS_AddElement
        <4> HIDE DEF placing, k, basket
        <4> QED
          BY <1>4, <1>6, <1>10, <1>11, <2>7, <3>1, <4>1
      <3>2. CASE ~basket.voucher
        BY <1>6, <1>10, <1>11, <2>7, <3>2
      <3> QED
        BY <3>1, <3>2
    <2>9. VoucherAddsUp'
      BY <1>7, <2>8 DEF VoucherAddsUp
    <2> QED
      BY <1>8, <2>4, <2>6, <2>9 DEF CheckoutInv
  <1>12. ASSUME repeats' = IF basket.voucher THEN repeats + 1 ELSE repeats, UNCHANGED <<placed, changed>>
         PROVE  CheckoutInv'
    <2>1. CheckoutTypeOK'
      BY <1>4, <1>5, <1>6, <1>9, <1>12 DEF CheckoutTypeOK, Row, Order
    <2>2. DiscountFitsOrder' /\ Discounted' = Discounted
      BY <1>1, <1>12 DEF DiscountFitsOrder, Discounted
    <2>3. voucher'.used = Cardinality(Discounted') + repeats'
      BY <1>4, <1>6, <1>10, <1>12, <2>2
    <2>4. VoucherAddsUp'
      BY <1>7, <1>10, <2>2, <2>3 DEF VoucherAddsUp
    <2> QED
      BY <1>8, <2>1, <2>2, <2>4 DEF CheckoutInv
  <1> QED
    BY <1>11, <1>12 DEF CheckoutCommits

\* An order that is cancelled keeps its discount.
LEMMA Cancels ==
  ASSUME CheckoutAssumption, CheckoutInv, NEW k \in OrderKey, CancelPlaced(k)
  PROVE  CheckoutInv'
  <1>1. /\ CheckoutTypeOK /\ VoucherAddsUp /\ DiscountFitsOrder /\ Shopped
        /\ shopping \in [Shopper -> {NotShopping} \cup Computed]
        /\ placed \in [OrderKey -> {NoOrder} \cup Order]
    BY DEF CheckoutInv, CheckoutTypeOK, Order
  <1> DEFINE placing == [placed[k] EXCEPT !.status = "CANCELLED"]
  <1>2. placed[k] \in Order /\ placed[k] # NoOrder
    BY <1>1 DEF CancelPlaced, NoOrder, Order
  <1>3. /\ placing \in Order /\ placing # NoOrder /\ placing.discount = placed[k].discount
        /\ placing.subtotal = placed[k].subtotal /\ placing.minimum = placed[k].minimum
        /\ placing.voucher = placed[k].voucher
    BY <1>2 DEF Order, NoOrder
  <1>4. placed' = [placed EXCEPT ![k] = placing]
        /\ UNCHANGED <<sellingPrice, promoted, voucher, shopping, repeats, lowered, changed>>
    BY <1>1 DEF CancelPlaced
  <1> HIDE DEF placing
  <1>5. placed' \in [OrderKey -> {NoOrder} \cup Order]
        /\ \A j \in OrderKey : placed'[j] = IF j = k THEN placing ELSE placed[j]
    BY <1>1, <1>3, <1>4
  <1>6. Discounted' = Discounted /\ DiscountFitsOrder'
    BY <1>1, <1>2, <1>3, <1>4, <1>5 DEF Discounted, DiscountFitsOrder
  <1>7. CheckoutTypeOK'
    BY <1>1, <1>4, <1>5 DEF CheckoutTypeOK, Order
  <1>8. VoucherAddsUp' /\ Shopped'
    BY <1>1, <1>4, <1>6 DEF VoucherAddsUp, Shopped
  <1> QED
    BY <1>1, <1>4, <1>6, <1>7, <1>8 DEF CheckoutInv

\* Every state of the specification satisfies the invariant.
LEMMA CheckoutInvariant == ASSUME CheckoutAssumption PROVE CheckoutSpec => []CheckoutInv
  <1>1. CheckoutInit => CheckoutInv
    <2> SUFFICES ASSUME CheckoutInit PROVE CheckoutInv
      OBVIOUS
    <2>1. CheckoutTypeOK /\ Shopped /\ DiscountFitsOrder
          /\ shopping \in [Shopper -> {NotShopping} \cup Computed]
      BY DEF CheckoutInit, CheckoutTypeOK, Shopped, DiscountFitsOrder, NotShopping
    <2>2. Discounted = {}
      BY DEF CheckoutInit, Discounted
    <2>3. IsFiniteSet({}) /\ Cardinality({}) = 0
      BY FS_EmptySet
    <2>4. VoucherAddsUp
      BY <2>2, <2>3 DEF CheckoutInit, VoucherAddsUp
    <2> QED
      BY <2>1, <2>4 DEF CheckoutInv
  <1>2. CheckoutInv /\ [CheckoutNext]_checkoutVars => CheckoutInv'
    <2> SUFFICES ASSUME CheckoutInv, [CheckoutNext]_checkoutVars PROVE CheckoutInv'
      OBVIOUS
    <2>1. CASE CheckoutNext
      BY <2>1, PricesAndVouchers, CheckoutSteps, Commits, Cancels DEF CheckoutNext
    <2>2. CASE UNCHANGED checkoutVars
      BY <2>2 DEF checkoutVars, CheckoutInv, CheckoutTypeOK, Shopped, VoucherAddsUp, DiscountFitsOrder,
                  Discounted, FitsSoFar
    <2> QED
      BY <2>1, <2>2
  <1> QED
    BY <1>1, <1>2, PTL DEF CheckoutSpec

\* However checkouts overlap, are repeated, or meet vouchers and prices that are written in
\* between, the voucher's count is its discounted orders and their repeats, within its limit
\* unless that was lowered, and every order's discount and minimum fit it (CheckoutService).
THEOREM CheckoutStaysAddedUp == CheckoutSpec => []CheckoutAddsUp
  <1>1. CheckoutInv => CheckoutAddsUp
    BY DEF CheckoutInv, CheckoutAddsUp, VoucherAddsUp, VoucherCountsOrders
  <1> QED
    BY <1>1, CheckoutAssumption, CheckoutInvariant, PTL

-----------------------------------------------------------------------------
(* The evidence of payments (PaymentEvidence).  EvidenceIsTrue is not       *)
(* inductive: what is accepted last rests on what a request read before, so *)
(* the invariant adds, per subject, what each request knows while it is under *)
(* way: Known for proofs and sessions, Images for the QR image and Callbacks *)
(* for the callback data.                                                   *)

\* Where request d is
At(d, stages) == desk[d].stage \in stages

\* The proof or session a request works on exists, and a proof is marked only
\* after its payment was a success, which it stays.
Known ==
  /\ \A d \in Desk : At(d, {"finalize", "mark"}) => proof[desk[d].proof] # NoProof
  /\ \A d \in Desk : At(d, {"mark"}) => payable[proof[desk[d].proof].of] = "SUCCESS"
  /\ \A d \in Desk : At(d, {"settle", "callback"}) => hosted[desk[d].session] # NoSession

\* Every request names an object of its own, and none deletes an object that is
\* named, or that another request is about to name.
Images ==
  /\ qrImage # NoObject => qrImage \in stored
  /\ \A d \in Desk : At(d, {"image"}) => desk[d].new \in stored /\ desk[d].new # qrImage
  /\ \A d \in Desk : At(d, {"cleanup"}) => desk[d].old # qrImage \/ qrImage = NoObject
  /\ \A d, e \in Desk : At(d, {"image", "cleanup"}) /\ At(e, {"image"}) => desk[d].old # desk[e].new
  /\ \A d, e \in Desk : At(d, {"image"}) /\ At(e, {"image"}) /\ d # e => desk[d].new # desk[e].new

\* The data a callback read is still that of its session, as long as no second
\* callback of the session is under way.
Callbacks ==
  /\ \A s \in Hosted : hosted[s] = NoSession => told[s] = {}
  /\ \A s \in Hosted \ mixed : hosted[s] # NoSession => hosted[s].data = told[s]
  /\ \A d \in Desk : At(d, {"callback"}) /\ desk[d].session \notin mixed =>
       desk[d].data = hosted[desk[d].session].data
  /\ \A d, e \in Desk :
       At(d, {"callback"}) /\ At(e, {"callback"}) /\ desk[d].session = desk[e].session
         /\ desk[d].session \notin mixed => d = e

\* The inductive invariant
EvidenceInv == EvidenceTypeOK /\ EvidenceMeansPaid /\ Known /\ Images /\ Callbacks

\* Every step keeps the types: what a request read before still has them.
LEMMA EvidenceTypeKept == EvidenceInv /\ EvidenceNext => EvidenceTypeOK'
<1> SUFFICES ASSUME EvidenceInv, EvidenceNext PROVE EvidenceTypeOK'
  OBVIOUS
<1> USE PaymentEvidenceAssumption DEF EvidenceInv, EvidenceTypeOK,
      EvidenceMeansPaid, Known, Images, Callbacks, At, Take, GoesOn, NoProof,
      NoSession, AtRest, Callback, Fresh, RecordSuccess, Recordable, Finalize,
      WithCallback, ToDelete
<1>1. ASSUME NEW p \in Payable, NEW status \in {"PENDING", "AWAITING_VERIFICATION"}, CreatePayable(p, status)
      PROVE  EvidenceTypeOK'
  BY <1>1 DEF CreatePayable
<1>2. ASSUME NEW p \in Payable, FailPayable(p)
      PROVE  EvidenceTypeOK'
  BY <1>2 DEF FailPayable
<1>3. ASSUME CloseOrder
      PROVE  EvidenceTypeOK'
  BY <1>3 DEF CloseOrder
<1>4. ASSUME NEW d \in Desk, NEW p \in Payable, UploadReads(d, p)
      PROVE  EvidenceTypeOK'
  BY <1>4 DEF UploadReads
<1>5. ASSUME NEW d \in Desk, NEW p \in Payable, SessionReads(d, p)
      PROVE  EvidenceTypeOK'
  BY <1>5 DEF SessionReads
<1>6. ASSUME NEW d \in Desk, NEW x \in Proof, UploadWrites(d, x)
      PROVE  EvidenceTypeOK'
  BY <1>6 DEF UploadWrites
<1>7. ASSUME NEW d \in Desk, NEW x \in Proof, ApproveReads(d, x)
      PROVE  EvidenceTypeOK'
  BY <1>7 DEF ApproveReads
<1>8. ASSUME NEW x \in Proof, RejectProof(x)
      PROVE  EvidenceTypeOK'
  BY <1>8 DEF RejectProof
<1>9. ASSUME NEW d \in Desk, NEW s \in Hosted, SessionWrites(d, s)
      PROVE  EvidenceTypeOK'
  BY <1>9 DEF SessionWrites
<1>10. ASSUME NEW d \in Desk, NEW s \in Hosted, ConfirmMarks(d, s)
       PROVE  EvidenceTypeOK'
  BY <1>10 DEF ConfirmMarks
<1>11. ASSUME NEW d \in Desk, NEW s \in Hosted, NEW kind \in Callback, CallbackReads(d, s, kind)
       PROVE  EvidenceTypeOK'
  BY <1>11 DEF CallbackReads
<1>12. ASSUME NEW d \in Desk, NEW object \in QrObject, ImageStores(d, object)
       PROVE  EvidenceTypeOK'
  BY <1>12 DEF ImageStores
<1>13. ASSUME NEW d \in Desk, ApproveRecords(d)
       PROVE  EvidenceTypeOK'
  BY <1>13 DEF ApproveRecords
<1>14. ASSUME NEW d \in Desk, ApproveMarks(d)
       PROVE  EvidenceTypeOK'
  BY <1>14 DEF ApproveMarks
<1>15. ASSUME NEW d \in Desk, ConfirmRecords(d)
       PROVE  EvidenceTypeOK'
  BY <1>15 DEF ConfirmRecords
<1>16. ASSUME NEW d \in Desk, CallbackWrites(d)
       PROVE  EvidenceTypeOK'
  BY <1>16 DEF CallbackWrites
<1>17. ASSUME NEW d \in Desk, ImageNamed(d)
       PROVE  EvidenceTypeOK'
  BY <1>17 DEF ImageNamed
<1>18. ASSUME NEW d \in Desk, ImageDeletes(d)
       PROVE  EvidenceTypeOK'
  BY <1>18 DEF ImageDeletes
<1>19. ASSUME NEW d \in Desk, DeskEnds(d)
       PROVE  EvidenceTypeOK'
  BY <1>19 DEF DeskEnds
<1> HIDE PaymentEvidenceAssumption DEF EvidenceInv, EvidenceTypeOK,
      EvidenceMeansPaid, Known, Images, Callbacks, At, Take, GoesOn, NoProof,
      NoSession, AtRest, Callback, Fresh, RecordSuccess, Recordable, Finalize,
      WithCallback, ToDelete
<1> QED
  BY <1>1, <1>2, <1>3, <1>4, <1>5, <1>6, <1>7, <1>8, <1>9, <1>10, <1>11,
     <1>12, <1>13, <1>14, <1>15, <1>16, <1>17, <1>18, <1>19 DEF EvidenceNext

\* No step approves a proof, or leaves a session confirmed, of a payment that
\* neither succeeded nor is being settled nor was given up.
LEMMA EvidenceMeansPaidKept == EvidenceInv /\ EvidenceNext => EvidenceMeansPaid'
<1> SUFFICES ASSUME EvidenceInv, EvidenceNext PROVE EvidenceMeansPaid'
  OBVIOUS
<1> USE PaymentEvidenceAssumption DEF EvidenceInv, EvidenceTypeOK,
      EvidenceMeansPaid, Known, Images, Callbacks, At, Take, GoesOn, NoProof,
      NoSession, AtRest, Callback, Fresh, RecordSuccess, Recordable, Finalize,
      WithCallback, ToDelete
<1>1. ASSUME NEW p \in Payable, NEW status \in {"PENDING", "AWAITING_VERIFICATION"}, CreatePayable(p, status)
      PROVE  EvidenceMeansPaid'
  BY <1>1 DEF CreatePayable
<1>2. ASSUME NEW p \in Payable, FailPayable(p)
      PROVE  EvidenceMeansPaid'
  BY <1>2 DEF FailPayable
<1>3. ASSUME CloseOrder
      PROVE  EvidenceMeansPaid'
  BY <1>3 DEF CloseOrder
<1>4. ASSUME NEW d \in Desk, NEW p \in Payable, UploadReads(d, p)
      PROVE  EvidenceMeansPaid'
  BY <1>4 DEF UploadReads
<1>5. ASSUME NEW d \in Desk, NEW p \in Payable, SessionReads(d, p)
      PROVE  EvidenceMeansPaid'
  BY <1>5 DEF SessionReads
<1>6. ASSUME NEW d \in Desk, NEW x \in Proof, UploadWrites(d, x)
      PROVE  EvidenceMeansPaid'
  BY <1>6 DEF UploadWrites
<1>7. ASSUME NEW d \in Desk, NEW x \in Proof, ApproveReads(d, x)
      PROVE  EvidenceMeansPaid'
  BY <1>7 DEF ApproveReads
<1>8. ASSUME NEW x \in Proof, RejectProof(x)
      PROVE  EvidenceMeansPaid'
  BY <1>8 DEF RejectProof
<1>9. ASSUME NEW d \in Desk, NEW s \in Hosted, SessionWrites(d, s)
      PROVE  EvidenceMeansPaid'
  BY <1>9 DEF SessionWrites
<1>10. ASSUME NEW d \in Desk, NEW s \in Hosted, ConfirmMarks(d, s)
       PROVE  EvidenceMeansPaid'
  BY <1>10 DEF ConfirmMarks
<1>11. ASSUME NEW d \in Desk, NEW s \in Hosted, NEW kind \in Callback, CallbackReads(d, s, kind)
       PROVE  EvidenceMeansPaid'
  BY <1>11 DEF CallbackReads
<1>12. ASSUME NEW d \in Desk, NEW object \in QrObject, ImageStores(d, object)
       PROVE  EvidenceMeansPaid'
  BY <1>12 DEF ImageStores
<1>13. ASSUME NEW d \in Desk, ApproveRecords(d)
       PROVE  EvidenceMeansPaid'
  BY <1>13 DEF ApproveRecords
<1>14. ASSUME NEW d \in Desk, ApproveMarks(d)
       PROVE  EvidenceMeansPaid'
  BY <1>14 DEF ApproveMarks
<1>15. ASSUME NEW d \in Desk, ConfirmRecords(d)
       PROVE  EvidenceMeansPaid'
  BY <1>15 DEF ConfirmRecords
<1>16. ASSUME NEW d \in Desk, CallbackWrites(d)
       PROVE  EvidenceMeansPaid'
  BY <1>16 DEF CallbackWrites
<1>17. ASSUME NEW d \in Desk, ImageNamed(d)
       PROVE  EvidenceMeansPaid'
  BY <1>17 DEF ImageNamed
<1>18. ASSUME NEW d \in Desk, ImageDeletes(d)
       PROVE  EvidenceMeansPaid'
  BY <1>18 DEF ImageDeletes
<1>19. ASSUME NEW d \in Desk, DeskEnds(d)
       PROVE  EvidenceMeansPaid'
  BY <1>19 DEF DeskEnds
<1> HIDE PaymentEvidenceAssumption DEF EvidenceInv, EvidenceTypeOK,
      EvidenceMeansPaid, Known, Images, Callbacks, At, Take, GoesOn, NoProof,
      NoSession, AtRest, Callback, Fresh, RecordSuccess, Recordable, Finalize,
      WithCallback, ToDelete
<1> QED
  BY <1>1, <1>2, <1>3, <1>4, <1>5, <1>6, <1>7, <1>8, <1>9, <1>10, <1>11,
     <1>12, <1>13, <1>14, <1>15, <1>16, <1>17, <1>18, <1>19 DEF EvidenceNext

\* The rows a request read before do not go away, and a success is final.
LEMMA KnownKept == EvidenceInv /\ EvidenceNext => Known'
<1> SUFFICES ASSUME EvidenceInv, EvidenceNext PROVE Known'
  OBVIOUS
<1> USE PaymentEvidenceAssumption DEF EvidenceInv, EvidenceTypeOK,
      EvidenceMeansPaid, Known, Images, Callbacks, At, Take, GoesOn, NoProof,
      NoSession, AtRest, Callback, Fresh, RecordSuccess, Recordable, Finalize,
      WithCallback, ToDelete
<1>1. ASSUME NEW p \in Payable, NEW status \in {"PENDING", "AWAITING_VERIFICATION"}, CreatePayable(p, status)
      PROVE  Known'
  BY <1>1 DEF CreatePayable
<1>2. ASSUME NEW p \in Payable, FailPayable(p)
      PROVE  Known'
  BY <1>2 DEF FailPayable
<1>3. ASSUME CloseOrder
      PROVE  Known'
  BY <1>3 DEF CloseOrder
<1>4. ASSUME NEW d \in Desk, NEW p \in Payable, UploadReads(d, p)
      PROVE  Known'
  BY <1>4 DEF UploadReads
<1>5. ASSUME NEW d \in Desk, NEW p \in Payable, SessionReads(d, p)
      PROVE  Known'
  BY <1>5 DEF SessionReads
<1>6. ASSUME NEW d \in Desk, NEW x \in Proof, UploadWrites(d, x)
      PROVE  Known'
  BY <1>6 DEF UploadWrites
<1>7. ASSUME NEW d \in Desk, NEW x \in Proof, ApproveReads(d, x)
      PROVE  Known'
  BY <1>7 DEF ApproveReads
<1>8. ASSUME NEW x \in Proof, RejectProof(x)
      PROVE  Known'
  BY <1>8 DEF RejectProof
<1>9. ASSUME NEW d \in Desk, NEW s \in Hosted, SessionWrites(d, s)
      PROVE  Known'
  BY <1>9 DEF SessionWrites
<1>10. ASSUME NEW d \in Desk, NEW s \in Hosted, ConfirmMarks(d, s)
       PROVE  Known'
  <2>1. hosted[s].status = "PENDING" /\ hosted[s] # NoSession
    BY <1>10 DEF ConfirmMarks
  <2>2. \A t \in Hosted : hosted'[t] # NoSession <=> hosted[t] # NoSession
    BY <1>10, <2>1 DEF ConfirmMarks
  <2>3. \A t \in Hosted : hosted'[t] # NoSession => hosted'[t].data = hosted[t].data
    BY <1>10, <2>1, <2>2 DEF ConfirmMarks
  <2>4. \A e \in Desk : \/ desk'[e] = desk[e]
                        \/ desk'[e].stage = "settle" /\ desk'[e].session = s
    BY <1>10 DEF ConfirmMarks
  <2>5. UNCHANGED <<payable, proof, qrImage, stored, told, mixed>>
    BY <1>10 DEF ConfirmMarks
  <2> QED
    BY <2>1, <2>2, <2>4, <2>5
<1>11. ASSUME NEW d \in Desk, NEW s \in Hosted, NEW kind \in Callback, CallbackReads(d, s, kind)
       PROVE  Known'
  BY <1>11 DEF CallbackReads
<1>12. ASSUME NEW d \in Desk, NEW object \in QrObject, ImageStores(d, object)
       PROVE  Known'
  BY <1>12 DEF ImageStores
<1>13. ASSUME NEW d \in Desk, ApproveRecords(d)
       PROVE  Known'
  BY <1>13 DEF ApproveRecords
<1>14. ASSUME NEW d \in Desk, ApproveMarks(d)
       PROVE  Known'
  BY <1>14 DEF ApproveMarks
<1>15. ASSUME NEW d \in Desk, ConfirmRecords(d)
       PROVE  Known'
  BY <1>15 DEF ConfirmRecords
<1>16. ASSUME NEW d \in Desk, CallbackWrites(d)
       PROVE  Known'
  BY <1>16 DEF CallbackWrites
<1>17. ASSUME NEW d \in Desk, ImageNamed(d)
       PROVE  Known'
  BY <1>17 DEF ImageNamed
<1>18. ASSUME NEW d \in Desk, ImageDeletes(d)
       PROVE  Known'
  BY <1>18 DEF ImageDeletes
<1>19. ASSUME NEW d \in Desk, DeskEnds(d)
       PROVE  Known'
  BY <1>19 DEF DeskEnds
<1> HIDE PaymentEvidenceAssumption DEF EvidenceInv, EvidenceTypeOK,
      EvidenceMeansPaid, Known, Images, Callbacks, At, Take, GoesOn, NoProof,
      NoSession, AtRest, Callback, Fresh, RecordSuccess, Recordable, Finalize,
      WithCallback, ToDelete
<1> QED
  BY <1>1, <1>2, <1>3, <1>4, <1>5, <1>6, <1>7, <1>8, <1>9, <1>10, <1>11,
     <1>12, <1>13, <1>14, <1>15, <1>16, <1>17, <1>18, <1>19 DEF EvidenceNext

\* A new object has a name that no one knows, so overlapping updates of the
\* image never name, or delete, each other's.
LEMMA ImagesKept == EvidenceInv /\ EvidenceNext => Images'
<1> SUFFICES ASSUME EvidenceInv, EvidenceNext PROVE Images'
  OBVIOUS
<1> USE PaymentEvidenceAssumption DEF EvidenceInv, EvidenceTypeOK,
      EvidenceMeansPaid, Known, Images, Callbacks, At, Take, GoesOn, NoProof,
      NoSession, AtRest, Callback, Fresh, RecordSuccess, Recordable, Finalize,
      WithCallback, ToDelete
<1>1. ASSUME NEW p \in Payable, NEW status \in {"PENDING", "AWAITING_VERIFICATION"}, CreatePayable(p, status)
      PROVE  Images'
  BY <1>1 DEF CreatePayable
<1>2. ASSUME NEW p \in Payable, FailPayable(p)
      PROVE  Images'
  BY <1>2 DEF FailPayable
<1>3. ASSUME CloseOrder
      PROVE  Images'
  BY <1>3 DEF CloseOrder
<1>4. ASSUME NEW d \in Desk, NEW p \in Payable, UploadReads(d, p)
      PROVE  Images'
  BY <1>4 DEF UploadReads
<1>5. ASSUME NEW d \in Desk, NEW p \in Payable, SessionReads(d, p)
      PROVE  Images'
  BY <1>5 DEF SessionReads
<1>6. ASSUME NEW d \in Desk, NEW x \in Proof, UploadWrites(d, x)
      PROVE  Images'
  BY <1>6 DEF UploadWrites
<1>7. ASSUME NEW d \in Desk, NEW x \in Proof, ApproveReads(d, x)
      PROVE  Images'
  BY <1>7 DEF ApproveReads
<1>8. ASSUME NEW x \in Proof, RejectProof(x)
      PROVE  Images'
  BY <1>8 DEF RejectProof
<1>9. ASSUME NEW d \in Desk, NEW s \in Hosted, SessionWrites(d, s)
      PROVE  Images'
  BY <1>9 DEF SessionWrites
<1>10. ASSUME NEW d \in Desk, NEW s \in Hosted, ConfirmMarks(d, s)
       PROVE  Images'
  <2>1. \A e \in Desk : desk'[e] = desk[e] \/ desk'[e].stage = "settle"
    BY <1>10 DEF ConfirmMarks
  <2>2. UNCHANGED <<qrImage, stored>>
    BY <1>10 DEF ConfirmMarks
  <2> QED
    BY <2>1, <2>2
<1>11. ASSUME NEW d \in Desk, NEW s \in Hosted, NEW kind \in Callback, CallbackReads(d, s, kind)
       PROVE  Images'
  BY <1>11 DEF CallbackReads
<1>12. ASSUME NEW d \in Desk, NEW object \in QrObject, ImageStores(d, object)
       PROVE  Images'
  BY <1>12 DEF ImageStores
<1>13. ASSUME NEW d \in Desk, ApproveRecords(d)
       PROVE  Images'
  BY <1>13 DEF ApproveRecords
<1>14. ASSUME NEW d \in Desk, ApproveMarks(d)
       PROVE  Images'
  BY <1>14 DEF ApproveMarks
<1>15. ASSUME NEW d \in Desk, ConfirmRecords(d)
       PROVE  Images'
  BY <1>15 DEF ConfirmRecords
<1>16. ASSUME NEW d \in Desk, CallbackWrites(d)
       PROVE  Images'
  BY <1>16 DEF CallbackWrites
<1>17. ASSUME NEW d \in Desk, ImageNamed(d)
       PROVE  Images'
  BY <1>17 DEF ImageNamed
<1>18. ASSUME NEW d \in Desk, ImageDeletes(d)
       PROVE  Images'
  BY <1>18 DEF ImageDeletes
<1>19. ASSUME NEW d \in Desk, DeskEnds(d)
       PROVE  Images'
  BY <1>19 DEF DeskEnds
<1> HIDE PaymentEvidenceAssumption DEF EvidenceInv, EvidenceTypeOK,
      EvidenceMeansPaid, Known, Images, Callbacks, At, Take, GoesOn, NoProof,
      NoSession, AtRest, Callback, Fresh, RecordSuccess, Recordable, Finalize,
      WithCallback, ToDelete
<1> QED
  BY <1>1, <1>2, <1>3, <1>4, <1>5, <1>6, <1>7, <1>8, <1>9, <1>10, <1>11,
     <1>12, <1>13, <1>14, <1>15, <1>16, <1>17, <1>18, <1>19 DEF EvidenceNext

\* A write of callback data loses nothing of a session that is not mixed.
LEMMA CallbacksKept == EvidenceInv /\ EvidenceNext => Callbacks'
<1> SUFFICES ASSUME EvidenceInv, EvidenceNext PROVE Callbacks'
  OBVIOUS
<1> USE PaymentEvidenceAssumption DEF EvidenceInv, EvidenceTypeOK,
      EvidenceMeansPaid, Known, Images, Callbacks, At, Take, GoesOn, NoProof,
      NoSession, AtRest, Callback, Fresh, RecordSuccess, Recordable, Finalize,
      WithCallback, ToDelete
<1>1. ASSUME NEW p \in Payable, NEW status \in {"PENDING", "AWAITING_VERIFICATION"}, CreatePayable(p, status)
      PROVE  Callbacks'
  BY <1>1 DEF CreatePayable
<1>2. ASSUME NEW p \in Payable, FailPayable(p)
      PROVE  Callbacks'
  BY <1>2 DEF FailPayable
<1>3. ASSUME CloseOrder
      PROVE  Callbacks'
  BY <1>3 DEF CloseOrder
<1>4. ASSUME NEW d \in Desk, NEW p \in Payable, UploadReads(d, p)
      PROVE  Callbacks'
  BY <1>4 DEF UploadReads
<1>5. ASSUME NEW d \in Desk, NEW p \in Payable, SessionReads(d, p)
      PROVE  Callbacks'
  BY <1>5 DEF SessionReads
<1>6. ASSUME NEW d \in Desk, NEW x \in Proof, UploadWrites(d, x)
      PROVE  Callbacks'
  BY <1>6 DEF UploadWrites
<1>7. ASSUME NEW d \in Desk, NEW x \in Proof, ApproveReads(d, x)
      PROVE  Callbacks'
  BY <1>7 DEF ApproveReads
<1>8. ASSUME NEW x \in Proof, RejectProof(x)
      PROVE  Callbacks'
  BY <1>8 DEF RejectProof
<1>9. ASSUME NEW d \in Desk, NEW s \in Hosted, SessionWrites(d, s)
      PROVE  Callbacks'
  BY <1>9 DEF SessionWrites
<1>10. ASSUME NEW d \in Desk, NEW s \in Hosted, ConfirmMarks(d, s)
       PROVE  Callbacks'
  BY <1>10 DEF ConfirmMarks
<1>11. ASSUME NEW d \in Desk, NEW s \in Hosted, NEW kind \in Callback, CallbackReads(d, s, kind)
       PROVE  Callbacks'
  BY <1>11 DEF CallbackReads
<1>12. ASSUME NEW d \in Desk, NEW object \in QrObject, ImageStores(d, object)
       PROVE  Callbacks'
  BY <1>12 DEF ImageStores
<1>13. ASSUME NEW d \in Desk, ApproveRecords(d)
       PROVE  Callbacks'
  BY <1>13 DEF ApproveRecords
<1>14. ASSUME NEW d \in Desk, ApproveMarks(d)
       PROVE  Callbacks'
  BY <1>14 DEF ApproveMarks
<1>15. ASSUME NEW d \in Desk, ConfirmRecords(d)
       PROVE  Callbacks'
  BY <1>15 DEF ConfirmRecords
<1>16. ASSUME NEW d \in Desk, CallbackWrites(d)
       PROVE  Callbacks'
  <2> DEFINE t == desk[d].session
  <2>1. /\ desk[d].stage = "callback" /\ t \in Hosted /\ hosted[t] # NoSession
        /\ hosted[t].data \subseteq Callback
    BY <1>16 DEF CallbackWrites
  <2>2. /\ hosted' = [hosted EXCEPT ![t] = [hosted[t] EXCEPT !.data = desk[d].data \cup {desk[d].kind}]]
    BY <1>16 DEF CallbackWrites
  <2>3. \A u \in Hosted : u # t => hosted'[u] = hosted[u] /\ told'[u] = told[u]
    BY <1>16, <2>2 DEF CallbackWrites
  <2>4. told'[t] = told[t] \cup {desk[d].kind}
    BY <1>16, <2>1 DEF CallbackWrites
  <2>5. hosted'[t].data = desk[d].data \cup {desk[d].kind} /\ hosted'[t] # NoSession
    BY <2>1, <2>2
  <2>6. \A e \in Desk : e # d => desk'[e] = desk[e]
    BY <1>16 DEF CallbackWrites
  <2>7. desk'[d].stage = "none" /\ mixed' = mixed
    BY <1>16 DEF CallbackWrites
  <2>8. \A u \in Hosted : hosted'[u] = NoSession => told'[u] = {}
    BY <2>3, <2>5
  <2>9. \A u \in Hosted \ mixed' : hosted'[u] # NoSession => hosted'[u].data = told'[u]
    <3> SUFFICES ASSUME NEW u \in Hosted, u \notin mixed, hosted'[u] # NoSession
                 PROVE  hosted'[u].data = told'[u]
      BY <2>7
    <3>1. CASE u = t
      <4>1. desk[d].data = hosted[t].data /\ hosted[t].data = told[t]
        BY <2>1, <3>1
      <4> QED
        BY ONLY <2>4, <2>5, <3>1, <4>1
    <3>2. CASE u # t
      <4>1. hosted'[u] = hosted[u] /\ told'[u] = told[u]
        BY <2>3, <3>2
      <4> QED
        BY <4>1
    <3> QED
      BY <3>1, <3>2
  <2>10. \A e \in Desk : desk'[e].stage = "callback" =>
           e # d /\ desk'[e] = desk[e] /\ desk[e].session \in Hosted
    BY <2>6, <2>7
  <2>11. \A e \in Desk : desk'[e].stage = "callback" /\ desk'[e].session \notin mixed' =>
           desk[e].session # t
    BY <2>1, <2>7, <2>10
  <2> QED
    BY <2>3, <2>7, <2>8, <2>9, <2>10, <2>11
<1>17. ASSUME NEW d \in Desk, ImageNamed(d)
       PROVE  Callbacks'
  BY <1>17 DEF ImageNamed
<1>18. ASSUME NEW d \in Desk, ImageDeletes(d)
       PROVE  Callbacks'
  BY <1>18 DEF ImageDeletes
<1>19. ASSUME NEW d \in Desk, DeskEnds(d)
       PROVE  Callbacks'
  BY <1>19 DEF DeskEnds
<1> HIDE PaymentEvidenceAssumption DEF EvidenceInv, EvidenceTypeOK,
      EvidenceMeansPaid, Known, Images, Callbacks, At, Take, GoesOn, NoProof,
      NoSession, AtRest, Callback, Fresh, RecordSuccess, Recordable, Finalize,
      WithCallback, ToDelete
<1> QED
  BY <1>1, <1>2, <1>3, <1>4, <1>5, <1>6, <1>7, <1>8, <1>9, <1>10, <1>11,
     <1>12, <1>13, <1>14, <1>15, <1>16, <1>17, <1>18, <1>19 DEF EvidenceNext

-----------------------------------------------------------------------------
\* Nothing is handed in, confirmed or shown at the start.
LEMMA EvidenceStarts == EvidenceInit => EvidenceInv
  BY PaymentEvidenceAssumption
  DEF EvidenceInit, EvidenceInv, EvidenceTypeOK, EvidenceMeansPaid, Known, Images,
      Callbacks, At, NoProof, NoSession, AtRest, Callback

\* A step that changes nothing here keeps it.
LEMMA EvidenceStutters == EvidenceInv /\ UNCHANGED evidenceVars => EvidenceInv'
  BY DEF EvidenceInv, EvidenceTypeOK, EvidenceMeansPaid, Known, Images, Callbacks, At,
         evidenceVars

\* The strengthened invariant holds in every reachable state.
THEOREM EvidenceInvariant == EvidenceSpec => []EvidenceInv
<1>1. EvidenceInv /\ [EvidenceNext]_evidenceVars => EvidenceInv'
  BY EvidenceTypeKept, EvidenceMeansPaidKept, KnownKept, ImagesKept, CallbacksKept,
     EvidenceStutters DEF EvidenceInv
<1> QED
  BY EvidenceStarts, <1>1, PTL DEF EvidenceSpec

\* For any payments, proofs, sessions, images and requests: an approved proof
\* stands for a payment that succeeded, a confirmed session for one that did, is
\* about to, or whose request stopped; the image shown exists; and no callback of
\* a session is lost unless two were handled at once.
THEOREM EvidenceAlwaysTrue == EvidenceSpec => []EvidenceIsTrue
<1>1. EvidenceInv => EvidenceIsTrue
  BY DEF EvidenceInv, EvidenceIsTrue, EvidenceIsKept, Images, Callbacks
<1> QED
  BY EvidenceInvariant, <1>1, PTL
===============================================================================
