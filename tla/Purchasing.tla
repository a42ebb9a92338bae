------------------------------ MODULE Purchasing ------------------------------
(***************************************************************************)
(* One purchase order and its goods receipts: PurchaseOrdersService and     *)
(* GoodsReceiptsService (modules/purchase-orders, modules/goods-receipts).  *)
(*                                                                          *)
(* A receipt's transaction looks its request key up before it locks the     *)
(* order, so under REPEATABLE READ the order and the received quantities it *)
(* checks are those of the lookup; its increments act on the current rows.  *)
(* The order's own services read the status outside their transaction.      *)
(***************************************************************************)
EXTENDS Integers, FiniteSets, FiniteSetsExt

CONSTANTS
  Item,      \* lines of the order, each with an inventory identity of its own
  Ordered,   \* Ordered[i]: quantity of line i
  Request,   \* goods receipts asked for, one for each request key
  Sum,       \* Sum[r][i]: what the entries of request r for line i add up to
  Largest,   \* Largest[r][i]: the largest of these entries
  Clerk      \* requests in flight; several may carry one key

ASSUME PurchasingAssumption ==
  /\ Ordered \in [Item -> Nat \ {0}]
  /\ Sum \in [Request -> [Item -> Nat]]
  /\ Largest \in [Request -> [Item -> Nat]]
  /\ \A r \in Request, i \in Item :
       Largest[r][i] <= Sum[r][i] /\ (Largest[r][i] = 0 => Sum[r][i] = 0)

VARIABLES
  status,     \* purchase_orders.status; "NONE" before the row exists
  received,   \* received[i]: purchase_order_items.received_quantity
  receipts,   \* the requests that have a row in goods_receipts, and a purchase.received
  announced,  \* purchase order events published
  call        \* call[c]: what c has read and has not acted on yet

vars == <<status, received, receipts, announced, call>>

Status == {"NONE", "DRAFT", "APPROVED", "PARTIALLY_RECEIVED", "RECEIVED", "CANCELLED"}
StatusOp == {"approve", "cancel"}
View == [status : Status, received : [Item -> Nat]]
Idle == [op |-> "idle"]
Call == {Idle} \cup [op : StatusOp] \cup [op : {"receive"}, of : Request, view : View]

Init ==
  /\ status = "NONE"
  /\ received = [i \in Item |-> 0]
  /\ receipts = {}
  /\ announced = {}
  /\ call = [c \in Clerk |-> Idle]

-----------------------------------------------------------------------------
Create ==
  /\ status = "NONE"
  /\ status' = "DRAFT"
  /\ announced' = announced \cup {"created"}
  /\ UNCHANGED <<received, receipts, call>>

\* The check of approve and of cancel, on the row as findOne reads it.
Allowed(op) ==
  \/ op = "approve" /\ status = "DRAFT"
  \/ op = "cancel" /\ status \notin {"NONE", "RECEIVED"}

FindOne(c, op) ==
  /\ call[c] = Idle
  /\ Allowed(op)
  /\ call' = [call EXCEPT ![c] = [op |-> op]]
  /\ UNCHANGED <<status, received, receipts, announced>>

\* Later, whatever the status is by then.
UpdateStatus(c) ==
  /\ call[c].op \in StatusOp
  /\ status' = IF call[c].op = "approve" THEN "APPROVED" ELSE "CANCELLED"
  /\ announced' = announced \cup {IF call[c].op = "approve" THEN "approved" ELSE "cancelled"}
  /\ call' = [call EXCEPT ![c] = Idle]
  /\ UNCHANGED <<received, receipts>>

-----------------------------------------------------------------------------
(* findByRequestKey finds no receipt; a receipt found is the answer.        *)
LookUpKey(c, r) ==
  /\ call[c] = Idle
  /\ status # "NONE"
  /\ r \notin receipts
  /\ call' = [call EXCEPT ![c] =
                [op |-> "receive", of |-> r, view |-> [status |-> status, received |-> received]]]
  /\ UNCHANGED <<status, received, receipts, announced>>

\* Mutants: anything but a cancelled order can receive; the unique key is missing.
ReceivableUnlessCancelled(v, r) ==
  /\ v.status # "CANCELLED"
  /\ \A i \in Item : Largest[r][i] <= Ordered[i] - v.received[i] \/ Largest[r][i] = 0
  /\ r \notin receipts

ReceivableAgain(v, r) ==
  /\ v.status \in {"APPROVED", "PARTIALLY_RECEIVED"}
  /\ \A i \in Item : Largest[r][i] <= Ordered[i] - v.received[i] \/ Largest[r][i] = 0

(* Every entry is compared with the open quantity by itself.                *)
Receivable(v, r) ==
  /\ v.status \in {"APPROVED", "PARTIALLY_RECEIVED"}
  /\ \A i \in Item : Largest[r][i] <= Ordered[i] - v.received[i] \/ Largest[r][i] = 0
  /\ r \notin receipts

\* Mutant: one line that is complete will do.
AnyReceived(v, r) == \E i \in Item : v.received[i] + Sum[r][i] >= Ordered[i]

AllReceived(v, r) == \A i \in Item : v.received[i] + Sum[r][i] >= Ordered[i]

\* Mutant: the quantities are written as they were read, plus the receipt.
AddedToRead(v, r) == [i \in Item |-> v.received[i] + Sum[r][i]]

\* updateReceivedQuantity increments the rows as they are.
Added(v, r) == [i \in Item |-> received[i] + Sum[r][i]]

\* The transaction commits, or it throws and rolls back.
Receive(c) ==
  /\ call[c].op = "receive"
  /\ LET v == call[c].view
         r == call[c].of
     IN  \/ /\ Receivable(v, r)
            /\ receipts' = receipts \cup {r}
            /\ received' = Added(v, r)
            /\ status' = IF AllReceived(v, r) THEN "RECEIVED" ELSE "PARTIALLY_RECEIVED"
         \/ /\ ~Receivable(v, r)
            /\ UNCHANGED <<status, received, receipts>>
  /\ call' = [call EXCEPT ![c] = Idle]
  /\ UNCHANGED announced

\* The request is dropped, its lock wait times out or its process dies.
Abandon(c) ==
  /\ call[c] # Idle
  /\ call' = [call EXCEPT ![c] = Idle]
  /\ UNCHANGED <<status, received, receipts, announced>>

Next ==
  \/ Create
  \/ \E c \in Clerk, op \in StatusOp : FindOne(c, op)
  \/ \E c \in Clerk : UpdateStatus(c)
  \/ \E c \in Clerk, r \in Request : LookUpKey(c, r)
  \/ \E c \in Clerk : Receive(c)
  \/ \E c \in Clerk : Abandon(c)

Spec == Init /\ [][Next]_vars

-----------------------------------------------------------------------------
TypeOK ==
  /\ status \in Status
  /\ received \in [Item -> Nat]
  /\ receipts \subseteq Request
  /\ announced \subseteq {"created", "approved", "cancelled"}
  /\ call \in [Clerk -> Call]

(* What the order says was received is what its receipts, and so the stock   *)
(* and the books that hear of them, say: no receipt counts twice when it is  *)
(* sent twice, and none is lost when two clerks receive at once.             *)
ReceivedMatchesReceipts ==
  \A i \in Item : received[i] = MapThenSumSet(LAMBDA r : Sum[r][i], receipts)

(* An order that is RECEIVED has all its goods, although the status is       *)
(* computed from quantities that may be long out of date.                    *)
ReceivedIsComplete == status = "RECEIVED" => \A i \in Item : received[i] >= Ordered[i]

(* Goods are never received for an order nobody has approved, whatever       *)
(* approvals, cancellations and receipts were in flight together.            *)
GoodsNeedApproval == receipts # {} => "approved" \in announced

(* "Received quantity exceeds open quantity" is thrown for what would make   *)
(* an order's line receive more than was ordered.                            *)
NoOverReceipt == \A i \in Item : received[i] <= Ordered[i]
=============================================================================
