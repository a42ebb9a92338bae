------------------------------- MODULE Inventory -------------------------------
(***************************************************************************)
(* The stock of one stock item without unique assets: InventoryService with *)
(* its repository, FifoService and BatchService, and the handlers of order  *)
(* and refund events (modules/inventory, inventory-fifo, inventory-batch).  *)
(*                                                                          *)
(* Every operation is one transaction under REPEATABLE READ.  It reads the  *)
(* identity, movement or reservation rows first, which fixes what its plain *)
(* reads show; then upsertItem waits for the lock of the product's row; its *)
(* writes are conditional on the current rows.  Begin... is the first read, *)
(* the action named for the operation is the commit, and Rollback is every  *)
(* way of not committing.  A call that finds nothing to do is not modelled. *)
(***************************************************************************)
EXTENDS Integers, FiniteSets, Sequences, FiniteSetsExt

CONSTANTS
  Line,       \* order lines of the stock item
  Receipt,    \* stockIn calls of a purchase's lines, one for each event key
  Return,     \* restocks, one for each refund payment and line
  Gain,       \* adjustStock calls with a positive delta
  Loss,       \* adjustStock calls with a negative delta
  Restocks,   \* Restocks[r]: the line that return r restocks
  Qty,        \* base quantity of each of them
  Expiry,     \* Expiry[b]: the day batch b expires; LastDay + 1 if it has no expiry date
  LastDay,    \* bound on the days that pass
  Ordered,    \* lines of orders none of whose events is handled before order.created is settled
  Worker      \* transactions in flight

Batch == Receipt \cup Return \cup Gain    \* every inbound movement makes a batch
Request == Gain \cup Loss                 \* one HTTP request each, without an event key
Movement == Line \cup Batch \cup Loss

ASSUME InventoryAssumption ==
  /\ Restocks \in [Return -> Line]
  /\ Qty \in [Movement -> Nat \ {0}]
  /\ \A r \in Return : Qty[r] = Qty[Restocks[r]]
  /\ LastDay \in Nat
  /\ Expiry \in [Batch -> 1..(LastDay + 1)]
  /\ \A b \in Batch \ Receipt : Expiry[b] = LastDay + 1
  /\ Ordered \subseteq Line
  /\ Receipt \cap (Return \cup Gain) = {} /\ Return \cap Gain = {}
  /\ Batch \cap (Line \cup Loss) = {} /\ Line \cap Loss = {}
  /\ IsFiniteSet(Movement)

VARIABLES
  onHand,       \* inventory_items.quantity_on_hand
  reserved,     \* inventory_items.reserved_quantity
  received,     \* the batches in the order of their created_at; empty: no inventory_items row
  remaining,    \* remaining[b]: inventory_batches.quantity_remaining; 0 before b exists
  moved,        \* rows of inventory_movements
  reservation,  \* reservation[l]: status of the reservation row of l; "NONE" without row
  stage,        \* stage[l]: how far the order.created event of l's order has come
  today,        \* the clock, as far as expiry dates go
  tx            \* tx[w]: what w's transaction has read

vars == <<onHand, reserved, received, remaining, moved, reservation, stage, today, tx>>
stock == <<onHand, reserved, received, remaining, moved, reservation>>

Idle == [op |-> "idle"]
Tx ==
  {Idle}
  \cup [op : {"reserve"}, of : Line, available : Int]
  \cup [op : {"release"}, of : Line]
  \cup [op : {"deduct"}, of : Line, done : BOOLEAN, held : BOOLEAN, remaining : [Batch -> Nat]]
  \cup [op : {"in"}, of : Batch, first : BOOLEAN]
  \cup [op : {"out"}, of : Loss, remaining : [Batch -> Nat]]

Init ==
  /\ onHand = 0
  /\ reserved = 0
  /\ received = <<>>
  /\ remaining = [b \in Batch |-> 0]
  /\ moved = {}
  /\ reservation = [l \in Line |-> "NONE"]
  /\ stage = [l \in Line |-> "none"]
  /\ today = 0
  /\ tx = [w \in Worker |-> Idle]

Total(S, f) == MapThenSumSet(LAMBDA x : f[x], S)

-----------------------------------------------------------------------------
(* Events of the order.  Except for the lines of Ordered they may reach      *)
(* their handlers in any order and any number of times.                     *)
Publish(l) ==
  /\ stage[l] = "none"
  /\ stage' = [stage EXCEPT ![l] = "sent"]
  /\ UNCHANGED <<stock, today, tx>>

\* order.created is PROCESSED or a dead letter, and no instance is still handling it.
Settle(l) ==
  /\ l \in Ordered
  /\ stage[l] = "sent"
  /\ \A w \in Worker : ~(tx[w].op = "reserve" /\ tx[w].of = l)
  /\ stage' = [stage EXCEPT ![l] = "settled"]
  /\ UNCHANGED <<stock, today, tx>>

MayReserve(l) == stage[l] = "sent"
MayFollow(l) == stage[l] = IF l \in Ordered THEN "settled" ELSE "sent"

-----------------------------------------------------------------------------
Begin(w, t) ==
  /\ tx[w] = Idle
  /\ tx' = [tx EXCEPT ![w] = t]
  /\ UNCHANGED <<stock, stage, today>>

BeginReserve(w, l) ==
  /\ MayReserve(l)
  /\ reservation[l] = "NONE"
  /\ Begin(w, [op |-> "reserve", of |-> l, available |-> onHand - reserved])

BeginRelease(w, l) ==
  /\ MayFollow(l)
  /\ reservation[l] = "ACTIVE"
  /\ Begin(w, [op |-> "release", of |-> l])

BeginDeduct(w, l) ==
  LET held == reservation[l] = "ACTIVE" IN
  /\ MayFollow(l)
  /\ l \notin moved \/ held
  /\ Begin(w, [op |-> "deduct", of |-> l, done |-> l \in moved, held |-> held,
               remaining |-> remaining])

\* A request is one call; an event or a purchase may be delivered to several instances.
NotRunning(m) == \A w \in Worker : ~(tx[w].op \in {"in", "out"} /\ tx[w].of = m)

BeginIn(w, b) ==
  /\ b \notin moved
  /\ b \in Return => MayFollow(Restocks[b])
  /\ b \in Request => NotRunning(b)
  /\ Begin(w, [op |-> "in", of |-> b, first |-> received = <<>>])

BeginOut(w, a) ==
  /\ a \notin moved
  /\ NotRunning(a)
  /\ Begin(w, [op |-> "out", of |-> a, remaining |-> remaining])

End(w) == tx' = [tx EXCEPT ![w] = Idle]

-----------------------------------------------------------------------------
(* findFifoBatches: what has not expired, first by expiry date, then by      *)
(* created_at, and batches without expiry date last.                        *)
Fresh(b) == today < Expiry[b]

Arrived(b, c) == \E i, j \in 1..Len(received) : i < j /\ received[i] = b /\ received[j] = c

\* Mutant: batches of one expiry date in any order.
BeforeByExpiry(b, c) == Expiry[b] < Expiry[c]

Before(b, c) == Expiry[b] < Expiry[c] \/ (Expiry[b] = Expiry[c] /\ Arrived(b, c))

(* FifoService.consume of quantity q from the batches as read: every batch   *)
(* is emptied before the next is touched.                                    *)
IsAllocation(take, read, q) ==
  /\ \A b \in Batch : take[b] > 0 => Fresh(b) /\ take[b] <= read[b]
  /\ \A b, c \in Batch : take[c] > 0 /\ Fresh(b) /\ Before(b, c) => take[b] = read[b]
  /\ Total(Batch, take) = q

\* Mutants: unconditional updates of the batches; updates computed from what was read.
ConsumeUnchecked(read, q) ==
  /\ \E take \in [Batch -> 0..q] :
       /\ IsAllocation(take, read, q)
       /\ remaining' = [b \in Batch |-> remaining[b] - take[b]]
  /\ q <= onHand
  /\ onHand' = onHand - q

ConsumeFromRead(read, q) ==
  /\ \E take \in [Batch -> 0..q] :
       /\ IsAllocation(take, read, q)
       /\ \A b \in Batch : take[b] <= remaining[b]
       /\ remaining' = [b \in Batch |-> IF take[b] > 0 THEN read[b] - take[b] ELSE remaining[b]]
  /\ q <= onHand
  /\ onHand' = onHand - q

\* consume with the conditional updates of the batches and of quantity_on_hand.
Consume(read, q) ==
  /\ \E take \in [Batch -> 0..q] :
       /\ IsAllocation(take, read, q)
       /\ \A b \in Batch : take[b] <= remaining[b]
       /\ remaining' = [b \in Batch |-> remaining[b] - take[b]]
  /\ q <= onHand
  /\ onHand' = onHand - q

\* Mutant: the reservation is released whatever has become of it.
ReleaseReservationTwice(l) ==
  /\ reservation' = [reservation EXCEPT ![l] = "RELEASED"]
  /\ Qty[l] <= reserved
  /\ reserved' = reserved - Qty[l]

\* releaseReservation and releaseReservedQuantity.
ReleaseReservation(l) ==
  /\ reservation[l] = "ACTIVE"
  /\ reservation' = [reservation EXCEPT ![l] = "RELEASED"]
  /\ Qty[l] <= reserved
  /\ reserved' = reserved - Qty[l]

\* Mutant: no unique event key.
MoveAgain(m) == moved' = moved \cup {m}

Move(m) == m \notin moved /\ moved' = moved \cup {m}

-----------------------------------------------------------------------------
\* Mutants: only the quantities as read are checked; only ACTIVE rows are unique.
ReserveStockAsRead(w) ==
  /\ tx[w].op = "reserve"
  /\ LET l == tx[w].of IN
       /\ reservation[l] = "NONE"
       /\ Qty[l] <= tx[w].available
       /\ reservation' = [reservation EXCEPT ![l] = "ACTIVE"]
       /\ reserved' = reserved + Qty[l]
  /\ End(w)
  /\ UNCHANGED <<onHand, received, remaining, moved, stage, today>>

ReserveStockAgain(w) ==
  /\ tx[w].op = "reserve"
  /\ LET l == tx[w].of IN
       /\ reservation[l] # "ACTIVE"
       /\ Qty[l] <= tx[w].available
       /\ Qty[l] <= onHand - reserved
       /\ reservation' = [reservation EXCEPT ![l] = "ACTIVE"]
       /\ reserved' = reserved + Qty[l]
  /\ End(w)
  /\ UNCHANGED <<onHand, received, remaining, moved, stage, today>>

ReserveStock(w) ==
  /\ tx[w].op = "reserve"
  /\ LET l == tx[w].of IN
       /\ reservation[l] = "NONE"
       /\ Qty[l] <= tx[w].available
       /\ Qty[l] <= onHand - reserved
       /\ reservation' = [reservation EXCEPT ![l] = "ACTIVE"]
       /\ reserved' = reserved + Qty[l]
  /\ End(w)
  /\ UNCHANGED <<onHand, received, remaining, moved, stage, today>>

ReleaseReservedStock(w) ==
  /\ tx[w].op = "release"
  /\ ReleaseReservation(tx[w].of)
  /\ End(w)
  /\ UNCHANGED <<onHand, received, remaining, moved, stage, today>>

\* Mutant: the reservation is only released when the movement was already there.
StockOutOrRelease(w) ==
  /\ tx[w].op = "deduct"
  /\ IF tx[w].done
     THEN /\ UNCHANGED <<onHand, remaining, moved>>
          /\ ReleaseReservation(tx[w].of)
     ELSE /\ Consume(tx[w].remaining, Qty[tx[w].of]) /\ Move(tx[w].of)
          /\ UNCHANGED <<reserved, reservation>>
  /\ End(w)
  /\ UNCHANGED <<received, stage, today>>

(* stockOutAndReleaseReservation: the movement unless it was seen, and the   *)
(* reservation if one was seen.                                              *)
StockOutAndReleaseReservation(w) ==
  /\ tx[w].op = "deduct"
  /\ IF tx[w].done
     THEN UNCHANGED <<onHand, remaining, moved>>
     ELSE Consume(tx[w].remaining, Qty[tx[w].of]) /\ Move(tx[w].of)
  /\ IF tx[w].held
     THEN ReleaseReservation(tx[w].of)
     ELSE UNCHANGED <<reserved, reservation>>
  /\ End(w)
  /\ UNCHANGED <<received, stage, today>>

(* stockInInTransaction, for receipts and returns, and adjustStock upwards.  *)
(* Two transactions that both create the inventory_items row collide.        *)
StockIn(w) ==
  /\ tx[w].op = "in"
  /\ tx[w].first => received = <<>>
  /\ LET b == tx[w].of IN
       /\ Move(b)
       /\ onHand' = onHand + Qty[b]
       /\ remaining' = [remaining EXCEPT ![b] = Qty[b]]
       /\ received' = Append(received, b)
  /\ End(w)
  /\ UNCHANGED <<reserved, reservation, stage, today>>

\* adjustStock downwards.
AdjustDown(w) ==
  /\ tx[w].op = "out"
  /\ Consume(tx[w].remaining, Qty[tx[w].of])
  /\ Move(tx[w].of)
  /\ End(w)
  /\ UNCHANGED <<reserved, received, reservation, stage, today>>

\* A condition above does not hold and the transaction throws; or it is lost otherwise.
Rollback(w) ==
  /\ tx[w] # Idle
  /\ End(w)
  /\ UNCHANGED <<stock, stage, today>>

Tick ==
  /\ today < LastDay
  /\ today' = today + 1
  /\ UNCHANGED <<stock, stage, tx>>

Next ==
  \/ \E l \in Line : Publish(l) \/ Settle(l)
  \/ \E w \in Worker, l \in Line : BeginReserve(w, l) \/ BeginRelease(w, l) \/ BeginDeduct(w, l)
  \/ \E w \in Worker, b \in Batch : BeginIn(w, b)
  \/ \E w \in Worker, a \in Loss : BeginOut(w, a)
  \/ \E w \in Worker :
       \/ ReserveStock(w)
       \/ ReleaseReservedStock(w)
       \/ StockOutAndReleaseReservation(w)
       \/ StockIn(w)
       \/ AdjustDown(w)
       \/ Rollback(w)
  \/ Tick

Spec == Init /\ [][Next]_vars

-----------------------------------------------------------------------------
TypeOK ==
  /\ onHand \in Nat
  /\ reserved \in Nat
  /\ received \in Seq(Batch)
  /\ remaining \in [Batch -> Nat]
  /\ moved \subseteq Movement
  /\ reservation \in [Line -> {"NONE", "ACTIVE", "RELEASED"}]
  /\ stage \in [Line -> {"none", "sent", "settled"}]
  /\ today \in 0..LastDay
  /\ tx \in [Worker -> Tx]

(* quantity_on_hand is kept beside the batches and never computed from them. *)
(* They agree after every transaction, whatever the transactions had read,   *)
(* so "Inventory summary is out of sync" is never thrown.                    *)
SummaryMatchesBatches == onHand = Total(Batch, remaining)

(* Every event key and every adjustment changes the stock once or not at     *)
(* all, however often and to how many instances it is delivered.            *)
StockMatchesMovements ==
  onHand = Total(moved \cap Batch, Qty) - Total(moved \ Batch, Qty)

(* reserved_quantity is what the ACTIVE reservations hold: no release is     *)
(* counted twice, by two cancellations or by a cancellation and a deduction, *)
(* so "Reserved stock is out of sync" is never thrown.                       *)
ReservedMatches == reserved = Total({l \in Line : reservation[l] = "ACTIVE"}, Qty)

(* A reservation is only granted for stock that is there and not promised,   *)
(* however old the quantities it was checked against.  (A deduction without  *)
(* reservation may still take that stock away.)                              *)
ReserveWithinStock == [][reserved' > reserved => reserved' <= onHand']_vars

(* A reservation is made once: the row of a released one keeps order.created *)
(* from reserving again when it is delivered after the release.              *)
ReservationFinal ==
  [][\A l \in Line : /\ reservation[l] = "RELEASED" => reservation'[l] = "RELEASED"
                     /\ reservation[l] = "ACTIVE" => reservation'[l] # "NONE"]_vars

(* First in, first out, also for a transaction that read the batches long    *)
(* ago: stock is only taken from a batch if nothing fresh remains in those   *)
(* that came before it and expire no later.                                  *)
OldestFirst ==
  [][\A i, j \in 1..Len(received) :
       LET b == received[i]
           c == received[j]
       IN  i < j /\ Fresh(b) /\ Expiry[b] <= Expiry[c] /\ remaining'[c] < remaining[c]
             => remaining'[b] = 0]_vars

(* Where order.created is settled first, a line that was sold holds no       *)
(* reservation, although the deduction and its release are driven by what    *)
(* was read before the lock.                                                 *)
SoldLineHoldsNothing ==
  \A l \in Ordered : l \in moved => reservation[l] # "ACTIVE"

\* The three books of a stock item agree: its counters with its batches, its
\* movements and its reservations.
QuantitiesAgree == SummaryMatchesBatches /\ StockMatchesMovements /\ ReservedMatches
=============================================================================
