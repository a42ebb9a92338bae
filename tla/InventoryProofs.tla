--------------------------- MODULE InventoryProofs ----------------------------
(***************************************************************************)
(* Theorems about the stock of one item, for any set of order lines, receipts *)
(* and adjustments, any quantities and any number of concurrent transactions, *)
(* and about units that are assets of their own.                            *)
(***************************************************************************)
EXTENDS Inventory, UniqueAssets, Totals

-----------------------------------------------------------------------------
(* The stock of an item (Inventory).                                        *)

-----------------------------------------------------------------------------
(* Types.                                                                   *)
LEMMA QtyType == \A m \in Movement : Qty[m] \in Nat /\ Qty[m] > 0
  BY InventoryAssumption DEF InventoryAssumption

(* Lines, batches and losses all book movements.                            *)
LEMMA BatchIsMovement == Line \subseteq Movement /\ Batch \subseteq Movement /\ Loss \subseteq Movement
  BY DEF Movement

(* What a reservation in flight carries.                                    *)
LEMMA ReserveTx == \A w \in Worker : TypeOK /\ tx[w].op = "reserve" =>
                     tx[w].of \in Line /\ tx[w].available \in Int
  BY DEF TypeOK, Tx, Idle

(* What a release in flight carries.                                        *)
LEMMA ReleaseTx == \A w \in Worker : TypeOK /\ tx[w].op = "release" => tx[w].of \in Line
  BY DEF TypeOK, Tx, Idle

(* What a deduction in flight carries: the view of the batches it read.     *)
LEMMA DeductTx == \A w \in Worker : TypeOK /\ tx[w].op = "deduct" =>
                     /\ tx[w].of \in Line
                     /\ tx[w].done \in BOOLEAN /\ tx[w].held \in BOOLEAN
                     /\ tx[w].remaining \in [Batch -> Nat]
  BY DEF TypeOK, Tx, Idle

(* What a stockIn in flight carries.                                        *)
LEMMA InTx == \A w \in Worker : TypeOK /\ tx[w].op = "in" => tx[w].of \in Batch
  BY DEF TypeOK, Tx, Idle

(* What a downward adjustment in flight carries.                            *)
LEMMA OutTx == \A w \in Worker : TypeOK /\ tx[w].op = "out" =>
                 tx[w].of \in Loss /\ tx[w].remaining \in [Batch -> Nat]
  <1> SUFFICES ASSUME NEW w \in Worker, TypeOK, tx[w].op = "out"
               PROVE  tx[w].of \in Loss /\ tx[w].remaining \in [Batch -> Nat]
    OBVIOUS
  <1>1. tx[w] \in Tx
    BY DEF TypeOK
  <1>2. tx[w] \in [op : {"out"}, of : Loss, remaining : [Batch -> Nat]]
    BY <1>1 DEF Tx, Idle
  <1> QED
    BY <1>2

(* Replacing one transaction by a well-typed one is well typed.             *)
LEMMA TxUpdate ==
  ASSUME TypeOK, NEW w \in Worker, NEW t \in Tx, tx' = [tx EXCEPT ![w] = t]
  PROVE  tx' \in [Worker -> Tx]
  BY DEF TypeOK

(* So is ending it.                                                         *)
LEMMA EndType ==
  ASSUME TypeOK, NEW w \in Worker, End(w)
  PROVE  tx' \in [Worker -> Tx]
  <1>1. Idle \in Tx
    BY DEF Tx
  <1> QED
    BY <1>1, TxUpdate DEF End

(* What a consumption leaves behind.                                        *)
LEMMA ConsumeEffect ==
  ASSUME TypeOK, NEW read, NEW q \in Nat, Consume(read, q)
  PROVE  /\ onHand' \in Nat
         /\ remaining' \in [Batch -> Nat]
         /\ \A b \in Batch : remaining'[b] <= remaining[b]
  <1>1. onHand' \in Nat
    BY DEF Consume, TypeOK
  <1>2. PICK take \in [Batch -> 0..q] :
          /\ \A b \in Batch : take[b] <= remaining[b]
          /\ remaining' = [b \in Batch |-> remaining[b] - take[b]]
    BY DEF Consume
  <1>3. \A b \in Batch : remaining[b] \in Nat /\ take[b] \in Nat
    BY DEF TypeOK
  <1>4. \A b \in Batch : remaining[b] - take[b] \in Nat /\ remaining[b] - take[b] <= remaining[b]
    BY <1>2, <1>3
  <1> QED
    BY <1>1, <1>2, <1>4

(* A released reservation was active and gives back what it held.           *)
LEMMA ReleaseEffect ==
  ASSUME TypeOK, NEW l \in Line, ReleaseReservation(l)
  PROVE  /\ reserved' \in Nat /\ reserved' < reserved
         /\ reservation[l] = "ACTIVE"
         /\ reservation' = [reservation EXCEPT ![l] = "RELEASED"]
         /\ reservation' \in [Line -> {"NONE", "ACTIVE", "RELEASED"}]
  <1>1. Qty[l] \in Nat /\ Qty[l] > 0
    BY QtyType, BatchIsMovement
  <1> QED
    BY <1>1 DEF ReleaseReservation, TypeOK

-----------------------------------------------------------------------------
(* The initial state is well typed.                                         *)
LEMMA InitType == Init => TypeOK
  BY InventoryAssumption DEF InventoryAssumption, Init, TypeOK, Tx

(* Every step keeps the types.                                              *)
LEMMA TypePreserved == TypeOK /\ [Next]_vars => TypeOK'
  <1> SUFFICES ASSUME TypeOK, [Next]_vars PROVE TypeOK'
    OBVIOUS
  <1>1. ASSUME NEW l \in Line, Publish(l) \/ Settle(l) PROVE TypeOK'
    BY <1>1 DEF Publish, Settle, TypeOK, stock
  <1>2. ASSUME NEW w \in Worker, NEW t \in Tx, Begin(w, t) PROVE TypeOK'
    BY <1>2, TxUpdate DEF Begin, TypeOK, stock
  <1>3. ASSUME NEW w \in Worker, NEW l \in Line,
               BeginReserve(w, l) \/ BeginRelease(w, l) \/ BeginDeduct(w, l)
        PROVE  TypeOK'
    <2>1. [op |-> "reserve", of |-> l, available |-> onHand - reserved] \in Tx
      BY DEF Tx, TypeOK
    <2>2. [op |-> "release", of |-> l] \in Tx
      BY DEF Tx
    <2>3. [op |-> "deduct", of |-> l, done |-> l \in moved,
           held |-> reservation[l] = "ACTIVE", remaining |-> remaining] \in Tx
      BY DEF Tx, TypeOK
    <2> QED
      BY <1>2, <1>3, <2>1, <2>2, <2>3 DEF BeginReserve, BeginRelease, BeginDeduct
  <1>4. ASSUME NEW w \in Worker, NEW b \in Batch, BeginIn(w, b) PROVE TypeOK'
    <2>1. [op |-> "in", of |-> b, first |-> received = <<>>] \in Tx
      BY DEF Tx
    <2> QED
      BY <1>2, <1>4, <2>1 DEF BeginIn
  <1>5. ASSUME NEW w \in Worker, NEW a \in Loss, BeginOut(w, a) PROVE TypeOK'
    <2>1. [op |-> "out", of |-> a, remaining |-> remaining] \in Tx
      BY DEF Tx, TypeOK
    <2> QED
      BY <1>2, <1>5, <2>1 DEF BeginOut
  <1>6. ASSUME NEW w \in Worker, ReserveStock(w) PROVE TypeOK'
    <2>1. tx[w].of \in Line /\ Qty[tx[w].of] \in Nat
      BY <1>6, ReserveTx, QtyType, BatchIsMovement DEF ReserveStock
    <2>2. reserved' \in Nat /\ reservation' \in [Line -> {"NONE", "ACTIVE", "RELEASED"}]
      BY <1>6, <2>1 DEF ReserveStock, TypeOK
    <2> QED
      BY <1>6, <2>2, EndType DEF ReserveStock, TypeOK
  <1>7. ASSUME NEW w \in Worker, ReleaseReservedStock(w) PROVE TypeOK'
    <2>1. tx[w].of \in Line
      BY <1>7, ReleaseTx DEF ReleaseReservedStock
    <2> QED
      BY <1>7, <2>1, ReleaseEffect, EndType DEF ReleaseReservedStock, TypeOK
  <1>8. ASSUME NEW w \in Worker, StockOutAndReleaseReservation(w) PROVE TypeOK'
    <2>1. tx[w].of \in Line /\ Qty[tx[w].of] \in Nat /\ tx[w].of \in Movement
      BY <1>8, DeductTx, QtyType, BatchIsMovement DEF StockOutAndReleaseReservation
    <2>2. onHand' \in Nat /\ remaining' \in [Batch -> Nat] /\ moved' \subseteq Movement
      BY <1>8, <2>1, ConsumeEffect DEF StockOutAndReleaseReservation, Move, TypeOK
    <2>3. reserved' \in Nat /\ reservation' \in [Line -> {"NONE", "ACTIVE", "RELEASED"}]
      BY <1>8, <2>1, ReleaseEffect DEF StockOutAndReleaseReservation, TypeOK
    <2> QED
      BY <1>8, <2>2, <2>3, EndType DEF StockOutAndReleaseReservation, TypeOK
  <1>9. ASSUME NEW w \in Worker, StockIn(w) PROVE TypeOK'
    <2>1. tx[w].of \in Batch /\ Qty[tx[w].of] \in Nat /\ tx[w].of \in Movement
      BY <1>9, InTx, QtyType, BatchIsMovement DEF StockIn
    <2>2. onHand' \in Nat /\ remaining' \in [Batch -> Nat] /\ moved' \subseteq Movement
      BY <1>9, <2>1 DEF StockIn, Move, TypeOK
    <2>3. received' \in Seq(Batch)
      BY <1>9, <2>1 DEF StockIn, TypeOK
    <2> QED
      BY <1>9, <2>2, <2>3, EndType DEF StockIn, TypeOK
  <1>10. ASSUME NEW w \in Worker, AdjustDown(w) PROVE TypeOK'
    <2>1. tx[w].of \in Loss /\ Qty[tx[w].of] \in Nat /\ tx[w].of \in Movement
      BY <1>10, OutTx, QtyType, BatchIsMovement DEF AdjustDown
    <2>2. onHand' \in Nat /\ remaining' \in [Batch -> Nat] /\ moved' \subseteq Movement
      BY <1>10, <2>1, ConsumeEffect DEF AdjustDown, Move, TypeOK
    <2> QED
      BY <1>10, <2>2, EndType DEF AdjustDown, TypeOK
  <1>11. ASSUME NEW w \in Worker, Rollback(w) PROVE TypeOK'
    BY <1>11, EndType DEF Rollback, TypeOK, stock
  <1>12. CASE Tick
    BY <1>12, InventoryAssumption DEF InventoryAssumption, Tick, TypeOK, stock
  <1>13. CASE UNCHANGED vars
    BY <1>13 DEF vars, TypeOK
  <1> QED
    BY <1>1, <1>3, <1>4, <1>5, <1>6, <1>7, <1>8, <1>9, <1>10, <1>11, <1>12, <1>13 DEF Next

(* The variables have their types.                                          *)
THEOREM InventoryTypeCorrect == Spec => []TypeOK
  BY InitType, TypePreserved, PTL DEF Spec

-----------------------------------------------------------------------------
(* What reservations are granted for.                                       *)
LEMMA ReservationSteps ==
  ASSUME TypeOK, [Next]_vars
  PROVE  \/ UNCHANGED <<reserved, reservation>>
         \/ \E l \in Line : ReleaseReservation(l)
         \/ \E w \in Worker : ReserveStock(w)
  <1>1. ASSUME NEW l \in Line, Publish(l) \/ Settle(l) PROVE UNCHANGED <<reserved, reservation>>
    BY <1>1 DEF Publish, Settle, stock
  <1>2. ASSUME NEW w \in Worker, NEW l \in Line,
               BeginReserve(w, l) \/ BeginRelease(w, l) \/ BeginDeduct(w, l)
        PROVE  UNCHANGED <<reserved, reservation>>
    BY <1>2 DEF BeginReserve, BeginRelease, BeginDeduct, Begin, stock
  <1>3. ASSUME NEW w \in Worker, NEW b \in Batch, BeginIn(w, b)
        PROVE  UNCHANGED <<reserved, reservation>>
    BY <1>3 DEF BeginIn, Begin, stock
  <1>4. ASSUME NEW w \in Worker, NEW a \in Loss, BeginOut(w, a)
        PROVE  UNCHANGED <<reserved, reservation>>
    BY <1>4 DEF BeginOut, Begin, stock
  <1>5. ASSUME NEW w \in Worker, ReleaseReservedStock(w)
        PROVE  \E l \in Line : ReleaseReservation(l)
    BY <1>5, ReleaseTx DEF ReleaseReservedStock
  <1>6. ASSUME NEW w \in Worker, StockOutAndReleaseReservation(w)
        PROVE  \/ UNCHANGED <<reserved, reservation>>
               \/ \E l \in Line : ReleaseReservation(l)
    BY <1>6, DeductTx DEF StockOutAndReleaseReservation
  <1>7. ASSUME NEW w \in Worker, StockIn(w) \/ AdjustDown(w)
        PROVE  UNCHANGED <<reserved, reservation>>
    BY <1>7 DEF StockIn, AdjustDown
  <1>8. ASSUME NEW w \in Worker, Rollback(w) PROVE UNCHANGED <<reserved, reservation>>
    BY <1>8 DEF Rollback, stock
  <1>9. Tick => UNCHANGED <<reserved, reservation>>
    BY DEF Tick, stock
  <1>10. UNCHANGED vars => UNCHANGED <<reserved, reservation>>
    BY DEF vars
  <1> QED
    BY <1>1, <1>2, <1>3, <1>4, <1>5, <1>6, <1>7, <1>8, <1>9, <1>10 DEF Next

(* A reservation is only granted for stock that is there and not promised.  *)
THEOREM ReservationsAreCovered == Spec => ReserveWithinStock
  <1>1. TypeOK /\ [Next]_vars => (reserved' > reserved => reserved' <= onHand')
    <2> SUFFICES ASSUME TypeOK, [Next]_vars, reserved' > reserved PROVE reserved' <= onHand'
      OBVIOUS
    <2>1. CASE UNCHANGED <<reserved, reservation>>
      BY <2>1 DEF TypeOK
    <2>2. ASSUME NEW l \in Line, ReleaseReservation(l) PROVE FALSE
      <3>1. reserved' \in Nat /\ reserved' < reserved
        BY <2>2, ReleaseEffect
      <3> QED
        BY <3>1 DEF TypeOK
    <2>3. ASSUME NEW w \in Worker, ReserveStock(w) PROVE reserved' <= onHand'
      <3>1. Qty[tx[w].of] \in Nat
        BY <2>3, ReserveTx, QtyType, BatchIsMovement DEF ReserveStock
      <3> QED
        BY <2>3, <3>1 DEF ReserveStock, TypeOK
    <2> QED
      BY <2>1, <2>2, <2>3, ReservationSteps
  <1> QED
    BY <1>1, InventoryTypeCorrect, PTL DEF Spec, ReserveWithinStock

(* A reservation goes from none to ACTIVE to RELEASED and never back.       *)
THEOREM ReservationsAreMadeOnce == Spec => ReservationFinal
  <1> DEFINE Forward == \A l \in Line :
                /\ reservation[l] = "RELEASED" => reservation'[l] = "RELEASED"
                /\ reservation[l] = "ACTIVE" => reservation'[l] # "NONE"
  <1>1. TypeOK /\ [Next]_vars => Forward
    <2> SUFFICES ASSUME TypeOK, [Next]_vars PROVE Forward
      OBVIOUS
    <2>1. CASE UNCHANGED <<reserved, reservation>>
      BY <2>1
    <2>2. ASSUME NEW l \in Line, ReleaseReservation(l) PROVE Forward
      BY <2>2, ReleaseEffect DEF TypeOK
    <2>3. ASSUME NEW w \in Worker, ReserveStock(w) PROVE Forward
      BY <2>3, ReserveTx DEF ReserveStock, TypeOK
    <2> QED
      BY <2>1, <2>2, <2>3, ReservationSteps
  <1> QED
    BY <1>1, InventoryTypeCorrect, PTL DEF Spec, ReservationFinal

-----------------------------------------------------------------------------
(* First in, first out.  A transaction's view of the batches is old, but    *)
(* batches only ever appear at the end and only ever lose stock: it may     *)
(* miss the newest ones, and has seen at least what is left of every batch  *)
(* that came before one it has seen.                                        *)
Consuming(w) == tx[w].op \in {"deduct", "out"}

\* What counts as received was moved, and what was not moved holds nothing.
ReceivedInv ==
  /\ \A i \in 1..Len(received) : received[i] \in moved
  /\ \A b \in Batch \ moved : remaining[b] = 0

\* If a deduction read goods in a batch, no batch that came earlier holds more
\* than it read of it.
SeenInOrder(read) ==
  /\ \A b \in Batch \ moved : read[b] = 0
  /\ \A i, j \in 1..Len(received) :
       i < j /\ read[received[j]] > 0 => remaining[received[i]] <= read[received[i]]

\* What a step needs and leaves of the order of batches.
FifoInv == TypeOK /\ ReceivedInv /\ \A w \in Worker : Consuming(w) => SeenInOrder(tx[w].remaining)

(* Steps that take stock away, bring it in, or leave it alone.              *)
LEMMA StockSteps ==
  ASSUME TypeOK, [Next]_vars
  PROVE  \/ /\ UNCHANGED <<received, remaining, moved>>
            /\ \A w \in Worker : Consuming(w)' =>
                 \/ tx'[w] = tx[w]
                 \/ tx'[w].remaining = remaining
         \/ /\ \E w \in Worker : \E read \in [Batch -> Nat] : \E q \in Nat :
                 Consuming(w) /\ read = tx[w].remaining /\ Consume(read, q)
            /\ moved \subseteq moved'
            /\ UNCHANGED received
            /\ \A w \in Worker : Consuming(w)' => tx'[w] = tx[w]
         \/ \E b \in Batch :
              /\ b \notin moved
              /\ moved' = moved \cup {b}
              /\ remaining' = [remaining EXCEPT ![b] = Qty[b]]
              /\ received' = Append(received, b)
              /\ \A w \in Worker : Consuming(w)' => tx'[w] = tx[w]
  <1> DEFINE Quiet == /\ UNCHANGED <<received, remaining, moved>>
                      /\ \A w \in Worker : Consuming(w)' =>
                           tx'[w] = tx[w] \/ tx'[w].remaining = remaining
             Others == \A w \in Worker : Consuming(w)' => tx'[w] = tx[w]
             Takes == /\ \E w \in Worker : \E read \in [Batch -> Nat] : \E q \in Nat :
                           Consuming(w) /\ read = tx[w].remaining /\ Consume(read, q)
                      /\ moved \subseteq moved'
                      /\ UNCHANGED received
                      /\ Others
  <1>1. ASSUME NEW w \in Worker, End(w) PROVE Others
    BY <1>1 DEF End, Consuming, Idle, TypeOK
  <1>2. ASSUME NEW l \in Line, Publish(l) \/ Settle(l) PROVE Quiet
    BY <1>2 DEF Publish, Settle, stock, Consuming
  <1>3. ASSUME NEW w \in Worker, NEW l \in Line,
               BeginReserve(w, l) \/ BeginRelease(w, l) \/ BeginDeduct(w, l)
        PROVE  Quiet
    BY <1>3 DEF BeginReserve, BeginRelease, BeginDeduct, Begin, stock, Consuming, TypeOK
  <1>4. ASSUME NEW w \in Worker, NEW b \in Batch, BeginIn(w, b) PROVE Quiet
    BY <1>4 DEF BeginIn, Begin, stock, Consuming, TypeOK
  <1>5. ASSUME NEW w \in Worker, NEW a \in Loss, BeginOut(w, a) PROVE Quiet
    BY <1>5 DEF BeginOut, Begin, stock, Consuming, TypeOK
  <1>6. ASSUME NEW w \in Worker, ReserveStock(w) \/ ReleaseReservedStock(w) PROVE Quiet
    BY <1>1, <1>6 DEF ReserveStock, ReleaseReservedStock
  <1>7. ASSUME NEW w \in Worker, StockOutAndReleaseReservation(w) PROVE Quiet \/ Takes
    <2>1. tx[w].of \in Line /\ Qty[tx[w].of] \in Nat /\ tx[w].remaining \in [Batch -> Nat]
      BY <1>7, DeductTx, QtyType, BatchIsMovement DEF StockOutAndReleaseReservation
    <2>2. Others
      BY <1>1, <1>7 DEF StockOutAndReleaseReservation
    <2>3. CASE tx[w].done
      BY <1>7, <2>2, <2>3 DEF StockOutAndReleaseReservation
    <2>4. CASE ~tx[w].done
      <3>1. Consume(tx[w].remaining, Qty[tx[w].of]) /\ Move(tx[w].of) /\ UNCHANGED received
        BY <1>7, <2>4 DEF StockOutAndReleaseReservation
      <3>2. moved \subseteq moved' /\ Consuming(w)
        BY <1>7, <3>1 DEF Move, Consuming, StockOutAndReleaseReservation
      <3> QED
        BY <2>1, <2>2, <3>1, <3>2
    <2> QED
      BY <2>3, <2>4
  <1>8. ASSUME NEW w \in Worker, AdjustDown(w) PROVE Takes
    <2>1. tx[w].of \in Loss /\ Qty[tx[w].of] \in Nat /\ tx[w].remaining \in [Batch -> Nat]
      BY <1>8, OutTx, QtyType, BatchIsMovement DEF AdjustDown
    <2>2. Others
      BY <1>1, <1>8 DEF AdjustDown
    <2>3. moved \subseteq moved' /\ Consuming(w) /\ UNCHANGED received
      BY <1>8 DEF AdjustDown, Move, Consuming
    <2> QED
      BY <1>8, <2>1, <2>2, <2>3 DEF AdjustDown
  <1>9. ASSUME NEW w \in Worker, Rollback(w) PROVE Quiet
    BY <1>1, <1>9 DEF Rollback, stock
  <1>10. Tick => Quiet
    BY DEF Tick, stock, Consuming
  <1>11. UNCHANGED vars => Quiet
    BY DEF vars, Consuming
  <1>12. ASSUME NEW w \in Worker, StockIn(w)
         PROVE  \E b \in Batch :
                  /\ b \notin moved
                  /\ moved' = moved \cup {b}
                  /\ remaining' = [remaining EXCEPT ![b] = Qty[b]]
                  /\ received' = Append(received, b)
                  /\ Others
    <2>1. tx[w].of \in Batch
      BY <1>12, InTx DEF StockIn
    <2>2. Others
      BY <1>1, <1>12 DEF StockIn
    <2> QED
      BY <1>12, <2>1, <2>2 DEF StockIn, Move
  <1> QED
    BY <1>2, <1>3, <1>4, <1>5, <1>6, <1>7, <1>8, <1>9, <1>10, <1>11, <1>12 DEF Next

(* Every step keeps the order in which the open views were read.            *)
LEMMA FifoInvInductive == FifoInv /\ [Next]_vars => FifoInv'
  <1> SUFFICES ASSUME FifoInv, [Next]_vars
               PROVE  ReceivedInv' /\ \A w \in Worker : Consuming(w)' => SeenInOrder(tx[w].remaining)'
    BY TypePreserved DEF FifoInv
  <1>1. TypeOK /\ ReceivedInv /\ Len(received) \in Nat
    BY DEF FifoInv, TypeOK
  <1>2. SeenInOrder(remaining)
    BY <1>1 DEF SeenInOrder, ReceivedInv, TypeOK
  <1>3. ASSUME UNCHANGED <<received, remaining, moved>>,
               \A w \in Worker : Consuming(w)' =>
                 \/ tx'[w] = tx[w]
                 \/ tx'[w].remaining = remaining
        PROVE  ReceivedInv' /\ \A w \in Worker : Consuming(w)' => SeenInOrder(tx[w].remaining)'
    <2>1. ReceivedInv'
      BY <1>1, <1>3 DEF ReceivedInv
    <2>2. ASSUME NEW w \in Worker, Consuming(w)' PROVE SeenInOrder(tx[w].remaining)'
      <3>1. CASE tx'[w] = tx[w]
        BY <1>3, <2>2, <3>1 DEF FifoInv, SeenInOrder, Consuming
      <3>2. CASE tx'[w].remaining = remaining
        BY <1>2, <1>3, <3>2 DEF SeenInOrder
      <3> QED
        BY <1>3, <2>2, <3>1, <3>2
    <2> QED
      BY <2>1, <2>2
  <1>4. ASSUME NEW read \in [Batch -> Nat], NEW q \in Nat, Consume(read, q),
               moved \subseteq moved', UNCHANGED received,
               \A w \in Worker : Consuming(w)' => tx'[w] = tx[w]
        PROVE  ReceivedInv' /\ \A w \in Worker : Consuming(w)' => SeenInOrder(tx[w].remaining)'
    <2>1. remaining' \in [Batch -> Nat] /\ \A b \in Batch : remaining'[b] <= remaining[b]
      BY <1>1, <1>4, ConsumeEffect
    <2>2. \A b \in Batch \ moved' : remaining'[b] = 0
      BY <1>1, <1>4, <2>1 DEF ReceivedInv, TypeOK
    <2>3. ReceivedInv'
      BY <1>1, <1>4, <2>2 DEF ReceivedInv
    <2>4. ASSUME NEW w \in Worker, Consuming(w)' PROVE SeenInOrder(tx[w].remaining)'
      <3>1. Consuming(w) /\ tx'[w] = tx[w]
        BY <1>4, <2>4 DEF Consuming
      <3>2. SeenInOrder(tx[w].remaining) /\ tx[w].remaining \in [Batch -> Nat]
        BY <1>1, <3>1, DeductTx, OutTx DEF FifoInv, Consuming
      <3>3. \A b \in Batch \ moved' : tx[w].remaining[b] = 0
        BY <1>4, <3>2 DEF SeenInOrder
      <3>4. ASSUME NEW i \in 1..Len(received), NEW j \in 1..Len(received), i < j,
                   tx[w].remaining[received[j]] > 0
            PROVE  remaining'[received[i]] <= tx[w].remaining[received[i]]
        <4>1. received[i] \in Batch
          BY <1>1 DEF TypeOK
        <4>2. remaining[received[i]] <= tx[w].remaining[received[i]]
          BY <3>2, <3>4 DEF SeenInOrder
        <4>3. /\ remaining'[received[i]] \in Nat /\ remaining[received[i]] \in Nat
              /\ tx[w].remaining[received[i]] \in Nat
              /\ remaining'[received[i]] <= remaining[received[i]]
          BY <1>1, <2>1, <3>2, <4>1 DEF TypeOK
        <4> QED
          BY <4>2, <4>3
      <3> QED
        BY <1>4, <3>1, <3>3, <3>4 DEF SeenInOrder
    <2> QED
      BY <2>3, <2>4
  <1>5. ASSUME NEW b \in Batch, b \notin moved,
               moved' = moved \cup {b}, remaining' = [remaining EXCEPT ![b] = Qty[b]],
               received' = Append(received, b),
               \A w \in Worker : Consuming(w)' => tx'[w] = tx[w]
        PROVE  ReceivedInv' /\ \A w \in Worker : Consuming(w)' => SeenInOrder(tx[w].remaining)'
    <2>1. /\ Len(received') = Len(received) + 1
          /\ received'[Len(received) + 1] = b
          /\ \A i \in 1..Len(received) : received'[i] = received[i] /\ received[i] \in Batch
      BY <1>1, <1>5 DEF TypeOK
    <2>2. \A i \in 1..Len(received) : received[i] # b
      BY <1>1, <1>5 DEF ReceivedInv
    <2>3. \A c \in Batch : c # b => remaining'[c] = remaining[c]
      BY <1>1, <1>5 DEF TypeOK
    <2>4. \A i \in 1..(Len(received) + 1) : i \in 1..Len(received) \/ i = Len(received) + 1
      BY <1>1
    <2>5. \A i \in 1..Len(received') : received'[i] \in moved'
      BY <1>1, <1>5, <2>1, <2>4 DEF ReceivedInv
    <2>6. \A c \in Batch \ moved' : remaining'[c] = 0
      BY <1>1, <1>5, <2>3 DEF ReceivedInv
    <2>7. ASSUME NEW w \in Worker, Consuming(w)' PROVE SeenInOrder(tx[w].remaining)'
      <3>1. Consuming(w) /\ tx'[w] = tx[w]
        BY <1>5, <2>7 DEF Consuming
      <3>2. SeenInOrder(tx[w].remaining)
        BY <3>1 DEF FifoInv
      <3>3. tx[w].remaining[b] = 0
        BY <1>5, <3>2 DEF SeenInOrder
      <3>4. ASSUME NEW i \in 1..Len(received'), NEW j \in 1..Len(received'), i < j,
                   tx[w].remaining[received'[j]] > 0
            PROVE  remaining'[received'[i]] <= tx[w].remaining[received'[i]]
        <4>1. j # Len(received) + 1
          BY <2>1, <3>3, <3>4
        <4>2. i \in 1..Len(received) /\ j \in 1..Len(received)
          BY <1>1, <2>1, <3>4, <4>1
        <4>3. remaining[received[i]] <= tx[w].remaining[received[i]]
          BY <2>1, <3>2, <3>4, <4>2 DEF SeenInOrder
        <4> QED
          BY <2>1, <2>2, <2>3, <4>2, <4>3
      <3>5. \A c \in Batch \ moved' : tx[w].remaining[c] = 0
        BY <1>5, <3>2 DEF SeenInOrder
      <3> QED
        BY <3>1, <3>4, <3>5 DEF SeenInOrder
    <2> QED
      BY <2>5, <2>6, <2>7 DEF ReceivedInv
  <1> QED
    BY <1>1, <1>3, <1>4, <1>5, StockSteps

(* The open views always list their batches in order.                       *)
LEMMA FifoInvAlways == Spec => []FifoInv
  <1>1. Init => FifoInv
    BY InitType DEF Init, FifoInv, ReceivedInv, Consuming, Idle
  <1> QED
    BY <1>1, FifoInvInductive, PTL DEF Spec

(* The stock that arrived first goes first, whatever the transaction had    *)
(* read when it waited for the lock.                                        *)
THEOREM FirstInFirstOut == Spec => OldestFirst
  <1> DEFINE Step == \A i, j \in 1..Len(received) :
               LET b == received[i]
                   c == received[j]
               IN  i < j /\ Fresh(b) /\ Expiry[b] <= Expiry[c] /\ remaining'[c] < remaining[c]
                     => remaining'[b] = 0
  <1>1. FifoInv /\ [Next]_vars => Step
    <2> SUFFICES ASSUME FifoInv, [Next]_vars,
                        NEW i \in 1..Len(received), NEW j \in 1..Len(received), i < j,
                        Fresh(received[i]), Expiry[received[i]] <= Expiry[received[j]],
                        remaining'[received[j]] < remaining[received[j]]
                 PROVE  remaining'[received[i]] = 0
      OBVIOUS
    <2>1. TypeOK /\ ReceivedInv /\ received[i] \in Batch /\ received[j] \in Batch
      BY DEF FifoInv, TypeOK
    <2>2. remaining[received[i]] \in Nat /\ remaining[received[j]] \in Nat
      BY <2>1 DEF TypeOK
    <2>3. CASE UNCHANGED <<received, remaining, moved>>
      BY <2>2, <2>3
    <2>4. ASSUME NEW w \in Worker, NEW read \in [Batch -> Nat], NEW q \in Nat,
                 Consuming(w), read = tx[w].remaining, Consume(read, q)
          PROVE  remaining'[received[i]] = 0
      <3>1. PICK take \in [Batch -> 0..q] :
              /\ IsAllocation(take, read, q)
              /\ \A b \in Batch : take[b] <= remaining[b]
              /\ remaining' = [b \in Batch |-> remaining[b] - take[b]]
        BY <2>4 DEF Consume
      <3>2. take[received[i]] \in Nat /\ take[received[j]] \in Nat
        BY <2>1, <3>1
      <3>3. take[received[j]] > 0
        BY <2>1, <2>2, <3>1, <3>2
      <3>4. read[received[j]] \in Nat /\ read[received[j]] > 0
        BY <2>1, <3>1, <3>2, <3>3 DEF IsAllocation
      <3>5. remaining[received[i]] <= read[received[i]]
        BY <2>4, <3>4 DEF FifoInv, SeenInOrder
      <3>6. Expiry[received[i]] \in Nat /\ Expiry[received[j]] \in Nat
        BY <2>1, InventoryAssumption DEF InventoryAssumption
      <3>7. Before(received[i], received[j])
        BY <3>6 DEF Before, Arrived
      <3>8. take[received[i]] = read[received[i]]
        BY <2>1, <3>1, <3>3, <3>7 DEF IsAllocation
      <3>9. take[received[i]] <= remaining[received[i]]
        BY <2>1, <3>1
      <3> QED
        BY <2>1, <2>2, <3>1, <3>2, <3>5, <3>8, <3>9
    <2>5. ASSUME NEW b \in Batch, b \notin moved, remaining' = [remaining EXCEPT ![b] = Qty[b]]
          PROVE  FALSE
      <3>1. received[j] \in moved
        BY <2>1 DEF ReceivedInv
      <3> QED
        BY <2>1, <2>2, <2>5, <3>1 DEF TypeOK
    <2> QED
      BY <2>1, <2>3, <2>4, <2>5, StockSteps
  <1> QED
    BY <1>1, FifoInvAlways, PTL DEF Spec, OldestFirst

-----------------------------------------------------------------------------
(* Sold lines hold no stock once order.created is settled first: nothing    *)
(* reserves after that, so what a deduction read of the reservation cannot  *)
(* have become more.                                                        *)
OrderedInv ==
  /\ \A w \in Worker : tx[w].op = "reserve" => stage[tx[w].of] = "sent"
  /\ \A w \in Worker : tx[w].op = "deduct" /\ tx[w].of \in Ordered =>
       /\ stage[tx[w].of] = "settled"
       /\ ~tx[w].held => reservation[tx[w].of] # "ACTIVE"
  /\ \A l \in Ordered : l \in moved => stage[l] = "settled" /\ reservation[l] # "ACTIVE"

\* With order.created first, every step keeps sold lines free of reservations.
LEMMA OrderedInvInductive == TypeOK /\ OrderedInv /\ [Next]_vars => OrderedInv'
  <1> SUFFICES ASSUME TypeOK, OrderedInv, [Next]_vars PROVE OrderedInv'
    BY DEF OrderedInv
  <1> DEFINE ReserveOK(w) == tx[w].op = "reserve" => stage[tx[w].of] = "sent"
             DeductOK(w) == tx[w].op = "deduct" /\ tx[w].of \in Ordered =>
                              /\ stage[tx[w].of] = "settled"
                              /\ ~tx[w].held => reservation[tx[w].of] # "ACTIVE"
             SoldOK(l) == l \in moved => stage[l] = "settled" /\ reservation[l] # "ACTIVE"
             Goal == /\ \A w \in Worker : ReserveOK(w)' /\ DeductOK(w)'
                     /\ \A l \in Ordered : SoldOK(l)'
  <1>1. \A w \in Worker : ReserveOK(w) /\ DeductOK(w)
    BY DEF OrderedInv
  <1>2. Ordered \subseteq Line /\ \A l \in Ordered : SoldOK(l)
    BY InventoryAssumption DEF InventoryAssumption, OrderedInv
  <1>3. Goal => OrderedInv'
    BY DEF OrderedInv
  <1>4. ASSUME NEW l \in Line, Publish(l) \/ Settle(l) PROVE Goal
    <2>1. UNCHANGED <<moved, reservation, tx>>
      BY <1>4 DEF Publish, Settle, stock
    <2>2. \A k \in Line : k # l => stage'[k] = stage[k]
      BY <1>4 DEF Publish, Settle, TypeOK
    <2>3. stage[l] # "settled"
      BY <1>4 DEF Publish, Settle
    <2>4. ASSUME NEW w \in Worker PROVE ReserveOK(w)'
      <3>1. tx[w].op = "reserve" => tx[w].of \in Line /\ tx[w].of # l
        BY <1>1, <1>4, ReserveTx DEF Publish, Settle
      <3> QED
        BY <1>1, <2>1, <2>2, <3>1
    <2>5. ASSUME NEW w \in Worker PROVE DeductOK(w)'
      <3>1. tx[w].op = "deduct" => tx[w].of \in Line /\ (tx[w].of \in Ordered => tx[w].of # l)
        BY <1>1, <2>3, DeductTx
      <3> QED
        BY <1>1, <2>1, <2>2, <3>1
    <2>6. ASSUME NEW k \in Ordered PROVE SoldOK(k)'
      BY <1>2, <2>1, <2>2, <2>3
    <2> QED
      BY <2>4, <2>5, <2>6
  <1>5. ASSUME NEW w \in Worker, NEW l \in Line, BeginReserve(w, l) PROVE Goal
    <2>1. \A v \in Worker : tx'[v] = IF v = w THEN [op |-> "reserve", of |-> l,
                                                   available |-> onHand - reserved] ELSE tx[v]
      BY <1>5 DEF BeginReserve, Begin, TypeOK
    <2> QED
      BY <1>1, <1>2, <1>5, <2>1 DEF BeginReserve, Begin, stock, MayReserve
  <1>6. ASSUME NEW w \in Worker, NEW l \in Line, BeginRelease(w, l) PROVE Goal
    <2>1. \A v \in Worker : tx'[v] = IF v = w THEN [op |-> "release", of |-> l] ELSE tx[v]
      BY <1>6 DEF BeginRelease, Begin, TypeOK
    <2> QED
      BY <1>1, <1>2, <1>6, <2>1 DEF BeginRelease, Begin, stock
  <1>7. ASSUME NEW w \in Worker, NEW l \in Line, BeginDeduct(w, l) PROVE Goal
    <2>1. \A v \in Worker : tx'[v] = IF v = w THEN [op |-> "deduct", of |-> l,
              done |-> l \in moved, held |-> reservation[l] = "ACTIVE",
              remaining |-> remaining] ELSE tx[v]
      BY <1>7 DEF BeginDeduct, Begin, TypeOK
    <2>2. (l \in Ordered => stage[l] = "settled") /\ UNCHANGED <<moved, reservation, stage>>
      BY <1>7 DEF BeginDeduct, Begin, stock, MayFollow
    <2>3. ASSUME NEW v \in Worker PROVE ReserveOK(v)' /\ DeductOK(v)'
      <3>1. CASE v # w
        BY <1>1, <2>1, <2>2, <3>1
      <3>2. CASE v = w
        <4>1. tx'[v].op = "deduct" /\ tx'[v].of = l
          BY <2>1, <3>2
        <4>2. PICK held : held = (reservation[l] = "ACTIVE")
          OBVIOUS
        <4>3. tx'[v].held = held
          BY <2>1, <3>2, <4>2
        <4> QED
          BY <2>2, <4>1, <4>2, <4>3
      <3> QED
        BY <3>1, <3>2
    <2> QED
      BY <1>2, <2>2, <2>3
  <1>8. ASSUME NEW w \in Worker, NEW b \in Batch, BeginIn(w, b) PROVE Goal
    <2>1. \A v \in Worker : tx'[v] = IF v = w THEN [op |-> "in", of |-> b,
                                                   first |-> received = <<>>] ELSE tx[v]
      BY <1>8 DEF BeginIn, Begin, TypeOK
    <2> QED
      BY <1>1, <1>2, <1>8, <2>1 DEF BeginIn, Begin, stock
  <1>9. ASSUME NEW w \in Worker, NEW a \in Loss, BeginOut(w, a) PROVE Goal
    <2>1. \A v \in Worker : tx'[v] = IF v = w THEN [op |-> "out", of |-> a,
                                                   remaining |-> remaining] ELSE tx[v]
      BY <1>9 DEF BeginOut, Begin, TypeOK
    <2> QED
      BY <1>1, <1>2, <1>9, <2>1 DEF BeginOut, Begin, stock
  <1>10. ASSUME NEW w \in Worker, End(w)
         PROVE  \A v \in Worker : tx'[v].op \in {"reserve", "deduct"} => tx'[v] = tx[v]
    BY <1>10 DEF End, Idle, TypeOK
  <1>11. ASSUME NEW w \in Worker, ReserveStock(w) PROVE Goal
    <2>1. tx[w].of \in Line /\ stage[tx[w].of] = "sent" /\ (tx[w].of \in Ordered => tx[w].of \notin moved)
      BY <1>1, <1>2, <1>11, ReserveTx DEF ReserveStock
    <2>2. \A l \in Line : l # tx[w].of => reservation'[l] = reservation[l]
      BY <1>11 DEF ReserveStock, TypeOK
    <2> QED
      BY <1>1, <1>2, <1>10, <1>11, <2>1, <2>2, DeductTx DEF ReserveStock
  <1>12. ASSUME NEW l \in Line, ReleaseReservation(l)
         PROVE  \A k \in Line : /\ reservation'[k] = "ACTIVE" => reservation[k] = "ACTIVE"
                               /\ reservation'[l] # "ACTIVE"
    BY <1>12 DEF ReleaseReservation, TypeOK
  <1>13. ASSUME NEW w \in Worker, ReleaseReservedStock(w) PROVE Goal
    <2>1. \A k \in Line : reservation'[k] = "ACTIVE" => reservation[k] = "ACTIVE"
      BY <1>12, <1>13, ReleaseTx DEF ReleaseReservedStock
    <2> QED
      BY <1>1, <1>2, <1>10, <1>13, <2>1, DeductTx DEF ReleaseReservedStock
  <1>14. ASSUME NEW w \in Worker, StockOutAndReleaseReservation(w) PROVE Goal
    <2>1. tx[w].of \in Line /\ (tx[w].of \in Ordered => stage[tx[w].of] = "settled") /\ tx[w].held \in BOOLEAN
      BY <1>1, <1>14, DeductTx DEF StockOutAndReleaseReservation
    <2>2. \A k \in Line : reservation'[k] = "ACTIVE" => reservation[k] = "ACTIVE"
      BY <1>12, <1>14, <2>1 DEF StockOutAndReleaseReservation
    <2>3. tx[w].of \in Ordered => reservation'[tx[w].of] # "ACTIVE"
      BY <1>1, <1>12, <1>14, <2>1 DEF StockOutAndReleaseReservation
    <2>4. moved' \subseteq moved \cup {tx[w].of}
      BY <1>14 DEF StockOutAndReleaseReservation, Move
    <2> QED
      BY <1>1, <1>2, <1>10, <1>14, <2>1, <2>2, <2>3, <2>4, DeductTx
         DEF StockOutAndReleaseReservation
  <1>15. ASSUME NEW w \in Worker, StockIn(w) \/ AdjustDown(w) PROVE Goal
    <2>1. tx[w].of \notin Line /\ moved' = moved \cup {tx[w].of}
      BY <1>15, InTx, OutTx, InventoryAssumption
         DEF InventoryAssumption, StockIn, AdjustDown, Move
    <2> QED
      BY <1>1, <1>2, <1>10, <1>15, <2>1 DEF StockIn, AdjustDown
  <1>16. ASSUME NEW w \in Worker, Rollback(w) PROVE Goal
    BY <1>1, <1>2, <1>10, <1>16 DEF Rollback, stock
  <1>17. Tick => Goal
    BY <1>1, <1>2 DEF Tick, stock
  <1>18. UNCHANGED vars => Goal
    BY <1>1, <1>2 DEF vars
  <1> QED
    BY <1>3, <1>4, <1>5, <1>6, <1>7, <1>8, <1>9, <1>11, <1>13, <1>14, <1>15, <1>16, <1>17,
       <1>18 DEF Next

(* A line that was sold holds no reservation, if order.created comes first. *)
THEOREM SoldLinesHoldNothing == Spec => []SoldLineHoldsNothing
  <1>1. Init => OrderedInv
    BY DEF Init, OrderedInv, Idle
  <1>2. OrderedInv => SoldLineHoldsNothing
    BY DEF OrderedInv, SoldLineHoldsNothing
  <1> QED
    BY <1>1, <1>2, OrderedInvInductive, InventoryTypeCorrect, PTL DEF Spec

-----------------------------------------------------------------------------
(* The three books.  The counters are never computed from the rows beside   *)
(* them; each step changes both by the same amount.                         *)
Active == {l \in Line : reservation[l] = "ACTIVE"}

\* What a step needs and leaves of the three sums.
BooksInv ==
  /\ onHand = SumOf(remaining, Batch)
  /\ onHand = SumOf(Qty, moved \cap Batch) - SumOf(Qty, moved \ Batch)
  /\ reserved = SumOf(Qty, Active)

\* Total is the sum that Totals speaks of.
LEMMA TotalIsSum == \A S, f : Total(S, f) = SumOf(f, S)
  BY DEF Total, SumOf, MapThenSumSet, MapThenFoldSet

\* Lines and movements are finitely many.
LEMMA FewMovements ==
  /\ IsFiniteSet(Batch)
  /\ \A S \in SUBSET Movement : IsFiniteSet(S) /\ IntegersOn(Qty, S)
  <1>1. IsFiniteSet(Movement)
    BY InventoryAssumption DEF InventoryAssumption
  <1> QED
    BY <1>1, BatchIsMovement, QtyType, FS_Subset DEF IntegersOn

\* What a consumption takes from the counter it takes from the batches.
LEMMA ConsumeBalances ==
  ASSUME TypeOK, NEW read, NEW q \in Nat, Consume(read, q)
  PROVE  /\ onHand' = onHand - q
         /\ SumOf(remaining', Batch) = SumOf(remaining, Batch) - q
  <1>1. PICK take \in [Batch -> 0..q] :
          /\ Total(Batch, take) = q
          /\ remaining' = [b \in Batch |-> remaining[b] - take[b]]
    BY DEF Consume, IsAllocation
  <1>2. SumOf(take, Batch) = q
    BY <1>1, TotalIsSum
  <1>3. \A b \in Batch : remaining'[b] \in Int /\ take[b] \in Int
                         /\ remaining[b] = remaining'[b] + take[b]
    BY <1>1 DEF TypeOK
  <1>4. IntegersOn(remaining', Batch) /\ IntegersOn(take, Batch)
    BY <1>3 DEF IntegersOn
  <1>5. SumOf(remaining, Batch) = SumOf(remaining', Batch) + SumOf(take, Batch)
    BY <1>3, <1>4, FewMovements, TotalOfSums
  <1>6. SumOf(remaining', Batch) \in Int
    BY <1>4, FewMovements, TotalInt
  <1> QED
    BY <1>2, <1>5, <1>6 DEF Consume

\* What a step does to the counter, the batches and the movements.
LEMMA MovementSteps ==
  ASSUME TypeOK, [Next]_vars
  PROVE  \/ UNCHANGED <<onHand, remaining, moved>>
         \/ \E m \in Movement \ Batch : \E read :
              m \notin moved /\ moved' = moved \cup {m} /\ Consume(read, Qty[m])
         \/ \E b \in Batch :
              /\ b \notin moved /\ moved' = moved \cup {b}
              /\ onHand' = onHand + Qty[b]
              /\ remaining' = [remaining EXCEPT ![b] = Qty[b]]
  <1> DEFINE Still == UNCHANGED <<onHand, remaining, moved>>
             Takes == \E m \in Movement \ Batch : \E read :
                        m \notin moved /\ moved' = moved \cup {m} /\ Consume(read, Qty[m])
             Brings == \E b \in Batch :
                         /\ b \notin moved /\ moved' = moved \cup {b}
                         /\ onHand' = onHand + Qty[b]
                         /\ remaining' = [remaining EXCEPT ![b] = Qty[b]]
  <1>1. Line \cap Batch = {} /\ Loss \cap Batch = {}
    BY InventoryAssumption DEF InventoryAssumption
  <1>2. ASSUME NEW l \in Line, Publish(l) \/ Settle(l) PROVE Still
    BY <1>2 DEF Publish, Settle, stock
  <1>3. ASSUME NEW w \in Worker, NEW l \in Line,
               BeginReserve(w, l) \/ BeginRelease(w, l) \/ BeginDeduct(w, l)
        PROVE  Still
    BY <1>3 DEF BeginReserve, BeginRelease, BeginDeduct, Begin, stock
  <1>4. ASSUME NEW w \in Worker, NEW b \in Batch, BeginIn(w, b) PROVE Still
    BY <1>4 DEF BeginIn, Begin, stock
  <1>5. ASSUME NEW w \in Worker, NEW a \in Loss, BeginOut(w, a) PROVE Still
    BY <1>5 DEF BeginOut, Begin, stock
  <1>6. ASSUME NEW w \in Worker, ReserveStock(w) PROVE Still
    BY <1>6 DEF ReserveStock
  <1>7. ASSUME NEW w \in Worker, ReleaseReservedStock(w) PROVE Still
    BY <1>7 DEF ReleaseReservedStock
  <1>8. ASSUME NEW w \in Worker, StockOutAndReleaseReservation(w) PROVE Still \/ Takes
    <2>1. tx[w].of \in Movement \ Batch
      BY <1>1, <1>8, DeductTx, BatchIsMovement DEF StockOutAndReleaseReservation
    <2> QED
      BY <1>8, <2>1 DEF StockOutAndReleaseReservation, Move
  <1>9. ASSUME NEW w \in Worker, StockIn(w) PROVE Brings
    BY <1>9, InTx DEF StockIn, Move
  <1>10. ASSUME NEW w \in Worker, AdjustDown(w) PROVE Takes
    <2>1. tx[w].of \in Movement \ Batch
      BY <1>1, <1>10, OutTx, BatchIsMovement DEF AdjustDown
    <2> QED
      BY <1>10, <2>1 DEF AdjustDown, Move
  <1>11. ASSUME NEW w \in Worker, Rollback(w) PROVE Still
    BY <1>11 DEF Rollback, stock
  <1>12. Tick => Still
    BY DEF Tick, stock
  <1>13. UNCHANGED vars => Still
    BY DEF vars
  <1> HIDE DEF Still, Takes, Brings
  <1>14. Still \/ Takes \/ Brings
    BY <1>2, <1>3, <1>4, <1>5, <1>6, <1>7, <1>8, <1>9, <1>10, <1>11, <1>12, <1>13 DEF Next
  <1> QED
    BY <1>14 DEF Still, Takes, Brings

\* The counter and the rows it stands for change together.
LEMMA OnHandBalances ==
  ASSUME FifoInv, BooksInv, [Next]_vars
  PROVE  /\ onHand' = SumOf(remaining', Batch)
         /\ onHand' = SumOf(Qty, moved' \cap Batch) - SumOf(Qty, moved' \ Batch)
  <1>1. TypeOK /\ moved \subseteq Movement
    BY DEF FifoInv, TypeOK
  <1> DEFINE in == moved \cap Batch   out == moved \ Batch
  <1>2. /\ IsFiniteSet(in) /\ IsFiniteSet(out) /\ IntegersOn(Qty, in) /\ IntegersOn(Qty, out)
        /\ SumOf(Qty, in) \in Int /\ SumOf(Qty, out) \in Int
    <2>1. in \in SUBSET Movement /\ out \in SUBSET Movement
      BY <1>1
    <2> QED
      BY <2>1, FewMovements, TotalInt
  <1>6. onHand = SumOf(remaining, Batch) /\ onHand = SumOf(Qty, in) - SumOf(Qty, out) /\ onHand \in Int
    BY <1>2 DEF BooksInv
  <1>3. CASE UNCHANGED <<onHand, remaining, moved>>
    BY <1>3 DEF BooksInv
  <1>4. ASSUME NEW m \in Movement \ Batch, NEW read,
               m \notin moved, moved' = moved \cup {m}, Consume(read, Qty[m])
        PROVE  /\ onHand' = SumOf(remaining', Batch)
               /\ onHand' = SumOf(Qty, moved' \cap Batch) - SumOf(Qty, moved' \ Batch)
    <2>1. Qty[m] \in Nat
      BY QtyType
    <2>2. onHand' = onHand - Qty[m] /\ SumOf(remaining', Batch) = SumOf(remaining, Batch) - Qty[m]
      BY <1>1, <1>4, <2>1, ConsumeBalances
    <2>3. moved' \cap Batch = in /\ moved' \ Batch = out \cup {m} /\ m \notin out
      BY <1>4
    <2>4. IntegersOn(Qty, out \cup {m})
      BY <1>2, <2>1 DEF IntegersOn
    <2>5. SumOf(Qty, out \cup {m}) = Qty[m] + SumOf(Qty, out)
      BY <1>2, <2>3, <2>4, TotalAdds
    <2>6. SumOf(Qty, moved' \cap Batch) = SumOf(Qty, in)
      BY <2>3
    <2>7. SumOf(Qty, moved' \ Batch) = Qty[m] + SumOf(Qty, out)
      BY <2>3, <2>5
    <2>8. onHand' = SumOf(remaining', Batch)
      BY <2>2, <1>6
    <2> HIDE DEF in, out
    <2>9. onHand' = SumOf(Qty, in) - (Qty[m] + SumOf(Qty, out))
      BY <1>2, <1>6, <2>1, <2>2
    <2> QED
      BY <2>6, <2>7, <2>8, <2>9
  <1>5. ASSUME NEW b \in Batch, b \notin moved, moved' = moved \cup {b},
               onHand' = onHand + Qty[b], remaining' = [remaining EXCEPT ![b] = Qty[b]]
        PROVE  /\ onHand' = SumOf(remaining', Batch)
               /\ onHand' = SumOf(Qty, moved' \cap Batch) - SumOf(Qty, moved' \ Batch)
    <2>1. Qty[b] \in Nat
      BY QtyType, BatchIsMovement
    <2>2. remaining[b] = 0
      BY <1>5 DEF FifoInv, ReceivedInv
    <2>3. IntegersOn(remaining, Batch) /\ IntegersOn(remaining', Batch)
          /\ SameOn(remaining', remaining, Batch \ {b}) /\ remaining'[b] = Qty[b]
      BY <1>1, <1>5, <2>1 DEF TypeOK, IntegersOn, SameOn
    <2>4. SumOf(remaining', Batch) = SumOf(remaining, Batch) - remaining[b] + remaining'[b]
      BY <2>3, FewMovements, TotalUpdates
    <2>5. SumOf(remaining, Batch) \in Int
      BY <2>3, FewMovements, TotalInt
    <2>6. onHand' = SumOf(remaining', Batch)
      BY <1>5, <2>1, <2>2, <2>3, <2>4, <2>5 DEF BooksInv
    <2>7. moved' \cap Batch = in \cup {b} /\ moved' \ Batch = out /\ b \notin in
      BY <1>5
    <2>8. IntegersOn(Qty, in \cup {b})
      BY <1>2, <2>1 DEF IntegersOn
    <2>9. SumOf(Qty, in \cup {b}) = Qty[b] + SumOf(Qty, in)
      BY <1>2, <2>7, <2>8, TotalAdds
    <2>10. SumOf(Qty, moved' \cap Batch) = Qty[b] + SumOf(Qty, in)
      BY <2>7, <2>9
    <2>11. SumOf(Qty, moved' \ Batch) = SumOf(Qty, out)
      BY <2>7
    <2> HIDE DEF in, out
    <2>12. onHand' = (Qty[b] + SumOf(Qty, in)) - SumOf(Qty, out)
      BY <1>2, <1>6, <1>5, <2>1
    <2> QED
      BY <2>6, <2>10, <2>11, <2>12
  <1> QED
    BY <1>1, <1>3, <1>4, <1>5, MovementSteps

\* So do reserved_quantity and the ACTIVE reservations.
LEMMA ReservedBalances ==
  ASSUME TypeOK, BooksInv, [Next]_vars
  PROVE  reserved' = SumOf(Qty, Active')
  <1>1. /\ Active \in SUBSET Movement /\ IsFiniteSet(Active) /\ IntegersOn(Qty, Active)
        /\ SumOf(Qty, Active) \in Int
    <2>1. Active \in SUBSET Movement
      BY BatchIsMovement DEF Active
    <2> QED
      BY <2>1, FewMovements, TotalInt
  <1>2. CASE UNCHANGED <<reserved, reservation>>
    BY <1>2 DEF BooksInv, Active
  <1>3. ASSUME NEW l \in Line, ReleaseReservation(l) PROVE reserved' = SumOf(Qty, Active')
    <2>1. l \in Active /\ Active' = Active \ {l}
      BY <1>3 DEF ReleaseReservation, TypeOK, Active
    <2>2. IsFiniteSet(Active \ {l}) /\ IntegersOn(Qty, Active \ {l})
      BY <1>1, FewMovements
    <2>3. SumOf(Qty, Active) = Qty[l] + SumOf(Qty, Active \ {l})
      BY <1>1, <2>1, TotalRemoves
    <2>4. SumOf(Qty, Active \ {l}) \in Int /\ Qty[l] \in Int
      BY <2>2, TotalInt, QtyType, BatchIsMovement
    <2> QED
      BY <1>3, <2>1, <2>3, <2>4 DEF ReleaseReservation, BooksInv
  <1>4. ASSUME NEW w \in Worker, ReserveStock(w) PROVE reserved' = SumOf(Qty, Active')
    <2> DEFINE l == tx[w].of
    <2>1. l \in Line /\ Qty[l] \in Int
      BY <1>4, ReserveTx, QtyType, BatchIsMovement DEF ReserveStock
    <2>2. l \notin Active /\ Active' = Active \cup {l} /\ reserved' = reserved + Qty[l]
      BY <1>4, <2>1 DEF ReserveStock, TypeOK, Active
    <2> HIDE DEF l
    <2>3. IntegersOn(Qty, Active \cup {l})
      BY <1>1, <2>1 DEF IntegersOn
    <2>4. SumOf(Qty, Active \cup {l}) = Qty[l] + SumOf(Qty, Active)
      BY <1>1, <2>2, <2>3, TotalAdds
    <2> QED
      BY <1>1, <2>1, <2>2, <2>4 DEF BooksInv
  <1> QED
    BY <1>2, <1>3, <1>4, ReservationSteps

(* quantity_on_hand is what the batches hold and what the movements came to, *)
(* and reserved_quantity what the ACTIVE reservations hold, for any number  *)
(* of transactions at once and whatever they had read (InventoryService,    *)
(* FifoService, BatchService).                                              *)
THEOREM StockBooksAgree == Spec => []QuantitiesAgree
  <1>1. Init => BooksInv
    <2> SUFFICES ASSUME Init PROVE BooksInv
      OBVIOUS
    <2>1. \A S \in SUBSET Batch : SumOf(remaining, S) = 0
      <3> DEFINE B == {s \in SUBSET Batch : SumOf(remaining, s) # 0}
      <3>1. ASSUME NEW s \in B, \A x \in s : s \ {x} \notin B PROVE FALSE
        <4>1. CASE s = {}
          BY <4>1, TotalOfNone
        <4>2. CASE s # {}
          <5>1. PICK x \in s : TRUE
            BY <4>2
          <5>2. IsFiniteSet(s) /\ IntegersOn(remaining, s)
            BY FewMovements, FS_Subset DEF Init, IntegersOn
          <5>3. SumOf(remaining, s) = remaining[x] + SumOf(remaining, s \ {x})
            BY <5>2, TotalRemoves
          <5>4. SumOf(remaining, s \ {x}) = 0 /\ remaining[x] = 0
            BY <3>1 DEF Init
          <5> QED
            BY <5>3, <5>4
        <4> QED
          BY <4>1, <4>2
      <3> QED
        BY <3>1, LeastSet, FewMovements
    <2>2. Active = {} /\ moved \cap Batch = {} /\ moved \ Batch = {}
      BY DEF Init, Active
    <2> QED
      BY <2>1, <2>2, TotalOfNone DEF Init, BooksInv
  <1>2. FifoInv /\ BooksInv /\ [Next]_vars => BooksInv'
    BY OnHandBalances, ReservedBalances DEF BooksInv, FifoInv
  <1>3. Spec => []BooksInv
    BY <1>1, <1>2, FifoInvAlways, PTL DEF Spec
  <1>4. BooksInv => QuantitiesAgree
    BY TotalIsSum DEF BooksInv, Active, QuantitiesAgree, SummaryMatchesBatches,
                      StockMatchesMovements, ReservedMatches
  <1> QED
    BY <1>3, <1>4, PTL

-----------------------------------------------------------------------------
(* Units with a serial (UniqueAssets).  The counters count the holds and the *)
(* assets because every asset is promised once.                             *)

\* An order line holds its asset.
OnHold(s) == hold[s] = "ACTIVE"

\* What PromisedOnce says of one asset, without cardinalities.
Promise(a) ==
  /\ \A s, t \in Sale : OnHold(s) /\ OnHold(t) /\ wanted[s] = a /\ wanted[t] = a => s = t
  /\ \A s, t \in sold : wanted[s] = a /\ wanted[t] = a => s = t
  /\ \A s \in sold : wanted[s] = a => assetStatus[a] = "SOLD" /\ a \notin adjusted
  /\ a \in adjusted => assetStatus[a] = "SOLD"
  /\ assetStatus[a] = "SOLD" => a \in adjusted \/ \E s \in sold : wanted[s] = a
  /\ assetStatus[a] = "RESERVED" => \E s \in Sale : OnHold(s) /\ wanted[s] = a
  /\ \A s \in Sale : OnHold(s) /\ wanted[s] = a => assetStatus[a] \in {"RESERVED", "SOLD"}
  /\ serialStatus[a] # "NONE" => (serialStatus[a] = "SOLD" <=> assetStatus[a] = "SOLD")

\* Every asset nobody set by hand is promised once.
Promises == \A a \in Asset \ touched : Promise(a)

\* Only orders that exist hold or have sold an asset.
SalesAreReal ==
  \A s \in Sale : /\ saleStage[s] = "none" => hold[s] = "NONE" /\ s \notin sold
                  /\ saleStage[s] # "none" => wanted[s] \in Asset

\* What calls in flight have read and nobody takes back.
JobsAreReal ==
  \A w \in AssetWorker :
    /\ assetJob[w].op \in {"reserve", "release", "sell"} => saleStage[assetJob[w].of] # "none"
    /\ assetJob[w].op = "sell" /\ assetJob[w].done => assetJob[w].of \in sold

\* The assets that are still in the house.
Unsold == {a \in Asset : assetStatus[a] \in {"AVAILABLE", "RESERVED"}}

\* The counters of the stock count the holds and the assets that are there.
Counts == heldUnits = Cardinality(Holds) /\ (touched = {} => units = Cardinality(Unsold))

\* What a step needs and leaves.
AssetInv == AssetTypeOK /\ Promises /\ SalesAreReal /\ JobsAreReal /\ Counts

\* What a call in flight carries.
LEMMA JobType ==
  ASSUME AssetTypeOK, NEW w \in AssetWorker
  PROVE  /\ assetJob[w].op \in {"reserve", "release", "sell"} => assetJob[w].of \in Sale
         /\ assetJob[w].op \in {"adjust", "retire"} => assetJob[w].asset \in Asset
         /\ assetJob[w].op = "sell" => assetJob[w].done \in BOOLEAN /\ assetJob[w].held \in BOOLEAN
  BY DEF AssetTypeOK, AssetJob, NoJob

\* Every step keeps the types.
LEMMA AssetTypes ==
  ASSUME UniqueAssetsAssumption, AssetTypeOK, SalesAreReal, [AssetNext]_assetVars
  PROVE  AssetTypeOK'
  <1> USE DEF assetVars, assetRows, assetAdmin, UniqueAssetsAssumption
  <1>1. ASSUME NEW a \in Asset, RegisterAsset(a) \/ ReactivateAsset(a) PROVE AssetTypeOK'
    BY <1>1 DEF AssetTypeOK, RegisterAsset, ReactivateAsset, SetStatus, Touch, AssetState
  <1>2. ASSUME NEW a \in Asset, NEW status \in AssetStatusSet, UpdateAsset(a, status) PROVE AssetTypeOK'
    BY <1>2 DEF AssetTypeOK, UpdateAsset, SetStatus, Touch, AssetState
  <1>3. ASSUME NEW t \in IdentifierType, ArchiveIdentifierType(t) \/ RestoreIdentifierType(t) PROVE AssetTypeOK'
    BY <1>3 DEF AssetTypeOK, ArchiveIdentifierType, RestoreIdentifierType
  <1>4. ASSUME NEW tracks \in BOOLEAN, UpdateConfiguration(tracks) PROVE AssetTypeOK'
    BY <1>4 DEF AssetTypeOK, UpdateConfiguration
  <1>5. ASSUME NEW s \in Sale, ChangeSale(s) PROVE AssetTypeOK'
    BY <1>5 DEF AssetTypeOK, ChangeSale
  <1>6. ASSUME NEW s \in Sale, NEW a \in Asset, PlaceSale(s, a) PROVE AssetTypeOK'
    BY <1>6 DEF AssetTypeOK, PlaceSale
  <1>7. ASSUME NEW s \in Sale, RestoreAssets(s) PROVE AssetTypeOK'
    <2>1. touched' \subseteq Asset
      <3>1. wanted[s] \in Asset
        BY <1>7 DEF RestoreAssets, SalesAreReal
      <3> QED
        BY <1>7, <3>1 DEF RestoreAssets, Touch, AssetTypeOK
    <2> QED
      BY <1>7, <2>1 DEF AssetTypeOK, RestoreAssets, AssetState
  <1>8. ASSUME NEW w \in AssetWorker, NEW job \in AssetJob, Take(w, job) PROVE AssetTypeOK'
    BY <1>8 DEF AssetTypeOK, Take
  <1>9. ASSUME NEW w \in AssetWorker, NEW s \in Sale,
               ReserveReads(w, s) \/ SellReads(w, s) \/ ReleaseReads(w, s)
        PROVE  AssetTypeOK'
    <2> DEFINE free == units - heldUnits  gone == s \in sold  kept == hold[s] = "ACTIVE"
    <2>1. free \in Int /\ gone \in BOOLEAN /\ kept \in BOOLEAN
      BY DEF AssetTypeOK
    <2>2. \/ Take(w, [op |-> "reserve", of |-> s, free |-> free])
          \/ Take(w, [op |-> "sell", of |-> s, done |-> gone, held |-> kept])
          \/ Take(w, [op |-> "release", of |-> s])
      BY <1>9 DEF ReserveReads, SellReads, ReleaseReads
    <2> HIDE DEF free, gone, kept
    <2>3. /\ [op |-> "reserve", of |-> s, free |-> free] \in AssetJob
          /\ [op |-> "sell", of |-> s, done |-> gone, held |-> kept] \in AssetJob
          /\ [op |-> "release", of |-> s] \in AssetJob
      BY <2>1 DEF AssetJob
    <2> QED
      BY <1>8, <2>2, <2>3
  <1>10. ASSUME NEW w \in AssetWorker, NEW a \in Asset, AdjustReads(w, a) \/ RetireReads(w, a)
         PROVE  AssetTypeOK'
    <2>1. \E job \in AssetJob : Take(w, job)
      BY <1>10 DEF AdjustReads, RetireReads, AssetJob
    <2> QED
      BY <1>8, <2>1
  <1>11. ASSUME NEW w \in AssetWorker, AbandonJob(w) PROVE AssetTypeOK'
    BY <1>11 DEF AssetTypeOK, AbandonJob, Done, AssetJob
  <1>18. ASSUME NEW a PROVE Freed(a) \in [Asset -> AssetState]
    BY DEF Freed, AssetTypeOK, AssetState
  <1>19. ASSUME NEW a PROVE SerialSold(a) \in [Asset -> {"NONE", "AVAILABLE", "SOLD"}]
    BY DEF SerialSold, AssetTypeOK
  <1>20. ASSUME NEW w \in AssetWorker, Done(w) PROVE assetJob' \in [AssetWorker -> AssetJob]
    BY <1>20 DEF Done, AssetTypeOK, AssetJob
  <1>12. ASSUME NEW w \in AssetWorker, ReserveAssets(w) PROVE AssetTypeOK'
    <2>1. hold' \in [Sale -> {"NONE", "ACTIVE", "RELEASED"}] /\ assetStatus' \in [Asset -> AssetState]
      BY <1>12 DEF AssetTypeOK, ReserveAssets, AssetState
    <2>2. heldUnits' \in Int /\ assetJob' \in [AssetWorker -> AssetJob]
      BY <1>12, <1>20 DEF AssetTypeOK, ReserveAssets
    <2> QED
      BY <1>12, <2>1, <2>2 DEF AssetTypeOK, ReserveAssets
  <1>13. ASSUME NEW w \in AssetWorker, MarkAssetsSold(w) PROVE AssetTypeOK'
    <2>1. assetJob[w].of \in Sale
      BY <1>13, JobType DEF MarkAssetsSold
    <2>2. sold' \subseteq Sale /\ units' \in Int
      BY <1>13, <2>1 DEF AssetTypeOK, MarkAssetsSold
    <2>3. hold' \in [Sale -> {"NONE", "ACTIVE", "RELEASED"}] /\ heldUnits' \in Int
      BY <1>13 DEF AssetTypeOK, MarkAssetsSold
    <2>4. assetStatus' \in [Asset -> AssetState]
      BY <1>13, <1>18 DEF AssetTypeOK, MarkAssetsSold, AssetState
    <2>5. serialStatus' \in [Asset -> {"NONE", "AVAILABLE", "SOLD"}]
      BY <1>13, <1>19 DEF AssetTypeOK, MarkAssetsSold
    <2> QED
      BY <1>13, <1>20, <2>2, <2>3, <2>4, <2>5 DEF AssetTypeOK, MarkAssetsSold
  <1>14. ASSUME NEW w \in AssetWorker, ReleaseReservedAssets(w) PROVE AssetTypeOK'
    <2>1. hold' \in [Sale -> {"NONE", "ACTIVE", "RELEASED"}] /\ assetStatus' \in [Asset -> AssetState]
      BY <1>14, <1>18 DEF AssetTypeOK, ReleaseReservedAssets
    <2> QED
      BY <1>14, <1>20, <2>1 DEF AssetTypeOK, ReleaseReservedAssets
  <1>15. ASSUME NEW w \in AssetWorker, AdjustOut(w) PROVE AssetTypeOK'
    <2>1. assetJob[w].asset \in Asset
      BY <1>15, JobType DEF AdjustOut
    <2>2. assetStatus' \in [Asset -> AssetState] /\ adjusted' \subseteq Asset
      BY <1>15, <2>1 DEF AssetTypeOK, AdjustOut, AssetState
    <2> QED
      BY <1>15, <1>19, <1>20, <2>2 DEF AssetTypeOK, AdjustOut
  <1>16. ASSUME NEW w \in AssetWorker, RetireAsset(w) PROVE AssetTypeOK'
    BY <1>16, JobType DEF AssetTypeOK, RetireAsset, SetStatus, Touch, Done, AssetJob, AssetState
  <1>17. ASSUME UNCHANGED assetVars PROVE AssetTypeOK'
    BY <1>17 DEF AssetTypeOK
  <1> QED
    BY <1>1, <1>2, <1>3, <1>4, <1>5, <1>6, <1>7, <1>9, <1>10, <1>11, <1>12, <1>13, <1>14, <1>15,
       <1>16, <1>17 DEF AssetNext

\* Every step keeps holds and sales with the orders they are of.
LEMMA SalesStayReal ==
  ASSUME UniqueAssetsAssumption, AssetTypeOK, SalesAreReal, JobsAreReal, [AssetNext]_assetVars
  PROVE  SalesAreReal' /\ JobsAreReal'
  <1> USE DEF assetVars, assetRows, assetAdmin
  <1>1. ASSUME UNCHANGED <<hold, sold, wanted, saleStage, assetJob>> PROVE SalesAreReal' /\ JobsAreReal'
    BY <1>1 DEF SalesAreReal, JobsAreReal
  <1>2. ASSUME NEW s \in Sale, ChangeSale(s) PROVE SalesAreReal' /\ JobsAreReal'
    <2>1. \A t \in Sale : saleStage'[t] = "none" <=> saleStage[t] = "none"
      BY <1>2 DEF ChangeSale, AssetTypeOK
    <2>2. SalesAreReal'
      BY <1>2, <2>1 DEF ChangeSale, SalesAreReal
    <2>3. JobsAreReal'
      BY <1>2, <2>1, JobType DEF ChangeSale, JobsAreReal
    <2> QED
      BY <2>2, <2>3
  <1>3. ASSUME NEW s \in Sale, NEW a \in Asset, PlaceSale(s, a) PROVE SalesAreReal' /\ JobsAreReal'
    <2>1. SalesAreReal'
      BY <1>3 DEF PlaceSale, SalesAreReal, AssetTypeOK
    <2>2. \A t \in Sale : saleStage[t] # "none" => saleStage'[t] # "none"
      BY <1>3 DEF PlaceSale, AssetTypeOK
    <2>3. JobsAreReal'
      BY <1>3, <2>2, JobType DEF PlaceSale, JobsAreReal
    <2> QED
      BY <2>1, <2>3
  <1>4. ASSUME NEW w \in AssetWorker, NEW s \in Sale,
               ReserveReads(w, s) \/ SellReads(w, s) \/ ReleaseReads(w, s)
        PROVE  SalesAreReal' /\ JobsAreReal'
    <2>1. UNCHANGED <<hold, sold, wanted, saleStage>> /\ saleStage[s] # "none"
      BY <1>4 DEF ReserveReads, SellReads, ReleaseReads, Take
    <2>2. /\ \A v \in AssetWorker \ {w} : assetJob'[v] = assetJob[v]
          /\ assetJob'[w].of = s
          /\ assetJob'[w].op = "sell" => assetJob'[w].done = (s \in sold)
      BY <1>4 DEF ReserveReads, SellReads, ReleaseReads, Take, AssetTypeOK
    <2>3. JobsAreReal'
      BY <2>1, <2>2 DEF JobsAreReal
    <2> QED
      BY <2>1, <2>3 DEF SalesAreReal
  <1>5. ASSUME NEW w \in AssetWorker, NEW a \in Asset, AdjustReads(w, a) \/ RetireReads(w, a)
        PROVE  SalesAreReal' /\ JobsAreReal'
    <2>1. UNCHANGED <<hold, sold, wanted, saleStage>>
      BY <1>5 DEF AdjustReads, RetireReads, Take
    <2>2. /\ \A v \in AssetWorker \ {w} : assetJob'[v] = assetJob[v]
          /\ assetJob'[w].op \in {"adjust", "retire"}
      BY <1>5 DEF AdjustReads, RetireReads, Take, AssetTypeOK
    <2>3. JobsAreReal'
      BY <2>1, <2>2 DEF JobsAreReal
    <2> QED
      BY <2>1, <2>3 DEF SalesAreReal
  <1>6. ASSUME NEW w \in AssetWorker, Done(w), sold \subseteq sold', UNCHANGED saleStage
        PROVE  JobsAreReal'
    <2>1. /\ \A v \in AssetWorker \ {w} : assetJob'[v] = assetJob[v]
          /\ assetJob'[w].op = "none"
      BY <1>6 DEF Done, NoJob, AssetTypeOK
    <2> QED
      BY <1>6, <2>1 DEF JobsAreReal
  <1>7. ASSUME NEW w \in AssetWorker,
               AbandonJob(w) \/ ReserveAssets(w) \/ MarkAssetsSold(w) \/ ReleaseReservedAssets(w)
               \/ AdjustOut(w) \/ RetireAsset(w)
        PROVE  SalesAreReal' /\ JobsAreReal'
    <2>1. Done(w) /\ sold \subseteq sold' /\ UNCHANGED <<saleStage, wanted>>
      BY <1>7 DEF AbandonJob, ReserveAssets, MarkAssetsSold, ReleaseReservedAssets, AdjustOut, RetireAsset,
                  SetStatus
    <2>2. JobsAreReal'
      BY <1>6, <2>1
    <2> DEFINE s == assetJob[w].of
    <2>3. CASE UNCHANGED <<hold, sold>>
      BY <2>1, <2>2, <2>3 DEF SalesAreReal
    <2>4. CASE ReserveAssets(w) \/ MarkAssetsSold(w) \/ ReleaseReservedAssets(w)
      <3>1. s \in Sale /\ saleStage[s] # "none"
        BY <2>4, JobType DEF ReserveAssets, MarkAssetsSold, ReleaseReservedAssets, JobsAreReal
      <3>2. \A t \in Sale : t # s => hold'[t] = hold[t] /\ (t \in sold' => t \in sold)
        BY <2>4, <3>1 DEF ReserveAssets, MarkAssetsSold, ReleaseReservedAssets, AssetTypeOK
      <3> HIDE DEF s
      <3> QED
        BY <2>1, <2>2, <3>1, <3>2 DEF SalesAreReal
    <2> QED
      BY <1>7, <2>3, <2>4 DEF AbandonJob, AdjustOut, RetireAsset, SetStatus
  <1>8. \/ UNCHANGED <<hold, sold, wanted, saleStage, assetJob>>
        \/ \E s \in Sale : ChangeSale(s) \/ \E a \in Asset : PlaceSale(s, a)
        \/ \E w \in AssetWorker, s \in Sale : ReserveReads(w, s) \/ SellReads(w, s) \/ ReleaseReads(w, s)
        \/ \E w \in AssetWorker, a \in Asset : AdjustReads(w, a) \/ RetireReads(w, a)
        \/ \E w \in AssetWorker :
             AbandonJob(w) \/ ReserveAssets(w) \/ MarkAssetsSold(w) \/ ReleaseReservedAssets(w)
             \/ AdjustOut(w) \/ RetireAsset(w)
    BY DEF AssetNext, RegisterAsset, ReactivateAsset, UpdateAsset, SetStatus, ArchiveIdentifierType,
           RestoreIdentifierType, UpdateConfiguration, RestoreAssets
  <1> QED
    BY <1>1, <1>2, <1>3, <1>4, <1>5, <1>7, <1>8

\* An asset that a step does not concern stays as promised.
LEMMA PromiseStays ==
  ASSUME NEW a, Promise(a), assetStatus'[a] = assetStatus[a], serialStatus'[a] = serialStatus[a],
         a \in adjusted' <=> a \in adjusted,
         \A s \in Sale : /\ OnHold(s)' /\ wanted'[s] = a <=> OnHold(s) /\ wanted[s] = a
                         /\ s \in sold' /\ wanted'[s] = a <=> s \in sold /\ wanted[s] = a,
         sold \subseteq Sale, sold' \subseteq Sale
  PROVE  Promise(a)'
  BY DEF Promise, OnHold

\* Every step keeps the promise of each asset nobody set by hand.
LEMMA PromisesStay ==
  ASSUME UniqueAssetsAssumption, AssetInv, AssetTypeOK', [AssetNext]_assetVars
  PROVE  Promises'
  <1> USE DEF assetVars, assetRows, assetAdmin
  <1> SUFFICES ASSUME NEW a \in Asset, a \notin touched' PROVE Promise(a)'
    BY DEF Promises
  <1>1. AssetTypeOK /\ SalesAreReal /\ JobsAreReal /\ sold \subseteq Sale /\ sold' \subseteq Sale
        /\ UniqueAssetsAssumption
    BY DEF AssetInv, AssetTypeOK
  <1>2. a \notin touched => Promise(a)
    BY DEF AssetInv, Promises
  <1>3. CASE UNCHANGED <<assetStatus, serialStatus, hold, sold, adjusted, wanted, touched>>
    BY <1>1, <1>2, <1>3, PromiseStays DEF OnHold
  <1>4. ASSUME NEW b \in Asset, RegisterAsset(b) PROVE Promise(a)'
    <2>1. CASE a # b
      <3>1. assetStatus'[a] = assetStatus[a] /\ serialStatus'[a] = serialStatus[a]
        BY <1>1, <1>4, <2>1 DEF RegisterAsset, AssetTypeOK
      <3> QED
        BY <1>1, <1>2, <1>4, <3>1, PromiseStays DEF RegisterAsset, OnHold
    <2>2. CASE a = b
      <3>1. assetStatus[a] = "NONE" /\ assetStatus'[a] = "AVAILABLE"
        BY <1>1, <1>4, <2>2 DEF RegisterAsset, AssetTypeOK
      <3>2. serialStatus[a] # "SOLD"
        BY <1>2, <1>4, <3>1 DEF RegisterAsset, Promise
      <3>3. serialStatus'[a] # "SOLD"
        BY <1>1, <1>4, <2>2, <3>2 DEF RegisterAsset, AssetTypeOK
      <3> QED
        BY <1>2, <1>4, <3>1, <3>3 DEF RegisterAsset, Promise, OnHold
    <2> QED
      BY <2>1, <2>2
  <1>5. ASSUME NEW b \in Asset, NEW status, SetStatus(b, status) PROVE Promise(a)'
    <2>1. a # b /\ a \notin touched
      BY <1>5 DEF SetStatus, Touch
    <2>2. assetStatus'[a] = assetStatus[a]
      BY <1>1, <1>5, <2>1 DEF SetStatus, AssetTypeOK
    <2> QED
      BY <1>1, <1>2, <1>5, <2>1, <2>2, PromiseStays DEF SetStatus, OnHold
  <1>6. ASSUME NEW s \in Sale, RestoreAssets(s) PROVE Promise(a)'
    <2>1. a # wanted[s] /\ a \notin touched
      BY <1>6 DEF RestoreAssets, Touch
    <2>2. assetStatus'[a] = assetStatus[a] /\ serialStatus'[a] = serialStatus[a]
      BY <1>1, <1>6, <2>1 DEF RestoreAssets, AssetTypeOK
    <2> QED
      BY <1>1, <1>2, <1>6, <2>1, <2>2, PromiseStays DEF RestoreAssets, OnHold
  <1>7. ASSUME NEW s \in Sale, NEW b \in Asset, PlaceSale(s, b) PROVE Promise(a)'
    <2>1. ~OnHold(s) /\ s \notin sold
      BY <1>1, <1>7 DEF PlaceSale, SalesAreReal, OnHold
    <2>2. \A t \in Sale : t # s => wanted'[t] = wanted[t]
      BY <1>1, <1>7 DEF PlaceSale, AssetTypeOK
    <2> QED
      BY <1>1, <1>2, <1>7, <2>1, <2>2, PromiseStays DEF PlaceSale, OnHold
  <1>8. ASSUME NEW w \in AssetWorker, ReserveAssets(w) PROVE Promise(a)'
    <2> DEFINE s == assetJob[w].of
    <2>1. s \in Sale /\ wanted[s] \in Asset /\ assetStatus[wanted[s]] = "AVAILABLE"
      BY <1>1, <1>8, JobType DEF ReserveAssets, MayReserveAsset, JobsAreReal, SalesAreReal
    <2>2. \A t \in Sale : OnHold(t)' <=> OnHold(t) \/ t = s
      BY <1>1, <1>8, <2>1 DEF ReserveAssets, AssetTypeOK, OnHold
    <2>3. \A b \in Asset : assetStatus'[b] = IF b = wanted[s] THEN "RESERVED" ELSE assetStatus[b]
      BY <1>1, <1>8, <2>1 DEF ReserveAssets, AssetTypeOK
    <2>4. UNCHANGED <<serialStatus, sold, adjusted, wanted, touched>>
      BY <1>8 DEF ReserveAssets
    <2> HIDE DEF s
    <2>5. CASE a # wanted[s]
      BY <1>1, <1>2, <2>2, <2>3, <2>4, <2>5, PromiseStays
    <2>6. CASE a = wanted[s]
      <3>1. assetStatus[a] = "AVAILABLE" /\ assetStatus'[a] = "RESERVED" /\ Promise(a)
        BY <1>2, <2>1, <2>3, <2>4, <2>6
      <3>2. \A t \in Sale : wanted[t] = a => ~OnHold(t)
        BY <3>1 DEF Promise
      <3> QED
        BY <2>1, <2>2, <2>4, <2>6, <3>1, <3>2 DEF Promise
    <2> QED
      BY <2>5, <2>6
  <1>9. ASSUME NEW w \in AssetWorker, AdjustOut(w) PROVE Promise(a)'
    <2> DEFINE b == assetJob[w].asset
    <2>1. b \in Asset /\ assetStatus[b] \in {"AVAILABLE", "RESERVED"}
      BY <1>1, <1>9, JobType DEF AdjustOut, MaySellAsset
    <2>2. UNCHANGED <<hold, sold, wanted, touched>> /\ adjusted' = adjusted \cup {b}
      BY <1>9 DEF AdjustOut
    <2>3. assetStatus'[a] = IF a = b THEN "SOLD" ELSE assetStatus[a]
      BY <1>1, <1>9, <2>1 DEF AdjustOut, AssetTypeOK
    <2>4. serialStatus'[a] = IF a = b /\ serialStatus[a] = "AVAILABLE" THEN "SOLD" ELSE serialStatus[a]
      BY <1>1, <1>9, <2>1 DEF AdjustOut, AssetTypeOK, SerialSold
    <2> HIDE DEF b
    <2>5. CASE a # b
      BY <1>1, <1>2, <2>2, <2>3, <2>4, <2>5, PromiseStays DEF OnHold
    <2>6. CASE a = b
      <3>1. Promise(a) /\ serialStatus[a] \in {"NONE", "AVAILABLE", "SOLD"}
        BY <1>1, <1>2, <2>2 DEF AssetTypeOK
      <3> QED
        BY <2>1, <2>2, <2>3, <2>4, <2>6, <3>1 DEF Promise, OnHold
    <2> QED
      BY <2>5, <2>6
  <1>10. ASSUME NEW s \in Sale, OnHold(s), hold' = [hold EXCEPT ![s] = "RELEASED"],
                assetStatus' = Freed(wanted[s]), UNCHANGED <<serialStatus, sold, adjusted, wanted, touched>>
         PROVE  Promise(a)'
    <2>1. \A t \in Sale : OnHold(t)' <=> OnHold(t) /\ t # s
      BY <1>1, <1>10 DEF AssetTypeOK, OnHold
    <2>2. assetStatus'[a] = IF a = wanted[s] /\ assetStatus[a] = "RESERVED" THEN "AVAILABLE" ELSE assetStatus[a]
      BY <1>1, <1>10 DEF AssetTypeOK, Freed
    <2>3. CASE a # wanted[s]
      BY <1>1, <1>2, <1>10, <2>1, <2>2, <2>3, PromiseStays
    <2>4. CASE a = wanted[s]
      <3>1. Promise(a) /\ \A t \in Sale : wanted[t] = a => ~OnHold(t)'
        BY <1>2, <1>10, <2>1, <2>4 DEF Promise
      <3> QED
        BY <1>10, <2>1, <2>2, <2>4, <3>1 DEF Promise
    <2> QED
      BY <2>3, <2>4
  <1>11. ASSUME NEW w \in AssetWorker, ReleaseReservedAssets(w) PROVE Promise(a)'
    <2>1. assetJob[w].of \in Sale
      BY <1>1, <1>11, JobType DEF ReleaseReservedAssets
    <2> QED
      BY <1>10, <1>11, <2>1 DEF ReleaseReservedAssets, OnHold
  <1>12. ASSUME NEW w \in AssetWorker, MarkAssetsSold(w) PROVE Promise(a)'
    <2> DEFINE s == assetJob[w].of
    <2>1. /\ s \in Sale /\ wanted[s] \in Asset
          /\ assetJob[w].done => s \in sold
          /\ assetJob[w].done \in BOOLEAN /\ assetJob[w].held \in BOOLEAN
      BY <1>1, <1>12, JobType DEF MarkAssetsSold, JobsAreReal, SalesAreReal
    <2>2. UNCHANGED <<adjusted, wanted, touched>>
      BY <1>12 DEF MarkAssetsSold
    <2>3. \A t \in Sale : t # s => (OnHold(t)' <=> OnHold(t))
      BY <1>1, <1>12, <2>1 DEF MarkAssetsSold, AssetTypeOK, OnHold
    <2>4. \A t \in Sale : OnHold(t)' => OnHold(t)
      <3>1. OnHold(s) \/ UNCHANGED hold
        BY <1>12 DEF MarkAssetsSold, OnHold
      <3> HIDE DEF s
      <3> QED
        BY <2>3, <3>1 DEF OnHold
    <2>5. CASE ~assetJob[w].done
      <3>1. s \notin sold /\ assetStatus[wanted[s]] \in {"AVAILABLE", "RESERVED"} /\ sold' = sold \cup {s}
        BY <1>12, <2>5 DEF MarkAssetsSold, MaySellAsset
      <3>2. assetStatus'[a] = IF a = wanted[s] THEN "SOLD" ELSE assetStatus[a]
        BY <1>1, <1>12, <2>1, <2>5 DEF MarkAssetsSold, AssetTypeOK
      <3>3. serialStatus'[a] = IF a = wanted[s] /\ serialStatus[a] = "AVAILABLE" THEN "SOLD" ELSE serialStatus[a]
        BY <1>1, <1>12, <2>1, <2>5 DEF MarkAssetsSold, AssetTypeOK, SerialSold
      <3> HIDE DEF s
      <3>4. CASE a # wanted[s]
        BY <1>1, <1>2, <2>2, <2>3, <3>1, <3>2, <3>3, <3>4, PromiseStays
      <3>5. CASE a = wanted[s]
        <4>1. Promise(a) /\ serialStatus[a] \in {"NONE", "AVAILABLE", "SOLD"}
          BY <1>1, <1>2, <2>2 DEF AssetTypeOK
        <4>2. (\A t \in sold : wanted[t] # a) /\ a \notin adjusted
          BY <3>1, <3>5, <4>1 DEF Promise
        <4>3. \A t, u \in Sale : OnHold(t)' /\ OnHold(u)' /\ wanted[t] = a /\ wanted[u] = a => t = u
          BY <2>4, <4>1 DEF Promise
        <4>4. \A t \in sold' : wanted[t] = a <=> t = s
          BY <3>1, <3>5, <4>2
        <4>5. assetStatus'[a] = "SOLD" /\ (serialStatus'[a] # "NONE" => serialStatus'[a] = "SOLD")
          BY <3>2, <3>3, <3>5, <4>1
        <4>6. s \in sold' /\ wanted'[s] = a
          BY <2>2, <3>1, <3>5
        <4> QED
          BY <2>2, <4>2, <4>3, <4>4, <4>5, <4>6 DEF Promise
      <3> QED
        BY <3>4, <3>5
    <2>6. CASE assetJob[w].done
      <3>1. UNCHANGED <<sold, serialStatus>> /\ assetStatus' = Freed(wanted[s]) /\ s \in sold
        BY <1>12, <2>1, <2>6 DEF MarkAssetsSold
      <3>2. CASE assetJob[w].held
        <4>1. OnHold(s) /\ hold' = [hold EXCEPT ![s] = "RELEASED"]
          BY <1>12, <3>2 DEF MarkAssetsSold, OnHold
        <4> HIDE DEF s
        <4> QED
          BY <1>10, <2>1, <2>2, <3>1, <4>1
      <3>3. CASE ~assetJob[w].held
        <4>1. UNCHANGED hold
          BY <1>12, <3>3 DEF MarkAssetsSold
        <4>2. a \notin touched /\ Promise(a)
          BY <1>2, <2>2
        <4>3. assetStatus'[a] = assetStatus[a]
          BY <1>1, <2>1, <3>1, <4>2 DEF Freed, Promise, AssetTypeOK
        <4> HIDE DEF s
        <4> QED
          BY <1>1, <2>2, <3>1, <4>1, <4>2, <4>3, PromiseStays DEF OnHold
      <3> QED
        BY <2>1, <3>2, <3>3
    <2> QED
      BY <2>1, <2>5, <2>6
  <1>13. \/ UNCHANGED <<assetStatus, serialStatus, hold, sold, adjusted, wanted, touched>>
         \/ \E b \in Asset : RegisterAsset(b) \/ \E status : SetStatus(b, status)
         \/ \E s \in Sale : RestoreAssets(s) \/ \E b \in Asset : PlaceSale(s, b)
         \/ \E w \in AssetWorker :
              ReserveAssets(w) \/ MarkAssetsSold(w) \/ ReleaseReservedAssets(w) \/ AdjustOut(w)
    <2>1. \A w \in AssetWorker : RetireAsset(w) => assetJob[w].asset \in Asset /\ SetStatus(assetJob[w].asset, "INACTIVE")
      BY <1>1, JobType DEF RetireAsset
    <2> QED
      BY <2>1 DEF AssetNext, ReactivateAsset, UpdateAsset, ArchiveIdentifierType, RestoreIdentifierType,
                  UpdateConfiguration, ChangeSale, ReserveReads, SellReads, ReleaseReads, AdjustReads,
                  RetireReads, Take, AbandonJob
  <1> QED
    BY <1>3, <1>4, <1>5, <1>6, <1>7, <1>8, <1>9, <1>11, <1>12, <1>13

\* Every step moves the counters with the assets and the holds.
LEMMA CountsStay ==
  ASSUME UniqueAssetsAssumption, AssetInv, AssetTypeOK', [AssetNext]_assetVars
  PROVE  Counts'
  <1> USE DEF assetVars, assetRows, assetAdmin
  <1>1. AssetTypeOK /\ SalesAreReal /\ JobsAreReal /\ Promises /\ Counts
    BY DEF AssetInv
  <1>2. IsFiniteSet(Holds) /\ IsFiniteSet(Unsold) /\ Cardinality(Holds) \in Int /\ Cardinality(Unsold) \in Int
    <2>1. IsFiniteSet(Holds) /\ IsFiniteSet(Unsold)
      BY FS_Subset DEF UniqueAssetsAssumption, Holds, Unsold
    <2> QED
      BY <2>1, FS_CardinalityType
  <1> DEFINE HeldRight == heldUnits' = Cardinality(Holds')
             UnitsRight == touched' = {} => units' = Cardinality(Unsold')
  \* Reservations.
  <1>3. UNCHANGED <<hold, heldUnits>> => HeldRight
    BY <1>1 DEF Counts, Holds
  <1>4. ASSUME NEW s \in Sale, hold[s] # "ACTIVE", hold' = [hold EXCEPT ![s] = "ACTIVE"],
               heldUnits' = heldUnits + 1
        PROVE  HeldRight
    <2>1. s \notin Holds /\ Holds' = Holds \cup {s}
      BY <1>1, <1>4 DEF Holds, AssetTypeOK
    <2>2. Cardinality(Holds') = Cardinality(Holds) + 1
      BY <1>2, <2>1, FS_AddElement
    <2> QED
      BY <1>1, <1>4, <2>2 DEF Counts
  <1>5. ASSUME NEW s \in Sale, hold[s] = "ACTIVE", hold' = [hold EXCEPT ![s] = "RELEASED"],
               heldUnits' = heldUnits - 1
        PROVE  HeldRight
    <2>1. s \in Holds /\ Holds' = Holds \ {s}
      BY <1>1, <1>5 DEF Holds, AssetTypeOK
    <2>2. Cardinality(Holds') = Cardinality(Holds) - 1
      BY <1>2, <2>1, FS_RemoveElement
    <2> QED
      BY <1>1, <1>5, <2>2 DEF Counts
  \* Units.
  <1>6. touched' # {} => UnitsRight
    OBVIOUS
  <1>7. touched' = {} => touched = {} /\ units = Cardinality(Unsold) /\ \A a \in Asset : Promise(a)
    BY <1>1 DEF AssetNext, RegisterAsset, ReactivateAsset, UpdateAsset, SetStatus, Touch, ArchiveIdentifierType,
           RestoreIdentifierType, UpdateConfiguration, ChangeSale, PlaceSale, RestoreAssets, ReserveReads,
           SellReads, ReleaseReads, AdjustReads, RetireReads, Take, AbandonJob, ReserveAssets, MarkAssetsSold,
           ReleaseReservedAssets, AdjustOut, RetireAsset, Counts, Promises
  <1>8. ASSUME UNCHANGED units, \A a \in Asset : assetStatus'[a] = assetStatus[a]
                                     \/ {assetStatus'[a], assetStatus[a]} = {"AVAILABLE", "RESERVED"}
        PROVE  UnitsRight
    <2>1. Unsold' = Unsold
      BY <1>8 DEF Unsold
    <2> QED
      BY <1>7, <1>8, <2>1
  <1>9. ASSUME NEW a \in Asset, assetStatus[a] = "NONE", assetStatus' = [assetStatus EXCEPT ![a] = "AVAILABLE"],
               units' = units + 1
        PROVE  UnitsRight
    <2>1. a \notin Unsold /\ Unsold' = Unsold \cup {a}
      BY <1>1, <1>9 DEF Unsold, AssetTypeOK
    <2>2. Cardinality(Unsold') = Cardinality(Unsold) + 1
      BY <1>2, <2>1, FS_AddElement
    <2> QED
      BY <1>7, <1>9, <2>2
  <1>10. ASSUME NEW a \in Asset, assetStatus[a] \in {"AVAILABLE", "RESERVED"},
                assetStatus' = [assetStatus EXCEPT ![a] = "SOLD"], units' = units - 1
         PROVE  UnitsRight
    <2>1. a \in Unsold /\ Unsold' = Unsold \ {a}
      BY <1>1, <1>10 DEF Unsold, AssetTypeOK
    <2>2. Cardinality(Unsold') = Cardinality(Unsold) - 1
      BY <1>2, <2>1, FS_RemoveElement
    <2> QED
      BY <1>7, <1>10, <2>2
  <1>11. ASSUME NEW a \in Asset, assetStatus' = Freed(a), UNCHANGED units PROVE UnitsRight
    <2>1. \A b \in Asset : assetStatus'[b] = assetStatus[b]
                           \/ {assetStatus'[b], assetStatus[b]} = {"AVAILABLE", "RESERVED"}
      BY <1>1, <1>11 DEF Freed, AssetTypeOK
    <2> QED
      BY <1>8, <1>11, <2>1
  <1>12. Counts' <=> HeldRight /\ UnitsRight
    BY DEF Counts
  <1>13. CASE UNCHANGED <<assetStatus, hold, units, heldUnits>>
    <2>1. HeldRight
      BY <1>3, <1>13
    <2>2. UnitsRight
      BY <1>8, <1>13
    <2> QED
      BY <1>12, <2>1, <2>2
  <1> HIDE DEF HeldRight, UnitsRight
  <1>14. ASSUME NEW a \in Asset, RegisterAsset(a) PROVE Counts'
    BY <1>3, <1>9, <1>12, <1>14 DEF RegisterAsset
  <1>15. ASSUME NEW a, NEW status, SetStatus(a, status) \/ RestoreAssets(a) PROVE Counts'
    <2>1. UNCHANGED <<hold, heldUnits>> /\ touched' # {}
      BY <1>15 DEF SetStatus, RestoreAssets, Touch
    <2> QED
      BY <1>3, <1>6, <1>12, <2>1
  <1>16. ASSUME NEW w \in AssetWorker, ReserveAssets(w) PROVE Counts'
    <2> DEFINE s == assetJob[w].of
    <2>1. s \in Sale /\ wanted[s] \in Asset /\ assetStatus[wanted[s]] = "AVAILABLE"
      BY <1>1, <1>16, JobType DEF ReserveAssets, MayReserveAsset, JobsAreReal, SalesAreReal
    <2>2. HeldRight
      BY <1>4, <1>16, <2>1 DEF ReserveAssets
    <2>3. \A a \in Asset : assetStatus'[a] = assetStatus[a]
                           \/ {assetStatus'[a], assetStatus[a]} = {"AVAILABLE", "RESERVED"}
      BY <1>1, <1>16, <2>1 DEF ReserveAssets, AssetTypeOK
    <2> QED
      BY <1>8, <1>12, <1>16, <2>2, <2>3 DEF ReserveAssets
  <1>17. ASSUME NEW w \in AssetWorker, AdjustOut(w) PROVE Counts'
    <2>1. assetJob[w].asset \in Asset
      BY <1>17, <1>1, JobType DEF AdjustOut
    <2> QED
      BY <1>3, <1>10, <1>12, <1>17, <2>1 DEF AdjustOut, MaySellAsset
  <1>18. ASSUME NEW w \in AssetWorker, ReleaseReservedAssets(w) PROVE Counts'
    <2>1. assetJob[w].of \in Sale /\ wanted[assetJob[w].of] \in Asset
      BY <1>1, <1>18, JobType DEF ReleaseReservedAssets, JobsAreReal, SalesAreReal
    <2> QED
      BY <1>5, <1>11, <1>12, <1>18, <2>1 DEF ReleaseReservedAssets
  <1>19. ASSUME NEW w \in AssetWorker, MarkAssetsSold(w) PROVE Counts'
    <2> DEFINE s == assetJob[w].of
    <2>1. s \in Sale /\ wanted[s] \in Asset
      BY <1>1, <1>19, JobType DEF MarkAssetsSold, JobsAreReal, SalesAreReal
    <2>2. HeldRight
      BY <1>3, <1>5, <1>19, <2>1 DEF MarkAssetsSold
    <2>3. \/ /\ assetStatus[wanted[s]] \in {"AVAILABLE", "RESERVED"}
             /\ assetStatus' = [assetStatus EXCEPT ![wanted[s]] = "SOLD"] /\ units' = units - 1
          \/ assetStatus' = Freed(wanted[s]) /\ UNCHANGED units
      BY <1>19 DEF MarkAssetsSold, MaySellAsset
    <2> HIDE DEF s
    <2>4. UnitsRight
      BY <1>10, <1>11, <2>1, <2>3
    <2> QED
      BY <1>12, <2>2, <2>4
  <1>20. \/ UNCHANGED <<assetStatus, hold, units, heldUnits>>
         \/ \E b \in Asset : RegisterAsset(b)
         \/ \E b : RestoreAssets(b) \/ \E status : SetStatus(b, status)
         \/ \E w \in AssetWorker :
              ReserveAssets(w) \/ MarkAssetsSold(w) \/ ReleaseReservedAssets(w) \/ AdjustOut(w)
    BY DEF AssetNext, ReactivateAsset, UpdateAsset, ArchiveIdentifierType, RestoreIdentifierType, RetireAsset,
           UpdateConfiguration, ChangeSale, PlaceSale, ReserveReads, SellReads, ReleaseReads, AdjustReads,
           RetireReads, Take, AbandonJob
  <1> QED
    BY <1>13, <1>14, <1>15, <1>16, <1>17, <1>18, <1>19, <1>20

\* The invariant gives what the run checks, with its cardinalities.
LEMMA AssetInvariantImplies == UniqueAssetsAssumption /\ AssetInv => UnitsAreAccounted
  <1> SUFFICES ASSUME UniqueAssetsAssumption, AssetInv PROVE UnitsAreAccounted
    OBVIOUS
  <1>1. AssetTypeOK /\ Promises /\ Counts
    BY DEF AssetInv
  <1>2. ASSUME NEW a \in Asset \ touched
        PROVE  /\ Cardinality(HeldBy(a)) <= 1
               /\ Cardinality(SoldBy(a)) <= 1
               /\ a \in adjusted => SoldBy(a) = {}
               /\ assetStatus[a] = "SOLD" <=> (a \in adjusted \/ SoldBy(a) # {})
               /\ assetStatus[a] = "RESERVED" => HeldBy(a) # {}
               /\ HeldBy(a) # {} => assetStatus[a] \in {"RESERVED", "SOLD"}
               /\ serialStatus[a] # "NONE" => (serialStatus[a] = "SOLD" <=> assetStatus[a] = "SOLD")
    <2>1. Promise(a)
      BY <1>1, <1>2 DEF Promises
    <2>2. \A s : s \in HeldBy(a) <=> s \in Sale /\ OnHold(s) /\ wanted[s] = a
      BY DEF HeldBy, Holds, OnHold
    <2>3. \A s : s \in SoldBy(a) <=> s \in sold /\ wanted[s] = a
      BY DEF SoldBy
    <2>4. Cardinality(HeldBy(a)) <= 1
      BY <2>1, <2>2, AtMostOne DEF Promise
    <2>5. Cardinality(SoldBy(a)) <= 1
      BY <2>1, <2>3, AtMostOne DEF Promise
    <2> QED
      BY <2>1, <2>2, <2>3, <2>4, <2>5 DEF Promise
  <1>3. PromisedOnce
    BY <1>2 DEF PromisedOnce
  <1>4. AssetsMatchStock
    BY <1>1 DEF AssetsMatchStock, Counts, Unsold
  <1> QED
    BY <1>1, <1>3, <1>4 DEF UnitsAreAccounted

\* Every state of the specification satisfies the invariant.
LEMMA AssetInvariant == AssetSpec => []AssetInv
  <1>1. AssetInit => AssetInv
    <2> SUFFICES ASSUME AssetInit PROVE AssetInv
      OBVIOUS
    <2>1. AssetTypeOK
      BY UniqueAssetsAssumption DEF AssetInit, AssetTypeOK, AssetState, AssetJob, UniqueAssetsAssumption
    <2>2. Promises /\ SalesAreReal /\ JobsAreReal
      BY DEF AssetInit, Promises, Promise, OnHold, SalesAreReal, JobsAreReal, NoJob
    <2>3. Counts
      <3>1. Holds = {} /\ Unsold = {}
        BY DEF AssetInit, Holds, Unsold
      <3> QED
        BY <3>1, FS_EmptySet DEF AssetInit, Counts
    <2> QED
      BY <2>1, <2>2, <2>3 DEF AssetInv
  <1>2. AssetInv /\ [AssetNext]_assetVars => AssetInv'
    <2> SUFFICES ASSUME AssetInv, [AssetNext]_assetVars PROVE AssetInv'
      OBVIOUS
    <2>1. AssetTypeOK'
      BY UniqueAssetsAssumption, AssetTypes DEF AssetInv
    <2>2. SalesAreReal' /\ JobsAreReal'
      BY UniqueAssetsAssumption, SalesStayReal DEF AssetInv
    <2>3. Promises' /\ Counts'
      BY UniqueAssetsAssumption, <2>1, PromisesStay, CountsStay
    <2> QED
      BY <2>1, <2>2, <2>3 DEF AssetInv
  <1> QED
    BY <1>1, <1>2, PTL DEF AssetSpec

(* One unit is never promised to two sales, and the summary row counts them. *)
THEOREM UnitsStayAccounted == AssetSpec => []UnitsAreAccounted
  BY AssetInvariant, AssetInvariantImplies, UniqueAssetsAssumption, PTL
===============================================================================
