----------------------------- MODULE OutboxProofs -----------------------------
(***************************************************************************)
(* Theorems about the outbox, for any set of events, any set of instances,  *)
(* any handlers, retries, attempts and number of faults.                    *)
(***************************************************************************)
EXTENDS OutboxDelivery, SequenceTheorems, TLAPS

-----------------------------------------------------------------------------
(* The rows left of a batch when its head is done.                          *)
LEMMA TailFacts ==
  ASSUME NEW S, NEW s \in Seq(S), s # <<>>
  PROVE  /\ Tail(s) \in Seq(S)
         /\ Head(s) \in S
         /\ Len(s) \in Nat \ {0}
         /\ Len(Tail(s)) = Len(s) - 1
         /\ Head(s) = s[1]
         /\ \A i \in 1..Len(Tail(s)) : Tail(s)[i] = s[i + 1] /\ i + 1 \in 1..Len(s)
         /\ Len(s) = 1 <=> Tail(s) = <<>>
  <1>1. Len(s) \in Nat \ {0}
    BY EmptySeq
  <1>2. /\ Tail(s) \in Seq(S)
        /\ Head(s) \in S
        /\ Len(Tail(s)) = Len(s) - 1
        /\ \A i \in 1..Len(Tail(s)) : Tail(s)[i] = s[i + 1]
    BY HeadTailProperties
  <1>3. \A i \in 1..Len(Tail(s)) : i + 1 \in 1..Len(s)
    BY <1>1, <1>2
  <1>4. Len(s) = 1 <=> Tail(s) = <<>>
    <2>1. Tail(s) = <<>> <=> Len(Tail(s)) = 0
      BY <1>2, EmptySeq
    <2> QED
      BY <1>1, <1>2, <2>1
  <1>5. Head(s) = s[1]
    OBVIOUS
  <1> QED
    BY <1>1, <1>2, <1>3, <1>4, <1>5

(* The rows a claim may take: a sequence of PENDING rows.                   *)
LEMMA ClaimPick ==
  ASSUME TypeOK, NEW w \in Worker, ClaimPendingBatch(w)
  PROVE  \E s \in Seq(WithStatus("PENDING")) : OldestPending(s) /\ ClaimRows(w, s)
  <1>1. PICK n \in 0..BatchLimit :
          \E s \in [1..n -> WithStatus("PENDING")] : OldestPending(s) /\ ClaimRows(w, s)
    BY DEF ClaimPendingBatch
  <1>2. PICK s \in [1..n -> WithStatus("PENDING")] : OldestPending(s) /\ ClaimRows(w, s)
    BY <1>1
  <1>3. n \in Nat
    BY OutboxAssumption
  <1>4. s \in Seq(WithStatus("PENDING"))
    BY <1>3
  <1> QED
    BY <1>2, <1>4

(* The batch it leaves is a sequence of claims, one for each of them.       *)
LEMMA ClaimedBatch ==
  ASSUME TypeOK, NEW s \in Seq(WithStatus("PENDING"))
  PROVE  LET b == [i \in 1..Len(s) |-> [id |-> s[i], attempts |-> row[s[i]].attempts + 1]]
         IN  /\ b \in Seq(Claim)
             /\ Len(b) = Len(s)
             /\ (b = <<>>) <=> (s = <<>>)
  <1>1. \A i \in 1..Len(s) : s[i] \in Event /\ row[s[i]].attempts + 1 \in Nat
    BY DEF TypeOK, Row, WithStatus
  <1>. DEFINE b == [i \in 1..Len(s) |-> [id |-> s[i], attempts |-> row[s[i]].attempts + 1]]
  <1>3. b \in [1..Len(s) -> Claim]
    BY <1>1 DEF Claim
  <1>4. b \in Seq(Claim) /\ Len(b) = Len(s)
    BY <1>3
  <1> QED
    BY <1>4

(* What is known of an instance that has rows left to dispatch.             *)
LEMMA DispatchingFacts ==
  ASSUME TypeOK, NEW w \in Worker, pc[w] \in Dispatching
  PROVE  /\ batch[w] \in Seq(Claim) /\ batch[w] # <<>>
         /\ Head(batch[w]) \in Claim
         /\ Head(batch[w]) = batch[w][1]
         /\ Current(w) \in Event
         /\ Len(batch[w]) \in Nat \ {0}
         /\ NumSync[Current(w)] \in 0..MaxHandlers
         /\ NumAsync[Current(w)] \in 0..MaxHandlers
         /\ cursor[w] \in 1..(MaxHandlers + 1)
         /\ MaxHandlers \in Nat
  <1>1. batch[w] \in Seq(Claim) /\ batch[w] # <<>> /\ cursor[w] \in 1..(MaxHandlers + 1)
    BY DEF TypeOK
  <1>2. Head(batch[w]) \in Claim /\ Head(batch[w]) = batch[w][1] /\ Len(batch[w]) \in Nat \ {0}
    BY <1>1, TailFacts
  <1>3. Current(w) \in Event
    BY <1>2 DEF Current, Claim
  <1> QED
    BY <1>1, <1>2, <1>3, OutboxAssumption DEF OutboxAssumption

(* A committed handler is counted.                                          *)
LEMMA CommitType ==
  ASSUME TypeOK, NEW e \in Event, NEW h \in Handler, Commit(e, h)
  PROVE  ran' \in [Event -> [Handler -> Nat]]
  BY DEF TypeOK, Commit

(* Moving on to the next row of the batch is well typed.                    *)
LEMMA NextRowType ==
  ASSUME TypeOK, NEW w \in Worker, pc[w] \in Dispatching, NextRow(w)
  PROVE  /\ batch' \in [Worker -> Seq(Claim)]
         /\ pc' \in [Worker -> Pc]
         /\ \A v \in Worker : pc'[v] \in Dispatching <=> batch'[v] # <<>>
         /\ cursor' \in [Worker -> 1..(MaxHandlers + 1)]
         /\ tries' \in [Worker -> 0..Retries]
  <1>1. /\ batch[w] \in Seq(Claim) /\ batch[w] # <<>>
        /\ Tail(batch[w]) \in Seq(Claim)
        /\ Len(batch[w]) = 1 <=> Tail(batch[w]) = <<>>
    BY DispatchingFacts, TailFacts
  <1>2. batch' \in [Worker -> Seq(Claim)]
    BY <1>1 DEF NextRow, TypeOK
  <1>3. pc' \in [Worker -> Pc]
    BY DEF NextRow, TypeOK, Pc
  <1>4. \A v \in Worker : pc'[v] \in Dispatching <=> batch'[v] # <<>>
    BY <1>1 DEF NextRow, TypeOK, Dispatching
  <1>5. cursor' \in [Worker -> 1..(MaxHandlers + 1)]
    BY OutboxAssumption DEF OutboxAssumption, NextRow, TypeOK
  <1>6. tries' \in [Worker -> 0..Retries]
    BY OutboxAssumption DEF OutboxAssumption, NextRow, TypeOK
  <1> QED
    BY <1>2, <1>3, <1>4, <1>5, <1>6

(* The parts of a row, and what a change of its status is.                  *)
LEMMA RowType ==
  ASSUME TypeOK, NEW e \in Event
  PROVE  /\ row[e] \in Row
         /\ row[e].status \in Status
         /\ row[e].attempts \in Nat
         /\ \A s \in Status : [row[e] EXCEPT !.status = s] \in Row
         /\ \A s \in Status : \A l \in {"null", "fresh", "stale"} :
              [row[e] EXCEPT !.status = s, !.lockedAt = l] \in Row
  BY DEF TypeOK, Row

(* The variables have their types: in particular an instance has rows left  *)
(* to dispatch exactly while it is dispatching, so Head of its batch is a   *)
(* row.                                                                      *)
THEOREM TypeCorrect == Spec => []TypeOK
  <1>1. Init => TypeOK
    <2> SUFFICES ASSUME Init PROVE TypeOK
      OBVIOUS
    <2>1. row \in [Event -> Row]
      BY DEF Init, Row, Status
    <2>2. batch \in [Worker -> Seq(Claim)]
      BY DEF Init
    <2> QED
      BY <2>1, <2>2, OutboxAssumption
         DEF OutboxAssumption, Init, TypeOK, Pc, Dispatching
  <1>2. TypeOK /\ [Next]_vars => TypeOK'
    <2> SUFFICES ASSUME TypeOK, [Next]_vars PROVE TypeOK'
      OBVIOUS
    <2>1. ASSUME NEW S \in SUBSET Event, Publish(S) PROVE TypeOK'
      <3>1. row' \in [Event -> Row]
        BY <2>1, RowType DEF Publish, Status
      <3> QED
        BY <2>1, <3>1 DEF Publish, TypeOK
    <2>2. ASSUME NEW w \in Worker, ReleaseStuckProcessing(w) PROVE TypeOK'
      <3>1. row' \in [Event -> Row]
        BY <2>2, RowType DEF ReleaseStuckProcessing, Status
      <3>2. pc' \in [Worker -> Pc] /\ \A v \in Worker : pc'[v] \in Dispatching <=> batch'[v] # <<>>
        BY <2>2 DEF ReleaseStuckProcessing, TypeOK, Pc, Dispatching
      <3> QED
        BY <2>2, <3>1, <3>2 DEF ReleaseStuckProcessing, TypeOK
    <2>3. ASSUME NEW w \in Worker, RetryFailed(w) PROVE TypeOK'
      <3>1. row' \in [Event -> Row]
        BY <2>3, RowType DEF RetryFailed, Status
      <3>2. pc' \in [Worker -> Pc] /\ \A v \in Worker : pc'[v] \in Dispatching <=> batch'[v] # <<>>
        BY <2>3 DEF RetryFailed, TypeOK, Pc, Dispatching
      <3> QED
        BY <2>3, <3>1, <3>2 DEF RetryFailed, TypeOK
    <2>4. ASSUME NEW w \in Worker, ClaimPendingBatch(w) PROVE TypeOK'
      <3>1. PICK s \in Seq(WithStatus("PENDING")) : ClaimRows(w, s)
        BY <2>4, ClaimPick
      <3>2. row' \in [Event -> Row]
        <4>1. ASSUME NEW e \in Event PROVE row'[e] \in Row
          <5>1. row[e] \in Row /\ row[e].attempts \in Nat
            BY RowType
          <5>2. [status |-> "PROCESSING", attempts |-> row[e].attempts + 1,
                 lockedAt |-> "fresh"] \in Row
            BY <5>1 DEF Row, Status
          <5>3. row'[e] = IF \E i \in 1..Len(s) : s[i] = e
                          THEN [status |-> "PROCESSING", attempts |-> row[e].attempts + 1,
                                lockedAt |-> "fresh"]
                          ELSE row[e]
            BY <3>1 DEF ClaimRows
          <5> QED
            BY <5>1, <5>2, <5>3
        <4>2. row' = [e \in Event |-> row'[e]]
          BY <3>1 DEF ClaimRows
        <4> QED
          BY <4>1, <4>2
      <3>3. /\ batch' \in [Worker -> Seq(Claim)]
            /\ (batch'[w] = <<>>) <=> (s = <<>>)
            /\ \A v \in Worker \ {w} : batch'[v] = batch[v]
        BY <3>1, ClaimedBatch DEF ClaimRows, TypeOK
      <3>4. /\ pc' \in [Worker -> Pc]
            /\ \A v \in Worker : pc'[v] \in Dispatching <=> batch'[v] # <<>>
        BY <3>1, <3>3 DEF ClaimRows, TypeOK, Pc, Dispatching
      <3> QED
        BY <2>4, <3>2, <3>3, <3>4 DEF ClaimPendingBatch, TypeOK
    <2>5. ASSUME NEW w \in Worker, InvokeSucceeds(w) PROVE TypeOK'
      <3>0. pc[w] \in Dispatching
        BY <2>5 DEF InvokeSucceeds, Handling, Dispatching
      <3>1. Current(w) \in Event /\ cursor[w] \in Handler /\ cursor[w] + 1 \in 1..(MaxHandlers + 1)
        BY <2>5, <3>0, DispatchingFacts DEF InvokeSucceeds, Handling, Handler
      <3>2. ran' \in [Event -> [Handler -> Nat]]
        BY <2>5, <3>1, CommitType DEF InvokeSucceeds
      <3>3. tries' \in [Worker -> 0..Retries]
        BY <2>5, OutboxAssumption DEF OutboxAssumption, InvokeSucceeds, TypeOK
      <3>4. cursor' \in [Worker -> 1..(MaxHandlers + 1)]
        BY <2>5, <3>1 DEF InvokeSucceeds, TypeOK
      <3> QED
        BY <2>5, <3>2, <3>3, <3>4 DEF InvokeSucceeds, TypeOK
    <2>6. ASSUME NEW w \in Worker, NEW committed \in BOOLEAN, InvokeThrows(w, committed)
          PROVE TypeOK'
      <3>0. pc[w] \in Dispatching
        BY <2>6 DEF InvokeThrows, Handling, Dispatching
      <3>1. Current(w) \in Event /\ cursor[w] \in Handler
        BY <2>6, <3>0, DispatchingFacts DEF InvokeThrows, Handling, Handler
      <3>2. ran' \in [Event -> [Handler -> Nat]]
        <4>1. CASE committed
          BY <2>6, <3>1, <4>1, CommitType DEF InvokeThrows
        <4>2. CASE ~committed
          BY <2>6, <4>2 DEF InvokeThrows, TypeOK
        <4> QED
          BY <4>1, <4>2
      <3>3. tries' \in [Worker -> 0..Retries]
        BY <2>6, OutboxAssumption DEF OutboxAssumption, InvokeThrows, TypeOK
      <3>4. pc' \in [Worker -> Pc] /\ \A v \in Worker : pc'[v] \in Dispatching <=> batch'[v] # <<>>
        BY <2>6, <3>0 DEF InvokeThrows, TypeOK, Pc, Dispatching
      <3> QED
        BY <2>6, <3>2, <3>3, <3>4 DEF InvokeThrows, TypeOK
    <2>7. ASSUME NEW w \in Worker, EnqueueAsync(w) PROVE TypeOK'
      <3>0. pc[w] \in Dispatching
        BY <2>7 DEF EnqueueAsync, Dispatching
      <3>1. \A h \in 1..NumAsync[Current(w)] :
              [claim |-> Head(batch[w]), handler |-> h, tries |-> 0] \in AsyncCall
        BY <3>0, DispatchingFacts, OutboxAssumption DEF OutboxAssumption, AsyncCall, Handler
      <3>2. async' \in [Worker -> SUBSET AsyncCall]
        BY <2>7, <3>1 DEF EnqueueAsync, TypeOK
      <3>3. pc' \in [Worker -> Pc] /\ \A v \in Worker : pc'[v] \in Dispatching <=> batch'[v] # <<>>
        BY <2>7, <3>0 DEF EnqueueAsync, TypeOK, Pc, Dispatching
      <3> QED
        BY <2>7, <3>2, <3>3 DEF EnqueueAsync, TypeOK
    <2>8. ASSUME NEW w \in Worker, MarkProcessed(w) PROVE TypeOK'
      <3>0. pc[w] \in Dispatching
        BY <2>8 DEF MarkProcessed, Dispatching
      <3>1. row' \in [Event -> Row]
        <4>1. row' = [row EXCEPT ![Current(w)] =
                        [row[Current(w)] EXCEPT !.status = "PROCESSED", !.lockedAt = "null"]]
          BY <2>8, <3>0, DispatchingFacts DEF MarkProcessed, TypeOK, Row
        <4>2. [row[Current(w)] EXCEPT !.status = "PROCESSED", !.lockedAt = "null"] \in Row
          BY <3>0, DispatchingFacts, RowType DEF Status
        <4> QED
          BY <4>1, <4>2 DEF TypeOK
      <3> QED
        BY <2>8, <3>0, <3>1, NextRowType DEF MarkProcessed, TypeOK
    <2>9. ASSUME NEW w \in Worker, MarkFailed(w) PROVE TypeOK'
      <3>0. pc[w] \in Dispatching
        BY <2>9 DEF MarkFailed, Dispatching
      <3>1. row' \in [Event -> Row]
        <4>1. row' = [row EXCEPT ![Current(w)] =
                        [row[Current(w)] EXCEPT !.status = "FAILED", !.lockedAt = "null"]]
          BY <2>9, <3>0, DispatchingFacts DEF MarkFailed, TypeOK, Row
        <4>2. [row[Current(w)] EXCEPT !.status = "FAILED", !.lockedAt = "null"] \in Row
          BY <3>0, DispatchingFacts, RowType DEF Status
        <4> QED
          BY <4>1, <4>2 DEF TypeOK
      <3> QED
        BY <2>9, <3>0, <3>1, NextRowType DEF MarkFailed, TypeOK
    <2>10. ASSUME NEW w \in Worker, NEW c \in async[w], InvokeAsync(w, c) PROVE TypeOK'
      <3>1. c \in AsyncCall
        BY DEF TypeOK
      <3>2. c.tries < Retries => [c EXCEPT !.tries = @ + 1] \in AsyncCall
        BY <3>1, OutboxAssumption DEF OutboxAssumption, AsyncCall
      <3>3. <<c.claim.id, c.handler>> \in Event \X Handler
        BY <3>1 DEF AsyncCall, Claim
      <3>4. async' \in [Worker -> SUBSET AsyncCall]
        <4>1. \E A \in SUBSET AsyncCall : async' = [async EXCEPT ![w] = A]
          BY <2>10, <3>1, <3>2 DEF InvokeAsync, TypeOK
        <4> QED
          BY <4>1 DEF TypeOK
      <3>5. notified' \subseteq Event \X Handler
        BY <2>10, <3>3 DEF InvokeAsync, TypeOK
      <3> QED
        BY <2>10, <3>4, <3>5 DEF InvokeAsync, TypeOK
    <2>11. ASSUME NEW e \in Event, LockExpires(e) PROVE TypeOK'
      <3>1. row' \in [Event -> Row]
        BY <2>11 DEF LockExpires, TypeOK, Row
      <3>2. faults' \in 0..FaultBudget
        BY <2>11, OutboxAssumption DEF OutboxAssumption, LockExpires, Fault, TypeOK
      <3> QED
        BY <2>11, <3>1, <3>2 DEF LockExpires, TypeOK
    <2>12. ASSUME NEW w \in Worker, MarkProcessedThrows(w) PROVE TypeOK'
      <3>1. faults' \in 0..FaultBudget
        BY <2>12, OutboxAssumption DEF OutboxAssumption, MarkProcessedThrows, Fault, TypeOK
      <3>2. pc' \in [Worker -> Pc] /\ \A v \in Worker : pc'[v] \in Dispatching <=> batch'[v] # <<>>
        BY <2>12 DEF MarkProcessedThrows, TypeOK, Pc, Dispatching
      <3> QED
        BY <2>12, <3>1, <3>2 DEF MarkProcessedThrows, TypeOK
    <2>13. ASSUME NEW w \in Worker, Crash(w) PROVE TypeOK'
      <3>1. faults' \in 0..FaultBudget
        BY <2>13, OutboxAssumption DEF OutboxAssumption, Crash, Fault, TypeOK
      <3>2. pc' \in [Worker -> Pc] /\ \A v \in Worker : pc'[v] \in Dispatching <=> batch'[v] # <<>>
        BY <2>13 DEF Crash, TypeOK, Pc, Dispatching
      <3>3. batch' \in [Worker -> Seq(Claim)]
        BY <2>13 DEF Crash, TypeOK
      <3>4. /\ cursor' \in [Worker -> 1..(MaxHandlers + 1)]
            /\ tries' \in [Worker -> 0..Retries]
            /\ async' \in [Worker -> SUBSET AsyncCall]
        BY <2>13, OutboxAssumption DEF OutboxAssumption, Crash, TypeOK
      <3> QED
        BY <2>13, <3>1, <3>2, <3>3, <3>4 DEF Crash, TypeOK
    <2>14. CASE UNCHANGED vars
      BY <2>14 DEF vars, TypeOK
    <2> QED
      BY <2>1, <2>2, <2>3, <2>4, <2>5, <2>6, <2>7, <2>8, <2>9, <2>10, <2>11, <2>12, <2>13,
         <2>14 DEF Next, Cycle
  <1> QED
    BY <1>1, <1>2, PTL DEF Spec

-----------------------------------------------------------------------------
(* Claims.  The inductive invariant: every row of a batch is a published     *)
(* row and carries a claim number the row has reached; no batch has a row    *)
(* twice; no two instances have the same claim.  A new claim gets a number   *)
(* no instance can hold yet, which is why the released and reclaimed row of  *)
(* a slow instance makes two claims and not one.                             *)
Entry(w, i) == batch[w][i]

\* The places of the batch of w.
Positions(w) == 1..Len(batch[w])

\* What a worker has claimed was published, and its attempts are counted.
ClaimReached ==
  \A w \in Worker : \A i \in Positions(w) :
    /\ Entry(w, i).attempts <= row[Entry(w, i).id].attempts
    /\ row[Entry(w, i).id].status # "NONE"

\* A batch lists no event twice.
BatchDistinct ==
  \A w \in Worker : \A i, j \in Positions(w) : i # j => Entry(w, i).id # Entry(w, j).id

\* An event that was not published is claimed by nobody.
UnpublishedUnclaimed == \A e \in Event : row[e].status = "NONE" => row[e].attempts = 0

\* What a step needs and leaves of the claims.
ClaimInv == ClaimReached /\ BatchDistinct /\ ClaimExclusive /\ UnpublishedUnclaimed

\* Steps that claim nothing leave every batch as it is or drop rows of it.
Shrinks(w) ==
  \/ batch'[w] = batch[w]
  \/ batch'[w] = <<>>
  \/ batch[w] # <<>> /\ batch'[w] = Tail(batch[w])

\* A step that claims nothing and counts no attempt.
KeepsClaims ==
  /\ \A w \in Worker : Shrinks(w)
  /\ \A e \in Event : row'[e].attempts = row[e].attempts
  /\ \A e \in Event : (row'[e].status = "NONE") <=> (row[e].status = "NONE")

(* The parts of an entry of a batch.                                        *)
LEMMA EntryType ==
  ASSUME TypeOK, NEW w \in Worker, NEW i \in Positions(w)
  PROVE  /\ Entry(w, i).id \in Event
         /\ Entry(w, i).attempts \in Nat
         /\ row[Entry(w, i).id].attempts \in Nat
         /\ i \in Nat \ {0}
  <1>1. batch[w] \in Seq(Claim)
    BY DEF TypeOK
  <1>2. i \in 1..Len(batch[w])
    BY DEF Positions
  <1>3. Entry(w, i) \in Claim
    BY <1>1, <1>2 DEF Entry
  <1>4. Entry(w, i).id \in Event /\ Entry(w, i).attempts \in Nat
    BY <1>3 DEF Claim
  <1>5. row[Entry(w, i).id].attempts \in Nat
    BY <1>4, RowType
  <1>6. i \in Nat \ {0}
    <2>1. Len(batch[w]) \in Nat
      BY <1>1
    <2> QED
      BY <1>2, <2>1
  <1> QED
    BY <1>4, <1>5, <1>6

(* A batch that shrinks keeps its entries, moved up by one at most.         *)
LEMMA ShrinkPositions ==
  ASSUME TypeOK, NEW w \in Worker, Shrinks(w)
  PROVE  \E d \in {0, 1} :
           \A i \in Positions(w)' : i + d \in Positions(w) /\ Entry(w, i)' = Entry(w, i + d)
  <1>1. batch[w] \in Seq(Claim)
    BY DEF TypeOK
  <1>2. CASE batch'[w] = batch[w]
    BY <1>1, <1>2 DEF Positions, Entry
  <1>3. CASE batch'[w] = <<>>
    BY <1>3 DEF Positions, Entry
  <1>4. CASE batch[w] # <<>> /\ batch'[w] = Tail(batch[w])
    BY <1>1, <1>4, TailFacts DEF Positions, Entry
  <1> QED
    BY <1>2, <1>3, <1>4 DEF Shrinks

\* A step that only shrinks batches and keeps attempts keeps the claims apart.
LEMMA KeepsClaimInv ==
  ASSUME TypeOK, ClaimInv, KeepsClaims
  PROVE  ClaimInv'
  <1>1. ASSUME NEW w \in Worker, NEW i \in Positions(w)
        PROVE  Entry(w, i).id \in Event
    BY EntryType
  <1>2. ClaimReached'
    <2> SUFFICES ASSUME NEW w \in Worker, NEW i \in Positions(w)'
                 PROVE  /\ Entry(w, i)'.attempts <= row'[Entry(w, i)'.id].attempts
                        /\ row'[Entry(w, i)'.id].status # "NONE"
      BY DEF ClaimReached
    <2>1. PICK j \in Positions(w) : Entry(w, i)' = Entry(w, j)
      BY ShrinkPositions DEF KeepsClaims
    <2>2. /\ Entry(w, j).id \in Event
          /\ Entry(w, j).attempts <= row[Entry(w, j).id].attempts
          /\ row[Entry(w, j).id].status # "NONE"
      BY <1>1 DEF ClaimInv, ClaimReached
    <2>3. /\ row'[Entry(w, j).id].attempts = row[Entry(w, j).id].attempts
          /\ row'[Entry(w, j).id].status # "NONE"
      BY <2>2 DEF KeepsClaims
    <2> QED
      BY <2>1, <2>2, <2>3
  <1>3. BatchDistinct'
    <2> SUFFICES ASSUME NEW w \in Worker, NEW i \in Positions(w)', NEW j \in Positions(w)', i # j
                 PROVE  Entry(w, i)'.id # Entry(w, j)'.id
      BY DEF BatchDistinct
    <2>1. PICK d \in {0, 1} :
            \A k \in Positions(w)' : k + d \in Positions(w) /\ Entry(w, k)' = Entry(w, k + d)
      BY ShrinkPositions DEF KeepsClaims
    <2>2. i \in Int /\ j \in Int
      BY DEF Positions
    <2>3. i + d # j + d
      BY <2>2
    <2> QED
      BY <2>1, <2>3 DEF ClaimInv, BatchDistinct
  <1>4. ClaimExclusive'
    <2> SUFFICES ASSUME NEW v \in Worker, NEW w \in Worker, v # w,
                        NEW i \in Positions(v)', NEW j \in Positions(w)'
                 PROVE  Entry(v, i)' # Entry(w, j)'
      BY DEF ClaimExclusive, Positions, Entry
    <2>1. PICK k \in Positions(v) : Entry(v, i)' = Entry(v, k)
      BY ShrinkPositions DEF KeepsClaims
    <2>2. PICK l \in Positions(w) : Entry(w, j)' = Entry(w, l)
      BY ShrinkPositions DEF KeepsClaims
    <2>3. Entry(v, k) # Entry(w, l)
      BY DEF ClaimInv, ClaimExclusive, Positions, Entry
    <2> QED
      BY <2>1, <2>2, <2>3
  <1>5. UnpublishedUnclaimed'
    <2>1. \A e \in Event : row[e].status = "NONE" => row[e].attempts = 0
      BY DEF ClaimInv, UnpublishedUnclaimed
    <2>2. \A e \in Event : row'[e].status = "NONE" => row'[e].attempts = 0
      BY <2>1 DEF KeepsClaims
    <2> QED
      BY <2>2 DEF UnpublishedUnclaimed
  <1> QED
    BY <1>2, <1>3, <1>4, <1>5 DEF ClaimInv

(* One claim at a time makes the invariant hold again: its numbers are new.  *)
LEMMA ClaimingClaimInv ==
  ASSUME TypeOK, ClaimInv, NEW w \in Worker, pc[w] = "claim", ClaimPendingBatch(w)
  PROVE  ClaimInv'
  <1>1. PICK s \in Seq(WithStatus("PENDING")) : OldestPending(s) /\ ClaimRows(w, s)
    BY ClaimPick
  <1>. DEFINE claimed(e) == \E i \in 1..Len(s) : s[i] = e
  <1>2. \A i \in 1..Len(s) : s[i] \in Event /\ row[s[i]].status = "PENDING" /\ claimed(s[i])
    BY DEF WithStatus
  <1>3. \A e \in Event :
          /\ row[e].attempts \in Nat
          /\ claimed(e) => /\ row'[e].attempts = row[e].attempts + 1
                           /\ row'[e].status = "PROCESSING"
          /\ ~claimed(e) => row'[e] = row[e]
    BY <1>1, RowType DEF ClaimRows
  <1>4. batch[w] = <<>> /\ batch \in [Worker -> Seq(Claim)]
    BY DEF TypeOK, Dispatching
  <1>5. /\ Positions(w)' = 1..Len(s)
        /\ \A i \in 1..Len(s) : Entry(w, i)' = [id |-> s[i], attempts |-> row[s[i]].attempts + 1]
    BY <1>1, <1>4, ClaimedBatch DEF ClaimRows, Positions, Entry
  <1>6. \A v \in Worker \ {w} :
          /\ Positions(v)' = Positions(v)
          /\ \A i \in Positions(v) : Entry(v, i)' = Entry(v, i)
    BY <1>1, <1>4 DEF ClaimRows, Positions, Entry
  <1>7. \A v \in Worker : \A i \in Positions(v) :
           Entry(v, i).id \in Event /\ Entry(v, i).attempts \in Nat
    BY EntryType
  <1>8. ClaimReached'
    <2>1. ASSUME NEW i \in Positions(w)'
          PROVE  /\ Entry(w, i)'.attempts <= row'[Entry(w, i)'.id].attempts
                 /\ row'[Entry(w, i)'.id].status # "NONE"
      <3>1. i \in 1..Len(s)
        BY <1>5
      <3>2. Entry(w, i)' = [id |-> s[i], attempts |-> row[s[i]].attempts + 1]
        BY <1>5, <3>1
      <3>3. row'[s[i]].attempts = row[s[i]].attempts + 1 /\ row'[s[i]].status = "PROCESSING"
            /\ row[s[i]].attempts \in Nat
        BY <1>2, <1>3, <3>1
      <3> QED
        BY <3>2, <3>3
    <2>2. ASSUME NEW v \in Worker \ {w}, NEW i \in Positions(v)'
          PROVE  /\ Entry(v, i)'.attempts <= row'[Entry(v, i)'.id].attempts
                 /\ row'[Entry(v, i)'.id].status # "NONE"
      BY <1>3, <1>6, <1>7 DEF ClaimInv, ClaimReached
    <2> QED
      BY <2>1, <2>2 DEF ClaimReached
  <1>9. BatchDistinct'
    <2>1. ASSUME NEW i \in Positions(w)', NEW j \in Positions(w)', i # j
          PROVE  Entry(w, i)'.id # Entry(w, j)'.id
      <3>1. i \in 1..Len(s) /\ j \in 1..Len(s)
        BY <1>5
      <3>2. i < j \/ j < i
        <4>1. Len(s) \in Nat
          OBVIOUS
        <4>2. i \in Int /\ j \in Int
          BY <3>1, <4>1
        <4> QED
          BY <2>1, <4>2
      <3>3. s[i] # s[j]
        BY <1>1, <3>1, <3>2 DEF OldestPending
      <3> QED
        BY <1>5, <3>1, <3>3
    <2> QED
      BY <2>1, <1>6 DEF ClaimInv, BatchDistinct
  <1>10. ClaimExclusive'
    <2>1. ASSUME NEW v \in Worker \ {w}, NEW i \in Positions(v)', NEW j \in Positions(w)'
          PROVE  Entry(v, i)' # Entry(w, j)'
      <3>1. Entry(v, i)'.attempts <= row[Entry(v, i)'.id].attempts
        BY <1>6 DEF ClaimInv, ClaimReached
      <3>2. /\ Entry(w, j)'.attempts = row[Entry(w, j)'.id].attempts + 1
            /\ row[Entry(w, j)'.id].attempts \in Nat
        BY <1>2, <1>3, <1>5
      <3> QED
        BY <3>1, <3>2, <1>6, <1>7
    <2>2. ASSUME NEW u \in Worker \ {w}, NEW v \in Worker \ {w}, u # v,
                 NEW i \in Positions(u)', NEW j \in Positions(v)'
          PROVE  Entry(u, i)' # Entry(v, j)'
      <3>1. /\ i \in Positions(u) /\ Entry(u, i)' = Entry(u, i)
            /\ j \in Positions(v) /\ Entry(v, j)' = Entry(v, j)
        BY <1>6
      <3>2. Entry(u, i) # Entry(v, j)
        BY <2>2, <3>1 DEF ClaimInv, ClaimExclusive, Positions, Entry
      <3> QED
        BY <3>1, <3>2
    <2> QED
      BY <2>1, <2>2 DEF ClaimExclusive, Positions, Entry
  <1>11. UnpublishedUnclaimed'
    BY <1>3 DEF ClaimInv, UnpublishedUnclaimed
  <1> QED
    BY <1>8, <1>9, <1>10, <1>11 DEF ClaimInv

(* Every other step keeps the claims.                                       *)
LEMMA OtherStepsKeepClaims ==
  ASSUME TypeOK,
         \/ \E w \in Worker : ReleaseStuckProcessing(w)
         \/ \E w \in Worker : RetryFailed(w)
         \/ \E w \in Worker : InvokeSucceeds(w)
         \/ \E w \in Worker : \E committed \in BOOLEAN : InvokeThrows(w, committed)
         \/ \E w \in Worker : EnqueueAsync(w)
         \/ \E w \in Worker : \E c \in async[w] : InvokeAsync(w, c)
         \/ \E e \in Event : LockExpires(e)
         \/ \E w \in Worker : MarkProcessedThrows(w)
         \/ \E w \in Worker : Crash(w)
         \/ UNCHANGED vars
  PROVE  KeepsClaims
  <1>1. \A e \in Event : row[e] \in Row
    BY RowType
  <1>2. ASSUME NEW w \in Worker, ReleaseStuckProcessing(w) PROVE KeepsClaims
    BY <1>1, <1>2 DEF ReleaseStuckProcessing, KeepsClaims, Shrinks, Row
  <1>3. ASSUME NEW w \in Worker, RetryFailed(w) PROVE KeepsClaims
    BY <1>1, <1>3 DEF RetryFailed, Retryable, WithStatus, KeepsClaims, Shrinks, Row
  <1>4. ASSUME NEW w \in Worker, InvokeSucceeds(w) PROVE KeepsClaims
    BY <1>4 DEF InvokeSucceeds, KeepsClaims, Shrinks
  <1>5. ASSUME NEW w \in Worker, NEW committed \in BOOLEAN, InvokeThrows(w, committed)
        PROVE  KeepsClaims
    BY <1>5 DEF InvokeThrows, KeepsClaims, Shrinks
  <1>6. ASSUME NEW w \in Worker, EnqueueAsync(w) PROVE KeepsClaims
    BY <1>6 DEF EnqueueAsync, KeepsClaims, Shrinks
  <1>7. ASSUME NEW w \in Worker, NEW c \in async[w], InvokeAsync(w, c) PROVE KeepsClaims
    BY <1>7 DEF InvokeAsync, KeepsClaims, Shrinks
  <1>8. ASSUME NEW e \in Event, LockExpires(e) PROVE KeepsClaims
    BY <1>1, <1>8 DEF LockExpires, KeepsClaims, Shrinks, Row, TypeOK
  <1>9. ASSUME NEW w \in Worker, MarkProcessedThrows(w) PROVE KeepsClaims
    BY <1>9 DEF MarkProcessedThrows, KeepsClaims, Shrinks
  <1>10. ASSUME NEW w \in Worker, Crash(w) PROVE KeepsClaims
    BY <1>10 DEF Crash, KeepsClaims, Shrinks, TypeOK
  <1>11. CASE UNCHANGED vars
    BY <1>11 DEF vars, KeepsClaims, Shrinks
  <1> QED
    BY <1>2, <1>3, <1>4, <1>5, <1>6, <1>7, <1>8, <1>9, <1>10, <1>11

(* The two late writes: the row of a mark is a published row.                *)
LEMMA MarksKeepClaims ==
  ASSUME TypeOK, ClaimInv, NEW w \in Worker, MarkProcessed(w) \/ MarkFailed(w)
  PROVE  /\ KeepsClaims
         /\ pc[w] \in Dispatching
         /\ row'[Current(w)].status \in {"PROCESSED", "FAILED"}
         /\ \A e \in Event \ {Current(w)} : row'[e] = row[e]
         /\ \A e \in Event : row'[e].attempts = row[e].attempts
  <1>1. pc[w] \in Dispatching
    BY DEF MarkProcessed, MarkFailed, Dispatching
  <1>2. /\ Current(w) \in Event
        /\ batch[w] # <<>>
        /\ batch[w] \in Seq(Claim)
        /\ Len(batch[w]) \in Nat \ {0}
        /\ Current(w) = batch[w][1].id
    BY <1>1, DispatchingFacts DEF Current
  <1>3. row[Current(w)].status # "NONE"
    BY <1>2 DEF ClaimInv, ClaimReached, Entry, Positions
  <1>4. \A v \in Worker : Shrinks(v)
    BY <1>2 DEF MarkProcessed, MarkFailed, NextRow, Shrinks, TypeOK
  <1>5. /\ row'[Current(w)].status \in {"PROCESSED", "FAILED"}
        /\ \A e \in Event \ {Current(w)} : row'[e] = row[e]
        /\ \A e \in Event : row'[e].attempts = row[e].attempts
    <2>1. PICK s \in {"PROCESSED", "FAILED"} :
            row' = [row EXCEPT ![Current(w)] =
                      [row[Current(w)] EXCEPT !.status = s, !.lockedAt = "null"]]
      BY <1>2 DEF MarkProcessed, MarkFailed, TypeOK, Row
    <2>2. row \in [Event -> Row] /\ row[Current(w)] \in Row
      BY <1>2 DEF TypeOK
    <2>3. /\ row'[Current(w)].status = s
          /\ row'[Current(w)].attempts = row[Current(w)].attempts
      BY <1>2, <2>1, <2>2 DEF Row
    <2>4. \A e \in Event \ {Current(w)} : row'[e] = row[e]
      BY <1>2, <2>1, <2>2
    <2> QED
      BY <2>3, <2>4
  <1> QED
    BY <1>1, <1>3, <1>4, <1>5 DEF KeepsClaims

(* Every step keeps the claims apart.                                       *)
LEMMA ClaimStep == TypeOK /\ ClaimInv /\ [Next]_vars => ClaimInv'
  <1> SUFFICES ASSUME TypeOK, ClaimInv, [Next]_vars PROVE ClaimInv'
    OBVIOUS
  <1>1. ASSUME NEW S \in SUBSET Event, Publish(S) PROVE ClaimInv'
    <2>1. \A e \in Event : e \in S => row[e].status = "NONE"
      BY <1>1 DEF Publish, WithStatus
    <2>2. /\ batch' = batch
          /\ \A e \in Event : row'[e].attempts = row[e].attempts
          /\ \A e \in Event : row'[e].status = "NONE" => row[e].status = "NONE"
      BY <1>1, RowType DEF Publish, Row
    <2>3. ClaimReached'
      <3> SUFFICES ASSUME NEW w \in Worker, NEW i \in Positions(w)
                   PROVE  /\ Entry(w, i).attempts <= row'[Entry(w, i).id].attempts
                          /\ row'[Entry(w, i).id].status # "NONE"
        BY <2>2 DEF ClaimReached, Positions, Entry
      <3>1. /\ Entry(w, i).id \in Event
            /\ Entry(w, i).attempts <= row[Entry(w, i).id].attempts
            /\ row[Entry(w, i).id].status # "NONE"
        BY EntryType DEF ClaimInv, ClaimReached
      <3> QED
        BY <3>1, <2>2
    <2>4. BatchDistinct' /\ ClaimExclusive'
      BY <2>2 DEF ClaimInv, BatchDistinct, ClaimExclusive, Positions, Entry
    <2>5. UnpublishedUnclaimed'
      BY <2>2 DEF ClaimInv, UnpublishedUnclaimed
    <2> QED
      BY <2>3, <2>4, <2>5 DEF ClaimInv
  <1>2. ASSUME NEW w \in Worker, ClaimPendingBatch(w) PROVE ClaimInv'
    BY <1>2, ClaimingClaimInv DEF ClaimPendingBatch
  <1>3. ASSUME NEW w \in Worker, MarkProcessed(w) \/ MarkFailed(w) PROVE ClaimInv'
    BY <1>3, MarksKeepClaims, KeepsClaimInv
  <1> QED
    BY <1>1, <1>2, <1>3, OtherStepsKeepClaims, KeepsClaimInv DEF Next, Cycle

(* The claims are always apart.                                             *)
LEMMA ClaimInvariant == Spec => []ClaimInv
  <1>1. Init => ClaimInv
    <2> SUFFICES ASSUME Init PROVE ClaimInv
      OBVIOUS
    <2>1. \A w \in Worker : \A i \in 1..Len(batch[w]) : FALSE
      BY DEF Init
    <2>2. ClaimReached /\ BatchDistinct /\ ClaimExclusive
      BY <2>1 DEF ClaimReached, BatchDistinct, ClaimExclusive, Positions
    <2> QED
      BY <2>2 DEF Init, ClaimInv, UnpublishedUnclaimed
  <1> QED
    BY <1>1, ClaimStep, TypeCorrect, PTL DEF Spec

(* SKIP LOCKED and the attempts column keep instances apart: whatever locks  *)
(* expire and whoever dies, one claim of a row is worked on by one instance. *)
THEOREM OneInstancePerClaim == Spec => []ClaimExclusive
  BY ClaimInvariant, PTL DEF ClaimInv

-----------------------------------------------------------------------------
(* Handling.  Handlers only ever add to ran; an instance is past a handler   *)
(* of its row only if the handler has run on it.                             *)
Past(w) == \A h \in 1..(cursor[w] - 1) : ran[Current(w)][h] > 0

\* What a step needs and leaves of the handlers.
HandledInv ==
  /\ \A w \in Worker : pc[w] \in Dispatching => Past(w)
  /\ \A w \in Worker : pc[w] = "done" => cursor[w] > NumSync[Current(w)]
  /\ \A w \in Worker : pc[w] \notin Dispatching => cursor[w] = 1
  /\ PriorityOrder
  /\ ProcessedWasHandled
  /\ \A w \in Worker : \A c \in async[w] : AllRan(c.claim.id)
  /\ NotifiedAfterHandled

(* What was handled stays handled.                                          *)
LEMMA RanGrows ==
  ASSUME TypeOK, [Next]_vars, NEW e \in Event, NEW h \in Handler
  PROVE  ran[e][h] > 0 => ran'[e][h] > 0
  <1>. DEFINE Grows == ran[e][h] > 0 => ran'[e][h] > 0
  <1>1. ASSUME NEW w \in Worker, Handling(w), Commit(Current(w), cursor[w]) PROVE Grows
    <2>1. /\ pc[w] \in Dispatching
          /\ cursor[w] <= NumSync[Current(w)]
      BY <1>1 DEF Handling, Dispatching
    <2>2. Current(w) \in Event /\ cursor[w] \in Handler
      BY <2>1, DispatchingFacts DEF Handler
    <2>3. ran[Current(w)][cursor[w]] \in Nat /\ ran[e][h] \in Nat
      BY <2>2 DEF TypeOK
    <2>4. ran' = [ran EXCEPT ![Current(w)] =
                     [ran[Current(w)] EXCEPT ![cursor[w]] = ran[Current(w)][cursor[w]] + 1]]
      BY <1>1 DEF Commit
    <2>5. ran'[e][h] = IF e = Current(w) /\ h = cursor[w] THEN ran[e][h] + 1 ELSE ran[e][h]
      BY <2>2, <2>4 DEF TypeOK
    <2> QED
      BY <2>3, <2>5
  <1>2. ASSUME ran' = ran PROVE Grows
    BY <1>2
  <1>3. ASSUME NEW w \in Worker, InvokeSucceeds(w) PROVE Grows
    BY <1>1, <1>3 DEF InvokeSucceeds
  <1>4. ASSUME NEW w \in Worker, NEW committed \in BOOLEAN, InvokeThrows(w, committed)
        PROVE  Grows
    BY <1>1, <1>2, <1>4 DEF InvokeThrows
  <1>5. ran' = ran \/ \E w \in Worker : \/ InvokeSucceeds(w)
                                        \/ \E committed \in BOOLEAN : InvokeThrows(w, committed)
    BY DEF Next, Cycle, vars, Publish, ReleaseStuckProcessing, RetryFailed, ClaimPendingBatch,
           EnqueueAsync, MarkProcessed, MarkFailed, InvokeAsync, LockExpires,
           MarkProcessedThrows, Crash
  <1> QED
    BY <1>2, <1>3, <1>4, <1>5

(* A fully handled event stays so.                                          *)
LEMMA AllRanStable ==
  ASSUME TypeOK, [Next]_vars, NEW e \in Event, AllRan(e)
  PROVE  AllRan(e)'
  <1>1. \A h \in 1..NumSync[e] : h \in Handler
    BY OutboxAssumption DEF OutboxAssumption, Handler
  <1> QED
    BY <1>1, RanGrows DEF AllRan

(* A handler runs next on the row whose earlier handlers have all run.       *)
LEMMA CommitInOrder ==
  ASSUME TypeOK, HandledInv, NEW w \in Worker, Handling(w), Commit(Current(w), cursor[w])
  PROVE  PriorityOrder' /\ ran'[Current(w)][cursor[w]] > 0
  <1>1. pc[w] \in Dispatching /\ cursor[w] <= NumSync[Current(w)]
    BY DEF Handling, Dispatching
  <1>2. Current(w) \in Event /\ cursor[w] \in Handler
    BY <1>1, DispatchingFacts DEF Handler
  <1>3. ran' = [ran EXCEPT ![Current(w)] =
                   [ran[Current(w)] EXCEPT ![cursor[w]] = ran[Current(w)][cursor[w]] + 1]]
    BY DEF Commit
  <1>4. \A e \in Event, h \in Handler :
          /\ ran[e][h] \in Nat
          /\ ran'[e][h] = IF e = Current(w) /\ h = cursor[w] THEN ran[e][h] + 1 ELSE ran[e][h]
    BY <1>2, <1>3 DEF TypeOK
  <1>5. ASSUME NEW e \in Event, NEW h \in Handler, ran'[e][h] > 0, NEW g \in 1..(h - 1)
        PROVE  ran'[e][g] > 0
    <2>1. g \in Handler /\ h \in Int
      BY OutboxAssumption DEF OutboxAssumption, Handler
    <2>2. ran[e][g] > 0 => ran'[e][g] > 0
      BY <1>4, <2>1
    <2>3. CASE ran[e][h] > 0
      BY <2>2, <2>3 DEF HandledInv, PriorityOrder
    <2>4. CASE ~(ran[e][h] > 0)
      <3>1. e = Current(w) /\ h = cursor[w]
        BY <1>4, <1>5, <2>4
      <3>2. ran[e][g] > 0
        BY <1>1, <3>1 DEF HandledInv, Past
      <3> QED
        BY <2>2, <3>2
    <2> QED
      BY <2>3, <2>4
  <1>6. ran'[Current(w)][cursor[w]] > 0
    BY <1>2, <1>4
  <1> QED
    BY <1>5, <1>6 DEF PriorityOrder

(* A dispatch that does not move keeps what is behind its cursor.           *)
LEMMA PastKept ==
  ASSUME TypeOK, HandledInv, [Next]_vars, NEW w \in Worker, pc[w] \in Dispatching,
         batch'[w] = batch[w], cursor'[w] = cursor[w]
  PROVE  Past(w)'
  <1>1. /\ Current(w)' = Current(w)
        /\ Current(w) \in Event
        /\ cursor[w] \in 1..(MaxHandlers + 1)
        /\ MaxHandlers \in Nat
    BY DispatchingFacts DEF Current
  <1>2. \A h \in 1..(cursor[w] - 1) : h \in Handler
    BY <1>1 DEF Handler
  <1>3. \A h \in 1..(cursor[w] - 1) : ran[Current(w)][h] > 0
    BY DEF HandledInv, Past
  <1> QED
    BY <1>1, <1>2, <1>3, RanGrows DEF Past

\* Steps that run no handler, finish no row and tell nobody.
Quiet ==
  /\ UNCHANGED <<batch, cursor, ran, async, notified>>
  /\ \A w \in Worker : pc'[w] \in Dispatching <=> pc[w] \in Dispatching
  /\ \A w \in Worker : pc'[w] = "done" => pc[w] = "done"
  /\ \A e \in Event : row'[e].status = "PROCESSED" => row[e].status = "PROCESSED"

(* A step that moves no dispatch and marks nothing keeps HandledInv.        *)
LEMMA QuietHandled ==
  ASSUME TypeOK, HandledInv, [Next]_vars, Quiet
  PROVE  HandledInv'
  <1>1. \A w \in Worker : pc'[w] \in Dispatching => Past(w)'
    BY PastKept DEF Quiet
  <1>2. /\ \A w \in Worker : pc'[w] = "done" => cursor'[w] > NumSync[Current(w)']
        /\ \A w \in Worker : pc'[w] \notin Dispatching => cursor'[w] = 1
    BY DEF Quiet, HandledInv, Current
  <1>3. /\ PriorityOrder'
        /\ \A w \in Worker : \A c \in async'[w] : AllRan(c.claim.id)'
        /\ NotifiedAfterHandled'
    BY DEF Quiet, HandledInv, PriorityOrder, NotifiedAfterHandled, AllRan
  <1>4. ProcessedWasHandled'
    BY DEF Quiet, HandledInv, ProcessedWasHandled, AllRan
  <1> QED
    BY <1>1, <1>2, <1>3, <1>4 DEF HandledInv

(* The steps that are quiet in this sense.                                  *)
LEMMA QuietSteps ==
  ASSUME TypeOK,
         \/ \E S \in SUBSET Event : Publish(S)
         \/ \E w \in Worker : ReleaseStuckProcessing(w)
         \/ \E w \in Worker : RetryFailed(w)
         \/ \E w \in Worker : InvokeThrows(w, FALSE)
         \/ \E e \in Event : LockExpires(e)
         \/ \E w \in Worker : MarkProcessedThrows(w)
         \/ UNCHANGED vars
  PROVE  Quiet
  <1>1. \A e \in Event : row[e] \in Row
    BY RowType
  <1>2. ASSUME NEW S \in SUBSET Event, Publish(S) PROVE Quiet
    BY <1>1, <1>2 DEF Publish, Quiet, Row
  <1>3. ASSUME NEW w \in Worker, ReleaseStuckProcessing(w) PROVE Quiet
    BY <1>1, <1>3 DEF ReleaseStuckProcessing, Quiet, Row, TypeOK, Dispatching
  <1>4. ASSUME NEW w \in Worker, RetryFailed(w) PROVE Quiet
    BY <1>1, <1>4 DEF RetryFailed, Quiet, Row, TypeOK, Dispatching
  <1>5. ASSUME NEW w \in Worker, InvokeThrows(w, FALSE) PROVE Quiet
    BY <1>5 DEF InvokeThrows, Handling, Quiet, TypeOK, Dispatching
  <1>6. ASSUME NEW e \in Event, LockExpires(e) PROVE Quiet
    BY <1>1, <1>6 DEF LockExpires, Quiet, Row, TypeOK
  <1>7. ASSUME NEW w \in Worker, MarkProcessedThrows(w) PROVE Quiet
    BY <1>7 DEF MarkProcessedThrows, Quiet, TypeOK, Dispatching
  <1>8. CASE UNCHANGED vars
    BY <1>8 DEF vars, Quiet
  <1> QED
    BY <1>2, <1>3, <1>4, <1>5, <1>6, <1>7, <1>8

(* Every step keeps HandledInv.                                             *)
LEMMA HandledStep == TypeOK /\ HandledInv /\ [Next]_vars => HandledInv'
  <1> SUFFICES ASSUME TypeOK, HandledInv, [Next]_vars PROVE HandledInv'
    OBVIOUS
  \* What no step can undo: the conjuncts that only need ran to grow.
  <1>1. ASSUME \A w \in Worker : async'[w] \subseteq async[w]
        PROVE  \A w \in Worker : \A c \in async'[w] : AllRan(c.claim.id)'
    <2>1. \A w \in Worker : \A c \in async[w] : c.claim.id \in Event
      BY DEF TypeOK, AsyncCall, Claim
    <2> QED
      BY <1>1, <2>1, AllRanStable DEF HandledInv
  <1>2. ASSUME notified' = notified PROVE NotifiedAfterHandled'
    BY <1>2, AllRanStable DEF HandledInv, NotifiedAfterHandled, TypeOK
  <1>3. ASSUME \A e \in Event : row'[e].status = "PROCESSED" => row[e].status = "PROCESSED"
        PROVE  ProcessedWasHandled'
    BY <1>3, AllRanStable DEF HandledInv, ProcessedWasHandled
  <1>4. ASSUME NEW w \in Worker, ClaimPendingBatch(w) PROVE HandledInv'
    <2>1. PICK s \in Seq(WithStatus("PENDING")) : ClaimRows(w, s)
      BY <1>4, ClaimPick
    <2>2. /\ pc[w] = "claim"
          /\ UNCHANGED <<cursor, ran, async, notified>>
          /\ cursor[w] = 1
      BY <1>4 DEF ClaimPendingBatch, HandledInv, Dispatching
    <2>3. /\ pc'[w] \in {"idle", "dispatch"}
          /\ \A v \in Worker \ {w} : pc'[v] = pc[v] /\ batch'[v] = batch[v]
      BY <2>1 DEF ClaimRows, TypeOK
    <2>4. \A e \in Event : row'[e].status = "PROCESSED" => row[e].status = "PROCESSED"
      BY <2>1 DEF ClaimRows
    <2>5. \A v \in Worker : pc'[v] \in Dispatching => Past(v)'
      <3>1. Past(w)'
        BY <2>2 DEF Past
      <3> QED
        BY <2>2, <2>3, <3>1, PastKept
    <2>6. /\ \A v \in Worker : pc'[v] = "done" => cursor'[v] > NumSync[Current(v)']
          /\ \A v \in Worker : pc'[v] \notin Dispatching => cursor'[v] = 1
      BY <2>2, <2>3 DEF HandledInv, Current
    <2>7. PriorityOrder'
      BY <2>2 DEF HandledInv, PriorityOrder
    <2> QED
      BY <1>1, <1>2, <1>3, <2>2, <2>4, <2>5, <2>6, <2>7 DEF HandledInv
  <1>5. ASSUME NEW w \in Worker, InvokeSucceeds(w) PROVE HandledInv'
    <2>1. /\ Handling(w) /\ Commit(Current(w), cursor[w])
          /\ UNCHANGED <<row, pc, batch, async, notified>>
          /\ cursor'[w] = cursor[w] + 1
          /\ \A v \in Worker \ {w} : cursor'[v] = cursor[v]
      BY <1>5 DEF InvokeSucceeds, TypeOK
    <2>2. pc[w] = "dispatch" /\ pc[w] \in Dispatching /\ cursor[w] \in Nat
      BY <2>1, DispatchingFacts DEF Handling, Dispatching
    <2>3. PriorityOrder' /\ ran'[Current(w)][cursor[w]] > 0
      BY <2>1, CommitInOrder
    <2>4. Past(w)'
      <3>1. /\ Current(w) \in Event
            /\ \A h \in 1..(cursor[w] - 1) : h \in Handler /\ ran[Current(w)][h] > 0
        BY <2>2, DispatchingFacts DEF HandledInv, Past, Handler
      <3>2. \A h \in 1..(cursor[w] - 1) : ran'[Current(w)][h] > 0
        BY <3>1, RanGrows
      <3>3. Current(w)' = Current(w)
        BY <2>1 DEF Current
      <3> QED
        BY <2>1, <2>2, <2>3, <3>2, <3>3 DEF Past
    <2>5. \A v \in Worker : pc'[v] \in Dispatching => Past(v)'
      BY <2>1, <2>4, PastKept
    <2>6. /\ \A v \in Worker : pc'[v] = "done" => cursor'[v] > NumSync[Current(v)']
          /\ \A v \in Worker : pc'[v] \notin Dispatching => cursor'[v] = 1
      BY <2>1, <2>2 DEF HandledInv, Current
    <2> QED
      BY <1>1, <1>2, <1>3, <2>1, <2>3, <2>5, <2>6 DEF HandledInv
  <1>6. ASSUME NEW w \in Worker, NEW committed \in BOOLEAN, InvokeThrows(w, committed)
        PROVE  HandledInv'
    <2>1. CASE ~committed
      BY <1>6, <2>1, QuietSteps, QuietHandled
    <2>2. CASE committed
      <3>1. /\ Handling(w) /\ Commit(Current(w), cursor[w])
            /\ UNCHANGED <<row, batch, cursor, async, notified>>
        BY <1>6, <2>2 DEF InvokeThrows
      <3>2. /\ pc[w] = "dispatch"
            /\ pc'[w] \in {"dispatch", "failed"}
            /\ \A v \in Worker \ {w} : pc'[v] = pc[v]
        BY <1>6 DEF InvokeThrows, Handling, TypeOK
      <3>3. PriorityOrder'
        BY <3>1, CommitInOrder
      <3>4. \A v \in Worker : pc'[v] \in Dispatching => Past(v)'
        BY <3>1, <3>2, PastKept DEF Dispatching
      <3>5. /\ \A v \in Worker : pc'[v] = "done" => cursor'[v] > NumSync[Current(v)']
            /\ \A v \in Worker : pc'[v] \notin Dispatching => cursor'[v] = 1
        BY <3>1, <3>2 DEF HandledInv, Current, Dispatching
      <3> QED
        BY <1>1, <1>2, <1>3, <3>1, <3>3, <3>4, <3>5 DEF HandledInv
    <2> QED
      BY <2>1, <2>2
  <1>7. ASSUME NEW w \in Worker, EnqueueAsync(w) PROVE HandledInv'
    <2>1. /\ pc[w] = "dispatch" /\ pc[w] \in Dispatching
          /\ cursor[w] > NumSync[Current(w)]
          /\ pc'[w] = "done"
          /\ \A v \in Worker \ {w} : pc'[v] = pc[v] /\ async'[v] = async[v]
          /\ UNCHANGED <<row, batch, cursor, ran, notified>>
      BY <1>7 DEF EnqueueAsync, TypeOK, Dispatching
    <2>2. AllRan(Current(w))
      <3>1. /\ NumSync[Current(w)] \in Nat /\ cursor[w] \in Nat
            /\ \A h \in 1..(cursor[w] - 1) : ran[Current(w)][h] > 0
        BY <2>1, DispatchingFacts DEF HandledInv, Past
      <3> QED
        BY <2>1, <3>1 DEF AllRan
    <2>3. \A c \in async'[w] : c \in async[w] \/ c.claim.id = Current(w)
      BY <1>7 DEF EnqueueAsync, TypeOK, Current
    <2>4. \A v \in Worker : \A c \in async'[v] : AllRan(c.claim.id)'
      BY <2>1, <2>2, <2>3 DEF HandledInv, AllRan
    <2>5. \A v \in Worker : pc'[v] \in Dispatching => Past(v)'
      BY <2>1, PastKept
    <2>6. /\ \A v \in Worker : pc'[v] = "done" => cursor'[v] > NumSync[Current(v)']
          /\ \A v \in Worker : pc'[v] \notin Dispatching => cursor'[v] = 1
      BY <2>1 DEF HandledInv, Current, Dispatching
    <2>7. PriorityOrder'
      BY <2>1 DEF HandledInv, PriorityOrder
    <2> QED
      BY <1>2, <1>3, <2>1, <2>4, <2>5, <2>6, <2>7 DEF HandledInv
  <1>8. ASSUME NEW w \in Worker, NextRow(w), UNCHANGED <<async, ran, notified>>,
               ProcessedWasHandled'
        PROVE  HandledInv'
    <2>1. /\ cursor'[w] = 1
          /\ pc'[w] \in {"idle", "dispatch"}
          /\ \A v \in Worker \ {w} : /\ pc'[v] = pc[v]
                                     /\ batch'[v] = batch[v]
                                     /\ cursor'[v] = cursor[v]
      BY <1>8 DEF NextRow, TypeOK
    <2>2. \A v \in Worker : pc'[v] \in Dispatching => Past(v)'
      BY <2>1, PastKept DEF Past
    <2>3. /\ \A v \in Worker : pc'[v] = "done" => cursor'[v] > NumSync[Current(v)']
          /\ \A v \in Worker : pc'[v] \notin Dispatching => cursor'[v] = 1
      BY <2>1 DEF HandledInv, Current
    <2>4. PriorityOrder'
      BY <1>8 DEF HandledInv, PriorityOrder
    <2> QED
      BY <1>1, <1>2, <1>8, <2>2, <2>3, <2>4 DEF HandledInv
  <1>9. ASSUME NEW w \in Worker, MarkProcessed(w) PROVE HandledInv'
    <2>1. pc[w] = "done" /\ pc[w] \in Dispatching
      BY <1>9 DEF MarkProcessed, Dispatching
    <2>2. AllRan(Current(w))
      <3>1. /\ NumSync[Current(w)] \in Nat /\ cursor[w] \in Nat
            /\ cursor[w] > NumSync[Current(w)]
            /\ \A h \in 1..(cursor[w] - 1) : ran[Current(w)][h] > 0
        BY <2>1, DispatchingFacts DEF HandledInv, Past
      <3> QED
        BY <3>1 DEF AllRan
    <2>3. ProcessedWasHandled'
      BY <1>9, <2>2, AllRanStable DEF MarkProcessed, HandledInv, ProcessedWasHandled, TypeOK
    <2> QED
      BY <1>8, <1>9, <2>3 DEF MarkProcessed
  <1>10. ASSUME NEW w \in Worker, MarkFailed(w) PROVE HandledInv'
    <2>1. pc[w] \in Dispatching
      BY <1>10 DEF MarkFailed, Dispatching
    <2>2. \A e \in Event : row'[e].status = "PROCESSED" => row[e].status = "PROCESSED"
      BY <1>10, <2>1, DispatchingFacts DEF MarkFailed, TypeOK, Row
    <2> QED
      BY <1>3, <1>8, <1>10, <2>2 DEF MarkFailed
  <1>11. ASSUME NEW w \in Worker, NEW c \in async[w], InvokeAsync(w, c) PROVE HandledInv'
    <2>1. c \in AsyncCall /\ c.claim.id \in Event /\ AllRan(c.claim.id)
      BY DEF HandledInv, TypeOK, AsyncCall, Claim
    <2>2. \A v \in Worker : \A d \in async'[v] : d \in async[v] \/ d.claim.id = c.claim.id
      <3>1. [c EXCEPT !.tries = @ + 1].claim = c.claim
        BY <2>1 DEF AsyncCall
      <3>2. /\ async'[w] \subseteq async[w] \cup {[c EXCEPT !.tries = @ + 1]}
            /\ \A v \in Worker \ {w} : async'[v] = async[v]
        BY <1>11 DEF InvokeAsync, TypeOK
      <3> QED
        BY <3>1, <3>2
    <2>3. notified' \subseteq notified \cup {<<c.claim.id, c.handler>>}
      BY <1>11 DEF InvokeAsync
    <2>4. UNCHANGED <<row, pc, batch, cursor, ran>>
      BY <1>11 DEF InvokeAsync
    <2>5. \A v \in Worker : \A d \in async'[v] : AllRan(d.claim.id)'
      BY <2>1, <2>2, <2>4 DEF HandledInv, AllRan
    <2>6. NotifiedAfterHandled'
      BY <2>1, <2>3, <2>4 DEF HandledInv, NotifiedAfterHandled, AllRan
    <2>7. \A v \in Worker : pc'[v] \in Dispatching => Past(v)'
      BY <2>4, PastKept
    <2>8. /\ \A v \in Worker : pc'[v] = "done" => cursor'[v] > NumSync[Current(v)']
          /\ \A v \in Worker : pc'[v] \notin Dispatching => cursor'[v] = 1
          /\ PriorityOrder'
          /\ ProcessedWasHandled'
      BY <2>4 DEF HandledInv, Current, PriorityOrder, ProcessedWasHandled, AllRan
    <2> QED
      BY <2>5, <2>6, <2>7, <2>8 DEF HandledInv
  <1>12. ASSUME NEW w \in Worker, Crash(w) PROVE HandledInv'
    <2>1. /\ pc'[w] = "idle" /\ cursor'[w] = 1 /\ async'[w] = {}
          /\ \A v \in Worker \ {w} : /\ pc'[v] = pc[v]
                                     /\ batch'[v] = batch[v]
                                     /\ cursor'[v] = cursor[v]
                                     /\ async'[v] = async[v]
          /\ UNCHANGED <<row, ran, notified>>
      BY <1>12 DEF Crash, TypeOK
    <2>2. \A v \in Worker : pc'[v] \in Dispatching => Past(v)'
      BY <2>1, PastKept DEF Past
    <2>3. /\ \A v \in Worker : pc'[v] = "done" => cursor'[v] > NumSync[Current(v)']
          /\ \A v \in Worker : pc'[v] \notin Dispatching => cursor'[v] = 1
          /\ PriorityOrder'
      BY <2>1 DEF HandledInv, Current, PriorityOrder
    <2> QED
      BY <1>1, <1>2, <1>3, <2>1, <2>2, <2>3 DEF HandledInv
  <1> QED
    BY <1>4, <1>5, <1>6, <1>7, <1>9, <1>10, <1>11, <1>12, QuietSteps, QuietHandled
       DEF Next, Cycle

(* HandledInv always holds.                                                 *)
LEMMA HandledInvariant == Spec => []HandledInv
  <1>1. Init => HandledInv
    <2> SUFFICES ASSUME Init PROVE HandledInv
      OBVIOUS
    <2>1. \A e \in Event, h \in Handler : ran[e][h] = 0
      BY DEF Init
    <2> QED
      BY <2>1 DEF Init, HandledInv, PriorityOrder, ProcessedWasHandled, NotifiedAfterHandled,
                  Past, Dispatching
  <1> QED
    BY <1>1, HandledStep, TypeCorrect, PTL DEF Spec

(* An acknowledged event was handled: a row is PROCESSED only when every     *)
(* SYNC handler has committed, although anybody may write the row last.      *)
THEOREM ProcessedEventsWereHandled == Spec => []ProcessedWasHandled
  BY HandledInvariant, PTL DEF HandledInv

(* Customers are told of an event only after the books and the stock know.   *)
THEOREM NotificationsComeLast == Spec => []NotifiedAfterHandled
  BY HandledInvariant, PTL DEF HandledInv
-----------------------------------------------------------------------------
(* Attempts.  Only the claims of a row count them.  The bound needs to know  *)
(* where a row that may be claimed again comes from: retryFailed looks at    *)
(* MAX_EVENT_ATTEMPTS, and a row that is released was abandoned by a death   *)
(* or taken from a live instance, each of which is one fault.                *)
Held(e) ==
  \E w \in Worker : \E i \in Positions(w) : Entry(w, i) = [id |-> e, attempts |-> row[e].attempts]

\* An event has attempts left, counting one more for every fault.
Room(e) == row[e].attempts < MaxAttempts + faults

\* The attempts of one event stay within bounds.
Bounded(e) ==
  /\ row[e].attempts <= MaxAttempts + faults
  /\ row[e].status = "PENDING" => Room(e)
  /\ row[e].status = "PROCESSING" /\ row[e].lockedAt = "stale" => Room(e)
  /\ row[e].status = "PROCESSING" /\ ~Held(e) => Room(e)

\* The attempts of every event stay within bounds.
AttemptsInv == \A e \in Event : Bounded(e)

\* The four numbers a step compares.
LEMMA AttemptNumbers ==
  ASSUME TypeOK, NEW e \in Event
  PROVE  row[e].attempts \in Nat /\ faults \in Nat /\ MaxAttempts \in Nat /\ MaxAttempts > 0
  <1>1. row[e].attempts \in Nat
    BY RowType
  <1>2. faults \in Nat
    BY OutboxAssumption DEF OutboxAssumption, TypeOK
  <1> QED
    BY <1>1, <1>2, OutboxAssumption DEF OutboxAssumption

(* A row that is left alone keeps its bound.                                *)
LEMMA RowKeptBounded ==
  ASSUME TypeOK, NEW e \in Event, Bounded(e), row'[e] = row[e],
         \/ faults' = faults + 1
         \/ faults' = faults /\ (Held(e) => Held(e)')
  PROVE  Bounded(e)'
  <1>1. row[e].attempts \in Nat /\ faults \in Nat /\ MaxAttempts \in Nat
    BY AttemptNumbers
  <1>2. CASE faults' = faults + 1
    BY <1>1, <1>2 DEF Bounded, Room
  <1>3. CASE faults' = faults /\ (Held(e) => Held(e)')
    BY <1>1, <1>3 DEF Bounded, Room
  <1> QED
    BY <1>2, <1>3

(* So does a row that is marked by whoever claimed it.                      *)
LEMMA MarkBounded ==
  ASSUME TypeOK, ClaimInv, AttemptsInv, NEW e \in Event,
         NEW w \in Worker, MarkProcessed(w) \/ MarkFailed(w)
  PROVE  Bounded(e)'
  <1>1. /\ pc[w] \in Dispatching
        /\ row'[Current(w)].status \in {"PROCESSED", "FAILED"}
        /\ \A f \in Event \ {Current(w)} : row'[f] = row[f]
        /\ \A f \in Event : row'[f].attempts = row[f].attempts
    BY MarksKeepClaims
  <1>2. faults' = faults /\ NextRow(w)
    BY DEF MarkProcessed, MarkFailed
  <1>3. CASE e = Current(w)
    BY <1>1, <1>2, <1>3 DEF AttemptsInv, Bounded
  <1>4. CASE e # Current(w)
    <2>1. ASSUME Held(e) PROVE Held(e)'
      <3>1. PICK v \in Worker :
              \E i \in Positions(v) : Entry(v, i) = [id |-> e, attempts |-> row[e].attempts]
        BY <2>1 DEF Held
      <3>2. PICK i \in Positions(v) : Entry(v, i) = [id |-> e, attempts |-> row[e].attempts]
        BY <3>1
      <3>3. CASE v # w
        BY <1>1, <1>2, <1>4, <3>2, <3>3 DEF Held, Positions, Entry, NextRow, TypeOK
      <3>4. CASE v = w
        <4>1. /\ batch[w] \in Seq(Claim) /\ batch[w] # <<>> /\ Len(batch[w]) \in Nat \ {0}
              /\ Current(w) = batch[w][1].id
          BY <1>1, DispatchingFacts DEF Current
        <4>2. i # 1
          BY <1>4, <3>2, <3>4, <4>1 DEF Entry
        <4>3. batch'[w] = Tail(batch[w])
          BY <1>2, <4>1 DEF NextRow, TypeOK
        <4>4. i - 1 \in 1..Len(Tail(batch[w])) /\ Tail(batch[w])[i - 1] = batch[w][i]
          <5>1. i \in 1..Len(batch[w]) /\ i \in Int /\ Len(Tail(batch[w])) = Len(batch[w]) - 1
            BY <3>2, <3>4, <4>1, TailFacts DEF Positions
          <5>2. i - 1 \in 1..Len(Tail(batch[w])) /\ (i - 1) + 1 = i
            BY <4>1, <4>2, <5>1
          <5> QED
            BY <4>1, <5>2, TailFacts
        <4>5. i - 1 \in Positions(w)' /\ Entry(w, i - 1)' = [id |-> e, attempts |-> row'[e].attempts]
          BY <1>1, <3>2, <3>4, <4>3, <4>4 DEF Positions, Entry
        <4> QED
          BY <4>5 DEF Held
      <3> QED
        BY <3>3, <3>4
    <2> QED
      BY <1>1, <1>2, <1>4, <2>1, RowKeptBounded DEF AttemptsInv
  <1> QED
    BY <1>3, <1>4

(* So does a row that is claimed: its attempt was allowed for.              *)
LEMMA ClaimBounded ==
  ASSUME TypeOK, AttemptsInv, NEW e \in Event, NEW w \in Worker, ClaimPendingBatch(w)
  PROVE  Bounded(e)'
  <1>1. PICK s \in Seq(WithStatus("PENDING")) : ClaimRows(w, s)
    BY ClaimPick
  <1>2. faults' = faults /\ row[e].attempts \in Nat /\ faults \in Nat /\ MaxAttempts \in Nat
    BY AttemptNumbers DEF ClaimPendingBatch
  <1>3. /\ Len(s) \in Nat
        /\ batch'[w] = [i \in 1..Len(s) |-> [id |-> s[i], attempts |-> row[s[i]].attempts + 1]]
        /\ Len(batch'[w]) = Len(s)
        /\ \A v \in Worker \ {w} : batch'[v] = batch[v]
    BY <1>1, ClaimedBatch DEF ClaimRows, TypeOK
  <1>4. CASE \E i \in 1..Len(s) : s[i] = e
    <2>1. PICK i \in 1..Len(s) : s[i] = e
      BY <1>4
    <2>2. Bounded(e) /\ row[e].status = "PENDING"
      BY <2>1 DEF AttemptsInv, WithStatus
    <2>3. row'[e] = [status |-> "PROCESSING", attempts |-> row[e].attempts + 1,
                     lockedAt |-> "fresh"]
      BY <1>1, <1>4 DEF ClaimRows
    <2>4. Held(e)'
      BY <1>3, <2>1, <2>3 DEF Held, Positions, Entry
    <2>5. row'[e].attempts <= MaxAttempts + faults'
      BY <1>2, <2>2, <2>3 DEF Bounded, Room
    <2> QED
      BY <2>3, <2>4, <2>5 DEF Bounded
  <1>5. CASE ~\E i \in 1..Len(s) : s[i] = e
    <2>1. row'[e] = row[e]
      BY <1>1, <1>5 DEF ClaimRows
    <2>2. batch[w] = <<>>
      BY DEF ClaimPendingBatch, TypeOK, Dispatching
    <2>3. Held(e) => Held(e)'
      BY <1>3, <2>1, <2>2 DEF Held, Positions, Entry
    <2> QED
      BY <1>2, <2>1, <2>3, RowKeptBounded DEF AttemptsInv
  <1> QED
    BY <1>4, <1>5

(* Every step keeps the bound on attempts.                                  *)
LEMMA AttemptsStep ==
  TypeOK /\ ClaimInv /\ AttemptsInv /\ [Next]_vars => AttemptsInv'
  <1> SUFFICES ASSUME TypeOK, ClaimInv, AttemptsInv, [Next]_vars, NEW e \in Event
               PROVE  Bounded(e)'
    BY DEF AttemptsInv
  <1>. DEFINE Same == row' = row /\ batch' = batch /\ faults' = faults
  <1>1. row[e] \in Row /\ row[e].attempts \in Nat /\ faults \in Nat /\ MaxAttempts \in Nat
        /\ MaxAttempts > 0 /\ Bounded(e)
    BY AttemptNumbers, RowType DEF AttemptsInv
  <1>2. ASSUME batch' = batch, faults' = faults, row'[e] = row[e] PROVE Bounded(e)'
    BY <1>1, <1>2, RowKeptBounded DEF Held, Positions, Entry
  <1>3. ASSUME NEW S \in SUBSET Event, Publish(S) PROVE Bounded(e)'
    <2>1. batch' = batch /\ faults' = faults
      BY <1>3 DEF Publish
    <2>2. CASE e \in S
      <3>1. row[e].attempts = 0
        BY <1>3, <2>2 DEF Publish, WithStatus, ClaimInv, UnpublishedUnclaimed
      <3>2. row'[e].status = "PENDING" /\ row'[e].attempts = 0
        BY <1>1, <1>3, <2>2, <3>1 DEF Publish, Row
      <3> QED
        BY <1>1, <2>1, <3>2 DEF Bounded, Room
    <2>3. CASE e \notin S
      BY <1>2, <1>3, <2>1, <2>3 DEF Publish
    <2> QED
      BY <2>2, <2>3
  <1>4. ASSUME NEW w \in Worker, ReleaseStuckProcessing(w) PROVE Bounded(e)'
    <2>1. batch' = batch /\ faults' = faults
      BY <1>4 DEF ReleaseStuckProcessing
    <2>2. CASE row[e].status = "PROCESSING" /\ row[e].lockedAt = "stale"
      <3>1. row'[e].status = "PENDING" /\ row'[e].attempts = row[e].attempts
        BY <1>1, <1>4, <2>2 DEF ReleaseStuckProcessing, Row
      <3> QED
        BY <1>1, <2>1, <2>2, <3>1 DEF Bounded, Room
    <2>3. CASE ~(row[e].status = "PROCESSING" /\ row[e].lockedAt = "stale")
      BY <1>2, <1>4, <2>1, <2>3 DEF ReleaseStuckProcessing
    <2> QED
      BY <2>2, <2>3
  <1>5. ASSUME NEW w \in Worker, RetryFailed(w) PROVE Bounded(e)'
    <2>1. batch' = batch /\ faults' = faults
      BY <1>5 DEF RetryFailed
    <2>2. PICK S \in SUBSET Retryable :
            row' = [f \in Event |-> IF f \in S THEN [row[f] EXCEPT !.status = "PENDING"]
                                    ELSE row[f]]
      BY <1>5 DEF RetryFailed
    <2>3. CASE e \in S
      <3>1. /\ row[e].attempts < MaxAttempts
            /\ row'[e].status = "PENDING" /\ row'[e].attempts = row[e].attempts
        BY <1>1, <2>2, <2>3 DEF Retryable, Row
      <3> QED
        BY <1>1, <2>1, <3>1 DEF Bounded, Room
    <2>4. CASE e \notin S
      BY <1>2, <2>1, <2>2, <2>4
    <2> QED
      BY <2>3, <2>4
  <1>6. ASSUME NEW f \in Event, LockExpires(f) PROVE Bounded(e)'
    <2>1. batch' = batch /\ (faults' = faults \/ faults' = faults + 1)
      BY <1>6 DEF LockExpires, Fault
    <2>2. CASE e = f
      <3>1. row'[e].attempts = row[e].attempts /\ row'[e].status = "PROCESSING"
        BY <1>1, <1>6, <2>2 DEF LockExpires, Row, TypeOK
      <3>2. CASE faults' = faults + 1
        BY <1>1, <3>1, <3>2 DEF Bounded, Room
      <3>3. CASE faults' = faults /\ faults' # faults + 1
        <4>1. Orphan(e)
          BY <1>6, <2>2, <3>3 DEF LockExpires, Fault
        <4>2. ~Held(e)
          BY <4>1 DEF Orphan, Held, Positions, Entry
        <4>3. Room(e)
          BY <1>1, <1>6, <2>2, <4>2 DEF Bounded, LockExpires
        <4> QED
          BY <1>1, <3>1, <3>3, <4>3 DEF Bounded, Room
      <3> QED
        BY <1>1, <2>1, <3>2, <3>3
    <2>3. CASE e # f
      <3>1. row'[e] = row[e]
        BY <1>6, <2>3 DEF LockExpires, TypeOK
      <3> QED
        BY <1>1, <2>1, <3>1, RowKeptBounded DEF Held, Positions, Entry
    <2> QED
      BY <2>2, <2>3
  <1>7. ASSUME NEW w \in Worker, MarkProcessedThrows(w) \/ Crash(w) PROVE Bounded(e)'
    BY <1>1, <1>7, RowKeptBounded DEF MarkProcessedThrows, Crash, Fault
  <1>8. ASSUME NEW w \in Worker, InvokeSucceeds(w) PROVE Same
    BY <1>8 DEF InvokeSucceeds
  <1>9. ASSUME NEW w \in Worker, NEW c \in BOOLEAN, InvokeThrows(w, c) PROVE Same
    BY <1>9 DEF InvokeThrows
  <1>10. ASSUME NEW w \in Worker, EnqueueAsync(w) PROVE Same
    BY <1>10 DEF EnqueueAsync
  <1>11. ASSUME NEW w \in Worker, NEW c \in async[w], InvokeAsync(w, c) PROVE Same
    BY <1>11 DEF InvokeAsync
  <1>12. CASE UNCHANGED vars
    BY <1>2, <1>12 DEF vars
  <1>13. Same => Bounded(e)'
    BY <1>2
  <1> QED
    BY <1>3, <1>4, <1>5, <1>6, <1>7, <1>8, <1>9, <1>10, <1>11, <1>12, <1>13, ClaimBounded,
       MarkBounded DEF Next, Cycle

(* The bound on attempts always holds.                                      *)
LEMMA AttemptsInvariant == Spec => []AttemptsInv
  <1>1. Init => AttemptsInv
    <2> SUFFICES ASSUME Init, NEW e \in Event PROVE Bounded(e)
      BY DEF AttemptsInv
    <2>1. row[e].attempts = 0 /\ row[e].status = "NONE" /\ faults = 0 /\ MaxAttempts \in Nat
      BY OutboxAssumption DEF OutboxAssumption, Init
    <2> QED
      BY <2>1 DEF Bounded
  <1> QED
    BY <1>1, AttemptsStep, TypeCorrect, ClaimInvariant, PTL DEF Spec

(* MAX_EVENT_ATTEMPTS bounds the claims of a row up to one for each fault.  *)
THEOREM AttemptsAreBounded == Spec => []AttemptsBounded
  <1>1. AttemptsInv => AttemptsBounded
    BY DEF AttemptsInv, Bounded, AttemptsBounded
  <1> QED
    BY <1>1, AttemptsInvariant, PTL

(* A dead letter is not claimed again: only the late mark of an instance     *)
(* that still held it can change it.                                         *)
THEOREM DeadLettersStay == Spec => DeadLetterStays
  <1>1. TypeOK /\ ClaimInv /\ [Next]_vars
          => [\A e \in Event : Dead(e) => Dead(e)' \/ row'[e].status = "PROCESSED"]_vars
    <2> SUFFICES ASSUME TypeOK, ClaimInv, [Next]_vars, NEW e \in Event, Dead(e)
                 PROVE  Dead(e)' \/ row'[e].status = "PROCESSED"
      OBVIOUS
    <2>1. /\ row[e] \in Row /\ row[e].status = "FAILED"
          /\ row[e].attempts \in Nat /\ row[e].attempts >= MaxAttempts /\ MaxAttempts \in Nat
      BY RowType, AttemptNumbers DEF Dead
    <2>2. row'[e] = row[e] => Dead(e)'
      BY DEF Dead
    <2>3. ASSUME NEW S \in SUBSET Event, Publish(S) PROVE row'[e] = row[e]
      BY <2>1, <2>3 DEF Publish, WithStatus
    <2>4. ASSUME NEW w \in Worker, ReleaseStuckProcessing(w) PROVE row'[e] = row[e]
      BY <2>1, <2>4 DEF ReleaseStuckProcessing
    <2>5. ASSUME NEW w \in Worker, RetryFailed(w) PROVE row'[e] = row[e]
      <3>1. e \notin Retryable
        BY <2>1 DEF Retryable
      <3> QED
        BY <2>5, <3>1 DEF RetryFailed
    <2>6. ASSUME NEW w \in Worker, ClaimPendingBatch(w) PROVE row'[e] = row[e]
      <3>1. PICK s \in Seq(WithStatus("PENDING")) : ClaimRows(w, s)
        BY <2>6, ClaimPick
      <3>2. \A i \in 1..Len(s) : s[i] # e
        BY <2>1 DEF WithStatus
      <3> QED
        BY <3>1, <3>2 DEF ClaimRows
    <2>7. ASSUME NEW w \in Worker, MarkProcessed(w) \/ MarkFailed(w)
          PROVE  Dead(e)' \/ row'[e].status = "PROCESSED"
      <3>1. /\ row'[Current(w)].status \in {"PROCESSED", "FAILED"}
            /\ \A f \in Event \ {Current(w)} : row'[f] = row[f]
            /\ \A f \in Event : row'[f].attempts = row[f].attempts
        BY <2>7, MarksKeepClaims
      <3> QED
        BY <2>1, <2>2, <3>1 DEF Dead
    <2>8. ASSUME NEW f \in Event, LockExpires(f) PROVE row'[e] = row[e]
      BY <2>1, <2>8 DEF LockExpires, TypeOK
    <2>9. ASSUME \/ \E w \in Worker : InvokeSucceeds(w)
                 \/ \E w \in Worker : \E c \in BOOLEAN : InvokeThrows(w, c)
                 \/ \E w \in Worker : EnqueueAsync(w)
                 \/ \E w \in Worker : \E c \in async[w] : InvokeAsync(w, c)
                 \/ \E w \in Worker : MarkProcessedThrows(w) \/ Crash(w)
                 \/ UNCHANGED vars
          PROVE  row' = row
      BY <2>9 DEF InvokeSucceeds, InvokeThrows, EnqueueAsync, InvokeAsync, MarkProcessedThrows,
                  Crash, vars
    <2> QED
      BY <2>2, <2>3, <2>4, <2>5, <2>6, <2>7, <2>8, <2>9 DEF Next, Cycle
  <1> QED
    BY <1>1, TypeCorrect, ClaimInvariant, PTL DEF Spec, DeadLetterStays
-----------------------------------------------------------------------------
(* Refinement: what the services and the handlers see of the outbox is       *)
(* EventDelivery.                                                            *)
Published == {e \in Event : row[e].status # "NONE"}

\* The pairs of an event and a handler that ran, and the events that are done.
Handled == {p \in Event \X Handler : ran[p[1]][p[2]] > 0}
Acknowledged == {e \in Event : row[e].status = "PROCESSED"}

\* A step that changes none of the three records is a stutter of the abstract delivery.
LEMMA SameView ==
  ASSUME \A e \in Event : (row'[e].status = "NONE") <=> (row[e].status = "NONE"),
         \A e \in Event : (row'[e].status = "PROCESSED") <=> (row[e].status = "PROCESSED"),
         ran' = ran
  PROVE  UNCHANGED <<Published, Handled, Acknowledged>>
  BY DEF Published, Handled, Acknowledged

(* A committed handler is an abstract handling.                             *)
LEMMA HandleRefines ==
  ASSUME TypeOK, ClaimInv, HandledInv, NEW w \in Worker, Handling(w),
         Commit(Current(w), cursor[w]), row' = row
  PROVE  Delivery!DHandle(Current(w), cursor[w]) /\ Current(w) \in Event
         /\ cursor[w] \in 1..NumSync[Current(w)]
  <1>1. pc[w] \in Dispatching /\ cursor[w] <= NumSync[Current(w)]
    BY DEF Handling, Dispatching
  <1>2. /\ Current(w) \in Event /\ NumSync[Current(w)] \in 0..MaxHandlers /\ MaxHandlers \in Nat
        /\ batch[w] \in Seq(Claim) /\ Len(batch[w]) \in Nat \ {0} /\ Current(w) = batch[w][1].id
        /\ cursor[w] \in 1..(MaxHandlers + 1)
    BY <1>1, DispatchingFacts DEF Current
  <1>3. cursor[w] \in 1..NumSync[Current(w)] /\ cursor[w] \in Handler
    BY <1>1, <1>2 DEF Handler
  <1>4. Current(w) \in Published
    BY <1>2 DEF ClaimInv, ClaimReached, Positions, Entry, Published
  <1>5. \A g \in 1..(cursor[w] - 1) : <<Current(w), g>> \in Handled
    <2>1. \A g \in 1..(cursor[w] - 1) : g \in Handler
      BY <1>2, <1>3 DEF Handler
    <2> QED
      BY <1>1, <1>2, <2>1 DEF HandledInv, Past, Handled
  <1>6. Handled' = Handled \cup {<<Current(w), cursor[w]>>}
    <2>1. \A e \in Event, h \in Handler :
            ran'[e][h] = IF e = Current(w) /\ h = cursor[w] THEN ran[e][h] + 1 ELSE ran[e][h]
      BY <1>2, <1>3 DEF Commit, TypeOK
    <2>2. \A e \in Event, h \in Handler : ran[e][h] \in Nat
      BY DEF TypeOK
    <2>3. \A e \in Event, h \in Handler :
            ran'[e][h] > 0 <=> ran[e][h] > 0 \/ (e = Current(w) /\ h = cursor[w])
      BY <2>1, <2>2
    <2> QED
      BY <1>2, <1>3, <2>3 DEF Handled
  <1>7. UNCHANGED <<Published, Acknowledged>>
    BY DEF Published, Acknowledged
  <1> QED
    BY <1>2, <1>3, <1>4, <1>5, <1>6, <1>7 DEF Delivery!DHandle, Published, Handled, Acknowledged

(* A mark is an abstract acknowledgement, or takes one back.                *)
LEMMA MarkRefines ==
  ASSUME TypeOK, ClaimInv, HandledInv, NEW w \in Worker, MarkProcessed(w) \/ MarkFailed(w)
  PROVE  Current(w) \in Event /\ (Delivery!DAcknowledge(Current(w)) \/ Delivery!DRetract(Current(w)))
  <1>1. /\ KeepsClaims
        /\ pc[w] \in Dispatching
        /\ \A e \in Event \ {Current(w)} : row'[e] = row[e]
    BY MarksKeepClaims
  <1>2. /\ Current(w) \in Event /\ NumSync[Current(w)] \in 0..MaxHandlers /\ MaxHandlers \in Nat
        /\ batch[w] \in Seq(Claim) /\ Len(batch[w]) \in Nat \ {0} /\ Current(w) = batch[w][1].id
        /\ cursor[w] \in 1..(MaxHandlers + 1)
    BY <1>1, DispatchingFacts DEF Current
  <1>3. Published' = Published /\ Handled' = Handled
    BY <1>1 DEF KeepsClaims, Published, Handled, MarkProcessed, MarkFailed
  <1>4. CASE MarkProcessed(w)
    <2>1. row'[Current(w)].status = "PROCESSED"
      BY <1>2, <1>4 DEF MarkProcessed, TypeOK, Row
    <2>2. Acknowledged' = Acknowledged \cup {Current(w)}
      BY <1>1, <1>2, <2>1 DEF Acknowledged
    <2>3. Current(w) \in Published
      BY <1>2 DEF ClaimInv, ClaimReached, Positions, Entry, Published
    <2>4. \A h \in 1..NumSync[Current(w)] : <<Current(w), h>> \in Handled
      <3>1. cursor[w] > NumSync[Current(w)]
        BY <1>4 DEF MarkProcessed, HandledInv
      <3>2. \A h \in 1..NumSync[Current(w)] : h \in 1..(cursor[w] - 1) /\ h \in Handler
        BY <1>2, <3>1 DEF Handler
      <3> QED
        BY <1>1, <1>2, <3>2 DEF HandledInv, Past, Handled
    <2> QED
      BY <1>2, <1>3, <2>2, <2>3, <2>4 DEF Delivery!DAcknowledge, Published, Handled, Acknowledged
  <1>5. CASE MarkFailed(w)
    <2>1. row'[Current(w)].status = "FAILED"
      BY <1>2, <1>5 DEF MarkFailed, TypeOK, Row
    <2>2. Acknowledged' = Acknowledged \ {Current(w)}
      BY <1>1, <1>2, <2>1 DEF Acknowledged
    <2> QED
      BY <1>2, <1>3, <2>2 DEF Delivery!DRetract, Published, Handled, Acknowledged
  <1> QED
    BY <1>2, <1>4, <1>5

(* Every step of the outbox is an abstract step or a stutter.               *)
LEMMA StepRefines ==
  TypeOK /\ ClaimInv /\ HandledInv /\ [Next]_vars => [Delivery!DNext]_(Delivery!dvars)
  <1> SUFFICES ASSUME TypeOK, ClaimInv, HandledInv, [Next]_vars
               PROVE  Delivery!DNext \/ UNCHANGED <<Published, Handled, Acknowledged>>
    BY DEF Delivery!dvars, Published, Handled, Acknowledged
  <1>. DEFINE Refines == Delivery!DNext \/ UNCHANGED <<Published, Handled, Acknowledged>>
  <1>1. ASSUME NEW S \in SUBSET Event, Publish(S) PROVE Refines
    <2>1. \A e \in S : row[e].status = "NONE"
      BY <1>1 DEF Publish, WithStatus
    <2>2. \A e \in Event : row'[e].status = IF e \in S THEN "PENDING" ELSE row[e].status
      BY <1>1, RowType DEF Publish, Row
    <2>3. S \subseteq Event \ Published /\ Published' = Published \cup S
          /\ Acknowledged' = Acknowledged /\ Handled' = Handled
      BY <1>1, <2>1, <2>2 DEF Publish, Published, Acknowledged, Handled
    <2>4. Delivery!DPublish(S)
      BY <2>3 DEF Delivery!DPublish, Published, Acknowledged, Handled
    <2> QED
      BY <2>4 DEF Delivery!DNext
  <1>2. ASSUME NEW w \in Worker, Handling(w), Commit(Current(w), cursor[w]), row' = row
        PROVE  Refines
    <2>1. /\ Delivery!DHandle(Current(w), cursor[w])
          /\ Current(w) \in Event
          /\ cursor[w] \in 1..NumSync[Current(w)]
      BY <1>2, HandleRefines
    <2>2. \E e \in Event : \E h \in 1..NumSync[e] : Delivery!DHandle(e, h)
      BY <2>1 DEF Delivery!DHandle
    <2> QED
      BY <2>2 DEF Delivery!DNext
  <1>3. ASSUME NEW w \in Worker, InvokeSucceeds(w) PROVE Refines
    BY <1>2, <1>3 DEF InvokeSucceeds
  <1>4. ASSUME NEW w \in Worker, NEW c \in BOOLEAN, InvokeThrows(w, c) PROVE Refines
    <2>1. CASE c
      BY <1>2, <1>4, <2>1 DEF InvokeThrows
    <2>2. CASE ~c
      BY <1>4, <2>2, SameView DEF InvokeThrows
    <2> QED
      BY <2>1, <2>2
  <1>5. ASSUME NEW w \in Worker, MarkProcessed(w) \/ MarkFailed(w) PROVE Refines
    <2>1. /\ Delivery!DAcknowledge(Current(w)) \/ Delivery!DRetract(Current(w))
          /\ Current(w) \in Event
      BY <1>5, MarkRefines
    <2>2. \E e \in Event : Delivery!DAcknowledge(e) \/ Delivery!DRetract(e)
      BY <2>1 DEF Delivery!DAcknowledge, Delivery!DRetract
    <2> QED
      BY <2>2 DEF Delivery!DNext
  <1>6. ASSUME NEW w \in Worker, ReleaseStuckProcessing(w) PROVE Refines
    <2>1. \A e \in Event : \/ row'[e] = row[e]
                           \/ row[e].status = "PROCESSING" /\ row'[e].status = "PENDING"
      BY <1>6, RowType DEF ReleaseStuckProcessing, Row
    <2> QED
      BY <1>6, <2>1, SameView DEF ReleaseStuckProcessing
  <1>7. ASSUME NEW w \in Worker, RetryFailed(w) PROVE Refines
    <2>1. \A e \in Event : \/ row'[e] = row[e]
                           \/ row[e].status = "FAILED" /\ row'[e].status = "PENDING"
      <3>1. PICK S \in SUBSET Retryable :
              row' = [e \in Event |-> IF e \in S THEN [row[e] EXCEPT !.status = "PENDING"]
                                      ELSE row[e]]
        BY <1>7 DEF RetryFailed
      <3>2. \A e \in S : row[e].status = "FAILED" /\ row[e] \in Row
        BY RowType DEF Retryable, WithStatus
      <3> QED
        BY <3>1, <3>2 DEF Row
    <2> QED
      BY <1>7, <2>1, SameView DEF RetryFailed
  <1>8. ASSUME NEW w \in Worker, ClaimPendingBatch(w) PROVE Refines
    <2>1. PICK s \in Seq(WithStatus("PENDING")) : ClaimRows(w, s)
      BY <1>8, ClaimPick
    <2>2. \A e \in Event : \/ row'[e] = row[e]
                           \/ row[e].status = "PENDING" /\ row'[e].status = "PROCESSING"
      <3>1. \A i \in 1..Len(s) : row[s[i]].status = "PENDING"
        BY DEF WithStatus
      <3> QED
        BY <2>1, <3>1 DEF ClaimRows
    <2> QED
      BY <1>8, <2>2, SameView DEF ClaimPendingBatch
  <1>9. ASSUME NEW e \in Event, LockExpires(e) PROVE Refines
    <2>1. \A f \in Event : row'[f].status = row[f].status
      BY <1>9, RowType DEF LockExpires, TypeOK, Row
    <2> QED
      BY <1>9, <2>1, SameView DEF LockExpires
  <1>10. ASSUME \/ \E w \in Worker : EnqueueAsync(w)
                \/ \E w \in Worker : \E c \in async[w] : InvokeAsync(w, c)
                \/ \E w \in Worker : MarkProcessedThrows(w) \/ Crash(w)
                \/ UNCHANGED vars
         PROVE  Refines
    <2>1. row' = row /\ ran' = ran
      BY <1>10 DEF EnqueueAsync, InvokeAsync, MarkProcessedThrows, Crash, vars
    <2> QED
      BY <2>1, SameView
  <1> QED
    BY <1>1, <1>3, <1>4, <1>5, <1>6, <1>7, <1>8, <1>9, <1>10 DEF Next, Cycle

(* The outbox, with its claims, locks and deaths, delivers events at least   *)
(* once and in priority order, and acknowledges none before that.            *)
THEOREM OutboxImplementsDelivery == Spec => ImplementsDelivery
  <1>1. Init => Delivery!DInit
    <2> SUFFICES ASSUME Init PROVE Delivery!DInit
      OBVIOUS
    <2>1. Published = {} /\ Acknowledged = {}
      BY DEF Init, Published, Acknowledged
    <2>2. Handled = {}
      BY DEF Init, Handled
    <2> QED
      BY <2>1, <2>2 DEF Delivery!DInit, Published, Handled, Acknowledged
  <1> QED
    BY <1>1, StepRefines, TypeCorrect, ClaimInvariant, HandledInvariant, PTL
       DEF Spec, ImplementsDelivery, Delivery!DSpec
=============================================================================
