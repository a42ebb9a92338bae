--------------------------- MODULE BackOfficeProofs ---------------------------
(***************************************************************************)
(* Proofs about the back office, component by component: Purchasing (what a  *)
(* receipt saw is never more than what is), Transformations (the completed   *)
(* document is its movements), Barcodes (one label, one active row) and      *)
(* StockItemSetup (what was accepted can be moved).                          *)
(***************************************************************************)
EXTENDS Purchasing, Transformations, Barcodes, StockItemSetup, Totals

(* A receipt that commits or rolls back leaves well-typed rows.               *)
LEMMA ReceiveKeepsTypes ==
  ASSUME PurchasingAssumption, TypeOK, NEW c \in Clerk, Receive(c)
  PROVE  TypeOK'
<1> DEFINE v == call[c].view
           r == call[c].of
<1>1. call[c] \in [op : {"receive"}, of : Request, view : View]
  BY DEF TypeOK, Call, Receive, Idle, StatusOp
<1>2. r \in Request /\ v \in View
  BY <1>1
<1>3. Added(v, r) \in [Item -> Nat]
  BY <1>2 DEF Added, TypeOK, PurchasingAssumption
<1>4. call' \in [Clerk -> Call] /\ announced' = announced
  BY DEF Receive, TypeOK, Call
<1>5. CASE Receivable(v, r) /\ receipts' = receipts \cup {r} /\ received' = Added(v, r)
           /\ status' = IF AllReceived(v, r) THEN "RECEIVED" ELSE "PARTIALLY_RECEIVED"
  BY <1>2, <1>3, <1>4, <1>5 DEF TypeOK, Status
<1>6. CASE UNCHANGED <<status, received, receipts>>
  BY <1>4, <1>6 DEF TypeOK
<1> QED
  BY <1>5, <1>6 DEF Receive

(* Only types: statuses are statuses and quantities are never negative.      *)
THEOREM PurchasingTypeCorrect == Spec => []TypeOK
<1>1. Init => TypeOK
  BY DEF Init, TypeOK, Status, Call
<1>2. TypeOK /\ [Next]_vars => TypeOK'
  <2> SUFFICES ASSUME TypeOK, [Next]_vars PROVE TypeOK'
    OBVIOUS
  <2>1. CASE Create
    BY <2>1 DEF Create, TypeOK, Status
  <2>2. ASSUME NEW c \in Clerk, NEW op \in StatusOp, FindOne(c, op) PROVE TypeOK'
    BY <2>2 DEF FindOne, TypeOK, Call
  <2>3. ASSUME NEW c \in Clerk, UpdateStatus(c) PROVE TypeOK'
    BY <2>3 DEF UpdateStatus, TypeOK, Call, Status
  <2>4. ASSUME NEW c \in Clerk, NEW r \in Request, LookUpKey(c, r) PROVE TypeOK'
    BY <2>4 DEF LookUpKey, TypeOK, Call, View
  <2>5. ASSUME NEW c \in Clerk, Receive(c) PROVE TypeOK'
    BY <2>5, ReceiveKeepsTypes, PurchasingAssumption
  <2>6. ASSUME NEW c \in Clerk, Abandon(c) PROVE TypeOK'
    BY <2>6 DEF Abandon, TypeOK, Call
  <2>7. CASE UNCHANGED vars
    BY <2>7 DEF vars, TypeOK
  <2> QED
    BY <2>1, <2>2, <2>3, <2>4, <2>5, <2>6, <2>7 DEF Next
<1> QED
  BY <1>1, <1>2, PTL DEF Spec

-----------------------------------------------------------------------------
(* What a receipt in flight has read is out of date in one direction only:   *)
(* quantities grow, and an order that was open when it was read had been     *)
(* approved.                                                                 *)
Open == {"APPROVED", "PARTIALLY_RECEIVED"}

\* A receipt is under way.
Receiving(c) == call[c].op = "receive"

\* What a receipt has seen is never more than what is.
ViewsLag ==
  \A c \in Clerk : Receiving(c) =>
    /\ \A i \in Item : call[c].view.received[i] <= received[i]
    /\ call[c].view.status \in Open => "approved" \in announced

\* What is open was approved.
OpenWasApproved == status \in Open => "approved" \in announced

\* What a step needs and leaves.
PurchasingInv ==
  /\ TypeOK
  /\ ViewsLag
  /\ OpenWasApproved
  /\ ReceivedIsComplete
  /\ GoodsNeedApproval

(* A receipt keeps the invariant, whichever view of the order it works on.   *)
LEMMA ReceiveKeepsInv ==
  ASSUME PurchasingAssumption, PurchasingInv, TypeOK', NEW c \in Clerk, Receive(c)
  PROVE  PurchasingInv'
<1> DEFINE v == call[c].view
           r == call[c].of
<1>1. call[c] \in [op : {"receive"}, of : Request, view : View]
  BY DEF PurchasingInv, TypeOK, Call, Receive, Idle, StatusOp
<1>2. r \in Request /\ v.status \in Status /\ v.received \in [Item -> Nat]
  BY <1>1 DEF View
<1>3. \A i \in Item : Sum[r][i] \in Nat /\ Ordered[i] \in Nat
  BY <1>2 DEF PurchasingAssumption
<1>4. announced' = announced
  BY DEF Receive
<1>5. \A d \in Clerk : Receiving(d)' => Receiving(d) /\ call'[d] = call[d]
  BY DEF Receive, Receiving, Idle, PurchasingInv, TypeOK
<1>6. \A i \in Item : received[i] \in Nat /\ v.received[i] \in Nat /\ v.received[i] <= received[i]
  BY <1>2 DEF PurchasingInv, TypeOK, ViewsLag, Receiving, Receive
<1>7. CASE /\ Receivable(v, r)
           /\ receipts' = receipts \cup {r}
           /\ received' = Added(v, r)
           /\ status' = IF AllReceived(v, r) THEN "RECEIVED" ELSE "PARTIALLY_RECEIVED"
  <2>1. \A i \in Item : received'[i] = received[i] + Sum[r][i]
    BY <1>7 DEF Added
  <2>2. \A i \in Item : received[i] <= received'[i]
    BY <2>1, <1>3, <1>6
  <2>3. "approved" \in announced
    BY <1>7 DEF Receivable, PurchasingInv, ViewsLag, Receiving, Receive, Open
  <2>4. ViewsLag'
    <3> SUFFICES ASSUME NEW d \in Clerk, Receiving(d)', NEW i \in Item
                 PROVE  call'[d].view.received[i] <= received'[i]
      BY <2>3, <1>4 DEF ViewsLag
    <3>1. Receiving(d) /\ call'[d] = call[d]
      BY <1>5
    <3>2. call[d] \in [op : {"receive"}, of : Request, view : View]
      BY <3>1 DEF PurchasingInv, TypeOK, Call, Receiving, Idle, StatusOp
    <3>3. call[d].view.received[i] \in Nat /\ call[d].view.received[i] <= received[i]
      BY <3>1, <3>2 DEF PurchasingInv, ViewsLag, View
    <3>4. received'[i] \in Nat
      BY <2>1, <1>3, <1>6
    <3> QED
      BY <3>1, <3>3, <3>4, <2>2, <1>6
  <2>5. ReceivedIsComplete'
    <3> SUFFICES ASSUME status' = "RECEIVED", NEW i \in Item PROVE received'[i] >= Ordered[i]
      BY DEF ReceivedIsComplete
    <3>1. v.received[i] + Sum[r][i] >= Ordered[i]
      BY <1>7 DEF AllReceived
    <3> QED
      BY <3>1, <2>1, <1>3, <1>6
  <2> QED
    BY <2>3, <2>4, <2>5, <1>4 DEF PurchasingInv, OpenWasApproved, GoodsNeedApproval
<1>8. CASE UNCHANGED <<status, received, receipts>>
  <2>1. ViewsLag'
    BY <1>4, <1>5, <1>8 DEF PurchasingInv, ViewsLag
  <2> QED
    BY <2>1, <1>4, <1>8 DEF PurchasingInv, OpenWasApproved, ReceivedIsComplete, GoodsNeedApproval
<1> QED
  BY <1>7, <1>8 DEF Receive

(* Every step keeps the invariant.                                           *)
THEOREM PurchasingInvariant == Spec => []PurchasingInv
<1>1. Init => PurchasingInv
  <2> SUFFICES ASSUME Init PROVE PurchasingInv
    OBVIOUS
  <2>1. TypeOK
    BY DEF Init, TypeOK, Status, Call
  <2> QED
    BY <2>1 DEF Init, PurchasingInv, ViewsLag, Receiving, Idle, OpenWasApproved, Open,
                ReceivedIsComplete, GoodsNeedApproval
<1>2. PurchasingInv /\ TypeOK' /\ [Next]_vars => PurchasingInv'
  <2> SUFFICES ASSUME PurchasingInv, TypeOK', [Next]_vars PROVE PurchasingInv'
    OBVIOUS
  <2> USE DEF PurchasingInv
  <2>1. CASE Create
    BY <2>1 DEF Create, ViewsLag, Receiving, OpenWasApproved, Open, ReceivedIsComplete,
                GoodsNeedApproval
  <2>2. ASSUME NEW c \in Clerk, NEW op \in StatusOp, FindOne(c, op) PROVE PurchasingInv'
    <3>1. \A d \in Clerk : Receiving(d)' => Receiving(d) /\ call'[d] = call[d]
      BY <2>2 DEF FindOne, Receiving, TypeOK, StatusOp
    <3> QED
      BY <2>2, <3>1 DEF FindOne, ViewsLag, OpenWasApproved, ReceivedIsComplete,
                        GoodsNeedApproval
  <2>3. ASSUME NEW c \in Clerk, UpdateStatus(c) PROVE PurchasingInv'
    <3>1. \A d \in Clerk : Receiving(d)' => Receiving(d) /\ call'[d] = call[d]
      BY <2>3 DEF UpdateStatus, Receiving, TypeOK, Idle
    <3>2. announced \subseteq announced' /\ received' = received /\ receipts' = receipts
      BY <2>3 DEF UpdateStatus
    <3>3. \/ status' = "APPROVED" /\ "approved" \in announced'
          \/ status' = "CANCELLED"
      BY <2>3 DEF UpdateStatus
    <3> QED
      BY <3>1, <3>2, <3>3 DEF ViewsLag, OpenWasApproved, Open, ReceivedIsComplete,
                              GoodsNeedApproval
  <2>4. ASSUME NEW c \in Clerk, NEW r \in Request, LookUpKey(c, r) PROVE PurchasingInv'
    <3>1. \A d \in Clerk : d # c => call'[d] = call[d]
      BY <2>4 DEF LookUpKey, TypeOK
    <3>2. call'[c].view.status = status /\ call'[c].view.received = received
      BY <2>4 DEF LookUpKey, TypeOK
    <3>3. UNCHANGED <<status, received, receipts, announced>>
      BY <2>4 DEF LookUpKey
    <3>4. \A i \in Item : received[i] <= received[i]
      BY DEF TypeOK
    <3>5. ViewsLag'
      <4> SUFFICES ASSUME NEW d \in Clerk, Receiving(d)'
                   PROVE  /\ \A i \in Item : call'[d].view.received[i] <= received'[i]
                          /\ call'[d].view.status \in Open => "approved" \in announced'
        BY DEF ViewsLag
      <4>1. CASE d = c
        BY <4>1, <3>2, <3>3, <3>4 DEF OpenWasApproved
      <4>2. CASE d # c
        BY <4>2, <3>1, <3>3 DEF ViewsLag, Receiving
      <4> QED
        BY <4>1, <4>2
    <3> QED
      BY <3>3, <3>5 DEF OpenWasApproved, ReceivedIsComplete, GoodsNeedApproval
  <2>5. ASSUME NEW c \in Clerk, Receive(c) PROVE PurchasingInv'
    BY <2>5, ReceiveKeepsInv, PurchasingAssumption
  <2>6. ASSUME NEW c \in Clerk, Abandon(c) PROVE PurchasingInv'
    <3>1. \A d \in Clerk : Receiving(d)' => Receiving(d) /\ call'[d] = call[d]
      BY <2>6 DEF Abandon, Receiving, TypeOK, Idle
    <3> QED
      BY <2>6, <3>1 DEF Abandon, ViewsLag, OpenWasApproved, ReceivedIsComplete,
                        GoodsNeedApproval
  <2>7. CASE UNCHANGED vars
    BY <2>7 DEF vars, ViewsLag, Receiving, OpenWasApproved, ReceivedIsComplete,
                GoodsNeedApproval
  <2> QED
    BY <2>1, <2>2, <2>3, <2>4, <2>5, <2>6, <2>7 DEF Next
<1> QED
  BY <1>1, <1>2, PurchasingTypeCorrect, PTL DEF Spec

(* RECEIVED orders have all their goods, however late the status was written. *)
THEOREM ReceivedOrdersAreComplete == Spec => []ReceivedIsComplete
<1>1. PurchasingInv => ReceivedIsComplete
  BY DEF PurchasingInv
<1> QED
  BY <1>1, PurchasingInvariant, PTL

(* No goods without an approval.                                             *)
THEOREM ReceiptsFollowApproval == Spec => []GoodsNeedApproval
<1>1. PurchasingInv => GoodsNeedApproval
  BY DEF PurchasingInv
<1> QED
  BY <1>1, PurchasingInvariant, PTL

-----------------------------------------------------------------------------
(* The sum of the receipts.  It is a recursion over the set of receipts, and *)
(* the lemmas of Totals speak of it once it is the total of a function.      *)
ForLine(i) == [r \in Request |-> Sum[r][i]]

\* g sums the quantities of item i over receipts.
OnReceipts(g, i, S) == g = [s \in SUBSET S |-> IF s = {} THEN 0
                                               ELSE Sum[Pick(s)][i] + g[s \ {Pick(s)}]]

\* The sum over receipts, with one receipt more.
LEMMA SumOfReceipts ==
  ASSUME PurchasingAssumption, NEW i \in Item, NEW S \in SUBSET Request, IsFiniteSet(S)
  PROVE  MapThenSumSet(LAMBDA r : Sum[r][i], S) = SumOf(ForLine(i), S)
<1>1. \A g : IsSum(g, ForLine(i), SUBSET S) <=> OnReceipts(g, i, S)
  BY PickIn DEF IsSum, OnReceipts, ForLine
<1> DEFINE G == CHOOSE g : OnReceipts(g, i, S)
<1>2. OnReceipts(G, i, S)
  BY <1>1, SumExists
<1>3. Adds(G, ForLine(i), S)
  BY <1>1, <1>2 DEF Adds
<1>4. MapThenSumSet(LAMBDA r : Sum[r][i], S) = G[S]
  BY DEF MapThenSumSet, MapThenFoldSet, OnReceipts, Pick
<1> QED
  BY <1>3, <1>4, TotalIs

\* What a step needs and leaves of receipts.
ReceiptsInv ==
  /\ IsFiniteSet(receipts)
  /\ \A i \in Item : received[i] = SumOf(ForLine(i), receipts)

(* What the order says was received is what its receipts say, whoever sends  *)
(* them, twice or at once (GoodsReceiptsService.create).                     *)
THEOREM ReceivedIsWhatReceiptsSay == Spec => []ReceivedMatchesReceipts
<1>1. Init => ReceiptsInv
  BY FS_EmptySet, TotalOfNone DEF Init, ReceiptsInv
<1>2. TypeOK /\ ReceiptsInv /\ [Next]_vars => ReceiptsInv'
  <2> SUFFICES ASSUME TypeOK, ReceiptsInv, [Next]_vars PROVE ReceiptsInv'
    OBVIOUS
  <2>1. CASE UNCHANGED <<received, receipts>>
    BY <2>1 DEF ReceiptsInv
  <2>2. ASSUME NEW c \in Clerk, Receive(c), ~UNCHANGED <<received, receipts>>
        PROVE  ReceiptsInv'
    <3> DEFINE r == call[c].of
    <3>1. r \in Request
      BY <2>2 DEF Receive, TypeOK, Call, Idle, StatusOp
    <3>2. r \notin receipts /\ receipts' = receipts \cup {r} /\ receipts \subseteq Request
      BY <2>2 DEF Receive, Receivable, TypeOK
    <3>3. received' = [i \in Item |-> received[i] + Sum[r][i]]
      BY <2>2 DEF Receive, Added
    <3> HIDE DEF r
    <3>4. IsFiniteSet(receipts) /\ IsFiniteSet(receipts')
      BY <3>2, FS_AddElement DEF ReceiptsInv
    <3>5. ASSUME NEW i \in Item PROVE received'[i] = SumOf(ForLine(i), receipts')
      <4>1. IntegersOn(ForLine(i), receipts \cup {r}) /\ ForLine(i)[r] = Sum[r][i]
        BY <3>1, <3>2, PurchasingAssumption DEF IntegersOn, ForLine, PurchasingAssumption
      <4>2. SumOf(ForLine(i), receipts') = ForLine(i)[r] + SumOf(ForLine(i), receipts)
        BY <3>2, <3>4, <4>1, TotalAdds
      <4>3. received[i] \in Nat /\ Sum[r][i] \in Nat
        BY <3>1, PurchasingAssumption DEF TypeOK, PurchasingAssumption
      <4> QED
        BY <3>3, <4>1, <4>2, <4>3 DEF ReceiptsInv
    <3> QED
      BY <3>4, <3>5 DEF ReceiptsInv
  <2> QED
    BY <2>1, <2>2 DEF Next, Create, FindOne, UpdateStatus, LookUpKey, Abandon, vars
<1>3. TypeOK /\ ReceiptsInv => ReceivedMatchesReceipts
  BY SumOfReceipts, PurchasingAssumption DEF TypeOK, ReceiptsInv, ReceivedMatchesReceipts
<1>4. Spec => []ReceiptsInv
  BY <1>1, <1>2, PurchasingTypeCorrect, PTL DEF Spec
<1> QED
  BY <1>3, <1>4, PurchasingTypeCorrect, PTL

-----------------------------------------------------------------------------
\* What a step needs and leaves: a row without notes has moved nothing.
XfInv ==
  /\ MovedAsShown
  /\ \A t \in Transformation : notes[t] = <<"none">> => moved[t] = 0

\* u is what the first n lines of `line` leave of the units b.
LineSums(u, line, b, m) ==
  u = [n \in 0..m |-> IF n = 0 THEN b ELSE [u[n - 1] EXCEPT ![line[n].bin] = @ + line[n].change]]

\* There is such a function.  For a least m without one, that of m - 1 would extend to m.
LEMMA LineSumsExist ==
  ASSUME NEW line, NEW b, NEW k \in Nat
  PROVE  \E u : LineSums(u, line, b, k)
  <1> DEFINE Bad == {m \in Nat : ~ \E u : LineSums(u, line, b, m)}
  <1>1. ASSUME NEW m \in Bad, \A l \in Bad : ~ (l < m) PROVE FALSE
    <2>1. CASE m = 0
      <3> DEFINE u == [n \in 0..0 |-> b]
      <3>1. \A n \in 0..0 : n = 0
        OBVIOUS
      <3>2. LineSums(u, line, b, 0)
        BY <3>1 DEF LineSums
      <3> QED
        BY <2>1, <3>2
    <2>2. CASE m # 0
      <3>1. m - 1 \in Nat /\ m - 1 < m
        BY <2>2
      <3>2. PICK v : LineSums(v, line, b, m - 1)
        BY <1>1, <3>1
      <3> DEFINE u == [n \in 0..m |->
                        IF n = 0 THEN b ELSE [v[n - 1] EXCEPT ![line[n].bin] = @ + line[n].change]]
      <3>3. ASSUME NEW n \in 0..(m - 1) PROVE u[n] = v[n]
        <4>1. v[n] = IF n = 0 THEN b ELSE [v[n - 1] EXCEPT ![line[n].bin] = @ + line[n].change]
          BY <3>2 DEF LineSums
        <4>2. n \in 0..m
          BY <3>1
        <4> QED
          BY <4>1, <4>2
      <3>4. ASSUME NEW n \in 0..m, n # 0 PROVE u[n - 1] = v[n - 1]
        <4>1. n - 1 \in 0..(m - 1)
          BY <3>1, <3>4
        <4> HIDE DEF u
        <4> QED
          BY <3>3, <4>1
      <3>5. \A n \in 0..m : u[n] = IF n = 0 THEN b
                                   ELSE [u[n - 1] EXCEPT ![line[n].bin] = @ + line[n].change]
        BY <3>4
      <3>6. LineSums(u, line, b, m)
        BY <3>5 DEF LineSums
      <3> QED
        BY <3>6
    <2> QED
      BY <2>1, <2>2
  <1>2. Bad = {}
    BY <1>1, LeastNat
  <1> QED
    BY <1>2

\* Units stay integers along the lines of a transformation.
LEMMA UnitsAfter ==
  ASSUME TransformationsAssumption, XfTypeOK, NEW t \in Transformation
  PROVE  \A n \in 0..Len(Line[t]) : After(t)[n] \in [StockBin -> Int]
  <1>1. /\ Line[t] \in Seq([bin : StockBin, change : {-1, 1}]) /\ Len(Line[t]) \in Nat
        /\ \A n \in 1..Len(Line[t]) : Line[t][n].bin \in StockBin /\ Line[t][n].change \in Int
    <2>1. Line[t] \in Seq([bin : StockBin, change : {-1, 1}])
      BY DEF TransformationsAssumption
    <2>2. Len(Line[t]) \in Nat /\ \A n \in 1..Len(Line[t]) : Line[t][n] \in [bin : StockBin, change : {-1, 1}]
      <3>1. \A S : \A s \in Seq(S) : Len(s) \in Nat /\ \A n \in 1..Len(s) : s[n] \in S
        OBVIOUS
      <3> QED
        BY <2>1, <3>1
    <2>3. \A x \in [bin : StockBin, change : {-1, 1}] : x.bin \in StockBin /\ x.change \in Int
      OBVIOUS
    <2> QED
      BY <2>1, <2>2, <2>3
  <1>2. LineSums(After(t), Line[t], binStock, Len(Line[t]))
    <2>1. \E u : LineSums(u, Line[t], binStock, Len(Line[t]))
      BY <1>1, LineSumsExist
    <2> QED
      BY <2>1 DEF After, LineSums
  <1> DEFINE Bad == {n \in 0..Len(Line[t]) : After(t)[n] \notin [StockBin -> Int]}
  <1>3. ASSUME NEW n \in Bad, \A m \in Bad : ~ (m < n) PROVE FALSE
    <2>1. n # 0
      BY <1>2 DEF LineSums, XfTypeOK
    <2>2. n - 1 \in 0..Len(Line[t]) /\ n - 1 < n /\ n \in 1..Len(Line[t])
      BY <1>1, <2>1
    <2>3. After(t)[n - 1] \in [StockBin -> Int]
      BY <1>3, <2>2
    <2>4. After(t)[n] = [After(t)[n - 1] EXCEPT ![Line[t][n].bin] = @ + Line[t][n].change]
      BY <1>2, <2>1 DEF LineSums
    <2>5. \A f \in [StockBin -> Int], c \in StockBin, d \in Int : [f EXCEPT ![c] = @ + d] \in [StockBin -> Int]
      OBVIOUS
    <2>6. After(t)[n] \in [StockBin -> Int]
      <3>1. PICK f \in [StockBin -> Int] : f = After(t)[n - 1]
        BY <2>3
      <3>2. PICK c \in StockBin, d \in Int : c = Line[t][n].bin /\ d = Line[t][n].change
        BY <1>1, <2>2
      <3>3. After(t)[n] = [f EXCEPT ![c] = @ + d]
        BY <2>4, <3>1, <3>2
      <3> QED
        BY <2>5, <3>3
    <2> QED
      BY <2>6
  <1>4. Bad = {}
    <2>1. Bad \in SUBSET Nat
      OBVIOUS
    <2> QED
      BY <1>3, <2>1, LeastNat
  <1> QED
    BY <1>4

\* Two sequences of one element make a pair.
LEMMA OneAndOne == ASSUME NEW a, NEW b PROVE <<a>> \o <<b>> = <<a, b>>
  <1>1. <<a>> \in Seq({a, b}) /\ <<b>> \in Seq({a, b}) /\ <<a, b>> \in Seq({a, b})
    OBVIOUS
  <1>2. <<a>> \o <<b>> \in Seq({a, b}) /\ Len(<<a>> \o <<b>>) = 2
    BY <1>1
  <1>3. (<<a>> \o <<b>>)[1] = a /\ (<<a>> \o <<b>>)[2] = b
    BY <1>1, <1>2
  <1>4. Len(<<a, b>>) = 2 /\ <<a, b>>[1] = a /\ <<a, b>>[2] = b
    OBVIOUS
  <1>5. ASSUME NEW s \in Seq({a, b}), NEW t \in Seq({a, b}),
               Len(s) = 2, Len(t) = 2, s[1] = t[1], s[2] = t[2]
        PROVE  s = t
    <2>1. \A i \in 1..2 : s[i] = t[i]
      BY <1>5
    <2>2. s \in [1..2 -> {a, b}] /\ t \in [1..2 -> {a, b}]
      BY <1>5
    <2> QED
      BY <2>1, <2>2
  <1> QED
    BY ONLY <1>1, <1>2, <1>3, <1>4, <1>5

\* What the notes of a row say after they were cleaned or marked.
LEMMA Notes ==
  ASSUME NEW tags \in Given
  PROVE  /\ tags # <<"none">>
         /\ Clean(tags) \in Given
         /\ Len(tags) <= 1 => Clean(tags) = <<>>
         /\ \A state \in Tag : Marked(tags, state) \in Given /\ Tagged(Marked(tags, state), state)
         /\ Tagged(tags, "CANCELLED") => ~Tagged(tags, "EXECUTED")
  <1>1. CASE tags = <<>>
    <2>1. Clean(tags) = <<>> /\ \A state \in Tag : Marked(tags, state) = <<state>>
      BY <1>1 DEF Clean, Marked
    <2> QED
      BY <1>1, <2>1 DEF Given, Tagged, Tag
  <1>2. ASSUME NEW a \in Tag, tags = <<a>>
        PROVE  /\ tags # <<"none">> /\ Clean(tags) = <<>>
               /\ \A state \in Tag : Marked(tags, state) = <<state>>
               /\ Tagged(tags, "CANCELLED") => ~Tagged(tags, "EXECUTED")
    BY <1>2 DEF Clean, Marked, Tag, Tagged
  <1>3. ASSUME NEW a \in Tag, NEW b \in Tag, tags = <<a, b>>
        PROVE  /\ tags # <<"none">> /\ Clean(tags) = <<b>> /\ Len(tags) = 2
               /\ \A state \in Tag : Marked(tags, state) = <<state, b>>
               /\ Tagged(tags, "CANCELLED") => ~Tagged(tags, "EXECUTED")
    <2>1. tags # <<"none">> /\ tags # <<>> /\ Len(tags) = 2 /\ Head(tags) = a
      BY <1>3
    <2>2. Tail(tags) = <<b>>
      BY <1>3
    <2>3. \A state \in Tag : <<state>> \o <<b>> = <<state, b>>
      BY OneAndOne
    <2> QED
      BY <2>1, <2>2, <2>3 DEF Clean, Marked, Tagged
  <1>4. \A state \in Tag : /\ <<state>> # <<>> /\ Head(<<state>>) = state
                           /\ \A b \in Tag : <<state, b>> # <<>> /\ Head(<<state, b>>) = state
    OBVIOUS
  <1> QED
    BY <1>1, <1>2, <1>3, <1>4 DEF Given, Tagged

\* What the notes show of a row, if only its notes, its moves or its history change.
LEMMA OneRowIsShown ==
  ASSUME TransformationsAssumption, XfInv, NEW t \in Transformation, NEW tags \in Given,
         notes' = [notes EXCEPT ![t] = tags], XfTypeOK', retagged \subseteq retagged',
         \A s \in Transformation : s # t => moved'[s] = moved[s],
         moved'[t] \in {0, Len(Line[t])},
         t \notin retagged' => (Tagged(tags, "EXECUTED") <=> moved'[t] > 0)
  PROVE  XfInv'
  <1>1. \A s \in Transformation : notes'[s] = IF s = t THEN tags ELSE notes[s]
    BY DEF XfInv, MovedAsShown, XfTypeOK
  <1>2. tags # <<"none">>
    BY Notes
  <1>3. \A s \in Transformation : s # t =>
          /\ moved[s] \in {0, Len(Line[s])}
          /\ s \notin retagged => (Tagged(notes[s], "EXECUTED") <=> moved[s] > 0)
          /\ notes[s] = <<"none">> => moved[s] = 0
    BY DEF XfInv, MovedAsShown
  <1>4. \A s \in Transformation :
          /\ moved'[s] \in {0, Len(Line[s])}
          /\ s \notin retagged' => (Tagged(notes'[s], "EXECUTED") <=> moved'[s] > 0)
          /\ notes'[s] = <<"none">> => moved'[s] = 0
    BY <1>1, <1>2, <1>3
  <1> QED
    BY <1>4 DEF XfInv, MovedAsShown, Tagged

\* A row is created with one tag taken from its notes.
LEMMA CreateTransformationStep ==
  ASSUME TransformationsAssumption, XfInv, NEW t \in Transformation, NEW given \in Given,
         CreateTransformation(t, given)
  PROVE  XfInv'
  <1>1. /\ Clean(given) \in Given /\ notes' = [notes EXCEPT ![t] = Clean(given)]
        /\ UNCHANGED <<moved, binStock, cancelling>> /\ moved[t] = 0
        /\ retagged' = IF Len(given) > 1 THEN retagged \cup {t} ELSE retagged
    BY Notes DEF CreateTransformation, XfInv
  <1>2. XfTypeOK'
    BY <1>1 DEF XfInv, MovedAsShown, XfTypeOK
  <1>3. Len(given) \in Nat
    BY DEF Given
  <1>4. t \notin retagged' => Clean(given) = <<>>
    BY <1>1, <1>3, Notes
  <1>5. ~Tagged(<<>>, "EXECUTED")
    BY DEF Tagged
  <1>6. moved'[t] \in {0, Len(Line[t])} /\ ~(moved'[t] > 0) /\ retagged \subseteq retagged'
    BY <1>1
  <1>7. t \notin retagged' => (Tagged(Clean(given), "EXECUTED") <=> moved'[t] > 0)
    BY <1>4, <1>5, <1>6
  <1> QED
    BY <1>1, <1>2, <1>6, <1>7, OneRowIsShown

\* An execution moves every line, of a row that has moved none.
LEMMA ExecuteStep ==
  ASSUME TransformationsAssumption, XfInv, NEW t \in Transformation, ExecuteTransformation(t)
  PROVE  XfInv'
  <1>1. /\ XfTypeOK /\ notes[t] \in Given /\ moved[t] = 0
        /\ Line[t] \in Seq([bin : StockBin, change : {-1, 1}]) /\ Line[t] # <<>>
    BY DEF XfInv, MovedAsShown, XfTypeOK, ExecuteTransformation, MayExecute, TransformationsAssumption
  <1>2. Len(Line[t]) \in Nat /\ Len(Line[t]) > 0
    BY <1>1
  <1>3. PICK tags \in Given : tags = Marked(notes[t], "EXECUTED") /\ Tagged(tags, "EXECUTED")
    BY <1>1, Notes DEF Tag
  <1>4. /\ notes' = [notes EXCEPT ![t] = tags] /\ UNCHANGED <<cancelling, retagged>>
        /\ moved' = [moved EXCEPT ![t] = Len(Line[t])] /\ binStock' = After(t)[Len(Line[t])]
    BY <1>1, <1>2, <1>3 DEF ExecuteTransformation, XfTypeOK
  <1>5. binStock' \in [StockBin -> Nat]
    <2>1. \A b \in StockBin : After(t)[Len(Line[t])][b] >= 0
      BY <1>1, <1>2 DEF ExecuteTransformation
    <2>2. After(t)[Len(Line[t])] \in [StockBin -> Int]
      <3>1. Len(Line[t]) \in 0..Len(Line[t])
        BY <1>2
      <3> QED
        BY <1>1, <3>1, UnitsAfter
    <2> HIDE DEF After
    <2> QED
      BY <1>4, <2>1, <2>2
  <1>6. XfTypeOK'
    BY <1>1, <1>2, <1>4, <1>5 DEF XfTypeOK
  <1>7. moved'[t] = Len(Line[t]) /\ \A s \in Transformation : s # t => moved'[s] = moved[s]
    BY <1>1, <1>4 DEF XfTypeOK
  <1> QED
    BY <1>2, <1>3, <1>4, <1>6, <1>7, OneRowIsShown

\* A cancellation writes the tag CANCELLED over whatever it has read.
LEMMA CancelWritesStep ==
  ASSUME TransformationsAssumption, XfInv, NEW w \in Canceller, CancelWrites(w)
  PROVE  XfInv'
  <1>1. PICK t, read : t = cancelling[w].of /\ read = cancelling[w].notes
    OBVIOUS
  <1>2. XfTypeOK /\ t \in Transformation /\ read \in Given
    BY <1>1 DEF XfInv, MovedAsShown, XfTypeOK, CancelWrites
  <1>3. PICK tags \in Given :
          /\ tags = IF Tagged(read, "CANCELLED") THEN read ELSE Marked(read, "CANCELLED")
          /\ Tagged(tags, "CANCELLED")
    BY <1>2, Notes DEF Tag
  <1>4. /\ notes' = [notes EXCEPT ![t] = tags]
        /\ retagged' = IF moved[t] > 0 THEN retagged \cup {t} ELSE retagged
        /\ cancelling' = [cancelling EXCEPT ![w] = NoCancel] /\ UNCHANGED <<moved, binStock>>
    BY <1>1, <1>3 DEF CancelWrites
  <1>5. XfTypeOK'
    BY <1>2, <1>4 DEF XfTypeOK
  <1>6. ~Tagged(tags, "EXECUTED") /\ moved[t] \in {0, Len(Line[t])}
    BY <1>2, <1>3, Notes DEF XfInv, MovedAsShown
  <1> QED
    BY <1>2, <1>4, <1>5, <1>6, OneRowIsShown

\* The reads of a cancellation, and a crash before it writes, change no row.
LEMMA CancelReadsSteps ==
  ASSUME XfInv, NEW w \in Canceller,
         CancelLooks(w) \/ CrashCancel(w) \/ \E t \in Transformation : CancelReads(w, t)
  PROVE  XfInv'
  <1>1. UNCHANGED <<notes, moved, binStock, retagged>>
    BY DEF CancelLooks, CrashCancel, CancelReads
  <1>2. cancelling' \in [Canceller -> {NoCancel} \cup [of : Transformation, notes : Given, looked : BOOLEAN]]
    <2>1. XfTypeOK
      BY DEF XfInv, MovedAsShown
    <2>2. ASSUME NEW t \in Transformation, CancelReads(w, t)
          PROVE  [of |-> t, notes |-> notes[t], looked |-> FALSE]
                   \in [of : Transformation, notes : Given, looked : BOOLEAN]
      BY <2>1, <2>2 DEF CancelReads, XfTypeOK
    <2>3. CASE CancelLooks(w)
      BY <2>1, <2>3 DEF XfTypeOK, CancelLooks
    <2>4. CASE CrashCancel(w)
      BY <2>1, <2>4 DEF XfTypeOK, CrashCancel
    <2> QED
      BY <2>1, <2>2, <2>3, <2>4 DEF XfTypeOK, CancelReads
  <1> QED
    BY <1>1, <1>2 DEF XfInv, MovedAsShown, XfTypeOK, Tagged

(* However executions and cancellations interleave, a transformation moves    *)
(* its lines at most once and shows EXECUTED if and only if it has, but for a *)
(* row that was given two tags or was executed within a cancellation          *)
(* (executeTransformation, cancelTransformation).                             *)
THEOREM TransformationsShowTheirMoves == XfSpec => []MovedAsShown
  <1> USE TransformationsAssumption
  <1>1. XfInit => XfInv
    BY DEF XfInit, XfInv, MovedAsShown, XfTypeOK, TransformationsAssumption, Tagged, Given
  <1>2. XfInv /\ [XfNext]_xfVars => XfInv'
    <2> SUFFICES ASSUME XfInv, [XfNext]_xfVars PROVE XfInv'
      OBVIOUS
    <2>1. CASE UNCHANGED xfVars
      <3>1. UNCHANGED <<notes, moved, binStock, cancelling, retagged>>
        BY <2>1 DEF xfVars
      <3> QED
        BY <3>1 DEF XfInv, MovedAsShown, XfTypeOK, Tagged
    <2>2. CASE XfNext
      BY <2>2, CreateTransformationStep, ExecuteStep, CancelWritesStep, CancelReadsSteps DEF XfNext
    <2> QED
      BY <2>1, <2>2
  <1>3. XfInv => MovedAsShown
    BY DEF XfInv
  <1> QED
    BY <1>1, <1>2, <1>3, PTL DEF XfSpec

-----------------------------------------------------------------------------
\* The steps of a call that are written out where it begins.
Promote(o, r) == [do |-> "promote", owner |-> o, row |-> r]
Demote(o, r) == [do |-> "demote", owner |-> o, row |-> r]
Wake(o, r) == [do |-> "wake", owner |-> o, row |-> r]
Put(o, r, c, primary) == [do |-> "write", owner |-> o, row |-> r, code |-> c, primary |-> primary]

\* Where o may have one active barcode only, there is none but those of S.
Vacant(o, S) == o \notin mixed /\ o \in Single => Active(o) \subseteq S

\* What a call on the rows of o has still to do, and what its past steps have seen to.
Registering(doing, o) ==
  \E c \in ScanCode, primary \in BOOLEAN :
    \/ doing = <<Check(o, {}), Enter(o, c, primary)>>
    \/ doing = <<Enter(o, c, primary)>> /\ Vacant(o, {})
Promoting(doing, o) ==
  \E r \in Label :
    /\ doing = <<Promote(o, r)>> /\ Known(r) /\ Vacant(o, {r})
    /\ label[r].owner = o \/ (o \in mixed /\ label[r].owner \in mixed)
Waking(doing, o) ==
  \E r \in Owned(o) :
    \/ doing = <<Check(o, {r}), Wake(o, r)>>
    \/ doing = <<Wake(o, r)>> /\ Vacant(o, {r})
Writing(doing, o) ==
  \E r \in Owned(o), c \in ScanCode, primary \in BOOLEAN :
    \/ doing = <<Demote(o, r), Put(o, r, c, primary)>> /\ primary
    \/ doing = <<Put(o, r, c, primary)>> /\ (o \notin mixed /\ primary => Primary(o) \subseteq {r})
InOrder(doing, o) ==
  Registering(doing, o) \/ Promoting(doing, o) \/ Waking(doing, o) \/ Writing(doing, o)

\* No two elements: one active row at most.
OneActive(S) == \A r, q \in S : r = q

\* A call that is about to promote the row it has entered.
Entered(doing) == doing # <<>> /\ Head(doing).do = "promote"

\* What an owner has whose calls were not mixed.
Clear(o) ==
  /\ OneActive(Primary(o)) \/ \E w \in LabelClerk : InOrder(labelCall[w], o) /\ Entered(labelCall[w])
  /\ o \in Single => OneActive(Active(o))
  /\ \A v, w \in LabelClerk : InOrder(labelCall[v], o) /\ InOrder(labelCall[w], o) => v = w

\* What a step needs and leaves.
BarcodesInv ==
  /\ BarcodesTypeOK
  /\ \A c \in ScanCode : OneActive(WithCode(c))
  /\ \A w \in LabelClerk : labelCall[w] = <<>> \/ \E o \in LabelOwner : InOrder(labelCall[w], o)
  /\ \A o \in LabelOwner \ mixed : Clear(o)

\* A set without two elements has a cardinality of one at most.
LEMMA OneActiveCounts ==
  ASSUME NEW S, OneActive(S)
  PROVE  Cardinality(S) <= 1
  BY AtMostOne DEF OneActive

\* Sequences of one and of two steps.
LEMMA ShortCalls ==
  ASSUME NEW S, NEW a \in S, NEW b \in S
  PROVE  /\ <<a>> # <<>> /\ <<a, b>> # <<>>
         /\ Head(<<a>>) = a /\ Tail(<<a>>) = <<>> /\ Head(<<a, b>>) = a /\ Tail(<<a, b>>) = <<b>>
         /\ <<a>> \in Seq(S) /\ <<a, b>> \in Seq(S)
         /\ DOMAIN <<a>> = {1} /\ DOMAIN <<a, b>> = {1, 2}
         /\ <<a>>[1] = a /\ <<a, b>>[1] = a /\ <<a, b>>[2] = b
  OBVIOUS

\* Rows that are there, and their owners.
LEMMA LabelTypes ==
  ASSUME BarcodesAssumption, BarcodesTypeOK
  PROVE  /\ label \in [Label -> {NoLabel} \cup LabelRow] /\ mixed \in SUBSET LabelOwner
         /\ \A r \in Label : Known(r) <=> label[r].owner \in LabelOwner
         /\ \A r \in Label : Known(r) => label[r] \in LabelRow
         /\ \A r \in Label : ~Known(r) => label[r].owner = "none"
         /\ \A o \in LabelOwner : /\ Owned(o) \subseteq Label /\ Active(o) \subseteq Owned(o) /\ Primary(o) \subseteq Owned(o)
                                  /\ \A r \in Owned(o) : Known(r) /\ label[r].owner = o
  <1>1. NoLabel.owner = "none" /\ NoLabel.owner \notin LabelOwner /\ \A x \in LabelRow : x.owner \in LabelOwner
    BY DEF NoLabel, LabelRow, BarcodesAssumption
  <1>2. label \in [Label -> {NoLabel} \cup LabelRow] /\ mixed \in SUBSET LabelOwner
    BY DEF BarcodesTypeOK
  <1>3. \A r \in Label : /\ Known(r) <=> label[r].owner \in LabelOwner
                         /\ Known(r) => label[r] \in LabelRow
                         /\ ~Known(r) => label[r].owner = "none"
    BY <1>1, <1>2 DEF Known
  <1> QED
    BY <1>2, <1>3 DEF Owned, Active, Primary

\* The shape of a call: its steps are of one owner, and what the first one and the rest are.
LEMMA CallShape ==
  ASSUME BarcodesAssumption, BarcodesTypeOK, NEW o \in LabelOwner, NEW doing, InOrder(doing, o)
  PROVE  /\ doing # <<>> /\ doing \in Seq(LabelStep) /\ Head(doing).owner = o
         /\ \A i \in DOMAIN doing : doing[i].owner = o
         /\ 1 \in DOMAIN doing
         /\ Head(doing).do \in {"check", "register", "promote", "demote", "wake", "write"}
         /\ Head(doing).do = "check" =>
              \/ \E c \in ScanCode, primary \in BOOLEAN : Head(doing).except = {} /\ Tail(doing) = <<Enter(o, c, primary)>>
              \/ \E r \in Owned(o) : Head(doing).except = {r} /\ Tail(doing) = <<Wake(o, r)>>
         /\ Head(doing).do = "register" =>
              /\ Vacant(o, {}) /\ Head(doing).code \in ScanCode /\ Head(doing).primary \in BOOLEAN
         /\ Head(doing).do = "promote" =>
              /\ Head(doing).row \in Label /\ Known(Head(doing).row) /\ Vacant(o, {Head(doing).row}) /\ Tail(doing) = <<>>
              /\ label[Head(doing).row].owner = o \/ (o \in mixed /\ label[Head(doing).row].owner \in mixed)
         /\ Head(doing).do = "wake" => Head(doing).row \in Owned(o) /\ Vacant(o, {Head(doing).row}) /\ Tail(doing) = <<>>
         /\ Head(doing).do = "demote" =>
              /\ Head(doing).row \in Owned(o)
              /\ \E c \in ScanCode : Tail(doing) = <<Put(o, Head(doing).row, c, TRUE)>>
         /\ Head(doing).do = "write" =>
              /\ Head(doing).row \in Owned(o) /\ Head(doing).code \in ScanCode /\ Head(doing).primary \in BOOLEAN
              /\ o \notin mixed /\ Head(doing).primary => Primary(o) \subseteq {Head(doing).row}
              /\ Tail(doing) = <<>>
  <1>0. Owned(o) \subseteq Label
    BY LabelTypes
  <1>1. ASSUME NEW c \in ScanCode, NEW primary \in BOOLEAN, doing = <<Check(o, {}), Enter(o, c, primary)>>
        PROVE  /\ doing # <<>> /\ doing \in Seq(LabelStep) /\ 1 \in DOMAIN doing /\ \A i \in DOMAIN doing : doing[i].owner = o
               /\ Head(doing).owner = o /\ Head(doing).do = "check" /\ Head(doing).except = {} /\ Tail(doing) = <<Enter(o, c, primary)>>
    <2>1. PICK a \in LabelStep, b \in LabelStep : a = Check(o, {}) /\ b = Enter(o, c, primary)
      BY DEF Check, Enter, LabelStep
    <2>2. a.do = "check" /\ a.owner = o /\ a.except = {} /\ b.owner = o
      BY <2>1 DEF Check, Enter
    <2>3. doing = <<a, b>>
      BY <1>1, <2>1
    <2>4. /\ <<a, b>> # <<>> /\ Head(<<a, b>>) = a /\ Tail(<<a, b>>) = <<b>> /\ <<a, b>> \in Seq(LabelStep)
          /\ DOMAIN <<a, b>> = {1, 2} /\ <<a, b>>[1] = a /\ <<a, b>>[2] = b
      BY ShortCalls
    <2>5. \A i \in {1, 2} : <<a, b>>[i].owner = o
      BY <2>2, <2>4
    <2> QED
      BY <2>1, <2>2, <2>3, <2>4, <2>5
  <1>2. ASSUME NEW c \in ScanCode, NEW primary \in BOOLEAN, doing = <<Enter(o, c, primary)>>
        PROVE  /\ doing # <<>> /\ doing \in Seq(LabelStep) /\ 1 \in DOMAIN doing /\ \A i \in DOMAIN doing : doing[i].owner = o
               /\ Head(doing).owner = o /\ Head(doing).do = "register" /\ Head(doing).code = c /\ Head(doing).primary = primary
    <2>1. PICK a \in LabelStep : a = Enter(o, c, primary)
      BY DEF Enter, LabelStep
    <2>2. a.do = "register" /\ a.owner = o /\ a.code = c /\ a.primary = primary
      BY <2>1 DEF Enter
    <2> QED
      BY <1>2, <2>1, <2>2, ShortCalls
  <1>3. ASSUME NEW r \in Label, doing = <<Promote(o, r)>>
        PROVE  /\ doing # <<>> /\ doing \in Seq(LabelStep) /\ 1 \in DOMAIN doing /\ \A i \in DOMAIN doing : doing[i].owner = o
               /\ Head(doing).owner = o /\ Head(doing).do = "promote" /\ Head(doing).row = r /\ Tail(doing) = <<>>
    <2>1. PICK a \in LabelStep : a = Promote(o, r)
      BY DEF Promote, LabelStep
    <2>2. a.do = "promote" /\ a.owner = o /\ a.row = r
      BY <2>1 DEF Promote
    <2> QED
      BY <1>3, <2>1, <2>2, ShortCalls
  <1>4. ASSUME NEW r \in Label, doing = <<Check(o, {r}), Wake(o, r)>>
        PROVE  /\ doing # <<>> /\ doing \in Seq(LabelStep) /\ 1 \in DOMAIN doing /\ \A i \in DOMAIN doing : doing[i].owner = o
               /\ Head(doing).owner = o /\ Head(doing).do = "check" /\ Head(doing).except = {r} /\ Tail(doing) = <<Wake(o, r)>>
    <2>1. PICK a \in LabelStep, b \in LabelStep : a = Check(o, {r}) /\ b = Wake(o, r)
      BY DEF Check, Wake, LabelStep
    <2>2. a.do = "check" /\ a.owner = o /\ a.except = {r} /\ b.owner = o
      BY <2>1 DEF Check, Wake
    <2>3. doing = <<a, b>>
      BY <1>4, <2>1
    <2>4. /\ <<a, b>> # <<>> /\ Head(<<a, b>>) = a /\ Tail(<<a, b>>) = <<b>> /\ <<a, b>> \in Seq(LabelStep)
          /\ DOMAIN <<a, b>> = {1, 2} /\ <<a, b>>[1] = a /\ <<a, b>>[2] = b
      BY ShortCalls
    <2>5. \A i \in {1, 2} : <<a, b>>[i].owner = o
      BY <2>2, <2>4
    <2> QED
      BY <2>1, <2>2, <2>3, <2>4, <2>5
  <1>5. ASSUME NEW r \in Label, doing = <<Wake(o, r)>>
        PROVE  /\ doing # <<>> /\ doing \in Seq(LabelStep) /\ 1 \in DOMAIN doing /\ \A i \in DOMAIN doing : doing[i].owner = o
               /\ Head(doing).owner = o /\ Head(doing).do = "wake" /\ Head(doing).row = r /\ Tail(doing) = <<>>
    <2>1. PICK a \in LabelStep : a = Wake(o, r)
      BY DEF Wake, LabelStep
    <2>2. a.do = "wake" /\ a.owner = o /\ a.row = r
      BY <2>1 DEF Wake
    <2> QED
      BY <1>5, <2>1, <2>2, ShortCalls
  <1>6. ASSUME NEW r \in Label, NEW c \in ScanCode, doing = <<Demote(o, r), Put(o, r, c, TRUE)>>
        PROVE  /\ doing # <<>> /\ doing \in Seq(LabelStep) /\ 1 \in DOMAIN doing /\ \A i \in DOMAIN doing : doing[i].owner = o
               /\ Head(doing).owner = o /\ Head(doing).do = "demote" /\ Head(doing).row = r /\ Tail(doing) = <<Put(o, r, c, TRUE)>>
    <2>1. PICK a \in LabelStep, b \in LabelStep : a = Demote(o, r) /\ b = Put(o, r, c, TRUE)
      BY DEF Demote, Put, LabelStep
    <2>2. a.do = "demote" /\ a.owner = o /\ a.row = r /\ b.owner = o
      BY <2>1 DEF Demote, Put
    <2>3. doing = <<a, b>>
      BY <1>6, <2>1
    <2>4. /\ <<a, b>> # <<>> /\ Head(<<a, b>>) = a /\ Tail(<<a, b>>) = <<b>> /\ <<a, b>> \in Seq(LabelStep)
          /\ DOMAIN <<a, b>> = {1, 2} /\ <<a, b>>[1] = a /\ <<a, b>>[2] = b
      BY ShortCalls
    <2>5. \A i \in {1, 2} : <<a, b>>[i].owner = o
      BY <2>2, <2>4
    <2> QED
      BY <2>1, <2>2, <2>3, <2>4, <2>5
  <1>7. ASSUME NEW r \in Label, NEW c \in ScanCode, NEW primary \in BOOLEAN, doing = <<Put(o, r, c, primary)>>
        PROVE  /\ doing # <<>> /\ doing \in Seq(LabelStep) /\ 1 \in DOMAIN doing /\ \A i \in DOMAIN doing : doing[i].owner = o
               /\ Head(doing).owner = o /\ Head(doing).do = "write" /\ Head(doing).row = r /\ Head(doing).code = c
               /\ Head(doing).primary = primary /\ Tail(doing) = <<>>
    <2>1. PICK a \in LabelStep : a = Put(o, r, c, primary)
      BY DEF Put, LabelStep
    <2>2. a.do = "write" /\ a.owner = o /\ a.row = r /\ a.code = c /\ a.primary = primary
      BY <2>1 DEF Put
    <2> QED
      BY <1>7, <2>1, <2>2, ShortCalls
  <1>8. CASE Registering(doing, o)
    BY <1>1, <1>2, <1>8 DEF Registering
  <1>9. CASE Promoting(doing, o)
    BY <1>3, <1>9 DEF Promoting
  <1>10. CASE Waking(doing, o)
    BY <1>0, <1>4, <1>5, <1>10 DEF Waking
  <1>11. CASE Writing(doing, o)
    BY <1>0, <1>6, <1>7, <1>11 DEF Writing
  <1> QED
    BY <1>8, <1>9, <1>10, <1>11 DEF InOrder

\* An owner has calls in flight if and only if one of them is in order for it.
LEMMA CallsInOrder ==
  ASSUME BarcodesAssumption, BarcodesInv, NEW o \in LabelOwner
  PROVE  InCall(o) <=> \E w \in LabelClerk : InOrder(labelCall[w], o)
  <1>1. BarcodesTypeOK
    BY DEF BarcodesInv
  <1>2. ASSUME NEW w \in LabelClerk, NEW i \in DOMAIN labelCall[w], labelCall[w][i].owner = o
        PROVE  InOrder(labelCall[w], o)
    <2>1. PICK doing : doing = labelCall[w] /\ i \in DOMAIN doing /\ doing[i].owner = o
      BY <1>2
    <2>2. doing # <<>>
      BY <2>1
    <2>3. PICK p \in LabelOwner : InOrder(doing, p)
      BY <2>1, <2>2 DEF BarcodesInv
    <2>4. \A k \in DOMAIN doing : doing[k].owner = p
      BY <1>1, <2>3, CallShape
    <2> QED
      BY <2>1, <2>3, <2>4
  <1>3. ASSUME NEW w \in LabelClerk, InOrder(labelCall[w], o)
        PROVE  \E i \in DOMAIN labelCall[w] : labelCall[w][i].owner = o
    <2>1. PICK doing : doing = labelCall[w] /\ InOrder(doing, o)
      BY <1>3
    <2>2. 1 \in DOMAIN doing
      BY <1>1, <2>1, CallShape
    <2>3. doing[1].owner = o
      BY <1>1, <2>1, <2>2, CallShape
    <2> QED
      BY <2>1, <2>2, <2>3
  <1> QED
    BY <1>2, <1>3 DEF InCall

\* Who is not mixed has one primary row, unless a call is about to promote the row it entered.
LEMMA ClearFollows ==
  ASSUME BarcodesAssumption, BarcodesInv, NEW o \in LabelOwner \ mixed
  PROVE  /\ (\A w \in LabelClerk : InOrder(labelCall[w], o) => Head(labelCall[w]).do # "promote") => OneActive(Primary(o))
         /\ o \in Single => OneActive(Active(o))
         /\ \A v, w \in LabelClerk : InOrder(labelCall[v], o) /\ InOrder(labelCall[w], o) => v = w
  BY DEF BarcodesInv, Clear, Entered

\* The rows of an owner a step is not about, and the calls on them, stay in order.
LEMMA OthersStayInOrder ==
  ASSUME BarcodesAssumption, BarcodesTypeOK, NEW o \in LabelOwner, NEW doing, InOrder(doing, o),
         mixed \subseteq mixed', \A r \in Label : Known(r) => label'[r].owner = label[r].owner,
         o \notin mixed' => Active(o)' \subseteq Active(o) /\ Primary(o)' \subseteq Primary(o)
  PROVE  InOrder(doing, o)'
  <1>1. \A r \in Label : Known(r) => Known(r)'
    <2>1. NoLabel.owner \notin LabelOwner
      BY DEF NoLabel, BarcodesAssumption
    <2>2. \A r \in Label : Known(r) => label[r].owner \in LabelOwner
      BY LabelTypes
    <2> QED
      BY <2>1, <2>2 DEF Known
  <1>2. Owned(o) \subseteq Label /\ \A r \in Owned(o) : r \in Owned(o)'
    <2>1. Owned(o) \subseteq Label /\ \A r \in Owned(o) : Known(r) /\ label[r].owner = o
      BY LabelTypes
    <2> QED
      BY <2>1 DEF Owned
  <1>3. \A S : Vacant(o, S) => Vacant(o, S)'
    BY DEF Vacant
  <1>4. ASSUME Registering(doing, o) PROVE Registering(doing, o)'
    BY <1>3, <1>4 DEF Registering
  <1>5. ASSUME Promoting(doing, o) PROVE Promoting(doing, o)'
    <2>1. PICK r \in Label : doing = <<Promote(o, r)>> /\ Known(r) /\ Vacant(o, {r})
                             /\ (label[r].owner = o \/ (o \in mixed /\ label[r].owner \in mixed))
      BY <1>5 DEF Promoting
    <2>2. Known(r)' /\ Vacant(o, {r})' /\ label'[r].owner = label[r].owner
      BY <1>1, <1>3, <2>1
    <2>3. label'[r].owner = o \/ (o \in mixed' /\ label'[r].owner \in mixed')
      BY <2>1, <2>2
    <2> QED
      BY <2>1, <2>2, <2>3 DEF Promoting
  <1>6. ASSUME Waking(doing, o) PROVE Waking(doing, o)'
    <2>1. PICK r \in Owned(o) : \/ doing = <<Check(o, {r}), Wake(o, r)>>
                                \/ doing = <<Wake(o, r)>> /\ Vacant(o, {r})
      BY <1>6 DEF Waking
    <2>2. r \in Owned(o)' /\ (Vacant(o, {r}) => Vacant(o, {r})')
      BY <1>2, <1>3
    <2> QED
      BY <2>1, <2>2 DEF Waking
  <1>7. ASSUME Writing(doing, o) PROVE Writing(doing, o)'
    <2>1. PICK r \in Owned(o), c \in ScanCode, primary \in BOOLEAN :
            \/ doing = <<Demote(o, r), Put(o, r, c, primary)>> /\ primary
            \/ doing = <<Put(o, r, c, primary)>> /\ (o \notin mixed /\ primary => Primary(o) \subseteq {r})
      BY <1>7 DEF Writing
    <2>2. r \in Owned(o)'
      BY <1>2
    <2>3. (o \notin mixed /\ primary => Primary(o) \subseteq {r}) => (o \notin mixed' /\ primary => Primary(o)' \subseteq {r})
      OBVIOUS
    <2> QED
      BY <2>1, <2>2, <2>3 DEF Writing
  <1> QED
    BY <1>4, <1>5, <1>6, <1>7 DEF InOrder


\* The first step of a call names its owner, in this state and in the next.
LEMMA OwnerOfCall ==
  ASSUME NEW o \in LabelOwner, NEW doing, InOrder(doing, o) \/ InOrder(doing, o)'
  PROVE  doing # <<>> /\ doing[1].owner = o
  <1>1. /\ \A S : Check(o, S).owner = o
        /\ \A c, primary : Enter(o, c, primary).owner = o
        /\ \A r : Promote(o, r).owner = o /\ Demote(o, r).owner = o /\ Wake(o, r).owner = o
        /\ \A r, c, primary : Put(o, r, c, primary).owner = o
    BY DEF Check, Enter, Promote, Demote, Wake, Put
  <1>2. \A a : <<a>> # <<>> /\ <<a>>[1] = a
    OBVIOUS
  <1>3. \A a, b : <<a, b>> # <<>> /\ <<a, b>>[1] = a
    OBVIOUS
  <1>4. ASSUME Registering(doing, o) \/ Registering(doing, o)' PROVE doing # <<>> /\ doing[1].owner = o
    BY <1>1, <1>2, <1>3, <1>4 DEF Registering
  <1>5. ASSUME Promoting(doing, o) \/ Promoting(doing, o)' PROVE doing # <<>> /\ doing[1].owner = o
    <2>1. \E r : doing = <<Promote(o, r)>>
      BY <1>5 DEF Promoting
    <2> QED
      BY <1>1, <1>2, <2>1
  <1>6. ASSUME Waking(doing, o) \/ Waking(doing, o)' PROVE doing # <<>> /\ doing[1].owner = o
    <2>1. \E r : doing = <<Check(o, {r}), Wake(o, r)>> \/ doing = <<Wake(o, r)>>
      BY <1>6 DEF Waking
    <2> QED
      BY <1>1, <1>2, <1>3, <2>1
  <1>7. ASSUME Writing(doing, o) \/ Writing(doing, o)' PROVE doing # <<>> /\ doing[1].owner = o
    BY <1>1, <1>2, <1>3, <1>7 DEF Writing
  <1> QED
    BY <1>4, <1>5, <1>6, <1>7 DEF InOrder

\* A step about the rows of x, and about a call on them: what it has to leave in order.
LEMMA StepOnOneOwner ==
  ASSUME BarcodesAssumption, BarcodesInv, NEW x \in LabelOwner, BarcodesTypeOK',
         mixed \subseteq mixed', \A r \in Label : Known(r) => label'[r].owner = label[r].owner,
         \A o \in LabelOwner \ mixed' : o # x => Active(o)' \subseteq Active(o) /\ Primary(o)' \subseteq Primary(o),
         \A c \in ScanCode : OneActive(WithCode(c))',
         \A v \in LabelClerk :
           \/ labelCall'[v] = labelCall[v] /\ (x \notin mixed' => ~InOrder(labelCall[v], x))
           \/ /\ labelCall[v] = <<>> \/ InOrder(labelCall[v], x)
              /\ labelCall'[v] = <<>> \/ InOrder(labelCall[v], x)',
         x \notin mixed' => Clear(x)'
  PROVE  BarcodesInv'
  <1>1. BarcodesTypeOK
    BY DEF BarcodesInv
  <1>2. \A o \in LabelOwner : \A doing : InOrder(doing, o) /\ (o = x => x \in mixed') => InOrder(doing, o)'
    BY <1>1, OthersStayInOrder
  <1>3. ASSUME NEW v \in LabelClerk PROVE (labelCall[v] = <<>>)' \/ \E o \in LabelOwner : InOrder(labelCall[v], o)'
    <2>1. PICK doing : doing = labelCall[v]
      OBVIOUS
    <2>2. doing = <<>> \/ \E o \in LabelOwner : InOrder(doing, o)
      BY <2>1 DEF BarcodesInv
    <2>3. CASE labelCall'[v] = doing /\ (x \notin mixed' => ~InOrder(doing, x))
      <3>1. doing = <<>> \/ \E o \in LabelOwner : InOrder(doing, o)'
        BY <1>2, <2>2, <2>3
      <3> QED
        BY <2>3, <3>1
    <2> QED
      BY <2>1, <2>3
  <1>4. ASSUME NEW o \in LabelOwner \ mixed', o # x PROVE Clear(o)'
    <2>1. Clear(o)
      BY <1>4 DEF BarcodesInv
    <2>2. \A doing : InOrder(doing, o) => InOrder(doing, o)'
      BY <1>2, <1>4
    <2>3. ASSUME NEW v \in LabelClerk, NEW doing, doing = labelCall'[v], InOrder(doing, o)'
          PROVE  labelCall[v] = doing /\ InOrder(doing, o)
      <3>1. doing # <<>> /\ doing[1].owner = o
        BY <2>3, OwnerOfCall
      <3>2. ~InOrder(doing, x)'
        BY <1>4, <3>1, OwnerOfCall
      <3>3. labelCall[v] = doing
        BY <2>3, <3>1, <3>2
      <3>4. PICK p \in LabelOwner : InOrder(doing, p)
        BY <3>1, <3>3 DEF BarcodesInv
      <3> QED
        BY <3>1, <3>3, <3>4, OwnerOfCall
    <2>4. \A v \in LabelClerk : InOrder(labelCall[v], o)' => InOrder(labelCall[v], o) /\ labelCall'[v] = labelCall[v]
      <3> SUFFICES ASSUME NEW v \in LabelClerk, InOrder(labelCall[v], o)'
                   PROVE  InOrder(labelCall[v], o) /\ labelCall'[v] = labelCall[v]
        OBVIOUS
      <3>1. PICK doing : doing = labelCall'[v]
        OBVIOUS
      <3>2. InOrder(doing, o)'
        BY <3>1
      <3> QED
        BY <2>3, <3>1, <3>2
    <2>5. ASSUME NEW v \in LabelClerk, InOrder(labelCall[v], o)
          PROVE  InOrder(labelCall[v], o)' /\ labelCall'[v] = labelCall[v]
      <3>1. PICK doing : doing = labelCall[v] /\ InOrder(doing, o)
        BY <2>5
      <3>2. doing # <<>> /\ ~InOrder(doing, x)
        BY <1>4, <3>1, OwnerOfCall
      <3>3. labelCall'[v] = doing
        BY <3>1, <3>2
      <3> QED
        BY <2>2, <3>1, <3>3
    <2>6. OneActive(Primary(o))' \/ \E w \in LabelClerk : InOrder(labelCall[w], o)' /\ Entered(labelCall[w])'
      <3>1. OneActive(Primary(o)) => OneActive(Primary(o))'
        BY <1>4 DEF OneActive
      <3>2. ASSUME NEW w \in LabelClerk, InOrder(labelCall[w], o), Entered(labelCall[w])
            PROVE  InOrder(labelCall[w], o)' /\ Entered(labelCall[w])'
        BY <2>5, <3>2 DEF Entered
      <3> QED
        BY <2>1, <3>1, <3>2 DEF Clear
    <2>7. o \in Single => OneActive(Active(o))'
      BY <1>4, <2>1 DEF Clear, OneActive
    <2>8. \A v, w \in LabelClerk : InOrder(labelCall[v], o)' /\ InOrder(labelCall[w], o)' => v = w
      BY <2>1, <2>4 DEF Clear
    <2> QED
      BY <2>6, <2>7, <2>8 DEF Clear
  <1> QED
    BY <1>1, <1>3, <1>4 DEF BarcodesInv

\* A call that goes on, or ends.
LEMMA CallContinues ==
  ASSUME BarcodesAssumption, BarcodesInv, NEW w \in LabelClerk, NEW x \in LabelOwner, NEW doing,
         InOrder(labelCall[w], x), labelCall' = [labelCall EXCEPT ![w] = doing],
         doing = <<>> \/ InOrder(doing, x)', BarcodesTypeOK',
         mixed \subseteq mixed', \A r \in Label : Known(r) => label'[r].owner = label[r].owner,
         \A o \in LabelOwner \ mixed' : o # x => Active(o)' \subseteq Active(o) /\ Primary(o)' \subseteq Primary(o),
         \A c \in ScanCode : OneActive(WithCode(c))',
         x \notin mixed' => OneActive(Primary(x))' \/ Entered(doing),
         x \notin mixed' /\ x \in Single => OneActive(Active(x))'
  PROVE  BarcodesInv'
  <1>1. \A v \in LabelClerk : labelCall'[v] = IF v = w THEN doing ELSE labelCall[v]
    BY DEF BarcodesInv, BarcodesTypeOK
  <1>2. ASSUME x \notin mixed' PROVE \A v \in LabelClerk : v # w => ~InOrder(labelCall[v], x)
    BY <1>2 DEF BarcodesInv, Clear
  <1>3. ASSUME NEW v \in LabelClerk
        PROVE  \/ labelCall'[v] = labelCall[v] /\ (x \notin mixed' => ~InOrder(labelCall[v], x))
               \/ /\ labelCall[v] = <<>> \/ InOrder(labelCall[v], x)
                  /\ labelCall'[v] = <<>> \/ InOrder(labelCall[v], x)'
    <2>1. CASE v = w
      <3>1. labelCall'[v] = doing /\ InOrder(labelCall[v], x)
        BY <1>1, <2>1
      <3>2. InOrder(doing, x)' => InOrder(labelCall[v], x)'
        BY <3>1
      <3> QED
        BY <3>1, <3>2
    <2>2. CASE v # w
      BY <1>1, <1>2, <2>2
    <2> QED
      BY <2>1, <2>2
  <1>4. ASSUME x \notin mixed' PROVE Clear(x)'
    <2>1. \A v \in LabelClerk : InOrder(labelCall[v], x)' => v = w
      <3> SUFFICES ASSUME NEW v \in LabelClerk, InOrder(labelCall[v], x)', v # w PROVE FALSE
        OBVIOUS
      <3>1. PICK c : c = labelCall'[v]
        OBVIOUS
      <3>2. InOrder(c, x)' /\ c = labelCall[v]
        BY <1>1, <3>1
      <3>3. c # <<>> /\ c[1].owner = x
        BY <3>2, OwnerOfCall
      <3>4. PICK p \in LabelOwner : InOrder(c, p)
        BY <3>2, <3>3 DEF BarcodesInv
      <3>5. p = x
        BY <3>3, <3>4, OwnerOfCall
      <3> QED
        BY <1>2, <1>4, <3>2, <3>4, <3>5
    <2>2. Entered(doing) => InOrder(labelCall[w], x)' /\ Entered(labelCall[w])'
      <3>1. Entered(doing) => doing # <<>> /\ InOrder(doing, x)'
        BY DEF Entered
      <3>2. labelCall'[w] = doing
        BY <1>1
      <3> QED
        BY <3>1, <3>2 DEF Entered
    <2> QED
      BY <1>4, <2>1, <2>2 DEF Clear
  <1> QED
    BY <1>3, <1>4, StepOnOneOwner

\* A call that begins, or a step that is no call's: nothing else is going on with the rows of x.
LEMMA FirstOfItsOwner ==
  ASSUME BarcodesAssumption, BarcodesInv, NEW x \in LabelOwner, BarcodesTypeOK',
         mixed \subseteq mixed', x \notin mixed' => ~InCall(x),
         \A r \in Label : Known(r) => label'[r].owner = label[r].owner,
         \A o \in LabelOwner \ mixed' : o # x => Active(o)' \subseteq Active(o) /\ Primary(o)' \subseteq Primary(o),
         \A c \in ScanCode : OneActive(WithCode(c))',
         \A v \in LabelClerk : labelCall'[v] = labelCall[v] \/ (labelCall[v] = <<>> /\ InOrder(labelCall[v], x)'),
         \A u, v \in LabelClerk : labelCall'[u] # labelCall[u] /\ labelCall'[v] # labelCall[v] => u = v,
         x \notin mixed' /\ OneActive(Primary(x)) => OneActive(Primary(x))',
         x \notin mixed' /\ x \in Single /\ OneActive(Active(x)) => OneActive(Active(x))'
  PROVE  BarcodesInv'
  <1>1. x \notin mixed' => \A v \in LabelClerk : ~InOrder(labelCall[v], x)
    BY CallsInOrder
  <1>2. ASSUME x \notin mixed' PROVE Clear(x)'
    <2>1. OneActive(Primary(x)) /\ (x \in Single => OneActive(Active(x)))
      BY <1>1, <1>2 DEF BarcodesInv, Clear
    <2>2. \A v \in LabelClerk : InOrder(labelCall[v], x)' => labelCall'[v] # labelCall[v]
      <3> SUFFICES ASSUME NEW v \in LabelClerk, InOrder(labelCall[v], x)', labelCall'[v] = labelCall[v] PROVE FALSE
        OBVIOUS
      <3>1. PICK c : c = labelCall'[v] /\ c = labelCall[v]
        OBVIOUS
      <3>2. InOrder(c, x)'
        BY <3>1
      <3>3. c # <<>> /\ c[1].owner = x
        BY <3>2, OwnerOfCall
      <3>4. PICK p \in LabelOwner : InOrder(c, p)
        BY <3>1, <3>3 DEF BarcodesInv
      <3>5. p = x
        BY <3>3, <3>4, OwnerOfCall
      <3> QED
        BY <1>1, <1>2, <3>1, <3>4, <3>5
    <2> QED
      BY <1>2, <2>1, <2>2 DEF Clear
  <1>3. ASSUME NEW v \in LabelClerk
        PROVE  \/ labelCall'[v] = labelCall[v] /\ (x \notin mixed' => ~InOrder(labelCall[v], x))
               \/ /\ labelCall[v] = <<>> \/ InOrder(labelCall[v], x)
                  /\ labelCall'[v] = <<>> \/ InOrder(labelCall[v], x)'
    BY <1>1
  <1> QED
    BY <1>2, <1>3, StepOnOneOwner

\* Rows of one owner are written.
LEMMA RowsOfOne ==
  ASSUME BarcodesAssumption, BarcodesTypeOK, NEW x \in LabelOwner,
         \A r \in Label : label'[r] = label[r] \/ (label'[r].owner = x /\ label[r].owner \in {x, "none"})
  PROVE  /\ \A r \in Label : Known(r) => label'[r].owner = label[r].owner
         /\ \A o \in LabelOwner : o # x => Active(o)' \subseteq Active(o) /\ Primary(o)' \subseteq Primary(o)
  <1>1. \A r \in Label : Known(r) => label[r].owner \in LabelOwner
    BY LabelTypes
  <1>2. "none" \notin LabelOwner
    BY DEF BarcodesAssumption
  <1>3. \A r \in Label : Known(r) => label'[r].owner = label[r].owner
    BY <1>1, <1>2
  <1>4. ASSUME NEW o \in LabelOwner, o # x
        PROVE  Active(o)' \subseteq Active(o) /\ Primary(o)' \subseteq Primary(o)
    <2>1. \A r \in Label : label'[r].owner = o => label'[r] = label[r]
      BY <1>4
    <2> QED
      BY <2>1 DEF Active, Primary, Owned
  <1> QED
    BY <1>3, <1>4

\* A code is nobody else's as long as no row gets one, or only one that has no other row.
LEMMA CodesKept ==
  ASSUME BarcodesAssumption, BarcodesInv, NEW r, NEW code,
         \A q \in Label : q # r /\ Known(q)' => Known(q) /\ label'[q].code = label[q].code,
         Known(r)' => \/ Known(r) /\ label'[r].code = label[r].code
                      \/ label'[r].code = code /\ WithCode(code) \subseteq {r}
  PROVE  \A c \in ScanCode : OneActive(WithCode(c))'
  <1> SUFFICES ASSUME NEW c \in ScanCode, NEW p \in Label, NEW q \in Label, p # q,
                      Known(p)', Known(q)', label'[p].code = c, label'[q].code = c
               PROVE  FALSE
    BY DEF OneActive, WithCode
  <1>1. \A u, v \in Label : Known(u) /\ Known(v) /\ label[u].code = c /\ label[v].code = c => u = v
    BY DEF BarcodesInv, OneActive, WithCode
  <1>2. \A u \in Label : Known(u) /\ label[u].code = c => u \in WithCode(c)
    BY DEF WithCode
  <1> QED
    BY <1>1, <1>2

\* A call begins; at most it deactivates rows of its owner.
LEMMA CallBegins ==
  ASSUME BarcodesAssumption, BarcodesInv, NEW w \in LabelClerk, NEW x \in LabelOwner, NEW doing \in Seq(LabelStep),
         Begin(w, x, doing), InOrder(doing, x)', label' \in [Label -> {NoLabel} \cup LabelRow],
         \A r \in Label : \/ label'[r] = label[r]
                          \/ /\ Known(r) /\ label[r].owner = x /\ label'[r].owner = x /\ label'[r].code = label[r].code
                             /\ label'[r].active => label[r].active
                             /\ label'[r].primary => label[r].primary
  PROVE  BarcodesInv'
  <1>1. BarcodesTypeOK /\ labelCall \in [LabelClerk -> Seq(LabelStep)] /\ mixed \subseteq LabelOwner
    BY DEF BarcodesInv, BarcodesTypeOK
  <1>2. /\ labelCall[w] = <<>> /\ labelCall' = [labelCall EXCEPT ![w] = doing]
        /\ mixed \subseteq mixed' /\ mixed' \subseteq LabelOwner /\ (x \notin mixed' => ~InCall(x))
    BY <1>1 DEF Begin, Mixing
  <1>3. BarcodesTypeOK'
    BY <1>1, <1>2 DEF BarcodesTypeOK
  <1>4. \A v \in LabelClerk : labelCall'[v] = IF v = w THEN doing ELSE labelCall[v]
    BY <1>1, <1>2
  <1>5. \A v \in LabelClerk : labelCall'[v] = labelCall[v] \/ (labelCall[v] = <<>> /\ InOrder(labelCall[v], x)')
    <2>1. labelCall'[w] = doing
      BY <1>4
    <2>2. InOrder(labelCall[w], x)'
      BY <2>1
    <2> QED
      BY <1>2, <1>4, <2>2
  <1>6. /\ \A r \in Label : Known(r) => label'[r].owner = label[r].owner
        /\ \A o \in LabelOwner : o # x => Active(o)' \subseteq Active(o) /\ Primary(o)' \subseteq Primary(o)
    BY <1>1, RowsOfOne
  <1>7. \A r \in Label : Known(r)' => Known(r) /\ label'[r].code = label[r].code
    BY DEF Known
  <1>8. \A c \in ScanCode : OneActive(WithCode(c))'
    BY <1>7 DEF BarcodesInv, OneActive, WithCode
  <1>9. Active(x)' \subseteq Active(x) /\ Primary(x)' \subseteq Primary(x)
    BY DEF Active, Primary, Owned
  <1>10. /\ OneActive(Primary(x)) => OneActive(Primary(x))'
         /\ OneActive(Active(x)) => OneActive(Active(x))'
    BY <1>9 DEF OneActive
  <1> QED
    BY <1>2, <1>3, <1>4, <1>5, <1>6, <1>8, <1>10, FirstOfItsOwner

\* The calls, as they begin.
LEMMA BeginSteps ==
  ASSUME BarcodesAssumption, BarcodesInv, NEW w \in LabelClerk,
         \/ \E o \in LabelOwner, c \in ScanCode, primary \in BOOLEAN : RegisterBarcode(w, o, c, primary)
         \/ \E r \in Label, c \in ScanCode, primary \in BOOLEAN :
              ReplaceBarcode(w, r, c, primary) \/ UpdateBarcode(w, r, c, primary)
         \/ \E r \in Label : ActivateBarcode(w, r)
  PROVE  BarcodesInv'
  <1>1. BarcodesTypeOK /\ label \in [Label -> {NoLabel} \cup LabelRow]
    BY DEF BarcodesInv, BarcodesTypeOK
  <1>2. ASSUME NEW o \in LabelOwner, NEW c \in ScanCode, NEW primary \in BOOLEAN
        PROVE  /\ <<Check(o, {}), Enter(o, c, primary)>> \in Seq(LabelStep)
               /\ InOrder(<<Check(o, {}), Enter(o, c, primary)>>, o)'
    BY DEF Check, Enter, LabelStep, InOrder, Registering
  <1>3. ASSUME NEW o \in LabelOwner, NEW c \in ScanCode, NEW primary \in BOOLEAN, RegisterBarcode(w, o, c, primary)
        PROVE  BarcodesInv'
    <2>1. PICK doing \in Seq(LabelStep) : doing = <<Check(o, {}), Enter(o, c, primary)>> /\ InOrder(doing, o)'
      BY <1>2
    <2>2. Begin(w, o, doing) /\ label' = label
      BY <1>3, <2>1 DEF RegisterBarcode
    <2> QED
      BY <1>1, <2>1, <2>2, CallBegins
  <1>4. ASSUME NEW r \in Label, Known(r)
        PROVE  /\ label[r].owner \in LabelOwner /\ label[r] \in LabelRow
               /\ label' = label => r \in Owned(label[r].owner)'
    <2>1. label[r].owner \in LabelOwner /\ label[r] \in LabelRow
      BY <1>1, <1>4, LabelTypes
    <2>2. PICK o : o = label[r].owner
      OBVIOUS
    <2>3. label' = label => r \in Owned(o)'
      BY <2>2 DEF Owned
    <2> QED
      BY <2>1, <2>2, <2>3
  <1>5. ASSUME NEW r \in Label, NEW c \in ScanCode, NEW primary \in BOOLEAN, ReplaceBarcode(w, r, c, primary)
        PROVE  BarcodesInv'
    <2>1. Known(r) /\ label' = [label EXCEPT ![r].active = FALSE, ![r].primary = FALSE]
      BY <1>5 DEF ReplaceBarcode
    <2>2. PICK o \in LabelOwner : o = label[r].owner
      BY <1>4, <2>1
    <2>3. PICK doing \in Seq(LabelStep) : doing = <<Check(o, {}), Enter(o, c, primary)>> /\ InOrder(doing, o)'
      BY <1>2
    <2>4. Begin(w, o, doing)
      BY <1>5, <2>2, <2>3 DEF ReplaceBarcode
    <2>5. PICK row \in LabelRow : row = label[r]
      BY <1>4, <2>1
    <2>6. [row EXCEPT !.active = FALSE, !.primary = FALSE] \in LabelRow
      BY DEF LabelRow
    <2>7. label' = [label EXCEPT ![r] = [row EXCEPT !.active = FALSE, !.primary = FALSE]]
      BY <1>1, <2>1, <2>5
    <2>8. /\ [row EXCEPT !.active = FALSE, !.primary = FALSE].owner = o
          /\ [row EXCEPT !.active = FALSE, !.primary = FALSE].code = row.code
          /\ ~[row EXCEPT !.active = FALSE, !.primary = FALSE].active
          /\ ~[row EXCEPT !.active = FALSE, !.primary = FALSE].primary
      BY <2>2, <2>5 DEF LabelRow
    <2>9. PICK new \in LabelRow : /\ label' = [label EXCEPT ![r] = new]
                                  /\ new.owner = o /\ new.code = row.code /\ ~new.active /\ ~new.primary
      BY <2>6, <2>7, <2>8
    <2>10. label' \in [Label -> {NoLabel} \cup LabelRow] /\ \A q \in Label : label'[q] = IF q = r THEN new ELSE label[q]
      BY <1>1, <2>9
    <2>11. \A q \in Label : \/ label'[q] = label[q]
                            \/ /\ Known(q) /\ label[q].owner = o /\ label'[q].owner = o /\ label'[q].code = label[q].code
                               /\ label'[q].active => label[q].active
                               /\ label'[q].primary => label[q].primary
      BY <2>1, <2>2, <2>5, <2>9, <2>10
    <2> QED
      BY <2>3, <2>4, <2>10, <2>11, CallBegins
  <1>6. ASSUME NEW r \in Label, ActivateBarcode(w, r) PROVE BarcodesInv'
    <2>1. Known(r) /\ label' = label
      BY <1>6 DEF ActivateBarcode
    <2>2. PICK o \in LabelOwner : o = label[r].owner /\ r \in Owned(o)'
      BY <1>4, <2>1
    <2>3. <<Check(o, {r}), Wake(o, r)>> \in Seq(LabelStep)
      BY DEF Check, Wake, LabelStep
    <2>4. InOrder(<<Check(o, {r}), Wake(o, r)>>, o)'
      BY <2>2 DEF InOrder, Waking
    <2>5. PICK doing \in Seq(LabelStep) : doing = <<Check(o, {r}), Wake(o, r)>> /\ InOrder(doing, o)'
      BY <2>3, <2>4
    <2>6. Begin(w, o, doing)
      BY <1>6, <2>2, <2>5 DEF ActivateBarcode, Wake
    <2> QED
      BY <1>1, <2>1, <2>5, <2>6, CallBegins
  <1>7. ASSUME NEW r \in Label, NEW c \in ScanCode, NEW primary \in BOOLEAN, UpdateBarcode(w, r, c, primary)
        PROVE  BarcodesInv'
    <2>1. Known(r) /\ label' = label
      BY <1>7 DEF UpdateBarcode
    <2>2. PICK o \in LabelOwner : o = label[r].owner /\ r \in Owned(o)'
      BY <1>4, <2>1
    <2>3. \E doing \in Seq(LabelStep) : InOrder(doing, o)' /\ Begin(w, o, doing)
      <3>1. CASE primary
        <4>1. <<Demote(o, r)>> \o <<Put(o, r, c, primary)>> = <<Demote(o, r), Put(o, r, c, primary)>>
          BY OneAndOne
        <4>2. Begin(w, o, <<Demote(o, r), Put(o, r, c, primary)>>)
          <5>1. Begin(w, o, <<Demote(o, r)>> \o <<Put(o, r, c, primary)>>)
            BY <1>7, <2>2, <3>1 DEF UpdateBarcode, Demote, Put
          <5> QED
            BY <4>1, <5>1
        <4>3. <<Demote(o, r), Put(o, r, c, primary)>> \in Seq(LabelStep)
          BY DEF Demote, Put, LabelStep
        <4>4. InOrder(<<Demote(o, r), Put(o, r, c, primary)>>, o)'
          BY <2>2, <3>1 DEF InOrder, Writing
        <4> QED
          BY <4>2, <4>3, <4>4
      <3>2. CASE ~primary
        <4>1. <<>> \o <<Put(o, r, c, primary)>> = <<Put(o, r, c, primary)>>
          OBVIOUS
        <4>2. Begin(w, o, <<Put(o, r, c, primary)>>)
          <5>1. Begin(w, o, <<>> \o <<Put(o, r, c, primary)>>)
            BY <1>7, <2>2, <3>2 DEF UpdateBarcode, Put
          <5> QED
            BY <4>1, <5>1
        <4>3. <<Put(o, r, c, primary)>> \in Seq(LabelStep)
          BY DEF Put, LabelStep
        <4>4. InOrder(<<Put(o, r, c, primary)>>, o)'
          BY <2>2, <3>2 DEF InOrder, Writing
        <4> QED
          BY <4>2, <4>3, <4>4
      <3> QED
        BY <3>1, <3>2
    <2>4. PICK doing \in Seq(LabelStep) : InOrder(doing, o)' /\ Begin(w, o, doing)
      BY <2>3
    <2> QED
      BY <1>1, <2>1, <2>4, CallBegins
  <1> QED
    BY <1>3, <1>5, <1>6, <1>7

\* A row is activated, made primary or deactivated, and nothing else is done.
LEMMA RowStep ==
  ASSUME BarcodesAssumption, BarcodesInv, NEW r \in Label, NEW x \in LabelOwner, NEW new \in LabelRow,
         Known(r), label[r].owner = x, new.owner = x, new.code = label[r].code,
         label' \in [Label -> {NoLabel} \cup LabelRow], label'[r] = new, labelCall' = labelCall,
         \A q \in Label : q # r =>
           \/ label'[q] = label[q]
           \/ /\ Known(q) /\ label[q].owner = x /\ label'[q].owner = x /\ label'[q].code = label[q].code
              /\ label'[q].active = label[q].active /\ ~label'[q].primary,
         mixed \subseteq mixed', mixed' \subseteq LabelOwner, x \notin mixed' => ~InCall(x),
         new.primary => label[r].primary \/ \A q \in Primary(x) : q # r => ~label'[q].primary,
         x \notin mixed' /\ new.active => label[r].active \/ Active(x) = {}
  PROVE  BarcodesInv'
  <1>1. BarcodesTypeOK
    BY DEF BarcodesInv
  <1>2. BarcodesTypeOK'
    BY <1>1 DEF BarcodesTypeOK
  <1>3. \A q \in Label : label'[q] = label[q] \/ (label'[q].owner = x /\ label[q].owner \in {x, "none"})
    OBVIOUS
  <1>4. /\ \A q \in Label : Known(q) => label'[q].owner = label[q].owner
        /\ \A o \in LabelOwner : o # x => Active(o)' \subseteq Active(o) /\ Primary(o)' \subseteq Primary(o)
    BY <1>1, <1>3, RowsOfOne
  <1>5. \A q \in Label : Known(q)' => Known(q) /\ label'[q].code = label[q].code
    BY DEF Known
  <1>6. \A c \in ScanCode : OneActive(WithCode(c))'
    BY <1>5 DEF BarcodesInv, OneActive, WithCode
  <1>7. OneActive(Primary(x)) => OneActive(Primary(x))'
    <2>1. \A q \in Primary(x)' : q = r \/ q \in Primary(x)
      BY DEF Primary, Owned
    <2>2. CASE r \in Primary(x) \/ r \notin Primary(x)'
      BY <2>1, <2>2 DEF OneActive
    <2>3. CASE r \notin Primary(x) /\ r \in Primary(x)'
      <3>1. new.primary /\ ~label[r].primary
        BY <2>3 DEF Primary, Owned
      <3>2. \A q \in Primary(x)' : q = r
        BY <2>1, <3>1 DEF Primary
      <3> QED
        BY <3>2 DEF OneActive
    <2> QED
      BY <2>2, <2>3
  <1>8. x \notin mixed' /\ OneActive(Active(x)) => OneActive(Active(x))'
    <2>1. \A q \in Active(x)' : q = r \/ q \in Active(x)
      BY DEF Active, Owned
    <2>2. r \in Active(x)' => new.active
      BY DEF Active
    <2>3. label[r].active => r \in Active(x)
      BY DEF Active, Owned
    <2> QED
      BY <2>1, <2>2, <2>3 DEF OneActive
  <1> QED
    BY <1>2, <1>4, <1>6, <1>7, <1>8, FirstOfItsOwner

\* Rows of o other than r lose their primary flag, and no other row changes.
TakenDown(o, r) ==
  \A q \in Label : q # r =>
    \/ label'[q] = label[q] /\ label[q].owner # o
    \/ /\ Known(q) /\ label[q].owner = o /\ label'[q].owner = o /\ label'[q].code = label[q].code
       /\ label'[q].active = label[q].active /\ ~label'[q].primary /\ label'[q] \in LabelRow

\* Promoting a row takes the others of an owner down.
LEMMA PromotedRows ==
  ASSUME BarcodesAssumption, BarcodesTypeOK, NEW o \in LabelOwner, NEW r \in Label, Known(r), label' = Promoted(o, r)
  PROVE  /\ label' \in [Label -> {NoLabel} \cup LabelRow]
         /\ label'[r] \in LabelRow /\ label'[r].owner = label[r].owner /\ label'[r].code = label[r].code
         /\ label'[r].active = TRUE /\ label'[r].primary = TRUE
         /\ TakenDown(o, r)
  <1>1. \A row \in LabelRow : /\ [row EXCEPT !.active = TRUE, !.primary = TRUE] \in LabelRow
                              /\ [row EXCEPT !.active = TRUE, !.primary = TRUE].owner = row.owner
                              /\ [row EXCEPT !.active = TRUE, !.primary = TRUE].code = row.code
                              /\ [row EXCEPT !.active = TRUE, !.primary = TRUE].active = TRUE
                              /\ [row EXCEPT !.active = TRUE, !.primary = TRUE].primary = TRUE
    BY DEF LabelRow
  <1>2. \A row \in LabelRow : /\ [row EXCEPT !.primary = FALSE] \in LabelRow
                              /\ [row EXCEPT !.primary = FALSE].owner = row.owner
                              /\ [row EXCEPT !.primary = FALSE].code = row.code
                              /\ [row EXCEPT !.primary = FALSE].active = row.active
                              /\ ~[row EXCEPT !.primary = FALSE].primary
    BY DEF LabelRow
  <1>3. label[r] \in LabelRow /\ \A q \in Owned(o) : q \in Label /\ label[q] \in LabelRow /\ Known(q) /\ label[q].owner = o
    BY LabelTypes
  <1>4. \A q \in Label : label'[q] = IF q = r THEN [label[q] EXCEPT !.active = TRUE, !.primary = TRUE]
                                     ELSE IF q \in Owned(o) THEN [label[q] EXCEPT !.primary = FALSE] ELSE label[q]
    BY DEF Promoted
  <1>5. \A q \in Label : q \notin Owned(o) => label[q].owner # o
    BY DEF Owned
  <1>6. /\ label'[r] \in LabelRow /\ label'[r].owner = label[r].owner /\ label'[r].code = label[r].code
        /\ label'[r].active = TRUE /\ label'[r].primary = TRUE
    BY <1>1, <1>3, <1>4
  <1>7. \A q \in Label : q # r =>
              \/ label'[q] = label[q] /\ label[q].owner # o
              \/ /\ Known(q) /\ label[q].owner = o /\ label'[q].owner = o /\ label'[q].code = label[q].code
                 /\ label'[q].active = label[q].active /\ ~label'[q].primary /\ label'[q] \in LabelRow
    <2> SUFFICES ASSUME NEW q \in Label, q # r
                 PROVE  \/ label'[q] = label[q] /\ label[q].owner # o
                        \/ /\ Known(q) /\ label[q].owner = o /\ label'[q].owner = o /\ label'[q].code = label[q].code
                           /\ label'[q].active = label[q].active /\ ~label'[q].primary /\ label'[q] \in LabelRow
      OBVIOUS
    <2>1. CASE q \notin Owned(o)
      BY <1>4, <1>5, <2>1
    <2>2. CASE q \in Owned(o)
      <3>1. PICK row \in LabelRow : row = label[q] /\ row.owner = o /\ Known(q)
        BY <1>3, <2>2
      <3>2. label'[q] = [row EXCEPT !.primary = FALSE]
        BY <1>4, <2>2, <3>1
      <3> QED
        BY <1>2, <3>1, <3>2
    <2> QED
      BY <2>1, <2>2
  <1>8. label' \in [Label -> {NoLabel} \cup LabelRow]
    <2>1. label \in [Label -> {NoLabel} \cup LabelRow]
      BY LabelTypes
    <2>2. \A q \in Label : label'[q] \in {NoLabel} \cup LabelRow
      BY <1>6, <1>7, <2>1
    <2>3. label' = [q \in Label |-> label'[q]]
      BY DEF Promoted
    <2> QED
      BY <2>2, <2>3
  <1> QED
    BY <1>6, <1>7, <1>8 DEF TakenDown

\* The operations that are one step.
LEMMA RowSteps ==
  ASSUME BarcodesAssumption, BarcodesInv, NEW r \in Label,
         ActivateUnchecked(r) \/ SetPrimaryBarcode(r) \/ DeactivateBarcode(r)
  PROVE  BarcodesInv'
  <1>1. BarcodesTypeOK /\ label \in [Label -> {NoLabel} \cup LabelRow] /\ mixed \subseteq LabelOwner
    BY DEF BarcodesInv, BarcodesTypeOK
  <1>2. Known(r) /\ label[r] \in LabelRow /\ labelCall' = labelCall
    BY <1>1, LabelTypes DEF ActivateUnchecked, SetPrimaryBarcode, DeactivateBarcode
  <1>3. PICK x \in LabelOwner, row \in LabelRow : row = label[r] /\ x = row.owner
    BY <1>2 DEF LabelRow
  <1>4. /\ mixed \subseteq mixed' /\ mixed' \subseteq LabelOwner /\ (x \notin mixed' => ~InCall(x))
    BY <1>1, <1>3 DEF ActivateUnchecked, SetPrimaryBarcode, DeactivateBarcode, Unchecked, Mixing
  <1>5. ASSUME ActivateUnchecked(r) PROVE BarcodesInv'
    <2>0. /\ [row EXCEPT !.active = TRUE] \in LabelRow
          /\ [row EXCEPT !.active = TRUE].owner = x
          /\ [row EXCEPT !.active = TRUE].code = row.code
          /\ [row EXCEPT !.active = TRUE].primary = row.primary
      BY <1>3 DEF LabelRow
    <2>1. PICK new \in LabelRow : /\ new = [row EXCEPT !.active = TRUE]
                                  /\ new.owner = x /\ new.code = row.code /\ new.primary = row.primary
      BY <2>0
    <2>2. label' = [label EXCEPT ![r] = new]
      BY <1>1, <1>3, <1>5, <2>1 DEF ActivateUnchecked
    <2>4. x \notin mixed' => row.active \/ Active(x) = {}
      BY <1>3, <1>5 DEF ActivateUnchecked, Unchecked
    <2>5. label' \in [Label -> {NoLabel} \cup LabelRow] /\ label'[r] = new /\ \A q \in Label : q # r => label'[q] = label[q]
      BY <1>1, <2>2
    <2> QED
      BY <1>2, <1>3, <1>4, <2>1, <2>4, <2>5, RowStep
  <1>6. ASSUME SetPrimaryBarcode(r) PROVE BarcodesInv'
    <2>1. label' = Promoted(x, r)
      BY <1>3, <1>6 DEF SetPrimaryBarcode
    <2>2. x \notin mixed' => row.active \/ Active(x) = {}
      BY <1>3, <1>6 DEF SetPrimaryBarcode, Unchecked
    <2>3. /\ label' \in [Label -> {NoLabel} \cup LabelRow]
          /\ label'[r] \in LabelRow /\ label'[r].owner = x /\ label'[r].code = row.code
          /\ \A q \in Label : q # r =>
              \/ label'[q] = label[q] /\ label[q].owner # x
              \/ /\ Known(q) /\ label[q].owner = x /\ label'[q].owner = x /\ label'[q].code = label[q].code
                 /\ label'[q].active = label[q].active /\ ~label'[q].primary
      <3>1. /\ label' \in [Label -> {NoLabel} \cup LabelRow]
            /\ label'[r] \in LabelRow /\ label'[r].owner = label[r].owner /\ label'[r].code = label[r].code
        BY <1>1, <1>2, <2>1, PromotedRows
      <3>2. \A q \in Label : q # r =>
              \/ label'[q] = label[q] /\ label[q].owner # x
              \/ /\ Known(q) /\ label[q].owner = x /\ label'[q].owner = x /\ label'[q].code = label[q].code
                 /\ label'[q].active = label[q].active /\ ~label'[q].primary /\ label'[q] \in LabelRow
        <4>1. TakenDown(x, r)
          BY <1>1, <1>2, <2>1, PromotedRows
        <4> QED
          BY <4>1 DEF TakenDown
      <3> QED
        BY <1>3, <3>1, <3>2
    <2>4. PICK new \in LabelRow : new = label'[r] /\ new.owner = x /\ new.code = row.code
      BY <2>3
    <2>5. \A q \in Primary(x) : q # r => ~label'[q].primary
      BY <2>3 DEF Primary, Owned
    <2> QED
      BY <1>2, <1>3, <1>4, <2>2, <2>3, <2>4, <2>5, RowStep
  <1>7. ASSUME DeactivateBarcode(r) PROVE BarcodesInv'
    <2>0. /\ [row EXCEPT !.active = FALSE, !.primary = FALSE] \in LabelRow
          /\ [row EXCEPT !.active = FALSE, !.primary = FALSE].owner = x
          /\ [row EXCEPT !.active = FALSE, !.primary = FALSE].code = row.code
          /\ ~[row EXCEPT !.active = FALSE, !.primary = FALSE].primary
          /\ ~[row EXCEPT !.active = FALSE, !.primary = FALSE].active
      BY <1>3 DEF LabelRow
    <2>1. PICK new \in LabelRow : /\ new = [row EXCEPT !.active = FALSE, !.primary = FALSE]
                                  /\ new.owner = x /\ new.code = row.code /\ ~new.primary /\ ~new.active
      BY <2>0
    <2>2. label' = [label EXCEPT ![r] = new]
      BY <1>1, <1>3, <1>7, <2>1 DEF DeactivateBarcode
    <2>3. label' \in [Label -> {NoLabel} \cup LabelRow] /\ label'[r] = new /\ \A q \in Label : q # r => label'[q] = label[q]
      BY <1>1, <2>2
    <2> QED
      BY <1>2, <1>3, <1>4, <2>1, <2>3, RowStep
  <1> QED
    BY <1>5, <1>6, <1>7

\* A call in flight, and its owner; who is not mixed has one primary row unless it is to promote one.
LEMMA CallInFlight ==
  ASSUME BarcodesAssumption, BarcodesInv, NEW w \in LabelClerk, NEW doing, doing = labelCall[w], doing # <<>>
  PROVE  \E x \in LabelOwner :
           /\ InOrder(doing, x) /\ InOrder(labelCall[w], x) /\ Head(doing).owner = x /\ Tail(doing) \in Seq(LabelStep)
           /\ x \notin mixed => /\ Head(doing).do # "promote" => OneActive(Primary(x))
                                /\ x \in Single => OneActive(Active(x))
  <1>1. BarcodesTypeOK
    BY DEF BarcodesInv
  <1>2. PICK x \in LabelOwner : InOrder(doing, x)
    BY DEF BarcodesInv
  <1>3. InOrder(labelCall[w], x)
    BY <1>2
  <1>4. doing \in Seq(LabelStep) /\ Head(doing).owner = x
    BY <1>1, <1>2, CallShape
  <1>5. Tail(doing) \in Seq(LabelStep)
    BY <1>4
  <1>6. ASSUME x \notin mixed, Head(doing).do # "promote" PROVE OneActive(Primary(x))
    <2>1. \A v \in LabelClerk : InOrder(labelCall[v], x) => Head(labelCall[v]).do # "promote"
      BY <1>3, <1>6, ClearFollows
    <2> QED
      BY <1>6, <2>1, ClearFollows
  <1>7. x \notin mixed /\ x \in Single => OneActive(Active(x))
    BY ClearFollows
  <1> QED
    BY <1>2, <1>3, <1>4, <1>5, <1>6, <1>7

\* A step that leaves the rows alone, and a call that is broken off.
LEMMA CheckAndBreakSteps ==
  ASSUME BarcodesAssumption, BarcodesInv, NEW w \in LabelClerk, CheckMultiplicity(w) \/ BreakCall(w)
  PROVE  BarcodesInv'
  <1>1. BarcodesTypeOK /\ labelCall \in [LabelClerk -> Seq(LabelStep)] /\ mixed \subseteq LabelOwner
    BY DEF BarcodesInv, BarcodesTypeOK
  <1>2. PICK doing : doing = labelCall[w]
    OBVIOUS
  <1>3. doing # <<>> /\ label' = label
    BY <1>2 DEF CheckMultiplicity, BreakCall, Next1
  <1>4. PICK x \in LabelOwner :
           /\ InOrder(doing, x) /\ InOrder(labelCall[w], x) /\ Head(doing).owner = x /\ Tail(doing) \in Seq(LabelStep)
           /\ x \notin mixed => /\ Head(doing).do # "promote" => OneActive(Primary(x))
                                /\ x \in Single => OneActive(Active(x))
    BY <1>2, <1>3, CallInFlight
  <1>5. /\ \A r \in Label : Known(r) => label'[r].owner = label[r].owner
        /\ \A o \in LabelOwner : Active(o)' = Active(o) /\ Primary(o)' = Primary(o)
        /\ \A c \in ScanCode : OneActive(WithCode(c))'
    BY <1>3 DEF Active, Primary, Owned, BarcodesInv, OneActive, WithCode, Known
  <1>6. ASSUME CheckMultiplicity(w) PROVE BarcodesInv'
    <2>1. /\ Head(doing).do = "check" /\ Free(x, Head(doing).except) /\ mixed' = mixed
          /\ labelCall' = [labelCall EXCEPT ![w] = Tail(doing)]
      BY <1>2, <1>4, <1>6 DEF CheckMultiplicity, Next1, Continue
    <2>2. InOrder(Tail(doing), x)'
      <3>1. \A S : Free(x, S) => Vacant(x, S)'
        BY <1>5, <2>1 DEF Free, Vacant
      <3>2. \/ \E c \in ScanCode, primary \in BOOLEAN : Head(doing).except = {} /\ Tail(doing) = <<Enter(x, c, primary)>>
            \/ \E r \in Owned(x) : Head(doing).except = {r} /\ Tail(doing) = <<Wake(x, r)>>
        BY <1>1, <1>4, <2>1, CallShape
      <3>3. ASSUME NEW c \in ScanCode, NEW primary \in BOOLEAN, Head(doing).except = {}, Tail(doing) = <<Enter(x, c, primary)>>
            PROVE  InOrder(Tail(doing), x)'
        <4>1. Registering(Tail(doing), x)'
          BY <2>1, <3>1, <3>3 DEF Registering
        <4> QED
          BY <4>1 DEF InOrder
      <3>4. ASSUME NEW r \in Owned(x), Head(doing).except = {r}, Tail(doing) = <<Wake(x, r)>>
            PROVE  InOrder(Tail(doing), x)'
        <4>1. r \in Owned(x)'
          BY <1>3 DEF Owned
        <4>2. Waking(Tail(doing), x)'
          BY <2>1, <3>1, <3>4, <4>1 DEF Waking
        <4> QED
          BY <4>2 DEF InOrder
      <3> QED
        BY <3>2, <3>3, <3>4
    <2>3. BarcodesTypeOK'
      BY <1>1, <1>3, <1>4, <2>1 DEF BarcodesTypeOK
    <2>4. x \notin mixed' => OneActive(Primary(x))' /\ (x \in Single => OneActive(Active(x))')
      BY <1>4, <1>5, <2>1 DEF OneActive
    <2>5. PICK rest : rest = Tail(doing)
      OBVIOUS
    <2>6. labelCall' = [labelCall EXCEPT ![w] = rest] /\ InOrder(rest, x)'
      BY <2>1, <2>2, <2>5
    <2>7. /\ mixed \subseteq mixed' /\ (x \notin mixed' => OneActive(Primary(x))' \/ Entered(rest))
          /\ x \notin mixed' /\ x \in Single => OneActive(Active(x))'
          /\ \A o \in LabelOwner \ mixed' : o # x => Active(o)' \subseteq Active(o) /\ Primary(o)' \subseteq Primary(o)
      BY <1>5, <2>1, <2>4
    <2> QED
      BY <1>4, <1>5, <2>3, <2>6, <2>7, CallContinues
  <1>7. ASSUME BreakCall(w) PROVE BarcodesInv'
    <2>1. /\ labelCall' = [labelCall EXCEPT ![w] = <<>>] /\ mixed \subseteq mixed' /\ mixed' \subseteq LabelOwner
          /\ x \notin mixed' => Head(doing).do \in {"check", "register"}
      BY <1>1, <1>2, <1>3, <1>4, <1>7 DEF BreakCall, Next1
    <2>2. BarcodesTypeOK'
      BY <1>1, <1>3, <2>1 DEF BarcodesTypeOK
    <2>3. x \notin mixed' => OneActive(Primary(x))' /\ (x \in Single => OneActive(Active(x))')
      BY <1>4, <1>5, <2>1 DEF OneActive
    <2> QED
      BY <1>4, <1>5, <2>1, <2>2, <2>3, CallContinues
  <1> QED
    BY <1>6, <1>7

\* The last step of a call on rows of x that were known before.
LEMMA CallEnds ==
  ASSUME BarcodesAssumption, BarcodesInv, NEW w \in LabelClerk, NEW x \in LabelOwner, InOrder(labelCall[w], x),
         labelCall' = [labelCall EXCEPT ![w] = <<>>], mixed' = mixed, label' \in [Label -> {NoLabel} \cup LabelRow],
         \A r \in Label : Known(r)' => Known(r), \A r \in Label : Known(r) => label'[r].owner = label[r].owner,
         \A o \in LabelOwner \ mixed' : o # x => Active(o)' \subseteq Active(o) /\ Primary(o)' \subseteq Primary(o),
         \A c \in ScanCode : OneActive(WithCode(c))',
         x \notin mixed => OneActive(Primary(x))',
         x \notin mixed /\ x \in Single => OneActive(Active(x))'
  PROVE  BarcodesInv'
  <1>1. BarcodesTypeOK'
    BY DEF BarcodesInv, BarcodesTypeOK
  <1> QED
    BY <1>1, CallContinues

\* The promoted row is the one primary of its owner.
LEMMA PromoteStep ==
  ASSUME BarcodesAssumption, BarcodesInv, NEW w \in LabelClerk, PromoteRow(w)
  PROVE  BarcodesInv'
  <1>1. BarcodesTypeOK
    BY DEF BarcodesInv
  <1>2. PICK doing : doing = labelCall[w]
    OBVIOUS
  <1>3. doing # <<>> /\ Head(doing).do = "promote"
    BY <1>2 DEF PromoteRow, Next1
  <1>4. PICK x \in LabelOwner :
           /\ InOrder(doing, x) /\ InOrder(labelCall[w], x) /\ Head(doing).owner = x
           /\ x \notin mixed => (x \in Single => OneActive(Active(x)))
    BY <1>2, <1>3, CallInFlight
  <1>5. PICK r \in Label :
           /\ r = Head(doing).row /\ Known(r) /\ Vacant(x, {r}) /\ Tail(doing) = <<>>
           /\ label[r].owner = x \/ (x \in mixed /\ label[r].owner \in mixed)
    BY <1>1, <1>3, <1>4, CallShape
  <1>6. label' = Promoted(x, r) /\ labelCall' = [labelCall EXCEPT ![w] = <<>>] /\ mixed' = mixed
    BY <1>2, <1>4, <1>5 DEF PromoteRow, Continue
  <1>7. /\ label' \in [Label -> {NoLabel} \cup LabelRow] /\ TakenDown(x, r)
        /\ label'[r] \in LabelRow /\ label'[r].owner = label[r].owner /\ label'[r].code = label[r].code
    BY <1>1, <1>5, <1>6, PromotedRows
  <1>8. ASSUME NEW q \in Label, q # r
        PROVE  \/ label'[q] = label[q] /\ label[q].owner # x
               \/ /\ Known(q) /\ label[q].owner = x /\ label'[q].owner = x /\ label'[q].code = label[q].code
                  /\ label'[q].active = label[q].active /\ ~label'[q].primary
    BY <1>7, <1>8 DEF TakenDown
  <1>9. /\ \A q \in Label : Known(q) => label'[q].owner = label[q].owner
        /\ \A q \in Label : Known(q)' => Known(q) /\ label'[q].code = label[q].code
    BY <1>5, <1>7, <1>8 DEF Known
  <1>10. \A c \in ScanCode : OneActive(WithCode(c))'
    BY <1>9 DEF BarcodesInv, OneActive, WithCode
  <1>11. ASSUME NEW o \in LabelOwner \ mixed', o # x
         PROVE  Active(o)' \subseteq Active(o) /\ Primary(o)' \subseteq Primary(o)
    <2>1. label'[r].owner # o
      BY <1>5, <1>6, <1>7, <1>11
    <2>2. \A q \in Label : label'[q].owner = o => label'[q] = label[q]
      BY <1>8, <1>11, <2>1
    <2> QED
      BY <2>2 DEF Active, Primary, Owned
  <1>12. ASSUME x \notin mixed PROVE OneActive(Primary(x))'
    <2>1. \A q \in Primary(x)' : q = r
      BY <1>8 DEF Primary, Owned
    <2> QED
      BY <2>1 DEF OneActive
  <1>13. ASSUME x \notin mixed, x \in Single PROVE OneActive(Active(x))'
    <2>1. Active(x) \subseteq {r}
      BY <1>5, <1>13 DEF Vacant
    <2>2. \A q \in Active(x)' : q = r
      <3> SUFFICES ASSUME NEW q \in Label, q # r, label'[q].owner = x, label'[q].active PROVE FALSE
        BY DEF Active, Owned
      <3>1. label[q].owner = x /\ label[q].active
        BY <1>8
      <3>2. q \in Active(x)
        BY <3>1 DEF Active, Owned
      <3> QED
        BY <2>1, <3>2
    <2> QED
      BY <2>2 DEF OneActive
  <1> QED
    BY <1>4, <1>6, <1>7, <1>9, <1>10, <1>11, <1>12, <1>13, CallEnds

\* A row wakes up where there is no other active one.
LEMMA WakeStep ==
  ASSUME BarcodesAssumption, BarcodesInv, NEW w \in LabelClerk, WakeRow(w)
  PROVE  BarcodesInv'
  <1>1. BarcodesTypeOK /\ label \in [Label -> {NoLabel} \cup LabelRow]
    BY DEF BarcodesInv, BarcodesTypeOK
  <1>2. PICK doing : doing = labelCall[w]
    OBVIOUS
  <1>3. doing # <<>> /\ Head(doing).do = "wake"
    BY <1>2 DEF WakeRow, Next1
  <1>4. PICK x \in LabelOwner :
           /\ InOrder(doing, x) /\ InOrder(labelCall[w], x) /\ Head(doing).owner = x
           /\ x \notin mixed => OneActive(Primary(x))
    BY <1>2, <1>3, CallInFlight
  <1>5. PICK r \in Label : r = Head(doing).row /\ r \in Owned(x) /\ Vacant(x, {r}) /\ Tail(doing) = <<>>
    <2>1. Owned(x) \subseteq Label
      BY DEF Owned
    <2> QED
      BY <1>1, <1>3, <1>4, <2>1, CallShape
  <1>6. PICK row \in LabelRow : row = label[r] /\ row.owner = x /\ Known(r)
    BY <1>1, <1>5, LabelTypes
  <1>7. [row EXCEPT !.active = TRUE] \in LabelRow /\ [row EXCEPT !.active = TRUE].owner = x
        /\ [row EXCEPT !.active = TRUE].code = row.code /\ [row EXCEPT !.active = TRUE].primary = row.primary
    BY <1>6 DEF LabelRow
  <1>8. PICK new \in LabelRow : /\ new = [row EXCEPT !.active = TRUE]
                                /\ new.owner = x /\ new.code = row.code /\ new.primary = row.primary
    BY <1>7
  <1>9. label' = [label EXCEPT ![r] = new] /\ labelCall' = [labelCall EXCEPT ![w] = <<>>] /\ mixed' = mixed
    BY <1>1, <1>2, <1>5, <1>6, <1>8 DEF WakeRow, Continue
  <1>10. /\ label' \in [Label -> {NoLabel} \cup LabelRow]
         /\ \A q \in Label : label'[q] = IF q = r THEN new ELSE label[q]
    BY <1>1, <1>9
  <1>11. /\ \A q \in Label : Known(q) => label'[q].owner = label[q].owner
         /\ \A o \in LabelOwner : o # x => Active(o)' \subseteq Active(o) /\ Primary(o)' \subseteq Primary(o)
    <2>1. \A q \in Label : label'[q] = label[q] \/ (label'[q].owner = x /\ label[q].owner \in {x, "none"})
      BY <1>6, <1>8, <1>10
    <2> QED
      BY <1>1, <2>1, RowsOfOne
  <1>12. \A q \in Label : Known(q)' => Known(q) /\ label'[q].code = label[q].code
    BY <1>6, <1>8, <1>10 DEF Known
  <1>13. \A c \in ScanCode : OneActive(WithCode(c))'
    BY <1>12 DEF BarcodesInv, OneActive, WithCode
  <1>14. x \notin mixed => OneActive(Primary(x))'
    <2>1. \A q \in Primary(x)' : q \in Primary(x)
      BY <1>6, <1>8, <1>10 DEF Primary, Owned
    <2> QED
      BY <1>4, <2>1 DEF OneActive
  <1>15. ASSUME x \notin mixed, x \in Single PROVE OneActive(Active(x))'
    <2>1. Active(x) \subseteq {r}
      BY <1>5, <1>15 DEF Vacant
    <2>2. \A q \in Active(x)' : q = r
      BY <1>10, <2>1 DEF Active, Owned
    <2> QED
      BY <2>2 DEF OneActive
  <1> QED
    BY <1>4, <1>9, <1>10, <1>11, <1>12, <1>13, <1>14, <1>15, CallEnds

\* The others of an owner are taken down before a row is written as primary.
LEMMA DemoteStep ==
  ASSUME BarcodesAssumption, BarcodesInv, NEW w \in LabelClerk, DemoteOthers(w)
  PROVE  BarcodesInv'
  <1>1. BarcodesTypeOK /\ label \in [Label -> {NoLabel} \cup LabelRow] /\ labelCall \in [LabelClerk -> Seq(LabelStep)]
    BY DEF BarcodesInv, BarcodesTypeOK
  <1>2. PICK doing : doing = labelCall[w]
    OBVIOUS
  <1>3. doing # <<>> /\ Head(doing).do = "demote"
    BY <1>2 DEF DemoteOthers, Next1
  <1>4. PICK x \in LabelOwner :
           /\ InOrder(doing, x) /\ InOrder(labelCall[w], x) /\ Head(doing).owner = x /\ Tail(doing) \in Seq(LabelStep)
           /\ x \notin mixed => (x \in Single => OneActive(Active(x)))
    BY <1>2, <1>3, CallInFlight
  <1>5. PICK r \in Label, c \in ScanCode : r = Head(doing).row /\ r \in Owned(x) /\ Tail(doing) = <<Put(x, r, c, TRUE)>>
    <2>1. Owned(x) \subseteq Label
      BY DEF Owned
    <2>2. Head(doing).row \in Owned(x)
      BY <1>1, <1>3, <1>4, CallShape
    <2>3. \E c \in ScanCode : Tail(doing) = <<Put(x, Head(doing).row, c, TRUE)>>
      BY <1>1, <1>3, <1>4, CallShape
    <2> QED
      BY <2>1, <2>2, <2>3
  <1>6. PICK rest \in Seq(LabelStep) : rest = Tail(doing)
    BY <1>4
  <1>7. /\ label' = [q \in Label |-> IF q \in Owned(x) \ {r} THEN [label[q] EXCEPT !.primary = FALSE] ELSE label[q]]
        /\ labelCall' = [labelCall EXCEPT ![w] = rest] /\ mixed' = mixed
    BY <1>2, <1>4, <1>5, <1>6 DEF DemoteOthers, Continue
  <1>8. \A row \in LabelRow : /\ [row EXCEPT !.primary = FALSE] \in LabelRow
                              /\ [row EXCEPT !.primary = FALSE].owner = row.owner
                              /\ [row EXCEPT !.primary = FALSE].code = row.code
                              /\ [row EXCEPT !.primary = FALSE].active = row.active
                              /\ ~[row EXCEPT !.primary = FALSE].primary
    BY DEF LabelRow
  <1>9. ASSUME NEW q \in Label
        PROVE  \/ label'[q] = label[q] /\ q \notin Owned(x) \ {r}
               \/ /\ Known(q) /\ label[q].owner = x /\ label'[q].owner = x /\ label'[q].code = label[q].code
                  /\ label'[q].active = label[q].active /\ ~label'[q].primary /\ label'[q] \in LabelRow
    <2>1. CASE q \notin Owned(x) \ {r}
      BY <1>7, <2>1
    <2>2. CASE q \in Owned(x) \ {r}
      <3>1. PICK row \in LabelRow : row = label[q] /\ row.owner = x /\ Known(q)
        BY <1>1, <2>2, LabelTypes
      <3>2. label'[q] = [row EXCEPT !.primary = FALSE]
        BY <1>7, <2>2, <3>1
      <3> QED
        BY <1>8, <3>1, <3>2
    <2> QED
      BY <2>1, <2>2
  <1>10. label' \in [Label -> {NoLabel} \cup LabelRow]
    <2>1. \A q \in Label : label'[q] \in {NoLabel} \cup LabelRow
      BY <1>1, <1>9
    <2>2. label' = [q \in Label |-> label'[q]]
      BY <1>7
    <2> QED
      BY <2>1, <2>2
  <1>11. /\ \A q \in Label : Known(q) => label'[q].owner = label[q].owner
         /\ \A o \in LabelOwner : o # x => Active(o)' \subseteq Active(o) /\ Primary(o)' \subseteq Primary(o)
    <2>1. \A q \in Label : label'[q] = label[q] \/ (label'[q].owner = x /\ label[q].owner \in {x, "none"})
      BY <1>9
    <2> QED
      BY <1>1, <2>1, RowsOfOne
  <1>12. \A q \in Label : Known(q)' => Known(q) /\ label'[q].code = label[q].code
    BY <1>9 DEF Known
  <1>13. \A d \in ScanCode : OneActive(WithCode(d))'
    BY <1>12 DEF BarcodesInv, OneActive, WithCode
  <1>14. \A q \in Primary(x)' : q = r
    <2> SUFFICES ASSUME NEW q \in Label, label'[q].owner = x, label'[q].primary, q # r PROVE FALSE
      BY DEF Primary, Owned
    <2>1. q \notin Owned(x) /\ label'[q] = label[q]
      BY <1>9
    <2> QED
      BY <2>1 DEF Owned
  <1>15. OneActive(Primary(x))'
    BY <1>14 DEF OneActive
  <1>16. x \notin mixed /\ x \in Single => OneActive(Active(x))'
    <2>1. \A q \in Active(x)' : q \in Active(x)
      BY <1>9 DEF Active, Owned
    <2> QED
      BY <1>4, <2>1 DEF OneActive
  <1>17. InOrder(rest, x)'
    <2>1. r \in Owned(x)'
      <3>1. label'[r].owner = x
        BY <1>5, <1>9 DEF Owned
      <3> QED
        BY <3>1 DEF Owned
    <2>2. Writing(rest, x)'
      BY <1>5, <1>6, <1>14, <2>1 DEF Writing
    <2> QED
      BY <2>2 DEF InOrder
  <1>18. BarcodesTypeOK'
    BY <1>1, <1>7, <1>10 DEF BarcodesTypeOK
  <1> QED
    BY <1>4, <1>7, <1>11, <1>13, <1>15, <1>16, <1>17, <1>18, CallContinues

\* A row gets a code that no other row has.
LEMMA WriteStep ==
  ASSUME BarcodesAssumption, BarcodesInv, NEW w \in LabelClerk, WriteLabel(w)
  PROVE  BarcodesInv'
  <1>1. BarcodesTypeOK /\ label \in [Label -> {NoLabel} \cup LabelRow]
    BY DEF BarcodesInv, BarcodesTypeOK
  <1>2. PICK doing : doing = labelCall[w]
    OBVIOUS
  <1>3. doing # <<>> /\ Head(doing).do = "write"
    BY <1>2 DEF WriteLabel, Next1
  <1>4. PICK x \in LabelOwner :
           /\ InOrder(doing, x) /\ InOrder(labelCall[w], x) /\ Head(doing).owner = x
           /\ x \notin mixed => OneActive(Primary(x)) /\ (x \in Single => OneActive(Active(x)))
    BY <1>2, <1>3, CallInFlight
  <1>5. /\ Head(doing).row \in Owned(x) /\ Head(doing).code \in ScanCode /\ Head(doing).primary \in BOOLEAN
        /\ x \notin mixed /\ Head(doing).primary => Primary(x) \subseteq {Head(doing).row}
        /\ Tail(doing) = <<>>
    BY <1>1, <1>3, <1>4, CallShape
  <1>6. PICK r \in Label, c \in ScanCode, p \in BOOLEAN : r = Head(doing).row /\ c = Head(doing).code /\ p = Head(doing).primary
    BY <1>5 DEF Owned
  <1>7. PICK row \in LabelRow : row = label[r] /\ row.owner = x /\ Known(r)
    BY <1>1, <1>5, <1>6, LabelTypes
  <1>8. PICK primary \in BOOLEAN :
          /\ primary \in {p, p \/ row.primary}
          /\ label' = [label EXCEPT ![r].code = c, ![r].primary = primary]
    BY <1>2, <1>6, <1>7 DEF WriteLabel, LabelRow
  <1>9. /\ [row EXCEPT !.code = c, !.primary = primary] \in LabelRow
        /\ [row EXCEPT !.code = c, !.primary = primary].owner = x
        /\ [row EXCEPT !.code = c, !.primary = primary].code = c
        /\ [row EXCEPT !.code = c, !.primary = primary].active = row.active
        /\ [row EXCEPT !.code = c, !.primary = primary].primary = primary
    BY <1>7 DEF LabelRow
  <1>10. PICK new \in LabelRow : /\ new = [row EXCEPT !.code = c, !.primary = primary]
                                 /\ new.owner = x /\ new.code = c /\ new.active = row.active /\ new.primary = primary
    BY <1>9
  <1>11. label' = [label EXCEPT ![r] = new] /\ labelCall' = [labelCall EXCEPT ![w] = <<>>] /\ mixed' = mixed
    BY <1>1, <1>2, <1>5, <1>7, <1>8, <1>10 DEF WriteLabel, Continue
  <1>12. /\ label' \in [Label -> {NoLabel} \cup LabelRow]
         /\ \A q \in Label : label'[q] = IF q = r THEN new ELSE label[q]
    BY <1>1, <1>11
  <1>13. /\ \A q \in Label : Known(q) => label'[q].owner = label[q].owner
         /\ \A o \in LabelOwner : o # x => Active(o)' \subseteq Active(o) /\ Primary(o)' \subseteq Primary(o)
    <2>1. \A q \in Label : label'[q] = label[q] \/ (label'[q].owner = x /\ label[q].owner \in {x, "none"})
      BY <1>7, <1>10, <1>12
    <2> QED
      BY <1>1, <2>1, RowsOfOne
  <1>14. \A q \in Label : /\ Known(q)' => Known(q)
                          /\ q # r => label'[q].code = label[q].code
    BY <1>7, <1>12 DEF Known
  <1>15. \A d \in ScanCode : OneActive(WithCode(d))'
    <2>1. WithCode(c) \subseteq {r}
      BY <1>2, <1>6 DEF WriteLabel
    <2>2. label'[r].code = c
      BY <1>10, <1>12
    <2> QED
      BY <1>14, <2>1, <2>2, CodesKept
  <1>16. x \notin mixed => OneActive(Primary(x))'
    <2>1. CASE p
      <3>1. x \notin mixed => \A q \in Primary(x)' : q = r
        BY <1>5, <1>6, <1>12, <2>1 DEF Primary, Owned
      <3> QED
        BY <3>1 DEF OneActive
    <2>2. CASE ~p
      <3>1. new.primary => row.primary
        BY <1>8, <1>10, <2>2
      <3>2. \A q \in Primary(x)' : q \in Primary(x)
        BY <1>7, <1>12, <3>1 DEF Primary, Owned
      <3> QED
        BY <1>4, <3>2 DEF OneActive
    <2> QED
      BY <2>1, <2>2
  <1>17. x \notin mixed /\ x \in Single => OneActive(Active(x))'
    <2>1. \A q \in Active(x)' : q \in Active(x)
      BY <1>7, <1>10, <1>12 DEF Active, Owned
    <2> QED
      BY <1>4, <2>1 DEF OneActive
  <1> QED
    BY <1>4, <1>11, <1>12, <1>13, <1>14, <1>15, <1>16, <1>17, CallEnds

\* A code that is known mixes its owner with who registers it; a new one is the only active
\* row of an owner that may have one only, and is about to be promoted if it is to be primary.
LEMMA RegisterStep ==
  ASSUME BarcodesAssumption, BarcodesInv, NEW w \in LabelClerk, RegisterCode(w)
  PROVE  BarcodesInv'
  <1>1. /\ BarcodesTypeOK /\ label \in [Label -> {NoLabel} \cup LabelRow] /\ labelCall \in [LabelClerk -> Seq(LabelStep)]
        /\ mixed \subseteq LabelOwner
    BY DEF BarcodesInv, BarcodesTypeOK
  <1>2. PICK doing : doing = labelCall[w]
    OBVIOUS
  <1>3. doing # <<>> /\ Head(doing).do = "register"
    BY <1>2 DEF RegisterCode, Next1
  <1>4. PICK x \in LabelOwner :
           /\ InOrder(doing, x) /\ InOrder(labelCall[w], x) /\ Head(doing).owner = x
           /\ x \notin mixed => OneActive(Primary(x)) /\ (x \in Single => OneActive(Active(x)))
    BY <1>2, <1>3, CallInFlight
  <1>5. PICK c \in ScanCode, p \in BOOLEAN : c = Head(doing).code /\ p = Head(doing).primary /\ Vacant(x, {})
    BY <1>1, <1>3, <1>4, CallShape
  <1>6. \/ \E r \in WithCode(c) :
             /\ labelCall' = [labelCall EXCEPT ![w] = IF p THEN <<Promote(x, r)>> ELSE <<>>]
             /\ mixed' = mixed \cup {x, label[r].owner}
             /\ UNCHANGED label
        \/ \E r \in Label :
             /\ WithCode(c) = {} /\ ~Known(r)
             /\ label' = [label EXCEPT ![r] = [owner |-> x, code |-> c, active |-> TRUE, primary |-> p]]
             /\ labelCall' = [labelCall EXCEPT ![w] = IF p THEN <<Promote(x, r)>> ELSE <<>>]
             /\ UNCHANGED mixed
    BY <1>2, <1>4, <1>5 DEF RegisterCode, Promote
  <1>7. ASSUME NEW r \in Label, NEW rest, rest = IF p THEN <<Promote(x, r)>> ELSE <<>>
        PROVE  rest \in Seq(LabelStep) /\ (p => Entered(rest)) /\ (~p => rest = <<>>)
    <2>0. Promote(x, r) \in LabelStep /\ Promote(x, r).do = "promote"
      BY DEF Promote, LabelStep
    <2>1. PICK a \in LabelStep : a = Promote(x, r) /\ a.do = "promote"
      BY <2>0
    <2>2. <<a>> \in Seq(LabelStep) /\ <<a>> # <<>> /\ Head(<<a>>) = a /\ <<>> \in Seq(LabelStep)
      OBVIOUS
    <2> QED
      BY <1>7, <2>1, <2>2 DEF Entered
  <1>8. ASSUME NEW r \in WithCode(c), labelCall' = [labelCall EXCEPT ![w] = IF p THEN <<Promote(x, r)>> ELSE <<>>],
               mixed' = mixed \cup {x, label[r].owner}, UNCHANGED label
        PROVE  BarcodesInv'
    <2>1. r \in Label /\ Known(r) /\ label[r].owner \in LabelOwner
      BY <1>1, LabelTypes DEF WithCode
    <2>2. PICK rest : rest = IF p THEN <<Promote(x, r)>> ELSE <<>>
      OBVIOUS
    <2>3. rest \in Seq(LabelStep) /\ labelCall' = [labelCall EXCEPT ![w] = rest]
      BY <1>7, <1>8, <2>1, <2>2
    <2>4. rest = <<>> \/ InOrder(rest, x)'
      <3>1. ASSUME p PROVE Promoting(rest, x)'
        <4>1. rest = <<Promote(x, r)>> /\ x \in mixed' /\ label'[r].owner \in mixed'
          BY <1>8, <2>2, <3>1
        <4>2. Known(r)'
          BY <1>8, <2>1 DEF Known
        <4> QED
          BY <2>1, <4>1, <4>2 DEF Promoting, Vacant
      <3> QED
        BY <2>2, <3>1 DEF InOrder
    <2>5. BarcodesTypeOK'
      BY <1>1, <1>8, <2>1, <2>3 DEF BarcodesTypeOK
    <2>6. /\ \A q \in Label : Known(q) => label'[q].owner = label[q].owner
          /\ \A o \in LabelOwner : Active(o)' \subseteq Active(o) /\ Primary(o)' \subseteq Primary(o)
          /\ \A d \in ScanCode : OneActive(WithCode(d))'
      BY <1>8 DEF Active, Primary, Owned, BarcodesInv, OneActive, WithCode, Known
    <2>7. mixed \subseteq mixed' /\ x \in mixed'
      BY <1>8
    <2> QED
      BY <1>4, <2>3, <2>4, <2>5, <2>6, <2>7, CallContinues
  <1>9. ASSUME NEW r \in Label, WithCode(c) = {}, ~Known(r),
               label' = [label EXCEPT ![r] = [owner |-> x, code |-> c, active |-> TRUE, primary |-> p]],
               labelCall' = [labelCall EXCEPT ![w] = IF p THEN <<Promote(x, r)>> ELSE <<>>], UNCHANGED mixed
        PROVE  BarcodesInv'
    <2>0. [owner |-> x, code |-> c, active |-> TRUE, primary |-> p] \in LabelRow
      BY DEF LabelRow
    <2>1. PICK new \in LabelRow : /\ new = [owner |-> x, code |-> c, active |-> TRUE, primary |-> p]
                                  /\ new.owner = x /\ new.code = c /\ new.active = TRUE /\ new.primary = p
      BY <2>0
    <2>2. /\ label' \in [Label -> {NoLabel} \cup LabelRow]
          /\ \A q \in Label : label'[q] = IF q = r THEN new ELSE label[q]
      BY <1>1, <1>9, <2>1
    <2>3. PICK rest : rest = IF p THEN <<Promote(x, r)>> ELSE <<>>
      OBVIOUS
    <2>4. rest \in Seq(LabelStep) /\ labelCall' = [labelCall EXCEPT ![w] = rest] /\ (p => Entered(rest))
      BY <1>7, <1>9, <2>3
    <2>5. BarcodesTypeOK'
      BY <1>1, <1>9, <2>2, <2>4 DEF BarcodesTypeOK
    <2>6. label[r].owner = "none"
      BY <1>1, <1>9, LabelTypes
    <2>7. /\ \A q \in Label : Known(q) => label'[q].owner = label[q].owner
          /\ \A o \in LabelOwner : o # x => Active(o)' \subseteq Active(o) /\ Primary(o)' \subseteq Primary(o)
      <3>1. \A q \in Label : label'[q] = label[q] \/ (label'[q].owner = x /\ label[q].owner \in {x, "none"})
        BY <2>1, <2>2, <2>6
      <3> QED
        BY <1>1, <3>1, RowsOfOne
    <2>8. \A d \in ScanCode : OneActive(WithCode(d))'
      <3>1. \A q \in Label : q # r /\ Known(q)' => Known(q) /\ label'[q].code = label[q].code
        BY <2>2 DEF Known
      <3>2. label'[r].code = c /\ WithCode(c) \subseteq {r}
        BY <1>9, <2>1, <2>2
      <3> QED
        BY <3>1, <3>2, CodesKept
    <2>9. x \notin mixed /\ x \in Single => \A q \in Active(x)' : q = r
      <3>1. x \notin mixed /\ x \in Single => Active(x) = {}
        BY <1>5 DEF Vacant
      <3> QED
        BY <2>2, <3>1 DEF Active, Owned
    <2>10. ~p /\ x \notin mixed => OneActive(Primary(x))'
      <3>1. ~p => \A q \in Primary(x)' : q \in Primary(x)
        BY <2>1, <2>2 DEF Primary, Owned
      <3> QED
        BY <1>4, <3>1 DEF OneActive
    <2>11. x \notin mixed /\ x \in Single => OneActive(Active(x))'
      BY <2>9 DEF OneActive
    <2>12. rest = <<>> \/ InOrder(rest, x)'
      <3>1. ASSUME p PROVE Promoting(rest, x)'
        <4>1. rest = <<Promote(x, r)>> /\ label'[r].owner = x
          BY <2>1, <2>2, <2>3, <3>1
        <4>2. Known(r)'
          <5>1. NoLabel.owner # x
            BY DEF NoLabel, BarcodesAssumption
          <5> QED
            BY <4>1, <5>1 DEF Known
        <4>3. Vacant(x, {r})'
          BY <1>9, <2>9 DEF Vacant
        <4> QED
          BY <4>1, <4>2, <4>3 DEF Promoting
      <3> QED
        BY <2>3, <3>1 DEF InOrder
    <2>13. /\ mixed' = mixed /\ (x \notin mixed' => OneActive(Primary(x))' \/ Entered(rest))
      BY <1>9, <2>4, <2>10
    <2> QED
      BY <1>4, <2>4, <2>5, <2>7, <2>8, <2>11, <2>12, <2>13, CallContinues
  <1> QED
    BY <1>6, <1>8, <1>9

\* What the invariant says of codes and owners.
LEMMA LabelsFollow ==
  ASSUME BarcodesAssumption, BarcodesInv
  PROVE  LabelsAreClear
  <1>1. BarcodesTypeOK /\ \A c \in ScanCode : Cardinality(WithCode(c)) <= 1
    BY OneActiveCounts DEF BarcodesInv
  <1>2. ASSUME NEW o \in LabelOwner \ mixed, ~InCall(o) PROVE Cardinality(Primary(o)) <= 1
    <2>1. \A w \in LabelClerk : ~InOrder(labelCall[w], o)
      BY <1>2, CallsInOrder
    <2>2. OneActive(Primary(o))
      BY <2>1, ClearFollows
    <2> QED
      BY <2>2, OneActiveCounts
  <1>3. ASSUME NEW o \in LabelOwner \ mixed, o \in Single PROVE Cardinality(Active(o)) <= 1
    BY <1>3, ClearFollows, OneActiveCounts
  <1> QED
    BY <1>1, <1>2, <1>3 DEF LabelsAreClear

(* However barcode operations interleave and wherever they break off: a code  *)
(* has one row, and an owner whose calls did not mix has one primary barcode, *)
(* and one active one where several are not allowed (InventoryAdminService,   *)
(* InventoryReadService, BarcodeRegistryService).                             *)
THEOREM LabelsStayClear == BarcodesSpec => []LabelsAreClear
  <1> USE BarcodesAssumption
  <1>1. BarcodesInit => BarcodesInv
    <2> SUFFICES ASSUME BarcodesInit PROVE BarcodesInv
      OBVIOUS
    <2>1. BarcodesTypeOK
      BY DEF BarcodesInit, BarcodesTypeOK
    <2>2. (\A r \in Label : label[r] = NoLabel) /\ \A w \in LabelClerk : labelCall[w] = <<>>
      BY DEF BarcodesInit
    <2>3. NoLabel.owner \notin LabelOwner
      BY DEF NoLabel, BarcodesAssumption
    <2>4. \A o \in LabelOwner : Primary(o) = {} /\ Active(o) = {}
      BY <2>2, <2>3 DEF Primary, Active, Owned
    <2>5. \A o \in LabelOwner, w \in LabelClerk : ~InOrder(labelCall[w], o)
      <3>1. \A o \in LabelOwner : ~InOrder(<<>>, o)
        BY OwnerOfCall
      <3> SUFFICES ASSUME NEW o \in LabelOwner, NEW w \in LabelClerk, InOrder(labelCall[w], o) PROVE FALSE
        OBVIOUS
      <3>2. PICK doing : doing = labelCall[w] /\ doing = <<>>
        BY <2>2
      <3> QED
        BY <3>1, <3>2
    <2>6. \A o \in LabelOwner : Clear(o)
      BY <2>4, <2>5 DEF Clear, OneActive
    <2>7. \A c \in ScanCode : WithCode(c) = {}
      BY <2>2 DEF WithCode, Known
    <2> QED
      BY <2>1, <2>2, <2>6, <2>7 DEF BarcodesInv, OneActive
  <1>2. BarcodesInv /\ [BarcodesNext]_labelVars => BarcodesInv'
    <2> SUFFICES ASSUME BarcodesInv, [BarcodesNext]_labelVars PROVE BarcodesInv'
      OBVIOUS
    <2>1. CASE UNCHANGED labelVars
      <3>1. UNCHANGED <<label, labelCall, mixed>>
        BY <2>1 DEF labelVars
      <3>2. /\ \A r \in Label : Known(r)' <=> Known(r)
            /\ \A o : Owned(o)' = Owned(o) /\ Primary(o)' = Primary(o) /\ Active(o)' = Active(o)
            /\ \A c : WithCode(c)' = WithCode(c)
        BY <3>1 DEF Known, Owned, Primary, Active, WithCode
      <3>3. \A o, S : Vacant(o, S)' <=> Vacant(o, S)
        BY <3>1, <3>2 DEF Vacant
      <3>4. \A o, doing : InOrder(doing, o)' <=> InOrder(doing, o)
        <4>1. \A o, doing : Registering(doing, o)' <=> Registering(doing, o)
          BY <3>3 DEF Registering
        <4>2. \A o, doing : Promoting(doing, o)' <=> Promoting(doing, o)
          BY <3>1, <3>2, <3>3 DEF Promoting
        <4>3. \A o, doing : Waking(doing, o)' <=> Waking(doing, o)
          BY <3>2, <3>3 DEF Waking
        <4>4. \A o, doing : Writing(doing, o)' <=> Writing(doing, o)
          BY <3>1, <3>2 DEF Writing
        <4> QED
          BY <4>1, <4>2, <4>3, <4>4 DEF InOrder
      <3>5. \A o : \A w \in LabelClerk : InOrder(labelCall[w], o)' <=> InOrder(labelCall[w], o)
        <4> SUFFICES ASSUME NEW o, NEW w \in LabelClerk PROVE InOrder(labelCall[w], o)' <=> InOrder(labelCall[w], o)
          OBVIOUS
        <4>1. PICK doing : doing = labelCall[w] /\ doing = labelCall'[w]
          BY <3>1
        <4> QED
          BY <3>4, <4>1
      <3>6. \A o : Clear(o)' <=> Clear(o)
        BY <3>1, <3>2, <3>5 DEF Clear, Entered, OneActive
      <3>7. BarcodesTypeOK'
        BY <3>1 DEF BarcodesInv, BarcodesTypeOK
      <3> QED
        BY <3>1, <3>2, <3>5, <3>6, <3>7 DEF BarcodesInv, OneActive
    <2>2. CASE BarcodesNext
      BY <2>2, BeginSteps, RowSteps, CheckAndBreakSteps, RegisterStep, PromoteStep, DemoteStep, WakeStep, WriteStep
         DEF BarcodesNext
    <2> QED
      BY <2>1, <2>2
  <1>3. BarcodesInv => LabelsAreClear
    BY LabelsFollow
  <1> QED
    BY <1>1, <1>2, <1>3, PTL DEF BarcodesSpec

-----------------------------------------------------------------------------
(* How one stock item is set up.  A line that is waiting is in a unit that   *)
(* the stock item has, and one that no change of the setup has outdated      *)
(* would be accepted again.                                                  *)
OpenLine == [stage : {"open"}, kind : {"order", "receipt"}, unit : Unit \cup {Null},
             quantity : Nat, base : Nat, papers : PaperSet, fresh : BOOLEAN]
MovedLine == [stage : {"moved"}, base : Nat, moved : Nat]

SetupRowsTyped ==
  /\ itemRow \in [mode : Mode, base : Unit \cup {Null}]
  /\ sellable \in BOOLEAN /\ kindActive \in BOOLEAN
  /\ optionRow \in [Option -> BOOLEAN] \cup {Null}
  /\ factor \in [Unit -> Nat] /\ \A u \in Unit : factor[u] \in FactorsOf[u] \cup {0}
  /\ conversions \subseteq Unit \X Unit
  /\ rule \in RuleInput \cup {Null}
  /\ changes \in 0..MaxSetup

SetupLinesTyped ==
  /\ setupLine \in [SetupLine -> {NoSetupLine} \cup OpenLine \cup MovedLine]
  /\ onHand \in Nat /\ assetsHere \in Int
  /\ blurred \in BOOLEAN

SetupCallsTyped ==
  setupCall \in [SetupClerk -> {NoSetupCall} \cup [op : {"options"}, given : Patch]
                               \cup [op : {"rule"}, given : RuleInput]]

\* What a call has still to write was looked at when it was accepted.
SetupCallsFit ==
  \A w \in SetupClerk :
    /\ setupCall[w].op = "options" => ~Refused(setupCall[w].given.options)
    /\ setupCall[w].op = "rule" =>
         /\ setupCall[w].given.min >= 0
         /\ setupCall[w].given.max # Null => setupCall[w].given.max >= setupCall[w].given.min

\* What the calls have named so far; without a row none has named an option.
NamedSoFar ==
  /\ named \in [Option -> BOOLEAN \cup {Null}] /\ alone \in BOOLEAN
  /\ optionRow = Null => \A o \in Option : named[o] = Null

\* A line that waits has the base quantity that its unit gives it, now and later.
OpenLineFits(l) ==
  setupLine[l].stage = "open" =>
    /\ setupLine[l].unit # Null => factor[setupLine[l].unit] > 0
    /\ setupLine[l].base = BaseQuantity(setupLine[l].unit, setupLine[l].quantity)

\* A line that no change has outdated would be accepted again.
FreshLineFits(l) ==
  setupLine[l].stage = "open" /\ setupLine[l].fresh =>
    /\ Resolves(setupLine[l].unit)
    /\ setupLine[l].kind = "order" => AssetsGiven(setupLine[l].papers)
    /\ setupLine[l].kind = "receipt" => ReceiptAllowed(setupLine[l].unit, setupLine[l].papers)

\* A line was moved with the quantity it was accepted with.
MovedLineFits(l) == setupLine[l].stage = "moved" => setupLine[l].moved = setupLine[l].base

LinesFit == \A l \in SetupLine : OpenLineFits(l) /\ FreshLineFits(l) /\ MovedLineFits(l)

SetupTypedInv == SetupRowsTyped /\ SetupLinesTyped /\ SetupCallsTyped

SetupInv ==
  /\ SetupTypedInv
  /\ SetupCallsFit /\ NamedSoFar /\ LinesFit
  /\ OptionsKeep /\ UnitsAndRulesFit /\ AssetsMatchUnits

(* The invariant is what is claimed, and more.                               *)
LEMMA SetupInvIsSound ==
  ASSUME StockItemSetupAssumption, SetupInv PROVE SetupIsSound
<1>1. SetupTypeOK
  <2>1. \A l \in SetupLine : setupLine[l].stage \in {"none", "open", "moved"}
    BY DEF SetupInv, SetupTypedInv, SetupLinesTyped, NoSetupLine, OpenLine, MovedLine
  <2> QED
    BY <2>1 DEF SetupInv, SetupTypedInv, SetupRowsTyped, SetupLinesTyped, SetupCallsTyped,
       SetupTypeOK
<1>2. AcceptedCanMove
  <2> SUFFICES ASSUME NEW l \in SetupLine
               PROVE /\ setupLine[l].stage = "moved" => setupLine[l].moved = setupLine[l].base
                     /\ setupLine[l].stage = "open" =>
                          /\ setupLine[l].base = BaseQuantity(setupLine[l].unit, setupLine[l].quantity)
                          /\ setupLine[l].fresh /\ setupLine[l].kind = "order" =>
                               (MayStockOut(setupLine[l])
                                  <=> AvailabilityCovers(setupLine[l].unit, setupLine[l].quantity))
                          /\ setupLine[l].fresh /\ setupLine[l].kind = "receipt" =>
                               (MayStockIn(setupLine[l]) <=> AssetsGiven(setupLine[l].papers))
    BY DEF AcceptedCanMove
  <2>1. OpenLineFits(l) /\ FreshLineFits(l) /\ MovedLineFits(l)
    BY DEF SetupInv, LinesFit
  <2>2. BaseQuantity(setupLine[l].unit, setupLine[l].quantity) <= onHand
          <=> AvailabilityCovers(setupLine[l].unit, setupLine[l].quantity)
    BY DEF BaseQuantity, AvailabilityCovers
  <2> QED
    BY <2>1, <2>2 DEF OpenLineFits, FreshLineFits, MovedLineFits, MayStockOut, MayStockIn
<1> QED
  BY <1>1, <1>2 DEF SetupInv, SetupIsSound

(* What is there at the start.                                               *)
LEMMA SetupInvAtFirst ==
  ASSUME StockItemSetupAssumption, SetupInit PROVE SetupInv
<1>1. SetupRowsTyped
  BY DEF SetupInit, SetupRowsTyped, StockItemSetupAssumption, Mode
<1>2. SetupLinesTyped /\ SetupCallsTyped
  <2>1. SetupLinesTyped
    <3>1. setupLine \in [SetupLine -> {NoSetupLine}]
      BY DEF SetupInit
    <3>2. setupLine \in [SetupLine -> {NoSetupLine} \cup OpenLine \cup MovedLine]
      BY <3>1
    <3>3. onHand \in Nat /\ assetsHere \in Int
      BY DEF SetupInit
    <3>4. blurred \in BOOLEAN
      BY DEF SetupInit
    <3> QED
      BY <3>2, <3>3, <3>4 DEF SetupLinesTyped
  <2>2. SetupCallsTyped
    BY DEF SetupInit, SetupCallsTyped
  <2> QED
    BY <2>1, <2>2
<1>3. SetupCallsFit /\ NamedSoFar
  BY DEF SetupInit, SetupCallsFit, NamedSoFar, NoSetupCall
<1>4. LinesFit
  BY DEF SetupInit, LinesFit, OpenLineFits, FreshLineFits, MovedLineFits, NoSetupLine
<1>5. OptionsKeep /\ UnitsAndRulesFit
  BY DEF SetupInit, OptionsKeep, UnitsAndRulesFit
<1>6. AssetsMatchUnits
  BY DEF SetupInit, AssetsMatchUnits
<1> QED
  BY <1>1, <1>2, <1>3, <1>4, <1>5, <1>6 DEF SetupInv, SetupTypedInv

(* A change outdates the lines that wait and leaves the others.              *)
LEMMA OutdatedLines ==
  ASSUME SetupLinesTyped, NEW l \in SetupLine
  PROVE  /\ Outdated \in [SetupLine -> {NoSetupLine} \cup OpenLine \cup MovedLine]
         /\ Outdated[l].stage = setupLine[l].stage
         /\ setupLine[l].stage = "open" =>
              /\ ~Outdated[l].fresh
              /\ Outdated[l].unit = setupLine[l].unit
              /\ Outdated[l].quantity = setupLine[l].quantity
              /\ Outdated[l].base = setupLine[l].base
         /\ setupLine[l].stage # "open" => Outdated[l] = setupLine[l]
<1>1. \A k \in SetupLine : setupLine[k].stage = "open" => setupLine[k] \in OpenLine
  BY DEF SetupLinesTyped, NoSetupLine, OpenLine, MovedLine
<1>2. \A k \in SetupLine :
        setupLine[k].stage = "open" => [setupLine[k] EXCEPT !.fresh = FALSE] \in OpenLine
  BY <1>1 DEF OpenLine
<1>3. Outdated \in [SetupLine -> {NoSetupLine} \cup OpenLine \cup MovedLine]
  BY <1>2 DEF Outdated, SetupLinesTyped
<1>4. CASE setupLine[l].stage = "open"
  <2>1. Outdated[l] = [setupLine[l] EXCEPT !.fresh = FALSE]
    BY <1>4 DEF Outdated
  <2> QED
    BY <2>1, <1>1, <1>3, <1>4 DEF OpenLine
<1>5. CASE setupLine[l].stage # "open"
  BY <1>3, <1>5 DEF Outdated
<1> QED
  BY <1>4, <1>5

-----------------------------------------------------------------------------
(* Rows, calls and what was named.                                           *)

(* What an update writes of the options is a row, with what it names.        *)
LEMMA UpsertedIsARow ==
  ASSUME StockItemSetupAssumption, SetupTypedInv, NEW given \in OptionsGiven
  PROVE  /\ Upserted(given, optionRow) \in [Option -> BOOLEAN]
         /\ DOMAIN given \subseteq Option
         /\ \A o \in DOMAIN given : given[o] \in BOOLEAN
<1>1. DOMAIN given \subseteq Option /\ \A o \in DOMAIN given : given[o] \in BOOLEAN
  BY DEF OptionsGiven
<1> QED
  BY <1>1 DEF Upserted, SetupTypedInv, SetupRowsTyped

(* Every step writes rows of the right types.                                *)
LEMMA SetupRowsStayTyped ==
  ASSUME StockItemSetupAssumption, SetupTypedInv, [SetupNext]_setupVars
  PROVE  SetupRowsTyped'
<1> USE DEF SetupTypedInv, SetupRowsTyped
<1>1. ASSUME NEW w \in SetupClerk, WriteOptions(w) PROVE SetupRowsTyped'
  <2>1. setupCall[w].given \in Patch
    BY <1>1 DEF WriteOptions, SetupCallsTyped, NoSetupCall
  <2>2. setupCall[w].given.options \in OptionsGiven
    BY <2>1 DEF StockItemSetupAssumption
  <2>3. optionRow' \in [Option -> BOOLEAN]
    BY <1>1, <2>2, UpsertedIsARow DEF WriteOptions
  <2> QED
    BY <1>1, <2>3 DEF WriteOptions
<1>2. ASSUME NEW w \in SetupClerk, RuleWrites(w) PROVE SetupRowsTyped'
  <2>1. setupCall[w].given \in RuleInput
    BY <1>2 DEF RuleWrites, SetupCallsTyped, NoSetupCall
  <2> QED
    BY <1>2, <2>1 DEF RuleWrites
<1>3. ASSUME NEW w \in SetupClerk, NEW patch \in Patch, WriteStockItem(w, patch)
      PROVE  SetupRowsTyped'
  <2>1. patch.mode \in Mode \cup {Null} /\ patch.base \in Unit \cup {Null}
    BY DEF StockItemSetupAssumption
  <2> QED
    BY <1>3, <2>1 DEF WriteStockItem, Change, StockItemSetupAssumption
<1>4. ASSUME NEW u \in Unit, NEW f \in FactorsOf[u], AssignUnit(u, f) PROVE SetupRowsTyped'
  <2>1. f \in Nat
    BY DEF StockItemSetupAssumption
  <2>2. factor' \in [Unit -> Nat] /\ \A v \in Unit : factor'[v] \in FactorsOf[v] \cup {0}
    BY <1>4, <2>1 DEF AssignUnit
  <2>3. changes' \in 0..MaxSetup
    BY <1>4 DEF AssignUnit, Change, StockItemSetupAssumption
  <2> QED
    BY <1>4, <2>2, <2>3 DEF AssignUnit
<1>5. ASSUME NEW u \in Unit, NEW v \in Unit, AddConversion(u, v) PROVE SetupRowsTyped'
  BY <1>5 DEF AddConversion, Change, StockItemSetupAssumption
<1>6. ASSUME NEW w \in SetupClerk, NEW r \in RuleInput, RuleReads(w, r) PROVE SetupRowsTyped'
  BY <1>6 DEF RuleReads, Change, setupRows, StockItemSetupAssumption
<1>7. CASE RemoveRule
  BY <1>7 DEF RemoveRule, Change, StockItemSetupAssumption
<1>8. ASSUME NEW active \in BOOLEAN, SetKindActive(active) \/ SetSellable(active)
      PROVE  SetupRowsTyped'
  BY <1>8 DEF SetKindActive, SetSellable, Change, StockItemSetupAssumption
<1>9. ASSUME UNCHANGED <<setupRows, changes>> PROVE SetupRowsTyped'
  BY <1>9 DEF setupRows
<1> QED
  BY <1>1, <1>2, <1>3, <1>4, <1>5, <1>6, <1>7, <1>8, <1>9
     DEF SetupNext, StopSetup, AcceptOrder, AcceptReceipt, MoveLine, setupVars

(* A call holds what it has still to write.                                  *)
LEMMA SetupCallsStayTyped ==
  ASSUME StockItemSetupAssumption, SetupTypedInv, [SetupNext]_setupVars
  PROVE  SetupCallsTyped'
<1> USE DEF SetupTypedInv, SetupCallsTyped
<1>1. ASSUME NEW w \in SetupClerk, WriteOptions(w) \/ RuleWrites(w) \/ StopSetup(w)
      PROVE  SetupCallsTyped'
  BY <1>1 DEF WriteOptions, RuleWrites, StopSetup
<1>2. ASSUME NEW w \in SetupClerk, NEW patch \in Patch, WriteStockItem(w, patch)
      PROVE  SetupCallsTyped'
  BY <1>2 DEF WriteStockItem
<1>3. ASSUME NEW w \in SetupClerk, NEW r \in RuleInput, RuleReads(w, r)
      PROVE  SetupCallsTyped'
  BY <1>3 DEF RuleReads
<1>4. ASSUME UNCHANGED setupCall PROVE SetupCallsTyped'
  BY <1>4
<1> QED
  BY <1>1, <1>2, <1>3, <1>4 DEF SetupNext, AssignUnit, AddConversion, RemoveRule, SetKindActive, SetSellable,
     AcceptOrder, AcceptReceipt, MoveLine, setupVars

(* What a call has still to write was looked at.                             *)
LEMMA SetupCallsStayFit ==
  ASSUME StockItemSetupAssumption, SetupTypedInv, SetupCallsFit, [SetupNext]_setupVars
  PROVE  SetupCallsFit'
<1> USE DEF SetupTypedInv, SetupCallsTyped, SetupCallsFit
<1>1. ASSUME NEW w \in SetupClerk, WriteOptions(w) \/ RuleWrites(w) \/ StopSetup(w)
      PROVE  SetupCallsFit'
  BY <1>1 DEF WriteOptions, RuleWrites, StopSetup, NoSetupCall
<1>2. ASSUME NEW w \in SetupClerk, NEW patch \in Patch, WriteStockItem(w, patch)
      PROVE  SetupCallsFit'
  BY <1>2 DEF WriteStockItem
<1>3. ASSUME NEW w \in SetupClerk, NEW r \in RuleInput, RuleReads(w, r)
      PROVE  SetupCallsFit'
  BY <1>3 DEF RuleReads
<1>4. ASSUME UNCHANGED setupCall PROVE SetupCallsFit'
  BY <1>4
<1> QED
  BY <1>1, <1>2, <1>3, <1>4 DEF SetupNext, AssignUnit, AddConversion, RemoveRule, SetKindActive,
     SetSellable, AcceptOrder, AcceptReceipt, MoveLine, setupVars

(* An update that names expiry and batches, or none of them.                 *)
LEMMA NamesBothOrNone ==
  ASSUME NEW given,
         Cardinality(DOMAIN given \cap {"trackExpiry", "trackBatches"}) # 1
  PROVE  "trackExpiry" \in DOMAIN given <=> "trackBatches" \in DOMAIN given
<1>1. ASSUME NEW a, DOMAIN given \cap {"trackExpiry", "trackBatches"} = {a} PROVE FALSE
  BY <1>1, FS_Singleton
<1>2. CASE "trackExpiry" \in DOMAIN given /\ "trackBatches" \notin DOMAIN given
  <2>1. DOMAIN given \cap {"trackExpiry", "trackBatches"} = {"trackExpiry"}
    BY <1>2
  <2> QED
    BY <2>1, <1>1
<1>3. CASE "trackExpiry" \notin DOMAIN given /\ "trackBatches" \in DOMAIN given
  <2>1. DOMAIN given \cap {"trackExpiry", "trackBatches"} = {"trackBatches"}
    BY <1>3
  <2> QED
    BY <2>1, <1>1
<1> QED
  BY <1>2, <1>3

(* What is known of the options after an update has written them.            *)
LEMMA OptionsWritten ==
  ASSUME StockItemSetupAssumption, SetupTypedInv, SetupCallsFit, NamedSoFar, OptionsKeep,
         NEW w \in SetupClerk, WriteOptions(w)
  PROVE  NamedSoFar' /\ OptionsKeep'
<1>1. PICK given : given = setupCall[w].given.options
  OBVIOUS
<1>2. given \in OptionsGiven /\ ~Refused(given)
  <2>1. setupCall[w].given \in Patch
    BY DEF WriteOptions, SetupTypedInv, SetupCallsTyped, NoSetupCall
  <2>2. ~Refused(setupCall[w].given.options)
    BY DEF WriteOptions, SetupCallsFit
  <2> QED
    BY <1>1, <2>1, <2>2 DEF StockItemSetupAssumption
<1>3. /\ optionRow' = Upserted(given, optionRow)
      /\ named' = [o \in Option |-> IF o \in DOMAIN given THEN given[o] ELSE named[o]]
      /\ alone' = (alone \/ Cardinality(DOMAIN given \cap {"trackExpiry", "trackBatches"}) = 1)
  BY <1>1 DEF WriteOptions
<1>4. /\ optionRow' \in [Option -> BOOLEAN]
      /\ \A o \in DOMAIN given : given[o] \in BOOLEAN
  BY <1>2, <1>3, UpsertedIsARow
<1>5. NamedSoFar'
  BY <1>3, <1>4 DEF NamedSoFar, StockItemSetupAssumption
<1>6. ASSUME NEW o \in Option PROVE optionRow'[o] = (named'[o] = TRUE)
  <2>1. CASE o \in DOMAIN given
    <3>1. optionRow'[o] = given[o] /\ named'[o] = given[o]
      BY <1>3, <2>1 DEF Upserted
    <3>2. given[o] \in BOOLEAN
      BY <1>4, <2>1
    <3> QED
      BY <3>1, <3>2
  <2>2. CASE o \notin DOMAIN given /\ optionRow = Null
    <3>1. optionRow'[o] = FALSE /\ named'[o] = Null
      BY <1>3, <2>2 DEF Upserted, NamedSoFar
    <3> QED
      BY <3>1 DEF StockItemSetupAssumption
  <2>3. CASE o \notin DOMAIN given /\ optionRow # Null
    <3>1. optionRow'[o] = optionRow[o] /\ named'[o] = named[o]
      BY <1>3, <2>3 DEF Upserted
    <3>2. optionRow[o] = (named[o] = TRUE)
      BY <2>3 DEF OptionsKeep
    <3> QED
      BY <3>1, <3>2
  <2> QED
    BY <2>1, <2>2, <2>3
<1>7. ASSUME ~alone', optionRow'["trackExpiry"] PROVE optionRow'["trackBatches"]
  <2>1. ~alone
        /\ Cardinality(DOMAIN given \cap {"trackExpiry", "trackBatches"}) # 1
    BY <1>3, <1>7
  <2>2. "trackExpiry" \in DOMAIN given <=> "trackBatches" \in DOMAIN given
    BY <2>1, NamesBothOrNone
  <2>3. CASE "trackExpiry" \in DOMAIN given
    BY <1>2, <1>3, <1>4, <1>7, <2>2, <2>3 DEF Upserted, Refused, Option
  <2>4. CASE "trackExpiry" \notin DOMAIN given
    BY <1>3, <1>7, <2>1, <2>2, <2>4 DEF Upserted, OptionsKeep, Option
  <2> QED
    BY <2>3, <2>4
<1> QED
  BY <1>5, <1>6, <1>7 DEF OptionsKeep

(* The options stay what the calls named, whatever interleaves.              *)
LEMMA OptionsStay ==
  ASSUME StockItemSetupAssumption, SetupTypedInv, SetupCallsFit, NamedSoFar, OptionsKeep,
         [SetupNext]_setupVars
  PROVE  NamedSoFar' /\ OptionsKeep'
<1>1. ASSUME UNCHANGED <<optionRow, named, alone>> PROVE NamedSoFar' /\ OptionsKeep'
  BY <1>1 DEF NamedSoFar, OptionsKeep
<1> QED
  BY <1>1, OptionsWritten
     DEF SetupNext, RuleWrites, StopSetup, WriteStockItem, RuleReads, AssignUnit, AddConversion,
     RemoveRule, SetKindActive, SetSellable, AcceptOrder, AcceptReceipt, MoveLine, setupVars,
     setupRows

(* A unit's factor stays what it is, once it has one.                        *)
LEMMA FactorsStay ==
  ASSUME SetupTypedInv, [SetupNext]_setupVars, NEW u \in Unit, factor[u] > 0
  PROVE  factor'[u] = factor[u]
<1>1. ASSUME NEW v \in Unit, NEW f \in FactorsOf[v], AssignUnit(v, f)
      PROVE  factor'[u] = factor[u]
  BY <1>1 DEF AssignUnit, SetupTypedInv, SetupRowsTyped
<1>2. ASSUME UNCHANGED factor PROVE factor'[u] = factor[u]
  BY <1>2
<1> QED
  BY <1>1, <1>2
     DEF SetupNext, WriteOptions, RuleWrites, StopSetup, WriteStockItem, RuleReads, AddConversion,
     RemoveRule, SetKindActive, SetSellable, AcceptOrder, AcceptReceipt, MoveLine, setupVars,
     setupRows

(* Conversions stay between units of the stock item, rules satisfiable.      *)
LEMMA UnitsAndRulesStayFit ==
  ASSUME StockItemSetupAssumption, SetupTypedInv, SetupCallsFit, UnitsAndRulesFit,
         [SetupNext]_setupVars
  PROVE  UnitsAndRulesFit'
<1>1. \A c \in conversions' : c[1] # c[2] /\ factor'[c[1]] > 0 /\ factor'[c[2]] > 0
  <2>1. \A c \in conversions : c \in Unit \X Unit
    BY DEF SetupTypedInv, SetupRowsTyped
  <2>2. \A c \in conversions : c[1] # c[2] /\ factor'[c[1]] > 0 /\ factor'[c[2]] > 0
    BY <2>1, FactorsStay DEF UnitsAndRulesFit
  <2>3. ASSUME NEW u \in Unit, NEW v \in Unit, AddConversion(u, v)
        PROVE  \A c \in conversions' : c[1] # c[2] /\ factor'[c[1]] > 0 /\ factor'[c[2]] > 0
    BY <2>2, <2>3 DEF AddConversion
  <2>4. ASSUME UNCHANGED conversions
        PROVE  \A c \in conversions' : c[1] # c[2] /\ factor'[c[1]] > 0 /\ factor'[c[2]] > 0
    BY <2>2, <2>4
  <2> QED
    BY <2>3, <2>4
       DEF SetupNext, WriteOptions, RuleWrites, StopSetup, WriteStockItem, RuleReads, AssignUnit,
       RemoveRule, SetKindActive, SetSellable, AcceptOrder, AcceptReceipt, MoveLine, setupVars,
       setupRows
<1>2. rule' # Null => rule'.min >= 0 /\ (rule'.max # Null => rule'.min <= rule'.max)
  <2>1. ASSUME NEW w \in SetupClerk, RuleWrites(w)
        PROVE  rule'.min >= 0 /\ (rule'.max # Null => rule'.min <= rule'.max)
    <3>1. setupCall[w].given \in RuleInput /\ rule' = setupCall[w].given
      BY <2>1 DEF RuleWrites, SetupTypedInv, SetupCallsTyped, NoSetupCall
    <3> QED
      BY <2>1, <3>1 DEF RuleWrites, SetupCallsFit, StockItemSetupAssumption
  <2>2. CASE UNCHANGED rule
    BY <2>2 DEF UnitsAndRulesFit
  <2>3. CASE RemoveRule
    BY <2>3 DEF RemoveRule
  <2> QED
    BY <2>1, <2>2, <2>3
       DEF SetupNext, WriteOptions, StopSetup, WriteStockItem, RuleReads, AssignUnit, AddConversion,
       SetKindActive, SetSellable, AcceptOrder, AcceptReceipt, MoveLine, setupVars, setupRows
<1> QED
  BY <1>1, <1>2 DEF UnitsAndRulesFit

-----------------------------------------------------------------------------
(* Lines.                                                                    *)

\* What a line is accepted with.
SetupUntouched == UNCHANGED <<itemRow, sellable, optionRow, factor>>

\* A step that changes the setup, and what it may do to assets that are here.
SetupChanged ==
  /\ setupLine' = Outdated
  /\ UNCHANGED <<onHand, assetsHere>>
  /\ blurred \in BOOLEAN => blurred' \in BOOLEAN
  /\ ~blurred' =>
       ~blurred /\ Effective("trackUniqueAssets")' = Effective("trackUniqueAssets")

\* A line is accepted.
LineAccepted ==
  /\ UNCHANGED <<onHand, assetsHere, blurred>>
  /\ \E l \in SetupLine, u \in Unit \cup {Null}, papers \in PaperSet :
       \/ AcceptOrder(l, u, 1, papers)
       \/ AcceptReceipt(l, u, 1, papers)

(* A change that leaves the tracking mode and the options, or that says so.  *)
LEMMA ChangesBlur ==
  ASSUME StockItemSetupAssumption, SetupTypedInv, NEW switches, Change(switches),
         ~switches => itemRow'.mode = itemRow.mode, optionRow' = optionRow
  PROVE  SetupChanged
<1>1. ~switches => Effective("trackUniqueAssets")' = Effective("trackUniqueAssets")
  BY DEF Effective
<1> QED
  BY <1>1 DEF Change, SetupChanged

(* An update that writes the options says whether it switched the assets.    *)
LEMMA OptionsBlur ==
  ASSUME StockItemSetupAssumption, SetupTypedInv, NEW w \in SetupClerk, WriteOptions(w)
  PROVE  SetupChanged
<1>1. setupCall[w].given.options \in OptionsGiven
  BY DEF WriteOptions, SetupTypedInv, SetupCallsTyped, NoSetupCall, StockItemSetupAssumption
<1>2. optionRow' \in [Option -> BOOLEAN]
  BY <1>1, UpsertedIsARow DEF WriteOptions
<1>3. optionRow' # Null
  BY <1>2 DEF StockItemSetupAssumption
<1>4. Effective("trackUniqueAssets")' = optionRow'["trackUniqueAssets"]
  BY <1>3 DEF Effective
<1> QED
  BY <1>4 DEF WriteOptions, SetupChanged

(* A step changes the setup, accepts a line, moves one, or does none of it.  *)
LEMMA SetupSteps ==
  ASSUME StockItemSetupAssumption, SetupTypedInv, [SetupNext]_setupVars
  PROVE  \/ SetupChanged
         \/ SetupUntouched /\ LineAccepted
         \/ SetupUntouched /\ \E l \in SetupLine : MoveLine(l)
         \/ SetupUntouched /\ UNCHANGED lineRows
<1>1. ASSUME NEW w \in SetupClerk, WriteOptions(w) PROVE SetupChanged
  BY <1>1, OptionsBlur
<1>2. ASSUME NEW w \in SetupClerk, NEW patch \in Patch, WriteStockItem(w, patch)
      PROVE  SetupChanged
  <2>1. patch.mode = Null => itemRow'.mode = itemRow.mode
    BY <1>2 DEF WriteStockItem
  <2>2. PICK switches : switches = (patch.mode # Null)
    OBVIOUS
  <2>3. Change(switches)
    BY <1>2, <2>2 DEF WriteStockItem
  <2>4. optionRow' = optionRow
    BY <1>2 DEF WriteStockItem
  <2> QED
    BY <2>1, <2>2, <2>3, <2>4, ChangesBlur
<1>3. ASSUME Change(FALSE), UNCHANGED <<itemRow, optionRow>> PROVE SetupChanged
  BY <1>3, ChangesBlur
<1>4. ASSUME NEW w \in SetupClerk, RuleWrites(w) \/ StopSetup(w)
      PROVE  SetupUntouched /\ UNCHANGED lineRows
  BY <1>4 DEF RuleWrites, StopSetup, SetupUntouched, setupRows
<1>5. ASSUME NEW l \in SetupLine, NEW u \in Unit \cup {Null}, NEW papers \in PaperSet,
             AcceptOrder(l, u, 1, papers) \/ AcceptReceipt(l, u, 1, papers)
      PROVE  SetupUntouched /\ LineAccepted
  <2>1. SetupUntouched /\ UNCHANGED <<onHand, assetsHere, blurred>>
    BY <1>5 DEF AcceptOrder, AcceptReceipt, SetupUntouched, setupRows
  <2> QED
    BY <1>5, <2>1 DEF LineAccepted
<1>6. ASSUME NEW l \in SetupLine, MoveLine(l) PROVE SetupUntouched
  BY <1>6 DEF MoveLine, SetupUntouched, setupRows
<1>7. ASSUME NEW u \in Unit, NEW f \in FactorsOf[u], AssignUnit(u, f)
      PROVE  Change(FALSE) /\ UNCHANGED <<itemRow, optionRow>>
  BY <1>7 DEF AssignUnit
<1>8. ASSUME NEW u \in Unit, NEW v \in Unit, AddConversion(u, v)
      PROVE  Change(FALSE) /\ UNCHANGED <<itemRow, optionRow>>
  BY <1>8 DEF AddConversion
<1>9. ASSUME NEW w \in SetupClerk, NEW r \in RuleInput, RuleReads(w, r)
      PROVE  Change(FALSE) /\ UNCHANGED <<itemRow, optionRow>>
  BY <1>9 DEF RuleReads, setupRows
<1>10. ASSUME NEW active \in BOOLEAN, SetKindActive(active) \/ SetSellable(active)
       PROVE  Change(FALSE) /\ UNCHANGED <<itemRow, optionRow>>
  BY <1>10 DEF SetKindActive, SetSellable
<1>11. CASE RemoveRule
  BY <1>11, <1>3 DEF RemoveRule
<1>12. CASE UNCHANGED setupVars
  BY <1>12 DEF setupVars, SetupUntouched, setupRows
<1> QED
  BY <1>1, <1>2, <1>3, <1>4, <1>5, <1>6, <1>7, <1>8, <1>9, <1>10, <1>11, <1>12 DEF SetupNext

(* The line that is accepted: it fits what it is accepted under.             *)
LEMMA AcceptedLineFits ==
  ASSUME StockItemSetupAssumption, SetupTypedInv, SetupUntouched, LineAccepted
  PROVE  \E l \in SetupLine :
           /\ setupLine' \in [SetupLine -> {NoSetupLine} \cup OpenLine \cup MovedLine]
           /\ \A k \in SetupLine \ {l} : setupLine'[k] = setupLine[k]
           /\ OpenLineFits(l)' /\ FreshLineFits(l)' /\ MovedLineFits(l)'
<1>1. PICK l \in SetupLine, u \in Unit \cup {Null}, papers \in PaperSet :
        AcceptOrder(l, u, 1, papers) \/ AcceptReceipt(l, u, 1, papers)
  BY DEF LineAccepted
<1>2. PICK kind \in {"order", "receipt"} :
        /\ setupLine' = [setupLine EXCEPT ![l] = Accepted(kind, u, 1, papers)]
        /\ Resolves(u)
        /\ kind = "order" => AssetsGiven(papers)
        /\ kind = "receipt" => ReceiptAllowed(u, papers)
  BY <1>1 DEF AcceptOrder, AcceptReceipt
<1>3. BaseQuantity(u, 1) \in Nat
  BY DEF BaseQuantity, SetupTypedInv, SetupRowsTyped
<1>4. Accepted(kind, u, 1, papers) \in OpenLine
  BY <1>3 DEF Accepted, OpenLine
<1>5. /\ setupLine' \in [SetupLine -> {NoSetupLine} \cup OpenLine \cup MovedLine]
      /\ \A k \in SetupLine \ {l} : setupLine'[k] = setupLine[k]
      /\ setupLine'[l] = Accepted(kind, u, 1, papers)
  BY <1>2, <1>4 DEF SetupTypedInv, SetupLinesTyped
<1>6. /\ setupLine'[l].stage = "open" /\ setupLine'[l].unit = u /\ setupLine'[l].quantity = 1
      /\ setupLine'[l].base = BaseQuantity(u, 1) /\ setupLine'[l].kind = kind
      /\ setupLine'[l].papers = papers
  BY <1>5 DEF Accepted
<1>7. OpenLineFits(l)'
  BY <1>2, <1>6 DEF OpenLineFits, BaseQuantity, Resolves, SetupUntouched
<1>8. FreshLineFits(l)'
  BY <1>2, <1>6 DEF FreshLineFits, Resolves, AssetsGiven, ReceiptAllowed, UnitAllowed, Effective,
     SetupUntouched
<1>9. MovedLineFits(l)'
  BY <1>6 DEF MovedLineFits
<1> QED
  BY <1>5, <1>7, <1>8, <1>9

(* What the handler of the event does to a line that fits.                   *)
LEMMA LineMoves ==
  ASSUME StockItemSetupAssumption, SetupTypedInv, NEW l \in SetupLine, OpenLineFits(l), MoveLine(l)
  PROVE  /\ setupLine' \in [SetupLine -> {NoSetupLine} \cup OpenLine \cup MovedLine]
         /\ \A k \in SetupLine \ {l} : setupLine'[k] = setupLine[k]
         /\ OpenLineFits(l)' /\ FreshLineFits(l)' /\ MovedLineFits(l)'
         /\ onHand' \in Nat /\ assetsHere' \in Int /\ blurred' \in BOOLEAN
         /\ ~blurred' =>
              /\ ~blurred
              /\ assetsHere' - assetsHere =
                   IF Effective("trackUniqueAssets") THEN onHand' - onHand ELSE 0
<1>1. setupLine[l] \in OpenLine
  BY DEF MoveLine, SetupTypedInv, SetupLinesTyped, NoSetupLine, OpenLine, MovedLine
<1>2. PICK unit, quantity, base, kind :
        /\ unit = setupLine[l].unit /\ quantity = setupLine[l].quantity
        /\ base = BaseQuantity(unit, quantity) /\ kind = setupLine[l].kind
  OBVIOUS
<1>3. unit \in Unit \cup {Null} /\ quantity \in Nat /\ kind \in {"order", "receipt"}
  BY <1>1, <1>2 DEF OpenLine
<1>4. base \in Nat
  BY <1>2, <1>3 DEF BaseQuantity, SetupTypedInv, SetupRowsTyped
<1>5. setupLine[l].base = base
  BY <1>2 DEF OpenLineFits, MoveLine
<1>6. setupLine' = [setupLine EXCEPT ![l] = [stage |-> "moved", base |-> base, moved |-> base]]
  BY <1>2, <1>5 DEF MoveLine
<1>7. [stage |-> "moved", base |-> base, moved |-> base] \in MovedLine
  BY <1>4 DEF MovedLine
<1>8. /\ setupLine' \in [SetupLine -> {NoSetupLine} \cup OpenLine \cup MovedLine]
      /\ \A k \in SetupLine \ {l} : setupLine'[k] = setupLine[k]
      /\ setupLine'[l].stage = "moved" /\ setupLine'[l].moved = setupLine'[l].base
  BY <1>6, <1>7 DEF SetupTypedInv, SetupLinesTyped
<1>9. OpenLineFits(l)' /\ FreshLineFits(l)' /\ MovedLineFits(l)'
  BY <1>8 DEF OpenLineFits, FreshLineFits, MovedLineFits
<1>10. onHand \in Nat /\ assetsHere \in Int /\ blurred \in BOOLEAN
  BY DEF SetupTypedInv, SetupLinesTyped
<1>11. PICK assets \in Nat : assets = AssetsMoved(setupLine[l])
  BY <1>2, <1>3 DEF AssetsMoved
<1>12. blurred' \in BOOLEAN /\ (~blurred' => ~blurred /\ base = quantity)
  BY <1>2, <1>10 DEF MoveLine
<1>13. ASSUME base = quantity
       PROVE  assets = IF Effective("trackUniqueAssets") THEN base ELSE 0
  BY <1>2, <1>11, <1>13 DEF AssetsMoved
<1>14. CASE kind = "receipt"
  <2>1. onHand' = onHand + 1 * base /\ assetsHere' = assetsHere + 1 * assets
    BY <1>2, <1>11, <1>14 DEF MoveLine
  <2>2. onHand' \in Nat /\ assetsHere' \in Int
    BY <2>1, <1>4, <1>10, <1>11
  <2>3. onHand' - onHand = base /\ assetsHere' - assetsHere = assets
    BY <2>1, <1>4, <1>10, <1>11
  <2>4. base = quantity =>
          assetsHere' - assetsHere = IF Effective("trackUniqueAssets") THEN onHand' - onHand ELSE 0
    BY <2>3, <1>13
  <2> QED
    BY <2>2, <2>4, <1>8, <1>9, <1>12
<1>15. CASE kind = "order"
  <2>1. onHand' = onHand + (-1) * base /\ assetsHere' = assetsHere + (-1) * assets
    BY <1>2, <1>11, <1>15 DEF MoveLine
  <2>2. base <= onHand
    BY <1>2, <1>15 DEF MoveLine, MayStockOut
  <2>3. onHand' \in Nat /\ assetsHere' \in Int
    BY <2>1, <2>2, <1>4, <1>10, <1>11
  <2>4. onHand' - onHand = -base /\ assetsHere' - assetsHere = -assets
    BY <2>1, <1>4, <1>10, <1>11
  <2>5. base = quantity => -assets = IF Effective("trackUniqueAssets") THEN -base ELSE 0
    BY <1>13
  <2>6. base = quantity =>
          assetsHere' - assetsHere = IF Effective("trackUniqueAssets") THEN onHand' - onHand ELSE 0
    BY <2>4, <2>5
  <2> QED
    BY <2>3, <2>6, <1>8, <1>9, <1>12
<1> QED
  BY <1>3, <1>14, <1>15

(* A line that no step touches fits as before, unless the setup changed.     *)
LEMMA OtherLinesFit ==
  ASSUME SetupUntouched, NEW k \in SetupLine, setupLine'[k] = setupLine[k],
         OpenLineFits(k) /\ FreshLineFits(k) /\ MovedLineFits(k)
  PROVE  OpenLineFits(k)' /\ FreshLineFits(k)' /\ MovedLineFits(k)'
<1>1. OpenLineFits(k)' <=> OpenLineFits(k)
  BY DEF OpenLineFits, BaseQuantity, SetupUntouched
<1>2. FreshLineFits(k)' <=> FreshLineFits(k)
  <2>1. Resolves(setupLine[k].unit)' <=> Resolves(setupLine[k].unit)
    BY DEF Resolves, SetupUntouched
  <2>2. AssetsGiven(setupLine[k].papers)' <=> AssetsGiven(setupLine[k].papers)
    BY DEF AssetsGiven, Effective, SetupUntouched
  <2>3. ReceiptAllowed(setupLine[k].unit, setupLine[k].papers)'
          <=> ReceiptAllowed(setupLine[k].unit, setupLine[k].papers)
    BY DEF ReceiptAllowed, UnitAllowed, Effective, SetupUntouched
  <2> QED
    BY <2>1, <2>2, <2>3 DEF FreshLineFits
<1>3. MovedLineFits(k)' <=> MovedLineFits(k)
  BY DEF MovedLineFits
<1> QED
  BY <1>1, <1>2, <1>3

(* A change leaves every line in a unit that still has its factor.           *)
LEMMA OutdatedLinesFit ==
  ASSUME SetupTypedInv, [SetupNext]_setupVars, setupLine' = Outdated, NEW l \in SetupLine,
         OpenLineFits(l), MovedLineFits(l)
  PROVE  OpenLineFits(l)' /\ FreshLineFits(l)' /\ MovedLineFits(l)'
<1>1. /\ setupLine'[l].stage = setupLine[l].stage
      /\ setupLine[l].stage = "open" =>
           /\ ~setupLine'[l].fresh
           /\ setupLine'[l].unit = setupLine[l].unit
           /\ setupLine'[l].quantity = setupLine[l].quantity
           /\ setupLine'[l].base = setupLine[l].base
      /\ setupLine[l].stage # "open" => setupLine'[l] = setupLine[l]
  BY OutdatedLines DEF SetupTypedInv
<1>2. FreshLineFits(l)' /\ MovedLineFits(l)'
  BY <1>1 DEF FreshLineFits, MovedLineFits
<1>3. setupLine[l].stage = "open" => setupLine[l] \in OpenLine
  BY DEF SetupTypedInv, SetupLinesTyped, NoSetupLine, OpenLine, MovedLine
<1>4. ASSUME setupLine[l].stage = "open", setupLine[l].unit # Null
      PROVE  factor'[setupLine[l].unit] = factor[setupLine[l].unit]
  BY <1>3, <1>4, FactorsStay DEF OpenLineFits, OpenLine
<1>5. OpenLineFits(l)'
  BY <1>1, <1>4 DEF OpenLineFits, BaseQuantity
<1> QED
  BY <1>2, <1>5

(* Lines keep their types, and the quantities they were accepted with.       *)
LEMMA LinesStayFit ==
  ASSUME StockItemSetupAssumption, SetupTypedInv, LinesFit, [SetupNext]_setupVars
  PROVE  SetupLinesTyped' /\ LinesFit'
<1>1. CASE SetupChanged
  <2>1. SetupLinesTyped'
    <3>1. setupLine' \in [SetupLine -> {NoSetupLine} \cup OpenLine \cup MovedLine]
      <4>1. CASE SetupLine = {}
        BY <1>1, <4>1 DEF SetupChanged, Outdated
      <4>2. ASSUME NEW l \in SetupLine
            PROVE  Outdated \in [SetupLine -> {NoSetupLine} \cup OpenLine \cup MovedLine]
        BY OutdatedLines DEF SetupTypedInv
      <4> QED
        BY <1>1, <4>1, <4>2 DEF SetupChanged
    <3>2. onHand' \in Nat /\ assetsHere' \in Int
      BY <1>1 DEF SetupChanged, SetupTypedInv, SetupLinesTyped
    <3>3. blurred' \in BOOLEAN
      BY <1>1 DEF SetupChanged, SetupTypedInv, SetupLinesTyped
    <3> QED
      BY <3>1, <3>2, <3>3 DEF SetupLinesTyped
  <2>2. LinesFit'
    BY <1>1, OutdatedLinesFit DEF SetupChanged, LinesFit
  <2> QED
    BY <2>1, <2>2
<1>2. CASE SetupUntouched /\ LineAccepted
  <2>1. PICK l \in SetupLine :
          /\ setupLine' \in [SetupLine -> {NoSetupLine} \cup OpenLine \cup MovedLine]
          /\ \A k \in SetupLine \ {l} : setupLine'[k] = setupLine[k]
          /\ OpenLineFits(l)' /\ FreshLineFits(l)' /\ MovedLineFits(l)'
    BY <1>2, AcceptedLineFits
  <2>2. SetupLinesTyped'
    BY <1>2, <2>1 DEF LineAccepted, SetupTypedInv, SetupLinesTyped
  <2>3. LinesFit'
    BY <1>2, <2>1, OtherLinesFit DEF LinesFit
  <2> QED
    BY <2>2, <2>3
<1>3. ASSUME SetupUntouched, NEW l \in SetupLine, MoveLine(l)
      PROVE  SetupLinesTyped' /\ LinesFit'
  <2>1. /\ setupLine' \in [SetupLine -> {NoSetupLine} \cup OpenLine \cup MovedLine]
        /\ \A k \in SetupLine \ {l} : setupLine'[k] = setupLine[k]
        /\ OpenLineFits(l)' /\ FreshLineFits(l)' /\ MovedLineFits(l)'
        /\ onHand' \in Nat /\ assetsHere' \in Int /\ blurred' \in BOOLEAN
    BY <1>3, LineMoves DEF LinesFit
  <2>2. LinesFit'
    BY <1>3, <2>1, OtherLinesFit DEF LinesFit
  <2> QED
    BY <2>1, <2>2 DEF SetupLinesTyped
<1>4. CASE SetupUntouched /\ UNCHANGED lineRows
  <2>1. SetupLinesTyped'
    BY <1>4 DEF lineRows, SetupTypedInv, SetupLinesTyped
  <2>2. LinesFit'
    BY <1>4, OtherLinesFit DEF lineRows, LinesFit
  <2> QED
    BY <2>1, <2>2
<1> QED
  BY <1>1, <1>2, <1>3, <1>4, SetupSteps

(* Assets stay as many as units, unless something blurs them.                *)
LEMMA AssetsStayMatched ==
  ASSUME StockItemSetupAssumption, SetupTypedInv, LinesFit, AssetsMatchUnits,
         [SetupNext]_setupVars
  PROVE  AssetsMatchUnits'
<1>1. CASE SetupChanged
  BY <1>1 DEF SetupChanged, AssetsMatchUnits
<1>2. ASSUME SetupUntouched
      PROVE  Effective("trackUniqueAssets")' <=> Effective("trackUniqueAssets")
  BY <1>2 DEF SetupUntouched, Effective
<1>3. CASE SetupUntouched /\ (LineAccepted \/ UNCHANGED lineRows)
  BY <1>2, <1>3 DEF LineAccepted, lineRows, AssetsMatchUnits
<1>4. ASSUME SetupUntouched, NEW l \in SetupLine, MoveLine(l) PROVE AssetsMatchUnits'
  <2>1. /\ onHand' \in Nat /\ assetsHere' \in Int
        /\ ~blurred' =>
             /\ ~blurred
             /\ assetsHere' - assetsHere =
                  IF Effective("trackUniqueAssets") THEN onHand' - onHand ELSE 0
    BY <1>4, LineMoves DEF LinesFit
  <2>2. onHand \in Nat /\ assetsHere \in Int
    BY DEF SetupTypedInv, SetupLinesTyped
  <2>3. ASSUME ~blurred'
        PROVE  /\ Effective("trackUniqueAssets") => assetsHere' = onHand'
               /\ ~Effective("trackUniqueAssets") => assetsHere' = 0
    <3>1. ~blurred /\ assetsHere = IF Effective("trackUniqueAssets") THEN onHand ELSE 0
      BY <2>1, <2>3 DEF AssetsMatchUnits
    <3>2. CASE Effective("trackUniqueAssets")
      BY <2>1, <2>2, <2>3, <3>1, <3>2
    <3>3. CASE ~Effective("trackUniqueAssets")
      BY <2>1, <2>2, <2>3, <3>1, <3>3
    <3> QED
      BY <3>2, <3>3
  <2> QED
    BY <1>2, <1>4, <2>3 DEF AssetsMatchUnits
<1> QED
  BY <1>1, <1>3, <1>4, SetupSteps

(* However updates of the setup overlap or break off: options have the value *)
(* of the last call that named them, conversions join units of the stock     *)
(* item, the handler of an event moves the base quantity that the line was   *)
(* accepted with and nothing else refuses it, and assets match the units on  *)
(* hand (InventoryAdminService, InventoryIdentityResolverService).           *)
THEOREM SetupStaysSound == SetupSpec => []SetupIsSound
<1> USE StockItemSetupAssumption
<1>1. SetupInit => SetupInv
  BY SetupInvAtFirst
<1>2. SetupInv /\ [SetupNext]_setupVars => SetupInv'
  BY SetupRowsStayTyped, SetupCallsStayTyped, SetupCallsStayFit, OptionsStay, UnitsAndRulesStayFit,
     LinesStayFit, AssetsStayMatched DEF SetupInv, SetupTypedInv
<1>3. SetupInv => SetupIsSound
  BY SetupInvIsSound
<1> QED
  BY <1>1, <1>2, <1>3, PTL DEF SetupSpec
==============================================================================
