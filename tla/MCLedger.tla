------------------------------- MODULE MCLedger -------------------------------
EXTENDS Ledger, TLC

CONSTANTS order, payment, refund, sold, bought, stocked, bill, paid, later, h1, rc1, rc2

\* The books: an order with its payment and its refund, a supplier's bill and payment.
MCBooks == {order, payment, refund, bill, paid}
\* Their repair: an order, its refund and its movement of free goods, a free receipt and its
\* movement, and a later order with a full discount, which may be PAID first.
MCRepair == {order, refund, sold, bought, stocked, later}

MCKind == (order :> "order") @@ (payment :> "payment") @@ (refund :> "refund")
       @@ (sold :> "stockOut") @@ (bought :> "receipt") @@ (stocked :> "stockIn")
       @@ (bill :> "invoice") @@ (paid :> "supplierPayment") @@ (later :> "order")
MCOf == (order :> order) @@ (payment :> order) @@ (refund :> order) @@ (sold :> order)
     @@ (bought :> bought) @@ (stocked :> bought) @@ (bill :> bill) @@ (paid :> bill) @@ (later :> later)
MCAmount == [d \in Document |-> IF d \in {sold, bought, stocked, later} THEN 0 ELSE IF d = paid THEN 1 ELSE 2]

MCKindOf == [d \in Document |-> MCKind[d]]
MCOfOf == [d \in Document |-> MCOf[d]]

MCAge == [d \in Document |-> IF d = later THEN 2 ELSE 1]

MCHandler == {h1}
MCReconciler == {rc1}
MCReconcilers == {rc1, rc2}
MCNone == {}
MCSymmetry == Permutations(MCReconcilers)
=============================================================================
