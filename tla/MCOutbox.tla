------------------------------- MODULE MCOutbox -------------------------------
EXTENDS OutboxDelivery, TLC

CONSTANTS e1, e2, w1, w2

MCEvent == {e1, e2}
MCWorker == {w1, w2}
MCWorkerSymmetry == Permutations(MCWorker)
\* Two rows of one transaction may share their created_at.
MCCreatedAt == (e1 :> 1) @@ (e2 :> 1)
MCNumSync == (e1 :> 2) @@ (e2 :> 1)
MCNumAsync == (e1 :> 1) @@ (e2 :> 0)
=============================================================================
