---------------------------- MODULE MCOrderPayments ----------------------------
EXTENDS OrderPayments, TLC

CONSTANTS k1, k2, c1, c2

\* Two payments with keys, both of the whole total.
MCTwoPayments == {k1, k2}
MCNone == {}
MCFullAmount == (k1 :> 2) @@ (k2 :> 2)

\* One payment with a key.
MCOnePayment == {k1}
MCWholeAmount == k1 :> 2

MCClient == {c1, c2}
=============================================================================
