---------------------------- MODULE MCOutboxFaults ----------------------------
EXTENDS Outbox, TLC

CONSTANTS e1, w1, w2

MCEvent == {e1}
MCWorker == {w1, w2}
MCCreatedAt == e1 :> 1
MCNumSync == e1 :> 2
MCNumAsync == e1 :> 0
=============================================================================
