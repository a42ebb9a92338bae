----------------------------- MODULE MCPurchasing -----------------------------
(***************************************************************************)
(* One order of two lines and three receipts.                               *)
(***************************************************************************)
EXTENDS Purchasing, TLC

CONSTANTS i1, i2, r1, r2, r3, c1

\* A part of the first line; all that is left beside it; two batches of the first line.
MCItem == {i1, i2}
MCOrdered == (i1 :> 2) @@ (i2 :> 1)
MCRequest == {r1, r2, r3}
MCSum == (r1 :> (i1 :> 1 @@ i2 :> 0)) @@ (r2 :> (i1 :> 1 @@ i2 :> 1)) @@ (r3 :> (i1 :> 2 @@ i2 :> 0))
MCLargest == (r1 :> (i1 :> 1 @@ i2 :> 0)) @@ (r2 :> (i1 :> 1 @@ i2 :> 1)) @@ (r3 :> (i1 :> 1 @@ i2 :> 0))

\* One clerk only: what no interleaving is needed for.
MCOneClerk == {c1}
=============================================================================
