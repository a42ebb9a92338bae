------------------------------ MODULE MCInventory ------------------------------
(***************************************************************************)
(* Stock without and stock with unique assets.  A stock item has one or the *)
(* other, so every behaviour runs one of the two modules.                   *)
(***************************************************************************)
EXTENDS Inventory, UniqueAssets, TLC

CONSTANTS l1, l2, r1, t1, g1, a1, w1, w2, x1, x2, s1, s2

VARIABLE focus

MCLine == {l1, l2}
MCReceipt == {r1}
MCOrdered == {l2}
MCReturn == {t1}
MCRestocks == t1 :> l1
MCGain == {g1}
MCLoss == {a1}
MCWorker == {w1, w2}
MCSymmetry == Permutations(MCWorker) \cup Permutations({x1, x2}) \cup Permutations({s1, s2})

\* The receipt is enough for two lines, the other batches for one.
MCQty == [m \in Movement |-> IF m = r1 THEN 2 ELSE 1]
\* The receipt expires, the other batches have no expiry date.
MCExpiry == [b \in Batch |-> IF b = r1 THEN 1 ELSE LastDay + 1]

\* Every unit shows a serial number.
MCShown == [a \in Asset |-> {"serial"}]

WarehouseInit == focus \in {"stock", "assets"} /\ Init /\ AssetInit

WarehouseNext ==
  /\ \/ focus = "stock" /\ Next /\ UNCHANGED assetVars
     \/ focus = "assets" /\ AssetNext /\ UNCHANGED vars
  /\ UNCHANGED focus

WarehouseSpec == WarehouseInit /\ [][WarehouseNext]_<<focus, vars, assetVars>>
=============================================================================
