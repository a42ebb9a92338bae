----------------------------- MODULE MCBackOffice ------------------------------
(***************************************************************************)
(* The back office.  Its components share no row, so every behaviour runs   *)
(* one of them, which is chosen at the start, and leaves the others alone.  *)
(***************************************************************************)
EXTENDS MCPurchasing, Transformations, CategoryTree, ProductData, Barcodes, StockItemSetup

CONSTANTS m1, m2, w1, w2, t1, t2, t3, b1, b2

VARIABLE focus

\* A unit moved, and two units moved back in two lines.
MCLine == (m1 :> <<[bin |-> "a", change |-> -1], [bin |-> "b", change |-> 1]>>)
       @@ (m2 :> <<[bin |-> "b", change |-> -1], [bin |-> "a", change |-> 1],
                   [bin |-> "a", change |-> 1]>>)

\* Pieces, and boxes of two.
MCFactorsOf == (b1 :> {1}) @@ (b2 :> {2})

\* Updates of the configuration that name options, and one that sets mode and base unit.
Naming(given) == [options |-> given, mode |-> Null, keepsBase |-> TRUE, base |-> Null]
MCPatch ==
  {Naming(given) : given \in {
     "allowUnitConversions" :> TRUE, "trackExpiry" :> TRUE, "trackUniqueAssets" :> TRUE,
     ("trackBatches" :> TRUE) @@ ("trackExpiry" :> TRUE),
     ("trackBatches" :> FALSE) @@ ("trackExpiry" :> TRUE)}}
  \cup {[options |-> <<>>, mode |-> "BATCH", keepsBase |-> FALSE, base |-> b1]}

MCRuleInput == {[min |-> 1, max |-> Null], [min |-> 2, max |-> 1]}

MCSymmetry == Permutations({t1, t2, t3}) \cup Permutations({w1, w2})

\* Nothing is claimed after two changes of one category tree, or of the barcodes of every
\* owner, overlapped: such behaviours are not followed.  MaxFiled bounds the categories
\* that have active products at a time.
MaxFiled == 1
Undisturbed == ~overlapped /\ mixed # LabelOwner /\ Cardinality(filed) <= MaxFiled

BackOfficeInit ==
  /\ focus \in {"purchasing", "transformations", "categories", "data", "barcodes", "setup"}
  /\ Init /\ XfInit /\ TreeInit /\ DataInit /\ BarcodesInit /\ SetupInit

\* What the other components keep.
NotPurchasing == <<xfVars, treeVars, dataVars, labelVars, setupVars>>
NotTransformations == <<vars, treeVars, dataVars, labelVars, setupVars>>
NotCategories == <<vars, xfVars, dataVars, labelVars, setupVars>>
NotData == <<vars, xfVars, treeVars, labelVars, setupVars>>
NotBarcodes == <<vars, xfVars, treeVars, dataVars, setupVars>>
NotSetup == <<vars, xfVars, treeVars, dataVars, labelVars>>

BackOfficeNext ==
  /\ \/ focus = "purchasing" /\ Next /\ UNCHANGED NotPurchasing
     \/ focus = "transformations" /\ XfNext /\ UNCHANGED NotTransformations
     \/ focus = "categories" /\ TreeNext /\ UNCHANGED NotCategories
     \/ focus = "data" /\ DataNext /\ UNCHANGED NotData
     \/ focus = "barcodes" /\ BarcodesNext /\ UNCHANGED NotBarcodes
     \/ focus = "setup" /\ SetupNext /\ UNCHANGED NotSetup
  /\ UNCHANGED focus

BackOfficeSpec == BackOfficeInit /\ [][BackOfficeNext]_<<focus, vars, NotPurchasing>>
===============================================================================
