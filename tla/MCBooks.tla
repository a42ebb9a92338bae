------------------------------- MODULE MCBooks --------------------------------
(***************************************************************************)
(* The money of the business: its ledger, what it owes its suppliers, and   *)
(* the cash of its tills.  They share no row (the entries of invoices are   *)
(* in the ledger's model as documents of their own), so every behaviour     *)
(* runs one of the three modules.                                           *)
(***************************************************************************)
EXTENDS MCLedger, SupplierInvoices, PosSession

CONSTANTS y1, y2

VARIABLE focus

MCBooksSymmetry == Permutations(MCReconcilers) \cup Permutations({y1, y2})

MoneyInit == focus \in {"ledger", "invoices", "tills"} /\ Init /\ SupplierInit /\ PosInit

MoneyNext ==
  /\ \/ focus = "ledger" /\ Next /\ UNCHANGED <<supplierVars, posVars>>
     \/ focus = "invoices" /\ SupplierNext /\ UNCHANGED <<vars, posVars>>
     \/ focus = "tills" /\ PosNext /\ UNCHANGED <<vars, supplierVars>>
  /\ UNCHANGED focus

MoneySpec == MoneyInit /\ [][MoneyNext]_<<focus, vars, supplierVars, posVars>>
===============================================================================
