---------------------------- MODULE SupplierInvoices ----------------------------
(***************************************************************************)
(* What the business owes its suppliers: SupplierInvoicesService and        *)
(* SupplierPaymentsService (modules/supplier-invoices, supplier-payments)   *)
(* with the entries AccountingService writes in their transactions.         *)
(*                                                                          *)
(* The first statement of a payment's transaction locks the invoice, so     *)
(* the reads after it see every payment committed before; the repetition of *)
(* a payment is another payment, there is no key.                           *)
(***************************************************************************)
EXTENDS Integers, FiniteSets

CONSTANTS
  Invoice,      \* ids of invoices: bound on the invoices that are created
  Payer,        \* payments in flight
  MaxTotal      \* bound on amounts

ASSUME SupplierAssumption == MaxTotal \in Nat \ {0}

VARIABLES
  invoice,      \* invoice[i]: total_amount, 0 while there is no such row, and status
  settled,      \* settled[i]: sum of its supplier_payments
  payable,      \* payable[i]: credit less debit its entries leave on accounts payable
  payer         \* payer[p]: what the transaction of p has read

supplierVars == <<invoice, settled, payable, payer>>

NoPayment == [stage |-> "none"]

SupplierTypeOK ==
  /\ invoice \in [Invoice -> [total : 0..MaxTotal, status : {"UNPAID", "PARTIAL", "PAID"}]]
  /\ settled \in [Invoice -> Nat]
  /\ payable \in [Invoice -> Int]
  /\ payer \in [Payer -> {NoPayment}
       \cup [stage : {"read"}, of : Invoice, amount : 1..MaxTotal, before : Nat]]

SupplierInit ==
  /\ invoice = [i \in Invoice |-> [total |-> 0, status |-> "UNPAID"]]
  /\ settled = [i \in Invoice |-> 0]
  /\ payable = [i \in Invoice |-> 0]
  /\ payer = [p \in Payer |-> NoPayment]

\* The invoice, its entry and its event in one transaction.
CreateInvoice(i, total) ==
  /\ invoice[i].total = 0
  /\ invoice' = [invoice EXCEPT ![i].total = total]
  /\ payable' = [payable EXCEPT ![i] = @ + total]
  /\ UNCHANGED <<settled, payer>>

\* Mutant: the invoice is read without a lock.
AnyInvoice(i) == invoice[i].total > 0

\* FOR UPDATE waits for the transaction that holds the row.
Lockable(i) == \A p \in Payer : payer[p] # NoPayment => payer[p].of # i

PayReads(p, i, amount) ==
  /\ payer[p] = NoPayment
  /\ invoice[i].total > 0
  /\ Lockable(i)
  /\ payer' = [payer EXCEPT ![p] =
       [stage |-> "read", of |-> i, amount |-> amount, before |-> settled[i]]]
  /\ UNCHANGED <<invoice, settled, payable>>

WithinBalance(p) == payer[p].before + payer[p].amount <= invoice[payer[p].of].total

PayWrites(p) ==
  /\ payer[p] # NoPayment /\ WithinBalance(p)
  /\ LET i == payer[p].of   after == payer[p].before + payer[p].amount IN
     /\ settled' = [settled EXCEPT ![i] = @ + payer[p].amount]
     /\ invoice' = [invoice EXCEPT ![i].status =
          IF after >= invoice[i].total THEN "PAID" ELSE "PARTIAL"]
     /\ payable' = [payable EXCEPT ![i] = @ - payer[p].amount]
  /\ payer' = [payer EXCEPT ![p] = NoPayment]

\* Over the balance, or without the accounts the entry needs, all is undone.
PayFails(p) ==
  /\ payer[p] # NoPayment
  /\ payer' = [payer EXCEPT ![p] = NoPayment]
  /\ UNCHANGED <<invoice, settled, payable>>

SupplierNext ==
  \/ \E i \in Invoice, n \in 1..MaxTotal :
       CreateInvoice(i, n) \/ \E p \in Payer : PayReads(p, i, n)
  \/ \E p \in Payer : PayWrites(p) \/ PayFails(p)

SupplierSpec == SupplierInit /\ [][SupplierNext]_supplierVars

\* An invoice is never paid beyond its total, however many payments are under
\* way; its status says what its payments come to, and the ledger owes the rest
\* (SupplierPaymentsService.create, recordSupplierInvoice, recordSupplierPayment).
OwesTheRest ==
  \A i \in Invoice :
    /\ settled[i] <= invoice[i].total
    /\ invoice[i].status = (IF settled[i] = 0 THEN "UNPAID"
                            ELSE IF settled[i] < invoice[i].total THEN "PARTIAL" ELSE "PAID")
    /\ payable[i] = invoice[i].total - settled[i]
===============================================================================
