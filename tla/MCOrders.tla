------------------------------- MODULE MCOrders -------------------------------
(***************************************************************************)
(* An order from end to end: the checkouts that make it, with its prices    *)
(* and its voucher, the payments and refunds of one that is there, the      *)
(* proofs and provider sessions a payment is accepted on, and the stock     *)
(* items its lines resolve.  Every behaviour runs one of the four modules.  *)
(***************************************************************************)
EXTENDS OrderPayments, Checkout, PaymentEvidence, Catalogue, TLC

CONSTANTS k1, u1, c1, c2, o1, o2

VARIABLE focus

\* Two payments of half the total each, one with a key and one without.
MCPayment == {k1, u1}
MCUnkeyed == {u1}
MCAmount == (k1 :> 1) @@ (u1 :> 1)
MCClient == {c1, c2}
MCSymmetry == Permutations(MCClient) \cup Permutations({o1, o2})

\* Nothing is claimed after a price changed within a checkout, or a limit was put
\* below the count, or two callbacks of one session were handled at once, or two
\* changes of a variant and its stock item overlapped: such behaviours are not followed.
Undisturbed == changed = {} /\ ~lowered /\ mixed = {} /\ ~disturbed

OrderInit ==
  /\ focus \in {"payments", "checkouts", "evidence", "catalogue"}
  /\ Init /\ CheckoutInit /\ EvidenceInit /\ CatalogueInit

OrderNext ==
  /\ \/ focus = "payments" /\ Next /\ UNCHANGED <<checkoutVars, evidenceVars, catVars>>
     \/ focus = "checkouts" /\ CheckoutNext /\ UNCHANGED <<vars, evidenceVars, catVars>>
     \/ focus = "evidence" /\ EvidenceNext /\ UNCHANGED <<vars, checkoutVars, catVars>>
     \/ focus = "catalogue" /\ CatalogueNext /\ UNCHANGED <<vars, checkoutVars, evidenceVars>>
  /\ UNCHANGED focus

OrderSpec == OrderInit /\ [][OrderNext]_<<focus, vars, checkoutVars, evidenceVars, catVars>>
===============================================================================
