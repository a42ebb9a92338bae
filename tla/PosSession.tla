------------------------------- MODULE PosSession -------------------------------
(***************************************************************************)
(* Point of sale: POSService (modules/pos) with the payments that are       *)
(* recorded and refunded for its sales elsewhere.                           *)
(*                                                                          *)
(* A sale reads its session without a lock and writes the order, its        *)
(* payment and the row of pos_transactions in one transaction.  Opening     *)
(* locks the user; closing locks the session, sums its cash and writes the  *)
(* sum.  Every cash payment and refund is of one unit.                      *)
(***************************************************************************)
EXTENDS Integers, FiniteSets, FiniteSetsExt

CONSTANTS
  Cashier, Till,     \* users; ids of sessions: bound on the sessions that are opened
  SaleKey,           \* request keys of sales
  TillWorker,        \* calls in flight
  OpeningCash,
  NoTill

ASSUME PosAssumption == NoTill \notin Till /\ OpeningCash \in Nat

VARIABLES
  till,         \* till[t]: status, user and expected_cash
  posSale,      \* posSale[k]: session_id of its pos_transactions row, method, whether its
                \* first payment was a part, successful payments and refunds in cash
  tillCall,     \* tillCall[w]: what w's transaction has read
  afterClose    \* history: sessions with a cash payment or refund after their cash was summed

posVars == <<till, posSale, tillCall, afterClose>>

NewTill == [status |-> "none", user |-> "none", expected |-> 0]
NoSale == [till |-> NoTill, cash |-> FALSE, part |-> FALSE, paid |-> 0, refunded |-> 0]
NoTillCall == [op |-> "none"]

PosTypeOK ==
  /\ till \in [Till -> [status : {"none", "OPEN", "CLOSED"}, user : Cashier \cup {"none"},
                        expected : Int]]
  /\ posSale \in [SaleKey -> [till : Till \cup {NoTill}, cash : BOOLEAN, part : BOOLEAN,
                              paid : 0..2, refunded : 0..2]]
  /\ tillCall \in [TillWorker -> {NoTillCall}
       \cup [op : {"sale"}, till : Till, key : SaleKey]
       \cup [op : {"close"}, till : Till, sum : Int]]
  /\ afterClose \subseteq Till

PosInit ==
  /\ till = [t \in Till |-> NewTill]
  /\ posSale = [k \in SaleKey |-> NoSale]
  /\ tillCall = [w \in TillWorker |-> NoTillCall]
  /\ afterClose = {}

-----------------------------------------------------------------------------
OpenTills(u) == {t \in Till : till[t].status = "OPEN" /\ till[t].user = u}

MayOpen(u) == OpenTills(u) = {}

OpenSession(t, u) ==
  /\ till[t].status = "none"
  /\ MayOpen(u)
  /\ till' = [till EXCEPT ![t] = [status |-> "OPEN", user |-> u, expected |-> 0]]
  /\ UNCHANGED <<posSale, tillCall, afterClose>>

\* Mutant: the sum takes every sale, whatever its method or session.
CashOfAll(t) == MapThenSumSet(LAMBDA k : posSale[k].paid - posSale[k].refunded, SaleKey)

\* CASH and SUCCESS, of the session's sales; the payment of a refund has the negative amount.
CashOf(t) ==
  MapThenSumSet(LAMBDA k : posSale[k].paid - posSale[k].refunded,
                {k \in SaleKey : posSale[k].till = t})

\* The row lock is held until the commit.
CloseReads(w, t) ==
  /\ tillCall[w] = NoTillCall
  /\ till[t].status = "OPEN"
  /\ \A v \in TillWorker : tillCall[v].op = "close" => tillCall[v].till # t
  /\ tillCall' = [tillCall EXCEPT ![w] = [op |-> "close", till |-> t, sum |-> CashOf(t)]]
  /\ UNCHANGED <<till, posSale, afterClose>>

CloseSession(w) ==
  LET t == tillCall[w].till IN
  /\ tillCall[w].op = "close"
  /\ till' = [till EXCEPT ![t].status = "CLOSED", ![t].expected = OpeningCash + tillCall[w].sum]
  /\ tillCall' = [tillCall EXCEPT ![w] = NoTillCall]
  /\ UNCHANGED <<posSale, afterClose>>

-----------------------------------------------------------------------------
SaleFindsTill(w, t, k) ==
  /\ tillCall[w] = NoTillCall
  /\ till[t].status = "OPEN"
  /\ tillCall' = [tillCall EXCEPT ![w] = [op |-> "sale", till |-> t, key |-> k]]
  /\ UNCHANGED <<till, posSale, afterClose>>

\* The cash of t is summed already.
Summed(t) ==
  \/ till[t].status = "CLOSED"
  \/ \E w \in TillWorker : tillCall[w].op = "close" /\ tillCall[w].till = t

Counting(t, cash) == afterClose' = IF cash /\ Summed(t) THEN afterClose \cup {t} ELSE afterClose

\* A key that has its order changes nothing: the order and its payment are found again, or the
\* payment is refused, and the row of pos_transactions keeps its session.
CreateSale(w, cash, part) ==
  LET t == tillCall[w].till
      k == tillCall[w].key IN
  /\ tillCall[w].op = "sale"
  /\ tillCall' = [tillCall EXCEPT ![w] = NoTillCall]
  /\ UNCHANGED till
  /\ \/ /\ posSale[k] = NoSale
        /\ posSale' = [posSale EXCEPT ![k] =
             [till |-> t, cash |-> cash, part |-> part, paid |-> IF cash THEN 1 ELSE 0, refunded |-> 0]]
        /\ Counting(t, cash)
     \/ /\ posSale[k] # NoSale
        /\ UNCHANGED <<posSale, afterClose>>

AbandonTill(w) ==
  /\ tillCall[w] # NoTillCall
  /\ tillCall' = [tillCall EXCEPT ![w] = NoTillCall]
  /\ UNCHANGED <<till, posSale, afterClose>>

\* PaymentsService.recordPayment for what is left of a sale that was paid in part
PayRest(k, cash) ==
  /\ posSale[k].part
  /\ posSale' = [posSale EXCEPT ![k].part = FALSE, ![k].paid = IF cash THEN @ + 1 ELSE @]
  /\ Counting(posSale[k].till, cash)
  /\ UNCHANGED <<till, tillCall>>

\* PaymentsService.refundPayment, once for each payment
RefundSale(k) ==
  /\ posSale[k].refunded < posSale[k].paid
  /\ posSale' = [posSale EXCEPT ![k].refunded = @ + 1]
  /\ Counting(posSale[k].till, TRUE)
  /\ UNCHANGED <<till, tillCall>>

PosNext ==
  \/ \E t \in Till, u \in Cashier : OpenSession(t, u)
  \/ \E w \in TillWorker, t \in Till : CloseReads(w, t) \/ \E k \in SaleKey : SaleFindsTill(w, t, k)
  \/ \E w \in TillWorker : CloseSession(w) \/ AbandonTill(w)
  \/ \E w \in TillWorker, cash, part \in BOOLEAN : CreateSale(w, cash, part)
  \/ \E k \in SaleKey : RefundSale(k) \/ \E cash \in BOOLEAN : PayRest(k, cash)

PosSpec == PosInit /\ [][PosNext]_posVars

-----------------------------------------------------------------------------
(* A user has one open session.  A closed session expects its opening cash   *)
(* and what its sales were paid in cash, refunds taken off, as long as no    *)
(* cash payment, refund or sale of it committed after closeSession had       *)
(* summed; a sale that had read its open session before does exactly that,   *)
(* and stays with the closed session.  Rows and calls keep their types.      *)
TillExpectsItsCash ==
  /\ PosTypeOK
  /\ \A u \in Cashier : Cardinality(OpenTills(u)) <= 1
  /\ \A t \in Till \ afterClose :
       till[t].status = "CLOSED" => till[t].expected = OpeningCash + CashOf(t)

=============================================================================
