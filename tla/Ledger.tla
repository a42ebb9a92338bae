-------------------------------- MODULE Ledger --------------------------------
(***************************************************************************)
(* The books and their repair: AccountingDomainEventsHandler,               *)
(* AccountingService and JournalService (modules/accounting), and           *)
(* ReconciliationService (modules/reconciliation).                          *)
(*                                                                          *)
(* The rows of the other modules, documents here, are followed by journal   *)
(* entries.  The outbox delivers their events at least once or gives up;    *)
(* every five minutes each instance's reconciliation looks for what is      *)
(* missing, books it under the handlers' event keys, and opens and closes   *)
(* exceptions about stock that did not move.                                *)
(***************************************************************************)
EXTENDS Integers, FiniteSets, Sequences, FiniteSetsExt

CONSTANTS
  Document,    \* rows that the books or the stock must follow
  Kind,        \* Kind[d]
  Of,          \* Of[d]: the document that d follows from; d itself if there is none
  Amount,      \* Amount[d], 0 for goods that cost nothing and orders with a full discount
  Age,         \* the columns by which rows are listed: createdAt, receivedAt, paymentDate or id
  Window,      \* RECONCILIATION_BATCH_SIZE
  Handler,     \* deliveries of domain events in progress
  Reconciler,  \* instances of the application, each with its own interval
  Renamable,   \* accounts that are given another code
  MaxFaults    \* renamed accounts, lost queries and restarts

VARIABLES
  written,    \* the documents that are there
  handled,    \* documents whose event is PROCESSED
  entries,    \* entries[d][l]: rows of journal_entries with the event key of leg l of d
  missing,    \* accounts whose code nobody has at present
  exception,  \* exception[m]: inventory_reconciliation_exceptions about movement m
  run,        \* run[a]: what the delivery or the reconciliation a is at
  faults

rows == <<written, handled>>
vars == <<written, handled, entries, missing, exception, run, faults>>

Account == {"cash", "receivable", "inventory", "payable", "clearing", "revenue", "cogs"}

\* Mutant: the revenue of a refunded order is booked once more.
PostingForward ==
  [order           |-> << <<"receivable", "revenue">> >>,
   payment         |-> << <<"cash", "receivable">> >>,
   refund          |-> << <<"receivable", "cash">>, <<"receivable", "revenue">> >>,
   stockOut        |-> << <<"cogs", "inventory">> >>,
   return          |-> << <<"inventory", "cogs">> >>,
   decrease        |-> << <<"cogs", "inventory">> >>,
   increase        |-> << <<"inventory", "cogs">> >>,
   receipt         |-> << <<"inventory", "clearing">> >>,
   invoice         |-> << <<"clearing", "payable">> >>,
   supplierPayment |-> << <<"payable", "cash">> >>,
   stockIn         |-> << >>]

\* The entries of each kind of document, each with the account it debits and the one it
\* credits.  The four accounts of payment methods are one.
Posting ==
  [order           |-> << <<"receivable", "revenue">> >>,
   payment         |-> << <<"cash", "receivable">> >>,
   refund          |-> << <<"receivable", "cash">>, <<"revenue", "receivable">> >>,
   stockOut        |-> << <<"cogs", "inventory">> >>,
   return          |-> << <<"inventory", "cogs">> >>,
   decrease        |-> << <<"cogs", "inventory">> >>,
   increase        |-> << <<"inventory", "cogs">> >>,
   receipt         |-> << <<"inventory", "clearing">> >>,
   invoice         |-> << <<"clearing", "payable">> >>,
   supplierPayment |-> << <<"payable", "cash">> >>,
   stockIn         |-> << >>]

Movements == {d \in Document : Kind[d] \in {"stockIn", "stockOut", "return"}}

\* Booked by their service's own transaction; booked by a handler; may cost nothing.
Direct == {"invoice", "supplierPayment"}
Announced == {"order", "payment", "refund", "stockOut", "return", "decrease", "increase", "receipt"}
Costs == {"stockOut", "return", "decrease", "increase"}

\* What the parts of a cycle are about.  Parts 1, 9 and 10 look for movements.
Part == << {"stockIn"}, {"order"}, {"payment"}, {"refund"}, {"stockOut", "return"}, {"receipt"},
           {"invoice"}, {"supplierPayment"}, {"stockOut"}, {"return"} >>
StockPart == {1, 9, 10}

\* The row that a part lists on account of d.
Asked(p, d) == IF p \in StockPart THEN Of[d] ELSE d

Leg(d) == 1..Len(Posting[Kind[d]])

ASSUME LedgerAssumption ==
  /\ Kind \in [Document -> DOMAIN Posting]
  /\ Of \in [Document -> Document]
  /\ Amount \in [Document -> Nat]
  /\ Age \in [Document -> Nat]
  /\ Window \in Nat \ {0}
  /\ MaxFaults \in Nat
  /\ Renamable \subseteq Account
  /\ Handler \cap Reconciler = {}

Agent == Handler \cup Reconciler
Idle == [doing |-> "rest"]
Doing == {"check", "book", "commit", "act"}
\* Part 0 is a delivery.
PartsOf(doing) ==
  IF doing = "check" THEN 1..10 ELSE IF doing = "act" THEN StockPart ELSE (0..10) \ StockPart
Work == {w \in [doing : Doing, part : 0..10, todo : SUBSET Document, doc : Document, leg : 1..2,
                seen : BOOLEAN] : w.part \in PartsOf(w.doing)}
Run == {Idle} \cup Work \cup [doing : {"next"}, part : 1..10] \cup [doing : {"done"}, doc : Document]

Init ==
  /\ written = {}
  /\ handled = {}
  /\ entries = [d \in Document |-> [l \in 1..2 |-> 0]]
  /\ missing = {}
  /\ exception = [m \in Movements |-> "none"]
  /\ run = [a \in Agent |-> Idle]
  /\ faults = 0

-----------------------------------------------------------------------------
(* Rows come into being, with their events in the same transaction: from    *)
(* then on the outbox may deliver them, as often as it likes or never.      *)
Written(d) == d \in written

AccountsOf(d, l) == {Posting[Kind[d]][l][1], Posting[Kind[d]][l][2]}

\* An order is PAID together with its payment, which is one in full; other rows are written
\* alone, and not always in the order of their ages.
Together(d) == {d} \cup {e \in Document : Kind[e] = "payment" /\ Of[e] = d}

(* Supplier invoices and payments take their entry along, or are not made.  *)
Write(d) ==
  /\ ~Written(d)
  /\ Kind[d] # "payment"
  /\ Of[d] # d => Written(Of[d])
  /\ written' = written \cup Together(d)
  /\ IF Kind[d] \in Direct
     THEN /\ Amount[d] > 0
          /\ AccountsOf(d, 1) \cap missing = {}
          /\ entries' = [entries EXCEPT ![d][1] = @ + 1]
     ELSE UNCHANGED entries
  /\ UNCHANGED <<handled, missing, exception, run, faults>>

-----------------------------------------------------------------------------
(* Booking an entry: the accounts are read, then a transaction looks the    *)
(* event key up and inserts the entry.  The key is unique.                  *)
At(doing, p, D, d, l) ==
  [doing |-> doing, part |-> p, todo |-> D, doc |-> d, leg |-> l, seen |-> FALSE]

\* Where a reconciliation goes when it is through with a row of part p: to the oldest of
\* the rows listed, or on to the next part.
Following(p, D) ==
  IF D = {}
  THEN {[doing |-> "next", part |-> p]}
  ELSE {At("check", p, D \ {d}, d, 1) :
          d \in {c \in D : \A e \in D : Age[Asked(p, c)] <= Age[Asked(p, e)]}}

\* On to the next entry of the document; the reconciliation looks for each one first.
Advance(a) ==
  LET r == run[a] IN
    \E next \in
      IF r.leg < Len(Posting[Kind[r.doc]])
      THEN {At(IF r.part = 0 THEN "book" ELSE "check", r.part, r.todo, r.doc, r.leg + 1)}
      ELSE IF r.part = 0 THEN {[doing |-> "done", doc |-> r.doc]} ELSE Following(r.part, r.todo) :
        run' = [run EXCEPT ![a] = next]

Booking(a) == entries[run[a].doc][run[a].leg]

Payable(a) == Amount[run[a].doc] > 0 /\ AccountsOf(run[a].doc, run[a].leg) \cap missing = {}

\* Mutant: a missing account is nothing to book, like an amount of 0.
BookIfConfigured(a) ==
  /\ run[a].doing = "book"
  /\ \/ /\ ~Payable(a)
        /\ Amount[run[a].doc] = 0 => Kind[run[a].doc] \in Costs
        /\ Advance(a)
     \/ /\ Payable(a)
        /\ run' = [run EXCEPT ![a].doing = "commit", ![a].seen = Booking(a) > 0]
  /\ UNCHANGED <<rows, entries, missing, exception, faults>>

Book(a) ==
  /\ run[a].doing = "book"
  /\ \/ /\ Amount[run[a].doc] = 0
        /\ Kind[run[a].doc] \in Costs
        /\ Advance(a)
     \/ /\ Payable(a)
        /\ run' = [run EXCEPT ![a].doing = "commit", ![a].seen = Booking(a) > 0]
  /\ UNCHANGED <<rows, entries, missing, exception, faults>>

\* Mutant: event keys are not unique.
CommitAgain(a) ==
  /\ run[a].doing = "commit"
  /\ \/ run[a].seen /\ UNCHANGED entries
     \/ /\ ~run[a].seen
        /\ entries' = [entries EXCEPT ![run[a].doc][run[a].leg] = @ + 1]
  /\ Advance(a)
  /\ UNCHANGED <<rows, missing, exception, faults>>

Commit(a) ==
  /\ run[a].doing = "commit"
  /\ \/ run[a].seen /\ UNCHANGED entries
     \/ /\ ~run[a].seen
        /\ Booking(a) = 0
        /\ entries' = [entries EXCEPT ![run[a].doc][run[a].leg] = @ + 1]
  /\ Advance(a)
  /\ UNCHANGED <<rows, missing, exception, faults>>

\* Mutant: what throws is skipped.
ThrowPast(a) ==
  /\ \/ /\ run[a].doing = "book"
        /\ ~Payable(a)
        /\ Amount[run[a].doc] = 0 => Kind[run[a].doc] \notin Costs
     \/ run[a].doing = "commit" /\ ~run[a].seen /\ Booking(a) > 0
  /\ Advance(a)
  /\ UNCHANGED <<rows, entries, missing, exception, faults>>

(* "... must be greater than zero", "Required accounting account ... is not  *)
(* configured", or a key that was taken after it was looked up: the lookup  *)
(* after the failed insert reads what the first one read.  A cycle ends, a  *)
(* delivery fails.                                                          *)
Throw(a) ==
  /\ \/ /\ run[a].doing = "book"
        /\ ~Payable(a)
        /\ Amount[run[a].doc] = 0 => Kind[run[a].doc] \notin Costs
     \/ run[a].doing = "commit" /\ ~run[a].seen /\ Booking(a) > 0
  /\ run' = [run EXCEPT ![a] = Idle]
  /\ UNCHANGED <<rows, entries, missing, exception, faults>>

-----------------------------------------------------------------------------
(* Events.  A handler books all entries of its document, one transaction    *)
(* each, and a failed delivery begins again with the first.                 *)
Handle(h, d) ==
  /\ run[h] = Idle
  /\ Written(d)
  /\ Kind[d] \in Announced
  /\ d \notin handled
  /\ run' = [run EXCEPT ![h] = At("book", 0, {}, d, 1)]
  /\ UNCHANGED <<rows, entries, missing, exception, faults>>

Acknowledge(h) ==
  /\ run[h].doing = "done"
  /\ handled' = handled \cup {run[h].doc}
  /\ run' = [run EXCEPT ![h] = Idle]
  /\ UNCHANGED <<written, entries, missing, exception, faults>>

-----------------------------------------------------------------------------
(* A cycle of the reconciliation.  Each part lists its rows once: the       *)
(* oldest ones, RECONCILIATION_BATCH_SIZE at most.                          *)
Refunded(o) == \E f \in Document : Kind[f] = "refund" /\ Of[f] = o /\ Written(f)

Candidates(p) ==
  {d \in Document : /\ Kind[d] \in Part[p]
                    /\ Written(Asked(p, d))
                    /\ p = 9 => ~Refunded(Of[d])}

Listed(p) ==
  {d \in Candidates(p) :
     Cardinality({Asked(p, e) : e \in {c \in Candidates(p) :
                    Age[Asked(p, c)] < Age[Asked(p, d)]}}) < Window}

\* A cycle begins with part 1, unless the last one is running; after part 10 the triggers
\* of processed events are replayed (see WorkflowEngine).
List(r) ==
  LET p == IF run[r] = Idle THEN 1 ELSE run[r].part + 1 IN
    /\ run[r].doing \in {"rest", "next"}
    /\ \E next \in IF p > Len(Part) THEN {Idle} ELSE Following(p, Listed(p)) :
         run' = [run EXCEPT ![r] = next]
    /\ UNCHANGED <<rows, entries, missing, exception, faults>>

\* Mutant: a document with its first entry is taken for booked.
CheckFirstEntry(r) ==
  /\ run[r].doing = "check"
  /\ run[r].part \notin StockPart
  /\ IF entries[run[r].doc][1] > 0 THEN Advance(r) ELSE run' = [run EXCEPT ![r].doing = "book"]
  /\ UNCHANGED <<rows, entries, missing, exception, faults>>

\* hasJournalEntry.
CheckEntry(r) ==
  /\ run[r].doing = "check"
  /\ run[r].part \notin StockPart
  /\ IF Booking(r) > 0 THEN Advance(r) ELSE run' = [run EXCEPT ![r].doing = "book"]
  /\ UNCHANGED <<rows, entries, missing, exception, faults>>

GoOn(r) == \E next \in Following(run[r].part, run[r].todo) : run' = [run EXCEPT ![r] = next]

\* The exception about a movement that is there is closed.
CheckMovement(r) ==
  /\ run[r].doing = "check"
  /\ run[r].part \in StockPart
  /\ IF Written(run[r].doc)
     THEN /\ exception' = [exception EXCEPT ![run[r].doc] = IF @ = "OPEN" THEN "RESOLVED" ELSE @]
          /\ GoOn(r)
     ELSE /\ run' = [run EXCEPT ![r].doing = "act"]
          /\ UNCHANGED exception
  /\ UNCHANGED <<rows, entries, missing, faults>>

\* stockIn makes the movement of the receipt, or finds the one made meanwhile.
RepairStockIn(r) ==
  /\ run[r].doing = "act"
  /\ run[r].part = 1
  /\ written' = written \cup {run[r].doc}
  /\ run' = [run EXCEPT ![r].doing = "check"]
  /\ UNCHANGED <<handled, entries, missing, exception, faults>>

\* Mutant: what was closed by hand stays closed.
ReportOnce(r) ==
  /\ run[r].doing = "act"
  /\ exception' = [exception EXCEPT ![run[r].doc] = IF @ = "none" THEN "OPEN" ELSE @]
  /\ GoOn(r)
  /\ UNCHANGED <<rows, entries, missing, faults>>

\* recordInventoryException: nothing moved, or stockIn failed.
ReportMissing(r) ==
  /\ run[r].doing = "act"
  /\ exception' = [exception EXCEPT ![run[r].doc] = "OPEN"]
  /\ GoOn(r)
  /\ UNCHANGED <<rows, entries, missing, faults>>

Reconcile(r) ==
  \/ List(r)
  \/ CheckEntry(r)
  \/ Book(r)
  \/ Commit(r)
  \/ Throw(r)
  \/ CheckMovement(r)
  \/ RepairStockIn(r)
  \/ ReportMissing(r)

\* Mutant: closing an exception deletes its row.
DeleteInventoryException(m) ==
  /\ exception[m] = "OPEN"
  /\ exception' = [x \in Movements \ {m} |-> exception[x]]
  /\ UNCHANGED <<rows, entries, missing, run, faults>>

\* An administrator closes an exception, whatever it is about.
ResolveInventoryException(m) ==
  /\ exception[m] = "OPEN"
  /\ exception' = [exception EXCEPT ![m] = "RESOLVED"]
  /\ UNCHANGED <<rows, entries, missing, run, faults>>

-----------------------------------------------------------------------------
\* AccountsService.update gives an account another code.
Rename(account) ==
  /\ faults < MaxFaults
  /\ faults' = faults + 1
  /\ missing' = missing \cup {account}
  /\ UNCHANGED <<rows, entries, exception, run>>

\* A query fails, or the instance starts again and seeds the default accounts.
Interrupt(a) ==
  /\ faults < MaxFaults
  /\ faults' = faults + 1
  /\ run' = [run EXCEPT ![a] = Idle]
  /\ missing' \in {missing, {}}
  /\ UNCHANGED <<rows, entries, exception>>

Next ==
  \/ \E d \in Document : Write(d)
  \/ \E h \in Handler :
       \/ \E d \in Document : Handle(h, d)
       \/ Book(h)
       \/ Commit(h)
       \/ Throw(h)
       \/ Acknowledge(h)
  \/ \E r \in Reconciler : Reconcile(r)
  \/ \E m \in Movements : ResolveInventoryException(m)
  \/ \E account \in Renamable : Rename(account)
  \/ \E a \in Agent : Interrupt(a)

(* The interval of every instance fires again and again, and its queries    *)
(* come back.  Nothing is assumed of events, administrators and faults.     *)
Fairness == \A r \in Reconciler : WF_vars(Reconcile(r))

Spec == Init /\ [][Next]_vars /\ Fairness

-----------------------------------------------------------------------------
TypeOK ==
  /\ written \subseteq Document
  /\ handled \subseteq Document
  /\ entries \in [Document -> [1..2 -> Nat]]
  /\ missing \subseteq Account
  /\ exception \in [Movements -> {"none", "OPEN", "RESOLVED"}]
  /\ run \in [Agent -> Run]
  /\ faults \in 0..MaxFaults

(* Nothing is booked twice, although an event is delivered again and to      *)
(* several instances while reconciliations of several instances look for    *)
(* the same entry.                                                          *)
BookedOnce == \A d \in Document, l \in 1..2 : entries[d][l] <= 1

Booked(d) == Amount[d] = 0 \/ \A l \in Leg(d) : entries[d][l] > 0

(* An event that was acknowledged is in the books, all of it, although its   *)
(* entries are made one by one by different deliveries and reconciliations. *)
AcknowledgedIsBooked == \A d \in handled : Booked(d)

(* A refund takes the cash back before the revenue: whoever finds the second *)
(* entry may rely on the first.                                             *)
CashComesFirst ==
  \A d \in Document : Kind[d] = "refund" /\ entries[d][2] > 0 => entries[d][1] > 0

\* What the account received by debits less what it gave by credits.
Balance(account) ==
  MapThenSumSet(LAMBDA d :
    MapThenSumSet(LAMBDA l :
      entries[d][l] * Amount[d] * ((IF Posting[Kind[d]][l][1] = account THEN 1 ELSE 0)
                                 - (IF Posting[Kind[d]][l][2] = account THEN 1 ELSE 0)),
      Leg(d)), Document)

Value(kinds) ==
  MapThenSumSet(LAMBDA d : Amount[d], {d \in Document : Kind[d] \in kinds /\ Written(d)})

(* Once the events that were sent are booked the books agree with the other  *)
(* modules: customers owe nothing, the stock is worth what came in less     *)
(* what went out, and suppliers are owed, at every moment, what they        *)
(* invoiced and were not paid.                                              *)
BooksAgree ==
  /\ (\A d \in Document : Written(d) => Booked(d)) =>
       /\ Balance("receivable") = 0
       /\ Balance("inventory") = Value({"receipt", "return", "increase"})
                                 - Value({"stockOut", "decrease"})
  /\ Balance("payable") = Value({"supplierPayment"}) - Value({"invoice"})

\* A cycle always ends at a row whose entry would be of 0.
InReach(p, d) ==
  /\ d \in Listed(p)
  /\ \A q \in 2..8 : \A g \in Listed(q) :
       Amount[g] = 0 /\ Kind[g] \notin Costs => p < q \/ (p = q /\ Age[d] < Age[g])

(* What the handlers failed to book is booked in the end, by the             *)
(* reconciliation, for every row among the first RECONCILIATION_BATCH_SIZE   *)
(* of its kind that no row worth nothing precedes.                          *)
EventuallyBooked ==
  <>[](missing = {}) =>
    \A p \in 2..8 : \A d \in Document :
      Kind[d] \in Part[p] =>
        (Written(d) ~> Booked(d) \/ ~InReach(p, d))

(* Exceptions follow the stock: one about a movement that is there is        *)
(* closed, and a movement that is not there is reported, again if an        *)
(* administrator has closed its exception before it was there.              *)
ExceptionsFollowStock ==
  <>[](missing = {}) =>
    \A p \in StockPart : \A m \in Document :
      Kind[m] \in Part[p] =>
        /\ (Written(m) /\ exception[m] = "OPEN" ~> exception[m] # "OPEN" \/ ~InReach(p, m))
        /\ (m \in Listed(p) ~> Written(m) \/ exception[m] = "OPEN" \/ ~InReach(p, m))
=============================================================================
