----------------------------- MODULE BooksProofs ------------------------------
(***************************************************************************)
(* Theorems about the books: what is booked is booked once, in order and    *)
(* before its event is acknowledged, and in the end the books balance; what is *)
(* owed to suppliers is what the invoices say; and a till that was closed   *)
(* expects its cash.                                                        *)
(***************************************************************************)
EXTENDS Ledger, SupplierInvoices, PosSession, Totals

-----------------------------------------------------------------------------
(* What is booked (Ledger).                                                 *)

(* How many entries each kind of document has.                              *)
LEMMA PostingLength ==
  \A k \in DOMAIN Posting :
    Len(Posting[k]) = IF k = "refund" THEN 2 ELSE IF k = "stockIn" THEN 0 ELSE 1
  <1>1. DOMAIN Posting = {"order", "payment", "refund", "stockOut", "return", 
                          "decrease", "increase", "receipt", "invoice", "supplierPayment", "stockIn"}
    BY DEF Posting
  <1>2. Len(Posting["order"]) = 1
    BY DEF Posting
  <1>3. Len(Posting["payment"]) = 1
    BY DEF Posting
  <1>4. Len(Posting["refund"]) = 2
    BY DEF Posting
  <1>5. Len(Posting["stockOut"]) = 1
    BY DEF Posting
  <1>6. Len(Posting["return"]) = 1
    BY DEF Posting
  <1>7. Len(Posting["decrease"]) = 1
    BY DEF Posting
  <1>8. Len(Posting["increase"]) = 1
    BY DEF Posting
  <1>9. Len(Posting["receipt"]) = 1
    BY DEF Posting
  <1>10. Len(Posting["invoice"]) = 1
    BY DEF Posting
  <1>11. Len(Posting["supplierPayment"]) = 1
    BY DEF Posting
  <1>12. Len(Posting["stockIn"]) = 0
    BY DEF Posting
  <1> QED
    BY <1>1, <1>2, <1>3, <1>4, <1>5, <1>6, <1>7, <1>8, <1>9, <1>10, <1>11, <1>12

(* A cycle has ten parts.                                                   *)
LEMMA PartLength == Len(Part) = 10
  BY DEF Part

(* The entries of a document, by its kind.                                  *)
LEMMA LegsOf ==
  ASSUME LedgerAssumption, NEW d \in Document
  PROVE  /\ Len(Posting[Kind[d]]) = IF Kind[d] = "refund" THEN 2
                                    ELSE IF Kind[d] = "stockIn" THEN 0 ELSE 1
         /\ Leg(d) = 1..Len(Posting[Kind[d]])
  <1>1. Kind[d] \in DOMAIN Posting
    BY DEF LedgerAssumption
  <1> QED
    BY <1>1, PostingLength DEF Leg

-----------------------------------------------------------------------------
(* Types.                                                                   *)
LEMMA Working ==
  ASSUME TypeOK, NEW a \in Agent, run[a].doing \in Doing
  PROVE  run[a] \in Work
  BY DEF TypeOK, Run, Idle, Doing, Work

(* A row being worked on.                                                   *)
LEMMA AtType ==
  ASSUME NEW doing \in Doing, NEW p \in PartsOf(doing), NEW D \in SUBSET Document, NEW d \in Document,
         NEW l \in 1..2
  PROVE  /\ At(doing, p, D, d, l) \in Work
         /\ At(doing, p, D, d, l).doing = doing
         /\ At(doing, p, D, d, l).part = p
         /\ At(doing, p, D, d, l).todo = D
         /\ At(doing, p, D, d, l).doc = d
         /\ At(doing, p, D, d, l).leg = l
         /\ At(doing, p, D, d, l).seen = FALSE
  <1>1. p \in 0..10
    BY DEF PartsOf, StockPart
  <1> QED
    BY <1>1 DEF At, Work

(* The next row of a part, or its end.                                      *)
LEMMA FollowingCases ==
  ASSUME NEW p \in 1..10, NEW D \in SUBSET Document, NEW next \in Following(p, D)
  PROVE  /\ next \in Run
         /\ \/ next = [doing |-> "next", part |-> p]
            \/ \E d \in D : next = At("check", p, D \ {d}, d, 1)
  <1>1. CASE D = {}
    BY <1>1 DEF Following, Run
  <1>2. CASE D # {}
    <2>1. PICK d \in D : next = At("check", p, D \ {d}, d, 1)
      BY <1>2 DEF Following
    <2>2. /\ "check" \in Doing /\ p \in PartsOf("check") /\ 1 \in 1..2
          /\ D \ {d} \in SUBSET Document /\ d \in Document
      BY DEF Doing, PartsOf
    <2>3. At("check", p, D \ {d}, d, 1) \in Work
      BY <2>2, AtType
    <2> QED
      BY <2>1, <2>3 DEF Run
  <1> QED
    BY <1>1, <1>2

(* Where a booking goes on: to the second entry of a refund, to the end of a *)
(* delivery, or to the next row of a cycle.                                 *)
LEMMA AdvanceCases ==
  ASSUME LedgerAssumption, TypeOK, NEW a \in Agent, run[a] \in Work, Advance(a)
  PROVE  \E next \in Run :
           /\ run' = [run EXCEPT ![a] = next]
           /\ \/ /\ run[a].leg = 1
                 /\ Len(Posting[Kind[run[a].doc]]) = 2
                 /\ \E doing \in {"book", "check"} :
                      /\ doing = "book" => run[a].part = 0
                      /\ next = At(doing, run[a].part, run[a].todo, run[a].doc, 2)
              \/ /\ ~(run[a].leg < Len(Posting[Kind[run[a].doc]]))
                 /\ next = [doing |-> "done", doc |-> run[a].doc]
              \/ run[a].part \in 1..10 /\ next \in Following(run[a].part, run[a].todo)
  <1> DEFINE r == run[a]
  <1>1. r.part \in 0..10 /\ r.todo \in SUBSET Document /\ r.doc \in Document /\ r.leg \in 1..2
    BY DEF Work
  <1>2. Len(Posting[Kind[r.doc]]) \in 0..2
    <2>1. Len(Posting[Kind[r.doc]]) = IF Kind[r.doc] = "refund" THEN 2
                                      ELSE IF Kind[r.doc] = "stockIn" THEN 0 ELSE 1
      BY <1>1, LegsOf
    <2> QED
      BY <2>1
  <1>3. CASE r.leg < Len(Posting[Kind[r.doc]])
    <2> DEFINE doing == IF r.part = 0 THEN "book" ELSE "check"
               next == At(doing, r.part, r.todo, r.doc, r.leg + 1)
    <2>1. run' = [run EXCEPT ![a] = next]
      BY <1>3 DEF Advance
    <2>2. r.leg = 1 /\ r.leg + 1 = 2 /\ Len(Posting[Kind[r.doc]]) = 2
      <3> DEFINE n == Len(Posting[Kind[r.doc]])
                 k == r.leg
      <3>1. n \in 0..2 /\ k \in 1..2 /\ k < n
        BY <1>1, <1>2, <1>3
      <3> HIDE DEF n, k
      <3>2. k = 1 /\ k + 1 = 2 /\ n = 2
        BY <3>1
      <3> QED
        BY <3>2 DEF n, k
    <2>3. doing \in {"book", "check"} /\ (doing = "book" => r.part = 0)
      OBVIOUS
    <2>4. At(doing, r.part, r.todo, r.doc, 2) \in Work
      <3> HIDE DEF doing, r
      <3>1. doing \in Doing /\ 2 \in 1..2
        BY <2>3 DEF Doing
      <3>2. r.part \in PartsOf(doing)
        BY <1>1, <2>3 DEF PartsOf, StockPart, doing
      <3> QED
        BY <1>1, <3>1, <3>2, AtType
    <2> HIDE DEF doing
    <2>5. next = At(doing, r.part, r.todo, r.doc, 2) /\ next \in Run
      BY <2>2, <2>4 DEF Run
    <2> QED
      BY <2>1, <2>2, <2>3, <2>5
  <1>4. CASE ~(r.leg < Len(Posting[Kind[r.doc]])) /\ r.part = 0
    <2>1. run' = [run EXCEPT ![a] = [doing |-> "done", doc |-> r.doc]]
      BY <1>4 DEF Advance
    <2>2. [doing |-> "done", doc |-> r.doc] \in Run
      BY <1>1 DEF Run
    <2> QED
      BY <1>4, <2>1, <2>2
  <1>5. CASE ~(r.leg < Len(Posting[Kind[r.doc]])) /\ r.part # 0
    <2>1. PICK next \in Following(r.part, r.todo) : run' = [run EXCEPT ![a] = next]
      BY <1>5 DEF Advance
    <2>2. r.part \in 1..10
      BY <1>1, <1>5
    <2>3. next \in Run
      BY <1>1, <2>1, <2>2, FollowingCases
    <2> QED
      BY <2>1, <2>2, <2>3
  <1> QED
    BY <1>3, <1>4, <1>5

(* What a delivery or a reconciliation is at keeps its type.                *)
LEMMA RunType ==
  ASSUME TypeOK, NEW a \in Agent, NEW next \in Run, run' = [run EXCEPT ![a] = next]
  PROVE  run' \in [Agent -> Run]
  BY DEF TypeOK

(* The documents that a part lists; those to be booked are there.           *)
LEMMA ListedDocuments ==
  \A p \in 1..10 : /\ Listed(p) \in SUBSET Document
                   /\ p \notin StockPart => \A d \in Listed(p) : Written(d)
  BY DEF Listed, Candidates, Asked

(* Every step keeps the types: one step for each action.                    *)
LEMMA TypeInductive ==
  ASSUME LedgerAssumption, TypeOK, [Next]_vars
  PROVE  TypeOK'
  <1> USE DEF rows, vars
  <1>1. ASSUME NEW d \in Document, Write(d) PROVE TypeOK'
    <2>1. written' \subseteq Document
      BY <1>1 DEF Write, TypeOK, Together
    <2>2. entries' \in [Document -> [1..2 -> Nat]]
      <3>1. CASE Kind[d] \in Direct
        BY <1>1, <3>1 DEF Write, TypeOK
      <3>2. CASE Kind[d] \notin Direct
        BY <1>1, <3>2 DEF Write, TypeOK
      <3> QED
        BY <3>1, <3>2
    <2> QED
      BY <1>1, <2>1, <2>2 DEF Write, TypeOK
  <1>2. ASSUME NEW a \in Agent, Book(a) PROVE TypeOK'
    <2>1. run[a] \in Work
      BY <1>2, Working DEF Book, Doing
    <2>2. run' \in [Agent -> Run]
      <3>1. CASE Advance(a)
        BY <2>1, <3>1, AdvanceCases, RunType
      <3>2. CASE run' = [run EXCEPT ![a].doing = "commit", ![a].seen = Booking(a) > 0]
        <4> DEFINE next == [run[a] EXCEPT !.doing = "commit", !.seen = Booking(a) > 0]
        <4>1. run' = [run EXCEPT ![a] = next]
          BY <2>1, <3>2 DEF TypeOK, Work
        <4>2. next \in Run
          <5>1. run[a].part \in PartsOf("commit")
            BY <1>2, <2>1 DEF Book, Work, PartsOf
          <5> DEFINE known == Booking(a) > 0
          <5>2. known \in BOOLEAN /\ "commit" \in Doing
            BY DEF Doing
          <5> HIDE DEF known
          <5>3. [run[a] EXCEPT !.doing = "commit", !.seen = known] \in Work
            BY <2>1, <5>1, <5>2 DEF Work
          <5> QED
            BY <5>3 DEF Run, known
        <4> QED
          BY <4>1, <4>2, RunType
      <3> QED
        BY <1>2, <3>1, <3>2 DEF Book
    <2> QED
      BY <1>2, <2>2 DEF Book, TypeOK
  <1>3. ASSUME NEW a \in Agent, Commit(a) PROVE TypeOK'
    <2>1. run[a] \in Work
      BY <1>3, Working DEF Commit, Doing
    <2>2. run' \in [Agent -> Run]
      BY <1>3, <2>1, AdvanceCases, RunType DEF Commit
    <2>3. entries' \in [Document -> [1..2 -> Nat]]
      BY <1>3, <2>1 DEF Commit, TypeOK, Work
    <2> QED
      BY <1>3, <2>2, <2>3 DEF Commit, TypeOK
  <1>4. ASSUME NEW a \in Agent, Throw(a) PROVE TypeOK'
    BY <1>4 DEF Throw, TypeOK, Run
  <1>5. ASSUME NEW h \in Handler, NEW d \in Document, Handle(h, d) PROVE TypeOK'
    <2>1. At("book", 0, {}, d, 1) \in Run
      <3>1. "book" \in Doing /\ 0 \in PartsOf("book") /\ {} \in SUBSET Document /\ 1 \in 1..2
        BY DEF Doing, PartsOf, StockPart
      <3> QED
        BY <3>1, AtType DEF Run
    <2> QED
      BY <1>5, <2>1 DEF Handle, TypeOK, Agent
  <1>6. ASSUME NEW h \in Handler, Acknowledge(h) PROVE TypeOK'
    <2>1. run[h].doc \in Document
      BY <1>6 DEF Acknowledge, TypeOK, Agent, Run, Idle, Work, Doing
    <2> QED
      BY <1>6, <2>1 DEF Acknowledge, TypeOK, Run
  <1>7. ASSUME NEW r \in Reconciler, List(r) PROVE TypeOK'
    <2> DEFINE p == IF run[r] = Idle THEN 1 ELSE run[r].part + 1
    <2>1. p > 10 \/ p \in 1..10
      <3>1. run[r] \in Run /\ run[r].doing \in {"rest", "next"}
        BY <1>7 DEF List, TypeOK, Agent
      <3>2. run[r] = Idle \/ run[r].part \in 1..10
        BY <3>1 DEF Run, Work, Doing
      <3> QED
        BY <3>2
    <2>2. PICK next \in IF p > Len(Part) THEN {Idle} ELSE Following(p, Listed(p)) :
            run' = [run EXCEPT ![r] = next]
      BY <1>7 DEF List
    <2>3. next \in Run
      <3>1. CASE p > 10
        BY <2>2, <3>1, PartLength DEF Run
      <3>2. CASE p \in 1..10
        <4> HIDE DEF p
        <4>1. next \in Following(p, Listed(p))
          BY <2>2, <3>2, PartLength
        <4>2. Listed(p) \in SUBSET Document
          BY <3>2, ListedDocuments
        <4> QED
          BY <3>2, <4>1, <4>2, FollowingCases
      <3> QED
        BY <2>1, <3>1, <3>2
    <2> QED
      BY <1>7, <2>2, <2>3, RunType DEF List, TypeOK, Agent
  <1>8. ASSUME NEW r \in Reconciler, CheckEntry(r) PROVE TypeOK'
    <2>1. r \in Agent /\ run[r] \in Work
      BY <1>8, Working DEF CheckEntry, Doing, Agent
    <2>2. run' \in [Agent -> Run]
      <3>1. CASE Advance(r)
        BY <2>1, <3>1, AdvanceCases, RunType
      <3>2. CASE run' = [run EXCEPT ![r].doing = "book"]
        <4>1. [run[r] EXCEPT !.doing = "book"] \in Work
          BY <1>8, <2>1 DEF CheckEntry, Work, Doing, PartsOf
        <4> QED
          BY <3>2, <4>1 DEF TypeOK, Run
      <3> QED
        BY <1>8, <3>1, <3>2 DEF CheckEntry
    <2> QED
      BY <1>8, <2>2 DEF CheckEntry, TypeOK
  <1>9. ASSUME NEW r \in Reconciler, run[r] \in Work, run[r].part \in StockPart, GoOn(r)
        PROVE  run' \in [Agent -> Run]
    <2>1. r \in Agent /\ run[r].part \in 1..10 /\ run[r].todo \in SUBSET Document
      BY <1>9 DEF Work, StockPart, Agent
    <2>2. PICK next \in Following(run[r].part, run[r].todo) : run' = [run EXCEPT ![r] = next]
      BY <1>9 DEF GoOn
    <2> QED
      BY <2>1, <2>2, FollowingCases, RunType
  <1>10. ASSUME NEW r \in Reconciler, CheckMovement(r) PROVE TypeOK'
    <2>1. r \in Agent /\ run[r] \in Work
      BY <1>10, Working DEF CheckMovement, Doing, Agent
    <2>2. run' \in [Agent -> Run]
      <3>1. CASE GoOn(r)
        BY <1>9, <1>10, <2>1, <3>1 DEF CheckMovement
      <3>2. CASE run' = [run EXCEPT ![r].doing = "act"]
        <4>1. [run[r] EXCEPT !.doing = "act"] \in Work
          BY <1>10, <2>1 DEF CheckMovement, Work, Doing, PartsOf
        <4> QED
          BY <3>2, <4>1 DEF TypeOK, Run
      <3> QED
        BY <1>10, <3>1, <3>2 DEF CheckMovement
    <2>3. exception' \in [Movements -> {"none", "OPEN", "RESOLVED"}]
      BY <1>10 DEF CheckMovement, TypeOK
    <2> QED
      BY <1>10, <2>2, <2>3 DEF CheckMovement, TypeOK
  <1>11. ASSUME NEW r \in Reconciler, RepairStockIn(r) PROVE TypeOK'
    <2>1. r \in Agent /\ run[r] \in Work
      BY <1>11, Working DEF RepairStockIn, Doing, Agent
    <2>2. run' \in [Agent -> Run]
      <3>1. [run[r] EXCEPT !.doing = "check"] \in Work
        BY <1>11, <2>1 DEF RepairStockIn, Work, Doing, PartsOf
      <3> QED
        BY <1>11, <3>1 DEF RepairStockIn, TypeOK, Run
    <2>3. written' \subseteq Document
      BY <1>11, <2>1 DEF RepairStockIn, TypeOK, Work
    <2> QED
      BY <1>11, <2>2, <2>3 DEF RepairStockIn, TypeOK
  <1>12. ASSUME NEW r \in Reconciler, ReportMissing(r) PROVE TypeOK'
    <2>1. r \in Agent /\ run[r] \in Work
      BY <1>12, Working DEF ReportMissing, Doing, Agent
    <2>2. run' \in [Agent -> Run]
      <3>1. run[r].part \in StockPart
        BY <1>12, <2>1 DEF ReportMissing, Work, PartsOf
      <3> QED
        BY <1>9, <1>12, <2>1, <3>1 DEF ReportMissing
    <2>3. exception' \in [Movements -> {"none", "OPEN", "RESOLVED"}]
      BY <1>12 DEF ReportMissing, TypeOK
    <2> QED
      BY <1>12, <2>2, <2>3 DEF ReportMissing, TypeOK
  <1>13. ASSUME NEW m \in Movements, ResolveInventoryException(m) PROVE TypeOK'
    BY <1>13 DEF ResolveInventoryException, TypeOK
  <1>14. ASSUME NEW account \in Renamable, Rename(account) PROVE TypeOK'
    BY <1>14 DEF Rename, TypeOK, LedgerAssumption
  <1>15. ASSUME NEW a \in Agent, Interrupt(a) PROVE TypeOK'
    BY <1>15 DEF Interrupt, TypeOK, LedgerAssumption, Run
  <1>16. ASSUME UNCHANGED vars PROVE TypeOK'
    BY <1>16 DEF TypeOK
  <1>17. \A h \in Handler : h \in Agent
    BY DEF Agent
  <1>18. \A r \in Reconciler : r \in Agent
    BY DEF Agent
  <1> HIDE DEF rows, vars
  <1> QED
    BY <1>1, <1>2, <1>3, <1>4, <1>5, <1>6, <1>7, <1>8, <1>10, <1>11, <1>12, <1>13, <1>14,
       <1>15, <1>16, <1>17, <1>18 DEF Next, Reconcile

(* The books have the types of TypeOK.                                      *)
THEOREM LedgerTypeCorrect == Spec => []TypeOK
  <1>1. Init => TypeOK
    BY LedgerAssumption DEF Init, TypeOK, Run, LedgerAssumption
  <1>2. TypeOK /\ [Next]_vars => TypeOK'
    BY LedgerAssumption, TypeInductive
  <1> QED
    BY <1>1, <1>2, PTL DEF Spec

-----------------------------------------------------------------------------
(* The inductive invariant.  Whoever is about to book an entry knows that   *)
(* its document is there (c) and that the entry before it is booked (e);    *)
(* whoever has seen the entry, or has booked all of them, was right.        *)
Sound(s, c, e) ==
  /\ s.doing \in Doing /\ s.part \notin StockPart =>
       /\ s.doc \in c
       /\ s.todo \subseteq c
       /\ s.leg = 2 => e[s.doc][1] > 0
  /\ s.doing = "commit" /\ s.seen => e[s.doc][s.leg] > 0
  /\ s.doing = "done" => Amount[s.doc] = 0 \/ \A l \in Leg(s.doc) : e[s.doc][l] > 0

\* An entry is of a document that was written.
EntriesFollow == \A d \in Document, l \in 1..2 : entries[d][l] > 0 => Written(d)

\* Every agent has read what still holds.
AgentsSound == \A a \in Agent : Sound(run[a], written, entries)

\* What a step needs and leaves.
BooksInv == TypeOK /\ BookedOnce /\ EntriesFollow /\ CashComesFirst /\ AcknowledgedIsBooked /\ AgentsSound

\* Rows and entries are never taken back.
Grow ==
  /\ written \subseteq written'
  /\ \A d \in Document, l \in 1..2 : entries[d][l] > 0 => entries'[d][l] > 0

(* A document has no more than two entries.                                 *)
LEMMA LegRange ==
  ASSUME LedgerAssumption, NEW d \in Document
  PROVE  Leg(d) \subseteq 1..2
  <1> DEFINE n == Len(Posting[Kind[d]])
  <1>1. n \in 0..2 /\ Leg(d) = 1..n
    <2>1. n = IF Kind[d] = "refund" THEN 2 ELSE IF Kind[d] = "stockIn" THEN 0 ELSE 1
      BY LegsOf
    <2> QED
      BY <2>1, LegsOf
  <1> HIDE DEF n
  <1> QED
    BY <1>1

(* What an agent knows stays true while rows and entries are added.         *)
LEMMA SoundGrows ==
  ASSUME LedgerAssumption, Grow, NEW s \in Run, Sound(s, written, entries)
  PROVE  Sound(s, written', entries')
  <1>1. CASE s.doing \in Doing
    <2>1. s \in Work
      BY <1>1 DEF Run, Idle, Doing
    <2>2. s.doc \in Document /\ s.todo \subseteq Document /\ s.leg \in 1..2 /\ s.doing # "done"
      BY <1>1, <2>1 DEF Work, Doing
    <2> QED
      BY <2>2 DEF Sound, Grow
  <1>2. CASE s.doing = "done"
    <2>1. s.doc \in Document
      BY <1>2 DEF Run, Idle, Work, Doing
    <2>2. Leg(s.doc) \subseteq 1..2
      BY <2>1, LegRange
    <2> QED
      BY <1>2, <2>1, <2>2 DEF Sound, Grow, Doing
  <1>3. CASE s.doing \notin Doing \cup {"done"}
    BY <1>3 DEF Sound, Doing
  <1> QED
    BY <1>1, <1>2, <1>3

(* A step of one agent leaves what the others know.                         *)
LEMMA AgentsStaySound ==
  ASSUME LedgerAssumption, TypeOK, AgentsSound, Grow, NEW a \in Agent, NEW next,
         run' = [run EXCEPT ![a] = next], Sound(next, written', entries')
  PROVE  AgentsSound'
  <1>1. ASSUME NEW b \in Agent PROVE Sound(run'[b], written', entries')
    <2>1. CASE b = a
      BY <2>1 DEF TypeOK
    <2>2. CASE b # a
      <3>1. run'[b] = run[b] /\ run[b] \in Run /\ Sound(run[b], written, entries)
        BY <2>2 DEF TypeOK, AgentsSound
      <3> QED
        BY <3>1, SoundGrows
    <2> QED
      BY <2>1, <2>2
  <1>2. AgentsSound' <=> \A b \in Agent : Sound(run'[b], written', entries')
    BY DEF AgentsSound, Sound
  <1> QED
    BY <1>1, <1>2

(* The next row of a part is there, if the rows that are left are.          *)
LEMMA FollowingSound ==
  ASSUME NEW c, NEW e, NEW p \in 1..10, NEW D \in SUBSET Document, NEW next \in Following(p, D),
         p \notin StockPart => D \subseteq c
  PROVE  Sound(next, c, e)
  <1>1. CASE next = [doing |-> "next", part |-> p]
    BY <1>1 DEF Sound, Doing
  <1>2. CASE \E d \in D : next = At("check", p, D \ {d}, d, 1)
    <2>1. PICK d \in D : next = At("check", p, D \ {d}, d, 1)
      BY <1>2
    <2>2. next.doing = "check" /\ next.part = p /\ next.todo = D \ {d} /\ next.doc = d /\ next.leg = 1
      BY <2>1 DEF At
    <2> QED
      BY <2>2 DEF Sound
  <1> QED
    BY <1>1, <1>2, FollowingCases

(* Who is through with an entry goes on soundly: the entry is booked, or it  *)
(* is the only one and costs nothing.                                       *)
LEMMA AdvanceSound ==
  ASSUME LedgerAssumption, TypeOK, NEW a \in Agent, run[a] \in Work, Advance(a), NEW c, NEW e,
         Sound(run[a], c, e), run[a].part \notin StockPart,
         \/ e[run[a].doc][run[a].leg] > 0
         \/ Amount[run[a].doc] = 0 /\ Kind[run[a].doc] \in Costs
  PROVE  \E next \in Run : run' = [run EXCEPT ![a] = next] /\ Sound(next, c, e)
  <1> DEFINE r == run[a]
             n == Len(Posting[Kind[r.doc]])
  <1>1. /\ r.doc \in Document /\ r.todo \in SUBSET Document /\ r.leg \in 1..2
        /\ r.doing \in Doing /\ r.part \notin StockPart
        /\ r.doc \in c /\ r.todo \subseteq c
        /\ r.leg = 2 => e[r.doc][1] > 0
    BY DEF Work, Sound
  <1>2. n = (IF Kind[r.doc] = "refund" THEN 2 ELSE IF Kind[r.doc] = "stockIn" THEN 0 ELSE 1) /\ Leg(r.doc) = 1..n
    BY <1>1, LegsOf
  <1>3. PICK next \in Run :
          /\ run' = [run EXCEPT ![a] = next]
          /\ \/ /\ r.leg = 1
                /\ n = 2
                /\ \E doing \in {"book", "check"} :
                     /\ doing = "book" => r.part = 0
                     /\ next = At(doing, r.part, r.todo, r.doc, 2)
             \/ /\ ~(r.leg < n)
                /\ next = [doing |-> "done", doc |-> r.doc]
             \/ r.part \in 1..10 /\ next \in Following(r.part, r.todo)
    BY AdvanceCases
  <1>4. CASE /\ r.leg = 1
             /\ n = 2
             /\ \E doing \in {"book", "check"} : next = At(doing, r.part, r.todo, r.doc, 2)
    <2>1. e[r.doc][1] > 0
      <3>1. Kind[r.doc] = "refund"
        <4>1. n = 2 /\ n = IF Kind[r.doc] = "refund" THEN 2
                           ELSE IF Kind[r.doc] = "stockIn" THEN 0 ELSE 1
          BY <1>2, <1>4
        <4> HIDE DEF n, r
        <4> QED
          BY <4>1
      <3>2. Kind[r.doc] \notin Costs
        BY <3>1 DEF Costs
      <3>3. e[r.doc][r.leg] > 0
        BY <3>2
      <3> QED
        BY <1>4, <3>3
    <2>2. /\ next.doing \in {"book", "check"} /\ next.part = r.part /\ next.todo = r.todo
          /\ next.doc = r.doc /\ next.leg = 2
      BY <1>4 DEF At
    <2>3. Sound(next, c, e)
      BY <1>1, <2>1, <2>2 DEF Sound
    <2> QED
      BY <1>3, <2>3
  <1>5. CASE ~(r.leg < n) /\ next = [doing |-> "done", doc |-> r.doc]
    <2>1. next.doing = "done" /\ next.doc = r.doc /\ next.doing \notin Doing
      BY <1>5 DEF Doing
    <2>2. Amount[r.doc] = 0 \/ \A l \in Leg(r.doc) : e[r.doc][l] > 0
      <3>1. n \in 0..2
        BY <1>2
      <3>2. e[r.doc][r.leg] > 0 \/ Amount[r.doc] = 0
        OBVIOUS
      <3> HIDE DEF n, r
      <3>3. \A l \in Leg(r.doc) : l \in 1..n /\ l \in 1..2 /\ (l = 1 \/ l = 2) /\ l <= n
        BY <1>2, <3>1
      <3>4. \A l \in Leg(r.doc) : l = r.leg \/ (l = 1 /\ r.leg = 2)
        BY <1>1, <1>5, <3>1, <3>3
      <3> QED
        BY <1>1, <3>4, <3>2
    <2>3. Sound(next, c, e)
      BY <2>1, <2>2 DEF Sound
    <2> QED
      BY <1>3, <2>3
  <1>6. CASE r.part \in 1..10 /\ next \in Following(r.part, r.todo)
    BY <1>1, <1>3, <1>6, FollowingSound
  <1> QED
    BY <1>3, <1>4, <1>5, <1>6

(* A document that was booked stays booked.                                 *)
LEMMA BookedStays ==
  ASSUME LedgerAssumption, Grow, NEW d \in Document, Booked(d)
  PROVE  Booked(d)'
  <1>1. Leg(d) \subseteq 1..2
    BY LegRange
  <1> QED
    BY <1>1 DEF Booked, Grow, Leg

(* Steps that book nothing.                                                 *)
LEMMA EntriesStay ==
  ASSUME LedgerAssumption, BooksInv, Grow, UNCHANGED entries, UNCHANGED handled
  PROVE  BookedOnce' /\ EntriesFollow' /\ CashComesFirst' /\ AcknowledgedIsBooked'
  <1>1. AcknowledgedIsBooked'
    BY BookedStays DEF BooksInv, TypeOK, AcknowledgedIsBooked
  <1>2. EntriesFollow'
    BY DEF BooksInv, EntriesFollow, Grow, Written
  <1> QED
    BY <1>1, <1>2 DEF BooksInv, BookedOnce, CashComesFirst

(* Steps of no agent.                                                       *)
LEMMA AgentsRest ==
  ASSUME LedgerAssumption, BooksInv, Grow, UNCHANGED run
  PROVE  AgentsSound'
  <1>1. \A a \in Agent : Sound(run[a], written', entries')
    BY SoundGrows DEF BooksInv, AgentsSound, TypeOK
  <1> QED
    BY <1>1 DEF AgentsSound, Sound

(* One more entry: it is the only one of its leg, its document is there, and *)
(* the entry before it is booked.                                           *)
LEMMA EntryAdded ==
  ASSUME LedgerAssumption, BooksInv, NEW d \in Document, NEW l \in 1..2, entries[d][l] = 0,
         d \in written', written \subseteq written',
         Kind[d] = "refund" /\ l = 2 => entries[d][1] > 0,
         entries' = [entries EXCEPT ![d][l] = @ + 1], UNCHANGED handled
  PROVE  Grow /\ BookedOnce' /\ EntriesFollow' /\ CashComesFirst' /\ AcknowledgedIsBooked'
  <1>1. entries \in [Document -> [1..2 -> Nat]]
    BY DEF BooksInv, TypeOK
  <1>2. entries'[d][l] = 1 /\ \A x \in Document, k \in 1..2 :
          x # d \/ k # l => entries'[x][k] = entries[x][k]
    BY <1>1
  <1>3. Grow
    BY <1>1, <1>2 DEF Grow
  <1>4. BookedOnce'
    BY <1>2 DEF BooksInv, BookedOnce
  <1>5. EntriesFollow'
    BY <1>2 DEF BooksInv, EntriesFollow, Written
  <1>6. CashComesFirst'
    BY <1>1, <1>2 DEF BooksInv, CashComesFirst
  <1>7. AcknowledgedIsBooked'
    BY <1>3, BookedStays DEF BooksInv, TypeOK, AcknowledgedIsBooked
  <1> QED
    BY <1>3, <1>4, <1>5, <1>6, <1>7

(* Every step keeps the invariant: one step for each action.                *)
LEMMA BooksInductive ==
  ASSUME LedgerAssumption, BooksInv, [Next]_vars
  PROVE  BooksInv'
  <1> USE DEF rows, vars
  <1>1. TypeOK /\ TypeOK'
    BY TypeInductive DEF BooksInv
  <1>2. UNCHANGED <<written, entries>> => Grow
    BY DEF Grow
  <1>3. ASSUME UNCHANGED <<written, handled, entries>>, NEW a \in Agent, NEW next,
               run' = [run EXCEPT ![a] = next], Sound(next, written, entries)
        PROVE  BooksInv'
    <2>1. Grow /\ Sound(next, written', entries')
      BY <1>2, <1>3 DEF Sound
    <2>2. AgentsSound'
      BY <1>1, <1>3, <2>1, AgentsStaySound DEF BooksInv
    <2> QED
      BY <1>1, <1>3, <2>1, <2>2, EntriesStay DEF BooksInv
  <1>4. ASSUME UNCHANGED <<written, handled, entries, run>> PROVE BooksInv'
    BY <1>1, <1>2, <1>4, EntriesStay, AgentsRest DEF BooksInv
  <1>5. ASSUME NEW a \in Agent PROVE Sound(run[a], written, entries) /\ Sound(Idle, written, entries)
    BY DEF BooksInv, AgentsSound, Sound, Idle, Doing
  <1>6. ASSUME NEW d \in Document, Write(d) PROVE BooksInv'
    <2>1. written \subseteq written'
      BY <1>6 DEF Write
    <2>2. d \in written'
      BY <1>6 DEF Write, Together
    <2>3. Grow /\ BookedOnce' /\ EntriesFollow' /\ CashComesFirst' /\ AcknowledgedIsBooked'
      <3>1. CASE Kind[d] \in Direct
        <4>1. entries[d][1] = 0
          BY <1>1, <1>6 DEF Write, Written, BooksInv, EntriesFollow, TypeOK
        <4> QED
          BY <1>6, <2>1, <2>2, <3>1, <4>1, EntryAdded DEF Write, Direct
      <3>2. CASE Kind[d] \notin Direct
        BY <1>6, <2>1, <3>2, EntriesStay DEF Write, Grow
      <3> QED
        BY <3>1, <3>2
    <2>4. AgentsSound'
      BY <1>6, <2>3, AgentsRest DEF Write
    <2> QED
      BY <1>1, <2>3, <2>4 DEF BooksInv
  <1>7. ASSUME NEW a \in Agent, Book(a) PROVE BooksInv'
    <2>1. run[a] \in Work /\ run[a].part \notin StockPart
      BY <1>1, <1>7, Working DEF Book, Doing, Work, PartsOf
    <2>2. CASE Amount[run[a].doc] = 0 /\ Kind[run[a].doc] \in Costs /\ Advance(a)
      <3>1. \E next \in Run : run' = [run EXCEPT ![a] = next] /\ Sound(next, written, entries)
        BY <1>1, <1>5, <2>1, <2>2, AdvanceSound
      <3> QED
        BY <1>3, <1>7, <3>1 DEF Book
    <2>3. CASE run' = [run EXCEPT ![a].doing = "commit", ![a].seen = Booking(a) > 0]
      <3> DEFINE known == Booking(a) > 0
                 next == [run[a] EXCEPT !.doing = "commit", !.seen = known]
      <3>1. run' = [run EXCEPT ![a] = next]
        BY <1>1, <2>1, <2>3 DEF TypeOK, Work
      <3>2. known => entries[run[a].doc][run[a].leg] > 0
        BY DEF Booking
      <3> HIDE DEF known
      <3>3. /\ next.doing = "commit" /\ (next.seen <=> known) /\ next.part = run[a].part
            /\ next.todo = run[a].todo /\ next.doc = run[a].doc /\ next.leg = run[a].leg
        BY <2>1 DEF Work
      <3>4. Sound(next, written, entries)
        <4> HIDE DEF next
        <4>1. run[a].doing \in Doing
          BY <2>1 DEF Work
        <4> QED
          BY <1>5, <2>1, <3>2, <3>3, <4>1 DEF Sound
      <3> QED
        BY <1>3, <1>7, <3>1, <3>4 DEF Book
    <2> QED
      BY <1>7, <2>2, <2>3 DEF Book
  <1>8. ASSUME NEW a \in Agent, Commit(a) PROVE BooksInv'
    <2> DEFINE d == run[a].doc
               l == run[a].leg
    <2>1. run[a] \in Work /\ run[a].part \notin StockPart /\ run[a].doing = "commit"
      BY <1>1, <1>8, Working DEF Commit, Doing, Work, PartsOf
    <2>2. d \in Document /\ l \in 1..2 /\ run[a] \in Run
      BY <2>1 DEF Work, Run
    <2>3. d \in written /\ (l = 2 => entries[d][1] > 0)
      BY <1>5, <2>1 DEF Sound, Doing
    <2>4. /\ Grow /\ BookedOnce' /\ EntriesFollow' /\ CashComesFirst' /\ AcknowledgedIsBooked'
          /\ entries'[d][l] > 0
      <3>1. CASE run[a].seen /\ UNCHANGED entries
        <4>1. entries[d][l] > 0
          BY <1>5, <2>1, <3>1 DEF Sound
        <4> QED
          BY <1>2, <1>8, <3>1, <4>1, EntriesStay DEF Commit
      <3>2. CASE Booking(a) = 0 /\ entries' = [entries EXCEPT ![d][l] = @ + 1]
        <4>1. entries[d][l] = 0
          BY <3>2 DEF Booking
        <4>2. Grow /\ BookedOnce' /\ EntriesFollow' /\ CashComesFirst' /\ AcknowledgedIsBooked'
          <5> HIDE DEF d, l
          <5> QED
            BY <1>8, <2>2, <2>3, <3>2, <4>1, EntryAdded DEF Commit
        <4>3. entries'[d][l] > 0
          BY <1>1, <2>2, <3>2, <4>1 DEF TypeOK
        <4> QED
          BY <4>2, <4>3
      <3> QED
        BY <1>8, <3>1, <3>2 DEF Commit
    <2>5. Sound(run[a], written', entries')
      BY <1>5, <2>2, <2>4, SoundGrows
    <2>6. Advance(a)
      BY <1>8 DEF Commit
    <2>7. PICK next \in Run : run' = [run EXCEPT ![a] = next] /\ Sound(next, written', entries')
      BY <1>1, <2>1, <2>4, <2>5, <2>6, AdvanceSound
    <2>8. AgentsSound'
      BY <1>1, <2>4, <2>7, AgentsStaySound DEF BooksInv
    <2> QED
      BY <1>1, <2>4, <2>8 DEF BooksInv
  <1>9. ASSUME NEW a \in Agent, Throw(a) PROVE BooksInv'
    BY <1>3, <1>5, <1>9 DEF Throw
  <1>10. ASSUME NEW h \in Handler, NEW d \in Document, Handle(h, d) PROVE BooksInv'
    <2> DEFINE next == At("book", 0, {}, d, 1)
    <2>1. next.doing = "book" /\ next.todo = {} /\ next.doc = d /\ next.leg = 1
      BY DEF At
    <2>2. Sound(next, written, entries)
      <3> HIDE DEF next
      <3> QED
        BY <1>10, <2>1 DEF Sound, Handle, Written
    <2> QED
      BY <1>3, <1>10, <2>2 DEF Handle, Agent
  <1>11. ASSUME NEW h \in Handler, Acknowledge(h) PROVE BooksInv'
    <2>1. h \in Agent /\ run[h] \in Run /\ run[h].doing = "done"
      BY <1>1, <1>11 DEF Acknowledge, Agent, TypeOK
    <2>2. run[h].doc \in Document
      BY <2>1 DEF Run, Idle, Work, Doing
    <2>3. Booked(run[h].doc)
      BY <1>5, <2>1 DEF Sound, Booked
    <2>4. AcknowledgedIsBooked'
      BY <1>11, <2>3 DEF Acknowledge, BooksInv, AcknowledgedIsBooked, Booked, Leg
    <2>5. AgentsSound'
      <3>1. Grow /\ run' = [run EXCEPT ![h] = Idle] /\ Sound(Idle, written', entries')
        BY <1>2, <1>11 DEF Acknowledge, Sound, Idle, Doing
      <3> QED
        BY <1>1, <2>1, <3>1, AgentsStaySound DEF BooksInv
    <2> QED
      BY <1>1, <1>11, <2>4, <2>5 DEF Acknowledge, BooksInv, BookedOnce, EntriesFollow, Written,
                                     CashComesFirst
  <1>12. ASSUME NEW r \in Reconciler, List(r) PROVE BooksInv'
    <2> DEFINE p == IF run[r] = Idle THEN 1 ELSE run[r].part + 1
    <2>1. p > 10 \/ p \in 1..10
      <3>1. run[r] \in Run /\ run[r].doing \in {"rest", "next"}
        BY <1>1, <1>12 DEF List, TypeOK, Agent
      <3>2. run[r] = Idle \/ run[r].part \in 1..10
        BY <3>1 DEF Run, Work, Doing
      <3> QED
        BY <3>2
    <2>2. PICK next \in IF p > Len(Part) THEN {Idle} ELSE Following(p, Listed(p)) :
            run' = [run EXCEPT ![r] = next]
      BY <1>12 DEF List
    <2>3. r \in Agent
      BY DEF Agent
    <2>4. Sound(next, written, entries)
      <3>1. CASE p > 10
        BY <1>5, <2>2, <2>3, <3>1, PartLength
      <3>2. CASE p \in 1..10
        <4> HIDE DEF p
        <4>1. next \in Following(p, Listed(p))
          BY <2>2, <3>2, PartLength
        <4>2. /\ Listed(p) \in SUBSET Document
              /\ p \notin StockPart => Listed(p) \subseteq written
          BY <3>2, ListedDocuments DEF Written
        <4> QED
          BY <3>2, <4>1, <4>2, FollowingSound
      <3> QED
        BY <2>1, <3>1, <3>2
    <2> QED
      BY <1>3, <1>12, <2>2, <2>3, <2>4 DEF List
  <1>13. ASSUME NEW r \in Reconciler, CheckEntry(r) PROVE BooksInv'
    <2>1. r \in Agent /\ run[r] \in Work /\ run[r].part \notin StockPart /\ run[r].doing = "check"
      BY <1>1, <1>13, Working DEF CheckEntry, Doing, Agent
    <2>2. CASE Booking(r) > 0 /\ Advance(r)
      <3>1. \E next \in Run : run' = [run EXCEPT ![r] = next] /\ Sound(next, written, entries)
        BY <1>1, <1>5, <2>1, <2>2, AdvanceSound DEF Booking
      <3> QED
        BY <1>3, <1>13, <2>1, <3>1 DEF CheckEntry
    <2>3. CASE run' = [run EXCEPT ![r].doing = "book"]
      <3> DEFINE next == [run[r] EXCEPT !.doing = "book"]
      <3>1. run' = [run EXCEPT ![r] = next]
        BY <1>1, <2>1, <2>3 DEF TypeOK, Work
      <3>2. /\ next.doing = "book" /\ next.part = run[r].part
            /\ next.todo = run[r].todo /\ next.doc = run[r].doc /\ next.leg = run[r].leg
        BY <2>1 DEF Work
      <3>3. Sound(next, written, entries)
        <4> HIDE DEF next
        <4> QED
          BY <1>5, <2>1, <3>2 DEF Sound, Doing
      <3> QED
        BY <1>3, <1>13, <2>1, <3>1, <3>3 DEF CheckEntry
    <2> QED
      BY <1>13, <2>2, <2>3 DEF CheckEntry
  <1>14. ASSUME NEW r \in Reconciler, run[r] \in Work, run[r].part \in StockPart,
                UNCHANGED <<written, handled, entries>>,
                GoOn(r) \/ \E doing \in Doing \ {"commit"} : run' = [run EXCEPT ![r].doing = doing]
         PROVE  BooksInv'
    <2>1. r \in Agent /\ run[r].part \in 1..10 /\ run[r].todo \in SUBSET Document
      BY <1>14 DEF Work, StockPart, Agent
    <2>2. CASE GoOn(r)
      <3>1. PICK next \in Following(run[r].part, run[r].todo) : run' = [run EXCEPT ![r] = next]
        BY <2>2 DEF GoOn
      <3>2. Sound(next, written, entries)
        BY <1>14, <2>1, <3>1, FollowingSound
      <3> QED
        BY <1>3, <1>14, <2>1, <3>1, <3>2
    <2>3. ASSUME NEW doing \in Doing \ {"commit"}, run' = [run EXCEPT ![r].doing = doing]
          PROVE  BooksInv'
      <3> DEFINE next == [run[r] EXCEPT !.doing = doing]
      <3>1. run' = [run EXCEPT ![r] = next]
        BY <1>1, <1>14, <2>1, <2>3 DEF TypeOK, Work
      <3>2. next.doing = doing /\ next.part = run[r].part
        BY <1>14 DEF Work
      <3>3. Sound(next, written, entries)
        <4> HIDE DEF next
        <4> QED
          BY <1>14, <2>3, <3>2 DEF Sound, Doing
      <3> QED
        BY <1>3, <1>14, <2>1, <3>1, <3>3
    <2> QED
      BY <1>14, <2>2, <2>3
  <1>15. ASSUME NEW r \in Reconciler, CheckMovement(r) PROVE BooksInv'
    <2>1. run[r] \in Work
      BY <1>1, <1>15, Working DEF CheckMovement, Doing, Agent
    <2>2. "act" \in Doing \ {"commit"}
      BY DEF Doing
    <2> QED
      BY <1>14, <1>15, <2>1, <2>2 DEF CheckMovement
  <1>16. ASSUME NEW r \in Reconciler, RepairStockIn(r) PROVE BooksInv'
    <2>1. r \in Agent /\ run[r] \in Work /\ run[r].part \in StockPart
      BY <1>1, <1>16, Working DEF RepairStockIn, Doing, Agent, StockPart
    <2>2. Grow
      BY <1>16 DEF RepairStockIn, Grow
    <2> DEFINE next == [run[r] EXCEPT !.doing = "check"]
    <2>3. run' = [run EXCEPT ![r] = next]
      BY <1>1, <1>16, <2>1 DEF RepairStockIn, TypeOK, Work
    <2>4. next.doing = "check" /\ next.part = run[r].part
      BY <2>1 DEF Work
    <2>5. Sound(next, written', entries')
      <3> HIDE DEF next
      <3> QED
        BY <2>1, <2>4 DEF Sound, Doing
    <2>6. AgentsSound'
      <3> HIDE DEF next
      <3> QED
        BY <1>1, <2>1, <2>2, <2>3, <2>5, AgentsStaySound DEF BooksInv
    <2> QED
      BY <1>1, <1>16, <2>2, <2>6, EntriesStay DEF RepairStockIn, BooksInv
  <1>17. ASSUME NEW r \in Reconciler, ReportMissing(r) PROVE BooksInv'
    <2>1. run[r] \in Work /\ run[r].part \in StockPart
      BY <1>1, <1>17, Working DEF ReportMissing, Doing, Agent, Work, PartsOf
    <2> QED
      BY <1>14, <1>17, <2>1 DEF ReportMissing
  <1>18. ASSUME NEW m \in Movements, ResolveInventoryException(m) PROVE BooksInv'
    BY <1>4, <1>18 DEF ResolveInventoryException
  <1>19. ASSUME NEW account \in Renamable, Rename(account) PROVE BooksInv'
    BY <1>4, <1>19 DEF Rename
  <1>20. ASSUME NEW a \in Agent, Interrupt(a) PROVE BooksInv'
    BY <1>3, <1>5, <1>20 DEF Interrupt
  <1>21. ASSUME UNCHANGED vars PROVE BooksInv'
    BY <1>4, <1>21
  <1>22. \A h \in Handler : h \in Agent
    BY DEF Agent
  <1>23. \A r \in Reconciler : r \in Agent
    BY DEF Agent
  <1> HIDE DEF rows, vars
  <1> QED
    BY <1>6, <1>7, <1>8, <1>9, <1>10, <1>11, <1>12, <1>13, <1>15, <1>16, <1>17, <1>18, <1>19,
       <1>20, <1>21, <1>22, <1>23 DEF Next, Reconcile

(* The invariant holds at every moment.                                     *)
LEMMA BooksInvariant == Spec => []BooksInv
  <1>1. Init => BooksInv
    <2> SUFFICES ASSUME Init PROVE BooksInv
      OBVIOUS
    <2>1. TypeOK
      BY LedgerAssumption DEF Init, TypeOK, Run, LedgerAssumption
    <2>2. BookedOnce /\ EntriesFollow /\ CashComesFirst /\ AcknowledgedIsBooked
      BY DEF Init, BookedOnce, EntriesFollow, CashComesFirst, AcknowledgedIsBooked
    <2>3. AgentsSound
      BY DEF Init, AgentsSound, Sound, Idle, Doing
    <2> QED
      BY <2>1, <2>2, <2>3 DEF BooksInv
  <1>2. BooksInv /\ [Next]_vars => BooksInv'
    BY LedgerAssumption, BooksInductive
  <1> QED
    BY <1>1, <1>2, PTL DEF Spec

(* Nothing is booked twice, for any number of handlers and instances.       *)
THEOREM EntriesAreBookedOnce == Spec => []BookedOnce
  <1>1. BooksInv => BookedOnce
    BY DEF BooksInv
  <1> QED
    BY <1>1, BooksInvariant, PTL

(* Acknowledged events are in the books with all their entries.             *)
THEOREM AcknowledgedEventsAreBooked == Spec => []AcknowledgedIsBooked
  <1>1. BooksInv => AcknowledgedIsBooked
    BY DEF BooksInv
  <1> QED
    BY <1>1, BooksInvariant, PTL

(* The cash of a refund is taken back before its revenue.                   *)
THEOREM CashIsReversedFirst == Spec => []CashComesFirst
  <1>1. BooksInv => CashComesFirst
    BY DEF BooksInv
  <1> QED
    BY <1>1, BooksInvariant, PTL

-----------------------------------------------------------------------------
(* The balances (Ledger), as sums of the effects of the documents on an     *)
(* account.                                                                 *)

\* An order's payments add up to its amount.
PaidInFull ==
  \A o \in Document : Kind[o] = "order" =>
    SumOf(Amount, {p \in Document : Kind[p] = "payment" /\ Of[p] = o}) = Amount[o]

\* A payment is of an order.
PaymentsOfOrders == \A p \in Document : Kind[p] = "payment" => Kind[Of[p]] = "order"

\* Agents that look after receipts list receipts' movements only.
Restocks(s) ==
  s.doing \in Doing /\ s.part = 1 =>
    Kind[s.doc] = "stockIn" /\ \A d \in s.todo : Kind[d] = "stockIn"

\* Every agent that looks after receipts lists their movements only.
AgentsRestock == \A a \in Agent : Restocks(run[a])

\* An order is written together with its payments.
PaidTogether == \A p \in Document : Kind[p] = "payment" => (Written(p) <=> Written(Of[p]))

\* What is booked in the transaction that writes it is booked.
DirectBooked == \A d \in Document : Kind[d] \in Direct /\ Written(d) => entries[d][1] > 0

\* What a step needs and leaves.
BalanceInv == BooksInv /\ AgentsRestock /\ PaidTogether /\ DirectBooked

\* An agent that goes on looks after the same documents.
LEMMA FollowingRestocks ==
  ASSUME NEW p \in 1..10, NEW D \in SUBSET Document, NEW next \in Following(p, D),
         p = 1 => \A d \in D : Kind[d] = "stockIn"
  PROVE  Restocks(next)
  <1>1. CASE next = [doing |-> "next", part |-> p]
    BY <1>1 DEF Restocks, Doing
  <1>2. CASE \E d \in D : next = At("check", p, D \ {d}, d, 1)
    <2>1. PICK d \in D : next = At("check", p, D \ {d}, d, 1)
      BY <1>2
    <2>2. next.doing = "check" /\ next.part = p /\ next.todo = D \ {d} /\ next.doc = d /\ next.leg = 1
      BY <2>1 DEF At
    <2> QED
      BY <2>2 DEF Restocks
  <1> QED
    BY <1>1, <1>2, FollowingCases

\* So does one whose handler goes on.
LEMMA AdvanceRestocks ==
  ASSUME LedgerAssumption, TypeOK, NEW a \in Agent, run[a] \in Work, Advance(a), Restocks(run[a])
  PROVE  \E next : run' = [run EXCEPT ![a] = next] /\ Restocks(next)
  <1>1. PICK next \in Run :
          /\ run' = [run EXCEPT ![a] = next]
          /\ \/ \E doing \in {"book", "check"} :
                  next = At(doing, run[a].part, run[a].todo, run[a].doc, 2)
             \/ next = [doing |-> "done", doc |-> run[a].doc]
             \/ run[a].part \in 1..10 /\ next \in Following(run[a].part, run[a].todo)
    BY AdvanceCases
  <1>2. run[a].doing \in Doing /\ run[a].todo \in SUBSET Document
    BY DEF Work
  <1>3. ASSUME NEW doing \in {"book", "check"}, next = At(doing, run[a].part, run[a].todo, run[a].doc, 2)
        PROVE  Restocks(next)
    <2>1. next.part = run[a].part /\ next.todo = run[a].todo /\ next.doc = run[a].doc
      BY <1>3 DEF At
    <2> QED
      BY <1>2, <2>1 DEF Restocks
  <1>4. ASSUME next = [doing |-> "done", doc |-> run[a].doc] PROVE Restocks(next)
    BY <1>4 DEF Restocks, Doing
  <1>5. ASSUME run[a].part \in 1..10, next \in Following(run[a].part, run[a].todo) PROVE Restocks(next)
    <2>1. run[a].part = 1 => \A d \in run[a].todo : Kind[d] = "stockIn"
      BY <1>2 DEF Restocks
    <2> QED
      BY <1>2, <1>5, <2>1, FollowingRestocks
  <1>6. Restocks(next)
    BY <1>1, <1>3, <1>4, <1>5
  <1> QED
    BY <1>1, <1>6

\* No step of one agent changes what the others look after.
LEMMA RestocksStay ==
  ASSUME LedgerAssumption, TypeOK, AgentsRestock, [Next]_vars
  PROVE  AgentsRestock'
  <1> USE DEF rows, vars
  <1>1. ASSUME NEW a \in Agent, NEW next, run' = [run EXCEPT ![a] = next], Restocks(next)
        PROVE  AgentsRestock'
    <2>1. \A b \in Agent : run'[b] = IF b = a THEN next ELSE run[b]
      BY <1>1 DEF TypeOK
    <2>2. \A b \in Agent : Restocks(run'[b])
      BY <1>1, <2>1 DEF AgentsRestock
    <2> QED
      BY <2>2 DEF AgentsRestock, Restocks
  <1>2. ASSUME UNCHANGED run PROVE AgentsRestock'
    BY <1>2 DEF AgentsRestock, Restocks
  <1>3. Restocks(Idle)
    BY DEF Restocks, Idle, Doing
  <1>4. \A a \in Agent : Restocks(run[a])
    BY DEF AgentsRestock
  <1>5. ASSUME NEW a \in Agent, run[a] \in Work, NEW doing \in Doing, run' = [run EXCEPT ![a].doing = doing]
        PROVE  AgentsRestock'
    <2> DEFINE next == [run[a] EXCEPT !.doing = doing]
    <2>1. run' = [run EXCEPT ![a] = next]
      BY <1>5 DEF TypeOK, Work
    <2>2. next.part = run[a].part /\ next.todo = run[a].todo /\ next.doc = run[a].doc /\ run[a].doing \in Doing
      BY <1>5 DEF Work
    <2>3. Restocks(next)
      <3> HIDE DEF next
      <3> QED
        BY <1>4, <2>2 DEF Restocks
    <2> HIDE DEF next
    <2> QED
      BY <1>1, <2>1, <2>3
  <1>6. ASSUME NEW a \in Agent, run[a] \in Work, Advance(a) PROVE AgentsRestock'
    <2>1. \E next : run' = [run EXCEPT ![a] = next] /\ Restocks(next)
      BY <1>4, <1>6, AdvanceRestocks
    <2> QED
      BY <1>1, <1>6, <2>1
  <1>7. ASSUME NEW d \in Document, Write(d) PROVE AgentsRestock'
    BY <1>2, <1>7 DEF Write
  <1>8. ASSUME NEW a \in Agent, Book(a) PROVE AgentsRestock'
    <2>1. run[a] \in Work /\ run[a].part # 1
      BY <1>8, Working DEF Book, Doing, Work, PartsOf, StockPart
    <2>2. CASE Advance(a)
      BY <1>6, <1>8, <2>1, <2>2
    <2>3. CASE run' = [run EXCEPT ![a].doing = "commit", ![a].seen = Booking(a) > 0]
      <3> DEFINE known == Booking(a) > 0
                 next == [run[a] EXCEPT !.doing = "commit", !.seen = known]
      <3>1. run' = [run EXCEPT ![a] = next]
        BY <1>8, <2>1, <2>3 DEF TypeOK, Work
      <3> HIDE DEF known
      <3>2. next.part = run[a].part
        BY <2>1 DEF Work
      <3>3. Restocks(next)
        <4> HIDE DEF next
        <4> QED
          BY <2>1, <3>2 DEF Restocks
      <3> HIDE DEF next
      <3> QED
        BY <1>1, <1>8, <3>1, <3>3
    <2> QED
      BY <1>8, <2>2, <2>3 DEF Book
  <1>9. ASSUME NEW a \in Agent, Commit(a) PROVE AgentsRestock'
    <2>1. run[a] \in Work
      BY <1>9, Working DEF Commit, Doing
    <2> QED
      BY <1>6, <1>9, <2>1 DEF Commit
  <1>10. ASSUME NEW a \in Agent, Throw(a) PROVE AgentsRestock'
    BY <1>1, <1>3, <1>10 DEF Throw
  <1>11. ASSUME NEW h \in Handler, NEW d \in Document, Handle(h, d) PROVE AgentsRestock'
    <2>1. h \in Agent /\ Restocks(At("book", 0, {}, d, 1))
      BY DEF At, Restocks, Agent
    <2> QED
      BY <1>1, <1>11, <2>1 DEF Handle
  <1>12. ASSUME NEW h \in Handler, Acknowledge(h) PROVE AgentsRestock'
    <2>1. h \in Agent
      BY DEF Agent
    <2> QED
      BY <1>1, <1>3, <1>12, <2>1 DEF Acknowledge
  <1>13. ASSUME NEW r \in Reconciler, List(r) PROVE AgentsRestock'
    <2> DEFINE p == IF run[r] = Idle THEN 1 ELSE run[r].part + 1
    <2>1. p > 10 \/ p \in 1..10
      <3>1. run[r] \in Run /\ run[r].doing \in {"rest", "next"}
        BY <1>13 DEF List, TypeOK, Agent
      <3>2. run[r] = Idle \/ run[r].part \in 1..10
        BY <3>1 DEF Run, Work, Doing
      <3> QED
        BY <3>2
    <2>2. PICK next \in IF p > Len(Part) THEN {Idle} ELSE Following(p, Listed(p)) :
            run' = [run EXCEPT ![r] = next]
      BY <1>13 DEF List
    <2>3. r \in Agent
      BY DEF Agent
    <2>4. Restocks(next)
      <3>1. CASE p > 10
        BY <1>3, <2>2, <3>1, PartLength
      <3>2. CASE p \in 1..10
        <4> HIDE DEF p
        <4>1. next \in Following(p, Listed(p))
          BY <2>2, <3>2, PartLength
        <4>2. /\ Listed(p) \in SUBSET Document
              /\ p = 1 => \A d \in Listed(p) : Kind[d] = "stockIn"
          BY <3>2, ListedDocuments DEF Listed, Candidates, Part
        <4> QED
          BY <3>2, <4>1, <4>2, FollowingRestocks
      <3> QED
        BY <2>1, <3>1, <3>2
    <2> HIDE DEF p
    <2> QED
      BY <1>1, <2>2, <2>3, <2>4
  <1>14. ASSUME NEW r \in Reconciler, CheckEntry(r) PROVE AgentsRestock'
    <2>1. r \in Agent /\ run[r] \in Work /\ "book" \in Doing
      BY <1>14, Working DEF CheckEntry, Doing, Agent
    <2> QED
      BY <1>5, <1>6, <1>14, <2>1 DEF CheckEntry
  <1>15. ASSUME NEW r \in Reconciler, run[r] \in Work, run[r].part \in StockPart, GoOn(r)
         PROVE  AgentsRestock'
    <2>1. r \in Agent /\ run[r].part \in 1..10 /\ run[r].todo \in SUBSET Document /\ run[r].doing \in Doing
      BY <1>15 DEF Work, StockPart, Agent
    <2>2. PICK next \in Following(run[r].part, run[r].todo) : run' = [run EXCEPT ![r] = next]
      BY <1>15 DEF GoOn
    <2>3. Restocks(next)
      BY <1>4, <2>1, <2>2, FollowingRestocks DEF Restocks
    <2> QED
      BY <1>1, <2>1, <2>2, <2>3
  <1>16. ASSUME NEW r \in Reconciler, CheckMovement(r) PROVE AgentsRestock'
    <2>1. r \in Agent /\ run[r] \in Work /\ "act" \in Doing
      BY <1>16, Working DEF CheckMovement, Doing, Agent
    <2> QED
      BY <1>5, <1>15, <1>16, <2>1 DEF CheckMovement
  <1>17. ASSUME NEW r \in Reconciler, RepairStockIn(r) PROVE AgentsRestock'
    <2>1. r \in Agent /\ run[r] \in Work /\ "check" \in Doing
      BY <1>17, Working DEF RepairStockIn, Doing, Agent
    <2> QED
      BY <1>5, <1>17, <2>1 DEF RepairStockIn
  <1>18. ASSUME NEW r \in Reconciler, ReportMissing(r) PROVE AgentsRestock'
    <2>1. r \in Agent /\ run[r] \in Work
      BY <1>18, Working DEF ReportMissing, Doing, Agent
    <2>2. run[r].part \in StockPart
      BY <1>18, <2>1 DEF ReportMissing, Work, PartsOf
    <2> QED
      BY <1>15, <1>18, <2>1, <2>2 DEF ReportMissing
  <1>19. ASSUME NEW m \in Movements, ResolveInventoryException(m) PROVE AgentsRestock'
    BY <1>2, <1>19 DEF ResolveInventoryException
  <1>20. ASSUME NEW account \in Renamable, Rename(account) PROVE AgentsRestock'
    BY <1>2, <1>20 DEF Rename
  <1>21. ASSUME NEW a \in Agent, Interrupt(a) PROVE AgentsRestock'
    BY <1>1, <1>3, <1>21 DEF Interrupt
  <1>22. ASSUME UNCHANGED vars PROVE AgentsRestock'
    BY <1>2, <1>22
  <1>23. (\A h \in Handler : h \in Agent) /\ \A r \in Reconciler : r \in Agent
    BY DEF Agent
  <1> HIDE DEF rows, vars
  <1> QED
    BY <1>7, <1>8, <1>9, <1>10, <1>11, <1>12, <1>13, <1>14, <1>16, <1>17, <1>18, <1>19,
       <1>20, <1>21, <1>22, <1>23 DEF Next, Reconcile

\* What is written and what is booked stays.
LEMMA EntriesGrow ==
  ASSUME TypeOK, [Next]_vars
  PROVE  \A d \in Document, l \in 1..2 : entries[d][l] > 0 => entries'[d][l] > 0
  <1> USE DEF rows, vars
  <1>1. ASSUME NEW d \in Document, NEW l \in 1..2, entries' = [entries EXCEPT ![d][l] = @ + 1]
        PROVE  \A e \in Document, k \in 1..2 : entries[e][k] > 0 => entries'[e][k] > 0
    BY <1>1 DEF TypeOK
  <1>2. ASSUME NEW d \in Document, Write(d)
        PROVE  UNCHANGED entries \/ entries' = [entries EXCEPT ![d][1] = @ + 1]
    BY <1>2 DEF Write
  <1>3. ASSUME NEW a \in Agent, Commit(a)
        PROVE  UNCHANGED entries \/ \E d \in Document, l \in 1..2 : entries' = [entries EXCEPT ![d][l] = @ + 1]
    <2>1. run[a] \in Work
      BY <1>3, Working DEF Commit, Doing
    <2>2. run[a].doc \in Document /\ run[a].leg \in 1..2
      BY <2>1 DEF Work
    <2> QED
      BY <1>3, <2>2 DEF Commit
  <1>4. (\A h \in Handler : h \in Agent) /\ \A r \in Reconciler : r \in Agent
    BY DEF Agent
  <1>5. UNCHANGED entries \/ (\E d \in Document : Write(d)) \/ \E a \in Agent : Commit(a)
    BY <1>4 DEF Next, Handle, Book, Throw, Acknowledge, Reconcile, List, CheckEntry, CheckMovement,
           RepairStockIn, ReportMissing, ResolveInventoryException, Rename, Interrupt
  <1>6. UNCHANGED entries \/ \E d \in Document, l \in 1..2 : entries' = [entries EXCEPT ![d][l] = @ + 1]
    BY <1>2, <1>3, <1>5
  <1> QED
    BY <1>1, <1>6

\* createOrder writes an order and its payments in one transaction.
LEMMA PaymentsTogether ==
  ASSUME LedgerAssumption, PaymentsOfOrders, BalanceInv, [Next]_vars
  PROVE  PaidTogether' /\ DirectBooked'
  <1>1. TypeOK /\ TypeOK' /\ EntriesFollow /\ LedgerAssumption
    BY TypeInductive DEF BalanceInv, BooksInv
  <1>2. CASE UNCHANGED written
    <2>1. PaidTogether'
      BY <1>2 DEF BalanceInv, PaidTogether, Written
    <2>2. \A d \in Document : entries[d][1] > 0 => entries'[d][1] > 0
      BY <1>1, EntriesGrow
    <2>3. DirectBooked'
      BY <1>2, <2>2 DEF BalanceInv, DirectBooked, Written
    <2> QED
      BY <2>1, <2>3
  <1>3. ASSUME NEW d \in Document, Write(d) PROVE PaidTogether' /\ DirectBooked'
    <2>1. written' = written \cup Together(d) /\ Kind[d] # "payment" /\ d \notin written
      BY <1>3 DEF Write, Written
    <2>2. \A p \in Document : p \in Together(d) <=> p = d \/ (Kind[p] = "payment" /\ Of[p] = d)
      BY DEF Together
    <2>3. ASSUME NEW p \in Document, Kind[p] = "payment"
          PROVE  p \in written' <=> Of[p] \in written'
      <3>1. Of[p] \in Document /\ Kind[Of[p]] = "order"
        BY <2>3 DEF PaymentsOfOrders, LedgerAssumption
      <3>2. Of[p] \in Together(d) <=> Of[p] = d
        BY <2>2, <3>1
      <3>3. p \in Together(d) <=> Of[p] = d
        BY <2>1, <2>2, <2>3
      <3>4. p \in written <=> Of[p] \in written
        BY <2>3 DEF BalanceInv, PaidTogether, Written
      <3> QED
        BY <2>1, <3>2, <3>3, <3>4
    <2>4. PaidTogether'
      BY <2>3 DEF PaidTogether, Written
    <2>5. ASSUME NEW e \in Document, Kind[e] \in Direct, e \in written'
          PROVE  entries'[e][1] > 0
      <3>1. entries[e][1] > 0 => entries'[e][1] > 0
        BY <1>1, EntriesGrow
      <3>2. CASE e \in written
        BY <2>5, <3>1, <3>2 DEF BalanceInv, DirectBooked, Written
      <3>3. CASE e \notin written
        <4>1. e = d
          BY <2>1, <2>2, <2>5, <3>3 DEF Direct
        <4>2. entries' = [entries EXCEPT ![d][1] = @ + 1]
          BY <1>3, <2>5, <4>1 DEF Write
        <4> QED
          BY <1>1, <4>1, <4>2 DEF TypeOK
      <3> QED
        BY <3>2, <3>3
    <2>6. DirectBooked'
      BY <2>5 DEF DirectBooked, Written
    <2> QED
      BY <2>4, <2>6
  <1>4. ASSUME NEW r \in Reconciler, RepairStockIn(r) PROVE PaidTogether' /\ DirectBooked'
    <2>1. r \in Agent /\ run[r] \in Work /\ run[r].doing \in Doing /\ run[r].part = 1
      BY <1>1, <1>4, Working DEF RepairStockIn, Doing, Agent
    <2>2. run[r].doc \in Document /\ Kind[run[r].doc] = "stockIn"
      BY <2>1 DEF BalanceInv, AgentsRestock, Restocks, Work
    <2>3. written' = written \cup {run[r].doc} /\ UNCHANGED entries
      BY <1>4 DEF RepairStockIn
    <2>4. PaidTogether'
      BY <2>2, <2>3 DEF BalanceInv, PaidTogether, PaymentsOfOrders, Written
    <2>5. DirectBooked'
      BY <2>2, <2>3 DEF BalanceInv, DirectBooked, Written, Direct
    <2> QED
      BY <2>4, <2>5
  <1>5. UNCHANGED written \/ (\E d \in Document : Write(d)) \/ \E r \in Reconciler : RepairStockIn(r)
    BY DEF Next, Handle, Book, Commit, Throw, Acknowledge, Reconcile, List, CheckEntry, CheckMovement,
           ReportMissing, ResolveInventoryException, Rename, Interrupt, rows, vars
  <1> QED
    BY <1>2, <1>3, <1>4, <1>5

\* Every state of the specification satisfies the invariant.
LEMMA BalanceInvariant ==
  ASSUME PaymentsOfOrders
  PROVE  Spec => []BalanceInv
  <1>1. ASSUME Init PROVE AgentsRestock /\ PaidTogether /\ DirectBooked
    BY <1>1 DEF Init, AgentsRestock, Restocks, Idle, Doing, PaidTogether, DirectBooked, Written
  <1>2. Init /\ BooksInv => BalanceInv
    BY <1>1 DEF BalanceInv
  <1>3. BalanceInv /\ [Next]_vars => BalanceInv'
    <2> SUFFICES ASSUME BalanceInv, [Next]_vars PROVE BalanceInv'
      OBVIOUS
    <2>1. BooksInv' /\ AgentsRestock' /\ PaidTogether' /\ DirectBooked'
      BY LedgerAssumption, BooksInductive, RestocksStay, PaymentsTogether DEF BalanceInv, BooksInv
    <2> QED
      BY <2>1 DEF BalanceInv
  <1> QED
    BY <1>2, <1>3, BooksInvariant, PTL DEF Spec

\* What each entry of d brings the account.
Brings(account, d) == [l \in 1..2 |->
  entries[d][l] * Amount[d] * ((IF Posting[Kind[d]][l][1] = account THEN 1 ELSE 0)
                             - (IF Posting[Kind[d]][l][2] = account THEN 1 ELSE 0))]

\* g sums the effect of a document's entries on an account.
OnLegs(g, account, d, S) ==
  g = [s \in SUBSET S |-> IF s = {} THEN 0 ELSE
         entries[d][Pick(s)] * Amount[d] * ((IF Posting[Kind[d]][Pick(s)][1] = account THEN 1 ELSE 0)
                                          - (IF Posting[Kind[d]][Pick(s)][2] = account THEN 1 ELSE 0))
         + g[s \ {Pick(s)}]]

\* EffectOf is the sum over the entries.
LEMMA SumOfLegs ==
  ASSUME NEW account, NEW d \in Document, NEW S \in SUBSET (1..2)
  PROVE  MapThenSumSet(LAMBDA l :
           entries[d][l] * Amount[d] * ((IF Posting[Kind[d]][l][1] = account THEN 1 ELSE 0)
                                      - (IF Posting[Kind[d]][l][2] = account THEN 1 ELSE 0)), S)
         = SumOf(Brings(account, d), S)
  <1>1. IsFiniteSet(S)
    <2>1. IsFiniteSet(({} \cup {1}) \cup {2})
      BY FS_EmptySet, FS_AddElement
    <2>2. S \in SUBSET (({} \cup {1}) \cup {2})
      OBVIOUS
    <2> QED
      BY <2>1, <2>2, FS_Subset
  <1>2. \A g : IsSum(g, Brings(account, d), SUBSET S) <=> OnLegs(g, account, d, S)
    <2>1. \A s \in SUBSET S : s # {} => Pick(s) \in 1..2
      BY PickIn
    <2>2. \A s \in SUBSET S : s # {} => Brings(account, d)[Pick(s)] =
            entries[d][Pick(s)] * Amount[d] * ((IF Posting[Kind[d]][Pick(s)][1] = account THEN 1 ELSE 0)
                                             - (IF Posting[Kind[d]][Pick(s)][2] = account THEN 1 ELSE 0))
      BY <2>1, Zenon DEF Brings
    <2> QED
      BY <2>2, Zenon DEF IsSum, OnLegs
  <1> DEFINE G == CHOOSE g : OnLegs(g, account, d, S)
  <1>3. OnLegs(G, account, d, S)
    BY <1>1, <1>2, SumExists
  <1>4. Adds(G, Brings(account, d), S)
    BY <1>1, <1>2, <1>3 DEF Adds
  <1>5. MapThenSumSet(LAMBDA l :
           entries[d][l] * Amount[d] * ((IF Posting[Kind[d]][l][1] = account THEN 1 ELSE 0)
                                      - (IF Posting[Kind[d]][l][2] = account THEN 1 ELSE 0)), S) = G[S]
    BY Zenon DEF MapThenSumSet, MapThenFoldSet, OnLegs, Pick
  <1> QED
    BY <1>4, <1>5, TotalIs

\* What document d brings the account.
Effect(account) == [d \in Document |-> SumOf(Brings(account, d), Leg(d))]

\* g sums the effects of documents on an account.
OnDocuments(g, account, S) ==
  g = [s \in SUBSET S |-> IF s = {} THEN 0 ELSE
         MapThenSumSet(LAMBDA l :
           entries[Pick(s)][l] * Amount[Pick(s)] *
             ((IF Posting[Kind[Pick(s)]][l][1] = account THEN 1 ELSE 0)
            - (IF Posting[Kind[Pick(s)]][l][2] = account THEN 1 ELSE 0)), Leg(Pick(s)))
         + g[s \ {Pick(s)}]]

\* Balance is the sum of the effects of the documents.
LEMMA BalanceIs ==
  ASSUME LedgerAssumption, IsFiniteSet(Document), NEW account
  PROVE  Balance(account) = SumOf(Effect(account), Document)
  <1>1. ASSUME NEW d \in Document
        PROVE  MapThenSumSet(LAMBDA l :
                 entries[d][l] * Amount[d] * ((IF Posting[Kind[d]][l][1] = account THEN 1 ELSE 0)
                                            - (IF Posting[Kind[d]][l][2] = account THEN 1 ELSE 0)), Leg(d))
               = Effect(account)[d]
    BY LegRange, SumOfLegs DEF Effect
  <1>2. \A g : IsSum(g, Effect(account), SUBSET Document) <=> OnDocuments(g, account, Document)
    <2>1. \A s \in SUBSET Document : s # {} => Pick(s) \in Document
      BY PickIn
    <2>2. \A s \in SUBSET Document : s # {} =>
            Effect(account)[Pick(s)] =
              MapThenSumSet(LAMBDA l :
                entries[Pick(s)][l] * Amount[Pick(s)] *
                  ((IF Posting[Kind[Pick(s)]][l][1] = account THEN 1 ELSE 0)
                 - (IF Posting[Kind[Pick(s)]][l][2] = account THEN 1 ELSE 0)), Leg(Pick(s)))
      BY <1>1, <2>1, Zenon
    <2> QED
      BY <2>2, Zenon DEF IsSum, OnDocuments
  <1> DEFINE G == CHOOSE g : OnDocuments(g, account, Document)
  <1>3. OnDocuments(G, account, Document)
    BY <1>2, SumExists
  <1>4. Adds(G, Effect(account), Document)
    BY <1>2, <1>3 DEF Adds
  <1>5. Balance(account) = G[Document]
    BY Zenon DEF Balance, MapThenSumSet, MapThenFoldSet, OnDocuments, Pick
  <1> QED
    BY <1>4, <1>5, TotalIs

\* What an entry does to an account: 1 debits it, -1 credits it.
Sign(account, k, l) == (IF Posting[k][l][1] = account THEN 1 ELSE 0)
                     - (IF Posting[k][l][2] = account THEN 1 ELSE 0)

\* What each kind of document does to an account once it is booked.
LEMMA EffectOfLegs ==
  ASSUME LedgerAssumption, TypeOK, NEW account, NEW d \in Document
  PROVE  Effect(account)[d] =
           IF Kind[d] = "stockIn" THEN 0
           ELSE entries[d][1] * Amount[d] * Sign(account, Kind[d], 1)
              + (IF Kind[d] = "refund" THEN entries[d][2] * Amount[d] * Sign(account, Kind[d], 2) ELSE 0)
  <1> DEFINE b == Brings(account, d)
             one == entries[d][1] * Amount[d] * Sign(account, Kind[d], 1)
             two == entries[d][2] * Amount[d] * Sign(account, Kind[d], 2)
  <1>1. b[1] = one /\ b[2] = two /\ one \in Int /\ two \in Int
    <2>1. b[1] = one /\ b[2] = two
      BY DEF Brings, Sign
    <2>2. /\ entries[d][1] \in Int /\ entries[d][2] \in Int /\ Amount[d] \in Int
          /\ Sign(account, Kind[d], 1) \in Int /\ Sign(account, Kind[d], 2) \in Int
      BY DEF TypeOK, LedgerAssumption, Sign
    <2> QED
      BY <2>1, <2>2
  <1>2. Effect(account)[d] = SumOf(b, Leg(d))
    BY DEF Effect
  <1> HIDE DEF b, one, two
  <1>3. SumOf(b, {}) = 0
    BY TotalOfNone
  <1>4. SumOf(b, {1}) = one
    <2>1. IsFiniteSet({}) /\ 1 \notin {} /\ IntegersOn(b, {} \cup {1})
      BY <1>1, FS_EmptySet DEF IntegersOn
    <2>2. SumOf(b, {} \cup {1}) = b[1] + SumOf(b, {})
      BY <2>1, TotalAdds
    <2>3. {} \cup {1} = {1}
      OBVIOUS
    <2>4. SumOf(b, {1}) = b[1] + 0
      BY <1>3, <2>2, <2>3
    <2> QED
      BY <1>1, <2>4
  <1>5. SumOf(b, {1, 2}) = one + two
    <2>1. IsFiniteSet({1}) /\ 2 \notin {1} /\ IntegersOn(b, {1} \cup {2})
      <3>1. IsFiniteSet({1})
        BY FS_Singleton
      <3> QED
        BY <1>1, <3>1 DEF IntegersOn
    <2>2. SumOf(b, {1} \cup {2}) = b[2] + SumOf(b, {1})
      BY <2>1, TotalAdds
    <2>3. {1} \cup {2} = {1, 2}
      OBVIOUS
    <2>4. SumOf(b, {1, 2}) = two + one
      BY <1>1, <1>4, <2>2, <2>3
    <2> QED
      BY <1>1, <2>4
  <1> DEFINE n == Len(Posting[Kind[d]])
  <1>6. n = (IF Kind[d] = "refund" THEN 2 ELSE IF Kind[d] = "stockIn" THEN 0 ELSE 1) /\ Leg(d) = 1..n
    BY LegsOf
  <1> HIDE DEF n
  <1>7. CASE Kind[d] = "stockIn"
    <2>1. Leg(d) = {}
      BY <1>6, <1>7
    <2> QED
      BY <1>2, <1>3, <1>7, <2>1
  <1>8. CASE Kind[d] = "refund"
    <2>1. Leg(d) = {1, 2}
      BY <1>6, <1>8
    <2>2. Effect(account)[d] = one + two
      BY <1>2, <1>5, <2>1
    <2>3. Kind[d] # "stockIn" /\ Kind[d] = "refund"
      BY <1>8
    <2>4. (IF Kind[d] = "stockIn" THEN 0 ELSE one + (IF Kind[d] = "refund" THEN two ELSE 0)) = one + two
      BY <2>3
    <2>5. Effect(account)[d] = IF Kind[d] = "stockIn" THEN 0
                               ELSE one + (IF Kind[d] = "refund" THEN two ELSE 0)
      BY <2>2, <2>4
    <2> QED
      BY <2>5, Zenon DEF one, two
  <1>9. CASE Kind[d] # "refund" /\ Kind[d] # "stockIn"
    <2>1. Leg(d) = {1}
      BY <1>6, <1>9
    <2>2. Effect(account)[d] = one + 0
      BY <1>1, <1>2, <1>4, <2>1
    <2> QED
      BY <1>9, <2>2 DEF one
  <1> QED
    BY <1>7, <1>8, <1>9

\* Which accounts each kind of document debits and credits.
LEMMA Signs ==
  /\ \A k \in DOMAIN Posting :
       /\ Sign("receivable", k, 1) = (IF k \in {"order", "refund"} THEN 1 ELSE IF k = "payment" THEN -1
                                      ELSE IF k = "stockIn" THEN Sign("receivable", k, 1) ELSE 0)
       /\ Sign("inventory", k, 1) = (IF k \in {"receipt", "return", "increase"} THEN 1
                                     ELSE IF k \in {"stockOut", "decrease"} THEN -1
                                     ELSE IF k = "stockIn" THEN Sign("inventory", k, 1) ELSE 0)
       /\ Sign("payable", k, 1) = (IF k = "supplierPayment" THEN 1 ELSE IF k = "invoice" THEN -1
                                   ELSE IF k = "stockIn" THEN Sign("payable", k, 1) ELSE 0)
  /\ Sign("receivable", "refund", 2) = -1
  /\ Sign("inventory", "refund", 2) = 0
  /\ Sign("payable", "refund", 2) = 0
  <1>1. DOMAIN Posting = {"order", "payment", "refund", "stockOut", "return",
                          "decrease", "increase", "receipt", "invoice", "supplierPayment", "stockIn"}
    BY DEF Posting
  <1> DEFINE First(k) == <<Posting[k][1][1], Posting[k][1][2]>>
  <1>2. /\ First("order") = <<"receivable", "revenue">>
        /\ First("payment") = <<"cash", "receivable">>
        /\ First("refund") = <<"receivable", "cash">>
        /\ First("stockOut") = <<"cogs", "inventory">>
    BY DEF Posting
  <1>3. /\ First("return") = <<"inventory", "cogs">>
        /\ First("decrease") = <<"cogs", "inventory">>
        /\ First("increase") = <<"inventory", "cogs">>
        /\ First("receipt") = <<"inventory", "clearing">>
        /\ First("invoice") = <<"clearing", "payable">>
        /\ First("supplierPayment") = <<"payable", "cash">>
    BY DEF Posting
  <1>4. <<Posting["refund"][2][1], Posting["refund"][2][2]>> = <<"revenue", "receivable">>
    BY DEF Posting
  <1>5. \A a, k : First(k)[1] = Posting[k][1][1] /\ First(k)[2] = Posting[k][1][2]
    OBVIOUS
  <1>6. ASSUME NEW a, NEW k
        PROVE  Sign(a, k, 1) = (IF First(k)[1] = a THEN 1 ELSE 0) - (IF First(k)[2] = a THEN 1 ELSE 0)
    BY DEF Sign
  <1>7. ASSUME NEW a
        PROVE  Sign(a, "refund", 2) = (IF "revenue" = a THEN 1 ELSE 0) - (IF "receivable" = a THEN 1 ELSE 0)
    BY <1>4 DEF Sign
  <1> HIDE DEF First
  <1>8. /\ Sign("receivable", "refund", 2) = -1
        /\ Sign("inventory", "refund", 2) = 0
        /\ Sign("payable", "refund", 2) = 0
    BY <1>7
  <1>9. ASSUME NEW k \in DOMAIN Posting, k # "stockIn"
        PROVE  /\ Sign("receivable", k, 1) = (IF k \in {"order", "refund"} THEN 1 ELSE IF k = "payment" THEN -1 ELSE 0)
               /\ Sign("inventory", k, 1) = (IF k \in {"receipt", "return", "increase"} THEN 1
                                             ELSE IF k \in {"stockOut", "decrease"} THEN -1 ELSE 0)
               /\ Sign("payable", k, 1) = (IF k = "supplierPayment" THEN 1 ELSE IF k = "invoice" THEN -1 ELSE 0)
    BY <1>1, <1>2, <1>3, <1>6, <1>9
  <1> QED
    BY <1>8, <1>9

\* What the accounts come to, for an invariant's state.
LEMMA PayableIsOwed ==
  ASSUME LedgerAssumption, IsFiniteSet(Document), BalanceInv
  PROVE  Balance("payable") = Value({"supplierPayment"}) - Value({"invoice"})
  <1> DEFINE In == {d \in Document : Kind[d] \in {"supplierPayment"} /\ Written(d)}
             Out == {d \in Document : Kind[d] \in {"invoice"} /\ Written(d)}
             h == Effect("payable")
  <1>1. TypeOK /\ BookedOnce /\ EntriesFollow /\ DirectBooked
    BY DEF BalanceInv, BooksInv
  <1>2. ASSUME NEW d \in Document
        PROVE  h[d] = IF d \in In THEN Amount[d] ELSE IF d \in Out THEN 0 - Amount[d] ELSE 0
    <2>1. entries[d][1] \in 0..1 /\ entries[d][2] \in 0..1 /\ Amount[d] \in Int /\ Kind[d] \in DOMAIN Posting
      <3>1. \A l \in 1..2 : entries[d][l] \in Nat /\ entries[d][l] <= 1
        BY <1>1 DEF TypeOK, BookedOnce
      <3>2. entries[d][1] \in 0..1 /\ entries[d][2] \in 0..1
        BY <3>1
      <3> QED
        BY <3>2 DEF LedgerAssumption
    <2>2. Kind[d] \in Direct => entries[d][1] = IF Written(d) THEN 1 ELSE 0
      <3>1. entries[d][1] > 0 => Written(d)
        BY <1>1 DEF EntriesFollow
      <3>2. Kind[d] \in Direct /\ Written(d) => entries[d][1] > 0
        BY <1>1 DEF DirectBooked
      <3> QED
        BY <2>1, <3>1, <3>2
    <2>3. h[d] = IF Kind[d] = "stockIn" THEN 0
                 ELSE entries[d][1] * Amount[d] * Sign("payable", Kind[d], 1)
                    + (IF Kind[d] = "refund" THEN entries[d][2] * Amount[d] * Sign("payable", Kind[d], 2) ELSE 0)
      BY <1>1, EffectOfLegs
    <2>4. Kind[d] # "stockIn" => Sign("payable", Kind[d], 1) =
            IF Kind[d] = "supplierPayment" THEN 1 ELSE IF Kind[d] = "invoice" THEN -1 ELSE 0
      BY <2>1, Signs
    <2>5. Sign("payable", "refund", 2) = 0
      BY Signs
    <2> DEFINE e == entries[d][1]  f == entries[d][2]  a == Amount[d]  k == Kind[d]
    <2>6. d \in In <=> k = "supplierPayment" /\ Written(d)
      OBVIOUS
    <2>7. d \in Out <=> k = "invoice" /\ Written(d)
      OBVIOUS
    <2>8. k \in {"supplierPayment", "invoice"} => e = IF Written(d) THEN 1 ELSE 0
      BY <2>2 DEF Direct
    <2> DEFINE x == Sign("payable", k, 1)  y == Sign("payable", "refund", 2)
    <2>9. h[d] = IF k = "stockIn" THEN 0 ELSE e * a * x + (IF k = "refund" THEN f * a * y ELSE 0)
      <3>1. k = "refund" => Sign("payable", k, 2) = y
        OBVIOUS
      <3> QED
        BY <2>3, <3>1
    <2> HIDE DEF e, f, a, k, h, In, Out, x, y
    <2>10. e \in 0..1 /\ f \in 0..1 /\ a \in Int /\ y = 0
      BY <2>1, <2>5 DEF e, f, a, k, y
    <2>11. k # "stockIn" => x = IF k = "supplierPayment" THEN 1 ELSE IF k = "invoice" THEN -1 ELSE 0
      BY <2>4 DEF k, x
    <2>12. f * a * y = 0
      BY <2>10
    <2>13. CASE k = "supplierPayment"
      <3>1. h[d] = e * a * 1 + 0
        BY <2>9, <2>11, <2>13
      <3>2. d \notin Out /\ (d \in In <=> e = 1) /\ (e = 0 \/ e = 1)
        BY <2>6, <2>7, <2>8, <2>10, <2>13
      <3> QED
        BY <2>10, <3>1, <3>2 DEF a
    <2>14. CASE k = "invoice"
      <3>1. h[d] = e * a * (-1) + 0
        BY <2>9, <2>11, <2>14
      <3>2. d \notin In /\ (d \in Out <=> e = 1) /\ (e = 0 \/ e = 1)
        BY <2>6, <2>7, <2>8, <2>10, <2>14
      <3> QED
        BY <2>10, <3>1, <3>2 DEF a
    <2>15. CASE k \notin {"supplierPayment", "invoice"}
      <3>1. d \notin In /\ d \notin Out
        BY <2>6, <2>7, <2>15
      <3>2. h[d] = 0
        <4>1. CASE k = "stockIn"
          BY <2>9, <4>1
        <4>2. CASE k # "stockIn"
          <5>1. x = 0 /\ e * a * 0 = 0
            BY <2>10, <2>11, <2>15, <4>2
          <5> QED
            BY <2>9, <2>12, <4>2, <5>1
        <4> QED
          BY <4>1, <4>2
      <3> QED
        BY <3>1, <3>2
    <2> QED
      BY <2>13, <2>14, <2>15
  <1>3. In \in SUBSET Document /\ Out \in SUBSET Document /\ In \cap Out = {} /\ IntegersOn(Amount, Document)
    BY DEF IntegersOn, LedgerAssumption
  <1>4. Value({"supplierPayment"}) = SumOf(Amount, In) /\ Value({"invoice"}) = SumOf(Amount, Out)
    BY DEF Value, SumOf, MapThenSumSet, MapThenFoldSet
  <1>5. Balance("payable") = SumOf(h, Document)
    BY BalanceIs
  <1> HIDE DEF In, Out, h
  <1> QED
    BY <1>2, <1>3, <1>4, <1>5, TotalOfBalance

\* Whatever was written is booked.
AllBooked == \A d \in Document : Written(d) => Booked(d)

\* Once all is booked every entry of a document brings its amount, and no other entry anything.
LEMMA EffectWhenBooked ==
  ASSUME LedgerAssumption, BalanceInv, AllBooked, NEW account, NEW d \in Document
  PROVE  Effect(account)[d] =
           IF ~Written(d) \/ Kind[d] = "stockIn" THEN 0
           ELSE Amount[d] * Sign(account, Kind[d], 1)
              + (IF Kind[d] = "refund" THEN Amount[d] * Sign(account, "refund", 2) ELSE 0)
  <1> DEFINE a == Amount[d]
             x == Sign(account, Kind[d], 1)
             y == Sign(account, "refund", 2)
             e == entries[d][1]
             f == entries[d][2]
             k == Kind[d]
  <1>1. TypeOK /\ BookedOnce /\ EntriesFollow
    BY DEF BalanceInv, BooksInv
  <1>2. Effect(account)[d] = IF k = "stockIn" THEN 0 ELSE e * a * x + (IF k = "refund" THEN f * a * y ELSE 0)
    <2>1. k = "refund" => Sign(account, k, 2) = y
      OBVIOUS
    <2> QED
      BY <1>1, <2>1, EffectOfLegs
  <1>3. a \in Int /\ x \in Int /\ y \in Int
    BY DEF LedgerAssumption, Sign
  <1>4. \A l \in 1..2 : entries[d][l] \in Nat /\ entries[d][l] <= 1 /\ (entries[d][l] > 0 => Written(d))
    BY <1>1 DEF TypeOK, BookedOnce, EntriesFollow
  <1>5. e \in Nat /\ e <= 1 /\ (e > 0 => Written(d)) /\ f \in Nat /\ f <= 1 /\ (f > 0 => Written(d))
    BY <1>4
  <1>6. Written(d) /\ k # "stockIn" => a = 0 \/ e > 0
    <2>1. k # "stockIn" => 1 \in Leg(d)
      <3> DEFINE n == Len(Posting[Kind[d]])
      <3>1. n = (IF Kind[d] = "refund" THEN 2 ELSE IF Kind[d] = "stockIn" THEN 0 ELSE 1) /\ Leg(d) = 1..n
        BY LegsOf
      <3> HIDE DEF n
      <3> QED
        BY <3>1
    <2> QED
      BY <2>1 DEF AllBooked, Booked
  <1>7. Written(d) /\ k = "refund" => a = 0 \/ f > 0
    <2>1. k = "refund" => 2 \in Leg(d)
      <3> DEFINE n == Len(Posting[Kind[d]])
      <3>1. n = (IF Kind[d] = "refund" THEN 2 ELSE IF Kind[d] = "stockIn" THEN 0 ELSE 1) /\ Leg(d) = 1..n
        BY LegsOf
      <3> HIDE DEF n
      <3> QED
        BY <3>1
    <2> QED
      BY <2>1 DEF AllBooked, Booked
  <1> DEFINE there == Written(d)
  <1> HIDE DEF a, x, y, e, f, k, there
  <1>8. (there \/ ~there) /\ (there => TRUE)
    OBVIOUS
  <1>9. k # "stockIn" => e * a * x = IF there THEN a * x ELSE 0
    <2>1. CASE ~there
      <3>1. e = 0
        BY <1>5, <2>1 DEF there
      <3> QED
        BY <1>3, <2>1, <3>1
    <2>2. ASSUME there, k # "stockIn" PROVE e * a * x = a * x
      <3>1. a = 0 \/ e = 1
        BY <1>5, <1>6, <2>2 DEF there
      <3> QED
        BY <1>3, <1>5, <3>1
    <2> QED
      BY <2>1, <2>2
  <1>10. k = "refund" => f * a * y = IF there THEN a * y ELSE 0
    <2>1. CASE ~there
      <3>1. f = 0
        BY <1>5, <2>1 DEF there
      <3> QED
        BY <1>3, <2>1, <3>1
    <2>2. ASSUME there, k = "refund" PROVE f * a * y = a * y
      <3>1. a = 0 \/ f = 1
        BY <1>5, <1>7, <2>2 DEF there
      <3> QED
        BY <1>3, <1>5, <3>1
    <2> QED
      BY <2>1, <2>2
  <1>11. Effect(account)[d] = IF ~there \/ k = "stockIn" THEN 0
                              ELSE a * x + (IF k = "refund" THEN a * y ELSE 0)
    BY <1>2, <1>9, <1>10
  <1> QED
    BY <1>11, Zenon DEF a, x, y, k, there

\* An account whose entries are debits of the documents In and credits of the documents Out.
LEMMA BalanceOf ==
  ASSUME LedgerAssumption, IsFiniteSet(Document), NEW account,
         NEW In \in SUBSET Document, NEW Out \in SUBSET Document, In \cap Out = {},
         \A d \in Document : Effect(account)[d] =
           IF d \in In THEN Amount[d] ELSE IF d \in Out THEN 0 - Amount[d] ELSE 0
  PROVE  Balance(account) = SumOf(Amount, In) - SumOf(Amount, Out)
  <1>1. IntegersOn(Amount, Document)
    BY DEF IntegersOn, LedgerAssumption
  <1>2. SumOf(Effect(account), Document) = SumOf(Amount, In) - SumOf(Amount, Out)
    BY <1>1, TotalOfBalance
  <1> QED
    BY <1>2, BalanceIs

\* Once all is booked, the inventory account holds what came in less what went out.
LEMMA InventoryIsWorth ==
  ASSUME LedgerAssumption, IsFiniteSet(Document), BalanceInv, AllBooked
  PROVE  Balance("inventory") = Value({"receipt", "return", "increase"}) - Value({"stockOut", "decrease"})
  <1> DEFINE In == {d \in Document : Kind[d] \in {"receipt", "return", "increase"} /\ Written(d)}
             Out == {d \in Document : Kind[d] \in {"stockOut", "decrease"} /\ Written(d)}
  <1>1. ASSUME NEW d \in Document
        PROVE  Effect("inventory")[d] = IF d \in In THEN Amount[d] ELSE IF d \in Out THEN 0 - Amount[d] ELSE 0
    <2> DEFINE h == Effect("inventory")[d]  a == Amount[d]  k == Kind[d]
               x == Sign("inventory", Kind[d], 1)  y == Sign("inventory", "refund", 2)  there == Written(d)
    <2>1. h = IF ~there \/ k = "stockIn" THEN 0 ELSE a * x + (IF k = "refund" THEN a * y ELSE 0)
      BY EffectWhenBooked
    <2>2. k # "stockIn" => x = IF k \in {"receipt", "return", "increase"} THEN 1
                               ELSE IF k \in {"stockOut", "decrease"} THEN -1 ELSE 0
      BY Signs DEF LedgerAssumption
    <2>3. y = 0 /\ a \in Int
      BY Signs DEF LedgerAssumption
    <2>4. d \in In <=> k \in {"receipt", "return", "increase"} /\ there
      OBVIOUS
    <2>5. d \in Out <=> k \in {"stockOut", "decrease"} /\ there
      OBVIOUS
    <2> HIDE DEF h, a, k, x, y, there, In, Out
    <2>6. h = IF d \in In THEN a ELSE IF d \in Out THEN 0 - a ELSE 0
      BY <2>1, <2>2, <2>3, <2>4, <2>5
    <2> QED
      BY <2>6 DEF h, a
  <1>2. In \in SUBSET Document /\ Out \in SUBSET Document /\ In \cap Out = {}
    OBVIOUS
  <1>3. Value({"receipt", "return", "increase"}) = SumOf(Amount, In) /\ Value({"stockOut", "decrease"}) = SumOf(Amount, Out)
    BY DEF Value, SumOf, MapThenSumSet, MapThenFoldSet
  <1> HIDE DEF In, Out
  <1> QED
    BY <1>1, <1>2, <1>3, BalanceOf

\* Once all is booked, payments have settled what orders are owed.
LEMMA ReceivableIsNothing ==
  ASSUME LedgerAssumption, IsFiniteSet(Document), PaidInFull, PaymentsOfOrders, BalanceInv, AllBooked
  PROVE  Balance("receivable") = 0
  <1> DEFINE In == {d \in Document : Kind[d] = "order" /\ Written(d)}
             Out == {d \in Document : Kind[d] = "payment" /\ Written(d)}
  <1>1. ASSUME NEW d \in Document
        PROVE  Effect("receivable")[d] = IF d \in In THEN Amount[d] ELSE IF d \in Out THEN 0 - Amount[d] ELSE 0
    <2> DEFINE h == Effect("receivable")[d]  a == Amount[d]  k == Kind[d]
               x == Sign("receivable", Kind[d], 1)  y == Sign("receivable", "refund", 2)  there == Written(d)
    <2>1. h = IF ~there \/ k = "stockIn" THEN 0 ELSE a * x + (IF k = "refund" THEN a * y ELSE 0)
      BY EffectWhenBooked
    <2>2. k # "stockIn" => x = IF k \in {"order", "refund"} THEN 1 ELSE IF k = "payment" THEN -1 ELSE 0
      BY Signs DEF LedgerAssumption
    <2>3. y = -1 /\ a \in Int
      BY Signs DEF LedgerAssumption
    <2>4. d \in In <=> k = "order" /\ there
      OBVIOUS
    <2>5. d \in Out <=> k = "payment" /\ there
      OBVIOUS
    <2> HIDE DEF h, a, k, x, y, there, In, Out
    <2>6. h = IF d \in In THEN a ELSE IF d \in Out THEN 0 - a ELSE 0
      BY <2>1, <2>2, <2>3, <2>4, <2>5
    <2> QED
      BY <2>6 DEF h, a
  <1>2. In \in SUBSET Document /\ Out \in SUBSET Document /\ In \cap Out = {} /\ IsFiniteSet(In) /\ IsFiniteSet(Out)
    BY FS_Subset
  <1>3. \A p \in Out : Of[p] \in In
    BY DEF BalanceInv, PaidTogether, PaymentsOfOrders, LedgerAssumption
  <1>4. IntegersOn(Amount, Out) /\ IntegersOn(Amount, In)
    BY DEF IntegersOn, LedgerAssumption
  <1>5. ASSUME NEW o \in In PROVE SumOf(Amount, Group(Of, Out, o)) = Amount[o]
    <2>1. Group(Of, Out, o) = {p \in Document : Kind[p] = "payment" /\ Of[p] = o}
      BY DEF Group, BalanceInv, PaidTogether
    <2> QED
      BY <2>1 DEF PaidInFull
  <1> HIDE DEF In, Out
  <1>6. SumOf(GroupSums(Amount, Of, Out, In), In) = SumOf(Amount, Out)
    BY <1>2, <1>3, <1>4, TotalGrouped
  <1>7. SameOn(GroupSums(Amount, Of, Out, In), Amount, In)
    BY <1>5 DEF SameOn, GroupSums
  <1>8. SumOf(Amount, In) = SumOf(Amount, Out)
    BY <1>2, <1>6, <1>7, TotalSame
  <1>9. SumOf(Amount, Out) \in Int
    BY <1>2, <1>4, TotalInt
  <1>10. Balance("receivable") = SumOf(Amount, In) - SumOf(Amount, Out)
    BY <1>1, <1>2, BalanceOf
  <1> QED
    BY <1>8, <1>9, <1>10

(* The books agree with the rows of the other modules, for any documents,   *)
(* handlers and instances.                                                  *)
THEOREM BooksBalance ==
  ASSUME IsFiniteSet(Document), PaymentsOfOrders, PaidInFull
  PROVE  Spec => []BooksAgree
  <1>1. BalanceInv => BooksAgree
    <2> SUFFICES ASSUME BalanceInv PROVE BooksAgree
      OBVIOUS
    <2>1. Balance("payable") = Value({"supplierPayment"}) - Value({"invoice"})
      BY LedgerAssumption, PayableIsOwed
    <2>2. AllBooked => /\ Balance("receivable") = 0
                       /\ Balance("inventory") = Value({"receipt", "return", "increase"})
                                                 - Value({"stockOut", "decrease"})
      BY LedgerAssumption, InventoryIsWorth, ReceivableIsNothing
    <2> QED
      BY <2>1, <2>2 DEF BooksAgree, AllBooked
  <1> QED
    BY <1>1, BalanceInvariant, PTL

-----------------------------------------------------------------------------
(* What is owed to suppliers (SupplierInvoices).  What a payment has read   *)
(* stays true until it writes, because it alone holds its invoice: that is the *)
(* strengthening (Holding) OwesTheRest needs to be inductive.               *)

\* A payment in flight has read what is settled, of an invoice nobody else holds.
Holding ==
  /\ \A p \in Payer : payer[p] # NoPayment =>
       /\ payer[p].before = settled[payer[p].of]
       /\ invoice[payer[p].of].total > 0
  /\ \A p, q \in Payer :
       payer[p] # NoPayment /\ payer[q] # NoPayment /\ payer[p].of = payer[q].of => p = q

\* What a step needs and leaves.
SupplierInv == SupplierTypeOK /\ OwesTheRest /\ Holding

-----------------------------------------------------------------------------
\* The empty system satisfies the invariant.
LEMMA SupplierInitInv == SupplierInit => SupplierInv
<1> SUFFICES ASSUME SupplierInit PROVE SupplierInv
  OBVIOUS
<1> USE SupplierAssumption DEF SupplierInit
<1>1. SupplierTypeOK BY DEF SupplierTypeOK
<1>2. OwesTheRest BY DEF OwesTheRest
<1>3. Holding BY DEF Holding
<1> QED BY <1>1, <1>2, <1>3 DEF SupplierInv

\* A new invoice has no payments yet, so all of it is owed (SupplierInvoicesService.create).
LEMMA CreateInvoiceInv ==
  ASSUME SupplierInv, NEW i \in Invoice, NEW n \in 1..MaxTotal, CreateInvoice(i, n)
  PROVE  SupplierInv'
<1> USE SupplierAssumption DEF SupplierInv, CreateInvoice
<1>1. SupplierTypeOK' BY DEF SupplierTypeOK
<1>2. settled[i] = 0 BY DEF SupplierTypeOK, OwesTheRest
<1>3. OwesTheRest' BY <1>2 DEF SupplierTypeOK, OwesTheRest
<1>4. Holding' BY DEF SupplierTypeOK, Holding
<1> QED BY <1>1, <1>3, <1>4

\* The lock makes the payment the only one of its invoice (SELECT ... FOR UPDATE).
LEMMA PayReadsInv ==
  ASSUME SupplierInv, NEW p \in Payer, NEW i \in Invoice, NEW n \in 1..MaxTotal, PayReads(p, i, n)
  PROVE  SupplierInv'
<1> USE SupplierAssumption DEF SupplierInv, PayReads
<1>1. SupplierTypeOK' BY DEF SupplierTypeOK
<1>2. OwesTheRest' BY DEF OwesTheRest
<1>3. \A q \in Payer \ {p} : payer'[q] = payer[q] BY DEF SupplierTypeOK
<1>4. payer'[p].of = i /\ payer'[p].before = settled[i] BY DEF SupplierTypeOK
<1>5. \A q \in Payer : payer'[q] # NoPayment =>
        payer'[q].before = settled[payer'[q].of] /\ invoice[payer'[q].of].total > 0
  BY <1>3, <1>4 DEF Holding
<1>6. \A q \in Payer \ {p} : payer'[q] # NoPayment => payer'[q].of # i
  BY <1>3 DEF Lockable
<1>7. Holding' BY <1>3, <1>4, <1>5, <1>6 DEF Holding
<1> QED BY <1>1, <1>2, <1>7

\* The payment writes what the lock has kept true (SupplierPaymentsService.create).
LEMMA PayWritesInv ==
  ASSUME SupplierInv, NEW p \in Payer, PayWrites(p)
  PROVE  SupplierInv'
<1> USE SupplierAssumption DEF SupplierInv
<1> DEFINE i == payer[p].of   n == payer[p].amount
<1>1. payer[p] # NoPayment /\ payer[p].before + n <= invoice[i].total
  BY DEF PayWrites, WithinBalance
<1>2. i \in Invoice /\ n \in 1..MaxTotal BY <1>1 DEF SupplierTypeOK
<1>3. payer[p].before = settled[i] BY <1>1 DEF Holding
<1>4. settled[i] \in Nat /\ payable[i] \in Int /\ invoice[i].total \in 0..MaxTotal
  BY <1>2 DEF SupplierTypeOK
<1>5. settled' = [settled EXCEPT ![i] = @ + n] /\ payable' = [payable EXCEPT ![i] = @ - n]
  BY DEF PayWrites
<1>6. invoice' = [invoice EXCEPT ![i].status =
        IF settled[i] + n >= invoice[i].total THEN "PAID" ELSE "PARTIAL"]
  BY <1>3 DEF PayWrites
<1>7. payer' = [payer EXCEPT ![p] = NoPayment] BY DEF PayWrites
<1>8. settled[i] + n <= invoice[i].total BY <1>1, <1>3
<1> HIDE DEF i, n
<1>9. SupplierTypeOK' BY <1>2, <1>4, <1>5, <1>6, <1>7 DEF SupplierTypeOK
<1>10. OwesTheRest'
  <2> SUFFICES ASSUME NEW j \in Invoice
               PROVE /\ settled'[j] <= invoice'[j].total
                     /\ invoice'[j].status = (IF settled'[j] = 0 THEN "UNPAID"
                          ELSE IF settled'[j] < invoice'[j].total THEN "PARTIAL" ELSE "PAID")
                     /\ payable'[j] = invoice'[j].total - settled'[j]
    BY DEF OwesTheRest
  <2>1. CASE j # i
    BY <2>1, <1>2, <1>5, <1>6 DEF OwesTheRest, SupplierTypeOK
  <2>2. CASE j = i
    <3>1. settled'[i] = settled[i] + n /\ payable'[i] = payable[i] - n
      BY <1>2, <1>5 DEF SupplierTypeOK
    <3>2. /\ invoice'[i].total = invoice[i].total
          /\ invoice'[i].status = IF settled[i] + n >= invoice[i].total THEN "PAID" ELSE "PARTIAL"
      BY <1>2, <1>6 DEF SupplierTypeOK
    <3>3. payable[i] = invoice[i].total - settled[i] BY <1>2 DEF OwesTheRest
    <3> QED BY <2>2, <3>1, <3>2, <3>3, <1>2, <1>4, <1>8
  <2> QED BY <2>1, <2>2
<1>11. Holding'
  <2>1. \A q \in Payer : payer'[q] # NoPayment => q # p /\ payer'[q] = payer[q]
    BY <1>7 DEF SupplierTypeOK
  <2>2. \A q \in Payer : payer'[q] # NoPayment => payer[q].of \in Invoice /\ payer[q].of # i
    BY <2>1, <1>1 DEF SupplierTypeOK, Holding, i
  <2>3. \A j \in Invoice : j # i => settled'[j] = settled[j]
    BY <1>5 DEF SupplierTypeOK
  <2>4. \A j \in Invoice : invoice'[j].total = invoice[j].total
    BY <1>6 DEF SupplierTypeOK
  <2> QED BY <2>1, <2>2, <2>3, <2>4 DEF Holding
<1> QED BY <1>9, <1>10, <1>11

\* A payment that is undone leaves nothing.
LEMMA PayFailsInv ==
  ASSUME SupplierInv, NEW p \in Payer, PayFails(p)
  PROVE  SupplierInv'
<1> USE DEF SupplierInv, PayFails
<1>1. SupplierTypeOK' BY DEF SupplierTypeOK
<1>2. OwesTheRest' BY DEF OwesTheRest
<1>3. \A q \in Payer : payer'[q] # NoPayment => payer'[q] = payer[q] BY DEF SupplierTypeOK
<1>4. Holding' BY <1>3 DEF Holding
<1> QED BY <1>1, <1>2, <1>4

\* Every step keeps the invariant.
LEMMA SupplierNextInv == SupplierInv /\ [SupplierNext]_supplierVars => SupplierInv'
<1> SUFFICES ASSUME SupplierInv, [SupplierNext]_supplierVars PROVE SupplierInv'
  OBVIOUS
<1>1. CASE UNCHANGED supplierVars
  BY <1>1 DEF SupplierInv, SupplierTypeOK, OwesTheRest, Holding, supplierVars
<1>2. CASE SupplierNext
  BY <1>2, CreateInvoiceInv, PayReadsInv, PayWritesInv, PayFailsInv DEF SupplierNext
<1> QED BY <1>1, <1>2

\* In every behaviour the invariant holds throughout.
LEMMA SupplierInvariant == SupplierSpec => []SupplierInv
<1> QED BY SupplierInitInv, SupplierNextInv, PTL DEF SupplierSpec

\* Every reachable state of the invoices and of their payments is well typed.
THEOREM SupplierTypeCorrect == SupplierSpec => []SupplierTypeOK
<1>1. SupplierInv => SupplierTypeOK BY DEF SupplierInv
<1> QED BY <1>1, SupplierInvariant, PTL

\* No invoice is paid beyond its total, its status says what its payments come
\* to, and the ledger owes the rest, for any number of payments at once
\* (SupplierPaymentsService.create).
THEOREM InvoicesOweTheRest == SupplierSpec => []OwesTheRest
<1>1. SupplierInv => OwesTheRest BY DEF SupplierInv
<1> QED BY <1>1, SupplierInvariant, PTL

-----------------------------------------------------------------------------
(* Tills (PosSession).  closeSession sums what the sales of the session were *)
(* paid; what it has summed stays true unless cash moves afterwards.        *)

(* PosSession.  closeSession sums what the session's sales were paid; what   *)
(* it has summed stays true unless cash moves afterwards.                    *)
SalesIn(sale, t) == {k \in SaleKey : sale[k].till = t}

\* What a sale has left in the till.
CashPaid(sale) == [k \in SaleKey |-> sale[k].paid - sale[k].refunded]

\* What the sales of a session have left in the till.
CashIn(sale, t) == SumOf(CashPaid(sale), SalesIn(sale, t))

\* A user has one open session.
OneOpenTill ==
  \A s, t \in Till : till[s].status = "OPEN" /\ till[t].status = "OPEN" /\ till[s].user = till[t].user
                       => s = t

\* A sale that is not there has moved no cash, and no refund exceeds a payment.
SalesAddUp ==
  \A k \in SaleKey :
    /\ posSale[k].till = NoTill => posSale[k] = NoSale
    /\ posSale[k].refunded <= posSale[k].paid
    /\ posSale[k].part => posSale[k].paid <= 1

\* A session has finitely many sales, and they can be summed.
FewSales == \A t \in Till : IsFiniteSet(SalesIn(posSale, t))

\* A closing session is open, held by one call, and its sum is true until cash moves.
ClosingIsTrue ==
  /\ \A w \in TillWorker : tillCall[w].op = "close" =>
       /\ till[tillCall[w].till].status = "OPEN"
       /\ tillCall[w].till \notin afterClose => tillCall[w].sum = CashIn(posSale, tillCall[w].till)
  /\ \A v, w \in TillWorker :
       tillCall[v].op = "close" /\ tillCall[w].op = "close" /\ tillCall[v].till = tillCall[w].till
         => v = w

\* A closed session expects the cash of its sales, unless cash moved later.
ClosedIsTrue ==
  \A t \in Till \ afterClose :
    till[t].status = "CLOSED" => till[t].expected = OpeningCash + CashIn(posSale, t)

\* What a step needs and leaves.
PosInv ==
  PosTypeOK /\ OneOpenTill /\ SalesAddUp /\ FewSales /\ ClosingIsTrue /\ ClosedIsTrue

\* The sum of closeSession as the total of a function.
OnSales(g, sale, S) == g = [s \in SUBSET S |-> IF s = {} THEN 0
     ELSE (sale[Pick(s)].paid - sale[Pick(s)].refunded) + g[s \ {Pick(s)}]]

\* closeSession's sum is the sum over the session's sales.
LEMMA SumOfSales ==
  ASSUME NEW sale, NEW t, IsFiniteSet(SalesIn(sale, t))
  PROVE  MapThenSumSet(LAMBDA k : sale[k].paid - sale[k].refunded, {k \in SaleKey : sale[k].till = t})
           = CashIn(sale, t)
<1> DEFINE S == SalesIn(sale, t)
<1>1. S \in SUBSET SaleKey BY DEF SalesIn
<1>2. \A g : IsSum(g, CashPaid(sale), SUBSET S) <=> OnSales(g, sale, S)
  BY <1>1, PickIn DEF IsSum, OnSales, CashPaid
<1> DEFINE G == CHOOSE g : OnSales(g, sale, S)
<1> HIDE DEF S
<1>3. IsFiniteSet(S) BY DEF S
<1>4. OnSales(G, sale, S) BY <1>2, <1>3, SumExists
<1>5. Adds(G, CashPaid(sale), S) BY <1>2, <1>3, <1>4 DEF Adds
<1>6. MapThenSumSet(LAMBDA k : sale[k].paid - sale[k].refunded, S) = G[S]
  BY DEF MapThenSumSet, MapThenFoldSet, OnSales, Pick
<1>7. S = {k \in SaleKey : sale[k].till = t} BY DEF S, SalesIn
<1> QED BY <1>5, <1>6, <1>7, TotalIs DEF CashIn, S

\* Rows of sales.
Sale == [till : Till \cup {NoTill}, cash : BOOLEAN, part : BOOLEAN, paid : 0..2, refunded : 0..2]

\* The cash of a session stays what it was unless a sale of its own moves some.
LEMMA CashStays ==
  ASSUME NEW sale \in [SaleKey -> Sale], NEW k \in SaleKey, NEW s \in Sale, NEW t \in Till,
         IsFiniteSet(SalesIn(sale, t)),
         sale[k].till # t \/ s.till = t
  PROVE  LET after == [sale EXCEPT ![k] = s] IN
         /\ IsFiniteSet(SalesIn(after, t))
         /\ s.till # t => CashIn(after, t) = CashIn(sale, t)
         /\ sale[k].till # t /\ s.paid - s.refunded = 0 => CashIn(after, t) = CashIn(sale, t)
         /\ sale[k].till = t /\ s.paid - s.refunded = sale[k].paid - sale[k].refunded
              => CashIn(after, t) = CashIn(sale, t)
<1> DEFINE S == SalesIn(sale, t)
           after == [sale EXCEPT ![k] = s]
<1>1. IntegersOn(CashPaid(sale), SaleKey) /\ IntegersOn(CashPaid(after), SaleKey)
  BY DEF IntegersOn, CashPaid, Sale
<1>2. S \subseteq SaleKey BY DEF SalesIn
<1>3. \A j \in SaleKey \ {k} : CashPaid(after)[j] = CashPaid(sale)[j] BY DEF CashPaid
<1>4. CashPaid(after)[k] = s.paid - s.refunded /\ CashPaid(sale)[k] = sale[k].paid - sale[k].refunded
  BY DEF CashPaid
<1>5. CASE s.till # t
  <2>1. sale[k].till # t /\ SalesIn(after, t) = S /\ k \notin S BY <1>5 DEF SalesIn
  <2>2. SameOn(CashPaid(after), CashPaid(sale), S) BY <1>2, <1>3, <2>1 DEF SameOn
  <2> QED BY <2>1, <2>2, TotalSame DEF CashIn
<1>6. CASE s.till = t /\ sale[k].till # t
  <2>1. SalesIn(after, t) = S \cup {k} /\ k \notin S BY <1>6 DEF SalesIn
  <2>2. IsFiniteSet(S \cup {k}) BY FS_AddElement
  <2>3. SameOn(CashPaid(after), CashPaid(sale), S) BY <1>2, <1>3, <2>1 DEF SameOn
  <2>4. IntegersOn(CashPaid(after), S \cup {k}) /\ IntegersOn(CashPaid(sale), S)
    BY <1>1, <1>2 DEF IntegersOn
  <2>5. SumOf(CashPaid(after), S \cup {k}) = CashPaid(after)[k] + SumOf(CashPaid(after), S)
    BY <2>1, <2>4, TotalAdds
  <2>6. SumOf(CashPaid(after), S) = SumOf(CashPaid(sale), S) BY <2>3, TotalSame
  <2>7. SumOf(CashPaid(sale), S) \in Int BY <2>4, TotalInt
  <2>8. CashIn(after, t) = (s.paid - s.refunded) + CashIn(sale, t)
    BY <1>4, <2>1, <2>5, <2>6 DEF CashIn
  <2>9. CashIn(sale, t) \in Int BY <2>7 DEF CashIn
  <2>10. s.paid - s.refunded = 0 => CashIn(after, t) = CashIn(sale, t) BY <2>8, <2>9
  <2> QED BY <1>6, <2>1, <2>2, <2>10
<1>7. CASE s.till = t /\ sale[k].till = t
  <2>1. SalesIn(after, t) = S BY <1>7 DEF SalesIn
  <2>2. ASSUME s.paid - s.refunded = sale[k].paid - sale[k].refunded
        PROVE  SameOn(CashPaid(after), CashPaid(sale), S)
    BY <1>2, <1>3, <1>4, <2>2 DEF SameOn
  <2> QED BY <1>7, <2>1, <2>2, TotalSame DEF CashIn
<1> QED BY <1>5, <1>6, <1>7

\* No session, no sale: the invariant holds.
LEMMA PosInitInv == PosInit => PosInv
<1> SUFFICES ASSUME PosInit PROVE PosInv
  OBVIOUS
<1> USE PosAssumption DEF PosInit, NewTill, NoSale, NoTillCall
<1>1. PosTypeOK BY DEF PosTypeOK
<1>2. FewSales
  <2>1. \A t \in Till : SalesIn(posSale, t) = {} BY DEF SalesIn, PosAssumption
  <2> QED BY <2>1, FS_EmptySet DEF FewSales
<1> QED BY <1>1, <1>2 DEF PosInv, OneOpenTill, SalesAddUp, ClosingIsTrue, ClosedIsTrue

\* A session opens with no sale of its own.
LEMMA OpenSessionInv ==
  ASSUME PosInv, NEW t \in Till, NEW u \in Cashier, OpenSession(t, u)
  PROVE  PosInv'
<1> USE DEF PosInv, OpenSession
<1>1. PosTypeOK' BY DEF PosTypeOK
<1>2. \A s \in Till : till'[s] = IF s = t THEN [status |-> "OPEN", user |-> u, expected |-> 0] ELSE till[s]
  BY DEF PosTypeOK
<1>3. OneOpenTill' BY <1>2 DEF OneOpenTill, MayOpen, OpenTills
<1>4. SalesAddUp' /\ FewSales' BY DEF SalesAddUp, FewSales
<1>5. \A w \in TillWorker : tillCall[w].op = "close" => tillCall[w].till \in Till
  BY DEF PosTypeOK, NoTillCall
<1>6. ClosingIsTrue' BY <1>2, <1>5 DEF ClosingIsTrue
<1>7. ClosedIsTrue' BY <1>2 DEF ClosedIsTrue
<1> QED BY <1>1, <1>3, <1>4, <1>6, <1>7

\* A closing session sums what its sales have left.
LEMMA CloseReadsInv ==
  ASSUME PosInv, NEW w \in TillWorker, NEW t \in Till, CloseReads(w, t)
  PROVE  PosInv'
<1> USE DEF PosInv, CloseReads
<1>1. CashOf(t) = CashIn(posSale, t) BY SumOfSales DEF FewSales, CashOf
<1>2. CashIn(posSale, t) \in Int
  <2>1. IntegersOn(CashPaid(posSale), SalesIn(posSale, t))
    BY DEF IntegersOn, CashPaid, SalesIn, PosTypeOK
  <2> QED BY <2>1, TotalInt DEF CashIn, FewSales
<1>3. tillCall' = [tillCall EXCEPT ![w] = [op |-> "close", till |-> t, sum |-> CashIn(posSale, t)]]
  BY <1>1
<1>4. PosTypeOK' BY <1>2, <1>3 DEF PosTypeOK
<1>5. OneOpenTill' /\ SalesAddUp' /\ FewSales' /\ ClosedIsTrue'
  BY DEF OneOpenTill, SalesAddUp, FewSales, ClosedIsTrue
<1>6. \A v \in TillWorker : tillCall'[v] =
        IF v = w THEN [op |-> "close", till |-> t, sum |-> CashIn(posSale, t)] ELSE tillCall[v]
  BY <1>3 DEF PosTypeOK
<1>7. ClosingIsTrue' BY <1>6 DEF ClosingIsTrue
<1> QED BY <1>4, <1>5, <1>7

\* The sum is written, and is true unless cash has moved since it was read.
LEMMA CloseSessionInv ==
  ASSUME PosInv, NEW w \in TillWorker, CloseSession(w)
  PROVE  PosInv'
<1> DEFINE t == tillCall[w].till
<1> USE DEF PosInv, CloseSession
<1>1. t \in Till /\ tillCall[w].sum \in Int BY DEF PosTypeOK, NoTillCall
<1>2. till' = [till EXCEPT ![t] = [@ EXCEPT !.status = "CLOSED", !.expected = OpeningCash + tillCall[w].sum]]
  BY <1>1 DEF PosTypeOK
<1>3. PosTypeOK' BY <1>1, <1>2, PosAssumption DEF PosTypeOK, PosAssumption
<1>4. \A s \in Till : /\ s # t => till'[s] = till[s]
                      /\ till'[t].status = "CLOSED" /\ till'[t].user = till[t].user
                      /\ till'[t].expected = OpeningCash + tillCall[w].sum
  BY <1>1, <1>2 DEF PosTypeOK
<1>5. OneOpenTill' BY <1>4 DEF OneOpenTill
<1>6. SalesAddUp' /\ FewSales' BY DEF SalesAddUp, FewSales
<1>7. \A v \in TillWorker : tillCall'[v].op = "close" => v # w /\ tillCall'[v] = tillCall[v]
  BY DEF PosTypeOK, NoTillCall
<1>8. \A v \in TillWorker : tillCall'[v].op = "close" => tillCall[v].till \in Till /\ tillCall[v].till # t
  BY <1>7 DEF ClosingIsTrue, PosTypeOK, NoTillCall
<1>12. posSale' = posSale /\ afterClose' = afterClose OBVIOUS
<1>9. ClosingIsTrue'
  <2> HIDE DEF CloseSession, t
  <2> QED BY <1>4, <1>7, <1>8, <1>12 DEF ClosingIsTrue
<1>10. t \notin afterClose => tillCall[w].sum = CashIn(posSale, t) BY DEF ClosingIsTrue
<1> HIDE DEF t
<1>11. ClosedIsTrue' BY <1>1, <1>4, <1>10 DEF ClosedIsTrue
<1> QED BY <1>3, <1>5, <1>6, <1>9, <1>11

\* A sale that found its session has changed nothing yet.
LEMMA SaleFindsTillInv ==
  ASSUME PosInv, NEW w \in TillWorker, NEW t \in Till, NEW k \in SaleKey, SaleFindsTill(w, t, k)
  PROVE  PosInv'
<1> USE DEF PosInv, SaleFindsTill
<1>1. PosTypeOK' BY DEF PosTypeOK
<1>2. OneOpenTill' /\ SalesAddUp' /\ FewSales' /\ ClosedIsTrue'
  BY DEF OneOpenTill, SalesAddUp, FewSales, ClosedIsTrue
<1>3. \A v \in TillWorker : tillCall'[v].op = "close" => tillCall'[v] = tillCall[v]
  BY DEF PosTypeOK
<1>4. ClosingIsTrue' BY <1>3 DEF ClosingIsTrue
<1> QED BY <1>1, <1>2, <1>4

\* A call that is given up leaves everything as it is.
LEMMA AbandonTillInv ==
  ASSUME PosInv, NEW w \in TillWorker, AbandonTill(w)
  PROVE  PosInv'
<1> USE DEF PosInv, AbandonTill
<1>1. PosTypeOK' BY DEF PosTypeOK
<1>2. OneOpenTill' /\ SalesAddUp' /\ FewSales' /\ ClosedIsTrue'
  BY DEF OneOpenTill, SalesAddUp, FewSales, ClosedIsTrue
<1>3. \A v \in TillWorker : tillCall'[v].op = "close" => tillCall'[v] = tillCall[v]
  BY DEF PosTypeOK, NoTillCall
<1>4. ClosingIsTrue' BY <1>3 DEF ClosingIsTrue
<1> QED BY <1>1, <1>2, <1>4

\* Cash that moves in a session whose sum was taken is told; any other leaves the sums true.
LEMMA CashMoves ==
  ASSUME PosInv, NEW k \in SaleKey, NEW s \in Sale,
         posSale' = [posSale EXCEPT ![k] = s], till' = till,
         s.till \in Till, s.refunded <= s.paid, s.part => s.paid <= 1,
         \/ posSale[k] = NoSale
         \/ posSale[k].till = s.till,
         NEW moved \in BOOLEAN, Counting(s.till, moved),
         ~moved => s.paid - s.refunded = posSale[k].paid - posSale[k].refunded,
         \A w \in TillWorker : tillCall'[w].op = "close" => tillCall'[w] = tillCall[w],
         tillCall' \in [TillWorker -> {NoTillCall}
           \cup [op : {"sale"}, till : Till, key : SaleKey]
           \cup [op : {"close"}, till : Till, sum : Int]]
  PROVE  PosInv'
<1> USE DEF PosInv
<1>1. posSale \in [SaleKey -> Sale] BY DEF PosTypeOK, Sale
<1>2. afterClose \subseteq afterClose' /\ afterClose' \subseteq Till
  BY DEF Counting, PosTypeOK
<1>3. PosTypeOK' BY <1>1, <1>2 DEF PosTypeOK, Sale
<1>4. OneOpenTill' BY DEF OneOpenTill
<1>5. SalesAddUp' BY <1>1, PosAssumption DEF SalesAddUp, PosAssumption
<1>6. \A t \in Till : posSale[k].till # t \/ s.till = t
  BY PosAssumption DEF NoSale, PosAssumption
<1>7. FewSales' BY <1>1, <1>6, CashStays DEF FewSales
<1>8. \A t \in Till \ afterClose' : till[t].status = "CLOSED" \/ (\E w \in TillWorker :
        tillCall[w].op = "close" /\ tillCall[w].till = t) => CashIn(posSale', t) = CashIn(posSale, t)
  <2> SUFFICES ASSUME NEW t \in Till, t \notin afterClose',
                      till[t].status = "CLOSED" \/ (\E w \in TillWorker :
                        tillCall[w].op = "close" /\ tillCall[w].till = t)
               PROVE  CashIn(posSale', t) = CashIn(posSale, t)
    OBVIOUS
  <2>1. IsFiniteSet(SalesIn(posSale, t)) BY DEF FewSales
  <2> HIDE DEF PosInv
  <2>2. CASE s.till # t BY <1>1, <1>6, <2>1, <2>2, CashStays
  <2>3. CASE s.till = t
    <3>1. ~moved BY <2>3 DEF Counting, Summed
    <3>2. posSale[k].till = t \/ (posSale[k].till # t /\ s.paid - s.refunded = 0)
      BY <2>3, <3>1 DEF NoSale
    <3> QED BY <1>1, <1>6, <2>1, <2>3, <3>1, <3>2, CashStays
  <2> QED BY <2>2, <2>3
<1>9. ClosingIsTrue'
  <2>1. \A w \in TillWorker : tillCall'[w].op = "close" => tillCall[w].till \in Till
    BY DEF PosTypeOK, NoTillCall
  <2> QED BY <1>2, <1>8, <2>1 DEF ClosingIsTrue
<1>10. ClosedIsTrue' BY <1>2, <1>8 DEF ClosedIsTrue
<1> QED BY <1>3, <1>4, <1>5, <1>7, <1>9, <1>10

\* A new sale brings its cash to its session.
LEMMA CreateSaleInv ==
  ASSUME PosInv, NEW w \in TillWorker, NEW cash \in BOOLEAN, NEW part \in BOOLEAN,
         CreateSale(w, cash, part)
  PROVE  PosInv'
<1> DEFINE t == tillCall[w].till
           k == tillCall[w].key
           s == [till |-> t, cash |-> cash, part |-> part, paid |-> IF cash THEN 1 ELSE 0, refunded |-> 0]
<1>1. t \in Till /\ k \in SaleKey BY DEF CreateSale, PosInv, PosTypeOK, NoTillCall
<1>2. \A v \in TillWorker : tillCall'[v].op = "close" => tillCall'[v] = tillCall[v]
  BY DEF CreateSale, PosInv, PosTypeOK, NoTillCall
<1>3. tillCall' \in [TillWorker -> {NoTillCall}
           \cup [op : {"sale"}, till : Till, key : SaleKey]
           \cup [op : {"close"}, till : Till, sum : Int]]
  BY DEF CreateSale, PosInv, PosTypeOK
<1>4. CASE posSale[k] = NoSale /\ posSale' = [posSale EXCEPT ![k] = s] /\ Counting(t, cash)
  <2>1. s \in Sale BY <1>1 DEF Sale
  <2>2. s.till = t /\ s.refunded <= s.paid /\ (s.part => s.paid <= 1)
        /\ (~cash => s.paid - s.refunded = 0)
    OBVIOUS
  <2>3. posSale[k].paid - posSale[k].refunded = 0 BY <1>4 DEF NoSale
  <2>4. till' = till BY DEF CreateSale
  <2> HIDE DEF s, t, k
  <2> QED BY <1>1, <1>2, <1>3, <1>4, <2>1, <2>2, <2>3, <2>4, CashMoves
<1>5. CASE UNCHANGED <<posSale, afterClose>>
  <2>1. till' = till BY DEF CreateSale
  <2> QED BY <1>2, <1>3, <1>5, <2>1 DEF PosInv, PosTypeOK, OneOpenTill, SalesAddUp, FewSales,
             ClosingIsTrue, ClosedIsTrue
<1> QED BY <1>4, <1>5 DEF CreateSale

\* The rest of a sale is paid.
LEMMA PayRestInv ==
  ASSUME PosInv, NEW k \in SaleKey, NEW cash \in BOOLEAN, PayRest(k, cash)
  PROVE  PosInv'
<1> DEFINE n == IF cash THEN posSale[k].paid + 1 ELSE posSale[k].paid
           s == [posSale[k] EXCEPT !.part = FALSE, !.paid = n]
<1>1. posSale[k] \in Sale BY DEF PosInv, PosTypeOK, Sale
<1>2. posSale[k].paid <= 1 /\ posSale[k].till # NoTill /\ posSale[k].refunded <= posSale[k].paid
  BY DEF PayRest, PosInv, SalesAddUp, NoSale
<1>3. n \in 0..2 /\ posSale[k].refunded <= n /\ (~cash => n = posSale[k].paid)
  BY <1>1, <1>2 DEF Sale
<1>4. posSale' = [posSale EXCEPT ![k] = s] /\ Counting(posSale[k].till, cash) /\ till' = till /\ tillCall' = tillCall
  BY DEF PayRest, PosInv, PosTypeOK
<1> HIDE DEF n
<1>5. s \in Sale /\ s.till = posSale[k].till /\ s.till \in Till /\ ~s.part
      /\ s.paid = n /\ s.refunded = posSale[k].refunded
  BY <1>1, <1>2, <1>3 DEF Sale
<1> HIDE DEF s
<1> QED BY <1>3, <1>4, <1>5, CashMoves DEF PosInv, PosTypeOK

\* A refund takes cash that was paid.
LEMMA RefundSaleInv ==
  ASSUME PosInv, NEW k \in SaleKey, RefundSale(k)
  PROVE  PosInv'
<1> DEFINE s == [posSale[k] EXCEPT !.refunded = @ + 1]
<1>1. posSale[k] \in Sale BY DEF PosInv, PosTypeOK, Sale
<1>2. posSale[k].till # NoTill /\ posSale[k].refunded < posSale[k].paid
      /\ (posSale[k].part => posSale[k].paid <= 1)
  BY DEF RefundSale, PosInv, SalesAddUp, NoSale
<1>3. s \in Sale /\ s.till = posSale[k].till /\ s.till \in Till
      /\ s.refunded <= s.paid /\ (s.part => s.paid <= 1)
  BY <1>1, <1>2 DEF Sale
<1>4. posSale' = [posSale EXCEPT ![k] = s] /\ Counting(s.till, TRUE) /\ till' = till /\ tillCall' = tillCall
  BY <1>3 DEF RefundSale, PosInv, PosTypeOK
<1> HIDE DEF s
<1> QED BY <1>3, <1>4, CashMoves DEF PosInv, PosTypeOK

\* Every step keeps the invariant.
LEMMA PosNextInv == PosInv /\ [PosNext]_posVars => PosInv'
<1> SUFFICES ASSUME PosInv, [PosNext]_posVars PROVE PosInv'
  OBVIOUS
<1>1. CASE UNCHANGED posVars
  BY <1>1 DEF posVars, PosInv, PosTypeOK, OneOpenTill, SalesAddUp, FewSales, ClosingIsTrue, ClosedIsTrue
<1>2. CASE PosNext
  BY <1>2, OpenSessionInv, CloseReadsInv, CloseSessionInv, SaleFindsTillInv, AbandonTillInv,
     CreateSaleInv, PayRestInv, RefundSaleInv DEF PosNext
<1> QED BY <1>1, <1>2

\* A closed session expects the cash its sales left in it, for any number of
\* tills, sales and calls, unless cash moved between sum and close or after
\* (PosService.closeSession).
THEOREM TillsExpectTheirCash == PosSpec => []TillExpectsItsCash
<1>1. PosSpec => []PosInv
  BY PosInitInv, PosNextInv, PTL DEF PosSpec
<1>2. PosInv => TillExpectsItsCash
  <2> SUFFICES ASSUME PosInv PROVE TillExpectsItsCash
    OBVIOUS
  <2>1. ASSUME NEW u \in Cashier PROVE Cardinality(OpenTills(u)) <= 1
    <3>1. \A s, t \in OpenTills(u) : s = t BY DEF PosInv, OneOpenTill, OpenTills
    <3> QED BY <3>1, AtMostOne
  <2>2. \A t \in Till : CashOf(t) = CashIn(posSale, t) BY SumOfSales DEF PosInv, FewSales, CashOf
  <2> QED BY <2>1, <2>2 DEF PosInv, ClosedIsTrue, TillExpectsItsCash
<1> QED BY <1>1, <1>2, PTL
===============================================================================
