---------------------------- MODULE Transformations ----------------------------
(***************************************************************************)
(* Transformations of stock: InventoryReadService.createTransformation,     *)
(* executeTransformation and cancelTransformation (modules/inventory).      *)
(*                                                                          *)
(* The state of a transformation is a tag at the head of its notes.  An     *)
(* execution locks the row and moves all lines in one transaction; a        *)
(* cancellation reads the notes, then the movements, and then writes the    *)
(* notes it has computed, without a lock.                                   *)
(***************************************************************************)
EXTENDS Integers, Sequences

CONSTANTS
  Transformation,
  Canceller,     \* cancellations in flight
  StockBin,      \* stock items
  Line,          \* Line[t]: sequence of [bin, change], change -1 for OUT and 1 for IN
  StockAtFirst   \* units of each stock item

ASSUME TransformationsAssumption ==
  /\ \A t \in Transformation :
       Line[t] \in Seq([bin : StockBin, change : {-1, 1}]) \ {<<>>}
  /\ StockAtFirst \in Nat

VARIABLES
  notes,        \* the tags at the head of the notes; <<"none">> before the row exists
  moved,        \* moved[t]: movements with t as reference
  binStock,     \* binStock[b]: units on hand
  cancelling,   \* cancelling[w]: the row, its notes as read, whether movements were looked for
  retagged      \* history: rows that were given two tags, or cancelled while executed

xfVars == <<notes, moved, binStock, cancelling, retagged>>

Tag == {"EXECUTED", "CANCELLED"}
Given == {<<>>} \cup {<<a>> : a \in Tag} \cup {<<a, b>> : a, b \in Tag}
NoCancel == [of |-> "none"]

XfTypeOK ==
  /\ notes \in [Transformation -> Given \cup {<<"none">>}]
  /\ moved \in [Transformation -> Nat]
  /\ binStock \in [StockBin -> Nat]
  /\ cancelling \in [Canceller -> {NoCancel} \cup
       [of : Transformation, notes : Given, looked : BOOLEAN]]
  /\ retagged \subseteq Transformation

XfInit ==
  /\ notes = [t \in Transformation |-> <<"none">>]
  /\ moved = [t \in Transformation |-> 0]
  /\ binStock = [b \in StockBin |-> StockAtFirst]
  /\ cancelling = [w \in Canceller |-> NoCancel]
  /\ retagged = {}

-----------------------------------------------------------------------------
\* cleanTransformationNotes takes one tag away, markTransformationState puts one in its place.
Clean(tags) == IF tags = <<>> THEN tags ELSE Tail(tags)
Marked(tags, state) == <<state>> \o Clean(tags)

Tagged(tags, state) == tags # <<>> /\ Head(tags) = state

CreateTransformation(t, given) ==
  /\ notes[t] = <<"none">>
  /\ notes' = [notes EXCEPT ![t] = Clean(given)]
  /\ retagged' = IF Len(given) > 1 THEN retagged \cup {t} ELSE retagged
  /\ UNCHANGED <<moved, binStock, cancelling>>

\* Mutant: executeTransformation looks at the movements only to refuse a cancelled row.
MayExecuteAgain(t) == ~Tagged(notes[t], "CANCELLED")

MayExecute(t) ==
  /\ ~Tagged(notes[t], "CANCELLED") /\ ~Tagged(notes[t], "EXECUTED")
  /\ moved[t] = 0

\* Units on hand after the first n lines; an OUT line needs a unit.
After(t) ==
  LET units[n \in 0..Len(Line[t])] ==
        IF n = 0 THEN binStock
        ELSE [units[n - 1] EXCEPT ![Line[t][n].bin] = @ + Line[t][n].change] IN
  units

ExecuteTransformation(t) ==
  /\ notes[t] # <<"none">>
  /\ MayExecute(t)
  /\ \A n \in DOMAIN Line[t], b \in StockBin : After(t)[n][b] >= 0
  /\ binStock' = After(t)[Len(Line[t])]
  /\ moved' = [moved EXCEPT ![t] = @ + Len(Line[t])]
  /\ notes' = [notes EXCEPT ![t] = Marked(@, "EXECUTED")]
  /\ UNCHANGED <<cancelling, retagged>>

CancelReads(w, t) ==
  /\ cancelling[w] = NoCancel
  /\ notes[t] # <<"none">>
  /\ cancelling' = [cancelling EXCEPT ![w] = [of |-> t, notes |-> notes[t], looked |-> FALSE]]
  /\ UNCHANGED <<notes, moved, binStock, retagged>>

CancelLooks(w) ==
  /\ cancelling[w] # NoCancel /\ ~cancelling[w].looked
  /\ IF moved[cancelling[w].of] > 0 THEN cancelling' = [cancelling EXCEPT ![w] = NoCancel]
     ELSE cancelling' = [cancelling EXCEPT ![w].looked = TRUE]
  /\ UNCHANGED <<notes, moved, binStock, retagged>>

CancelWrites(w) ==
  LET t == cancelling[w].of
      read == cancelling[w].notes IN
  /\ cancelling[w] # NoCancel /\ cancelling[w].looked
  /\ notes' = [notes EXCEPT ![t] =
       IF Tagged(read, "CANCELLED") THEN read ELSE Marked(read, "CANCELLED")]
  /\ retagged' = IF moved[t] > 0 THEN retagged \cup {t} ELSE retagged
  /\ cancelling' = [cancelling EXCEPT ![w] = NoCancel]
  /\ UNCHANGED <<moved, binStock>>

CrashCancel(w) ==
  /\ cancelling[w] # NoCancel
  /\ cancelling' = [cancelling EXCEPT ![w] = NoCancel]
  /\ UNCHANGED <<notes, moved, binStock, retagged>>

XfNext ==
  \/ \E t \in Transformation :
       ExecuteTransformation(t) \/ \E given \in Given : CreateTransformation(t, given)
  \/ \E w \in Canceller :
       CancelLooks(w) \/ CancelWrites(w) \/ CrashCancel(w) \/ \E t \in Transformation : CancelReads(w, t)

XfSpec == XfInit /\ [][XfNext]_xfVars

-----------------------------------------------------------------------------
(* A transformation moves its lines at most once, however executions and     *)
(* cancellations interleave; and the state it shows is true: EXECUTED if and *)
(* only if it has moved stock, unless it was given two tags when it was      *)
(* created, or was executed between the reads and the write of a             *)
(* cancellation (then it shows CANCELLED over stock that has moved).         *)
MovedAsShown ==
  /\ XfTypeOK
  /\ \A t \in Transformation :
       /\ moved[t] \in {0, Len(Line[t])}
       /\ t \notin retagged => (Tagged(notes[t], "EXECUTED") <=> moved[t] > 0)

=============================================================================
