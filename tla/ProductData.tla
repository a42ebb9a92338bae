------------------------------ MODULE ProductData ------------------------------
(***************************************************************************)
(* What is kept for a product or a variant in rows that no unique key       *)
(* protects: attribute assignments (ProductAttributesService,               *)
(* modules/product) and prices (PricingService, PricingRepository,          *)
(* modules/pricing).                                                        *)
(*                                                                          *)
(* Each upsert looks for a row of its slot (a definition, or Price) and     *)
(* then updates the row it found or creates one.  A row holds one value, in *)
(* a column; the values of a price are told apart by the same names.        *)
(***************************************************************************)
EXTENDS Integers, FiniteSets

CONSTANTS
  Definition,    \* attribute definitions
  Price,         \* the slot of product_prices
  DataRow,       \* ids of rows: bound on their creation
  DataClerk,     \* upserts in flight
  ValueType,     \* NUMBER, BOOLEAN, JSON, SELECT, ...
  Textual        \* DATE, SELECT, TEXT: a value in value_text

ASSUME ProductDataAssumption ==
  /\ Price \notin Definition /\ Textual \subseteq ValueType
  /\ "none" \notin Definition \cup {Price} \cup ValueType /\ "gone" \notin Definition \cup {Price}

VARIABLES
  definition,   \* definition[d]: its value type
  options,      \* definitions with an option
  dataRow,      \* rows: dataRow[r].slot and the column that holds a value
  lastSet,      \* lastSet[s]: what the last upsert of the slot wrote
  dataCall,     \* dataCall[w]: NoData, or what w has found
  doubled,      \* history: slots whose upserts overlapped
  retyped       \* history: definitions whose value type was changed

dataVars == <<definition, options, dataRow, lastSet, dataCall, doubled, retyped>>

Slot == Definition \cup {Price}
NoData == [slot |-> "none"]
Column == ValueType \cup {"text"}
Empty == [slot |-> "none"]
Gone == [slot |-> "gone"]      \* ids are never used again

DataTypeOK ==
  /\ definition \in [Definition -> ValueType \cup {"none"}]
  /\ options \subseteq Definition
  /\ dataRow \in [DataRow -> {Empty, Gone} \cup [slot : Slot, column : Column]]
  /\ lastSet \in [Slot -> Column \cup {"none"}]
  /\ dataCall \in [DataClerk -> {NoData} \cup
       [slot : Slot, column : Column, found : SUBSET DataRow, looked : BOOLEAN]]
  /\ doubled \subseteq Slot /\ retyped \subseteq Definition

DataInit ==
  /\ definition = [d \in Definition |-> "none"]
  /\ options = {}
  /\ dataRow = [r \in DataRow |-> Empty]
  /\ lastSet = [s \in Slot |-> "none"]
  /\ dataCall = [w \in DataClerk |-> NoData]
  /\ doubled = {} /\ retyped = {}

-----------------------------------------------------------------------------
ColumnOf(type) == IF type \in Textual THEN "text" ELSE type

RowsOf(s) == {r \in DataRow : dataRow[r].slot = s}

\* createDefinition: the code is unique.
CreateDefinition(d, type) ==
  /\ definition[d] = "none"
  /\ definition' = [definition EXCEPT ![d] = type]
  /\ UNCHANGED <<options, dataRow, lastSet, dataCall, doubled, retyped>>

\* The assignments keep the values they have.
UpdateDefinition(d, type) ==
  /\ definition[d] # "none"
  /\ definition' = [definition EXCEPT ![d] = type]
  /\ retyped' = retyped \cup {d}
  /\ UNCHANGED <<options, dataRow, lastSet, dataCall, doubled>>

\* createOption, updateOption and removeOption
CreateOption(d) ==
  /\ definition[d] = "SELECT"
  /\ options' = options \cup {d}
  /\ UNCHANGED <<definition, dataRow, lastSet, dataCall, doubled, retyped>>

RemoveOption(d) ==
  /\ d \in options
  /\ options' = options \ {d}
  /\ UNCHANGED <<definition, dataRow, lastSet, dataCall, doubled, retyped>>

RemoveAssignment(r) ==
  /\ dataRow[r].slot \in Definition
  /\ dataRow' = [dataRow EXCEPT ![r] = Gone]
  /\ lastSet' = [lastSet EXCEPT ![dataRow[r].slot] = "none"]
  /\ doubled' = IF \E w \in DataClerk : dataCall[w].slot = dataRow[r].slot
                THEN doubled \cup {dataRow[r].slot} ELSE doubled
  /\ UNCHANGED <<definition, options, dataCall, retyped>>

\* buildAssignmentValue accepts the value of the definition's column only.
Fits(s, column) == s # Price => column = ColumnOf(definition[s])

\* ensureProduct, ensureDefinition, buildAssignmentValue; or setPrice
StartUpsert(w, s, column) ==
  /\ dataCall[w] = NoData
  /\ s # Price => definition[s] # "none"
  /\ Fits(s, column)
  /\ dataCall' = [dataCall EXCEPT ![w] =
       [slot |-> s, column |-> column, found |-> {}, looked |-> FALSE]]
  /\ doubled' = IF \E v \in DataClerk : dataCall[v].slot = s THEN doubled \cup {s} ELSE doubled
  /\ UNCHANGED <<definition, options, dataRow, lastSet, retyped>>

\* findFirst
LookForRow(w) ==
  LET s == dataCall[w].slot IN
  /\ dataCall[w] # NoData /\ ~dataCall[w].looked
  /\ \/ RowsOf(s) = {} /\ dataCall' = [dataCall EXCEPT ![w].looked = TRUE]
     \/ \E r \in RowsOf(s) :
          dataCall' = [dataCall EXCEPT ![w].looked = TRUE, ![w].found = {r}]
  /\ UNCHANGED <<definition, options, dataRow, lastSet, doubled, retyped>>

\* Mutant: PricingRepository.upsert and upsertAssignment always create.
CreateAlways(w, r) == dataRow[r] = Empty

Target(w, r) ==
  IF dataCall[w].found = {} THEN dataRow[r] = Empty
  ELSE dataCall[w].found = {r} /\ dataRow[r] # Gone

WriteRow(w) ==
  /\ dataCall[w] # NoData /\ dataCall[w].looked
  /\ \E r \in DataRow :
       /\ Target(w, r)
       /\ dataRow' = [dataRow EXCEPT ![r] =
            [slot |-> dataCall[w].slot, column |-> dataCall[w].column]]
  /\ lastSet' = [lastSet EXCEPT ![dataCall[w].slot] = dataCall[w].column]
  /\ dataCall' = [dataCall EXCEPT ![w] = NoData]
  /\ UNCHANGED <<definition, options, doubled, retyped>>

\* A row that is gone, or a crash.
AbandonUpsert(w) ==
  /\ dataCall[w] # NoData
  /\ dataCall' = [dataCall EXCEPT ![w] = NoData]
  /\ UNCHANGED <<definition, options, dataRow, lastSet, doubled, retyped>>

DataNext ==
  \/ \E d \in Definition :
       \/ CreateOption(d) \/ RemoveOption(d)
       \/ \E type \in ValueType : CreateDefinition(d, type) \/ UpdateDefinition(d, type)
  \/ \E r \in DataRow : RemoveAssignment(r)
  \/ \E w \in DataClerk :
       \/ LookForRow(w) \/ WriteRow(w) \/ AbandonUpsert(w)
       \/ \E s \in Slot, column \in Column : StartUpsert(w, s, column)

DataSpec == DataInit /\ [][DataNext]_dataVars

-----------------------------------------------------------------------------
\* resolvePrice and listAssignments: the row they may answer with.
Answer(s) == {dataRow[r].column : r \in RowsOf(s)}

(* As long as no two upserts of a slot overlap, it has one row at most, and  *)
(* what resolvePrice and the attribute lists answer is what was set last;    *)
(* and an attribute's value is in the column of its definition's type unless *)
(* the type was changed.  Two overlapping upserts leave two rows, of which   *)
(* setPrice then updates one and resolvePrice may read the other.            *)
OneRowPerSlot ==
  /\ DataTypeOK
  /\ \A s \in Slot \ doubled :
       /\ Cardinality(RowsOf(s)) <= 1
       /\ Answer(s) = IF lastSet[s] = "none" THEN {} ELSE {lastSet[s]}
  /\ \A r \in DataRow :
       dataRow[r].slot \in Definition \ retyped =>
         dataRow[r].column = ColumnOf(definition[dataRow[r].slot])

=============================================================================
