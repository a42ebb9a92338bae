----------------------------- MODULE StockItemSetup -----------------------------
(***************************************************************************)
(* How one stock item is set up and what its lines make of it: the options, *)
(* units, conversions and identifier rules of InventoryAdminService,        *)
(* UnitsService and StockItemConfigurationService, and the unit that        *)
(* InventoryIdentityResolverService converts (modules/inventory).           *)
(*                                                                          *)
(* An update of the configuration writes two rows in two statements.  A     *)
(* line of an order or of a goods receipt is checked and converted when it  *)
(* is accepted, and again by the handler of its event that moves the stock: *)
(* the setup may have changed in between.                                   *)
(***************************************************************************)
EXTENDS Integers, FiniteSets

CONSTANTS
  Unit,
  FactorsOf,     \* FactorsOf[u]: conversions to the base unit that u is assigned with
  Patch,         \* inputs of updateStockItemConfiguration
  RuleInput,     \* least and largest number of identifiers that a rule is called with
  SetupClerk,    \* administrators' calls in flight
  SetupLine,     \* lines of orders and goods receipts, numbered as they are accepted
  PaperSet,      \* what a line may name besides its quantity: sets of batch, expiry, assets
  Serialized,    \* products.is_serialized
  Null,          \* NULL
  MaxSetup       \* bound on the changes of the setup

\* Of the options these decide whether a line is accepted; the others are stored alike.
Option == {"trackBatches", "trackExpiry", "trackUniqueAssets", "allowUnitConversions"}
Mode == {"SIMPLE", "BATCH", "ASSET"}
OptionsGiven == UNION {[S -> BOOLEAN] : S \in SUBSET Option}   \* what a call says of the options

ASSUME StockItemSetupAssumption ==
  /\ FactorsOf \in [Unit -> SUBSET (Nat \ {0})]
  /\ \A r \in RuleInput : r.min \in Int /\ (r.max = Null \/ r.max \in Int)
  /\ Serialized \in BOOLEAN /\ PaperSet \subseteq SUBSET {"batch", "expiry", "assets"}
  /\ Patch \subseteq [options : OptionsGiven, mode : Mode \cup {Null}, keepsBase : BOOLEAN,
                     base : Unit \cup {Null}]
  /\ Null \notin Unit /\ Null \notin BOOLEAN /\ Null \notin [Option -> BOOLEAN]
  /\ SetupLine \subseteq Nat
  /\ MaxSetup \in Nat

VARIABLES
  itemRow,       \* tracking_mode and base_unit_id of the stock item
  sellable,      \* products.is_active
  optionRow,     \* the row of stock_item_configurations, or Null
  factor,        \* factor[u]: conversion_to_base of its stock_item_units row; 0 without one
  conversions,   \* pairs of units with a row of stock_item_unit_conversions
  kindActive,    \* is_active of the identifier type
  rule,          \* the stock item's rule for the identifier type, or Null
  setupCall,     \* setupCall[w]: what w has still to write
  setupLine,     \* setupLine[l]: the line
  onHand,        \* quantity_on_hand, in the base unit
  assetsHere,    \* assets that are here
  changes,       \* number of changes of the setup
  named,         \* history: named[o]: the value that the last call naming o wrote
  alone,         \* history: a call named one of expiry and batches without the other
  blurred        \* history: assets were switched on or off, or a line in a larger unit had some

setupRows == <<itemRow, sellable, optionRow, factor, conversions, kindActive, rule>>
lineRows == <<setupLine, onHand, assetsHere, blurred>>
setupVars == <<setupRows, lineRows, setupCall, changes, named, alone>>

NoSetupCall == [op |-> "none"]
NoSetupLine == [stage |-> "none"]

SetupTypeOK ==
  /\ itemRow \in [mode : Mode, base : Unit \cup {Null}]
  /\ sellable \in BOOLEAN
  /\ optionRow \in [Option -> BOOLEAN] \cup {Null}
  /\ \A u \in Unit : factor[u] \in FactorsOf[u] \cup {0}
  /\ conversions \subseteq Unit \X Unit
  /\ kindActive \in BOOLEAN
  /\ rule \in RuleInput \cup {Null}
  /\ setupCall \in [SetupClerk -> {NoSetupCall} \cup [op : {"options"}, given : Patch]
                                  \cup [op : {"rule"}, given : RuleInput]]
  /\ \A l \in SetupLine : setupLine[l].stage \in {"none", "open", "moved"}
  /\ onHand \in Nat /\ assetsHere \in Int
  /\ changes \in 0..MaxSetup

SetupInit ==
  /\ itemRow = [mode |-> IF Serialized THEN "ASSET" ELSE "SIMPLE", base |-> Null]
  /\ sellable = TRUE
  /\ optionRow = Null
  /\ factor = [u \in Unit |-> 0]
  /\ conversions = {}
  /\ kindActive = TRUE /\ rule = Null
  /\ setupCall = [w \in SetupClerk |-> NoSetupCall]
  /\ setupLine = [l \in SetupLine |-> NoSetupLine]
  /\ onHand = 0 /\ assetsHere = 0
  /\ changes = 0
  /\ named = [o \in Option |-> Null] /\ alone = FALSE /\ blurred = FALSE

-----------------------------------------------------------------------------
\* getEffectiveConfiguration: without a row the tracking mode and the product decide.
Effective(o) ==
  IF optionRow # Null THEN optionRow[o]
  ELSE CASE o = "trackBatches" -> itemRow.mode = "BATCH"
         [] o = "trackUniqueAssets" -> itemRow.mode = "ASSET" \/ Serialized
         [] OTHER -> FALSE

\* Lines that are waiting were accepted under another setup.
Outdated ==
  [l \in SetupLine |-> IF setupLine[l].stage = "open" THEN [setupLine[l] EXCEPT !.fresh = FALSE]
                       ELSE setupLine[l]]

\* Every change of the setup; blurred: it could switch the assets.
Change(switches) ==
  /\ changes < MaxSetup
  /\ changes' = changes + 1
  /\ setupLine' = Outdated
  /\ blurred' = (blurred \/ switches)
  /\ UNCHANGED <<onHand, assetsHere>>

-----------------------------------------------------------------------------
(* Administration.                                                          *)

\* 'Expiry tracking requires batch tracking' looks at what the call names only.
Refused(given) ==
  /\ "trackExpiry" \in DOMAIN given /\ given["trackExpiry"]
  /\ "trackBatches" \in DOMAIN given /\ ~given["trackBatches"]

\* updateStockItemConfiguration, its first write: stock_items.
WriteStockItem(w, patch) ==
  /\ setupCall[w] = NoSetupCall
  /\ ~Refused(patch.options)
  /\ itemRow' = [mode |-> IF patch.mode = Null THEN itemRow.mode ELSE patch.mode,
                 base |-> IF patch.keepsBase THEN itemRow.base ELSE patch.base]
  /\ setupCall' = [setupCall EXCEPT ![w] = [op |-> "options", given |-> patch]]
  /\ Change(patch.mode # Null)
  /\ UNCHANGED <<sellable, optionRow, factor, conversions, kindActive, rule, named, alone>>

\* Mutant: the update writes a default for what the call does not name, as the create does.
UpsertedAnew(given, old) == [o \in Option |-> IF o \in DOMAIN given THEN given[o] ELSE FALSE]

\* The row that the upsert leaves: it creates with defaults and updates what is named.
Upserted(given, old) ==
  [o \in Option |-> IF o \in DOMAIN given THEN given[o] ELSE IF old = Null THEN FALSE ELSE old[o]]

\* and its second: stock_item_configurations.
WriteOptions(w) ==
  LET given == setupCall[w].given.options IN
  /\ setupCall[w].op = "options"
  /\ optionRow' = Upserted(given, optionRow)
  /\ named' = [o \in Option |-> IF o \in DOMAIN given THEN given[o] ELSE named[o]]
  /\ alone' = (alone \/ Cardinality(DOMAIN given \cap {"trackExpiry", "trackBatches"}) = 1)
  /\ setupCall' = [setupCall EXCEPT ![w] = NoSetupCall]
  /\ setupLine' = Outdated
  /\ blurred' = (blurred \/ optionRow'["trackUniqueAssets"] # Effective("trackUniqueAssets"))
  /\ UNCHANGED <<itemRow, sellable, factor, conversions, kindActive, rule, onHand, assetsHere, changes>>

\* assignUnit only creates; the unique key refuses a unit that is assigned.
AssignUnit(u, f) ==
  /\ factor[u] = 0
  /\ f > 0
  /\ factor' = [factor EXCEPT ![u] = f]
  /\ Change(FALSE)
  /\ UNCHANGED <<itemRow, sellable, optionRow, conversions, kindActive, rule, setupCall, named, alone>>

\* addConversion: units are never taken from a stock item, so the check holds when it writes.
AddConversion(u, v) ==
  /\ u # v
  /\ factor[u] > 0 /\ factor[v] > 0
  /\ conversions' = conversions \cup {<<u, v>>}
  /\ Change(FALSE)
  /\ UNCHANGED <<itemRow, sellable, optionRow, factor, kindActive, rule, setupCall, named, alone>>

\* upsertStockItemIdentifierRule reads the type, and then writes both counts.
RuleReads(w, r) ==
  /\ setupCall[w] = NoSetupCall
  /\ kindActive
  /\ r.min >= 0
  /\ r.max # Null => r.max >= r.min
  /\ setupCall' = [setupCall EXCEPT ![w] = [op |-> "rule", given |-> r]]
  /\ Change(FALSE)
  /\ UNCHANGED <<setupRows, named, alone>>

RuleWrites(w) ==
  /\ setupCall[w].op = "rule"
  /\ rule' = setupCall[w].given
  /\ setupCall' = [setupCall EXCEPT ![w] = NoSetupCall]
  /\ UNCHANGED <<itemRow, sellable, optionRow, factor, conversions, kindActive, lineRows, changes,
                 named, alone>>

RemoveRule ==
  /\ rule # Null
  /\ rule' = Null
  /\ Change(FALSE)
  /\ UNCHANGED <<itemRow, sellable, optionRow, factor, conversions, kindActive, setupCall, named, alone>>

\* archiveIdentifierType and restoreIdentifierType
SetKindActive(active) ==
  /\ kindActive' = active
  /\ Change(FALSE)
  /\ UNCHANGED <<itemRow, sellable, optionRow, factor, conversions, rule, setupCall, named, alone>>

\* The product is deactivated or activated.
SetSellable(active) ==
  /\ sellable' = active
  /\ Change(FALSE)
  /\ UNCHANGED <<itemRow, optionRow, factor, conversions, kindActive, rule, setupCall, named, alone>>

\* A crash or an error between the two writes of a call.
StopSetup(w) ==
  /\ setupCall[w] # NoSetupCall
  /\ setupCall' = [setupCall EXCEPT ![w] = NoSetupCall]
  /\ UNCHANGED <<setupRows, lineRows, changes, named, alone>>

-----------------------------------------------------------------------------
(* Lines.                                                                   *)

\* resolveUnit, and the base quantity that resolveForWrite makes of it
Resolves(u) == sellable /\ (u # Null => factor[u] > 0)
BaseQuantity(u, quantity) == IF u = Null THEN quantity ELSE quantity * factor[u]

\* assertUnitConfiguration
UnitAllowed(u) ==
  u = Null \/ Effective("allowUnitConversions") \/ itemRow.base = Null \/ u = itemRow.base

\* assertReceiptConfiguration
ReceiptAllowed(u, papers) ==
  /\ UnitAllowed(u)
  /\ Effective("trackBatches") => "batch" \in papers
  /\ Effective("trackExpiry") => "expiry" \in papers

\* resolveSaleAssetIds and validateReceiptAssets: the line names one asset for each of its units.
AssetsGiven(papers) == Effective("trackUniqueAssets") => "assets" \in papers

IsNewLine(l) ==
  setupLine[l].stage = "none" /\ \A k \in SetupLine : k < l => setupLine[k].stage # "none"

Accepted(kind, u, quantity, papers) ==
  [stage |-> "open", kind |-> kind, unit |-> u, quantity |-> quantity,
   base |-> BaseQuantity(u, quantity), papers |-> papers, fresh |-> TRUE]

\* An order is accepted: assertSalesConfiguration.
AcceptOrder(l, u, quantity, papers) ==
  /\ IsNewLine(l)
  /\ Resolves(u) /\ UnitAllowed(u) /\ AssetsGiven(papers)
  /\ setupLine' = [setupLine EXCEPT ![l] = Accepted("order", u, quantity, papers)]
  /\ UNCHANGED <<setupRows, setupCall, onHand, assetsHere, blurred, changes, named, alone>>

\* A goods receipt is booked, without a look at its assets.
AcceptReceipt(l, u, quantity, papers) ==
  /\ IsNewLine(l)
  /\ Resolves(u) /\ ReceiptAllowed(u, papers)
  /\ setupLine' = [setupLine EXCEPT ![l] = Accepted("receipt", u, quantity, papers)]
  /\ UNCHANGED <<setupRows, setupCall, onHand, assetsHere, blurred, changes, named, alone>>

\* getAvailability in a unit covers a quantity; orders hold nothing back here.
AvailabilityCovers(u, quantity) ==
  IF u = Null THEN quantity <= onHand ELSE quantity * factor[u] <= onHand

\* assertInboundConfiguration; stockIn and stockOut resolve the line anew.
MayStockIn(line) ==
  Resolves(line.unit) /\ ReceiptAllowed(line.unit, line.papers) /\ AssetsGiven(line.papers)
MayStockOut(line) ==
  Resolves(line.unit) /\ AssetsGiven(line.papers) /\ BaseQuantity(line.unit, line.quantity) <= onHand

AssetsMoved(line) == IF Effective("trackUniqueAssets") THEN line.quantity ELSE 0

\* The handlers of purchase.received and order.paid.
MoveLine(l) ==
  LET line == setupLine[l]
      base == BaseQuantity(line.unit, line.quantity)
      sign == IF line.kind = "receipt" THEN 1 ELSE -1 IN
  /\ line.stage = "open"
  /\ IF line.kind = "receipt" THEN MayStockIn(line) ELSE MayStockOut(line)
  /\ onHand' = onHand + sign * base
  /\ assetsHere' = assetsHere + sign * AssetsMoved(line)
  /\ blurred' = (blurred \/ base # line.quantity)
  /\ setupLine' = [setupLine EXCEPT ![l] = [stage |-> "moved", base |-> line.base, moved |-> base]]
  /\ UNCHANGED <<setupRows, setupCall, changes, named, alone>>

-----------------------------------------------------------------------------
SetupNext ==
  \/ \E w \in SetupClerk :
       \/ WriteOptions(w) \/ RuleWrites(w) \/ StopSetup(w)
       \/ \E patch \in Patch : WriteStockItem(w, patch)
       \/ \E r \in RuleInput : RuleReads(w, r)
  \/ \E u \in Unit : \E f \in FactorsOf[u] : AssignUnit(u, f)
  \/ \E u, v \in Unit : AddConversion(u, v)
  \/ RemoveRule
  \/ \E active \in BOOLEAN : SetKindActive(active) \/ SetSellable(active)
  \/ \E l \in SetupLine, u \in Unit \cup {Null} :
       \/ \E papers \in PaperSet \cap SUBSET {"assets"} : AcceptOrder(l, u, 1, papers)
       \/ \E papers \in PaperSet : AcceptReceipt(l, u, 1, papers)
  \/ \E l \in SetupLine : MoveLine(l)

SetupSpec == SetupInit /\ [][SetupNext]_setupVars

-----------------------------------------------------------------------------
(* However updates of the configuration overlap or break off, an option has  *)
(* the value of the last call that named it, and one that no call named is   *)
(* off; expiry is tracked without batches only after a call that named one   *)
(* of them alone ('Expiry tracking requires batch tracking').                *)
OptionsKeep ==
  optionRow # Null =>
    /\ \A o \in Option : optionRow[o] = (named[o] = TRUE)
    /\ ~alone => (optionRow["trackExpiry"] => optionRow["trackBatches"])

(* A conversion joins two units of the stock item, and some number of        *)
(* identifiers satisfies its rule.                                           *)
UnitsAndRulesFit ==
  /\ \A c \in conversions : c[1] # c[2] /\ factor[c[1]] > 0 /\ factor[c[2]] > 0
  /\ rule # Null => rule.min >= 0 /\ (rule.max # Null => rule.min <= rule.max)

(* The handler of the event moves the base quantity that the line was        *)
(* accepted with, and what was accepted can be moved: unless the setup has   *)
(* changed since, nothing refuses an order that availability in its unit     *)
(* covers, nor a goods receipt, but one that names no assets although they   *)
(* are tracked.                                                              *)
AcceptedCanMove ==
  \A l \in SetupLine :
    LET line == setupLine[l] IN
    /\ line.stage = "moved" => line.moved = line.base
    /\ line.stage = "open" =>
         /\ line.base = BaseQuantity(line.unit, line.quantity)
         /\ line.fresh /\ line.kind = "order" =>
              (MayStockOut(line) <=> AvailabilityCovers(line.unit, line.quantity))
         /\ line.fresh /\ line.kind = "receipt" =>
              (MayStockIn(line) <=> AssetsGiven(line.papers))

(* As long as assets were never switched on or off and no line of a larger   *)
(* unit was moved, which names one asset for several base units, there are   *)
(* as many assets as units on hand.                                          *)
AssetsMatchUnits ==
  ~blurred => assetsHere = IF Effective("trackUniqueAssets") THEN onHand ELSE 0

\* What StockItemSetup is about, within its types.
SetupIsSound ==
  SetupTypeOK /\ OptionsKeep /\ UnitsAndRulesFit /\ AcceptedCanMove /\ AssetsMatchUnits
=================================================================================
