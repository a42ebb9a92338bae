----------------------------- MODULE UniqueAssets -----------------------------
(***************************************************************************)
(* The assets of one stock item with unique asset tracking:                 *)
(* InventoryAssetsService, its callers in InventoryService, the handlers of *)
(* order and refund events and the administration of assets, identifier     *)
(* types and the stock item's configuration (modules/inventory).            *)
(*                                                                          *)
(* An order has one line of one asset.  resolveSaleAssetIds reads the asset *)
(* on a connection of its own, so a ...Reads action (the first reads of the *)
(* transaction) comes before the action that is its commit, whose writes    *)
(* are conditional on the rows as they then are.  An event may be handled   *)
(* again at any time; handling that finds nothing to do or that a read      *)
(* refuses changes nothing and is left out.                                 *)
(***************************************************************************)
EXTENDS Integers, FiniteSets

CONSTANTS
  Asset, Sale,
  AssetWorker,     \* calls in flight
  IdentifierType,
  SerialLike,      \* types whose code is SERIAL, SERIAL_NUMBER or IMEI
  Required,        \* types the stock item's identifier rules require
  Shown,           \* Shown[a]: types of the identifiers a is registered with
  AssetStatusSet,  \* statuses that updateAsset is called with
  MaxTouched,      \* bound on the assets that administrators and refunds interfere with
  NoAsset

ASSUME UniqueAssetsAssumption ==
  /\ SerialLike \subseteq IdentifierType /\ Required \subseteq IdentifierType
  /\ Shown \in [Asset -> SUBSET IdentifierType]
  /\ NoAsset \notin Asset
  /\ MaxTouched \in Nat
  /\ AssetStatusSet \subseteq {"AVAILABLE", "RESERVED", "SOLD", "RETURNED", "INACTIVE"}
  /\ IsFiniteSet(Asset) /\ IsFiniteSet(Sale)

VARIABLES
  assetStatus,   \* inventory_assets.status; "NONE" before the asset is registered
  serialStatus,  \* inventory_serials.status of the asset's serial; "NONE" without serial
  hold,          \* hold[s]: status of the inventory_reservations row of s
  sold,          \* orders with an OUT movement
  adjusted,      \* assets that an adjustment took out
  units,         \* inventory_items.quantity_on_hand
  heldUnits,     \* inventory_items.reserved_quantity
  wanted,        \* wanted[s]: order_items.asset_ids
  saleStage,     \* orders.status; its changes publish the order's events
  reservable,    \* stock_item_configurations.track_reservations
  archived,      \* identifier types with is_active false
  assetJob,      \* assetJob[w]: what w's call has read
  touched        \* history: assets whose status an administrator set or a refund restored

assetRows == <<assetStatus, serialStatus, hold, sold, adjusted, units, heldUnits>>
assetAdmin == <<reservable, archived>>
assetVars == <<assetRows, wanted, saleStage, assetAdmin, assetJob, touched>>

AssetState == {"NONE", "AVAILABLE", "RESERVED", "SOLD", "RETURNED", "INACTIVE"}
NoJob == [op |-> "none"]
AssetJob ==
  {NoJob} \cup [op : {"reserve"}, of : Sale, free : Int] \cup [op : {"release"}, of : Sale]
  \cup [op : {"sell"}, of : Sale, done : BOOLEAN, held : BOOLEAN]
  \cup [op : {"adjust", "retire"}, asset : Asset]

AssetTypeOK ==
  /\ assetStatus \in [Asset -> AssetState]
  /\ serialStatus \in [Asset -> {"NONE", "AVAILABLE", "SOLD"}]
  /\ hold \in [Sale -> {"NONE", "ACTIVE", "RELEASED"}]
  /\ sold \subseteq Sale
  /\ adjusted \subseteq Asset
  /\ units \in Int /\ heldUnits \in Int
  /\ wanted \in [Sale -> Asset \cup {NoAsset}]
  /\ saleStage \in [Sale -> {"none", "PENDING", "PAID", "CANCELLED", "REFUNDED"}]
  /\ reservable \in BOOLEAN
  /\ archived \subseteq IdentifierType
  /\ assetJob \in [AssetWorker -> AssetJob]
  /\ touched \subseteq Asset

AssetInit ==
  /\ assetStatus = [a \in Asset |-> "NONE"]
  /\ serialStatus = [a \in Asset |-> "NONE"]
  /\ hold = [s \in Sale |-> "NONE"]
  /\ sold = {} /\ adjusted = {}
  /\ units = 0 /\ heldUnits = 0
  /\ wanted = [s \in Sale |-> NoAsset]
  /\ saleStage = [s \in Sale |-> "none"]
  /\ reservable = TRUE
  /\ archived = {}
  /\ assetJob = [w \in AssetWorker |-> NoJob]
  /\ touched = {}

-----------------------------------------------------------------------------
(* Inbound stock and administration.                                        *)

\* normalizeAndValidateAssetInput
Acceptable(a) ==
  /\ Shown[a] # {}
  /\ Required \subseteq Shown[a]
  /\ Shown[a] \cap archived = {}

\* stockIn or a positive adjustment of one unit with its asset.
RegisterAsset(a) ==
  /\ assetStatus[a] = "NONE"
  /\ Acceptable(a)
  /\ assetStatus' = [assetStatus EXCEPT ![a] = "AVAILABLE"]
  /\ serialStatus' = IF Shown[a] \cap SerialLike = {} THEN serialStatus
                     ELSE [serialStatus EXCEPT ![a] = "AVAILABLE"]
  /\ units' = units + 1
  /\ UNCHANGED <<hold, sold, adjusted, heldUnits, wanted, saleStage, assetAdmin, assetJob, touched>>

ArchiveIdentifierType(t) ==
  /\ archived' = archived \cup {t}
  /\ UNCHANGED <<assetRows, wanted, saleStage, reservable, assetJob, touched>>

RestoreIdentifierType(t) ==
  /\ archived' = archived \ {t}
  /\ UNCHANGED <<assetRows, wanted, saleStage, reservable, assetJob, touched>>

\* trackUniqueAssets stays on: without it an order line names no asset.
UpdateConfiguration(tracks) ==
  /\ reservable' = tracks
  /\ UNCHANGED <<assetRows, wanted, saleStage, archived, assetJob, touched>>

Touch(a) ==
  /\ a \in touched \/ Cardinality(touched) < MaxTouched
  /\ touched' = touched \cup {a}

\* updateAsset and reactivateAsset write whatever the asset is used for.
SetStatus(a, status) ==
  /\ assetStatus' = [assetStatus EXCEPT ![a] = status]
  /\ Touch(a)
  /\ UNCHANGED <<serialStatus, hold, sold, adjusted, units, heldUnits, wanted, saleStage,
                 assetAdmin>>

UpdateAsset(a, status) ==
  /\ assetStatus[a] # "NONE"
  /\ SetStatus(a, status)
  /\ UNCHANGED assetJob

ReactivateAsset(a) ==
  /\ assetStatus[a] = "INACTIVE"
  /\ SetStatus(a, "AVAILABLE")
  /\ UNCHANGED assetJob

-----------------------------------------------------------------------------
(* Orders.  createWithSource checks the asset without reserving it.         *)

SaleReads(a) == a # NoAsset /\ assetStatus[a] = "AVAILABLE"   \* resolveSaleAssetIds

PlaceSale(s, a) ==
  /\ saleStage[s] = "none"
  /\ SaleReads(a)
  /\ saleStage' = [saleStage EXCEPT ![s] = "PENDING"]
  /\ wanted' = [wanted EXCEPT ![s] = a]
  /\ UNCHANGED <<assetRows, assetAdmin, assetJob, touched>>

\* A payment, a cancellation or a refund, modelled in full by OrderPayments.
ChangeSale(s) ==
  /\ \E step \in {<<"PENDING", "PAID">>, <<"PENDING", "CANCELLED">>, <<"PAID", "REFUNDED">>} :
       /\ saleStage[s] = step[1]
       /\ saleStage' = [saleStage EXCEPT ![s] = step[2]]
  /\ UNCHANGED <<assetRows, wanted, assetAdmin, assetJob, touched>>

-----------------------------------------------------------------------------
(* Calls in flight.                                                         *)

Take(w, job) ==
  /\ assetJob[w] = NoJob
  /\ assetJob' = [assetJob EXCEPT ![w] = job]
  /\ UNCHANGED <<assetRows, wanted, saleStage, assetAdmin, touched>>

Done(w) == assetJob' = [assetJob EXCEPT ![w] = NoJob]

\* A rollback, a refusal by a count that does not match, or a crash.
AbandonJob(w) ==
  /\ assetJob[w] # NoJob
  /\ Done(w)
  /\ UNCHANGED <<assetRows, wanted, saleStage, assetAdmin, touched>>

ReserveReads(w, s) ==
  /\ saleStage[s] # "none"
  /\ hold[s] = "NONE"
  /\ reservable
  /\ SaleReads(wanted[s])
  /\ Take(w, [op |-> "reserve", of |-> s, free |-> units - heldUnits])

SellReads(w, s) ==
  /\ saleStage[s] \in {"PAID", "REFUNDED"}
  /\ \/ s \notin sold /\ SaleReads(wanted[s])
     \/ s \in sold /\ hold[s] = "ACTIVE"
  /\ Take(w, [op |-> "sell", of |-> s, done |-> s \in sold, held |-> hold[s] = "ACTIVE"])

ReleaseReads(w, s) ==
  /\ saleStage[s] = "CANCELLED"
  /\ hold[s] = "ACTIVE"
  /\ Take(w, [op |-> "release", of |-> s])

AdjustReads(w, a) ==
  /\ SaleReads(a)
  /\ Take(w, [op |-> "adjust", asset |-> a])

RetireReads(w, a) ==
  /\ assetStatus[a] \notin {"NONE", "SOLD"}
  /\ Take(w, [op |-> "retire", asset |-> a])

-----------------------------------------------------------------------------
(* What the calls commit.                                                   *)

\* Mutant: reserveAssets without the condition on the status.
ReserveWhatever(a) == TRUE

MayReserveAsset(a) == assetStatus[a] = "AVAILABLE"

\* Mutant: markAssetsSold without the condition on the status.
SellWhatever(a) == TRUE

MaySellAsset(a) == assetStatus[a] \in {"AVAILABLE", "RESERVED"}

ReserveAssets(w) ==
  LET s == assetJob[w].of IN
  /\ assetJob[w].op = "reserve"
  /\ hold[s] = "NONE"
  /\ assetJob[w].free >= 1 /\ units - heldUnits >= 1
  /\ MayReserveAsset(wanted[s])
  /\ hold' = [hold EXCEPT ![s] = "ACTIVE"]
  /\ heldUnits' = heldUnits + 1
  /\ assetStatus' = [assetStatus EXCEPT ![wanted[s]] = "RESERVED"]
  /\ Done(w)
  /\ UNCHANGED <<serialStatus, sold, adjusted, units, wanted, saleStage, assetAdmin, touched>>

\* serials of sold assets: AVAILABLE becomes SOLD
SerialSold(a) ==
  IF serialStatus[a] = "AVAILABLE" THEN [serialStatus EXCEPT ![a] = "SOLD"] ELSE serialStatus

Freed(a) == IF assetStatus[a] = "RESERVED" THEN [assetStatus EXCEPT ![a] = "AVAILABLE"]
            ELSE assetStatus

\* The hold ends with the sale only if the transaction's first read saw it ACTIVE.
MarkAssetsSold(w) ==
  LET s == assetJob[w].of
      a == wanted[s] IN
  /\ assetJob[w].op = "sell"
  /\ \/ /\ ~assetJob[w].done
        /\ s \notin sold
        /\ units >= 1
        /\ MaySellAsset(a)
        /\ sold' = sold \cup {s}
        /\ units' = units - 1
        /\ assetStatus' = [assetStatus EXCEPT ![a] = "SOLD"]
        /\ serialStatus' = SerialSold(a)
     \/ /\ assetJob[w].done
        /\ assetStatus' = Freed(a)
        /\ UNCHANGED <<sold, units, serialStatus>>
  /\ \/ /\ assetJob[w].held
        /\ hold[s] = "ACTIVE"
        /\ hold' = [hold EXCEPT ![s] = "RELEASED"]
        /\ heldUnits' = heldUnits - 1
     \/ /\ ~assetJob[w].held
        /\ UNCHANGED <<hold, heldUnits>>
  /\ Done(w)
  /\ UNCHANGED <<adjusted, wanted, saleStage, assetAdmin, touched>>

ReleaseReservedAssets(w) ==
  LET s == assetJob[w].of IN
  /\ assetJob[w].op = "release"
  /\ hold[s] = "ACTIVE"
  /\ hold' = [hold EXCEPT ![s] = "RELEASED"]
  /\ heldUnits' = heldUnits - 1
  /\ assetStatus' = Freed(wanted[s])
  /\ Done(w)
  /\ UNCHANGED <<serialStatus, sold, adjusted, units, wanted, saleStage, assetAdmin, touched>>

AdjustOut(w) ==
  LET a == assetJob[w].asset IN
  /\ assetJob[w].op = "adjust"
  /\ units >= 1
  /\ MaySellAsset(a)
  /\ adjusted' = adjusted \cup {a}
  /\ units' = units - 1
  /\ assetStatus' = [assetStatus EXCEPT ![a] = "SOLD"]
  /\ serialStatus' = SerialSold(a)
  /\ Done(w)
  /\ UNCHANGED <<hold, sold, heldUnits, wanted, saleStage, assetAdmin, touched>>

\* The status is written whatever it is by now.
RetireAsset(w) ==
  /\ assetJob[w].op = "retire"
  /\ SetStatus(assetJob[w].asset, "INACTIVE")
  /\ Done(w)

\* restockOrderItemFromRefund restores the asset in a transaction of its own; the stockIn
\* that follows gives no assets, and validateReceiptAssets always refuses it.
RestoreAssets(s) ==
  LET a == wanted[s] IN
  /\ saleStage[s] = "REFUNDED"
  /\ assetStatus[a] \in {"SOLD", "RESERVED"}
  /\ assetStatus' = [assetStatus EXCEPT ![a] = "AVAILABLE"]
  /\ serialStatus' = IF serialStatus[a] = "SOLD" THEN [serialStatus EXCEPT ![a] = "AVAILABLE"]
                     ELSE serialStatus
  /\ Touch(a)
  /\ UNCHANGED <<hold, sold, adjusted, units, heldUnits, wanted, saleStage, assetAdmin, assetJob>>

-----------------------------------------------------------------------------
AssetNext ==
  \/ \E a \in Asset : RegisterAsset(a) \/ ReactivateAsset(a)
  \/ \E a \in Asset, status \in AssetStatusSet : UpdateAsset(a, status)
  \/ \E t \in IdentifierType : ArchiveIdentifierType(t) \/ RestoreIdentifierType(t)
  \/ \E tracks \in BOOLEAN : UpdateConfiguration(tracks)
  \/ \E s \in Sale : ChangeSale(s) \/ RestoreAssets(s) \/ \E a \in Asset : PlaceSale(s, a)
  \/ \E w \in AssetWorker, s \in Sale :
       ReserveReads(w, s) \/ SellReads(w, s) \/ ReleaseReads(w, s)
  \/ \E w \in AssetWorker, a \in Asset : AdjustReads(w, a) \/ RetireReads(w, a)
  \/ \E w \in AssetWorker :
       \/ ReserveAssets(w) \/ MarkAssetsSold(w) \/ ReleaseReservedAssets(w)
       \/ AdjustOut(w) \/ RetireAsset(w) \/ AbandonJob(w)

AssetSpec == AssetInit /\ [][AssetNext]_assetVars

-----------------------------------------------------------------------------
Holds == {s \in Sale : hold[s] = "ACTIVE"}
HeldBy(a) == {s \in Holds : wanted[s] = a}
SoldBy(a) == {s \in sold : wanted[s] = a}

(* As long as no administrator and no refund has set its status, an asset is *)
(* reserved for at most one order, leaves by at most one sale or adjustment, *)
(* is SOLD (and its serial with it) exactly when it has left, and RESERVED   *)
(* only while an active reservation holds it: reserveAssets, markAssetsSold  *)
(* and the handlers that may run twice and at once.                          *)
PromisedOnce ==
  \A a \in Asset \ touched :
    /\ Cardinality(HeldBy(a)) <= 1
    /\ Cardinality(SoldBy(a)) <= 1
    /\ a \in adjusted => SoldBy(a) = {}
    /\ assetStatus[a] = "SOLD" <=> (a \in adjusted \/ SoldBy(a) # {})
    /\ assetStatus[a] = "RESERVED" => HeldBy(a) # {}
    /\ HeldBy(a) # {} => assetStatus[a] \in {"RESERVED", "SOLD"}
    /\ serialStatus[a] # "NONE" => (serialStatus[a] = "SOLD" <=> assetStatus[a] = "SOLD")

(* The summary row counts what the assets say: reserved units are the active *)
(* reservations, and as long as no status was set from outside, the units on *)
(* hand are the assets that have not been sold.                              *)
AssetsMatchStock ==
  /\ heldUnits = Cardinality(Holds)
  /\ touched = {} =>
       units = Cardinality({a \in Asset : assetStatus[a] \in {"AVAILABLE", "RESERVED"}})

(* The deduction of a paid order accepts the asset that the order's own      *)
(* reservation holds: markAssetsSold takes RESERVED assets, and its audit    *)
(* entry says that what it sold was RESERVED.                                *)
ReservedIsSaleable ==
  \A s \in Holds :
    saleStage[s] = "PAID" /\ s \notin sold /\ wanted[s] \notin touched => SaleReads(wanted[s])

\* What UniqueAssets is about: no unit for two sales, and as many units as stock,
\* all within their types.
UnitsAreAccounted == AssetTypeOK /\ PromisedOnce /\ AssetsMatchStock
=============================================================================
