------------------------------- MODULE Catalogue -------------------------------
(***************************************************************************)
(* A product, its variants and their stock items: ProductService,           *)
(* StockItemsService, InventoryAdminService.provisionStockItem, and the     *)
(* identity that InventoryIdentityResolverService finds for an order line   *)
(* (modules/product, modules/inventory).                                    *)
(*                                                                          *)
(* The services write the product, the variant and the stock item one after *)
(* the other, each write a transaction of its own.  A call is the sequence  *)
(* of the steps it has still to do; a crash may end it anywhere.            *)
(***************************************************************************)
EXTENDS Integers, Sequences, SequencesExt

CONSTANTS
  Variant, Base,   \* Base stands for variant_id NULL, the product without variant
  CatalogueLine,   \* order lines
  Admin,           \* calls in flight
  MaxItems         \* bound on the stock items that are created

ASSUME CatalogueAssumption == Base \notin Variant /\ IsFiniteSet(Variant) /\ MaxItems \in Nat

Owner == Variant \cup {Base}

VARIABLES
  product,      \* the row of products
  known,        \* rows of product_variants
  live,         \* those with is_active
  gone,         \* those with deleted_at
  items,        \* stock_items in the order of their creation
  catLine,      \* catLine[l]: order_items.variant_id and the position of its stock item; 0: NULL
  adminCall,    \* the steps each call has still to do
  disturbed     \* history: calls or orders of an owner overlapped, a call broke off, tracking was switched,
                \* or a stock item was asked for that nothing tracks or nobody can order

variants == <<known, live, gone>>
catVars == <<product, variants, items, catLine, adminCall, disturbed>>

NoLine == [variant |-> Base, item |-> -1]
StockItem == [owner : Owner, active : BOOLEAN, tracks : BOOLEAN]
Step == [do : {"find", "create", "wake", "activate", "deactivate", "delete"}, of : Owner,
         tracks : BOOLEAN]

CatalogueTypeOK ==
  /\ product \in [exists : BOOLEAN, active : BOOLEAN, tracked : BOOLEAN]
  /\ live \subseteq known /\ gone \subseteq known /\ known \subseteq Variant
  /\ items \in Seq(StockItem)
  /\ catLine \in [CatalogueLine -> [variant : Owner, item : -1..MaxItems]]
  /\ adminCall \in [Admin -> Seq(Step)]
  /\ disturbed \in BOOLEAN

CatalogueInit ==
  /\ product = [exists |-> FALSE, active |-> FALSE, tracked |-> FALSE]
  /\ known = {} /\ live = {} /\ gone = {}
  /\ items = <<>>
  /\ catLine = [l \in CatalogueLine |-> NoLine]
  /\ adminCall = [w \in Admin |-> <<>>]
  /\ disturbed = FALSE

-----------------------------------------------------------------------------
\* Calls on the rows of an owner are in flight.
Busy(owners) == \E w \in Admin : \E i \in DOMAIN adminCall[w] : adminCall[w][i].of \in owners

Do(step, owner, tracks) == [do |-> step, of |-> owner, tracks |-> tracks]

\* getOrCreateFromProduct for each owner in turn
FindEach(owners, tracks) == [i \in DOMAIN owners |-> Do("find", owners[i], tracks)]

Start(w, steps) ==
  /\ adminCall[w] = <<>>
  /\ adminCall' = [adminCall EXCEPT ![w] = steps]
  /\ disturbed' = (disturbed \/ Busy({steps[i].of : i \in DOMAIN steps}))

Provision(w, owner) ==
  /\ product.exists
  /\ owner \in known \cup {Base}
  /\ adminCall[w] = <<>>
  /\ adminCall' = [adminCall EXCEPT ![w] = FindEach(<<owner>>, product.tracked)]
  /\ disturbed' = (disturbed \/ Busy({owner}) \/ ~product.tracked \/ owner \notin live \cup {Base})
  /\ UNCHANGED <<product, variants, items, catLine>>

CreateProduct(w, tracked, vs) ==
  /\ ~product.exists
  /\ product' = [exists |-> TRUE, active |-> TRUE, tracked |-> tracked]
  /\ known' = vs /\ live' = vs
  /\ Start(w, IF tracked THEN FindEach(<<Base>> \o SetToSeq(vs), TRUE) ELSE <<>>)
  /\ UNCHANGED <<gone, items, catLine>>

\* update and deactivate of a product
UpdateProduct(active, tracked) ==
  /\ product.exists
  /\ product' = [product EXCEPT !.active = active, !.tracked = tracked]
  /\ disturbed' = (disturbed \/ tracked # product.tracked)
  /\ UNCHANGED <<variants, items, catLine, adminCall>>

CreateVariant(w, v) ==
  /\ product.exists /\ v \notin known
  /\ known' = known \cup {v} /\ live' = live \cup {v}
  /\ Start(w, IF product.tracked THEN FindEach(<<v>>, TRUE) ELSE <<>>)
  /\ UNCHANGED <<product, gone, items, catLine>>

\* Mutant: deactivateVariant leaves the stock items alone.
NotSwitched(v, on) == items

\* stockItem.updateMany
Switched(v, on) ==
  [i \in DOMAIN items |-> IF items[i].owner = v THEN [items[i] EXCEPT !.active = on] ELSE items[i]]

DeactivateVariant(w, v) ==
  /\ v \in live \ gone
  /\ items' = Switched(v, FALSE)
  /\ Start(w, <<Do("deactivate", v, FALSE)>>)
  /\ UNCHANGED <<product, variants, catLine>>

DeleteVariant(w, v) ==
  /\ v \in known \ gone
  /\ items' = Switched(v, FALSE)
  /\ Start(w, <<Do("delete", v, FALSE)>>)
  /\ UNCHANGED <<product, variants, catLine>>

ReactivateVariant(w, v) ==
  /\ v \in known \ gone
  /\ Start(w, <<Do("activate", v, FALSE)>> \o
              IF product.tracked THEN <<Do("find", v, TRUE), Do("wake", v, TRUE)>> ELSE <<>>)
  /\ UNCHANGED <<product, variants, items, catLine>>

-----------------------------------------------------------------------------
(* The steps of the calls.                                                  *)

At(w, step) == adminCall[w] # <<>> /\ Head(adminCall[w]).do = step

Proceed(w) == adminCall' = [adminCall EXCEPT ![w] = Tail(@)]

\* productVariant.update: by its id, whatever has been written since it was read.
UpdateVariantRow(w) ==
  LET v == Head(adminCall[w]).of IN
  /\ At(w, "activate") \/ At(w, "deactivate") \/ At(w, "delete")
  /\ live' = IF At(w, "activate") THEN live \cup {v} ELSE live \ {v}
  /\ gone' = IF At(w, "delete") THEN gone \cup {v} ELSE gone
  /\ Proceed(w)
  /\ UNCHANGED <<product, known, items, catLine, disturbed>>

ItemsOf(owner) == {i \in DOMAIN items : items[i].owner = owner}

FindStockItem(w) ==
  /\ At(w, "find")
  /\ IF ItemsOf(Head(adminCall[w]).of) # {} THEN Proceed(w)
     ELSE adminCall' = [adminCall EXCEPT ![w][1].do = "create"]
  /\ UNCHANGED <<product, variants, items, catLine, disturbed>>

\* The unique key of product and variant does not hold for NULL.
CreateStockItem(w) ==
  LET step == Head(adminCall[w]) IN
  /\ At(w, "create")
  /\ step.of = Base \/ ItemsOf(step.of) = {}
  /\ Len(items) < MaxItems
  /\ items' = Append(items, [owner |-> step.of, active |-> TRUE, tracks |-> step.tracks])
  /\ Proceed(w)
  /\ UNCHANGED <<product, variants, catLine, disturbed>>

WakeItems(w) ==
  /\ At(w, "wake")
  /\ items' = Switched(Head(adminCall[w]).of, TRUE)
  /\ Proceed(w)
  /\ UNCHANGED <<product, variants, catLine, disturbed>>

\* A refused create, or a crash.
BreakOff(w) ==
  /\ adminCall[w] # <<>>
  /\ adminCall' = [adminCall EXCEPT ![w] = <<>>]
  /\ disturbed' = TRUE
  /\ UNCHANGED <<product, variants, items, catLine>>

-----------------------------------------------------------------------------
Usable(i) == items[i].active /\ items[i].tracks

\* Mutant: any stock item of the product will do.
FoundAny(v) == {i \in DOMAIN items : Usable(i)} \cup {0}

\* resolveStockItem without a stock item: what it may answer; 0 when there is none.
Found(v) ==
  LET own == {i \in ItemsOf(v) : Usable(i)}
      base == {i \in ItemsOf(Base) : Usable(i)} IN
  IF own # {} THEN own ELSE IF base # {} THEN base ELSE {0}

\* buildLineItem: the variant is active, deleted or not.
PlaceLine(l, v) ==
  /\ catLine[l] = NoLine
  /\ product.active
  /\ v \in live \cup {Base}
  /\ \E i \in Found(v) : catLine' = [catLine EXCEPT ![l] = [variant |-> v, item |-> i]]
  /\ disturbed' = (disturbed \/ Busy({v, Base}))
  /\ UNCHANGED <<product, variants, items, adminCall>>

-----------------------------------------------------------------------------
CatalogueNext ==
  \/ \E w \in Admin, tracked \in BOOLEAN, vs \in SUBSET Variant : CreateProduct(w, tracked, vs)
  \/ \E active, tracked \in BOOLEAN : UpdateProduct(active, tracked)
  \/ \E w \in Admin, owner \in Owner : Provision(w, owner)
  \/ \E w \in Admin, v \in Variant :
       CreateVariant(w, v) \/ DeactivateVariant(w, v) \/ DeleteVariant(w, v) \/ ReactivateVariant(w, v)
  \/ \E w \in Admin :
       UpdateVariantRow(w) \/ FindStockItem(w) \/ CreateStockItem(w) \/ WakeItems(w) \/ BreakOff(w)
  \/ \E l \in CatalogueLine, v \in Owner : PlaceLine(l, v)

CatalogueSpec == CatalogueInit /\ [][CatalogueNext]_catVars

-----------------------------------------------------------------------------
(* resolveForWrite accepts a line again, when its order is paid, only if the *)
(* line's stock item belongs to the line's variant ('Stock item does not     *)
(* belong to the provided variant').  What buildLineItem resolves does, and  *)
(* active stock items belong to variants that are active, as long as calls   *)
(* and orders do not overlap on a variant, none breaks off, the tracking of the product   *)
(* is not switched and no stock item is provisioned for an inactive variant  *)
(* or an untracked product: the variant is written before its stock item,    *)
(* and without one the line gets the product's own.                          *)
LineKeepsIdentity ==
  /\ CatalogueTypeOK
  /\ ~disturbed =>
       /\ product.tracked => \A l \in CatalogueLine :
            catLine[l] # NoLine => catLine[l].item > 0 /\ items[catLine[l].item].owner = catLine[l].variant
       /\ \A i \in DOMAIN items :
            items[i].active /\ ~Busy({items[i].owner}) => items[i].owner \in (live \ gone) \cup {Base}

=============================================================================
