------------------------------ MODULE StoreCatalog ------------------------------
(***************************************************************************)
(* The public catalogue of the store: StoreCatalogService with the price    *)
(* that PricingService resolves and the scan that BarcodeRegistryService    *)
(* resolves, up to the line that StoreCartService accepts                   *)
(* (modules/storefront, modules/pricing, modules/inventory).                *)
(*                                                                          *)
(* A visit is one call after the other.  A call reads its rows, then a      *)
(* price for each of them, in statements of their own; the next page is a   *)
(* new call that reads everything again.  Administrators edit in between.   *)
(***************************************************************************)
EXTENDS Integers, FiniteSets, SequencesExt

CONSTANTS
  Product, Variant, StockEntry,
  VariantOf,     \* VariantOf[v]: the product of variant v
  SoldAs,        \* SoldAs[i]: the variant of stock item i, or the product if it has none
  Tracked,       \* stock items with track_inventory
  CreatedAt,     \* CreatedAt[p]: products.created_at
  GroupsOf,      \* GroupsOf[p]: the categories p is assigned to
  Category,      \* the categories
  NameOf,        \* NameOf[g]: the place of the name of g among all names
  Upper,         \* Upper[g]: categories.parent_id
  Amount,        \* retail prices
  Level,         \* available quantities, on hand less reserved
  ScanCode,
  Carrier,       \* Carrier[c]: products and variants whose barcode column is c
  Query,         \* lists of products that a visitor walks through
  Collection,    \* getNewArrivals, getFeaturedProducts and getRelatedProducts
  CategoryQuery, \* lists of categories
  None,          \* NULL
  MaxEdits       \* bound on what administrators change

\* No category is above itself, as CategoryTree says.
ASSUME StoreCatalogAssumption ==
  /\ IsFiniteSet(Product) /\ IsFiniteSet(StockEntry) /\ IsFiniteSet(Category)
  /\ VariantOf \in [Variant -> Product] /\ SoldAs \in [StockEntry -> Product \cup Variant]
  /\ Product \cap Variant = {} /\ None \notin Product \cup Variant \cup StockEntry \cup Nat
  /\ CreatedAt \in [Product -> Nat]
  /\ Amount \subseteq Nat /\ Amount # {} /\ Level \subseteq Nat
  /\ \A c \in ScanCode : Carrier[c] \subseteq Product \cup Variant
  /\ NameOf \in [Category -> Nat]
  /\ \A S \in SUBSET Category : S # {} => \E g \in S : Upper[g] \notin S
  /\ \A q \in Query : q.words \subseteq Product /\ q.limit \in Nat \ {0} /\ q.atMost \in Nat \cup {None}
  /\ \A q \in Collection \cup CategoryQuery : q.limit \in Nat \ {0}
  /\ Query \cap Collection = {}
  /\ MaxEdits \in Nat

Sellable == Product \cup Variant

VARIABLES
  onSale,      \* products with is_active
  offered,     \* variants with is_active
  price,       \* price[o]: the retail price by now, promotions included; None without a row
  shelf,       \* shelf[i]: is_active and what is available; None without a row of inventory_items
  registry,    \* registry[c]: the product or stock item of c's active registry row, or None
  visit,       \* the call in flight, or its answer
  edits,       \* number of edits
  edited       \* history: something was edited since the visit began

shopRows == <<onSale, offered, price, shelf, registry>>
catalogVars == <<shopRows, visit, edits, edited>>

NoVisit == [op |-> "none"]

CatalogTypeOK ==
  /\ onSale \subseteq Product /\ offered \subseteq Variant
  /\ price \in [Sellable -> Amount \cup {None}]
  /\ shelf \in [StockEntry -> [active : BOOLEAN, stock : Level \cup {None}]]
  /\ registry \in [ScanCode -> Product \cup StockEntry \cup {None}]
  /\ visit.op \in {"none", "list", "page", "walked", "refused", "detail", "seen", "available",
                   "groups", "groupsWalked", "inCart", "rejected"}
  /\ edits \in 0..MaxEdits /\ edited \in BOOLEAN

\* A shop where everything is on sale at the lowest price, or one product has none, and all stock
\* items have the same stock or none.
CatalogInit ==
  /\ onSale = Product /\ offered = Variant
  /\ \E p \in Product \cup {None} : price = [o \in Sellable |-> IF o = p THEN None ELSE Min(Amount)]
  /\ \E stock \in Level \cup {None} : shelf = [i \in StockEntry |-> [active |-> TRUE, stock |-> stock]]
  /\ registry = [c \in ScanCode |-> None]
  /\ visit = NoVisit
  /\ edits = 0 /\ edited = FALSE

-----------------------------------------------------------------------------
(* What administrators, sales and time change.                              *)
Edit ==
  /\ edits < MaxEdits
  /\ edits' = edits + 1
  /\ edited' = (visit # NoVisit)
  /\ UNCHANGED visit

SetOnSale(p) ==
  /\ onSale' = IF p \in onSale THEN onSale \ {p} ELSE onSale \cup {p}
  /\ Edit
  /\ UNCHANGED <<offered, price, shelf, registry>>

SetOffered(v) ==
  /\ offered' = IF v \in offered THEN offered \ {v} ELSE offered \cup {v}
  /\ Edit
  /\ UNCHANGED <<onSale, price, shelf, registry>>

\* setPrice, or a promotion that begins or ends; a row of prices is never deleted.
SetPrice(o, amount) ==
  /\ amount # price[o]
  /\ price' = [price EXCEPT ![o] = amount]
  /\ Edit
  /\ UNCHANGED <<onSale, offered, shelf, registry>>

SetShelf(i, active, stock) ==
  /\ (active = shelf[i].active) # (stock = shelf[i].stock)
  /\ shelf' = [shelf EXCEPT ![i] = [active |-> active, stock |-> stock]]
  /\ stock = None => shelf[i].stock = None
  /\ Edit
  /\ UNCHANGED <<onSale, offered, price, registry>>

SetBarcode(c, of) ==
  /\ of # registry[c]
  /\ registry' = [registry EXCEPT ![c] = of]
  /\ Edit
  /\ UNCHANGED <<onSale, offered, price, shelf>>

-----------------------------------------------------------------------------
(* Helpers of the catalogue.                                                *)
LowStockThreshold == 5

Visibility(available) ==
  IF available = None THEN "IN_STOCK"
  ELSE IF available <= 0 THEN "OUT_OF_STOCK"
  ELSE IF available <= LowStockThreshold THEN "LOW_STOCK" ELSE "IN_STOCK"

OwnProduct(o) == IF o \in Variant THEN VariantOf[o] ELSE o
EntriesOf(p) == {i \in StockEntry : OwnProduct(SoldAs[i]) = p}
OrZero(stock) == IF stock = None THEN 0 ELSE stock

\* availableInventory over the product's rows, those of inactive stock items included.
AvailableInventory(p) == MapThenSumSet(LAMBDA i : OrZero(shelf[i].stock), EntriesOf(p))

\* resolveProductSelection: the registry before the barcode columns.
Selected(product, variant, item) == [product |-> product, variant |-> variant, item |-> item]

VariantOrNone(o) == IF o \in Variant THEN o ELSE None

SelectionFromRegistry(of) ==
  IF of \in Product THEN Selected(of, None, None)
  ELSE Selected(OwnProduct(SoldAs[of]), VariantOrNone(SoldAs[of]), of)

CarriersOnSale(c, S) == {o \in Carrier[c] \cap S : OwnProduct(o) \in onSale}

\* The selections a scan may give; findFirst without an order picks any of several.
ResolveProductSelection(c) ==
  IF registry[c] # None THEN {SelectionFromRegistry(registry[c])}
  ELSE LET of == IF CarriersOnSale(c, Product) # {} THEN CarriersOnSale(c, Product)
                 ELSE CarriersOnSale(c, Variant)
       IN {Selected(OwnProduct(o), VariantOrNone(o), None) : o \in of}

\* The search term of a list: a scanned code, or words, which code None stands for.
Matched(q) ==
  IF q.code # None /\ ResolveProductSelection(q.code) # {}
  THEN {s.product : s \in ResolveProductSelection(q.code)} ELSE q.words

Where(q) ==
  {p \in onSale : p \in Matched(q) /\ (q.group # None => q.group \in GroupsOf[p])}

-----------------------------------------------------------------------------
(* Lists of products, page by page.                                         *)

\* The sequences of all elements of S in which none stands behind one that it is before.
InOrder(S, Before(_, _)) ==
  {s \in SetToSeqs(S) : \A i, j \in DOMAIN s : i < j => ~Before(s[j], s[i])}

Begin(op) == visit = NoVisit /\ visit' = op /\ UNCHANGED <<shopRows, edits, edited>>
Go(op) == visit' = op /\ UNCHANGED <<shopRows, edits, edited>>

ListProducts(q) == Begin([op |-> "list", query |-> q, page |-> 1, shown |-> <<>>])

\* Stock is read with the rows, and their prices after them.
Page(q, page, shown, rows) ==
  [op |-> "page", query |-> q, page |-> page, shown |-> shown,
   stock |-> [p \in rows |-> AvailableInventory(p)], priced |-> [p \in rows |-> None]]

\* findMany has no orderBy: the rows come in any order, which the sort keeps among equals.
ListReads ==
  /\ visit.op = "list"
  /\ Go(Page(visit.query, visit.page, visit.shown, Where(visit.query)))

\* The newest of a collection, in one ordered query.
Candidates(q) ==
  {p \in onSale : q.like # None => p # q.like /\ (GroupsOf[q.like] # {} => GroupsOf[p] \cap GroupsOf[q.like] # {})}

Newest(p, r) == CreatedAt[p] > CreatedAt[r]
Take(s, n) == SubSeq(s, 1, IF Len(s) < n THEN Len(s) ELSE n)

CollectionReads(q) ==
  \E s \in InOrder(Candidates(q), Newest) :
    LET shown == Take(s, q.limit) IN Begin(Page(q, 1, shown, ToSet(shown)))

\* resolvePrice throws without a row of prices, and with it the whole page.
PriceRow(p) ==
  /\ visit.op = "page"
  /\ p \in DOMAIN visit.priced /\ visit.priced[p] = None
  /\ Go(IF price[p] = None THEN [op |-> "refused", of |-> {p}]
        ELSE [visit EXCEPT !.priced[p] = price[p]])

AllPriced == \A p \in DOMAIN visit.priced : visit.priced[p] # None

InStock(p) == Visibility(visit.stock[p]) # "OUT_OF_STOCK"
Passes(q, p) ==
  /\ q.inStock => InStock(p)
  /\ q.atMost # None => visit.priced[p] <= q.atMost

\* sortProducts; NEWEST is the default.
Earlier(q, cost, p, r) ==
  CASE q.sort = "PRICE_ASC" -> cost[p] < cost[r]
    [] q.sort = "PRICE_DESC" -> cost[p] > cost[r]
    [] OTHER -> Newest(p, r)
Sorted(q, cost, S) == LET Before(p, r) == Earlier(q, cost, p, r) IN InOrder(S, Before)

\* Mutant: the pages start one row too late.
LateSlice(s, page, limit) ==
  SubSeq(s, (page - 1) * limit + 2, IF page * limit < Len(s) THEN page * limit + 1 ELSE Len(s))

Slice(s, page, limit) ==
  SubSeq(s, (page - 1) * limit + 1, IF page * limit < Len(s) THEN page * limit ELSE Len(s))

HasNext(page, limit, total) == page * limit < total

ShowPage ==
  LET q == visit.query IN
  /\ visit.op = "page" /\ visit.query \in Query
  /\ AllPriced
  /\ \E sorted \in Sorted(q, visit.priced, {p \in DOMAIN visit.stock : Passes(q, p)}) :
       LET shown == visit.shown \o Slice(sorted, visit.page, q.limit) IN
       Go(IF HasNext(visit.page, q.limit, Len(sorted))
          THEN [op |-> "list", query |-> q, page |-> visit.page + 1, shown |-> shown]
          ELSE [op |-> "walked", query |-> q, shown |-> shown])

ShowCollection ==
  /\ visit.op = "page" /\ visit.query \in Collection
  /\ AllPriced
  /\ Go([op |-> "walked", query |-> visit.query, shown |-> visit.shown])

-----------------------------------------------------------------------------
(* One product.                                                             *)
ActiveEntries(p) == {i \in EntriesOf(p) : shelf[i].active}

GetProductBySlug(p) ==
  /\ p \in onSale
  /\ Begin([op |-> "detail", of |-> p, total |-> AvailableInventory(p),
            stock |-> [i \in ActiveEntries(p) |-> shelf[i].stock]])

\* The price of the product, its variants and their prices.  The stock items answer for no row
\* with OUT_OF_STOCK, the variants with IN_STOCK.
DetailPrices ==
  LET vs == {v \in offered : VariantOf[v] = visit.of}
      unpriced == {o \in vs \cup {visit.of} : price[o] = None}
      itemsOf(v) == {i \in DOMAIN visit.stock : SoldAs[i] = v}
      variant(v) == IF itemsOf(v) = {} THEN [item |-> None, visibility |-> Visibility(None)]
                    ELSE LET i == CHOOSE i \in itemsOf(v) : TRUE
                         IN [item |-> i, visibility |-> Visibility(visit.stock[i])] IN
  /\ visit.op = "detail"
  /\ Go(IF unpriced # {} THEN [op |-> "refused", of |-> unpriced]
        ELSE [op |-> "seen", of |-> visit.of, card |-> Visibility(visit.total),
              items |-> [i \in DOMAIN visit.stock |-> Visibility(OrZero(visit.stock[i]))],
              variants |-> [v \in vs |-> variant(v)]])

\* getProductAvailability answers IN_STOCK for no row as well.
GetProductAvailability(p) ==
  /\ p \in onSale
  /\ Begin([op |-> "available", of |-> p,
            items |-> [i \in ActiveEntries(p) |-> Visibility(shelf[i].stock)]])

\* findProduct and resolveForWrite of the cart; without a stock item it takes the variant's,
\* then the product's.
Orderable(o) == {i \in StockEntry : SoldAs[i] = o /\ shelf[i].active /\ i \in Tracked}

CartAccepts(s) ==
  /\ s.product \in onSale
  /\ s.variant # None => s.variant \in offered /\ VariantOf[s.variant] = s.product
  /\ s.item # None => s.item \in Orderable(IF s.variant = None THEN s.product ELSE s.variant)

CartItem(s) ==
  IF s.item # None THEN {s.item}
  ELSE LET own == IF s.variant = None THEN {} ELSE Orderable(s.variant) IN
       IF own # {} THEN own ELSE IF Orderable(s.product) # {} THEN Orderable(s.product) ELSE {None}

AddSelection(s) ==
  IF CartAccepts(s) THEN \E i \in CartItem(s) : Go([op |-> "inCart", asked |-> s, item |-> i])
  ELSE Go([op |-> "rejected", asked |-> s])

\* A stock item from the product's page goes into the cart.
AddSeen(i) ==
  /\ visit.op = "seen" /\ i \in DOMAIN visit.items
  /\ AddSelection(Selected(visit.of, VariantOrNone(SoldAs[i]), i))

AddScanned(c) ==
  /\ visit = NoVisit
  /\ \E s \in ResolveProductSelection(c) : AddSelection(s)

-----------------------------------------------------------------------------
(* Categories.                                                              *)
ProductCount(g) == Cardinality({p \in onSale : g \in GroupsOf[p]})
NotEmpty(g) == ProductCount(g) > 0
NamedBefore(g, h) == NameOf[g] < NameOf[h]
ByName(S) == InOrder(S, NamedBefore)

ListCategories(q) == Begin([op |-> "groups", query |-> q, page |-> 1, shown |-> <<>>])

\* The empty ones are left out of a page after it was cut, and counted in the total.
CategoriesPage ==
  LET q == visit.query
      left(cut) == {g \in ToSet(cut) : q.includeEmpty \/ NotEmpty(g)} IN
  /\ visit.op = "groups"
  /\ \E names \in ByName(Category) : \E kept \in ByName(left(Slice(names, visit.page, q.limit))) :
       LET shown == visit.shown \o kept IN
       Go(IF HasNext(visit.page, q.limit, Len(names))
          THEN [op |-> "groups", query |-> q, page |-> visit.page + 1, shown |-> shown]
          ELSE [op |-> "groupsWalked", query |-> q, shown |-> shown])

\* getCategoryTree, which is one read
TreeNodes(includeEmpty) == {g \in Category : includeEmpty \/ NotEmpty(g)}
TreeChildren(g, includeEmpty) == {h \in TreeNodes(includeEmpty) : Upper[h] = g}
TreeRoots(includeEmpty) ==
  {g \in TreeNodes(includeEmpty) : Upper[g] = None \/ Upper[g] \notin TreeNodes(includeEmpty)}

-----------------------------------------------------------------------------
Leave ==
  /\ visit # NoVisit
  /\ visit' = NoVisit /\ edited' = FALSE
  /\ UNCHANGED <<shopRows, edits>>

CatalogNext ==
  \/ \E p \in Product : SetOnSale(p) \/ PriceRow(p) \/ GetProductBySlug(p) \/ GetProductAvailability(p)
  \/ \E v \in Variant : SetOffered(v)
  \/ \E o \in Sellable, amount \in Amount : SetPrice(o, amount)
  \/ \E i \in StockEntry, active \in BOOLEAN, stock \in Level \cup {None} : SetShelf(i, active, stock)
  \/ \E c \in ScanCode, of \in Product \cup StockEntry \cup {None} : SetBarcode(c, of)
  \/ \E q \in Query : ListProducts(q)
  \/ \E q \in Collection : CollectionReads(q)
  \/ \E q \in CategoryQuery : ListCategories(q)
  \/ \E i \in StockEntry : AddSeen(i)
  \/ \E c \in ScanCode : AddScanned(c)
  \/ ListReads \/ ShowPage \/ ShowCollection \/ DetailPrices \/ CategoriesPage \/ Leave

CatalogSpec == CatalogInit /\ [][CatalogNext]_catalogVars

-----------------------------------------------------------------------------
Sold(p) == \E i \in EntriesOf(p) : OrZero(shelf[i].stock) > 0

\* What a list is about, from the rows as they are.
Wanted(q) ==
  {p \in Where(q) : /\ q.inStock => Sold(p)
                    /\ q.atMost # None => price[p] <= q.atMost}

Namesakes == \E g, h \in Category : g # h /\ NameOf[g] = NameOf[h]

\* Two products that the order does not tell apart.
Tied(q) == \E p, r \in Wanted(q) : p # r /\ ~Earlier(q, price, p, r) /\ ~Earlier(q, price, r, p)

(* A visitor who walks through all pages of a list, while nobody edits       *)
(* anything, has seen every product of it exactly once and in its order, as  *)
(* long as the order tells them apart: each page reads unordered rows again. *)
(* A collection is the newest of its candidates, never the product itself.   *)
WalkShowsAll ==
  visit.op = "walked" /\ ~edited =>
    LET q == visit.query IN
    IF q \in Collection
    THEN /\ ToSet(visit.shown) \subseteq Candidates(q) \ {q.like}
         /\ \A i, j \in DOMAIN visit.shown :
              i < j => visit.shown[i] # visit.shown[j] /\ ~Newest(visit.shown[j], visit.shown[i])
         /\ \A p \in Candidates(q) \ ToSet(visit.shown) :
              Len(visit.shown) = q.limit /\ \A i \in DOMAIN visit.shown : ~Newest(p, visit.shown[i])
    ELSE ~Tied(q) =>
         /\ ToSet(visit.shown) = Wanted(q)
         /\ Len(visit.shown) = Cardinality(Wanted(q))
         /\ \A i, j \in DOMAIN visit.shown :
              i < j => Earlier(q, price, visit.shown[i], visit.shown[j])

(* A page is refused only for a product or a variant without price.  A       *)
(* product's page shows OUT_OF_STOCK for exactly the stock items of which    *)
(* nothing can be reserved, and availability agrees unless the item has no   *)
(* row yet; a tracked item it shows can be put into the cart.                *)
PagesAreTrue ==
  ~edited =>
    /\ visit.op = "refused" => \A o \in visit.of : price[o] = None
    /\ visit.op = "seen" =>
         /\ DOMAIN visit.items = ActiveEntries(visit.of)
         /\ visit.card = "OUT_OF_STOCK" <=> ~Sold(visit.of)
         /\ \A i \in DOMAIN visit.items :
              visit.items[i] = "OUT_OF_STOCK" <=> OrZero(shelf[i].stock) = 0
         /\ \A v \in DOMAIN visit.variants :
              LET i == visit.variants[v].item IN
              i # None => /\ SoldAs[i] = v
                          /\ shelf[i].stock # None => visit.variants[v].visibility = visit.items[i]
    /\ visit.op = "available" =>
         \A i \in DOMAIN visit.items :
           shelf[i].stock # None => (visit.items[i] = "OUT_OF_STOCK" <=> shelf[i].stock = 0)

(* Unless something was edited, the cart refuses a stock item only if it is  *)
(* untracked or inactive or its product or variant is not offered, and takes *)
(* a line for the item that was asked for; a line without one is for an item *)
(* of the same product.                                                      *)
CartFollowsOffer ==
  ~edited =>
    /\ visit.op = "rejected" =>
         \/ visit.asked.product \notin onSale
         \/ visit.asked.variant # None /\ visit.asked.variant \notin offered
         \/ visit.asked.item # None /\ (visit.asked.item \notin Tracked \/ ~shelf[visit.asked.item].active)
    /\ visit.op = "inCart" =>
         /\ visit.asked.item # None => visit.item = visit.asked.item
         /\ visit.item # None => visit.item \in EntriesOf(visit.asked.product)

(* A walk through the categories shows each one once, the empty ones only if *)
(* asked, as long as no two have one name: each page sorts them again.  The  *)
(* tree holds each under its parent, or as a root where the parent is left   *)
(* out because it is empty.                                                  *)
CategoriesAreWhole ==
  /\ visit.op = "groupsWalked" /\ ~edited /\ ~Namesakes =>
       visit.shown \in ByName(TreeNodes(visit.query.includeEmpty))
  /\ \A e \in BOOLEAN :
       \A S \in SUBSET TreeNodes(e) :
         (TreeRoots(e) \subseteq S /\ \A g \in S : TreeChildren(g, e) \subseteq S) => S = TreeNodes(e)

\* What StoreCatalog is about, within its types.
CatalogueIsTrue ==
  CatalogTypeOK /\ WalkShowsAll /\ PagesAreTrue /\ CartFollowsOffer /\ CategoriesAreWhole
=================================================================================
