------------------------------ MODULE MCShopFront ------------------------------
(***************************************************************************)
(* The storefront and what answers its events: accounts, customers,         *)
(* addresses and carts, the catalogue, notifications and the workflow       *)
(* engine.  They share no row, so every behaviour runs one of them, which   *)
(* is chosen at the start, and leaves the others alone.                     *)
(***************************************************************************)
EXTENDS WorkflowEngine, Accounts, StoreAccount, AddressBook, StoreCatalog, Notifications

CONSTANTS k1, e1, e2, c1, c2, x1, x2, y1, y2, p1, p2, v1, s1, s2, g1, g2, g3

VARIABLE focus

\* Two events of one order: they share a key, and the second matches one rule only.
MCKey == {k1}
MCEvent == {e1, e2}
MCKeyOf == (e1 :> k1) @@ (e2 :> k1)
MCMatches == (e1 :> {1, 2}) @@ (e2 :> {2})

\* The unit of the line's product is two base units.
MCFactor == [k \in LineKey |-> 2]

\* Two products, one of which has a variant, a stock item of each, and three categories, each
\* under the one before, the second of which is empty.
MCVariantOf == v1 :> p1
MCSoldAs == (s1 :> p1) @@ (s2 :> v1)
MCCreatedAt == (p1 :> 1) @@ (p2 :> 2)
MCGroupsOf == (p1 :> {g1, g3}) @@ (p2 :> {g3})
MCNameOf == (g1 :> 1) @@ (g2 :> 2) @@ (g3 :> 3)
MCUpper == (g1 :> None) @@ (g2 :> g1) @@ (g3 :> g2)
MCCarrier == k1 :> {p2, v1}

All == [words |-> Product, code |-> None, group |-> None, inStock |-> FALSE, atMost |-> None,
        sort |-> "NEWEST", limit |-> 1]
MCQuery ==
  {All, [All EXCEPT !.sort = "PRICE_ASC"], [All EXCEPT !.sort = "PRICE_DESC"],
   [All EXCEPT !.group = g3, !.inStock = TRUE],
   [All EXCEPT !.words = {}, !.code = k1, !.atMost = 1, !.limit = 2]}
MCCollection == {[like |-> l, limit |-> 1] : l \in {None, p1}}
MCCategoryQuery == {[includeEmpty |-> e, limit |-> 2] : e \in BOOLEAN}

MCSymmetry == Permutations({c1, c2}) \cup Permutations({x1, x2}) \cup Permutations({y1, y2})

\* Nothing is claimed after two calls about one cart crossed: such behaviours are not followed.
Undisturbed == ~crossed

\* The catalogue that the other components are run beside.
MCPlainShop == \A o \in Sellable, i \in StockEntry : price[o] = 1 /\ shelf[i].stock = 0

ShopInit ==
  /\ focus \in {"workflow", "accounts", "customers", "book", "catalog", "notices"}
  /\ Init /\ AccountsInit /\ StoreAccountInit /\ AddressBookInit /\ CatalogInit /\ NotificationsInit
  /\ focus # "catalog" => MCPlainShop

\* What the other components keep.
NotWorkflow == <<authVars, accountVars, bookVars, catalogVars, noticeVars>>
NotAccounts == <<vars, accountVars, bookVars, catalogVars, noticeVars>>
NotCustomers == <<vars, authVars, bookVars, catalogVars, noticeVars>>
NotBook == <<vars, authVars, accountVars, catalogVars, noticeVars>>
NotCatalog == <<vars, authVars, accountVars, bookVars, noticeVars>>
NotNotices == <<vars, authVars, accountVars, bookVars, catalogVars>>

ShopNext ==
  /\ \/ focus = "workflow" /\ Next /\ UNCHANGED NotWorkflow
     \/ focus = "accounts" /\ AccountsNext /\ UNCHANGED NotAccounts
     \/ focus = "customers" /\ StoreAccountNext /\ UNCHANGED NotCustomers
     \/ focus = "book" /\ AddressBookNext /\ UNCHANGED NotBook
     \/ focus = "catalog" /\ CatalogNext /\ UNCHANGED NotCatalog
     \/ focus = "notices" /\ NotificationsNext /\ UNCHANGED NotNotices
  /\ UNCHANGED focus

ShopSpec == ShopInit /\ [][ShopNext]_<<focus, vars, NotWorkflow>>
===============================================================================
