------------------------------ MODULE AddressBook ------------------------------
(***************************************************************************)
(* The addresses and the cart of one customer of the store:                 *)
(* StoreAccountService's addresses and StoreCartService                     *)
(* (modules/storefront).                                                    *)
(*                                                                          *)
(* Making an address the default is two writes: the defaults of the others  *)
(* are cleared, then the address is written.  Only setDefaultAddress does   *)
(* both in a transaction.  A cart line is found by its line key; an update  *)
(* reads the line and writes it later, by its id.                           *)
(***************************************************************************)
EXTENDS Integers, FiniteSets

CONSTANTS
  Address,       \* rows of customer_addresses
  CartRow,       \* rows of cart_items
  LineKey,       \* what a cart line is for: product, variant, stock item and unit
  Factor,        \* Factor[k]: base units in one unit of line k
  StoreCall,     \* requests in flight
  MaxQuantity    \* bound on the quantity of a line

ASSUME AddressBookAssumption ==
  Factor \in [LineKey -> Nat \ {0}] /\ MaxQuantity \in Nat

VARIABLES
  address,       \* address[r]: the row
  cart,          \* cart[r]: the row
  storeCall,     \* storeCall[c]: what request c has done or read
  crossed        \* history: a request wrote an address while another was between its writes

bookVars == <<address, cart, storeCall, crossed>>

NoAddress == [status |-> "none", default |-> FALSE, shipping |-> FALSE, billing |-> FALSE]
NoLine == [status |-> "none"]
NoRequest == [stage |-> "none"]
Given == {"on", "off", "absent"}     \* an optional flag of a request

AddressBookTypeOK ==
  /\ address \in [Address -> [status : {"none", "kept", "deleted"}, default : BOOLEAN,
                              shipping : BOOLEAN, billing : BOOLEAN]]
  /\ cart \in [CartRow -> {NoLine} \cup [status : {"removed"}]
                 \cup [status : {"kept"}, key : LineKey, quantity : Nat, base : Nat]]
  /\ storeCall \in [StoreCall -> {NoRequest}
       \cup [stage : {"cleared"}, of : Address, new : BOOLEAN, shipping : Given, billing : Given]
       \cup [stage : {"line"}, of : CartRow, key : LineKey]]
  /\ crossed \in BOOLEAN

AddressBookInit ==
  /\ address = [r \in Address |-> NoAddress]
  /\ cart = [r \in CartRow |-> NoLine]
  /\ storeCall = [c \in StoreCall |-> NoRequest]
  /\ crossed = FALSE

-----------------------------------------------------------------------------
(* Addresses.                                                               *)
Between == {c \in StoreCall : storeCall[c].stage = "cleared"}

\* clearDefaults over the rows R
Cleared(R, shipping, billing) ==
  [r \in Address |-> IF r \notin R \/ address[r].status # "kept" THEN address[r]
     ELSE [address[r] EXCEPT !.default = FALSE,
                             !.shipping = @ /\ shipping # "on",
                             !.billing = @ /\ billing # "on"]]

\* Mutant: an update leaves the other addresses as they are.
ClearedForNew(r, new, shipping, billing) ==
  IF new /\ (shipping = "on" \/ billing = "on") THEN Cleared(Address, shipping, billing) ELSE address

AfterClear(r, new, shipping, billing) ==
  IF shipping = "on" \/ billing = "on"
  THEN Cleared(IF new THEN Address ELSE Address \ {r}, shipping, billing) ELSE address

\* createAddress and updateAddress, their first write
AddressClears(c, r, new, shipping, billing) ==
  /\ storeCall[c] = NoRequest
  /\ address[r].status = IF new THEN "none" ELSE "kept"
  /\ address' = AfterClear(r, new, shipping, billing)
  /\ storeCall' = [storeCall EXCEPT ![c] =
       [stage |-> "cleared", of |-> r, new |-> new, shipping |-> shipping, billing |-> billing]]
  /\ crossed' = (crossed \/ Between # {})
  /\ UNCHANGED cart

\* A flag the request does not give stays, except isDefault, which is always written.
Written(old, given) == IF given = "absent" THEN old ELSE given = "on"

\* and their second; an address deleted meanwhile makes the update throw.
AddressWrites(c) ==
  LET call == storeCall[c]
      r == call.of IN
  /\ call.stage = "cleared"
  /\ address[r].status = IF call.new THEN "none" ELSE "kept"
  /\ address' = [address EXCEPT ![r] =
       [status |-> "kept", default |-> call.shipping = "on" \/ call.billing = "on",
        shipping |-> Written(address[r].shipping, call.shipping),
        billing |-> Written(address[r].billing, call.billing)]]
  /\ storeCall' = [storeCall EXCEPT ![c] = NoRequest]
  /\ UNCHANGED <<cart, crossed>>

SetDefaultAddress(r) ==
  /\ address[r].status = "kept"
  /\ address' = [s \in Address |->
       IF address[s].status # "kept" THEN address[s]
       ELSE [status |-> "kept", default |-> s = r, shipping |-> s = r, billing |-> s = r]]
  /\ crossed' = (crossed \/ Between # {})
  /\ UNCHANGED <<cart, storeCall>>

DeleteAddress(r) ==
  /\ address[r].status = "kept"
  /\ address' = [address EXCEPT ![r] = [NoAddress EXCEPT !.status = "deleted"]]
  /\ UNCHANGED <<cart, storeCall, crossed>>

-----------------------------------------------------------------------------
(* The cart.                                                                *)
LinesOf(k) == {r \in CartRow : cart[r].status = "kept" /\ cart[r].key = k}

LineWith(k, quantity) ==
  [status |-> "kept", key |-> k, quantity |-> quantity, base |-> quantity * Factor[k]]

\* addItem, and each item of mergeCart, which can stop after any of them and be sent again:
\* the upsert adds to the line there is.
AddItem(k, quantity) ==
  /\ \/ \E r \in LinesOf(k) :
          /\ cart[r].quantity + quantity <= MaxQuantity
          /\ cart' = [cart EXCEPT ![r].quantity = @ + quantity,
                                  ![r].base = @ + quantity * Factor[k]]
     \/ /\ LinesOf(k) = {}
        /\ \E r \in CartRow : /\ cart[r] = NoLine
                              /\ cart' = [cart EXCEPT ![r] = LineWith(k, quantity)]
  /\ UNCHANGED <<address, storeCall, crossed>>

\* updateItem: ensureItemOwnership and resolveForWrite,
UpdateItemReads(c, r) ==
  /\ storeCall[c] = NoRequest
  /\ cart[r].status = "kept"
  /\ storeCall' = [storeCall EXCEPT ![c] = [stage |-> "line", of |-> r, key |-> cart[r].key]]
  /\ UNCHANGED <<address, cart, crossed>>

\* Mutant: the base quantity is left as it was.
NewQuantityOnly(r, k, quantity) == [cart[r] EXCEPT !.quantity = quantity]

Rewritten(r, k, quantity) == [cart[r] EXCEPT !.quantity = quantity, !.base = quantity * Factor[k]]

\* and the write, which throws if the row is gone.
UpdateItemWrites(c, quantity) ==
  LET call == storeCall[c] IN
  /\ call.stage = "line"
  /\ cart[call.of].status = "kept"
  /\ cart' = [cart EXCEPT ![call.of] = Rewritten(call.of, call.key, quantity)]
  /\ storeCall' = [storeCall EXCEPT ![c] = NoRequest]
  /\ UNCHANGED <<address, crossed>>

Removed(R) == [r \in CartRow |-> IF r \in R THEN [status |-> "removed"] ELSE cart[r]]

RemoveItem(r) ==
  /\ cart[r].status = "kept"
  /\ cart' = Removed({r})
  /\ UNCHANGED <<address, storeCall, crossed>>

ClearCart ==
  /\ cart' = Removed({r \in CartRow : cart[r].status = "kept"})
  /\ cart' # cart
  /\ UNCHANGED <<address, storeCall, crossed>>

\* The request throws, or its process dies between its writes.
StoreCallEnds(c) ==
  /\ storeCall[c] # NoRequest
  /\ storeCall' = [storeCall EXCEPT ![c] = NoRequest]
  /\ UNCHANGED <<address, cart, crossed>>

AddressBookNext ==
  \/ \E c \in StoreCall, r \in Address, new \in BOOLEAN, shipping, billing \in Given :
       AddressClears(c, r, new, shipping, billing)
  \/ \E c \in StoreCall : AddressWrites(c) \/ StoreCallEnds(c)
  \/ \E r \in Address : SetDefaultAddress(r) \/ DeleteAddress(r)
  \/ \E k \in LineKey, quantity \in 1..MaxQuantity : AddItem(k, quantity)
  \/ \E c \in StoreCall, r \in CartRow : UpdateItemReads(c, r)
  \/ \E c \in StoreCall, quantity \in 1..MaxQuantity : UpdateItemWrites(c, quantity)
  \/ \E r \in CartRow : RemoveItem(r)
  \/ ClearCart

AddressBookSpec == AddressBookInit /\ [][AddressBookNext]_bookVars

-----------------------------------------------------------------------------
(* Unless two requests overlapped, a customer has at most one default for    *)
(* shipping and one for billing, also when a request stopped between its     *)
(* two writes; and an address is marked default only if it is one of them.   *)
OneDefaultAddress ==
  /\ \A r \in Address : address[r].default => address[r].shipping \/ address[r].billing
  /\ ~crossed => /\ Cardinality({r \in Address : address[r].shipping}) <= 1
                 /\ Cardinality({r \in Address : address[r].billing}) <= 1

(* However additions, updates and removals overlap, a cart has one line for  *)
(* a line key and its base quantity, which checkout reserves, is what its    *)
(* quantity converts to; a removed line is not brought back by an update.    *)
CartLinesAgree ==
  /\ \A k \in LineKey : Cardinality(LinesOf(k)) <= 1
  /\ \A r \in CartRow : cart[r].status = "kept" =>
       cart[r].quantity > 0 /\ cart[r].base = cart[r].quantity * Factor[cart[r].key]

\* What AddressBook is about: one default of a kind, and one line of a selection.
BookAndCartAgree == AddressBookTypeOK /\ OneDefaultAddress /\ CartLinesAgree
=============================================================================
