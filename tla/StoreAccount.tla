------------------------------ MODULE StoreAccount ------------------------------
(***************************************************************************)
(* Who the orders of the store belong to: the customers that                *)
(* StoreAccountService, StoreCheckoutService and AuthService create for     *)
(* users, and the guest orders that StoreGuestOrdersService shows to and    *)
(* claims for them (modules/storefront, modules/orders, modules/auth).      *)
(*                                                                          *)
(* An account stands for a user and the e-mail address of the user, which   *)
(* the code normalises before it compares.  resolveCustomer and the         *)
(* identity of a checkout lock the user's row, register does not; the       *)
(* customers table has no unique key on the user.                           *)
(***************************************************************************)
EXTENDS Integers, FiniteSets

CONSTANTS
  Account,       \* users, each with an e-mail address
  CustomerRow,   \* rows of customers
  GuestOrder,    \* orders placed without an account
  Lookup,        \* rows of guest_order_verifications
  AccountCall,   \* registrations and claims in flight
  NoAccount, NoRow

ASSUME StoreAccountAssumption ==
  NoAccount \notin Account /\ NoRow \notin CustomerRow

VARIABLES
  registered,    \* accounts with a row in users
  ownerOf,       \* ownerOf[r]: the user of customer r; NoAccount while there is no such row
  guestOf,       \* guestOf[o]: orders.guest_email; NoAccount while there is no such order
  claimedBy,     \* claimedBy[o]: orders.customer_id
  lookup,        \* lookup[l]: the verification sent to an address
  access,        \* addresses some guest access token is valid for
  accountCall,   \* accountCall[c]: what the registration or claim c has read
  granted,       \* history: granted[l] is how often l was exchanged for an access token
  skipped,       \* history: orders that were there when a checkout created the customer
  late,          \* history: guest orders of an address that had a customer already
  twofold        \* history: accounts whose profile was written when they had a customer

accountVars == <<registered, ownerOf, guestOf, claimedBy, lookup, access, accountCall,
                 granted, skipped, late, twofold>>

NoCall == [stage |-> "none"]
NoLookup == [email |-> NoAccount, status |-> "none"]

StoreAccountTypeOK ==
  /\ registered \subseteq Account
  /\ ownerOf \in [CustomerRow -> Account \cup {NoAccount}]
  /\ guestOf \in [GuestOrder -> Account \cup {NoAccount}]
  /\ claimedBy \in [GuestOrder -> CustomerRow \cup {NoRow}]
  /\ lookup \in [Lookup -> [email : Account \cup {NoAccount},
                            status : {"none", "sent", "expired", "consumed"}]]
  /\ access \subseteq Account
  /\ accountCall \in [AccountCall -> {NoCall}
       \cup [stage : {"created"}, of : Account]
       \cup [stage : {"profile"}, of : Account, found : CustomerRow \cup {NoRow}]
       \cup [stage : {"claim"}, of : Account, row : CustomerRow]]
  /\ granted \in [Lookup -> Nat]
  /\ skipped \subseteq GuestOrder /\ late \subseteq GuestOrder /\ twofold \subseteq Account

StoreAccountInit ==
  /\ registered = {}
  /\ ownerOf = [r \in CustomerRow |-> NoAccount]
  /\ guestOf = [o \in GuestOrder |-> NoAccount]
  /\ claimedBy = [o \in GuestOrder |-> NoRow]
  /\ lookup = [l \in Lookup |-> NoLookup]
  /\ access = {}
  /\ accountCall = [c \in AccountCall |-> NoCall]
  /\ granted = [l \in Lookup |-> 0]
  /\ skipped = {} /\ late = {} /\ twofold = {}

CustomersOf(a) == {r \in CustomerRow : ownerOf[r] = a}

\* Orders updateMany finds by address: those nobody has claimed.
Claimable(a) == {o \in GuestOrder : guestOf[o] = a /\ claimedBy[o] = NoRow}

ClaimFor(a, r) ==
  claimedBy' = [o \in GuestOrder |-> IF o \in Claimable(a) THEN r ELSE claimedBy[o]]

NewCustomer(a, r) ==
  /\ ownerOf[r] = NoAccount
  /\ ownerOf' = [ownerOf EXCEPT ![r] = a]

-----------------------------------------------------------------------------
(* Customers.                                                               *)

\* register: the user's row commits before the customer's transaction begins.
RegisterUser(c, a) ==
  /\ accountCall[c] = NoCall
  /\ a \notin registered
  /\ registered' = registered \cup {a}
  /\ accountCall' = [accountCall EXCEPT ![c] = [stage |-> "created", of |-> a]]
  /\ UNCHANGED <<ownerOf, guestOf, claimedBy, lookup, access, granted, skipped, late, twofold>>

\* ensureCustomerProfileAndClaimGuestOrders looks for a customer, with no lock held,
ProfileLooks(c) ==
  LET call == accountCall[c] IN
  /\ call.stage = "created"
  /\ \E r \in CustomerRow \cup {NoRow} :
       /\ IF CustomersOf(call.of) = {} THEN r = NoRow ELSE r \in CustomersOf(call.of)
       /\ accountCall' = [accountCall EXCEPT ![c] =
            [stage |-> "profile", of |-> call.of, found |-> r]]
  /\ UNCHANGED <<registered, ownerOf, guestOf, claimedBy, lookup, access, granted, skipped, late,
                 twofold>>

\* then creates one if it saw none, and claims.
ProfileWrites(c) ==
  LET call == accountCall[c] IN
  /\ call.stage = "profile"
  /\ \/ /\ call.found = NoRow
        /\ \E r \in CustomerRow : NewCustomer(call.of, r) /\ ClaimFor(call.of, r)
        /\ twofold' = IF CustomersOf(call.of) # {} THEN twofold \cup {call.of} ELSE twofold
     \/ /\ call.found # NoRow
        /\ ClaimFor(call.of, call.found)
        /\ UNCHANGED <<ownerOf, twofold>>
  /\ accountCall' = [accountCall EXCEPT ![c] = NoCall]
  /\ UNCHANGED <<registered, guestOf, lookup, access, granted, skipped, late>>

\* Mutant: the orders are left as they are when the customer is created.
CreateOnly(a, r) == NewCustomer(a, r) /\ UNCHANGED claimedBy

CreateAndClaim(a, r) == NewCustomer(a, r) /\ ClaimFor(a, r)

\* resolveCustomer, which every operation of the account and the cart begins with
ResolveCustomer(a) ==
  /\ a \in registered
  /\ CustomersOf(a) = {}
  /\ \E r \in CustomerRow : CreateAndClaim(a, r)
  /\ UNCHANGED <<registered, guestOf, lookup, access, accountCall, granted, skipped, late, twofold>>

\* resolveCheckoutIdentityForUser creates the customer, and claims nothing.
CheckoutIdentity(a) ==
  /\ a \in registered
  /\ CustomersOf(a) = {}
  /\ \E r \in CustomerRow : NewCustomer(a, r)
  /\ skipped' = skipped \cup Claimable(a)
  /\ UNCHANGED <<registered, guestOf, claimedBy, lookup, access, accountCall, granted, late, twofold>>

-----------------------------------------------------------------------------
(* Guests.                                                                  *)

\* A guest's checkout, which issues an access token
GuestCheckout(o, a) ==
  /\ guestOf[o] = NoAccount
  /\ guestOf' = [guestOf EXCEPT ![o] = a]
  /\ access' = access \cup {a}
  /\ late' = IF CustomersOf(a) # {} THEN late \cup {o} ELSE late
  /\ UNCHANGED <<registered, ownerOf, claimedBy, lookup, accountCall, granted, skipped, twofold>>

\* requestLookup sends a code only where there is an order.
RequestLookup(l, a) ==
  /\ lookup[l] = NoLookup
  /\ \E o \in GuestOrder : guestOf[o] = a
  /\ lookup' = [lookup EXCEPT ![l] = [email |-> a, status |-> "sent"]]
  /\ UNCHANGED <<registered, ownerOf, guestOf, claimedBy, access, accountCall, granted, skipped,
                 late, twofold>>

\* Mutant: verifyLookup overlooks consumedAt.
NotExpired(l) == lookup[l].status \in {"sent", "consumed"}

Verifiable(l) == lookup[l].status = "sent"

\* verifyLookup, with the row locked
VerifyLookup(l) ==
  /\ Verifiable(l)
  /\ granted[l] < 2
  /\ lookup' = [lookup EXCEPT ![l].status = "consumed"]
  /\ access' = access \cup {lookup[l].email}
  /\ granted' = [granted EXCEPT ![l] = @ + 1]
  /\ UNCHANGED <<registered, ownerOf, guestOf, claimedBy, accountCall, skipped, late, twofold>>

TokenExpires ==
  /\ \/ /\ \E l \in Lookup : /\ lookup[l].status = "sent"
                             /\ lookup' = [lookup EXCEPT ![l].status = "expired"]
        /\ UNCHANGED access
     \/ /\ \E a \in access : access' = access \ {a}
        /\ UNCHANGED lookup
  /\ UNCHANGED <<registered, ownerOf, guestOf, claimedBy, accountCall, granted, skipped, late,
                 twofold>>

\* Mutant: claimOrders takes any valid token.
AnyToken(a, email) == TRUE

SameAddress(a, email) == a = email

\* claimOrders: the token, and the customer it claims for
ClaimBegins(c, a, email) ==
  /\ accountCall[c] = NoCall
  /\ a \in registered /\ email \in access
  /\ SameAddress(a, email)
  /\ \E r \in CustomersOf(a) : accountCall' =
       [accountCall EXCEPT ![c] = [stage |-> "claim", of |-> email, row |-> r]]
  /\ UNCHANGED <<registered, ownerOf, guestOf, claimedBy, lookup, access, granted, skipped, late,
                 twofold>>

\* claimGuestOrdersForCustomer
ClaimWrites(c) ==
  /\ accountCall[c].stage = "claim"
  /\ ClaimFor(accountCall[c].of, accountCall[c].row)
  /\ accountCall' = [accountCall EXCEPT ![c] = NoCall]
  /\ UNCHANGED <<registered, ownerOf, guestOf, lookup, access, granted, skipped, late, twofold>>

\* The request fails or its process dies between its transactions.
AccountCallEnds(c) ==
  /\ accountCall[c] # NoCall
  /\ accountCall' = [accountCall EXCEPT ![c] = NoCall]
  /\ UNCHANGED <<registered, ownerOf, guestOf, claimedBy, lookup, access, granted, skipped, late,
                 twofold>>

StoreAccountNext ==
  \/ \E c \in AccountCall, a \in Account :
       RegisterUser(c, a) \/ \E email \in Account : ClaimBegins(c, a, email)
  \/ \E c \in AccountCall :
       ProfileLooks(c) \/ ProfileWrites(c) \/ ClaimWrites(c) \/ AccountCallEnds(c)
  \/ \E a \in Account : ResolveCustomer(a) \/ CheckoutIdentity(a)
  \/ \E a \in Account, o \in GuestOrder : GuestCheckout(o, a)
  \/ \E a \in Account, l \in Lookup : RequestLookup(l, a)
  \/ \E l \in Lookup : VerifyLookup(l)
  \/ TokenExpires

StoreAccountSpec == StoreAccountInit /\ [][StoreAccountNext]_accountVars

-----------------------------------------------------------------------------
(* A guest's order comes only to the customer of the user with its address,  *)
(* whatever claims and registrations were in flight; and creating the        *)
(* customer leaves none behind, unless a checkout created it or the order    *)
(* was placed as a guest's later.                                            *)
OrdersFollowTheirGuest ==
  /\ \A o \in GuestOrder : claimedBy[o] # NoRow => ownerOf[claimedBy[o]] = guestOf[o]
  /\ \A a \in Account : CustomersOf(a) # {} => Claimable(a) \subseteq skipped \cup late

(* A code that was sent is exchanged for one access token, however often it  *)
(* is sent in; and a user has one customer, unless the registration itself   *)
(* was overtaken by the user's first request.                                *)
OneOfEach ==
  /\ \A l \in Lookup : granted[l] <= 1
  /\ \A a \in Account \ twofold : Cardinality(CustomersOf(a)) <= 1

\* What StoreAccount is about: orders go to their guest, who is one customer with
\* one token for a code.
OwnersAreRight == StoreAccountTypeOK /\ OrdersFollowTheirGuest /\ OneOfEach
=============================================================================
