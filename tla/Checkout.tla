-------------------------------- MODULE Checkout --------------------------------
(***************************************************************************)
(* Checkout in the store: StoreCheckoutService (modules/orders), the        *)
(* vouchers of PromotionService and PromotionRepository (modules/promotion) *)
(* and the prices of PricingService (modules/pricing).                      *)
(*                                                                          *)
(* One voucher and one product.  A checkout computes the subtotal and the   *)
(* discount from the voucher and the prices as they are (CheckoutReads),    *)
(* builds the order's lines again with the prices as they then are          *)
(* (CheckoutPrices), and commits the order, the consumption of the voucher  *)
(* and the payment together (CheckoutCommits).                              *)
(***************************************************************************)
EXTENDS Integers, FiniteSets

CONSTANTS
  OrderKey,          \* request keys of checkouts
  Shopper,           \* checkouts in flight
  PriceSet, MemberPrice, PromotionPrice,  \* amounts; prices of the one product
  PercentSet, FixedSet,                   \* discount values vouchers are written with
  MinimumSet, LimitSet,                   \* minimum order amounts and usage limits
  MaxUses,           \* bound on the uses of the voucher
  NoLimit

ASSUME CheckoutAssumption ==
  /\ PriceSet \cup {MemberPrice, PromotionPrice} \subseteq Nat
  /\ PercentSet \cup FixedSet \cup MinimumSet \subseteq Nat
  /\ LimitSet \ {NoLimit} \subseteq Nat /\ NoLimit \notin Nat
  /\ MaxUses \in Nat

VARIABLES
  sellingPrice, promoted,  \* product_prices: selling_price, and whether its promotion is on now
  voucher,      \* the row of vouchers
  placed,       \* placed[k]: the order of the request key
  shopping,     \* shopping[w]: what the checkout of w has computed
  repeats,      \* history: checkouts with the voucher that found their order
  lowered,      \* history: the usage limit was written below the count
  changed       \* history: orders whose prices changed between their subtotal and their lines

checkoutVars == <<sellingPrice, promoted, voucher, placed, shopping, repeats, lowered, changed>>

NoOrder == [status |-> "none"]
NotShopping == [stage |-> "none"]

CheckoutTypeOK ==
  /\ sellingPrice \in PriceSet /\ promoted \in BOOLEAN
  /\ voucher \in [exists : BOOLEAN, active : BOOLEAN, percent : BOOLEAN, value : Nat,
                  minimum : Nat, limit : Nat \cup {NoLimit}, used : Nat]
  /\ placed \in [OrderKey -> {NoOrder} \cup
       [status : {"PENDING", "PAID", "CANCELLED"}, subtotal : Nat, discount : Nat,
        voucher : BOOLEAN, minimum : Nat]]
  /\ \A w \in Shopper : shopping[w].stage \in {"none", "read", "priced"}
  /\ repeats \in Nat
  /\ lowered \in BOOLEAN /\ changed \subseteq OrderKey

CheckoutInit ==
  /\ sellingPrice \in PriceSet /\ promoted = FALSE
  /\ voucher = [exists |-> FALSE, active |-> FALSE, percent |-> FALSE, value |-> 0, minimum |-> 0,
                limit |-> NoLimit, used |-> 0]
  /\ placed = [k \in OrderKey |-> NoOrder]
  /\ shopping = [w \in Shopper |-> NotShopping]
  /\ repeats = 0 /\ lowered = FALSE /\ changed = {}

-----------------------------------------------------------------------------
(* Prices and vouchers.                                                     *)

\* resolvePrice: the promotion, then the member's price.
ResolvePrice(member) ==
  IF promoted THEN PromotionPrice ELSE IF member THEN MemberPrice ELSE sellingPrice

\* setPrice, or the begin or end of the promotion
ChangePrice(amount, on) ==
  /\ sellingPrice' = amount
  /\ promoted' = on
  /\ UNCHANGED <<voucher, placed, shopping, repeats, lowered, changed>>

WriteVoucher(row) ==
  /\ voucher' = row
  /\ lowered' = (lowered \/ (row.limit # NoLimit /\ row.limit < row.used))
  /\ UNCHANGED <<sellingPrice, promoted, placed, shopping, repeats, changed>>

\* create; isActive defaults to true
CreateVoucher(percent, value, minimum, limit) ==
  /\ ~voucher.exists
  /\ WriteVoucher([exists |-> TRUE, active |-> TRUE, percent |-> percent, value |-> value,
                   minimum |-> minimum, limit |-> limit, used |-> 0])

\* update; the dates of the voucher are part of active here.
UpdateVoucher(active, minimum, limit) ==
  /\ voucher.exists
  /\ WriteVoucher([voucher EXCEPT !.active = active, !.minimum = minimum, !.limit = limit])

\* Mutant: consume without its condition on the count.
ActiveOnly == voucher.exists /\ voucher.active

Consumable ==
  /\ voucher.exists /\ voucher.active
  /\ voucher.limit # NoLimit => voucher.used < voucher.limit

AtMost(a, b) == IF a <= b THEN a ELSE b

\* validate
DiscountOf(subtotal) ==
  AtMost(IF voucher.percent THEN (subtotal * voucher.value) \div 100 ELSE voucher.value, subtotal)

-----------------------------------------------------------------------------
(* A checkout, in the order of its reads.                                   *)

CheckoutReads(w, k, member, withVoucher) ==
  LET subtotal == ResolvePrice(member) IN
  /\ shopping[w] = NotShopping
  /\ withVoucher => Consumable /\ subtotal >= voucher.minimum
  /\ shopping' = [shopping EXCEPT ![w] =
       [stage |-> "read", key |-> k, member |-> member, voucher |-> withVoucher,
        subtotal |-> subtotal, minimum |-> IF withVoucher THEN voucher.minimum ELSE 0,
        discount |-> IF withVoucher THEN DiscountOf(subtotal) ELSE 0, repriced |-> FALSE]]
  /\ UNCHANGED <<sellingPrice, promoted, voucher, placed, repeats, lowered, changed>>

\* Mutant: createWithSource accepts a negative total.
AnyTotal(subtotal, discount) == TRUE

TotalAllowed(subtotal, discount) == subtotal - discount >= 0

\* buildLineItem again, and 'Order total cannot be negative'.  The shopper's prices are not
\* looked at again.
CheckoutPrices(w) ==
  LET subtotal == ResolvePrice(shopping[w].member) IN
  /\ shopping[w].stage = "read"
  /\ TotalAllowed(subtotal, shopping[w].discount)
  /\ shopping' = [shopping EXCEPT ![w].stage = "priced", ![w].member = FALSE, ![w].subtotal = subtotal,
                                  ![w].repriced = (subtotal # shopping[w].subtotal)]
  /\ UNCHANGED <<sellingPrice, promoted, voucher, placed, repeats, lowered, changed>>

\* An order of the same key is found again; consume and the payment follow all the same.
\* The payment is refused for a cancelled order, and everything rolls back.
CheckoutCommits(w, paid) ==
  LET call == shopping[w]
      k == call.key IN
  /\ call.stage = "priced"
  /\ placed[k].status # "CANCELLED"
  /\ call.voucher => Consumable /\ voucher.used < MaxUses
  /\ voucher' = IF call.voucher THEN [voucher EXCEPT !.used = @ + 1] ELSE voucher
  /\ \/ /\ placed[k] = NoOrder
        /\ placed' = [placed EXCEPT ![k] =
             [status |-> IF paid THEN "PAID" ELSE "PENDING", subtotal |-> call.subtotal,
              discount |-> call.discount, voucher |-> call.voucher, minimum |-> call.minimum]]
        /\ changed' = IF call.repriced THEN changed \cup {k} ELSE changed
        /\ UNCHANGED repeats
     \/ /\ placed[k] # NoOrder
        /\ repeats' = IF call.voucher THEN repeats + 1 ELSE repeats
        /\ UNCHANGED <<placed, changed>>
  /\ shopping' = [shopping EXCEPT ![w] = NotShopping]
  /\ UNCHANGED <<sellingPrice, promoted, lowered>>

AbandonCheckout(w) ==
  /\ shopping[w] # NotShopping
  /\ shopping' = [shopping EXCEPT ![w] = NotShopping]
  /\ UNCHANGED <<sellingPrice, promoted, voucher, placed, repeats, lowered, changed>>

\* What OrderPayments does to the order; the voucher is not given back.
CancelPlaced(k) ==
  /\ placed[k].status = "PENDING"
  /\ placed' = [placed EXCEPT ![k].status = "CANCELLED"]
  /\ UNCHANGED <<sellingPrice, promoted, voucher, shopping, repeats, lowered, changed>>

CheckoutNext ==
  \/ \E amount \in PriceSet, on \in BOOLEAN : ChangePrice(amount, on)
  \/ \E minimum \in MinimumSet, limit \in LimitSet :
       \/ \E value \in PercentSet : CreateVoucher(TRUE, value, minimum, limit)
       \/ \E value \in FixedSet : CreateVoucher(FALSE, value, minimum, limit)
       \/ \E active \in BOOLEAN : UpdateVoucher(active, minimum, limit)
  \/ \E w \in Shopper, k \in OrderKey, member, withVoucher \in BOOLEAN :
       CheckoutReads(w, k, member, withVoucher)
  \/ \E w \in Shopper :
       CheckoutPrices(w) \/ AbandonCheckout(w) \/ \E paid \in BOOLEAN : CheckoutCommits(w, paid)
  \/ \E k \in OrderKey : CancelPlaced(k)

CheckoutSpec == CheckoutInit /\ [][CheckoutNext]_checkoutVars

-----------------------------------------------------------------------------
Discounted == {k \in OrderKey : placed[k] # NoOrder /\ placed[k].voucher}

(* However checkouts overlap, a voucher is used once for each order that has *)
(* its discount, and once more for each checkout that was repeated with it;  *)
(* and never more often than its limit allows, unless the limit was lowered  *)
(* below what had been used.                                                 *)
VoucherCountsOrders ==
  /\ voucher.used = Cardinality(Discounted) + repeats
  /\ ~lowered /\ voucher.limit # NoLimit => voucher.used <= voucher.limit

(* No order's total is negative; and an order has at least the voucher's     *)
(* minimum amount unless a price changed between the subtotal that validate  *)
(* was given and the lines of the order.                                     *)
DiscountFitsOrder ==
  \A k \in OrderKey : placed[k] # NoOrder =>
    /\ placed[k].discount <= placed[k].subtotal
    /\ k \notin changed => placed[k].subtotal >= placed[k].minimum

\* What Checkout is about: vouchers count their orders, and discounts fit them,
\* all within their types.
CheckoutAddsUp == CheckoutTypeOK /\ VoucherCountsOrders /\ DiscountFitsOrder
=============================================================================
