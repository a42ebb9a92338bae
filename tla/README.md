# TLA+ specifications of the commerce back end

These modules specify the parts of the back end whose correctness depends on what runs
at the same time, what is delivered twice and what dies half way: the transactional
outbox, an order from its checkout to its refund, payments and what they are confirmed
by, the stock in quantities and in single units, purchasing, the books, the tills, the
catalogue and what visitors see of it, accounts and customers, notifications, and the
executions of a workflow. Each
component has a specification written from its source; TLC checks it on a small
instance, and TLAPS proves for every instance that the safety properties TLC checks hold
(section 4).

    tlc -workers 2 -config MCOutbox.cfg MCOutbox      one run
    tlapm OutboxProofs.tla                            the proofs of one group of components

Source paths below are relative to `src/src/`; the database schema is
`src/prisma/schema.prisma`.

## 1. The system

A NestJS application on MySQL/MariaDB through Prisma. HTTP requests and scheduled jobs
run services; a service changes its own tables in a transaction and, in the same
transaction, inserts the events of the change into `outbox_events`. Every instance of
the application polls that table and hands the events to handlers of other components.
Components therefore meet in three ways: direct calls inside one transaction (checkout
calls orders and payments), events through the outbox (an order tells stock, books and
mails), and tables both of them read.

### Inventory of components

| component | state | operations | what is hard | what makes it correct | module |
|---|---|---|---|---|---|
| event bus, outbox (`infrastructure/event-bus`) | `outbox_events`: status, attempts, lock | publish, cycle (release, retry, claim), dispatch with retries, marks | several instances, deaths, locks that expire under a live instance, unconditional marks | at-least-once, in priority order; bounded attempts; notifications last; every event settles | `Outbox` |
| orders (`modules/orders`) | status, items, request key | create, checkout, update, markPaid, complete, cancel, markRefunded | checks before the transaction, writes without condition, repeated events and checkouts | every status announced; paid in full; final states; discounts fit | `OrderPayments`, `Checkout` |
| payments (`modules/payments`) | payment rows; proofs; provider sessions; QR images | recordPayment with replay, refund; upload, approve, reject; callbacks | stale views, retries with one key, three transactions for one approval | one result per key; sums; evidence stands for a payment | `OrderPayments`, `PaymentEvidence` |
| promotion (`modules/promotion`) | vouchers, counts | create, update, validate, consume | overlapping and repeated checkouts | a limit is kept; uses count orders | `Checkout` |
| stock (`modules/inventory`, `inventory-batch`, `inventory-fifo`) | items, batches, movements, reservations | stockIn, stockOut, adjust, reserve, release, restock; event handlers | stale views, redelivery, events out of order, expiry | counters equal batches equal movements; FIFO; no double reservation | `Inventory` |
| unique assets (`inventory-assets`) | assets, serials | register, reserve, sell, release, retire, restore | handlers at once, two life cycles | a unit is promised and sold once; as many units as stock | `UniqueAssets` |
| transformations (`inventory-read`) | tags in notes, movements | create, execute, cancel | a cancellation without a lock | stock moves once and is shown as moved | `Transformations` |
| barcodes (`barcode-registry`, `inventory-admin`) | `barcode_registry` | register, replace, update, activate, set primary | several transactions per call, checks made before them | one row per code, one primary per owner | `Barcodes` |
| products, variants, stock items (`product`, `stock-items`, identity resolver) | rows with flags | create, deactivate, delete, reactivate, provision; resolve a line | no transaction around two tables | an order line keeps the item its payment accepts | `Catalogue` |
| set-up of stock items (`inventory-admin`, `units`, `stock-item-configuration`, identity resolver) | configuration row, units, conversions, identifier rules | configure, assign, convert, set rules; accept a line and move it | two writes per update, defaults that derive from another row, a set-up that changes under an accepted line | an option is what the last call said; what is accepted can be moved | `StockItemSetup` |
| public catalogue (`storefront/store-catalog`, `pricing`, scans, what the cart accepts) | none: it reads products, variants, prices, stock, barcodes | list, collection, product page, availability, scan, category list and tree | every page reads again, without order, and prices row by row | a walk shows every product once; pages agree with the stock and the cart | `StoreCatalog` |
| categories (`modules/category`) | parent, path | create, rename, move, delete | reads before writes over a subtree | paths follow parents; all are shown | `CategoryTree` |
| attributes, prices (`product-attributes`, `pricing`) | rows without a unique key | upsert, remove; options, definitions | look up, then write | one row per slot, the last value answers | `ProductData` |
| purchasing (`purchase-orders`, `goods-receipts`) | order status, received quantities | create, approve, cancel, receive | stale views, content keys | receipts match the order; goods need approval | `Purchasing` |
| supplier invoices and payments | total, status, payments, entries | create, pay | payments at once | never beyond the total; the ledger owes the rest | `SupplierInvoices` |
| accounting (`modules/accounting`) | journal entries by event key; accounts by code | entries for sale, cash, cost, returns, receipts; seed, rename accounts | events in any order and repeated, repairs at the same time, two transactions per refund | one balanced entry per event; books agree with stock and payments | `Ledger` |
| reconciliation (`modules/reconciliation`) | exceptions about stock | scan, repair lost effects, open and close exceptions, replay events | a window over growing tables, one error ends the cycle, several instances | what was lost is repaired once | `Ledger` (without the replay) |
| point of sale (`modules/pos`) | sessions, transactions | open, close, sale | sale, refund and rest against close | a closed session expects its cash | `PosSession` |
| storefront accounts, guest orders | customers, guest orders, lookups, tokens | register, resolve, claim, look up, verify | three ways to create a customer, no unique key | orders follow their guest; one customer, one token | `StoreAccount` |
| storefront addresses, cart | addresses, cart lines | defaults; add, update, remove, clear, merge | two writes per default; an update by id | one default; one line of a selection | `AddressBook` |
| notifications, activities, mail (`storefront-*-events`, `crm`, `email`) | timeline, mail queue | record and announce, queue, send, mark | redelivery, a send before its mark, overlapping runs | a fact is told once; a mail is what its status says | `Notifications` |
| authentication, users | attempts, lock, refresh tokens, roles | login, refresh, logout, create, deactivate | a password compared between read and write; a user before its roles | the lock counts; a login has one token | `Accounts` |
| workflow engine (`engine`, `triggers`, `rules`, `executors`) | `workflow_executions`: status, checkpoint | trigger, create, resume, act, checkpoint, finish | no transactions, retries, deaths | success is complete, retry does not repeat | `WorkflowEngine` |
| brands, banners, customers' notes and tags, tickets, templates, webhooks, settings, audit, files, AI gateway | records and calls of services | CRUD, calls | little | unique names, validation | no: single statements or pure I/O |

`PROJECT.json` lists the same components with their sources, and under `hazards` the
lines where each difficulty bites.

### Isolation

No transaction of the code sets an isolation level, so all run under InnoDB's
REPEATABLE READ: the first plain read of a transaction fixes the view that all its
plain reads show, while locking reads, updates and unique keys act on the current rows.
Where a service reads something before it asks for a lock, what it checks after the
wait is as old as that first read. The modules model exactly this: the first read is
an action that stores a view, the commit is an action that checks the view and writes
the current rows, and any other transaction may commit in between. MariaDB from 11.6 on
has `innodb_snapshot_isolation`, which turns some of these stale writes into errors;
the models assume that it is off, as in MySQL.

## 2. Modules

    EventDelivery          what the bus promises                 (abstract)
      ^ implemented by
    Outbox -- OutboxDelivery (refinement mapping)
      | events, any number of times and in any order
      +-> OrderPayments, Inventory, WorkflowEngine
      +-> Ledger                              (rows of OrderPayments, Inventory, Purchasing)
      +-> UniqueAssets, Notifications
    Purchasing                                (its receipts are Inventory's stockIn calls)
    Checkout, PaymentEvidence, PosSession     (end in OrderPayments' recordPayment)
    SupplierInvoices, Transformations, Barcodes, StockItemSetup
    Catalogue, CategoryTree, ProductData
    Accounts, StoreAccount, AddressBook, StoreCatalog

    OutboxProofs           Outbox, OutboxDelivery
    OrdersProofs           OrderPayments, Checkout, PaymentEvidence
    InventoryProofs        Inventory, UniqueAssets
    BooksProofs            Ledger, SupplierInvoices, PosSession
    BackOfficeProofs       Purchasing, Transformations, Barcodes, StockItemSetup
    CatalogueProofs        CategoryTree, ProductData, Catalogue
    ShopFrontProofs        WorkflowEngine, Accounts, StoreAccount, AddressBook, StoreCatalog,
                           Notifications
    Totals                 lemmas about sums over finite sets, for the proofs

    MC...                  instances for TLC: model values, symmetry
    MCOrders               OrderPayments + Checkout + PaymentEvidence + Catalogue
    MCInventory            Inventory + UniqueAssets
    MCBooks                Ledger + SupplierInvoices + PosSession
    MCBackOffice           Purchasing + Transformations + CategoryTree + ProductData
                           + Barcodes + StockItemSetup
    MCShopFront            WorkflowEngine + Accounts + StoreAccount + AddressBook
                           + StoreCatalog + Notifications

The components are composed through `EventDelivery`: it is proved of the outbox, and
the other modules take from it only what it allows, that a handler may be called again
at any time after the event was published and that nothing orders two events. Each
handler is therefore an action that stays enabled once its event is published.

Components that share no row, or whose modules leave out the rows they share, are checked
by one run: its MC module declares `focus`,
which the initial state chooses and no step changes, and only the actions of the
component in focus are taken. The run's states are therefore the sum of the components'
states and not their product, and each behaviour is one of the component's own.

Definitions marked "Mutant" in the modules are deliberate mistakes (a dropped guard, a
value written as it was read, a missing count). They are not part of any specification;
`PROJECT.json` names, for each property, the mutant that breaks it.

### Outbox, EventDelivery, OutboxDelivery

`row` is the table; `pc`, `batch`, `cursor` and `tries` are an instance's local state
in `runCycle` and `dispatch`; `async` are the handler calls queued in its event loop.
One action is one database transaction or one handler call. `ReleaseStuckProcessing`,
`RetryFailed` and `ClaimPendingBatch` are the three queries of a cycle (the claim with
`FOR UPDATE SKIP LOCKED` and the second read is one transaction); `InvokeSucceeds` and
`InvokeThrows` are calls of a SYNC handler, which may throw before or after what it
did was committed; `EnqueueAsync` and `InvokeAsync` are the ASYNC handlers;
`MarkProcessed` and `MarkFailed` write by id and without condition, as the code does.
`LockExpires` lets a lock grow old under a live instance, `MarkProcessedThrows` lets
the write of the mark fail, `Crash` loses all local state. Time is abstracted to a
lock that is fresh or stale. The rows that share `created_at` may be claimed in either
order. `ran[e][h]` counts committed effects; it is history and no action reads it.

`EventDelivery` knows neither instances nor locks nor attempts: events are published,
handled in priority order, acknowledged when all have handled them; acknowledgements
may be taken back (a slow instance marks FAILED what another marked PROCESSED).

### OrderPayments

One order and the payments requests may create for it. `order`, `row` and `refunds`
are columns, `sent` the names of the events published, `call[c]` what a request has
read. A keyed `recordPayment` is `LookUpKey` (the first read, which fixes the view)
followed by `RecordKeyed`; without a key the first statement is the lock, so
`RecordUnkeyed` sees current rows. `Accepted`, `OrderAfter` and `PaymentEvents` say,
for a view and current rows, what commits, what the order becomes and which events are
published. `FindOne` and `UpdateStatus` are the order's own services and the handlers
that call them; `MayCall` says who calls what, and `AllowedFrom` what the services
check. Amounts are small naturals; a refund is its payment's amount with the opposite
sign, so a chain of refunds of refunds is its length.

### Inventory

One stock item. `Begin...` is a transaction's first read, the action named for the
service method is its commit, `Rollback` every other end. `Consume` is FIFO over the
batches the transaction has read, with the conditional decrements on current rows;
`Before` is the order of batches; `Move` inserts the movement with its unique event
key; `ReleaseReservation` is the conditional update of the reservation. `Tick` moves the
clock for expiry dates. `Ordered` is the set of lines of which it is assumed that
`order.created` is settled before later events of the order are handled. The outbox
does not promise this after a failed delivery; the events of all other lines come in
any order.

### Purchasing

One purchase order. `Create`, `FindOne` and `UpdateStatus` are the order's services,
`LookUpKey` and `Receive` a goods receipt: the view of status and received quantities
is that of the key's lookup inside the transaction, the increments act on current
rows, the new status is computed from the view. `Sum` and `Largest` are all the check
and the increments see of a receipt's entries: each entry is compared with the open
quantity, their sum is added. Money, units and the resolution of identities are left
out. A call that throws or is dropped is `Abandon` or the second disjunct of `Receive`.

### WorkflowEngine

The executions of one workflow. `execution[k]` is the row of an event key, `call[c]`
where a delivery stands and its copy of `completedRuleIds`. Nothing is in a
transaction, so every write is an action: `FindExecution`, `CreateExecution` (the
unique key lets one creator through), `ResumeExecution` (unconditional),
`ExecuteAction`, `Checkpoint`, `MarkSuccess`, `MarkFailed`. An action may throw after
its effect (`ActionThrowsAfterCommit`) or any step before it (`StepThrows`). `Crash` is
a death, and a call that ends because a write outside the `try` throws. `done`,
`uncertain`, `overtaken` and `orphaned` are history.

### Ledger

The rows of the other components that the books or the stock must follow are documents;
`Posting` says which accounts an entry of each kind debits and credits (a refund has
two entries, a receipt's movement none), `Amount` is the document's one amount, and
`Age` its place in the order in which it is listed, which need not be the order in which
rows are written. `Write` brings a document into being; a supplier's invoice or payment
takes its entry along in the same transaction. A delivery of its event (`Handle`,
`Book`, `Commit`, `Acknowledge`) and a cycle of the reconciliation (`List`,
`CheckEntry`, `Book`, `Commit`) share `createJournalEntry`: `Book` reads the accounts,
looks the event key up and so fixes the view; `Commit` inserts under the unique key;
`Throw` is a missing account, an amount that may not be 0, or a key taken since the
lookup. An amount of 0 is nothing to book for costs and an error for everything else.
`CheckMovement`, `RepairStockIn` and `ReportMissing` are the parts about stock, with
their exceptions; `ResolveInventoryException` is the administrator's. `Rename` takes an
account's code away until the next start seeds it again; `Interrupt` is a failed query
or a restart. `Reconcile(r)` is any step of instance r's cycle.

### Checkout

One product and one voucher. A checkout is three actions, because the code reads three
times: `CheckoutReads` takes the voucher and the subtotal as `validate` sees them,
`CheckoutPrices` builds the lines with the prices as they are by then, `CheckoutCommits`
writes the order, the use of the voucher (`Consumable` is the condition of that update)
and the payment. A key that has its order finds it again and consumes once more
(`repeats`). `changed` and `lowered` are history.

### PaymentEvidence

Requests in flight are in `desk`. An approval is `ApproveReads`, `ApproveRecords`
(`recordPayment`, of which only success or refusal is kept) and `ApproveMarks`; a
confirmation `ConfirmMarks` and `ConfirmRecords`; a callback reads the session's data and
writes it later with its own added; a QR image is stored, named and its predecessor
deleted. `DeskEnds` ends any of them between two transactions.

### UniqueAssets

One stock item whose units are tracked one by one; an order has one line of one unit. A
`...Reads` action is the first read of a handler or call (`resolveSaleAssetIds` uses a
connection of its own), the action named after the service method is its commit, whose
updates are conditional on the current status. Administrators may set any status
(`UpdateAsset`), a refund's `RestoreAssets` is a transaction of its own; both mark the
asset `touched`, and the properties speak of the others.

### SupplierInvoices, PosSession

`PayReads` waits for the invoice's lock and reads, `PayWrites` writes payment, status and
entry. `SaleFindsTill` reads a session without a lock, `CreateSale` commits; `CloseReads`
locks the session and sums (`CashOf`), `CloseSession` writes the sum. A refund or the rest
of a part payment may come at any time. `afterClose` marks the sessions whose cash changed
after it was summed.

### Transformations, Catalogue, CategoryTree, ProductData, Barcodes

The calls of these services are sequences of transactions. `Catalogue` and `Barcodes`
hold for each call in flight the steps it has still to do; a call may end after any of
them. In `CategoryTree` an update reads the category, its new parent and the descendants
and then writes the paths it computed; in `ProductData` an upsert looks for a row and
then updates or creates; in `Transformations` a cancellation reads the notes, looks for
movements and writes. Where the code promises nothing for calls that overlap, a history
variable (`disturbed`, `overlapped`, `doubled`, `mixed`, `retagged`) says what overlapped.

### StockItemSetup

One stock item, its two rows of options, its units and one identifier type. An update of
the configuration is `WriteStockItem` and `WriteOptions`, two statements without a
transaction; `Upserted` is the row the upsert leaves and `Effective` what the rest of the
code reads, which without a row derives from the tracking mode and the product. A line
of an order or of a goods receipt is accepted (`AcceptOrder`, `AcceptReceipt`) and later
moved by the handler of its event (`MoveLine`), each time checked against the options
and converted with the units of that moment. `Outdated` marks the lines accepted before
a change; the properties promise them no more than that nothing else is moved.

### StoreCatalog

A visit is one caller who reads: `visit` holds the call in flight or its answer. A page
of a list is `ListReads` (the products with their stock; the query has no order), a
`PriceRow` for each of them and `ShowPage` (filter, sort, cut); the next page starts with
`ListReads` again. What is sorted is any sequence in which no element stands behind one
that it comes before (`InOrder`): products of one price or moment, and categories of one
name, which the schema allows, are in another order on every page, and
`CatalogueIsTrue` promises a walk nothing about lists that have such ties. `DetailPrices`, `GetProductAvailability` and the
categories are answers of one read each, with the helpers `Visibility`,
`AvailableInventory`, `ResolveProductSelection` and `HasNext` of the code. `AddSeen` and
`AddScanned` hand what was shown or scanned to the cart's checks. Administrators, sales
and promotions edit the rows between any two steps (`SetPrice`, `SetShelf`, ...).

### Accounts, StoreAccount, AddressBook, Notifications

`LoginReads` takes the counter, `LoginFails`, `LoginResets` and `LoginIssues` write later;
`Refresh` replaces a token in one transaction; `CreateUser` and `AssignRole` are one
statement each. A refresh token is its payload (user, role, second): two of one second
are the same token, which the unique key refuses. `StoreAccount` has the three ways a
user gets a customer: `ResolveCustomer` and `CheckoutIdentity` lock the user,
`ProfileLooks` and `ProfileWrites` (registration) do not. In `AddressBook` making a
default is `AddressClears` and `AddressWrites`; a cart line is updated by its id. In
`Notifications` an activity is created under its unique key and then announced; a mail
is found, started, sent and marked by runs of `processQueue` that do not exclude each
other.

## 3. Runs

| run | instance | shows |
|---|---|---|
| `outbox_batch` | 2 instances, 2 events with 2 and 1 SYNC and one ASYNC handler, batches of 2, 1 retry, 2 attempts, 1 fault | `ClaimExclusive`, `NotifiedAfterHandled`, `ImplementsDelivery` |
| `outbox_faults` | 2 instances, 1 event, 3 faults, fairness | `ProcessedWasHandled`, `EventuallySettled` |
| `orders` | 2 half payments, one with a key, chains of 2 refunds, 2 requests; 2 checkouts of 2 keys, prices 2 and 4, a voucher with or without limit; a payment with 2 proofs and a session, 2 QR images, 2 desks; a product with 2 variants, 2 order lines, 2 administrators | `StatusMatchesPayments`, `StatusAnnounced`, `PaidNeedsPayment`, `FinalStays`; `CheckoutAddsUp`; `EvidenceIsTrue`; `LineKeepsIdentity` |
| `second_payment` | 2 full payments under different keys | violated: `NoSecondPayment` |
| `cancel_race` | the same | violated: `OnlyPendingIsCancelled` |
| `inventory` | 2 lines, one of them with `order.created` first, 1 receipt that expires, 1 return, 1 gain, 1 loss, 2 transactions; 2 units, 2 orders, 2 calls | `QuantitiesAgree`, `SoldLineHoldsNothing`, `ReserveWithinStock`, `OldestFirst`; `UnitsAreAccounted` |
| `reserved_asset` | the same | violated: `ReservedIsSaleable` |
| `ledger` | order, payment, refund, invoice and its payment, 1 delivery, 2 reconciliations, 1 fault; 2 supplier invoices, 2 payments; 2 tills, 2 sales, 2 calls | `BookedOnce`, `AcknowledgedIsBooked`, `CashComesFirst`, `BooksAgree`; `OwesTheRest`; `TillExpectsItsCash` |
| `ledger_repair` | 2 orders (one free), refund, free receipt, their movements; no delivery, 1 reconciliation with a window of 1, 1 fault, fairness | `EventuallyBooked`, `ExceptionsFollowStock` |
| `back_office` | a purchase order of 2 lines, 3 receipts, 2 clerks; 2 transformations, 2 cancellations; 3 categories; 1 attribute and a price in 3 rows; barcodes with 2 codes of 2 owners; a stock item with 2 units, 6 updates of its options, 2 rules, 2 lines; 2 callers each | `ReceivedMatchesReceipts`, `ReceivedIsComplete`; `MovedAsShown`; `TreeIsWhole`; `OneRowPerSlot`; `LabelsAreClear`; `SetupIsSound` |
| `over_receipt` | the purchase order, 1 clerk | violated: `NoOverReceipt` |
| `shop_front` | 2 rules, 2 events of one key, 2 deliveries, 4 runs; 1 user, 2 logins; 2 accounts, 2 guest orders; 2 addresses, 2 cart lines; 2 products with a variant, a stock item each and 3 categories, 5 lists, 2 collections, 1 scan, 1 visitor, 2 edits; 1 fact, 2 mails, 2 runs of each handler | `SuccessIsComplete`, `RetryExecutesOnce`, `RunningHasRunner`; `AccountsAreSound`; `OwnersAreRight`; `BookAndCartAgree`; `CatalogueIsTrue`; `NoticesAreTrue` |

Every property has its statement, and the code behaviour it is about, in a comment
before it. The type invariants of the components that share a run are conjuncts of their
properties (`CheckoutAddsUp`, `EvidenceIsTrue`, `LineKeepsIdentity`, `UnitsAreAccounted`, `TillExpectsItsCash`
and those of `back_office` and `shop_front`); those of the other components are proved
as theorems of their own. So are `AttemptsBounded`, `DeadLetterStays`, `ReservationFinal`, `RefundNeedsPayment` and
`GoodsNeedApproval`, which no run repeats.

**Bounds.** Two actors are enough for every race in the code, because each race is one
stale reader against one writer; a third receipt on a purchase order lets a third writer
overtake both. `FaultBudget` (outbox) bounds deaths, expired locks and failed marks:
one fault makes a second claim of a row possible, three make a row be claimed beyond
`MaxAttempts`. `Retries = 1` and `MaxAttempts = 2` stand for 2 and 10, `BatchLimit` 1
or 2 for 100: each limit is reached and exceeded in the runs. `MaxRefunds = 2` is the
shortest chain whose sum is wrong. `LastDay = 1` lets a batch expire once.
`MaxStarts = 4` lets a run fail, be resumed, be overtaken and fail again. `Window = 1`
stands for 500: one later order is beyond it. The account that can lose its code
is cash, which only the first entry of a refund needs. A voucher may be used once or
without limit, and is used twice at most (`MaxUses`). `MaxTotal = 3` lets an invoice be
paid in three parts and refuses a fourth. Three categories are the smallest tree in
which a move has descendants. A user is locked after 2 wrong passwords instead of 5,
and time stops at 1 (`MaxTime`), one lifetime of a token. Three changes (`MaxSetup`) configure
a stock item and change it between the two writes of a call or between a line's acceptance
and its move; lines are of one unit and name nothing, assets, or batch and expiry date
(`PaperSet`). One category at a time has active products (`MaxFiled`): they only keep it from
being deleted. Two edits (`MaxEdits`) hide a product from a visitor who is between two
pages and show it again. The catalogue's initial states are those where one product has
no price, or all stock items are sold out or have no row; while another component runs,
it is a fixed one. The proofs use none of these values.

**Constraints.** `orders`, `back_office` and `shop_front` have a state constraint
`Undisturbed`: a behaviour is followed up to and including the step after which a
component no longer promises anything (its history variable says that two calls
overlapped where the code does not allow for it; for barcodes, that they did for every
owner) and not beyond. Nothing the properties
claim lies behind that step except for what is independent of it (the cart behind two
crossed addresses, the count of a voucher behind a changed price), which the
behaviours without it show as well.

**Deadlock** is checked for the outbox, which never stops. It is off for the other
runs: there every request of the instance may have been served, every batch
used up, every execution ended or every document booked.

**Symmetry** is declared for instances, requests, deliveries and rows which the
specifications do not tell apart, and only in runs without liveness. Where two
components use the same model values, a permutation acts on both.

**Fairness.** `EventuallySettled` needs weak fairness of the steps of each instance's
cycle, because `onModuleInit` starts the timer and every await of a cycle returns, and
of the expiry of a lock nobody renews, because time passes. Nothing is assumed of
handlers: they may throw for ever, and then the row becomes a dead letter. Deaths are
bounded; an instance that dies is restarted as an idle one. `EventuallyBooked` and
`ExceptionsFollowStock` need weak fairness of each instance's reconciliation
(`Reconcile(r)`), because its interval fires every five minutes whatever became of the
last cycle (`reconciliation.service.ts:46`, `catch` and `finally` at 113-121). Nothing
is assumed of events. Both are stated for behaviours in which no account stays without
its code, and for rows that a cycle reaches: among the first `Window` of their listing,
and not behind a row whose entry would be of 0, at which every cycle ends.

### What the violated runs show

* `second_payment`. `recordPayment` looks its key up by a plain read
  (`payments.service.ts:60`) before it locks the order (line 77). The view is thus
  fixed before the wait, and a request that waited while another paid the order still
  reads PENDING at line 97 and commits a second successful payment.
* `cancel_race`. `cancel` checks the status before its transaction
  (`orders.service.ts:323`) and writes CANCELLED without condition: an order that was
  paid in between is cancelled with its payment in place.
* `reserved_asset`. `order.created` sets the asset of a line RESERVED, and the deduction
  of `order.paid` first looks for the line's asset among the AVAILABLE ones
  (`inventory-assets.service.ts:156`): it refuses the asset that is reserved for its own
  order, although the update that follows takes AVAILABLE and RESERVED (line 354). Every
  delivery of the event fails, and the asset is never sold.
* `over_receipt`. A receipt compares each entry with the line's open quantity but adds
  them all (`goods-receipts.service.ts:118-170`): two batches of one line may exceed
  it together. No concurrency is needed.

The models contain more behaviour of this kind that contradicts nothing the repository
says, so no property is stated for it. Two part payments that complete an order at the
same time each sum without the other, and the order stays PENDING until a payment is
replayed. `order.created` handled after `order.paid` leaves a reservation behind. A
workflow whose instance dies stays RUNNING. A receipt may overwrite RECEIVED by
PARTIALLY_RECEIVED. An order without a reservation takes stock reserved for another. A
free order or receipt ends every cycle of the reconciliation for what comes after it,
and rows beyond the first 500 of a listing are never repaired. A checkout that is
repeated uses its voucher once more. Two failed logins at once count as one. Two
categories that are moved under each other at once are never shown again. A sale that
found its session open may commit after the session's cash was summed. A registration
overtaken by the user's first request leaves two customers. A session of a payment
provider may be confirmed without its payment. A mail that was sent may be marked FAILED.
A goods receipt without assets is booked for an item that tracks them, and every delivery
of its event is refused. The first update of a stock item's configuration creates the row
with `false` for what it does not name, also where the tracking mode said otherwise. A
product without price makes every page it is on fail. Products that the sort does not tell
apart may be repeated or skipped from one page to the next, and a stock item without
inventory row is OUT_OF_STOCK on its product's page and IN_STOCK by its availability.
The properties name these cases (by history variables such as `raced`, `overlapped`,
`afterClose`, `twofold`, `unsettled`, `unmarked`, `alone`, `blurred`, `edited`) and promise the rest.

Two more are described here because they lie outside every model. A receipt or an order
without an idempotency key gets a hash of its content as its key, so an equal second
one is answered with the first (`goods-receipts.service.ts:273`,
`orders.service.ts:777`). And the reversal for returned stock multiplies quantity and
not base quantity by the cost of a base unit
(`accounting-domain-events.handler.ts:157`).

## 4. Proofs

All theorems assume only the named `ASSUME` of their component (and `BooksBalance` what
is said of it below) and hold for every number of events, instances, requests, batches,
lines, rows, calls and rules, and every bound.

| module | component | theorems |
|---|---|---|
| `OutboxProofs` | `Outbox` | `TypeCorrect`, `OneInstancePerClaim`, `ProcessedEventsWereHandled`, `NotificationsComeLast`, `AttemptsAreBounded`, `DeadLettersStay`, `OutboxImplementsDelivery` |
| `OrdersProofs` | `OrderPayments` | `OrderTypeCorrect`, `StatusesAreAnnounced`, `PaidOrdersHavePayments`, `RefundsHavePayments`, `FinalPaymentsStay`, `StatusesMatchPayments` |
| | `Checkout` | `CheckoutStaysAddedUp` |
| | `PaymentEvidence` | `EvidenceInvariant`, `EvidenceAlwaysTrue` |
| `InventoryProofs` | `Inventory` | `InventoryTypeCorrect`, `ReservationsAreCovered`, `ReservationsAreMadeOnce`, `FirstInFirstOut`, `SoldLinesHoldNothing`, `StockBooksAgree` |
| | `UniqueAssets` | `UnitsStayAccounted` |
| `BooksProofs` | `Ledger` | `LedgerTypeCorrect`, `EntriesAreBookedOnce`, `AcknowledgedEventsAreBooked`, `CashIsReversedFirst`, `BooksBalance` |
| | `SupplierInvoices` | `SupplierTypeCorrect`, `InvoicesOweTheRest` |
| | `PosSession` | `TillsExpectTheirCash` |
| `BackOfficeProofs` | `Purchasing` | `PurchasingTypeCorrect`, `ReceivedOrdersAreComplete`, `ReceiptsFollowApproval`, `ReceivedIsWhatReceiptsSay` |
| | `Transformations` | `TransformationsShowTheirMoves` |
| | `Barcodes` | `LabelsStayClear` |
| | `StockItemSetup` | `SetupStaysSound` |
| `CatalogueProofs` | `CategoryTree` | `TreeStaysWhole` |
| | `ProductData` | `SlotsHaveOneRow` |
| | `Catalogue` | `LinesKeepTheirItems` |
| `ShopFrontProofs` | `WorkflowEngine` | `EngineTypeCorrect`, `SuccessesAreComplete`, `RunningExecutionsHaveRunners`, `RetriesExecuteOnce` |
| | `Accounts` | `AccountsStaySound` |
| | `StoreAccount` | `OrdersReachTheirOwner` |
| | `AddressBook` | `BookAndCartStayRight` |
| | `StoreCatalog` | `CatalogueStaysTrue` |
| | `Notifications` | `NoticesStayTrue` |

The inductive invariants, and why the properties alone are not inductive:

* *Claims* (`ClaimInv`). A claim is a row together with its attempt. Claims are
  exclusive because no batch holds an attempt beyond the row's counter and every claim
  raises the counter; both facts have to be carried along.
* *Handling* (`HandledInv`). A row may be marked PROCESSED only by an instance whose
  cursor is past all handlers, so the invariant says of every cursor that the handlers
  behind it have run, and of queued ASYNC calls that all have. `PriorityOrder` is part
  of it and is used in the proofs only.
* *Attempts* (`AttemptsInv`). A row that may be claimed again (PENDING, or PROCESSING
  with a stale lock or with nobody holding its current attempt) is still below
  `MaxAttempts` plus the faults so far: `retryFailed` looks at the attempts, and every
  other way back to PENDING costs a fault.
* *Refinement*. With these three, each action is one abstract step or a stutter under
  the mapping of `OutboxDelivery`; a cycle's queries and deaths are stutters, marks are
  acknowledgements or take one back.
* *Orders* (`OrderInv`). What a request has read is an earlier state: the invariant
  says of every stored view that events sent and final payments seen then are still
  there now, and of every pending call that what allowed it still holds.
* *Stock* (`FifoInv`, `OrderedInv`). The view of a transaction that consumes may miss
  the newest batches, but of every batch that arrived before one it has seen it shows at
  least what remains; conditional decrements on current rows then give FIFO. With
  `order.created` settled first, a pending deduction knows whether its line holds a
  reservation.
* *Money of an order* (`MoneyInv`). A sum read before a lock only misses payments, because
  a payment that has succeeded stays so. Whoever found the total paid, and everybody who
  relies on the event or the status that says so, is therefore still right: the
  invariant says it of the status, of `payment.succeeded.full` and of the calls under way.
* *Checkout* (`CheckoutInv`). `FitsSoFar` says of every call between its reads that its
  discount fits the subtotal it was computed for; `used_count` is the number of the
  discounted orders that stand plus what repeated checkouts counted twice.
* *Evidence* (`EvidenceInv`). A request knows one row from one transaction to the next:
  `Known` says that the proof or session it works on is there, and that a proof about to
  be marked has its success; `Images` that no request deletes an image that is named or
  that another is about to name, and `Callbacks` that what a callback has read is
  still the session's data while no second one is under way.
* *Stock counters* (`BooksInv` of the stock). On hand, the batches and the movements are three
  books of one thing, and no step computes one from another: each step changes all of them
  by the same amount, also one that consumes several batches, and the counter of reservations
  with the reservations.
* *Units* (`AssetInv`). `PromisedOnce` counts; `Promise` says the same of one asset without
  counting, and what its status means for the orders that want it. Counters follow
  because every hold is of an asset of its own.
* *Documents and entries* (`BooksInv` of the ledger). Documents and entries are only added, so
  what an agent has found stays true: `Sound` says of everybody about to book an entry that
  its document is there and that the entry before it is booked, and of everybody who saw
  the entry or finished a document that the books show it. `EntriesFollow` (no entry without
  its document) keeps a direct booking from being the second one.
* *Balances* (`BalanceInv`). A balance is a sum over all documents of the effect of their
  entries; with one entry per event it splits into the sums by kind. `PaidTogether` (an
  order paid at once is written with its payments) and `AgentsRestock` tie the kinds together.
  `BooksBalance` has three hypotheses, all about the data and not about what happens:
  documents are finitely many, payments are of orders, and the payments of an order add up
  to its amount, which is the meaning of a paid order (orders paid in parts are not in
  `Ledger`, section 5).
* *Invoices* (`SupplierInv`). A payment writes its amount on top of what it has read.
  `Holding` says that what it has read is still the case and that nobody else is paying
  the same invoice, which is what the lock taken as the first statement is for.
* *Tills* (`PosInv`). A session has one closer, and the sum it has read is true until cash
  moves in the session, which is when `afterClose` names it; a user has one open session.
* *Purchasing* (`PurchasingInv`, `ReceiptsInv`). Received quantities only grow, so those of a
  view are lower bounds of the current ones; a receipt that computes RECEIVED from a view is
  right about the present. A view that allows a receipt was taken after an approval. And
  every receipt adds to the received quantities what it brings to the sum of the receipts.
* *Transformations* (`XfInv`). Only a document without notes has moved nothing for certain, and
  an execution adds as many movements as the document has lines, for which the recursion
  over the lines is shown to have a value.
* *Barcodes* (`BarcodesInv`). What a call has still to do is one of eight shapes (`InOrder`),
  and each says what its past steps have seen to: that there is no active barcode beside the
  one to be written (`Vacant`), or no primary one. An owner with two primary barcodes has a
  call that is about to take one of them down.
* *Set-up* (`SetupInv`). The options say what the last call that named them said
  (`OptionsKeep`), and a line that no change has outdated would be accepted again by
  the rows as they are (`FreshLineFits`); its base quantity is what its unit gives it for as
  long as it waits, since a unit with open lines keeps its factor.
* *Categories* (`TreeInv`). The paths agree with the parents (`PathsAgree`), and whatever a call
  has read that nobody made stale still fits (`ChangeFits`): the listed rows are exactly
  those below the category (`SubtreeIsKnown`), and the path computed for each continues the
  new path as its old one continues the old. That a category with the right path is reached
  from the root needs no induction over the tree: of the categories out of reach, one with
  the shortest path has a parent within reach.
* *Slots* (`DataInv`). A slot whose upserts never overlapped has one row, which holds what was
  set last, and what its one upsert has found is all of it.
* *Stock items* (`CatInv`). Of every call it says what is still to be done (`Searching`,
  `Stopping`, `Restarting`, `Reviving`, `Waking`), with what each step before has established; calls
  under way have different owners (`CallsApart`), and an owner nobody is busy with is
  `Settled`: its stock items are ready if it is live and asleep if it is not.
* *Workflow* (`TruthInv`, `SoloInv`). Every copy of a checkpoint names only committed
  actions; and, for a key that no late resume has overtaken, there is one runner at
  most, whatever its checkpoint leaves open has no certain effect, and the row of a
  FAILED execution holds the whole checkpoint.
* *Accounts* (`AuthInv`). The login of a user who has only one at a time writes on top of what it
  has read (`OneAtATime`); tokens carry the number of their login, which only grows, and a
  change of roles under way gives no role that was not asked for.
* *Customers* (`CustomersInv`). A call that has found a customer holds one of its own account, and
  a guest order whose e-mail has a customer is claimed, was skipped or came late.
* *Addresses and cart* (`BookInv`, `CartInv`). Between its two writes a request has left the flag
  it is about to set to nobody else (`ClearedForOne`); an update knows the key of the line
  whose row it holds, and no row is used for another line.
* *Catalogue* (`CatalogInv`). What a visit has been told is what the rows say (`Fits`), or something
  was edited since it began. Of a walk it says that what was shown is the beginning of
  *every* sequence the wanted products can be sorted into (`Walking`). There is one such
  sequence if the order tells all of them apart: two would differ first somewhere, and each
  would have further behind what the other has there. So the next page, sorted anew, carries
  the pages before it on.
* *Timeline and mails* (`TimelineInv`, `MailInv`). Who is about to announce an activity is the one
  run that created it; a mail that two processors did not both find is in the hands of one of
  them, and that one's stage says how often it was sent.

`Totals` is what these proofs say about sums. The community modules define a sum by a
function chosen to satisfy a recursion over subsets. That there is such a function, that
there is one only, and that an element more adds its value, is shown without an induction
rule: were there a set a claim is false of, there would be one it is true of without any
one of its elements (the subsets of a finite set are well founded under inclusion), and
one unfolding of the recursion contradicts it. Everything else
(sums of disjoint sets, of functions that differ in a point, of constants) follows in the
same way. Where a model has a recursion of its own (the sum over receipts, over sales,
over the lines of a transformation) it is shown to be one of these first.

What is assumed of constants beyond types and finiteness: markers for "no row" are not
data (`ProductData`, `StockItemSetup`, `Barcodes`, and others); a transformation has lines
(`ArrayMinSize(1)` in its DTO); a patch of a configuration names options of the schema; variants are
finitely many, because the code lists them; no category is above itself, which `TreeIsWhole`
says of `CategoryTree`, and pages have a size (`Min(1)` in the DTOs of the catalogue).

Every safety property that a passing run checks is stated by a theorem. Model-checked only:
`EventuallySettled`, `EventuallyBooked` and `ExceptionsFollowStock`, which are liveness.

## 5. What is not modelled

Taxes, units, rounding and formatting: amounts and quantities are small numbers, a price
is one of two, a conversion is a factor. Editing a PENDING order, orders of several
products at checkout, the period of validity of vouchers. `emit()` outside the outbox.
Assets moved between batches, the values of identifiers, fractions of units and groups of
measurement. Deliveries of workflows without an event key, and actions that emit the event that
triggered them. Reports and the lists of the back office, brands, banners, testimonials, the records of
customers, tickets, templates and webhooks: one statement each, and no other component
depends on them. Files, Telegram, the mail server and AI providers are external: a call
succeeds or fails. Of the books: the amount of a cost by unit, base unit and rounded
average (the code computes it differently in three places), the four accounts of payment
methods, which are one here, orders paid in parts, manual entries, the event of a new
entry, which is emitted before a surrounding transaction commits, and the replay of
workflow triggers at the end of a cycle, which repeats `WorkflowEngine`'s deliveries.
Deadlocks of database locks, which InnoDB resolves by rolling one transaction back,
appear as a rollback or an abandoned call.

## 6. Plan

1. `Fulfilment`: `OrderPayments`' statuses driving `Inventory`'s handlers through
   `EventDelivery`, with liveness: a paid order's stock is deducted or its event is a
   dead letter.
2. The safety part of `Fulfilment` as a theorem that cites those of `OrdersProofs` and
   `InventoryProofs`.
