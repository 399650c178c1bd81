# Teka RDC: a verification project

Teka RDC is a cash-on-delivery marketplace: buyers fill a cart and check out, sellers
prepare the orders, Teka's administrators receive, deliver and collect the cash, and
sellers withdraw what they earned. Its authority is the NestJS API (`src/apps/api`) over
one PostgreSQL database; the web and mobile applications only call it. This directory
holds TLA+ modules of the parts where requests race over rows, the TLC configurations
that check them on small instances, and TLAPS proofs, for every instance, of the checked
safety properties that hold.

Contents: 1. inventory, 2. modules, 3. how the modules read the code, 4. runs and
bounds, 5. findings, 6. proofs, 7. what is only model-checked, 8. not modelled,
9. plan.

## 1. Inventory

All of the state is in database tables; a request handler keeps nothing between
requests. Handlers interact through rows only (no queue, no cache of a decision), in
transactions at PostgreSQL's default READ COMMITTED level. Notifications and analytics
are sent after the commit and change none of the rows below.

| Component (under `src/apps/api/src`) | State | Operations | What is hard | What makes it correct |
|---|---|---|---|---|
| Order workflow (`orders/order-workflow.constants.ts`, `orders/order-inventory.ts`) | `orders.status`, `order_status_logs`, `products.quantity` | status table, `lockOrderForUpdate`, `releaseOrderStockHold` | the release must happen at the first entry into CANCELLED or RETURNED only, and histories exist that were written under older rules | stock is conserved; a final status is final |
| Buyer, seller and administrator operations (`orders/*.service.ts`, `admin/admin-orders.service.ts`) | `orders` | cancel, confirm, reject, process, hand over, receive, send out, deliver, force | each handler decides twice: on a read outside any transaction, then on the locked row | no handler acts on a stale decision |
| COD payments (`payments/payments.service.ts`) | `orders.paymentStatus`, `transactions` | create, complete, fail | two rows tell one story | they agree; a cancelled order hides no cash |
| Earnings (`payments/earnings.service.ts`) | `seller_earnings` | create, reverse, eligibility, commission snapshot | reversal and reservation do not lock what they read | an earning counts only while its sale stands |
| Returns (`returns/returns.service.ts`) | `return_requests`, refund transactions | request, approve, reject | requests and reviews race | one refund per order |
| Payouts (`payouts/payouts.service.ts`) | `payouts`, `seller_profiles.payout*` | request, approve, process, complete, reject, change destination | balance read and reservation are apart; the destination can change | an earning is claimed once, after its window, to a settled destination |
| Checkout and cart (`checkout`, `cart`; the checkout of the web shop and of the mobile application) | `carts`, `cart_items`, `orders`, the client's idempotency key | add, update, merge, place, retry | the lookup by key, the cart read and the transaction are apart; a client repeats what it got no answer for | an intent is ordered once, and a retry finds the orders of its key |
| Products (`products`, `admin/admin-products.service.ts`) | `products.status`, `products.quantity` | edit, submit, archive, restore, delete, approve, suspend | edits decide from stale reads; a form shows a quantity that sales move; deletions count orders first or not at all | no edit undoes a sale; an ordered product keeps its row |
| Product pictures (`products`, `cloudinary`, `common/uploads`) | `product_images`, files at the host | upload, duplicate, delete | rows of several products share a file; the file is deleted after the row | a deletion destroys no file of a row it finds (a copy that comes later may lose its file: section 5); the ceiling is overrun by a bounded number |
| Seller verification (`seller-verification`) | `seller_documents`, their files, `verificationStatus` | upload, submit, approve, reject, two retention sweeps | evidence is read before the transaction; the sweeps delete by age | a live document has its file |
| Sign-in and sessions (`auth`, `users/sessions.service.ts`, the clients' refresh) | `refresh_tokens`, the clients' tokens | sign in, rotate, sign out, revoke, request deletion, purge | two tabs refresh with one token; a replay ends every session | a race between honest requests never signs a client out |
| One-time codes (`auth/buyer-otp.service.ts`, `common/rate-limit`) | `otps`, `auth_rate_limits` | issue, verify, expire | counters and one-shot codes read and written in separate statements | a spent code stays spent |
| Reviews (`reviews`, `admin/admin-reviews.service.ts`) | `reviews`, the average and count on products and sellers | create, edit, delete, hide, delete by an administrator | each change recounts in its own transaction | a recount that overlaps no other stores the ratings of the visible reviews |
| Commission (`payments/commission-math.ts`, `commission`) | `commission_settings`, `seller_profiles.commissionRate`, its audit trail | read, set, clear, default, resolve, compute | a rate is written on a stale read; rounding | no override is lost; a commission never exceeds its line |
| Categories (`categories`, `common/taxonomy`) | `categories`, `product_attributes` | create, move, delete, attributes, products | an inner category serves no characteristics and lists no products; the guards read the tree before a write by id, without a lock | edits one after another keep a forest whose leaves stay leaves; overlapping ones close a circle only if two moves cross (section 5) |
| Addresses, towns and communes (`addresses`, `cities`, `admin`) | `addresses`, `communes`, the town of a shop | create, edit, delete, become a seller | two requests of a buyer both create; a commune disappears under an address | at most one live address, in the town of its commune |
| Broadcasts (`broadcasts`) | `broadcasts`, `user_notifications` | draft, send, delete, fan out | a long fan-out by offset over users who come and go; a restart in the middle | a sent broadcast reached those it addressed, if they did not move meanwhile (section 5) |
| Account deletion (`users/account-deletion.service.ts`) | `users.deletion*` | request, cancel, nightly purge | the purge runs for long over a list it read first | see the remarks of section 5 and section 8 |
| Everything else | see section 8 | | | |

The hazards behind these words, each at the line where it bites, are in `PROJECT.json`
under `hazards`, with the property that covers each.

## 2. Modules

Orders and money:

| Module | Contents |
|---|---|
| `OrderWorkflow` | the status table and the sets of statuses, constant operators |
| `StockUnits` | counting the units on the lines of a set of orders |
| `EarningsLedger` | the `seller_earnings` rows; `createEarning` and the two halves of `reverseEarning` |
| `OrderLifecycle` | orders with their stock, payment, earning and return rows; one action per handler transaction |
| `StockLedger` | abstract specification: what the handlers promise about stock |
| `PayoutDesk` | payouts, destinations and the open `requestPayout` transactions |
| `PayoutLedger` | abstract specification: bills that claim earnings, are paid once or voided once |
| `Marketplace` | `OrderLifecycle` and `PayoutDesk` over one database, with the properties that relate them |
| `LockOrder` | the row locks of every transaction above, taken statement by statement |

Beside them:

| Module | Contents |
|---|---|
| `CartCheckout` | the cart, the checkout screens of the shop and of the mobile application with their keys, and the checkout requests from lookup to answer |
| `IntentLedger` | abstract specification: an intent buys whole baskets of sellers it has not bought from, and a late retry buys nothing |
| `ProductCatalogue` | the status and the stock of a product under sellers' edits, moderation and sales |
| `ProductAssets` | pictures, the files several products share, uploads under a ceiling |
| `SellerVerification` | documents, decisions and the two sweeps of the retention job |
| `Sessions` | refresh tokens, the clients that hold them, revocation and the purge of accounts |
| `OtpCodes` | one-time codes and the budgets of those who ask and verify |
| `Reviews` | reviews, moderation, and the ratings recounted from them |
| `CommissionMath`, `CommissionDesk` | rounding; the rates, who may overwrite whom, and the commission of a delivery |
| `Taxonomy` | the category tree: each edit reads it with its guards, counts rows, and writes by id whatever was written in between |
| `Places` | the addresses of a buyer, communes and becoming a seller |
| `Broadcasts` | one broadcast, its requests and their fan-outs |
| `Platform` | these parts in one specification |

Instances and proofs:

| Module | Contents |
|---|---|
| `MCOrderLifecycle`, `MCMarketplace`, `MCLockOrder`, `MCReviews`, `MCPlatform` | instances for TLC |
| `OrderLifecycleProofs` | theorems of `OrderLifecycle`, with the counting lemmas |
| `MarketplaceProofs` | theorems of `Marketplace` |
| `LockOrderProofs` | theorems of `LockOrder` |
| `CheckoutProofs` | theorems of `CartCheckout` |
| `CatalogueProofs` | theorems of `ProductCatalogue`, `ProductAssets` and `Reviews` |
| `AccountProofs` | theorems of `OtpCodes`, `Places`, `Sessions` and `SellerVerification` |
| `AdministrationProofs` | theorems of `CommissionMath`, `CommissionDesk`, `Taxonomy` and `Broadcasts` |
| `PlatformProofs` | theorems of `Platform`, from those of its parts |

`OrderLifecycle` EXTENDS `OrderWorkflow`, `EarningsLedger` and `StockUnits`, and
instantiates `StockLedger` under the refinement mapping `shelf <- stock, phase <-
HoldPhase`. `PayoutDesk` EXTENDS `OrderLifecycle` because the two share the earnings
table. `Marketplace` composes their next-state relations and instantiates `PayoutLedger`
under `claim <- ClaimOf` (the payout of each earning), `bill <- Bills` (the phase and the
seller of each payout), `Amount <- Total`: destinations, orders, reads and locks are
gone, PENDING, APPROVED and PROCESSING are all "open", and what is left is which bill
claims what. `CartCheckout` instantiates `IntentLedger` under `sold <- placed`,
`request <- Requests` (unsent, open or answered; cart, stock, screens and reads are
gone). `Platform` composes the parts of the second table.

## 3. How the modules read the code

**Handlers.** Every order handler reads the order, refuses early, then opens a
transaction that locks the row (`SELECT ... FOR UPDATE`), validates it again and writes.
`PreRead` is the first half: it records the call and changes nothing else. The call then
stays in `call[c]` in phase `begun` while other callers move. The transaction is one
action (`BuyerCancels`, `SellerRejects`, `AdminCancels`, `SellerMoves`, `TekaMoves`,
`Delivers`, `ForceCancels`): it is one step because everything it decides from is locked
until it commits, and it carries every write of the handler, stock release, log, COD
failure, earning and status. `Admits` is the validation of each handler and is evaluated
twice, on the pre-read and on the locked row (`Revalidates`); `Refused` is the second
evaluation saying no.

**Where a transaction is not one step.** `reverseEarning` reads an earning that nothing
locks and later updates it by id. `approveReturn` and `forceStatusChange` are therefore
split at that read: `Locks` (locks, validates, reads the earning), then `ApprovesReturn`
or `Forces` (every write). In between the order and the return request stay locked
(`OrderLocked`, `RequestLocked`); the earning does not. The order-side writes that
precede the read in the code are invisible to others until the commit, so they are
placed in the second step. `requestPayout` is split the same way: `ReadsBalance` takes
the profile lock and reads open payouts, eligible earnings and the destination;
`Reserves` inserts the payout and runs the guarded `updateMany`; `GivesUp` is the
rollback. `createReturnRequest` takes no lock at all and is split between its search and
its insert (`LooksForActiveRequest`, `CreatesRequest`).

**Locks one at a time.** `LockOrder` looks inside the transactions that the other
modules make one step. A connection `Begins` a job, `Locks` its first rows
(`FirstLocks`), `Decides` from what it reads under them which rows it goes on to lock
(`FurtherLocks`: `DeliveryLocks`, `ReturnLocks`, `PayoutLocks` and so on, each the order
of the statements of one handler), waits for each row that another transaction holds in
a conflicting mode (`Blocks`), and `Commits`, which makes its writes visible and
releases everything, or `RollsBack`. Modes are PostgreSQL's: `FOR UPDATE`, the lock of
an UPDATE, and the key-share lock that an insert takes on the row its foreign key names
(an earning on the seller's profile, a return request on its order). A statement that
updates many rows takes them in any order; a loop over sorted product ids in that order.
The data is reduced to what decides the locks: which earnings are in which payout, and
which payouts are open. Whether a history shows a release, a status allows a step or an
earning is eligible is a free choice there, which only adds behaviours. The unique index
on open payouts makes no one wait: a second request of the seller waits for the profile
first. The rows of users, addresses, carts and the audit log are left out.

**Requests of the other parts.** The handlers of `Platform`'s parts take few locks. Each
is cut at every read that a later statement relies on: a request is a record (`attempt`,
`clerk`, `worker`, `hand`, `refresh`, `call`, `writer`, `change`, `visit`, `sender`,
`treeEdit`) that carries what was read, and one action per statement or transaction that
writes. A call to an external store is a step of its own, as is each statement of a loop
that is not inside a transaction. `RequestFails`, `Restarts` and the like end requests
between any two steps.

**One part at a time.** In `Platform` one part moves in a behaviour. The parts meet in
few rows, and there each has the other's moves as its own: the checkout has restocks and
sales of others and products that come and go, the catalogue has sales and restocks,
`Sessions` has the suspension of the account, `ProductAssets` the reset of the
catalogue, `Places` the deletion of communes and the change of role. A property of a
part that holds while the others rest then holds whatever they do, and the state space
is the sum of the parts', not the product.

**Failures.** `Aborts` and `GivesUp` end a call at any point without effect: a
transaction timeout, a dropped connection or a statement that throws. Nothing is kept
outside the database, so a crash of the API process is the same event; where a crash
leaves work half done (files at the host, a fan-out, a sweep) the module has the state
it leaves. A client's retry is another call with the same key (checkout) or the same
token (refresh); an answer may be lost, and then the client knows nothing.

**State.** `order[o].released` stands for "the order's log has a row into CANCELLED or
RETURNED", the only question the code asks of the log. `isPaid` and `payoutId` are
always written together, so an earning has one `payout` field. A payout's amount is the
sum of the earnings read; the row keeps that set (`claims`). `cod[o]` is the status of
the order's single COD PAYMENT transaction, `refunds[o]` the number of its REFUND
transactions. `roll` in `Broadcasts` is the audience in the order a query without ORDER
BY finds it: a page is an offset into it, and a row changes place only when it is
inserted, deleted or rewritten.

**History variables**, which no action reads: `hold` (checkout took the units of an
order and nobody gave them back), `meant` (the stock that sales, restocks and edits add
up to), `held` (a moderator's suspension stands), `calm` and `alone` (nobody ended a
session; who ended the others), `spent` (codes consumed), `exact` and `exactAll` (the
last recount overlapped no other), `steady`, `lost` and `moved` (who was addressed
throughout, a page was not written, the audience moved), `inTurn` and `crossed` (no edit
of the category tree was overtaken between its read and its write; a move was overtaken
by another move), the fields `sure` and `straight` of an edit that these are taken from,
the field `late` of an image (inserted when a deletion had looked for the rows of its
file), and the field `known` of a checkout request.

**Initial states.** New orders are `UNPLACED`. Orders in `Legacy` may start in any
cancellable status with a release already in their log, holding their stock or not: that
is what a forced status change before 2026-10 left behind (the comment on
`forceStatusChange`), and it is why `releaseOrderStockHold` consults the log. The other
parts start empty, except for shelves, communes and category trees, which may be filled
in any way.

**Assumptions about time.** An upload ends within the hour that the verification sweep
leaves it. A refresh call ends before the grace window of the rotation it meets is over.
A rotated token may become `old` at any other moment.

**Abstractions.** Only COD orders (the checkout DTO accepts nothing else). The refusals
of checkout that do not depend on stock (address, delivery zone) are part of "checkout
did not happen". Audit rows, notes, `returnedAt`, reasons and notifications are left
out. The COD transaction is created with the order. Fresh keys, tokens and requests are
taken in a fixed order, since their names mean nothing. The rate limit of 60 refreshes
per token and the expiry of a refresh token after seven days are left out. An edit of
the category tree reads its categories, the structure and the rows of attributes and
products in several statements; `Taxonomy` has two reads, of the tree and of the rows,
and the write.

## 4. Runs and bounds

| Run | Instance | Distinct states | Shows |
|---|---|---|---|
| `order_lifecycle` | a new order of three units over two products, a legacy order of one unit, two concurrent callers, two return requests, one forced change, time 0..1, window 0 | 1.1 million | `TypeOK`, `StockConserved`, `HoldLastsAsLongAsTheSale`, `CancelledHidesNoCash`, `PaymentMatchesTransaction`, `EarningFollowsSale`, `RefundedOnce`, `FinalStatusesAbsorb`, `ImplementsLedger` |
| `marketplace` | two orders of one seller, one order caller, two payout requesters, two payouts, one destination, time 0..2, return window and cooling-off 1 | 0.7 million | `OneOpenPayout`, `PayoutBacked`, `ReservedOnlyWhenSettled`, `PaidToASettledDestination`, `ImplementsPayouts` |
| `lock_order` | two connections, an order over two products and one over the second of them, one seller, one return request, two payouts | 0.3 million | `NoDeadlock`, `DecisionsStand`, `EveryTransactionEnds` |
| `platform` | each part with the bounds below | 0.7 million | `PlatformTypeOK`, `ImplementsIntents`, `RetryFindsItsOrders`, `StockEditsKeepSales`, `OrderedProductKeepsItsRow`, `FoundRowsKeepTheirFiles`, `CeilingHolds`, `LiveDocumentHasItsFile`, `RacesKeepTheSession`, `SpentCodeStaysSpent`, `RatingsFollowVisible`, `OverridesChain`, `OneDeliveryAddress`, `SentReachesAll`, `CirclesTakeCrossingMoves`, `EditsInTurnKeepTheTree` |
| `committed_cash`, `delivery_creates_earning`, `suspended_not_restored`, `badge_rests_on_evidence`, `current_session_survives`, `every_recipient`, `crossing_moves`, `late_copy` | small instances | counterexamples | section 5 |

**Orders and payouts.** Two callers are the smallest number that races, and every
conflict in the code is pairwise (one row lock). The two orders together ask for more of
the first product than there is, so checkout is refused, and a wrong release shows at
once. One forced change suffices to reach every legacy-like path, since the legacy order
starts after one. Time 0..1 with window 0 gives an instant inside and one past the
window; two return requests may belong to one order, the smallest instance in which two
approvals compete for one refund; the marketplace run needs 0..2 so that a delivery, its
window and the cooling-off of a destination can all end. Two payouts and two requesters
are the least that can claim the same earning twice. `MaxForced`, `MaxTime` and
`Requests` are the only bounds on otherwise unbounded behaviour; `RequestLeft` refuses
to start a return request that would find no row left, so a caller never waits on the
bound.

**Locks.** Two connections are enough for every pair of jobs, the pair working on the
same order included; that no longer circle exists with more connections is a theorem
(section 6). Deadlock freedom is `NoDeadlock`; TLC's own deadlock check stays on there
too and never fires, since a transaction may always roll back.

**The platform.** In every part two requests meet, which is where its races are:

| Part | Instance |
|---|---|
| checkout | two products of two sellers, one web screen with two keys, two requests, one unit of each |
| catalogue | two clerks, stock up to 2, one unit sold, edits of the text, of the quantity from a stale and from a fresh form, and of both |
| pictures | two workers, two products (one may be a duplicate of the other), three files, a ceiling of one |
| verification | two documents of one required type, two requests |
| sessions | one phone, two refreshes at once, three tokens |
| codes | two codes, two askers, two verifications, two attempts, budgets of one |
| reviews | three pairs of buyer and product over two products, two writers, three requests |
| commission | scale 10, one rate of 5 and one amount of 3, so that the half is rounded; two administrators, a trail of two |
| categories | four categories, depth three as in the code, two edits; at the start up to four categories, or three of which one is in use, or two in use |
| places | two towns, one commune, two addresses, two requests |
| broadcasts | two users in pages of one, two senders |

A ceiling of one with two workers lets a race overrun it, and a page of one user makes
every fan-out read several pages. Four categories are enough for a branch of three
levels beside another root, and for two moves, or a move and a creation or deletion, to
cross; every forest within the bound of the start (`MaxAtStart`) is a starting point.
One or two categories in use are enough, since each guard asks of one category, or of
those of one deletion, whether any is. Bounds that end a behaviour (`MaxUnits`,
`MaxStock`, `MaxSold`, `MaxCode`, `MaxRequests`, `MaxTrail`, `MaxRow`, `MaxNode`, the
numbers of keys, tokens, files, documents and edits) are refused by the guard of the
action that would pass them.

TLC's deadlock check is off where everything may really be used up: an order run ends
when all orders are final, a part when its keys, codes or rows are. Symmetry: callers
and return requests in `order_lifecycle`; orders, payouts, requesters and return
requests in `marketplace`, where every constant function is uniform. `lock_order` uses
none, since it checks liveness, and `platform` is small enough without.

**Fairness.** Only `LockOrder` assumes any: weak fairness of `Decides` and `Commits` (a
handler's code runs on) and strong fairness of `Locks` (PostgreSQL queues the waiters of
a row, so a waiter whose row becomes free again and again is served). `Begins` and
`RollsBack` are not fair: nobody has to call, and no wait may need a timeout to end.
With more connections, key-share lockers that overlap for ever could starve a payout
request; only its own timeout ends that wait, so `EveryTransactionEnds` is claimed for
two. Elsewhere no liveness is stated: every request of this system may be abandoned by
its client, and the code schedules no retry of its own; a broadcast whose fan-out a
restart interrupts stays SENDING for ever.

Each property of a passing run has a mutant in `PROJECT.json`: an operator next to the
definition it replaces, marked `Variant`, that makes a plausible mistake (dropping the
history check of a release, trusting the pre-read, forgetting to compare the count of
the guarded update, taking a full page for the last one, measuring a move by its target
alone, ...), under which TLC finds the property violated.

## 5. Findings

* **Cash committed without a clawback mark** (`CommittedCashIsFlagged`). A return is
  being approved: `reverseEarning` has read the earning as free. Before its update, the
  seller's `requestPayout` commits and reserves the row. The update, by id, stamps
  `reversedAt`; the payout keeps the earning and `clawbackRequiredAt` stays null,
  although the comment on `reverseEarning` and `docs/payouts.md` promise it. It needs an
  order exactly at the end of its window, or a return approved late. The comment in
  `requestPayout` that such a move is "impossible under the lock" is about the same
  window: the profile lock does not cover it.
* **A delivery without an earning** (`DeliveryCreatesEarning`). Delivered, forced back,
  delivered again: `createEarning` finds its own reversed row and skips.
* **A suspension that an archive lifts** (`SuspendedNotRestored`). The seller's archive
  looks at no status: a suspended product becomes ARCHIVED, and restore makes a DRAFT of
  it, although "Admin-suspended products are NOT seller-restorable".
* **A badge without evidence** (`BadgeRestsOnEvidence`). `approve` reads the documents
  before its transaction, and the transition from REJECTED is allowed: a rejection in
  between leaves the seller VERIFIED on rejected documents.
* **Ending the other sessions ends one's own** (`CurrentSessionSurvives`). The clients
  of the revoked sessions are not told; the first of them that refreshes after the grace
  window is taken for a replay, which revokes every session of the user.
* **A recipient who is skipped** (`EveryRecipientIsFed`). The fan-out pages by offset:
  when a user of an earlier page leaves the audience, the next page starts one row too
  late, and the broadcast is SENT.
* **A circle of categories** (`NoCircle`). `update` checks a move against the tree it
  has loaded and writes the parent by id later, with no lock. Two moves, each under the
  other's category, both pass and close a circle that no root leads to, although
  `category-structure.ts:44` has an edit "leave the tree an acyclic forest of depth ≤ 3".
  It takes two moves that cross: `CirclesTakeCrossingMoves` holds, also beside creations
  and deletions.
* **A copy without its picture** (`FilesOutliveTheirRows`). `duplicate` reads the
  pictures of its source before the transaction that inserts the clone. A deletion of
  the picture in between looks for other rows, finds none and destroys the file; the
  clone's row then names a destroyed file, which `products.service.ts:1170` calls a
  broken product. Only rows inserted after that look are concerned:
  `FoundRowsKeepTheirFiles` holds for the others.

Remarks that are not runs:

* The comment of the seller's `hardDelete` (`products.service.ts:1053`) calls it safe
  for past orders "even after the source product is gone", but `order_items` names its
  product with a foreign key that restricts (`prisma/schema.prisma`,
  `OrderItem.product`): the purge of a product that was ever ordered fails with an
  unhandled error, where the administrator's `hardDeleteProduct` counts the orders and
  refuses. `OrderedProductKeepsItsRow` holds for that reason, and a failed purge is
  `Fails` in `ProductCatalogue`.
* `createReturnRequest` looks for an active request and inserts one in two statements
  (`returns.service.ts:65`), so two calls at once can leave an order with two active
  requests against "only one active request at a time" (l.41); the order is still
  refunded once (`RefundedOnce`).
* `canReview` and its test (`reviews.service.spec.ts:54`) tell a buyer whose review was
  deleted that another may be written, but the unique index over buyer and product
  counts the deleted row, and the insert is refused (`RefusesDuplicate`).
* Category edits that overlap can do more than close a circle: a child created under a
  category that is being deleted stays live without a way to it, two moves can grow a
  fourth level, and a product or a characteristic can be added to a leaf that gains a
  child meanwhile (`categories.service.ts:178`, `:275`, `:374`, `:434`); the comment in
  `softDelete` owns up to such a window. `EditsInTurnKeepTheTree` is what holds without
  overlaps.
* A recount of ratings that overlaps another one can miss its review until the next
  recount (`reviews.service.ts:419`).
* An order forced into DELIVERED never had its cash collected, yet approving its return
  records a completed refund (`returns.service.ts:217`).
* `ReservedOnlyWhenSettled` had to admit earnings that carry a clawback mark, because a
  reversal that read the row while it was reserved may flag it after the payout was
  rejected and a new request has read it.
* A line added to the cart between the cart read of a checkout and its transaction is
  deleted without being ordered (`checkout.service.ts:74`).
* A seller's edit that decided on a stale status overwrites a moderator's decision
  (`products.service.ts:712`).
* The purge anonymises an account that was reactivated after the list was read
  (`account-deletion.service.ts:296`).
* The blockers of a deletion (`account-deletion.service.ts:211`) are counted one after
  the other outside any transaction: a payout rejected between the count of the earnings
  and that of the payouts frees earnings that neither count saw, and an order placed
  after its count is not seen at all.
* `getOrCreateConversation` looks in both directions, but the unique index knows one:
  two sellers who write to each other at the same moment get two conversations.

## 6. Proofs

TLAPS checks every theorem below for all values of the constants that satisfy the named
assumptions of the modules: `OrdersAssumption`, `NullsAssumption`, `NoCallAssumption`,
`BoundsAssumption`, `NoPayoutAssumption`, `StockAssumption` (initial counts cover what
legacy orders hold), `PayoutAssumption`, `LockConstants`, `CheckoutConstants`,
`CatalogueConstants`, `AssetsConstants` (there are products, and finitely many workers),
`ReviewConstants` (finitely many reviews), `VerificationConstants`, `SessionConstants`,
`OtpConstants`, `PlacesConstants`, `ScaleConstant`, `DeskConstants`,
`TaxonomyConstants`, `BroadcastConstants`. They only fix types, make the absent values
differ from the real ones and keep bounds natural. The theorems on the forest have
`MaxDepth = 3` as a hypothesis: the code's constant is three
(`common/taxonomy/category-structure.ts`).

| Module | Theorem | Statement | Inductive invariant |
|---|---|---|---|
| `OrderLifecycleProofs` | `TypeCorrect` | `TypeOK` | itself, since `takeStock` refuses what is not there |
| | `LocksHold` | open transactions exclude each other, and what they re-validated stays true | `CallInv` |
| | `StockIsConserved`, `HoldFollowsSale` | `StockConserved`, `HoldLastsAsLongAsTheSale` | `StockInv` |
| | `HandlersImplementLedger` | `Spec => ImplementsLedger` | initial states map to initial states, each action to `Take`, `Release` or a stutter |
| | `FinalStatusesAbsorbSteps`, `EarningsFollowSales`, `RefundsAreOnce` | `FinalStatusesAbsorb`, `EarningFollowsSale`, `RefundedOnce` | from `CallInv` |
| | `CashIsNeverHidden`, `PaymentsMatch` | `CancelledHidesNoCash`, `PaymentMatchesTransaction` | `CashInv` |
| `MarketplaceProofs` | `MarketTypeCorrect` | types of orders and payouts together | itself |
| | `PayoutsAreOneAtATime`, `PayoutsAreBacked` | `OneOpenPayout`, `PayoutBacked` | `AskInv` |
| | `PayoutsGoToSettledDestinations`, `ClosedPayoutsAreFinal` | `PaidToASettledDestination`, `ClosedPayoutIsFinal` | `AskInv` |
| | `SalesStand`, `FinalStatusesAbsorbInTheMarket` | the properties of the orders with payouts moving too | `SalesInv` |
| | `MarketImplementsStockLedger` | `MarketSpec => ImplementsLedger` | `SalesInv`; the desk stutters |
| | `DeskImplementsPayoutLedger` | `MarketSpec => ImplementsPayouts` | `AskInv`, `AsksWorthily`; each action maps to `Opens`, `Pays`, `Voids` or a stutter |
| | `ReservationsAreSettled` | `ReservedOnlyWhenSettled` | `ClaimsInv` |
| `LockOrderProofs` | `NeverDeadlocked`, `PayoutReadsStand`, `LockShapes` | `NoDeadlock`, `DecisionsStand`, `LockTypeOK` | `WaitInv` |
| `CheckoutProofs` | `CartTypeCorrect`, `IntentsOrderOnce`, `RetriesFindTheirOrders` | `CartTypeOK`, `OncePerIntent`, `RetryFindsItsOrders` | `CartInv` |
| | `CheckoutImplementsIntents` | `CheckoutSpec => ImplementsIntents` | `CartInv`, `RequestsSound`; each action maps to `Sends`, `Buys`, `Repeats`, `FindsNothing`, `Fails` or a stutter |
| `CatalogueProofs` | `EditsKeepSales`, `OrderedProductsStay` | `StockEditsKeepSales`, `OrderedProductKeepsItsRow` | `CatalogueInv` |
| | `RowsKeepTheirFiles` | `FoundRowsKeepTheirFiles` | `FilesInv`, `UploadsAreFresh` |
| | `OverrunIsBounded` | `CeilingHolds` | `RoomInv` |
| | `RatingsAreOfTheListed` | `RatingsFollowVisible` | `RatingsInv` |
| `AccountProofs` | `SpentCodesStaySpent` | `SpentCodeStaysSpent` | `SpentInv` |
| | `BuyersHaveOneAddress` | `OneDeliveryAddress` | `AddressInv` |
| | `RacesNeverSignOut` | `RacesKeepTheSession` | `SessionsInv` |
| | `EvidenceHasItsFile` | `LiveDocumentHasItsFile` | `PapersInv` |
| `AdministrationProofs` | `CommissionWithinLine` | a rounded commission is at most its line, at any scale and rate | |
| | `DeskTypeCorrect`, `OverridesNeverLost` | `DeskTypeOK`, `OverridesChain` | `DeskInv` |
| | `LeavesStayLeaves` | `[][inTurn' => LeavesStand]`, for any depth | `TreeInv`, `ReadsStand` |
| | `TurnsKeepTheForest` | `EditsInTurnKeepTheTree` | with `ThreeLevels` |
| | `OnlyCrossingMovesCloseCircles` | `CirclesTakeCrossingMoves`, for any depth | `TreeInv`, `CircleInv` |
| | `SentBroadcastsReach` | `SentReachesAll` | `FanOutInv` |
| | `BroadcastTypeCorrect` | `BroadcastsTypeOK` | `FanOutInv`, `RollInv` |
| `PlatformProofs` | `PlatformImplementsItsParts` | `PlatformSpec` implies the specification of every part | |
| | `PlatformTypeCorrect`, `PlatformKeepsItsPromises`, `PlatformKeepsTheTree` | `PlatformTypeOK`; the fourteen invariants of the parts; `EditsInTurnKeepTheTree` | those of the parts |
| | `PlatformImplementsIntents` | `PlatformSpec => ImplementsIntents` | |

Almost none of the safety properties is inductive. What each proof needs besides:

**Orders.** An open transaction writes what it decided when it took its locks, so the
proof needs to know that the decision is still right: `LockedViewIsCurrent` says that
while a call is in phase `locked`, its order still satisfies what was re-validated, its
request is still REQUESTED, and what it read of the earning is what a fresh read would
give. That is preserved because no other call can write a locked order (`LockExclusion`)
and every other step respects `OrderLocked`. `StockConserved` needs
`HistoryTellsTheHold`: an order that is not a legacy one holds its stock exactly when it
is placed and its log shows no release. Without it a release could add units of an order
that holds none. The rest is counting: the units of a union of disjoint sets of orders
add up, a release moves exactly the units of one order, a checkout those of its group.
Quantities are counted as a set of pairs so that the total is a cardinality and no
recursive sum stands between the prover and the fact.

**Payouts.** `SalesInv` carries the invariants of the orders over: the desk moves
neither an order nor the state and the flag of an earning, so none of them is disturbed.
`AskInv` is what an open payout request knows under the lock of the profile: no other
request is at work for its seller, the seller has no open payout, and may still
withdraw. `ClaimsInv` says what may happen to an earning between the read of the balance
and its reservation: it was reversed or flagged, or its sale still stands past its
window. For the refinement, opening a bill must find the earnings unclaimed, worth the
minimum and no other bill of the seller open, although the request read all three
earlier: the guarded `updateMany` and the count behind it give the first, `AskInv` (the
profile is locked) the last, and `AsksWorthily` that what was read was worth enough. A
rejection frees every earning that names the payout, so a bill is voided whole. The
ledger says nothing of the return window or of destinations: those are
`ReservedOnlyWhenSettled` and `PaidToASettledDestination`.

**Locks.** Every transaction takes rows in one order of the tables (return request,
order, product, COD row, profile, payout, earning), and products in the order of their
ids: `SlotInv` says so of what is held and what is still to lock. In a circle of
waiters, take the wanted row of the highest rank: whoever holds it waits for a row that
comes later. Only earnings have no order among themselves; but a transaction that waits
for one while it holds another is a payout request or a payout rejection, it holds the
profile or the payout that leads to its earnings, and two such sets are disjoint
(`ClaimsDisjoint`), so that no two of them compete.

**Checkout.** `RetryFindsItsOrders` is part of its own invariant: a request that was
sent after its intent was ordered finds the orders, since it looks by key before
anything else. `PlacedInv` is what the unique index keeps, one order per key and seller;
with it no line is ordered twice under one key (`OncePerIntent`). The ledger of intents
says this of steps: a basket is bought whole at one moment, the commit, although the key
and the cart were read earlier. The proof needs `RequestsSound`: a request in phase
`read` carries a basket that is not empty, so a commit places at least one order, and an
unsent request has told nothing yet. That a late request never buys is
`RetryFindsItsOrders`; that the sellers of an intent differ is the unique index (`KeyTaken`).

**Catalogue and pictures.** Only an edit plans a stock write, and it knows the count it
compares with (`PlansKnowTheStock`). A file that a row names is kept and not condemned
by a request at work, unless the row came after the look (`NamedFilesAreSafe`); an
upload in flight brings a file that no row names, and the first product receives
uploads only, so that its rows and theirs are never late (`UploadsAreFresh`). For the
ceiling, the images of a product and
the uploads that have counted and not yet inserted stay together within `MaxImages` plus
one less than the number of workers (`Room`).

**Reviews.** `RatingsInv` says of a writer that nobody overtook (`WriterSound`) that the
sums it carries are those of the reviews with its own change in them, and of the stored
ratings, where no recount overlapped, that they are those of the rows. A rating is a sum
over a function; that two such sums agree is shown by a smallest set on which they
would differ, which needs no induction.

**Verification.** `PapersInv`: live evidence has its file, two requests never hold one
row, and the sweep works only on documents that stay due and on uploads that nobody
holds.

**Accounts.** For codes, a spent code has no row any more, and a call whose code was
spent before it was sent never gets as far as a match (`SpentInv`). For sessions,
`Peace` is claimed while nobody has ended a session: the token a client holds is live,
or in its grace window while a call of its own brings the successor, and no two clients
hold or are about to receive the same token. For addresses, the lock of the user's row
makes a buyer's creations exclude each other.

**Administration.** Rounding is proved from the division lemma. `FanOutInv` says that,
while no page was lost and the audience did not move, a fan-out has fed everybody in
front of its page (`Progress`); `RollInv` that nobody is on the roll twice, through
every insertion, departure and rewriting.

**Categories.** The line of a category is what lies in every set that holds it and that
one does not leave by going up (`Closed`), so no recursion is needed to speak of it. For
three levels a forest can be spelled out (`ThreeLevels`: a parent, or the parent's, or
its, is a root), and the two readings are proved equal. An edit in flight relies on
what it read, statements ago: `ReadsStand` says that as long as nobody wrote since
(`sure`), its guard still holds of the tree as it is (`GuardStands`), and the rows it
counted are still none. Of an edit that is written in turn the rest is a finite case
analysis: a moved category stays above its own subtree because `UnderItself` refuses it,
and its subtree stays within the levels because `Fits` measures it. For circles less is
left to rely on, since anything but a move may have been written in between: a move
that no other move overtook (`straight`) knows of a set of categories, closed under
going up from its target, that its own category is not in (`MovesClear`). Creations only
bring categories that nobody names yet, and deletions only cut lines, so that set stays
closed until the write, and whoever would close a circle would have to be in it.

**Platform.** A step of `Platform` is a step of one part that leaves the variables of
the others alone, hence a step or a stutter of each; every theorem of a part then holds
of the composition.

## 7. Only model-checked

* `EveryTransactionEnds`: liveness under fairness, which the prover does not reach. Its
  safety part, that no transactions wait for each other in a circle, is proved.
* The eight properties of section 5 that the code violates have a counterexample and, of
  course, no proof.
* The bounds of section 4 are about TLC's instances alone. The proofs leave the numbers
  of callers, orders, products, sellers, requests and rows open, and take the action
  guards that refuse to pass a bound as they are.

## 8. Not modelled

The modelled code is what decides: handlers that read, refuse and write. Most of the
repository's lines are something else (screens and components of three web applications
and two mobile ones, queries for lists, statistics and search, transfer objects and
their validation, seeds, tests), and a model of them would restate them. Per component,
with what is left out of the modelled ones:

* **Promotions**: a promotion is shown and changes no price, stock or order; each
  handler writes one row by id.
* **Wishlist, users and sellers, brands, zones, content, banners, contact**: single-row
  records. One relation between two rows remains open: a seller's profile edit that
  changes the town alone can race an approved move of the shop.
* **Messaging and notifications**: sent after the commit without retry; nothing depends
  on them. A conversation is two rows written by id (see the remarks of section 5).
* **Analytics, reports, browse and search**: reads.
* **Infrastructure, shared package, operations**: database client, configuration,
  probes, types, formatting, deployment scripts.
* **Web and mobile applications**: the checkout and the refresh of tokens are modelled;
  the other pages show what the API answers, and their caches decide nothing.
* **Sign-in**: passwords and their reset, a seller's registration, the claim of an
  account by a buyer, and the lengthening locks of the rate limiter.
* **Account deletion**: the obligations that refuse one (a remark of section 5 tells
  where they race) and the anonymised fields.
* **Verification**: the removal of all documents of a deleted account.
* **Addresses**: which one is the default, and the switches of towns and communes.
* **Sessions**: the expiry of a refresh token after seven days.
* **Products**: prices, discounts and characteristics.

## 9. Plan

Done: orders, stock and money with their refinement; payouts and their composition with
orders; row locks with liveness; checkout and cart with their refinement; catalogue and
pictures; verification; sessions and codes; reviews; commission; categories; addresses;
broadcasts; and the proofs of every safety property that the runs check and the code
keeps.

Next, in this order:

1. The obligations of an account deletion beside `Marketplace`, where payouts and
   earnings move between the counts.
2. Conversations, and the town of a shop.
