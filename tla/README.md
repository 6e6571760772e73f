# QuickCommerce in TLA+

Specifications of the QuickCommerce backend (`src/backend/apps`) and of the session and
cart of its client (`src/frontend/src`), their model-checking configurations, and
machine-checked proofs. Every definition follows the Python source;
the documents are used only as the place where a promise is written down.

## 1. Inventory of the system

QuickCommerce is a Django REST application over one SQLite database, with a React client,
a Redis stream for domain events and a payment gateway. Customers fill a cart from one
shop, check out, shopkeepers prepare, an admin assigns a delivery partner, the partner
delivers.

| component | state it keeps | operations | talks to | what must be right |
| --- | --- | --- | --- | --- |
| orders | `Order` (status, payment method and status), `OrderItem`, `OrderStatusEvent` | `place_order`, `transition_order`, `cancel_order` | takes from and returns to products; empties the cart; publishes events | only edges of the table; an honest audit trail; stock taken and returned once |
| products | `Product` (shop, name, category, stock, availability, price, discount) | create, update, delete, `update_stock`, `toggle_availability` | read by carts and orders | stock never negative, never sold twice; one product of a name in a shop; a product stays in its shop |
| pricing | none | `effective_price`, `calculate` | carts and orders | nobody pays more than the list price and one fee |
| carts | `Cart` (its shop), `CartItem` | `add_item`, `set_item_quantity`, `remove_item`, `clear_cart`, `validate_cart_for_checkout` | reads products and shops | one shop per cart; no line of a deleted product |
| delivery | `DeliveryPartnerProfile`, `Delivery` | `set_availability`, profile PATCH, approve / deactivate / activate, `assign_partner`, `transition_delivery` | drives orders through `transition_order`, and once past it | order and delivery agree; a partner is credited once; only approved partners online |
| shops | `Shop` (moderation status and reason, hours, accepting orders, cash) and KYC | register, `update_shop_profile`, approve / reject / suspend | read by carts and checkout; notices through events | owner, shop and KYC row come together; status and reason are of one request; the owner knows; open when the hours say so |
| payments | `Payment` attempts, `Order.payment_status` | `initiate_payment`, `verify_payment`, webhook | gateways; orders | paid once, recorded when it failed |
| events | Redis stream, consumer group | `publish`, worker loop, `dispatch` | called on commit by every service | every event handled, a bounded number of times |
| notifications | `Notification` rows | `notify`, handlers | subscribed to events; channels | one record per channel |
| locations | `Address` | create, update, set default, delete | checkout copies an address | at most one default, lost only for a reason |
| accounts | `User`, `DeliveryPartnerProfile` at sign-up | three registrations, log in, profile, activate | roles decide who may do what | one account per number; no half registration |
| catalog | `Category` | create, delete | products and shops are filed under one | no product under a category that is gone |
| dashboard, common, settings, seed data | none of their own | aggregates, the user switch, helpers | - | - |
| frontend | tokens, user, refresh promise, cart slice | requests, shared token refresh, log in and out, cart thunks, checkout | the API | one user's session at a time, no stale cart, nobody waits for ever |

**What is hard here.** Everything runs concurrently: several web workers, several people
on the same order. A service function under `transaction.atomic` is safe, but a view reads
its row *before* it calls the service, and some services trust that row (`assign_partner`,
`transition_delivery`, `cancel_order`) while others read it again (`transition_order`).
Two writes are not in a transaction at all (`clear_cart`), one writes back a whole row it
read earlier (the profile PATCH). Long sequences of legal requests cross product
deletions, recounts, cancellations, retries. Serializers look for a free name, number or
category and the row is written later; what has become untrue is left to constraints. In the
browser answers arrive in any order, several 401s share one token refresh, and the user may
log out or in meanwhile. PROJECT.json lists each such hazard at its
line, with the properties that watch it.

## 2. How the code is modelled

**Grain.** With these settings SQLite gives a transaction a shared lock from its first read to
its end and a reserved lock from its first write, and lets it commit when no other transaction
has a shared lock; what waits too long fails with "database is locked", which rolls it back. So
a function under `transaction.atomic` is one action, and a request that loses, like one that
raises, changes nothing and is no step. That this is right for the longest of them,
`place_order`, is not taken for granted: `LockedCheckout` has its statements one by one under
these locks, and implements `Checkout`, where it is one step. For the other functions under
`transaction.atomic` the argument is the same and is not repeated. It rests on the database
alone: SQLite ignores the code's `select_for_update`. `ATOMIC_REQUESTS` is not set: what a view
reads before the service call, and every statement outside a transaction, is on its own. Such an
endpoint is two actions with a *request in flight* between them (`cancelling`, `assigning`,
`advancing`, `initiating`, `goingOnline`, `patching`, `clearing`, `settingDefault`,
`repricing`, `adding`, `renaming`, `placing`, `signingUp`, `phoneEdits`, `moderating`); a
request in flight may wait for ever, and where two of them can have read the same, the commit
may leave the other one behind (`S' \in {S \ {i}, S}`).
`BaseRepository.update` saves only the named columns, so a stale object overwrites nothing
else; the profile PATCH, which does not use it, writes the whole row and is modelled so.

| module | models | state and actions |
| --- | --- | --- |
| `OrderStates` | `orders/constants.py`, `orders/state_machine.py` | the statuses, the roles, the edge table `TRANSITIONS`, `CanTransition` |
| `Products` | `products` as the others see it | `live`, `stock`; `UpdateStock`, `DestroyProduct` |
| `Orders` | `orders/services.py`, `orders/views.py` | `status`, `method`, `payment`, `lines`, `lastEvent` are the columns of the three tables; `PlaceOrder`, `Transition`, `CancelRead` / `CancelCommit`; `TransitionOrder` is `transition_order`, used by `Fulfilment` too |
| `Inventory` | what the shop is promised about its stock (abstract) | `Take`, `GiveBack`, `Write`, `Recount`, `Discontinue`; `books` stands for the orders' columns, which the shopkeeper's steps leave alone |
| `Carts` | `carts`, and the flags of shops and products | `cartShop`, `cartQty`; `AddItem`, `SetItemQuantity`, `ClearDeleteRows` / `ClearDetachShop`, the flips of the flags, `DeleteProduct` with its cascade |
| `Checkout` | carts and orders composed | `PlaceOrderFromCart` is `place_order` whole; every other step is one of `Carts` or of `Orders` |
| `LockedCheckout` | `place_order` under SQLite's locks | on top of `Checkout`, whose variables are what is committed: `tx` is, for each request, its next statement, its local variables and what it has written; `ReadCart`, `ReadShop`, `ReadCartLines`, `ReadItems`, `InsertOrder`, `TakeItem`, `Commit`, `Rollback`, and `OtherRequest` for every other endpoint; `Readers`, `Writers`, `OtherReaders` are the locks |
| `PartnerProfiles` | `DeliveryPartnerProfile` | `AvailabilityRead` / `AvailabilityWrite`, `PatchRead` / `PatchWrite`, `Approve`, `Deactivate` |
| `Fulfilment` | `delivery` composed with orders and profiles | `delivery`, `partner`; `AssignRead` / `AssignCommit`, `AdvanceRead` / `AdvanceCommit`, and the order endpoint beside them |
| `Payments` | `payments` composed with orders | `attempts` are the Payment rows, `issued` and `captured` what the gateway knows; `InitiateRead` / `InitiateCommit`, `VerifyPayment`, `Capture` |
| `Catalogue` | `products` and `catalog`: which rows there are | `listed`, `soldBy`, `name`, `category`, `categoryRow`; `AddCheck` / `AddProduct`, `RenameCheck` / `RenameProduct` with the database's constraints and the shop of the instance as it was read, `DelistProduct`, categories, and the moderation `resolve_shop_for_product_write` looks at |
| `Listings` | prices, on top of `Catalogue`; `carts/pricing.py` | `price`, `discountPrice`; `CreateProduct`, `RepriceRead` / `RepriceWrite`; `EffectivePrice` and `Calculate` are pure |
| `Addresses` | `locations` | `row`, `isDefault`; `CreateAddress`, `EditRead` / `EditCommit`, `DeleteAddress`; `DefaultsAfter` is `set_default_address` |
| `OrderRecords` | what an order copies: address and amounts | composes `Addresses` and `Listings`; `CheckoutRead` (the serializer's look-up) / `PlaceOrder` |
| `Accounts` | `accounts`, and the user switch of `dashboard` | `role`, `phone`, `active`, `profiles`; `SignUpCheck`, `RegisterCustomer`, `RegisterDeliveryPartner`, `SignUpFails`, `PhoneEditCheck` / `PhoneEditSave`, `SetUserActive` |
| `Shops` | `shops`, on top of `Accounts` | `shopStatus`, `statusReason`, `approvedAt`, `kyc`, `hours`, `accepting`; `RegisterShopkeeper`, `UpdateMyShop`, `ModerateRead` / `ModerateWrite` / `ModerateConflict`; a notice then takes the way `EventBus` has in detail, `Publish`, `Tell`, `NoticeLost`; `OpenNow` is `is_open_now` |
| `ClientSession` | `services/api.js`, `authSlice.js`, `App.jsx` | one tab: `tokens`, `user`, `request`, `refreshing`; one action per callback, from sending to a 401, the shared refresh, its end, log in, log out, reload |
| `Storefront` | `cartSlice.js` and the checkout page, on top of `ClientSession` | `cart`, the slice; the same steps with what they do to it |
| `EventBus` | `events`, and what `notifications` writes | `stream`, `trimmed`, `origin`, `cursor`, `pending`, `acked` are Redis, `web` a request after its commit, `worker` and `batch` a worker process, `copies` the Notification rows; one action per call that Redis or the database answers, one per way it may not |
| `OrdersProofs`, `CheckoutProofs` (carts and both grains of checkout), `FulfilmentProofs`, `PaymentsProofs`, `EventBusProofs`, `RecordsProofs`, `ShopsProofs`, `StorefrontProofs` | theorems | section 4 |
| `MC*` | constants, symmetry, bounds for TLC | section 3 |

**Left out of the data.** Each module keeps the columns its properties tell apart. `Orders`
and `Carts` have no prices and no addresses (these are in `OrderRecords`) and a fixed set of
products, none of them created later; creation is in `Catalogue`, and that no product changes
shop, on which `Carts` relies, is checked and proved there. Postal fields, descriptions,
pictures, notes and time stamps are nowhere. Amounts are whole coins, which is what `money()`
rounds to. An actor is its role:
a customer who cancels is the order's own (`get_queryset` sees to that). Of the audit trail
only the newest entry is kept, because each property compares one entry with the step that
wrote it. A stock figure or a quantity is at most `MaxStock` when somebody types it. Which
shop an order is addressed to is in `Checkout` only. `OrderItem.product` becoming null
when its product is deleted is `p \notin live`; ids are not used again.

**External parts.** The payment gateway issues a gateway order per initiation and lets the
customer pay any of them; a signature is what it proves, that a payment was made for the
gateway order presented. A failed verification raises out of the transaction that recorded
it, so nothing of it is left and it is no step; `RazorpayWebhookView` reads and writes no
row and is none either. The sandbox used when no keys are configured is left out. Redis is a
log with a length bound, a group cursor and a pending list; a call may succeed, fail, or
succeed without its answer arriving.

**Seeded faults.** Definitions under that heading are slips somebody could make in the code
(a lost guard, a partial release). No specification uses them. Putting one in the place of
the definition it is a slip of must break a property, and PROJECT.json says which.

## 3. What TLC checks

| run | specification, instance | shows |
| --- | --- | --- |
| `carts_race` | `CartsSpec`, 1 customer, 2 shops, 3 products | **violated**: `SingleShop` |
| `checkout` | `SerialSpec`, 2 customers, 2 shops, 2 products, 2 orders | `OrderFromItsShop`; `NoLineOfDeletedProduct`; `InventoryKept` with real carts |
| `locked_checkout` | `LockedSpec`, 2 customers, 1 shop, 2 products, 2 orders, 2 requests to check out | types; `NoReadIsStale`; `PlacedAtOnce` |
| `fulfilment` | `Spec`, 1 order, 1 partner, 2 requests in flight | types; `DeliveryNeverAhead`; `CreditedAtMostOnce` |
| `assignments_undisturbed` | `UndisturbedSpec`, 1 order, 2 partners, 2 requests in flight | `OnlyTableEdges`; `InventoryKept` |
| `stale_assign` | `Spec`, 1 order, 1 partner | **violated**: `OnlyTableEdges` |
| `payments` | `PaymentsSpec`, 1 order, 2 products, stock up to 2, 2 gateway orders, every endpoint of the orders app | types; `PaidWhenDue`; `SuccessIsCaptured`; `OneOpenAttempt`; `PaidIsFinal`; `AuditTrailIntact`; `InventoryKept` |
| `replaced_gateway_order` | same, 1 product | **violated**: `CapturedHasRow` |
| `events` | `BusSpec`, 2 events, 1 worker, 2 rows per handler, 2 entries per read, stream bound 1 | types; `CopiesBounded`; `AckedIsHandled`; `NothingForgotten`; `EventuallyNotified` |
| `records` | `RecordsSpec`, 2 users, 4 addresses, 2 products, 2 shops, 2 names, 1 category, 1 order | types; `AtMostOneDefault`; `DefaultLostOnlyAsNamed`; `NamesUniqueInShop`; `CategoriesInUseStay`; `ProductsStayInTheirShop`; `NeverDearerThanListed` |
| `shops` | `ShopsSpec`, 2 people, 2 numbers, a day of 4 hours | types; `PhonesUnique`; `RegistrationsAreWhole`; `ReasonFits`; `LastNoticeIsTrue`; `OpeningHoursAreAnArc` |
| `storefront` | `Spec`, 2 users, 2 requests | `OneSession`; `RefreshServesWaiters`; `CartShownIsCurrent`; `EverySettles` |

**Properties.**

* `AuditTrailIntact` - a status changes only together with a new audit entry, the entry
  starts at the status the order really had, and it is an edge its author may walk. It holds
  for the orders app because `transition_order` reads the row again; it would not survive
  `assign_partner`, which writes an entry from READY_FOR_PICKUP whatever the order is.
* `PaidWhenDue` - `payment_status` is written by `transition_order` and by `verify_payment`.
  An online order is PAID exactly when one of its attempts succeeded; a cash order is PAID once it
  is delivered, or once an attempt of it succeeded. It says no more of cash orders because
  the code keeps no more: see *Seen while modelling*.
* `InventoryKept` - refinement of `Inventory`: with `Held` the lines of orders not cancelled
  or rejected, units leave the shelf once and return at most once. A second return is no
  `GiveBack`, since the order holds nothing any more, and no `Recount`, though the stock of one
  product alone would look like one: it writes an order's row, and a recount leaves `books` alone.
* `AttachedToItsShop`, `SingleShop`, `OrderFromItsShop` - the one-shop rule, from what
  `add_item` relies on to what the order says; the first is what the proof of the others needs.
  `NoLineOfDeletedProduct`.
* `NoReadIsStale` - while `place_order` runs, what its earlier statements read (cart, shop flags,
  lines, stock) is still what the database says, though it locks no row of the cart or the
  shop. `PlacedAtOnce` - refinement of `Checkout`: its statements among everybody else's cannot
  be told from one step, a double click and two carts with the same last unit included.
* `DeliveryNeverAhead` - a delivery is never PICKED_UP, OUT_FOR_DELIVERY or DELIVERED before
  its order is. `CreditedAtMostOnce` - `total_deliveries` never exceeds the delivered orders.
* `SuccessIsCaptured`, `OneOpenAttempt`, `PaidIsFinal` - a success was really paid, for the
  very gateway order of its row; the row open is the one verification looks at; nothing takes
  PAID back. They rest on the reuse of the pending row and on the rollback of a failure.
* `CopiesBounded` - one Notification row per channel and message, two only for an event that
  Redis took without answering. `AckedIsHandled` - nothing is acknowledged untouched.
* `NothingForgotten` - every committed event is notified, or lost in one of the ways `Excused`
  names, or still under way: that list is the result of the run, there is no other loss.
  `EventuallyNotified` - and if a worker stays up, none is under way for ever.
* `OnlyTableEdges` - no change of status outside the table, `assign_partner`'s included.
* `AtMostOneDefault`, `DefaultLostOnlyAsNamed` - the promise of `set_default_address`, and the
  complete list of the ways in which crossing edits can still leave a user without a default.
* `NamesUniqueInShop`, `CategoriesInUseStay`, `ProductsStayInTheirShop` - what the catalogue
  keeps when the checks of a serializer are stale by the time of the write, and when an admin
  names another shop than the product's. Every edit of a product writes back the shop it has
  read; that no other one can be in the row by then is what `ProductsStayInTheirShop` says.
* `NeverDearerThanListed` - price and discount edits that cross may leave a discount above the
  price; no order is charged for it, and none pays more than one delivery fee. The property
  has its own formula; `EffectivePrice` and `Calculate` are what it is compared with.
* `PhonesUnique`, `RegistrationsAreWhole` - sign-ups and edits that found the same number free;
  no shopkeeper without shop and KYC row, no delivery partner without a profile.
* `ReasonFits`, `LastNoticeIsTrue` - two administrators moderating from one reading leave
  status, reason and date of one of them. What the owner was told last is true once none of
  his notices is under way, if the last write found no earlier one under way and none was lost
  since: `doubtful` marks the owners of whom that is not so, who may be misled or not. A notice is
  under way in its request, in a synchronous fallback, in the stream or with a worker, or in
  two of these after a time-out; it is lost with a process or a worker, by trimming, or to
  a handler that raises, and in the stream it may wait while a later one overtakes it.
* `OpeningHoursAreAnArc` - the two branches of `is_open_now` against one arc of the clock.
* `OneSession` - unless the session changed while something was under way (`crossed`), the
  page shows the owner of the stored tokens and sends as him. `RefreshServesWaiters` - a
  refresh is under way exactly when somebody waits for it. `CartShownIsCurrent` - the cart
  shown is the server's once all is answered, unless two cart requests were under way at once
  or one failed (`disturbed`). `EverySettles` - every request ends.

**What the violations show.**

1. `stale_assign`: assign request reads READY_FOR_PICKUP; admin cancels, stock returns;
   `assign_partner` writes ASSIGNED over CANCELLED. The units are on the shelf and on the way.
2. `carts_race`: an add between the two statements of `clear_cart`.
3. `replaced_gateway_order`: initiate, initiate again in another tab, pay in the first: the
   money is taken for a gateway order that no row names, and it cannot be verified.

**Seen while modelling, without a run of their own.** A cash order that is verified is PAID
before its delivery (`cod_gateway.py:21` calls it settled on delivery). A delivered cash
order leaves its Payment row PENDING (`payments/models.py:8-9` says CREATED->SUCCESS). An
initiation that read the order before it was paid opens a new attempt on a paid order
(`payments/services.py:19-20` means to refuse it). The webhook called a safety net for missed
client callbacks (`payments/views.py:115-116`) changes nothing. A partner's profile PATCH sets
`is_online` without approval (`delivery/services.py:38` asks for it). A SIGTERM is obeyed
only after the whole batch in hand. The order endpoint moves an order without its delivery
(`delivery/models.py:50` speaks of keeping both in sync), and two delivery requests that read
one status both commit, CANCELLED and then ACCEPTED. A cancelled delivery row keeps its order
from being assigned again. A payment verified after its order was cancelled or rejected is
kept and never refunded. A discount can end up above the price when two edits cross
(`products/models.py:32` asks for less). Product lists and `is_orderable` look at the shop's
status only, not at whether its owner is still active (`products/repositories.py:18`,
`shops/models.py:21`), and neither the minimum order value nor the opening hours are asked for
at checkout. An admin's product edit compares the name with the shop he sent. In the client, a
401 that arrives after the shared refresh has ended starts a second one (`api.js:30` wants one
for a burst); a refresh that ends after a logout stores its tokens again; a late answer of
`/auth/me/` shows the user before; the cart slice is not reset when the user changes.

`SerialCartsSpec`, `SerialSpec` and `UndisturbedSpec` exclude exactly the race of a
violation, and the passing runs show that nothing else breaks the rule.

**Bounds and why they suffice.** The races take two requests on one row, so one order with
two requests in flight, or two customers over one product, contain them; two partners are
needed for two assign requests of one order. `MaxStock = 2` lets a line have more than one
unit, so a partial release is seen. Three products in two shops give one shop two products
(a cart with company left after a removal) and the other one. `MCSmall` leaves at most one
flag off or one request in flight at a time and does not follow an order past PLACED except
to its end: its later life touches no cart, and `payments` has its effects on the stock, of
up to two units each of two products. The orders app has no run of its own: all its steps are in
`payments`, with what that adds, and two orders after one unit are in `checkout`. In
`locked_checkout` the questions are those of time, not of shops: two requests, of one customer
or of two, over one unit of each of two products, with one thing in their way at a time, one of them online; two products make the
item loop one that can be left in its middle. The requests in two parts (cancel, `clear_cart`)
stay out of this run; section 4 has them in and has any number of requests.
`MCFewRequests` bounds the requests in flight by `MaxInFlight`. Two gateway orders are an old
one and the one that replaced it. In `events` the stream bound of 1 lets the second entry push
out the first, two entries per read make a batch that can be cut in its middle, and two rows a
handler that can be; a second worker shares with the first only the cursor and the pending
list, each changed by one Redis command, and section 4 proves the run's safety properties for
any number of workers. In `records`, `OneKindOfEdits` looks at edits of addresses, of prices
(with a checkout) and of names and categories in turn, at most two requests of a kind: the
three share no column, and each race is between two requests. Three addresses of one user are
what losing a default takes; price 3, fee 1 and free delivery from 4 let a basket be below, at
and above the threshold. In `shops`, `FewRequests` follows moderation for one shop while nobody
signs up, and changes of hours while no request is under way: hours are read by `is_open_now`
alone, and a day of 4 has all orders of opening, closing and now. Three requests and notices of
moderation are two notices under way and a request that may write a third. Two requests in `storefront`
are one that starts a refresh and one that joins or misses it; a request name is used again.
Orders and products, customers and partners, shops and names, people and numbers are each
interchangeable wherever a run takes them so, and in `checkout` the
two shops change places with their products, so symmetry is sound; the runs with a liveness
property use none. Deadlock is checked in `events` only: elsewhere the system may stop, when
every order is finished, every product deleted, every number taken.

**Fairness.** Most steps are some person's decision and get none. `BusFairness` is weak
fairness of what a living process does next without anybody's help: Django runs a due
`on_commit` callback (`Publish`, in whichever of its three outcomes), a request goes on
through its handler (`FallbackWrites`, `FallbackEnds`), the worker's `while` loop reads,
handles and acknowledges (`Read`, `WorkerWrites`, `Ack`). A process that dies is not living:
`WebDies` and `WorkerDies` disable these actions. Commits, crashes, errors and signals have no
fairness, and neither has starting a worker, which is an operator's act; so
`EventuallyNotified` is conditional on `SomeWorkerStays`. `Storefront` has weak fairness of one
thing only: each request, and the refresh, is answered or fails (`Settling`, `RefreshSettles`),
because a browser ends every connection one way or the other. Which of the two is open, a
request may be refused whenever the server likes, and the user's clicks have no fairness.

## 4. What is proved

With TLAPS, for every set of orders, products, customers, shops and people, every number of
requests in flight, and every bound:

| theorem | statement |
| --- | --- |
| `OrdersTypeCorrect` | `OrdersSpec => []OrdersTypeOK`: in particular stock never falls below zero |
| `AuditTrail` | `OrdersSpec => AuditTrailIntact` |
| `InventoryRefinement` | `OrdersSpec => InventoryKept`, the orders app implements `Inventory` |
| `CartsTypeCorrect` | `CartsSpec => []CartsTypeOK` |
| `OneShopPerCart` | `SerialCartsSpec => [](AttachedToItsShop /\ SingleShop)` |
| `NoDeadLine` | `CartsSpec => []NoLineOfDeletedProduct` |
| `CheckoutTypeCorrect` | `Spec => [](TypeOK /\ NoLineOfDeletedProduct)`, the race of `clear_cart` included |
| `CheckoutKeepsInventory` | `Spec => InventoryKept`, carts and orders together implement `Inventory` |
| `OrdersGoToTheirShop` | `SerialSpec => [](OrderFromItsShop /\ AttachedToItsShop)` |
| `ReadsStayTrue` | `LockedSpec => [](LockedTypeOK /\ NoReadIsStale)`, for any number of requests |
| `StatementsAreOneStep` | `LockedSpec => PlacedAtOnce`: `LockedCheckout` implements `Checkout` |
| `StatementsKeepInventory` | `LockedSpec => InventoryKept /\ []NoLineOfDeletedProduct`, a corollary |
| `FulfilmentTypeCorrect` | `Spec => []TypeOK` |
| `DeliveryBehindOrder` | `Spec => []DeliveryNeverAhead` |
| `CreditsEarned` | `Spec => []CreditedAtMostOnce`, for any finite set of orders |
| `UndisturbedEdges` | `UndisturbedSpec => OnlyTableEdges` |
| `UndisturbedInventory` | `UndisturbedSpec => InventoryKept` |
| `PaymentsTypeCorrect` | `PaymentsSpec => []PaymentsTypeOK`: no FAILED row is ever committed |
| `PaymentsConsistent` | `PaymentsSpec => [](PaidWhenDue /\ SuccessIsCaptured /\ OneOpenAttempt)` |
| `PaymentsFinal` | `PaymentsSpec => PaidIsFinal` |
| `PaymentsKeepTrail` | `PaymentsSpec => AuditTrailIntact` |
| `PaymentsKeepInventory` | `PaymentsSpec => InventoryKept`: orders and payments together implement `Inventory` |
| `BusTypeCorrect` | `BusSpec => []BusTypeOK` |
| `NoCopyTooMany` | `BusSpec => []CopiesBounded`, for any number of workers |
| `NoAckUnhandled` | `BusSpec => []AckedIsHandled` |
| `NobodyForgets` | `BusSpec => []NothingForgotten` |
| `RecordsTypeCorrect` | `RecordsSpec => []RecordsTypeOK` |
| `ChargedFairly` | `RecordsSpec => NeverDearerThanListed`, for any finite set of products and any prices |
| `OneDefaultPerUser` | `RecordsSpec => []AtMostOneDefault` |
| `DefaultLost` | `RecordsSpec => DefaultLostOnlyAsNamed` |
| `OneProductPerName` | `RecordsSpec => []NamesUniqueInShop` |
| `CategoryOfProductStays` | `RecordsSpec => []CategoriesInUseStay` |
| `ProductsStay` | `RecordsSpec => ProductsStayInTheirShop` |
| `ShopsTypeCorrect` | `ShopsSpec => []ShopsTypeOK` |
| `NumbersUnique` | `ShopsSpec => []PhonesUnique` |
| `RegistrationsWhole` | `ShopsSpec => []RegistrationsAreWhole` |
| `ModerationConsistent` | `ShopsSpec => [](ReasonFits /\ LastNoticeIsTrue)` |
| `HoursAreAnArc` | `ShopsSpec => []OpeningHoursAreAnArc`, for a day of any length |
| `StorefrontTypeCorrect` | `Spec => []StorefrontTypeOK` |
| `SessionIsOne` | `Spec => []OneSession`, for any number of users and requests |
| `RefreshIsAwaited` | `Spec => []RefreshServesWaiters` |
| `CartIsCurrent` | `Spec => []CartShownIsCurrent` |

The argument for orders is the invariant `TrailInv`: the types, `TrailEndsAtStatus` (the
newest entry ends at the current status) and `UnplacedHasNoLines`. The trail
needs the first of the last two to know that the entry before it was the truth; the refinement
needs `UnplacedHasNoLines` to know that an order about to be placed holds nothing, and the
table's fact `EdgeFacts` that a finished order has no way on, so that what is returned once
cannot be returned again. The stock part of the types rests on `InStock` being tested in the
transaction that takes the units. For the carts the invariant is `SerialInv`: a cart with
lines is attached to their shop, and a cart whose DELETE is between its statements has no
lines.

For checkout, `RowsInv` puts the types of the carts, `NoLineOfDeletedProduct` and `TrailInv`
together; it needs no restriction of the requests, so the types and the inventory survive the
race of `clear_cart`, which mixes shops only. `CheckoutInv` adds `SerialInv` and
`OrderFromItsShop`. A step of `Checkout` is a step of `Carts` or of an order's later life, for
which the lemmas of the two modules hold, or `place_order`; only there is something to do: the
order's shop is the cart's, which `AttachedToItsShop` says is that of each line.

For its statements it is `LockedInv`: `RowsInv` for what is committed, `NoReadIsStale`, and
`LoopTakesAll`, that the loop starts with every line. The heart is that nobody commits beside a
reader: a step of another endpoint leaves the database alone while there is one, and `Commit`
has no other reader beside it. So reads survive (`ReadsSurvive`), and at the commit everything
`place_order` has tested is still so, which are the guards of `PlaceOrderFromCart`, and the
figures it has written are its primed stock (`CommitIsOneStep`); every other statement is a
stutter. The reserved lock is not needed for this: it spares waiting, not correctness.

For deliveries, `StatusChange` and `DeliveryChange` say once what a step can do to the status
of an order and to its delivery (`Moved`, `Carried`); `DeliveryNeverAhead` is inductive with the
types, because an order past pickup only goes on (`RoadFacts`) and the delivery gets there only
in the transaction that takes the order there. `CreditedAtMostOnce` is not: a PATCH in flight
may write back the count it read, so `SnapshotsEarned` says that this was not too high either,
and `PartnerMeansDelivery` keeps a delivered order from changing hands. The set of orders a
partner has delivered then only grows, and a credit comes with one more of them, since
`transition_order` reads the order again and DELIVERED has no way on. With assignments
undisturbed, the assignment's own write past the state machine is READY_FOR_PICKUP to ASSIGNED
or no change at all (`AssignedFromReady`): it keeps `TrailInv` and takes and returns nothing.

For payments it is `PaymentsInv`: the three properties, the types, and that an order not
yet placed has no attempt; without that last part an order placed later could be born with a
success. `OrdersStepShape` says once what a step of the orders app may do to status, method and
payment (a cash order delivered is paid, nothing else is), and the payments proof uses the
orders app only through it; `InitiateWrites` and `VerifyWrites` say which single row the two
services write, and `PutKeepsInv` that such a write keeps the invariant. `PaidIsFinal` is then
a fact about two states: a step neither removes a success nor undoes a delivery. Trail and
inventory rest on `TrailInv`, which payments do not disturb.

For the event bus it is `BusInv`. A count of copies is not inductive by itself, so
`CopiesCounted` puts every copy down to one of two writers: the request, as far as `webRow`
says it has come, or the workers, as far as an entry has been `Reached`. That no copy is put
down twice needs that an event has one entry (`OneEntryPerEvent`: an entry is added only on the
way out of "committed") and an entry one holder (`HeldOnce`), which in turn needs that nothing
is delivered past the cursor (`CursorLeads`) and what one read brings (`DeliverFacts`).
`WrittenSoFar` carries `AckedIsHandled`: the worker's place in its handler tells what is written.
`NothingForgotten` is the safety half of `EventuallyNotified`. Beside `BusInv` it takes
`WhereEventsAre`: what Redis has answered for is in the stream (`PublishedIsInStream`), the
cursor leaves behind only what was delivered, trimmed or before the group (`CursorSweeps`), and
a fallback has written as far as its count says (`FallbackSoFar`). An entry that is delivered is
held by a worker, or it is acknowledged and thus handled, or its holder died.

Addresses and the catalogue share `RecordsSpec`; their invariants, `AddressesInv` and
`CatalogueInv`, mention none of the other's variables and are proved apart. `ProductsStay` rests
on a part of the latter, `ShopsReadAreTheirs`: what any edit under way has read of its product's
shop is the product's shop still, delisted or not, because a product gets one only where it had
none. `DefaultLost` is a
fact about one step: `set_default_address` leaves its own address as a default unless the
instance said that it was one already and it is not. Bills are sums over a basket. `Sum` counts
the coins of the lines (pairs of a product and a coin of its amount) and so needs no recursion:
that a larger price makes no smaller sum is inclusion of sets, and `ChargedFairly` follows line
by line from the effective price and once from the fee. `MCRecords` assumes, and TLC checks,
that it is the sum the community modules fold.

For shops the invariant is `ShopsInv`:
the types, unique numbers, whole registrations, `ReasonFits`, `RequestsKnown` (a moderation
under way is of a shop that there is), `NoticesTrue` (so is a notice under way, and it says what
the shop is, unless its owner is `doubtful`) and `LastNoticeIsTrue`. A notice only changes its
place on its way, so `Publish` and a notice told leave what it says to the write that
sent it. The arc of `OpeningHoursAreAnArc` is arithmetic modulo the length of the day.

For the session it is `SessionInv`: `OneSession` and `RefreshServesWaiters` with the types, that
nothing is under way while the page loads (`LoadingIsQuiet`), that an answer was given to
somebody (`AnsweredToSomebody`) and that a refresh is of the stored tokens (`RefreshOfStored`),
the last two unless the session has changed in the middle. For the cart it is `CartInv`: while
nothing disturbs them, one request at a time has to do with the cart (`OneCartRequest`), what
one brings is what the server has (`BringsCurrent`), and so is what is shown when none is under
way (`ShowsCurrent`).

Assumptions: `MaxStock` and `MaxIssued` are natural numbers; `Rows`, `Count`, `MaxLen` and
`DayLength` are positive ones; each product has a shop and each address an owner; `NoShop` is no
shop, `NoPartner` no partner, `NoSnapshot` no row, `NoPhone` no number; there are finitely many
orders at a time (for `CreditsEarned`, whose property counts them) and finitely many products
(for `ChargedFairly`, whose property adds their prices up); quantities are bounded by a natural
number, amounts of money are natural ones. TLC evaluates them in the runs.

Only model-checked: the two liveness properties, `EventuallyNotified` and `EverySettles`, because
fairness and `ENABLED` are out of these provers' reach. Every invariant, action property and
refinement of a passing run is proved.

## 5. Plan, and what is not modelled

Done: `OrderStates`, `Products`, `Orders`, `Inventory`, `Carts`, `Checkout`, `LockedCheckout`,
`PartnerProfiles`, `Fulfilment`; `Payments`; `EventBus`; `Catalogue`, `Listings`, `Addresses`,
`OrderRecords`; `Accounts`, `Shops`; `ClientSession`, `Storefront`; proofs for all of these.

Next, in order of importance:

1. What each event promises, as an abstract specification (committed, then notified once per
   channel or lost in a named way), with `EventBus` shown to implement it.
2. `assign_partner` at statement level, as `LockedCheckout` has `place_order`.
3. A second tab over the same localStorage; carts changed from two devices.

**Not modelled.**

* Of the client: a second tab; answers of `PATCH /auth/me/` and of `registerCustomer` (to the
  session they are as a login's); what a request that outlives its page does on the server; the
  401 of the login request itself; notices, the chosen location, the pages' own form state.
* An address typed at checkout instead of chosen: it concerns one request only.
* Discovery, search, distances and delivery estimates: they read, and nothing is decided on.
* Passwords, token issue and blacklisting: the library's. Permission classes appear as the
  roles in the actions' guards.
* Dashboards other than the user switch: read-only aggregates. The Django admin: it can write
  any column, and promises nothing.
* Seed data: run again, it approves a suspended shop without clearing the complaint, sets no
  approval date and resets stock figures; it is a fixture for demonstrations.
* Settings, migrations, serializers' layout, error envelope: no state of their own.
