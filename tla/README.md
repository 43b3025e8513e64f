# MeperPOS in TLA+

MeperPOS is a multi-tenant point of sale: a NestJS backend
(`src/backend/src`) over Prisma and PostgreSQL, and a Next.js frontend
(`src/frontend/src`). Each HTTP request runs as a chain of awaited database
statements in one Node process; many requests run at once, on the same rows.
Most of what can go wrong lies between two statements of a request, where
another request runs. This directory models the requests statement by
statement, checks the models with TLC and proves the most important results
with TLAPS.

## 1. The system

Default isolation is Read Committed. Only `SalesService.create` and
`PurchaseOrdersService.create` open Serializable transactions; a timed-out
transaction (P2028) becomes a 503, and a serialization failure is not retried.
A request that checks something before `$transaction` does not check it again
unless its own code says so.

| Component | State | Operations | What makes it correct |
|---|---|---|---|
| Sales (`sales/`) | sales, items, payments; stock and movements of products | create, update (cancel, return) | stock never negative; a sale is one event; numbers without gap; a cancellation gives back everything once |
| Sequences (`common/sequences/`) | one counter per organization, type and year | nextNumber | no gap, no duplicate |
| Products (`products/`) | product rows with stock, version, active | create, update, deactivate, reactivate, remove, images | two edits never both succeed from one version; referenced products stay |
| Purchase orders (`purchase-orders/`) | orders and their items | create, update, confirm, receive, cancel | receipts add up; only confirmed orders are received; life cycle |
| Expenses (`expenses/`) | expenses, payments, receipt images | create, update, pay, duplicate, remove, upload | never overpaid; status follows the payments; the image a row names exists |
| Sessions (`auth/`) | refresh tokens, token version | login, select organization, refresh, logout, revoke | a revoked user stays out; a refresh token is used once |
| Organizations, users (`admin/`, `users/`, `billing/`) | status, plan, memberships, primary owner | create, remove, toggle, roles, transfer, suspend | one primary owner; an organization keeps an active administrator |
| Settings (`settings/`) | settings JSON with a version; sale prefix | update, prefix, plan change, migration | no lost update; the old prefix survives the migration |
| Plan limits (`plan-limits/`), cash registers | counts cached for 60 s; registers | check, invalidate; create, update | the limit is not exceeded; one default register |
| Tasks (`tasks/`) | tasks and their events | create, update, status, remove | events chain; allowed transitions |
| Imports (`imports/`) | jobs in memory | start, process, retry, clean up | every row counted once; one product per SKU |
| Reports and cache (`reports/`, `common/services/cache.service.ts`) | cached results for 5 minutes | read, clear | no stale result after a sale; closed days stay as they were |
| Categories, customers, suppliers, expense categories | names, life | create, edit, remove, find or create | removed means removed |
| Roles (`common/guards/`, the controllers) | none | pass or refuse a request | the pages of a role work for that role |
| Browser (`lib/api.ts`, `AuthContext`) | access token per tab, one refresh cookie | restore, refresh, log in, switch, log out | tabs do not use up one another's session |
| Cache of server data (`hooks/`, `QueryProvider`) | TanStack Query's entries | fetch, invalidate, collect | what is shown as fresh shows what was done in the tab |
| Point of sale page (`app/pos`, `usePausedSales`) | cart, paused sales in `localStorage` | scan, price, discount, pause, resume, check out | what was scanned is sold once, and never silently lost |
| Tasks page (`app/tasks`) | list, selection, draft, hidden tasks | create, edit, complete, delete | a failed deletion comes back; a text is saved on its own task |
| Record pages (inventory, categories, customers, suppliers, expenses) | list, form, dialogs | filter, turn the page, edit, upload, remove | a late answer spoils no other form; an empty list means that there is nothing |
| Screen of an import (`useImport`, `ImportSection`) | the last status it was told, its timer | upload, poll, retry a row | it ends up showing the end |
| Layouts and links | the role a tab shows, its address | redirect, follow, open | no role is sent in circles or to a page that is refused |
| Exports, images, audit, tax rule; charts and other presentation | rows; none | formatting and I/O | - |

How they interact: sales, products, purchase orders and imports write the same
`Product` and `InventoryMovement` rows; sales and purchase orders call
`SequenceService.nextNumber` inside their transactions; sales clear the
dashboard cache; plan limits count what products, users and registers create;
organizations revoke sessions. In the browser every page shows entries of one
cache, which the hooks' mutations invalidate by key; `AuthContext` and
`ApiClient` hold the session all of them use; the tabs share the refresh cookie
and `localStorage`. The hazards, each at its line, are in `PROJECT.json`.

## 2. Modules

| Module | Models | State |
|---|---|---|
| `ProductRows` | product rows and movements as transactions see them (PostgreSQL, external) | `product`, `lock`, `draft`, `movements` |
| `SequenceRow` | `nextNumber` on one sequence row | `current`, `holder` |
| `Sales` | `SalesService.create` and `update` | `sale`, `currentNumber`, `seqHolder`, `checkout`, `saleUpdate` |
| `Catalog` | `ProductsService` | `productRequest` |
| `PurchaseOrders` | `PurchaseOrdersService` | `order`, `lines`, `orderNumber`, `orderSeqHolder`, `orderCreate`, `orderChange`, `receipt` |
| `Inventory` | the three services on the same rows; the specification `Spec`, fairness, properties | - |
| `InventoryLedger` | properties about sums; the refinement mapping | - |
| `SaleBook` | abstract specification: a sale is one event | `book`, `stock` |
| `InventoryProofs`, `StockProofs`, `LedgerProofs` | theorems about `Inventory` and `InventoryLedger`, and their proofs | - |
| `Expenses` | `ExpensesService` | `expense`, `receipts`, `expenseRequest` |
| `Settings` | `SettingsService`, the plan change, the migration | `settings`, `settingsVersion`, `plan`, `salePrefix`, `settingsRequest` |
| `CashRegisters` | `CashRegistersService` behind `PlanLimitGuard` and `PlanLimitService` | `register`, `basic`, `cachedCount`, `registerRequest` |
| `Tasks` | `TasksService` | `task`, `taskEvents`, `taskRequest` |
| `Names` | categories, customers, suppliers and expense categories: one is chosen by `kind` | `record`, `nameRequest` |
| `Reports` | `ReportsService`'s cached dashboard and overview, `CacheService`, the periods | `now`, `soldRow`, `cancellation`, `reading`, `cached` |
| `ImportJob` | abstract specification: an import goes forward and its status may vanish | `phase`, `progress`, `held` |
| `Imports` | `ImportsService`: the job, its retries, its cleanup | `job`, `rowError`, `retry`, `skus` |
| `Sessions` | `AuthService`, `JwtStrategy`, revocation | `userActive`, `tokenVersion`, `memberOf`, `orgStatus`, `pair`, `sessionRequest` |
| `Members` | `AdminService` and `UsersService` on memberships | `account`, `membership`, `memberRequest` |
| `Browser` | `ApiClient`, `AuthContext` in several tabs; extends `Sessions` | `jar`, `tab` |
| `Till` | the point of sale page and its paused sales in several tabs | `cart`, `paused`, `stored`, `pending`, `checkout`, `sold` |
| `Cart` | one line of the cart | `shelf`, `line` |
| `ImportScreen` | `useImport`, `ImportSection`; extends `ImportJob` | `shown`, `poll`, `rowRetry` |
| `QueryTables` | what every hook asks for, shows, writes and invalidates | - |
| `QueryCache` | one entry of the cache of server data | `watched`, `tenant`, `entry`, `fetching`, `edit` |
| `TaskBoard` | the tasks page | `tasks`, `completed`, `newer`, `list`, `outdated`, `selected`, `hidden`, `draft`, `call` |
| `RecordForms`, `RecordList` | forms and lists of the record pages | `life`, `form`, `save`, `upload`, `dialog`, `removal`; `matching`, `page`, `whole` |
| `ServerRoutes`, `Pages` | the routes with their roles; the pages with their calls and links | - |
| `Access` | `RolesGuard`, the layouts, the role a tab shows | `grantedRole`, `session`, `shownRole`, `address` |
| `SessionsProofs`, `OfficeProofs`, `GovernanceProofs`, `ShopProofs`, `PagesProofs` | theorems about `Browser`; `Expenses`, `Settings`, `Tasks`, `Names`; `CashRegisters`, `Members`; `Till`, `Reports`, `Imports`; `Cart`, `RecordList`, `RecordForms`, `QueryCache`, `TaskBoard`, `Access` | - |
| `MCInventory`, `MCOffice`, `MCShop` | instances for TLC | `service` |

Variables a module declares beyond these are marked "history" or "for the
properties" in it (`fresh`, `clobbered`, `taskOverlap`, `madeBy`, `unmoved`,
`scanned`, `dropped`, `mixed`, `lost` and others): they record what happened, and
no action of the code reads them.

A request is a constant (`c1`, `u1`, ...), its progress a record whose `pc`
names the next statement. One action is one database statement together with
what the code does until the next one; statements that no other request can
tell apart (inserting a sale item, then decrementing the stock) are one action.
The numbers of the lines are in `PROJECT.json`, `map`.

- **Rows.** A statement reads the committed row, or the one its transaction
  wrote (`Visible`). An UPDATE locks the row until its transaction ends
  (`Stage`) and waits while another holds it. Commit publishes all rows at once
  (`CommitRows`), rollback none (`RollbackRows`).
- **Checkout.** `CheckoutRead` is all the code before `$transaction`;
  `CheckoutBegin` takes the Serializable snapshot, which is the first
  statement's; `NextNumber` is `SELECT ... FOR UPDATE`, refused when the counter
  moved since the snapshot; `CheckoutItem` runs the guarded `updateMany` of one
  item and writes its movement; `CheckoutCommit` publishes sale, movements,
  stock and number. `Unchanged` compares the last writer of a row with the
  snapshot's: PostgreSQL refuses a Serializable write otherwise.
- **Sale update.** The status is read before the transaction (`SaleUpdateRead`)
  and never again, as in the code; a cancellation reads each product
  (`CancelReadItem`) and writes an absolute stock (`CancelWriteItem`).
- **Catalog.** No operation has a transaction, so every statement commits at
  once and `Interrupted` may end the request after any of them.
- **Purchase orders.** An item is named by the request that inserted it and its
  position, so an edit's new items are different rows. `EditDelete` is the
  moment `deleteMany` looks for the items; `EditCommit` deletes those and
  inserts the new ones, waiting for items a receipt has locked. Two edits may
  therefore double the items, as in the code. `Adds` is what a receipt's
  uncommitted item updates add; two receipts commit both increments.

- **Expenses, settings, tasks, names, members, registers.** Each statement
  commits at once unless the code opens a transaction. A request first keeps
  what it read (`seen`), then writes what it computed from it. `Names` is one
  module because the four services differ in how a name is looked up, what a
  removal leaves and who may edit an inactive record, which its operators state
  per `kind`.
- **Settings.** A value is told by the request that wrote it. `update` compares
  the version it is sent; the plan change and the migration write back what they
  read without one.
- **Plan limits.** `cachedCount` is the count of the guard, which expires, is
  invalidated in a step of its own after an insert, and may be filled late by a
  count made before.
- **Sessions and browser.** A refresh token is a `pair` with its version,
  organization and use. `Browser` adds the tabs: the cookie holds one pair, each
  tab an access token; every answer may be lost or arrive after another one.
- **Reports.** Two ticks make a day, its first and its last instant. A report
  computes query by query, then caches; a sale clears the dashboards only, a
  cancellation nothing.
- **Imports.** Rows are processed one by one with other requests in between; the
  map of jobs is in memory (`held`), so the cleanup and the end of the process
  make the status vanish. A key and its spellings stand for the trimming and the
  upper case of SKUs. `Promised` maps `Imports` to `ImportJob`, and the screen is
  checked against that abstract job: polls are lost, answered late, and
  overtaken by the answers to retries.
- **Till and cart.** Two tabs read `localStorage` when they are opened and write
  their whole list of paused sales. An answer to a checkout may be lost after the
  sale was committed. `Cart` has the arithmetic of a line.
- **Query cache.** `QueryTables` has a row for each query (its key, and the data
  it shows) and mutation (what it writes, and the keys its `onSuccess`
  invalidates). What the server computes of other records is a kind of its own:
  the `productCount` of a category, the tax a category gives its products, the
  members and payments an organization shows. A behaviour watches any one query,
  and a mutation is any of those that write what it shows. Many of them do not
  invalidate it. `Late` names these pairs: `LateQueries`, whose keys no mutation
  invalidates (reports, limits, the profile, the hooks for one record), the
  import, which nobody waits for, and `Forgotten`, the mutations that forget a
  list of other records. For the pairs not named, the data are what was answered.
  An answered mutation keeps `late`, whether it is in `Late`, and `wrote`, what it
  wrote of the data of the query.
- **Tasks page.** `handleDeleteTask` and the others are calls with one request
  per task; what a call captured when it was sent (the selection, the list) is
  kept in `call`, as in the closure of the handler. The `orderBy` of `findAll` is the
  relation `Above`: completed tasks last, then the latest change first (`newer`).
- **Forms.** A form is told by the record it was loaded from and how often the
  user typed. What an answer does, it does to whatever form is open then.
- **Access.** `Passes` is `RolesGuard` over `ServerRoutes`, `InPlace` and
  `Redirect` the layouts over `RouteRoles`. `Mismatched` names the calls that a
  page of a role makes although they are refused: everything of an
  `INVENTORY_USER` but the list of products, the profile, the plan limits and
  the switcher, although `patrones-backend.md` (line 49) says the role creates and
  maintains products; the tasks page, the categories, the scanner and the settings for
  a `CASHIER`; the settings on `/pos` for a `MEMBER`. Owners and administrators
  have none.

Prices, taxes, payments, names and texts are abstracted: a request the code
refuses before it writes changes nothing, so `Carts` and `OrderLists` hold what
is accepted. One organization is modelled where every query carries its
`organizationId`; sessions, members, the query cache and access have two.

## 3. Runs

Each request runs at most once, so every run is finite without further bounds;
a state where all requests have ended has no successor, hence `CHECK_DEADLOCK
FALSE`. Waiting forever is excluded by `EveryRequestEnds` and `CompletionShown`
instead.

`MCInventory` instantiates the services that write products. `MCOffice` and
`MCShop` instantiate the other modules, which share no row: an interleaving of
two of them is one of each, so a behaviour picks a `service` at first and runs
that one alone, and the properties of all are checked in one run. Where modules
do interact they are composed in one state machine: `Inventory` (sales, catalog,
orders), `Browser` with `Sessions`, `ImportScreen` with `ImportJob`, `Imports`
with `ImportJob` by refinement.

| Run | Instance | Shows |
|---|---|---|
| `counter` | 2 checkouts, 2 sale updates, 2 products, carts of one or two lines in both orders, with fairness (48 139 states) | sales are numbered without gap; a cancellation gives back every item; a sale never becomes COMPLETED again; the services implement `SaleBook`; every request ends, lock conflicts included |
| `catalog` | 1 checkout, 1 sale update, 2 product requests, one product to start with and one to create, stocks 0 and 3 (168 737 states up to symmetry) | stock is never negative; two edits never both succeed from one version; what a movement or a sale names is never deleted; products are active when sold |
| `orders` | any five of 2 orders, 2 changes and 2 receipts of up to two items; or one of each, the receipt of one item, with 1 checkout and 1 product request that carries no stock (131 311 states up to symmetry) | types; orders are numbered without gap; an order never loses its items to overlapping edits, and receipts add up to what the items say; the ledger equals the stock; edits and receipts never both succeed from one version |
| `office` | 167 518 states; see below | `SettledUnlessOverlapped`, `ReceiptsKept` (expenses); `SettingsKept`; `TimelineTellsStatus` (tasks); `RemovedForGood` (names); `CompletionShown` (screen of an import); `LineExact` (cart); `FreshShowsAnswered` (query cache); `BoardIsTrue` (tasks page); `FormsKeepTheirRecord`, `EmptyMeansNone` (record pages); `PagesFitRoles` |
| `shop` | 481 277 states up to symmetry; see below | `ExchangedOnce`, `RevocationEndsSessions`, `CookieUsable` (sessions and tabs); `OrganizationsGoverned` (members); `RegistersOrdered` (plan limits); `LinesReachOneSale` (tills); `DashboardShowsSales`, `PeriodsMeet`, `ClosedDaysStayBooked` (reports); `TallyAddsUp`, `KeysUniqueUnlessOverlapped`, `KeepsPromise` (imports) |
| `restore_session` | the browser of `shop` | violated: a reload leads into the organization joined first |
| `stale_categories` | the query cache of `office` | violated: a product was created, and the open categories page still shows the count of before as fresh |
| `stale_edit` | 1 checkout, 1 edit | violated: an edit overwrites a sale it never saw |
| `oversell` | 3 checkouts, 1 sale update | violated: a cancellation erases a concurrent sale, and the units are sold again |
| `double_cancel` | 1 checkout, 2 sale updates | violated: both return the units |
| `over_receive` | 1 order, 1 change, 2 receipts | violated: an item is received beyond what was ordered |
| `cancel_partial` | 1 order, 2 changes, 1 receipt | violated: a partially received order is cancelled |

The seven violations are disagreements between the code and the repository's
documents or error messages; `PROJECT.json`, `findings`, quotes them.

Several properties hold only unless requests overlapped, and say so by name
(`SettledUnlessOverlapped`, `KeysUniqueUnlessOverlapped`) or by the history
variable they mention: the code has no lock there, and what the property states
is what remains true. A reader sees from the exception which overlap breaks it.
Such a property does not catch the overlap that its hazard describes; it shows
that nothing else does the harm. The notes of the hazards in `PROJECT.json` say
which ones these are: overlapping payments, transfers, removals, registers,
exchanges of a token and retries of one row, the upload and the movement that
stop half way, the first fetch and the login over kept data, late images and
answers in forms, and lists that keep their page number.

Why the bounds are enough. Each property relates at most two requests and one
row, and the numbering at most two numbers.
Two lines in a cart give the half-done transaction and opposite lock orders;
stock 3 and 1 with quantities 1 and 2 give the last unit, the exact fit and the
shortage. `orders` looks at the states of `Narrow` alone, the two instances in its
row; a request never leaves the ones that have begun, so each instance is
complete. In `office` and `shop` there are three
requests to each service, one to make a row and two that race for it, or a third
that finds what the race left; 2 organizations, 2 accounts next to the owner, 2
tabs that share a cookie, 2 tills, a plan with one register; 2 sales and a
cancellation over `LastTick` 2, the last instant of a day and the first of
the next, reports of `DefaultDays` 2 instead of 30;
a file of 2 rows and two spellings of one SKU, with 2 retries, or with one retry
and a product somebody else makes of a SKU that is about to be inserted (`FewImporters`); 3 tasks and 2
calls, on a page that asks for `TaskLimit` 2 tasks instead of 20; 2 forms, 2 records and `MaxTyped` 1; `MaxMatching` 5 with `PageSize` 2,
three pages, the last one half full; one mutation in the query cache next to the
fetch it races with. The customers page has the forms of the categories page, so
`MCInit` leaves it out. In `MCShop` a browser may also start in `LoggedIn`, a state
`BrowserInit` leads to: it adds no state and shortens the search. Symmetry exchanges requests of one kind, and is used
only in runs without liveness properties.

`LedgerExact` is checked where it can hold: with checkouts, receipts,
deactivations and edits that carry no stock. With cancellations and edits of
the stock it fails, which `oversell` and `stale_edit` show in terms a document
speaks about.

Operators marked "Mutant" are plausible mistakes in the code (a dropped guard, a
lost rollback, a loop that stops early). Nothing uses them: `PROJECT.json`,
`mutants`, says which definition each one replaces and which property then fails,
so that every property is known to depend on the code.

**Fairness.** Weak fairness of each request that has begun or can begin: Node
runs the continuation of every awaited statement, and Prisma ends every
transaction (`timeout: 10000` in both Serializable ones, 5 s by default), which
the abort actions stand for. Nothing is assumed about the order in which waiting
requests get a lock, nor that any transaction succeeds.

The screen of an import (`ScreenFairness`) needs more: the job's loop and the
timer of the query go on (weak fairness), a retry that was sent is answered or
fails (weak), and the network does not lose every poll (strong fairness of
`PollServed` and `PollArrives`): react-query keeps asking while the last status
says so, and each loss only delays the next poll. No other module has a
liveness property: what the other requests wait for is a statement of their own.

## 4. Proofs

Eight modules prove, for every value of the constants that satisfies the named
assumptions, what the runs check on small instances:

| Module | Theorem | States |
|---|---|---|
| `InventoryProofs` | `TypeCorrect` | `Spec => []TypeOK` |
| | `StockSafe` | `Spec => []StockNonNegative` |
| | `SalesNumbered` | `Spec => []SalesNumberedConsecutively` |
| | `OrdersNumbered` | `Spec => []OrdersNumberedConsecutively` |
| `StockProofs` | `SalesPermanent` | `Spec => SalesArePermanent` |
| | `ReferencedNeverDeleted` | `Spec => []ReferencedProductsLive` |
| | `WritesVersioned` | `Spec => []OneWritePerVersion` |
| | `ReturnsComplete` | `Spec => []ReturnsWholeSale` |
| | `SoldActive` | `Spec => SoldWhileActive` |
| `LedgerProofs` | `UndisturbedBalanced` | `Spec => []` the stock of a product of the opening that was not disturbed is the sum of its movements |
| | `LedgerBalances` | `Spec => []LedgerExact`, if `SaleUpdates` and `Stocks` are empty |
| | `OrdersAlwaysAddUp` | `Spec => []OrdersAddUp` |
| | `SalesAreABook` | `Spec => ImplementsSaleBook`, that is, `Inventory` implements `SaleBook` |
| `SessionsProofs` | `SessionsTyped`, `TokensExchangedOnce`, `RevocationsEnd`, `CookieStaysUsable` | `BrowserSpec =>` `[]BrowserTypeOK`, `[]ExchangedOnce`, `[]RevocationEndsSessions`, `[]CookieUsable` |
| `OfficeProofs` | `ExpensesSettled`, `ReceiptsInStore` | `ExpensesSpec =>` `[]SettledUnlessOverlapped`, `[]ReceiptsKept` |
| | `NothingSetIsLost` | `SettingsSpec => []SettingsKept` |
| | `TimelinesTrue` | `TasksSpec => []TimelineTellsStatus` |
| | `RemovedStayRemoved` | `NamesSpec => RemovedForGood` |
| `GovernanceProofs` | `RegistersInOrder` | `RegistersSpec => RegistersOrdered` |
| | `OrganizationsStayGoverned` | `MembersSpec => []OrganizationsGoverned` |
| `ShopProofs` | `LinesSoldOnce` | `TillSpec => []LinesReachOneSale` |
| | `DashboardShown`, `ClosedDaysBooked`, `PeriodsAlwaysMeet` | `ReportsSpec =>` `[]DashboardShowsSales`, `ClosedDaysStayBooked`, `[]PeriodsMeet` |
| | `ImportsTyped`, `TallyRight`, `KeysMadeOnce` | `ImportsSpec =>` `[]ImportsTypeOK`, `[]TallyAddsUp`, `[]KeysUniqueUnlessOverlapped` |
| | `ImportsKeepPromise` | `ImportsSpec => KeepsPromise`, that is, `Imports` implements `ImportJob` |
| `PagesProofs` | `LinesExact` | `CartSpec => []LineExact` |
| | `EmptyListsNone` | `ListSpec => []EmptyMeansNone` |
| | `FormsKept` | `FormsSpec => []FormsKeepTheirRecord` |
| | `BoardStaysTrue` | `BoardSpec => []BoardIsTrue` |
| | `FreshIsTrue` | `CacheSpec => []FreshShowsAnswered` |
| | `RolesFitPages` | `AccessSpec => []PagesFitRoles` |

The assumptions are those of the modules: the kinds of requests are disjoint
where they write the same rows, `NoOne` is no request, quantities are positive
naturals, stocks in requests are not negative (`@Min(0)` in the DTO), a file has
a row, the names of retries are no row numbers, the names of requests no names of
records, the limit of a plan is positive, the clock stops at some natural number, prices
and the percentages on offer are multiples of ten (page.tsx:1175 offers 10, 20, 50).
They name things apart or repeat what the code validates; none bounds a set.

**The arguments.** Each proof has an inductive invariant, the conjunction of the
types, the property itself and what a request in progress knows; TLC checked each
of them on the instances of the runs before it was proved. One lemma per action
says that the action keeps it, a `...NextKeeps` or `Next...Inv` lemma collects
them, and the theorems follow.

- `IInv` (sales, catalog, orders) has four parts that match the modules.
  `RowsInv` adds to the types that drafts are not negative either, since they
  become the committed rows. `SalesInv` adds that a checkout past `nextNumber`
  holds the sequence row and saw the committed counter, that a checkout which has
  not committed has no sale, and that a cancellation in progress names a committed
  sale and kept a stock that is not negative - without it `previous + quantity`
  could be anything. `CatalogInv` bounds the position of product requests, and
  `OrdersInv` says of purchase orders what `SalesInv` says of sales, with the
  links from changes and receipts to the orders they work on.
- `StockInv` goes with `IInv`. The rows a transaction has written are locked by
  it and live; a movement that is not committed (`CheckoutLogged`, `ReturnLogged`,
  `ReceiptLogged`) belongs to such a row. So a deletion, which asks for the row,
  waits until the movement is committed and then finds it: what is referred to is
  never deleted (`UsedRowsLive`). What an edit or a receipt kept of a version is
  still the row while the version is (`EditVersioned`, `ReceiptVersioned`).
  Versions never go back, which all steps have to show (`Moves`).
- Sums. The library's sum over a set is a recursive function on its subsets. That
  this function exists, and is the only one, is not induction over data for the
  prover: strict inclusion is well founded on the subsets of a finite set, so the
  set of the subsets on which something fails would have a minimal element
  (`MinimalSubset`, `SubsetInduction`). From this, `SumExists` and `SumsAgree` give
  the sum its equation, and `SumOfOneMore` shows that the choice of the element
  does not matter. No proof below looks at the recursion again.
- `LedgerInv` (with `IInv` and `StockInv`). The rows a checkout or a receipt has
  written differ from the committed ones by the movements it has logged so far
  (`HeldBalance`), and nobody else can write these rows while it holds them; its
  commit publishes both at once (`CommitMoved`), its rollback neither. So a product
  of the opening agrees with its movements until something writes its stock by
  another rule. Exactly two things do: a cancellation, which writes the absolute
  stock it read before, and an edit that carries a stock. `Undisturbed` says that
  neither has happened to this product, and `UndisturbedBalanced` is the result
  for any requests at all. `LedgerBalances` is the property the runs check; it
  assumes away these two kinds of requests as a whole, as the run `orders` does,
  and the violations `oversell` and `stale_edit` show that it needs to.
- `CheckoutBooked`. The refinement of `SaleBook` maps the many statements of a
  checkout to one event, its commit. The mapping chooses the sale of each number,
  and `SalesInv` makes that choice unique (`NumbersAreGiven`). While a checkout
  works, the units it has logged are what the items before the next one take of
  each product (`Took`), so that at its commit each stock falls by the quantity of the
  whole cart, also when a product is in two of its items; `StockInv` keeps the
  result from being negative. Every other step moves the stock or stutters, and
  leaves the numbers and items of the book as they are, which is what
  `SalesPermanent` is about.
- `ItemsInv`. What an item says was received and what receipts moved for it only
  change in `ReceiveCommit`, by the same quantity: a receipt names an item in no
  two of its lines (`ReceiptItemized`, from the check for duplicates in the DTO),
  and what it logged for a line is that line's quantity. Edits delete only items
  they looked up for their own order (`EditsOwn`) and insert theirs in the same
  transaction, so an order keeps an item (`OrdersKeepItems`), and the items of one
  order are nobody else's, which keeps its sums apart.
- `ImportsInv`. The counters add up because a row that the job has not reached is
  no error and one that is retried still is one (`ErrorsKept`). A key is made
  twice only by an overlap: whoever inserts a key has looked it up in
  `job.existing`, which holds every key that was made but for those whose maker
  still works or lost its movement (`KeysEntered`, `InsertsChecked`). For the
  refinement, each step of the service is one of `ImportJob` under `Promised`, or
  a stutter.
- `SessionsInv` and `CookieInv`. A pair is revoked before its successor is issued
  (`TokenTaken`), and whichever exchange comes first, any other that did not
  overlap it finds the pair revoked (`ExchangedFirst`). What a revocation has done
  to the pairs it found is told by where it is (`RevocationDone`): it outdates,
  then revokes. The cookie is always a pair that arrived, and the arrival of a
  refresh replaced what was exchanged (`Replaced`), so only what the property
  names can have revoked it.
- `ExpensesInv`, `SettingsInv`, `TasksInv` have one shape: what a request read is
  what there is, unless another one has written since (`SeenCurrent`, `JsonSeen`,
  `TaskSeen`), which is when they overlapped. An image is known to one expense,
  which is why no upload deletes another's. The old prefix is in one of its two
  keys in the settings and in every copy of them that may be written back, or it
  has left them for good.
- `RegistersInv`. While requests come one at a time the cached count is never
  below the registers there are but between an insertion and its invalidation
  (`CountCovers`), when no other request runs, and a creation
  that passed the guard leaves room for itself (`RoomLeft`). Before a register is
  marked the other marks are cleared; any that is there by then was set by a
  request that overlaps (`MarkCleared`). The registers are not assumed to be
  finitely many: those that are active are, which is part of the invariant.
- `MembersInv`. Until it writes, a transfer comes from the one primary owner and
  no removal is of the primary owner, or one overlapped the other (`OwnerOf`);
  some active administrator is spared by all requests in progress, or they
  overlapped (`AdminOf`). A member has an account, so deleting the account of a
  user without membership takes no owner away.
- `TillInv`. `sold[l] <= 1` is far from inductive: a line must not be in two
  places from which it could be sold. `InOnePlace` says that a line not in doubt is
  in one cart or one paused sale of one till, and that a checkout which carries it
  is the only one and its till waits for it, so that its answer or its failure is
  seen there. The stored list is the list of some till (`StoredByTill`), which
  makes a reload of the only open till harmless and that of any other doubtful.
- `ReportsInv`. A report under way has counted every sale whose checkout has
  ended, but for those that raced with it (`CountedAll`), so what it stores shows
  them. Of a sale that is not cancelled nothing was returned yet (`Plain`), so a
  closed day loses only what a later step books at `now`. The periods meet by
  arithmetic, and the returns in both add up because the two sets of instants are
  disjoint and finite.
- `NamesInv`. A request inserts only its own record, which nothing else makes, and
  an edit that finds the record with as many changes as it read saw it active.
- `CartInv` says of a line that its quantity and the stock it remembers are stock
  the page was told of, and that its discount `Fits` the price and quantity it goes
  with; the arithmetic is `PercentExact`.
- `ListInv`. A page is there, or the list shrank under it, or is one that keeps its
  number (`PageShown`); `PagesReach` says when a number of records fills a page.
- `FormsInv`. Of an open form whose answers are not due, all that is on its way is
  its own and carries what was typed (`OnlyOwnDue`); an image of the open form has
  its record's text and not more than was typed in it (`ImageOwn`). A new form has
  a number that no upload and no save has, so that neither takes it for its own.
- `BoardInv`. The list is what the server would answer unless it is outdated or the
  page was not told (`ListOrdered`), and what is hidden belongs to a deletion of which
  nothing failed yet (`HiddenDoomed`), so without calls nothing is hidden. The hard
  part is that a deletion of other tasks leaves the panel where it is
  (`ResolvedStays`), because the panel falls back on the first task shown: the
  tasks are in one strict order (`TasksOrdered`), finitely many, so some task comes
  first (`OrderHasFirst`), and one that is still shown stays first.
- `CacheInv` adds to `FreshShowsAnswered` the same of the fetch under way
  (`FetchFresh`). It rests on `EveryHookTold`: a mutation that writes something a
  query shows invalidates its key, or the pair is named in `Late`. This is proved
  from the rows of `QueryTables`, file by file: by name, which mutations write a
  kind and what they invalidate, and which queries show it and how their keys begin;
  the pairs that are left over are those of `Forgotten` (`NotForgotten`).
- `PagesFitRoles` is a property of the tables too. `...Answered` states, for each
  kind of record, which calls the routes answer to which `@Roles`; `...Calls` that
  the pages a role may see call nothing else but what `Mismatched` lists; `InPlaceOn`
  which pages these are. Of the links, `ExpensesRefused` is the one that matters: an
  inventory user is not shown the way to the expenses only because the query that
  link waits for is refused. What is left to the steps is that the server reads a
  role for the organization of every tab (`AccessTypes`).

**Only checked by TLC.**

- Liveness (`EveryRequestEnds`, `CompletionShown`), which is out of the prover's reach.
- The type invariants of the modules of `MCOffice` and `MCShop` as they stand there;
  the parts of them that a proof needs are in its invariant.

## 5. Plan

1. Proofs of the types of `RecordForms`, `QueryCache` and `Access` as their modules
   state them.
2. A third tab in `Browser`.
3. The change of year of the sequence rows.

Not modelled, and why:

- `deleteOrganization` takes every row of an organization with it; passwords,
  profiles and names are single updates that nothing else reads.
- The report aggregations are queries without state, the tax rule is a sum with
  unit tests, payment records are inserts that nothing reads back, and
  `forceClose` is unreachable: no sale is ever OPEN.
- Parsing of files and cells, barcodes, exports, receipts, images and the audit
  trail are formatting and I/O (the store of receipt images is modelled where
  expenses use it).
- `OrganizationStatusGuard` is global and runs before a user is known, so it
  lets every request pass.
- In the frontend: the payment dialog, charts, the forms of orders and settings,
  the CSRF token, and presentation. They are a large part of the lines under
  `src/`, which is why the map, which names the code with control in it, covers
  about a third of the implementation.
