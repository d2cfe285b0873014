# TLA+ verification of The Inventory

The Inventory is a multi-tenant Django application that keeps stock records,
reservations, sales and purchase orders and physical counts.  Its core logic is
a set of services (`src/src/inventory/services`, `src/src/sales/services`,
`src/src/procurement/services`) called by the REST API, by Wagtail and by Celery
tasks.  Many workers run them at once against one PostgreSQL database at its
default isolation level, READ COMMITTED; `ATOMIC_REQUESTS` is not set, so what a
view reads before a service opens `transaction.atomic()` is not part of the
service's transaction.

This directory holds TLA+ modules of those services, TLC configurations that
check them on small instances, and TLAPS proofs of what matters most for every
value of the constants.

## 1. The system

| component | state | operations | hard behaviour |
|---|---|---|---|
| stock movement engine (`inventory/services/stock.py`) | `StockRecord.quantity`, the immutable `StockMovement` log | receive, issue, transfer, adjustment | row locks taken in handler order, an unlocked capacity aggregate, rollback between the two legs, deadlock |
| lots (same file, `models/lot.py`) | `StockLot.quantity_remaining`, `StockMovementLot` | receive into a lot, FIFO/LIFO/MANUAL allocation, lot adjustment | allocations computed before they are written, movements that bypass lots |
| reservations (`inventory/services/reservation.py`) | `StockReservation.status` | create, fulfil, cancel, the hourly expiry sweep | three closers racing on one row, a sum of other rows, stock taken by others |
| sales (`sales/services/sales.py`) | `SalesOrder.status`, line quantities, `Dispatch.is_processed` | confirm, cancel, process a dispatch in full or what is available, PATCH | every guard is on a row read before the transaction; saves overwrite |
| procurement (`procurement/services/procurement.py`) | `PurchaseOrder.status`, `GoodsReceivedNote.is_processed` | confirm, cancel, receive goods, PATCH | the same |
| cycle counts (`inventory/services/cycle.py`) | `InventoryCycle.status`, count lines, `InventoryVariance` | start, record count, complete, reconcile | a snapshot that ages, status tests on unlocked rows, a unique key as the only guard |
| bulk operations (`inventory/services/bulk.py`) | stock records, unit costs | bulk transfer, adjustment, revaluation | savepoint per item, a stale delta, deadlock inside and outside a savepoint |
| data import (`inventory/imports`) | products, locations | validate rows, insert all or none | two imports of one key |
| async jobs (`inventory/tasks.py`) | `AsyncJob.status` | dispatch, run, report | the inline fallback, a lost worker, the task id saved after the task ran |
| cache (`inventory/services/cache.py`) | cached stock records and dashboards | get, set, invalidate | invalidation before the outer commit, refill races |
| tenants (`src/tenants`, `api/views/invitations.py`) | tenants, memberships, invitations | invite, accept, cancel, roles, limits, suspension | a decision on rows read earlier, save() of a whole row |
| accounts (`api/views/auth.py`, `users.py`, `account_recovery.py`, `billing.py`) | users, passwords, reset links | profile, password, reset, platform user management, billing | the same |
| reports and dashboard (`src/reports`, `api/views/reports.py`, `dashboard.py`) | none | valuation, stock levels, movements, reservations, orders, counts, lots | joins that multiply or drop rows, two queries of one report around a commit, a scope that means different columns in different reports |
| catalogue, plugins, audit, localisation, admin pages, seeders | | | single-row CRUD, read-only or presentation |

How they meet: everything that changes stock goes through
`StockService.process_movement` (or its lot-aware variant), which locks the
stock records it changes.  Reservations, dispatches, receipts and counts wrap it
in their own transaction, so its locks last until theirs end.  Reservations are
read by partial dispatches (`available_quantity`) and by reports, and by nothing else.  Services
call the cache after their own atomic block.

What makes each component correct is listed with its properties below; the
hazards each is exposed to, with their lines, are in `PROJECT.json`.

## 2. Modules

```
StockMovements                 what a movement is, when it is valid, what it does
  StockLedger                  abstract: each movement is one atomic Post
    Stock                      the transactions of process_movement; implements StockLedger
    LotLedger                  abstract: a movement and the lots it takes from, in one step
      Lots                     process_movement_with_lots; implements LotLedger
    Reservation                ReservationService and the expiry sweep over the ledger
    Orders                     SalesService and ProcurementService over the ledger
    CycleCount                 CycleCountService over the ledger
  BulkStock                    BulkStockService and the importers
    Operations                 batches as requests and as jobs, and the stock cache
Accounts                       rows, save() and save(update_fields), users
  Tenancy                      tenants, memberships, invitations over those rows
ReportScope                    the warehouse scope every report takes
  StockReports (over Stock)  ReservationReports (Reservation)  CycleReports (CycleCount)
  OrderReports (Orders)      LotReports (Lots)
MovementProofs                 lemmas: what a movement does, what a sum over a finite set is
  StockProofs ReservationProofs OrdersProofs CycleProofs LotsProofs
  OperationsProofs TenancyProofs                               theorems
MCStock MCLots MCReservation MCReservationReports MCOrders MCCycleCount MCOperations
MCTenancy                                                    instances for TLC
```

The detailed module of the movement engine is `Stock`; the modules of its callers
use `Post`, the abstract movement, wherever somebody else moves stock.  That is
what `StockImplementsLedger` justifies: to the rest of the system a movement is
one step, guarded by the locks on the records it touches.

### StockMovements, StockLedger
`Clean`, `SameTenant` and `SameScope` are `StockMovement.clean()`,
`validate_movement_location_scope` and `_assert_no_mixed_warehouse_scope`.
`quantity`, `inflow` and `outflow` are the records and the two totals of the
movement log.  `Opening` stands for the receipts before the behaviour begins.

### Stock
One request runs one movement; `pc` is its place in the handler of its type.

| action | code |
|---|---|
| `Begin`, `RejectInvalid` | validation before the transaction |
| `CheckCapacity`, `RefuseCapacity` | `_check_capacity`, an aggregate without a lock |
| `TakeFromSource`, `RefuseSource` | `_get_record_for_decrement` and the decrement |
| `PutIntoDest` | `_get_or_create_record` and the increment |
| `Commit`, `Crash`, `DeadlockVictim` | the three ends of `transaction.atomic()` |

`draft` and `dirty` are a transaction's own uncommitted writes: its reads see
them, nobody else's do.  `exists` is needed because a record another transaction
is creating is invisible to `_get_record_for_decrement`, which refuses instead of
waiting, but blocks an insert.

### Reservation
Calls are split at every point where another session can come between: after
each `select_for_update`, between the sum and the insert, before the commit.
`resLock`, `recLock` and `lotLock` are the row locks.  The first status test, on
the row the view fetched, is in the `Begin...` actions; the second, under the
lock, in `FulfilLock` and `CancelLock`.  The expiry is the single UPDATE it is in
the database: it matches rows against a snapshot (`SweepStart`), waits for each
and tests it again (`SweepRow`), and commits (`SweepCommit`).  `issues` counts
the issue movements made for each reservation.  A create may be given a stock lot
(which is then not tested) or pick one.  `fulfill_reservation` locks a row with
`select_for_update().select_related(...)`, and the join decides what happens:
PostgreSQL refuses `FOR UPDATE` on the nullable side of an outer join, and
`stock_lot` is nullable, so there every fulfilment raises (`FulfilUnsupported`);
a backend that accepts it locks the joined lot too (`FulfilJoin`), and one
without row locks (SQLite, in development and tests) runs it as it is.  The
model has all of them, so what is checked holds for each.  Units a
movement takes without a reservation are `DirectMovement`: lot-blind ones leave
every lot alone, lot-aware ones drain lots, reserved ones included (`LotsMove`).

### Orders
Both services have one shape, so one module models both: an order in `Sales` is
shipped by dispatches, the others are received by notes.  A session holds in
`job` what it has read: the status and flag a PATCH will write back, the lines
(`ReadLines`), the plan of a partial dispatch, for which it reads the availability
of one line after the other (`PlanLine`).  `Issue` is the body of the transaction (it waits
for the rows other open transactions have written), `Commit` makes it visible.
`raced` remembers the orders on which two calls have overlapped.  `held` is what
active reservations hold, changed by `HoldsChange`.  The `Begin...` actions are
the guards on the fetched rows; nothing is tested again, as in the code.

### CycleCount
`StartSnapshot` reads the records in scope, `StartCommit` stores cycle and lines.
`Count`, `Complete` and `ReconcileCommit` save what was decided on the rows read
in their `Begin...` action.  `Reconcile` takes the record locks of the accepted
non-zero lines; the unique key of `InventoryVariance.count_line` is
`AlreadyReconciled`, with the wait for an uncommitted duplicate in `RowsFree`.
`disturbed` remembers which records have moved since a cycle's snapshot.

### Lots
A call (`aware` for the lot-aware entry point, plain for `process_movement`)
locks its records, selects its lots, locks each, adds to a lot, commits.

| action | code |
|---|---|
| `LockSource`, `LockDest` | the row locks of both legs, as in `Stock`, without the capacity check |
| `Select`, `LockLot`, `RefuseLots`, `LotsFound`, `RefuseDuplicate`, `PutInLot` | `_allocate_from_lots` (FIFO and LIFO: query, then lock each row and take what it has; MANUAL: the entries in order), `_lot_adjustment`, `_lot_receive` |
| `Commit` | all writes at once: every value comes from a row the call holds locked |

`remaining` is `StockLot.quantity_remaining`, `links` the `StockMovementLot`
rows, `received` what a lot took in.  `LotLedger` is the promise: a movement and
its lots change together, lots never give more than they hold, and movements
that bypass lots leave every lot alone.  `Ledger == INSTANCE LotLedger WITH used
<- ...` reads what each lot has given off the links, so that the refinement also
says that the links explain the lots.

### BulkStock, Operations
`BulkStock` runs a batch item by item in one transaction.  `draft` and `price`
are its uncommitted writes, `report` the results it will return, `broken` the
transactions PostgreSQL has aborted.  A failing item is undone by its savepoint;
a deadlock outside a savepoint, or a failing item with `fail_fast`, undoes the
batch.  `bulk_adjustment` reads the quantity, then locks: `disturbed` remembers
the items whose row another commit has changed in between.  An import validates
all rows, then inserts all or none; two imports of one key meet in the unique
index.

`process_movement`'s refusals are all there: unknown rows, a short source, and the
capacity of the destination, an aggregate without a lock.  A refused negative cost
keeps the product's row locked until the batch ends, because the lock is taken
outside the item's savepoint.

`Operations` puts a batch into a request or a job.  `place` is where the call is:

| action | code |
|---|---|
| `CreateJob`, `Send`, `RunInPlace` | `dispatch`: the row is committed, then the message is sent, or the task is run at once without a broker |
| `DispatchRaises` | `apply_async` or the connection raises after the row was committed: the job stays pending |
| `SaveTaskId` | the second save of `dispatch`, of `celery_task_id` only, which may come after the task has finished |
| `TakeMessage`, `MarkStarted`, `StartRaises`, `RunBulk`, `RunImport` | `_run_with_job` up to the service; a worker acknowledges first, so a lost worker's message is not delivered again |
| `Finish`, `RefuseTask` | the end of its `try`: `mark_success` is inside it, so when it raises, `mark_failure` records a failure for a batch that has committed (`unsaved`), and that may raise too |
| `FinishInPlace`, `Lose` | the end of `dispatch` in place; the loss of a process, anywhere |

`cache` holds the stock payloads, filled by a view in two steps and deleted by each
movement before the batch commits.

### Accounts, Tenancy
Every handler of the account and tenant API reads rows when its request begins
and writes when it ends.  `row` holds all tables; `save()` puts back every column
as it was read except those assigned, `save(update_fields=...)` only the named
ones: a suspension, a role or a removal that a slow `save()` has overtaken is
undone, and the models let it.  `Purpose` and `MayMake` say, call by call, which columns
and rows a call is for, apart from how its handler writes them.  A PATCH of a member
may carry role and `is_active` together (`change_member`).  The
clock of links and tokens is `next`.  Accepting an invitation is one transaction
that locks neither the invitation nor the account; `contested` are the
invitations that two requests had both found pending, `trampled` the accounts a
`save()` has written back from an overtaken read.  An invitation past its
date is pending in the table: the status `expired` is saved only by `is_pending`,
which no code reads, and the handlers compare the date.  A link's token also hashes
the e-mail address and `last_login`; the first does not change here, the second is
not updated by the token sign-in (`UPDATE_LAST_LOGIN` is left at its default).

### The report modules
Reports change nothing, so they are operators over the state of the module whose
rows they read, evaluated in every reachable state; only a report made of two
queries between which a commit can come has steps (`StartReport`,
`FinishReport` of `ReservationReports`).  Each operator follows the joins of its
query: which rows a join multiplies, what an outer join to NULL selects, which
leg of a movement a scope looks at.  `ReportScope` translates the query string
(`?warehouse_id`, `?retail_locations_only`) to the scope the services take;
an empty or unknown value means the whole tenant, as in
`report_scope_params_from_query`, but a `warehouse_id` that is no integer raises, and
that request gets no report (`Understood`).
Where the API and the admin treat a bad parameter differently both are there
(`ApiValuation`, `AdminValuation`; `ApiExpiry`, `AdminExpiry`).

## 3. What is checked

| run | shows | bounds |
|---|---|---|
| `stock` | `StockInv` (types, `NonNegativeStock`, `LedgerBalances`, row-lock discipline, what a transaction read is still true), `LedgerSpec` refinement, `RequestsEnd`; `ReportsTellOneStory` of valuation, overstock and history | 1 product, 3 locations (one retail-only, one bounded), quantities 0, 1 and 2, 2 requests |
| `stock_capacity` | the capacity of a location can be exceeded | the same, quantities 1 and 2 |
| `reservation` | `NothingOverdrawn`, `IssuedIffFulfilled`, `ClosedIsFinal`, `ReservationInv`; `ShortagesShow` of the availability, low stock and dashboard reports | 2 workers, 2 reservations, the sweep, 1 direct movement, 1 reader, one stocked facility location |
| `reservation_live` | `ShortByDirectOnly` (active reservations lack no more stock than other movements took), `NothingOverdrawn` of lots, `DueReservationsClose` | 2 workers, 2 reservations of 2 units, 3 in stock, one lot of 2 of them, 1 direct movement |
| `reservation_oversell` | a movement outside reservations takes held units | 1 direct movement |
| `orders` | `DoneMeansMoved`, `ExactWhenAlone`, `ClosedOrdersStay`, `OrdersInv`; `BacklogReported` of the order reports | a sales order of 2 units with 2 dispatches, a purchase order with 1 note, 2 sessions, 1 other movement, up to 1 unit held |
| `orders_twice` | two overlapping requests process one dispatch twice | the same |
| `cycle` | `LineReconciledOnce`, `AcceptedCountIsStock`, `CycleInv`; `VarianceExplainsStock` of the variance and history reports | a cycle of a whole facility and one of its location, counts 0 and 2 of 1 unit, a retail location, 2 sessions, 1 other movement |
| `cycle_snapshot` | the snapshot is not the stock at the time of the count | the same |
| `lots` | `ImplementsLotLedger`, `LineageComplete`, `DrainedInOrder`, `DriftIsUntracked`, `CallsEnd`; `LotsTraced`: links, trace and expiry reports | 2 products (one tracked), 2 locations in 2 facilities, 2 lots in stock and 1 to receive, 2 calls out of about 25 of every type and strategy |
| `operations` | `ReportsExplainStock`, `FailFastIsWhole`, `AdjustedAsAsked`, `JobTellsTruth`, `JobsSettle`, `StaleHasACause` | 1 request, 1 job, each one of 9 batches of up to 3 items, a location with a limit, revaluations, 1 cached record |
| `tenancy` | `ChangesAreAsked`, `LinkWorksOnce`, `InvitationSettlesOnce`, `OwnersComeFromOwners` | 3 requests out of 30 calls, 2 tenants, 3 people of whom one has two usernames |

Two sessions are enough for the conflicts of interest because every conflict in
this code is between a pair: two row locks in opposite orders, a read and an
overlapping write, a test and a second test.  The sweep and the direct movement
are further actors.  Three locations let a transfer cross another and meet a
retail-only and a bounded location; two dispatches let a partial one and a full
one meet; two cycles let one count invalidate the other's snapshot.  The bounds
`MaxDirect`, `MaxHeld` and `MaxTimes` cut only how often outsiders act.  The
proofs cover every other value.

Four runs expect a violation; each is a place where a comment, a help text or a
test says more than the code does (see `findings` in `PROJECT.json`):

* a location's maximum can be exceeded by two concurrent receipts;
* reserved stock can be taken by a movement that is not a fulfilment;
* a dispatch (or a goods received note) can be processed twice by two requests
  that both fetched it unprocessed;
* `system_quantity` is the stock at the start of the cycle and not at the time of
  the count, so an accepted variance applies again whatever moved in between.

`ExactWhenAlone` and `ClosedOrdersStay` say what is left of the order lifecycle
then: it is exact as long as no two calls on one order overlap.  `DoneMeansMoved`
holds under every overlap.  `AcceptedCountIsStock` is the matching statement for
counts: exact where nothing moved since the snapshot.

What the newer properties say, in words:

* `DriftIsUntracked`: a product's lots and its records differ by exactly the
  movements that bypassed lots, so nothing lot-aware ever loses or invents a unit.
* `DrainedInOrder`: FIFO and LIFO empty a lot before they touch the next, although
  the lots may change between the query that orders them and the locks.
* `ReportsExplainStock`: the results of committed batches add up to the stock, and
  to the costs a revaluation leaves, whichever items failed, deadlocked or shared a
  record; a batch that did not commit leaves neither.
* `JobTellsTruth`: what a poller may conclude.  Success is a batch that committed,
  or one the database undid, whose result then lists a failed item;
  failure is a call that changed nothing, unless `mark_success` itself raised.
  `JobsSettle`: a job ends, unless a process holding it is lost or its own
  bookkeeping raises where nothing records it (`dropped`): a created row whose message
  was never sent, or a `mark_failure` that raised.
* `AdjustedAsAsked` and `StaleHasACause` state what is left where the code does
  not hold a simple promise: an adjustment misses its target only if a commit came
  between its read and its lock; a stale payload was stored by a view that a
  change overtook, or belongs to a change whose deletion does not reach it (a job
  runs without a tenant, and the keys contain the tenant).
* `ChangesAreAsked`: what a stale `save()` can do and no more.  A request changes the
  columns it is for of the row it is for; besides those it puts back at most what it
  had read, and only the handlers that save whole rows do that, so a suspension,
  removal, role or password outlives every request that begins after it and was not
  made to change it.  `OwnersComeFromOwners` that no chain
  of invitations and role changes makes an owner without an owner or the platform.
* The report properties relate a report to the state or to another report: what a
  valuation counts is what the history explains, at a cost between two prices paid; no two-query report hides a
  shortage; accepted variances are the change of the stock; the backlog is never
  understated; a lot with units is never missing from the expiry lists.

Runs without a deadlock check: `cycle`, `operations` and `tenancy` come to states
with nothing left to do (both cycles reconciled, every batch or request over).

Things the reports do that a reader of their numbers should know, all modelled as
they are: the retail filter of movements also matches movements with a missing
leg; the API's movement history documents `?product` and `?location` and reads
neither; the net figure of `get_cycle_history` is summed once for every joined
line, its counts are not; the order summary counts an order once per line and document in scope while
the totals do not; sales totals use the lines as partial dispatches have reduced
them; lots are selected by the stock records of their product; the low stock API
row shows tenant-wide stock whatever the scope; quick stats count lines of products
without a reorder point; `StockLot.is_expired` and `get_expired_lots` disagree on
the day of expiry; the dashboard reads stock before reservations, so a fulfilment
in between makes it show more than is free; receipts that cost nothing are valued
at the catalogue cost; an unknown id in an expiry filter drops the filter.

### Fairness
`Stock!FairSpec` assumes weak fairness of each request's own steps: a worker that
has begun runs on, and PostgreSQL's detector breaks a deadlock.  Requests need
not come and need not crash.  `Reservation!FairSpec` assumes that Celery beat
keeps starting the hourly task (`expire_reservations` in the beat schedule), that
the task does not crash for ever, that workers finish calls they accepted, and
strong fairness for a step that waits for a row lock, since PostgreSQL queues the
waiters of a row.  `Lots!FairSpec` is as `Stock!FairSpec`.  `OperationsFair`: a
worker polls its queue and finishes what it took, a request runs to its end;
losing a process or raising in its
bookkeeping is always possible, and `JobsSettle` excepts both.

## 4. What is proved

All theorems hold for every value of the constants under the modules' named
assumptions.  Those say what kind of thing a constant is and that the sets something
is added over are finite (reservations, lots, locations, products, orders, documents,
cycles, warehouses, requests and callers: rows and clients).  Beyond that: a stock
record is no lot, an account no tenant (the tables' rows have keys and locks of their
own), a warehouse's key is none of the words the query string uses, batches and calls
have the shapes the serializers accept.  Costs and prices may be any
integer, since nothing in the code refuses a negative one; the properties that need
them say so (`NoNegativePrice`).

Every safety property a passing run checks, invariants and action properties, is now
stated by a theorem; that the movement engine, the lots and the reservations implement
their abstract ledgers is among what is proved.

* **MovementProofs** holds what all proofs share: what posting a movement does to
  records and log, and the facts about `SumFunctionOnSet`, the community modules' sum of a
  function over a finite set, which the models use wherever the code says
  `Sum(...)`.  The operator is recursive through `CHOOSE`, so its value on a set is
  known only by induction, and the induction theorems are out of the provers'
  reach.  Each lemma is proved by a smallest counterexample instead: strict inclusion
  is well founded on the subsets of a finite set, so among those on which the lemma
  fails one contains no other, and taking the chosen element out of it gives a smaller
  one (`MinimalSubset`).  From there on: a sum of naturals is one (`SumNat`), changes by the
  change of one term (`SumUpdate`), distributes over `+`, `-` and a common factor
  (`SumPlus`, `SumMinus`, `SumScale`), is monotone, follows a renaming of the set
  (`SumRenamed`), and can be added up by disjoint parts, by columns or by the classes
  of a key (`SumDisjoint`, `SumPairs`, `SumClasses`): what a `GROUP BY` and a join do.

* **StockProofs** `LedgerCorrect`: the abstract ledger is typed, never negative and
  balances.  `StockInvariant` proves `Spec => []StockInv`.  Neither
  `NonNegativeStock` nor `LedgerBalances` is inductive: a commit writes values
  computed from earlier reads.  `StockInv` adds that whatever a transaction wrote
  it holds locked (`WritersHoldLocks`), so that what it read is still the
  committed value, and that its draft is the committed quantity plus what its own
  steps did (`DraftCurrent`).  `StockImplementsLedger` follows: a commit is a
  `Post`, everything else a stutter.
  `StoryIsOne` proves `ReportsTellOneStory`.  A valuation adds up records, a history
  movements; what ties them is `HistoryInv`: in every scope the stock is the opening
  stock plus the net of the posted movements, which a commit keeps because the move
  it posts changes the scope by exactly its own net (`PostMoves`).  A movement the
  history leaves out carries nothing (`OutsideCarriesNothing`), and the valuation's rows are the
  classes of the scope's records by product.  That a weighted average lies between two prices is arithmetic
  of sums and of rounding half to even (`AverageBetween`, `RoundedBetween`); that a
  part is not overstocked alone is `SumSubset`.
* **ReservationProofs** follows a rely/guarantee argument.  For each worker
  `WorkerInv` says that past its lock the status (the quantity, the lot) it
  tested is still what it tested; `OtherWorkers` shows that a worker's steps keep
  everybody else's, because they change only rows they have locked.
  `ReservationInvariant`, `ReservationNothingOverdrawn`, `FulfilledOnce` and
  `ReservationClosedIsFinal` follow.  `PromisedOnce` proves `ShortByDirectOnly`.
  It is not inductive: a create sums the active reservations in one step and
  inserts in another.  `PromiseInv` adds that in between it holds the record's
  lock, under which nobody else inserts, so what it found free still is
  (`CreatorInv`); the other steps move one term of the sum.
  `ReservationImplementsLedger`: a fulfilment is one `Post` of an issue the ledger
  accepts, because the row it locked asks for units of the tenant that owns the record
  (`RequestsValid`), and creating, cancelling, expiring and crashing post nothing.
  `ShortagesShown` proves `ShortagesShow` of `ReportSpec`, the services with a reader
  of two-statement reports.  The reader only reads (`ReaderOnlyReads`), so all the
  invariants above hold for it too; `ReadingInv` says how what it has read bounds what
  the rows say by now, although anything may have been committed since: free stock net
  of receipts cannot have grown under an availability report except by what it counts,
  stock cannot have grown under a dashboard beyond what it read while only reservations
  take it.  Partitions, products and locations add up by `SumClasses`.
* **CycleProofs** proves `Spec => []CycleInv`, and from it that a count line
  adjusts the stock at most once (`ReconciledOnce`) and that an accepted count of
  a record nothing has moved becomes its stock (`AcceptedBecomesStock`).
  `LineReconciledOnce` is not inductive: a reconciliation decides in one step and
  commits in another.  `CommitReady` says what it relies on in between (its lines
  have no variance row yet, the records it adjusts still hold enough, nobody else
  about to commit shares a row with it), and `ReadyKept` that every other step
  keeps it.  `SnapshotCurrent` ties an undisturbed snapshot to the stock.
  `VariancesExplained` proves `VarianceExplainsStock` from `VarianceInv`: record by
  record, the stock is what was there, plus movements, plus the accepted variances
  added up over all cycles; a reconciliation adds one column to that sum.
* **OrdersProofs** proves `Spec => []OrdersInv` and `DoneOrdersAreMoved`.  Nothing a
  session has read is current when it saves; `SessionInv` says what survives:
  units moved only grow, so the lines a session has read, with what has been
  moved, still cover what was ordered, and a status computed from them is never
  "done" too early.  `LocksExclusive` keeps the stock that was tested in place
  until the commit.
  `AloneOrdersAreExact` (`Spec => []ExactWhenAlone`) and
  `AloneClosedOrdersStay` (`Spec => ClosedOrdersStay`) are about one order at a time.  `ExactWhenAlone` is
  not inductive, for the same reason; `AloneInv` adds that on an order without
  overlaps at most one session is busy and that everything it has read is still
  what the rows say (`Current`).  Its guards on fetched rows are then guards on the
  rows.  `OthersKept` shows that a step on one order leaves every other alone.
  `BacklogNeverUnderstated` proves `BacklogReported`: the covering lines of `OrdersInv`
  give the inequality, the exactness of `AloneInv` the equality.
* **LotsProofs** proves `Spec => []LotsInv` (`LotsInvariant`) and from it
  `LotsExplained`, `LineageKept`, `OrderKept` and `DriftExplained`.  What a call has
  planned is decided lot by lot and written at its commit; `RequestInv` says what it
  may rely on until then: the lots it plans to take from are locked by it and hold
  the units (`PlanInv`, `ShareInv`), and under FIFO or LIFO those it has locked come
  before those it has not and are drained (`QueueInv`).  `OtherRequests` is the
  other side: a step changes only rows its request has locked.
  `LotLedgerImplemented` proves the refinement: a commit is one `Post` of `LotLedger`,
  every other step a stutter.
  `LotsTracedShown` proves `LotsTraced` from `LinksInv`: the receipts explain what a
  lot has received, and the link of a movement to a lot has at least the units it put
  there, exactly those where it takes from no lot.  The entries of a lot's chain then add up as
  its links do (`ChainUnits`), and every leg lies in some partition (`LegSomewhere`).
* **OperationsProofs** is about one batch at a time.  What is not committed nobody
  sees, so a caller's steps touch only its own draft (`OwnStep`, `OthersKept`), and the
  commit is the one step others feel.  `DraftInv`: a draft is the stock plus what the
  batch's result reports, on rows it holds locked; `AdjustInv`: what an
  adjustment has read, and the targets it has met, stay so until another commit changes
  the record; `ImportInv`: the keys an import has inserted are its own; `JobInv`: how
  far the batch of a job can be, given where its call is, and what it has done when the
  task has returned or raised in place; `CacheInv`: while
  a change is uncommitted, a payload under a key its deletion reaches was stored too
  late.  From them
  `ReportsExplained`, `FailFastWhole`, `AdjustmentsExact`, `JobsTellTruth` and
  `StaleCaused`.
* **TenancyProofs** has no locks to build on.  `CallInv` says of what a request has
  read only what no other request can undo: accounts, tenants and invitations never
  vanish, a password is never made twice.  What the handlers decide and what the tables
  hold are compared row by row: what a request finds written is what it read or what
  it is for (`ChangesWereAsked`).  `SpentKept` follows a used
  link, and `OwnersMadeByOwners` follows a role from the caller's rank when the call
  began through the invitation to the membership (`MadeOwner`, `GivenBy`).

The inductive invariants were checked by TLC on the instances of the runs before
they were proved.  Some attempts failed for a good reason and changed the model or the
property: a batch's sums became `SumFunctionOnSet`; `CostsPaid` was false for a
receipt of zero units, which the admin form accepts, and for negative costs, and the
stock run now has quantity 0; `ExpirySeen` was false for windows longer than the 30
days the dashboard shows; the values of backlog and reserved stock were compared
as if no price could be negative.

Only model-checked: the liveness properties (`RequestsEnd`, `DueReservationsClose`,
`CallsEnd`, `JobsSettle`), which are outside this prover, and the four runs that show
a violation.

## 5. Not modelled, and why

* Plugins, audit, localisation, pages, seeders and the catalogue's CRUD hold no
  concurrent state of their own, or only single rows no decision reads.
* Orders: creating and editing lines (`SalesOrderSerializer.create` saves an order
  and then each line outside a transaction), deleting rows, and
  `_auto_reserve_lines`, which no caller reaches (the view passes no
  `default_location`).
* A PATCH of an order's document may name another order or location; the model
  gives a document both for good (`OrderOf`, `SiteOf`).
* Cycles: `record_count` also tests the cycle's scope and its other lines' warehouse;
  as a snapshot has only lines in scope, these refuse none of its lines unless a
  location is moved to another warehouse.  No code starts a cycle that is
  `scheduled`: `start_cycle` creates its row in progress.
* Tenancy: `is_default`, the export, plans and branding, the signing of tokens and
  cookies, impersonation (an audit entry and a session), email changes, and the
  resend action of invitations, which `http_method_names` makes unreachable.  The
  user limit is tested when an invitation is made and nowhere else, so there is no
  limit invariant to state.
* Jobs: `generate_report` reads and stores a result nobody decides on.
* Cache: the dashboard's slices and the reserved quantity in a cached record, which
  the expiry sweep does not invalidate; `Operations` caches quantities only.
* Reports: dates, names, pages, limits and file formats, the queries of one
  valuation (taken together), the movement trend of the dashboard, and the
  barcode text of a GS1 trace.
* Costs are modelled in `BulkStock` (revaluation) and the reports, references and
  notes nowhere: no decision reads them.

Some properties are weaker than a reader may expect, because the code keeps no more.
`ClosedOrdersStay`, `ExactWhenAlone`, `AdjustedAsAsked`, `AcceptedCountIsStock`,
`StaleHasACause`, `LinkWorksOnce` and `InvitationSettlesOnce` except rows on which two
calls have overlapped (`raced`, `disturbed`, `late`, `trampled`, `contested`): in
an overlap the code breaks the plain statement, and what the
property shows is that nothing else does.  What survives an overlap is stated apart:
`DoneMeansMoved`, `LineReconciledOnce`, `NothingOverdrawn`, `ChangesAreAsked`,
`OwnersComeFromOwners`.  `ShortagesShow` is run with one stocked location, where
its partitions are trivial; the theorem covers any number.  The
dashboard's pending reservations are an aggregate and a breakdown in
separate statements; only the aggregate is modelled.

## 6. Plan

1. Proofs: the safety lemmas the liveness arguments rest on (a request that is not
   over has a step, or waits for one that has), which are within the prover's reach
   though liveness is not.
2. Order creation, with a failure between the order and its lines.
3. The reserved quantity in cached stock payloads against the expiry sweep.
