# Verification of the marketplace data loader

TLA+ modules, TLC runs and TLAPS proofs for the synchronization engine in
`src/`. The program is a command, `sync --entity=...`, that systemd timers (or
an operator) start; each process copies one data set of a marketplace API into
PostgreSQL. A second program, `server`, answers HTTP requests from the same
tables.

## 1. Inventory

| Component | Source | State it keeps | Operations | Talks to |
|---|---|---|---|---|
| Card sync | `service/wb_cards.go`, `client/wb_cards.go`, `repository/wb_cards.go` | table `wb_cards`, the saved cursor `sync_cursor_state`; in the process the walk's cursor, page and count | `SyncCards`: `GetCursor`, then per page `FetchCardsBatch`, `UpsertBatch`, `SaveCursor`, at the end the log row | Wildberries Content API, database |
| WB orders sync | `service/wb_orders.go`, `client/wb_orders.go`, `repository/wb_orders.go` | `wb_orders`; in the process `dateFrom` | `SyncOrders`: fetch, filter by date, upsert, pause | Wildberries statistics API, database |
| Ozon stock sync | `service/ozon_stocks.go`, `client/ozon_stocks.go`, `repository/ozon_stocks.go` | `ozon_remains` with `synced_at`; `last_id`, the start time | `SyncOzonStocks`: pages, upserts, `ResetStale` | Ozon API, database, two clocks |
| MoySklad sync | `service/moysklad.go`, `client/moysklad.go`, `repository/moysklad.go` | `ms_stores`, `ms_snapshots`, `ms_stock_details`, `ms_product_totals` | `SyncMoysklad`: stores, snapshot, report pages, details, totals | MoySklad API, database |
| Ozon orders sync | `service/ozon_orders.go`, `client/ozon_orders.go`, `repository/ozon_orders.go` | `ozon_orders` | two walks, FBO by offset and FBS by `last_id`; errors are logged, never returned | Ozon API, database |
| WB remains sync | `service/wb_remains.go`, `client/wb_remains.go`, `repository/wb_remains.go` | `wb_remains` | create a report, poll it, download, upsert | Wildberries analytics API, database |
| Rate limiter | `client/moysklad.go` `checkRateLimit` | the timestamps of the last minute, under a mutex | admit or wait | clock |
| Retry policy | the clients' `retryPolicy` | none | retry on errors, 429 and 5xx | HTTP library |
| Sync log | `repository/sync_log.go` | `sync_logs`, `ozon_sync_logs`, `ms_job_log` | three inserts, one list | database |
| Sync command | `cmd/sync/main.go` | the context of the process | one run per process; a signal cancels the context | systemd, operator |
| API server | `cmd/server/main.go`, `transport/http/*` | none of its own | read-only handlers, shutdown | database |
| Pool, configuration, domain types | `repository/postgres.go`, `config/`, `domain/` | none | wiring | |
| Schema | `migrations/` | the tables, the seeded cursor row, keys and foreign keys | | |

Components interact only through the database and the external APIs: a run
shares its tables with the next run, with a run started by hand at the same
time, and with the server. What is hard here:

* a run may stop between any two calls (error, SIGTERM, SIGKILL), and the next
  one starts from what it left;
* a call may fail although the database carried it out, or be acknowledged
  although the batch did not commit;
* the data changes while it is read page by page, with four ways of paging
  (position cursor, last change time, last id, offset);
* times are compared across two clocks and after being cut to seconds;
* two processes may run side by side.

`PROJECT.json` lists each hazard at its line with the properties that cover it.
What makes each component correct: cards, the cursor never vouches for what is
not stored and success means caught up; orders, a logged success means that all
orders of the window are there; Ozon stock, nothing is written that Ozon did not
say; MoySklad, totals, details and snapshot belong together; orders of Ozon and
remains, the log tells the truth, what is written is of the run's own reading and
a run ends; the rate limiter, how many calls can go out in a minute and that every
call ends; the server, the parts of an answer agree, a client that pages misses
no row that is alone in its creation time, and every request is answered.

## 2. Modules

| Module | What it is |
|---|---|
| `CatalogMirror` | the abstract promise of the card sync: a mirror whose rows never go back and a mark below which it is exact |
| `CardSync` | the card sync, one action per call |
| `WbOrdersSync` | the Wildberries orders sync |
| `OzonStocksSync` | the Ozon stock sync with both clocks |
| `SnapshotStore` | the abstract promise of the MoySklad sync: snapshots that are filled once and totals that are sums of one of them |
| `MoyskladSync` | the MoySklad sync |
| `MoyskladClient` | the calls of the MoySklad client: the rate limiter, the retries, the signal |
| `WbRemainsSync` | the Wildberries remains sync with its report task |
| `OzonOrdersSync` | the Ozon orders sync |
| `ApiServer` | extends `OzonOrdersSync` with the server: both use `ozon_orders` at the same time |
| `...Proofs` | for each of them but the two abstract ones, the inductive invariants and the theorems; `ApiServerProofs` builds on `OzonOrdersSyncProofs` as `ApiServer` does on `OzonOrdersSync` |
| `MC...` | each of them on small instances; one `.cfg` per run |

Conventions all modules share. `pc` is where the process stands in its `Sync...`
function, its label named for the call it makes next; the other process variables
carry the names of the Go locals. An action is one call to the API or the
database with the code up to the next call. `live` is the process's context:
when a signal has cancelled it every call fails. `Breaks(kind)` is a call that
fails, because the context is gone or because one of at most `MaxFaults` faults
strikes; an `UpsertBatch` that fails may have stored its rows or not (the answer
was lost). The reverse is the fault `"commit"`: every statement of the batch is
acknowledged and the transaction does not commit, which only the deferred
`br.Close` learns, and all eight of them drop its error (`repository/wb_cards.go:79`,
`wb_orders.go:73`, `wb_remains.go:52`, `ozon_orders.go:69`, `ozon_stocks.go:62`,
`moysklad.go:57`, 141 and 188). Every sync module has it. For remains and Ozon
stock the history variable `lost` holds the rows of such batches, in the two
modules of orders `Excuse` takes them out of what the run answers for; so the
properties exempt these rows and no others. For cards and MoySklad, where what is
lost spreads (to the cursor, to a snapshot that totals name), the properties hold
only without it (`~LoseCommit`). `Crash` is the process ending without its deferred code. Changes at
the marketplace are actions of the environment and may come between any two
calls. Operators named `X_Y` and commented "A slip" are altered forms of `X`:
the runs are known to fail when `X` is replaced by one of them.

Properties are written for a program that behaves as its documents say. Where
the code does not, there is a run that shows the counterexample and an entry
under `findings`.

### CardSync

A version of a card is its position in the API's listing order, the pair
(`updatedAt`, `nmID`), as one number; an edit moves the card to a new largest
position. `catalog` is the API, `rows` is `wb_cards`, `stored` is the row of
`sync_cursor_state` (absent, NULL or a position).

| Action | Code |
|---|---|
| `Start`, `Cancel`, `Crash` | the process, `cmd/sync/main.go:20-60` |
| `GetCursor` | `repository/wb_cards.go:156-168`, with `service/wb_cards.go:68-77` |
| `FetchCardsBatch` | `client/wb_cards.go:62-119` and the loop around it up to the callback |
| `UpsertBatch` | `service/wb_cards.go:85-90` and `repository/wb_cards.go:27-91` |
| `SaveCursor` | `service/wb_cards.go:92-97`, `repository/wb_cards.go:171-186`, then the end of the loop `client/wb_cards.go:148-151` (`NextPage`, `LastPage`) |
| `InsertLog` | the deferred insert `service/wb_cards.go:52-66` |
| `Publish`, `Withdraw`, `Pages` | external: the seller and the Content API |

Assumptions about the API: cards come in ascending order of their last change,
an edit always gets a larger position than any given out, a page with more
behind it is full, and a page that is not the last carries a cursor. The cursor
may be left out of a last page. `SuccessMeansCaughtUp` also needs the API to
serve pages of the requested size (`Limit <= PageMax`).

`last_updated_at` is a TIMESTAMPTZ that `GetCursor` scans into the Go string of
`domain.SyncCursorState`. The driver refuses that in the binary format it asks for
by default, and refuses NULL always, so in the program as it is a run gets past
`GetCursor` only while there is no row: the first run that saves a cursor is the
last that reads cards, and from the row the migration seeds there is not even a
first. The run `cards_resume` shows it. `CursorScans` says which outcomes a saved
position may have: with `{FALSE}` the model is the program with the driver's
default, and `TRUE` is a driver told to use the text format. The passing run and
the theorems allow both, and a choice at every call, so that what is said of the
resumed walk does not hold just because there is none. `SeedRows` is the row a
database may begin with. `ConvergesPastCursor` is the progress the rest of the
program makes: if runs get past `GetCursor` again and again, the table comes up
to date.

### WbOrdersSync

An order is the time of its last change in ticks of a millisecond; `Sec` ticks
make a second, which is what `RFC3339` keeps. `window` is the set of orders
inside the date window of the run: only its upper end matters, the orders here
are younger than 30 days. `limit` is `API_LIMIT`, which `config.go` takes as it
comes; a behaviour starts with any member of `Limits`. `AfterPage` is the end of
the loop body (`service/wb_orders.go:104-110`) and follows an upsert, or the
fetch when the filter leaves nothing; its last disjunct is the index out of
range at line 109, after which the deferred insert runs and the process is gone.
Assumptions about the API: a page starts with the earliest change, and has
`PageMax` orders unless it is the last. `Burst` bounds how many orders change in
one millisecond. When orders share the last millisecond of a second and a page ends
among them, the added millisecond is not cut off again and the walk steps over the
rest (`Tied`). `owed` is what a run must have stored if it is a success: the orders
of its window as they were at its start, without those that are tied at the start
or become so during the run and those of a batch lost at commit. `Crowded` is the
other half of that line: a page's worth of orders in one second, none in its
last millisecond, with which the walk may not move.

### OzonStocksSync

Ticks of the program's clock; the database's clock is `Skew` (`DbAhead -
DbBehind`) ahead of it. A product without a row is one whose row says 0, because
`ResetStale` cannot tell them apart. `shown[p]` records what Ozon said of `p`
during the run and `lost` the products of pages lost at commit; only the properties
read them. A lost page leaves old `synced_at`s behind, `ResetStale` zeroes its rows
and the run logs success: `Justified` allows exactly that. `Gap` is the least time
between two runs: with less than a second between them the start of the second,
cut to the second, can lie before rows of the first, which is why the run keeps
a second apart (the timer fires every 15 minutes). The clock only moves up to
`MaxTime`, after which nothing may be left to do; that is why this run does not
check for deadlock.

### MoyskladSync

The tables implement `SnapshotStore`: `UpsertStores` is `Learn`, `CreateSnapshot`
is `Open`, `InsertStockDetails` is `Fill`, `UpsertProductTotals` is `Publish`, and
everything else leaves them alone. A refusal of the foreign key or a lost answer
is a step of the store or none, never half of one. All this is for batches that
commit when they are acknowledged (`~LoseCommit`): with details lost at commit the
totals that follow name an empty snapshot, and with totals lost a success renews
nothing.
A report row is a product with a quantity per warehouse, in units of `1/Unit`;
the code keeps the whole part. `stock`, `reserve` and `inTransit` are treated
alike by the code and one stands for the three; quantities are not negative. The
list of warehouses fits on one page of 1000. `ms_snapshots.id` runs up to
`MaxSnapshots`, beyond which the insert fails. The foreign key of
`ms_stock_details` on `ms_stores` is the guard `StoresKnown`.
`FetchStockByStorePage` is one round of the paging loop; its last round includes
the early return for an empty report and the sums of `normalizeStockData`, which
involve no call. `shown` and `moved` record what the report said during the run
and whether a row entered or left it; only the properties read them. The row in
`ms_job_log` is not modelled.

### MoyskladClient

One process reads the pages of the warehouses (light calls), then those of the
report (heavy ones), as `SyncMoysklad` does; `MoyskladSync` has these calls as
single steps. A point in time is its age in ticks: `Tick` makes every timestamp
older and `Older` drops what is a minute (`Window` ticks) old, so time needs no
bound. `CheckRateLimit` is the part of `checkRateLimit` under the mutex, `Wait` its
select, `Request` an attempt of `doRequest`, `Retry` the policy with the library's
count, `Pause` the library's pause. `sentLight` and `sentHeavy` record when calls
first went out and are read by `CallsPerMinute` only. The limiter does not see
retries: a call may be sent up to `1 + RetryMax` times. A call, its retries
included, takes at least a tick: the next one is not admitted in the tick in which
one got its timestamp or was first sent (the guard of `CheckRateLimit`), so that
sets of ages count calls. A new process starts when nothing of the last one is left in the
window, because each process has a client of its own.

`CallsPerMinute` is what the code really keeps. Both bounds are reached: with
`LightLimit` or `HeaviestMinute` without the `+ 1` TLC finds a counterexample. The
numbers 45 and 5 in the code are therefore limits of what is admitted
without a wait and not of what is sent: after `n` light calls spread over less than
a minute, up to `n + 1` heavy calls (where `n` is between 5 and 45) can go out in
one. With the usual one page of warehouses it is six.

### WbRemainsSync

An item is a row key of `wb_remains`; quantity 0 is also no row, because the
code never stores a 0. `task` is the status of the latest report task, `report`
what it holds once it is done: the stock at some moment after the task was
created. A status the code does not know is `"other"`. `held` records the
quantities an item had since the run started. `CreateRemainsReport` that fails may
have created a task, which nobody asks for again. `Wake` is the end of
`time.Sleep`, during which a signal is not seen. Nothing says that a report is
ever finished (`Generate` is not fair): that is why runs are promised to end only
when the report does (`ReportEnds`) or a signal comes (`CancelEnds`). Items that
are sold out keep an older row, as the code never resets them; `SuccessIsFresh`
leaves them out, and those of a batch lost at commit.

### OzonOrdersSync and ApiServer

A posting is its place in the order of creation, which orders both lists
of Ozon. The window of a run is fixed by its start (`to`); postings are younger than its 30 days. A version
stands for the columns an upsert renews. FBO is walked by `offset` against
the total of the answer, FBS by `last_id`; after either, whatever its outcome,
the run goes on. `errMsg` is the error the log row will hold, the later one if both
schemes failed. `shifted` records that an FBO posting left the list during the run,
which can move another across a page boundary behind the walk: such a run may
miss it and log success, and `LogIsTrue` says so. `begun` holds what the log answers
for: a posting that leaves its list, or whose page is lost at commit, is taken out.
Assumptions about the API: it serves pages of the size asked for and honours
`last_id`; `has_next` may be said of a full last page.

The server has no state but its pool and its open requests. `Request` is the
router calling a handler; `Acquire` the pool giving a query one of `MaxConns`
connections, which goes back when its rows are read (`Reads`). A `list` request is
`GetList` (page, then total), a `stats` request `GetStats` (total, split by scheme,
rows of the last hour), a `single` one stands for the handlers of one query.
`LoseRows` is a connection lost among the rows of the split, which the code does
not notice; `WriteError` a failed query or a client that left. The list is ordered
by `createdAt` alone, newest first; any of `Times` may be the times of the
postings, a NULL being later than all of them. Rows of equal time, or without one,
come in any order, a new one in each query (`Fronts`, `PagesAt`), so one of them
can change places with another between two pages and be missed: `ListSeesAll`
promises the rows that are `Alone` in their time. `Signal` and `Stop`
are `srv.Shutdown` and the end of `main`. The client that reads the list page by
page until its total is external: it is what the pagination of the answer is for.

## 3. Runs

Passing runs.

| Run | Shows | Bounds |
|---|---|---|
| `cards` | `CursorCovers`, `SuccessMeansCaughtUp`, `NeverOverReports`; `ImplementsMirror`: the tables refine `CatalogMirror`; `ConvergesPastCursor`, `RunsEnd` | three cards, three edits and any withdrawals, pages of two, two faults of any kind but a lost commit, no row or the seeded one to begin with, saved cursors that scan or do not: a full and a short page in one walk, a crash and a second failure on the way to recovery, edits behind and ahead of the cursor |
| `moysklad` | `ImplementsStore`: the tables refine `SnapshotStore`; `SnapshotWasShown`, `SuccessRenewsAll` | two runs side by side, two products, two warehouses, pages of one, a report of any length, one change of any kind, one fault of any kind but a lost commit, two snapshots |
| `ozon_stocks` | `StockWasShown`, `WritesWereShown`, `RunEnds` | two products, pages of one, two changes, one fault, a page lost at commit among them, the database's clock a tick ahead, clock to four: two runs a second and the skew apart |
| `ozon_orders` | `LogIsTrue`, `RunEnds`; `PageFitsTotal`, `StatsCover`, `ListSeesAll`, `RequestsEnd` | two FBO postings and one FBS, pages of one for the sync and for the client, one change or removal, one fault of the sync, the machine, a commit or a query, one client, one connection, two postings of the same creation time and one alone in its own: a posting removed behind the walk, an insert between any two queries, tied rows that change places between pages, a list of three pages during a run |
| `wb_remains` | `SuccessIsFresh`, `WritesWereHeld`, `CancelEnds`, `ReportEnds` | two items, quantities to two, two changes, two faults, lost commits among them: a report of an earlier run left behind by a crash, stock that changes before and after the report was made |
| `ms_client` | `CallsPerMinute`, `CallsEnd`, `CancelEnds` | a minute of seven ticks, limits of three and two, five pages of warehouses, one retry; time, heavy calls and processes without bound: both limits are reached and passed, by light calls and by heavy ones |
| `wb_orders` | `SuccessStoresAll` with and without a page limit, `RunEndsUnlessCrowded` with one | three orders, up to two in a millisecond, pages of two, three ticks in seconds of two, one fault, a lost commit among them: a page that ends inside the last millisecond of a second, pages that share a second, orders that move while read, a run after a failed one |

Pages of one or two make every boundary case of paging appear with two or three
items; more items only repeat them. Two faults are enough for a failure during
the recovery from another; in the other modules a run starts from the beginning
whatever happened before, and one fault shows what a failed run leaves to the
next. One client with one connection is every handler of a pool whose other
connections are taken: what could go wrong there is a handler that needs a second
connection while it holds one. Symmetry is used for MoySklad only, which has no liveness property.

Violation runs. Each checks one statement of a document or comment and has a
finding.

| Run | Violated | Story |
|---|---|---|
| `cards_resume` | `Converges` | a saved TIMESTAMPTZ does not scan into a Go string: once a run has saved a cursor none gets past `GetCursor`, and a card edited later is never stored |
| `cards_cancel` | `EveryRunLogged` | a run ended by SIGTERM inserts its log row under the cancelled context |
| `cards_lost` | `CursorCovers` | a batch whose statements are acknowledged but which does not commit is counted and its cursor saved, because the error of `br.Close` is dropped (as it is in the seven other batches) |
| `moysklad_gone` | `StockTotalIsStock` | the total of a product that left the report stays in the sum of all stock |
| `wb_orders_second` | `RunEnds` | two orders share a second and fill a page: the millisecond added to `dateFrom` is cut off again and the page repeats for ever |

Other limits of what holds are met by changing a constant of a passing run, or by
dropping an exemption from its property; they are conditions the passing runs state, not runs of their own:

* `cards` with `Overlap = TRUE` and a second job: a slower process overwrites rows
  and the cursor of a faster one with older pages, and `CursorCovers` and
  `SuccessMeansCaughtUp` fail. The timer never does this, an operator can.
* `ozon_stocks` with `DbBehind = 2`: rows synced by the run itself look stale
  and are zeroed, and `StockWasShown` and `WritesWereShown` fail. With `Gap = 0`
  a product that vanished between two runs in the same second keeps its amount.
  Without the exemption of `lost` rows: a page lost at commit is zeroed, and the
  run logs success.
* `moysklad` with `"commit"` among its faults: `ImplementsStore`,
  `SnapshotWasShown` and `SuccessRenewsAll` fail, as section 2 says.
* `ozon_orders` without `~shifted` in `LogIsTrue`: an FBO posting that leaves the
  list behind the walk makes it miss another. Without `~req[c].cut` in
  `StatsCover`: the split of a lost connection is smaller than the total. Without
  `Alone` in `ListSeesAll`: of two rows of the same time one is shown twice and
  the other never.
* `ms_client` with a smaller bound in `CallsPerMinute`: see above.
* `wb_orders` without the exemption of `Tied` orders: when a page ends in the
  middle of the orders of the last millisecond of a second, the rest is skipped.
  With a limit of 0 a run that always gets a non-empty page never ends, which is
  why `RunEnds` and `RunEndsUnlessCrowded` ask for `limit > 0`; a run that gets an
  empty one panics.

Fairness. `FairSpec` asks for weak fairness of a process's next call (`Step`):
a started process is scheduled, and a call returns, because the HTTP clients
have timeouts and a bounded number of retries. For the cards it also asks that
the timer keeps starting runs (`OnCalendar`, `Persistent=true` in `deploy.md`).
For the server it asks for strong fairness of a handler's next query (`Serve`):
queries return and the pool serves waiting handlers in their order, so one that
waits is not passed over for ever. That queries return is assumed and not
promised by the code, which sets no timeout on them: one that never does keeps its
request open and the shutdown waiting, a hazard no property covers. `CallsEnd` of the MoySklad client assumes that
time passes (`WF_vars(Tick)` in the property itself); `CancelEnds` does not need
it. Nothing is assumed of the seller, of Wildberries' reports, of faults (they are
bounded) or of the operator's runs.

## 4. Proofs

Every invariant and every action property that a passing run checks, and both
refinements, are theorems: they hold for every set of cards, orders, postings,
products, warehouses, clients and jobs, every page size, and any number of
changes and faults, not only on the instances of section 3.

| Module | Theorem | States | Assumes |
|---|---|---|---|
| `CardSyncProofs` | `TypeCorrect` | `[]TypeOK` | |
| | `CursorAlwaysCovers` | `[]CursorCovers` | `~Overlap`, `~LoseCommit` |
| | `SuccessIsCaughtUp` | `[]SuccessMeansCaughtUp` | also `Limit <= PageMax` |
| | `CardSyncImplementsMirror` | `ImplementsMirror` | `~Overlap`, `~LoseCommit` |
| | `NeverReportsMore` | `[]NeverOverReports` | `~LoseCommit` |
| `MoyskladSyncProofs` | `TypeCorrect` | `[]TypeOK` | |
| | `MoyskladSyncImplementsStore` | `ImplementsStore` | `~LoseCommit` |
| | `TotalsAlwaysMatch` | `[]TotalsMatchDetails` | `~LoseCommit` |
| | `SnapshotAlwaysShown` | `[]SnapshotWasShown` | `~LoseCommit` |
| | `SuccessAlwaysRenews` | `SuccessRenewsAll` | `~LoseCommit` |
| `MoyskladClientProofs` | `TypeCorrect` | `[]TypeOK` | |
| | `MinuteNeverHeavier` | `[]CallsPerMinute` | |
| `OzonStocksSyncProofs` | `TypeCorrect` | `[]TypeOK` | |
| | `StockAlwaysShown` | `[]StockWasShown` | `ClockAssumption` |
| | `WritesAlwaysShown` | `WritesWereShown` | `ClockAssumption` |
| `WbOrdersSyncProofs` | `TypeCorrect` | `[]TypeOK` | |
| | `SuccessAlwaysStoresAll` | `[]SuccessStoresAll` | `LimitAssumption` |
| `WbRemainsSyncProofs` | `TypeCorrect` | `[]TypeOK` | |
| | `SuccessAlwaysFresh` | `[]SuccessIsFresh` | |
| | `WritesAlwaysHeld` | `WritesWereHeld` | |
| `OzonOrdersSyncProofs` | `TypeCorrect` | `[]TypeOK` | |
| | `LogAlwaysTrue` | `[]LogIsTrue` | |
| `ApiServerProofs` | `SyncStaysCorrect` | `[](TypeOK /\ LogIsTrue)` | |
| | `ServerTypeCorrect` | `[]ServerTypeOK` | |
| | `PageAlwaysFits` | `[]PageFitsTotal` | |
| | `StatsAlwaysCover` | `[]StatsCover` | |
| | `ListAlwaysSeesAll` | `[]ListSeesAll` | |

Each is a consequence of the module's `Spec` (`SyncSpec` for the Ozon orders
alone) without its fairness. All use the assumptions the modules make of their constants,
which only give their types and say that what is counted or added up is finite.
The others are the conditions under which the code keeps its promise:

* `~Overlap`: systemd does not start a unit that is active, and nobody starts one
  by hand. `~LoseCommit`: a batch whose statements are acknowledged commits; the
  run `cards_lost` shows that this is needed, and for MoySklad section 3 does. `Limit <= PageMax`: the API serves
  pages of the size asked for; otherwise a page cut short by the API looks like
  the last.
* `ClockAssumption`: the database's clock is not behind the program's
  (`DbBehind <= DbAhead`), and a run starts at least a second and the skew after
  the last one ended (`Gap >= Sec + Skew`). The timer fires every 15 minutes; with
  either half missing TLC finds a counterexample (section 3).
* `LimitAssumption` (a hypothesis of the theorem): `API_LIMIT` is not above what a
  page holds. It does not ask for a positive limit, for room in a second or for
  orders that change at different times.

For each invariant there is one lemma per action, and under it a step per
conjunct the action can disturb. The strengthened invariants were checked by TLC
before they were proved.

### CardSync

`TypeOK` needs `SavesPosition` (a process that is about to save a cursor has
one), without which `stored` could become nil.

`CursorCovers` is not inductive: nothing in it says why saving the cursor of a
page is safe. `CoverInv` adds what the code maintains on the way there: one
process at a time (`OneRunner`), nobody holds a position not given out
(`Bounded`), a walk stands at the saved cursor (`Resumes`), its page holds only
versions past the cursor and none newer than the catalog (`PageAhead`), every
current version between the cursor and the page's end is on the page
(`PageComplete`), and a page whose cursor is about to be saved is in the table
(`PageStored`).

`SuccessMeansCaughtUp` needs `LastIsLast`: a page on which the walk will stop
lacks nothing that existed when it was asked for. That is the place where a
missing cursor and a short page are shown to be safe signs of the end.

The refinement needs `ForwardInv`: no row is newer than the catalog or than the
page that will replace it (`RowsBehind`), and a page's cursor is not behind the
saved one (`NextAhead`). An upsert is then a `Copy`, a saved cursor an
`Advance`, and every other call a stutter. `NeverOverReports` rests on `Counted`
alone, the same bound for every job at any time, and holds for overlapping runs.

### MoyskladSync

`SnapshotInv` says why two runs side by side do not disturb each other: a run adds
up under an id that no other run has (`OwnSnapshots`); nothing is stored under it
and no total names it before its details go in, and nothing at all beyond the last
id (`FreshSnapshots`); behind the insert it holds the run's own sums
(`DetailsStored`). So what a total names is complete and stays as it is, an insert
is a `Fill` and an upsert a `Publish` of `SnapshotStore`. That a total agrees with
its details is a fact about `normalizeStockData`: one sum runs over the rows and
the warehouses of each, the other over the warehouses and the rows for each
(`TotalIsDetails`, from `SumSwap`). The sums are folds of the community modules,
recursive functions over sets of any size, and the library's induction theorems
cannot be applied to them (they take an operator); the lemmas about them
(`SumRecursion`, `SumAdd`, `SumSwap` and others) are proved from the
well-foundedness of `<`: a smallest set for which one failed leads to a
contradiction.

`SnapshotWasShown` and `SuccessRenewsAll` need `Reading`: until a product enters
or leaves the report, the rows a run has read are the beginning of the report,
one per product, with the offset behind them and each figure one that has been
shown; and at the end they are all of it. `StartsAtTop` and `NowShown` support it.

### MoyskladClient

`CallsPerMinute` counts calls when they are first sent, the limiter when they are
admitted. `Ordered` connects the two: a call gets its timestamp after the call
before it was sent, so each call sent after one that is still in the minute, and
one that waits to be, has a timestamp younger than it. `Room` bounds the
timestamps, when no call waits and, while one does, those that will be left after
its wait; `LightFirst` knows how many there can be before the first heavy call.
The bounds of `CallsPerMinute` follow, and section 2 says that both are reached.

The proof corrected the model: with only the timestamp required to be new, a call
whose retries had taken no time could share its tick with the next one, and the
two counted as one.

### OzonStocksSync

`ShownInv`: a row the walk has passed either says what was shown and is young
enough to survive the reset, or is old enough to be reset and was shown as sold
out or off the list (`PassedDone`, `PageSaid`). "Young" and "old" compare
`synced_at` from the database with the start of the run cut to the second; `Clocks`
and `Accounted` keep every row on one side of the cut, which is where
`ClockAssumption` is used. `ResetStale` then zeroes exactly the old ones. A
row of a page lost at commit is the third case: it is as the last run left it, and
if the reset takes it, it is 0.

### WbOrdersSync

`CompleteInv`: an order of the window that is not stored as it was at the start
lies ahead of `dateFrom` (`RestAhead`; the cut to the second only moves it back), or,
while a page is about to be stored, on the page or behind its end (`PageRest`). An order that changes
meanwhile moves ahead of the walk. An order that is excused needs nothing, so all
this is about orders that are still owed, which are of the window and not tied
(`Owes`). One of them in the last millisecond of a second is there alone, which
makes the step from the last order of a page by one millisecond safe; in any other
the cut to the second takes the step back. A short page leaves nothing behind it,
hence `AtEnd`.

### WbRemainsSync

`FreshInv`: a report that is done while its run asks for it was made after the run
created its task (`ReportIsOwn`), whatever an earlier run left behind; only a
finished one is downloaded (`DownloadsDone`), so what is stored was in stock during
the run (`BodyWasHeld`), unless the batch was lost.

### OzonOrdersSync and ApiServer

`LogInv`: until a posting leaves the FBO list, every posting of the start that is
not stored yet has a place at or behind `offset`, or is on the page being stored
(`FboWalk`); for FBS it lies behind `last_id` (`FbsWalk`). New postings lie
behind the window and changes move nothing, so a walk without an error ends with
all of them (`FboDone`, `FbsDone`). The lemmas about places in a sorted list and
pages cut from it (`Rank`s and cardinalities) are proved for lists of any length.

The server's promises rest on one fact about the sync: `ozon_orders` only grows
(`TableGrows`), so the place of a row, the number of rows created later, never gets
smaller. `ListInv`: a row alone in its time has been seen by a paging client or has
a place at or behind the next offset, in whichever order the rows of equal time
come; where a new row enters the list does not matter; `StatsInv`: a total read first is in the table, then in the split.
`ServerType` counts connections: a handler holds one only while it reads.

### Only model-checked

The liveness properties: `ConvergesPastCursor`, `RunsEnd`, `RunEnds`,
`RunEndsUnlessCrowded`, `RequestsEnd`, `CallsEnd`,
`CancelEnds` and `ReportEnds`. The prover has no rules for `ENABLED`, which fairness
is made of. The properties of the violation runs are refuted, not proved.

## 5. Not modelled

Configuration, the domain types, logging and the JSON shapes have no state that a
property here could be about. The handlers of the other tables make one query or
two like those of `ApiServer`; their filters, the parsing of their parameters and
`GetDashboardStats`, a constant, are left out. The card list is ordered by
`updated_at`, for which `ListSeesAll` would not hold (hazards). The numbers in
`ms_job_log` and the other log rows are not modelled beyond status and error; the
exit status is, in `OzonOrdersSync`, always 0. Query plans, indexes and triggers of
the database are left out; PostgreSQL's batches are taken to be one implicit
transaction each. Deadlocks between the row locks of two overlapping batches end
one of them with an error, which is a `db` fault. Of the pool only the number of
connections is modelled; the mutex of `checkRateLimit` is never contended, as a
process calls its client from one goroutine.

## 6. Plan

Done: all the modules of section 2, with theorems for every safety property the
passing runs check. Next, in this order:

1. `RetryCall`: a request with its retries and the context, refined by the one
   step `live \/ Breaks` that the sync modules use.
2. `SyncJob`: the life of a run (start, work, log row, exit status) as an
   abstract specification which each sync module implements, proved by refinement
   as `CardSync` and `MoyskladSync` are.
3. The filters of the other lists, in particular the order of the card list, for
   which `ListSeesAll` fails.
