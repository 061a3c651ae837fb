# A TLA+ development of the stock strategy backtester

The repository is a backtesting service for Korean equities: a FastAPI backend
(`backend/app`), a pipeline that collects and adjusts market data
(`backend/app/data_pipeline`), and a web frontend.  This directory models the
part that decides whether a result can be trusted: the life of a run, the
account it trades on, the daily loop that trades, the signals and universes it is
given, the jobs that keep the prices it trades on, the requests that edit strategies
and watchlists, and what follows from a concurrent cancel, a fault or a restart.

Every module parses with SANY; TLC checks the configurations listed below; TLAPS
proves the theorems of the `*Proofs` modules.

    tlc -config RunLifecycle.cfg RunLifecycle
    tlc -config MCPipeline.cfg MCPipeline
    tlapm DataPipelineProofs.tla

## 1. Inventory

| Component | State it keeps | Operations | Talks to |
|---|---|---|---|
| Run service (`services/backtest_service.py`) | row of `backtest_runs`, result tables, open transaction | `create_backtest_run`, `run_backtest`, four `_persist_*` | engine (call), token registry, database |
| Cancel endpoint (`api/routes_backtests.py`) | its own session and copy of the row | `cancel` | database, token registry |
| Token registry (`core/cancellation.py`) | run id -> event, in the process | `register_token`, `cancel_run`, `unregister_token`, `check_cancelled` | worker threads, request threads |
| Portfolio (`portfolio/portfolio.py`, `position.py`) | cash, positions of trade groups, log, next id | `buy`, `sell_trade_group`, `sell_symbol_fifo`, price updates | called by engine and cash manager |
| Execution model (`backtest/execution.py`, `tick.py`) | none (rates) | slippage, tick, fee, dated tax | engine, cash manager |
| Cash manager (`portfolio/cash_manager.py`) | none (rules) | `is_triggered`, `handle_shortage` | portfolio |
| Sizer (`portfolio/sizer.py`) | none | `calculate_quantity` | portfolio (reads) |
| Engine (`backtest/engine.py`) | day, held-at-open set, candidates, cumulative cost, peak equity | the phases of a day | all of the above, token |
| Exit rules (`strategy/conditions/exit_position.py`) | none | four predicates | engine |
| Strategy engine, conditions, indicators (`strategy/`) | none | one truth column a condition, combined by section and group | frames of `price_loader.py`; engine (input) |
| Strategy documents (`schemas/strategy_json.py`) | none | `validate_strategy_json` | strategy service, run service |
| Strategy service (`services/strategy_service.py`) | `strategies`, `strategy_versions` | create, update, duplicate, soft delete | requests of users, runs |
| Watchlists (`api/routes_watchlists.py`) | two tables | create, add, remove, delete | requests of users |
| Universe selector (`market_data/universe.py`) | none | `select` for a day | tables; snapshot job |
| Metrics | none | pairing of trades, statistics of a finished run | service |
| Scheduler (`data_pipeline/scheduler.py`) | registry of jobs, busy set, a lock | `register`, `run_job` | jobs (call), in the caller's thread |
| Historical backfill (`jobs/historical_backfill.py`) | checkpoint file; symbols collected so far | seven stages: symbols, calendar, corporate actions (no-op), prices symbol by symbol, adjusted prices, market cap (no-op), validation | collectors, tables, missing-data check |
| Daily update (`jobs/daily_update.py`) | one transaction | one day: calendar, symbols, prices of symbols that are behind, events, check | collectors, tables |
| Corporate action apply (`jobs/corporate_action_apply.py`) | one transaction | recalculates adjusted columns from the raw ones | tables |
| Adjusted prices (`processors/adjusted_price.py`) | none | `process`: multiplies the factors of events into rows before them | called by the three jobs |
| Missing-data check (`jobs/missing_data_check.py`) | none | open days without a row of an active symbol | backfill, daily update |
| Universe snapshot (`jobs/universe_snapshot.py`) | `universe_history` | selects, looks for the day's row, inserts or overwrites it | selector, tables |
| Market index update (`jobs/market_index_update.py`) | `market_indices` | one turn a code, one commit, a report | collectors |
| Retry, rate limiter | failure counters | `retry_call`, `wait` | collectors |
| Providers, exports, remaining routes, frontend | none | reads, formatting | - |

What is hard, and where it is decided:

* **Concurrency** - a background worker and cancel requests share a row and a
  token without a lock across the two (`RunLifecycle`).
* **Failure** - an exception in the engine, in a flush, in a commit or after the
  final commit; a process that dies (`RunLifecycle`).
* **Ordering inside a day** - forced sales, exits, slot counting, the cut-off of
  candidates, the raising of cash and the orders follow each other, and each
  reads what an earlier one left (`BacktestEngine`).
* **Long sequences of legal calls** - partial sales, by lot and by symbol, must
  keep cash, lots and log in agreement (`Portfolio`).
* **Two stores** - the jobs commit tables and then rewrite a checkpoint file; a
  process may end between the two, in the middle of the file, or inside the loop
  over symbols (`HistoricalBackfill`).
* **Jobs side by side** - the scheduler excludes a job from itself and not from
  others; three jobs write the same adjusted columns (`DataPipeline`).
* **Hindsight** - a window, a shift or a universe that reads a row of a later day, or
  a past that a later corporate action has rescaled (`Conditions`, `Universe`).
* **Look, then write** - requests and snapshot jobs read rows in one statement and
  write in another, with only constraints of the tables between them
  (`StrategyStore`, `Watchlists`, `Research`).
* **Integer money** - ticks, fees, taxes and a proportional split, each rounded
  on its own (`Execution`, `Portfolio`).

Correctness, by component.  *Run*: completed means saved, results never change
afterwards, every worker ends, tokens do not leak.  *Conditions, universe*: the signal
and the universe of a day are what they would have been on that day.  *Documents*:
each condition that is saved is where the evaluator of its type finds it.  *Strategies*: the
history has the current document, a run keeps the one it was made of.  *Watchlists*: no
symbol twice, no item without its list.  *Snapshots, indices*: one universe a day, a
report that is true.  *Metrics*: what is stored accounts for the cash.  *Portfolio*: the account
balances against the log, lots are sold oldest first, a sale is filled, the
account is never overdrawn.  *Engine*: position, entry and budget limits; one lot
a symbol; no rotation within a day; prices a day really had; a stop that looks
back and not ahead; the loop ends.  *Scheduler*: a job never runs twice at once and
can be run again after any end.  *Backfill*: the checkpoint never claims what the
tables do not have, and no hole is kept quiet.  *Adjusted prices*: no look-ahead, no
factor twice, a repair that repairs.

## 2. Modules

| Module | Models | Reads as |
|---|---|---|
| `RunOutcome` | what a run promises a client | abstract specification: a run is submitted, begins, publishes results at most once, ends |
| `RunLifecycle` | service, worker, registry, cancel endpoint | one action for what a thread does between two points where another may see it |
| `RunLifecycleProofs` | - | theorems about `RunLifecycle` |
| `Execution` | `execution.py`, `tick.py` | integer operators |
| `Ledger` | fields of the account, `buy`, `sell_trade_group` | the state and its two trades, shared by `Portfolio` and `BacktestEngine` |
| `Account` | what a portfolio promises its callers | abstract specification: money and shares, bought and sold in one step each |
| `Portfolio` | `portfolio.py` under any caller | `sell_symbol_fifo` one turn of its loop at a time |
| `CashManager` | `cash_manager.py` | operators on the account |
| `BacktestEngine` | `engine.py`, `sizer.py`, `exit_position.py` | the phases of a day, over `Ledger`, `CashManager` and `Execution` |
| `Amounts` | - | lemmas about sums over finite sets, and about what `Execution` computes |
| `PortfolioProofs`, `EngineProofs` | - | theorems about `Portfolio`, `Results` and `Execution`, and about `BacktestEngine` |
| `Results` | `metrics.py`, the rows of `_persist_trade_groups_and_executions` | operators on the log of `Portfolio` |
| `Frames` | the part of pandas that is used | operators on columns of exact fractions |
| `Conditions` | `strategy/` | one operator a condition; what makes one raise; sections and groups |
| `StrategyJson` | `strategy_json.py` and the readers of a document | a predicate on documents |
| `Universe` | `universe.py`, `price_loader.py` | operators on the tables of symbols and prices |
| `Research` | growing market data, `universe_snapshot.py`, `market_index_update.py` | one action for what a job does up to its next statement |
| `StrategyStore` | `strategy_service.py`, `create_backtest_run` | requests that read and then commit |
| `Watchlists` | `routes_watchlists.py`, `models/watchlist.py` | requests that look and then write |
| `PriceHistory` | market data tables, repositories' upserts and queries, collectors' rows, `adjusted_price.py`, the check's query | the tables and operators on them |
| `Scheduler` | `scheduler.py` | registry, busy set, where each thread is |
| `HistoricalBackfill` | `historical_backfill.py` | one action for what a run does up to its next commit or save |
| `DataPipeline` | `daily_update.py`, `corporate_action_apply.py`, and all jobs together | composition, with restarts |
| `DataPipelineProofs` | - | theorems about `DataPipeline` |
| `NumberProofs` | - | theorems about `Frames` and `Conditions`: fractions, columns in another unit, verdicts |
| `RequestProofs`, `ResearchProofs` | - | theorems about `StrategyStore` and `Watchlists`, and about `Research` and the signals of a frame |
| `MCPortfolio`, `MCExits`, `MCEntries`, `MCPipeline` | - | values of the constants for TLC |
| `MCStudy` | - | one scenario for each of the parts around a backtest, and values of the constants |

### RunLifecycle

`db` is the status column as committed and `results` the number of save steps
committed with it.  A worker (`wpc`) loads the row (`seen`), commits RUNNING,
registers its token, turns over its dates (`day`), flushes four times
(`pending`), commits, refreshes and unregisters.  A request (`cpc`) reads the
row, commits CANCELLING, sets the token's event or writes CANCELLED itself, and
answers (`told`).  Sessions do not expire their objects on commit
(`db/session.py`), which is why the worker's `seen` is never read again.

Faults are exceptions at the points where the code can raise: building the
frame, engine and metrics, a flush, a commit, the refresh.  After a rejected
flush the session refuses to commit until a `rollback()` nobody calls, so the
handler raises too (`broken`); after a rejected commit either may happen.
`Crash` kills threads, open transactions and the registry; nothing at start-up
looks at rows.

SQLite serialises writers, and a reader does not block: the model lets any two
threads interleave between their transactions, which is also what happens on the
PostgreSQL the session module names as the target.

### Ledger, Portfolio

`groups` maps the id of a live trade group to its lot, `quote` a held symbol to
its current and peak price, `log` is `trade_logs`.  A symbol is held as long as
`quote` has it, as the code removes a position with its last lot.
`sale` is a `sell_symbol_fifo` in progress; no other call can start meanwhile.
Calls that raise without a trace are disabled, the one that leaves a trace
(`BuyHeld`, which uses up an id) is an action.

`Account` is the same class without lots, positions and a log: a buy takes what it
costs, a sale takes shares the caller has and brings in what a sale of them does, up to
half a won a share.  `ImplementsAccount` maps `cash` and the lots to its `money` and
`shares` as a caller sees them: while a sale by symbol is in its loop its parts so far
have not happened yet (`Funds`, `Shares`), and the last turn is the whole sale.  Calls
that are refused, changes of a quote and the other turns are stutters.

### BacktestEngine

A day goes through `phase`: forced sales on delisting, the holdings in symbol
order (`todo`), the candidates, the position limits, and the orders in sequence
(`queue`), each of which may first raise cash (`need`).  Prices are won, the
lines of the rules hundredths of a won, so that no rounding happens before the
one of `round_to_tick`.  A row of prices is chosen when its predecessor becomes
today's, since a row carries the next row's open, volume and date.  Signals are
a free choice when the loop reads them, as are the scores of a priority method.

The engine calls `buy` without pyramiding, so a position is one lot, which
`PositionsWithinLimit` counts on; its loops over lots have one turn and are not
modelled as loops.

### PriceHistory, Scheduler, HistoricalBackfill, DataPipeline

A row of `daily_prices` is kept as the *powers* of its adjusted columns: how often
the factor of each corporate action has been multiplied into them.  That is what the
properties tell apart, and it makes a second application visible that the size of a
factor would hide.  What a source delivers as its adjusted series is assumed to be
adjusted up to the day it is asked for (`Fetched`; the package `pykrx` is external).
A backfill and a repair end on the day their job was built for (`Today`, the backfill's
`end_date` and the checkpoint's `as_of_date`) and start on any of `StartDays` up to it:
`since` is the `start_date` of the registered backfill, and a repair picks its own when it
looks (`Look`).

`dayOf[j]` is the day the registered job `j` was built for, 0 for none; `Today(t)` is
the day of the job thread `t` is inside of.  A thread's `pc` stands where a commit or
a save has happened or another thread can see a difference; `memo` is the checkpoint
object it holds, `at` the stage, `left` the symbols to come, `fresh` whether
`symbols_data` was collected by this run, `seen` the tables as it read them in an
earlier session.  `file` is the checkpoint on disk: `json` that does not parse, like a
missing file, is `Unreadable`.

Failures: an exception of a collector, a session or the file system (`Fault`); an
interrupt inside the loop over symbols, which the `finally` clause turns into a saved
`last_symbol`; a save that leaves the truncated file; `Restart`, at any point, with a
truncated file if one was being written.  The error paths are those of the code: a
failed symbol is a warning and the run goes on, anything else ends the run, and an
invalid corporate action rolls a daily update back and ends the fifth stage of a
backfill each time it is run.

History variables, which no action reads: `skipped` (symbols given up by a run for a
day), `alerted` (holes reported), `unchecked` (symbols a validation could not look at),
`horizon` (the last day a process has worked for), `narrowest` (for each `end_date` the
latest `start_date` a backfill was registered with).

Facts of the code a reader of the models will meet:

* `daily_update` collects only its own day, also when the last stored day lies further
  back (`DailyRows`), whatever its comments say: `daily_gap` in section 3.
* A symbol that failed is saved as `last_symbol` all the same, so a resumed run does
  not try it again; the validation is what tells of it.
* The checkpoint names its `end_date` and no `start_date`: a file a run for a narrower
  range has written makes a run for a wider one skip what only the wider one needs.  All
  that a file vouches for is the range every backfill for that `end_date` has had
  (`InRange`), and that is what `NothingPassedOver` and `HolesAreAlerted` say; with the
  range of the run itself instead, TLC finds both violated.
* `listing_date` is overwritten by each collection with the day asked for, so that an
  update for a later day takes symbols out of the sight of a check of an earlier one
  (`unchecked`).
* `corporate_action_apply` writes only columns whose value differs from the one it has
  read, as the session's identity map does, while the fifth stage writes every row it
  has read (`Rewritten`, `WriteAdjusted`).

### Frames, Conditions

A column is a function from rows to values, a sequence with a fraction in lowest terms for each row, and NaN where
pandas has it; a mean, a ratio and an exponential average are exact, where the code has
floating-point numbers.  For what later rows do it makes no difference, both being functions
of the same rows; for what a later corporate action does it leaves the rounding out: a
comparison that an exact tie decides may fall out otherwise in the last digit of a float.  `Evaluate` is a `CASE` over the fifteen registered types with the
defaults of each (`Defaults`); `Raises` are the conditions the functions refuse, which
is not what the schema refuses.  A frame (`Universe!Frame`) has the adjusted columns as
the raw ones times the factor of the row, and the `next_*` columns beside it.

### StrategyJson

A document is a record with the keys its author wrote.  The values tried are those at
which the code decides: each section absent, plain or grouped, with conditions of the
right and of the wrong kind, unknown types, operators and methods, bounds of numbers and
the order of dated tax rates.

Facts a reader will meet: an `exit_position` that is a GROUP is accepted and its rules
are never evaluated, since the engine reads the key `conditions` alone
(`engine.py:1183-1187`; the design, `02_strategy_json_schema_design.md:106`, has the
group of one level supported and names no section it is not).  A stop loss in a group never
fires, and nobody is told.  `ConditionsAreRouted` leaves out what is read of such a section and says
that there is no other loss: every other condition is where its evaluator finds it.  A
GROUP is looked into by its groups only (`strategy_json.py:221-262`), so that a key
`conditions` beside them is saved unseen and becomes the rules of the run: a condition on the
time series gets there although `strategy_json.py:19-20` has it refused.  A document without an operator a condition needs is accepted and its run FAILS.  Nothing
checks `price_field`, so that `next_close` is accepted, a condition on tomorrow; the
conditions of `SignalsAsSeenThen` use the columns of the day.  `macd_histogram` compares a
difference of prices with a number of won (`macd.py:156`): on an adjusted column and with a
`value` other than 0, a corporate action of a later year changes what it says of a past day,
as the differences are rescaled and the number is not.  Every other condition compares
prices with prices or volumes with volumes, or reads raw columns; a `market_index_filter`
pointed at an adjusted column is the same exception.

### Universe, Research

`prices` holds raw bars with the factor of their adjusted columns, `symbols` the table of
symbols.  Days are collected one after the other, or filled in late; `Rescale` is a
corporate action of today; `CollectSymbols` writes a symbol's row over with the
collector's, which knows neither flags nor the listing date and takes today.  A snapshot
job selects, looks for the row of the day and the configuration, and inserts or
overwrites; the unique constraint refuses the second of two inserts.  `Restart` loses what
was not committed.

The index job takes its codes in order.  A fetch that raises is an error and the loop goes on
(`IndexFetchFails`); one that returns may bring rows of any of the days, or none, and each may
be refused (`IndexUpserts`).  Everything is committed at the end (`IndexEnds`), unless an
exception of another kind, a row with None for its close for one, ends the job first
(`IndexAborts`).  `IndexReportIsTrue` is what a reader of the report may rely on: success means
that every code was processed, and short of an abort each row that was given is in the table
or was warned of.  It is less than one would think.  A day the source did not answer is no
failure and no warning, so that success says nothing of how many days there are
(`market_index_update.py:144-160`; `test_jobs_market_index_update.py:30-56` has KOSDAQ with a
day less than KOSPI); a refused row is a warning, and so is every row of an unknown code, which
has none when it brought no rows; the module's docstring has unknown codes in `errors`
(`market_index_update.py:32-34`), the code and the test at lines 120-139 have them in `warnings`
of a success.  A refused row of a day that has a row already has replaced its open, high and
low before its close raises, and they are committed (`repositories.py:593-600`); what is in a row is
left out of the model.

`SignalsAsSeenThen` compares two frames for each day: that of all rows as they are today, and
that of the rows up to the day with their factors divided by the day's own (`SeenOn`), which
is how they stood before any later action.  `Studied` are conditions and `Followed` strategies
it looks at.

The flags of a symbol are those of today, whatever day is asked for: the tables have no
history of them, and `UniverseAsSeenThen` is about prices.

### StrategyStore, Watchlists

A request is one transaction: what it has read is in `request` (`visit`) until it commits.
Two updates that overlap may give one number to two versions, or the later row the lower
one, since the table has no constraint: `VersionsIncrease` is violated (section 3).
`HistoryKeepsUp` says what is left: numbers without gaps, and a row for every document that is
current.  That row need not be the last of `list_strategy_versions`, which orders by number.
A run keeps a copy of
the document (`snapshot`); `madeOf` is a history variable.  `RunEvaluates` is a whole run,
whose steps `RunLifecycle` has.

SQLite gives the id of a deleted greatest row away again (`FreshId`), so that a request
that looked at a list may add to another one of the same id: `ItemsAreSound` holds all the
same, because of the unique index, the foreign key and the cascade.

### Results

The metrics group the log by trade, the service groups it once more for the rows it
stores; `ResultsMatchAccount` says that both see the same trades as the account, and that
profits, open positions and fees of buys add up to the cash.  Both read the log alone,
after the run, and never the lots: nothing but the order of the log's entries ties the
two together.  A trade's profit leaves the
fee of its buy out, in the code as in the model.

## 3. Runs

| Run | Question | Instance |
|---|---|---|
| `lifecycle` | Do two cancel requests, a fault and a restart break a run's results, its token, its end? Does it implement `RunOutcome`? | 1 run, 2 requests, 2 dates, all faults, 1 fault, 1 crash (37 thousand states) |
| `cancelled_starts` | Does a run cancelled while queued stay cancelled? | violated |
| `portfolio` | Do cash, lots and log agree; is a portfolio an `Account`; do the stored trades and the metrics account for the cash; are FIFO sales filled oldest first, within rounding? | 2 symbols, 3 trades of up to 3 shares, 2 prices, a tax that changes, cash for three shares at one price and five at the other (0.4 million states) |
| `exits` | What do the exit rules sell, at what price, what do they keep? | 1 symbol, 7 kinds of days, gaps of one or two days, 4 trading days |
| `entries` | Do the limits of a day and of the portfolio hold when symbols compete? | 3 symbols, 4 kinds of days, 3 days, any priority order, cash raised, two delistings (2.5 million states) |
| `held_take_slot` | Do held symbols leave the entries of the day to others? | violated: as `entries`, with room for three positions and one entry a day, so that `max_daily_entries` cuts and not `max_positions` (`HeldTakeNoSlot` looks at such cuts only) |
| `shortage_price` | Is a holding sold to raise cash at its own price? | violated |
| `pipeline` | Does the checkpoint ever claim too much, is a hole kept quiet, does a factor look ahead, a job run twice, wait or run for ever; does a repair repair? | 2 symbols of which one is listed late, 2 days, a split and an invalid event registered at any time, 3 jobs for either day, ranges that start on either, 2 threads, 2 runs, 1 fault, 1 restart (1.5 million states) |
| `study` | Seven scenarios, chosen at the start.  *signals*: is the signal of a day what it was on that day? *universe*: is the universe? *snapshots*: is there one a day? *indices*: is the report true? *documents*: is each saved condition where its evaluator is? *users*: do concurrent edits, deletions and runs keep histories and snapshots? *watchlists*: do lists stay sound? | 1 share over 5 days of 3 shapes and a split, 16 conditions and a grouped strategy (looked at in all scenarios that have prices); 2 shares, days missing and filled in, 4 configurations over windows that end inside a gap; 2 snapshot jobs, 2 days; 2 index codes of which one is unknown, any answers for 2 days; about 100 parts, and groups with conditions beside them, in 3 documents; 2 requests, 2 strategies, 4 versions, 1 run; 2 requests, 2 lists, 3 items (0.5 million states) |
| `stage_five_twice` | Is a factor multiplied in at most once? | violated: 1 thread, the backfill alone, a source that does not adjust |
| `daily_gap` | Does a daily update collect what has come since the last stored day? | violated: 1 thread, daily updates of days 1 and 3 alone, 1 symbol that trades every day |
| `version_numbers` | Do the versions of a strategy increase? | violated: as `study` |

Bounds.  `MaxFaults` and `MaxCrashes` bound exceptions and restarts: one of each
already puts every pair of program points of the worker and of two requests next
to each other.  `MaxTrades` bounds the log: three trades are the least that give
a sale by symbol two lots with different dates and one partial sale.  `MaxQty`
3 does not divide evenly, so a split rounds.  `InitialCash` 5500 pays for one large buy or
two small ones and not for every pair of buys, so that the check of the cash decides.  `MaxDay` 3 in `entries` is a day to
buy, a day to be full on, and a day to be sold on by a delisting; 5 in `exits` lets
`max_holding_days` come due after two gaps of two days.  The prices are those at
which the rules differ: a close under the stop, an open over the target, a day
that touches both lines.  In `entries` `max_daily_entries` equals `max_positions`, so that of the two
the slots decide and the budget is what `DailyLimits` has to hold; the entries alone decide in
`held_take_slot`.  `pipeline` has `LastDay` 2, since a factor needs a row
before its day, and `StartDays` both, so that a restart can follow a narrow range by a
wide one; two runs (`MaxRuns`) and one restart (`MaxRestarts`) are a run that is
interrupted and one that resumes it, or two jobs side by side; the symbol listed late
makes a listing of one day differ from the other's.  `study`: five days fill a window of three with its shift and leave a day to look
back from; days 18 and 19 lie past the lookback of a window of two, so that the average
of day 19 has a day that day 18 had not and misses those of the first days; two requests
are the least that can pass each other, and two lists and three items let an id be given
away again.  Threads are symmetric, symbols are
not (their order decides what a resumed run passes over).

Fairness.  `RunLifecycle`: a worker runs on the server's thread pool until it
returns and a request that has read the row runs to its answer, so each is weakly
fair; nobody has to create a run, to cancel one, to fail or to crash.
`Portfolio`: a loop that was entered goes on (weak fairness of its turn); callers
need not call.  `DataPipeline`: a thread inside a job goes on (weak fairness of its
step), nobody has to call or register a job.  That every call returns is not checked as
a temporal formula, which TLC could not do in the space of this instance, but by its two
halves: each step of a job decreases `StepsLeft` (`EveryStepIsProgress`), and a thread
inside a job always has a step (`NobodyStuck`).  `BacktestEngine`: one thread (weak
fairness of the next step).
`MCStudy`: safety only, nobody has to ask for anything.
`CHECK_DEADLOCK FALSE` in the configurations of `RunLifecycle`, where all workers
and requests may be over, of `MCPortfolio`, where the bound on trades ends the calls,
of `MCPipeline`, where all threads may be idle and the bounds used up, and of `MCStudy`,
where days, ids and documents are used up.

### Disagreements the violated runs show

* A run cancelled while queued finds no token, is written CANCELLED, and is then
  started and completed by its worker.
* `max_daily_entries` is applied before held symbols are dropped: one that is held uses up
  an entry of the day and is then skipped.
* A holding sold to raise cash is sold at the candidate's close.
* The fifth stage of a backfill commits its factors before the stage is marked: a run
  that ends between the two multiplies them in again when it is resumed, because the
  fourth stage, which fetched fresh columns, is skipped.
* A daily update asks for its own day as both ends of the range, where its docstring, the
  comment of `run` and that of `get_latest_price_date` have it start on the day after the
  last stored one: a session it missed stays empty.
* Version numbers of a strategy are read before they are written: of two updates that overlap
  both take the same, and one that was overtaken by two takes a lower one than the row before.

Others, which are in the models and have no run of their own:

* CANCELLING is committed before the token is signalled (`routes_backtests.py:743`): a worker past
  its last date writes COMPLETED over it, one that fails writes FAILED, and a process that
  dies between the two leaves it for ever, where line 742 has CANCELLED follow.
* `allow_sell_limit_down = false` holds back sales on a signal only (`engine.py:536`); the policy,
  `13_backtest_accuracy_policy_design.md:127-129`, has every sale put off.
* The rules of an `exit_position` that is a GROUP are never evaluated; unknown index codes are
  warnings and not errors (section 2).

## 4. Proofs

`RunLifecycleProofs` proves for any set of runs and requests, any number of
dates, any set of fault kinds and any bounds on faults and crashes (the
assumptions are only that the numbers are natural):

* `TypeCorrect`;
* `InvariantHolds`, the inductive invariant `IInv`.  `CompletedIsSaved` and
  `TokenIffWorker` are inductive with three additions: a worker about to leave
  has settled its row or somebody has asked to cancel it (`SettledBeforeLeaving`),
  a worker stops only when a request asked (`StopsOnlyIfAsked`), and committed
  results belong to workers past their commit with nothing pending
  (`SavedOnlyAfterCommit`).  Without the last one a second commit could change
  published results;
* the safety properties of the run `lifecycle` (`StatusesAreTrue` has three of them in
  one: completed runs are saved, ended ones settled, cancelled ones were asked to be), and
  `ResultsPublishedOnce` from the invariant;
* `RefinesRunOutcome`: initial states map to initial states and every step to a
  step or a stutter of `RunOutcome`.

`EngineProofs` proves for any symbols, rows, gaps, configuration, exit rules, cash rule,
delistings and number of days (the assumptions: finitely many symbols, which are numbers as
they are ordered; prices of a row are positive and its open and close between its low and
its high; percentages and limits are natural numbers, the method of sizing is one of the
three and has the number it needs, rates what `Execution` says):

* `EngineInvHolds`.  The slots are counted once, from the holdings at the open, and the
  candidates are bought one by one long after, with sales by the cash manager in between.
  What carries the proof is therefore said phase by phase: once the day's holdings are
  open, nothing is held that they do not have (`Counted`); a candidate in the queue that
  is held was held at the open, and the one being ordered is neither; holdings and queue
  together fit into `max_positions` (`SlotsKept`); and what a rule, a signal or the cash
  manager sold today is either among the holdings at the open or no longer in the queue
  (`KeptOut`).  No candidate is twice in the queue (`Candidates`) and a position has one
  trade group (`Account`), without which a buy could break any of these;
* `PositionsStayWithinLimit` and `NothingIsBoughtBack`, from it;
* `LossesAreCapped`: the part of the holdings that the evaluation has been through has
  closed between its lines (`CappedSoFar`), which needs that a sale of a position is a
  sale of its lot (`QuantityOfOneLot`, about a sum with one summand) and that a price
  rounded to a tick is a number;
* `TrailingLooksBack` and `FillsAreOfTheDay`: only a rule trades for a rule's reason
  (`RulesTradeForRules`), the exit taken is the first of those due (`FirstExitIsDue`), and
  slippage and rounding keep the order of prices (`SellPricesInOrder`), also across the
  bounds of the tick table, which are multiples of the ticks on both of their sides
  (`TickBound`), and for rounding half to even (`NearestUnit`);
* `DaysStayWithinLimits`: what has been bought today and what is still in the queue are
  within `max_daily_entries` together, and the budget left is the budget less the nets of
  today's buys (`LimitsInv`), a sum over log entries that other trades come in between of;
* `AccountStaysFunded`, its `TypeOK`: a buy is paid from the cash there is, no sale takes
  cash away, every candidate has a row whose close a sale for it is made at, and the
  equity that sizes orders and the peak are computed from is a sum of amounts
  (`EquityIsANumber`).

`PortfolioProofs` proves for any symbols, prices, dates, rates, quantities and number of
trades (the assumptions: prices are positive, rates what `Execution` says):

* `CashIsAccountedFor`: the cash is the initial cash plus the sum of what each entry of the
  log adds, to the won;
* `AccountIsSound`: cash never becomes negative.  A buy is guarded; a sale needs that its
  net is not below zero, which is a fact about two roundings and a tax looked up by date
  (`SaleBringsIn`);
* `OldestLotsGoFirst`: while the loop over lots runs nothing else moves, and each turn
  takes the oldest lot;
* `ProceedsAreSplitFairly`: the quantity of the order is looked at once, before the loop.
  `Underway` says after each turn that the lots left cover what is left to sell, and that
  what has been paid so far is within half a won a part of its exact share, which at the
  last part is all of it;
* `PortfolioIsAnAccount`, the refinement: initial states map to initial states
  (`InitIsPromised`) and every step to a step or a stutter of `Account` (`StepIsPromised`).
  A turn that does not end its loop changes neither `Funds` nor `Shares` (`TurnIsPromised`):
  the part paid and the shares taken are what both add back.  The last one is `Sell` of
  the whole order, and its money within half a won a share because no part is
  smaller than a share, so that `Underway` bounds the error by the quantity.  The module
  `Account` has its own copies of the amounts, which `SamePrices` shows to be the same;
* `ResultsAreOfTheAccount`, from `ResultsInvHolds`.  What is read after a run is a function
  of the log, and what it is compared with is the lots; the invariant `ResultsInv` says of
  every state on the way that a trade group with an entry in the log has its buy there
  (`Opened`) and none of a later id exists (ids are below `nextId`), that what the log has sold of a group is
  what its lot lacks, all of it when the lot is gone (`LotsTold`), and that cash and
  lots at cost are the initial cash, the profits noted and the fees (`ProfitsTold`).  A
  sale notes the cost of the first entry of its group, which is that of the lot only because
  no later entry can become the first (`EntriesStay`).  `ResultsRead` then turns what the
  metrics and the service compute, each in its own way, into these sums, and
  `TotalOfSigns` says that the profits of winners and losers are all profits.

`Amounts` has that a sale never costs more than it brings in and that prices and costs are
amounts whatever the rates, and what sums rest on: the sum over a finite set does not depend on which
member is taken first (`AnyFirst`), is the same for functions that agree on the set
(`TotalOfEqual`), and grows by the term of a new member (`TotalOfOneMore`,
`TotalOfNewMember`); a sum of amounts is an amount (`TotalOfAmounts`).  Induction over sets being out of reach, each is proved by taking a
smallest set for which it fails (`Smallest`).  A fold over a set of the community modules is
such a sum (`SumIsTotal`), which is how the properties that use `SumFunction` are read.

`DataPipelineProofs` proves for any symbols, listings, sessions, events, threads, jobs
and bounds (the assumptions are that days and symbols are numbers, that there are
finitely many symbols, that jobs are built for days of the model, and that a range may
start on the first of them):

* `TypeCorrect`, from `Typed`: a thread has a job just while it is inside of one, the
  job has a day, and a backfill is in the stage its program has for what it does;
* `JobsExcludeThemselves`.  That the busy set is exactly the running jobs and that no
  job runs twice need each other: a release takes a name out of the set, which is right
  because no other thread has it.

The checkpoint file, in the same module:

* `CheckpointAlwaysInOrder`, from the same statement about the checkpoint each thread
  holds (`MemoInOrder`), which is what it writes;
* `NothingIsPassedOver` and `NoHoleIsKeptQuiet`, from `AllBacked`: what a checkpoint on
  disk or in a thread's memory says is behind it is true of the tables.  Three facts carry
  the proof: no job takes a row, a symbol, a session or a report away and no backfill
  widens what all of them have covered (`Grows`), so that an old file, or one another run
  has overwritten, can say too little and nothing false; a registered backfill starts no
  later than the range of its day (`Started`); and the symbol saved is the least one left, so that everything up to it is
  covered, also when the run itself was resumed.

About rows: `NoFactorLooksAhead`, with the same statement about the copies of
rows that jobs hold between two sessions (`LooksBack`); `ApplyRepairsExactly`.  About progress: `JobsMakeProgress`, comparing `StepsLeft` before
and after each step, and `NobodyWaits` (see Progress below).

`RequestProofs`, for any sets of users, symbols and documents and any bounds; it is about
`StoreSpec` and `WatchSpec`, of whose behaviours the scenarios of `study` are some:

* `WatchlistsStaySound`: a new id is the id of no row (`FreshIdIsFresh`), which rests on
  the greatest member of a bounded set of numbers (`GreatestNatural`, by a well-founded
  order on the distances from the bound);
* `StoreInvariantHolds`: versions of a strategy have all numbers up to their greatest and
  their newest row is the current document (`Histories`), and a request that has read
  knows a strategy, a document and a number the tables still have (`RequestsKnow`).  The
  second is what a commit needs: a number read long ago is still at most one more than
  the greatest, since numbers only grow;
* `HistoriesKeepUp` and `RunsAreReproducible`, from it;
* `StoreStaysTyped` and `WatchStaysTyped`, the types of the two modules, which are part of
  the invariants; they and `TablesStayTyped` are proved instead of being checked in `study`;
* `SavedConditionsAreRouted`, which says nothing of the rules read of an `exit_position` that is
  a GROUP.  A document is validated by the request that brings it
  and read by a run long after, so the invariant (`AcceptedOnly`) is that every document a
  strategy has, or a request is about to write, is valid; that a valid document is routed
  (`ValidDocumentsAreRouted`) is a fact about the validator and the readers alone, for any document, also one nobody
  thought of in `study`.

`ResearchProofs`, for any symbols, sessions, jobs, codes and configurations (`ResearchSpec`):
`OneUniverseADay` from the keys of the table being distinct and those a job has found being
keys of its day; `ReportsAreTrue` from what the index job has in hand (`JobInv`: a code is
still to come, failed or processed).  `TablesStayTyped` (no row is of a day after today, no snapshot
has a symbol nobody registered) from `TablesInv`, which says the same of what jobs have in
hand; it assumes that the table of symbols a study starts from is one.  `UniversesLookBack` needs no more of the state than the types:
each reader of the tables (`CapDays`, `AverageDays`) finds the same rows in the tables of
today and in those cut off at the last day it may read, so that each step of `Select`
picks the same symbols.

Also in `ResearchProofs`: no signal looks ahead.  `Agree(x, y, n)` says that two columns have
the same first n rows whatever they go on with, and `SameHistory` says it of two frames, the
`next_*` columns excepted.  One lemma for each column function carries it from arguments to
results: a row's mean, maximum, change or exponential average is a function of a window
that ends at the row (`WindowsAgree`), so that nothing has to be known of the values of
`Smoothed` or of fractions.  From there

* `ConditionsLookBack`: each of the fifteen condition types gives the first n rows the same
  verdicts on both frames.  A `Shift` by a negative number would break it, and a look-back of
  `momentum_return` is a positive one because `Refused` refuses the others;
* `SignalsLookBack`: in every state of `ResearchSpec`, the entry and the exit signals that a
  strategy has for the days up to one, computed of the frame of those days alone, are those of
  the frame of all rows (`SignalsStand`).  The rows of the shorter frame are the first of the
  longer one (`RowsAgree`): a frame has its rows by the days before them, and days that come
  later are not among those (`NthIsThere`, `NthIsUnique`).

The theorem asks of the document that it is valid, that `generate_signals` does not raise on it
and that its conditions are `Backward`: no key names a `next_*` column, which the validator
would let through (section 2), and windows are whole numbers.

`SignalsStandAsSeen` proves `SignalsAsSeenThen`: neither a row that comes later nor a corporate
action that rescales the rows before it changes a signal of the past.  The first half is
the above.  The second is that conditions do not know the unit of prices, and is built from
the bottom, in `NumberProofs`:

* numbers: Euclid's recursion is a function because there is no smallest number up to which
  it is none (`EuclidExists`, `GcdIs`), and what it gives divides both and grows with them
  (`GcdDivides`, `GcdScales`), so that a fraction in lowest terms is the same for equal ratios (`SameFraction`), and the four
  operations are those on ratios (`PlusIs` to `OverIs`, `LessIs`);
* a factor `k` (`Unit`, a positive ratio) passes through sums and differences
  (`ScalePlus`, `ScaleMinus`), cancels in quotients (`ScaleRatio`) and keeps every comparison
  (`ScaleLess`, `ScaleEqual`);
* columns: a rolling mean or maximum, a change, an exponential average, a MACD line of a
  column times `k` is that of the column, times `k`; an RSI and a percentage are the
  same.  What is accumulated entry by entry is a function defined by recursion, of which
  `AccumulatedIs` gives the equation and `AccumulationScales`, with a smallest length for
  which it fails, the step;
* `ConditionsAreRelative`: on two frames of which one has its adjusted prices in another unit
  and its adjusted volumes in another one still (`Readjusted`), each of the fifteen condition
  types gives every row the same verdict.

In `ResearchProofs`, every row has whole numbers and a positive factor (`RowsInv`, inductive:
factors are multiplied), and dividing the factors of all rows by one of them readjusts the
frame (`FramesReadjusted`, from two laws of fractions, `AdjustmentsScale`).  The theorem asks of
conditions, besides what `SignalsLookBack` does, that they are `Relative`: whole-numbered
windows, no `macd_histogram` of an adjusted column with a value other than 0, no
`market_index_filter` on an adjusted column (section 2); of bars that they are whole numbers,
and of factors that they are positive.  All conditions and the strategy of `study` are of
this kind.

Progress.  TLC checks liveness on small instances; what there is to it besides fairness and
`ENABLED` is proved for all of them:

* `WorkersMakeProgress` (`RunLifecycleProofs`): each step of a worker or of a cancel request
  leaves it fewer steps, exceptions and handlers included, and no step of others, a restart
  included, leaves it more;
* `BacktestsMakeProgress` (`EngineProofs`): each step of the loop is of a later day, or of a
  later phase, or a turn of the phase, or, in the loop of `handle_shortage`, a sale of shares;
  the four are bounded (`ProgressIsBounded`), so that in their lexicographic order no
  backtest goes on for ever.  That forced sales empty a position (`WholePositionGoes`) and
  that every sale takes at least one share (`SaleTakesShares`) is what it rests on;
* `SalesComeToAnEnd` (`PortfolioProofs`): in the loop of `sell_symbol_fifo` there is an oldest
  lot and it has what the turn takes, because the lots cover what is left to sell
  (`Underway`); each turn leaves less;
* `JobsMakeProgress` and `NobodyWaits` (`DataPipelineProofs`): each step of a job leaves fewer,
  and at each place of its program (`InItsProgram`) the conditions of some step that needs no
  fault are met.

Only model-checked: that the conditions of a step being met, it can be taken and is
(`NobodyStuck`, which is about `ENABLED`, and liveness under fairness: `EveryWorkerEnds`,
`SignalledLoopStops`, `SaleIsFilled`, `RunEnds`, the fairness part of `ImplementsRunOutcome`).
`Account` promises safety only, so that `PortfolioIsAnAccount` proves `ImplementsAccount` as it
is checked.

## 5. Not modelled, and the plan

Not modelled: rates, averages, growth and drawdown of the metrics (floating-point
functions of what `Results` has), the rows of daily equity and the data of charts, the
providers' queries and file formats, the row-by-row validators, lists and exports, the
frontend - stateless, or reads.  Retry and rate limiter decide only how long a call takes;
both of its outcomes are in the model.  The API's background task calls `run_backtest`
without a frame (`routes_backtests.py:57`), which then makes a synthetic one: what the
prices are is an input of `RunLifecycle` and of the engine model, and how they are
synthesised is left out.  Configurations of the
backfill that only leave parts out (a fixed list of symbols, `apply_adjusted_price =
False`) are not separate cases; that a checkpoint of one list of symbols or markets is taken
over by a run for another is the same omission as that of the start date, which is modelled.

Planned, in this order:

1. A composition of `RunLifecycle` and the day loop through the token.
2. Drawdown and daily equity against reference definitions.
