# Verification of SpreadPilot

SpreadPilot copies option spread signals on QQQ to the Interactive Brokers
accounts of its followers.  This directory holds TLA+ models of its services,
TLC configurations that check them on small instances, and TLAPS proofs of
theorems about them for every instance.  The models are written from the code
in `src/`; `PROJECT.json` maps each definition to the lines it stands for.

## 1. The system

| Component | State | Operations | Interacts with |
|---|---|---|---|
| IB Gateway manager (`spreadpilot_core/ibkr/gateway_manager.py`) | `gateways`, `used_ports`, `used_client_ids`, one `GatewayInstance` per container, the `gateway_mappings` collection, `_shutdown` | `start`, `reload_followers`, `stop_follower_gateway`, `stop`, `get_client`, the monitor task | Docker, Vault, MongoDB, TWS |
| Executor (`trading-bot/app/service/executor.py`) | the order of the attempt, the limit, the attempt | `execute_vertical_spread`: what-if margin check, mid price, ladder of limit orders | TWS through `ib_insync`, Redis alerts |
| IBKR client (`spreadpilot_core/ibkr/client.py`) | connection, position cache | connect, positions, prices, margin, `place_vertical_spread`, `check_assignment`, `exercise_options`, `close_all_positions` | TWS |
| Trading bot (`trading-bot/app/service/base.py`, `main.py`) | status, health time, shutdown event, `active_followers` | start, the main loop, `/health`, shutdown, the endpoints | its managers |
| Managers of the bot (`signals.py`, `positions.py`, `ibkr.py`, `time_value_monitor.py`) | `ibkr_clients`, the collections `positions` and `trades`, `tv:<follower>` in Redis | signals, closes, checks for assignments, rounds of time values | the IBKR client, MongoDB, Redis |
| P&L service (`spreadpilot_core/pnl/service.py`) | `active_followers`, four PostgreSQL tables | mark-to-market loop, daily and monthly rollups, commissions | PostgreSQL, MongoDB |
| Commission mailer (`report-worker/app/service/mailer.py`, `cron_email_reports.py`) | the PDF files, `sent` of a commission | the weekly run and its attempts | the commissions, SendGrid, GCS |
| Watchdogs (`watchdog/main.py`, `watchdog/watchdog.py`) | `failure_counts` | the cycle: list, check in parallel, restart, clean up | Docker, `/health`, Redis alerts |
| Alert router (`alert-router/app`) | consumer group of the Redis stream `alerts`; `alert_attempts`, `failed_alerts` in MongoDB | read, parse, route with backoff, record, acknowledge | Telegram, SMTP, Redis, MongoDB |
| Paper gateway (`paper-gateway/app`) | the collections `account`, `positions`, `orders` | place an order, close a position, set the balance, reset | MongoDB |
| Admin API (`admin-api/app`) | followers, manual operations, the dashboards' connections | create, update, delete, manual close, the feed | MongoDB, browsers |
| Simulation engine and dry run (`spreadpilot_core/simulation.py`, `dry_run.py`) | orders, books, equity; one flag and a log | `run`, `step`, `reset`, `place_order`; contexts and decorated calls | strategies; every service |

What makes the modelled parts hard:

* The gateway manager is one asyncio process whose tasks share dictionaries and
  two pools.  Each await lets another task in: a start that waits for Vault, a
  stop that waits for its delete, a client that connects with a gateway object
  whose gateway has been stopped.
* An order lives at TWS; what the process knows of it lags behind, and a
  cancellation is a wish.
* The bot gives every follower's client the same host, port and client id: the
  followers share one TWS session and one account, and compete for it.
* A position document is read, computed on and written across awaits, and so is
  the decision that an assignment has to be compensated.
* The P&L service runs at times of the day, in windows that a loop has to hit,
  and asks its own tables whether it has been there.
* A mail, like an alert, can be delivered and its record lost, or read and its
  reader gone.
* A health check that raises takes the cycle with it, but not the other checks
  of the cycle, which overlap with the next one.
* An order of the simulated broker is up to six calls of MongoDB, without a
  transaction: each may fail, and other requests run between any two of them.

### Conventions

Three facts of the repository shape every part, and the models keep them where
they change the control flow.  `get_logger` returns a logger of the standard
library, whose methods raise `TypeError` when they are called with keywords
(`logger.info("...", follower_id=...)`) and the level is enabled; INFO is the
default.  Every producer of alerts builds `Alert(...)` without fields the model
requires, which raises a validation error, and `AlertManager.create_alert()`
raises before it does anything.  And handles of MongoDB are tested for their
truth (`if not db`), which the newer Motor drivers refuse: the models take those
tests as passed, as the tests' databases do, since otherwise no request would
ever be served; the manual close goes one step further and asks the core
`get_mongo_db()` (manual_operations.py:86), whose client the admin API never
connects, so that what is modelled is the endpoint as its tests drive it.
Likewise the start of the bot passes `setup_logging` an argument
it does not know; the models begin after it.

## 2. The modules

| Module | Models | Notes |
|---|---|---|
| `GatewayManager` | the gateway manager, its tasks and its environment | one action per stretch of code between two awaits |
| `GatewayManagerProperties` | what it promises | |
| `GatewayMappings` | which documents of `gateway_mappings` two tasks wrote at once (a history variable), and what the others say | extends `GatewayManagerProperties` |
| `SpreadOrders` | orders at TWS and as `ib` sees them, the steps both ladders share, their properties | TWS is external |
| `LimitLadder` | `VerticalSpreadExecutor` | extends `SpreadOrders` |
| `SpreadChaser` | `IBKRClient.place_vertical_spread` | extends `SpreadOrders` |
| `IBKRSessions` | `IBKRManager.get_client()`, connections and position caches, TWS as the account's owner | |
| `TradingService` | the jobs of the bot's managers on that account | extends `IBKRSessions` |
| `TradingProperties` | what they keep, and in which modes | |
| `MarketHours` | the hours of `utils/time.py` and of the paper gateway | pure operators |
| `TradingBot`, `TradingBotProperties` | the process: loop, health, shutdown, restart | extends `MarketHours` |
| `PnLService` | the loops of the P&L service and its tables | |
| `CommissionMailer` | the mails of the commissions and their marks | extends `PnLService`: both write `commissions` |
| `PnLProperties` | what both promise together | |
| `Watchdog` | `ContainerWatchdog` | |
| `ServiceWatchdog` | the alternative, `ServiceWatchdog` of `watchdog.py` | extends `Watchdog` for its state and properties |
| `AlertSubscriber` | `RedisAlertSubscriber`, `BackoffAlertRouter`; sending is one step | the abstract specification of `AlertRouting` |
| `AlertRouting` | `AlertRouter.route_alert`: chats, then mailboxes, one answer at a time | refines `AlertSubscriber` |
| `Sums` | the sum of a sequence of numbers | used by the P&L service, the paper gateway and the engine |
| `PaperGateway` | the paper gateway: `place_order` and its `StateManager` | MongoDB is external |
| `AdminFollowers`, `AdminApi` | followers and the requests on them; manual closes and the feed of the dashboards | `AdminApi` extends `AdminFollowers` |
| `SimulationEngine`, `SimulationProperties` | the replay engine | |
| `DryRun` | the dry-run flag, its contexts, decorated calls | |
| `MC*` | small instances for TLC | |
| `*_proofs` | theorems and their proofs | |

### Gateway manager

`inst[i]` is the i-th `GatewayInstance` object ever made and, since each is made
by one `docker run`, also its container: objects stay in the model after
`self.gateways` forgets them, because a monitor or a `get_client` call may still
hold them.  `box[f]` is the container that has the follower's container name,
`alive` those that run.  `inst[i].to` and `.up` are the `ib_client`: which
container it was last connected to, and whether it still is.

A task (`job`) is at one of the awaits that really suspend: between followers
(`scan`), in the Vault backoff (`vault`), in the write of a mapping (`store`),
between reading and stopping (`halt`) and in the delete of a mapping (`unmap`).
Docker calls block the event loop and so are part of the step they occur in.
`monitor` and `caller` are at `connect` during `connectAsync` and at `backoff`
between two tries.  Each action follows one path through the code up to the next
await, with what its exception handlers undo.

Abstracted: alerts and log texts, the random draw of a client id (any free one),
times (every timeout may or may not have passed), and credentials.  Not modelled:
`docker inspect` raising, the container states `created` and `paused`, and
`if not db` on the MongoDB handle, which is taken as a handle that is there.  A
container that `docker run` leaves behind when it fails is removed by name
at the next start.

### Orders

`status` and `filled` are TWS's truth; `seen` and `seenFilled` what
`trade.orderStatus` says; `Deliver` closes the gap at any time.  `cancels` are
the orders `cancelOrder` was called for: TWS may fill them all the same.  `pc` is
where the coroutine awaits; `raised` is the exception handler that turns any
exception into `REJECTED`.  Prices are cents.  The half-second and the interval
between attempts are one sleep, of any length.  `infoLogged` says whether INFO
is enabled; it is chosen at the start and decides which log calls raise.

### The bot's managers

`stored[f]` is `ibkr_clients[f]`, `owner[c]` the follower client object c was made
for and `session` the client whose connection TWS has accepted.  `get_client()`
gives every client the same host, port and client id, so TWS has one session and
one account (`held`, `working`, `exercising`) for all followers; `cache[c]` is what a
client was last told of it.  A job is a signal, a close, a position check or a
round of the time value monitor; `job[j].at` is where its coroutine suspends.
`trades`, `book` and `tv` are the collections and the Redis key, `executed`,
`succeeded`, `flat`, `exercised` and `worst` are history.  `mode` is *calm* (one job
at a time, calls succeed, TWS is done before the job goes on), *overlap* or *failing* (one
job, calls fail, the service restarts); `level` is the log level, since calls with
keywords raise when it is enabled: at INFO `connect()` always fails.  The ladder of
orders of a signal is one step here with the outcomes `SpreadChaser` has.
`Midpoints` and `Strikes` are the prices out of which `StatusOf` computes the time
value of a spread and its class.

Two jobs never run in the deployed service and are modelled as its callers, the
endpoints and tests, use them: the periodic loop returns before it calls
`check_positions()`, and `/close/all` is hidden by `/close/{follower_id}`.

### The bot's process and the market hours

`now` counts half seconds, and a day is scaled down (`DayLength`, `OpenTime`,
`CloseTime`): the operators of `MarketHours` are the arithmetic of `utils/time.py` and
of `paper-gateway`'s `market_hours.py` on such days, a week of which has two days off.
`pc` and `timer` are the wait `run()` is in, `age` how long ago the health time was
set, `stopping` where a shutdown is.  The main loop may be late by `MaxLag`.

### P&L and commissions

The tables have no unique constraints, so each is a sequence of rows per
follower.  A day has parts (`phase`): open, the minutes of the daily rollup, the
night and, after the last day, the window of the monthly one; `polls` is how often a
scheduler has looked into it.  The loop of the daily rollup looks every minute and so
finds its five minutes; that of the monthly one sleeps as long as its window and the time
a look takes, so a month may pass without a look (`WindowServed`).  The rate of a
commission is read from MongoDB in each calculation and is any of `Rates`; an entry that
is there, paid or not, is written over.  The iterations `mtm`, `daily` and `monthly` go over
the set `active_followers` with an await per follower (`seen`, `due`, and the size the
iterator remembers: Python raises when the set has changed).  Everything for one
follower is one step, the failures in its middle included.  A run of the mailer is
at `run[r].at`: between its file, SendGrid, the commit and the removal of the file.
`mode` says whether followers change or calls fail (*steady*, *changing*, *failing*);
`overlap` and `infoLogged` vary in the steady mode.

### Admin API

`store[id]` is a follower; ids made by MongoDB and ids that are strings behave
differently, because the endpoints look for `ObjectId`s and the manual close for
strings.  `request[r]` is a request between two calls of MongoDB.  `connections` is the
dict of the dashboards, `feed` the periodic task: its two counts and the sends of
its broadcast.

### Simulation and dry run

The engine's time is the number of data points replayed; a strategy is what it
orders at each point.  `run()` is interleaved with orders placed by hand, and the engine is used
again.  In the dry-run mode a context is an entry of `contexts[t]`, the value it will
restore; coroutines are made and awaited in separate steps.

### Watchdog

`checks` are the `monitor_container` tasks in flight, each of a cycle;
`gather()` leaves them running when one raises (`Raises`), and the next cycle
adds its own.  `streak` is a history variable: the failed checks in a row since
the container was healthy, restarted or not listed after a cycle.
`ServiceWatchdog` has the same state: its services are fixed, a check asks Docker
whether the container runs, and what follows an alert that raises is lost in the
same way.

### Alerts

`lastId` is the group's last delivered entry, `acked` what was acknowledged,
`sent` how often a channel took the alert.  `pc` is the await `run()` and the
coroutines under it are at.  Each Redis or MongoDB call may raise, before or
after it took effect, and the process may crash at any await, unless `reliable`.
Reliable or not, a task that has not ended five seconds after `stop()` is cancelled
(`Cancelled`, main.py:146), and what it had read is in nobody's hands.

`AlertRouting` replaces the one step in which an alert is routed by the sends of
`route_alert`: all chats at once, then, when no chat was told, all mailboxes; each
send answers, fails, or is delivered and its answer lost.  `delivered` is what the
router will say.  `RoutingIsAtomic` is `AlertSubscriber!Spec` with `pc` mapped to
`route` while sends are pending: nobody who reads the subscriber's state can tell
the two apart, in spite of stops and crashes in between.

### Paper gateway

`req[h]` is the request that handler h serves: where it awaits (`pc`), its order
as far as it is executed, and the quantity it is about to write.  Each call of
MongoDB is one action, and what the coroutine computes before its next call
belongs to the call before.  `accounts` is a sequence because `find_one({})` and
`update_one({})` take the first document, whatever else is there; the unique
indexes on order ids and symbols make the second insert raise.  `mode`, chosen at
the start, says whether requests overlap, whether administrators act and whether
calls fail or the process restarts: each property says in which modes it
holds, and the others show that it does not hold by itself.  With overlapping
requests two purchases may be afforded by the same cash; with failures an order may
be saved and never charged, because its three writes are not one.  A `SELL` of
more than is held is credited in full (execution_simulator.py:185 leaves the
check to the storage layer, which returns without one); `Book`, of which `Comes` is
made, states that rule for the positions.

Abstracted: prices, commissions and slippage are any of a set; P&L is the
quantity it was booked on, and an order may always be rejected: when the market is
closed is in `MarketHours`.  Not modelled: average cost, option fields,
`get_performance_metrics`'s arithmetic.

## 3. The runs

| Run | Instance | Shows |
|---|---|---|
| `gateway_safety` | 2 followers, 2 ports, 2 client ids, `start()` and one reload, 2 containers, 2 Vault tries | leases are exclusive and none is lost, no tracked gateway's client reaches a foreign container, `STOPPED`/`FAILED` are final |
| `gateway_overlap` | 1 follower, 2 ports, 2 client ids, 2 containers; `start()`, a reload and a stop that overlap | a document that is not being written describes its gateway, unless the last writes to it overlapped |
| `gateway_liveness` | 1 follower; a reload, a stop and a caller that may overlap `start()`; writes to MongoDB fail | every task ends, a lost connection is noticed |
| `spread_ladders` | quantity 2, 3 attempts, prices around the floor, both ladders, both log settings | the floor is kept, results are true, no order is left working unattended, every execution ends |
| `ladder_rejected` (violated) | the same | spreads are bought by an execution that returns `REJECTED` |
| `monitoring` | watchdogs: 2 containers, 2 overlapping cycles, threshold 3, counts up to 4, both watchdogs; alerts: 3, in batches of 2, 2 chats, 1 mailbox, 2 attempts, a stop, a crash | restarts never come late, and a failing container is restarted whatever raised before; acknowledged alerts were sent, at most `max_retries` times, what can be routed is settled unless a cancelled task had it, and routing chat by chat implements the atomic one |
| `alert_retried` (violated) | 1 alert, Redis and MongoDB at hand | an alert that was left for a retry is never read again |
| `paper` | 2 handlers, 3 requests, 1 symbol, quantities up to 2, any mode | cash and positions follow the order book and no shares are made up (`BooksInv`), there is one account, no purchase overdraws it |
| `pnl` | 2 followers, a month of 2 days, 2 snapshots a day, gains of -1 or 1, 1 change of the followers, 2 failures, 2 rates, 2 mailers of 2 attempts | a day is rolled up once as it closed and the month is the sum of its days (`RollupInv`), once anybody is billed all are who traded, and once (`CommissionInv`), the total that was billed stands, mails and their marks agree (`MailInv`) |
| `month_missed` (violated) | 1 follower, a month of 1 day, nothing fails | no look falls into the window of the monthly rollup, and nobody is billed |
| `trading` | 2 followers, 2 jobs at a time and 2 in all, 6 client objects, 1 fault, 2 spreads of which one may be assigned, all classes of time values | sessions are one follower's and none is forgotten (`SessionInv`), MongoDB follows what was executed (`BookInv`), closes are flat and compensation leaves nothing naked (`AccountInv`), a risk is not hidden by a later safe position |
| `services`: admin API | 3 ids of both kinds, 2 emails, 2 requests or 1 request beside 2 dashboards, 1 failure | closes are announced (`OperationsInv`), overlapping requests do what the overtaking write explains (`OverlapIsExplained`), a dashboard goes on being updated while nobody before it leaves |
| `services`: process of the bot | 14 days of 32 half seconds, open from 12 to 24, holidays on days 4 and 7, interval 6, lag up to 2, 1 restart | the loop knows the hours and stays healthy (`LoopInv`), the three calendars tell the opening, the trading date and the next opening (`CalendarInv`), the status only moves on, a signal ends the loop |
| `services`: simulation | 3 points, 2 symbols, 2 prices, 6 moves, 1 order by hand, 2 runs | orders fill at the first chance, books follow them, the drawdown is the worst fall, a run repeats itself (`ReplayInv`), trading gains nothing by itself |
| `services`: dry run | 2 tasks, depth 2, 3 calls | the flag is restored, a context runs nothing while it is alone |

Invariants named `...Inv` are conjunctions of the named parts above them; each
part says in its comment in which modes it holds.

Bounds.  Two followers with two ports and two ids are the smallest instance where
one task allocates what another releases, and two containers let a stopped
gateway's port be given out again.  `NothingLeaked` needs as many client ids as
ports and a `start()` that is not overlapped: with the ids exhausted each start
loses a port (`_allocate_port` runs before the `try` block,
gateway_manager.py:254), and a `reload_followers()` called during `start()` starts
a follower twice, of whom the first gateway is forgotten with its port and id.
`MappingFollowsGateways` is about tasks that do overlap.  The code tracks or forgets a
gateway first and writes its document after an await, so a stop's delete can overtake
the upsert of the start before it and leave the document of a gateway that is gone.  What
holds is that nothing else makes a document wrong, and that the next write which
overlaps no other puts it right: `disputed` remembers whose last writes overlapped.  One
follower is enough, since each has a document of its own; two ports and ids let
`start()` start a follower that a reload has started already.
Three attempts of two spreads let a late fill arrive for an order two attempts back.
Two cycles are enough for a check to outlive its cycle, and three alerts in batches of two
for a batch to be cut short and another to follow.  Two handlers with three requests
let one request run through all that another waits for and a third follow; the
handlers are alike, so the run uses their symmetry.  `LargeOrder` is 2 rather than
501, so that the larger order may be filled in part, and the commission of 1 decides
whether a purchase can be paid for.

Two days make a month whose total is not that of its last day, and gains of both
signs one that is not payable; two failures let a rollup fail, run again and fail
again, at another rate.  Followers are alike and so are mailers, so the run uses their
symmetry.  `RolledUpOnFirst` needs no more than one follower and one day to fail.  With two jobs at a time one can overtake another at each of its awaits; a
client object may be given its number again when nothing refers to it, so six of
them are more than are ever in use.  Fourteen scaled days contain two weekends,
the first with a holiday on either side; every half second of them is a
state, and the interval does not divide the day, so that the loop meets the openings
at every offset.

Parts that share no state and have no symmetry to use are checked in one run: a behaviour
of `monitoring` or of `services` is one of each part, while the others rest in an initial
state, and the fairness is that of each part's own steps.  In the admin API requests and
dashboards meet only in the feed: the initial states are those with all requests and those
with one request and all dashboards.

`MaxStarts`, `MaxCount`, `MaxAlerts`, `MaxStops`, `MaxCrashes`, `MaxRequests`,
`MaxFaults`, `MaxSnapshots`, `MaxPolls`, `MaxChanges`, `MaxFailures`, `MaxMails`,
`MaxRestarts`, `MaxLag`, `MaxManual`, `MaxRuns`, `MaxDepth` and `MaxCalls` only bound the
instance.  Deadlock is not checked where bounded inputs run out, and in the ladders
because an execution ends; in `monitoring` and `services` it is, but for the parts whose
inputs run out (`Quiet`, `Over`).

Fairness.  asyncio runs every ready task and every await of the modelled code
ends (a timeout, an answer or an exception), so each task of the gateway manager, and
its monitor, is weakly fair.  The ladders' waits have deadlines; TWS is not fair at
all.  The watchdogs' loop and each request (they have timeouts) are weakly fair, the
containers are not.  The subscriber and its sends go on and it is started again
whenever it ends (`restart: unless-stopped` in docker-compose.yml); nothing makes
anybody publish, stop, crash or cancel.  In the bot the clock, the turns of its loop and the
end of `run()` are weakly fair, signals and restarts are not; in the admin API the
feed and the end of a handler whose client has left.  The other modules have safety
properties only.

## 4. The proofs

* `GatewayManager_proofs`: `TypeCorrect`, `LeasesExclusive`, `OwnContainer` and
  `GatewayInvariant`, for any sets of followers, ports, ids and tasks, any number
  of starts and tries, overlapping calls included.  The inductive invariant
  `GatewayInv` adds to the exclusive leases what a task that awaits
  knows (`AwaitInv`) and what Docker guarantees (`ContainerInv`): a name belongs to
  one container, a published port to one running container, and a running container
  on the port of a gateway in use is that gateway's own.  Without the last part
  `ClientReachesOwnContainer` is not inductive: a reconnect dials a port, not a
  container.
  `NeverRevived` proves the action property from `MonitorInv`: only the monitor writes a
  status after the start, and what it connects as starting still starts when the answer
  comes.  `NothingIsLeaked` is about tasks that do not overlap (`Serial`, as in
  `gateway_safety`, but for any number of followers and with stops): it needs that ids
  suffice, which is proved by counting the followers without a gateway.  With overlapping
  tasks it fails in the code: a reload that waits for Vault and a second one may start the
  same follower.  `MappingFollows` is about tasks that do overlap, any number of
  them, with a MongoDB that takes the writes: of a follower without dispute at most one
  write is under way, and it writes what the gateway is (`DocumentInv`), because a task
  that changes the gateway begins a write of its own in the same step (`DocumentStep`).
* `SpreadLadders_proofs`: types, the
  floor, the truth of results and that nothing is left working, for both ladders, any
  quantity, attempts, prices and increment.  `OrderInv` relates what `ib` knows to what
  TWS did and says that nothing is placed for attempts to come.  The client compares the
  next limit when it goes on rather than when it places it, so its invariant also
  remembers that comparison (`LimitChecked`).
* `TradingService_proofs`: `SessionsKept`, `BookKept`, `AccountKept` and `RiskVisible`, for
  any followers, jobs, prices, requests and faults.  None of the four is inductive.
  For the sessions, `SessionStored` says that without overlap one job works at a time,
  that the client of the session is the one stored, and that a job at an await of
  `connectAsync` holds one that is not connected; a new client is never one that is
  referenced, because clients outnumber what can be (`SessionsAssumption`).  For the
  trades, `TradesInv` counts the jobs that have an execution to save or a result to
  report.  For the documents and the account, `CalmBook` and `CalmAccount` say what one job
  at a time knows: the document it read is still the one stored, the quantities it saw are
  still held, and orders and exercises are pending at TWS only while it waits for them.
  For the risk, `WatchInv` says that one round is under way and that it looks at prices
  only while it has found nothing at risk.
  For the process, `LoopFollowsMarket` and `StatusStands`: what is left of a wait is no more
  than what is left until the opening (`WaitEndsInTime`), a monitoring bot began its wait
  between the opening and the close of the same day (`MonitorsTheDay`), and the loop turns
  in an error or closes only when it was told to end (`StatusIsKnown`).  `CalendarsAreRight`
  is arithmetic about days of any length: an instant is a day and a time of day in one
  way, the next market day is at most three days away and nothing between trades.
* `Monitoring_proofs`: the watchdogs and the alerts.  `CountsCoverStreaks` and
  `ServiceCountsCoverStreaks` say of each watchdog that a count never falls behind the
  failures in a row.  For the alerts: an acknowledged alert was sent, at most
  `max_retries` times, and is marked as failed only after its last attempt.  `InHand` says
  which alert is in hand, how often it was sent, and that the alerts acknowledged lie
  before it.  `RoutingImplementsSubscriber` is the refinement: initial states map to initial
  states and each step of `AlertRouting` to a step of the subscriber or to a stutter,
  for any sets of chats and recipients, so that those results hold of the detailed
  model too.  Its invariant says that a success is remembered only while the
  subscriber routes.
* `RestServices_proofs`, the paper gateway: the types, `PaperOneAccount` and `PaperNoOverdraft`.
  The inductive invariant adds to the types that, without overlap, a handler at work
  is the only one (`Alone`), and what it knows of the account at each await
  (`AccountKept`): that there is none before it inserts one, and that it can pay for
  what it is about to save and to charge.
  `PaperBooksFollow` adds the books (`BooksIInv`): without administrators orders have ids of
  their own and handlers orders of their own (`OrdersInv`); the cash is the sum over the
  orders that no handler is still to charge (`CashInv`), so that saving an order and
  charging it each move one summand; a position, and what a handler is about to write, is
  at most the sum of the purchases whose handler has read the position (`HeldInv`), which
  no overlap or failure can make smaller; and a handler at work owes the difference
  between the order book and the positions, exactly one order (`FollowInv`, `Owed`).
  The admin API: `ClosesAreAnnounced` and `OverlapExplained`, for any followers, requests and
  dashboards.  The counts are cardinalities of which a step moves one element: `StoreInv`
  says that a creation about to insert that nobody overtook has an email no follower has,
  and counts operations, alerts and the closes between them; `FeedInv` that the total of the
  first count is off by the writes since; `SocketsInv` that no socket is stored twice.
* `PnL_proofs`: `TablesAndRuns` (types), `MonthIsSumOfDays`, `BilledOnce`, `MailedWithinBound`
  and `BillsStand`, for any followers, days, snapshots, gains, rates and mailers.  `TimeInv` and
  `TotalsInv` say which phase each iteration can be in and what it has added up so far;
  `OnceInv`, `FiledInv`, `SumInv` and `BilledInv` which rows are there, once, and of what sums; `DueInv` that without failures the
  commission in hand is the follower's first, so that no amount is written over; `RunInv` what a mailer that awaits knows of its commission, and `MailsInv` counts: the
  mails sent and not marked are those of attempts in flight and of faults that happened.
* `Simulation_proofs`: `ReplayIsRight`, `TradingGainsNothing`, `DryRunFlagRestored`,
  `ContextsSimulate` and the types.  The order of one strategy at one point is processed by a recursive function; the
  proof shows that there is such a function and steps it order by order.  The books are
  sums over the trades, the first chance is the least data point at which the price
  was touched, and the drawdown is compared with the highest value so far by cross
  multiplication, as the model states it without fractions.  That a run repeats itself
  follows from `RunIsReplay`: at each point the engine is where the one replay of this data
  and this strategy is.  For the flag, any number of tasks and any depth:
  `FlagRestored` speaks of states in which no context is left, `FlagIsOwed` adds what holds in
  between, a flag that is on without having been configured is owed to a context that
  found it off.
* `Sums_proofs`: what a sum does when a number is appended, changed, made larger, or when
  zeros follow.  `Total` is a fold, whose recursive function has to be shown to exist;
  induction over naturals is `SetInduction`, a statement about a set of naturals instead of an
  operator, proved from the library's facts on bijections with intervals.

The theorems assume what the modules' `ASSUME`s state of the constants: bounds are
naturals, tries are positive, tasks are distinct, client objects are enough, there is a
mailer, the followers, requests and sockets of the admin API are finitely many. Of the
bot's process they assume that a minute, the longest wait of its loop, fits between
midnight and the opening, and with its lag between the close and midnight; of the paper
gateway that no ten days in a row are holidays and weekend days. Every invariant and
every action property of the passing runs is a theorem. Model-checked only are liveness
and what needs `ENABLED`: `JobsEnd`, `LostClientNoticed`, `ExecutionEnds`,
`FailingIsRestarted`, `AlertsSettled`, `SignalEndsLoop` and `UpdatedUnlessBlocked`. The
types of the proved modules are theorems rather than invariants of a run.

## 5. Where code and documentation disagree

Three runs show a disagreement as a counterexample: `ladder_rejected`, `alert_retried`
and `month_missed`.  The models follow the code in the others too; they
are restrictions in the properties rather than runs:

* Gateways.  `get_client()` keeps a gateway object across `connectAsync` and may
  dial another follower's container through one no longer tracked (gateway_manager.py:430
  against docs/gateway-manager.md:10).  A reload passes over `FAILED` gateways (656
  against docs/gateway-manager.md:217).  `stop()` does not wait for a reload in flight
  (178 against docs/gateway-manager.md:365), and a document may outlive its gateway
  (402 against 401).
* Watchdog.  `publish_alert()` raises before the count is reset (watchdog/main.py:188
  against watchdog/README.md:9), so healthy checks that follow a failure do not
  bring the count down to zero at once.
* Alerts.  What was read and not acknowledged is never read again
  (redis_subscriber.py:120 against its comment at 104): alerts whose attempts all failed,
  and those in hand when the cancellation five seconds after `stop()`, or a crash, ends
  the task.  Producers write the field
  `data` where the subscriber reads `alert` (81).
* Time values.  A critical position makes an invalid `Alert`, whose handler raises in its
  log call: no critical position is closed (time_value_monitor.py against README.md:95).
* Admin API.  `except Exception` stands before `except WebSocketDisconnect`
  (websocket.py:107): a connection that broke stays stored, `broadcast()` raises at it
  in each round, and dashboards stored after it get no updates.  Nothing reads
  `manual_operations` (manual_operations.py:99 says the bot does), and as deployed the
  endpoint that writes there answers with 500 (86).
* Commissions.  The monthly rollup can miss its window with nothing failing
  (pnl/service.py:699 against 681).  A rollup that runs again writes the rate of the day
  over an entry that is paid (900-903).  The weekly job logs with keywords at INFO, which raises: as deployed it
  mails nothing (gcs.py:38 against report-worker/README.md:179).  The daily rollup counts as
  done when one follower's row is there (pnl/service.py:566), the set of followers may
  change under its iteration (592), and a commission is lost when its calculation fails
  after the monthly row was committed (816).
* Bot.  At a weekend the loop falls through to monitoring for a minute at 9:30 (base.py:220);
  the `ERROR` branch of its loop (228) is never reached.
* Paper gateway.  A rejected order sets a string where an enum is expected: the order is
  saved and the request answered with 500 (main.py:166).
* Simulation.  A strategy's orders fill at the close of the data point it was just shown;
  equity counts only the position in that point's symbol; each trade counts as won.
* Dry run.  The functions that place the orders of signals and closes call
  `ib.placeOrder` directly; only `IBKRClient.place_order` is decorated (client.py:384).
  With overlapping tasks a context is no longer simulated once the task that found
  the flag off has left its own.

## 6. What is not modelled

`PROJECT.json` lists every component with its reason.

* The frontend, migrations, scripts and the test data generator hold no state of trading.
* Read-only endpoints, login and tokens (`security.py`) and the layout of reports and
  mails (`utils/email.py`) answer from one document each.
* The signal generator (it needs `ibkr_manager.ib`), the vertical spreads strategy handler
  (arguments `IBKRClient` does not take), the loops of the P&L service inside the trading bot
  (`trading_service.is_market_open()`, which is missing) and the rest of the report worker
  fail at their import, their start or their first round: there is no behaviour to check.
* The Redis consumer of the P&L service: nothing produces `trade_fills` or `quotes`.
* The deployed alert router (`alert-router/app/alert_router.py`) raises at each message
  before anything is sent: it reads fields that `Alert` does not have (line 201).  Its
  entries are never acknowledged and never read again.
* Times: every timeout may or may not have passed, except in the bot's process, where
  time is the subject.  That `container.restart(timeout=30)` blocks the event loop
  (watchdog/main.py:131) is therefore not visible.
