# TLA+ models of the trading SaaS and its LocalAgent

The repository is a two-process trading system. The SaaS (`src/cmd/saas`)
decides once a minute, for every RUNNING strategy instance, whether to buy or
sell BTC; the LocalAgent (`src/cmd/agent`), which alone holds the exchange's
API keys, carries the decision out and reports what was filled. The SaaS keeps
a ledger of the result in PostgreSQL. Beside it runs an evolution service that
searches for better strategy parameters and promotes them to champion.

No process ever sees all of it at once: a decision crosses a scheduler
goroutine, five separately committed database writes, a WebSocket registry, a
WebSocket, an agent goroutine, an exchange, another goroutine, another
WebSocket read loop and one more transaction. The models are about what may
happen between any two of these.

## 1. Inventory

| Part | Source (`src/...`) | State | Operations |
|---|---|---|---|
| instance manager | `internal/saas/instance/manager.go` | the rows below | Start, Stop, Delete, Tick (ten steps), markError |
| cron scheduler | `internal/saas/cron/scheduler.go` | the goroutines of a scan | scan, waiting for every tick of it |
| database rows | `internal/saas/store/models.go` | StrategyInstance.Status, PortfolioState, RuntimeState, SpotExecution, TradeRecord | written whole (`Save`), by column (`Update`), inserted |
| delta report handler | `internal/saas/ws/portfolio.go` | one transaction per connection | processDeltaReport, updateBalances |
| WebSocket hub | `internal/saas/ws/hub.go` | `conns`: user to connection | HandleConnection (auth, swap, answer, read loop, deferred delete), SendToAgent |
| local agent | `internal/agent/ws/client.go` | its session, goroutines, send buffer | session, readLoop, handleCommand, sendSnapshot, writePump |
| exchange client | `internal/agent/exchange/bitget.go` | none; the account is external | PlaceOrder, waitForFill, GetBalances |
| strategy | `internal/strategies/sigmoid_dca/step.go`, `internal/quant` | RuntimeState, carried by the tick | Step: a pure function |
| evolution service | `internal/saas/epoch/service.go` | `activeTask`, its cancel function, EvolutionTask rows | CreateTask, CancelActiveTask, runEpoch |
| promotion and cache | `internal/saas/api/handler_evolution.go`, `internal/saas/store/redis.go` | GeneRecord.Role, the champion key in Redis | PromoteChallenger, GetChampion; loadChampionParams of the tick reads them |
| genetic search | `internal/saas/ga/engine.go` | population, scores, fingerprint cache, convergence counters, in memory | RunEpoch, evaluatePopulation and its workers |
| backtest and fitness | `internal/adapters/backtest/adapter.go`, `internal/quant` (`ghost_dca.go`, `crucible.go`), `internal/saas/ga/sigmoid_dca_evolvable.go` | a simulated account, RuntimeState, NAV curve, cash flows | RunBacktest, SimulateGhostDCA, Evaluate |
| authentication, configuration | `internal/saas/auth`, `config`, `cmd/saas/main.go` | none that changes | verify a token, read files |

How they meet:

* **Shared rows.** The PortfolioState row has four writers: the tick creates it
  (step 3), its release saves all of it (step 8), its step 10 updates one
  column, and the delta report saves all of it. None takes a lock and the
  isolation is READ COMMITTED. RuntimeState has one writer, the tick.
* **Calls.** scheduler to Tick to Step; Tick to SendToAgent, whose answer only
  decides what is logged; epoch to RunEpoch to Evaluate to RunBacktest to the
  same Step.
* **Messages.** auth, auth_result, command and delta_report on one WebSocket;
  a connection that breaks loses what it carries. Nothing is sent again.
* **Callbacks and goroutines.** One goroutine per tick, per connection, per
  command on the agent, per epoch, and a pool of workers in each epoch.

What is hard in it, and the properties that say it goes right:

| Component | Hard | Correct means |
|---|---|---|
| manager, scheduler | a tick dies or fails between its writes; Stop and Delete fall into it; the next scan comes while it runs | a DCA tier is bought once a month (`TierOncePerMonth`); one tick per instance (`OneTickPerInstance`); a bar is decided once, in order, and the last one while there is time (`BarOnce`, `BarProcessed`); the order of a tier is not lost (`TierHasOrder`); `StatusTransitions`; `StoppedGoesQuiet` |
| report handler | the same report twice, on two connections; a rollback half-way; oversold float | an execution is settled once (`FilledIffTraded`); the lots are the sum of the trades where nothing else saves the row (`LedgerFollowsTrades`) |
| hub | an old handler's delete and a sender's evict race a reconnect | `RegisteredIsServed`, `BrokenLeaves`, `ServedIsRegistered` |
| pipeline | lost answers, exhausted polls, cut connections, a crash anywhere, stale saves of whole rows | `OrderRecorded`, `TradeWithinFill`, `LedgerWithinPurchases`, `BarDecidedOnce`, `BarRepeatedByReport`, `SentSettles`, `ImplementsManager` |
| evolution, promotion | cancellation races the end of the epoch; two promotions; a cache filled late | `EpochIsActive`, `DoneHasGene`, `ServiceFreed`, `OneChampion`, `ChampionPerPromoter`, `OnlyChampionsRetire`, `PromotionTakesEffect` |
| genetic search | workers race for the cache; ties; cancellation between the scores and the record; small gains drift | `BestKept`, `RecordIsTrue`, `EarlyStopIsEarned`, `Terminates`, `ImplementsSearch` |
| backtest, strategy | one runtime carried over warmup and evaluation; two loops that must count the same money; rounding over months; releases after the stop-loss | `ReserveKept`, `NothingFromNothing`, `StopLossIsFinal`, `SameMoney`, `DrawdownIsWorstPair`, `ImplementsDecisions`, `WarmupOnlyWarms` |

`PROJECT.json` lists the hazards one by one, at the line where each bites.

## 2. The modules

| Module | Models | Uses |
|---|---|---|
| `Decisions` | which orders, releases and runtimes Step may return: the abstract strategy | |
| `SaasStore` | the rows of the trading path, the helpers that change them, and how executions and trades relate | `Decisions` |
| `TickManager` | instance manager and scheduler; the rest of the system as reports that commit | `SaasStore` |
| `DeltaReport` | the report transactions; alone, with an environment that dispatches and reports | `SaasStore` |
| `LocalAgent` | agent and exchange client, with the external account and connections | |
| `TradingPipeline` | the four composed over one database, with SendToAgent and connection handlers; refines `TickManager` | the above, by INSTANCE |
| `Hub` | registration, eviction, handshake and SendToAgent in full detail | |
| `Evolution` | evolution tasks, promotion, champion cache; the search is one step | |
| `GeneticSearch` | one epoch of the search, with its workers; refines `Evolution` | `Evolution`, by INSTANCE |
| `Backtest` | Step in integers, in the loop of the backtest, with the score; refines `Decisions` | `Decisions`, by INSTANCE |
| `TickManagerProofs`, `DeltaReportProofs`, `TradingPipelineProofs`, `HubProofs`, `EvolutionProofs`, `GeneticSearchProofs`, `BacktestProofs` | the theorems about each | the module |
| `FoldsAndExtrema` | lemmas about the greatest and the least of a set, folds and sums, for the last four | |
| `MC*` | values of the constants for TLC | |

### How state and actions correspond to the code

**SaasStore.** One function per table, indexed by instance. `portfolio[i]` is
the PortfolioState row, with `row = FALSE` while it does not exist and `last`
the last processed bar time (0: the zero time). `runtime[i]` keeps of
RuntimeState what decides the orders Step may still issue: the month of the
macro engine, its triggered tiers and the micro engine's stop-loss latch.
SpotExecution rows are the commands in `pending` and `filled`; a row never
leaves these two states, since no code sets "failed" although
`models.go:90` lists it. `Command.at`, the number of the Step call, stands for
the `nowMs` that makes a client_order_id unique; `Order.month` and `Order.tier`
are history that the properties need. Amounts are small naturals: `usdt` counts
orders' worth of money above the reserve floor, `dead` and `float` units of BTC.

**TickManager.** A tick is a record in `ticks` whose `pc` is the next database
call of `Tick`, `manager.go:147-285`:

| Action | Step of Tick | Failure |
|---|---|---|
| `Fetch` | 1, bars from the exchange | the same action: a quiet return |
| `Load` | 2-5, portfolio row, dedup guard, runtime, champion | `LoadFails` |
| `Decide` | 6-7, Step and upsertRuntime | `DecideFails` |
| `ReadRelease`, `SaveRelease` | 8, handleRelease | `ReleaseFails` (logged only) |
| `Dispatch`, `Send` | 9, INSERT of the execution, SendToAgent | `DispatchFails` (logged only) |
| `Advance` | 10, last_processed_bar_time | `AdvanceFails` |

Steps 2 to 5 are one action because the tick only reads there, except for the
row it creates: RuntimeState is written by no one else while the tick lives
(`OneTickPerInstance`), and the portfolio row it holds is the one it reads
first. A statement that fails, or the commit of step 8, leaves its write done or not
done; the tick then returns through `markError`, which may fail too, or goes on where
the code only logs. `Crash` forgets all goroutines; the rows stay. The reset of a
runtime payload that does not parse (manager.go:224-229) is left out: `upsertRuntime`
(:354-373) is the only writer of the row, and what it writes is the marshalled struct
that the payload is read back into, in a jsonb column, so no payload is corrupt.

**Decisions.** `Step` is the set of decisions the market may lead to: nothing (QUIET); in BEAR
at most one BUY of a tier not yet triggered this month, when there is money; in
BULL the stop-loss, which sells the whole float stack once and latches, or a
sigmoid SELL of a part of it; and with each a release of part of the dead stack.
The sigmoid's sale is at most 5 % of the stack per bar; with stacks of one or
two units the model lets it be any part, which allows more than the code. The
module has no variables: the trading path's models choose from this set, and
`Backtest` computes a member of it.

**DeltaReport.** `Begin` is the look-up of the execution and the read of the
portfolio row, `CommitFill`/`CommitBalances` all the writes of the transaction,
which become visible together, `Abort` its rollback. What other transactions
write in between is not seen and is overwritten by the whole-row save, as READ
COMMITTED and `Save` do. The row lock on the execution and the unique
client_order_id make the second of two transactions on one execution roll back.

**LocalAgent.** A goroutine is a job: `place`, `poll`, `balance`, `send`. The
account (`orders`, `wallet`) is external: it accepts one order per client order
id, reserves what the order spends, and fills it a unit at a time, at any time.
`EndSession` drops the jobs with what they had done: the code cancels their
context, and `safeSend` returns without sending. Another session after a
break is also what a restart of the agent looks like, since it persists nothing. The
balances of a report leave out an asset of which nothing is available or frozen, and
a report with any asset counts a missing USDT as zero.

**TradingPipeline.** Each of its steps is a step of one component, joined where
the code joins them: `TickSends` (Send and SendToAgent), `HandlerReads` (the
read loop takes a message and begins the transaction), `Connect` (swap in the
registry), `ServerCrash`. `SendToAgent` on a broken connection may fail and evict
or succeed into the void, as a write to a TCP connection does. The INSTANCE of
`TickManager` in it is the refinement mapping: the manager's variables are
themselves, and every other step is a stutter of the manager or its
`ReportCommits`.

A connection of the pipeline begins authenticated. The code's own handshake does
not get that far (section 5), and the `/api/v1/auth/login`
that the agent calls before is not routed by `cmd/saas/main.go`. The pipeline
models what happens on a connection once these are mended.

**Hub.** `HandleConnection` as a program counter per connection (`auth`, `evict`,
`answer`, `loop`), with the `prev` it swapped out; `SendToAgent` as three
steps (Load, Write, Delete). The two ends of the handshake are modelled by the
shape of their JSON: the hub's flag is within the payload, the agent's struct
has it beside the type, and a field that is absent unmarshals to false. A write fails
on a broken connection, or on an open one that takes longer than the deadline of 10 s
(hub.go:42, :69); the sender then evicts the entry, and the connection, if it is open,
stays so.

**Evolution.** The mutex of the service makes each of its operations one step.
A gene is known by its task. A promotion is two UPDATEs in READ COMMITTED: the
first sees the champions of its own snapshot (`Snapshot`), waits for rows others
have locked and re-evaluates them (`Retire`); the second promotes by id and
commits (`Promote`). The cached champion is deleted after the commit (`Invalidate`). `Expire` is the key's five minutes.
A reader goes to the database when the key is missing or the Redis read fails
(`CacheMisses`), and a query that fails ends it with what it had.

**GeneticSearch.** `pc` is where RunEpoch is: `plan`, `populate`, `evaluate`,
`check` (the head of the loop), `breed`, `detail` (the re-evaluation of the best
gene), `insert` and `commit` (the two ends of `Create`). While it is at
`evaluate` each worker goes through `Receive` (a job from the closed channel),
`Look` (the `fpCache.Load`) and `Return` (the result of Evaluate, `Store` and the
score), so that two workers may evaluate the same fingerprint at once. A gene is
a value with its score in each window; crossover, mutation and the draws of the
first population may yield any gene. `Evaluated` cuts the windows short at a
fatal drawdown, or where the context was seen done: `Cancel` may come between any
two steps, and an evaluation under way then ends in any way its checks allow.
`Sorted` leaves ties in any order, as `sort.Slice` does. The mutation's
probability and scale are counted in factors of 1.25 up to their maximum.
The INSTANCE of `Evolution` maps all of an epoch before its insert to one epoch
that searches, and its end to the outcome that `Record` reads.

**Backtest.** `Tick` is one iteration of the loop of RunBacktest: the seeding when
the evaluation begins and the injection at a turn of the month (`Funded`,
`MonthBefore`), `Step`, and its order and its release applied one after the other (`Applied`);
`Measure` is the end, with the baseline and the score of Evaluate. `Step` is that
of `step.go` with `Macro`, `Micro` and `Release`, on integers: the thresholds, the
reserve, lots and fees are the code's formulas, with a division rounded down
where the code rounds to cents or not at all. Two things are not computed: the
value of the average, which may be anything the closes before it allow
(`MarketStates`: after an uninterrupted rise the close is above it and it
rises; a close with no lower one before it is not above it), and the share of the float
stack that the sigmoid sells, which is one of `SellPermille`. A bar is QUIET when the
range of the last `SigmaBars` is below `QuietPermille`; the bars have closes only, and
their highs and lows, which enclose the closes, may widen the range, so that `Quiet`
allows the state without forcing it.

## 3. The runs

Every run takes at most about two minutes with two workers.

| Run | Question | Bounds, and why they are enough |
|---|---|---|
| `tick_faults` | Does any crash, failed statement or failed markError, at any point, buy a tier twice, or bring a stopped instance back? | One instance (instances share nothing in this module but the scan); two bars with the month turning between the decisions; three Step calls, so one bar is decided twice; all faults; reports that save rows with a stale bar. |
| `tick_live` | With no fault, is a bar decided once, in order, no order lost, the last bar decided in time, and do ticks end when the instance stops? | Two instances, so that one's ticks hold up the other's scan; two bars in one month; new instances without a row. `BarProcessed` asks for the last completed bar while the instance runs, unless the next one completes first: a tick fetches the last bar only, so a bar it did not get to is skipped for good. |
| `pipeline_live` | Over a connection that holds, is each command sent settled, a bar repeated for a fill report only, the ledger the sum of the trades, and each step one of `TickManager`? | Two bars, two Step calls, one instance with one unit of float and no money, so that it can sell the same unit twice before the first sale is reported, or decide one bar twice after a report; nothing is released, so that the handler is the only writer of the lots; balances that may be unreadable. |
| `pipeline_faults` | With broken connections, refused orders, lost answers, partial fills, exhausted polls, rollbacks and crashes: is every order on record, no trade more than its fill, and no BTC booked that was not bought? | Two bars, so that the second decision may release the dead stack while the report of the first one's purchase is under way: the stale save of either is in this run, and a fill is lost in it. Purchases of two units, so that a fill may be partial; every fault of the agent but unreadable balances. One connection, which may break; the tiers in their order; and the instance is started once and stays so (`tick_faults` and `tick_live` have users). |
| `hub` | Does the registry hold only connections that are served, and lose those that break? | Three connections, so that a handler's delete and a sender's evict both race a third; one sender, whose write may also time out on an open connection; one unread command. The run may end: connections are bounded, so deadlock is not checked. |
| `evolution` | One epoch at a time, a gene for each task done, a role that only a champion loses, a service that gets free, and a promotion that reaches the ticks? | Two tasks, so that there is a champion to retire and a challenger; two promote requests that overlap, on one gene or on two, so that a retired gene is promoted again; one reader; all faults, the failing reads of the cache among them. |
| `backtest` | Is the reserve kept, the stop-loss final, no value made, the score a fair comparison, and each decision one of `Decisions`? | Nine paths of eleven bars over three months (crash below what was bought, rise that releases, zigzag, flat stretches, steady fall, near-total loss), four windows of which two have a warmup, three spawn points (rich, nearly all in reserve, no reserve and no injection); bars of 1 to 3 days so that days and bars differ. All of tiers 1 to 3, sales, releases before and after the stop-loss, skipped small orders and fatal and positive scores occur. The moves are larger than a market's, and the threshold of QUIET with them. The run ends with the last bar, so deadlock is not checked. |
| `search` | Is the best gene kept, its record true, the early stop earned, and does the epoch end, cancelled or not? | Three individuals (an elite, a copy, a child), two workers, five genes of which two share a fingerprint (and so a score, see `TwinsAlike` in section 4), one gains less than `MinDelta` and one is fatal in its second window; five generations, so that an improvement in the first child population starts the patience of two again and the search still stops early after it; two steps to one maximum of the mutation and one to the other; cancellation and both faults at any step. An epoch ends, so deadlock is not checked. |
| `report_rewinds` | Is a bar decided at most once? | Violated: see the findings. |
| `reconnect` | Is a connection that is served registered? | Violated. |
| `warmup_latch` | Does the warmup only warm the indicators? | Violated; the bounds of `backtest`. |
| `promotions` | Has a strategy one champion? | Violated by two requests that overlap, without a fault. |

`MaxBar`, `MaxSteps`, `MaxRelease`, `MaxConn`, `MaxAgents`, `MaxQueue`,
`MaxTasks`, `BuySize`, `PopSize` and `MaxGenerations` are the bounds; the set of
sessions bounds the reconnects, and the number of bars the backtest. In the
pipeline's runs there is one instance: two would double the ticks but share only
the balance, and `tick_live` has two.

`OnlyStarts` and `TiersInOrder` of `MCTradingPipeline` are bounds too, constraints on
what `pipeline_faults` explores, which its module states.

Faults of database statements inside a tick (`db`, `mark`, `fetch`) are
exercised in `tick_faults`, where the rest of the system is the abstract
`ReportCommits`; the pipeline's runs keep them out and use its crash. An order
refused by the exchange, for want of money or for another reason, has its effect, a
report without an execution, in `pipeline_faults`; in `pipeline_live` every order is
affordable. More than one connection is explored in `hub`; that a report, a command or
an order survives or repeats over several is a matter of the theorems, which have any
number of sessions.

### Fairness, and why the code justifies it

* `Scan`: the scheduler's ticker fires every minute for as long as it runs; a
  tick in progress cannot hold it up for ever, since each has a context of 50 s.
* The steps of a tick, a handler, an epoch, a job: goroutines are not starved,
  and every call they make returns (context, HTTP timeout, write deadline).
* `Connect`, `EndSession` on a connection that is no longer open, `HandlerExits`: the agent reconnects
  with a backoff that is bounded; keepalive ends a read on a dead connection.
* `Fill`: the market fills what it can; this is the assumption that orders "go
  through" in `SentSettles`, and it is external.
* `Expire` is strongly fair: a key set in Redis with a TTL expires or is deleted,
  however often it is set again. Nothing else is.
* The steps of an epoch and of its workers in `GeneticSearch`: goroutines are not
  starved, a backtest over finitely many bars ends, and a statement returns.
* Nothing is assumed of users, of cancellation, of `NewBar`, or of any fault.

The liveness runs (`tick_live`, `pipeline_live`) have no crash: a process that
is dead makes no progress. `SentSettles` says what holds without faults of the
connection; with them, it does not hold, since no execution is ever sent again
(section 5). `StoppedGoesQuiet`, `ServiceFreed`, `PromotionTakesEffect`, `BrokenLeaves` and
`Terminates` keep the faults of their runs.

Each property of a passing run has a mutant, an operator in the module placed
before the definition it mutates, that the property catches: a dropped guard
(`ScanWithoutWait`, `StopAny`, `LoadAgain`), a lost write (`DecideOnly`,
`DispatchUnrecorded`), a missing clamp (`MinusBelowZero`) and so on.

## 4. What is proved

The invariants and action properties that the passing runs check are theorems of
their modules' specifications, for every value of the constants, and so are the three
refinements; the exceptions are listed below under "Only model-checked". A module's
`ASSUME` says what is asked of the constants: calendars whose months do not run
backwards, lots and prices that are positive, rows with amounts that are not negative.
Where a theorem needs more it says so as a hypothesis, and there are four such,
besides sets that are finite where they are counted. No statement fails and no
process dies (`NoLostWrites`); nothing is released (`NoRelease`); saves find the lots
they read (`FreshSaves`), which is the hypothesis of a theorem that says what goes
wrong only without it; and genes of one fingerprint have one score (`TwinsAlike`),
which the code does not ensure: the fingerprint rounds each gene to 1e-6
(sigmoid_dca_evolvable.go:101), while the backtest takes it as it is, so that two
genes that differ by less share whichever score is cached first.

### The instance manager (`TickManagerProofs`)

For every set of instances, every calendar in which months do not run backwards
(`MonthAssumption`), every bound and every choice of what reports may save
(`TickAssumption`), and all faults unless a hypothesis is named:

* `TypeCorrect`: `Spec => []TypeOK`.
* `OneTick`: `[]OneTickPerInstance`. Inductive with the types: a scan adds ticks
  only when there are none, and one per instance.
* `OncePerMonth`: `[]TierOncePerMonth`.
* `Transitions`: `StatusTransitions`, step by step.
* `TickSettledOnce`: `[]FilledIffTraded`. Needs `CommandInv`: the number `at` of a
  command on record is at most that of the instance's Step calls so far, and less
  while the tick has still to insert its own, so that ids never repeat.
* `MarkedTierIsOrdered`: `[]TierHasOrder`, if no statement fails and the process
  is not killed (`NoLostWrites`). Needs `MarkInv`: each tier marked in a runtime
  row is on record, or on its way in the one tick of the instance.
* `RepeatsAreReported`: `[]RepeatedByReports`, under `NoLostWrites`, whatever rows the
  reports save. The run `report_rewinds` shows that a bar may be decided again after
  a report; this says that nothing else brings one back, and that each report does so
  once at most. Needs `RepeatInv`, which weighs the decisions that repeat a bar, and
  one more where the row would now let a repeat through (`Debt`), against the
  reports: a report may incur the debt, which the next decision pays.

`TierOncePerMonth` is not inductive: nothing in it keeps a tick from holding an
old runtime row and buying a tier again. The strengthening is

    IInv == TypeOK /\ OneTickPerInstance /\ TierInv /\ TierOncePerMonth
    TierInv == MonthNotAhead /\ BuysAreMarked /\ \A t \in ticks : SoundTick(t)

`BuysAreMarked`: a BUY on record is of a month before the runtime row's, or its
tier is marked there. `SoundTick`: a tick about to decide holds the runtime row
as it is (here the one-tick invariant is needed: no other tick can have written
it), and an order not yet inserted is marked but not on record, so that the
INSERT cannot be the second. The month reset that empties the marks is harmless
because months do not run backwards and a tick's bar is not ahead of the clock
(`MonthNotAhead` and the second part of `SoundTick`). The argument rests on the order
of the writes, runtime (manager.go:247) before execution (:430), and not on the
dedup guard: it holds although a bar may be decided twice. There is one lemma per
action, and the QED steps combine them.

### The composed system (`TradingPipelineProofs`)

For finitely many instances, any sessions, sizes and bounds, and all faults:

* `PipelineImplementsManager`: every step of the whole is one of `TickManager` or
  leaves it alone; what the agent, the exchange and the handlers do reaches the
  ticks as a `ReportCommits`. The instance `M` that TLC checks bounds the amounts
  of a report by `Units`, a bound of TLC's only: the theorem about it has the
  hypothesis `Units = Nat`. The proofs use a second instance, `P`, without the bound.
* `PipelineTierOnce`: with that refinement, `OncePerMonth` of the manager holds in
  the whole system.
* `PipelineTypeCorrect`, `PipelineSettledOnce`, `OrdersRecorded`,
  `TradesWithinFills`: `TypeOK`, `FilledIffTraded`, `OrderRecorded`, `TradeWithinFill`.
* `LedgerIsCovered`: `LedgerWithinPurchases`.
* `PipelineRepeatsAreReported`: `BarRepeatedByReport`, which is `RepeatsAreReported`
  carried over, for the reports that the agent really sends, over any connections.
* `FillsLostByStaleSaves`: in any behaviour in which each release and each report that
  commits finds the lots it read (`[][FreshSaves]_vars`), all that an instance began
  with and bought is in its row or was sold. There are several writers of the lots, any
  connections, crashes and faults in it; that a fill is lost, as it is in
  `pipeline_faults`, is thus the work of a stale whole-row save and of nothing else.
* `SalesWithinOpening`: without releases no order sells more than the float stack its
  instance began with, whatever stale rows are saved.

The simulation needs an invariant of the parts that `TickManager` does not have:

    PipelineInv == P!SettleInv /\ P!LastNotAhead /\ ConnInv /\ UpInv /\ ExchangeInv
                     /\ (\A j \in jobs : SoundJob(j)) /\ (\A x \in txs : SoundTx(x))
                     /\ TradeWithinFill

A command in flight, in a job, in a report or at the exchange is always that of a
row in the database (the row is inserted before it is sent, manager.go:430 before
:435, and never deleted), and a report never says more than what the exchange has
filled of its order (`Backed`; fills only grow). `P!LastNotAhead` is there because a
report saves `last_processed_bar_time` as it read it, so that what it saves is a bar
that has closed.

For the ledger, `LedgerInv` bounds every copy of a row, in the table and as a tick
or a transaction read it: none has more BTC than its instance began with and its
trades have bought. A whole-row save of an old copy therefore keeps the bound,
whoever saves it. That summing the bound over the instances gives at most what
the exchange has executed is arithmetic of sums over finite sets: trades are of
distinct orders, and each is within its fill. `FillsKept` is the bound from below: a
step of the ledger is a save of a release, which moves lots within the row it read,
or a settlement, which adds a trade and what it bought to the row it read; with
`FreshSaves` that is the row as it is. It is an inequality, since a sale of more than
the row has left stops at zero.

`FloatInv`, for `SalesWithinOpening`, bounds the sizes of sales: every copy of a float
stack, in the table and as a tick or a transaction holds it, and every sale decided
from one, is at most what the instance opened with. A stale save brings an old stack
back, which is within the same bound.

### Reports, registry, evolution service

* `DeltaReportProofs!SettledOnce`: `[]FilledIffTraded`, inductive as it stands: a
  commit takes an execution that is still pending, so one without a trade. The
  environment of this specification repeats and reorders reports over any
  connection, which the agent of the pipeline does not.
* `HubProofs!Served`: `[]RegisteredIsServed`, together with `HubTypeCorrect`. The
  strengthening adds `Dialled`, that a handler belongs to a connection that was
  dialled; the type invariant's clause that a handler never evicts its own
  connection needs `RegisteredIsServed` in turn.
* `EvolutionProofs!EvolutionTypeCorrect`, `OneEpoch` and `DoneLeavesGene`:
  `EpochIsActive` is inductive with the types of the epochs; `DoneHasGene` needs
  `SuccessHasGene`, that an epoch about to record success has written its gene.
* `EvolutionProofs!ChampionsRetire`: `OnlyChampionsRetire`, for any number of requests
  that overlap. `RoleInv` follows the rows: what a transaction has locked in its first
  UPDATE is a champion and stays one until that transaction ends, for no two have
  locked one row, and a gene is written once, by the epoch of its task.
* `EvolutionProofs!ChampionsBounded`: `ChampionPerPromoter`, for any finite number of
  requests, overlapping in any way. `ChampionPerPromoter` counts, and a count is not
  inductive: `OwnerInv` says that the champions can be given to the requests that
  promoted them last, no two to one request, such that what a request owns its
  snapshot has seen and its first UPDATE has locked (`SeesItsOwn`). So its `Promote`
  retires what it owned and owns its new gene; a rollback leaves it what it had; and
  a gene promoted twice passes to the later request. That there is such a map is
  stated with an existential, not as a variable of the model, since the code keeps
  no owner; the map is an injection, which bounds the cardinality.

### The search (`GeneticSearchProofs`)

For all genes, windows, weights, fitness values and sizes, any number of workers,
and cancellation and faults at any step: `SearchTypeCorrect`; `BestIsKept`,
`RowIsTrue` and `StopIsEarned`, which assume `TwinsAlike`; `EpochIsSearch`, that every
step is one of `Evolution` or a stutter; and, for finitely many workers, `EpochRunsDown`.

    SearchInv == TypeOK /\ ShapeInv /\ LoopInv /\ StuckInv /\ TopInv /\ ScoreInv /\ RowInv

`ScoreInv` is the heart: while the context is not done, each score in the cache,
in `scores` and at the head of the population is what its gene is worth, though
two workers may evaluate one fingerprint at once. `StuckInv` ties `bestEver` and
`patience` to the history of the bests, whose monotonicity makes the early stop
earned. `RowInv` needs that an evaluation that nothing cut short has all its
windows.

`EpochRunsDown` (`StepsRunOut`) is what of `Terminates` is safety: `StepsLeft`, a natural
number by the invariant, falls with every step but the cancellation, which happens
once. It counts three steps for each job in the channel, what is left of those the
workers hold (their number in each phase, so that it does not matter which of them
moves or whether it hits the cache), the way out of the generation, and the
generations to come. What TLC has to add is only that a step is always possible.

### The backtest (`BacktestProofs`)

For all bars, closes, windows, spawn points and chromosomes within the ranges of
`BacktestAssumption`:

* `BacktestTypeCorrect` and `ReserveIsKept`, from `BacktestInv`, which adds that an
  evaluation that has begun is on a bar of its window. No balance or stack is ever
  negative; the arithmetic is in lemmas about rounding (`Quotient`, `Share`, `Snap`,
  `Affordable`) and one per kind of order (`BoughtWell`, `SoldWell`, `ReleasedWell`).
* `NobodyRicher`: `NothingFromNothing`; what an order, its fee and its rounding do
  to the worth of the account at the close.
* `StopIsFinal`: `StopLossIsFinal`. What the stop-loss leaves is nothing that an order
  could sell (`Sellable`), which is less than one might ask: the smallest lot need not
  be a multiple of the step, so the stack need not be empty.
* `DecisionsAreImplemented`: `ImplementsDecisions`. Each decision computed from
  balances, prices and thresholds is one of `Decisions`; with `PipelineTierOnce` this
  carries the result about tiers down to the rules of the engines.
* `DrawdownIsWorst`: `DrawdownIsWorstPair`. `FoundWorst` is the loop's invariant: the
  value so far is the fall of some pair of bars seen, and none of them falls deeper;
  a later trough is deepest from the highest peak before it (`FallsFurther`).
* `MoneyIsTheSame`: `SameMoney`. `EvalInv` relates two loops that run at different
  times: the one over the bars, which carries months through warmup and evaluation,
  and the baseline's over the bars of the evaluation, a fold that is computed in the
  last step. After bar `b` the first has the flows and the month that the second has
  after its step `b - First`. That a positive score means a richer strategy is then
  that the return is monotone in the equity for the same flows (`RicherReturns`), for
  every injection is dated within the evaluation, so that its weight is not negative.

### Data (`FoldsAndExtrema`)

`Max`, `Min`, `MapThenFoldSet` and `FoldLeft` of the community modules are
choices: nothing is known of `Max(S)` before some element of `S` is shown to be the
greatest, nor of a fold before the function it chooses is shown to exist. This
module has the facts: a finite set of integers has a greatest element, folds exist,
are unique and have their type (`FoldsExist`, `FoldsAreUnique`, `FoldsAreTyped`),
sums do not depend on the order, and add over disjoint sets, classes and injections
(`SumOfDisjoint`, `SumOfClasses`, `SumOfInto`), a fold over a sequence runs one step
per element (`FoldRuns`). Where this needs induction, the proof takes the least
counterexample of a set of naturals, or a smallest subset (`LeastNatural`,
`SmallestSubset`, `StepByStep`): the induction theorems of the library have a
predicate as parameter, which the provers cannot instantiate, and a set can play
its part.

### Only model-checked

* Liveness: `BarProcessed`, `StoppedGoesQuiet`, `SentSettles`, `BrokenLeaves`,
  `ServiceFreed`, `PromotionTakesEffect`, `Terminates`. Fairness and ENABLED are out
  of the prover's reach.
* `BarOnce`, a safety property without faults and reports, of which `RepeatsAreReported`
  is the general form: no fill report, no repeat.
* `LedgerFollowsTrades`, over one connection and without releases. It is false with two
  connections or with a release, and what the theorems have of it is
  `LedgerIsCovered` and `FillsLostByStaleSaves`.
* The four violations of section 5, which TLC's counterexamples show.

## 5. Findings

With a run that shows the violation:

1. `report_rewinds`: the delta report's whole-row save (portfolio.go:103) writes
   back the `last_processed_bar_time` it read, and may rewind the one the tick
   advanced in between; the bar is then decided again, which
   系統架構設計.md:178 rules out. `OncePerMonth` says why this does not buy a
   DCA tier twice; a micro SELL may well be repeated.
2. `reconnect`: the deferred `conns.Delete(userID)` (hub.go:131) removes the connection
   that replaced its own; the agent is served but cannot be sent commands until
   it reconnects.
3. `warmup_latch`: in the warmup the account is worth nothing against an initial
   NAV of the whole capital, so that its ROI is -100 %: the first BULL bar strikes
   the stop-loss (micro_engine.go:43-44), and the runtime goes on into the
   evaluation (adapter.go:113). The windows of 6 months, 2 and 5 years are thus
   scored with the micro engine switched off, and only the full window, which has
   no warmup, tells one sigmoid sensitivity from another. adapter.go:35-36 and
   進化計算引擎.md:36 have the warmup for the indicators alone.
4. `promotions`: of two promotions at once each retires the champions that its first
   UPDATE sees (handler_evolution.go:132-134), and neither sees the other's gene: two
   champions, of which the one created last runs, although
   handler_evolution.go:108 and 進化計算引擎.md:190 have one. `ChampionPerPromoter`,
   proved, is what is left: as many as requests at most; the next promotion alone
   retires them all.

Met while modelling, without a run of their own:

* handleRelease (manager.go:383-393) saves the row it read, and so does the report
  (portfolio.go:79, :103): a fill that commits between the read and the save of the
  other is overwritten, and the ledger of models.go:44 no longer accounts for the BTC
  bought. `LedgerWithinPurchases` is what is left, and `FillsLostByStaleSaves` says
  that nothing else loses a fill.
* The hub writes `success` within the payload of auth_result (hub.go:136, :207-215);
  the agent reads it beside the type (client.go:278-281) and takes every auth_result
  for a rejection, so that no agent gets in, although 系統架構設計.md:114 has the
  connection up after it. `Hub` models both ends as they are.
* The role is checked when the challenger is looked up (handler_evolution.go:120) and
  not when it is promoted by its primary key (:137). Two requests for one challenger,
  and a promotion of another between their transactions, make a retired gene
  champion again, which models.go:108 and 進化計算引擎.md:191 rule out.
  `OnlyChampionsRetire` allows this one step; of the lifecycle of models.go:108 it is
  what holds.
* A release has no re-arm: it is repeated on every bar that is not QUIET while the
  ROI is above the trigger (lot.go:33), although lot.go:17 has "ROI must drop and
  rise again above trigger for another release".
* MonthHigh, "highest close seen in current natural month" (data.go:30), is only
  updated and reset on BEAR bars, since the macro engine runs on no others
  (step.go:66): a month that begins in BULL has its high from its first BEAR bar.
* The stop-loss is checked on BULL bars only (step.go:75), so a fall through BEAR
  bars never strikes it; the ROI it and the release use counts injections as
  profit.
* The search stops early in the generation in which the ramps reach their maximum
  (engine.go:149), before it has bred with it, although 進化計算引擎.md:105 has it
  stop only when there is no improvement after that; the ramps are not reset by an
  improvement, and generation 0 counts against itself. `EarlyStopIsEarned` is what
  holds.
* Index 0 of the first population is the stored gene with the best score, champion
  or challenger (engine.go:272), not the champion that engine.go:268 names, and is
  there twice: the elite copies begin with it again. Its old score is not compared:
  the cache and bestEver begin with this epoch's.
* The fingerprint cache lives for one generation (engine.go:334), not for the epoch
  as 進化計算引擎.md:111 says: elites are backtested again each time.
* The progress of an epoch goes into the task's row (service.go:140-144); the task
  in memory, which ListTasks answers with (handler_evolution.go:95-96), stays at
  generation 0, although 進化計算引擎.md:239 shows `current_generation` advance.
* A population in which every gene is fatal still yields a challenger with a score
  of -99999.
* The backtest buys fewer lots for the fee, and leaves the fee in the account
  (adapter.go:162-166); only sales pay it. `NothingFromNothing` holds all the same.
* An execution created while the agent is offline stays pending for ever:
  manager.go:436 only logs, and nothing reads pending executions, although
  系統架構設計.md:190 has it wait for the next tick to be retried.
* A trade may fall short of its order. `waitForFill` returns at the first partial fill
  (bitget.go:178), and after six polls gives up with a quantity of zero and no error
  (:150); the hub then settles the execution with the part, or with a trade of zero,
  and what fills later is never booked, although models.go:76 has "actual executed
  quantity". Both happen in `pipeline_faults`; `TradeWithinFill` is what holds.
* The hub acknowledges a report whose transaction was rolled back (hub.go:176),
  although 系統架構設計.md:127 has the acknowledgement follow the processing.
* The connection is registered before auth_result is written (hub.go:122): a
  command in between is the agent's first message and ends its session.
* A champion request may fill the cache with the champion before
  (handler_evolution.go:192) after a promotion has invalidated it; ticks use it
  until the key expires. `PromotionTakesEffect` says that this ends.
* Two ticks may each sell the same float before the first sale is reported;
  maxZero keeps the ledger at zero (`LedgerFollowsTrades`).
* A graceful shutdown (main.go:88-101) waits for no tick in flight: for the
  models it is the crash.

## 6. Not modelled

* Authentication, login, configuration: they verify or read, and change no state
  that others see. `Hub` has the verdict of the token.
* Floating point: `Backtest` has integers, so the rounding to cents, NaN and the
  drift of sums are not in it; nor are the values of the average and of the
  sigmoid, of which it has the bounds.
* The random draws: sampling, tournament, crossover and mutation may yield any gene.
* Heartbeats, the audit log, REST queries: they change no state the properties see.
* Clock and networks are untimed: a timeout is a step that may come any time.

## 7. Plan

Written in this order: `SaasStore`, `TickManager` and its proofs (the most
important behaviour: what may be bought), `DeltaReport`, `LocalAgent`,
`TradingPipeline`, `Evolution`, `Hub`, the proofs about `DeltaReport`, `Hub` and
`Evolution`; then `Decisions`, taken out of `TickManager`, `Backtest` and
`GeneticSearch`; then the proofs about these two and about `TradingPipeline`, with
`FoldsAndExtrema`; then those about repeated bars, fills that are lost, overlapping
promotions and the steps of an epoch. What is left:

1. Of liveness, as far as it is safety: measures like `StepsLeft` for a tick, a
   connection's handler and a job of the agent; each goes through its program
   counters once, so they are short.
2. A property that a trade has the whole fill of its order, once a partial fill is
   polled again (bitget.go:178) and an exhausted poll is not a fill (:150), and
   `LedgerFollowsTrades` with releases and over any connections, once neither
   handleRelease nor the report saves a row it read without a lock: until then both
   are false.
3. Shorter proofs: the lemmas about the copies of a row in `LedgerInv` and `FloatInv`
   have the same cases.
