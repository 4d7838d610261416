# A TLA+ verification of the portfolio manager

The repository runs a portfolio: a scheduled cycle replays or extends a
backtest over recorded data, agents turn news and filings into bounded tilts, an
optimizer proposes target weights, a risk engine repairs or vetoes them, a
mandate carries them to an executor, and the result is persisted for a
dashboard.  These modules model that path from the vendors' documents to the
broker and the table.  TLC checks them on small instances; TLAPS proves the
safety properties of the executors, the risk engine, the backtest, the store, the
recording, the agents with their providers and the measures of a track record for
every value of the constants.

`PROJECT.json` lists components, runs, findings, hazards and theorems, and maps
every definition to the lines it stands for.

## 1. Inventory

| Component (`src/`) | State | Operations | Made correct by |
|---|---|---|---|
| `decision/mandate.py`, `execution/base.py` | none (values) | `build_mandate`, `mandate_id`, `size_orders` | identity by content; exits are targets of zero; rounding never above the target; what is not traded is named |
| `execution/naive.py` + paper broker | `submitted` in memory; positions, working orders and seen client ids at the broker | `execute`, `account_from_broker` | a replay never doubles a position |
| `execution/simulated.py`, `fill_models.py` | `cash`, `positions` local to one execution | `execute` | no leverage, no shorts, no money made or lost, nothing stranded |
| `risk/engine.py`, `ips.py` | none; the book it is shown is the caller's | `verify`, `evaluate` | later repairs do not undo earlier ones; a compliant book is not stuck; the breaker |
| `api/handler.py`, `store.py`, `routes.py` | one DynamoDB table: `CYCLE#`, `SNAPSHOT#latest`, `RESEARCH#`, `AUDIT#` | `run_cycle`, `app_from_environment`, cached routes | idempotence under at-least-once delivery; no half-written dashboard that lasts |
| `backtest/engine.py`, `walkforward.py` | account, price history, peak equity, rebalance counter | `run_backtest`, `_rebalance`, `rolling_windows` | decisions use what is known, on schedule, on aligned rows; the breaker sees what the report will |
| `data/pit.py`, `fred.py`, `edgar.py` | vintages | `as_of`, `latest_for_period`, `year_over_year_change`, `get_fundamentals` | nothing later than the decision, nothing that was known left out |
| `data/cache.py`, `live.py`, `scripts/backfill.py` | cache files and their temporary names, the manifest | `get_json`, `put`, `write_manifest`, `resolve_setup` | a recording is whole and stands; a manifest can be followed |
| `agents/*` | audit events, opinions of the cycle | `run` of the pipeline and each agent, `aggregate` | one failing agent is a neutral opinion of its own; tilts are bounded; citations are grounded |
| `llm/*` | token bucket, response cache | `complete`, `take`, `generate` | degrade, never block; keep the budget; an answer is given to its own question |
| `decision/optimizer.py`, `cfa/portfolio.py` | none | `estimate_inputs`, `optimize`, the frontier | what is picked is permitted, and nothing permitted beats it |
| `cfa/returns.py`, `alternatives.py`, `derivatives.py`, `fixed_income.py`, `backtest/metrics.py` | none; the fund's high-water mark is the caller's | formulas | different measures of one record agree; fees are earned once; equal payoffs cost the same |
| `api/ws.py` | bounded queues | `subscribe`, `publish` | a slow dashboard loses only its own messages |
| `audit/log.py` | list of events | `record` | append-only |
| `time/clock.py` | simulated instant | `advance_to` | never goes back |

Interaction: `run_backtest` calls views → optimizer → `evaluate` →
`build_mandate` → `execute_to_completion`, in one thread, and rebuilds its
account from the report.  The views come from the agents, which ask a stack of
LLM providers, and read series that a backfill recorded earlier, in another
process.  `run_cycle` wraps the backtest in a process of its own and writes the
table item by item; API processes read the table and, when it is empty, write
it too.  The naive executor talks HTTP to a broker that answers, fails or stays
silent.  The hard behaviours are therefore: lost and late broker answers and
replays (naive executor); the order of buys and sales under costs (simulated
executor); processes that overlap or die between puts (store) or between system
calls (recording); repairs, caps and drift that act on each other over several
cycles (risk); events of one stamp, late starters and missing bars (backtest);
releases and revisions between a recording and a decision (point in time); and
providers that refuse, time out or answer nonsense in mid-cycle (agents).

## 2. Modules

| Module | Models | Code |
|---|---|---|
| `Sizing` | mandates and share counts, as operators | `mandate.py`, `size_orders` |
| `NaiveExecution` | executor, broker and caller | `naive.py` |
| `OrderLedger` | abstract: the book moves once per mandate and symbol | `naive.py:10-12` |
| `SimulatedExecution` | executor and the loop around it | `simulated.py`, `fill_models.py`, `backtest/engine.py` |
| `RiskEngine` | `evaluate`, and cycles under a moving market | `risk/engine.py` |
| `CycleStore` | cycle, table, API, schedule | `handler.py`, `store.py`, `routes.py` |
| `BacktestLoop` | the event loop under the folds of a walk-forward | `backtest/engine.py`, `walkforward.py` |
| `PointInTime` | vintages and what a decision day sees of them | `pit.py`, `fred.py`, `edgar.py` |
| `RecordedData` | recorders, files, manifest and replay | `cache.py`, `live.py`, `backfill.py` |
| `Schemas` | the response schemas, the values of neutral answers | `agents/schemas.py` |
| `SchemaGuard` | what is read off a schema: the guard, neutral answers | `schema_guard.py`, `null.py` |
| `TokenBucket` | the limiter over a clock that steps back | `llm/base.py` |
| `LlmProviders` | one completion through a stack of providers | `llm/base.py`, `cache.py`, `__init__.py`, vendors |
| `ViewMapping` | opinions to tilts | `aggregator.py`, `config/view_mapping.yaml` |
| `AgentViews` | the pipeline of agents over `LlmProviders` | `agents/*` |
| `Rational` | exact fractions | `Decimal` and `float64` in `cfa/*` |
| `Returns`, `Portfolio`, `Derivatives`, `FixedIncome` | formulas | `cfa/*`, `metrics.py`, `optimizer.py` |
| `TrackRecord` | a record that grows, and all that is told of it | the same, composed |
| `Arithmetic` | quotients, sums over sets and series, exact fractions, variances and discounts: lemmas only | |
| `*Proofs` | the theorems of eight of these modules | |
| `MC*` | instances for TLC | |

`RecordedData` extends `PointInTime`; `AgentViews` extends `LlmProviders`, which
extends `TokenBucket` and `Schemas`, and `ViewMapping`; `TrackRecord`
extends the modules of formulas.  `LlmProviders` takes what is read off a schema
(`GuardPasses`, `ModelsWithin`, `NeutralAnswer`) as operator constants, because
the walks of `SchemaGuard` are recursive and the provers cannot follow them;
`MCAgentViews` gives it those of `SchemaGuard`.  Each module of proofs extends the
module it is about; those that calculate extend `Arithmetic`.  `AccountProofs`
is about two: the account of `SimulatedExecution` and the record such an account
leaves, `TrackRecord`.

Common abstractions: a symbol is its rank in the alphabetical order the code
sorts by; weights are integers out of `WeightUnit`; money, prices and share
counts are integers; a price of 0 stands for no usable price.  An operator
whose comment starts with `Mutant:` is not part of the model: it is a bug the
property it is paired with must detect (`PROJECT.json`, `mutants`).

**NaiveExecution.**  `StartExecute` is the first step of the generator
(`size_orders` against the account it was given), then one action per outcome
of the order in line: `Suppress` (its id is in `submitted`),
`SubmitAcknowledged` (accepted, some shares traded at once, answer with or
without a fill count), `SubmitAmbiguous` (no answer: `BrokerError`, the request
goes on flying), `SubmitRefused` (error answer), and `Report`.  `Land` and
`TradeWorking` are the broker's own steps, external.  The caller decides (`Decide`),
replays with the old account or a new one (`ReadAccount`), or the process
restarts (`Restart`).  Value and prices of each attempt are free.  Left out:
cash and fill prices (see SimulatedExecution), and exceptions other than
`BrokerError`, which abandon the attempt.

**SimulatedExecution.**  `Rebalance` builds and sizes the mandate at the
closes; `FillOrder`/`RejectForCash` work the order in line against the local
cash; `Adopt` makes the report the account; `NewSession` brings other closes
and another approved book.  Spread and commission are exact integers.

**RiskEngine.**  `Cycle` is `evaluate` with its repairs in the order of the
code — breaker, universe, wash sale, shorts, position cap, sector cap, one
uniform scale — then corridor, turnover blend and `verify`.  The covariance has
one factor so that its root is exact; quotients round down and `Tolerance`
absorbs it, where the code has decimals of 28 digits and 1e-12.  The blend that
caps the turnover mixes two books of which one may have a negative beta: rounding
down then raises the beta by less than `BetaGain`, which is why `Inside`, the
hypothesis of `RejectedForCause`, asks for that much room, and why
`TurnoverHonoured` allows the tolerance.  `MarketMove` and `ContextChange` are
what happens between cycles.

**CycleStore.**  Each put of a run (`PutCycle`, `PutSnapshot`, one
`PutResearch` per page, one `AppendAudit` per event) and of a bootstrap request
is a step; `Timeout` kills a run between any two of them and has its event
delivered again, `Duplicate` delivers one twice.  What a run computes (a mandate
or none, how many events its agents record) is chosen at `Start`.  A read
returns the latest put: the table's eventually consistent reads would only show
an older item.

**BacktestLoop.**  `StartFold` opens the stream of the next window; `Skip` and
`Receive` take one event (a bar or not); a new stamp flushes the pending one,
and `Finish` flushes the last: the book is marked, the peak raised, the session
counted and, when the clock of `_rebalance` says so, a decision made.  What a
decision does to the book is free within what the executor may report; the
equity of the account is a whole number of the bars' prices.  The pending bars are
applied, and the drawdown computed, by folds over sequences (`WithBar`, `Deeper`) as
the code loops over them.  A decision
records what it had seen, its rows of observations and the drawdown shown to
the breaker, which the properties compare with definitions that read the
recorded events alone.

**PointInTime, RecordedData.**  The vendors publish, revise or blank a figure
each day (`Tick`); `site` remembers what their page showed on each day.  A
recorder works through its requests page by page: `Get` (hit, miss, refused),
`Open`, `Write` and `Replace` are the system calls of `put`, `ManifestOpen` and
`ManifestWrite` those of the in-place `write_manifest`, and `Die` ends a process
between any two.  Two recorders of one key share the name of the temporary file;
files are inodes, so that a rename under a writer does what it does on disk.
`raced` is a history variable: the keys two recorders asked for at once.  All
documents without a date in their request stand in one `TheDocument`.  A replay is
of market data unless a page is missing or torn, or the window is one of `Thin`: those
without events, or with fewer than `minimum_symbols` that have a beta.

**Schemas, SchemaGuard, TokenBucket, LlmProviders.**  A completion is one record with a
state: a cache `Hit` or `Miss`, a `take` of the bucket, a vendor's answer,
refusal, nonsense or body of another shape, a second try, the next provider of a
chain, the neutral answer.  Stacks are every nesting `get_provider` and its
callers can build.  A release replaces the catalogue of schemas while the files
of the cache stay.

**ViewMapping, AgentViews.**  `Begin` a cycle, then `Ask` each agent in the order
of the code, or `Skip` one that has nothing to show; `Hear` applies the checks
of citations and figures; `Degrade` makes a failure a neutral opinion with an
audit event; `Abort` is the exception the pipeline does not catch; `Finish`
aggregates.  Prompts are abstracted to what they show and are asked for;
answers to a stance, a conviction, the list of links they cite and whether they echo
a figure.  What was heard from each agent and what ended the cycle (`heard`, `cause`)
are kept for the properties, which speak of every phase, aborted cycles included.

**Rational and the formulas.**  Numbers are exact fractions in lowest terms, reduced
by Euclid's algorithm and compared by their continued fractions, so that TLC's
integers last; both are recursive functions, which the provers can follow.  A
standard deviation is represented by its square, and a ratio to one by its square
with the sign kept.  A fund that has lost all its value stays as it is, where
`hedge_fund_fees` raises; what it has paid for management is summed (`managed`), so
that what an agreement earns can be stated whether or not its incentive fee is net
of it.  A power that is not whole has no exact fraction: `annualize` takes it from
the operator constant `Yearly`, of which the theorems assume only that it is a
number.  `time_value` answers `Undefined` where the code raises, for a premium below
what exercise is worth.  `TrackRecord` lets a stock and its market move period by
period, keeps a fund under each fee agreement, and evaluates every measure on the
record.  With two names the constrained problems the code hands to scipy have a
solution on a line, so the frontier and the optimizer's pick are exact; what they
are compared with are the permitted weights among `Offered`, any set of fractions.

## 3. Runs

| Run | Instance | Shows |
|---|---|---|
| `naive` | 2 symbols, 2 decisions, 1 restart, 1 request on its way; 158,268 states | no doubling, exact targets, backed fills and suppressions, and that the broker's book implements `OrderLedger` |
| `naive_rejection` | the same | **violated**: a rejection is not always "a trade that was not done" |
| `simulated` | 2 symbols, 4 markets (one with a missing price), 4 books (one all-in), 3 sessions; 16,414 states | the seven invariants and `TradesWhatItCan` |
| `cycle_store` | 1 event, 3 runs, 1 request, 1 duplicate, 1 timeout, 1 page; 397,689 states | idempotence, a recorded snapshot, complete pages, kept completions, every event decided |
| `cycle_retry` | the same | **violated**: two records of one decision without a mandate |
| `cycle_bootstrap` | the same | **violated**: a bootstrap overwrites a cycle's snapshot |
| `risk` | 4 symbols (1 outside the universe, 1 of negative beta), 2 sectors, 4 held books, 4 proposals, 2 changes; 29,836 states | repairs stand, compliant books move, turnover, breaker, convergence |
| `risk_breaker` | the same | **violated**: a book of cash gains risk past the drawdown limit |
| `backtest` | 2 symbols over 7 stamps, late start, one missing bar, an event that is no bar, 3 walk-forwards; 9,674 states | decisions know all of the past and nothing else, fall on schedule, on aligned rows; the breaker sees the reported drawdown |
| `recorded` | 2 recorders, 2 runs, 4 days, revised, blanked, skipped, daily and filed series, a thin window; 3,432,986 states | a replay sees what the vendor showed that day, by the order of the tags; year-over-year counts positions; manifests can be followed; recordings stand |
| `views` | 2 names, 5 stacks, 2 cycles, 2 decision days, 3 releases; 974,351 states | opinions are earned, the budget is kept, answers stand |
| `formulas` | 4 periods of 6 moves, two to a year, 5 fee agreements (one takes all there is, one charges on the gross), 8 bonds, 18 policies, weights by twelfths; 1,555 states | `ReportsAreTrue`, `NoFreeLunch` |

Why the bounds are enough.  *naive*: two symbols are needed for an attempt that
fails between two orders; a third decision, a second restart or a second request on
its way repeats what the first did, because keys never mix mandates
(`ReplaysNeverDouble` is proved for every value of these bounds).  *simulated*: a
buy in line before the sale that funds it needs two symbols; recovering from it
takes two rebalances in an unchanged session and sessions are counted only when
something changes.  *cycle_store*: three runs are the original, its redelivery after
a kill and its duplicate, all of which may overlap with a request; the proofs hold
for any number of each.  *risk*: two shocks make a book leave the policy and the
context turn while it is out; every limit binds for some proposal.  *backtest*: an
estimation window of two and an interval of two over seven stamps give three
decisions, folds that end on, before and after a session, and histories that start
late or miss a bar inside the window. *recorded*: two periods make a year, and four
days hold three periods, of which the one between may be left out or blank, and a
revision of the second; of two tags the preferred one is the older; one page is
enough to be refused, torn or raced for, the theorems cover any calendar and any
number.  *views*: two days make a headline appear and go stale, two cycles make a
cached answer be met again, three releases change a schema compatibly and
incompatibly; the bucket holds two, so that it runs dry.  *formulas*: four periods
contain a fall, a recovery to below, at and above the mark, and make less than a year,
a year, and up to two.

`CHECK_DEADLOCK FALSE` is set where the system stops: after the last session of
`simulated` a worthless account ends the loop; a store with all its events
decided is at rest; the stream of `backtest` ends; the days of `recorded`, the
cycles of `views` and the periods of `formulas` run out.

`recorded` permutes its recorders (`SYMMETRY`), which no action or property tells
apart.  Histories (`raced`, `ahead`, `spent`, `heard`, `seen`) are read by
properties only.

Fairness.  `SimulatedExecution!FairSpec` and `RiskEngine!FairSpec` have weak
fairness of the cycle: the loop is one thread that waits for nobody, and the
schedule or the next bar keeps calling it.  `NewSession`, `MarketMove` and
`ContextChange` are bounded and unfair, so liveness says what happens once they
stop.  `CycleStore!FairSpec` has weak fairness of each delivery (at least once)
and of each run's next step; kills, duplicates, and every step of a request
are unfair.  The other modules promise nothing that must happen: a backfill that
died is started again by a person, and a provider is asked by the next cycle.

## 4. Findings

1. `naive.py:224` reports every `BrokerError` as a `Rejection`, "a trade that
   was not done" (`base.py:99`), but after a timeout the order may be accepted
   or land later.  The positions and cash of that report are then wrong; the
   replay is still safe (`NoDoubling`).
2. `handler.py:145` keys a cycle without a mandate by the instant of the run,
   so a redelivery makes "two records of the same decision" (`store.py:123`).
3. `routes.py:607` puts the bootstrap snapshot without a second look: it may
   replace the newer snapshot of a cycle by one without a cycle id, against
   "when one exists" (`routes.py:591`).
4. `engine.py:426` has no volatility ceiling for a book without risk: past the
   drawdown limit a book of cash is moved into the minimum-variance portfolio,
   against "risk may never increase" (`tests/test_risk_properties.py:338`).

Also observed while modelling, and left without a run:

* `cache.py:195`: two backfills of one key share the temporary name, and the one
  that renames may publish what the other has just truncated.  The comment at
  `cache.py:193` is about an interrupted run, and for those it is right
  (`ManifestsCanBeFollowed`, `RecordingsStand`, proved).  A torn entry does not
  parse and fails every later request for it, so that a replay falls back to the
  synthetic setup.
* "Served from cache" holds for prices on the same day only, whose key names
  the dates; FRED and EDGAR documents are recorded once and never refreshed.
* A fold trades as soon as it has `estimation_window` sessions, which may be well
  before its `trade_start`: `run_walk_forward` passes `estimation_start` as the start
  of the backtest and nothing else of the window, although it says "each trading
  only its own out-of-sample span" (`walkforward.py:188`).  So folds trade inside the
  spans they estimate on, and one instant is traded by several; nothing is claimed of
  how the folds divide the time.
* `fred.py:216` takes the figure `periods_per_year` positions back, whatever its
  period: with a month that was never published, or is late, the "year-over-year
  rate of change" (`fred.py:206`) is over thirteen.  What holds is
  `YearOverYearCountsPositions`: each missing period lengthens the span by one.
* A symbol that misses a bar inside the window has its returns paired with those
  of other days (`engine.py:171`); `AlignedWithoutGaps` states the case without.
* The betas and the risk-free rate of a replay are those of the whole recording
  (`live.py:333`), and the agents of every historical cycle read signals and
  fundamentals at its end (`handler.py:61-80`).
* `edgar.py:241` takes the first tag with facts, however stale.
* The branch for `TROUGH` (`macro.py:116`) is never reached: `EXPANSION` takes all of
  its cases.
* `FailoverProvider` turns an answer that does not parse into a plain `LLMError`, so
  that within a chain it is not asked again (`base.py:54` speaks of two attempts).
* A vendor's body that cannot be indexed (a list or a null where an object is
  expected) raises `TypeError`, which `gemini.py:97` and `groq.py:88` do not name and
  no wrapper catches: one malformed response takes down the cycle (`Abort`), against
  `llm/cache.py:129-131` and `pipeline.py:10-11`.  `OpinionsAreEarned` has it among the
  two causes that end one.
* Behind `ResilientProvider` an outage is a neutral answer and leaves no
  `AGENT_UNAVAILABLE`; research records it as a missing citation.  A cache
  around the chain records it for good (`llm/cache.py:96`).
* The guard lets `Literal`, `Any` and abstract sequences through; the cache key
  ignores nested models and which fields are required.
* The budget counts time the clock moved forward: a clock that goes back and
  forth refills twice.
* With `incentive_net_of_management_fee=False` a fund may pay an incentive fee on a
  recovery, up to the share of what management has cost it: `FeesAreEarned` counts it.
* Frontier and optimizer: with one name, equal expected returns, a cap that leaves
  one portfolio, or a safest portfolio that is the best already, there is an
  `OptimizerError` and the cycle holds the book, although `optimizer.py:165-167` falls
  back to the safest one when nothing is expected to beat cash.
* Where regression is undefined, for a benchmark that stands still too,
  `metrics.py:178` leaves beta at zero and reports the whole excess return as alpha.

## 5. What is proved

For every number of symbols, runs, recorders, events and calls, every book, market
and value, and every value of the bounds (tlapm checks every leaf; no step is left
out):

* `NaiveExecutionProofs`: `TypeCorrect`, `ReplaysNeverDouble`, `TargetsAreExact`,
  `ClaimsAreBacked`, `FillsStandForOrders`, `ImplementsTheLedger`.  `NoDoubling` is
  not inductive: the invariant adds that the id of an accepted order is a
  function of its mandate and symbol and of nothing else, that what `submitted`
  holds is at the broker, that a request on its way carries an earlier or the
  present mandate, and, for `TargetsAreExact`, that until the first order of a
  settled mandate is accepted the exposure of its symbol is what the account it
  is sized from shows.  The ledger is implemented step by step: a first
  acceptance is `Commit`, all other steps stutter.
* `AccountProofs`, of `SimulatedExecution`: `DesiredWithinWeight` (a whole-share
  target never costs more than its weight of the value), `TypeCorrect`,
  `CashStaysPositive`, `BookStaysLong`, `DriftHasAReason`, `NothingStranded`,
  `TargetsAreCeilings`, `MoneyIsConserved`.  The invariant says of an execution
  under way that the mandate fits the approved book, that every size is the one
  computed from the account at the start, and that each symbol is either still at
  its start with its order to do, or rejected, or moved by exactly its size.
  `ValueConserved` is about a sum over the symbols of which a fill changes one term
  (`Arithmetic`).
* `RiskEngineProofs`: `TypeCorrect`, `NoRepairUndone`, `NeverStuckInside`,
  `TurnoverIsCapped`, `BreakerHolds`.  `NoRepairUndone` is about the target before it is
  blended toward the book held; what the blend keeps is `NeverStuckInside`.  The
  argument follows the repairs: each caps
  its own quantity and is monotone in every weight, so that the later ones, which
  only lower weights, keep what it established; the uniform scale is the
  tightest of its ratios and leaves every sum within its limit up to the
  rounding; the blend lies between two books that satisfy a limit, hence
  satisfies it.  The invariant adds that a book is paid for (`Gross(book) <=
  WeightUnit`), which `MIN_CASH_BUFFER` and the market's moves need.
* `BacktestLoopProofs`: `NoLookAhead`, `DecidesOnSchedule`, `RowsAreAligned`,
  `BreakerSeesTheReport`.  The invariant `Sound` relates the
  loop to the recording: the pending events are all those of the current stamp
  that the stream has yielded (`Gathered`); the histories hold the bars up to the
  last flush, each once and in order (`Knows`); a symbol that has printed has a
  price (`Priced`); every decision was made on histories long enough and on their
  last rows (`Decided`); the curve starts at the initial cash, and its peak is
  the peak of the loop and, cut at the session of a decision, of what that
  decision was shown (`Booked`); and the sessions with a full window so far are
  the decisions less one times the interval, and the sessions since the last
  (`Timed`).  `RowsAreAligned` compares the ends of two histories backwards from
  the last bar to the first that could differ.  `BreakerSeesTheReport` carries
  through `max_drawdown` that no decline so far exceeds the worst.
  The recursion of `rolling_windows` is shown to be the closed form `WindowsFrom`.
* `CycleStoreProofs`: `TypeCorrect`, `MandatesHaveOneRecord`, `SnapshotsAreRecorded`,
  `CompletionsAreKept`, `AloneLeavesAllPages`.  The invariant adds that a record
  of a mandate is at the key of the mandate (`Keyed`), that whoever is past its
  record has one (`Recorded`), that the completion of a run is in the row of its
  last event (`Completed`), and that what a run that is alone has written so far
  stands (`Undisturbed`), which `AloneIsComplete` needs of the runs that are not
  done yet.
* `RecordedDataProofs`: `ManifestsCanBeFollowed`, `RecordingsStand`, `ReplaysAreLive`,
  `YearsAreCounted`.  The invariant says what is left of a program's requests and
  that the pages before it are whole (`InLine`), that a key not raced for has one
  recorder at most, no file until it is done, and a temporary file that is
  truncated and then whole (`OneRecorder`), and that every page of a readable
  manifest is whole (`Followed`).  That a fresh inode exists is a counting
  argument over the recorders.  For the last two, `History` adds that rows are
  published in order and on their day, that `site` remembers each day's page, and
  that what a recorder was answered is the page of the day it asked.
* `AgentViewsProofs`: `BudgetIsKept` (the bucket by itself), `CyclesKeepTheBudget`
  (the bucket inside the stack the agents ask), `OpinionsEarned`, `AnswersAreKept`.  For
  the budget, `Covered` counts, from any token taken to the present, the tokens
  taken since, those left and those the next refill would bring against what the
  clock moved forward.  For the rest, the invariant says that a completion is
  under way only for the agent whose turn it is and with the prompt of the day
  (`InTurn`); that a file of the cache is named for the question it answers and
  that a vendor is asked only what no file answers (`FilesOK`); and that of the
  agents of a cycle the first so many have been asked, each with an opinion it
  has earned or, asked in vain, a neutral one and an audit event, and the others have
  none (`Progress`), and that a cycle that was cut short was so by what no wrapper
  catches.  The proof follows a completion from the agent through cache,
  bucket, vendors and wrappers and back to the opinion made of it.

* `AccountProofs`, of `TrackRecord`: `ReportsHold` (`ReportsAreTrue`),
  `OptionsHold`, `BondsHold`, `BillsHold`, `ChoiceHolds` and, of the last four,
  `NoFreeLunchHolds` (`NoFreeLunch`).  The calculations are in `Arithmetic`: `Is(a,
  n, d)` says that the pair `a` is in lowest terms and stands for n / d.  Euclid's
  algorithm ends in a divisor that is a combination of its arguments, so there is
  one fraction for every number (`IsSame`); the continued fractions compare as the
  numbers do (`IsOrder`); and `++`, `--`, `**`, `//` are the operations they are
  named for (`PlusIs`, `TimesIs`, `QuotientIs`).  A finite series has a common
  denominator (`SeriesOver`), so that what is said of sums, means, deviations and
  products of two series is said of sums of integers.  The invariant of a record,
  `RecordInv`, has four parts: stock and market have one return above minus one for
  every period (`SeriesFit`), every report blends the return and the report before
  (`ReportsBlend`), a fund's values, mark and fees are numbers (`FundsFit`), and
  `FeesAreEarned`, which is inductive with them: a fee is paid of what exceeds the
  mark, and the mark then rises by at least what is left of it, less the management
  fee where the agreement counts it only afterwards.  `ReportsHold` assumes
  `YearlyFits`, that the growth of a year is a number however its power is rounded.
  The other three clauses follow from `SeriesFit` and `ReportsBlend` for records of
  any length: a peak of the curve is one of its points and its worst decline one
  that happened (`ReturnsHold`); what a fit leaves unexplained is what the
  Cauchy-Schwarz inequality leaves of the sums of squares (`FitHolds`); and, measure
  by measure, book and index are ranked alike (`ReportHolds`).  Where a premium
  covers what exercise is worth, its time value is the difference and what the
  writer keeps if the stock stays (`TimeWorth`).  `OptionsHold` assumes that neither
  the rate nor a strike is negative: with a negative rate the present value of a
  strike exceeds the strike and the bounds of `american_put_call_parity_bounds`
  cross, which the code does not exclude.  `BondsHold` assumes what the code checks
  of a bond and the bracket `yield_to_maturity` searches: the discounts of a bond at
  two yields are integers over one denominator (`DiscountsExist`), period by period
  a price lies above the line of its duration and on one side of the curve of its
  convexity (`MovesOfOne`), so that the sums do (`PricesMove`), and the line drawn
  from either of two yields shows that only one yield gives a price
  (`YieldsAreApart`).  `BillsHold` is `BillIsFair` for every bill of `Bills`: any
  prices up to par and any numbers of days.  `ChoiceHolds` is about the optimizer.
  The covariances of the estimate are those of integers over one denominator
  (`Framed`), so the variance of two names is a quadratic in the weight that is
  nowhere negative (`PointIs`).  From there the frontier is followed as the code
  draws it: its safest point is the vertex or the nearest permitted weight
  (`LowestIs`), its last is where the best name is filled up to the cap
  (`AttainableIs`), and from the one to the other every point returns more and risks
  more (`ReturnCostsRisk`, `PointsInOrder`), so that no permitted weight, whatever
  the fraction, returns as much at less risk (`NotBeaten`).  The closed forms of
  `minimum_variance_portfolio` and `tangency_portfolio` are what solving two
  equations gives (`LeastIs`, `TangentIs`), and that no Sharpe ratio of the frontier
  passes the tangency portfolio's is the Cauchy-Schwarz inequality once more
  (`TangentIsBest`).  Where the frontier is empty, nothing permitted returns more
  than its safest portfolio (`NoneReturnsMore`).  The hypothesis `PoliciesFit` gives
  caps, tilts and intensities their types, has two points or more on a frontier
  (`portfolio.py:215`), takes `Undefined` to be neither a frontier nor a choice, and
  tilts names apart only where something is shrunk: without shrinkage names may be
  one in risk, and of two names of one risk and two returns no portfolio is the
  safest.

Folds and sums.  The library's induction theorems take an operator as a parameter,
which the provers cannot instantiate.  The proofs use its first-order facts
instead: a set of counterexamples that is not empty has a least member (`WFMin` over
the numbers and over the subsets of a finite set).  `Arithmetic` shows in this way that
the recursion of `SumFunctionOnSet` has a solution and what one term adds to it;
`BacktestLoopProofs` that a fold over a sequence goes through its elements in order
(`Folds`, `AppliedInOrder`, `DeeperInOrder`), and what the recursive function
`rolling_windows` returns.

Assumptions.  `SizingAssumption`, `NaiveAssumption`, `SimulatedAssumption`,
`RiskAssumption`, `StoreAssumption`, `RecordedAssumption`, `PointInTimeAssumption`,
`BacktestAssumption`, `BucketAssumption`, `MappingAssumption` and
`TrackRecordAssumption` give the constants their types (the last but one is what
`mapping_from_document` accepts).  Those that say more:

* `SellsPay`: no share sells for less than its commission.  The code does not check
  it (only buys are checked against cash), and without it `NeverOverdrawn` fails.
* `BooksArePaidFor`: the weights held at the start add up to one at most, as those
  of an account without debt do.
* `ToleranceCoversRounding`: what rounding weights down to units may lose stays
  within `Tolerance`.  In the code rounding is in the 28th digit and the
  tolerance 1e-12; no book has the number of symbols or the betas to close that gap.
* `SpansAssumption`: the spans of a walk-forward are positive; `rolling_windows`
  refuses others.
* `SourcesAssumption`: the events are sorted by stamp (`InMemoryEventSource` sorts
  them) and a symbol has one bar at a stamp, as in a recording of daily bars.
* `BacktestAssumption` has two symbols or more, what `_rebalance` asks for
  (`engine.py:271`), and an interval of at most `LongAgo`, the 10**9 of `engine.py:152`.
* `ProvidersAssumption`: the neutral answer to a schema the agents ask for, where
  there is one, is `NEUTRAL` at the lowest conviction.  It is what the constant
  `NeutralAnswer` is taken to be; TLC evaluates it on `SchemaGuard` for the three
  catalogues of the run.
* `TrackRecordAssumption`: a return is above minus one, as `periodic_returns` has it
  of a curve of positive values; fee rates are not negative; the weight of the last
  report is within (-1, 1), which `unsmooth_returns` checks; the rate of a year is
  above minus one, which `discount` checks; a bill costs more than nothing and par
  at most; `Undefined` is no number.  Hurdles may be negative, and `Offered` is any
  set of fractions.
* `ViewsAssumption`: no name is listed twice, days are numbers, and a vendor's view
  that reaches an agent has a stance, a conviction and a list of links, as one that
  passed the validation of its schema, and does not name the null provider.

Only model-checked: liveness (`RiskEngine`, `SimulatedExecution`, `CycleStore`), which
is out of the provers' reach, and what the recursive walks of `SchemaGuard` find in a
schema.

## 6. Not modelled

* `cfa/ratios.py` and `valuation.py`: quotients of one period's figures that no
  decision reads.  Continuous compounding, logarithms and roots of more than two
  periods: there is no exact fraction for them.  More than two names in the
  frontier: the code leaves them to scipy's solver, whose answer is numerical.
* `api/ws.py`: only tests publish to the `Broadcaster`; `publish` does not await,
  and the drop of a full queue is one line.
* Rounding.  The formulas are exact where the code has `Decimal` and `float64`: tests
  on a residue (the sum check of `risk_decomposition`, `portfolio.py:459`; `se > 0` of
  `ols_regression`, `returns.py:307-315`) decide as the numbers themselves would, and
  never on what rounding left.
* The general covariance.  `portfolio_vol` of `RiskEngine` has one factor with
  loadings that are not negative, hence grows with every weight; what a hedge, a
  pair of names of negative covariance, does to the volatility of a scaled or
  blended book is not covered.
* `api/routes.py` outside the cached app, `api/schemas.py`, the research service,
  `agents/narrator.py` and `web/`: they render what a backtest returned.
* `time/clock.py` beyond the order of stamps, the file output of `audit/log.py`, the
  executor registry and the gRPC stub: no state that order could spoil.
* The synthetic market, the universe file, `ips.yaml`, HTTP bodies and the wording of
  prompts and records: data the models take as free or as constants.
* `risk/engine.py`'s metrics, `reconcile` and `implementation_shortfall_bps`: they
  report and are not read back.
