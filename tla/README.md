# Verification of Mallow

Mallow is a trading system: `almanac` (Rust) back-tests strategies and, as the
service *herald*, evaluates them on live bars and emits signals; `helm` (Go)
executes the signals on exchange accounts. Around them stand `identity` and
`api-gateway` (Go) and the desktop client `fathom-tde`. This directory specifies
in TLA+ the parts where state, concurrency or an algorithm can go wrong, checks
them with TLC on small instances, and proves the central properties with TLAPS
for every instance.

## The system's parts and the modules

`PROJECT.json` lists every part with its status, maps every definition to its
source lines, and lists the hazards of the code with the properties that cover
them. The modules, by part:

### helm: a hand and its account

A *hand* is an actor: one loop serves signals, fills, placement results, poll
batches and timers, and starts goroutines for everything that waits. Its position
is a map of *legs* (idle, entering, open, adding, exiting). A leg changes only by
applying an event of the position log, a JetStream stream, and each event is
published first, so replaying the log gives the legs back after a restart.

| module | models |
|---|---|
| `Position` | `LegState.Apply` and `HandPositions.Apply` as operators |
| `HandPositions` | the same as a state machine, under any sequence of events |
| `Hand` | one hand with its goroutines, the account's runtime, the exchange, the log, crash and restart |
| `Registration` | how helm and herald keep agreeing on the registered hands: operator, heartbeat, `engine.ready`, request and reply with timeouts |

**State of `Hand`.** `book` holds `h.pos`, `h.pendingOrderPos` and the log; `pl`
the `pendingPlace` of each order with the step its goroutine is at; `loop` the
fill mailbox, `seenFills`, `wsFillCache` and `h.orders`; `poll` the poll
goroutine's batch; `rt` the runtime's router and published fills; `ws` and `exch`
the exchange's event and the order's true status; `purge` the purge goroutines.
`audit` is history for the properties, `env` the process and NATS.

**Actions of `Hand`.** Each handler of the loop is one action, as handlers exclude
each other; `applyPolledOrders` is one action per order. Goroutines take one action
per external call, so the loop runs between them: balance check, log intent,
PlaceOrder, lookup; IsFlat, PurgeHand. Routing a fill and marking it published are
two actions. A set-up names the adverse conditions it allows; losing a stream
event, a failing `GetOrder` and a rejected placement are always allowed. `ambiguous`
is a placement that gets no answer, `lookup_fails` the query for it failing as well,
`reconcile_fails` a query that fails during restart. Two conditions are about timing
(`SignalComes`): without `overlap` a signal comes only when no placement or purge is
running, without `busy_leg` only when no leg waits for a fill. They are assumptions on
the source of the signals, kept out of `handleSignal`, which does not enforce them.

### almanac: backtests

| module | models |
|---|---|
| `Portfolio`, `Account` | `Portfolio::apply_fill`; one symbol's account under arbitrary fills |
| `BacktestEngine` | `Engine::run` and `EngineCore`: fills at the open, exit rules, signals under every policy, end of data, reset |
| `MultiEngine` | the sizers, and the engine of several symbols on one portfolio |
| `WalkForward` | the loop that cuts bars into in-sample and out-of-sample windows |
| `AsOfView`, `MtfEngines` | what a multi-timeframe run promises; the script strategy, the pointer engine and the heap engine that keep it |
| `Aggregator`, `RowGroupFeed` | resampled feeds; the Parquet feed with unreadable batches |
| `BacktestRequest` | routing, warm-up and loading of a request, on top of `MtfEngines` |
| `ReportMetrics`, `ReportCurves` | metrics of the report in exact fractions; curve compression and the bootstrap |

A bar of `BacktestEngine` is two steps, as in the run loop: `Tick` fills what is
pending at the open and runs the exit rules, `Dispatch` handles whatever the
strategy answers.

### almanac: strategies, indicators, patterns, chart

| module | models |
|---|---|
| `StrategyKit` | what a strategy is built from and what its script is run with |
| `TrendStrategies`, `RangeStrategies`, `MtfStrategies` | every named strategy twice: the Rust value and the Rhai script it publishes |
| `StrategyParity` | both fed the same readings |
| `IndicatorBox` | the warm-up of every indicator and the box it is used through |
| `IndicatorValues`, `ParabolicSar` | the indicators whose state is more than a window |
| `ScriptTa` | the `ta.*` primitives of scripts |
| `Patterns` | every candlestick and chart pattern detector |
| `ChartState` | the chart object of the browser |

A reading is the class of an indicator's value, since strategies only compare:
with thresholds and with other readings.

### almanac: herald

| module | models |
|---|---|
| `Ledger` | the confirmed bars of one symbol, advanced by several tasks |
| `Herald` | stream, outages, both gap-fills, the handler, evaluation and the control plane of one symbol |
| `OkxFeed` | the OKX feed's closing of bars, reconnection and gap-fill |
| `SignalPublisher` | a signal's way from evaluation to the stream |
| `StrategyStore` | the strategy table, in memory and in PostgreSQL, statement by statement |

In `Herald` three tasks advance the ledger: the start-up gap-fill, the handler
draining the queue, and the feed's gap-fill after a reconnect. `Advance` is
`Ledger::advance` up to the release of the lock; reading the newest bar, cloning
the symbol's group and evaluating it are steps of their own, so that the other
tasks and the control plane run between them. `dark` (closed while nobody
listened) and `lost` (never asked for again) are history.

Proofs are in modules named after what they are about: `HandPositionsProofs`,
`BacktestProofs` (account, walk-forward and Parabolic SAR), `MtfProofs`,
`HeraldProofs` and `HandsProofs` (the books of `Herald`, and its hands),
`OkxFeedProofs` and `StrategyStoreProofs`; the publisher's is in `SignalPublisher`.

The `MC` modules choose one of several components in the initial state and let
the others rest, so that one run covers them without multiplying their states.

## What the passing runs check

Every property of a run is the conjunction of the facts listed; each has its own
definition and comment in its module.

| run | property | what it says |
|---|---|---|
| `positions` | `PositionsSound` | legs are well formed, and an event applied a second time changes nothing |
| | `StepDiscipline` | phases move along their edges; a close is credited only as the leg is evicted; a quantity changes only by the fill of an entry or an add |
| `hand` | `HoldingsAgree` | once nothing is under way the legs hold exactly what the filled orders left, but for what was deliberately given up |
| | `OrderBooks` | one trade record and one `position_closed` per close; a pending order is mapped to its leg; however signals overlap, the cap on a single leg's units holds until an entry is let in while the count lacks another |
| `hand_crash` | `LegsAreReal` | across crashes no leg waits for an order that is over and none is open that was not bought |
| | `HoldingsAgree`, `LogIsMemory` | holdings agree, and replaying the log gives the running hand's legs at every moment, also when the exchange does not answer |
| | `LogCoversExposure` | whenever the hand owns coins, or an entry is open, the log names a leg for it |
| `hand_live` | `FillsAreBooked` | every fill is eventually booked and reported |
| `strategies` | `Parities` | value and script give the same signals on every bar, for all strategies but those listed below |
| | `SignalDiscipline` | entries and exits alternate, a trailing stop only rises, an opening range is kept |
| `indicators` | `WarmUp` | the first value comes on the bar all smoothers are fed; readiness says exactly that, after any reset or edit |
| | `SarFollows` | the stop stays on its side of the bars and behind the extreme point and follows the trend |
| | `ValuesAgree` | rolling extremes, SuperTrend and VWAP are what their definitions say of all bars seen |
| | `ChartInStep` | the chart's series are in step with its bars, live, replayed or merged with history; a script's arrays hold its inputs even when a block of it fails |
| | `PatternsSound` | where the relative tolerances judge a window and its reflection alike, detectors are mirror images of each other, levels included; a flag's and a triangle's stop is on the losing side, a double top's or bottom's within 3% of it |
| `backtest` | `EngineBooks`, `AccountSound` | cash less realised profit is what open legs cost; a flat position is empty and a basis has its position's sign |
| | `ExitsWatch` | every open leg has a tracker of its side, no level or timeout is passed by, the stop comes before the target; with k signals on a bar the limit on units is passed by at most k - 1 |
| | `EngineSteps` | no leg is turned round where the policy forbids it, levels follow their entry, Kelly sizing stays stopped once it stops |
| | `FeedsAndSlots` | merged feeds and row groups come in time order; a run of several symbols ends flat and within its slots |
| | `WindowsSound` | no look-ahead in walk-forward windows; stitched bars in order; a panic only by the embargo |
| | `ReportAgrees`, `CurvesSound` | one-pass metrics equal their definitions over all pairs of points, runs and days; compression keeps what it must; bands and ruin of the bootstrap |
| `mtf` | `ImplementsAsOf` | both engines refine `AsOfView` |
| | `StrategyFed` | every bar is fed once and a forming bar is the exact aggregate of its base bars |
| | `NoPastFill`, `FeedsDrained` | a signal fills at a later open; the feeds are consumed |
| | `RequestsSound` | on every route, a request that does not name its base timeframe trades with its higher timeframes warmed up; the bars counted are the bars traded; the choice of files loses none |
| `herald` | `NothingElseLost` | a closed bar is in the ledger, on its way, or in the gap of an outage |
| | `LedgerSound` | logs are in time order without repetition and only grow |
| | `HandsCurrent` | a bar evaluated is not older than its advance; a group that left the map has no hands; outside two races a hand is fed every bar of the ledger once and in order, from its warm-up on, or all of them if it was warmed with stand-ins |
| | `HigherInStep` | a multi-timeframe hand gets each higher bar with the base bar it closes with, while the connection holds and the stream sends it first |
| | `OnlyClosedBars`, `NothingMissed` | the OKX feed sends closed bars only, all of them and at once while connected |
| | `TableSound`, `ChainsPartition` | the strategy table under racing requests that ask for any version number and any previous row; grouping into chains loses and repeats nothing |
| `services` | `Converges` | once commands and faults end, helm and herald agree on the hands for good |
| | `PublisherSound`, `Settles` | every signal is accounted for within bounded work, and eventually published or given up |

Deadlock is checked where the model has no end (`positions`, `strategies`); the
other models use up their orders, bars, faults or requests and then rest.

### Bounds

* Three orders are an entry, its exit and a re-entry (or an entry, an add and an
  exit), the shortest history in which every phase, the purge and a second leg
  occur. Two crashes let the second hit what the first restart produced. Signals at
  any time, and an exchange that does not answer, have set-ups of two orders: two
  placements that overlap, or one that is in doubt and one after it. Orders are
  symmetric, as they differ only by name; `hand_live` uses no symmetry.
* Prices take three levels, which is every order of a price and two lines; feeds
  miss any subset of their bars; sizes and commissions reach both a partial close
  and a reversal; configurations range over every policy and sizer.
* Chart patterns use windows of up to eleven bars around shapes that satisfy a
  detector, in quarters of 2520ths so that a line through two of them has an
  integer value at a third. One alphabet has prices far apart; the other has swings
  that differ and are, or just are not, within the 3% of the double top.
* Requests range over the three routes, declarations with and without a timeframe
  (one of them the base), and files shifted against their names or with holes.
* One backtest configuration gives two signals on a bar, with two units allowed, so
  that both pass the limit's guard before the first is filled.
* In `herald` three base bars and a higher timeframe of two give one higher bar
  before start-up and one after, one outage, and two requests of the control
  plane: a registration and its removal, or a second registration. The store
  takes three requests of two users, enough for two that race and one between; a
  request may ask for a version below 1 or for the greatest one, here 2, over which
  the next number wraps around.
* In `services` one fault and two commands: a hand started, stopped and started
  again while a request is lost or late.

### Fairness

`hand_live`: weak fairness of placement goroutine and loop, of draining fills and
of the poll cycle, which the Go scheduler, the loop's `select` and the 30-second
ticker give; strong fairness of `FetchOrder`, i.e. the exchange does not refuse the
same query for ever. Nothing makes the exchange fill or the stream deliver.
`services`: weak fairness of herald's restart (it is supervised), of the heartbeat
(a ticker) and its comparison, of `engine.ready` and of a hand's start and stop, of
callers sending and giving up on a request that is gone (a timeout), and of serving
a request that has arrived; nothing makes a request arrive. `every_symbol` adds that
herald serves each caller's request, not only some request. For the publisher,
weak fairness of its loop and of its tasks, whose retries are bounded.
`mtf`: weak fairness of the engine's loop.

## Where code and comments disagree

Two runs check a property that a comment of the code states and TLC violates;
`PROJECT.json` quotes the comments.

| run | what happens |
|---|---|
| `purge_race` | a new entry's intent is logged between IsFlat and PurgeHand: the log forgets a live order |
| `every_symbol` | herald restarts between the requests for a hand's two symbols: the first is never registered again, as the heartbeat compares hands and not symbols |

More such claims are stated in the modules, with the comment they come from; TLC
refutes each when it is checked as an invariant of the module's run (for the hand,
with the set-up named).

| claim | module | what happens |
|---|---|---|
| a restarted hand owns what it bought | `Hand`, fault `busy_restart` | restart while the first entry is open leaves coins on no leg |
| a fill is reported once | `Hand` | a stream event after the poll booked the fill reports it again |
| an exit closes the legs it sells | `Hand`, two legs | both legs' coins are sold, one leg stays open |
| an orphaned leg is gone | `Hand`, fault `balance_fails` | a failing GetFreeBalance before an exit gives up a live leg |
| nothing is stuck | `Hand`, fault `ambiguous` | a lookup after a timeout finds a filled order whose event is lost; it is never polled |
| holdings agree | `Hand`, fault `lookup_fails` or `outage` | an order that landed is handled as failed; unpublished events are not found again |
| `UnitsAlwaysCapped` | `Hand`, fault `overlap` | two signals pass the guard before the first intent is logged |
| `FailedReconcileStops` | `Hand`, fault `reconcile_fails` | after a failed query the hand runs without the legs its log names, where the log line says it is left stopped |
| `ExactlyOnce` | `Herald` | two racing advances, or a bar between warm-up and insertion, feed a hand a bar twice or never |
| `PeriodsOnce` | `Herald` | a hand warmed with bars derived from the base timeframe is given the same periods again when the ledger gets their bars |
| `Definitive` | `OkxFeed` | late trades in the confirmed row are skipped; a partial bar is accepted after an outage |
| `DroppedIsDropped` | `SignalPublisher` | a signal reported dropped may be stored, an acknowledgement having been lost |
| `OwnChain`, `VersionsUnique` | `StrategyStore` | the version and the previous row are read before the insert, so requests of two users cross |
| `NumbersGrow` | `StrategyStore` | a client may ask for the greatest version; the next number wraps around |
| `FreshRun` | `BacktestEngine` | reset leaves the broker's pending orders |
| `TiesByName` | `MultiEngine` | bars of one time come in the reverse of name order |
| `Chronological` | `WalkForward` | extending a window for its minimum of trades makes windows overlap |
| `LookbackSuffices`, `StartsOnPeriod`, `WarmupInBars` | `BacktestRequest`, `Aggregator` | warm-up is counted in calendar time, so thin data warm up too little |
| `ConvergedWhateverNamed` | `BacktestRequest` | a request that names its base timeframe starts its base feed too late to warm the higher ones up |
| `DurationOfDeepest` | `ReportMetrics` | the duration is the longest time below a peak, recovery and other drawdowns included |
| `ParityClaim` | `StrategyParity` | ScalpingEma, WilliamsRMa, SwingTrader, MomentumRoc, BbKeltnerSqueeze, BbSqueeze, ChandelierExit, MeanReversion, HaBreakout, Alligator and four multi-timeframe strategies differ from their scripts |
| `DocumentedWarmup` | `IndicatorBox` | documented warm-ups differ for GMMA, MFI, RVI, ConnorsRsi, TSI, StochRsi, Trix and Hma |
| `MirrorEverywhere`, `StopAlwaysLoses` | `Patterns` | tolerances are relative to the price, so a window and its reflection may be judged differently; a double bottom's stop may be above its entry |
| `SarSideClaim` | `ParabolicSar` | a reversal on an outside bar puts the stop past the bar |
| `ReplayViewClaim` | `ChartState` | reset keeps the transform's period and drops the transform |
| `LookbackHelpersWork` | `ScriptTa` | the lookback example of ta.rs returns before it is written back |

Reading the code for the models turned up more, which no property states:

* Engine: a Flip, or an exit and an entry on one bar, loses the entry's levels
  (`core.rs:657`); two exits on one bar make the second close open the opposite
  position; a stop fills at its level though the bar gapped beyond it, where
  `exit.rs:38` says "Always pessimistic"; with several symbols the exit check shows
  one symbol's bar to every tracker; `FixedQuantity` trades a symbol without a price.
* Walk-forward: an embargo longer than the out-of-sample window panics, and a step
  of zero bars never ends.
* Requests: overlapping files are not de-duplicated; `history_overrides` ignore the
  window; the number of bars is not limited with several timeframes.
* Report: the first month is omitted; the caps that `sqn` and `var_cvar` document
  are not applied; `time_bucket` may drop the last point.
* Patterns: wedges do not require the lines to cross; EveningStar is not the mirror
  of MorningStar, which panics on three to nine bars; a doji engulfs upwards only.
* Chart: an invalid edit overwrites the slot's configuration; `load_tail`
  duplicates the forming bar.
* Herald: a bar that closes between the gap-fill's fetch and the connection is lost,
  and a failed fetch leaves a permanent gap; a hand at an alignment point may read
  the previous higher bar; the "unbounded channel" of `main.rs:520` is bounded.

## What is proved

TLAPS checks the theorems below for every value of the constants that the named
assumptions allow, so for any number of bars, orders, prices or outages. The
assumptions say no more than the code guarantees: quantities and periods are
positive, sets of prices hold numbers, a base bar is the unit of time. One is about
the data: `OnGrid`, that a bar of any timeframe opens where a base bar would, as
exchanges and the resampler date them. Only the two `FillsAhead` theorems use it.

| theorem | module | statement |
|---|---|---|
| `Soundness` | `HandPositionsProofs` | `Spec => []PositionsSound` |
| `StepsAreDisciplined` | `HandPositionsProofs` | `Spec => StepDiscipline` |
| `BooksBalance` | `BacktestProofs` | `AccountSpec => []AccountSound` |
| `WindowsAreSound` | `BacktestProofs` | `WfSpec => []WindowsSound` |
| `SarStop` | `BacktestProofs` | `SarSpec => SarFollows` |
| `PointerImplements`, `HeapImplements` | `MtfProofs` | each engine's specification implies `ImplementsAsOf`, a refinement |
| `PointerFillsAhead`, `HeapFillsAhead` | `MtfProofs` | each engine's specification implies `NoPastFill` |
| `ImplementsLedger` | `HeraldProofs` | `HeraldSpec => LedgerSpec`, a refinement |
| `LogsAreSound` | `HeraldProofs` | `HeraldSpec => LedgerSound` |
| `OnlyOutagesLose` | `HeraldProofs` | `HeraldSpec => []NothingElseLost` |
| `HandsStayCurrent` | `HandsProofs` | `HeraldSpec => []HandsCurrent` |
| `SendsClosedBars` | `OkxFeedProofs` | `OkxSpec => []OnlyClosedBars` |
| `ConnectedMissesNothing` | `OkxFeedProofs` | `OkxSpec => []NothingMissed` |
| `SignalsAccounted` | `SignalPublisher` | `PublisherSpec => []PublisherSound` |
| `TableIsSound` | `StrategyStoreProofs` | `StoreSpec => TableSound` |

The arguments, and the invariants they need:

* **Positions.** Type correctness and well-formedness are inductive together: a
  leg's phase decides whether it has a pending order and a quantity, and every
  event that is valid for a phase leaves a leg that is well formed for the next.
  Idempotence is then a fact about one well-formed leg and one event, by cases on
  the event's kind.
* **Account.** `AccountInv` joins the books to the sign of the cost basis. The sign
  is what makes a partial close safe: the share of the basis that is released
  rounds towards zero, so what remains never changes side.
* **Parabolic SAR.** The stop's side is not inductive alone. `SarInv` adds that the
  extreme point covers the last bar and that the stop of a reversal bar covers the
  bar before it; clamping to the last two bars then gives both properties.
* **Multi-timeframe engines.** Both invariants say that the windows are the as-of
  view of the feeds at the current time. `PointerInv` adds that a feed has left
  exactly its bars that have not closed; `HeapInv`, that such a bar is in the heap or
  behind an earlier bar of its own feed which is, so that the heap's minimum is the
  next bar of all to close. A step of an engine is a step of `AsOfView` or none.
* **Fills of these engines.** A signal waits until a base bar is delivered. That it
  fills at no earlier open follows from two facts that are inductive together
  (`SignalInv`): every tick is on the grid of base bars, and a pending signal was given
  at a tick not after the current one. A base bar delivered by the next tick closes
  after this one, so on the grid it opens no earlier than this one. Without the grid
  this is false: a bar that straddles the tick would fill in the past.
* **Walk-forward.** `WindowsSound` speaks of the windows recorded. `WfInv` adds what
  the loop knows of the next: the out-of-sample bars measured so far end within the data
  (`Measured`), and, when steps are at least as long as windows and no minimum of
  trades extends them, every window recorded ended before the next begins
  (`EndedBefore`).
* **Ledger and Herald.** `Ledger::advance` refuses a bar that is not newer than
  the last, so a bar that is overtaken is never accepted afterwards: it is lost
  unless something explains why it is not needed. `NothingElseLost` is therefore
  far from inductive. `BooksInv` says of each holder of bars what may be missing
  before each bar it holds: nothing in what REST returned (`NoSkip`); in the queue,
  only bars of an outage or bars that the start-up fill still holds
  (`QueueSkips`); in the ledger, only bars of an outage (`Gaps`); that what closed
  in the dark is newer than everything under way (`DarkIsNew`); and that whatever is
  newer than the ledger is somewhere (`Kept`). Each is needed for another: that the
  gap-fill may run beside a queue with a backlog, for instance, rests on `NoSkip` and
  `DarkIsNew` together. The arithmetic of multiples of the higher timeframe is in
  lemmas of its own.
* **Hands.** `HandsInv` says which task owes a hand which bar. A task that is
  between its advance and its evaluation is *behind*; a hand that is `clean` has at
  most one task behind it on its timeframe, that task's bar is the newest of the
  log, and if it has picked a group it picked the one that is current. What the hand was
  fed, with the one bar it is owed, is then the end of the log since its warm-up. The
  two races, a second advance before the first is evaluated and a warm-up
  beside a task that is behind, are those in which a hand stops being `clean`
  (see the divergences above). A hand warmed with stand-ins is owed the whole log, as
  there are stand-ins only where the window was empty. The module rests on `BooksInv` for the types of the
  bars.
* **OKX feed.** `OnlyClosedBars` needs `NotAhead`: whatever is queued, kept or sent is
  no newer than the bar that forms, and older once it counts as closed. For
  `NothingMissed` the invariant `Whole`, which holds until the first lost connection,
  says of every place a bar passes what came before it: all events before an event
  (`EventsWhole`), and before a queued row every older bar, sent, confirmed in an
  earlier row, or, for the bar just before, at least seen to form (`RowsDue`). The last
  case is what makes the feed prompt, since a bar may be closed by its successor before
  its confirmation arrives and the confirmation then changes nothing.
* **Publisher.** A signal is in one place: the channel, the loop's hands, or a task
  (`OnePlace`). Its fate says "on its way" exactly when it is in one (`FateOK`), and
  the copies in the stream are at most its attempts, of which those still in the channel
  have none (`Tried`). That a dropped signal may be stored is visible here: `FateOK`
  can promise no copies only for signals dropped before an attempt.
* **Strategy table.** A request of several statements carries what it read, while
  others change the table. `EditOK` says what is still true of that when it writes: its id
  is new to the table and to every other request and, if the row it read is still there,
  this has the same name and a version over which the number it will write was found:
  above it or, after the greatest number, wrapped around to the smallest. What may no
  longer be true is that the version is free and the previous row there; the table's
  constraints decide that at the insert, and `TableIntegrity` rests on them.

`LedgerOrder`, `Invariance` and `SarMonotone` are steps of these and
theorems in their own right.

## What is only model-checked, and what is not modelled

Liveness (`FillsAreBooked`, `Converges`, `Settles`, `FeedsDrained`) and fairness
are outside the prover's reach, and so is what a fold or a recursive definition
computes for every input: the report's metrics, curves, patterns, indicators and
scripts are checked against their reference definitions on bounded inputs. So are
the strategies' parity, the grouping of the store's rows into chains
(`ChainsPartition`), what a multi-timeframe strategy is fed (`StrategyFed`,
`HigherInStep`) and a request's loading, whose statements fold or filter sequences.
The hand with its goroutines, the backtest engine and registration are model-checked
only.

Abstractions that matter when reading the results:

* `Hand`: one symbol, long only, spot; market orders that fill at once and in full;
  no brackets; prices and fees left out. The adapter echoes the client id. A handler
  is atomic, so a crash between the publish and the apply of `publishAndApply`, or
  between two events of one handler, is not covered, and restart with reconcile,
  restore and gap recovery is one step. A published event is de-duplicated for ever,
  where JetStream remembers an id for two minutes.
* Money is in integers and ratios in fractions; the code's floating-point rounding
  is not modelled. In `Account` the shares of a partial close round down.
* `Herald` follows one symbol with two timeframes; time is counted in base bars. A
  higher bar is a fixed number of them, so the calendar-month branch of the alignment
  is left out (the engines' own month is a fixed 30 days, a timeframe like others). A
  REST window is as long as it needs to be, the start-up history comes from the same
  place whether parquet or REST, and the channel of 1024 bars is never full.
* `ParabolicSar` takes an acceleration factor between 0 and 1; a negative step, which the
  configuration does not refuse, is outside it.
* `StrategyStore` includes `upsert_strategy`, which nothing in the repository calls yet,
  and `ReportCurves` the curve's `lttb`, which only its tests call; a target of one
  point, for which its arithmetic would wrap, is excluded by assumption.
* A strategy's reading is a class of values; two values in one class are not told
  apart, which is sound as long as strategies only compare.

Not modelled, with reasons in `PROJECT.json`: partial fills, limit orders, brackets
and the stop-loss monitor of a hand; the fleet registry, dispatcher, portfolio and
risk core of helm; exchange protocols and REST modules; identity, the gateway, the
desktop client; language bindings; reports that need square roots.
