# InsiderWatch: a TLA+ verification project

InsiderWatch polls Polymarket's Data API for large trades, stores them in MySQL,
scores them and sends alerts. This directory models the parts of the service that
carry its logic, checks them with TLC on small instances and proves the main
safety properties with TLAPS for every value of the constants.

## The system

| Part | State | Operations | Interacts with |
|---|---|---|---|
| Service loop (`cmd/insiderwatch/main.go`) | two tickers and a signal channel of capacity one, a context | a pass at the start and every 30 s, win rates at the start and daily in a goroutine, stop on a signal | starts the processor's passes, one at a time, and recalculations, which may overlap |
| Trade processing (`processor.go`: `ProcessTrades`, `processTrade`, `sendAlert`) | worker pool, wallet mutexes; checkpoint and tables in MySQL | read the checkpoint, fetch a page, one goroutine per new trade, wait for all, write the checkpoint | Data API, Gamma API, storage, sender |
| Wallet lookup (`getOrCreateWallet`) | a mutex per wallet | double-checked lookup, first activity, insertion | storage, Data API |
| Scoring | none of its own | multipliers from the wallet, its recent trades, the market | storage |
| Win rates (`RecalculateWinRates`) | `market_resolutions`, `wallet_stats` | find closed markets, store the winner, count it for every wallet | Gamma API, storage |
| Clusters | `wallet_funding_sources`, `wallet_clusters`, `coordinated_trades` | group wallets by funding source | storage; never fed, as `GetFromAddress` returns `""` |
| Market cache (`resolveMarket`) | `market_map`, 24 h | read, refresh from Gamma, fall back to the trade | Gamma API, storage |
| Storage | ten tables | one SQL statement per call, no transactions across calls | everything |
| Rate limiter | tokens, time of the last refill | `Wait`, `tryTake` | every API call |
| Alert senders (`internal/alerts`, `createAlertSender`) | the list of senders | `Send` to the log, Discord webhooks, a mail server, or all of them in turn | called by `sendAlert`; chosen from the configuration |
| Configuration (`config.go`) | read once | `Load`, `Validate` | everything |
| Metrics, secrets, migrations | none that decides anything | counters, startup | |

What is hard here: the goroutines of one pass interleave between any two database
calls; every call may fail, and each failure has a path of its own; the process may
die between any two calls and restarts with the database only; the Data API may list
trades late; recalculations overlap the passes, and nothing waits for them when the service
stops; a channel may take an alert and its answer be lost; a server may stay silent.

What correctness means, per part:

- *Trade processing*: a trade is applied once; the checkpoint never covers a trade that
  is not done with; it never moves back; a wallet is alerted on at most once per
  worker in a cooldown; no worker or mutex is lost, whatever call fails; a pass ends; no
  trade is alerted on twice.
- *Market cache*: what a call returns is Gamma's, and not older than the TTL and a request;
  a call returns although Gamma is silent.
- *Alert senders*: the service has the channels it was configured with; the failure of one
  leaves the others alone; nil means delivered.
- *Service loop*: a signal ends it, a tick is served.
- *Rate limiter*: in every window, no more grants than a full bucket and the refill;
  a caller is served in the end.
- *Scoring*: bursts are seen under concurrency, multipliers never lower a score, the
  normalised score stays on its scale.
- *Win rates*: a market counts once for a wallet in each of the recalculations that overlap
  and not again later; wins and losses stay within the total. That no result is lost, and
  that every resolved market is counted, the code does not achieve.

## Modules

| Module | Models | Instance | Proofs |
|---|---|---|---|
| `Processor` | `ProcessTrades`, `processTrade` without the score, `getOrCreateWallet`, `updateNetPosition`, `sendAlert`, and the tables they use | `MCProcessor` | `ProcessorProofs`, `ProcessorConditions`, `ProcessorLedger` |
| `TradeLedger` | the abstract specification that `Processor` implements | (through `Processor`) | `ProcessorLedger` |
| `MarketCache` | `resolveMarket` with `market_map` and the Gamma client's timeout | `MCMarketCache` | `MarketCacheProofs` |
| `Alerting` | `Validate`, `createAlertSender`, `MultiSender` and the three senders | `MCAlerting` | `AlertingProofs` |
| `RateLimiter` | `internal/ratelimit` | `MCRateLimiter` | `RateLimiterProofs` |
| `Scoring` | the score of a trade and the reads it is made of | `MCScoring` | `ScoringProofs` |
| `WinRates` | `RecalculateWinRates`, `determineWinner`, `updateWalletStatsForResolution` | (through `Service`) | `ServiceProofs` |
| `Service` | the loop of `main`, extending `WinRates` | `MCService` | `ServiceProofs` |

`PROJECT.json` maps every definition to its source lines.

### Processor

One action per database or API call. `mainPc`, `lastTS` and `batch` are the goroutine of
`ProcessTrades` and its locals; `pc[t]` is the next call of the goroutine of trade `t` and
`local[t]` its locals that outlive a call (the wallet's total as read, whether the market
is known, the accumulated position). `checkpoint`, `tradesSeen`, `wallets`, `net` and
`alerts` are the tables; they survive `Crash` and `Panic`, everything else is lost.
`pool` is the channel `workerPool`, `walletLocks` the mutexes. `filtered`, `applied`,
`delivered`, `crashes` and `panicked` are history that no guard reads.
A row of `alerts` has the trade, the second it was stored and `nth`, which stands for the
auto-increment id: a second alert of one trade in one second is a second row. `applied` and
`delivered` count, so that a repetition shows.

Abstractions:

- A wallet row is its `total_trades`, a net position its `trade_count`: the dollar columns
  are updated by the same statements. 0 is the absent row.
- The market filters are the constants `MarketFiltered`, `Distant` and `Rejected`. A
  distant market may be dropped or pass, since the distance is measured from the time of
  the pass. When Gamma fails, the slug of the trade may still be enough to drop it; when
  the cache fails there is no market and the filters are skipped.
- `CreateWallet` covers the activity request and the insertion: the wallet's mutex is held.
- Scoring is not a step: it changes no table and every severity is sent.
- `IsPage` allows any choice among equal timestamps at the limit of a page and, where
  trades may be late, any page.

`Faults` names the calls that may fail in a run, so that each run says which errors its
property survives.

### TradeLedger

What the tables promise, without passes, goroutines, errors or crashes: a transaction is
recorded once; only the trade that recorded it is counted and alerted on, once each; an
alert is delivered only if it is on record, once; the mark moves forward. `Processor`
implements it with `recorded` mapped to `tradesSeen`, `counted` to `applied`, `alerted` to
`alerts`, `mark` to `checkpoint` and the key of a trade to `calculateTradeHash`. The
invariants `OncePerHash`, `AlertedOnce` and the property `CheckpointMonotone` each say part
of this; the ledger adds the order (stored, then counted and alerted, then delivered) and
that all of it happens in the name of one trade.

### MarketCache

One market, as the rows of two never meet. The data are known by the second they are the
truth of: `asOf` in a row, `info` in a result, where `Unknown` is the title and slug of the
trade. `GetMarketMap`, `CheckTTL`, `Ask`, `Answer` and `UpsertMarketMap` are separate steps
between which any time may pass, since the database driver has no timeout; only a request
in flight is bounded, by `Timeout`. The step from the answer to its stamp takes no time.
Category, end date, volume and liquidity are one answer: the code never mixes two.

### Alerting

`Config` is what `Load` reads that matters to the alerts; `multi` stands for every value that
is not `log`, `discord` or `smtp`. `Boot` is the start of `main` up to the sender. `at`
is the loop variable of `MultiSender`, `errs` its errors; `posted` is what the channels have.
`Accept` is the channel's own step, so that an alert can arrive and its answer be lost, or
arrive after the timeout or the death of the process. A sender used alone is a `MultiSender`
of one. The text of the messages is left out.

### RateLimiter

Exact in the integers: the rate is a fraction, a second has `TicksPerSec` ticks and tokens
are multiples of a tick's refill. `window` is an observer that may start counting at any
moment, so `RateBound` speaks of every window.

### Scoring

Each goroutine stores its trade and then reads the wallet's recent trades twice, for the
velocity and for the concentration. Multipliers are per cent, rounded down. The
logarithmic scale is modelled by the marks at which it crosses 40, 60, 70, 85 and 100; the
thresholds 70 and 85 are marks, so the severity is exact.

### WinRates

The steps of a recalculation; `Service` runs them. `Recalc` is a set of slots and a bound on
how many recalculations run at once: nothing in the code bounds them, but two overlap only if
one takes longer than a day. `ServiceLoop` has two. `gamma` is what the Gamma API would answer,
prices that are not final included. `counted` is history: how often a wallet was counted for a market.

### Service

`mainPc` is where `main` is: in its first pass, in a later one, in the `select`, or gone.
`ticker`, `winRateTicker` and `sigChan` say whether their channel, of capacity one, is full.
`started` holds the recalculations whose goroutine exists; they take the steps of `WinRates`.
A pass is the trades it stores, and its end: the rest of it is `Processor`. `Exit` is the
`Crash` of `WinRates`: `main` returns and every goroutine is gone, between any two calls.
Calls that fail because `cancel` came first change nothing and are left out. `DayTick` comes
at any time, in the startup pass and during a recalculation too; `SelectDay` starts the next
one in a free slot of `Recalc`, whatever else runs.

## Runs

Passing runs:

| Run | Shows | Bounds |
|---|---|---|
| `ProcessorSafety` | `OncePerHash`, `NoInFlightBelowCheckpoint`, `NoDuplicateLookup`, `WorkersConserved`, `NoLostWalletUpdate`, `AlertedOnce`, `CheckpointMonotone`, `TypeOK`; `ImplementsLedger`, the refinement; `PassCompletes` (liveness); no deadlock | three trades of one wallet, two in one second with one hash; two workers, so that one goroutine waits while two race; late trades; one crash; every error that ends a goroutine or the pass, before, under and after the wallet's mutex, and the nil market that panics |
| `ProcessorOrderly` | `Watermark` when trades arrive in order, fit a page and are not hit by an early error; `AlertsPerCooldown` | three trades of one wallet with three hashes and two workers, so that a third alert could follow two that passed the check; a market that may be filtered; clock up to 2, cooldown 2, position windows of 2; one crash; failing fetch, checkpoint, wallet update, alert insertion and send |
| `ProcessorLiveness` | `EveryTradeHandled` (liveness) | three trades of one wallet, two workers; a market that may be filtered; one crash; failing checkpoint, Gamma, position and cooldown check |
| `RateLimiterFair` | `RateBound`, `TypeOK`, and `WaitReturns` (liveness) | four callers, 1.5 requests per second, three ticks a second, windows of up to two seconds |
| `ScoringSafety` | `BurstSeen`, `NeverBelowBase`, `TypeOK` | three concurrent trades in one velocity window, of 1000, 8000 and 150000 dollars; a market about to close and a distant one; three statistics rows; failing reads |
| `ServiceLoop` | `CountedPerOverlap`, `WinRateBounded`, `TypeOK` of the win rates within the main loop; `SignalObeyed`, `TickServed` (liveness) | two recalculations that may overlap, over a wallet that may be hedged in a market; every error; one end of the process, by a signal or a kill, and a restart |
| `MarketCacheFresh` | `StampHonest`, `FreshAnswers`, `TypeOK`, `CallReturns` (liveness) | two goroutines, TTL 2, timeout 1, calls that start before second 5; every error; any number of crashes |
| `AlertingSafety` | `ChannelsAsConfigured`, `EverySenderTried`, `OkMeansDelivered`, `TypeOK`, `SendEnds` (liveness) | every configuration of up to three modes and two webhooks, so up to six senders; one alert |

Why the bounds are enough: every property is about two goroutines, two trades of one key
or one crash between two calls; the third trade is there so that an effect can follow
the first pair. In `ProcessorOrderly` the clock reaches the end of a cooldown that starts at 0,
so that an alert can be stored in the second in which the next one is allowed again. The
other passing runs of `Processor` have a clock of 0: none of their properties compares times of the
clock, and repeated alerts and deliveries differ by `nth` and the count. In `ServiceLoop` one
wallet and one market are what two recalculations can collide in; the theorems have any
number of both and of recalculations. In `MarketCacheFresh` the clock passes the TTL and the timeout together, so
that a row is written late, read fresh, and expires; two goroutines are what it takes for an
older answer to be saved last. In `AlertingSafety` the sends of two alerts share nothing but
the death of the process, so one is enough; three modes are the longest documented list. No
run uses symmetry: the trades differ in their time and hash. The scoring run ends when
every trade is scored, and `MarketCacheFresh` when the clock is at its bound and no call
runs (`CallReturns` shows that it stops no earlier), so these two do not look for deadlock;
all others do, which in `ProcessorSafety` also catches an error path that keeps a mutex.

Runs that end in a violation, each with a finding in `PROJECT.json`:

| Run | What happens |
|---|---|
| `WatermarkInsertError` | an error while a trade is processed, and the checkpoint passes it all the same |
| `MarketCacheError` | a failed cache read ends in a nil dereference |
| `CooldownRace` | two workers: both goroutines of a wallet pass the cooldown check before either stores its alert (`processor.go:884`); README: "Cooldown between alerts for same wallet". The deployments set 3 and 5 workers, only the fallback of `config.go:118` is 1 |
| `ShutdownLosesResults` | an orderly shutdown, without any error or crash, after the resolution is stored loses the wallets' results; without the shutdown (`MaxCrashes` 0) the property holds |

### Deviations without a run

Modelling showed other places where the code does not do what its comments or the
repository's README say. The modules contain the behaviour; no run is spent on it.

- "Get existing position to properly accumulate" (`processor.go:835`) adds the stored
  position to the struct, and `UpsertNetPosition` adds the struct to the row once more: two
  trades count as three. Of two concurrent first trades the second is lost.
- `ALERT_MODE=multi`, which the README documents and recommends for production, is refused
  by `Validate`; the variable is `DISCORD_WEBHOOK_URLS`, not `DISCORD_WEBHOOK_URL`. A mode
  given twice sends twice.
- "`SMTP_TO` | `alerts@example.com`" in the README, but `Load` has no default and `Validate`
  asks only for `SMTP_HOST`: the first alert takes `s.to[0]` of an empty list (`smtp.go:38`),
  and the panic kills the process (`SMTPPanic`).
- `smtp.SendMail` has no timeout: a silent mail server stops the pass, and with it the main
  loop and its reaction to signals, while `/health` still answers "healthy".
- An expired row is not used when Gamma fails, so the category it holds does not filter.
- A trade the Data API lists late, below the checkpoint, is skipped for ever
  (`processor.go:97`), and so is one beyond the limit of a page.
- A crash between `InsertTrade` and the send loses the alert, as the next pass takes the
  trade for a duplicate (`processor.go:145`, `:241`).
- A new wallet's row starts at `TotalTrades` 1 because of the default tag
  (`models.go:43`), so `isFirstTrade` is never true.
- `UpsertWallet` adds the struct, which already holds the stored total, to the row
  (`storage.go:161`).
- A rate below one request per second gives a bucket that never holds a token
  (`ratelimit.go:66`): `Wait` returns only when it is cancelled.
- Velocity and concentration add the current trade to a sum that already contains it
  (`processor.go:1361`, `:1392`).
- The funding time is the first-seen time (`processor.go:625`), so the funding age is
  always 0 and the flash-funding boost is never given.
- The severity thresholds apply to the normalised score and default to 70 and 85, where
  the README has 5000; the test of the severity is commented out (`processor.go:579`), so
  every processed trade is alerted on.
- The daily tick starts a recalculation although one still runs (`main.go:115-121`), which
  takes one longer than a day. Both may count a market, and since a row of `wallet_stats` is
  read and saved in two calls (`processor.go:1161`, `:1191`), the save of the one may erase
  the other's result. The modules contain both; no property says that a row's total is
  the number of markets counted.
- "Zero or negative position = loss" (`processor.go:1174`): zero counts as neither.

### Fairness

- `Processor!FairSpec`: weak fairness of `ProcessTrades` (the ticker starts pass after
  pass, the loop never exits by itself) and of each goroutine (the Go scheduler runs what
  can run; the HTTP client has a timeout, so calls return). A free mutex or worker is
  taken from a queue, and in the instance weak fairness is enough: nobody can take
  the same one for ever, because a pass runs every trade once. Neither publication,
  crashes nor the clock are fair.
- `RateLimiter!FairSpec`: time passes and a goroutine that can run is run. Cancellation
  and new calls are not fair.
- `MarketCache!FairSpec`: time passes, and a call goes on whenever the database and the
  limiter let it. Nothing is assumed of Gamma's answers and errors: `CallReturns` rests on the
  timeout of the `http.Client`. It is in turn why `Processor` may assume that a goroutine
  comes out of `resolveMarket`.
- `Alerting!FairSpec`: a goroutine runs on and Discord's ten seconds pass. Nothing is assumed
  of Discord and of the mail server.
- `Service!ServiceFairSpec`: the tickers tick, a pass ends (`PassCompletes`, as long as no
  mail server is silent), a recalculation runs on, the container restarts (`restart:
  unless-stopped`). Strong fairness of the three cases of the `select`: each is disabled
  again and again while `main` is in a pass, but Go chooses uniformly at random among the
  channels that are ready, so one that is ready at infinitely many choices is chosen. Signals,
  kills and the closing of markets are not fair.

## Proofs

`ProcessorProofs` proves, for any finite set of trades, any number of workers, errors,
crashes and late trades:

- `TypeCorrect`: `Spec => []TypeOK`.
- `AppliedOncePerHash` (`OncePerHash`), by `DedupInv`: a goroutine past its insertion has
  its own row in `trades_seen`, rows have different hashes, and a trade whose goroutine
  has not yet updated the wallet was not applied. `OncePerHash` alone is not inductive: it
  does not say that nobody is about to apply a trade once more.
- `CheckpointBarrier` (`NoInFlightBelowCheckpoint`) and `CheckpointNeverBack`
  (`CheckpointMonotone`), by `PassInv`: a pass in progress has read the current checkpoint,
  and goroutines run only while the main goroutine waits, for trades above that
  checkpoint. The written value is above the checkpoint because the value read at the
  start of the pass is still the stored one.
- `LookupExclusive` (`NoDuplicateLookup`), by `LockInv`: whoever is between the lock and
  its return holds the wallet's mutex, and has found no row since.
- `WorkersNeverLost` (`WorkersConserved`), from the cardinality of the set of active
  goroutines, which each step changes by the same amount as the pool.
- `WalletUpdatesKept` (`NoLostWalletUpdate`), by `TotalInv` over `LockInv`: a row is above the
  number of trades applied to its wallet, and without a row there are none. The second half
  is what the insertion needs: it writes 1 without looking at the trades applied before.
  `UpdateWallet` adds one and the total that was read to the stored row, so the row grows by
  at least one with every trade although the value read may be stale.

`ProcessorConditions` proves two properties that need a condition, under which no run
finds them violated:

- `CheckpointIsWatermark`: with `NothingLost` (trades listed in order, all on one page, no
  error of `HasTradeSeen`, `GetWallet`, the creation of the wallet or `InsertTrade`),
  `Spec => []Watermark`. The invariant adds that each trade of the page is running, done
  with, or below the checkpoint that was read, and that nothing published later is as old
  as the page.
- `CooldownPerWorker`: with a readable last alert, `Spec => []AlertsPerCooldown`, for any
  number of workers. `AlertsPerCooldown` is not inductive, as it does not see the goroutines
  that are past the check: `CooldownInv` says that the alerts of a wallet in the cooldown
  that an alert starts, and the goroutines of the wallet about to store one, are together no
  more than the workers while that cooldown lasts. Nobody joins the second group in that
  time; storing moves one from the second to the first; and before the first alert there are
  no more of them than workers. A crash or an error only empties the second group.

`WatermarkInsertError` shows what happens without the first condition, and `CooldownRace` that
the bound of one alert per cooldown, which the documentation promises, is not reached.

`ProcessorLedger` proves, again without conditions, `ProcessorImplementsLedger`
(`Spec => ImplementsLedger`) and `AlertedOncePerHash` (`AlertedOnce`). The invariant is
`TypeOK`, `DedupInv` and `PassInv` with `AlertInv`: a goroutine between its insertion and its
alert has its row and no alert, alerts are of stored trades, one each, and whoever is about
to send has an alert that was not delivered. Each of the five actions that touch the ledger
is one step of it (`LedgerInsert`, `LedgerCount`, `LedgerAlert`, `LedgerDeliver`, and the
checkpoint by `PassStep`); the rest leaves it alone.

`MarketCacheProofs` proves `TypeCorrect`, `StampsHonest` and `AnswersFresh` for every TTL,
timeout, set of errors and number of goroutines. `StampHonest` is not inductive, as a row is
written from a record: the invariant says the same of every record in memory, that a request
is within its timeout, and that a record about to be written was asked for in this call.

`RateLimiterProofs` proves `TypeCorrect` and `RateBounded` for every rate, also the ones
`New` replaces, and any number of callers. `RateBound` is not inductive: the invariant also
counts the tokens in the bucket and those the elapsed time will add.

`ServiceProofs` proves `ServiceTypeCorrect`, `MarketCountedPerOverlap` and `WinRateIsRate`
(`TypeOK`, `CountedPerOverlap`, `WinRateBounded`) of `ServiceSpec`, for any trades, markets,
outcomes, price lists, errors and restarts, and any finite number of recalculations at once.
`CountedPerOverlap` is not inductive: nothing in it says how often a market may still be
counted. `CountInv` adds to the count of a wallet the recalculations that found the market
unresolved and have not yet counted it for the wallet (`MayCount`): together they never exceed
the slots. A recalculation joins them only while the market has no resolution, when the count
is still 0; once a resolution is stored nobody joins any more. `LoopInv` says that only what
was started runs, and `RunInv` that a wallet is pending once in a recalculation and that the
row it is about to save has a rate, which holds however stale that row is. With one slot
`CountedPerOverlap` says that a market counts once.

`ScoringProofs` proves `ScoringTypeCorrect`, `BurstAlwaysSeen` and `MultipliersOnlyRaise`
(`TypeOK`, `BurstSeen`, `NeverBelowBase`) for any number of trades, wallets and markets, any
window, thresholds and statistics. `BurstSeen` speaks of trades that were alerted on;
`BurstInv` says it of every trade that has counted, and `CountedStored` that such a trade is in
`trades_seen`. The goroutine of a burst that counts last then has all of it among its recent
trades, and the others are covered by the state before. `NeverBelowBase` rests on one lemma
per multiplier: its guard keeps it at 100 per cent or more.

`AlertingProofs` proves `AlertingTypeCorrect`, `ValidatedChannels`, `SendersIsolated` and
`NilMeansDelivered` (`TypeOK`, `ChannelsAsConfigured`, `EverySenderTried`, `OkMeansDelivered`)
for any alerts, any number of modes and of webhooks. The invariant adds to `EverySenderTried`
that while `MultiSender` is in its loop each sender before the current one has delivered or
failed (`TriedSoFar`), that nil means no error (`OkHasNoError`) and that a service runs only
with a configuration that `Validate` accepted. `SendersAsConfigured` is about
`createAlertSender` alone: the senders of the list are those of its modes, by induction over
the list.

Induction over data. The library's induction theorems take an operator as a parameter and
cannot be used, but its theorems about well-founded relations are about sets. `MinType`,
`MaxType` and `NatSetInduction` are derived from `WFMin` and the well-foundedness of `<`; the
last gives the existence of the recursive function of `SendersUpTo` (`SendersUpToDef`) and
what it holds (`SendersUpToHas`).

Assumptions of the theorems: `ConstantsAssumption`, `WinRatesAssumption`, `ScoringAssumption`,
`AlertingAssumption` and those of `MarketCache` and `RateLimiter`, which give the constants
their types and say that the trades and the recalculations at once are finitely many; TLC evaluates them in the runs.
Conditions beyond these are only those of `ProcessorConditions`.

Every invariant and action property that a passing run checks is proved. Only model-checked are the
liveness properties (`PassCompletes`, `EveryTradeHandled`, `WaitReturns`, `SignalObeyed`,
`TickServed`, `CallReturns`, `SendEnds`): fairness and `ENABLED` are outside the prover's reach.
What the net position and the volumes add up to (`netPosition`, `Volume`) is a sum over a set,
of which the proofs only use that a win is above zero and a loss below; no theorem says that
the sum is the right one.

## Not modelled

- Clusters (`trackFundingSource`, `detectCoordinatedTrade`, `getClusterMultiplier`): never
  reached. `GetFromAddress` returns `""` (`dataapi/models.go:49`), so no funding source is
  stored and every later step returns early; and a cluster id, `cluster_` with a 64-digit
  hash, would not fit its column of 64 characters. A model would have to start in states that
  the program cannot be in.
- Most of the configuration, secrets, metrics, the HTTP server for health and metrics, formatting of alerts, HTTP and JSON, schema migrations:
  no state that a property depends on. A worker pool of size 0, which `Validate` accepts,
  is excluded by `ConstantsAssumption`.

## Plan

Done: every module of the table, with its runs, and a theorem for every invariant, action
property and the refinement. Next, in this order:

1. What `netPosition` adds up to: one more trade of the wallet changes it by its signed
   amount, so that a win is a win for any set of trades.
2. `ShutdownLosesResults` with its condition: if no shutdown, no
   error and no second recalculation falls between `store` and the last wallet, every
   resolved market is counted, as a safety property of the end of a recalculation.
3. An abstract specification of the alerts that `Alerting` implements.
