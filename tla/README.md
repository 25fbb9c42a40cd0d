# EmcurePriceTracker: TLA+ models, checks and proofs

The program trades NSE shares for its owner: a *managed cycle* places real
orders at Zerodha (Kite), a *manual trade tracker* watches the levels of a
trade the owner makes by hand, and around them run an intraday robot
(KittyBot), a stock radar, a crypto tracker, bot commands, briefings and a
watchdog. This directory holds TLA+ modules of these parts, the TLC
configurations that check them, and proofs for TLAPS.

Paths below are relative to the repository root; a path like
`managed_cycle.py:587` is under `src/emcure/` when it is not said otherwise.

- [The system](#the-system)
- [The modules](#the-modules)
- [The runs](#the-runs)
- [Disagreements between code and docs](#disagreements-between-code-and-docs)
- [The proofs](#the-proofs)
- [Abstractions and limits](#abstractions-and-limits)
- [Not modelled](#not-modelled)
- [Plan](#plan)

## The system

### Processes

| process | entry point | what it does |
|---|---|---|
| tracker | `apps/main_headless.py` | every 5 minutes in market hours: quote, signals, `managed_cycle.step()`, the Supertrend strategy, alerts; briefings and digests by the clock |
| dashboard | `apps/main.py` | the same `_refresh`, drawn in a terminal; may run beside the tracker |
| bot | `apps/bot_server.py` | Flask threads (WhatsApp webhook) and a Telegram poller thread; all run `src/emcure/commands.py` |
| command line | `apps/trade.py` | BUY / SELL / TRACK on the manual trade |
| KittyBot | `apps/kittybot_headless.py` | 30 s ticks: picks, opening range, one entry a day, exits, safety rails |
| radar, crypto | `apps/radar_headless.py`, `apps/crypto_headless.py` | scans, alerts, outcome booking |
| news monitor | a thread of the tracker | headlines, sentiment shifts |
| watchdog | `apps/watchdog.py` | timer: are the heartbeats fresh? |

They are services that the system restarts when they die (`deploy/*.service`),
and they share nothing but files, the broker and the message channels.

### Components, their state and operations

| component | state | operations | what makes it correct |
|---|---|---|---|
| managed cycle (`managed_cycle.py`) | `managed_state.json`: position (entry, levels, observed extremes, id, trigger and time of the resting stop), EXIT and HALT flags, the day's tally | `step()`: settle, adopt, observe, decide, sell, buy, keep a stop resting; EXIT / HALT / RESUME | never oversells, at most one stop, the stop never moves down, every exit booked once, exits are retried, risk guards hold |
| broker client (`src/execution/broker.py`) | access token; orders at the exchange | place, confirm, cancel, stop-loss, order queries, holdings, login | a failed or late answer is not taken for a fill, and a fill not for a failure |
| manual trade tracker (`trade_manager.py`) | `trade_state.json`: levels, levels hit, high watermark | `set_trade`, `clear_trade`, `check_and_mark`, `current_pnl` | each level alerted once, no resurrection, the stop is never masked |
| bot commands and channels (`commands.py`, `src/notify/`) | update offset, cached broker, halt flag, token file | poll, BUY, SELL, STATUS, TOKEN, EXIT, HALT, RESUME | each command handled, in order, once by a living poller |
| atomic store (`src/shared/atomic_json.py`) | files, lock files, temporary files | `locked`, `read_json`, `write_json` | readers see a whole file, a locked update is lost only to one whose own read failed |
| Supertrend strategy (`strategy.py`, `state.py`, `supertrend.py`, `apps/main.py`) | `strategy_state.json`: position, session, consecutive losses | open, partial exits, close, circuit breaker; the line itself | records follow confirmed orders, the breaker counts each loss once, the line only tightens |
| KittyBot (`src/kittybot/`) | `kittybot_state.json`, `daily_picks.json`, memory of today's entry | screen, load, filter, opening range, size; tick: enter, protect, exit, rails | one position a day, risk within the budget, the day's loss is never under-counted, halts hold |
| tracker loop, alert log, schedule (`main_headless.py`, `src/shared/alert_log.py`, `schedule.py`) | `alerts_sent.json`, the broker variable, sleep | login, briefings, refresh, digests | each briefing once a day across restarts; trading on today's login only |
| ledger (`ledger.py`) | `emcure.db` | insert, migrate, reports, digests | every row in its day, week and total, once |
| radar (`src/radar/`) | `radar.db`, gates in memory | scan, gate, dispatch, digest, evaluate outcomes | budgets, cooldowns, each outcome booked once |
| crypto (`src/crypto/`) | alert file, `crypto.db` | scheduled and signal alerts, outcomes, portfolio | the same, per horizon |
| news monitor (`src/market_intel/`) | window of headlines, pending shift | fetch, prune, add, hand over | a headline counts once |
| watchdog and heartbeats | `heartbeat.json` | touch, check | a dead loop is noticed, a sleeping one is not |
| signals, scoring, prediction, research | none that outlives a run | functions of price series | the rules they state; no hindsight |

### Interactions and what is hard about them

- **Tracker and exchange.** `step()` is a chain of broker calls. Between any
  two of them the resting stop may fill, an order may be rejected, a call may
  fail before or after it took effect, and the process may die. What `step()`
  believes about an order is never more than what its last query said.
- **Tracker and bot.** EXIT, HALT and RESUME write the file that a running
  `step()` has already read; TOKEN writes a token that the tracker reads later.
- **Tracker and dashboard.** Both may run the same refresh and both may call
  `step()` and `check_and_mark`.
- **Restarts.** What a process remembers (KittyBot's entry of today, the
  radar's budget, the poller's offset) is gone after a restart; what it wrote
  (tallies, alert keys, positions) is not. Most hazards lie between the two.
- **Days.** Stop orders are day orders. The position outlives them, the day's
  tally does not, and yesterday's order history cannot be read. Halts, weeks of
  the ledger and logins all turn at a day's boundary.
- **Two decisions about one level.** A bar that touches the target and the
  stop, a price on a rung, a level passed before the entry: off-by-one
  questions, in the live code and in each backtester.

`PROJECT.json` lists these hazards at their lines with the properties that
cover them, or the reason why none does.

## The modules

| module | source | contents |
|---|---|---|
| `ManagedDecide` | `managed_cycle.py` | ladder, stop and gap resolvers, regime gate, `decide()` as operators |
| `ManagedCycle` | `managed_cycle.py`, `broker.py`, `commands.py`, `main.py` | `step()` split at each broker call, the state file, the exchange, the other writers, faults |
| `OrderOutcome`, `OrderConfirm` | `broker.py` | what `place_order_and_confirm` promises its callers; the call itself, poll by poll, with partial fills and lost answers, implementing it |
| `AtomicStore`, `JsonStore` | `atomic_json.py` | a register that updates change at once; lock, failing reads, temporary file, dump, replace and crash, implementing it |
| `TradeManager` | `trade_manager.py`, `commands.py`, `trade.py`, `main_headless.py`, `ledger.py` | the manual trade's file under its lock, checkers, handlers, alerts |
| `CommandBot` | `telegram_bot.py`, `commands.py`, `broker.py` | Telegram's queue, the poller, its restarts, the handlers, the token file shared with the tracker |
| `TrackerDay` | `main_headless.py`, `schedule.py`, `alert_log.py` | the loop over days: sleeping, login, briefings, refreshes, digests, marks, raised cycles, restarts |
| `Watchdog` | `watchdog.py`, `heartbeat.py` | loops that work, hang, spin or are down; beats; alarms |
| `Supertrend` | `main.py`, `state.py`, `strategy.py` | one refresh of the strategy: load, orders, records, save; the session's result and the circuit breaker |
| `SupertrendLine` | `supertrend.py` | the two bands and the line, bar by bar |
| `KittyPicks` | `src/kittybot/` (screener, picks, filters, opening range, risk) | from screened frames to one sized trade, over files that load, fall back or raise |
| `KittyBot` | `src/kittybot/` (engine, state, safety, broker) | days of ticks: entry, exits and their retries, tallies, rails, restarts |
| `Ledger` | `ledger.py` | rows, migration, day, week and total reports, evening lines, digests, failing inserts and queries |
| `Radar` | `radar_headless.py`, `src/radar/` (dispatch, store, tracker, analytics) | gates, work of a pass, rows, muting, digests, the outcome sweep |
| `RadarRules` | `src/radar/` (regime, signals, scoring, scan, tracker) | detectors, confidence, stop and target, the verdict over bars |
| `Crypto` | `crypto_headless.py`, `src/crypto/` (outcomes, messages) | scheduled and signal alerts, alert keys, rows and their horizons |
| `CryptoRules` | `src/crypto/` (signals, portfolio, costs) | trend label, score, fees and tax over several coins |
| `CryptoLab` | `src/crypto/reversion.py` | the mean-reversion backtest |
| `NewsMonitor` | `news_monitor.py` | the window of headlines and the shift |
| `SevenDays`, `Intraday` | `intraday.py`, `main.py` | seven-day average, gap and trend; entry signal, plan, opening range and the clock's exits over a session |
| `Predictor` | `predictor.py` | confidence, odds, tiers and the three briefings of a day |
| `HitRates` | `scoring.py`, `probability.py` | the walks over past bars behind every percentage that is quoted |
| `ScoreRules` | `scoring.py`, `pivots.py` | the composite score and the pivot ladder |
| `DayBacktest` | `backtest.py` | the intraday backtest, its overnight holds and its report |
| `SwingLab` | `src/swing/` | the portfolio replay: one position, exits, sizing, charges |

Proof modules: `ManagedCycleProofs`, `ManagedBooksProofs`,
`ComponentProofs` (the manual trades, the order, the store, the commands and the
radar's loop), `KittyBotProofs` (the bot and its picks), `StrategyProofs`
(Supertrend, the ledger and the three backtests), `ServiceProofs` (the
tracker's day, the watchdog, the news, the coins and the hit rates),
`RulesProofs` (line, briefings, score, the rules of the radar and of the coins,
the intraday advice); `CountingTheorems` has what several of them need about
numbers, loops, sums and rankings. Modules named `MC...` give TLC its constants
and put components side by side.

Two kinds of model occur. The *processes* (`ManagedCycle` to `NewsMonitor`)
have one action per uninterrupted stretch of code and split a handler wherever
another process, a crash or an answer can come between. The *rules*
(`RadarRules` and the rest) are operators, driven by a small next-state
relation that feeds them one bar, day or reading after another, so that
properties can speak of two readings at once.

### ManagedCycle

`position`, `exit_requested`, `halted`, `day`, `pnl_today`, `stopped_out` and
`cooling` are the fields of `managed_state.json`. `price`, `shares`, `cost`,
`orders` and `today` are the exchange and the account. `pc` is where the
running `step()` stands, with the locals it carries over a call: the decision
(`action`), the order being confirmed (`order`), where
`_ensure_protective_stop` returns to (`after`) and the extremes it read at the
start (`seen`). `account_pnl`, `stop_hit` and `exit_stale` are history: what
really happened to the account, for the properties to compare with.

Each action is one broker call with the file updates up to the next one:

| code | actions |
|---|---|
| `_maybe_roll_day`, `get_position` | `StepBegin` |
| `held_qty` and settle / adopt | `FoundClosed`, `SettleClosedPosition`, `Adopt`, `HeldUnremarkable` |
| `get_ltp`, extremes, EXIT, `decide`, dispatch | `DecideStep` |
| `_execute_sell` | `SellCancelsStop`, `SellQueriesStop`, `PlaceSell` |
| `_execute_buy` | `BuyChecks`, `PlaceBuy`, `PlaceInitialStop` |
| `_await_fill` and what follows it | `FillConfirmed`, `OrderFailed`, `WindowEnds`, `CancelUnfilled` |
| `_ensure_protective_stop` | `EnsureStop`, `EnsureQueriesStop`, `EnsureCancelsStop`, `EnsurePlacesStop` |
| another refresh without a broker | `DataOnlyStep` |
| `handle_exit`, `handle_halt`, `handle_resume` | `RequestExit`, `SetHalted` |
| the exchange, the owner, the clock | `MovePrice`, `StopFills`, `LimitFills`, `Rejects`, `ManualBuy`, `ManualSell`, `CooldownElapses`, `NextDay` |

`Faults` names what may go wrong in a run and `MaxGlitches` how often:
`place`, `cancel`, `query` (a call fails, for `cancel` with or without effect),
`ack` (an order is placed but the answer is lost), `nofill` (the confirmation
window ends), `crash`, `manual`, `nobroker`, `dashboard`. `race` lets the
market move while a step runs and `lag` lets the quote differ from the
exchange's price.

### TradeManager

`file` is `trade_state.json`, `lock` its lock file, `view` what a locked
section loaded, `quote` the extremes a refresh fetched before it checks,
`pending` the hits whose alerts are not sent yet, `priced` what `current_pnl`
answered in a SELL, `ledger` the rows booked, `alerted` the alerts sent. A
trade is identified by the number of its BUY (`opened_at` in the code).

`Refresh`, `CheckLoads`, then one of `CheckFindsNone`, `CheckCalibrates`
(with `CheckMarksFirstStop`, the second save of the same locked section) and
`CheckMarks`, then `SendAlert` for each hit are the tracker and the dashboard.
`Buy`, `SellGetsTrade`, `SellPrices`, `SellLoads`, `SellClears`, `SellLogs` are
the handlers, in any number of threads and processes. Reads outside the lock
(`get_trade`, `current_pnl`) are steps of their own, as in the code.

### KittyBot

`kfile` is `kittybot_state.json` (position, streak, halt, tallies, drawdown),
`kmem` what a restart loses (the day's preparation, entry and skip flags),
`kshares` the shares at the venue. A tick is one action unless it trades; then
`kpc` says what is yet to be written: the position of an entry that filled
(`entry_filled`), the end of one whose exit filled (`exit_filled`), the result
(`closed`), the rails that follow from it (`booked`). `khist` counts
entries, earnings and losing days. Faults: a crash at any point, an order that
does not fill or fills late, a tick that raises and is caught by the loop.

### Other processes

- `OrderConfirm`: `stage` is where the running call stands, `reply` what each
  call answered, `filled` and `status` the exchange's side. `glitched` are the
  calls in which a broker call failed.
- `JsonStore`: `content`, `tmpfile` and `handle` are the file, the temporary
  file of each process and what a writer's handle points at (a handle follows
  its file through a rename); `holder` is the lock. `misread` and `blind` are
  history: the updates and the readers whose read was answered with the default.
- `CommandBot`: `bserver` is Telegram's queue, `boffset` and `bbatch` the
  poller's, `bsaving` a token write under way.
- `TrackerDay`: a tick is a stretch of the day between two things that the
  schedule tells apart; `tpc` is the stage of the cycle, a message being sent in
  one step and marked in the next.
- `Radar`: a pass of the loop leaves its work in `rwork` (the alerts the gate
  let through, the muted hits, whether a digest is due) and does it item by item,
  the row of an alert and its message in two steps; an exception drops the rest.
- `Crypto`: a pass collects the keys of the messages it wants (`cwork`) and sends
  them one by one; `cdoing` is what is left to do for the last one, the row of a
  signal alert and the mark.
- `Supertrend`: a refresh is one action up to the save, which is another;
  `sthist` remembers which fault makes file and venue differ.

## The runs

### How the runs are composed

A behaviour of the suite runs (`trading`, `services`, `live`) is about one
`part`: the component named by it takes its steps and the others stay where
they begin. The parts share no variable, so the states add up and do not
multiply, and a property of one part holds trivially in the others. In the
same way `cycle` and `recovery` run `ManagedCycle` in several *scenarios*, that
is with several values of its constants (`INSTANCE ... WITH`). One property per
component gathers its named conjuncts: the operators above it in the module are
the claims, each with its comment.

### Passing runs

| run | instance | properties |
|---|---|---|
| `cycle` | `ManagedCycle` with every fault but `dashboard` and `lag`, one glitch, two days, four orders, prices {2, 3, 5}, the market moving at any time; and *quiet*: one failed placement or unfilled order, seven orders, also price 6 | `RecordedStopDeadBeforeSell`, `TriggerIsEarned`, `TriggerOnlyRises`, `ExtremesOnlyWiden`, `BooksAgree`, `NoReentryWhileCalm` |
| `recovery` | one failing `place`, `cancel` or `query` or an order that does not fill, two days, six orders; *exit*: no fault; *dry*: `Live = FALSE`, with the dashboard | `TypeOK`, `NakednessPasses`, `StopOutsComplete`; `ExitClosesPosition`; `DryPhaseSendsNothing` |
| `trade` | two checkers, two handlers, two trades, one crash, lost alert or ledger failure | `TypeOK`, `EachLevelAlertsOnce`, `ClosedStaysClosed`, `MarksOnlyGrow` |
| `trade_stop` | two checkers, one handler, two trades, two sessions | `StopCrossedIsAlerted` |
| `trading` | nine parts, see below | `StoreRefinesRegister`, `LedgerTellsEveryTrade`, `KittyKeepsItsRails`, `PicksArePrudent`, `SupertrendBooks`, `LineIsATrailingStop`, `IntradayIsConsistent`, `PredictionsAgree`, `ScoresAreBalanced` |
| `services` | ten parts | `TrackerTellsTheDay`, `WatchdogTellsTheTruth`, `NewsCountsOnce`, `CryptoAlertsAreKept`, `CoinRulesHold`, `RadarRulesHold`, `OddsAreFair`, `BacktestIsHonest`, `SwingLabIsHonest`, `LabTradesAreReal` |
| `live` | three parts, with fairness | `UnfilledOrderIsDead`, `OrderRefinesOutcome`, `EveryCallReturns`, `CommandsRunInOrder`, `RadarAlertsAreKept` |

The passing runs take one to two minutes each with two workers (`cycle`, the
largest, has 1.7 million states).

What the properties say, and over which bounds:

- **`ManagedCycle`.** `RecordedStopDeadBeforeSell`: from the moment the market
  sale may be placed until it is confirmed, the recorded stop cannot fill
  ("cancel first so it can't also fire"), under every fault.
  `TriggerIsEarned`, `TriggerOnlyRises`, `ExtremesOnlyWiden`: the trigger is the
  original stop or a rung that was printed, and neither it nor the extremes go
  back, through re-arming, crashes and restarts. `BooksAgree` (never short,
  only the recorded stop rests, the tally is what the account made) and
  `NoReentryWhileCalm` (no buy on the day of a stop-out) hold while a behaviour
  is *calm*: every query is answered, every cancel works, nobody trades by
  hand, the tracker is not killed, and no order fills behind a running step's
  back (`FillIsSeen`). Failed placements, orders that do not fill, a missing
  broker and the dashboard do not disturb them (`Harmless`); `double_sell`
  shows what one of the others does. `NakednessPasses`, `StopOutsComplete`,
  `ExitClosesPosition`: the retries of the code succeed.
  *Bounds*: ladder {1, 3}, stop distance 1, dip 2 under an SMA7 of 5 and prices
  {2, 3, 5, 6} give an entry at 3 with its stop at 2, both rungs (4 is jumped
  over, 6 reached), a pullback onto a rung, a stop ratcheted above the original
  and a position that cannot re-enter. Without price 6 the ratchet still has its
  lower rung. Four orders hold a buy, its stop, a ratchet and a sale; six or
  seven also a second round; two days hold one overnight lapse; the daily limit
  of 2 is exceeded by two stop-outs. `StepBegin` keeps two orders in hand, so a
  run ends between steps (`Exhausted`), which the liveness properties accept.
- **`TradeManager`.** What the lock of `trade_state.json` is for: an alert
  waiting in one process is neither sent nor waiting in another; a check that
  loaded the trade before a SELL does not bring it back; an older quote checked
  late moves nothing back; the watermark, which masks targets, never masks the
  stop. *Bounds*: prices {1, 5} lie at the stop and beyond two of the three
  targets; two trades and two sessions are what an overwritten trade, a stale
  quote and a new session need.
- **`JsonStore`** (two writers in one process, one in another, a reader without
  the lock; the process may die at every step, every read and write may fail):
  `StoreRefinesRegister`, the file is a register that updates change at once.
  `read_json` answers a read that fails with the default (`atomic_json.py:55`);
  a locked update goes on from there and replaces the file with itself alone,
  and a reader sees nothing. The register has both as actions of its own
  (`Replace`, `LookFails`), so what is shown is that nothing else loses an update
  or takes a reader back. Without that exemption the claim is false:
  `AckedUpdatesStay` and `ReadersNeverGoBack` below.
- **`OrderConfirm`** (two calls for two shares, three polls): each call returns,
  answers "filled" only for a whole order, and a call in which no broker call
  failed leaves no live order behind.
- **`KittyBot`** (Friday to Monday; prices 7, 11, 13 around an entry at 10: a
  loss beyond the day's limit, the target, and one above it; one fault of any
  kind): the record is the position at the venue, every result is tallied once,
  one entry per life of the process, no entry while halted, flat at the close,
  and the drawdown halts for good.
- **`KittyPicks`** (three symbols, two picks; a screened file, a missing one,
  one whose picks are no list, and two made by hand, one with a previous close
  that `float()` refuses): the screener lists the best, a kitty that loads is
  usable, the trade is the strongest surviving breakout, its levels bracket the
  entry and its risk is within the budget. A file may raise while it is parsed
  (`picks.py:102`, `:121`); `KittyIsUsable` says that the screener's own file and
  a missing one never do, and that the day of one that does has no trade.
- **`Supertrend`** (two days, three buys, one fault): the record follows the
  venue between refreshes, no position is doubled, no buy after two losses, the
  session's result is net. **`SupertrendLine`** (six bars of five kinds): the
  line, once on its side, only tightens; it turns on a cross alone, and is on its side
  except after a bar wider than its bands (`WideBar`). *Bounds*: ranges of three
  bars times one are, like the ten times three of the code, in the regime where
  the period is more than twice the multiple.
- **`Ledger`** (two rows, two weeks of two days, an old-schema row, one failing
  insert or query): digests tile the weeks, days add up to weeks, no total moves
  without its row. What was said is recorded when it is said: an evening line
  and a digest whose query fails are told zeros and are marked as made
  (`ledger.py:195`, `:214`, `main_headless.py:420`). `DigestsTile` therefore says
  that a trade is in its week's digest exactly when it was closed by then and
  the query was answered, and `DaysMakeTheWeek` is about lines and digests that
  were answered; that a marked week has told its trades is false
  (`MarkedWeeksAreTold` below). A message and its mark are one step here; a crash
  or a failed send between them is in `TrackerDay`.
- **`TrackerDay`** (a holiday Thursday to Monday; one failed login, missing
  data, failed send, raised cycle or crash): briefings once a day, holidays
  quiet, signals a cooldown apart across restarts, no strategy gets a broker
  whose session is of an earlier day.
- **`CommandBot`** (three updates, two days, one lost answer, raise, crash or
  failed login): commands run once in a life, in order, the last HALT or RESUME
  decides, none is left unhandled.
- **`Radar`** (two combinations, five passes, three rows, one fault),
  **`Crypto`** (one coin, five passes, two horizons, one fault): sends within
  budget and cooldown, a row for every alert, outcomes booked once, in the
  alert's direction, and every matured row judged in the end.
- **`Watchdog`** (nine ticks, two stalls): every stall in market hours is
  alarmed and nothing else. **`NewsMonitor`** (four titles, feeds of up to two,
  six ticks, one fault): a headline is of one fetch, in an ordered window, and a
  shift needs a past.
- **Rules.** Each is fed every combination of a small grid that has values on
  and on either side of every threshold that is used: `RadarRules` (verdict of
  the first touch, rewards cover risks, deeper never ranks lower),
  `CryptoRules` (contrarian score, no loss set off in the tax), `HitRates` (six
  bars of four kinds: labels equal rates, further is not likelier),
  `Intraday` (all seven-day histories of three closes: deeper is not weaker,
  the trend mirrors, the gap follows the price), `Predictor` (odds add up, the
  morning repeats the evening, bells mean a dip), `ScoreRules` (monotone, a
  share in every regime).
- **Backtests** (`DayBacktest` up to four days, `SwingLab` six days of five
  kinds and two stocks, `CryptoLab` five days): no decision uses a later bar
  (past trades stand when days are added), doubt is a loss,
  reports add up. That every exit is at a price of its bar holds, and is stated,
  only of `DayBacktest`: `SwingLab` and `CryptoLab` fill a stop at its level, as
  the code does, also on a bar that opens below it.

**Fairness.** `ManagedCycle`: `WF_vars(Step)`: the tracker is a loop that
catches every exception and is restarted by systemd (`main_headless.py`,
`emcure_price_tracker.service`); and `WF` of the fill of the order being
confirmed: the exchange either fills a marketable order or the window ends, and
a window that ends is a glitch. Nothing is assumed of the bot, the owner or
prices. `TradeManager`: the loops keep refreshing (`WF` of each checker) and a
handler that has started runs to its end; nobody has to send a command. `live`:
`WF` of the running call of `place_order_and_confirm` (its deadline is local
time), of the poller, the handler and the end of a token write
(`telegram_bot.py`: a `while True` that catches), and of the radar's loop, which
is again a service. In none of them is a message or a user assumed to come.

**Deadlock** is checked in the runs of `ManagedCycle` and `TradeManager`, which
cannot stop. The suite runs switch it off: each part ends at its last day, bar
or pass, which is a bound of the model.

Every property is accompanied by a mutant of the model that breaks it
(operators marked "Mutant" in the modules): a cancel whose outcome is ignored,
a tally that is overwritten, a check without the lock, a temporary file that is
the target itself, a poll that takes a part for the whole, a halt that is
shadowed by a smaller one, a backtest that averages today's close, and so on.

## Disagreements between code and docs

### Refuted by TLC in a run

- `exit_lost` (`managed_cycle.py:587`): the EXIT flag is consumed before the
  sale. If that sale does not fill, nothing sells any more, although the bot
  has promised it.
- `double_sell` (`managed_cycle.py:752`): the ratchet ignores what the cancel
  answered. If the old stop has just filled, the new one is a sale of shares
  that are gone. One unanswered query is enough.
- `token_lost` (`src/notify/telegram_bot.py:110`): the whole message is put in
  capitals before it is split, so a request token with a small letter reaches
  the broker as another one.
- `skip_nothing` (`src/kittybot/engine.py:346`): a breach of the day's loss
  halts until tomorrow, and the halt is over when tomorrow begins; no day is
  skipped.
- `login_once` (`apps/main_headless.py:774`): one failed login sets the broker
  to `None`; no later day tries again.

### With a configuration of their own

These are TLC configurations outside the list of runs; each is refuted in
seconds.

- `MCFindStopUnbooked` (`MCManagedCycle`; `managed_cycle.py:702`): a stop that
  filled after the last step of a session is looked up in the next one, when
  order history no longer knows it; the position is cleared and not booked.
- `MCFindStaleExit` (`MCManagedCycle`; `managed_cycle.py:525`): an EXIT that
  arrives while the step settles an external close sells the next position.
- `MCFindFalseTarget` (`MCTradeManager`; `trade_manager.py:163`): without a new
  high the targets are compared with the watermark less one rupee, "below all
  targets", which is not below a target the day had passed before the entry.

### Stated in a module, false of the model

Operators that state a comment of the code and that TLC refutes when added to
the configuration of the component's run:

| operator | module | what the code does |
|---|---|---|
| `PriceIsTheEngines` | `CommandBot` | the bot's cached broker is not renewed by the tracker's login (`commands.py:69`) |
| `BookedAtMaturity` | `Crypto` | an outcome is booked at the price of the pass that finds it, possibly days later (`src/crypto/outcomes.py:115`) |
| `NoDuplicateRows` | `Radar` | a combination muted or unmuted within its cooldown is recorded twice, once per gate (`apps/radar_headless.py:150`) |
| `OrdersBeforeRecords`, `NeverOversold` | `Supertrend` | a refresh without a broker changes the record alone (`apps/main_headless.py:782`); thirds of one or two shares are one share each |
| `NoWorkIsAlarmed` | `Watchdog` | a loop that spins still beats (`src/shared/heartbeat.py:5`) |
| `OrbIsFixed`, `LoserStopsAtBreakeven` | `Intraday` | the range takes the bar that begins at 9:30 too, which is still moving (`intraday.py:151`); a losing position gets the first target less two rupees as its stop, above its entry and above the price (`intraday.py:337`) |
| `LineIsAlwaysOnItsSide` | `SupertrendLine` | a bar wider than its bands starts, or leaves, the line on the wrong side of the price (`supertrend.py`, the turn of the direction) |
| `NoBuyInAFallingWeek`, `TiersAsDocumented` | `Predictor` | the post-open briefing does not look at the trend; tiers are cut at 75 / 55 / 40, not 70 / 50 |
| `NoEntryIsBoth`, `ClimbRaisesTheOdds` | `HitRates` | a stop after the target is counted too (`scoring.py:209`); a level that is reached has 99 per cent, one that every day rose through 100 (`probability.py:107`) |
| `EachHeadlineCountsOnce` | `NewsMonitor` | a headline that is twice in one feed is kept and counted twice: the titles of a feed are compared with the window only (`news_monitor.py:193`) |
| `AckedUpdatesStay`, `ReadersNeverGoBack` | `JsonStore` | a read that fails is answered with the default (`atomic_json.py:55`): the next locked update replaces the file with itself alone, and a reader sees an empty file; "a reader ever sees either the old file or the new one" (`atomic_json.py:16`) |
| `MarkedWeeksAreTold` | `Ledger` | a digest whose query failed looks like a week without trades and is marked, "nothing to retry for" (`main_headless.py:420`): its trades are told nowhere |
| `LoadNeverRaises` | `KittyPicks` | `float()` of a malformed `prev_close` (`picks.py:102`) and a `picks` that is no list (`picks.py:121`) raise, although "parsing here never raises" (`picks.py:16`, `:119`) |
| `OnePositionAtATime` | `SwingLab` | an exit during the day frees its slot for an entry at that day's open (`src/swing/backtest.py:6`) |
| `TimeExitsWaitTheirDays` | `CryptoLab` | the end of the data closes a trade before its days are over |

### Seen while modelling

- After the confirmation window the cancel is best effort (`broker.py:371`);
  when it fails, the order stays open after the step. A buy left open like that
  doubles the holding, and a later stop protects only the recorded part.
- A HALT between the risk check and the order does not stop that buy
  (`managed_cycle.py:605`). The dip is measured on the delayed quote while the
  price is the exchange's (`:553`).
- After a stop-out sale that did not fill, the stop re-armed is at or above the
  market, which the exchange refuses (`managed_cycle.py:806`, `broker.py:406`).
- A stop fill whose status query fails once is cleared as an external close, so
  the same-day re-entry block is not set (`managed_cycle.py:704`).
- A crash between placing a stop and storing its id leaves an order the record
  does not know (`managed_cycle.py:758`).
- A dashboard refresh between the tracker's read and its write has its
  observation of a new extreme overwritten (`managed_cycle.py:580`).
- Two SELLs at the same time both price the trade and both book it
  (`commands.py:149`), although the ledger promises one row per closed trade
  (`ledger.py:12`).
- KittyBot books a result against the planned entry, not the fill; a restart
  may enter a second time on a day; an exit that filled late or in part is sent
  again in full.
- Supertrend buys when `held_qty` has no answer; a quantity of three leaves an
  open position of zero shares after the third target.
- A redelivered command runs again after a crash of the poller, and the same
  SELL may arrive over both transports; an edited message is a new command.
- On a weekend restart between 9:00 and 9:14 the pre-open briefing is sent; a
  crash between the evening's mark and its digest loses the digest; the holiday
  notice of a Friday says that trading resumes tomorrow.
- A radar cycle that raises after its select drops that cycle's hits; an outcome
  judged on part of its bars is never judged again; a win is booked at the end
  of its window, not at its target.
- The crypto loop catches no exception of its own; a portfolio file that is a
  JSON list stops it.
- A sentiment shift found during the reader's cooldown is dropped; a headline
  that was pruned comes back as a fresh one while the feed still has it.
- A state file that cannot be read for a moment is an empty state
  (`atomic_json.py:55`); if the write that follows succeeds, the trades, stops or
  tallies that were in it are gone.
- A failed ledger query tells zero rupees and no trades in the evening line
  (`ledger.py:195`), and no digest at all on a Friday (`ledger.py:214`); neither
  is asked again.
- `_prepare` sets its flag before it loads the picks (`engine.py:94`), so a file
  that raises is tried once: the tick is caught (`kittybot_headless.py:89`) and
  the day goes by without picks, not with the fallback's.
- A trade closed after the Friday digest is told in no digest, and a week whose
  Friday is a holiday has none; the "All trades" report includes paper trades.
- `SupertrendLine`: on bars without any range the two bands meet, and which one
  the line follows is decided by comparing values.
- `compute_rsi` is 50 when a window has no losing day.
- A trade that the backtest holds overnight may lose more than `risk_rupees`,
  the "max loss per trade" (`backtest.py:147`): no stop is looked at any more.

## The proofs

TLAPS checks seven modules of proofs and `CountingTheorems`, whose lemmas they
share. The theorems hold for every value of the constants that satisfies the
assumptions in the component modules: `ConfigAssumption`, `CycleAssumption`,
`NoneAssumption` (constants have their types, `None` is not a position),
`TradeAssumption` (also: no process is both checker and handler, plans are
ordered as `trade.py` demands), `OrderAssumption`, `StoreAssumption`,
`KittyAssumption`, `NoPositionAssumption`, `StAssumption` and
`NoStPositionAssumption` (types; a fill has a positive price; the markers are
not records), `TrackerAssumption` and `WeekAssumption` (a cooldown is shorter
than the night, holidays never close eight days in a row), `NewsAssumption`
(types; eight hours are within the window) and `CryptoAssumption` (types; a mark
is kept for a day at least and for longer than the cooldown), `BotAssumption`
and `RadarAssumption` (types; the token with a small letter is not the one in
capitals, the combinations are finitely many), `WatchdogAssumption` (the limit
is not shorter than the wait from the pre-open wake to the open, 15 minutes at
most: with a smaller one `NoFalseAlarm` is false), `SupertrendLineAssumption`,
`PredictorAssumption`, `ScoreRulesAssumption` (types; a close lies within its
bar; an RSI is a percentage, a sentiment between -100 and 100) and
`RadarRulesAssumption` (a snapshot has positive prices; the reward wanted for a
risk is between 1 and 10, because stops are kept in tenths of a rupee;
`RADAR_MIN_RR` is 1 unless the environment says otherwise) and
`HitRatesAssumption` (types; a close lies within its bar and a price is
positive; two bars at least are asked before there are odds, the code asks
eight; the last lookback is the longest). For what is bought and traded:
`PicksAssumption` (types; the fallback names a symbol once, a frame has between
one and a hundred sessions, a tick is half a rupee or more; the files made by
hand are any set of lists), `LedgerAssumption`
(types; strategies have different names, there is a day), `SwingLabAssumption`,
`CryptoLabAssumption` and `DayBacktestAssumption` (a bar's low is positive and
its open and close are within it; a backtest starts from seven positive closes;
a coin's stop is less than the whole price), `CryptoRulesAssumption` (prices and
amounts invested are positive, an RSI is a percentage) and `IntradayAssumption`
(a history has a close at least and all are positive; the times of the day are
in order). TLC evaluates each of them in the run that extends its module.

| module | theorems |
|---|---|
| `ManagedCycleProofs` | `TypeCorrect`, `StopDeadBeforeSell`, `TriggerEarned`, `RatchetOnlyRises`, `NothingForgotten`, `DryRunIsSilent`, `DryPhaseIsSilent`, `HoldKeepsTheFloor` |
| `ManagedBooksProofs` | `AccountMatchesBooks`, `StoppedOutStaysOut` |
| `ComponentProofs` | `TypeCorrect`, `AlertsOnce`, `ClosedForGood`, `MarksGrow` (manual trades); `UnfilledStaysDead`, `OrderKeepsPromise` (order); `StoreTypeCorrect`, `StoreIsARegister` (store); `CommandsHold`; `RadarKeepsItsLimits` |
| `KittyBotProofs` | `RailsHold`, `PicksHold` |
| `StrategyProofs` | `BooksHold`, `SwingIsHonest`, `LabIsReal`, `LedgerHolds`, `BacktestHolds` |
| `ServiceProofs` | `DaysAreTold`, `AlarmsAreTrue`, `NewsIsCounted`, `CryptoIsKept`, `OddsHold` |
| `RulesProofs` | `LineTrails`, `BriefingsAgree`, `ScoresBalance`, `RadarIsFair`, `CoinsHold`, `AdviceAgrees` |

**ManagedCycle.** `DataInv` adds to the types what each label of `step()` knows
(`ControlInv`: a position where one is held, a stop where it is queried, an
order with the right side where one is confirmed). Without it `TypeOK` is not
inductive: `SettleClosedPosition` reads `orders[position.stop]`. From it:

- `StopDeadBeforeSell`: `StopInv` says that the recorded stop is an order of
  the past whose status, once not open, stays so (`BookStep`, the lemma about
  every broker call), and that at the labels of a sale it is dead;
- `TriggerEarned`, `RatchetOnlyRises`, `NothingForgotten`: `RatchetInv` says the
  trigger is among the stop's levels, that the extremes a step carries are
  those in the file, and that what is placed is the largest level. They assume
  `NoDashboard`, that is one process at a time runs `step()`: with two, the
  last one is false;
- `DryRunIsSilent`: with `Live = FALSE` no label that sends is reached;
  `DryPhaseIsSilent` says it of the dry scenario that `recovery` runs;
- `HoldKeepsTheFloor`: `decide()` answers hold only above the stop, above every
  touched rung and below the top of the ladder.

**The books of ManagedCycle.** `BooksAgree` speaks of the moments between two
steps; what carries it over a step has two layers. `RecordsInv` holds under
every fault and says what the records name: no order is of a later day, the
recorded stop is a sell stop for the whole position at its trigger, the order
awaited is of today and a sale is for the whole position. `BooksInv` holds
while the behaviour is calm: only the recorded stop or the order awaited rests
(`RestPart`), a fill of the recorded stop is found before the step does anything
else (`FillPart`), the account holds the recorded position, or nothing once the
stop or the sale has filled (`HoldPart`), the day's tally is short of the
account's by exactly the fill not yet booked (`BalancePart`), and a stop-out is
in the file or about to be (`StopHitPart`). Every action that ends the calm
makes the implication trivial, so the work is in the steps that keep it;
the lemmas on orders (one placed, one filled, one cancelled) are shared by them.

**TradeManager.** `Inv` has four parts: the types (with: a handler about to book
has priced a trade), `LockedFile` (mutual exclusion, and the lock holder's copy
is the file), `AnnouncedIsMarked` (what is announced or about to be is marked in
the file or belongs to a trade that was overwritten) and the property itself.
`FileSteps` shows that every step either records a new trade or keeps the old
one, closed if it was, with at least its marks; it gives `ClosedForGood` and
`MarksGrow` at once, and `AlertsOnce` because a newly hit level was not marked,
hence not announced by anybody.

**OrderConfirm.** `OnePending` (only the current call is pending, all later ones
are unasked) and `StatusFits` (what a status says of the shares filled, and that
a call past its cancel has no live order unless a broker call failed) make
`UnfilledOrderIsDead` inductive. The refinement follows action by action: each
step is one of `Ask`, `FillMore`, `AnswerFilled`, `AnswerUnfilled` or leaves
`reply` and `filled` alone.

**JsonStore.** The lock gives one holder; what the holder loaded is what the
file holds, or nothing when its read failed (`misread`); its handle is on a
temporary file no one else has open, and that file is whole before it is renamed.
A rename is then the register's `Apply`, or its `Replace` after a failed read;
the locked read, the end of an update and a crash are `Fetch` or a stutter, the
return is `Acknowledge`, an unlocked read `Look` or `LookFails`.

**CommandBot.** Telegram's queue numbers its updates without a gap (`ServerPart`)
and the batch is what it holds from the offset on, without what came since
(`BatchPart`): so the command at the head is the first one not behind the offset
(`HeadIsNext`), it has not run in this life (`RunsPart`), and every switch behind
the offset is older than it. A poll takes from the queue what is behind the
offset and nothing else. After a restart nothing is behind it; the commands run
again in the same order, each switch putting right what it finds.

**Radar.** `AlertGate.select` is a walk over the hits, a recursive function;
`WalkHolds` says what it comes to after i of them (the budget counts what is
kept, each combination is kept once and has rested since its last alert) and
`UpTo` carries it to the last. From it: what was sent today and what is about to be
is within what the gate has counted (`PingPart`), a combination about to be sent
has rested since its last message (`SpacePart`), its row precedes the message
(`RecordedPart`). The day changes only after the close (`DaysGo`), which is what
lets the counts of a day start again.

**KittyBot.** `KittyInv` strengthens each rail by what the steps between a fill
and its record and the memory lost by a restart contribute to it: what is still
*due* to the tallies while a result is not yet recorded (`TallyPart`), which
flags a restart has cleared (`LifePart`), that a halt covers the day of its
cause and what a smaller halt may not shorten (`HaltPart`), the high-water mark
(`DrawPart`), the exit that the hard close forces (`FlatPart`) and the days
counted by the streak (`StreakPart`). Each part has one lemma per action group;
frame lemmas carry it over actions that leave its fields alone.

**KittyPicks.** A rank is the number of candidates that are better; over an order
without ties the ranks of a finite set are 1 up to its size, each taken once
(`EachPlaceOnce`, by removing the best), so the screener's list has every
candidate in its place and the ones left out are no better (`RankedAreTheBest`).
The loader is a recursive walk over the file: `WithPickKeeps` and `PicksRun` say
that what it holds after each line has every symbol once and is no longer than
allowed. A load that raises leaves the kitty unloaded, from which no survivor and
no trade comes; the screener's previous closes are numbers, so its list does not
raise. The size is a quotient, so its risk is at most the budget; stop and
target are rounded to a paisa, and a tick of half a rupee or more keeps them
apart (`RiskAndLevelsHold`).

**Supertrend.** `BooksInv` speaks of the `Current` state: the file between
refreshes, the pending one while an order is out and `save_state` is not yet
called. `SharesFit`, `LossesFit` and `ResultFits` relate it to the venue, to the
losses in a row and to what the day's trades made. `SessionPnlIsNet` is not
inductive because a partial exit books its price at once and its charges only
at the close: `ResultFits` subtracts what the open position has yet to book.
`OneSize` holds because a buy that was checked starts from no shares and the
size is capped by the risk. `Trades` (an order and its pending state), `Settles`
(the file at once) and `QuietKeeps` (no order) turn what an action does to the
record into the invariant, so that each action needs little more.

**Ledger.** What a report adds up is a sum over the rows with all others masked
(`Masked`, `TotalAt`). Masks that part the rows add up to the sum of their union
(`PartsAddUp`), for amounts as for counts: that gives the days of a week and the
lines of the strategies. `DigestsTell` and `LinesTell` are the invariants: what
an answered digest or evening line told is what its days hold now, less the rows
that were written after it; what an unanswered one told is nothing. A digest
comes after the lines of its days, so a row in time for its line was in time for
the digest, which is how `Heard` lets lines and digest agree. A row of a
week is told by one digest because two Fridays less than a week apart are the
same (`OneFriday`) and a digest is sent once for a day. No total moves without
its row: a table with one row more has, for every mask, the old total or the old
one and that row (`TotalOfOneMore`).

**SwingLab.** `SwingInv` says of the open position what the properties say of
its trade later: the way to its stop, times its size, is within the risk it was
sized for, the target is not below the stop, and it has not been held for all its
days. Every exit of a bar is then at the stop or above it (`PositionHolds`,
`TradeHolds`).

**CryptoLab, DayBacktest.** Both run anew over the data whenever a day is added,
so hindsight is a comparison of two runs: over the first n days the longer run
is in the same state, but for a trade that was open at the end of the shorter
(`RunRetold`, `BooksAreRetold`), by induction along the days; a trade depends on
the bars of its holding days only, and these are in the shorter data once its
outcome is settled. `OneAtATime` is carried along the run of the coins: entries
and exits are in order and every day with a signal is inside a trade. For the
report, `EachDayTraded` says that the trades are the days that trade, in order;
the tables are partings of the trades (`TableAddsUp`, once for months, trends
and reasons: a name has a line if and only if a trade goes by it); and the two
walks have their own invariants. `DeepestFall`: the peak is the highest of the
running sums and the worst is a fall between two of them that none exceeds.
`LongestRun`: the current run is the last trades and cannot be extended to the
left, the longest is somewhere and none is longer. With the partial sums as the
measure of a stretch (`TotalOfStretch`) the first is the minimum over all
stretches of trades and the second the maximum over all losing ones, which is
how `ReportAddsUp` states them.

**TrackerDay.** `TInv` has a part per claim and two that no claim mentions:
`SleepPart` (the loop never sleeps over something the trading day asks of it, nor
past the opening bell) and, in `BriefPart`, that a stage being sent is not marked.
A part of the day can only pass once the loop is done with it
(`PassesWhenDone`), which is where the login before the session and the briefing
of each window come from. `WakesInTime` says what `_next_wake_target` returns:
its search for the next session ends, and never passes over one.

**Watchdog.** `DownPart` (a loop that does not turn has not beaten since it
stopped) gives the alarms; `BeatPart` (without a stall the tracker's last beat is
at the pre-open or in the tick before) gives their absence on a quiet day.

**NewsMonitor.** `NInv` adds the order of arrival to what the property says. The
loop over a feed is a recursive function; `LoopRuns` shows that a loop of N turns
has a run, by induction up to N over a set of numbers (`UpTo`), and `AddNewGrows`
by the same induction that the run leaves the window as it was and appends
headlines of this tick that it did not hold. Because the window is in order,
pruning from the front takes exactly the old ones (`PruneCutsTheFront`), and a
shift found in it has two headlines before the last hours that were there before
the fetch (`TwoOf`).

**Crypto.** `MarkPart` is what the promises rest on: unless the process died
in between, what was sent is marked, or so old that a restart may drop its mark,
or about to be marked. A day's marks are dropped only when they are of another day
(`DaysAreInOrder`), a cooldown's only when it is over. `WantedPart` carries what
the pass decided at its start to the moment the message goes out: no other
message marks the same key. A signal alert always has a direction
(`AlertsHaveADirection`), so its row is written; `RowPart` counts the rows.

**HitRates.** The odds on display are those of the bars so far (`HrInv`); the
work is in what the odds are. The mean over the lookbacks is a fraction built by a
recursion (`OddsAreAFraction`); that a further level never has more days
(`MadeFall`), that all days give a hundred and none gives nothing are carried
along the recursion by `UpTo`. Python's rounding to even keeps the order
(`RatioGrows`) and whole percentages (`RatioOfMultiple`). A walk that reaches a
target has reached the nearer ones (`WalkReachesNearer`), and the labels part the
days with a whole horizon behind them (`LabelsPart`).

**SupertrendLine.** `LineInv` ties the line to the bands (an uptrend's line is
the lower band, a downtrend's the upper) and the bands to a full period of
ranges. A band is carried on only while the last close has not crossed it, so
the line tightens until it turns. On its side: a band carried on was not
crossed by the last close and the direction looks at this one; a fresh band is
beside the close unless the bar is wider than its bands. The proof attempt
without that condition is what showed `LineIsAlwaysOnItsSide` to be false.

**Predictor.** The rows of the rate table are in order and scaling, dividing and
capping them keep it (`RatesKeepTheirOrder`, `ReachIsCumulative`), so the odds
add up; the combined rate grows with the depth of the gap
(`CombinedGrowsWithDepth`), so deeper is surer. The morning repeats the evening
because what the summary leaves in `pdForecast` is the prediction of the market
that the night does not change. Where the code has an
`if ... elif` chain the module has nested `IF`s: a `CASE` whose guards overlap
is an arbitrary choice of TLA+, about which nothing can be proved.

**ScoreRules.** The weights of a regime sum to 100 and none is negative
(`WeightsSumUp`); each sub-score is a share that moves one way with what it
reads (`SubScoresMonotone`); so the weighted sum does, rounded or not, and is a
share too. The pivot ladder follows from
a close within its bar.

**RadarRules.** `RRInv` relates the regime, the ranking and the alert to the
snapshots. Depth, the VWAP's credit and the backing each grow with how far the
price has fallen (`CreditGrows`), rounding keeps that (`RoundedGrows`), hence
`DeeperNeverRanksLower`; `StopIsCapped` gives the reward for the risk from the
two roundings. The verdict of a window is a recursive function over its bars.
What it computes for windows of every length is shown without an induction
theorem: a closed form (the first bar that touches, or none) satisfies the
recursion, so the function exists; and where two solutions first differed there
would be a least such bar (`LeastOne`, from the well-foundedness of `<` on the
naturals), at which the recursion makes them equal.

**CryptoRules.** The trend's label and its share come from the same two
comparisons; each share falls with what the crowd has driven up, and so does
their weighted sum (`AgainstTheCrowd`). Over the holdings, what was gained and
what was lost add up separately (`GainsAdd`, along the sequence of coins); the
tax takes its share of the one and leaves the other, so that a mixed portfolio
keeps less than the tax on the sum would leave (`NoReliefOfLosses`).

**Intraday.** The slope of a week is a weighted sum of seven closes; written
out, it changes its sign when the week is read backwards (`SlopeBackwards`), and
rising and falling days change places (`DaysBackwards`), hence `TrendsMirror`.
The proof showed that the property had to be stated of the last seven closes: of
a longer history the trend reads the end, which is not the mirror of its
beginning. A deeper dip is a stronger signal by the order of the thresholds, and
a plan costs no more than the capital because its size is a quotient.

**Only model-checked:**

- liveness (`NakednessPasses`, `StopOutsComplete`, `ExitClosesPosition`,
  `StopCrossedIsAlerted`, `EveryCallReturns` and the parts of
  `CommandsRunInOrder`, `RadarAlertsAreKept` that say "in the end"; what they say
  of every state and step is proved, by `CommandsHold` and `RadarKeepsItsLimits`):
  the prover has no rules for `ENABLED`;
- that the runs are not vacuous: each property has a mutant of the model on
  which TLC finds it violated.

Every other property of the passing runs is stated by a theorem. The library's
induction theorems take an operator as a parameter and cannot be used; the
proofs use an induction over a set of numbers instead (`UpTo`, `LoopRuns`),
which reaches a recursion that a module writes itself. Therefore the modules
write their loops as recursive functions and their rankings as counts, and use
no sort and no fold, about which the provers know nothing.

## Abstractions and limits

- Prices are whole rupees, or paise or tenths where a rule divides; charges are
  a constant. Where the code rounds to two decimals a module either scales so
  that nothing is rounded or says how it rounds.
- In `ManagedCycle` the exchange fills an order whole; partial fills are in
  `OrderConfirm`, whose abstract promise is what `ManagedCycle` relies on. A
  stop fills at its trigger, not below it.
- The cooldown of some minutes after an exit is a flag that may be cleared at
  any time and is cleared overnight. `TrackerDay`, `Radar`, `Crypto` and
  `Watchdog` count time in passes or in stretches of the day.
- One locked update of `managed_state.json` is one action in `ManagedCycle`;
  `TradeManager` splits locked sections at the lock, and `JsonStore` shows why
  both are sound as long as the file can be read. A read of a state file that
  fails and is answered by the default is in `JsonStore` alone: the other
  modules' properties hold of the histories without one.
- A refresh without a broker is one action: it makes no broker call, and its two
  file updates cannot be separated by anything but another writer of the same
  fields.
- What the market says is an input: a price from a set, a reading of indicators,
  a bar from a set of kinds. Indicators are computed only where a property is
  about them (seven-day average, pivots, Supertrend).
- Messages are left out but for whether and when they are sent; text is modelled
  only where it decides (capitals in `CommandBot`, bells in `Predictor`).
- The manual trade has no quantities or rupees. A crash releases the lock
  because `flock` belongs to the process.
- One glitch is enough for each single failure at each point; two failures in a
  row are not explored, except by the theorems, which know no such bound.
- Exemptions are explicit: where a crash between a fill and its record makes a
  promise impossible, a history variable remembers that it happened
  (`khist.lost`, `sthist.drift`, `thist.died`, `chist.torn`) and the property names it.

## Not modelled

- Market and reference data (`src/shared/data.py`, `src/execution/historical.py`,
  `instruments.py`): network fetches and constant tables.
- Research scripts (`apps/managed_backtest.py`, `strategy_lab*.py`,
  `reversion_lab.py`, `trend_breakout_backtest.py`): one-off studies over price
  history whose results no process reads.
- Dashboards and message builders (`dashboard.py`, `dashboard_web.py`,
  `src/notify/alerts.py`, `src/radar/alert_format.py`): rendering. A refresh by
  the dashboard beside the tracker is in `ManagedCycle` and `TradeManager`.
- The trained probability model, the Monte Carlo study, smoothing indicators and
  the swing metrics: statistics on floating-point series.
- KittyBot's VIX rail and journal, the once-a-day announcement keys of the
  managed cycle, the radar's feature extraction and offline replays.

## Plan

Done: the managed cycle and the manual trade; the order and the store with their
abstract specifications; KittyBot and its picks; Supertrend; the tracker's day,
commands, watchdog, radar, crypto, news; the rules and backtests; a theorem for
each safety and action property of the passing runs.

Left, in this order:

1. `ManagedCycle` with `OrderOutcome` in place of its own order window, so that
   the two are composed and not only shown to fit.
2. The once-a-day announcement keys of the managed cycle with the alert log.
