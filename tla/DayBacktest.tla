----------------------------- MODULE DayBacktest -----------------------------
(***************************************************************************)
(* The replay of the intraday rule over daily bars, made anew each time a   *)
(* day is added to the data.  (src/src/emcure/backtest.py.)  Bars are whole *)
(* rupees; stops, exits and results are paise.  Outcomes are those of       *)
(* _simulate_day.                                                           *)
(***************************************************************************)
EXTENDS SevenDays, FiniteSetsExt

CONSTANTS
  BtSeeds,             \* sequences of seven closes, the days before the first bar
  BtBars,              \* records open, high, low, close
  MaxBtDays,           \* a bound of the model
  BtCapital, BtRisk,   \* rupees of a trade; capital, risk_rupees
  HoldDays,            \* OVERNIGHT_HOLD_DAYS
  MonthDays            \* days of a month

ASSUME DayBacktestAssumption ==
  /\ BtBars \subseteq [open : Nat, high : Nat, low : Nat \ {0}, close : Nat]
  /\ \A b \in BtBars : {b.open, b.close} \subseteq b.low .. b.high
  /\ BtSeeds \subseteq Seq(Nat \ {0}) /\ \A s \in BtSeeds : Len(s) = 7
  /\ {MaxBtDays, BtCapital, BtRisk, HoldDays} \subseteq Nat /\ MonthDays \in Nat \ {0}

VARIABLES dbBars, dbTrades, dbStats

dbVars == <<dbBars, dbTrades, dbStats>>

Drastic == 1500          \* DRASTIC_FALL_THRESHOLD
TrendNames == <<"Upward", "Downward", "Choppy">>
ReasonNames == <<"mean_reversion", "trend_entry">>

\* Mutant: the window takes in the day itself.
ClosesWithToday(bars, i) == [k \in 1 .. i |-> bars[k].close]

(* df.iloc[:i]: what is known at the open of day i. *)
KnownCloses(bars, i) == [k \in 1 .. i - 1 |-> bars[k].close]

(* The reason to enter at the open of day i, or "none". *)
EntryReason(bars, i, skipDowntrend) ==
  LET gap == Gap(bars[i].open, KnownCloses(bars, i))
      trend == Trend(KnownCloses(bars, i))
  IN  IF gap <= -2000
      THEN IF skipDowntrend /\ trend = "Downward" THEN "none" ELSE "mean_reversion"
      ELSE IF trend = "Upward" /\ -500 <= gap /\ gap <= 500 THEN "trend_entry" ELSE "none"

ReachedTargets(bar, targets) == {k \in 1 .. 3 : 100 * bar.high >= targets[k]}

(* The last day a position of day i can be held overnight. *)
HeldUntil(i, n) == IF i + HoldDays < n THEN i + HoldDays ELSE n

(* fwd_rows: the high of a later day is at the entry again. *)
ComesBack(bars, i) ==
  \E j \in i + 1 .. HeldUntil(i, Len(bars)) : bars[j].high >= bars[i].open

(* _simulate_day: the furthest target reached, or the stop, whichever is closer
   to the open when the day touched both; a fall by the close is held on.  The
   entry is the open, so the two gap cases never apply. *)
SimulateDay(bars, i, sl, targets) ==
  LET entry == 100 * bars[i].open
      close == 100 * bars[i].close
      reached == ReachedTargets(bars[i], targets)
      stopped == 100 * bars[i].low <= sl
      best == targets[Max(reached)]
  IN  IF reached # {} /\ (stopped => best - entry < entry - sl)
      THEN [outcome |-> "target", exit |-> best]
      ELSE IF stopped THEN [outcome |-> "stop", exit |-> sl]
      ELSE IF close >= entry - Drastic THEN [outcome |-> "square_off", exit |-> close]
      ELSE IF ComesBack(bars, i) THEN [outcome |-> "nplp_recovered", exit |-> entry]
      ELSE [outcome |-> "overnight_loss", exit |-> 100 * bars[HeldUntil(i, Len(bars))].close]

SharesFor(bar) == BtCapital \div bar.open

(* risk_rupees over the shares, rounded to a paisa, under the entry. *)
StopOf(bar) == 100 * bar.open - (200 * BtRisk + SharesFor(bar)) \div (2 * SharesFor(bar))

TargetsOf(bar) == <<100 * bar.open + 1000, 100 * bar.open + 2000, 100 * bar.open + 2500>>

(* One trade of run_backtest, of the day i. *)
TradeOf(bars, i) ==
  LET entry == 100 * bars[i].open
      done == SimulateDay(bars, i, StopOf(bars[i]), TargetsOf(bars[i]))
  IN  [day |-> i, trend |-> Trend(KnownCloses(bars, i)), reason |-> EntryReason(bars, i, TRUE),
       entry |-> entry, outcome |-> done.outcome, exit |-> done.exit,
       pnl |-> (done.exit - entry) * SharesFor(bars[i])]

(* A day that trades: enough history, a reason, a share affordable. *)
TradedDay(bars, i) ==
  i > 7 /\ EntryReason(bars, i, TRUE) # "none" /\ BtCapital >= bars[i].open

(* run_backtest. *)
BtTurn(trades, bars, i) ==
  IF TradedDay(bars, i) THEN Append(trades, TradeOf(bars, i)) ELSE trades

BtRuns(bars) ==
  LET run[i \in 0 .. Len(bars)] == IF i = 0 THEN <<>> ELSE BtTurn(run[i - 1], bars, i)
  IN  run

RunBacktest(bars) == BtRuns(bars)[Len(bars)]

-----------------------------------------------------------------------------
(* A group of trades is the set of their numbers. *)
PnlOf(trades, ks) == TotalOf([k \in 1 .. Len(trades) |-> IF k \in ks THEN trades[k].pnl ELSE 0])

Breakdown(trades, ks) ==
  [pnl |-> PnlOf(trades, ks), trades |-> Cardinality(ks),
   wins |-> Cardinality({k \in ks : trades[k].pnl > 0})]

Month(i) == (i - 8) \div MonthDays

OfMonth(trades, m) == {k \in DOMAIN trades : Month(trades[k].day) = m}
OfTrend(trades, x) == {k \in DOMAIN trades : trades[k].trend = x}
OfReason(trades, r) == {k \in DOMAIN trades : trades[k].reason = r}

(* The walk of the maximum drawdown. *)
DrawdownTurn(w, pnl) ==
  LET cum == w.cum + pnl  peak == Larger(w.peak, cum)
  IN  [cum |-> cum, peak |-> peak, worst |-> IF cum - peak < w.worst THEN cum - peak ELSE w.worst]

Drawdowns(trades) ==
  LET walk[k \in 0 .. Len(trades)] ==
        IF k = 0 THEN [cum |-> 0, peak |-> 0, worst |-> 0]
        ELSE DrawdownTurn(walk[k - 1], trades[k].pnl)
  IN  walk

MaxDrawdown(trades) == Drawdowns(trades)[Len(trades)].worst

(* The walk of the longest losing run. *)
LosingTurn(s, pnl) ==
  LET run == IF pnl < 0 THEN s.run + 1 ELSE 0 IN [run |-> run, most |-> Larger(s.most, run)]

LosingWalk(trades) ==
  LET walk[k \in 0 .. Len(trades)] ==
        IF k = 0 THEN [run |-> 0, most |-> 0] ELSE LosingTurn(walk[k - 1], trades[k].pnl)
  IN  walk

MaxLosses(trades) == LosingWalk(trades)[Len(trades)].most

NoStats == [count |-> 0, total |-> 0]

(* _compute_stats, but for the ratios (win rate, profit factor, Sharpe). *)
ComputeStats(trades) ==
  IF trades = <<>> THEN NoStats
  ELSE [count |-> Len(trades), total |-> PnlOf(trades, DOMAIN trades),
        drawdown |-> MaxDrawdown(trades), losses |-> MaxLosses(trades),
        monthly |-> [m \in {Month(trades[k].day) : k \in DOMAIN trades} |->
                       Breakdown(trades, OfMonth(trades, m))],
        byTrend |-> [x \in {y \in Range(TrendNames) : OfTrend(trades, y) # {}} |->
                       Breakdown(trades, OfTrend(trades, x))],
        byReason |-> [r \in {y \in Range(ReasonNames) : OfReason(trades, y) # {}} |->
                        Breakdown(trades, OfReason(trades, r))]]

-----------------------------------------------------------------------------
DbInit == dbBars = <<>> /\ dbTrades = <<>> /\ dbStats = NoStats

SeedDays ==
  /\ dbBars = <<>>
  /\ \E closes \in BtSeeds :
       dbBars' = [i \in 1 .. 7 |-> [open |-> closes[i], high |-> closes[i],
                                    low |-> closes[i], close |-> closes[i]]]
  /\ UNCHANGED <<dbTrades, dbStats>>

(* A day is added and the whole backtest runs again. *)
DayAdded ==
  /\ dbBars # <<>> /\ Len(dbBars) < 7 + MaxBtDays
  /\ \E b \in BtBars :
       LET bars == Append(dbBars, b)
       IN  /\ dbBars' = bars
           /\ dbTrades' = RunBacktest(bars)
           /\ dbStats' = ComputeStats(RunBacktest(bars))

DbNext == SeedDays \/ DayAdded
DbSpec == DbInit /\ [][DbNext]_dbVars

-----------------------------------------------------------------------------
Settled(t) == t.outcome # "overnight_loss"
Decision(t) == <<t.day, t.trend, t.reason, t.entry>>

(* No trade is made with hindsight: the decision of a day stands when days are
   added; once the trade's outcome is settled all of it stands, and a trade held
   overnight changes only while its holding days run. *)
PastTradesStand ==
  [][\A k \in DOMAIN dbTrades :
       LET t == dbTrades[k]
       IN  /\ k \in DOMAIN dbTrades' /\ Decision(dbTrades'[k]) = Decision(t)
           /\ Settled(t) \/ Len(dbBars) >= t.day + HoldDays => dbTrades'[k] = t]_dbVars

(* A decision uses what is known at the open: two days that open alike after
   the same closes trade alike, however they went on. *)
DecidedAtTheOpen ==
  \A i \in 8 .. Len(dbBars), b \in BtBars :
    b.open = dbBars[i].open =>
      LET other == [dbBars EXCEPT ![i] = b]
      IN  (\E k \in DOMAIN dbTrades : dbTrades[k].day = i) =
            (EntryReason(other, i, TRUE) # "none" /\ BtCapital >= b.open)

(* A result is only booked at a price that was traded: an exit of the day lies
   in the day's range. *)
ExitsWereTraded ==
  \A k \in DOMAIN dbTrades :
    LET t == dbTrades[k]  bar == dbBars[t.day]
    IN  t.outcome \in {"target", "stop", "square_off"} =>
          100 * bar.low <= t.exit /\ t.exit <= 100 * bar.high

(* The lines of a table of the report, added up in the order of their names. *)
SumOfLines(lines, names) ==
  TotalOf([i \in 1 .. Len(names) |-> IF names[i] \in DOMAIN lines THEN lines[names[i]].pnl ELSE 0])

MonthNames == [i \in 1 .. Month(Len(dbBars)) + 1 |-> i - 1]

FallsOf(trades) == {0} \cup {PnlOf(trades, i .. j) : i \in DOMAIN trades, j \in DOMAIN trades}

LosingRuns(trades) ==
  {n \in 0 .. Len(trades) :
     \E i \in 1 .. Len(trades) - n + 1 : \A k \in i .. i + n - 1 : trades[k].pnl < 0}

(* The report's lines add up to its total, by month, by trend and by reason;
   the drawdown is the deepest fall between two trades, the losing run the
   longest there is. *)
ReportAddsUp ==
  dbTrades # <<>> =>
    /\ SumOfLines(dbStats.monthly, MonthNames) = dbStats.total
    /\ SumOfLines(dbStats.byTrend, TrendNames) = dbStats.total
    /\ SumOfLines(dbStats.byReason, ReasonNames) = dbStats.total
    /\ dbStats.drawdown = Min(FallsOf(dbTrades))
    /\ dbStats.losses = Max(LosingRuns(dbTrades))

(* The backtest is honest: it looks at no later day, books no price that was
   not traded, and its report adds up. *)
BacktestIsHonest ==
  /\ [](DecidedAtTheOpen /\ ExitsWereTraded /\ ReportAddsUp)
  /\ PastTradesStand
=============================================================================
