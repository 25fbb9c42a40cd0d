------------------------------ MODULE CryptoLab ------------------------------
(***************************************************************************)
(* The multi-day reversion replay for coins, made anew each time a day is   *)
(* added.  (src/src/crypto/reversion.py.)  Prices are whole units; levels   *)
(* are compared in hundredths, returns are in ten-thousandths.              *)
(***************************************************************************)
EXTENDS SevenDays, FiniteSetsExt

CONSTANTS
  ClSeeds,               \* sequences of seven closes
  ClBars,                \* records open, high, low, close
  MaxClDays,             \* a bound of the model
  BelowSmaPct, TargetPct, SlPct, ClHoldDays      \* CryptoParams, per cent and days

ASSUME CryptoLabAssumption ==
  /\ ClBars \subseteq [open : Nat, high : Nat, low : Nat \ {0}, close : Nat]
  /\ \A b \in ClBars : {b.open, b.close} \subseteq b.low .. b.high
  /\ ClSeeds \subseteq Seq(Nat \ {0}) /\ \A s \in ClSeeds : Len(s) = 7
  /\ {MaxClDays, BelowSmaPct, TargetPct, SlPct, ClHoldDays} \subseteq Nat /\ SlPct < 100

VARIABLES clBars, clTrades

clVars == <<clBars, clTrades>>

ClInit == clBars = <<>> /\ clTrades = <<>>

-----------------------------------------------------------------------------
\* Mutant: the closes of the days to come are known.
AllCloses(bars, i) == [k \in DOMAIN bars |-> bars[k].close]

PriorCloses(bars, i) == [k \in 1 .. i - 1 |-> bars[k].close]

(* A day whose open gaps far enough below the average of the prior closes, in a
   week that is not a downtrend. *)
Signalled(bars, i) ==
  LET sma == Sma7(PriorCloses(bars, i))
  IN  /\ sma > 0
      /\ 100 * (100 * bars[i].open - sma) <= -BelowSmaPct * sma
      /\ Trend(PriorCloses(bars, i)) # "Downward"

HitsStop(bar, entry) == 100 * bar.low <= entry * (100 - SlPct)
HitsTarget(bar, entry) == 100 * bar.high >= entry * (100 + TargetPct)

(* _entry_bar_exit, of an entry at the bar's open: when both levels are in the
   bar, the closer to the open. *)
EntryBarExit(bar) ==
  LET stop == HitsStop(bar, bar.open)  target == HitsTarget(bar, bar.open)
  IN  IF target /\ (stop => TargetPct < SlPct) THEN "target"
      ELSE IF stop THEN "stop" ELSE "none"

(* The first later bar that ends the trade. *)
EndingBars(bars, i) ==
  {j \in i + 1 .. i + ClHoldDays :
     j <= Len(bars) /\ (HitsStop(bars[j], bars[i].open) \/ HitsTarget(bars[j], bars[i].open))}

LastHeld(bars, i) == IF i + ClHoldDays < Len(bars) THEN i + ClHoldDays ELSE Len(bars)

(* A trade entered at the open of day i that ended so on day at. *)
Ended(bars, i, outcome, at) ==
  LET entry == bars[i].open
      exit == IF outcome = "stop" THEN entry * (100 - SlPct)
              ELSE IF outcome = "target" THEN entry * (100 + TargetPct) ELSE 100 * bars[at].close
  IN  [day |-> i, out |-> at, outcome |-> outcome, pnl |-> (100 * exit) \div entry - 10000]

LabTrade(bars, i) ==
  IF EntryBarExit(bars[i]) # "none" THEN Ended(bars, i, EntryBarExit(bars[i]), i)
  ELSE IF EndingBars(bars, i) = {} THEN Ended(bars, i, "time_exit", LastHeld(bars, i))
  ELSE LET j == Min(EndingBars(bars, i))
       IN  Ended(bars, i, IF HitsStop(bars[j], bars[i].open) THEN "stop" ELSE "target", j)

(* run: one position at a time. *)
LabStart == [free |-> 8, trades |-> <<>>]

LabTurn(run, bars, i) ==
  IF i < run.free \/ ~ Signalled(bars, i) THEN run
  ELSE [free |-> LabTrade(bars, i).out + 1, trades |-> Append(run.trades, LabTrade(bars, i))]

LabRuns(bars) ==
  LET run[i \in 0 .. Len(bars)] == IF i = 0 THEN LabStart ELSE LabTurn(run[i - 1], bars, i)
  IN  run

RunLab(bars) == LabRuns(bars)[Len(bars)].trades

-----------------------------------------------------------------------------
ClSeed ==
  /\ clBars = <<>>
  /\ \E closes \in ClSeeds :
       clBars' = [i \in 1 .. 7 |-> [open |-> closes[i], high |-> closes[i],
                                    low |-> closes[i], close |-> closes[i]]]
  /\ UNCHANGED clTrades

CoinDayAdded ==
  /\ clBars # <<>> /\ Len(clBars) < 7 + MaxClDays
  /\ \E b \in ClBars : clBars' = Append(clBars, b)
  /\ clTrades' = RunLab(clBars')

ClNext == ClSeed \/ CoinDayAdded
ClSpec == ClInit /\ [][ClNext]_clVars

-----------------------------------------------------------------------------
(* One position at a time: a trade starts after the one before has ended, and a
   day with a signal is without a trade only while one is open. *)
LabTradesNeverOverlap ==
  /\ \A j, k \in DOMAIN clTrades : j < k => clTrades[j].out < clTrades[k].day
  /\ \A i \in 8 .. Len(clBars) :
       Signalled(clBars, i) =>
         \E k \in DOMAIN clTrades : clTrades[k].day <= i /\ i <= clTrades[k].out

(* No trade is made with hindsight: a trade that met a level, or was held for all
   its days, stands when days are added. *)
LabTradesStand ==
  [][\A k \in DOMAIN clTrades :
       LET t == clTrades[k]
       IN  /\ k \in DOMAIN clTrades' /\ clTrades'[k].day = t.day
           /\ t.outcome # "time_exit" \/ t.out = t.day + ClHoldDays => clTrades'[k] = t]_clVars

(* "time exit at the close of the max_hold_days-th bar". *)
TimeExitsWaitTheirDays ==
  \A k \in DOMAIN clTrades :
    clTrades[k].outcome = "time_exit" => clTrades[k].out = clTrades[k].day + ClHoldDays

(* The coins' backtest trades one position at a time and never with hindsight. *)
LabTradesAreReal ==
  /\ [](LabTradesNeverOverlap)
  /\ LabTradesStand
=============================================================================
