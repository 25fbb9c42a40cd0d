----------------------------- MODULE MCServices ------------------------------
(* One run of TLC for components that share no variable: `part' says which of
   them a behaviour is about; that one runs, the others stay where they begin.
   The states of the parts add up, they do not multiply.  This run: the tracker, the
   watchdog, the monitors, the rules of the scanners, and the research. *)
EXTENDS TrackerDay, Watchdog, NewsMonitor, Crypto, CryptoRules, RadarRules,
        HitRates, DayBacktest, SwingLab, CryptoLab

VARIABLE part

partVars == <<tVars, wVars, nVars, cVars, crVars, rrVars, hrVars, dbVars,
              swVars, clVars>>

PartsInit ==
  /\ part \in {"tracker", "watchdog", "news", "crypto", "crypto rules",
               "radar rules", "hit rates", "day backtest", "swing",
               "crypto lab"}
  /\ TInit /\ WInit /\ NInit /\ CInit /\ CrInit /\ RRInit /\ HrInit /\ DbInit
  /\ SwInit /\ ClInit

(* Part p runs: only its variables may change. *)
Running(p) ==
  /\ UNCHANGED part
  /\ p # "tracker" => UNCHANGED tVars
  /\ p # "watchdog" => UNCHANGED wVars
  /\ p # "news" => UNCHANGED nVars
  /\ p # "crypto" => UNCHANGED cVars
  /\ p # "crypto rules" => UNCHANGED crVars
  /\ p # "radar rules" => UNCHANGED rrVars
  /\ p # "hit rates" => UNCHANGED hrVars
  /\ p # "day backtest" => UNCHANGED dbVars
  /\ p # "swing" => UNCHANGED swVars
  /\ p # "crypto lab" => UNCHANGED clVars

PartsNext ==
  \/ part = "tracker" /\ TNext /\ Running("tracker")
  \/ part = "watchdog" /\ WNext /\ Running("watchdog")
  \/ part = "news" /\ NNext /\ Running("news")
  \/ part = "crypto" /\ CNext /\ Running("crypto")
  \/ part = "crypto rules" /\ CrNext /\ Running("crypto rules")
  \/ part = "radar rules" /\ RRNext /\ Running("radar rules")
  \/ part = "hit rates" /\ HrNext /\ Running("hit rates")
  \/ part = "day backtest" /\ DbNext /\ Running("day backtest")
  \/ part = "swing" /\ SwNext /\ Running("swing")
  \/ part = "crypto lab" /\ ClNext /\ Running("crypto lab")

PartsSpec == PartsInit /\ [][PartsNext]_<<partVars, part>>

-----------------------------------------------------------------------------
(* RadarRules: one core stock seen at every price, and one that is filtered. *)
RRStocks == <<"EMCURE", "BEL">>
Snap(p, sma, rsi, atr, vol) ==
  [price |-> p, sma7 |-> sma, vwap |-> 100, rsi |-> rsi, atr |-> atr, atrx |-> vol,
   rvol |-> vol, ema20 |-> 99, ema50 |-> 98, prevHigh |-> 100, open |-> 96,
   prevClose |-> 102, rs20 |-> 100, above50 |-> (p > 99), adtv |-> 30]
RRSnaps ==
  [s \in {"EMCURE", "BEL"} |->
     IF s = "EMCURE"
     THEN {Snap(p, sma, rsi, atr, vol) : p \in {94, 97, 101}, sma \in {98, 104},
             rsi \in {28, 45}, atr \in {0, 2, 6}, vol \in {100, 160}}
     ELSE {[Snap(98, 103, 38, 3, 140) EXCEPT !.adtv = a] : a \in {30, 200}}]
RRBars == {[low |-> l, high |-> h] : l \in {90, 96}, h \in {99, 106}}

(* Crypto: a quiet coin, one that dipped, one that ran up, one held at a gain. *)
MCReadings == {[signal |-> "Hold", rsi |-> 50, pnl |-> 10, gap |-> 0],
               [signal |-> "Hold", rsi |-> 32, pnl |-> 10, gap |-> -6],
               [signal |-> "Strong Sell", rsi |-> 66, pnl |-> 25, gap |-> 0],
               [signal |-> "Buy", rsi |-> 70, pnl |-> 35, gap |-> 0]}
MCDelta == [h \in CHorizons |-> IF h = "1d" THEN 2 ELSE 3]
MCThreshold == [h \in CHorizons |-> IF h = "1d" THEN 2 ELSE 4]

(* CryptoRules *)
MCBands == {[lower |-> 95, upper |-> 105], [lower |-> 100, upper |-> 100]}
MCWeekChanges == {-25, -8, 0, 10, 20}
MCInvested == <<100, 60, 60>>

(* CryptoLab *)
MCClSeeds == {<<100, 101, 100, 101, 100, 101, 100>>, <<94, 95, 96, 97, 98, 99, 100>>,
              <<108, 106, 104, 102, 100, 98, 96>>}
CoinDay(open, high, low, close) == [open |-> open, high |-> high, low |-> low, close |-> close]
MCClBars == {CoinDay(93, 96, 91, 95), CoinDay(93, 98, 84, 90), CoinDay(95, 101, 94, 100),
             CoinDay(90, 92, 82, 85), CoinDay(94, 97, 92, 96)}

(* HitRates *)
HitBar(low, high, close) == [low |-> low, high |-> high, close |-> close]
MCHitBars == {HitBar(99, 101, 100), HitBar(100, 104, 102), HitBar(97, 103, 101),
              HitBar(98, 100, 98)}
MCLookbacks == <<2, 3>>

(* DayBacktest: a flat week, a rise and a fall, and days of every outcome. *)
MCSeeds == {[i \in 1 .. 7 |-> 1380], [i \in 1 .. 7 |-> 1330 + 10 * i],
            [i \in 1 .. 7 |-> 1430 - 10 * i]}
DayBar(open, high, low, close) == [open |-> open, high |-> high, low |-> low, close |-> close]
MCBtBars == {DayBar(1355, 1380, 1354, 1370), DayBar(1355, 1370, 1330, 1360),
             DayBar(1355, 1360, 1336, 1337), DayBar(1390, 1392, 1385, 1386),
             DayBar(1355, 1367, 1345, 1360), DayBar(1345, 1350, 1300, 1310)}

(* SwingLab: two stocks over five kinds of days. *)
StockDay(open, high, low, close, weak, entry, liquid, score) ==
  [open |-> open, high |-> high, low |-> low, close |-> close, weak |-> weak,
   entry |-> entry, liquid |-> liquid, score |-> score, atr |-> 4]
SwingDay(regime, a, b) == [regime |-> regime, bars |-> <<a, b>>]
MCStocks == <<"s1", "s2">>
MCSwingDays == {
  SwingDay("TRENDING_BULL", StockDay(100, 105, 98, 104, FALSE, TRUE, TRUE, 85),
                            StockDay(200, 206, 196, 205, FALSE, TRUE, TRUE, 90)),
  SwingDay("TRENDING_BULL", StockDay(104, 118, 97, 110, FALSE, TRUE, TRUE, 80),
                            StockDay(205, 206, 190, 192, TRUE, TRUE, FALSE, 95)),
  SwingDay("SIDEWAYS", StockDay(103, 106, 101, 102, TRUE, TRUE, TRUE, 70),
                       StockDay(204, 220, 203, 215, FALSE, FALSE, TRUE, 60)),
  SwingDay("TRENDING_BEAR", StockDay(101, 103, 99, 100, TRUE, FALSE, TRUE, 60),
                            StockDay(203, 205, 201, 202, FALSE, TRUE, TRUE, 82)),
  SwingDay("TRENDING_BULL", StockDay(103, 106, 101, 104, FALSE, TRUE, TRUE, 70),
                            StockDay(204, 208, 201, 205, FALSE, FALSE, TRUE, 60))}
==============================================================================
