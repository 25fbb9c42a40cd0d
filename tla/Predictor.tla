------------------------------ MODULE Predictor ------------------------------
(***************************************************************************)
(* The confidence predictor and the three briefings of a day that quote it: *)
(* before the open, after the open and at the close.                        *)
(* (src/src/emcure/predictor.py, called by src/apps/main_headless.py.)      *)
(* Gaps and prices are rupees; a probability is in parts of a million.      *)
(***************************************************************************)
EXTENDS Integers, Sequences, FiniteSets

CONSTANTS
  PredictorPrices, Averages,   \* closes and quotes; seven-day averages
  Atrs, Months,
  PredictorCapital, PredictorRisk,
  MaxBriefedDays               \* a bound of the model

ASSUME PredictorAssumption ==
  /\ PredictorPrices \subseteq Nat \ {0} /\ Averages \subseteq Nat /\ Atrs \subseteq Nat
  /\ {} \notin {PredictorPrices, Averages, Atrs, Months}
  /\ Months \subseteq 1 .. 12 /\ MaxBriefedDays \in Nat

VARIABLES
  pdDay, pdStage,   \* "night", "briefed", "updated" or "summed"
  pdMarket,         \* the close the feed shows, its average, ATR, trend and opening range
  pdMonth, pdLosses,
  pdSaid,           \* what the last message said, or Silence
  pdForecast        \* the summary's outlook for the next day, or Silence

pdVars == <<pdDay, pdStage, pdMarket, pdMonth, pdLosses, pdSaid, pdForecast>>

Silence == [kind |-> "none"]
Trends == {"Upward", "Downward", "Choppy"}
Markets == [price : PredictorPrices, sma7 : Averages, atr : Atrs, trend : Trends,
            orbLow : PredictorPrices]

PdInit ==
  /\ pdDay = 0 /\ pdStage = "night" /\ pdLosses = 0
  /\ pdMarket = CHOOSE m \in Markets : TRUE
  /\ pdMonth = CHOOSE m \in Months : TRUE
  /\ pdSaid = Silence /\ pdForecast = Silence

-----------------------------------------------------------------------------
(* The tables, in per cent: wins, second target, third target by the depth. *)
GapRow(depth) ==
  IF depth >= 55 THEN <<100, 100, 86>>
  ELSE IF depth >= 35 THEN <<83, 67, 50>>
  ELSE IF depth >= 25 THEN <<79, 50, 43>>
  ELSE <<73, 53, 47>>

AtrT3(atr) ==
  IF atr >= 80 THEN 75 ELSE IF atr >= 50 THEN 59 ELSE IF atr >= 30 THEN 65 ELSE 0

SeasonOf(month) ==
  IF month \in {3, 4, 5, 6, 10, 12} THEN "Strong"
  ELSE IF month \in {2, 7, 11} THEN "Weak" ELSE "Neutral"

SeasonFactor(month) ==
  IF SeasonOf(month) = "Strong" THEN 110 ELSE IF SeasonOf(month) = "Weak" THEN 65 ELSE 100

LossFactor(losses) == IF losses = 0 THEN 100 ELSE IF losses = 1 THEN 55 ELSE 85
AtrFactor(atr) == IF atr >= 50 THEN 105 ELSE IF atr < 30 THEN 90 ELSE 100

Capped(x, cap) == IF x < cap THEN x ELSE cap
Positive0(x) == IF x > 0 THEN x ELSE 0
Depth0(gap) == IF gap < 0 THEN -gap ELSE gap

(* The product of the four factors, at most 0.98. *)
CombinedRate(gap, month, losses, atr) ==
  Capped((GapRow(Depth0(gap))[1] * SeasonFactor(month) * LossFactor(losses)
            * AtrFactor(atr)) \div 100, 980000)

(* A table rate scaled like the win rate, at most 0.95. *)
Reach(rate, combined, base) == Capped((rate * combined) \div base, 950000)

Tier(score) ==
  IF score >= 75 THEN "A" ELSE IF score >= 55 THEN "B" ELSE IF score >= 40 THEN "C"
  ELSE "SKIP"

Quantity(price) == PredictorCapital \div price

(* predict_trade.  The gap counts by its size, on either side of the average. *)
PredictTrade(gap, atr, losses, qty, month) ==
  LET row == GapRow(Depth0(gap))
      combined == CombinedRate(gap, month, losses, atr)
      t3 == Reach(row[3], combined, row[1])
      t2 == Reach(row[2], combined, row[1])
      stop == IF combined > 990000 THEN 10000 ELSE 1000000 - combined
      exits == [t3 |-> t3, t2 |-> Positive0(t2 - t3), t1 |-> Positive0(combined - t2)]
      t3Ok == combined >= 750000 /\ AtrT3(atr) > 40
  IN  [score |-> combined \div 10000, tier |-> Tier(combined \div 10000),
       reach |-> <<combined, t2, t3>>, stop |-> stop, exits |-> exits,
       target |-> IF t3Ok THEN IF SeasonOf(month) = "Strong" THEN "T3" ELSE "T2-T3"
                  ELSE IF combined >= 600000 THEN "T1-T2" ELSE "T1",
       ev |-> IF qty > 0
              THEN exits.t3 * 25 * qty + exits.t2 * 20 * qty + exits.t1 * 10 * qty
                     - stop * PredictorRisk
              ELSE 0,
       gap |-> gap, warned |-> losses > 0]

Confidence0(score) ==
  IF score >= 75 THEN "High" ELSE IF score >= 55 THEN "Medium" ELSE IF score >= 40 THEN "Low"
  ELSE "Very low"

PredictNow(m) ==
  PredictTrade(m.price - m.sma7, m.atr, pdLosses, Quantity(m.price), pdMonth)

(* format_post_open_briefing: the word and the bells, by the gap alone. *)
PostOpenAction(m) ==
  LET gap == m.price - m.sma7
  IN  IF (m.price < m.orbLow /\ gap <= -20) \/ gap <= -25 THEN "STRONG BUY"
      ELSE IF gap <= -20 THEN "BUY"
      ELSE IF gap > -30 THEN "WATCH" ELSE "WAIT"

Bells(gap, score) ==
  IF score >= 75 /\ gap <= -20 THEN 2 ELSE IF score >= 55 /\ gap <= -20 THEN 1 ELSE 0

(* format_eod_summary: tomorrow's setup. *)
SetupSignal(gap) ==
  IF gap <= -15 THEN "FORMING" ELSE IF gap <= -10 THEN "WATCH ZONE"
  ELSE IF gap > 0 THEN "TOO FAR" ELSE "NEAR"

-----------------------------------------------------------------------------
\* Mutant: the briefing quotes the losses of a fresh start.
BriefFresh(m) ==
  PredictTrade(m.price - m.sma7, m.atr, 0, Quantity(m.price), pdMonth)

(* The morning's prediction: the last close against the average of the days up
   to it. *)
BriefedPrediction(m) == PredictNow(m)

PreOpenBriefing ==
  /\ pdStage = "night" /\ pdDay < MaxBriefedDays
  /\ LET pred == BriefedPrediction(pdMarket)
     IN  pdSaid' = [kind |-> "preopen", pred |-> pred, word |-> Confidence0(pred.score)]
  /\ pdStage' = "briefed"
  /\ UNCHANGED <<pdDay, pdMarket, pdMonth, pdLosses, pdForecast>>

(* The quote after the open; the average is that of the morning. *)
PostOpenBriefing ==
  /\ pdStage = "briefed" /\ pdStage' = "updated"
  /\ \E p, low \in PredictorPrices :
       LET m == [pdMarket EXCEPT !.price = p, !.orbLow = low]
           pred == PredictNow(m)
       IN  /\ pdMarket' = m
           /\ pdSaid' = [kind |-> "postopen", pred |-> pred, action |-> PostOpenAction(m),
                         bells |-> Bells(pred.gap, pred.score)]
  /\ UNCHANGED <<pdDay, pdMonth, pdLosses, pdForecast>>

(* A result of the day changes the losses in a row. *)
TradeResult ==
  /\ pdStage = "updated"
  /\ pdLosses' \in {0, IF pdLosses < 2 THEN pdLosses + 1 ELSE 2}
  /\ UNCHANGED <<pdDay, pdStage, pdMarket, pdMonth, pdSaid, pdForecast>>

(* The close with its own row in the average. *)
EodSummary ==
  /\ pdStage = "updated" /\ pdStage' = "summed"
  /\ \E m \in {x \in Markets : x.orbLow = pdMarket.orbLow} :
       LET pred == PredictNow(m)
       IN  /\ pdMarket' = m
           /\ pdSaid' = [kind |-> "eod", pred |-> pred, word |-> SetupSignal(pred.gap)]
  /\ pdForecast' = [kind |-> "forecast", pred |-> pdSaid'.pred, month |-> pdMonth,
                    losses |-> pdLosses]
  /\ UNCHANGED <<pdDay, pdMonth, pdLosses>>

DayTurns ==
  /\ pdStage = "summed" /\ pdStage' = "night" /\ pdDay' = pdDay + 1
  /\ \E m \in Months : pdMonth' = m
  /\ UNCHANGED <<pdMarket, pdLosses, pdSaid, pdForecast>>

PdNext == PreOpenBriefing \/ PostOpenBriefing \/ TradeResult \/ EodSummary \/ DayTurns
PdSpec == PdInit /\ [][PdNext]_pdVars

-----------------------------------------------------------------------------
(* The odds are cumulative ("always >= reach_t3", "any win = T1 reached") and
   the exits with the stop are one distribution: nothing is counted twice. *)
OddsAddUp ==
  pdSaid # Silence =>
    LET p == pdSaid.pred
    IN  /\ p.reach[1] >= p.reach[2] /\ p.reach[2] >= p.reach[3]
        /\ p.exits.t1 + p.exits.t2 + p.exits.t3 + p.stop = 1000000

(* Deeper is surer: the same day, a price further below the average never has
   less confidence, nor a smaller chance of the stop's opposite. *)
DeeperIsSurer ==
  \A p, q \in PredictorPrices :
    p < q /\ q <= pdMarket.sma7 =>
      PredictNow([pdMarket EXCEPT !.price = p]).score
        >= PredictNow([pdMarket EXCEPT !.price = q]).score

(* The morning says what the evening before announced, unless the month turned:
   both measure the same close against the same seven days. *)
MorningRepeatsTheEvening ==
  pdSaid.kind = "preopen" /\ pdForecast # Silence /\ pdForecast.month = pdMonth
    => pdSaid.pred = pdForecast.pred

(* A day is loud only about a dip: bells, and the words to buy, mean that the
   price is twenty rupees below the average. *)
BellsMeanADip ==
  pdSaid.kind = "postopen" =>
    /\ pdSaid.bells > 0 => pdSaid.action \in {"BUY", "STRONG BUY"}
    /\ pdSaid.action \in {"BUY", "STRONG BUY"} => pdSaid.pred.gap <= -20

(* "No entries when 7-day trend is Downward": the update after the open never
   says to buy in a falling week. *)
NoBuyInAFallingWeek ==
  pdSaid.kind = "postopen" /\ pdMarket.trend = "Downward"
    => pdSaid.action \notin {"BUY", "STRONG BUY"}

(* "A (>= 70) / B (50-70) / C (< 50)". *)
TiersAsDocumented ==
  pdSaid # Silence =>
    LET p == pdSaid.pred
    IN  (p.tier = "A" <=> p.score >= 70) /\ (p.tier = "B" <=> p.score \in 50 .. 69)

(* The three briefings of a day agree with each other and with their own odds. *)
PredictionsAgree ==
  /\ OddsAddUp
  /\ DeeperIsSurer
  /\ MorningRepeatsTheEvening
  /\ BellsMeanADip
=============================================================================
