----------------------------- MODULE ScoreRules -----------------------------
(***************************************************************************)
(* The trading score of a refresh and the pivots it reads.                  *)
(* (src/src/emcure/scoring.py: compute_score; src/src/shared/pivots.py.)    *)
(* Prices are whole rupees and pivots are thirds of a rupee, so that none   *)
(* is rounded; weights are per cent, sub-scores are thousandths, the score  *)
(* is in ten-thousandths.                                                   *)
(***************************************************************************)
EXTENDS Integers, Sequences, FiniteSets, SequencesExt

CONSTANTS
  PivotBars,                          \* yesterday's bars: high, low, close
  ScorePrices, Rsis, Vwaps,           \* a vwap of 0 is no vwap
  Sentiments,                         \* hundredths, -100 .. 100
  VolumeRatios,                       \* of the average, per cent
  Regimes                             \* what detect_regime returned

ASSUME ScoreRulesAssumption ==
  /\ PivotBars \subseteq [high : Int, low : Int, close : Int]
  /\ \A b \in PivotBars : b.low <= b.close /\ b.close <= b.high
  /\ ScorePrices \subseteq Nat \ {0} /\ Vwaps \subseteq Nat /\ VolumeRatios \subseteq Nat
  /\ Rsis \subseteq Nat /\ \A i \in Rsis : i <= 100
  /\ Sentiments \subseteq Int /\ \A s \in Sentiments : -100 <= s /\ s <= 100
  /\ Regimes \subseteq {"Trending Up", "Trending Down", "Ranging", "Unknown"}

VARIABLES
  scBar,        \* the bar of the pivots, or <<>> before the first refresh
  scReading,    \* what the refresh read
  scResult      \* the score and its signal

scVars == <<scBar, scReading, scResult>>

ScInit == scBar = <<>> /\ scReading = <<>> /\ scResult = [score |-> 0, signal |-> "none"]

-----------------------------------------------------------------------------
(* classic_pivots, in thirds. *)
Pivots(b) ==
  LET pp == b.high + b.low + b.close
  IN  [PP |-> pp, R1 |-> 2 * pp - 3 * b.low, R2 |-> pp + 3 * (b.high - b.low),
       R3 |-> 3 * b.high + 2 * (pp - 3 * b.low), S1 |-> 2 * pp - 3 * b.high,
       S2 |-> pp - 3 * (b.high - b.low), S3 |-> 3 * b.low - 2 * (3 * b.high - pp)]

(* pivot_signal: the number of pivots at or below the price. *)
PivotBand(price, pv) ==
  Cardinality({k \in DOMAIN pv : 3 * price >= pv[k]})

(* _pivot_sub_score. *)
PivotScore(price, pv) ==
  LET p == 3 * price
  IN  IF p < pv.S2 THEN 900 ELSE IF p <= pv.S1 THEN 1000 ELSE IF p < pv.PP THEN 650
      ELSE IF p <= pv.R1 THEN 500 ELSE IF p <= pv.R2 THEN 300 ELSE 100

Within(lo, hi, x) == IF x < lo THEN lo ELSE IF hi < x THEN hi ELSE x

RsiScore(rsi) == Within(0, 1000, 500 + (50 - rsi) * 25)

VwapScore(price, vwap) == IF vwap = 0 THEN 500 ELSE IF price > vwap THEN 1000 ELSE 0

\* Mutant: a ranging market gives the pivots more, and takes it from nothing.
WeightsUnbalanced(regime) ==
  [pivot |-> IF regime = "Ranging" THEN 35 ELSE IF regime = "Trending Up" THEN 20 ELSE 25,
   rsi |-> 20, macd |-> 15, vwap |-> 20, sentiment |-> 10, volume |-> 10]

Weights(regime) ==
  LET shift(r, by) == IF regime = r THEN by ELSE 0
  IN  [pivot |-> 25 - shift("Trending Up", 5) + shift("Ranging", 10),
       rsi |-> 20 + shift("Trending Down", 5),
       macd |-> 15 + shift("Trending Up", 5) - shift("Ranging", 10),
       vwap |-> 20 - shift("Trending Down", 5), sentiment |-> 10, volume |-> 10]

SubScores(bar, r) ==
  [pivot |-> PivotScore(r.price, Pivots(bar)), rsi |-> RsiScore(r.rsi),
   macd |-> IF r.rising THEN 1000 ELSE 0, vwap |-> VwapScore(r.price, r.vwap),
   sentiment |-> (r.sentiment + 100) * 5, volume |-> Within(0, 1000, r.volume * 5)]

(* compute_score: the weighted sum, rounded, and the first signal that fits. *)
ComputeScore(bar, r) ==
  LET w == Weights(r.regime)  s == SubScores(bar, r)
      of(k) == w[k] * s[k]
      total == of("pivot") + of("rsi") + of("macd") + of("vwap") + of("sentiment") + of("volume")
      score == (total + 5) \div 10
  IN  [score |-> score,
       signal |-> IF score >= 7000 THEN "Strong Buy" ELSE IF score >= 5500 THEN "Buy"
                  ELSE IF score <= 3000 THEN "Strong Sell" ELSE IF score <= 4500 THEN "Sell"
                  ELSE "Hold"]

-----------------------------------------------------------------------------
(* The first refresh of a day: a bar and any reading. *)
FirstRefresh ==
  /\ scBar = <<>>
  /\ scBar' \in PivotBars
  /\ \E p \in ScorePrices, i \in Rsis, g \in Regimes :
       scReading' = [price |-> p, rsi |-> i, vwap |-> 0, rising |-> FALSE,
                     sentiment |-> 0, volume |-> 100, regime |-> g]
  /\ scResult' = ComputeScore(scBar', scReading')

(* A refresh that read one thing otherwise. *)
Refresh ==
  /\ scBar # <<>>
  /\ \/ \E p \in ScorePrices : scReading' = [scReading EXCEPT !.price = p]
     \/ \E i \in Rsis : scReading' = [scReading EXCEPT !.rsi = i]
     \/ \E v \in Vwaps : scReading' = [scReading EXCEPT !.vwap = v]
     \/ \E m \in BOOLEAN : scReading' = [scReading EXCEPT !.rising = m]
     \/ \E s \in Sentiments : scReading' = [scReading EXCEPT !.sentiment = s]
     \/ \E v \in VolumeRatios : scReading' = [scReading EXCEPT !.volume = v]
     \/ \E g \in Regimes : scReading' = [scReading EXCEPT !.regime = g]
  /\ scResult' = ComputeScore(scBar, scReading')
  /\ UNCHANGED scBar

ScNext == FirstRefresh \/ Refresh
ScSpec == ScInit /\ [][ScNext]_scVars

-----------------------------------------------------------------------------
(* In every regime the score is a share of the whole: the weights that a regime
   shifts still balance, for any readings. *)
ScoreIsAShare == 0 <= scResult.score /\ scResult.score <= 10000

(* All else being equal, a lower RSI, a better sentiment, more volume or a rising
   momentum never lowers the score. *)
ReadingsPullTheirWay ==
  [][scReading # <<>> =>
       LET r == scReading  q == scReading'
       IN  /\ r.price = q.price /\ r.vwap = q.vwap /\ r.regime = q.regime
           /\ q.rsi <= r.rsi /\ q.sentiment >= r.sentiment /\ q.volume >= r.volume
           /\ (r.rising => q.rising)
           => scResult'.score >= scResult.score]_scVars

(* The pivots of a bar are in order, so that the bands of the sub-score and of
   the pivot signal are the same walk up the same ladder: a price in a higher
   band never scores more, but for the fall through the second support. *)
LadderIsInOrder ==
  scBar # <<>> =>
    LET pv == Pivots(scBar)
    IN  /\ pv.S3 <= pv.S2 /\ pv.S2 <= pv.S1 /\ pv.S1 <= pv.PP
        /\ pv.PP <= pv.R1 /\ pv.R1 <= pv.R2 /\ pv.R2 <= pv.R3
        /\ \A p, q \in ScorePrices :
             3 * p >= pv.S2 /\ PivotBand(p, pv) < PivotBand(q, pv) =>
               PivotScore(p, pv) >= PivotScore(q, pv)

(* The scores are balanced: a share of the whole in every regime, each reading
   pulling one way, over a ladder of pivots in order. *)
ScoresAreBalanced ==
  /\ [](ScoreIsAShare /\ LadderIsInOrder)
  /\ ReadingsPullTheirWay
=============================================================================
