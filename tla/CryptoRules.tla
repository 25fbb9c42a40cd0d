----------------------------- MODULE CryptoRules -----------------------------
(***************************************************************************)
(* What a pass says of one coin: the signal score, the trend label, the dip *)
(* below the weekly mean, and the portfolio's result after fees and tax.    *)
(* (src/src/crypto/signals.py, portfolio.py, costs.py.)  The indicators are *)
(* readings; sub-scores are thousandths, the score ten-thousandths; money   *)
(* after fees is in ten-thousandths, after tax in ten-millionths of a unit. *)
(***************************************************************************)
EXTENDS Integers, Sequences

CONSTANTS
  CoinPrices, CoinEmas,          \* an average of 0 is not known yet
  CoinBands,                         \* records lower, upper
  CoinRsis, WeekChanges, CoinVolumes,    \* per cent
  Invested,                      \* money put into each coin held, in the order of the holdings
  Values,                        \* what each may be worth; 0 when no price is known
  FeeRate                        \* both sides, in ten-thousandths

ASSUME CryptoRulesAssumption ==
  /\ CoinPrices \subseteq Nat \ {0} /\ CoinEmas \subseteq Nat /\ CoinRsis \subseteq 0 .. 100
  /\ CoinVolumes \subseteq Nat /\ WeekChanges \subseteq Int /\ CoinBands \subseteq [lower : Int, upper : Int]
  /\ Invested \in Seq(Nat \ {0}) /\ Values \subseteq Nat /\ FeeRate \in Nat

VARIABLES crReading, crSignal, crValues, crSummary

crVars == <<crReading, crSignal, crValues, crSummary>>

Holdings == DOMAIN Invested

NoSummary == [net |-> 0, coins |-> {}]

CrInit ==
  /\ crReading = <<>> /\ crSignal = [score |-> 0, signal |-> "none", trend |-> "none", ema |-> 0]
  /\ crValues = [h \in Holdings |-> 0] /\ crSummary = NoSummary

-----------------------------------------------------------------------------
Bound(x) == IF x < 0 THEN 0 ELSE IF x > 1000 THEN 1000 ELSE x

CoinRsiScore(rsi) == Bound(500 + (50 - rsi) * 25)

BandScore(price, b) ==
  IF b.upper <= b.lower THEN 500
  ELSE LET width == b.upper - b.lower
       IN  Bound((2000 * (b.upper - price) + width) \div (2 * width))

Pull(up, weight) == IF up THEN weight ELSE -weight

(* _ema_trend_score; an average that is not known pulls no way. *)
EmaScore(r) ==
  500 + (IF r.ema20 > 0 THEN Pull(r.price > r.ema20, 150) ELSE 0)
      + (IF r.ema20 > 0 /\ r.ema50 > 0 THEN Pull(r.ema20 > r.ema50, 200) ELSE 0)
      + (IF r.ema200 > 0 THEN Pull(r.price > r.ema200, 150) ELSE 0)

(* _momentum_score: a pullback scores high. *)
MomentumScore(change) ==
  IF change <= -20 THEN 900 ELSE IF change <= -10 THEN 750 ELSE IF change <= -5 THEN 600
  ELSE IF change <= 5 THEN 500 ELSE IF change <= 15 THEN 350 ELSE 200

TrendLabel(r) ==
  IF r.price > r.ema20 /\ r.ema20 > r.ema50 /\ r.ema50 > r.ema200 /\ r.ema200 > 0 THEN "Strong Uptrend"
  ELSE IF r.price > r.ema50 /\ r.ema50 > 0 THEN "Uptrend"
  ELSE IF r.ema20 > 0 /\ r.ema50 > 0 /\ r.price < r.ema20 /\ r.ema20 < r.ema50 THEN "Downtrend"
  ELSE "Ranging"

(* compute_crypto_signal. *)
ComputeSignal(r) ==
  LET total == 25 * CoinRsiScore(r.rsi) + (IF r.rising THEN 20000 ELSE 0)
               + 20 * BandScore(r.price, r.band) + 20 * EmaScore(r)
               + 10 * MomentumScore(r.change) + 5 * Bound(5 * r.volume)
      score == (total + 5) \div 10
  IN  [score |-> score, ema |-> EmaScore(r), trend |-> TrendLabel(r),
       signal |-> IF score >= 7200 THEN "Strong Buy" ELSE IF score >= 5800 THEN "Buy"
                  ELSE IF score <= 2800 THEN "Strong Sell" ELSE IF score <= 4200 THEN "Sell"
                  ELSE "Hold"]

-----------------------------------------------------------------------------
(* net_of_fees_pct, of money: in ten-thousandths. *)
AfterFees(invested, value) == 10000 * (value - invested) - FeeRate * invested

(* post_tax_pct: 31.2% of a gain, and no relief of a loss. *)
AfterTax(invested, value) ==
  LET gain == AfterFees(invested, value) IN IF gain > 0 THEN 688 * gain ELSE 1000 * gain

SumOf(f) ==
  LET sum[i \in 0 .. Len(f)] == IF i = 0 THEN 0 ELSE sum[i - 1] + f[i] IN sum[Len(f)]

TotalOver(f, S) == SumOf([h \in 1 .. Len(f) |-> IF h \in S THEN f[h] ELSE 0])

Priced(values) == {h \in Holdings : values[h] > 0}

\* Mutant: the tax is taken on what all coins made together.
NetOfTheWhole(values) ==
  AfterTax(TotalOver(Invested, Priced(values)), TotalOver(values, Priced(values)))

(* portfolio_summary: each coin's own net, added up. *)
NetOf(values) ==
  TotalOver([h \in Holdings |-> AfterTax(Invested[h], values[h])], Priced(values))

Summary(values) ==
  IF Priced(values) = {} THEN NoSummary ELSE [net |-> NetOf(values), coins |-> Priced(values)]

-----------------------------------------------------------------------------
(* A coin's signal and the portfolio's sum share no state in a pass: each is
   explored by itself. *)
FirstReading ==
  /\ crReading = <<>> /\ crSummary = NoSummary
  /\ \E p \in CoinPrices, e20, e50, e200 \in CoinEmas, b \in CoinBands :
       crReading' = [price |-> p, ema20 |-> e20, ema50 |-> e50, ema200 |-> e200, band |-> b,
                     rsi |-> 50, change |-> 0, volume |-> 100, rising |-> FALSE]
  /\ crSignal' = ComputeSignal(crReading')
  /\ UNCHANGED <<crValues, crSummary>>

(* A pass that read one indicator otherwise. *)
NextReading ==
  /\ crReading # <<>>
  /\ \/ \E i \in CoinRsis : crReading' = [crReading EXCEPT !.rsi = i]
     \/ \E c \in WeekChanges : crReading' = [crReading EXCEPT !.change = c]
     \/ \E v \in CoinVolumes : crReading' = [crReading EXCEPT !.volume = v]
     \/ \E m \in BOOLEAN : crReading' = [crReading EXCEPT !.rising = m]
  /\ crSignal' = ComputeSignal(crReading')
  /\ UNCHANGED <<crValues, crSummary>>

(* A pass that found other prices of the coins held. *)
PortfolioPass ==
  /\ crReading = <<>>
  /\ \E h \in Holdings, v \in Values : crValues' = [crValues EXCEPT ![h] = v]
  /\ crSummary' = Summary(crValues')
  /\ UNCHANGED <<crReading, crSignal>>

CrNext == FirstReading \/ NextReading \/ PortfolioPass
CrSpec == CrInit /\ [][CrNext]_crVars

-----------------------------------------------------------------------------
(* The label and the sub-score of the same averages, read off two ladders. *)
LaddersAgree(r, trend, ema) ==
  /\ trend = "Strong Uptrend" => ema = 1000
  /\ trend = "Downtrend" => ema <= 300
  /\ {r.ema20, r.ema50, r.ema200} = {0} => ema = 500

(* The two ladders over the same averages agree: a Strong Uptrend has the full
   sub-score, a Downtrend never more than three tenths, and averages not known
   leave it in the middle. *)
TrendAndScoreAgree ==
  crReading # <<>> => LaddersAgree(crReading, crSignal.trend, crSignal.ema)

(* The score is against the crowd: with all else equal, a lower RSI, a deeper
   week, more volume or a rising momentum never lowers it, and it stays a share. *)
ScoreIsContrarian ==
  [][/\ 0 <= crSignal'.score /\ crSignal'.score <= 10000
     /\ crReading # <<>> =>
          LET r == crReading  q == crReading'
          IN  /\ q.rsi <= r.rsi /\ q.change <= r.change /\ q.volume >= r.volume
              /\ (r.rising => q.rising)
              => crSignal'.score >= crSignal.score]_crVars

(* A loss is never set off: what all coins leave is less than the tax on their
   sum would, exactly when one coin gained and another lost. *)
NoSetOff ==
  crSummary.coins # {} =>
    LET invested == TotalOver(Invested, crSummary.coins)
        value == TotalOver(crValues, crSummary.coins)
        gain(h) == AfterFees(Invested[h], crValues[h])
        mixed == \E g, l \in crSummary.coins : gain(g) > 0 /\ gain(l) < 0
    IN  /\ mixed => crSummary.net < AfterTax(invested, value)
        /\ ~ mixed => crSummary.net = AfterTax(invested, value)

(* The coins' rules: the trend and its sub-score agree, losses are not set off,
   and the score is contrarian. *)
CoinRulesHold ==
  /\ [](TrendAndScoreAgree /\ NoSetOff)
  /\ ScoreIsContrarian
=============================================================================
