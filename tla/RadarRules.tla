----------------------------- MODULE RadarRules -----------------------------
(***************************************************************************)
(* One radar scan by its rules: the market regime, the five detectors, the  *)
(* confidence of a hit and its gate, and the verdict on an alert over the   *)
(* bars that follow it.  (src/src/radar: regime, signals, scoring, scan,    *)
(* tracker.)  Prices are whole rupees; stops and targets are in tenths.     *)
(***************************************************************************)
EXTENDS Integers, Sequences, FiniteSets, SequencesExt

CONSTANTS
  RadarStocks,        \* in the order of the universe, a sequence
  CoreStocks, RadarMinAdtv,
  Snapshots,          \* stock -> the feature snapshots a scan can meet
  MinRR, StopAtrTenths,           \* RADAR_MIN_RR, RADAR_REVERSION_STOP_ATR
  ScoreGate, ReversionGate,
  RadarBars, MaxRadarBars         \* bars after an alert, a bound of the model

RadarUniverse == {RadarStocks[i] : i \in DOMAIN RadarStocks}

(* features.StockFeatures, of the last bar of a stock. *)
Features ==
  [price : Nat \ {0}, open : Nat, prevClose : Nat, prevHigh : Nat, sma7 : Nat, vwap : Nat,
   ema20 : Nat, ema50 : Nat, rsi : Nat, atr : Nat, atrx : Nat, rvol : Nat, rs20 : Int,
   above50 : BOOLEAN, adtv : Nat]

ASSUME RadarRulesAssumption ==
  /\ RadarStocks \in Seq(RadarUniverse) /\ MaxRadarBars \in Nat
  /\ MinRR \in Nat /\ 1 <= MinRR /\ MinRR <= 10      \* tenths of a rupee resolve its caps
  /\ StopAtrTenths \in Nat
  /\ \A s \in RadarUniverse : Snapshots[s] # {} /\ Snapshots[s] \subseteq Features

VARIABLES
  rrPhase,     \* "idle", "scanned", "watching" or "judged"
  rrSnaps,     \* snapshot of each stock
  rrRegime,
  rrRanked,    \* the place of each hit, the best being first
  rrAlert,     \* the alert being watched
  rrBars, rrVerdict

rrVars == <<rrPhase, rrSnaps, rrRegime, rrRanked, rrAlert, rrBars, rrVerdict>>

NoAlert == [type |-> "none"]

RRInit ==
  /\ rrPhase = "idle" /\ rrRegime = "SIDEWAYS" /\ rrRanked = [h \in {} |-> 0] /\ rrAlert = NoAlert
  /\ rrSnaps = [s \in RadarUniverse |-> CHOOSE f \in Snapshots[s] : TRUE]
  /\ rrBars = <<>> /\ rrVerdict = "none"

-----------------------------------------------------------------------------
(* regime.current_regime: a direction counts only when ADX and the breadth of
   the universe confirm it.  The index is its slope, its side of the 50-day
   average and whether the ADX shows a trend. *)
Indexes == [slope : {"rising", "flat", "falling"}, above : BOOLEAN, trending : BOOLEAN]

(* regime.breadth, over the stocks that have data: at least, at most a half. *)
AboveCount(snaps, present) == Cardinality({s \in present : snaps[s].above50})

BreadthBull(snaps, present) ==
  present # {} /\ 2 * AboveCount(snaps, present) >= Cardinality(present)

BreadthBear(snaps, present) ==
  2 * AboveCount(snaps, present) <= Cardinality(present)

CurrentRegime(index, snaps, present) ==
  IF index.trending /\ index.above /\ index.slope = "rising" /\ BreadthBull(snaps, present)
  THEN "TRENDING_BULL"
  ELSE IF index.trending /\ ~ index.above /\ index.slope = "falling"
          /\ BreadthBear(snaps, present)
  THEN "TRENDING_BEAR"
  ELSE "SIDEWAYS"

-----------------------------------------------------------------------------
Lesser(a, b) == IF a <= b THEN a ELSE b

(* signals._reversion_stop: the distance is capped by the reward. *)
ReversionStop(entry, target, atr) ==
  LET byAtr == IF atr > 0 THEN StopAtrTenths * atr ELSE (10 * entry * 2) \div 100
      byRR  == (10 * (target - entry)) \div MinRR
  IN  10 * entry - (IF byRR > 0 THEN Lesser(byAtr, byRR) ELSE byAtr)

(* signals._hit: none of degenerate geometry. *)
Hit(stock, type, entry, stop, target) ==
  IF stop < 10 * entry /\ 10 * entry < target
  THEN {[stock |-> stock, type |-> type, entry |-> 10 * entry, stop |-> stop,
         target |-> target]}
  ELSE {}

(* The stop and the target of a momentum or volume setup. *)
AtrHit(stock, type, f) ==
  Hit(stock, type, f.price,
      IF f.atr > 0 THEN 10 * f.price - 15 * f.atr ELSE (97 * f.price) \div 10,
      IF f.atr > 0 THEN 10 * f.price + 30 * f.atr ELSE (105 * f.price) \div 10)

SmaReversion(stock, f) ==
  IF f.sma7 > 0 /\ 1000 * (f.price - f.sma7) <= -14 * f.price
  THEN Hit(stock, "sma7_reversion", f.price, ReversionStop(f.price, f.sma7, f.atr), 10 * f.sma7)
  ELSE {}

VwapPullback(stock, f) ==
  IF f.ema20 > f.ema50 /\ 100 * f.price <= 101 * f.ema20 /\ f.rsi > 40
  THEN AtrHit(stock, "vwap_pullback", f) ELSE {}

RvolReversal(stock, f) ==
  IF f.rvol >= 150 /\ f.rsi < 35 THEN AtrHit(stock, "rvol_reversal", f) ELSE {}

AtrBreakout(stock, f) ==
  IF f.atrx >= 130 /\ f.price > f.prevHigh /\ f.price > f.vwap
  THEN AtrHit(stock, "atr_breakout", f) ELSE {}

GapReversion(stock, f) ==
  IF /\ 100 * (f.open - f.prevClose) <= -2 * f.prevClose
     /\ f.price > f.open /\ f.prevClose > f.price
  THEN Hit(stock, "gap_reversion", f.price,
           ReversionStop(f.price, f.prevClose, f.atr), 10 * f.prevClose)
  ELSE {}

Detect(stock, f, regime) ==
  IF regime = "TRENDING_BEAR" THEN {}
  ELSE SmaReversion(stock, f) \cup VwapPullback(stock, f) \cup RvolReversal(stock, f)
         \cup AtrBreakout(stock, f) \cup GapReversion(stock, f)

-----------------------------------------------------------------------------
(* scoring: thousandths of a point, a weight scaled by num / den clipped to
   0 .. 1. *)
Credit(weight, num, den) ==
  IF num <= 0 THEN 0 ELSE IF num >= den THEN 1000 * weight
  ELSE (1000 * weight * num) \div den

Reversions == {"sma7_reversion", "rvol_reversal", "gap_reversion"}

Depth(f) == Credit(35, 1000 * (f.sma7 - f.price), 25 * f.price)
BelowVwap(f) == Credit(10, 100 * (f.vwap - f.price), 3 * f.price)

(* What a reversion owes to other things than its price. *)
Backing(f, regime) ==
  Credit(20, 50 - f.rsi, 20) + Credit(10, f.rvol - 100, 100) + Credit(5, f.rs20, 500)
  + Credit(5, f.atrx - 100, 50) + (IF regime = "TRENDING_BEAR" THEN 0 ELSE 15000)

ReversionConfidence(f, regime) == Depth(f) + BelowVwap(f) + Backing(f, regime)

MomentumConfidence(f, regime) ==
  Credit(20, f.rvol - 100, 100)
  + Credit(15, 100 * (f.price - f.sma7), 3 * f.price)
  + Credit(15, 100 * (f.price - f.vwap), 3 * f.price)
  + Credit(10, f.rsi - 50, 20) + Credit(15, f.atrx - 100, 50) + Credit(10, f.rs20, 500)
  + (IF regime = "TRENDING_BULL" THEN 15000 ELSE IF regime = "SIDEWAYS" THEN 7500 ELSE 0)

(* Python's round: halves go to the even number. *)
Rounded(x) ==
  LET q == x \div 1000  r == x % 1000
  IN  IF r > 500 \/ (r = 500 /\ q % 2 = 1) THEN q + 1 ELSE q

Confidence(f, type, regime) ==
  Rounded(IF type \in Reversions THEN ReversionConfidence(f, regime)
          ELSE MomentumConfidence(f, regime))

PassesGate(type, conf) ==
  conf > (IF type \in Reversions THEN ReversionGate ELSE ScoreGate)

(* scan.run_scan: illiquid names are dropped, the core ones never. *)
Liquid(stock, f) == stock \in CoreStocks \/ f.adtv >= RadarMinAdtv

Scored(snaps, present, regime) ==
  {[stock |-> h.stock, type |-> h.type, entry |-> h.entry, stop |-> h.stop,
    target |-> h.target, conf |-> Confidence(snaps[h.stock], h.type, regime)] :
     h \in UNION {Detect(s, snaps[s], regime) : s \in {u \in present : Liquid(u, snaps[u])}}}

Detectors == <<"sma7_reversion", "vwap_pullback", "rvol_reversal", "atr_breakout",
               "gap_reversion">>

PlaceOf(x, seq) == CHOOSE i \in DOMAIN seq : seq[i] = x

(* scoring.rank: high to low, a stable sort of the scan's order. *)
Before(a, b) ==
  \/ a.conf > b.conf
  \/ a.conf = b.conf /\ PlaceOf(a.stock, RadarStocks) < PlaceOf(b.stock, RadarStocks)
  \/ a.conf = b.conf /\ a.stock = b.stock
     /\ PlaceOf(a.type, Detectors) < PlaceOf(b.type, Detectors)

Rank(hits) == [h \in hits |-> 1 + Cardinality({g \in hits : Before(g, h)})]

RunScan ==
  /\ rrPhase = "idle"
  /\ \E snaps \in {g \in [RadarUniverse -> UNION {Snapshots[s] : s \in RadarUniverse}] :
                     \A s \in RadarUniverse : g[s] \in Snapshots[s]},
        present \in SUBSET RadarUniverse, index \in Indexes :
       LET regime == CurrentRegime(index, snaps, present)
       IN  /\ rrSnaps' = snaps /\ rrRegime' = regime
           /\ rrRanked' = Rank(Scored(snaps, present, regime))
  /\ rrPhase' = "scanned"
  /\ UNCHANGED <<rrAlert, rrBars, rrVerdict>>

(* An alert above its gate goes out; from then on its bars count. *)
Alerted ==
  /\ rrPhase = "scanned"
  /\ \E h \in DOMAIN rrRanked : PassesGate(h.type, h.conf) /\ rrAlert' = h
  /\ rrPhase' = "watching"
  /\ UNCHANGED <<rrSnaps, rrRegime, rrRanked, rrBars, rrVerdict>>

BarArrives ==
  /\ rrPhase = "watching" /\ Len(rrBars) < MaxRadarBars
  /\ \E b \in RadarBars : rrBars' = Append(rrBars, b)
  /\ UNCHANGED <<rrPhase, rrSnaps, rrRegime, rrRanked, rrAlert, rrVerdict>>

StopTouched(alert, bar) == 10 * bar.low <= alert.stop
TargetTouched(alert, bar) == 10 * bar.high >= alert.target

\* Mutant: the target is looked at first.
TargetFirst(verdict, alert, bar) ==
  IF verdict # "NEUTRAL" THEN verdict
  ELSE IF TargetTouched(alert, bar) THEN "WIN"
  ELSE IF StopTouched(alert, bar) THEN "LOSS" ELSE "NEUTRAL"

(* tracker.evaluate_window: the first bar that touches decides, the stop wins
   a bar that touches both. *)
AfterBar(verdict, alert, bar) ==
  IF verdict # "NEUTRAL" THEN verdict
  ELSE IF StopTouched(alert, bar) THEN "LOSS"
  ELSE IF TargetTouched(alert, bar) THEN "WIN" ELSE "NEUTRAL"

EvaluateWindow(alert, bars) ==
  LET walk[i \in 0 .. Len(bars)] ==
        IF i = 0 THEN "NEUTRAL" ELSE AfterBar(walk[i - 1], alert, bars[i])
  IN  walk[Len(bars)]

Judge ==
  /\ rrPhase = "watching" /\ rrBars # <<>>
  /\ rrVerdict' = EvaluateWindow(rrAlert, rrBars)
  /\ rrPhase' = "judged"
  /\ UNCHANGED <<rrSnaps, rrRegime, rrRanked, rrAlert, rrBars>>

RRNext == RunScan \/ Alerted \/ BarArrives \/ Judge
RRSpec == RRInit /\ [][RRNext]_rrVars

-----------------------------------------------------------------------------
(* "The stop distance is capped so the trade clears a minimum RR toward its
   (nearby) mean target": no reversion to a mean risks more than its reward
   over MinRR, whatever the volatility, and none at all is short. *)
ReversionClearsMinRR ==
  \A h \in DOMAIN rrRanked :
    h.type \in {"sma7_reversion", "gap_reversion"} =>
      MinRR * (h.entry - h.stop) <= h.target - h.entry

(* The deeper the stretch, the higher a reversion ranks: the same stock at a
   lower price never gets less confidence, so a falling price cannot take an
   alert back below its gate. *)
DeeperNeverScoresLess ==
  rrPhase = "scanned" =>
    \A s \in RadarUniverse : \A p \in {g.price : g \in Snapshots[s]} :
      LET f == rrSnaps[s]
      IN  p < f.price =>
            Confidence([f EXCEPT !.price = p], "sma7_reversion", rrRegime)
              >= Confidence(f, "sma7_reversion", rrRegime)

(* An alert won exactly when some bar reached its target before, and not in the
   same bar as, any bar that reached its stop; it lost when a stop came first. *)
VerdictIsTheFirstTouch ==
  rrPhase = "judged" =>
    LET stopped(i) == StopTouched(rrAlert, rrBars[i])
        reached(i) == TargetTouched(rrAlert, rrBars[i])
    IN  /\ rrVerdict = "WIN" <=> \E i \in DOMAIN rrBars :
             reached(i) /\ \A j \in 1 .. i : ~ stopped(j)
        /\ rrVerdict = "LOSS" <=> \E i \in DOMAIN rrBars :
             stopped(i) /\ \A j \in 1 .. i - 1 : ~ reached(j)

(* The rules rank a deeper stretch no lower, size a reversion's stop by its
   reward, and judge an alert by the first level touched. *)
RadarRulesHold ==
  /\ ReversionClearsMinRR
  /\ DeeperNeverScoresLess
  /\ VerdictIsTheFirstTouch
=============================================================================
