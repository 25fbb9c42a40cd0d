----------------------------- MODULE RulesProofs -----------------------------
(***************************************************************************)
(* What the rules compute, for every price, bar and reading.  Six           *)
(* components that only calculate: the supertrend line, the predictor, the  *)
(* score of a refresh, the rules of the radar, those of the coins and the   *)
(* intraday advice.  For each, lemmas say what its operators return         *)
(* (ordered, bounded, monotone), an invariant ties its variables to them,   *)
(* and the theorem closes the section.                                      *)
(*   LineTrails       SlSpec => LineIsATrailingStop                         *)
(*   BriefingsAgree   PdSpec => []PredictionsAgree                          *)
(*   ScoresBalance    ScSpec => ScoresAreBalanced                           *)
(*   RadarIsFair      RRSpec => []RadarRulesHold                            *)
(*   CoinsHold        CrSpec => CoinRulesHold                               *)
(*   AdviceAgrees     IdSpec => IntradayIsConsistent                        *)
(* The walk of evaluate_window is a recursive function: the function its    *)
(* equation defines is shown to exist by giving one, and to be it by a      *)
(* least bar where the two would differ (LeastOne).                         *)
(***************************************************************************)
EXTENDS SupertrendLine, Predictor, ScoreRules, RadarRules, CryptoRules, Intraday,
        FiniteSetTheorems, CountingTheorems

-----------------------------------------------------------------------------
(* The supertrend line.  The line lies on the band of its direction, and bands
   are known once a whole period of true ranges is. *)
LineInv ==
  /\ SlTypeOK /\ LineIsOnItsSide
  /\ slLine.dir = 1 => slLine.value = slBands.lower
  /\ slLine.dir = -1 => slLine.value = slBands.upper
  /\ slBands # NoBands => slLine.dir # 0 /\ Len(slRanges) = AtrPeriod

LEMMA LineConstants ==
  /\ AtrPeriod \in Nat /\ 1 <= AtrPeriod /\ AtrTimes \in Nat
  /\ MaxStlBars \in Nat /\ Scale \in Nat
  /\ \A b \in StlBars : /\ b.high \in Nat /\ b.low \in Nat /\ b.close \in Nat
                        /\ b.low <= b.close /\ b.close <= b.high
BY SupertrendLineAssumption DEF Scale

LEMMA Markers ==
  /\ \A b \in StlBars : b # NoBar
  /\ \A b \in Bands : b # NoBands
<1>1. ASSUME NEW b \in StlBars  PROVE b # NoBar
  <2>1. b \in [high : Nat, low : Nat, close : Nat]
    BY SupertrendLineAssumption
  <2>2. "high" \in DOMAIN b /\ "high" \notin DOMAIN NoBar
    BY <2>1 DEF NoBar
  <2> QED  BY <2>2
<1>2. ASSUME NEW b \in Bands  PROVE b # NoBands
  <2>1. "upper" \in DOMAIN b /\ "upper" \notin DOMAIN NoBands
    BY DEF NoBands, Bands
  <2> QED  BY <2>1
<1> QED  BY <1>1, <1>2

LEMMA BasicType ==
  ASSUME NEW b \in StlBars, NEW sum \in Int
  PROVE  BasicBands(b, sum) \in Bands
BY LineConstants DEF BasicBands, Bands

(* The bands around a bar that is not too wide contain its close. *)
LEMMA BandsHoldTheClose ==
  ASSUME NEW b \in StlBars, NEW sum \in Int,
         AtrPeriod * (b.high - b.low) <= AtrTimes * (2 * sum)
  PROVE  /\ BasicBands(b, sum).lower <= Scale * b.close
         /\ Scale * b.close <= BasicBands(b, sum).upper
<1> DEFINE p == AtrPeriod  h == b.high  l == b.low  c == b.close
           w == AtrTimes * (2 * sum)
<1>1. /\ p \in Nat /\ h \in Nat /\ l \in Nat /\ c \in Nat /\ l <= c /\ c <= h
      /\ w \in Int
  BY LineConstants
<1> HIDE DEF w
<1>2. p * (h - l) <= w
  BY DEF w
<1>3. p * l <= p * c /\ p * c <= p * h
  <2> HIDE DEF p, h, l, c
  <2>1. \A x, y \in Nat : x <= y => p * x <= p * y
    BY <1>1
  <2> QED  BY <1>1, <2>1
<1>4. p * (h - l) = p * h - p * l /\ p * (h + l) = p * h + p * l
  <2> HIDE DEF p, h, l, c
  <2> QED  BY <1>1
<1>5. (2 * p) * c = 2 * (p * c)
  <2> HIDE DEF p, h, l, c
  <2> QED  BY <1>1
<1>6. p * h \in Int /\ p * l \in Int /\ p * c \in Int
  <2> HIDE DEF p, h, l, c
  <2> QED  BY <1>1
<1>7. p * (h + l) - w <= (2 * p) * c /\ (2 * p) * c <= p * (h + l) + w
  <2> HIDE DEF p, h, l, c
  <2> QED  BY <1>1, <1>2, <1>3, <1>4, <1>5, <1>6
<1> QED  BY <1>7 DEF BasicBands, Scale, w

LEMMA TrailedType ==
  ASSUME NEW prev \in Bands \cup {NoBands}, NEW basic \in Bands, NEW before \in Int
  PROVE  TrailedBands(prev, basic, before) \in Bands
BY DEF TrailedBands, Bands

(* Where the line goes, whatever the bands: it is on the band of its direction,
   on the right side when the bar's own bands hold the close, and turns only on
   a cross. *)
LEMMA LineFollows ==
  ASSUME NEW prev \in Bands \cup {NoBands}, NEW basic \in Bands,
         NEW before \in Int, NEW close \in Int,
         NEW line \in [value : Int, dir : {-1, 0, 1}],
         prev # NoBands => line.dir # 0,
         line.dir = 1 => line.value = prev.lower,
         line.dir = -1 => line.value = prev.upper,
         NEW bands, bands = TrailedBands(prev, basic, before),
         NEW next, next = FollowBand(line, prev, bands, close)
  PROVE  /\ next \in [value : Int, dir : {-1, 1}]
         /\ next.dir = 1 => next.value = bands.lower
         /\ next.dir = -1 => next.value = bands.upper
         /\ basic.lower <= close /\ close <= basic.upper =>
              IF next.dir = 1 THEN next.value <= close ELSE close <= next.value
         /\ prev # NoBands /\ next.dir # line.dir /\ prev.upper # prev.lower =>
              IF next.dir = 1 THEN close > bands.upper ELSE close < bands.lower
         /\ /\ prev # NoBands /\ next.dir = line.dir
            /\ IF line.dir = 1 THEN line.value <= before ELSE before <= line.value
            => IF line.dir = 1 THEN next.value >= line.value ELSE next.value <= line.value
<1>1. bands \in Bands
  BY TrailedType
<1>2. CASE prev = NoBands
  BY <1>1, <1>2 DEF TrailedBands, FollowBand, Bands
<1>3. CASE prev # NoBands
  <2>1. prev \in Bands
    BY <1>3
  <2>2. /\ bands.upper = IF basic.upper < prev.upper \/ before > prev.upper
                         THEN basic.upper ELSE prev.upper
        /\ bands.lower = IF basic.lower > prev.lower \/ before < prev.lower
                         THEN basic.lower ELSE prev.lower
    BY <1>3 DEF TrailedBands
  <2>3. next = IF line.value = prev.upper
               THEN IF close > bands.upper THEN [value |-> bands.lower, dir |-> 1]
                    ELSE [value |-> bands.upper, dir |-> -1]
               ELSE IF close < bands.lower THEN [value |-> bands.upper, dir |-> -1]
                    ELSE [value |-> bands.lower, dir |-> 1]
    BY <1>3 DEF FollowBand
  <2> DEFINE u == bands.upper  l == bands.lower  v == next.value  d == next.dir
  <2>4. /\ u \in Int /\ l \in Int /\ basic.upper \in Int /\ basic.lower \in Int
        /\ prev.upper \in Int /\ prev.lower \in Int /\ line.value \in Int
        /\ line.dir \in {-1, 1}
    BY <1>1, <1>3, <2>1 DEF Bands
  <2>5. \/ line.value = prev.upper /\ close > u /\ v = l /\ d = 1
        \/ line.value = prev.upper /\ close <= u /\ v = u /\ d = -1
        \/ line.value # prev.upper /\ close < l /\ v = u /\ d = -1
        \/ line.value # prev.upper /\ close >= l /\ v = l /\ d = 1
    BY <2>3, <2>4
  <2>6. next \in [value : Int, dir : {-1, 1}]
    BY <2>3, <2>4
  <2>7. /\ d = 1 => v = l
        /\ d = -1 => v = u
    BY <2>4, <2>5
  <2>8. ASSUME basic.lower <= close, close <= basic.upper
        PROVE  IF d = 1 THEN v <= close ELSE close <= v
    BY <2>2, <2>4, <2>5, <2>8
  <2>9. ASSUME d # line.dir, prev.upper # prev.lower
        PROVE  IF d = 1 THEN close > u ELSE close < l
    BY <2>4, <2>5, <2>9
  <2>10. ASSUME d = line.dir,
                IF line.dir = 1 THEN line.value <= before ELSE before <= line.value
         PROVE  IF line.dir = 1 THEN v >= line.value ELSE v <= line.value
    BY <2>2, <2>4, <2>5, <2>10
  <2>11. /\ basic.lower <= close /\ close <= basic.upper =>
               IF d = 1 THEN v <= close ELSE close <= v
         /\ d # line.dir /\ prev.upper # prev.lower =>
               IF d = 1 THEN close > u ELSE close < l
         /\ /\ d = line.dir
            /\ IF line.dir = 1 THEN line.value <= before ELSE before <= line.value
            => IF line.dir = 1 THEN v >= line.value ELSE v <= line.value
    BY <2>8, <2>9, <2>10
  <2> QED  BY <1>3, <2>6, <2>7, <2>11
<1> QED  BY <1>2, <1>3

LEMMA RangeType ==
  ASSUME SlTypeOK, NEW b \in StlBars
  PROVE  TrueRange(slBar, b) \in Int
<1>1. slBar # NoBar => slBar \in StlBars
  BY DEF SlTypeOK
<1> QED  BY <1>1, LineConstants DEF TrueRange, Higher

LEMMA RollingWindow ==
  ASSUME NEW s \in Seq(Int), Len(s) <= AtrPeriod, NEW x \in Int
  PROVE  LET full == Len(s) = AtrPeriod
             ranges == Append(IF full THEN Tail(s) ELSE s, x)
         IN  /\ ranges \in Seq(Int) /\ Len(ranges) <= AtrPeriod
             /\ full => Head(s) \in Int /\ Len(ranges) = AtrPeriod
<1>1. CASE Len(s) = AtrPeriod
  <2>1. s # <<>> /\ Head(s) \in Int /\ Tail(s) \in Seq(Int) /\ Len(Tail(s)) = Len(s) - 1
    BY <1>1, LineConstants
  <2> QED  BY <1>1, <2>1, LineConstants
<1>2. CASE Len(s) # AtrPeriod
  BY <1>2, LineConstants
<1> QED  BY <1>1, <1>2

(* What a bar does to the line, for the invariant and for the steps. *)
LineStep ==
  slLine.dir # 0 =>
    /\ OnItsSide /\ slLine'.dir = slLine.dir =>
         IF slLine.dir = 1 THEN slLine'.value >= slLine.value
                           ELSE slLine'.value <= slLine.value
    /\ slLine'.dir # slLine.dir /\ slBands.upper # slBands.lower =>
         IF slLine'.dir = 1 THEN Scale * slBar'.close > slBands'.upper
                            ELSE Scale * slBar'.close < slBands'.lower

LEMMA BarKeepsLine ==
  ASSUME LineInv, SlBar
  PROVE  LineInv' /\ LineStep
<1>1. PICK b \in StlBars :
        LET tr == TrueRange(slBar, b)
            full == Len(slRanges) = AtrPeriod
            ranges == Append(IF full THEN Tail(slRanges) ELSE slRanges, tr)
            sum == slSum + tr - (IF full THEN Head(slRanges) ELSE 0)
            known == Len(ranges) = AtrPeriod
            before == IF slBar = NoBar THEN 0 ELSE Scale * slBar.close
            bands == TrailedBands(slBands, BasicBands(b, sum), before)
        IN  /\ slBar' = b /\ slRanges' = ranges /\ slSum' = sum
            /\ slBands' = IF known THEN bands ELSE NoBands
            /\ slLine' = IF known THEN FollowBand(slLine, slBands, bands, Scale * b.close)
                                  ELSE NoLine
  BY DEF SlBar
<1> DEFINE tr == TrueRange(slBar, b)
           before == IF slBar = NoBar THEN 0 ELSE Scale * slBar.close
           close == Scale * b.close
           bands == TrailedBands(slBands, BasicBands(b, slSum'), before)
           next == FollowBand(slLine, slBands, bands, close)
<1>2. /\ slRanges \in Seq(Int) /\ Len(slRanges) <= AtrPeriod /\ slSum \in Int
      /\ slBands \in Bands \cup {NoBands} /\ slLine \in [value : Int, dir : {-1, 0, 1}]
      /\ slBar \in StlBars \cup {NoBar} /\ tr \in Int
      /\ slLine.dir # 0 => slBar # NoBar /\ slBands # NoBands
  BY RangeType DEF LineInv, SlTypeOK
<1>3. /\ slRanges' \in Seq(Int) /\ Len(slRanges') <= AtrPeriod /\ slSum' \in Int
      /\ Len(slRanges) = AtrPeriod => Len(slRanges') = AtrPeriod
  BY <1>1, <1>2, RollingWindow
<1>4. /\ slBar' = b
      /\ slBands' = IF Len(slRanges') = AtrPeriod THEN bands ELSE NoBands
      /\ slLine' = IF Len(slRanges') = AtrPeriod THEN next ELSE NoLine
  BY <1>1
<1>5. before \in Int /\ close \in Int /\ BasicBands(b, slSum') \in Bands
  BY <1>2, <1>3, LineConstants, BasicType
<1>6. bands \in Bands
  BY <1>2, <1>5, TrailedType
<1>7. slCount' \in 0 .. MaxStlBars
  BY LineConstants DEF SlBar, LineInv, SlTypeOK
<1>8. CASE Len(slRanges') # AtrPeriod
  <2>1. slBands' = NoBands /\ slLine' = NoLine
    BY <1>4, <1>8
  <2>2. slLine.dir = 0
    BY <1>2, <1>3, <1>8 DEF LineInv
  <2> QED
    BY <1>2, <1>3, <1>4, <1>7, <2>1, <2>2
    DEF LineInv, SlTypeOK, LineIsOnItsSide, NoLine, LineStep
<1>9. CASE Len(slRanges') = AtrPeriod
  <2>1. slBands' = bands /\ slLine' = next
    BY <1>4, <1>9
  <2>2. slLine.dir = 1 => slLine.value = slBands.lower
    BY DEF LineInv
  <2>3. slLine.dir = -1 => slLine.value = slBands.upper
    BY DEF LineInv
  <2>4. slBands # NoBands => slLine.dir # 0
    BY DEF LineInv
  <2>5. /\ slLine' \in [value : Int, dir : {-1, 1}]
        /\ slLine'.dir = 1 => slLine'.value = slBands'.lower
        /\ slLine'.dir = -1 => slLine'.value = slBands'.upper
        /\ /\ BasicBands(b, slSum').lower <= close
           /\ close <= BasicBands(b, slSum').upper
           => IF slLine'.dir = 1 THEN slLine'.value <= close ELSE close <= slLine'.value
        /\ slBands # NoBands /\ slLine'.dir # slLine.dir /\ slBands.upper # slBands.lower =>
             IF slLine'.dir = 1 THEN close > slBands'.upper ELSE close < slBands'.lower
        /\ /\ slBands # NoBands /\ slLine'.dir = slLine.dir
           /\ IF slLine.dir = 1 THEN slLine.value <= before ELSE before <= slLine.value
           => IF slLine.dir = 1 THEN slLine'.value >= slLine.value
                                ELSE slLine'.value <= slLine.value
    <3> HIDE DEF bands, next, before, close, tr
    <3>1. bands = TrailedBands(slBands, BasicBands(b, slSum'), before)
      BY DEF bands
    <3>2. next = FollowBand(slLine, slBands, bands, close)
      BY DEF next
    <3> QED  BY <1>2, <1>5, <2>1, <2>2, <2>3, <2>4, <3>1, <3>2, LineFollows
  <2>6. ~ WideBar' => /\ BasicBands(b, slSum').lower <= close
                      /\ close <= BasicBands(b, slSum').upper
    <3>1. ASSUME ~ WideBar'
          PROVE  AtrPeriod * (b.high - b.low) <= AtrTimes * (2 * slSum')
      <4> DEFINE x == AtrPeriod * (b.high - b.low)  y == AtrTimes * (2 * slSum')
      <4>1. ~ (x > y)
        BY Zenon, <1>4, <3>1 DEF WideBar
      <4>2. x \in Int /\ y \in Int
        <5>1. b.high \in Int /\ b.low \in Int /\ slSum' \in Int /\ AtrPeriod \in Int /\ AtrTimes \in Int
          BY <1>3, LineConstants
        <5> QED  BY <5>1
      <4> HIDE DEF x, y
      <4>3. x <= y
        BY <4>1, <4>2
      <4> QED  BY Zenon, <4>3 DEF x, y
    <3> QED  BY <1>3, <3>1, BandsHoldTheClose
  <2>7. slBands' # NoBands /\ slBar' # NoBar /\ slBar' \in StlBars
    BY <1>4, <1>6, <2>1, Markers
  <2>8. SlTypeOK'
    BY <1>3, <1>6, <1>7, <2>1, <2>5, <2>7 DEF SlTypeOK
  <2>9. LineIsOnItsSide'
    BY <1>4, <2>5, <2>6 DEF LineIsOnItsSide, OnItsSide
  <2>10. LineInv'
    <3>1. slLine'.dir # 0
      BY <2>5
    <3> QED  BY <1>9, <2>5, <2>8, <2>9, <3>1 DEF LineInv
  <2>11. ASSUME slLine.dir # 0, OnItsSide
         PROVE  IF slLine.dir = 1 THEN slLine.value <= before ELSE before <= slLine.value
    <3>1. slBar # NoBar
      BY <1>2, <2>11
    <3>2. before = Scale * slBar.close
      BY <3>1
    <3> HIDE DEF before
    <3> QED  BY <2>11, <3>2 DEF OnItsSide
  <2>12. LineStep
    BY <1>2, <1>4, <2>5, <2>11 DEF LineStep
  <2> QED  BY <2>10, <2>12
<1> QED  BY <1>8, <1>9

LEMMA LineInitially == SlInit => LineInv
BY LineConstants
   DEF SlInit, LineInv, SlTypeOK, LineIsOnItsSide, NoLine, NoBar, NoBands

(* LineIsATrailingStop (supertrend.py, read by the strategy as its trailing
   stop): on every bar that is not wider than its own bands the line is on the
   docstring's side of the price; a line on its side only tightens; and it
   turns only when the close crosses its band.  For any period, multiplier,
   bars and number of them. *)
THEOREM LineTrails == SlSpec => LineIsATrailingStop
<1>1. SlInit => LineInv
  BY LineInitially
<1>2. LineInv /\ [SlNext]_slVars => LineInv'
  <2>1. CASE SlBar
    BY <2>1, BarKeepsLine
  <2>2. CASE UNCHANGED slVars
    BY <2>2 DEF slVars, LineInv, SlTypeOK, LineIsOnItsSide, WideBar, OnItsSide
  <2> QED  BY <2>1, <2>2 DEF SlNext
<1>3. LineInv => SlTypeOK /\ LineIsOnItsSide
  BY DEF LineInv
<1>4. LineInv /\ [SlNext]_slVars =>
        [slLine.dir # 0 /\ OnItsSide /\ slLine'.dir = slLine.dir =>
           IF slLine.dir = 1 THEN slLine'.value >= slLine.value
                             ELSE slLine'.value <= slLine.value]_slVars
  BY BarKeepsLine DEF SlNext, LineStep
<1>5. LineInv /\ [SlNext]_slVars =>
        [slLine.dir # 0 /\ slLine'.dir # slLine.dir /\ slBands.upper # slBands.lower =>
           LET close == Scale * slBar'.close
           IN  IF slLine'.dir = 1 THEN close > slBands'.upper
                                  ELSE close < slBands'.lower]_slVars
  BY BarKeepsLine DEF SlNext, LineStep
<1> QED
  BY <1>1, <1>2, <1>3, <1>4, <1>5, PTL
  DEF SlSpec, LineIsATrailingStop, LineOnlyTightens, TurnsOnACross

-----------------------------------------------------------------------------
(* The predictor: what its tables and its arithmetic return. *)

GapRows == {<<100, 100, 86>>, <<83, 67, 50>>, <<79, 50, 43>>, <<73, 53, 47>>}

LEMMA RowsOfTheTable ==
  ASSUME NEW d \in Int
  PROVE  /\ GapRow(d) \in GapRows
         /\ \A e \in Int : d <= e => GapRow(d)[1] <= GapRow(e)[1]
<1>1. \A e \in Int : GapRow(e) = IF e >= 55 THEN <<100, 100, 86>>
                                 ELSE IF e >= 35 THEN <<83, 67, 50>>
                                 ELSE IF e >= 25 THEN <<79, 50, 43>>
                                 ELSE <<73, 53, 47>>
  BY DEF GapRow
<1>2. GapRow(d) \in GapRows
  BY <1>1 DEF GapRows
<1>3. ASSUME NEW e \in Int, d <= e  PROVE GapRow(d)[1] <= GapRow(e)[1]
  BY <1>1, <1>3
<1> QED  BY <1>2, <1>3

LEMMA FactorsAreRates ==
  ASSUME NEW month, NEW losses, NEW atr \in Int
  PROVE  /\ SeasonFactor(month) \in {65, 100, 110}
         /\ LossFactor(losses) \in {55, 85, 100}
         /\ AtrFactor(atr) \in {90, 100, 105}
BY DEF SeasonFactor, LossFactor, AtrFactor

LEMMA CombinedIsAChance ==
  ASSUME NEW gap \in Int, NEW month, NEW losses, NEW atr \in Int
  PROVE  /\ CombinedRate(gap, month, losses, atr) \in Nat
         /\ CombinedRate(gap, month, losses, atr) <= 980000
<1>1. GapRow(Depth0(gap))[1] \in Nat
  BY SMT, RowsOfTheTable DEF Depth0, GapRows
<1>2. /\ SeasonFactor(month) \in Nat /\ LossFactor(losses) \in Nat /\ AtrFactor(atr) \in Nat
  BY SMT, FactorsAreRates
<1> DEFINE x == GapRow(Depth0(gap))[1] * SeasonFactor(month) * LossFactor(losses)
                  * AtrFactor(atr)
<1>3. x \in Nat
  BY SMT, <1>1, <1>2
<1> HIDE DEF x
<1>4. x \div 100 \in Nat
  BY SMT, <1>3
<1>5. CombinedRate(gap, month, losses, atr) = Capped(x \div 100, 980000)
  BY SMT DEF CombinedRate, x
<1>6. \A y \in Nat : Capped(y, 980000) \in Nat /\ Capped(y, 980000) <= 980000
  BY SMT DEF Capped
<1> QED  BY SMT, <1>4, <1>5, <1>6

LEMMA RatesKeepTheirOrder ==
  ASSUME NEW x \in Int, NEW y \in Int, x <= y, NEW c \in Nat,
         NEW b \in Int, 0 < b, 0 <= x, y <= b
  PROVE  /\ Reach(x, c, b) \in Nat /\ Reach(y, c, b) \in Nat
         /\ Reach(x, c, b) <= Reach(y, c, b) /\ Reach(y, c, b) <= c
<1> DEFINE m == x * c  n == y * c  k == b * c
<1>1. m \in Nat /\ n \in Nat /\ k \in Nat /\ m <= n /\ n <= k
  <2>1. \A u, v \in Nat : u <= v => u * c <= v * c /\ u * c \in Nat /\ v * c \in Nat
    BY SMT
  <2>2. x \in Nat /\ y \in Nat /\ b \in Nat
    BY SMT
  <2> QED  BY SMT, <2>1, <2>2
<1>2. k \div b = c
  BY SMT
<1> HIDE DEF m, n, k
<1>3. m \div b \in Nat /\ n \div b \in Nat /\ m \div b <= n \div b /\ n \div b <= k \div b
  BY SMT, <1>1
<1>4. Reach(x, c, b) = Capped(m \div b, 950000) /\ Reach(y, c, b) = Capped(n \div b, 950000)
  BY SMT DEF Reach, m, n
<1>5. \A u, v \in Nat : u <= v => /\ Capped(u, 950000) \in Nat /\ Capped(u, 950000) <= u
                               /\ Capped(u, 950000) <= Capped(v, 950000)
  BY SMT DEF Capped
<1> QED  BY SMT, <1>2, <1>3, <1>4, <1>5

LEMMA ReachIsCumulative ==
  ASSUME NEW row \in GapRows, NEW c \in Nat
  PROVE  /\ Reach(row[2], c, row[1]) \in Nat /\ Reach(row[3], c, row[1]) \in Nat
         /\ Reach(row[3], c, row[1]) <= Reach(row[2], c, row[1])
         /\ Reach(row[2], c, row[1]) <= c
<1>1. /\ row[1] \in Int /\ 0 < row[1] /\ row[2] \in Int /\ row[3] \in Int
      /\ 0 <= row[3] /\ row[3] <= row[2] /\ row[2] <= row[1]
  BY SMT DEF GapRows
<1> DEFINE b == row[1]  y == row[2]  x == row[3]
<1> HIDE DEF b, x, y
<1>2. /\ b \in Int /\ 0 < b /\ x \in Int /\ y \in Int
      /\ 0 <= x /\ x <= y /\ y <= b
  BY SMT, <1>1 DEF b, x, y
<1>3. /\ Reach(x, c, b) \in Nat /\ Reach(y, c, b) \in Nat
      /\ Reach(x, c, b) <= Reach(y, c, b) /\ Reach(y, c, b) <= c
  BY SMT, <1>2, RatesKeepTheirOrder
<1> QED  BY SMT, <1>3 DEF b, x, y

(* What OddsAddUp says of one prediction. *)
Adds(p) == /\ p.reach[1] >= p.reach[2] /\ p.reach[2] >= p.reach[3]
           /\ p.exits.t1 + p.exits.t2 + p.exits.t3 + p.stop = 1000000

LEMMA PredictionAdds ==
  ASSUME NEW gap \in Int, NEW atr \in Int, NEW losses, NEW qty, NEW month
  PROVE  Adds(PredictTrade(gap, atr, losses, qty, month))
<1> DEFINE row == GapRow(Depth0(gap))
           c == CombinedRate(gap, month, losses, atr)
           t2 == Reach(row[2], c, row[1])
           t3 == Reach(row[3], c, row[1])
           p == PredictTrade(gap, atr, losses, qty, month)
<1>1. row \in GapRows /\ c \in Nat /\ c <= 980000
  <2>1. Depth0(gap) \in Int
    BY SMT DEF Depth0
  <2>2. row \in GapRows
    BY <2>1, RowsOfTheTable
  <2>3. c \in Nat /\ c <= 980000
    BY SMT, CombinedIsAChance
  <2> QED  BY SMT, <2>2, <2>3
<1>2. t2 \in Nat /\ t3 \in Nat /\ t3 <= t2 /\ t2 <= c
  <2> HIDE DEF row, c
  <2> QED  BY SMT, <1>1, ReachIsCumulative
<1>3. /\ p.reach = <<c, t2, t3>>
      /\ p.stop = IF c > 990000 THEN 10000 ELSE 1000000 - c
      /\ p.exits = [t3 |-> t3, t2 |-> Positive0(t2 - t3), t1 |-> Positive0(c - t2)]
  BY SMT DEF PredictTrade
<1> HIDE DEF c, t2, t3, p
<1>4. /\ p.reach[1] = c /\ p.reach[2] = t2 /\ p.reach[3] = t3
      /\ p.exits.t3 = t3 /\ p.exits.t2 = Positive0(t2 - t3)
      /\ p.exits.t1 = Positive0(c - t2)
  BY SMT, <1>3
<1>5. Adds(p)
  BY SMT, <1>1, <1>2, <1>3, <1>4 DEF Positive0, Adds
<1> QED  BY SMT, <1>5 DEF p

(* The product of a larger rate and the same factors, capped, is not smaller. *)
LEMMA CombinedGrowsWithDepth ==
  ASSUME NEW g \in Int, NEW h \in Int, Depth0(g) <= Depth0(h),
         NEW month, NEW losses, NEW atr \in Int
  PROVE  CombinedRate(g, month, losses, atr) <= CombinedRate(h, month, losses, atr)
<1> DEFINE a == GapRow(Depth0(g))[1]  b == GapRow(Depth0(h))[1]
           s == SeasonFactor(month)  l == LossFactor(losses)  f == AtrFactor(atr)
<1>1. a \in Nat /\ b \in Nat /\ a <= b
  BY SMT, RowsOfTheTable DEF Depth0, GapRows
<1>2. s \in Nat /\ l \in Nat /\ f \in Nat
  BY SMT, FactorsAreRates
<1> HIDE DEF a, b, s, l, f
<1>3. \A x, y, k \in Nat : x <= y => x * k <= y * k /\ x * k \in Nat /\ y * k \in Nat
  BY SMT
<1>4. a * s <= b * s /\ a * s \in Nat /\ b * s \in Nat
  BY SMT, <1>1, <1>2, <1>3
<1>5. a * s * l <= b * s * l /\ a * s * l \in Nat /\ b * s * l \in Nat
  BY SMT, <1>2, <1>3, <1>4
<1>6. a * s * l * f <= b * s * l * f /\ a * s * l * f \in Nat /\ b * s * l * f \in Nat
  BY SMT, <1>2, <1>3, <1>5
<1>7. \A x, y \in Nat : x <= y => Capped(x \div 100, 980000) <= Capped(y \div 100, 980000)
  BY SMT DEF Capped
<1> QED  BY SMT, <1>6, <1>7 DEF CombinedRate, a, b, s, l, f

-----------------------------------------------------------------------------
(* The predictor's day.  Between the summary of an evening and the briefing of
   the next morning neither the market it measured nor the losses change, so
   that the forecast is still what the rules say of them. *)

PredictMonth(m, month) ==
  PredictTrade(m.price - m.sma7, m.atr, pdLosses, Quantity(m.price), month)

PdInv ==
  /\ pdStage \in {"night", "briefed", "updated", "summed"}
  /\ pdMarket \in Markets /\ pdMonth \in Months
  /\ pdSaid # Silence => Adds(pdSaid.pred)
  /\ pdSaid.kind \in {"none", "preopen", "postopen", "eod"}
  /\ pdSaid.kind = "preopen" => pdStage = "briefed"
  /\ pdStage \in {"summed", "night"} /\ pdForecast # Silence =>
       pdForecast.pred = PredictMonth(pdMarket, pdForecast.month)
  /\ MorningRepeatsTheEvening
  /\ BellsMeanADip

LEMMA MarketIsTyped ==
  ASSUME NEW m \in Markets
  PROVE  /\ m.price \in Nat \ {0} /\ m.sma7 \in Nat /\ m.atr \in Nat
         /\ m.price \in PredictorPrices /\ m.price - m.sma7 \in Int
<1>1. m.price \in PredictorPrices /\ m.sma7 \in Averages /\ m.atr \in Atrs
  BY DEF Markets
<1>2. PredictorPrices \subseteq Nat \ {0} /\ Averages \subseteq Nat /\ Atrs \subseteq Nat
  BY PredictorAssumption
<1>3. m.price \in Nat \ {0} /\ m.sma7 \in Nat /\ m.atr \in Nat
  BY <1>1, <1>2
<1>4. \A x, y \in Nat : x - y \in Int
  OBVIOUS
<1> QED  BY <1>1, <1>3, <1>4

LEMMA PdInitially == PdInit => PdInv
<1> SUFFICES ASSUME PdInit PROVE PdInv
  OBVIOUS
<1>1. PredictorPrices # {} /\ Averages # {} /\ Atrs # {} /\ Months # {}
  BY PredictorAssumption
<1>2. \E m \in Markets : TRUE
  <2>1. PICK p \in PredictorPrices, a \in Averages, t \in Atrs : TRUE
    BY <1>1
  <2>2. [price |-> p, sma7 |-> a, atr |-> t, trend |-> "Choppy", orbLow |-> p] \in Markets
    BY DEF Markets, Trends
  <2> QED  BY <2>2
<1>3. pdMarket \in Markets /\ pdMonth \in Months
  BY <1>1, <1>2 DEF PdInit
<1>4. pdSaid = Silence /\ pdForecast = Silence /\ pdStage = "night"
  BY DEF PdInit
<1> QED
  BY <1>3, <1>4 DEF PdInv, Silence, MorningRepeatsTheEvening, BellsMeanADip

LEMMA NowAdds ==
  ASSUME NEW m \in Markets
  PROVE  Adds(PredictNow(m))
<1>1. m.price - m.sma7 \in Int /\ m.atr \in Int
  BY MarketIsTyped
<1> QED  BY <1>1, PredictionAdds DEF PredictNow

LEMMA BriefingKeeps ==
  ASSUME PdInv, PreOpenBriefing
  PROVE  PdInv'
<1> DEFINE pred == PredictNow(pdMarket)
<1>1. /\ pdStage = "night" /\ pdStage' = "briefed"
      /\ pdSaid' = [kind |-> "preopen", pred |-> pred, word |-> Confidence0(pred.score)]
      /\ UNCHANGED <<pdMarket, pdMonth, pdLosses, pdForecast>>
  BY DEF PreOpenBriefing, BriefedPrediction
<1>2. Adds(pred)
  BY NowAdds DEF PdInv
<1>3. pdForecast # Silence /\ pdForecast.month = pdMonth => pdForecast.pred = pred
  BY <1>1 DEF PdInv, PredictMonth, PredictNow
<1> HIDE DEF pred
<1>4. pdSaid'.pred = pred /\ pdSaid'.kind = "preopen"
  BY <1>1
<1>5. MorningRepeatsTheEvening' /\ BellsMeanADip'
  BY <1>1, <1>3, <1>4 DEF MorningRepeatsTheEvening, BellsMeanADip
<1> QED  BY <1>1, <1>2, <1>4, <1>5 DEF PdInv

LEMMA UpdateKeeps ==
  ASSUME PdInv, PostOpenBriefing
  PROVE  PdInv'
<1>1. PICK p \in PredictorPrices, low \in PredictorPrices :
        LET m == [pdMarket EXCEPT !.price = p, !.orbLow = low]
            pred == PredictNow(m)
        IN  /\ pdMarket' = m
            /\ pdSaid' = [kind |-> "postopen", pred |-> pred, action |-> PostOpenAction(m),
                          bells |-> Bells(pred.gap, pred.score)]
  BY DEF PostOpenBriefing
<1> DEFINE m == [pdMarket EXCEPT !.price = p, !.orbLow = low]
           pred == PredictNow(m)
<1>2. /\ pdStage' = "updated" /\ UNCHANGED <<pdMonth, pdLosses, pdForecast>>
      /\ pdMarket' = m /\ pdSaid'.kind = "postopen" /\ pdSaid'.pred = pred
      /\ pdSaid'.action = PostOpenAction(m) /\ pdSaid'.bells = Bells(pred.gap, pred.score)
  BY <1>1 DEF PostOpenBriefing
<1>3. m \in Markets
  BY DEF PdInv, Markets
<1>4. Adds(pred)
  BY <1>3, NowAdds
<1> HIDE DEF m
<1>5. pred.gap = m.price - m.sma7
  BY SMT DEF PredictNow, PredictTrade
<1>6. m.price - m.sma7 \in Int /\ m.price \in Int
  BY <1>3, MarketIsTyped
<1> HIDE DEF pred
<1>7. BellsMeanADip'
  <2>1. pdSaid'.bells > 0 => pred.gap <= -20
    BY <1>2 DEF Bells
  <2>2. PostOpenAction(m) \in {"BUY", "STRONG BUY"} <=> pred.gap <= -20
    <3> DEFINE g == m.price - m.sma7
    <3>1. PostOpenAction(m) = IF (m.price < m.orbLow /\ g <= -20) \/ g <= -25
                              THEN "STRONG BUY" ELSE IF g <= -20 THEN "BUY"
                              ELSE IF g > -30 THEN "WATCH" ELSE "WAIT"
      BY DEF PostOpenAction
    <3>2. pred.gap = g /\ g \in Int
      BY <1>5, <1>6
    <3> HIDE DEF g
    <3>3. g <= -25 => g <= -20
      BY <3>2
    <3> QED  BY <3>1, <3>2, <3>3
  <2> QED  BY <1>2, <2>1, <2>2 DEF BellsMeanADip
<1>8. MorningRepeatsTheEvening'
  BY <1>2 DEF MorningRepeatsTheEvening
<1> QED  BY <1>2, <1>3, <1>4, <1>7, <1>8 DEF PdInv

LEMMA ResultKeeps ==
  ASSUME PdInv, TradeResult
  PROVE  PdInv'
BY DEF PdInv, TradeResult, MorningRepeatsTheEvening, BellsMeanADip

LEMMA SummaryKeeps ==
  ASSUME PdInv, EodSummary
  PROVE  PdInv'
<1>1. PICK m \in Markets :
        LET pred == PredictNow(m)
        IN  /\ pdMarket' = m
            /\ pdSaid' = [kind |-> "eod", pred |-> pred, word |-> SetupSignal(pred.gap)]
  BY DEF EodSummary
<1> DEFINE pred == PredictNow(m)
<1>2. /\ pdStage' = "summed" /\ UNCHANGED <<pdMonth, pdLosses>> /\ pdMarket' = m
      /\ pdSaid'.kind = "eod" /\ pdSaid'.pred = pred
      /\ pdForecast' = [kind |-> "forecast", pred |-> pred, month |-> pdMonth,
                        losses |-> pdLosses]
  BY <1>1 DEF EodSummary
<1>3. Adds(pred)
  BY NowAdds
<1>4. pdForecast'.pred = PredictMonth(pdMarket, pdForecast.month)'
  BY <1>2 DEF PredictMonth, PredictNow
<1> HIDE DEF pred
<1>5. MorningRepeatsTheEvening' /\ BellsMeanADip'
  BY <1>2 DEF MorningRepeatsTheEvening, BellsMeanADip
<1> QED  BY <1>2, <1>3, <1>4, <1>5 DEF PdInv

LEMMA TurnKeeps ==
  ASSUME PdInv, DayTurns
  PROVE  PdInv'
<1>1. /\ pdStage = "summed" /\ pdStage' = "night" /\ pdMonth' \in Months
      /\ UNCHANGED <<pdMarket, pdLosses, pdSaid, pdForecast>>
  BY DEF DayTurns
<1>2. pdSaid.kind # "preopen"
  BY <1>1 DEF PdInv
<1>3. MorningRepeatsTheEvening' /\ BellsMeanADip'
  BY <1>1, <1>2 DEF PdInv, MorningRepeatsTheEvening, BellsMeanADip
<1> QED  BY <1>1, <1>2, <1>3 DEF PdInv, PredictMonth

LEMMA ScoreGrowsWithDepth ==
  ASSUME PdInv
  PROVE  DeeperIsSurer
<1> SUFFICES ASSUME NEW p \in PredictorPrices, NEW q \in PredictorPrices,
                    p < q, q <= pdMarket.sma7
             PROVE  PredictNow([pdMarket EXCEPT !.price = p]).score
                      >= PredictNow([pdMarket EXCEPT !.price = q]).score
  BY DEF DeeperIsSurer
<1> DEFINE a == pdMarket.sma7
           c(x) == CombinedRate(x - a, pdMonth, pdLosses, pdMarket.atr)
<1>1. p \in Nat /\ q \in Nat /\ a \in Nat /\ pdMarket.atr \in Int
  BY PredictorAssumption, MarketIsTyped DEF PdInv
<1>2. \A x \in PredictorPrices :
        /\ [pdMarket EXCEPT !.price = x].price = x
        /\ [pdMarket EXCEPT !.price = x].sma7 = a
        /\ [pdMarket EXCEPT !.price = x].atr = pdMarket.atr
  BY DEF PdInv, Markets
<1>3. \A x \in PredictorPrices :
        PredictNow([pdMarket EXCEPT !.price = x]).score = c(x) \div 10000
  BY SMT, <1>2 DEF PredictNow, PredictTrade
<1>4. c(q) <= c(p)
  <2> HIDE DEF a
  <2>1. p - a \in Int /\ q - a \in Int /\ Depth0(q - a) <= Depth0(p - a)
    BY <1>1 DEF Depth0, a
  <2> QED  BY SMT, <1>1, <2>1, CombinedGrowsWithDepth
<1>5. c(p) \in Nat /\ c(q) \in Nat
  <2>1. p - a \in Int /\ q - a \in Int
    BY <1>1
  <2> QED  BY SMT, <1>1, <2>1, CombinedIsAChance
<1> HIDE DEF c
<1>6. c(p) \div 10000 >= c(q) \div 10000
  BY SMT, <1>4, <1>5
<1> QED  BY <1>3, <1>6

(* PredictionsAgree (predictor.py: predict_trade and the three briefings quote
   one set of rules): the odds of every prediction add up, a deeper gap never
   loses confidence, the morning repeats the evening before, and bells and words
   to buy mean a dip.  For any prices, averages, volatilities, months, capital
   and number of days. *)
THEOREM BriefingsAgree == PdSpec => []PredictionsAgree
<1>1. PdInit => PdInv
  BY PdInitially
<1>2. PdInv /\ [PdNext]_pdVars => PdInv'
  <2> SUFFICES ASSUME PdInv, [PdNext]_pdVars PROVE PdInv'
    OBVIOUS
  <2>1. CASE UNCHANGED pdVars
    BY <2>1 DEF PdInv, pdVars, PredictMonth, MorningRepeatsTheEvening, BellsMeanADip
  <2> QED
    BY <2>1, BriefingKeeps, UpdateKeeps, ResultKeeps, SummaryKeeps, TurnKeeps DEF PdNext
<1>3. PdInv => PredictionsAgree
  BY ScoreGrowsWithDepth DEF PdInv, PredictionsAgree, OddsAddUp, Adds
<1> QED  BY <1>1, <1>2, <1>3, PTL DEF PdSpec

-----------------------------------------------------------------------------
(* The score: what the weights, the sub-scores and the pivots return. *)

Readings == [price : ScorePrices, rsi : Rsis, vwap : Vwaps \cup {0}, rising : BOOLEAN,
             sentiment : Sentiments \cup {0}, volume : VolumeRatios \cup {100},
             regime : Regimes]

Kinds == {"pivot", "rsi", "macd", "vwap", "sentiment", "volume"}

Weighted(w, s) == w["pivot"] * s["pivot"] + w["rsi"] * s["rsi"] + w["macd"] * s["macd"]
                    + w["vwap"] * s["vwap"] + w["sentiment"] * s["sentiment"]
                    + w["volume"] * s["volume"]

LEMMA ReadingTypes ==
  ASSUME NEW r \in Readings
  PROVE  /\ r.price \in Nat /\ r.vwap \in Nat /\ r.volume \in Nat
         /\ r.rsi \in Nat /\ r.rsi <= 100
         /\ r.sentiment \in Int /\ -100 <= r.sentiment /\ r.sentiment <= 100
<1>1. /\ r.price \in ScorePrices /\ r.rsi \in Rsis
      /\ (r.vwap \in Vwaps \/ r.vwap = 0)
      /\ (r.sentiment \in Sentiments \/ r.sentiment = 0)
      /\ (r.volume \in VolumeRatios \/ r.volume = 100)
  BY Zenon DEF Readings
<1>2. /\ ScorePrices \subseteq Nat \ {0} /\ Vwaps \subseteq Nat /\ VolumeRatios \subseteq Nat
      /\ Rsis \subseteq Nat /\ Sentiments \subseteq Int
  BY ScoreRulesAssumption
<1>3. \A i \in Rsis : i <= 100
  BY ScoreRulesAssumption
<1>4. \A s \in Sentiments : -100 <= s /\ s <= 100
  BY ScoreRulesAssumption
<1>5. r.price \in Nat /\ r.vwap \in Nat /\ r.volume \in Nat
  <2>1. r.price \in Nat
    BY <1>1, <1>2
  <2>2. r.vwap \in Vwaps => r.vwap \in Nat
    BY <1>2
  <2>3. r.vwap = 0 => r.vwap \in Nat
    OBVIOUS
  <2>4. r.volume \in VolumeRatios => r.volume \in Nat
    BY <1>2
  <2>5. r.volume = 100 => r.volume \in Nat
    OBVIOUS
  <2> QED  BY Zenon, <1>1, <2>1, <2>2, <2>3, <2>4, <2>5
<1>6. r.rsi \in Nat /\ r.rsi <= 100
  BY <1>1, <1>2, <1>3
<1>7. r.sentiment \in Int /\ -100 <= r.sentiment /\ r.sentiment <= 100
  <2>1. CASE r.sentiment \in Sentiments
    BY <2>1, <1>2, <1>4
  <2>2. CASE r.sentiment = 0
    BY <2>2
  <2> QED  BY <1>1, <2>1, <2>2
<1> QED  BY <1>5, <1>6, <1>7

LEMMA SubScoreTypes ==
  ASSUME NEW b, NEW r \in Readings
  PROVE  \A k \in Kinds : /\ SubScores(b, r)[k] \in Int
                          /\ 0 <= SubScores(b, r)[k] /\ SubScores(b, r)[k] <= 1000
<1> DEFINE s == SubScores(b, r)
<1>1. s["pivot"] \in Int /\ 0 <= s["pivot"] /\ s["pivot"] <= 1000
  BY DEF SubScores, PivotScore
<1>2. s["rsi"] \in Int /\ 0 <= s["rsi"] /\ s["rsi"] <= 1000
  BY ReadingTypes DEF SubScores, RsiScore, Within
<1>3. s["macd"] \in Int /\ 0 <= s["macd"] /\ s["macd"] <= 1000
  BY DEF SubScores
<1>4. s["vwap"] \in Int /\ 0 <= s["vwap"] /\ s["vwap"] <= 1000
  BY DEF SubScores, VwapScore
<1>5. s["sentiment"] \in Int /\ 0 <= s["sentiment"] /\ s["sentiment"] <= 1000
  BY ReadingTypes DEF SubScores
<1>6. s["volume"] \in Int /\ 0 <= s["volume"] /\ s["volume"] <= 1000
  BY ReadingTypes DEF SubScores, Within
<1> HIDE DEF s
<1>7. \A k \in Kinds : s[k] \in Int /\ 0 <= s[k] /\ s[k] <= 1000
  BY <1>1, <1>2, <1>3, <1>4, <1>5, <1>6 DEF Kinds
<1> QED  BY <1>7 DEF s

LEMMA WeightsSumUp ==
  ASSUME NEW regime, NEW w, w = Weights(regime)
  PROVE  /\ \A k \in Kinds : w[k] \in Nat
         /\ w["pivot"] + w["rsi"] + w["macd"] + w["vwap"] + w["sentiment"] + w["volume"] = 100
<1> DEFINE up == IF regime = "Trending Up" THEN 5 ELSE 0
           down == IF regime = "Trending Down" THEN 5 ELSE 0
           ranging == IF regime = "Ranging" THEN 10 ELSE 0
<1>1. (up = 0 \/ up = 5) /\ (down = 0 \/ down = 5) /\ (ranging = 0 \/ ranging = 10)
  BY Zenon
<1>2. /\ w["pivot"] = 25 - up + ranging /\ w["rsi"] = 20 + down
      /\ w["macd"] = 15 + up - ranging /\ w["vwap"] = 20 - down
      /\ w["sentiment"] = 10 /\ w["volume"] = 10
  BY Zenon DEF Weights
<1> HIDE DEF up, down, ranging
<1>3. \A k \in Kinds : w[k] \in Nat
  BY <1>1, <1>2 DEF Kinds
<1>4. w["pivot"] + w["rsi"] + w["macd"] + w["vwap"] + w["sentiment"] + w["volume"] = 100
  BY <1>1, <1>2
<1> QED  BY <1>3, <1>4

LEMMA WeightedIsMonotone ==
  ASSUME NEW w, \A k \in Kinds : w[k] \in Nat,
         NEW s, NEW t, \A k \in Kinds : s[k] \in Int /\ t[k] \in Int /\ s[k] <= t[k]
  PROVE  /\ Weighted(w, s) \in Int /\ Weighted(w, t) \in Int
         /\ Weighted(w, s) <= Weighted(w, t)
<1>1. ASSUME NEW k \in Kinds
      PROVE  w[k] * s[k] \in Int /\ w[k] * t[k] \in Int /\ w[k] * s[k] <= w[k] * t[k]
  <2>1. w[k] \in Nat /\ s[k] \in Int /\ t[k] \in Int /\ s[k] <= t[k]
    OBVIOUS
  <2>2. \A a \in Nat, x, y \in Int : x <= y => a * x \in Int /\ a * y \in Int /\ a * x <= a * y
    OBVIOUS
  <2> QED  BY <2>1, <2>2
<1> DEFINE f(k) == w[k] * s[k]  g(k) == w[k] * t[k]
<1>2. \A k \in Kinds : f(k) \in Int /\ g(k) \in Int /\ f(k) <= g(k)
  BY <1>1
<1>3. /\ Weighted(w, s) = f("pivot") + f("rsi") + f("macd") + f("vwap") + f("sentiment")
                            + f("volume")
      /\ Weighted(w, t) = g("pivot") + g("rsi") + g("macd") + g("vwap") + g("sentiment")
                            + g("volume")
  BY DEF Weighted
<1>4. {"pivot", "rsi", "macd", "vwap", "sentiment", "volume"} = Kinds
  BY DEF Kinds
<1> HIDE DEF f, g
<1> QED  BY <1>2, <1>3, <1>4

LEMMA ScoreIsWeighted ==
  ASSUME NEW b, NEW r
  PROVE  ComputeScore(b, r).score
           = (Weighted(Weights(r.regime), SubScores(b, r)) + 5) \div 10
BY DEF ComputeScore, Weighted

(* Between nothing and everything: the weighted sum lies between those of all
   zeros and all thousands. *)
LEMMA ScoreInBounds ==
  ASSUME NEW b, NEW r \in Readings
  PROVE  /\ ComputeScore(b, r).score \in Int
         /\ 0 <= ComputeScore(b, r).score /\ ComputeScore(b, r).score <= 10000
<1> DEFINE w == Weights(r.regime)  s == SubScores(b, r)
           zeros == [k \in Kinds |-> 0]  full == [k \in Kinds |-> 1000]
<1>1. \A k \in Kinds : w[k] \in Nat
  BY WeightsSumUp
<1>2. \A k \in Kinds : s[k] \in Int /\ 0 <= s[k] /\ s[k] <= 1000
  BY SubScoreTypes
<1>3. \A k \in Kinds : zeros[k] = 0 /\ full[k] = 1000
  OBVIOUS
<1> HIDE DEF w, s, zeros, full
<1>4. Weighted(w, zeros) <= Weighted(w, s) /\ Weighted(w, s) \in Int
  BY <1>1, <1>2, <1>3, WeightedIsMonotone
<1>5. Weighted(w, s) <= Weighted(w, full)
  BY <1>1, <1>2, <1>3, WeightedIsMonotone
<1>6. Weighted(w, zeros) = 0 /\ Weighted(w, full) = 100000
  <2>1. {"pivot", "rsi", "macd", "vwap", "sentiment", "volume"} = Kinds
    BY DEF Kinds
  <2>2. w["pivot"] + w["rsi"] + w["macd"] + w["vwap"] + w["sentiment"] + w["volume"] = 100
    BY WeightsSumUp DEF w
  <2>3. /\ w["pivot"] \in Nat /\ w["rsi"] \in Nat /\ w["macd"] \in Nat /\ w["vwap"] \in Nat
        /\ w["sentiment"] \in Nat /\ w["volume"] \in Nat
    BY <1>1, <2>1
  <2>4. Weighted(w, zeros) = 0
    BY <1>3, <2>1, <2>3 DEF Weighted
  <2>5. Weighted(w, full) = 100000
    BY SMT, <1>3, <2>1, <2>2, <2>3 DEF Weighted
  <2> QED  BY SMT, <2>4, <2>5
<1>7. ComputeScore(b, r).score = (Weighted(w, s) + 5) \div 10
  BY ScoreIsWeighted DEF w, s
<1> QED  BY SMT, <1>4, <1>5, <1>6, <1>7

(* No reading pulls the other way: what each sub-score does when its reading
   moves. *)
LEMMA SubScoresMonotone ==
  ASSUME NEW b, NEW r \in Readings, NEW q \in Readings,
         r.price = q.price, r.vwap = q.vwap, q.rsi <= r.rsi,
         q.sentiment >= r.sentiment, q.volume >= r.volume, r.rising => q.rising
  PROVE  \A k \in Kinds : SubScores(b, r)[k] <= SubScores(b, q)[k]
<1> DEFINE s == SubScores(b, r)  t == SubScores(b, q)
<1>1. s["pivot"] = t["pivot"]
  BY Zenon DEF SubScores
<1>2. s["rsi"] <= t["rsi"]
  BY ReadingTypes DEF SubScores, RsiScore, Within
<1>3. s["macd"] <= t["macd"]
  <2>1. CASE q.rising
    <3>1. t["macd"] = 1000 /\ (s["macd"] = 1000 \/ s["macd"] = 0)
      BY <2>1 DEF SubScores
    <3> HIDE DEF s, t
    <3> QED  BY SMT, <3>1
  <2>2. CASE ~ q.rising
    <3>1. ~ r.rising
      BY Zenon, <2>2
    <3>2. t["macd"] = 0 /\ s["macd"] = 0
      BY <2>2, <3>1 DEF SubScores
    <3> HIDE DEF s, t
    <3> QED  BY SMT, <3>2
  <2> QED  BY Zenon, <2>1, <2>2
<1>4. s["vwap"] = t["vwap"]
  BY Zenon DEF SubScores
<1>5. s["sentiment"] <= t["sentiment"]
  BY ReadingTypes DEF SubScores
<1>6. s["volume"] <= t["volume"]
  BY ReadingTypes DEF SubScores, Within
<1>7. \A k \in Kinds : s[k] \in Int /\ t[k] \in Int
  BY SubScoreTypes
<1> HIDE DEF s, t
<1>8. \A k \in Kinds : s[k] <= t[k]
  BY <1>1, <1>2, <1>3, <1>4, <1>5, <1>6, <1>7 DEF Kinds
<1> QED  BY <1>8 DEF s, t

LEMMA ReadingsPull ==
  ASSUME NEW b, NEW r \in Readings, NEW q \in Readings, r.regime = q.regime,
         r.price = q.price, r.vwap = q.vwap, q.rsi <= r.rsi,
         q.sentiment >= r.sentiment, q.volume >= r.volume, r.rising => q.rising
  PROVE  ComputeScore(b, q).score >= ComputeScore(b, r).score
<1> DEFINE w == Weights(r.regime)  s == SubScores(b, r)  t == SubScores(b, q)
<1>1. \A k \in Kinds : w[k] \in Nat
  BY WeightsSumUp
<1>2. \A k \in Kinds : s[k] \in Int /\ t[k] \in Int /\ s[k] <= t[k]
  BY SubScoreTypes, SubScoresMonotone
<1>3. /\ ComputeScore(b, r).score = (Weighted(w, s) + 5) \div 10
      /\ ComputeScore(b, q).score = (Weighted(w, t) + 5) \div 10
  BY Zenon, ScoreIsWeighted
<1> HIDE DEF w, s, t
<1>4. /\ Weighted(w, s) \in Int /\ Weighted(w, t) \in Int
      /\ Weighted(w, s) <= Weighted(w, t)
  BY <1>1, <1>2, WeightedIsMonotone
<1> QED  BY SMT, <1>3, <1>4

-----------------------------------------------------------------------------
(* The ladder of pivots. *)

PivotNames == {"PP", "R1", "R2", "R3", "S1", "S2", "S3"}

LEMMA LadderInOrder ==
  ASSUME NEW b \in PivotBars, NEW pv, pv = Pivots(b)
  PROVE  /\ DOMAIN pv = PivotNames /\ \A k \in PivotNames : pv[k] \in Int
         /\ pv.S3 <= pv.S2 /\ pv.S2 <= pv.S1 /\ pv.S1 <= pv.PP
         /\ pv.PP <= pv.R1 /\ pv.R1 <= pv.R2 /\ pv.R2 <= pv.R3
<1>1. /\ b.high \in Int /\ b.low \in Int /\ b.close \in Int
      /\ b.low <= b.close /\ b.close <= b.high
  <2>1. b \in [high : Int, low : Int, close : Int]
    BY Zenon, ScoreRulesAssumption
  <2>2. b.low <= b.close /\ b.close <= b.high
    BY Zenon, ScoreRulesAssumption
  <2> QED  BY <2>1, <2>2
<1>2. DOMAIN pv = PivotNames
  BY DEF Pivots, PivotNames
<1>3. \A k \in PivotNames : pv[k] \in Int
  BY <1>1 DEF Pivots, PivotNames
<1>4. /\ pv.S3 <= pv.S2 /\ pv.S2 <= pv.S1 /\ pv.S1 <= pv.PP
      /\ pv.PP <= pv.R1 /\ pv.R1 <= pv.R2 /\ pv.R2 <= pv.R3
  BY <1>1 DEF Pivots
<1> QED  BY <1>2, <1>3, <1>4

LEMMA PivotNamesFinite == IsFiniteSet(PivotNames)
<1>1. IsFiniteSet({"PP"}) /\ IsFiniteSet({"R1"}) /\ IsFiniteSet({"R2"}) /\ IsFiniteSet({"R3"})
      /\ IsFiniteSet({"S1"}) /\ IsFiniteSet({"S2"}) /\ IsFiniteSet({"S3"})
  BY FS_Singleton
<1>2. IsFiniteSet({"PP"} \cup {"R1"}) /\ IsFiniteSet({"R2"} \cup {"R3"})
      /\ IsFiniteSet({"S1"} \cup {"S2"})
  BY Zenon, <1>1, FS_Union
<1>3. IsFiniteSet(({"PP"} \cup {"R1"}) \cup ({"R2"} \cup {"R3"}))
      /\ IsFiniteSet(({"S1"} \cup {"S2"}) \cup {"S3"})
  BY Zenon, <1>1, <1>2, FS_Union
<1>4. IsFiniteSet((({"PP"} \cup {"R1"}) \cup ({"R2"} \cup {"R3"}))
                    \cup (({"S1"} \cup {"S2"}) \cup {"S3"}))
  BY Zenon, <1>3, FS_Union
<1>5. PivotNames = (({"PP"} \cup {"R1"}) \cup ({"R2"} \cup {"R3"}))
                     \cup (({"S1"} \cup {"S2"}) \cup {"S3"})
  BY DEF PivotNames
<1> QED  BY Zenon, <1>4, <1>5

(* A price that is not lower is at or above all the pivots the other is. *)
LEMMA BandsFollowPrices ==
  ASSUME NEW b \in PivotBars, NEW p \in Int, NEW q \in Int, q <= p
  PROVE  PivotBand(q, Pivots(b)) <= PivotBand(p, Pivots(b))
<1> DEFINE pv == Pivots(b)
           at(x) == {k \in DOMAIN pv : 3 * x >= pv[k]}
<1>1. DOMAIN pv = PivotNames /\ \A k \in PivotNames : pv[k] \in Int
  BY LadderInOrder
<1>2. IsFiniteSet(at(p))
  BY Zenon, <1>1, PivotNamesFinite, FS_Subset
<1>3. at(q) \subseteq at(p)
  <2> HIDE DEF pv
  <2> SUFFICES ASSUME NEW k \in PivotNames, 3 * q >= pv[k]
               PROVE  3 * p >= pv[k]
    BY <1>1
  <2> QED  BY <1>1
<1>4. Cardinality(at(q)) <= Cardinality(at(p))
  BY Zenon, <1>2, <1>3, FS_Subset
<1> QED  BY Zenon, <1>4 DEF PivotBand

LEMMA LadderHolds ==
  ASSUME NEW b \in PivotBars, NEW p \in ScorePrices, NEW q \in ScorePrices,
         3 * p >= Pivots(b).S2, PivotBand(p, Pivots(b)) < PivotBand(q, Pivots(b))
  PROVE  PivotScore(p, Pivots(b)) >= PivotScore(q, Pivots(b))
<1> DEFINE pv == Pivots(b)
<1>1. p \in Int /\ q \in Int
  <2>1. ScorePrices \subseteq Nat \ {0}
    BY Zenon, ScoreRulesAssumption
  <2> QED  BY <2>1
<1>2. p < q
  <2>1. SUFFICES ASSUME q <= p
                 PROVE  FALSE
    BY <1>1
  <2>2. PivotBand(q, pv) <= PivotBand(p, pv)
    BY <1>1, <2>1, BandsFollowPrices
  <2>3. PivotBand(q, pv) \in Nat /\ PivotBand(p, pv) \in Nat
    <3>1. DOMAIN pv = PivotNames
      BY LadderInOrder
    <3>2. \A x : IsFiniteSet({k \in DOMAIN pv : 3 * x >= pv[k]})
      BY Zenon, <3>1, PivotNamesFinite, FS_Subset
    <3> HIDE DEF pv
    <3> QED  BY <3>2, FS_CardinalityType DEF PivotBand
  <2> QED  BY SMT, <2>2, <2>3
<1>3. /\ pv.S2 \in Int /\ pv.S1 \in Int /\ pv.PP \in Int /\ pv.R1 \in Int /\ pv.R2 \in Int
      /\ pv.S2 <= pv.S1 /\ pv.S1 <= pv.PP /\ pv.PP <= pv.R1 /\ pv.R1 <= pv.R2
  BY LadderInOrder DEF PivotNames
<1> HIDE DEF pv
<1>4. 3 * p >= pv.S2
  BY DEF pv
<1>5. PivotScore(p, pv) >= PivotScore(q, pv)
  BY <1>1, <1>2, <1>3, <1>4 DEF PivotScore
<1> QED  BY <1>5 DEF pv

-----------------------------------------------------------------------------
(* Before the first refresh there is nothing; from then on the result is the
   score of the bar and the reading that are kept. *)
ScInv ==
  \/ scBar = <<>> /\ scReading = <<>> /\ scResult.score = 0
  \/ scBar \in PivotBars /\ scReading \in Readings /\ scResult = ComputeScore(scBar, scReading)

LEMMA ScMarkers ==
  ASSUME NEW b \in PivotBars
  PROVE  b # <<>>
<1>1. b \in [high : Int, low : Int, close : Int]
  BY Zenon, ScoreRulesAssumption
<1>2. "high" \in DOMAIN b
  BY <1>1
<1>3. DOMAIN <<>> = {}
  <2>1. <<>> \in Seq({})  /\ Len(<<>>) = 0
    OBVIOUS
  <2> QED  BY <2>1
<1> QED  BY <1>2, <1>3

LEMMA ReadingsStay ==
  ASSUME NEW r \in Readings
  PROVE  /\ \A p \in ScorePrices : [r EXCEPT !.price = p] \in Readings
         /\ \A i \in Rsis : [r EXCEPT !.rsi = i] \in Readings
         /\ \A v \in Vwaps : [r EXCEPT !.vwap = v] \in Readings
         /\ \A m \in BOOLEAN : [r EXCEPT !.rising = m] \in Readings
         /\ \A s \in Sentiments : [r EXCEPT !.sentiment = s] \in Readings
         /\ \A v \in VolumeRatios : [r EXCEPT !.volume = v] \in Readings
         /\ \A g \in Regimes : [r EXCEPT !.regime = g] \in Readings
BY DEF Readings

LEMMA ScInvHolds == ScSpec => []ScInv
<1>1. ScInit => ScInv
  BY DEF ScInit, ScInv
<1>2. ScInv /\ [ScNext]_scVars => ScInv'
  <2> SUFFICES ASSUME ScInv, [ScNext]_scVars
               PROVE  ScInv'
    OBVIOUS
  <2>1. CASE FirstRefresh
    <3>1. PICK p \in ScorePrices, i \in Rsis, g \in Regimes :
            scReading' = [price |-> p, rsi |-> i, vwap |-> 0, rising |-> FALSE,
                          sentiment |-> 0, volume |-> 100, regime |-> g]
      BY Zenon, <2>1 DEF FirstRefresh
    <3>2. 0 \in Vwaps \cup {0} /\ 0 \in Sentiments \cup {0} /\ 100 \in VolumeRatios \cup {100}
      BY Zenon
    <3>3. scReading' \in Readings
      BY <3>1, <3>2 DEF Readings
    <3> QED  BY Zenon, <2>1, <3>3 DEF FirstRefresh, ScInv
  <2>2. CASE Refresh
    <3>1. scBar \in PivotBars /\ scReading \in Readings
      BY Zenon, <2>2 DEF Refresh, ScInv
    <3>2. scReading' \in Readings
      BY Zenon, <2>2, <3>1, ReadingsStay DEF Refresh
    <3>3. scBar' = scBar /\ scResult' = ComputeScore(scBar, scReading')
      BY Zenon, <2>2 DEF Refresh
    <3> QED  BY Zenon, <3>1, <3>2, <3>3 DEF ScInv
  <2>3. CASE UNCHANGED scVars
    BY Zenon, <2>3 DEF scVars, ScInv
  <2> QED  BY <2>1, <2>2, <2>3 DEF ScNext
<1> QED  BY <1>1, <1>2, PTL DEF ScSpec

(* The score is a share of the whole, over a ladder of pivots in order, and no
   reading pulls the wrong way (compute_score, classic_pivots), for any bars,
   readings and prices. *)
THEOREM ScoresBalance == ScSpec => ScoresAreBalanced
<1>1. ScInv => ScoreIsAShare /\ LadderIsInOrder
  <2> SUFFICES ASSUME ScInv
               PROVE  ScoreIsAShare /\ LadderIsInOrder
    OBVIOUS
  <2>1. ScoreIsAShare
    <3>1. CASE scResult.score = 0
      BY SMT, <3>1 DEF ScoreIsAShare
    <3>2. CASE scReading \in Readings /\ scResult = ComputeScore(scBar, scReading)
      <4> DEFINE score == ComputeScore(scBar, scReading).score
      <4>1. 0 <= score /\ score <= 10000
        BY <3>2, ScoreInBounds
      <4>2. scResult.score = score
        BY Zenon, <3>2
      <4> HIDE DEF score
      <4> QED  BY SMT, <4>1, <4>2 DEF ScoreIsAShare
    <3> QED  BY Zenon, <3>1, <3>2 DEF ScInv
  <2>2. LadderIsInOrder
    <3> SUFFICES ASSUME scBar # <<>>
                 PROVE  LadderIsInOrder
      BY DEF LadderIsInOrder
    <3>1. scBar \in PivotBars
      BY Zenon DEF ScInv
    <3> QED  BY Zenon, <3>1, LadderInOrder, LadderHolds DEF LadderIsInOrder
  <2> QED  BY <2>1, <2>2
<1>2. ScInv /\ [ScNext]_scVars =>
        [scReading # <<>> =>
           LET r == scReading  q == scReading'
           IN  /\ r.price = q.price /\ r.vwap = q.vwap /\ r.regime = q.regime
               /\ q.rsi <= r.rsi /\ q.sentiment >= r.sentiment /\ q.volume >= r.volume
               /\ (r.rising => q.rising)
               => scResult'.score >= scResult.score]_scVars
  <2> SUFFICES ASSUME ScInv, ScNext, scReading # <<>>,
                      scReading.price = scReading'.price, scReading.vwap = scReading'.vwap,
                      scReading.regime = scReading'.regime, scReading'.rsi <= scReading.rsi,
                      scReading'.sentiment >= scReading.sentiment,
                      scReading'.volume >= scReading.volume,
                      scReading.rising => scReading'.rising
               PROVE  scResult'.score >= scResult.score
    BY Zenon
  <2>1. /\ scBar \in PivotBars /\ scReading \in Readings
        /\ scResult = ComputeScore(scBar, scReading)
    BY Zenon DEF ScInv
  <2>2. Refresh
    BY Zenon, <2>1, ScMarkers DEF ScNext, FirstRefresh
  <2>3. /\ scReading' \in Readings
        /\ scResult' = ComputeScore(scBar, scReading')
    BY Zenon, <2>1, <2>2, ReadingsStay DEF Refresh
  <2> QED  BY Zenon, <2>1, <2>3, ReadingsPull
<1> QED  BY <1>1, <1>2, ScInvHolds, PTL DEF ScSpec, ScoresAreBalanced, ReadingsPullTheirWay

-----------------------------------------------------------------------------
(* The radar: the lemmas of its arithmetic. *)

LEMMA DivGrows ==
  ASSUME NEW a \in Int, NEW b \in Int, NEW d \in Int, 0 < d, a <= b
  PROVE  a \div d \in Int /\ b \div d \in Int /\ a \div d <= b \div d
OBVIOUS

(* A smaller divisor, of something that is not negative. *)
LEMMA DivShrinks ==
  ASSUME NEW a \in Int, NEW c \in Int, NEW d \in Int, 0 <= a, 0 < c, c <= d
  PROVE  a \div d <= a \div c
<1> DEFINE q == a \div d  p == a \div c
<1>1. q \in Int /\ q * d <= a /\ 0 <= q
  OBVIOUS
<1>2. p \in Int /\ a < (p + 1) * c
  OBVIOUS
<1> HIDE DEF q, p
<1>3. SUFFICES ASSUME p < q
               PROVE  FALSE
  BY <1>1, <1>2 DEF q, p
<1>4. (p + 1) * c <= q * c
  <2>1. p + 1 <= q
    BY <1>1, <1>2, <1>3
  <2>2. \A x, y, z \in Int : x <= y /\ 0 < z => x * z <= y * z
    OBVIOUS
  <2> QED  BY <1>1, <1>2, <2>1, <2>2
<1>5. q * c <= q * d
  <2>1. \A x, y, z \in Int : x <= y /\ 0 <= z => z * x <= z * y
    OBVIOUS
  <2> QED  BY <1>1, <2>1
<1>6. q * c \in Int /\ q * d \in Int /\ (p + 1) * c \in Int
  BY <1>1, <1>2
<1> QED  BY <1>1, <1>2, <1>4, <1>5, <1>6

(* A fraction that grows gains credit, up to the weight. *)
LEMMA CreditGrows ==
  ASSUME NEW w \in Nat, NEW n \in Int, NEW d \in Int, NEW m \in Int, NEW c \in Int,
         n <= m, 0 < c, c <= d
  PROVE  Credit(w, n, d) \in Int /\ Credit(w, m, c) \in Int /\ Credit(w, n, d) <= Credit(w, m, c)
<1> DEFINE W == 1000 * w
<1>0. W \in Nat
  BY SMT
<1> HIDE DEF W
<1>1. /\ Credit(w, n, d) = IF n <= 0 THEN 0 ELSE IF n >= d THEN W ELSE (W * n) \div d
      /\ Credit(w, m, c) = IF m <= 0 THEN 0 ELSE IF m >= c THEN W ELSE (W * m) \div c
  BY Zenon DEF Credit, W
<1>2. W * n \in Int /\ W * m \in Int /\ W * n <= W * m /\ (0 <= m => 0 <= W * m)
      /\ (0 <= n => 0 <= W * n)
  <2>1. \A x, y \in Int : x <= y => W * x <= W * y
    BY <1>0
  <2>2. W * n \in Int /\ W * m \in Int /\ W * 0 = 0
    BY <1>0
  <2> QED  BY <1>0, <2>1, <2>2
<1>3. \A x \in Int, y \in Int : 0 <= x /\ x <= y /\ 0 < y => (W * x) \div y \in Int
                                  /\ 0 <= (W * x) \div y /\ (W * x) \div y <= W
  <2> SUFFICES ASSUME NEW x \in Int, NEW y \in Int, 0 <= x, x <= y, 0 < y
               PROVE  /\ (W * x) \div y \in Int
                      /\ 0 <= (W * x) \div y /\ (W * x) \div y <= W
    OBVIOUS
  <2>1. W * x \in Int /\ 0 <= W * x /\ W * x <= W * y /\ W * y \in Int
    BY <1>0
  <2>2. (W * y) \div y = W
    BY <1>0
  <2> QED  BY <1>0, <2>1, <2>2, DivGrows
<1>4. CASE n <= 0
  BY <1>0, <1>1, <1>2, <1>3, <1>4
<1>5. CASE n > 0 /\ m >= c
  BY <1>0, <1>1, <1>2, <1>3, <1>5
<1>6. CASE n > 0 /\ m < c
  <2>1. n < d
    BY <1>6
  <2>2. (W * n) \div d <= (W * m) \div d /\ (W * n) \div d \in Int /\ (W * m) \div d \in Int
    BY <1>2, DivGrows
  <2>3. (W * m) \div d <= (W * m) \div c /\ (W * m) \div c \in Int
    BY <1>2, <1>6, <1>3, DivShrinks
  <2> QED  BY <1>1, <1>6, <2>1, <2>2, <2>3
<1> QED  BY <1>4, <1>5, <1>6

(* Rounding, halves to the even number, keeps the order. *)
LEMMA RoundedGrows ==
  ASSUME NEW x \in Int, NEW y \in Int, x <= y
  PROVE  Rounded(x) <= Rounded(y)
<1> DEFINE q(z) == z \div 1000  r(z) == z % 1000
<1>1. ASSUME NEW z \in Int
      PROVE  /\ q(z) \in Int /\ r(z) \in Int /\ 0 <= r(z) /\ r(z) < 1000
             /\ z = 1000 * q(z) + r(z)
  BY SMT
<1>3. ASSUME NEW s \in Int, NEW t \in Int, NEW a \in Int, NEW b \in Int,
             x = 1000 * s + a, y = 1000 * t + b, 0 <= a, a < 1000, 0 <= b, b < 1000
      PROVE  s < t \/ (s = t /\ a <= b)
  BY SMT, <1>3
<1>4. q(x) < q(y) \/ (q(x) = q(y) /\ r(x) <= r(y))
  BY SMT, <1>1, <1>3
<1>5. q(x) \in Int /\ q(y) \in Int /\ r(x) \in Int /\ r(y) \in Int
  BY <1>1
<1>6. /\ Rounded(x) = IF r(x) > 500 \/ (r(x) = 500 /\ q(x) % 2 = 1) THEN q(x) + 1 ELSE q(x)
      /\ Rounded(y) = IF r(y) > 500 \/ (r(y) = 500 /\ q(y) % 2 = 1) THEN q(y) + 1 ELSE q(y)
  BY Zenon DEF Rounded
<1> HIDE DEF q, r
<1>7. CASE q(x) < q(y)
  <2>1. Rounded(x) \in Int /\ Rounded(x) <= q(x) + 1
    BY SMT, <1>5, <1>6
  <2>2. Rounded(y) \in Int /\ q(y) <= Rounded(y)
    BY SMT, <1>5, <1>6
  <2> QED  BY SMT, <1>5, <1>7, <2>1, <2>2
<1>8. CASE q(x) = q(y) /\ r(x) <= r(y)
  BY SMT, <1>5, <1>6, <1>8
<1> QED  BY <1>4, <1>7, <1>8

-----------------------------------------------------------------------------
(* What the walk over the bars of an alert comes to. *)

WonBy(alert, bars, n) ==
  \E i \in 1 .. n : TargetTouched(alert, bars[i]) /\ \A j \in 1 .. i : ~ StopTouched(alert, bars[j])

LostBy(alert, bars, n) ==
  \E i \in 1 .. n : StopTouched(alert, bars[i]) /\ \A j \in 1 .. i - 1 : ~ TargetTouched(alert, bars[j])

VerdictBy(alert, bars, n) ==
  IF WonBy(alert, bars, n) THEN "WIN" ELSE IF LostBy(alert, bars, n) THEN "LOSS" ELSE "NEUTRAL"

LEMMA NotBoth ==
  ASSUME NEW alert, NEW bars, NEW n \in Nat
  PROVE  ~ (WonBy(alert, bars, n) /\ LostBy(alert, bars, n))
BY DEF WonBy, LostBy

(* No verdict is no touch: the first touch would be one. *)
LEMMA NeutralIsUntouched ==
  ASSUME NEW alert, NEW bars, NEW n \in Nat,
         ~ WonBy(alert, bars, n), ~ LostBy(alert, bars, n)
  PROVE  \A i \in 1 .. n : ~ StopTouched(alert, bars[i]) /\ ~ TargetTouched(alert, bars[i])
<1> DEFINE touched == {i \in 1 .. n : StopTouched(alert, bars[i]) \/ TargetTouched(alert, bars[i])}
<1>1. SUFFICES ASSUME touched # {}
               PROVE  FALSE
  OBVIOUS
<1>0. touched \subseteq Nat
  OBVIOUS
<1>2. PICK i \in touched : \A j \in touched : i <= j
  BY Zenon, <1>0, <1>1, LeastOne
<1>3. \A j \in 1 .. i - 1 : ~ StopTouched(alert, bars[j]) /\ ~ TargetTouched(alert, bars[j])
  BY <1>2
<1>4. CASE StopTouched(alert, bars[i])
  BY <1>2, <1>3, <1>4 DEF LostBy
<1>5. CASE ~ StopTouched(alert, bars[i]) /\ TargetTouched(alert, bars[i])
  BY <1>2, <1>3, <1>5 DEF WonBy
<1> QED  BY <1>2, <1>4, <1>5

(* One more bar. *)
LEMMA VerdictStep ==
  ASSUME NEW alert, NEW bars, NEW n \in Nat, n # 0
  PROVE  VerdictBy(alert, bars, n) = AfterBar(VerdictBy(alert, bars, n - 1), alert, bars[n])
<1> DEFINE W == WonBy(alert, bars, n - 1)  L == LostBy(alert, bars, n - 1)
<1>0. n - 1 \in Nat /\ 1 .. n = (1 .. n - 1) \cup {n}
  OBVIOUS
<1>1. CASE W
  <2>1. WonBy(alert, bars, n)
    BY <1>0, <1>1 DEF WonBy
  <2> QED  BY <1>1, <2>1 DEF VerdictBy, AfterBar
<1>2. CASE L
  <2>1. LostBy(alert, bars, n)
    BY <1>0, <1>2 DEF LostBy
  <2>2. ~ WonBy(alert, bars, n) /\ ~ W
    BY <1>0, <1>2, <2>1, NotBoth
  <2> QED  BY <1>2, <2>1, <2>2 DEF VerdictBy, AfterBar
<1>3. CASE ~ W /\ ~ L
  <2>1. \A i \in 1 .. n - 1 : ~ StopTouched(alert, bars[i]) /\ ~ TargetTouched(alert, bars[i])
    BY <1>0, <1>3, NeutralIsUntouched
  <2>2. LostBy(alert, bars, n) <=> StopTouched(alert, bars[n])
    BY <1>0, <2>1 DEF LostBy
  <2>3. WonBy(alert, bars, n) <=> ~ StopTouched(alert, bars[n]) /\ TargetTouched(alert, bars[n])
    BY <1>0, <2>1 DEF WonBy
  <2>4. VerdictBy(alert, bars, n - 1) = "NEUTRAL"
    BY <1>3 DEF VerdictBy
  <2> QED  BY <2>2, <2>3, <2>4 DEF VerdictBy, AfterBar
<1> QED  BY <1>1, <1>2, <1>3

(* The walk of evaluate_window: the function its recursion defines exists, for
   the verdicts above are one, and there is no first bar where it leaves them. *)
LEMMA WalkEndsInVerdict ==
  ASSUME NEW alert, NEW bars, NEW S, bars \in Seq(S)
  PROVE  EvaluateWindow(alert, bars) = VerdictBy(alert, bars, Len(bars))
<1> DEFINE D == 0 .. Len(bars)
           step(w) == [i \in D |-> IF i = 0 THEN "NEUTRAL" ELSE AfterBar(w[i - 1], alert, bars[i])]
           walk == CHOOSE w : w = step(w)
           told == [i \in D |-> VerdictBy(alert, bars, i)]
<1>1. EvaluateWindow(alert, bars) = walk[Len(bars)]
  BY DEF EvaluateWindow
<1>2. Len(bars) \in Nat
  OBVIOUS
<1>3. told = step(told)
  <2> SUFFICES ASSUME NEW i \in D
               PROVE  told[i] = IF i = 0 THEN "NEUTRAL" ELSE AfterBar(told[i - 1], alert, bars[i])
    OBVIOUS
  <2>1. CASE i = 0
    BY <2>1 DEF VerdictBy, WonBy, LostBy
  <2>2. CASE i # 0
    <3>1. i \in Nat /\ i - 1 \in D
      BY <1>2, <2>2
    <3>2. told[i] = VerdictBy(alert, bars, i) /\ told[i - 1] = VerdictBy(alert, bars, i - 1)
      BY <3>1
    <3> QED  BY Zenon, <2>2, <3>1, <3>2, VerdictStep
  <2> QED  BY <2>1, <2>2
<1>4. walk = step(walk)
  BY Zenon, <1>3
<1> HIDE DEF walk
<1> DEFINE off == {i \in D : walk[i] # told[i]}
<1>5. off = {}
  <2>1. SUFFICES ASSUME off # {}
                 PROVE  FALSE
    OBVIOUS
  <2>0. off \subseteq Nat
    BY <1>2
  <2>2. PICK i \in off : \A j \in off : i <= j
    BY Zenon, <2>0, <2>1, LeastOne
  <2>3. /\ walk[i] = IF i = 0 THEN "NEUTRAL" ELSE AfterBar(walk[i - 1], alert, bars[i])
        /\ told[i] = IF i = 0 THEN "NEUTRAL" ELSE AfterBar(told[i - 1], alert, bars[i])
    BY Zenon, <1>3, <1>4
  <2>4. i # 0
    BY Zenon, <2>2, <2>3
  <2>5. i - 1 \in D /\ ~ (i <= i - 1)
    BY <1>2, <2>2, <2>4
  <2>6. walk[i - 1] = told[i - 1]
    BY Zenon, <2>2, <2>5
  <2> QED  BY Zenon, <2>2, <2>3, <2>4, <2>6
<1>6. Len(bars) \in D
  BY <1>2
<1> QED  BY <1>1, <1>5, <1>6

-----------------------------------------------------------------------------
(* The scores. *)

LEMMA FeatureTypes ==
  ASSUME NEW s \in RadarUniverse, NEW f \in Snapshots[s]
  PROVE  /\ f \in Features /\ f.price \in Nat /\ 0 < f.price /\ f.sma7 \in Nat
         /\ f.prevClose \in Nat /\ f.vwap \in Nat /\ f.atr \in Nat
<1>1. f \in Features
  BY Zenon, RadarRulesAssumption
<1>2. /\ f.price \in Nat \ {0} /\ f.sma7 \in Nat /\ f.prevClose \in Nat /\ f.vwap \in Nat
      /\ f.atr \in Nat
  BY Zenon, <1>1 DEF Features
<1> QED  BY <1>1, <1>2

LEMMA CreditTypes ==
  ASSUME NEW w \in Nat, NEW n \in Int, NEW d \in Int, 0 < d
  PROVE  Credit(w, n, d) \in Int
BY CreditGrows

LEMMA DeeperScores ==
  ASSUME NEW s \in RadarUniverse, NEW f \in Snapshots[s],
         NEW p \in Nat, 0 < p, p < f.price, NEW regime
  PROVE  Confidence([f EXCEPT !.price = p], "sma7_reversion", regime)
           >= Confidence(f, "sma7_reversion", regime)
<1> DEFINE g == [f EXCEPT !.price = p]
<1>1. /\ f \in Features /\ f.price \in Int /\ 0 < f.price /\ f.sma7 \in Int /\ f.vwap \in Int
      /\ f.rsi \in Int /\ f.rvol \in Int /\ f.rs20 \in Int /\ f.atrx \in Int
  <2>1. f \in Features /\ f.price \in Int /\ 0 < f.price /\ f.sma7 \in Int /\ f.vwap \in Int
    BY FeatureTypes
  <2>2. f.rsi \in Nat /\ f.rvol \in Nat /\ f.rs20 \in Int /\ f.atrx \in Nat
    BY Zenon, <2>1 DEF Features
  <2> QED  BY <2>1, <2>2
<1>2. /\ g.price = p /\ g.sma7 = f.sma7 /\ g.vwap = f.vwap /\ g.rsi = f.rsi
      /\ g.rvol = f.rvol /\ g.rs20 = f.rs20 /\ g.atrx = f.atrx
  BY <1>1 DEF Features
<1> HIDE DEF g
<1>3. Depth(f) \in Int /\ Depth(g) \in Int /\ Depth(f) <= Depth(g)
  <2> DEFINE n(h) == 1000 * (h.sma7 - h.price)  d(h) == 25 * h.price
  <2>1. n(f) \in Int /\ n(g) \in Int /\ n(f) <= n(g)
    BY SMT, <1>1, <1>2
  <2>2. d(f) \in Int /\ d(g) \in Int /\ 0 < d(g) /\ d(g) <= d(f)
    BY SMT, <1>1, <1>2
  <2>3. 35 \in Nat
    OBVIOUS
  <2> HIDE DEF n, d
  <2>4. /\ Credit(35, n(f), d(f)) \in Int /\ Credit(35, n(g), d(g)) \in Int
        /\ Credit(35, n(f), d(f)) <= Credit(35, n(g), d(g))
    BY Zenon, <2>1, <2>2, <2>3, CreditGrows
  <2> QED  BY SMT, <2>4 DEF n, d, Depth
<1>4. BelowVwap(f) \in Int /\ BelowVwap(g) \in Int /\ BelowVwap(f) <= BelowVwap(g)
  <2> DEFINE n(h) == 100 * (h.vwap - h.price)  d(h) == 3 * h.price
  <2>1. n(f) \in Int /\ n(g) \in Int /\ n(f) <= n(g)
    BY SMT, <1>1, <1>2
  <2>2. d(f) \in Int /\ d(g) \in Int /\ 0 < d(g) /\ d(g) <= d(f)
    BY SMT, <1>1, <1>2
  <2>3. 10 \in Nat
    OBVIOUS
  <2> HIDE DEF n, d
  <2>4. /\ Credit(10, n(f), d(f)) \in Int /\ Credit(10, n(g), d(g)) \in Int
        /\ Credit(10, n(f), d(f)) <= Credit(10, n(g), d(g))
    BY Zenon, <2>1, <2>2, <2>3, CreditGrows
  <2> QED  BY SMT, <2>4 DEF n, d, BelowVwap
<1>5. Backing(f, regime) \in Int
  <2>1. 50 - f.rsi \in Int /\ f.rvol - 100 \in Int /\ f.rs20 \in Int /\ f.atrx - 100 \in Int
    BY <1>1
  <2>2. \A n \in Int : Credit(20, n, 20) \in Int
    BY CreditTypes
  <2>3. \A n \in Int : Credit(10, n, 100) \in Int
    BY CreditTypes
  <2>4. \A n \in Int : Credit(5, n, 500) \in Int /\ Credit(5, n, 50) \in Int
    BY CreditTypes
  <2>5. (IF regime = "TRENDING_BEAR" THEN 0 ELSE 15000) \in Int
    BY SMT
  <2> QED  BY SMT, <2>1, <2>2, <2>3, <2>4, <2>5 DEF Backing
<1>6. Backing(g, regime) = Backing(f, regime)
  BY <1>2 DEF Backing
<1>7. /\ ReversionConfidence(f, regime) = Depth(f) + BelowVwap(f) + Backing(f, regime)
      /\ ReversionConfidence(g, regime) = Depth(g) + BelowVwap(g) + Backing(g, regime)
  BY Zenon DEF ReversionConfidence
<1>8. /\ ReversionConfidence(f, regime) \in Int /\ ReversionConfidence(g, regime) \in Int
      /\ ReversionConfidence(f, regime) <= ReversionConfidence(g, regime)
  BY SMT, <1>3, <1>4, <1>5, <1>6, <1>7
<1>9. \A h : Confidence(h, "sma7_reversion", regime) = Rounded(ReversionConfidence(h, regime))
  BY Zenon DEF Confidence, Reversions
<1>10. Confidence(f, "sma7_reversion", regime) <= Confidence(g, "sma7_reversion", regime)
  BY Zenon, <1>8, <1>9, RoundedGrows
<1>11. /\ Confidence(f, "sma7_reversion", regime) \in Int
       /\ Confidence(g, "sma7_reversion", regime) \in Int
  BY SMT, <1>8, <1>9 DEF Rounded
<1> QED  BY SMT, <1>10, <1>11 DEF g

-----------------------------------------------------------------------------
(* The geometry of a hit. *)

LEMMA HitFields ==
  ASSUME NEW stock, NEW type, NEW entry, NEW stop, NEW target,
         NEW h \in Hit(stock, type, entry, stop, target)
  PROVE  /\ stop < 10 * entry /\ 10 * entry < target
         /\ h.type = type /\ h.entry = 10 * entry /\ h.stop = stop /\ h.target = target
<1>1. stop < 10 * entry /\ 10 * entry < target
  BY Zenon DEF Hit
<1>2. h = [stock |-> stock, type |-> type, entry |-> 10 * entry, stop |-> stop, target |-> target]
  BY Zenon, <1>1 DEF Hit
<1> QED  BY <1>1, <1>2

(* The stop of a reversion is within its reward over MinRR: a reward of a rupee
   is ten tenths, and MinRR is at most ten, so that the cap is never nothing. *)
LEMMA StopIsCapped ==
  ASSUME NEW entry \in Nat, NEW target \in Nat, NEW atr \in Nat, entry < target
  PROVE  MinRR * (10 * entry - ReversionStop(entry, target, atr)) <= 10 * target - 10 * entry
<1> DEFINE R == 10 * (target - entry)  byRR == R \div MinRR
           byAtr == IF atr > 0 THEN StopAtrTenths * atr ELSE (10 * entry * 2) \div 100
           dist == Lesser(byAtr, byRR)
<1>1. MinRR \in Int /\ 1 <= MinRR /\ MinRR <= 10 /\ StopAtrTenths \in Nat
  <2>1. MinRR \in Nat /\ 1 <= MinRR /\ MinRR <= 10 /\ StopAtrTenths \in Nat
    BY Zenon, RadarRulesAssumption
  <2> QED  BY <2>1
<1>2. R \in Int /\ 10 <= R
  BY SMT
<1>3. byAtr \in Int
  BY SMT, <1>1
<1>4. ReversionStop(entry, target, atr) = 10 * entry - (IF byRR > 0 THEN dist ELSE byAtr)
  BY Zenon DEF ReversionStop
<1>5. 10 * target - 10 * entry = R
  BY SMT
<1> HIDE DEF R, byAtr
<1>6. byRR \in Int /\ MinRR * byRR <= R /\ 0 < byRR
  BY SMT, <1>1, <1>2
<1> HIDE DEF byRR
<1>7. dist \in Int /\ dist <= byRR
  BY SMT, <1>3, <1>6 DEF Lesser
<1> HIDE DEF dist
<1>8. 10 * entry - ReversionStop(entry, target, atr) = dist
  BY SMT, <1>4, <1>6, <1>7
<1>9. MinRR * dist <= MinRR * byRR
  <2>1. \A a, b, c \in Int : 0 <= a /\ b <= c => a * b <= a * c
    BY SMT
  <2> QED  BY SMT, <1>1, <1>6, <1>7, <2>1
<1>10. MinRR * dist \in Int /\ MinRR * byRR \in Int
  BY SMT, <1>1, <1>6, <1>7
<1> QED  BY SMT, <1>2, <1>5, <1>6, <1>8, <1>9, <1>10

ClearsMinRR(h) == MinRR * (h.entry - h.stop) <= h.target - h.entry

LEMMA ReversionsClear ==
  ASSUME NEW s \in RadarUniverse, NEW f \in Snapshots[s], NEW regime,
         NEW h \in Detect(s, f, regime), h.type \in {"sma7_reversion", "gap_reversion"}
  PROVE  ClearsMinRR(h)
<1>1. f.price \in Nat /\ f.sma7 \in Nat /\ f.prevClose \in Nat /\ f.atr \in Nat
  BY Zenon, FeatureTypes
<1>2. ASSUME NEW target \in Nat, NEW type,
             h \in Hit(s, type, f.price, ReversionStop(f.price, target, f.atr), 10 * target)
      PROVE  ClearsMinRR(h)
  <2> DEFINE stop == ReversionStop(f.price, target, f.atr)
  <2>0. h \in Hit(s, type, f.price, stop, 10 * target)
    BY Zenon, <1>2
  <2> HIDE DEF stop
  <2>1. 10 * f.price < 10 * target /\ h.entry = 10 * f.price /\ h.stop = stop
        /\ h.target = 10 * target
    BY <2>0, HitFields
  <2>2. f.price < target
    BY SMT, <1>1, <2>1
  <2>3. MinRR * (10 * f.price - stop) <= 10 * target - 10 * f.price
    BY Zenon, <1>1, <2>2, StopIsCapped DEF stop
  <2> QED  BY Zenon, <2>1, <2>3 DEF ClearsMinRR
<1>3. \/ h \in SmaReversion(s, f) \/ h \in GapReversion(s, f)
      \/ h \in VwapPullback(s, f) \/ h \in RvolReversal(s, f) \/ h \in AtrBreakout(s, f)
  BY Zenon DEF Detect
<1>4. CASE h \in SmaReversion(s, f)
  BY Zenon, <1>1, <1>2, <1>4 DEF SmaReversion
<1>5. CASE h \in GapReversion(s, f)
  BY Zenon, <1>1, <1>2, <1>5 DEF GapReversion
<1>6. CASE h \in VwapPullback(s, f) \/ h \in RvolReversal(s, f) \/ h \in AtrBreakout(s, f)
  <2>1. h.type \in {"vwap_pullback", "rvol_reversal", "atr_breakout"}
    <3>1. ASSUME NEW type, h \in AtrHit(s, type, f)
          PROVE  h.type = type
      BY <3>1, HitFields DEF AtrHit
    <3>2. \E type \in {"vwap_pullback", "rvol_reversal", "atr_breakout"} : h \in AtrHit(s, type, f)
      BY Zenon, <1>6 DEF VwapPullback, RvolReversal, AtrBreakout
    <3> QED  BY Zenon, <3>1, <3>2
  <2> QED  BY <2>1
<1> QED  BY <1>3, <1>4, <1>5, <1>6

LEMMA ScansClear ==
  ASSUME NEW snaps, \A s \in RadarUniverse : snaps[s] \in Snapshots[s],
         NEW present \in SUBSET RadarUniverse, NEW regime,
         NEW h \in Scored(snaps, present, regime), h.type \in {"sma7_reversion", "gap_reversion"}
  PROVE  ClearsMinRR(h)
<1>1. PICK s \in present : \E d \in Detect(s, snaps[s], regime) :
        h = [stock |-> d.stock, type |-> d.type, entry |-> d.entry, stop |-> d.stop,
             target |-> d.target, conf |-> Confidence(snaps[d.stock], d.type, regime)]
  BY Zenon DEF Scored
<1>0. PICK k \in Detect(s, snaps[s], regime) :
        h = [stock |-> k.stock, type |-> k.type, entry |-> k.entry, stop |-> k.stop,
             target |-> k.target, conf |-> Confidence(snaps[k.stock], k.type, regime)]
  BY Zenon, <1>1
<1>2. h.type = k.type /\ h.entry = k.entry /\ h.stop = k.stop /\ h.target = k.target
  BY <1>0
<1>3. s \in RadarUniverse /\ snaps[s] \in Snapshots[s]
  BY Zenon, <1>1
<1>4. ClearsMinRR(k)
  BY Zenon, <1>2, <1>3, ReversionsClear
<1> QED  BY Zenon, <1>2, <1>4 DEF ClearsMinRR

-----------------------------------------------------------------------------
(* What a scan saw is a snapshot of every stock, the bars are a sequence, and
   the ranked hits and the verdict are as the rules want them. *)
RRInv ==
  /\ \A s \in RadarUniverse : rrSnaps[s] \in Snapshots[s]
  /\ rrBars \in Seq(RadarBars)
  /\ ReversionClearsMinRR
  /\ VerdictIsTheFirstTouch

LEMMA RRInvHolds == RRSpec => []RRInv
<1>1. RRInit => RRInv
  <2> SUFFICES ASSUME RRInit
               PROVE  RRInv
    OBVIOUS
  <2>1. \A s \in RadarUniverse : rrSnaps[s] \in Snapshots[s]
    <3> SUFFICES ASSUME NEW s \in RadarUniverse
                 PROVE  rrSnaps[s] \in Snapshots[s]
      OBVIOUS
    <3>1. rrSnaps[s] = CHOOSE f \in Snapshots[s] : TRUE
      BY DEF RRInit
    <3>2. \E f \in Snapshots[s] : TRUE
      BY Zenon, RadarRulesAssumption
    <3> QED  BY Zenon, <3>1, <3>2
  <2>2. rrBars \in Seq(RadarBars)
    BY DEF RRInit
  <2>3. DOMAIN rrRanked = {} /\ rrPhase = "idle"
    BY DEF RRInit
  <2> QED  BY <2>1, <2>2, <2>3 DEF RRInv, ReversionClearsMinRR, VerdictIsTheFirstTouch
<1>2. RRInv /\ [RRNext]_rrVars => RRInv'
  <2> SUFFICES ASSUME RRInv, [RRNext]_rrVars
               PROVE  RRInv'
    OBVIOUS
  <2> USE DEF RRInv
  <2>1. CASE RunScan
    <3>1. PICK snaps \in {g \in [RadarUniverse -> UNION {Snapshots[s] : s \in RadarUniverse}] :
                            \A s \in RadarUniverse : g[s] \in Snapshots[s]},
               present \in SUBSET RadarUniverse, index \in Indexes :
            rrSnaps' = snaps /\ rrRanked' = Rank(Scored(snaps, present, CurrentRegime(index, snaps, present)))
      BY Zenon, <2>1 DEF RunScan
    <3> DEFINE regime == CurrentRegime(index, snaps, present)
    <3>2. \A s \in RadarUniverse : snaps[s] \in Snapshots[s]
      BY Zenon
    <3>3. DOMAIN rrRanked' = Scored(snaps, present, regime)
      BY Zenon, <3>1 DEF Rank
    <3> HIDE DEF regime
    <3>4. ReversionClearsMinRR'
      BY Zenon, <3>2, <3>3, ScansClear DEF ReversionClearsMinRR, ClearsMinRR
    <3>5. rrPhase' = "scanned" /\ rrBars' = rrBars
      BY Zenon, <2>1 DEF RunScan
    <3>6. VerdictIsTheFirstTouch'
      BY <3>5 DEF VerdictIsTheFirstTouch
    <3> QED  BY Zenon, <3>1, <3>2, <3>4, <3>5, <3>6
  <2>2. CASE Alerted
    <3>1. rrPhase' = "watching" /\ UNCHANGED <<rrSnaps, rrRanked, rrBars>>
      BY Zenon, <2>2 DEF Alerted
    <3> QED  BY <3>1 DEF ReversionClearsMinRR, VerdictIsTheFirstTouch
  <2>3. CASE BarArrives
    <3>1. PICK b \in RadarBars : rrBars' = Append(rrBars, b)
      BY Zenon, <2>3 DEF BarArrives
    <3>2. rrPhase' = "watching" /\ UNCHANGED <<rrSnaps, rrRanked>>
      BY Zenon, <2>3 DEF BarArrives
    <3>3. rrBars' \in Seq(RadarBars)
      BY <3>1
    <3> QED  BY <3>2, <3>3 DEF ReversionClearsMinRR, VerdictIsTheFirstTouch
  <2>4. CASE Judge
    <3>1. /\ UNCHANGED <<rrSnaps, rrRanked, rrAlert, rrBars>>
          /\ rrVerdict' = EvaluateWindow(rrAlert, rrBars)
      BY Zenon, <2>4 DEF Judge
    <3> DEFINE n == Len(rrBars)
    <3>2. rrVerdict' = VerdictBy(rrAlert, rrBars, n)
      BY Zenon, <3>1, WalkEndsInVerdict
    <3>3. n \in Nat /\ DOMAIN rrBars = 1 .. n
      OBVIOUS
    <3>4. ~ (WonBy(rrAlert, rrBars, n) /\ LostBy(rrAlert, rrBars, n))
      BY Zenon, <3>3, NotBoth
    <3>5. /\ rrVerdict' = "WIN" <=> WonBy(rrAlert, rrBars, n)
          /\ rrVerdict' = "LOSS" <=> LostBy(rrAlert, rrBars, n)
      BY <3>2, <3>4 DEF VerdictBy
    <3>6. VerdictIsTheFirstTouch'
      BY Zenon, <3>1, <3>3, <3>5 DEF VerdictIsTheFirstTouch, WonBy, LostBy
    <3> QED  BY Zenon, <3>1, <3>6 DEF ReversionClearsMinRR
  <2>5. CASE UNCHANGED rrVars
    BY Zenon, <2>5 DEF rrVars, ReversionClearsMinRR, VerdictIsTheFirstTouch
  <2> QED  BY <2>1, <2>2, <2>3, <2>4, <2>5 DEF RRNext
<1> QED  BY <1>1, <1>2, PTL DEF RRSpec

(* A reversion's stop is sized by its reward, a deeper stretch never ranks lower
   and an alert is judged by the first level its bars touch (_reversion_stop,
   confidence, evaluate_window), for any stocks, snapshots, gates and bars. *)
THEOREM RadarIsFair == RRSpec => []RadarRulesHold
<1>1. RRInv => RadarRulesHold
  <2> SUFFICES ASSUME RRInv
               PROVE  DeeperNeverScoresLess
    BY DEF RRInv, RadarRulesHold
  <2> SUFFICES ASSUME NEW s \in RadarUniverse, NEW g \in Snapshots[s],
                      g.price < rrSnaps[s].price
               PROVE  Confidence([rrSnaps[s] EXCEPT !.price = g.price], "sma7_reversion", rrRegime)
                        >= Confidence(rrSnaps[s], "sma7_reversion", rrRegime)
    BY Zenon DEF DeeperNeverScoresLess
  <2>1. rrSnaps[s] \in Snapshots[s]
    BY Zenon DEF RRInv
  <2>2. g.price \in Nat /\ 0 < g.price
    BY Zenon, FeatureTypes
  <2> QED  BY Zenon, <2>1, <2>2, DeeperScores
<1> QED  BY <1>1, RRInvHolds, PTL

-----------------------------------------------------------------------------
(* A coin's signal and the portfolio's sum.  Bound is monotone, so is every
   sub-score, and so the rounded sum; the portfolio's net is what was gained and
   what was lost up to each coin (GainsAdd, by induction on the coins), of which
   the tax takes its part of the first only. *)
CoinReadings == [price : Nat, ema20 : Nat, ema50 : Nat, ema200 : Nat, band : CoinBands,
                 rsi : Int, change : Int, volume : Nat, rising : BOOLEAN]

(* The ten-thousandths before they are rounded to the score. *)
Weighed(r) ==
  25 * CoinRsiScore(r.rsi) + (IF r.rising THEN 20000 ELSE 0) + 20 * BandScore(r.price, r.band)
    + 20 * EmaScore(r) + 10 * MomentumScore(r.change) + 5 * Bound(5 * r.volume)

LEMMA CoinConstants ==
  /\ CoinPrices \subseteq Nat /\ CoinEmas \subseteq Nat /\ CoinRsis \subseteq Int
  /\ CoinVolumes \subseteq Nat /\ WeekChanges \subseteq Int
  /\ \A b \in CoinBands : b.lower \in Int /\ b.upper \in Int
  /\ Values \subseteq Nat /\ FeeRate \in Nat
  /\ Len(Invested) \in Nat /\ Holdings = 1 .. Len(Invested)
  /\ \A h \in Holdings : Invested[h] \in Nat
<1>1. /\ CoinPrices \subseteq Nat /\ CoinEmas \subseteq Nat /\ CoinRsis \subseteq Int
      /\ CoinVolumes \subseteq Nat /\ WeekChanges \subseteq Int
      /\ Values \subseteq Nat /\ FeeRate \in Nat
  BY CryptoRulesAssumption
<1>2. \A b \in CoinBands : b.lower \in Int /\ b.upper \in Int
  BY CryptoRulesAssumption
<1>3. Invested \in Seq(Nat \ {0})
  BY CryptoRulesAssumption
<1>4. /\ Len(Invested) \in Nat /\ DOMAIN Invested = 1 .. Len(Invested)
      /\ \A h \in 1 .. Len(Invested) : Invested[h] \in Nat
  BY <1>3
<1> QED  BY <1>1, <1>2, <1>4 DEF Holdings

LEMMA BoundHolds ==
  ASSUME NEW x \in Int
  PROVE  /\ Bound(x) \in Int /\ Bound(x) >= 0 /\ Bound(x) <= 1000
         /\ \A y \in Int : x <= y => Bound(x) <= Bound(y)
BY DEF Bound

LEMMA BandsTyped ==
  ASSUME NEW price \in Nat, NEW b \in CoinBands
  PROVE  BandScore(price, b) \in Int /\ BandScore(price, b) >= 0 /\ BandScore(price, b) <= 1000
<1> DEFINE width == b.upper - b.lower
           x == 2000 * (b.upper - price) + width
           y == 2 * width
<1>1. b.lower \in Int /\ b.upper \in Int
  BY CoinConstants
<1>2. CASE b.upper <= b.lower
  BY <1>2 DEF BandScore
<1>3. CASE ~ (b.upper <= b.lower)
  <2>1. x \in Int /\ y \in Nat \ {0}
    BY <1>1, <1>3
  <2>2. BandScore(price, b) = Bound(x \div y)
    BY <1>3 DEF BandScore
  <2> HIDE DEF x, y
  <2>3. x \div y \in Int
    BY <2>1
  <2> QED  BY <2>2, <2>3, BoundHolds
<1> QED  BY <1>2, <1>3

LEMMA EmaShare ==
  ASSUME NEW r \in CoinReadings
  PROVE  EmaScore(r) \in Int /\ EmaScore(r) >= 0 /\ EmaScore(r) <= 1000
<1> DEFINE pa == IF r.ema20 > 0 THEN Pull(r.price > r.ema20, 150) ELSE 0
           pb == IF r.ema20 > 0 /\ r.ema50 > 0 THEN Pull(r.ema20 > r.ema50, 200) ELSE 0
           pc == IF r.ema200 > 0 THEN Pull(r.price > r.ema200, 150) ELSE 0
<1>1. EmaScore(r) = 500 + pa + pb + pc
  BY DEF EmaScore
<1>2. pa \in {-150, 0, 150} /\ pb \in {-200, 0, 200} /\ pc \in {-150, 0, 150}
  BY DEF Pull
<1> HIDE DEF pa, pb, pc
<1> QED  BY <1>1, <1>2

(* The full sub-score of the averages comes with an uptrend. *)
LEMMA EmasTyped ==
  ASSUME NEW r \in CoinReadings
  PROVE  LaddersAgree(r, TrendLabel(r), EmaScore(r))
<1> DEFINE p == r.price
           a == r.ema20
           b == r.ema50
           c == r.ema200
           pa == IF a > 0 THEN Pull(p > a, 150) ELSE 0
           pb == IF a > 0 /\ b > 0 THEN Pull(a > b, 200) ELSE 0
           pc == IF c > 0 THEN Pull(p > c, 150) ELSE 0
<1>1. p \in Nat /\ a \in Nat /\ b \in Nat /\ c \in Nat
  BY DEF CoinReadings
<1>2. EmaScore(r) = 500 + pa + pb + pc
  BY DEF EmaScore
<1> DEFINE strong == p > a /\ a > b /\ b > c /\ c > 0
           up == p > b /\ b > 0
           down == a > 0 /\ b > 0 /\ p < a /\ a < b
<1>3. TrendLabel(r) = IF strong THEN "Strong Uptrend" ELSE IF up THEN "Uptrend"
                      ELSE IF down THEN "Downtrend" ELSE "Ranging"
  BY DEF TrendLabel
<1> HIDE DEF p, a, b, c
<1>4. pa \in {-150, 0, 150} /\ pb \in {-200, 0, 200} /\ pc \in {-150, 0, 150}
  BY DEF Pull
<1>5. strong => pa = 150 /\ pb = 200 /\ pc = 150
  BY <1>1 DEF Pull
<1>6. down => pa = -150 /\ pb = -200
  BY <1>1 DEF Pull
<1>7. a = 0 /\ b = 0 /\ c = 0 => pa = 0 /\ pb = 0 /\ pc = 0
  BY <1>1
<1> HIDE DEF pa, pb, pc, strong, up, down
<1>9. TrendLabel(r) = "Strong Uptrend" => EmaScore(r) = 1000
  <2>1. TrendLabel(r) = "Strong Uptrend" => strong
    BY <1>3, Zenon
  <2>2. strong => EmaScore(r) = 1000
    BY <1>2, <1>5
  <2> QED  BY <2>1, <2>2, Zenon
<1>10. TrendLabel(r) = "Downtrend" => EmaScore(r) <= 300
  <2>1. TrendLabel(r) = "Downtrend" => down
    BY <1>3, Zenon
  <2>2. down => EmaScore(r) <= 300
    BY <1>2, <1>4, <1>6
  <2> QED  BY <2>1, <2>2, Zenon
<1>11. {r.ema20, r.ema50, r.ema200} = {0} => EmaScore(r) = 500
  <2>1. {r.ema20, r.ema50, r.ema200} = {0} => a = 0 /\ b = 0 /\ c = 0
    BY DEF a, b, c
  <2> QED  BY <1>2, <1>7, <2>1
<1> QED  BY <1>9, <1>10, <1>11 DEF LaddersAgree

LEMMA MomentumHolds ==
  ASSUME NEW x \in Int
  PROVE  /\ MomentumScore(x) \in Int /\ MomentumScore(x) >= 200 /\ MomentumScore(x) <= 900
         /\ \A y \in Int : x <= y => MomentumScore(y) <= MomentumScore(x)
BY DEF MomentumScore

LEMMA SignalTyped ==
  ASSUME NEW r \in CoinReadings
  PROVE  /\ Weighed(r) \in Nat
         /\ ComputeSignal(r).score = (Weighed(r) + 5) \div 10
         /\ ComputeSignal(r).score \in Nat /\ ComputeSignal(r).score <= 10000
         /\ ComputeSignal(r).ema = EmaScore(r) /\ ComputeSignal(r).trend = TrendLabel(r)
<1> DEFINE a == CoinRsiScore(r.rsi)
           b == BandScore(r.price, r.band)
           c == EmaScore(r)
           d == MomentumScore(r.change)
           e == Bound(5 * r.volume)
           u == IF r.rising THEN 20000 ELSE 0
<1>1. r.rsi \in Int /\ r.price \in Nat /\ r.band \in CoinBands /\ r.change \in Int /\ r.volume \in Nat
  BY DEF CoinReadings
<1>2. a \in Int /\ a >= 0 /\ a <= 1000
  <2> DEFINE x == 500 + (50 - r.rsi) * 25
  <2>1. x \in Int
    BY <1>1
  <2>2. a = Bound(x)
    BY DEF CoinRsiScore
  <2> HIDE DEF x, a
  <2> QED  BY <2>1, <2>2, BoundHolds
<1>3. /\ b \in Int /\ b >= 0 /\ b <= 1000 /\ c \in Int /\ c >= 0 /\ c <= 1000
      /\ d \in Int /\ d >= 200 /\ d <= 900
  <2>1. b \in Int /\ b >= 0 /\ b <= 1000
    <3> DEFINE p == r.price
               band == r.band
    <3>1. p \in Nat /\ band \in CoinBands
      BY <1>1
    <3>2. b = BandScore(p, band)
      OBVIOUS
    <3> HIDE DEF p, band, b
    <3> QED  BY <3>1, <3>2, BandsTyped
  <2>2. c \in Int /\ c >= 0 /\ c <= 1000
    <3> HIDE DEF c
    <3>1. c = EmaScore(r)
      BY DEF c
    <3> QED  BY <3>1, EmaShare
  <2>3. d \in Int /\ d >= 200 /\ d <= 900
    BY <1>1, MomentumHolds
  <2> QED  BY <2>1, <2>2, <2>3
<1>4. e \in Int /\ e >= 0 /\ e <= 1000
  <2> DEFINE x == 5 * r.volume
  <2>1. x \in Int
    BY <1>1
  <2>2. e = Bound(x)
    OBVIOUS
  <2> HIDE DEF x, e
  <2> QED  BY <2>1, <2>2, BoundHolds
<1>5. u = 0 \/ u = 20000
  OBVIOUS
<1> DEFINE w == Weighed(r)
<1>6. w = 25 * a + u + 20 * b + 20 * c + 10 * d + 5 * e
  BY DEF Weighed
<1>7. /\ ComputeSignal(r).score = (Weighed(r) + 5) \div 10
      /\ ComputeSignal(r).ema = EmaScore(r) /\ ComputeSignal(r).trend = TrendLabel(r)
  BY DEF ComputeSignal, Weighed
<1> HIDE DEF a, b, c, d, e, u, w
<1>8. w \in Int /\ w >= 0 /\ w <= 99990
  BY <1>2, <1>3, <1>4, <1>5, <1>6, SMT
<1>9. (w + 5) \div 10 \in Nat /\ (w + 5) \div 10 <= 10000
  BY <1>8, SMT
<1>10. w \in Nat
  BY <1>8
<1> QED  BY <1>7, <1>9, <1>10 DEF w

(* With all else equal, a reading further against the crowd scores no less. *)
LEMMA AgainstTheCrowd ==
  ASSUME NEW r \in CoinReadings, NEW q \in CoinReadings,
         q.price = r.price, q.band = r.band, EmaScore(q) = EmaScore(r),
         q.rsi <= r.rsi, q.change <= r.change, q.volume >= r.volume, r.rising => q.rising
  PROVE  ComputeSignal(q).score >= ComputeSignal(r).score
<1>1. /\ r.rsi \in Int /\ q.rsi \in Int /\ r.change \in Int /\ q.change \in Int
      /\ r.volume \in Nat /\ q.volume \in Nat
  BY DEF CoinReadings
<1>2. CoinRsiScore(r.rsi) <= CoinRsiScore(q.rsi)
  <2> DEFINE x == 500 + (50 - r.rsi) * 25
             y == 500 + (50 - q.rsi) * 25
  <2>1. x \in Int /\ y \in Int /\ x <= y
    BY <1>1
  <2> HIDE DEF x, y
  <2>2. Bound(x) <= Bound(y)
    BY <2>1, BoundHolds
  <2> QED  BY <2>2 DEF CoinRsiScore, x, y
<1>3. MomentumScore(r.change) <= MomentumScore(q.change)
  BY <1>1, MomentumHolds
<1>4. Bound(5 * r.volume) <= Bound(5 * q.volume)
  <2> DEFINE x == 5 * r.volume
             y == 5 * q.volume
  <2>1. x \in Int /\ y \in Int /\ x <= y
    BY <1>1
  <2> HIDE DEF x, y
  <2>2. Bound(x) <= Bound(y)
    BY <2>1, BoundHolds
  <2> QED  BY <2>2 DEF x, y
<1>5. BandScore(q.price, q.band) = BandScore(r.price, r.band)
  OBVIOUS
<1>6. Weighed(r) <= Weighed(q)
  <2> DEFINE a1 == CoinRsiScore(r.rsi)
             a2 == CoinRsiScore(q.rsi)
             u1 == IF r.rising THEN 20000 ELSE 0
             u2 == IF q.rising THEN 20000 ELSE 0
             b == BandScore(r.price, r.band)
             c == EmaScore(r)
             d1 == MomentumScore(r.change)
             d2 == MomentumScore(q.change)
             e1 == Bound(5 * r.volume)
             e2 == Bound(5 * q.volume)
  <2>1. Weighed(r) = 25 * a1 + u1 + 20 * b + 20 * c + 10 * d1 + 5 * e1
    BY DEF Weighed
  <2>2. Weighed(q) = 25 * a2 + u2 + 20 * b + 20 * c + 10 * d2 + 5 * e2
    BY <1>5 DEF Weighed
  <2>3. u1 \in Int /\ u2 \in Int /\ u1 <= u2
    OBVIOUS
  <2>4. b \in Int /\ c \in Int /\ d1 \in Int /\ d2 \in Int
    <3>1. r.price \in Nat /\ r.band \in CoinBands
      BY DEF CoinReadings
    <3>2. b \in Int
      <4> DEFINE p == r.price
                 band == r.band
      <4>1. p \in Nat /\ band \in CoinBands
        BY <3>1
      <4>2. b = BandScore(p, band)
        OBVIOUS
      <4> HIDE DEF p, band, b
      <4> QED  BY <4>1, <4>2, BandsTyped
    <3>3. c \in Int
      BY EmaShare
    <3>4. d1 \in Int /\ d2 \in Int
      BY <1>1, MomentumHolds
    <3> QED  BY <3>2, <3>3, <3>4
  <2>5. a1 \in Int /\ a2 \in Int
    <3> DEFINE x == 500 + (50 - r.rsi) * 25
               y == 500 + (50 - q.rsi) * 25
    <3>1. x \in Int /\ y \in Int
      BY <1>1
    <3>2. a1 = Bound(x) /\ a2 = Bound(y)
      BY DEF CoinRsiScore
    <3> HIDE DEF x, y, a1, a2
    <3> QED  BY <3>1, <3>2, BoundHolds
  <2>6. e1 \in Int /\ e2 \in Int
    <3> DEFINE x == 5 * r.volume
               y == 5 * q.volume
    <3>1. x \in Int /\ y \in Int
      BY <1>1
    <3>2. e1 = Bound(x) /\ e2 = Bound(y)
      OBVIOUS
    <3> HIDE DEF x, y, e1, e2
    <3> QED  BY <3>1, <3>2, BoundHolds
  <2>7. a1 <= a2 /\ d1 <= d2 /\ e1 <= e2
    BY <1>2, <1>3, <1>4
  <2> HIDE DEF a1, a2, u1, u2, b, c, d1, d2, e1, e2
  <2> QED  BY <2>1, <2>2, <2>3, <2>4, <2>5, <2>6, <2>7
<1> DEFINE w == Weighed(r)
           v == Weighed(q)
           s == ComputeSignal(r).score
           t == ComputeSignal(q).score
<1>7. w \in Nat /\ s = (w + 5) \div 10
  BY SignalTyped
<1>8. v \in Nat /\ t = (v + 5) \div 10
  BY SignalTyped
<1>9. w <= v
  BY <1>6
<1> HIDE DEF w, v, s, t
<1>10. s <= t /\ s \in Int /\ t \in Int
  BY <1>7, <1>8, <1>9
<1> QED  BY <1>10 DEF s, t

-----------------------------------------------------------------------------
(* What the coins of a set put in, are worth, and leave after tax. *)
PartOf(f, S) == [h \in 1 .. Len(f) |-> IF h \in S THEN f[h] ELSE 0]
NetsOf(values) == [h \in Holdings |-> AfterTax(Invested[h], values[h])]

Runs(s, f, S, N) ==
  /\ TotalOver(f, S) = s[N] /\ s \in [0 .. N -> Int] /\ s[0] = 0
  /\ \A h \in 1 .. N : s[h] = s[h - 1] + (IF h \in S THEN f[h] ELSE 0)

LEMMA TotalsRun ==
  ASSUME NEW N \in Nat, NEW f \in [1 .. N -> Int], NEW S
  PROVE  Runs(PartialSums(PartOf(f, S)), f, S, N)
<1> DEFINE g == [h \in 1 .. Len(f) |-> IF h \in S THEN f[h] ELSE 0]
           s == PartialSums(g)
<1>0. Len(f) = N
  OBVIOUS
<1>1. g \in [1 .. N -> Int]
  BY <1>0
<1>2. \A h \in 1 .. N : g[h] = IF h \in S THEN f[h] ELSE 0
  BY <1>0
<1>3. TotalOver(f, S) = SumOf(g)
  BY DEF TotalOver
<1>4. PartOf(f, S) = g
  BY DEF PartOf
<1> HIDE DEF g
<1>5. /\ Len(g) = N /\ s \in [0 .. N -> Int] /\ s[0] = 0
      /\ \A i \in 1 .. N : s[i] = s[i - 1] + g[i]
  BY <1>1, SumsAdd
<1>6. SumOf(g) = s[Len(g)]
  BY DEF SumOf, PartialSums
<1> HIDE DEF s
<1>7. /\ TotalOver(f, S) = s[N] /\ s \in [0 .. N -> Int] /\ s[0] = 0
      /\ \A h \in 1 .. N : s[h] = s[h - 1] + (IF h \in S THEN f[h] ELSE 0)
  BY <1>2, <1>3, <1>5, <1>6
<1> QED  BY <1>4, <1>7 DEF s, Runs

Gain(values, h) == AfterFees(Invested[h], values[h])
Taxed(gain) == IF gain > 0 THEN 688 * gain ELSE 1000 * gain

LEMMA GainTyped ==
  ASSUME NEW a \in Int, NEW b \in Int
  PROVE  /\ AfterFees(a, b) \in Int /\ AfterTax(a, b) = Taxed(AfterFees(a, b))
         /\ AfterTax(a, b) \in Int
<1>1. FeeRate \in Nat
  BY CoinConstants
<1>2. AfterFees(a, b) \in Int
  <2>1. 10000 * (b - a) \in Int /\ FeeRate * a \in Int
    BY <1>1
  <2> QED  BY <2>1 DEF AfterFees
<1>3. AfterTax(a, b) = Taxed(AfterFees(a, b))
  BY DEF AfterTax, Taxed
<1> QED  BY <1>2, <1>3 DEF Taxed

(* What was put in and is worth, up to a coin, is what was gained and what was
   lost; the net takes 688 of a thousand of the one and all of the other. *)
Split(values, n, gained, lost) ==
  /\ gained \in Nat /\ lost \in Nat
  /\ gained > 0 <=> \E h \in 1 .. n : h \in Priced(values) /\ Gain(values, h) > 0
  /\ lost > 0 <=> \E h \in 1 .. n : h \in Priced(values) /\ Gain(values, h) < 0

LEMMA GainsAdd ==
  ASSUME NEW values \in [Holdings -> Nat]
  PROVE  \E gained, lost \in Nat :
           /\ Split(values, Len(Invested), gained, lost)
           /\ AfterFees(TotalOver(Invested, Priced(values)), TotalOver(values, Priced(values)))
                = gained - lost
           /\ TotalOver(Invested, Priced(values)) \in Int /\ TotalOver(values, Priced(values)) \in Int
           /\ NetOf(values) = 688 * gained - 1000 * lost
<1> DEFINE N == Len(Invested)
           S == Priced(values)
           put == PartialSums(PartOf(Invested, S))
           worth == PartialSums(PartOf(values, S))
           net == PartialSums(PartOf(NetsOf(values), S))
<1>1. N \in Nat /\ Holdings = 1 .. N /\ FeeRate \in Nat
      /\ \A h \in 1 .. N : Invested[h] \in Nat /\ values[h] \in Nat
  BY CoinConstants
<1>2. \A h \in 1 .. N : /\ Gain(values, h) \in Int
                        /\ AfterTax(Invested[h], values[h]) = Taxed(Gain(values, h))
                        /\ AfterTax(Invested[h], values[h]) \in Int
  <2> SUFFICES ASSUME NEW h \in 1 .. N
               PROVE  /\ Gain(values, h) \in Int
                      /\ AfterTax(Invested[h], values[h]) = Taxed(Gain(values, h))
                      /\ AfterTax(Invested[h], values[h]) \in Int
    OBVIOUS
  <2> DEFINE i == Invested[h]
             v == values[h]
  <2>1. i \in Int /\ v \in Int
    BY <1>1
  <2>2. Gain(values, h) = AfterFees(i, v)
    BY DEF Gain
  <2> HIDE DEF i, v
  <2>3. /\ AfterFees(i, v) \in Int /\ AfterTax(i, v) = Taxed(AfterFees(i, v))
        /\ AfterTax(i, v) \in Int
    BY <2>1, GainTyped
  <2> QED  BY <2>2, <2>3 DEF i, v
<1>3. /\ Invested \in [1 .. N -> Int] /\ values \in [1 .. N -> Int]
      /\ NetsOf(values) \in [1 .. N -> Int]
      /\ \A h \in 1 .. N : NetsOf(values)[h] = Taxed(Gain(values, h))
  <2>1. values \in [1 .. N -> Nat]
    BY <1>1
  <2>2. NetsOf(values) = [h \in 1 .. N |-> AfterTax(Invested[h], values[h])]
    BY <1>1 DEF NetsOf
  <2>3. NetsOf(values) \in [1 .. N -> Int]
    BY <1>2, <2>2
  <2> HIDE DEF N
  <2>4. Invested \in Seq(Nat \ {0}) /\ DOMAIN Invested = 1 .. N
    BY <1>1, CryptoRulesAssumption DEF Holdings
  <2>5. Invested \in [1 .. N -> Int]
    BY <1>1, <2>4
  <2>6. values \in [1 .. N -> Int]
    BY <2>1
  <2>7. \A h \in 1 .. N : NetsOf(values)[h] = Taxed(Gain(values, h))
    BY <1>2, <2>2
  <2> QED  BY <2>3, <2>5, <2>6, <2>7
<1> HIDE DEF N, S
<1>4. /\ TotalOver(Invested, S) = put[N] /\ put \in [0 .. N -> Int] /\ put[0] = 0
      /\ \A h \in 1 .. N : put[h] = put[h - 1] + (IF h \in S THEN Invested[h] ELSE 0)
  <2>1. N \in Nat /\ Invested \in [1 .. N -> Int]
    BY <1>1, <1>3
  <2>2. Runs(put, Invested, S, N)
    BY <2>1, TotalsRun, Zenon
  <2> QED  BY <2>2 DEF Runs
<1>5. /\ TotalOver(values, S) = worth[N] /\ worth \in [0 .. N -> Int] /\ worth[0] = 0
      /\ \A h \in 1 .. N : worth[h] = worth[h - 1] + (IF h \in S THEN values[h] ELSE 0)
  <2>1. N \in Nat /\ values \in [1 .. N -> Int]
    BY <1>1, <1>3
  <2>2. Runs(worth, values, S, N)
    BY <2>1, TotalsRun, Zenon
  <2> QED  BY <2>2 DEF Runs
<1>6. /\ TotalOver(NetsOf(values), S) = net[N] /\ net \in [0 .. N -> Int] /\ net[0] = 0
      /\ \A h \in 1 .. N : net[h] = net[h - 1] + (IF h \in S THEN NetsOf(values)[h] ELSE 0)
  <2>1. N \in Nat /\ NetsOf(values) \in [1 .. N -> Int]
    BY <1>1, <1>3
  <2>2. Runs(net, NetsOf(values), S, N)
    BY <2>1, TotalsRun, Zenon
  <2> QED  BY <2>2 DEF Runs
<1>7. NetOf(values) = net[N]
  BY <1>6 DEF NetOf, NetsOf, S
<1> HIDE DEF put, worth, net
<1> DEFINE adds(n) == \E gained, lost \in Nat :
             /\ Split(values, n, gained, lost)
             /\ AfterFees(put[n], worth[n]) = gained - lost
             /\ net[n] = 688 * gained - 1000 * lost
           T == {n \in 0 .. N : adds(n)}
<1>8. 0 \in T
  <2>1. AfterFees(put[0], worth[0]) = 0 /\ net[0] = 0
    BY <1>1, <1>4, <1>5, <1>6 DEF AfterFees
  <2>2. Split(values, 0, 0, 0)
    BY DEF Split
  <2>3. adds(0)
    BY <2>1, <2>2
  <2> HIDE DEF adds
  <2> QED  BY <1>1, <2>3
<1>9. ASSUME NEW n \in 1 .. N, n - 1 \in T PROVE n \in T
  <2>1. n - 1 \in 0 .. N /\ n \in 0 .. N /\ n \in 1 .. n
    BY <1>1
  <2>2. PICK gained \in Nat, lost \in Nat :
          /\ Split(values, n - 1, gained, lost)
          /\ AfterFees(put[n - 1], worth[n - 1]) = gained - lost
          /\ net[n - 1] = 688 * gained - 1000 * lost
    BY <1>9
  <2>3. \A h \in 1 .. n : h \in 1 .. n - 1 \/ h = n
    BY <1>1
  <2>4. \A h \in 1 .. n - 1 : h \in 1 .. n
    BY <1>1
  <2>5. CASE n \notin S
    <3>1. put[n] = put[n - 1] /\ worth[n] = worth[n - 1] /\ net[n] = net[n - 1]
      BY <1>4, <1>5, <1>6, <2>1, <2>5
    <3>2. Split(values, n, gained, lost)
      BY <2>2, <2>3, <2>4, <2>5 DEF Split, S
    <3>3. adds(n)
      BY <2>2, <3>1, <3>2
    <3> HIDE DEF adds
    <3> QED  BY <2>1, <3>3
  <2>6. CASE n \in S
    <3> DEFINE g == Gain(values, n)
    <3>1. /\ put[n] = put[n - 1] + Invested[n] /\ worth[n] = worth[n - 1] + values[n]
          /\ net[n] = net[n - 1] + Taxed(g) /\ g \in Int
      BY <1>2, <1>3, <1>4, <1>5, <1>6, <2>1, <2>6
    <3>2. AfterFees(put[n], worth[n]) = AfterFees(put[n - 1], worth[n - 1]) + g
      <4>1. ASSUME NEW p \in Int, NEW w \in Int, NEW i \in Int, NEW v \in Int, NEW r \in Int
            PROVE  10000 * ((w + v) - (p + i)) - r * (p + i)
                     = (10000 * (w - p) - r * p) + (10000 * (v - i) - r * i)
        <5>1. r * (p + i) = r * p + r * i /\ r * p \in Int /\ r * i \in Int
          OBVIOUS
        <5> QED  BY <5>1
      <4>2. put[n - 1] \in Int /\ worth[n - 1] \in Int /\ Invested[n] \in Int /\ values[n] \in Int
        BY <1>1, <1>4, <1>5, <2>1
      <4> DEFINE p == put[n - 1]
                 w == worth[n - 1]
                 i == Invested[n]
                 v == values[n]
      <4>3. FeeRate \in Int /\ p \in Int /\ w \in Int /\ i \in Int /\ v \in Int
        BY <1>1, <4>2
      <4>4. /\ AfterFees(put[n], worth[n]) = 10000 * ((w + v) - (p + i)) - FeeRate * (p + i)
            /\ AfterFees(put[n - 1], worth[n - 1]) = 10000 * (w - p) - FeeRate * p
            /\ g = 10000 * (v - i) - FeeRate * i
        BY <3>1 DEF AfterFees, Gain
      <4> HIDE DEF p, w, i, v, g
      <4>5. 10000 * ((w + v) - (p + i)) - FeeRate * (p + i)
              = (10000 * (w - p) - FeeRate * p) + (10000 * (v - i) - FeeRate * i)
        BY <4>1, <4>3
      <4> QED  BY <4>4, <4>5
    <3> HIDE DEF g
    <3>3. CASE g > 0
      <4> DEFINE more == gained + g
      <4>1. more \in Nat /\ more > 0
        BY <3>1, <3>3
      <4>2. AfterFees(put[n], worth[n]) = more - lost /\ net[n] = 688 * more - 1000 * lost
        BY <2>2, <3>1, <3>2, <3>3 DEF Taxed
      <4> HIDE DEF more
      <4>3. Split(values, n, more, lost)
        <5>1. \E h \in 1 .. n : h \in Priced(values) /\ Gain(values, h) > 0
          BY <2>1, <2>6, <3>3 DEF g, S
        <5>2. ~ (Gain(values, n) < 0)
          BY <3>1, <3>3 DEF g
        <5>3. lost > 0 <=> \E h \in 1 .. n : h \in Priced(values) /\ Gain(values, h) < 0
          BY <2>2, <2>3, <2>4, <5>2 DEF Split
        <5> QED  BY <4>1, <5>1, <5>3 DEF Split
      <4>4. adds(n)
        BY <4>1, <4>2, <4>3
      <4> HIDE DEF adds
      <4> QED  BY <2>1, <4>4
    <3>4. CASE g < 0
      <4> DEFINE more == lost - g
      <4>1. more \in Nat /\ more > 0
        BY <3>1, <3>4
      <4>2. AfterFees(put[n], worth[n]) = gained - more /\ net[n] = 688 * gained - 1000 * more
        BY <2>2, <3>1, <3>2, <3>4 DEF Taxed
      <4> HIDE DEF more
      <4>3. Split(values, n, gained, more)
        <5>1. \E h \in 1 .. n : h \in Priced(values) /\ Gain(values, h) < 0
          BY <2>1, <2>6, <3>4 DEF g, S
        <5>2. ~ (Gain(values, n) > 0)
          BY <3>1, <3>4 DEF g
        <5>3. gained > 0 <=> \E h \in 1 .. n : h \in Priced(values) /\ Gain(values, h) > 0
          BY <2>2, <2>3, <2>4, <5>2 DEF Split
        <5> QED  BY <4>1, <5>1, <5>3 DEF Split
      <4>4. adds(n)
        BY <4>1, <4>2, <4>3
      <4> HIDE DEF adds
      <4> QED  BY <2>1, <4>4
    <3>5. CASE g = 0
      <4>1. AfterFees(put[n], worth[n]) = gained - lost /\ net[n] = 688 * gained - 1000 * lost
        BY <2>2, <3>1, <3>2, <3>5 DEF Taxed
      <4>2. Split(values, n, gained, lost)
        <5>1. ~ (Gain(values, n) > 0) /\ ~ (Gain(values, n) < 0)
          BY <3>5 DEF g
        <5>2. gained > 0 <=> \E h \in 1 .. n : h \in Priced(values) /\ Gain(values, h) > 0
          BY <2>2, <2>3, <2>4, <5>1 DEF Split
        <5>3. lost > 0 <=> \E h \in 1 .. n : h \in Priced(values) /\ Gain(values, h) < 0
          BY <2>2, <2>3, <2>4, <5>1 DEF Split
        <5> QED  BY <5>2, <5>3 DEF Split
      <4>3. adds(n)
        BY <4>1, <4>2
      <4> HIDE DEF adds
      <4> QED  BY <2>1, <4>3
    <3> QED  BY <3>1, <3>3, <3>4, <3>5
  <2> QED  BY <2>5, <2>6
<1>10. 0 .. N \subseteq T
  <2> HIDE DEF T
  <2> QED  BY <1>1, <1>8, <1>9, UpTo
<1>11. adds(N)
  <2>1. N \in T
    BY <1>1, <1>10
  <2> HIDE DEF adds
  <2> QED  BY <2>1
<1>12. put[N] \in Int /\ worth[N] \in Int
  BY <1>1, <1>4, <1>5
<1> QED  BY <1>4, <1>5, <1>7, <1>11, <1>12 DEF N, S

(* The tax on the sum is more than the tax on the parts when they are mixed. *)
LEMMA NoReliefOfLosses ==
  ASSUME NEW values \in [Holdings -> Nat]
  PROVE  LET coins == Priced(values)
             whole == AfterTax(TotalOver(Invested, coins), TotalOver(values, coins))
             mixed == \E g, l \in coins : /\ AfterFees(Invested[g], values[g]) > 0
                                          /\ AfterFees(Invested[l], values[l]) < 0
         IN  /\ mixed => NetOf(values) < whole
             /\ ~ mixed => NetOf(values) = whole
<1> DEFINE coins == Priced(values)
           fees == AfterFees(TotalOver(Invested, coins), TotalOver(values, coins))
           whole == AfterTax(TotalOver(Invested, coins), TotalOver(values, coins))
           mixed == \E g, l \in coins : Gain(values, g) > 0 /\ Gain(values, l) < 0
<1>1. PICK gained \in Nat, lost \in Nat :
        /\ Split(values, Len(Invested), gained, lost) /\ fees = gained - lost
        /\ TotalOver(Invested, coins) \in Int /\ TotalOver(values, coins) \in Int
        /\ NetOf(values) = 688 * gained - 1000 * lost
  BY GainsAdd
<1>2. \A h \in coins : h \in 1 .. Len(Invested)
  BY CoinConstants DEF Priced
<1>3. mixed <=> gained > 0 /\ lost > 0
  BY <1>1, <1>2 DEF Split
<1>4. whole = Taxed(fees)
  <2> DEFINE a == TotalOver(Invested, coins)
             b == TotalOver(values, coins)
  <2>1. a \in Int /\ b \in Int
    BY <1>1
  <2> HIDE DEF a, b
  <2>2. AfterTax(a, b) = Taxed(AfterFees(a, b))
    BY <2>1, GainTyped
  <2> QED  BY <2>2 DEF a, b
<1> HIDE DEF mixed, whole, fees
<1>5. gained > 0 /\ lost > 0 => NetOf(values) < whole
  BY <1>1, <1>4 DEF Taxed
<1>6. gained = 0 \/ lost = 0 => NetOf(values) = whole
  BY <1>1, <1>4 DEF Taxed
<1>7. /\ mixed => NetOf(values) < whole
      /\ ~ mixed => NetOf(values) = whole
  BY <1>3, <1>5, <1>6
<1> QED  BY <1>7 DEF mixed, whole, fees, Gain

-----------------------------------------------------------------------------
(* A signal is the one of its reading, and the summary the one of the values. *)
CoinInv ==
  /\ crReading = <<>> \/ (crReading \in CoinReadings /\ crSignal = ComputeSignal(crReading))
  /\ crSignal.score \in Nat /\ crSignal.score <= 10000
  /\ crValues \in [Holdings -> Nat] /\ crSummary = Summary(crValues)

LEMMA CoinInitial == ASSUME CrInit PROVE CoinInv
<1>1. crSignal.score = 0 /\ crReading = <<>>
  BY DEF CrInit
<1>2. crValues = [h \in Holdings |-> 0] /\ crSummary = NoSummary
  BY DEF CrInit
<1>3. Priced(crValues) = {}
  BY <1>2 DEF Priced
<1>4. crSummary = Summary(crValues)
  BY <1>2, <1>3 DEF Summary
<1>5. crValues \in [Holdings -> Nat]
  BY <1>2
<1> QED  BY <1>1, <1>4, <1>5 DEF CoinInv

LEMMA FirstReadingTyped ==
  ASSUME FirstReading
  PROVE  crReading' \in CoinReadings /\ crSignal' = ComputeSignal(crReading')
<1>1. PICK p \in CoinPrices, e20 \in CoinEmas, e50 \in CoinEmas, e200 \in CoinEmas, b \in CoinBands :
        crReading' = [price |-> p, ema20 |-> e20, ema50 |-> e50, ema200 |-> e200, band |-> b,
                      rsi |-> 50, change |-> 0, volume |-> 100, rising |-> FALSE]
  BY DEF FirstReading
<1>2. p \in Nat /\ e20 \in Nat /\ e50 \in Nat /\ e200 \in Nat
  BY CoinConstants
<1>3. crReading' \in CoinReadings
  BY <1>1, <1>2 DEF CoinReadings
<1>4. crSignal' = ComputeSignal(crReading')
  BY DEF FirstReading
<1> QED  BY <1>3, <1>4

(* The next reading differs in one of four indicators, and stays one. *)
LEMMA NextReadingTyped ==
  ASSUME CoinInv, NextReading
  PROVE  /\ crReading \in CoinReadings /\ crSignal = ComputeSignal(crReading)
         /\ crReading' \in CoinReadings /\ crSignal' = ComputeSignal(crReading')
         /\ crReading'.price = crReading.price /\ crReading'.band = crReading.band
         /\ EmaScore(crReading') = EmaScore(crReading)
<1> DEFINE r == crReading
           q == crReading'
<1>1. r \in CoinReadings /\ crSignal = ComputeSignal(r)
  BY DEF CoinInv, NextReading
<1>2. crSignal' = ComputeSignal(q)
  BY DEF NextReading
<1>3. /\ q \in CoinReadings /\ q.price = r.price /\ q.band = r.band
      /\ q.ema20 = r.ema20 /\ q.ema50 = r.ema50 /\ q.ema200 = r.ema200
  <2>1. \/ \E i \in CoinRsis : q = [r EXCEPT !.rsi = i]
        \/ \E c \in WeekChanges : q = [r EXCEPT !.change = c]
        \/ \E v \in CoinVolumes : q = [r EXCEPT !.volume = v]
        \/ \E m \in BOOLEAN : q = [r EXCEPT !.rising = m]
    BY DEF NextReading
  <2> HIDE DEF r, q
  <2>2. CASE \E i \in CoinRsis : q = [r EXCEPT !.rsi = i]
    <3>1. PICK i \in CoinRsis : q = [r EXCEPT !.rsi = i]
      BY <2>2
    <3>2. i \in Int
      BY CoinConstants
    <3> QED  BY <1>1, <3>1, <3>2 DEF CoinReadings
  <2>3. CASE \E c \in WeekChanges : q = [r EXCEPT !.change = c]
    <3>1. PICK c \in WeekChanges : q = [r EXCEPT !.change = c]
      BY <2>3
    <3>2. c \in Int
      BY CoinConstants
    <3> QED  BY <1>1, <3>1, <3>2 DEF CoinReadings
  <2>4. CASE \E v \in CoinVolumes : q = [r EXCEPT !.volume = v]
    <3>1. PICK v \in CoinVolumes : q = [r EXCEPT !.volume = v]
      BY <2>4
    <3>2. v \in Nat
      BY CoinConstants
    <3> QED  BY <1>1, <3>1, <3>2 DEF CoinReadings
  <2>5. CASE \E m \in BOOLEAN : q = [r EXCEPT !.rising = m]
    <3>1. PICK m \in BOOLEAN : q = [r EXCEPT !.rising = m]
      BY <2>5
    <3> QED  BY <1>1, <3>1 DEF CoinReadings
  <2> QED  BY <2>1, <2>2, <2>3, <2>4, <2>5
<1>4. EmaScore(q) = EmaScore(r)
  BY <1>3 DEF EmaScore
<1> QED  BY <1>1, <1>2, <1>3, <1>4

LEMMA CoinInductive == ASSUME CoinInv, [CrNext]_crVars PROVE CoinInv'
<1>1. CASE FirstReading
  <2>1. crReading' \in CoinReadings /\ crSignal' = ComputeSignal(crReading')
    BY <1>1, FirstReadingTyped
  <2>2. crSignal'.score \in Nat /\ crSignal'.score <= 10000
    BY <2>1, SignalTyped
  <2>3. crValues' = crValues /\ crSummary' = crSummary
    BY <1>1 DEF FirstReading
  <2> QED  BY <2>1, <2>2, <2>3 DEF CoinInv
<1>2. CASE NextReading
  <2>1. crReading' \in CoinReadings /\ crSignal' = ComputeSignal(crReading')
    BY <1>2, NextReadingTyped
  <2>2. crSignal'.score \in Nat /\ crSignal'.score <= 10000
    BY <2>1, SignalTyped
  <2>3. crValues' = crValues /\ crSummary' = crSummary
    BY <1>2 DEF NextReading
  <2> QED  BY <2>1, <2>2, <2>3 DEF CoinInv
<1>3. CASE PortfolioPass
  <2>1. PICK h \in Holdings, v \in Values : crValues' = [crValues EXCEPT ![h] = v]
    BY <1>3 DEF PortfolioPass
  <2>2. v \in Nat
    BY CoinConstants
  <2>3. crValues' \in [Holdings -> Nat]
    BY <2>1, <2>2 DEF CoinInv
  <2>4. crSummary' = Summary(crValues') /\ crReading' = crReading /\ crSignal' = crSignal
    BY <1>3 DEF PortfolioPass
  <2> QED  BY <2>3, <2>4 DEF CoinInv
<1>4. CASE UNCHANGED crVars
  BY <1>4 DEF CoinInv, crVars
<1> QED  BY <1>1, <1>2, <1>3, <1>4 DEF CrNext

LEMMA CoinStatesAgree == ASSUME CoinInv PROVE TrendAndScoreAgree /\ NoSetOff
<1>1. TrendAndScoreAgree
  <2> SUFFICES ASSUME crReading # <<>> PROVE TrendAndScoreAgree
    BY DEF TrendAndScoreAgree
  <2>1. crReading \in CoinReadings /\ crSignal = ComputeSignal(crReading)
    BY DEF CoinInv
  <2>2. crSignal.ema = EmaScore(crReading) /\ crSignal.trend = TrendLabel(crReading)
    BY <2>1, SignalTyped
  <2>3. LaddersAgree(crReading, TrendLabel(crReading), EmaScore(crReading))
    BY <2>1, EmasTyped, Zenon
  <2> QED  BY <2>2, <2>3, Zenon DEF TrendAndScoreAgree
<1>2. NoSetOff
  <2> SUFFICES ASSUME crSummary.coins # {} PROVE NoSetOff
    BY DEF NoSetOff
  <2>1. crValues \in [Holdings -> Nat] /\ crSummary = Summary(crValues)
    BY DEF CoinInv
  <2>2. crSummary = [net |-> NetOf(crValues), coins |-> Priced(crValues)]
    BY <2>1 DEF Summary, NoSummary
  <2>3. crSummary.coins = Priced(crValues) /\ crSummary.net = NetOf(crValues)
    BY <2>2
  <2> QED  BY <2>1, <2>3, NoReliefOfLosses, Zenon DEF NoSetOff
<1> QED  BY <1>1, <1>2

LEMMA CoinStepIsContrarian ==
  ASSUME CoinInv, [CrNext]_crVars
  PROVE  [/\ 0 <= crSignal'.score /\ crSignal'.score <= 10000
          /\ crReading # <<>> =>
               LET r == crReading  q == crReading'
               IN  /\ q.rsi <= r.rsi /\ q.change <= r.change /\ q.volume >= r.volume
                   /\ (r.rising => q.rising)
                   => crSignal'.score >= crSignal.score]_crVars
<1>1. CoinInv'
  BY CoinInductive
<1>2. 0 <= crSignal'.score /\ crSignal'.score <= 10000
  BY <1>1 DEF CoinInv
<1>3. ASSUME CrNext, crReading # <<>>,
             crReading'.rsi <= crReading.rsi, crReading'.change <= crReading.change,
             crReading'.volume >= crReading.volume, crReading.rising => crReading'.rising
      PROVE  crSignal'.score >= crSignal.score
  <2>1. NextReading
    BY <1>3 DEF CrNext, FirstReading, PortfolioPass
  <2>2. /\ crReading \in CoinReadings /\ crSignal = ComputeSignal(crReading)
        /\ crReading' \in CoinReadings /\ crSignal' = ComputeSignal(crReading')
        /\ crReading'.price = crReading.price /\ crReading'.band = crReading.band
        /\ EmaScore(crReading') = EmaScore(crReading)
    BY <2>1, NextReadingTyped
  <2>3. ComputeSignal(crReading').score >= ComputeSignal(crReading).score
    BY <1>3, <2>2, AgainstTheCrowd
  <2> QED  BY <2>2, <2>3
<1> QED  BY <1>2, <1>3

(* The coins' rules, for every price, average, band, portfolio and fee: a trend
   and its sub-score agree, the score is against the crowd and a share, and the
   tax gives no relief of a loss. *)
THEOREM CoinsHold == CrSpec => CoinRulesHold
<1>1. CrInit => CoinInv
  BY CoinInitial
<1>2. CoinInv /\ [CrNext]_crVars => CoinInv'
  BY CoinInductive
<1>3. CoinInv => TrendAndScoreAgree /\ NoSetOff
  BY CoinStatesAgree
<1>4. CoinInv /\ [CrNext]_crVars
        => [/\ 0 <= crSignal'.score /\ crSignal'.score <= 10000
            /\ crReading # <<>> =>
                 LET r == crReading  q == crReading'
                 IN  /\ q.rsi <= r.rsi /\ q.change <= r.change /\ q.volume >= r.volume
                     /\ (r.rising => q.rising)
                     => crSignal'.score >= crSignal.score]_crVars
  BY CoinStepIsContrarian
<1> QED  BY <1>1, <1>2, <1>3, <1>4, PTL DEF CrSpec, CoinRulesHold, ScoreIsContrarian

-----------------------------------------------------------------------------
(* The intraday advice.  At most seven closes are added up, so the total and the
   slope of a week are written out; days that rise, read backwards, are the days
   that fell, by the bijection between them.  While the market is open every gap
   is measured from the same average, that of the history (IdInv). *)
LEMMA TotalsAre ==
  ASSUME NEW N \in Nat, NEW g \in [1 .. N -> Int]
  PROVE  TotalOf(g) = PartialSums(g)[N] /\ TotalOf(g) \in Int
<1>1. /\ Len(g) = N /\ PartialSums(g) \in [0 .. N -> Int] /\ N \in 0 .. N
  BY SumsAdd
<1>2. TotalOf(g) = PartialSums(g)[Len(g)]
  BY DEF TotalOf, PartialSums
<1> DEFINE s == PartialSums(g)
<1> HIDE DEF s
<1>3. TotalOf(g) = s[N] /\ s[N] \in Int
  BY <1>1, <1>2 DEF s
<1> QED  BY <1>3 DEF s

(* The total of at most a week, written out. *)
From(n, k, x) == IF n >= k THEN x ELSE 0

LEMMA WrittenOut ==
  ASSUME NEW n \in 4 .. 7, NEW g \in [1 .. n -> Int]
  PROVE  TotalOf(g) = g[1] + g[2] + g[3] + g[4] + From(n, 5, g[5]) + From(n, 6, g[6])
                        + From(n, 7, g[7])
<1> DEFINE s == PartialSums(g)
<1>1. n \in Nat
  OBVIOUS
<1>2. TotalOf(g) = s[n] /\ s[0] = 0 /\ \A i \in 1 .. n : s[i] = s[i - 1] + g[i]
  BY <1>1, TotalsAre, SumsAdd
<1>t. s \in [0 .. n -> Int]
  BY <1>1, SumsAdd
<1> HIDE DEF s
<1>3. s[1] = g[1] /\ s[2] = s[1] + g[2] /\ s[3] = s[2] + g[3] /\ s[4] = s[3] + g[4]
  BY <1>2
<1>4. /\ n >= 5 => s[5] = s[4] + g[5]
      /\ n >= 6 => s[6] = s[5] + g[6]
      /\ n >= 7 => s[7] = s[6] + g[7]
  BY <1>2
<1>5. n = 4 \/ n = 5 \/ n = 6 \/ n = 7
  OBVIOUS
<1>6. /\ g[1] \in Int /\ g[2] \in Int /\ g[3] \in Int /\ g[4] \in Int
      /\ n >= 5 => g[5] \in Int
      /\ n >= 6 => g[6] \in Int
      /\ n >= 7 => g[7] \in Int
  OBVIOUS
<1>7. s[4] = g[1] + g[2] + g[3] + g[4]
  BY <1>2, <1>3, <1>6
<1>8. CASE n = 4
  BY <1>2, <1>7, <1>8, <1>6 DEF From
<1>9. CASE n = 5
  BY <1>2, <1>4, <1>6, <1>7, <1>9 DEF From
<1>10. CASE n = 6
  BY <1>2, <1>4, <1>6, <1>7, <1>10 DEF From
<1>11. CASE n = 7
  BY <1>2, <1>4, <1>6, <1>7, <1>11 DEF From
<1> QED  BY <1>5, <1>8, <1>9, <1>10, <1>11

(* A week read backwards: the same total, the opposite slope, and the days that
   rose are the days that fell. *)
Backwards(r, d, n) == \A i \in 1 .. n : r[i] = d[n + 1 - i]

LEMMA TotalBackwards ==
  ASSUME NEW n \in 4 .. 7, NEW d \in [1 .. n -> Int], NEW r \in [1 .. n -> Int], Backwards(r, d, n)
  PROVE  TotalOf(r) = TotalOf(d)
<1>1. /\ TotalOf(r) = r[1] + r[2] + r[3] + r[4] + From(n, 5, r[5]) + From(n, 6, r[6]) + From(n, 7, r[7])
      /\ TotalOf(d) = d[1] + d[2] + d[3] + d[4] + From(n, 5, d[5]) + From(n, 6, d[6]) + From(n, 7, d[7])
  BY WrittenOut
<1>2. CASE n = 4
  <2>1. r[1] = d[4] /\ r[2] = d[3] /\ r[3] = d[2] /\ r[4] = d[1]
    BY <1>2 DEF Backwards
  <2> QED  BY <1>1, <1>2, <2>1 DEF From
<1>3. CASE n = 5
  <2>1. r[1] = d[5] /\ r[2] = d[4] /\ r[3] = d[3] /\ r[4] = d[2] /\ r[5] = d[1]
    BY <1>3 DEF Backwards
  <2> QED  BY <1>1, <1>3, <2>1 DEF From
<1>4. CASE n = 6
  <2>1. r[1] = d[6] /\ r[2] = d[5] /\ r[3] = d[4] /\ r[4] = d[3] /\ r[5] = d[2] /\ r[6] = d[1]
    BY <1>4 DEF Backwards
  <2> QED  BY <1>1, <1>4, <2>1 DEF From
<1>5. CASE n = 7
  <2>1. /\ r[1] = d[7] /\ r[2] = d[6] /\ r[3] = d[5] /\ r[4] = d[4] /\ r[5] = d[3]
        /\ r[6] = d[2] /\ r[7] = d[1]
    BY <1>5 DEF Backwards
  <2> QED  BY <1>1, <1>5, <2>1 DEF From
<1> QED  BY <1>2, <1>3, <1>4, <1>5

Leans(d, n) == [i \in 1 .. n |-> (2 * i - (n + 1)) * d[i]]

LEMMA SlopeIs ==
  ASSUME NEW n \in 4 .. 7, NEW d \in [1 .. n -> Int]
  PROVE  /\ Slope(d) = TotalOf(Leans(d, n)) /\ Leans(d, n) \in [1 .. n -> Int]
         /\ \A i \in 1 .. n : Leans(d, n)[i] = (2 * i - (n + 1)) * d[i]
<1>1. Len(d) = n
  OBVIOUS
<1>2. Slope(d) = TotalOf([i \in 1 .. n |-> (2 * i - (n + 1)) * d[i]])
  BY <1>1 DEF Slope
<1>3. ASSUME NEW a \in Int, NEW b \in Int PROVE a * b \in Int
  OBVIOUS
<1>4. \A i \in 1 .. n : 2 * i - (n + 1) \in Int /\ d[i] \in Int
  OBVIOUS
<1>5. \A i \in 1 .. n : (2 * i - (n + 1)) * d[i] \in Int
  BY <1>3, <1>4
<1> QED  BY <1>2, <1>5 DEF Leans

LEMMA SlopeBackwards ==
  ASSUME NEW n \in 4 .. 7, NEW d \in [1 .. n -> Int], NEW r \in [1 .. n -> Int], Backwards(r, d, n)
  PROVE  Slope(r) = -Slope(d) /\ Slope(d) \in Int
<1> DEFINE f == Leans(d, n)
           g == Leans(r, n)
<1>1. /\ Slope(d) = TotalOf(f) /\ f \in [1 .. n -> Int]
      /\ \A i \in 1 .. n : f[i] = (2 * i - (n + 1)) * d[i]
  BY SlopeIs
<1>2. /\ Slope(r) = TotalOf(g) /\ g \in [1 .. n -> Int]
      /\ \A i \in 1 .. n : g[i] = (2 * i - (n + 1)) * r[i]
  BY SlopeIs
<1> HIDE DEF f, g
<1>3. ASSUME NEW i \in 1 .. n PROVE g[i] = -f[n + 1 - i]
  <2> DEFINE k == n + 1 - i
             x == d[k]
  <2>1. k \in 1 .. n /\ i \in Int /\ n \in Int /\ k = n + 1 - i
    OBVIOUS
  <2>2. x \in Int /\ r[i] = x
    BY <2>1 DEF Backwards
  <2>3. g[i] = (2 * i - (n + 1)) * x /\ f[k] = (2 * k - (n + 1)) * x
    BY <1>1, <1>2, <2>1, <2>2
  <2> HIDE DEF x, k
  <2>4. ASSUME NEW a \in Int, NEW b \in Int PROVE a * b = -((-a) * b)
    OBVIOUS
  <2>5. 2 * k - (n + 1) = -(2 * i - (n + 1)) /\ 2 * i - (n + 1) \in Int
    BY <2>1
  <2>6. g[i] = -f[k]
    BY <2>2, <2>3, <2>4, <2>5
  <2> QED  BY <2>6 DEF k
<1> DEFINE h == [i \in 1 .. n |-> f[n + 1 - i]]
           m == [i \in 1 .. n |-> -f[n + 1 - i]]
<1>4. h \in [1 .. n -> Int] /\ Backwards(h, f, n)
  BY <1>1 DEF Backwards
<1>5. \A i \in 1 .. n : g[i] = -h[i]
  BY <1>3
<1> HIDE DEF h
<1>6. TotalOf(h) = TotalOf(f)
  BY <1>1, <1>4, TotalBackwards
<1>7. TotalOf(g) = -TotalOf(h)
  <2>1. /\ TotalOf(g) = g[1] + g[2] + g[3] + g[4] + From(n, 5, g[5]) + From(n, 6, g[6]) + From(n, 7, g[7])
        /\ TotalOf(h) = h[1] + h[2] + h[3] + h[4] + From(n, 5, h[5]) + From(n, 6, h[6]) + From(n, 7, h[7])
    BY <1>2, <1>4, WrittenOut
  <2>2. g[1] = -h[1] /\ g[2] = -h[2] /\ g[3] = -h[3] /\ g[4] = -h[4]
    BY <1>5
  <2>3. (n >= 5 => g[5] = -h[5]) /\ (n >= 6 => g[6] = -h[6]) /\ (n >= 7 => g[7] = -h[7])
    BY <1>5
  <2>4. h[1] \in Int /\ h[2] \in Int /\ h[3] \in Int /\ h[4] \in Int
    BY <1>4
  <2>5. (n >= 5 => h[5] \in Int) /\ (n >= 6 => h[6] \in Int) /\ (n >= 7 => h[7] \in Int)
    BY <1>4
  <2>6. From(n, 5, g[5]) = -From(n, 5, h[5]) /\ From(n, 5, h[5]) \in Int
    BY <2>3, <2>5 DEF From
  <2>7. From(n, 6, g[6]) = -From(n, 6, h[6]) /\ From(n, 6, h[6]) \in Int
    BY <2>3, <2>5 DEF From
  <2>8. From(n, 7, g[7]) = -From(n, 7, h[7]) /\ From(n, 7, h[7]) \in Int
    BY <2>3, <2>5 DEF From
  <2> DEFINE g5 == From(n, 5, g[5])
             g6 == From(n, 6, g[6])
             g7 == From(n, 7, g[7])
             h5 == From(n, 5, h[5])
             h6 == From(n, 6, h[6])
             h7 == From(n, 7, h[7])
             t == TotalOf(g)
             u == TotalOf(h)
             a == h[1] + h[2] + h[3] + h[4]
  <2>9. a \in Int /\ g[1] + g[2] + g[3] + g[4] = -a
    <3> DEFINE x1 == g[1]
               x2 == g[2]
               x3 == g[3]
               x4 == g[4]
               y1 == h[1]
               y2 == h[2]
               y3 == h[3]
               y4 == h[4]
    <3>1. /\ x1 = -y1 /\ x2 = -y2 /\ x3 = -y3 /\ x4 = -y4
          /\ y1 \in Int /\ y2 \in Int /\ y3 \in Int /\ y4 \in Int
      BY <2>2, <2>4
    <3> HIDE DEF x1, x2, x3, x4, y1, y2, y3, y4
    <3>2. y1 + y2 + y3 + y4 \in Int /\ x1 + x2 + x3 + x4 = -(y1 + y2 + y3 + y4)
      BY <3>1
    <3> QED  BY <3>2 DEF x1, x2, x3, x4, y1, y2, y3, y4
  <2>10. t = (g[1] + g[2] + g[3] + g[4]) + g5 + g6 + g7 /\ u = a + h5 + h6 + h7
    BY <2>1
  <2>11. g5 = -h5 /\ g6 = -h6 /\ g7 = -h7 /\ h5 \in Int /\ h6 \in Int /\ h7 \in Int
    BY <2>6, <2>7, <2>8
  <2> HIDE DEF g5, g6, g7, h5, h6, h7, t, u, a
  <2>12. t = -u
    BY <2>9, <2>10, <2>11
  <2> QED  BY <2>12 DEF t, u
<1>8. TotalOf(f) \in Int
  <2>1. n \in Nat
    OBVIOUS
  <2> QED  BY <1>1, <2>1, TotalsAre
<1> QED  BY <1>1, <1>2, <1>6, <1>7, <1>8

LEMMA DaysBackwards ==
  ASSUME NEW n \in 4 .. 7, NEW d \in [1 .. n -> Int], NEW r \in [1 .. n -> Int], Backwards(r, d, n)
  PROVE  UpDays(r) = DownDays(d) /\ UpDays(r) \in Nat
<1> DEFINE S == {i \in 2 .. n : d[i] < d[i - 1]}
           T == {i \in 2 .. n : r[i] > r[i - 1]}
           f == [i \in S |-> n + 2 - i]
<1>1. UpDays(r) = Cardinality(T) /\ DownDays(d) = Cardinality(S)
  <2>1. Len(r) = n /\ Len(d) = n
    OBVIOUS
  <2> QED  BY <2>1 DEF UpDays, DownDays
<1>2. \A i \in 2 .. n : /\ n + 2 - i \in 2 .. n /\ n + 2 - (n + 2 - i) = i
                        /\ r[i] = d[n + 1 - i] /\ r[i - 1] = d[n + 2 - i]
  BY DEF Backwards
<1>3. \A i \in S : n + 2 - i \in T
  BY <1>2
<1>4. \A i \in T : n + 2 - i \in S
  BY <1>2
<1>5. IsFiniteSet(S)
  <2>1. IsFiniteSet(2 .. n) /\ S \subseteq 2 .. n
    BY FS_Interval
  <2> QED  BY <2>1, FS_Subset
<1>6. S \subseteq Int /\ T \subseteq Int
  OBVIOUS
<1> HIDE DEF S, T
<1>7. f \in [S -> T]
  BY <1>3
<1>8. \A a, b \in S : f[a] = f[b] => a = b
  BY <1>6
<1>9. \A t \in T : \E s \in S : f[s] = t
  <2> SUFFICES ASSUME NEW t \in T PROVE \E s \in S : f[s] = t
    OBVIOUS
  <2>1. n + 2 - t \in S /\ f[n + 2 - t] = t
    BY <1>4, <1>6
  <2> QED  BY <2>1
<1>10. ExistsBijection(S, T)
  BY <1>7, <1>8, <1>9 DEF ExistsBijection, Bijection, Injection, Surjection, IsInjective
<1> QED  BY <1>1, <1>5, <1>10, FS_Bijection, FS_CardinalityType

LEMMA WeekTyped ==
  ASSUME NEW closes \in Seq(Nat \ {0}), closes # <<>>
  PROVE  \E n \in 1 .. 7 : /\ LastSeven(closes) \in [1 .. n -> Nat \ {0}]
                           /\ Len(LastSeven(closes)) = n
                           /\ Len(closes) >= 4 => n >= 4
                           /\ Len(closes) <= 7 => LastSeven(closes) = closes
<1> DEFINE N == Len(closes)
           k == IF N > 7 THEN N - 6 ELSE 1
           n == N - k + 1
           d == SubSeq(closes, k, N)
<1>1. N \in Nat /\ N >= 1 /\ closes \in [1 .. N -> Nat \ {0}]
  OBVIOUS
<1>2. d = LastSeven(closes)
  BY DEF LastSeven
<1> HIDE DEF N
<1>3. n \in 1 .. 7 /\ k \in 1 .. N /\ (N <= 7 => k = 1 /\ n = N) /\ (N >= 4 => n >= 4)
  BY <1>1
<1>4. d = [i \in 1 .. n |-> closes[i + k - 1]]
  BY <1>1, <1>3
<1> HIDE DEF k, n, d
<1>5. n = N - k + 1 /\ \A i \in 1 .. n : i + k - 1 \in 1 .. N
  BY <1>1, <1>3 DEF n
<1>6. d \in [1 .. n -> Nat \ {0}]
  BY <1>1, <1>4, <1>5
<1>7. Len(d) = n
  BY <1>3, <1>6
<1>8. N <= 7 => d = closes
  <2> SUFFICES ASSUME N <= 7 PROVE d = closes
    OBVIOUS
  <2>1. k = 1 /\ n = N
    BY <1>3
  <2>2. \A i \in 1 .. N : closes[i + 1 - 1] = closes[i]
    BY <1>1
  <2>3. d = [i \in 1 .. N |-> closes[i + 1 - 1]]
    BY <1>4, <2>1
  <2> QED  BY <1>1, <2>2, <2>3
<1> QED  BY <1>2, <1>3, <1>6, <1>7, <1>8 DEF N

(* The week read backwards has the opposite trend. *)
LEMMA TrendBackwards ==
  ASSUME NEW closes \in Seq(Nat \ {0}), Len(closes) >= 4
  PROVE  Trend(Reverse(LastSeven(closes))) = Opposite(Trend(closes))
<1> DEFINE d == LastSeven(closes)
           r == Reverse(d)
<1>0. closes # <<>>
  OBVIOUS
<1>1. PICK n \in 4 .. 7 : d \in [1 .. n -> Nat \ {0}] /\ Len(d) = n
  BY <1>0, WeekTyped
<1> HIDE DEF d
<1>2. r = [i \in 1 .. n |-> d[(n - i) + 1]]
  BY <1>1 DEF Reverse
<1>3. d \in [1 .. n -> Int] /\ r \in [1 .. n -> Int] /\ r \in [1 .. n -> Nat \ {0}]
  BY <1>1, <1>2
<1>4. Backwards(r, d, n) /\ Backwards(d, r, n)
  BY <1>2, <1>3 DEF Backwards
<1> HIDE DEF r
<1>5. LastSeven(r) = r /\ Len(r) = n
  <2>1. r \in Seq(Nat \ {0}) /\ Len(r) = n /\ r # <<>>
    BY <1>3
  <2>2. Len(r) <= 7
    BY <2>1
  <2>3. LastSeven(r) = r
    BY <2>1, <2>2, WeekTyped
  <2> QED  BY <2>1, <2>3
<1> DEFINE sd == Slope(d)
           sr == Slope(r)
           up == UpDays(d)
           down == DownDays(d)
           total == TotalOf(d)
<1>6. sr = -sd /\ sd \in Int /\ TotalOf(r) = total
  BY <1>3, <1>4, SlopeBackwards, TotalBackwards
<1>7. /\ UpDays(r) = down /\ down \in Nat
      /\ DownDays(r) = up /\ up \in Nat
  BY <1>3, <1>4, DaysBackwards
<1>8. ConsistentDays(d) = ConsistentDays(r)
  BY <1>7 DEF ConsistentDays, Larger
<1>9. Magnitude7(sd) = Magnitude7(sr)
  BY <1>6 DEF Magnitude7
<1> DEFINE flat == \/ 3000 * Magnitude7(sd) < (n * n - 1) * total
                   \/ 1000 * ConsistentDays(d) < 571 * (n - 1)
<1>10. Trend(closes) = IF flat THEN "Choppy" ELSE IF sd > 0 /\ up > down THEN "Upward"
                       ELSE IF sd < 0 /\ down > up THEN "Downward" ELSE "Choppy"
  BY <1>1 DEF Trend, d
<1>11. Trend(r) = IF flat THEN "Choppy" ELSE IF sr > 0 /\ down > up THEN "Upward"
                  ELSE IF sr < 0 /\ up > down THEN "Downward" ELSE "Choppy"
  BY <1>5, <1>6, <1>7, <1>8, <1>9 DEF Trend
<1> HIDE DEF sd, sr, up, down, total, flat
<1>12. Trend(r) = Opposite(Trend(closes))
  BY <1>6, <1>7, <1>10, <1>11 DEF Opposite
<1> QED  BY <1>12 DEF d, r

LEMMA AverageTyped ==
  ASSUME NEW closes \in Seq(Nat \ {0}), closes # <<>>
  PROVE  Sma7(closes) \in Int
<1> DEFINE d == LastSeven(closes)
           N == Len(closes)
<1>1. PICK n \in 1 .. 7 : /\ d \in [1 .. n -> Nat \ {0}] /\ Len(d) = n
                          /\ N <= 7 => d = closes
  BY WeekTyped
<1>2. N \in Nat
  OBVIOUS
<1>3. Sma7(closes) = (200 * TotalOf(d) + n) \div (2 * n)
  BY <1>1, <1>2 DEF Sma7
<1> HIDE DEF d, N
<1>4. TotalOf(d) \in Int
  <2>1. n \in Nat /\ d \in [1 .. n -> Int]
    BY <1>1
  <2> QED  BY <2>1, TotalsAre
<1>5. ASSUME NEW a \in Int, NEW b \in Nat \ {0} PROVE a \div b \in Int
  OBVIOUS
<1>6. 200 * TotalOf(d) + n \in Int /\ 2 * n \in Nat \ {0}
  BY <1>4
<1> QED  BY <1>3, <1>5, <1>6

-----------------------------------------------------------------------------
LEMMA IntradayConstants ==
  /\ Histories \subseteq Seq(Nat \ {0}) \ {<<>>} /\ SessionHistories \subseteq Histories
  /\ IntradayPrices \subseteq Nat \ {0} /\ IdCapital \in Nat /\ RiskRupees \in Nat
  /\ OrbEnd \in Nat
<1>1. /\ Histories \subseteq Seq(Nat \ {0}) \ {<<>>} /\ SessionHistories \subseteq Histories
      /\ IntradayPrices \subseteq Nat \ {0} /\ {IdCapital, RiskRupees} \subseteq Nat
      /\ {OrbEnd, OpenEntryUntil, TightenAt, NoEntryAt, SquareOffAt, CloseSlot} \subseteq Nat
  BY IntradayAssumption
<1> QED  BY <1>1

(* A plan costs no more than the capital and its stop loses the budget, up to
   half a paisa a share: slDiff is the budget over the shares, rounded. *)
PlanFits(plan) ==
  plan = NoPlan \/ (/\ plan.qty * plan.entry <= IdCapital
                    /\ Magnitude7(plan.qty * plan.slDiff - 100 * RiskRupees) * 2 <= plan.qty)

LEMMA RoundedStop ==
  ASSUME NEW q \in Nat \ {0}, NEW b \in Nat
  PROVE  Magnitude7(q * ((2 * b + q) \div (2 * q)) - b) * 2 <= q
<1> DEFINE s == (2 * b + q) \div (2 * q)
           m == (2 * b + q) % (2 * q)
           x == 2 * b + q
           y == 2 * q
<1>1. x \in Nat /\ y \in Nat \ {0}
  OBVIOUS
<1>2. s \in Int /\ m \in Int /\ 0 <= m /\ m < 2 * q /\ 2 * b + q = (2 * q) * s + m
  <2> HIDE DEF x, y
  <2>1. /\ x \div y \in Int /\ x % y \in Int /\ 0 <= x % y /\ x % y < y
        /\ x = y * (x \div y) + (x % y)
    BY <1>1, Euclid
  <2> QED  BY <2>1 DEF x, y
<1> HIDE DEF s, m
<1> DEFINE p == q * s
<1>3. (2 * q) * s = 2 * p /\ p \in Int
  BY <1>2
<1> HIDE DEF p
<1>4. Magnitude7(p - b) * 2 <= q
  <2>1. 2 * b + q = 2 * p + m
    BY <1>2, <1>3
  <2>2. p - b \in Int /\ 2 * (p - b) <= q /\ -(2 * (p - b)) <= q
    BY <1>2, <1>3, <2>1
  <2> QED  BY <2>2 DEF Magnitude7
<1> QED  BY <1>4 DEF p, s

LEMMA PlansFit ==
  ASSUME NEW entry \in Nat \ {0}
  PROVE  PlanFits(RupeeTargets(entry))
<1> DEFINE q == Qty(entry)
<1>1. IdCapital \in Nat /\ RiskRupees \in Nat
  BY IntradayConstants
<1>2. q \in Int /\ q >= 0 /\ q * entry <= IdCapital
  <2> DEFINE m == IdCapital % entry
  <2>1. q \in Int /\ m \in Int /\ 0 <= m /\ IdCapital = entry * q + m
    BY <1>1, Euclid DEF Qty
  <2>2. q >= 0
    BY <1>1 DEF Qty
  <2> HIDE DEF q, m
  <2>3. q * entry = entry * q /\ entry * q \in Int
    BY <2>1
  <2> QED  BY <1>1, <2>1, <2>2, <2>3
<1>3. CASE q <= 0
  BY <1>3 DEF RupeeTargets, PlanFits
<1>4. CASE ~ (q <= 0)
  <2> DEFINE plan == RupeeTargets(entry)
  <2>1. /\ plan.qty = q /\ plan.entry = entry
        /\ plan.slDiff = (200 * RiskRupees + q) \div (2 * q)
    BY <1>4 DEF RupeeTargets
  <2> HIDE DEF plan, q
  <2>2. q \in Nat \ {0}
    BY <1>2, <1>4
  <2> DEFINE b == 100 * RiskRupees
  <2>3. b \in Nat /\ 200 * RiskRupees = 2 * b
    BY <1>1
  <2>4. plan.slDiff = (2 * b + q) \div (2 * q)
    BY <2>1, <2>3
  <2> HIDE DEF b
  <2>5. Magnitude7(q * plan.slDiff - b) * 2 <= q
    BY <2>2, <2>3, <2>4, RoundedStop
  <2>6. PlanFits(plan)
    BY <1>2, <2>1, <2>5 DEF PlanFits, b
  <2> QED  BY <2>6 DEF plan
<1> QED  BY <1>3, <1>4

(* A lower price is never a weaker signal. *)
LEMMA DeeperIsStronger ==
  ASSUME NEW p \in Nat, NEW q \in Nat, p < q, NEW g \in Int, NEW h \in Int,
         g < h, h < -500, NEW trend, NEW slot \in Nat, Orb.low \in Nat
  PROVE  EntrySignal(p, g, trend, slot).strength >= EntrySignal(q, h, trend, slot).strength
<1> DEFINE low == Orb.low
           over == slot >= SquareOffAt
           none == slot >= NoEntryAt \/ trend = "Downward"
           choppy == trend = "Choppy"
           open == trend = "Upward" /\ slot <= OpenEntryUntil
           sp == EntrySignal(p, g, trend, slot).strength
           sq == EntrySignal(q, h, trend, slot).strength
           near(x) == IF GapToZone(x) < 1000 THEN 1 ELSE 0
<1>1. ASSUME NEW x \in Nat, NEW z \in Int, z < -500
      PROVE  EntrySignal(x, z, trend, slot).strength
               = IF over THEN 0 ELSE IF none THEN 0 ELSE IF choppy /\ z > -2500 THEN 0
                 ELSE IF z <= -2500 \/ (x < low /\ z <= -2000) THEN 3
                 ELSE IF z <= -2000 THEN 2 ELSE near(z)
  <2>1. z \notin -500 .. 500
    BY <1>1
  <2> QED  BY <2>1 DEF EntrySignal, Out
<1>2. sp = IF over THEN 0 ELSE IF none THEN 0 ELSE IF choppy /\ g > -2500 THEN 0
           ELSE IF g <= -2500 \/ (p < low /\ g <= -2000) THEN 3 ELSE IF g <= -2000 THEN 2 ELSE near(g)
  <2>1. g < -500
    OBVIOUS
  <2> QED  BY <1>1, <2>1
<1>3. sq = IF over THEN 0 ELSE IF none THEN 0 ELSE IF choppy /\ h > -2500 THEN 0
           ELSE IF h <= -2500 \/ (q < low /\ h <= -2000) THEN 3 ELSE IF h <= -2000 THEN 2 ELSE near(h)
  BY <1>1
<1>4. near(h) <= near(g) /\ near(g) \in {0, 1} /\ near(h) \in {0, 1}
  BY DEF GapToZone
<1>5. low \in Nat
  OBVIOUS
<1> HIDE DEF over, none, choppy, sp, sq, low
<1> DEFINE ng == near(g)
           nh == near(h)
<1>6. nh <= ng /\ ng \in {0, 1} /\ nh \in {0, 1}
  BY <1>4
<1> HIDE DEF ng, nh
<1>7. sp = IF over THEN 0 ELSE IF none THEN 0 ELSE IF choppy /\ g > -2500 THEN 0
           ELSE IF g <= -2500 \/ (p < low /\ g <= -2000) THEN 3 ELSE IF g <= -2000 THEN 2 ELSE ng
  BY <1>2 DEF ng
<1>8. sq = IF over THEN 0 ELSE IF none THEN 0 ELSE IF choppy /\ h > -2500 THEN 0
           ELSE IF h <= -2500 \/ (q < low /\ h <= -2000) THEN 3 ELSE IF h <= -2000 THEN 2 ELSE nh
  BY <1>3 DEF nh
<1>9. sp >= sq
  BY <1>5, <1>6, <1>7, <1>8
<1> QED  BY <1>9 DEF sp, sq

-----------------------------------------------------------------------------
IdPhases == {"idle", "open", "closed"}

RangeBars == [low : Nat, high : Nat]
BarsKnown == idBars \in Seq(RangeBars) /\ idBars # <<>>

LEMMA BarsAre ==
  ASSUME BarsKnown
  PROVE  /\ Len(idBars) \in Nat /\ Len(idBars) > 0 /\ DOMAIN idBars = 1 .. Len(idBars)
         /\ \A k \in DOMAIN idBars : idBars[k] \in RangeBars
BY DEF BarsKnown

FirstGap == idFirst.gap = 100 * idFirst.price - Sma7(idHistory) /\ idFirst.price \in Int

(* The history of a session stays; its first refresh measured the gap from it;
   a plan that was told fits. *)
IdInv ==
  /\ idPhase \in IdPhases /\ idSlot \in Nat
  /\ idHistory = <<>> \/ idHistory \in Histories
  /\ idPhase = "idle" => idFirst = NoOutput
  /\ idPhase # "idle" => idHistory \in Histories /\ idPrice \in Nat \ {0} /\ BarsKnown
  /\ idFirst # NoOutput => FirstGap
  /\ idOut = NoOutput \/ PlanFits(idOut.plan)

LEMMA IdInitial == ASSUME IdInit PROVE IdInv
BY DEF IdInit, IdInv, IdPhases

LEMMA OneOfTwo ==
  ASSUME NEW a \in Nat, NEW b \in Nat
  PROVE  Min({a, b}) \in Nat /\ Max({a, b}) \in Nat
<1>1. \E x \in {a, b} : \A y \in {a, b} : x <= y
  <2>1. a <= b \/ b <= a
    OBVIOUS
  <2>2. CASE a <= b
    BY <2>2
  <2>3. CASE b <= a
    BY <2>3
  <2> QED  BY <2>1, <2>2, <2>3
<1>2. \E x \in {a, b} : \A y \in {a, b} : x >= y
  <2>1. a >= b \/ b >= a
    OBVIOUS
  <2>2. CASE a >= b
    BY <2>2
  <2>3. CASE b >= a
    BY <2>3
  <2> QED  BY <2>1, <2>2, <2>3
<1>3. Min({a, b}) \in {a, b}
  BY <1>1 DEF Min
<1>4. Max({a, b}) \in {a, b}
  BY <1>2 DEF Max
<1> QED  BY <1>3, <1>4

LEMMA LowOfTheRange ==
  ASSUME BarsKnown
  PROVE  Orb.low \in Nat
<1> DEFINE S == {b.low : b \in ToSet(idBars)}
<1>1. Orb.low = Min(S)
  BY DEF Orb
<1>2. \A x \in S : x \in Nat
  <2>1. \A b \in ToSet(idBars) : b \in RangeBars
    BY BarsAre DEF ToSet
  <2>2. \A b \in RangeBars : b.low \in Nat
    BY DEF RangeBars
  <2> QED  BY <2>1, <2>2
<1>3. idBars[1].low \in S
  <2>1. 1 \in DOMAIN idBars
    BY BarsAre
  <2>2. idBars[1] \in ToSet(idBars)
    BY <2>1 DEF ToSet
  <2> QED  BY <2>2
<1> HIDE DEF S
<1>4. \E x \in S : \A y \in S : x <= y
  <2>1. S \subseteq Nat /\ S # {}
    BY <1>2, <1>3
  <2> QED  BY <2>1, LeastOne
<1>5. Min(S) \in S
  BY <1>4 DEF Min
<1> QED  BY <1>1, <1>2, <1>5

LEMMA OpenDays ==
  ASSUME IdInv, idPhase = "open", NEW price
  PROVE  ClosedDays(idBarShown, price) = idHistory /\ Sma7(idHistory) \in Int
<1>1. idHistory \in Seq(Nat \ {0}) /\ idHistory # <<>>
  BY IntradayConstants DEF IdInv
<1>2. Len(idHistory) > 0
  BY <1>1
<1>3. ClosedDays(idBarShown, price) = idHistory
  BY <1>2 DEF ClosedDays, Daily
<1> QED  BY <1>1, <1>3, AverageTyped

LEMMA IdInductive == ASSUME IdInv, [IdNext]_idVars PROVE IdInv'
<1>1. CASE LoadDay
  <2>1. idPhase = "idle" /\ idPhase' = idPhase /\ idFirst' = idFirst /\ idHistory' \in Histories
        /\ idOut' = idOut /\ idSlot' = idSlot
    BY <1>1 DEF LoadDay
  <2> QED  BY <2>1 DEF IdInv
<1>2. CASE OpenMarket
  <2>1. /\ idPhase = "idle" /\ idHistory \in SessionHistories /\ idPhase' = "open"
        /\ UNCHANGED <<idHistory, idSlot, idBarShown, idHeld, idOut, idFirst>>
    BY <1>2 DEF OpenMarket
  <2>2. PICK p \in IntradayPrices : idPrice' = p /\ idBars' = <<[low |-> p, high |-> p]>>
    BY <1>2 DEF OpenMarket
  <2>3. p \in Nat \ {0}
    BY IntradayConstants
  <2>4. BarsKnown'
    <3> DEFINE bar == [low |-> p, high |-> p]
    <3>1. bar \in RangeBars
      BY <2>3 DEF RangeBars
    <3>2. idBars' = <<bar>>
      BY <2>2
    <3> HIDE DEF bar
    <3> QED  BY <3>1, <3>2 DEF BarsKnown
  <2>5. idHistory \in Histories
    BY <2>1, IntradayConstants
  <2> QED  BY <2>1, <2>2, <2>3, <2>4, <2>5 DEF IdInv, IdPhases
<1>3. CASE PriceMoves
  <2>1. /\ idPhase = "open"
        /\ UNCHANGED <<idPhase, idHistory, idSlot, idBarShown, idHeld, idOut, idFirst>>
    BY <1>3 DEF PriceMoves
  <2>2. PICK p \in IntradayPrices \ {idPrice} :
          /\ idPrice' = p
          /\ idBars' = IF idSlot <= OrbEnd
                       THEN [idBars EXCEPT ![idSlot + 1] =
                               [low |-> Min({p, @.low}), high |-> Max({p, @.high})]]
                       ELSE idBars
    BY <1>3 DEF PriceMoves
  <2>3. p \in Nat \ {0}
    BY IntradayConstants
  <2>4. BarsKnown'
    <3>1. BarsKnown
      BY <2>1 DEF IdInv
    <3>2. CASE idBars' = idBars
      BY <3>1, <3>2 DEF BarsKnown
    <3>3. CASE idBars' # idBars
      <4> DEFINE n == idSlot + 1
                 low == Min({p, idBars[n].low})
                 high == Max({p, idBars[n].high})
                 bar == [low |-> low, high |-> high]
      <4>1. idBars' = [idBars EXCEPT ![n] = bar]
        BY <2>2, <3>3
      <4>2. CASE n \in DOMAIN idBars
        <5>1. idBars[n] \in RangeBars
          BY <3>1, <4>2, BarsAre
        <5>2. idBars[n].low \in Nat /\ idBars[n].high \in Nat
          BY <5>1 DEF RangeBars
        <5>3. low \in Nat /\ high \in Nat
          BY <2>3, <5>2, OneOfTwo
        <5>4. bar \in RangeBars
          BY <5>3 DEF RangeBars
        <5> HIDE DEF bar, n
        <5> DEFINE N == Len(idBars)
        <5>5. N \in Nat /\ N > 0 /\ idBars \in [1 .. N -> RangeBars]
          BY <3>1 DEF BarsKnown
        <5> HIDE DEF N
        <5>6. idBars' \in [1 .. N -> RangeBars]
          BY <4>1, <5>4, <5>5
        <5>7. Len(idBars') = N
          BY <5>5, <5>6
        <5> QED  BY <5>5, <5>6, <5>7 DEF BarsKnown
      <4>3. CASE n \notin DOMAIN idBars
        <5> HIDE DEF bar, n
        <5>1. idBars' = idBars
          BY <3>1, <4>1, <4>3 DEF BarsKnown
        <5> QED  BY <3>1, <5>1 DEF BarsKnown
      <4> QED  BY <4>2, <4>3
    <3> QED  BY <3>2, <3>3
  <2> QED  BY <2>1, <2>2, <2>3, <2>4 DEF IdInv, FirstGap
<1>4. CASE SlotPasses
  <2>1. /\ idPhase = "open" /\ idSlot' = idSlot + 1 /\ idPhase' \in {"open", "closed"}
        /\ UNCHANGED <<idHistory, idPrice, idBarShown, idHeld, idOut, idFirst>>
    BY <1>4 DEF SlotPasses
  <2>2. BarsKnown'
    <3>1. BarsKnown /\ idPrice \in Nat
      BY <2>1 DEF IdInv
    <3>2. CASE idBars' = idBars
      BY <3>1, <3>2 DEF BarsKnown
    <3>3. CASE idBars' = Append(idBars, [low |-> idPrice, high |-> idPrice])
      <4> DEFINE bar == [low |-> idPrice, high |-> idPrice]
      <4>1. bar \in RangeBars
        BY <3>1 DEF RangeBars
      <4>2. idBars' = Append(idBars, bar)
        BY <3>3
      <4> HIDE DEF bar
      <4> QED  BY <3>1, <4>1, <4>2 DEF BarsKnown
    <3> QED  BY <1>4, <3>2, <3>3 DEF SlotPasses
  <2> QED  BY <2>1, <2>2 DEF IdInv, IdPhases, FirstGap
<1>5. CASE FeedShowsToday
  BY <1>5 DEF FeedShowsToday, IdInv, BarsKnown, FirstGap
<1>6. CASE PositionTaken
  BY <1>6 DEF PositionTaken, IdInv, BarsKnown, FirstGap
<1>7. CASE RefreshIntraday
  <2>1. /\ idPhase \in {"open", "closed"}
        /\ UNCHANGED <<idPhase, idHistory, idSlot, idPrice, idBars, idBarShown, idHeld>>
    BY <1>7 DEF RefreshIntraday
  <2>2. PlanFits(idOut'.plan)
    <3>1. PICK action : idOut'.plan = IF action \in {"BUY", "STRONG_BUY"} THEN RupeeTargets(idPrice) ELSE NoPlan
      BY <1>7 DEF RefreshIntraday
    <3>2. idPrice \in Nat \ {0}
      BY <2>1 DEF IdInv
    <3>3. PlanFits(NoPlan) /\ PlanFits(RupeeTargets(idPrice))
      BY <3>2, PlansFit DEF PlanFits
    <3> QED  BY <3>1, <3>3
  <2>3. idFirst' # NoOutput => FirstGap'
    <3>1. CASE idFirst' = idFirst
      BY <2>1, <3>1 DEF IdInv, FirstGap
    <3>2. CASE idFirst' # idFirst
      <4>1. idPhase = "open" /\ idFirst' = [gap |-> idOut'.gap, price |-> idPrice, action |-> "first"]
            /\ idOut'.gap = Gap(idPrice, ClosedDays(idBarShown, idPrice))
        BY <1>7, <3>2 DEF RefreshIntraday
      <4>2. idOut'.gap = 100 * idPrice - Sma7(idHistory)
        BY <4>1, OpenDays DEF Gap
      <4>3. idFirst'.gap = idOut'.gap /\ idFirst'.price = idPrice /\ idPrice \in Nat
        BY <2>1, <4>1 DEF IdInv
      <4> QED  BY <2>1, <4>2, <4>3 DEF FirstGap
    <3> QED  BY <3>1, <3>2
  <2> QED  BY <2>1, <2>2, <2>3 DEF IdInv, BarsKnown
<1>8. CASE UNCHANGED idVars
  BY <1>8 DEF IdInv, idVars, BarsKnown, FirstGap
<1> QED  BY <1>1, <1>2, <1>3, <1>4, <1>5, <1>6, <1>7, <1>8 DEF IdNext

LEMMA IdStatesAgree ==
  ASSUME IdInv
  PROVE  DeeperIsNeverWeaker /\ TrendsMirror /\ PlanFitsTheBudget
<1>1. DeeperIsNeverWeaker
  <2> SUFFICES ASSUME idPhase = "open", NEW p \in IntradayPrices, NEW q \in IntradayPrices,
                      p < q, Gap(q, ClosedDays(idBarShown, idPrice)) < -500
               PROVE  LET days == ClosedDays(idBarShown, idPrice)
                      IN  EntrySignal(p, Gap(p, days), Trend(days), idSlot).strength
                            >= EntrySignal(q, Gap(q, days), Trend(days), idSlot).strength
    BY DEF DeeperIsNeverWeaker
  <2> DEFINE days == ClosedDays(idBarShown, idPrice)
             g == Gap(p, days)
             h == Gap(q, days)
             trend == Trend(days)
  <2>1. p \in Nat /\ q \in Nat /\ idSlot \in Nat
    BY IntradayConstants DEF IdInv
  <2>2. days = idHistory /\ Sma7(idHistory) \in Int
    BY OpenDays
  <2>3. g \in Int /\ h \in Int /\ g < h /\ h < -500
    BY <2>1, <2>2 DEF Gap
  <2>4. Orb.low \in Nat
    BY LowOfTheRange DEF IdInv
  <2> HIDE DEF days, g, h, trend
  <2>5. EntrySignal(p, g, trend, idSlot).strength >= EntrySignal(q, h, trend, idSlot).strength
    BY <2>1, <2>3, <2>4, DeeperIsStronger
  <2> QED  BY <2>5 DEF days, g, h, trend
<1>2. TrendsMirror
  <2> SUFFICES ASSUME Len(idHistory) >= 4
               PROVE  Trend(Reverse(LastSeven(idHistory))) = Opposite(Trend(idHistory))
    BY DEF TrendsMirror
  <2>1. idHistory = <<>> \/ idHistory \in Seq(Nat \ {0})
    BY IntradayConstants DEF IdInv
  <2>2. idHistory \in Seq(Nat \ {0})
    BY <2>1
  <2> QED  BY <2>2, TrendBackwards
<1>3. PlanFitsTheBudget
  BY DEF PlanFitsTheBudget, PlanFits, IdInv
<1> QED  BY <1>1, <1>2, <1>3

LEMMA GapStep ==
  ASSUME IdInv, [IdNext]_idVars
  PROVE  [idOut' # idOut /\ idFirst' # NoOutput /\ idPhase = "open" =>
            idOut'.gap - idFirst'.gap = 100 * (idOut'.price - idFirst'.price)]_idVars
<1> SUFFICES ASSUME IdNext, idOut' # idOut, idFirst' # NoOutput, idPhase = "open"
             PROVE  idOut'.gap - idFirst'.gap = 100 * (idOut'.price - idFirst'.price)
  OBVIOUS
<1>1. RefreshIntraday
  BY DEF IdNext, LoadDay, OpenMarket, PriceMoves, SlotPasses, FeedShowsToday, PositionTaken
<1>2. /\ idOut'.gap = Gap(idPrice, ClosedDays(idBarShown, idPrice)) /\ idOut'.price = idPrice
      /\ idHistory' = idHistory
  BY <1>1 DEF RefreshIntraday
<1>3. idOut'.gap = 100 * idPrice - Sma7(idHistory) /\ Sma7(idHistory) \in Int /\ idPrice \in Int
  BY <1>2, OpenDays DEF Gap, IdInv
<1>4. FirstGap'
  BY IdInductive DEF IdInv
<1> DEFINE a == idFirst'.gap
           b == idFirst'.price
           s == Sma7(idHistory)
           c == idOut'.gap
           d == idOut'.price
<1>5. a = 100 * b - s /\ b \in Int /\ s \in Int /\ c = 100 * d - s /\ d \in Int
  BY <1>2, <1>3, <1>4 DEF FirstGap
<1> HIDE DEF a, b, c, d, s
<1>6. c - a = 100 * (d - b)
  BY <1>5
<1> QED  BY <1>6 DEF a, b, c, d

(* The intraday advice is consistent, for every price, history, capital, budget
   and clock: a deeper dip never advises less, a week and its reverse have
   opposite trends, a plan fits the capital and the budget, and within a session
   the gap moves with the price and nothing else. *)
THEOREM AdviceAgrees == IdSpec => IntradayIsConsistent
<1>1. IdInit => IdInv
  BY IdInitial
<1>2. IdInv /\ [IdNext]_idVars => IdInv'
  BY IdInductive
<1>3. IdInv => DeeperIsNeverWeaker /\ TrendsMirror /\ PlanFitsTheBudget
  BY IdStatesAgree
<1>4. IdInv /\ [IdNext]_idVars
        => [idOut' # idOut /\ idFirst' # NoOutput /\ idPhase = "open" =>
              idOut'.gap - idFirst'.gap = 100 * (idOut'.price - idFirst'.price)]_idVars
  BY GapStep
<1> QED  BY <1>1, <1>2, <1>3, <1>4, PTL DEF IdSpec, IntradayIsConsistent, GapFollowsThePrice
=============================================================================
