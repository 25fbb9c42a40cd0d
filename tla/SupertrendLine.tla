--------------------------- MODULE SupertrendLine ---------------------------
(***************************************************************************)
(* The supertrend indicator, one bar a step: the two bands that trail the   *)
(* price and the line that follows one of them.                             *)
(* (src/src/emcure/supertrend.py.)  The ATR is the mean of AtrPeriod true   *)
(* ranges, the multiplier is AtrTimes; every value is scaled by             *)
(* 2 * AtrPeriod, so that nothing is rounded.                               *)
(***************************************************************************)
EXTENDS Integers, Sequences

CONSTANTS
  StlBars,                 \* records high, low, close
  MaxStlBars,              \* a bound of the model
  AtrPeriod, AtrTimes

ASSUME SupertrendLineAssumption ==
  /\ StlBars \subseteq [high : Nat, low : Nat, close : Nat]
  /\ \A b \in StlBars : b.low <= b.close /\ b.close <= b.high
  /\ {AtrPeriod, AtrTimes} \subseteq Nat \ {0} /\ MaxStlBars \in Nat

VARIABLES
  slBar,       \* the last bar, or NoBar
  slRanges,    \* the true ranges of the last period
  slSum,       \* their sum: AtrPeriod times the ATR
  slCount,
  slBands,     \* upper and lower, or NoBands before the ATR is known
  slLine       \* value and direction: 1 up, -1 down, 0 none

slVars == <<slBar, slRanges, slSum, slCount, slBands, slLine>>

Scale == 2 * AtrPeriod
NoBar == <<>>
NoBands == <<>>
NoLine == [value |-> 0, dir |-> 0]

SlInit ==
  /\ slBar = NoBar /\ slRanges = <<>> /\ slSum = 0 /\ slCount = 0
  /\ slBands = NoBands /\ slLine = NoLine

-----------------------------------------------------------------------------
Higher(a, b) == IF a >= b THEN a ELSE b
Lower(a, b) == IF a <= b THEN a ELSE b

(* The true range of bar b; the first bar has no close before it. *)
TrueRange(prev, b) ==
  IF prev = NoBar THEN b.high - b.low
  ELSE Higher(b.high - b.low, Higher(b.high - prev.close, prev.close - b.low))

(* hl2 and the multiplier times the ATR on either side of it. *)
BasicBands(b, sum) ==
  LET mid == AtrPeriod * (b.high + b.low)
  IN  [upper |-> mid + AtrTimes * (2 * sum), lower |-> mid - AtrTimes * (2 * sum)]

\* Mutant: a band is reset by a close on its own side.
ResetAlways(prev, basic, close) ==
  IF prev = NoBands THEN basic
  ELSE [upper |-> IF basic.upper < prev.upper \/ close < prev.upper THEN basic.upper ELSE prev.upper,
        lower |-> IF basic.lower > prev.lower \/ close > prev.lower THEN basic.lower ELSE prev.lower]

(* The upper band only falls and the lower only rises, until the close before
   was beyond it. *)
TrailedBands(prev, basic, close) ==
  IF prev = NoBands THEN basic
  ELSE [upper |-> IF basic.upper < prev.upper \/ close > prev.upper THEN basic.upper ELSE prev.upper,
        lower |-> IF basic.lower > prev.lower \/ close < prev.lower THEN basic.lower ELSE prev.lower]

(* The line starts on the upper band, and changes band when the close crosses
   the one it is on; which one that is is told by its value. *)
FollowBand(line, prev, bands, close) ==
  IF prev = NoBands THEN [value |-> bands.upper, dir |-> -1]
  ELSE IF line.value = prev.upper
  THEN IF close > bands.upper THEN [value |-> bands.lower, dir |-> 1]
       ELSE [value |-> bands.upper, dir |-> -1]
  ELSE IF close < bands.lower THEN [value |-> bands.upper, dir |-> -1]
       ELSE [value |-> bands.lower, dir |-> 1]

-----------------------------------------------------------------------------
(* compute_supertrend over one bar more. *)
SlBar ==
  /\ slCount < MaxStlBars
  /\ \E b \in StlBars :
       LET tr == TrueRange(slBar, b)
           full == Len(slRanges) = AtrPeriod
           ranges == Append(IF full THEN Tail(slRanges) ELSE slRanges, tr)
           sum == slSum + tr - (IF full THEN Head(slRanges) ELSE 0)
           known == Len(ranges) = AtrPeriod
           before == IF slBar = NoBar THEN 0 ELSE Scale * slBar.close
           bands == TrailedBands(slBands, BasicBands(b, sum), before)
       IN  /\ slBar' = b /\ slRanges' = ranges /\ slSum' = sum
           /\ slBands' = IF known THEN bands ELSE NoBands
           /\ slLine' = IF known THEN FollowBand(slLine, slBands, bands, Scale * b.close) ELSE NoLine
  /\ slCount' = slCount + 1

SlNext == SlBar
SlSpec == SlInit /\ [][SlNext]_slVars

-----------------------------------------------------------------------------
Bands == [upper : Int, lower : Int]

SlTypeOK ==
  /\ slBar \in StlBars \cup {NoBar} /\ slCount \in 0 .. MaxStlBars
  /\ slRanges \in Seq(Int) /\ Len(slRanges) <= AtrPeriod /\ slSum \in Int
  /\ slBands \in Bands \cup {NoBands}
  /\ slLine \in [value : Int, dir : {-1, 0, 1}]
  /\ slLine.dir # 0 => slBar # NoBar /\ slBands # NoBands

(* A bar so wide that it sticks out of the bands around its own middle: its
   range is more than twice the multiplier times the ATR. *)
WideBar == AtrPeriod * (slBar.high - slBar.low) > AtrTimes * (2 * slSum)

OnItsSide ==
  IF slLine.dir = 1 THEN slLine.value <= Scale * slBar.close
                    ELSE Scale * slBar.close <= slLine.value

(* "direction: +1 when price is in an uptrend (line below price), -1 when price
   is in a downtrend (line above price)": on every bar that is not too wide. *)
LineIsOnItsSide == slLine.dir # 0 /\ ~ WideBar => OnItsSide

(* The docstring without the condition: a bar wider than its bands starts, or
   leaves, the line on the wrong side of the price. *)
LineIsAlwaysOnItsSide == slLine.dir # 0 => OnItsSide

(* The line trails: once on its side it never falls in an uptrend and never
   rises in a downtrend, so a price that holds is never let go by its own stop. *)
LineOnlyTightens ==
  [][slLine.dir # 0 /\ OnItsSide /\ slLine'.dir = slLine.dir =>
       IF slLine.dir = 1 THEN slLine'.value >= slLine.value
                         ELSE slLine'.value <= slLine.value]_slVars

(* A turn needs a cause: the trend only turns on a close beyond the band of the
   day, however far the bands were trailed.  Where the two bands had met (bars
   with no range at all) the code takes an uptrend's line for the upper band. *)
TurnsOnACross ==
  [][slLine.dir # 0 /\ slLine'.dir # slLine.dir /\ slBands.upper # slBands.lower =>
       LET close == Scale * slBar'.close
       IN  IF slLine'.dir = 1 THEN close > slBands'.upper ELSE close < slBands'.lower]_slVars

(* The line can serve as a trailing stop: it is on its side of the price, only
   ever tightens, and turns on a cross alone. *)
LineIsATrailingStop ==
  /\ [](SlTypeOK /\ LineIsOnItsSide)
  /\ LineOnlyTightens
  /\ TurnsOnACross
=============================================================================
