------------------------------ MODULE HitRates ------------------------------
(***************************************************************************)
(* How often a price reached a level: the walks over past bars from which   *)
(* the briefings take their odds.  (src/src/emcure/scoring.py: the target   *)
(* and intraday probabilities, the labels of the model;                     *)
(* src/src/emcure/probability.py: touch and daily reach.)  Bars arrive one  *)
(* at a time; the odds are those of the bars so far.                        *)
(***************************************************************************)
EXTENDS Integers, Sequences, FiniteSets, SequencesExt, FiniteSetsExt

CONSTANTS
  HitBars,            \* records low, high, close
  MaxHitBars,         \* a bound of the model
  HitTargets, HitStop,          \* per cent above and below the entry
  HorizonDays,                  \* _HORIZON, the same for all targets here
  EntryShare,                   \* per cent of a session's bars that are entries
  TouchDays,                    \* horizon_days
  Lookbacks,                    \* a sequence, shortest first
  MinReachBars,                 \* fewer bars give no odds
  Levels                        \* prices whose odds are asked

ASSUME HitRatesAssumption ==
  /\ HitBars \subseteq [low : Nat \ {0}, high : Nat, close : Nat]
  /\ \A b \in HitBars : b.low <= b.close /\ b.close <= b.high
  /\ MaxHitBars \in Nat /\ HorizonDays \in Nat /\ EntryShare \in 0 .. 100
  /\ TouchDays \in Nat \ {0} /\ MinReachBars \in Nat /\ MinReachBars >= 2
  /\ Lookbacks \in Seq(Nat \ {0}) /\ Lookbacks # <<>>
  /\ \A i \in DOMAIN Lookbacks : Lookbacks[i] <= Lookbacks[Len(Lookbacks)]
  /\ HitTargets \subseteq Nat \ {0} /\ HitStop \in Nat /\ Levels \subseteq Nat

VARIABLES hrBars, hrIntraday, hrTarget, hrLabels, hrTouch, hrReach

hrVars == <<hrBars, hrIntraday, hrTarget, hrLabels, hrTouch, hrReach>>

NoOdds == [l \in Levels |-> -1]

HrInit ==
  /\ hrBars = <<>> /\ hrTouch = NoOdds /\ hrReach = NoOdds
  /\ hrTarget = [t \in HitTargets |-> 0] /\ hrLabels = [t \in HitTargets |-> <<>>]
  /\ hrIntraday = [hit |-> [t \in HitTargets |-> 0], stop |-> 0,
                   entries |-> 0, wins |-> 0, stops |-> 0]

-----------------------------------------------------------------------------
Smaller(a, b) == IF a < b THEN a ELSE b
Bigger(a, b) == IF a < b THEN b ELSE a

(* Python's round of num / den: halves go to the even number. *)
RoundedRatio(num, den) ==
  LET q == num \div den  r == 2 * (num % den)
  IN  IF r > den \/ (r = den /\ q % 2 = 1) THEN q + 1 ELSE q

Percent(hits, total) == IF total = 0 THEN 0 ELSE RoundedRatio(100 * hits, total)

Reached(bars, i, j, target) == 100 * bars[j].high >= bars[i].close * (100 + target)
Stopped(bars, i, j) == 100 * bars[j].low <= bars[i].close * (100 - HitStop)

(* The walk from the close of bar i: a bar that stops ends it before the bar's
   high is looked at. *)
HitBeforeStop(bars, i, last, target) ==
  \E j \in i + 1 .. last :
    Reached(bars, i, j, target) /\ \A k \in i + 1 .. j : ~ Stopped(bars, i, k)

(* The days with a whole horizon behind them. *)
Entries(n, horizon) == 1 .. n - horizon

(* compute_target_probabilities. *)
TargetOdds(bars) ==
  LET n == Len(bars)
      wins(t) == {i \in Entries(n, HorizonDays) :
                    HitBeforeStop(bars, i, Smaller(i + HorizonDays, n), t)}
  IN  [t \in HitTargets |-> Percent(Cardinality(wins(t)), Cardinality(Entries(n, HorizonDays)))]

(* _build_labels: one of win, loss, or no label, for each bar. *)
Labels(bars, t) ==
  [i \in 1 .. Len(bars) |->
     IF i > Len(bars) - HorizonDays THEN "none"
     ELSE IF HitBeforeStop(bars, i, Smaller(i + HorizonDays, Len(bars)), t) THEN "win" ELSE "loss"]

(* One entry of a session: the targets it reached, and whether the stop was
   met before the last of them. *)
EntryHits(bars, i) == {t \in HitTargets : HitBeforeStop(bars, i, Len(bars), t)}

EntryStopped(bars, i) ==
  \E j \in i + 1 .. Len(bars) :
    /\ Stopped(bars, i, j)
    /\ \A k \in i + 1 .. j - 1 : ~ Stopped(bars, i, k)
    /\ \E t \in HitTargets : \A k \in i + 1 .. j - 1 : ~ Reached(bars, i, k, t)

(* compute_intraday_probabilities, of one session. *)
IntradayOdds(bars) ==
  LET entries == 1 .. Bigger(1, (Len(bars) * EntryShare) \div 100)
      stops == {i \in entries : EntryStopped(bars, i)}
      hits(t) == {i \in entries : t \in EntryHits(bars, i)}
  IN  [hit |-> [t \in HitTargets |-> Percent(Cardinality(hits(t)), Cardinality(entries))],
       stop |-> Percent(Cardinality(stops), Cardinality(entries)),
       entries |-> Cardinality(entries),
       wins |-> Cardinality(UNION {hits(t) : t \in HitTargets}), stops |-> Cardinality(stops)]

(* touch_probabilities from a price: the highest high, the lowest low of each
   window of days; a level that is behind already is at 99. *)
TouchOdds(bars, price, level) ==
  LET starts == 1 .. Len(bars) - TouchDays
      top(i) == Max({bars[j].high : j \in i + 1 .. i + TouchDays})
      up == {i \in starts : top(i) * price >= level * bars[i].close}
  IN  IF level <= price THEN 99 ELSE Percent(Cardinality(up), Cardinality(starts))

\* Mutant: the oldest days are the sample.
OldestDays(n, back) == 2 .. Smaller(n, back + 1)

(* The last of the daily moves, as many as there are. *)
LatestDays(n, back) == Bigger(2, n - back + 1) .. n

(* The days among the sample of a lookback whose high made the move needed. *)
Made(bars, back, price, level) ==
  {i \in LatestDays(Len(bars), back) :
     (bars[i].high - bars[i - 1].close) * price >= (level - price) * bars[i - 1].close}

(* daily_reach_probs: the mean over the lookbacks of the share of such days, the
   sum of the shares being kept as a fraction. *)
ReachOdds(bars, price, level) ==
  LET N == Len(Lookbacks)
      days(b) == Cardinality(LatestDays(Len(bars), Lookbacks[b]))
      made(b) == Cardinality(Made(bars, Lookbacks[b], price, level))
      den[b \in 0 .. N] == IF b = 0 THEN 1 ELSE den[b - 1] * days(b)
      num[b \in 0 .. N] == IF b = 0 THEN 0
                           ELSE num[b - 1] * days(b) + 100 * made(b) * den[b - 1]
  IN  IF level <= price THEN 99 ELSE RoundedRatio(num[N], den[N] * N)

-----------------------------------------------------------------------------
(* A bar completes and every set of odds is made anew. *)
BarCompletes ==
  /\ Len(hrBars) < MaxHitBars
  /\ \E b \in HitBars :
       LET bars == Append(hrBars, b)  n == Len(bars)
       IN  /\ hrBars' = bars
           /\ hrTarget' = TargetOdds(bars)
           /\ hrLabels' = [t \in HitTargets |-> Labels(bars, t)]
           /\ hrIntraday' = IntradayOdds(bars)
           /\ hrTouch' = IF n > TouchDays THEN [l \in Levels |-> TouchOdds(bars, b.close, l)] ELSE NoOdds
           /\ hrReach' = IF n >= MinReachBars THEN [l \in Levels |-> ReachOdds(bars, b.close, l)] ELSE NoOdds

HrNext == BarCompletes
HrSpec == HrInit /\ [][HrNext]_hrVars

-----------------------------------------------------------------------------
(* The model is trained on the labels of the rule whose hit rate it falls back
   to: the share of winning labels is that rate, for each target. *)
LabelsMatchTheRate ==
  hrBars # <<>> =>
    \A t \in HitTargets :
      LET of(l) == Cardinality({i \in DOMAIN hrBars : hrLabels[t][i] = l})
      IN  hrTarget[t] = Percent(of("win"), of("win") + of("loss"))

(* A further target is never likelier, for the walks of a session and for the
   level odds alike, as long as the level is not reached yet. *)
FurtherIsNotLikelier ==
  hrBars # <<>> =>
    /\ \A s, t \in HitTargets : s < t => hrIntraday.hit[s] >= hrIntraday.hit[t]
    /\ \A odds \in {hrTouch, hrReach} \ {NoOdds} : \A k, l \in Levels :
         k < l /\ k > Last(hrBars).close => odds[k] >= odds[l]

(* The odds of a touch count no level as missed that a day's high passed: when
   every day of the sample rose through it, the odds are full; when none did,
   they are nil. *)
OddsFollowTheDays ==
  hrReach # NoOdds =>
    \A l \in {k \in Levels : k > Last(hrBars).close} :
      LET price == Last(hrBars).close
          made(i) == (hrBars[i].high - hrBars[i - 1].close) * price
                       >= (l - price) * hrBars[i - 1].close
          sample == Bigger(2, Len(hrBars) - Last(Lookbacks) + 1) .. Len(hrBars)
      IN  /\ (\A i \in sample : made(i)) => hrReach[l] = 100
          /\ (\A i \in sample : ~ made(i)) => hrReach[l] = 0

(* "win - HIGH reaches +target% before LOW reaches -stop_pct%; loss - LOW
   reaches -stop_pct% before any target is hit": no entry is both. *)
NoEntryIsBoth == hrBars # <<>> => hrIntraday.wins + hrIntraday.stops <= hrIntraday.entries

(* "As the live price climbs toward a target the needed move shrinks and its
   probability rises": the odds of a level that is reached are the highest. *)
ClimbRaisesTheOdds ==
  hrReach # NoOdds => \A k, l \in Levels : k < l => hrReach[k] >= hrReach[l]

(* The hit rates are fair odds: the labels of the model are those of the rate,
   a further level is not likelier, and the days of the sample decide. *)
OddsAreFair ==
  /\ LabelsMatchTheRate
  /\ FurtherIsNotLikelier
  /\ OddsFollowTheDays
=============================================================================
