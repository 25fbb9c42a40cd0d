------------------------------ MODULE SevenDays ------------------------------
(***************************************************************************)
(* The seven-day average, the gap of a price to it, and the seven-day trend:*)
(* what the live rules (Intraday) and their backtest (DayBacktest) share.   *)
(* (src/src/emcure/intraday.py.)  Closes are whole rupees, oldest first;    *)
(* averages and gaps are paise.                                            *)
(***************************************************************************)
EXTENDS Integers, Sequences, FiniteSets, SequencesExt

LastSeven(closes) == SubSeq(closes, IF Len(closes) > 7 THEN Len(closes) - 6 ELSE 1, Len(closes))

TotalOf(numbers) ==
  LET sum[i \in 0 .. Len(numbers)] == IF i = 0 THEN 0 ELSE sum[i - 1] + numbers[i]
  IN  sum[Len(numbers)]

(* compute_sma7, rounded to a paisa. *)
Sma7(closes) ==
  LET days == IF Len(closes) < 7 THEN closes ELSE LastSeven(closes)
  IN  (200 * TotalOf(days) + Len(days)) \div (2 * Len(days))

Gap(price, closes) == 100 * price - Sma7(closes)
GapToZone(gap) == IF gap + 2000 > 0 THEN gap + 2000 ELSE 0

(* np.polyfit of degree one: twice the slope, times a positive factor. *)
Slope(days) == TotalOf([i \in 1 .. Len(days) |-> (2 * i - (Len(days) + 1)) * days[i]])

UpDays(days) == Cardinality({i \in 2 .. Len(days) : days[i] > days[i - 1]})
DownDays(days) == Cardinality({i \in 2 .. Len(days) : days[i] < days[i - 1]})

Magnitude7(x) == IF x < 0 THEN -x ELSE x
Larger(a, b) == IF a < b THEN b ELSE a

ConsistentDays(days) == Larger(UpDays(days), DownDays(days))

(* classify_7d_trend: a slope of 0.2% of the average a day, four days of six
   its way. *)
Trend(closes) ==
  LET days == LastSeven(closes)  n == Len(days)
  IN  IF n < 4 THEN "Unknown"
      ELSE IF \/ 3000 * Magnitude7(Slope(days)) < (n * n - 1) * TotalOf(days)
              \/ 1000 * ConsistentDays(days) < 571 * (n - 1) THEN "Choppy"
      ELSE IF Slope(days) > 0 /\ UpDays(days) > DownDays(days) THEN "Upward"
      ELSE IF Slope(days) < 0 /\ DownDays(days) > UpDays(days) THEN "Downward"
      ELSE "Choppy"
=============================================================================
