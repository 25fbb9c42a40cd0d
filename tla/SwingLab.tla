------------------------------ MODULE SwingLab ------------------------------
(***************************************************************************)
(* The swing lab's portfolio backtest, one trading day a step: the exit of  *)
(* the open position on today's bar, then an entry at today's open from the *)
(* signals of the day before.  (src/src/swing/backtest.py, signals.py.)     *)
(* Prices are whole rupees, money is paise.  The indicators are read off    *)
(* the day's record: a close above its averages, a signal, its score.       *)
(***************************************************************************)
EXTENDS Integers, Sequences, FiniteSetsExt

CONSTANTS
  SwingStocks,      \* a sequence: the order of the frames
  SwingDays,        \* records regime, bars: stock number -> open, high, low, close,
                    \*   weak (below the averages), entry, liquid, score, atr
  MaxSwingDays,     \* a bound of the model
  SwingCapital,     \* paise
  RiskCap,          \* paise; risk_cap
  SwingScoreGate, MaxHoldDays,
  MaExits,          \* use_ma_exits: the variant is not "pullback"
  NoSwing           \* no position; no day yet

ASSUME SwingLabAssumption ==
  /\ {MaxSwingDays, SwingCapital, RiskCap, SwingScoreGate} \subseteq Nat
  /\ MaxHoldDays \in Nat \ {0}
  /\ SwingStocks \in Seq(STRING)
  /\ \A d \in SwingDays, s \in DOMAIN SwingStocks :
       LET b == d.bars[s]
       IN  /\ {b.low, b.high} \subseteq Nat \ {0} /\ {b.open, b.close} \subseteq b.low .. b.high
           /\ b.atr \in Nat /\ b.atr % 2 = 0 /\ b.score \in Nat
  /\ MaExits \in BOOLEAN

VARIABLES swDay, swPrev, swEquity, swPosition, swTrades

swVars == <<swDay, swPrev, swEquity, swPosition, swTrades>>

SwInit ==
  /\ swDay = 0 /\ swPrev = NoSwing /\ swEquity = SwingCapital
  /\ swPosition = NoSwing /\ swTrades = <<>>

-----------------------------------------------------------------------------
(* compute_charges and the DP charge of a delivery trade, to the paisa. *)
SwingCharges(entry, exit, qty) ==
  1593 + (1036 * (entry + exit) * qty + 150 * entry * qty + 5000) \div 10000

RiskOf(equity) == Min({equity \div 50, RiskCap})

(* _size: two per cent of the equity over the stop's distance of 1.5 ATR, within
   nine tenths of the equity. *)
Size(equity, entry, atr) ==
  IF atr <= 0 THEN 0
  ELSE Min({(2 * RiskOf(equity)) \div (300 * atr), (9 * equity) \div (1000 * entry)})

Stay == [exit |-> FALSE, reason |-> "", fill |-> 0]
Leave(reason, fill) == [exit |-> TRUE, reason |-> reason, fill |-> fill]

\* Mutant: the target is looked at before the stop.
TargetBeforeStop(pos, bar, held, regime) ==
  CASE bar.high >= pos.target -> Leave("target", pos.target)
    [] bar.high < pos.target /\ bar.low <= pos.stop -> Leave("stop", pos.stop)
    [] held >= MaxHoldDays -> Leave("time_stop", bar.close)
    [] OTHER -> Stay

(* should_exit: the first rule that applies. *)
ShouldExit(pos, bar, held, regime) ==
  IF bar.low <= pos.stop THEN Leave("stop", pos.stop)
  ELSE IF bar.high >= pos.target THEN Leave("target", pos.target)
  ELSE IF regime = "TRENDING_BEAR" THEN Leave("regime_bear", bar.close)
  ELSE IF MaExits /\ bar.weak THEN Leave("below_average", bar.close)
  ELSE IF held >= MaxHoldDays THEN Leave("time_stop", bar.close)
  ELSE Stay

Candidates(day) ==
  {s \in DOMAIN SwingStocks :
     day.bars[s].entry /\ day.bars[s].liquid /\ day.bars[s].score >= SwingScoreGate}

(* _select: the best score; the first of equals, in the order of the frames. *)
Select(day) ==
  IF Candidates(day) = {} THEN NoSwing
  ELSE LET best == {s \in Candidates(day) : \A r \in Candidates(day) :
                      day.bars[r].score <= day.bars[s].score}
       IN  Min(best)

(* _close. *)
CloseTrade(pos, bar, done, held) ==
  LET gross == 100 * (done.fill - pos.entry) * pos.qty
  IN  [stock |-> pos.stock, entryDay |-> pos.day, exitDay |-> swDay + 1, held |-> held,
       reason |-> done.reason, risk |-> pos.risk, gross |-> gross, low |-> bar.low,
       stop |-> pos.stop, net |-> gross - SwingCharges(pos.entry, done.fill, pos.qty)]

(* An entry at today's open on yesterday's signal, or no position. *)
EntryToday(today, equity) ==
  IF swPrev.regime # "TRENDING_BULL" \/ Select(swPrev) = NoSwing THEN NoSwing
  ELSE LET s == Select(swPrev)
           open == today.bars[s].open
           atr == swPrev.bars[s].atr
           qty == Size(equity, open, atr)
       IN  IF qty < 1 THEN NoSwing
           ELSE [stock |-> s, day |-> swDay + 1, entry |-> open, qty |-> qty, held |-> 0,
                 stop |-> open - (3 * atr) \div 2, target |-> open + 3 * atr,
                 risk |-> RiskOf(equity), signal |-> swPrev.bars[s].score]

-----------------------------------------------------------------------------
FirstSwingDay ==
  /\ swDay = 0
  /\ swDay' = 1 /\ swPrev' \in SwingDays
  /\ UNCHANGED <<swEquity, swPosition, swTrades>>

(* One turn of the loop over the dates. *)
TradingDay ==
  /\ swDay \in 1 .. MaxSwingDays - 1
  /\ \E today \in SwingDays :
       LET held == swPosition.held + 1
           bar == today.bars[swPosition.stock]
           done == IF swPosition = NoSwing THEN Stay
                   ELSE ShouldExit(swPosition, bar, held, today.regime)
           trade == CloseTrade(swPosition, bar, done, held)
           equity == IF done.exit THEN swEquity + trade.net ELSE swEquity
       IN  /\ swTrades' = IF done.exit THEN Append(swTrades, trade) ELSE swTrades
           /\ swEquity' = equity
           /\ swPosition' = IF swPosition = NoSwing \/ done.exit THEN EntryToday(today, equity)
                            ELSE [swPosition EXCEPT !.held = held]
           /\ swPrev' = today
           /\ swDay' = swDay + 1

SwNext == FirstSwingDay \/ TradingDay
SwSpec == SwInit /\ [][SwNext]_swVars

-----------------------------------------------------------------------------
(* No trade loses more, before its charges, than the risk its size was made
   for when it was entered, however it is left. *)
LossIsCapped == \A k \in DOMAIN swTrades : -swTrades[k].gross <= swTrades[k].risk

(* A day that touched both levels is booked at the worse one: no target is
   booked on a day whose low was at the stop. *)
DoubtIsALoss ==
  \A k \in DOMAIN swTrades :
    swTrades[k].reason = "target" => swTrades[k].low > swTrades[k].stop

(* No position is held longer than its days. *)
PositionsEnd ==
  /\ swPosition # NoSwing => swPosition.held < MaxHoldDays
  /\ \A k \in DOMAIN swTrades : swTrades[k].held <= MaxHoldDays

(* A position is opened on a signal of the day before that passed the gate, and
   no stock with a signal of that day scored better. *)
BestSignalIsTaken ==
  [][swPosition' # NoSwing /\ (swPosition = NoSwing \/ swPosition'.day # swPosition.day) =>
       /\ swPrev.regime = "TRENDING_BULL"
       /\ swPosition'.signal >= SwingScoreGate
       /\ \A s \in DOMAIN SwingStocks :
            swPrev.bars[s].entry /\ swPrev.bars[s].liquid =>
              swPrev.bars[s].score <= swPosition'.signal]_swVars

(* "only ONE position is ever open across the whole universe": a trade that
   leaves during a day and one that entered at that day's open were both open. *)
OnePositionAtATime ==
  \A k \in DOMAIN swTrades :
    LET t == swTrades[k]
    IN  /\ swPosition # NoSwing => swPosition.day > t.exitDay
        /\ \A j \in DOMAIN swTrades : j > k => swTrades[j].entryDay > t.exitDay

(* The swing backtest is honest: losses are within the risk taken, doubt is a
   loss, positions end, and the best signal of the day before is taken. *)
SwingLabIsHonest ==
  /\ [](LossIsCapped /\ DoubtIsALoss /\ PositionsEnd)
  /\ BestSignalIsTaken
=============================================================================
