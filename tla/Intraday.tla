------------------------------ MODULE Intraday ------------------------------
(***************************************************************************)
(* One session of the intraday rules: the gap to the seven-day average, the *)
(* seven-day trend, the opening range, the entry signal with its plan, and  *)
(* the clock's exit.  (src/src/emcure/intraday.py, refreshed by             *)
(* src/apps/main.py.)  Prices are whole rupees, averages and gaps are paise,*)
(* a slot is one five-minute bar; the afternoon is scaled down.             *)
(***************************************************************************)
EXTENDS SevenDays, FiniteSetsExt

CONSTANTS
  IntradayPrices,
  Histories, SessionHistories,   \* closes of the past days, oldest first
  OrbEnd, OpenEntryUntil,        \* slots of 9:30 and 9:35
  TightenAt, NoEntryAt, SquareOffAt, CloseSlot,   \* 14:00, 14:30, 15:20, 15:30
  IdCapital, RiskRupees,
  NoHolding

ASSUME IntradayAssumption ==
  /\ Histories \subseteq Seq(Nat \ {0}) \ {<<>>} /\ SessionHistories \subseteq Histories
  /\ IntradayPrices \subseteq Nat \ {0} /\ {IdCapital, RiskRupees} \subseteq Nat
  /\ {OrbEnd, OpenEntryUntil, TightenAt, NoEntryAt, SquareOffAt, CloseSlot} \subseteq Nat
  /\ OrbEnd <= OpenEntryUntil /\ TightenAt <= NoEntryAt /\ NoEntryAt <= SquareOffAt
  /\ SquareOffAt <= CloseSlot

VARIABLES
  idPhase,     \* "idle", "open" or "closed"
  idHistory,   \* closes of the days before today
  idSlot, idPrice,
  idBars,      \* today's bars that start no later than OrbEnd
  idBarShown,  \* the daily feed has a row of today
  idHeld,      \* entry of the position, or NoHolding
  idOut,       \* what the last refresh said, or NoOutput
  idFirst      \* what the session's first refresh said, or NoOutput

idVars == <<idPhase, idHistory, idSlot, idPrice, idBars, idBarShown, idHeld, idOut, idFirst>>

NoOutput == [gap |-> 0, price |-> 0, action |-> "none"]

IdInit ==
  /\ idPhase = "idle" /\ idHistory = <<>> /\ idSlot = 0 /\ idPrice = 0 /\ idBars = <<>>
  /\ idBarShown = FALSE /\ idHeld = NoHolding /\ idOut = NoOutput /\ idFirst = NoOutput

-----------------------------------------------------------------------------
(* The daily rows as the feed has them. *)
Daily(shown, price) == IF shown THEN Append(idHistory, price) ELSE idHistory

(* exclude_incomplete_today: while the market is open, today's row is dropped. *)
ClosedDays(shown, price) ==
  IF idPhase = "open" /\ shown /\ Len(idHistory) > 0 THEN idHistory ELSE Daily(shown, price)

(* compute_orb: every bar that starts up to the end of the range, the bar of
   9:30 included. *)
Orb == [high |-> Max({b.high : b \in ToSet(idBars)}),
        low  |-> Min({b.low : b \in ToSet(idBars)})]

Out(action, strength) == [action |-> action, strength |-> strength]

\* Mutant: the strong zone is looked at first and the buy zone is a band.
SignalByBand(price, gap, trend, slot) ==
  IF slot >= NoEntryAt \/ trend = "Downward" THEN Out("NO_ENTRY", 0)
  ELSE IF gap <= -2000 /\ gap > -2500 THEN Out("BUY", 2)
  ELSE Out("WAIT", 1)

(* entry_signal: the first rule that applies. *)
EntrySignal(price, gap, trend, slot) ==
  IF slot >= SquareOffAt THEN Out("SQUARE_OFF", 0)
  ELSE IF slot >= NoEntryAt \/ trend = "Downward" THEN Out("NO_ENTRY", 0)
  ELSE IF trend = "Choppy" /\ gap > -2500 THEN Out("WAIT", 0)
  ELSE IF gap <= -2500 \/ (price < Orb.low /\ gap <= -2000) THEN Out("STRONG_BUY", 3)
  ELSE IF gap <= -2000 THEN Out("BUY", 2)
  ELSE IF trend = "Upward" /\ slot <= OpenEntryUntil /\ gap \in -500 .. 500 THEN Out("BUY", 2)
  ELSE Out("WAIT", IF GapToZone(gap) < 1000 THEN 1 ELSE 0)

NoPlan == [qty |-> 0]

Qty(entry) == IdCapital \div entry

(* rupee_targets, the stop in paise below the entry. *)
RupeeTargets(entry) ==
  IF Qty(entry) <= 0 THEN NoPlan
  ELSE [qty |-> Qty(entry), entry |-> entry,
        slDiff |-> (200 * RiskRupees + Qty(entry)) \div (2 * Qty(entry)),
        targets |-> <<entry + 10, entry + 20, entry + 25>>]

(* time_exit_action: nothing ever marks a stop as tightened. *)
TimeExit(held, slot) ==
  IF held = NoHolding THEN [action |-> "none"]
  ELSE IF slot >= SquareOffAt THEN [action |-> "square_off"]
  ELSE IF slot >= TightenAt THEN [action |-> "tighten_stop", sl |-> Larger(held, held + 10 - 2)]
  ELSE [action |-> "none"]

-----------------------------------------------------------------------------
LoadDay ==
  /\ idPhase = "idle" /\ idHistory = <<>>
  /\ idHistory' \in Histories
  /\ UNCHANGED <<idPhase, idSlot, idPrice, idBars, idBarShown, idHeld, idOut, idFirst>>

OpenMarket ==
  /\ idPhase = "idle" /\ idHistory \in SessionHistories
  /\ idPhase' = "open"
  /\ \E p \in IntradayPrices : idPrice' = p /\ idBars' = <<[low |-> p, high |-> p]>>
  /\ UNCHANGED <<idHistory, idSlot, idBarShown, idHeld, idOut, idFirst>>

(* The price moves; the bar under way takes it in. *)
PriceMoves ==
  /\ idPhase = "open"
  /\ \E p \in IntradayPrices \ {idPrice} :
       /\ idPrice' = p
       /\ idBars' = IF idSlot <= OrbEnd
                    THEN [idBars EXCEPT ![idSlot + 1] =
                            [low |-> Min({p, @.low}), high |-> Max({p, @.high})]]
                    ELSE idBars
  /\ UNCHANGED <<idPhase, idHistory, idSlot, idBarShown, idHeld, idOut, idFirst>>

SlotPasses ==
  /\ idPhase = "open"
  /\ idSlot' = idSlot + 1
  /\ idPhase' = IF idSlot' = CloseSlot THEN "closed" ELSE "open"
  /\ idBars' = IF idSlot' <= OrbEnd THEN Append(idBars, [low |-> idPrice, high |-> idPrice])
               ELSE idBars
  /\ UNCHANGED <<idHistory, idPrice, idBarShown, idHeld, idOut, idFirst>>

FeedShowsToday ==
  /\ idPhase \in {"open", "closed"} /\ ~ idBarShown /\ idBarShown' = TRUE
  /\ UNCHANGED <<idPhase, idHistory, idSlot, idPrice, idBars, idHeld, idOut, idFirst>>

(* The position the strategy holds. *)
PositionTaken ==
  /\ idPhase = "open" /\ idHeld = NoHolding /\ idHeld' = idPrice
  /\ UNCHANGED <<idPhase, idHistory, idSlot, idPrice, idBars, idBarShown, idOut, idFirst>>

(* _refresh: the gap and the trend of the closed days, the range, the signal,
   its plan and the clock's exit. *)
RefreshIntraday ==
  /\ idPhase \in {"open", "closed"}
  /\ LET days == ClosedDays(idBarShown, idPrice)
         gap == Gap(idPrice, days)
         signal == EntrySignal(idPrice, gap, Trend(days), idSlot)
     IN  idOut' = [gap |-> gap, price |-> idPrice, action |-> signal.action,
                   plan |-> IF signal.action \in {"BUY", "STRONG_BUY"}
                            THEN RupeeTargets(idPrice) ELSE NoPlan,
                   exit |-> TimeExit(idHeld, idSlot)]
  /\ idFirst' = IF idFirst = NoOutput /\ idPhase = "open"
                THEN [gap |-> idOut'.gap, price |-> idPrice, action |-> "first"] ELSE idFirst
  /\ UNCHANGED <<idPhase, idHistory, idSlot, idPrice, idBars, idBarShown, idHeld>>

IdNext == \/ LoadDay \/ OpenMarket \/ PriceMoves \/ SlotPasses
          \/ FeedShowsToday \/ PositionTaken \/ RefreshIntraday

IdSpec == IdInit /\ [][IdNext]_idVars

-----------------------------------------------------------------------------
(* Through a session the gap moves rupee for rupee with the price: the average
   it is measured against contains no part of the day that is under way, with
   or without today's row in the feed. *)
GapFollowsThePrice ==
  [][idOut' # idOut /\ idFirst' # NoOutput /\ idPhase = "open" =>
       idOut'.gap - idFirst'.gap = 100 * (idOut'.price - idFirst'.price)]_idVars

(* A deeper dip is never a weaker signal: at the same moment, below the band of
   the open's trend entry, a lower price scores at least as much. *)
DeeperIsNeverWeaker ==
  idPhase = "open" =>
    \A p, q \in IntradayPrices :
      LET days == ClosedDays(idBarShown, idPrice)
          of(x) == EntrySignal(x, Gap(x, days), Trend(days), idSlot).strength
      IN  p < q /\ Gap(q, days) < -500 => of(p) >= of(q)

Opposite(trend) ==
  IF trend = "Upward" THEN "Downward" ELSE IF trend = "Downward" THEN "Upward" ELSE trend

(* Rises and falls are treated alike: the week read backwards has the opposite
   trend, so a falling week is skipped exactly when the rising one is taken. *)
TrendsMirror ==
  Len(idHistory) >= 4 /\ idPhase = "idle" =>
    Trend(Reverse(LastSeven(idHistory))) = Opposite(Trend(idHistory))

(* A plan costs no more than the capital, and its stop loses the budget up to
   half a paisa a share. *)
PlanFitsTheBudget ==
  idOut # NoOutput /\ idOut.plan # NoPlan =>
    LET plan == idOut.plan
    IN  /\ plan.qty * plan.entry <= IdCapital
        /\ Magnitude7(plan.qty * plan.slDiff - 100 * RiskRupees) * 2 <= plan.qty

(* The range of "the first `minutes` minutes after 9:15" does not change once
   those minutes are over. *)
OrbIsFixed == [][idSlot >= OrbEnd /\ idPhase = "open" => Orb' = Orb]_idVars

(* "Move stop to breakeven if not already profitable": a position that is not
   in profit at two o'clock gets its entry as the stop. *)
LoserStopsAtBreakeven ==
  idOut # NoOutput /\ idOut.exit.action = "tighten_stop" /\ idHeld >= idOut.price
    => idOut.exit.sl = idHeld

(* The intraday advice is consistent with itself across prices, days and the
   session. *)
IntradayIsConsistent ==
  /\ [](DeeperIsNeverWeaker /\ TrendsMirror /\ PlanFitsTheBudget)
  /\ GapFollowsThePrice
=============================================================================
