-------------------------- MODULE ManagedCycleProofs --------------------------
(***************************************************************************)
(* Theorems about ManagedCycle, for every value of its constants: every    *)
(* price set, ladder, number of orders and days, and every combination of  *)
(* faults and races.  MCCycleRecovery, which extends ManagedCycle, is here *)
(* for its dry scenario alone.                                             *)
(***************************************************************************)
EXTENDS MCCycleRecovery, TLAPS

-----------------------------------------------------------------------------
(* The control invariant: what each label of step() knows.                  *)

HoldingLabels == {"settle", "sell", "sell_query", "place_sell", "buy_stop",
                  "ensure", "ensure_state", "ensure_cancel", "ensure_place"}

StopLabels == {"settle", "sell_query", "ensure_state", "ensure_cancel"}

AwaitLabels == {"await", "await_cancel"}

ControlInv ==
    /\ pc \in HoldingLabels => position # None
    /\ pc \in StopLabels => position.stop # 0
    /\ pc \in {"sell", "sell_query", "place_sell"} => action # "reenter"
    /\ pc \in {"buy_check", "place_buy"} => action = "reenter" /\ position = None
    /\ pc \in AwaitLabels =>
          /\ order \in OrderIds /\ order < next_id
          /\ action = "reenter" => /\ position = None
                                   /\ orders[order].side = "BUY"
                                   /\ orders[order].qty > 0
          /\ action # "reenter" => position # None /\ orders[order].side = "SELL"

DataInv == DataOK /\ ControlInv

-----------------------------------------------------------------------------
(* The record of disturbances.                                              *)

\* What a fault, a fill or neither leaves of the record of disturbances: it
\* stays well-formed, and what was disturbed stays so.
LEMMA GlitchType ==
    ASSUME DataOK,
           NoGlitch \/ (\E f : Glitch(f)) \/ (\E i \in OrderIds : NoteFill(i))
    PROVE  glitches' \in GlitchRecord /\ (glitches'.calm => glitches.calm)
<1>1. glitches \in GlitchRecord
  BY DEF DataOK
<1>2. CASE NoGlitch
  BY <1>1, <1>2 DEF NoGlitch
<1>3. ASSUME NEW f, Glitch(f)
      PROVE  glitches' \in GlitchRecord /\ (glitches'.calm => glitches.calm)
  <2> DEFINE c == glitches.calm /\ f \in Harmless
  <2>1. c \in BOOLEAN /\ glitches.count + 1 \in Nat
    BY <1>1 DEF GlitchRecord
  <2>2. glitches' = [count |-> glitches.count + 1, calm |-> c]
    BY <1>3 DEF Glitch
  <2>3. c => glitches.calm
    OBVIOUS
  <2> HIDE DEF c
  <2> QED BY <2>1, <2>2, <2>3 DEF GlitchRecord
<1>4. ASSUME NEW i \in OrderIds, NoteFill(i)
      PROVE  glitches' \in GlitchRecord /\ (glitches'.calm => glitches.calm)
  <2> DEFINE c == glitches.calm /\ FillIsSeen(i)
  <2>1. c \in BOOLEAN
    OBVIOUS
  <2>2. glitches' = [glitches EXCEPT !.calm = c]
    BY <1>4 DEF NoteFill
  <2>3. c => glitches.calm
    OBVIOUS
  <2> HIDE DEF c
  <2> QED BY <1>1, <2>1, <2>2, <2>3 DEF GlitchRecord
<1> QED BY <1>2, <1>3, <1>4

-----------------------------------------------------------------------------
(* What the broker's calls do to the order book.                            *)

\* Nothing but Send creates an order, and it is of today: known orders keep
\* their side, day and quantity, a stop its trigger, and an order that is no
\* longer resting stays so.
BookStep ==
    /\ orders' \in [OrderIds -> Order]
    /\ next_id' \in 1..(MaxOrders + 1) /\ next_id <= next_id'
    /\ glitches' \in GlitchRecord
    /\ \A i \in OrderIds : i < next_id =>
          /\ orders'[i].side = orders[i].side
          /\ orders'[i].day = orders[i].day
          /\ orders'[i].qty = orders[i].qty
          /\ orders[i].status # "OPEN" => orders'[i].status # "OPEN"
          /\ orders[i].side = "SL" => orders'[i].px = orders[i].px
    /\ \A i \in OrderIds : orders'[i].day \in {orders[i].day, today}

\* Sending an order adds one at next_id and changes no other.
LEMMA SendBook ==
    ASSUME DataOK, NEW side \in {"BUY", "SELL", "SL"}, NEW qty \in Nat,
           NEW px \in Int, Send(side, qty, px), glitches' \in GlitchRecord
    PROVE  /\ BookStep
           /\ next_id \in OrderIds /\ next_id' = next_id + 1
           /\ orders'[next_id].side = side /\ orders'[next_id].day = today
           /\ orders'[next_id].qty = qty /\ orders'[next_id].px = px
           /\ orders'[next_id].status = "OPEN"
           /\ \A i \in OrderIds : i # next_id => orders'[i] = orders[i]
<1>1. next_id \in OrderIds /\ next_id' = next_id + 1 /\ next_id' \in 1..(MaxOrders + 1)
  BY CycleAssumption DEF DataOK, Send, OrderIds
<1> DEFINE new == [side |-> side, qty |-> qty, px |-> px, status |-> "OPEN",
                   day |-> today]
<1>2. new \in Order /\ orders' = [orders EXCEPT ![next_id] = new]
  BY DEF DataOK, Send, Order, Status
<1>3. /\ new.side = side /\ new.qty = qty /\ new.day = today
      /\ new.px = px /\ new.status = "OPEN"
  OBVIOUS
<1> HIDE DEF new
<1>4. orders' \in [OrderIds -> Order] /\ orders'[next_id] = new
  BY <1>1, <1>2 DEF DataOK
<1>5. \A i \in OrderIds : i # next_id => orders'[i] = orders[i]
  BY <1>1, <1>2 DEF DataOK, OrderIds
<1>6. next_id <= next_id'
  BY <1>1 DEF OrderIds
<1>7. \A i \in OrderIds : i < next_id => i # next_id
  BY DEF DataOK, OrderIds
<1>8. QED
  BY <1>1, <1>3, <1>4, <1>5, <1>6, <1>7 DEF BookStep

\* Placing an order answers with the id of the order it sent, or with 0.
LEMMA PlaceBook ==
    ASSUME DataOK, NEW side \in {"BUY", "SELL", "SL"}, NEW qty \in Nat,
           NEW px \in Int, NEW id \in OrderIds \cup {0}, Place(side, qty, px, id)
    PROVE  /\ BookStep
           /\ id # 0 => /\ id < next_id' /\ id = next_id
                        /\ orders'[id].side = side /\ orders'[id].day = today
                        /\ orders'[id].qty = qty
<1>1. glitches' \in GlitchRecord
  BY GlitchType DEF Place
<1>2. CASE Send(side, qty, px)
  <2>1. BookStep /\ next_id \in OrderIds /\ next_id' = next_id + 1
        /\ orders'[next_id].side = side /\ orders'[next_id].day = today
        /\ orders'[next_id].qty = qty
    BY <1>1, <1>2, SendBook
  <2>2. id = next_id \/ id = 0
    BY DEF Place
  <2> QED BY <2>1, <2>2, CycleAssumption DEF OrderIds
<1>3. CASE UNCHANGED book /\ id = 0
  BY <1>1, <1>3 DEF DataOK, BookStep, book
<1> QED BY <1>2, <1>3 DEF Place

\* So does placing a stop, which the exchange may refuse.
LEMMA PlaceStopBook ==
    ASSUME DataOK, NEW qty \in Nat, NEW trigger \in Int,
           NEW id \in OrderIds \cup {0}, PlaceStopLoss(qty, trigger, id)
    PROVE  /\ BookStep
           /\ id # 0 => /\ id < next_id' /\ id = next_id
                        /\ orders'[id].side = "SL" /\ orders'[id].day = today
<1>1. CASE trigger < price
  BY <1>1, PlaceBook DEF PlaceStopLoss
<1>2. CASE ~(trigger < price)
  BY <1>2 DEF PlaceStopLoss, DataOK, BookStep, book, NoGlitch
<1> QED BY <1>1, <1>2

\* A change of status other than to OPEN.
LEMMA SetStatusBook ==
    ASSUME DataOK, NEW i \in OrderIds, NEW s \in Status \ {"OPEN"},
           SetStatus(i, s), UNCHANGED next_id, glitches' \in GlitchRecord
    PROVE  BookStep /\ orders'[i].status = s
BY CycleAssumption DEF DataOK, SetStatus, BookStep, Order, Status

\* A cancel that answers yes leaves the order dead.
LEMMA CancelBook ==
    ASSUME DataOK, NEW i \in OrderIds, NEW ok \in BOOLEAN, Cancel(i, ok)
    PROVE  BookStep /\ (ok => orders'[i].status = "CANCELLED")
<1>1. glitches' \in GlitchRecord
  BY GlitchType DEF Cancel
<1>2. CASE SetStatus(i, "CANCELLED")
  BY <1>1, <1>2, SetStatusBook DEF Cancel, Status
<1>3. CASE UNCHANGED orders /\ ~ok
  BY <1>1, <1>3 DEF DataOK, Cancel, BookStep
<1> QED BY <1>2, <1>3 DEF Cancel

\* Calls that leave the book alone.
LEMMA SameBook ==
    ASSUME DataOK, UNCHANGED book, glitches' \in GlitchRecord
    PROVE  BookStep
BY CycleAssumption DEF DataOK, book, BookStep

-----------------------------------------------------------------------------
(* What the updates of the position do.                                     *)

\* A fresh position is well-formed and has no stop yet.
LEMMA NewPositionType ==
    ASSUME NEW entry \in Int, NEW qty \in Nat \ {0}, NEW m \in Markets
    PROVE  LET pos == NewPosition(entry, qty, m.atr)
           IN  /\ pos \in Position /\ pos # None
               /\ pos.stop = 0 /\ pos.trigger = pos.sl
<1>1. ResolveStop(m.atr) \in Int
  BY ConfigAssumption, CycleAssumption DEF ResolveStop, Market
<1>2. NewPosition(entry, qty, m.atr) \in Position
  BY <1>1 DEF NewPosition, Position
<1> QED BY <1>2, NoneAssumption DEF NewPosition

\* Observing a price moves the extremes outwards and nothing else.
LEMMA ObserveType ==
    ASSUME NEW pos \in Position, NEW p \in Int
    PROVE  /\ Observe(pos, p) \in Position /\ Observe(pos, p) # None
           /\ Observe(pos, p).high >= pos.high
           /\ Observe(pos, p).stop = pos.stop
           /\ Observe(pos, p).trigger = pos.trigger
           /\ Observe(pos, p).sl = pos.sl
           /\ Observe(pos, p).entry = pos.entry
           /\ Observe(pos, p).placed_on = pos.placed_on
<1>1. Observe(pos, p) \in Position
  BY DEF Observe, Position
<1>2. /\ Observe(pos, p).high >= pos.high
      /\ Observe(pos, p).stop = pos.stop
      /\ Observe(pos, p).trigger = pos.trigger
      /\ Observe(pos, p).sl = pos.sl
      /\ Observe(pos, p).entry = pos.entry
      /\ Observe(pos, p).placed_on = pos.placed_on
  BY DEF Observe, Position
<1> QED BY <1>1, <1>2, NoneAssumption

\* What step() stores of the extremes leaves the rest of the position alone,
\* and widens them if they are still the ones it read.
LEMMA DecideStores ==
    ASSUME DataOK, SeenOK, DecideStep, position # None
    PROVE  /\ position' \in Position /\ position' # None
           /\ position'.stop = position.stop
           /\ position'.trigger = position.trigger
           /\ position'.sl = position.sl
           /\ position'.entry = position.entry
           /\ position'.placed_on = position.placed_on
           /\ seen = [high |-> position.high, low |-> position.low] =>
                position'.high >= position.high /\ position'.low <= position.low
<1>1. position \in Position
  BY DEF DataOK
<1>2. Known \in Position
  BY <1>1 DEF Known, SeenOK, Position
<1>3. PICK p \in Int : position' = Stored(Observe(Known, p))
  <2>1. price \in Int /\ Quotes \subseteq Int
    BY CycleAssumption DEF DataOK, Quotes
  <2> QED BY <2>1 DEF DecideStep
<1>4. Observe(Known, p) \in Position
  BY <1>2, ObserveType
<1>5. position' \in Position
  BY <1>1, <1>3, <1>4 DEF Stored, SeenOK, Position
<1>6. /\ position'.stop = position.stop
      /\ position'.trigger = position.trigger
      /\ position'.sl = position.sl
      /\ position'.entry = position.entry
      /\ position'.placed_on = position.placed_on
  BY <1>1, <1>3 DEF Stored, Position
<1>7. ASSUME seen = [high |-> position.high, low |-> position.low]
      PROVE  position'.high >= position.high /\ position'.low <= position.low
  <2>1. Known.high = position.high /\ Known.low = position.low
    BY <1>1, <1>7 DEF Known, Position
  <2>2. /\ Observe(Known, p).high >= position.high
        /\ Observe(Known, p).low <= position.low
    BY <1>1, <1>2, <2>1 DEF Observe, Position
  <2> QED BY <1>1, <1>3, <2>2 DEF Stored, Position
<1> QED BY <1>5, <1>6, <1>7, NoneAssumption

\* The levels a stop can be wanted at are integers.
LEMMA StopLevelsType ==
    ASSUME position \in Position
    PROVE  StopLevels \subseteq Int
BY ConfigAssumption DEF StopLevels, TouchedRungs, Ladder, Position

\* Recording a stop keeps the position well-formed.
LEMMA RecordStopType ==
    ASSUME position \in Position, today \in Int,
           NEW id \in OrderIds \cup {0}, NEW d \in Int, RecordStop(id, d)
    PROVE  /\ position' \in Position /\ position' # None
           /\ position'.stop = id /\ position'.trigger = d
           /\ position'.placed_on = today
           /\ position'.sl = position.sl /\ position'.entry = position.entry
           /\ position'.high = position.high /\ position'.low = position.low
<1>1. position' \in Position
  BY DEF RecordStop, Position
<1>2. position' # None
  BY <1>1, NoneAssumption
<1> QED BY <1>1, <1>2 DEF RecordStop, Position

\* Booking an exit closes the position and keeps the tally well-formed.
LEMMA RecordExitType ==
    ASSUME DataOK, position # None, NEW px \in Int, NEW qty \in Int,
           NEW is_stop \in BOOLEAN, RecordExit(px, qty, is_stop)
    PROVE  position' = None /\ day' \in Int /\ pnl_today' \in Int
<1>1. position \in Position
  BY DEF DataOK
<1>2. position' = None /\ day' \in Int
  BY DEF DataOK, RecordExit, ClearPosition
<1>3. (px - position.entry) * qty \in Int
  BY <1>1 DEF Position
<1>4. pnl_today' \in Int
  BY <1>3, CycleAssumption DEF DataOK, RecordExit
<1> QED BY <1>2, <1>4

\* Booking a filled resting stop is such an exit.
LEMMA BookStopFillType ==
    ASSUME DataOK, position # None, position.stop # 0, BookStopFill
    PROVE  position' = None /\ day' \in Int /\ pnl_today' \in Int
<1>1. position \in Position /\ position.stop \in OrderIds
  BY DEF DataOK, Position
<1>2. orders[position.stop].px \in Int /\ orders[position.stop].qty \in Int
  BY <1>1 DEF DataOK, Order
<1>3. StopWasProtective \in BOOLEAN
  BY DEF StopWasProtective
<1> QED BY <1>2, <1>3, RecordExitType DEF BookStopFill

-----------------------------------------------------------------------------
(* Type correctness.                                                        *)

\* The initial states satisfy the type and the control invariant.
LEMMA InitType == Init => DataInv /\ FlagsOK /\ SeenOK
<1> SUFFICES ASSUME Init PROVE DataInv /\ FlagsOK /\ SeenOK
  OBVIOUS
<1>1. NoOrder \in Order
  BY DEF NoOrder, Order, Status
<1>2. orders \in [OrderIds -> Order]
  BY <1>1 DEF Init
<1>3. DataOK
  <2>1. [count |-> 0, calm |-> TRUE] \in GlitchRecord
    BY DEF GlitchRecord
  <2> QED BY <1>2, <2>1, CycleAssumption DEF Init, DataOK, Labels
<1>4. ControlInv
  BY DEF Init, ControlInv, HoldingLabels, StopLabels, AwaitLabels
<1>5. FlagsOK
  BY DEF Init, FlagsOK
<1>6. SeenOK
  BY DEF Init, SeenOK, NothingSeen
<1> QED BY <1>3, <1>4, <1>5, <1>6 DEF DataInv

\* Every update of a flag leaves it a Boolean.
LEMMA FlagsStep == FlagsOK /\ [Next]_vars => FlagsOK'
<1> SUFFICES ASSUME FlagsOK, [Next]_vars PROVE FlagsOK'
  OBVIOUS
<1> USE DEF FlagsOK
<1>1. ASSUME UNCHANGED <<exit_requested, halted, tally, stop_hit, exit_stale>>
      PROVE  FlagsOK'
  BY <1>1 DEF tally
<1>2. ASSUME UNCHANGED <<exit_requested, halted, stop_hit>>,
             \E px, qty : RecordExit(px, qty, StopWasProtective)
                          \/ RecordExit(px, qty, action = "exit_sl")
      PROVE  FlagsOK'
  BY <1>2 DEF RecordExit, ClearPosition, StopWasProtective
<1>3. ASSUME UNCHANGED <<exit_requested, halted, tally, stop_hit>>, ClearPosition
      PROVE  FlagsOK'
  BY <1>3 DEF tally, ClearPosition
<1>4. CASE StepBegin
  BY <1>4 DEF StepBegin, MaybeRollDay, account, tally
<1>5. CASE FoundClosed
  BY <1>1, <1>3, <1>5 DEF FoundClosed, account, tally
<1>6. CASE SettleClosedPosition
  BY <1>2, <1>3, <1>6 DEF SettleClosedPosition, BookStopFill, account
<1>7. CASE DecideStep
  BY <1>7 DEF DecideStep, tally, account
<1>8. CASE SellQueriesStop
  BY <1>1, <1>2, <1>8 DEF SellQueriesStop, BookStopFill, account
<1>9. CASE FillConfirmed
  BY <1>1, <1>2, <1>9 DEF FillConfirmed, account
<1>10. CASE DataOnlyStep
  BY <1>10 DEF DataOnlyStep, MaybeRollDay, account, tally
<1>11. CASE RequestExit \/ SetHalted(TRUE) \/ SetHalted(FALSE)
  BY <1>11 DEF RequestExit, SetHalted, tally, account
<1>12. CASE \E i \in OrderIds : StopFills(i) \/ LimitFills(i)
  BY <1>12 DEF StopFills, LimitFills, Sold, file, tally
<1>13. CASE CooldownElapses \/ NextDay
  BY <1>13 DEF CooldownElapses, NextDay, account
<1>14. CASE \/ Adopt \/ HeldUnremarkable \/ SellCancelsStop \/ PlaceSell
             \/ BuyChecks \/ PlaceBuy \/ PlaceInitialStop \/ OrderFailed
             \/ WindowEnds \/ CancelUnfilled \/ EnsureStop
             \/ EnsureQueriesStop \/ EnsureCancelsStop \/ EnsurePlacesStop
  BY <1>1, <1>14 DEF Adopt, HeldUnremarkable, SellCancelsStop, PlaceSell,
       PlaceOrder, BuyChecks, PlaceBuy, PlaceInitialStop, OrderFailed,
       WindowEnds, CancelUnfilled, EnsureStop, EnsureQueriesStop,
       EnsureCancelsStop, EnsurePlacesStop, file, account
<1>15. CASE \/ Crash \/ MovePrice \/ ManualBuy \/ ManualSell
             \/ (\E i \in OrderIds : Rejects(i)) \/ UNCHANGED vars
  BY <1>1, <1>15 DEF Crash, MovePrice, ManualBuy, ManualSell, Rejects, vars,
       file, account
<1> QED BY <1>4, <1>5, <1>6, <1>7, <1>8, <1>9, <1>10, <1>11, <1>12, <1>13,
           <1>14, <1>15 DEF Next, Step, Environment

\* A sale moves the account's tally by an integer.
LEMMA SoldType ==
    ASSUME DataOK, NEW qty \in Nat, NEW px \in Int, NEW s, Sold(qty, px, s)
    PROVE  shares' \in Int /\ cost' \in Int /\ account_pnl' \in Int
<1>1. (px - cost) * qty \in Int
  BY DEF DataOK
<1> QED BY <1>1, CycleAssumption DEF DataOK, Sold

\* Every step keeps that record well-formed, and what was disturbed stays so.
LEMMA StepGlitches ==
    ASSUME DataInv, [Next]_vars
    PROVE  glitches' \in GlitchRecord /\ (glitches'.calm => glitches.calm)
<1> SUFFICES NoGlitch \/ (\E f : Glitch(f)) \/ (\E i \in OrderIds : NoteFill(i))
  BY GlitchType DEF DataInv
<1> USE DEF NoGlitch, Query, Cancel, Place, PlaceStopLoss
<1>1. CASE StepBegin \/ FoundClosed \/ Adopt \/ HeldUnremarkable
  BY <1>1 DEF StepBegin, FoundClosed, Adopt, HeldUnremarkable
<1>2. CASE SettleClosedPosition \/ DecideStep
  BY <1>2 DEF SettleClosedPosition, DecideStep
<1>3. CASE SellCancelsStop \/ SellQueriesStop \/ PlaceSell
  BY <1>3 DEF SellCancelsStop, SellQueriesStop, PlaceSell, PlaceOrder
<1>4. CASE BuyChecks \/ PlaceBuy \/ PlaceInitialStop
  BY <1>4 DEF BuyChecks, PlaceBuy, PlaceOrder, PlaceInitialStop
<1>5. CASE FillConfirmed \/ OrderFailed \/ WindowEnds \/ CancelUnfilled
  BY <1>5 DEF FillConfirmed, OrderFailed, WindowEnds, CancelUnfilled
<1>6. CASE EnsureStop \/ EnsureQueriesStop \/ EnsureCancelsStop \/ EnsurePlacesStop
  BY <1>6 DEF EnsureStop, EnsureQueriesStop, EnsureCancelsStop, EnsurePlacesStop
<1>7. CASE Crash \/ Environment
  BY <1>7 DEF Crash, Environment, DataOnlyStep, RequestExit, SetHalted,
       MovePrice, StopFills, LimitFills, Rejects, ManualBuy, ManualSell,
       CooldownElapses, NextDay
<1>8. CASE UNCHANGED vars
  BY <1>8 DEF vars
<1> QED BY <1>1, <1>2, <1>3, <1>4, <1>5, <1>6, <1>7, <1>8 DEF Next, Step

\* Every step is a BookStep: no call, fill or fault revives an order, or
\* changes what it was for.
LEMMA StepBook ==
    ASSUME DataInv, [Next]_vars
    PROVE  BookStep
<1> USE DEF DataInv
<1>1. glitches' \in GlitchRecord
  BY StepGlitches
<1>2. pc \in HoldingLabels =>
        /\ position \in Position /\ position.qty \in Nat /\ position.sl \in Int
        /\ StopLevels \subseteq Int
        /\ position.stop # 0 => position.stop \in OrderIds
  BY StopLevelsType DEF ControlInv, DataOK, Position
<1>3. CASE UNCHANGED book
  BY <1>1, <1>3, SameBook
<1>4. CASE SellCancelsStop \/ EnsureCancelsStop
  <2>1. UNCHANGED book \/ \E ok \in BOOLEAN : Cancel(position.stop, ok)
    BY <1>4 DEF SellCancelsStop, EnsureCancelsStop
  <2>2. position.stop # 0 => position.stop \in OrderIds
    BY <1>2, <1>4 DEF SellCancelsStop, EnsureCancelsStop, At, HoldingLabels
  <2>3. EnsureCancelsStop => position.stop # 0
    BY DEF EnsureCancelsStop, At, ControlInv, StopLabels
  <2>4. SellCancelsStop /\ ~UNCHANGED book => position.stop # 0
    BY DEF SellCancelsStop
  <2> QED BY <1>3, <1>4, <2>1, <2>2, <2>3, <2>4, CancelBook
<1>5. CASE CancelUnfilled
  <2>1. order \in OrderIds
    BY <1>5 DEF CancelUnfilled, At, ControlInv, AwaitLabels
  <2> QED BY <1>5, <2>1, CancelBook DEF CancelUnfilled
<1>6. CASE PlaceSell \/ PlaceBuy
  <2>1. PlaceSell => position.qty \in Nat
    BY <1>2 DEF PlaceSell, PlaceOrder, At, HoldingLabels
  <2> QED BY <1>6, <2>1, PlaceBook, CycleAssumption DEF PlaceSell, PlaceBuy, PlaceOrder
<1>7. CASE PlaceInitialStop \/ EnsurePlacesStop
  <2>1. /\ position.qty \in Nat /\ position.sl \in Int
        /\ StopLevels \subseteq Int
    BY <1>2, <1>7 DEF PlaceInitialStop, EnsurePlacesStop, At, HoldingLabels
  <2>2. PICK id \in OrderIds \cup {0}, d \in StopLevels \cup {position.sl} :
          PlaceStopLoss(position.qty, d, id) \/ Send("SL", position.qty, d)
    BY <1>7 DEF PlaceInitialStop, EnsurePlacesStop
  <2>3. d \in Int
    BY <2>1, <2>2
  <2> QED BY <1>1, <2>1, <2>2, <2>3, PlaceStopBook, SendBook
<1>8. ASSUME NEW i \in OrderIds, StopFills(i) \/ Rejects(i)
      PROVE  BookStep
  BY <1>1, <1>8, SetStatusBook DEF StopFills, Rejects, Status
<1>9. ASSUME NEW i \in OrderIds, LimitFills(i)
      PROVE  BookStep
  <2>1. price \in Int
    BY CycleAssumption DEF DataOK
  <2>2. orders' = [orders EXCEPT ![i].status = "COMPLETE", ![i].px = price]
        /\ UNCHANGED next_id
    BY <1>9 DEF LimitFills
  <2>3. orders' \in [OrderIds -> Order]
    BY <2>1, <2>2 DEF DataOK, Order, Status
  <2> QED BY <1>1, <2>2, <2>3, CycleAssumption DEF BookStep, DataOK, Order
<1>10. \/ UNCHANGED book \/ SellCancelsStop \/ EnsureCancelsStop
       \/ CancelUnfilled \/ PlaceSell \/ PlaceBuy \/ PlaceInitialStop
       \/ EnsurePlacesStop
       \/ \E i \in OrderIds : StopFills(i) \/ Rejects(i) \/ LimitFills(i)
  BY DEF Next, Step, StepBegin, FoundClosed, Adopt, HeldUnremarkable,
     SettleClosedPosition, DecideStep, SellQueriesStop, BuyChecks, FillConfirmed,
     OrderFailed, WindowEnds, EnsureStop, EnsureQueriesStop, Crash, Environment,
     DataOnlyStep, RequestExit, SetHalted, MovePrice, ManualBuy, ManualSell,
     CooldownElapses, NextDay, vars
<1> QED BY <1>3, <1>4, <1>5, <1>6, <1>7, <1>8, <1>9, <1>10

\* The steps of the tracker that only read, decide and settle.
LEMMA DecidingStepType ==
    ASSUME DataInv, SeenOK,
           \/ StepBegin \/ FoundClosed \/ Adopt \/ HeldUnremarkable
           \/ SettleClosedPosition \/ DecideStep
    PROVE  DataInv'
<1> USE DEF DataInv
<1>1. CASE StepBegin
  <2>1. DataOK'
    BY <1>1 DEF DataOK, StepBegin, MaybeRollDay, Labels, tally, account, book
  <2>2. ControlInv'
    BY <1>1 DEF ControlInv, StepBegin, HoldingLabels, StopLabels, AwaitLabels
  <2> QED BY <2>1, <2>2
<1>2. CASE FoundClosed
  <2>1. DataOK'
    BY <1>2 DEF DataOK, FoundClosed, Goto, Return, ClearPosition, Labels,
         tally, account, book, OrderIds
  <2>2. ControlInv'
    BY <1>2 DEF ControlInv, FoundClosed, Goto, Return, HoldingLabels,
         StopLabels, AwaitLabels
  <2> QED BY <2>1, <2>2
<1>3. CASE Adopt
  <2>1. position' \in Position /\ position' # None
    <3>1. cost \in Int /\ shares \in Nat \ {0}
      BY <1>3 DEF DataOK, Adopt
    <3> QED BY <1>3, <3>1, NewPositionType DEF Adopt
  <2>2. DataOK'
    BY <1>3, <2>1 DEF DataOK, Adopt, Labels, tally, account, book
  <2>3. ControlInv'
    BY <1>3, <2>1 DEF ControlInv, Adopt, HoldingLabels, StopLabels, AwaitLabels
  <2> QED BY <2>2, <2>3
<1>4. CASE HeldUnremarkable
  <2>1. glitches' \in GlitchRecord
    BY <1>4, GlitchType DEF HeldUnremarkable
  <2>2. DataOK'
    BY <1>4, <2>1 DEF DataOK, HeldUnremarkable, Goto, Labels, file, tally,
         account, book
  <2>3. ControlInv'
    BY <1>4 DEF ControlInv, HeldUnremarkable, Goto, HoldingLabels, StopLabels,
         AwaitLabels
  <2> QED BY <2>2, <2>3
<1>5. CASE SettleClosedPosition
  <2>1. position # None /\ position.stop # 0
    BY <1>5 DEF SettleClosedPosition, At, ControlInv, HoldingLabels, StopLabels
  <2>2. position' = None /\ day' \in Int /\ pnl_today' \in Int
    <3>1. CASE BookStopFill
      BY <2>1, <3>1, BookStopFillType
    <3>2. CASE ClearPosition /\ UNCHANGED tally
      BY <3>2 DEF ClearPosition, tally, DataOK
    <3> QED BY <1>5, <3>1, <3>2 DEF SettleClosedPosition
  <2>3. glitches' \in GlitchRecord
    BY <1>5, GlitchType DEF SettleClosedPosition, Query
  <2>4. DataOK'
    BY <1>5, <2>2, <2>3 DEF DataOK, SettleClosedPosition, Return, Labels,
         account, book
  <2>5. ControlInv'
    BY <1>5 DEF ControlInv, SettleClosedPosition, Return, HoldingLabels,
         StopLabels, AwaitLabels
  <2> QED BY <2>4, <2>5
<1>6. CASE DecideStep
  <2>1. glitches' \in GlitchRecord
    BY <1>6, GlitchType DEF DecideStep
  <2>2. CASE position = None
    <3>1. UNCHANGED position /\ \E d \in {"reenter", "wait"} : Dispatch(d)
      BY <1>6, <2>2 DEF DecideStep, DecideFlat
    <3>2. /\ pc' \in {"idle", "buy_check"}
          /\ action' \in {"none", "reenter"}
          /\ pc' = "buy_check" => action' = "reenter"
          /\ order' \in OrderIds \cup {0} /\ after' \in {"idle", "quote"}
      BY <3>1 DEF Dispatch, EnsureStopThen, Return, DataOK
    <3>3. DataOK'
      BY <1>6, <2>1, <3>1, <3>2 DEF DataOK, DecideStep, Labels, tally, account, book
    <3>4. ControlInv'
      BY <2>2, <3>1, <3>2 DEF ControlInv, HoldingLabels, StopLabels, AwaitLabels
    <3> QED BY <3>3, <3>4
  <2>3. CASE position # None
    <3>1. position' \in Position /\ position' # None
      BY <1>6, <2>3, DecideStores
    <3>2. \E d \in {"sell", "exit_sl", "hold"} : Dispatch(d)
      BY <1>6, <2>3 DEF DecideStep, DecideHeld
    <3>3. /\ pc' \in {"idle", "sell", "ensure"}
          /\ action' \in {"none", "sell", "exit_sl", action}
          /\ pc' = "sell" => action' # "reenter"
          /\ order' \in OrderIds \cup {0} /\ after' \in {"idle", "quote"}
      BY <3>2 DEF Dispatch, EnsureStopThen, Return, DataOK
    <3>4. DataOK'
      BY <1>6, <2>1, <3>1, <3>3 DEF DataOK, DecideStep, Labels, tally, account, book
    <3>5. ControlInv'
      BY <3>1, <3>3 DEF ControlInv, HoldingLabels, StopLabels, AwaitLabels
    <3> QED BY <3>4, <3>5
  <2> QED BY <2>2, <2>3
<1> QED BY <1>1, <1>2, <1>3, <1>4, <1>5, <1>6

\* The steps of _execute_sell.
LEMMA SellingStepType ==
    ASSUME DataInv, SellCancelsStop \/ SellQueriesStop \/ PlaceSell
    PROVE  DataInv'
<1> USE DEF DataInv
<1>1. CASE SellCancelsStop
  <2>1. position # None /\ position \in Position /\ action # "reenter"
    BY <1>1 DEF SellCancelsStop, At, ControlInv, HoldingLabels, DataOK
  <2>2. /\ BookStep /\ Goto(pc') /\ pc' \in {"place_sell", "sell_query"}
        /\ pc' = "sell_query" => position.stop # 0
    BY <1>1, StepBook DEF SellCancelsStop, Goto, Next, Step
  <2>3. DataOK'
    BY <1>1, <2>2 DEF DataOK, SellCancelsStop, BookStep, Goto, Labels, file,
         tally, account
  <2>4. ControlInv'
    BY <1>1, <2>1, <2>2 DEF ControlInv, SellCancelsStop, Goto, HoldingLabels,
         StopLabels, AwaitLabels, file
  <2> QED BY <2>3, <2>4
<1>2. CASE SellQueriesStop
  <2>1. position # None /\ position.stop # 0 /\ action # "reenter"
    BY <1>2 DEF SellQueriesStop, At, ControlInv, HoldingLabels, StopLabels
  <2>2. /\ position' \in {position, None} /\ day' \in Int /\ pnl_today' \in Int
        /\ pc' \in {"idle", "place_sell"}
        /\ pc' = "place_sell" => position' = position /\ action' = action
        /\ action' \in {action, "none"}
        /\ order' \in {order, 0} /\ after' \in {after, "idle"}
    <3>1. CASE BookStopFill /\ Return
      BY <2>1, <3>1, BookStopFillType DEF Return
    <3>2. CASE UNCHANGED <<position, tally, exit_stale>> /\ (Goto("place_sell") \/ Return)
      BY <3>2 DEF Goto, Return, tally, DataOK
    <3> QED BY <1>2, <3>1, <3>2 DEF SellQueriesStop
  <2>3. glitches' \in GlitchRecord
    BY <1>2, GlitchType DEF SellQueriesStop, Query
  <2>4. DataOK'
    BY <1>2, <2>2, <2>3 DEF DataOK, SellQueriesStop, Labels, account, book
  <2>5. ControlInv'
    BY <2>1, <2>2 DEF ControlInv, HoldingLabels, StopLabels, AwaitLabels
  <2> QED BY <2>4, <2>5
<1>3. CASE PlaceSell
  <2>1. position # None /\ position \in Position /\ action # "reenter"
    BY <1>3 DEF PlaceSell, PlaceOrder, At, ControlInv, HoldingLabels, DataOK
  <2>2. PICK id \in OrderIds \cup {0} :
          /\ Place("SELL", position.qty, 0, id)
          /\ IF id = 0 THEN EnsureStopThen("idle")
             ELSE pc' = "await" /\ order' = id /\ UNCHANGED <<action, after>>
    BY <1>3 DEF PlaceSell, PlaceOrder
  <2>3. BookStep /\ (id # 0 => id < next_id' /\ orders'[id].side = "SELL")
    <3>1. position.qty \in Nat
      BY <2>1 DEF Position
    <3> QED BY <2>2, <3>1, PlaceBook
  <2>4. DataOK'
    BY <1>3, <2>2, <2>3 DEF DataOK, PlaceSell, PlaceOrder, EnsureStopThen,
         BookStep, Labels, file, tally, account
  <2>5. ControlInv'
    BY <1>3, <2>1, <2>2, <2>3 DEF ControlInv, PlaceSell, PlaceOrder, DataOK,
         EnsureStopThen, HoldingLabels, StopLabels, AwaitLabels, file
  <2> QED BY <2>4, <2>5
<1> QED BY <1>1, <1>2, <1>3

\* The steps of _execute_buy.
LEMMA BuyingStepType ==
    ASSUME DataInv, BuyChecks \/ PlaceBuy \/ PlaceInitialStop
    PROVE  DataInv'
<1> USE DEF DataInv
<1>1. CASE BuyChecks
  <2>1. glitches' \in GlitchRecord
    BY <1>1, GlitchType DEF BuyChecks
  <2>2. DataOK'
    BY <1>1, <2>1 DEF DataOK, BuyChecks, Goto, Return, Labels, file, tally,
         account, book
  <2>3. ControlInv'
    BY <1>1 DEF ControlInv, BuyChecks, At, Goto, Return, HoldingLabels,
         StopLabels, AwaitLabels, file
  <2> QED BY <2>2, <2>3
<1>2. CASE PlaceBuy
  <2>1. position = None /\ action = "reenter"
    BY <1>2 DEF PlaceBuy, PlaceOrder, At, ControlInv
  <2>2. PICK id \in OrderIds \cup {0} :
          /\ Place("BUY", Qty, 0, id)
          /\ IF id = 0 THEN Return
             ELSE pc' = "await" /\ order' = id /\ UNCHANGED <<action, after>>
    BY <1>2 DEF PlaceBuy, PlaceOrder
  <2>3. /\ BookStep
        /\ id # 0 => /\ id < next_id' /\ orders'[id].side = "BUY"
                     /\ orders'[id].qty > 0
    BY <2>2, PlaceBook, CycleAssumption
  <2>4. DataOK'
    BY <1>2, <2>2, <2>3 DEF DataOK, PlaceBuy, PlaceOrder, Return,
         BookStep, Labels, file, tally, account
  <2>5. ControlInv'
    BY <1>2, <2>1, <2>2, <2>3 DEF ControlInv, PlaceBuy, PlaceOrder, DataOK,
         Return, HoldingLabels, StopLabels, AwaitLabels, file
  <2> QED BY <2>4, <2>5
<1>3. CASE PlaceInitialStop
  <2>1. position # None /\ position \in Position
    BY <1>3 DEF PlaceInitialStop, At, ControlInv, HoldingLabels, DataOK
  <2>2. position.qty \in Nat /\ position.sl \in Int
    BY <2>1 DEF Position
  <2>3. PICK id \in OrderIds \cup {0} :
          \/ PlaceStopLoss(position.qty, position.sl, id) /\ RecordStop(id, position.sl)
          \/ /\ Send("SL", position.qty, position.sl) /\ Glitch("crash")
             /\ UNCHANGED position
    BY <1>3 DEF PlaceInitialStop
  <2>4. BookStep
    BY <1>3, StepBook DEF Next, Step
  <2>5. position' \in Position
    <3>1. CASE RecordStop(id, position.sl)
      BY <2>1, <2>2, <3>1, RecordStopType DEF DataOK
    <3> QED BY <2>1, <2>3, <3>1
  <2>6. DataOK'
    BY <1>3, <2>4, <2>5 DEF DataOK, PlaceInitialStop, Return, BookStep, Labels,
         tally, account
  <2>7. ControlInv'
    BY <1>3 DEF ControlInv, PlaceInitialStop, Return, HoldingLabels, StopLabels,
         AwaitLabels
  <2> QED BY <2>6, <2>7
<1> QED BY <1>1, <1>2, <1>3

\* The steps of _await_fill.
LEMMA AwaitingStepType ==
    ASSUME DataInv, FillConfirmed \/ OrderFailed \/ WindowEnds \/ CancelUnfilled
    PROVE  DataInv'
<1> USE DEF DataInv
<1>1. pc \in AwaitLabels
  BY DEF FillConfirmed, OrderFailed, WindowEnds, CancelUnfilled, At, AwaitLabels
<1>2. /\ order \in OrderIds /\ order < next_id
      /\ action = "reenter" => position = None /\ orders[order].side = "BUY"
                                /\ orders[order].qty > 0
      /\ action # "reenter" => position # None /\ orders[order].side = "SELL"
  BY <1>1 DEF ControlInv
<1>3. orders[order] \in Order
  BY <1>2 DEF DataOK
<1>4. CASE FillConfirmed
  <2>1. CASE orders[order].side = "SELL"
    <3>1. position # None /\ position \in Position
      BY <1>2, <2>1 DEF DataOK
    <3>2. orders[order].px \in Int /\ position.qty \in Int
      BY <1>3, <3>1 DEF Order, Position
    <3>3. (action = "exit_sl") \in BOOLEAN
      OBVIOUS
    <3>4. position' = None /\ day' \in Int /\ pnl_today' \in Int
      BY <1>4, <2>1, <3>1, <3>2, <3>3, RecordExitType DEF FillConfirmed
    <3>5. DataOK'
      BY <1>4, <2>1, <3>4 DEF DataOK, FillConfirmed, Return, Labels, account, book
    <3>6. ControlInv'
      BY <1>4, <2>1 DEF ControlInv, FillConfirmed, Return, HoldingLabels,
           StopLabels, AwaitLabels
    <3> QED BY <3>5, <3>6
  <2>2. CASE orders[order].side # "SELL"
    <3>1. orders[order].px \in Int /\ orders[order].qty \in Nat \ {0}
      BY <1>2, <1>3, <2>2 DEF Order
    <3>2. position' \in Position /\ position' # None
      BY <1>4, <2>2, <3>1, NewPositionType DEF FillConfirmed
    <3>3. DataOK'
      BY <1>4, <2>2, <3>2 DEF DataOK, FillConfirmed, Goto, Labels, tally,
           account, book
    <3>4. ControlInv'
      BY <1>4, <2>2, <3>2 DEF ControlInv, FillConfirmed, Goto, HoldingLabels,
           StopLabels, AwaitLabels
    <3> QED BY <3>3, <3>4
  <2> QED BY <2>1, <2>2
<1>5. CASE OrderFailed
  <2>1. DataOK'
    BY <1>5 DEF DataOK, OrderFailed, NotFilled, Return, EnsureStopThen, Labels,
         file, tally, account, book
  <2>2. ControlInv'
    BY <1>2, <1>5 DEF ControlInv, OrderFailed, NotFilled, Return,
         EnsureStopThen, HoldingLabels, StopLabels, AwaitLabels, file
  <2> QED BY <2>1, <2>2
<1>6. CASE WindowEnds
  <2>1. glitches' \in GlitchRecord
    BY <1>6, GlitchType DEF WindowEnds, NoGlitch
  <2>2. DataOK'
    BY <1>6, <2>1 DEF DataOK, WindowEnds, Goto, Labels, file, tally, account, book
  <2>3. ControlInv'
    BY <1>2, <1>6 DEF ControlInv, WindowEnds, Goto, HoldingLabels, StopLabels,
         AwaitLabels, file, book
  <2> QED BY <2>2, <2>3
<1>7. CASE CancelUnfilled
  <2>1. BookStep
    BY <1>7, StepBook DEF Next, Step
  <2>2. DataOK'
    BY <1>7, <2>1 DEF DataOK, CancelUnfilled, NotFilled, Return, EnsureStopThen,
         BookStep, Labels, file, tally, account
  <2>3. ControlInv'
    BY <1>2, <1>7 DEF ControlInv, CancelUnfilled, NotFilled, Return,
         EnsureStopThen, HoldingLabels, StopLabels, AwaitLabels, file
  <2> QED BY <2>2, <2>3
<1> QED BY <1>4, <1>5, <1>6, <1>7

\* The steps of _ensure_protective_stop.
LEMMA EnsuringStepType ==
    ASSUME DataInv,
           EnsureStop \/ EnsureQueriesStop \/ EnsureCancelsStop \/ EnsurePlacesStop
    PROVE  DataInv'
<1> USE DEF DataInv
<1>1. position # None /\ position \in Position
  BY DEF EnsureStop, EnsureQueriesStop, EnsureCancelsStop, EnsurePlacesStop, At,
       ControlInv, HoldingLabels, DataOK
<1>2. CASE EnsureStop
  <2>1. DataOK'
    BY <1>2 DEF DataOK, EnsureStop, Goto, Labels, file, tally, account, book
  <2>2. ControlInv'
    BY <1>1, <1>2 DEF ControlInv, EnsureStop, Goto, HoldingLabels, StopLabels,
         AwaitLabels, file
  <2> QED BY <2>1, <2>2
<1>3. CASE EnsureQueriesStop
  <2>1. glitches' \in GlitchRecord
    BY <1>3, GlitchType DEF EnsureQueriesStop, Query
  <2>2. position.stop # 0
    BY <1>3 DEF EnsureQueriesStop, At, ControlInv, StopLabels
  <2>3. DataOK'
    BY <1>3, <2>1 DEF DataOK, EnsureQueriesStop, Goto, StopEnsured, Return,
         Labels, file, tally, account, book
  <2>4. ControlInv'
    BY <1>1, <1>3, <2>2 DEF ControlInv, EnsureQueriesStop, Goto, StopEnsured,
         Return, DataOK, HoldingLabels, StopLabels, AwaitLabels, file
  <2> QED BY <2>3, <2>4
<1>4. CASE EnsureCancelsStop
  <2>1. BookStep
    BY <1>4, StepBook DEF Next, Step
  <2>2. DataOK'
    BY <1>4, <2>1 DEF DataOK, EnsureCancelsStop, Goto, BookStep, Labels, file,
         tally, account
  <2>3. ControlInv'
    BY <1>1, <1>4 DEF ControlInv, EnsureCancelsStop, Goto, HoldingLabels,
         StopLabels, AwaitLabels, file
  <2> QED BY <2>2, <2>3
<1>5. CASE EnsurePlacesStop
  <2>1. PICK id \in OrderIds \cup {0}, d \in StopLevels :
          \/ /\ PlaceStopLoss(position.qty, d, id)
             /\ RecordStop(id, d) /\ StopEnsured
          \/ /\ Send("SL", position.qty, d) /\ Glitch("crash")
             /\ UNCHANGED position /\ Return
    BY <1>5 DEF EnsurePlacesStop
  <2>2. d \in Int /\ position.qty \in Nat
    BY <1>1, StopLevelsType DEF Position
  <2>3. BookStep
    BY <1>5, StepBook DEF Next, Step
  <2>4. position' \in Position
    <3>1. CASE RecordStop(id, d)
      BY <1>1, <2>2, <3>1, RecordStopType DEF DataOK
    <3> QED BY <1>1, <2>1, <3>1
  <2>5. pc' \in {"idle", "quote"} /\ action' \in {action, "none"}
        /\ order' \in {order, 0} /\ after' = "idle"
    BY <2>1 DEF StopEnsured, Return, DataOK
  <2>6. DataOK'
    BY <1>5, <2>3, <2>4, <2>5 DEF DataOK, EnsurePlacesStop, BookStep, Labels,
         tally, account
  <2>7. ControlInv'
    BY <2>5 DEF ControlInv, HoldingLabels, StopLabels, AwaitLabels
  <2> QED BY <2>6, <2>7
<1> QED BY <1>2, <1>3, <1>4, <1>5

\* A crash, and the steps of the other writers of the file.
LEMMA OtherWritersType ==
    ASSUME DataInv,
           \/ Crash \/ DataOnlyStep \/ RequestExit \/ SetHalted(TRUE)
           \/ SetHalted(FALSE)
    PROVE  DataInv'
<1> USE DEF DataInv
<1>1. CASE Crash
  <2>1. DataOK'
    BY <1>1, GlitchType DEF DataOK, Crash, Return, Labels, file, tally,
         account, book
  <2>2. ControlInv'
    BY <1>1 DEF ControlInv, Crash, Return, HoldingLabels, StopLabels, AwaitLabels
  <2> QED BY <2>1, <2>2
<1>2. CASE DataOnlyStep
  <2>1. PICK q \in Quotes :
          position' = IF position = None THEN None ELSE Observe(position, q)
    BY <1>2 DEF DataOnlyStep
  <2>2. q \in Int
    BY CycleAssumption DEF DataOK, Quotes
  <2>3. /\ position' \in Position \cup {None}
        /\ position' = None <=> position = None
        /\ position # None => position'.stop = position.stop
    <3>1. CASE position = None
      BY <2>1, <3>1
    <3>2. CASE position # None
      <4>1. position \in Position
        BY <3>2 DEF DataOK
      <4>2. position' = Observe(position, q)
        BY <2>1, <3>2
      <4> QED BY <2>2, <3>2, <4>1, <4>2, ObserveType
    <3> QED BY <3>1, <3>2
  <2>4. DataOK'
    BY <1>2, <2>3, GlitchType DEF DataOK, DataOnlyStep, MaybeRollDay, local, tally,
         account, book
  <2>5. ControlInv'
    <3>1. UNCHANGED <<pc, action, order, orders, next_id>>
      BY <1>2 DEF DataOnlyStep, local, book
    <3>2. pc \in StopLabels => position # None
      BY DEF ControlInv, StopLabels, HoldingLabels, DataOK
    <3> QED BY <2>3, <3>1, <3>2 DEF ControlInv
  <2> QED BY <2>4, <2>5
<1>3. CASE RequestExit \/ SetHalted(TRUE) \/ SetHalted(FALSE)
  <2>1. UNCHANGED <<position, tally, price, today, account, book, local, glitches>>
    BY <1>3 DEF RequestExit, SetHalted
  <2>2. DataOK'
    BY <2>1 DEF DataOK, tally, account, book, local
  <2>3. ControlInv'
    BY <2>1 DEF ControlInv, book, local
  <2> QED BY <2>2, <2>3
<1> QED BY <1>1, <1>2, <1>3

\* The steps of the exchange, the owner and the clock.
LEMMA ExchangeStepType ==
    ASSUME DataInv,
           \/ MovePrice \/ (\E i \in OrderIds : StopFills(i) \/ LimitFills(i) \/ Rejects(i))
           \/ ManualBuy \/ ManualSell \/ CooldownElapses \/ NextDay
    PROVE  DataInv'
<1> USE DEF DataInv
<1>1. ASSUME BookStep, UNCHANGED <<file, price, today, local>>,
             shares' \in Int, cost' \in Int, account_pnl' \in Int
      PROVE  DataInv'
  <2>1. DataOK'
    BY <1>1 DEF DataOK, BookStep, file, tally, local
  <2>2. UNCHANGED <<position, pc, action, order>>
    BY <1>1 DEF file, local
  <2>3. ASSUME order \in OrderIds, order < next_id
        PROVE  /\ order < next_id'
               /\ orders'[order].side = orders[order].side
               /\ orders'[order].qty = orders[order].qty
    BY <1>1, <2>3, CycleAssumption DEF DataOK, BookStep, OrderIds
  <2>4. ControlInv'
    BY <2>2, <2>3 DEF ControlInv
  <2> QED BY <2>1, <2>4
<1>2. CASE MovePrice
  <2>1. DataOK'
    BY <1>2 DEF DataOK, MovePrice, file, tally, account, book, local
  <2>2. ControlInv'
    BY <1>2 DEF ControlInv, MovePrice, file, book, local
  <2> QED BY <2>1, <2>2
<1>3. ASSUME NEW i \in OrderIds, StopFills(i)
      PROVE  DataInv'
  <2>1. orders[i].qty \in Nat /\ orders[i].px \in Int
    BY DEF DataOK, Order
  <2>2. shares' \in Int /\ cost' \in Int /\ account_pnl' \in Int
    BY <1>3, <2>1, SoldType DEF StopFills
  <2>3. BookStep
    BY <1>3, StepBook DEF Next, Environment
  <2> QED BY <1>1, <1>3, <2>2, <2>3 DEF StopFills
<1>4. ASSUME NEW i \in OrderIds, LimitFills(i)
      PROVE  DataInv'
  <2>1. orders[i].qty \in Nat /\ price \in Int
    BY CycleAssumption DEF DataOK, Order
  <2>2. shares' \in Int /\ cost' \in Int /\ account_pnl' \in Int
    <3>1. CASE orders[i].side = "BUY"
      BY <1>4, <2>1, <3>1 DEF LimitFills, DataOK
    <3>2. CASE orders[i].side # "BUY"
      BY <1>4, <2>1, <3>2, SoldType DEF LimitFills
    <3> QED BY <3>1, <3>2
  <2>3. BookStep
    BY <1>4, StepBook DEF Next, Environment
  <2> QED BY <1>1, <1>4, <2>2, <2>3 DEF LimitFills
<1>5. ASSUME NEW i \in OrderIds, Rejects(i)
      PROVE  DataInv'
  <2>1. BookStep
    BY <1>5, StepBook DEF Next, Environment
  <2> QED BY <1>1, <1>5, <2>1 DEF Rejects, account, DataOK
<1>6. CASE ManualBuy \/ ManualSell
  <2>1. BookStep
    BY <1>6, StepBook DEF Next, Environment
  <2>2. shares' \in Int /\ cost' \in Int /\ account_pnl' \in Int
    BY <1>6, CycleAssumption DEF ManualBuy, ManualSell, DataOK
  <2> QED BY <1>1, <1>6, <2>1, <2>2 DEF ManualBuy, ManualSell
<1>7. CASE CooldownElapses \/ NextDay
  <2>1. DataOK'
    BY <1>7 DEF DataOK, CooldownElapses, NextDay, account, book, local
  <2>2. ControlInv'
    BY <1>7 DEF ControlInv, CooldownElapses, NextDay, book, local
  <2> QED BY <2>1, <2>2
<1> QED BY <1>2, <1>3, <1>4, <1>5, <1>6, <1>7

\* The data part of the type invariant and the control invariant are
\* preserved by every step.
LEMMA DataStep == DataInv /\ SeenOK /\ [Next]_vars => DataInv'
<1> SUFFICES ASSUME DataInv, SeenOK, [Next]_vars PROVE DataInv'
  OBVIOUS
<1>1. CASE Step
  BY <1>1, DecidingStepType, SellingStepType, BuyingStepType, AwaitingStepType,
     EnsuringStepType DEF Step
<1>2. CASE Crash \/ Environment
  BY <1>2, OtherWritersType, ExchangeStepType DEF Environment
<1>3. CASE UNCHANGED vars
  BY <1>3 DEF vars, file, tally, account, book, local, DataInv, DataOK, ControlInv
<1> QED BY <1>1, <1>2, <1>3 DEF Next

\* What a step remembers of the extremes stays a pair of prices.
LEMMA SeenStep == DataInv /\ SeenOK /\ [Next]_vars => SeenOK'
<1> SUFFICES ASSUME DataInv, SeenOK, [Next]_vars PROVE SeenOK'
  OBVIOUS
<1>1. ASSUME seen' = seen \/ seen' = NothingSeen
      PROVE  SeenOK'
  BY <1>1 DEF SeenOK, NothingSeen
<1>2. CASE StepBegin
  BY <1>2 DEF StepBegin, Sees, NothingSeen, SeenOK, DataInv, DataOK, Position
<1>3. CASE Adopt
  <2>1. cost \in Int /\ shares \in Nat \ {0}
    BY <1>3 DEF Adopt, DataInv, DataOK
  <2>2. position' \in Position
    BY <1>3, <2>1, NewPositionType DEF Adopt
  <2> QED BY <1>3, <2>2 DEF Adopt, Sees, NothingSeen, SeenOK, Position
<1>4. CASE \/ FoundClosed \/ HeldUnremarkable \/ SettleClosedPosition
             \/ DecideStep \/ SellCancelsStop \/ SellQueriesStop \/ PlaceSell
             \/ BuyChecks \/ PlaceBuy \/ PlaceInitialStop \/ FillConfirmed
  BY <1>1, <1>4 DEF FoundClosed, HeldUnremarkable, SettleClosedPosition,
       DecideStep, Dispatch, SellCancelsStop, SellQueriesStop, PlaceSell,
       PlaceOrder, BuyChecks, PlaceBuy, PlaceInitialStop, FillConfirmed, Goto,
       Return, EnsureStopThen
<1>5. CASE \/ OrderFailed \/ WindowEnds \/ CancelUnfilled \/ EnsureStop
             \/ EnsureQueriesStop \/ EnsureCancelsStop \/ EnsurePlacesStop \/ Crash
  BY <1>1, <1>5 DEF OrderFailed, NotFilled, WindowEnds, CancelUnfilled,
       EnsureStop, EnsureQueriesStop, EnsureCancelsStop, EnsurePlacesStop,
       StopEnsured, Crash, Goto, Return, EnsureStopThen
<1>6. CASE Environment \/ UNCHANGED vars
  BY <1>1, <1>6 DEF Environment, DataOnlyStep, RequestExit, SetHalted,
       MovePrice, StopFills, LimitFills, Rejects, ManualBuy, ManualSell,
       CooldownElapses, NextDay, vars, local
<1> QED BY <1>2, <1>3, <1>4, <1>5, <1>6 DEF Next, Step

\* Type correctness: every reachable state of the tracker, its file and the
\* exchange is well-formed; in particular a position that is acted on is
\* there, whatever the other writers and the exchange do in between.
THEOREM TypeCorrect == Spec => []TypeOK
<1>1. DataInv /\ FlagsOK /\ SeenOK => TypeOK
  BY DEF DataInv, TypeOK
<1> QED BY <1>1, InitType, DataStep, FlagsStep, SeenStep, PTL DEF Spec

-----------------------------------------------------------------------------
(* The recorded stop is dead before a sale is placed.                       *)

\* A recorded stop is an order of the book, of the day noted beside it: that
\* is what makes it safe to go by the note (StopIsStale) instead of asking.
StopKnown ==
    position # None /\ position.stop # 0
        => /\ position.stop < next_id
           /\ orders[position.stop].day = position.placed_on

StopInv == StopKnown /\ RecordedStopDeadBeforeSell

\* Within a day, an order that does not rest never rests again.
LEMMA DeadStaysDead ==
    ASSUME DataOK, BookStep, today' = today, NEW i \in OrderIds, i < next_id,
           ~Resting(i)
    PROVE  ~Resting(i)'
BY DEF Resting, OrderStatus, BookStep

\* Steps that leave the position's stop alone keep the note right.
LEMMA StopKnownKept ==
    ASSUME DataOK, StopKnown, BookStep,
           position' # None => /\ position # None
                               /\ position'.stop = position.stop
                               /\ position'.placed_on = position.placed_on
    PROVE  StopKnown'
<1> SUFFICES ASSUME position' # None, position'.stop # 0
             PROVE  /\ position'.stop < next_id'
                    /\ orders'[position'.stop].day = position'.placed_on
  BY DEF StopKnown
<1>1. position \in Position /\ position.stop \in OrderIds
  BY DEF DataOK, Position
<1>2. position.stop < next_id /\ orders[position.stop].day = position.placed_on
  BY DEF StopKnown
<1>3. position.stop < next_id'
  BY <1>1, <1>2, CycleAssumption DEF BookStep, DataOK, OrderIds
<1>4. orders'[position.stop].day = orders[position.stop].day
  BY <1>1, <1>2 DEF BookStep
<1> QED BY <1>2, <1>3, <1>4

\* Steps that record a new stop make the note right.
LEMMA StopKnownRecorded ==
    ASSUME DataOK, position # None, NEW id \in OrderIds \cup {0}, NEW d \in Int,
           PlaceStopLoss(position.qty, d, id), RecordStop(id, d)
    PROVE  StopKnown'
<1>1. position \in Position /\ position.qty \in Nat
  BY DEF DataOK, Position
<1>2. id # 0 => id < next_id' /\ orders'[id].day = today
  BY <1>1, PlaceStopBook
<1>3. position'.stop = id /\ position'.placed_on = today
  BY <1>1, RecordStopType DEF DataOK
<1> QED BY <1>2, <1>3 DEF StopKnown

\* While a sale is in flight and the position is not touched, the stop stays
\* dead.
LEMMA InFlightKept ==
    ASSUME DataInv, StopInv, BookStep, today' = today, SellInFlight,
           position # None => /\ position' # None
                              /\ position'.stop = position.stop
    PROVE  RecordedStopDeadBeforeSell'
<1>1. position # None /\ position \in Position
  BY DEF StopInv, RecordedStopDeadBeforeSell, DataInv, DataOK
<1>2. CASE position.stop = 0
  BY <1>1, <1>2 DEF RecordedStopDeadBeforeSell
<1>3. CASE position.stop # 0
  <2>1. position.stop \in OrderIds /\ position.stop < next_id
        /\ ~Resting(position.stop)
    BY <1>1, <1>3 DEF StopInv, StopKnown, RecordedStopDeadBeforeSell, Position
  <2>2. \A i \in OrderIds : i = position.stop => ~Resting(i)'
    BY <2>1, DeadStaysDead DEF DataInv
  <2>3. ~Resting(position.stop)'
    BY <1>1, <2>1, <2>2 DEF Resting, OrderStatus
  <2> QED BY <1>1, <2>3 DEF RecordedStopDeadBeforeSell
<1> QED BY <1>2, <1>3

\* The stop a position records is known and, once a sale is in flight, dead.
LEMMA StopStep == DataInv /\ SeenOK /\ StopInv /\ [Next]_vars => StopInv'
<1> SUFFICES ASSUME DataInv, SeenOK, StopInv, [Next]_vars PROVE StopInv'
  OBVIOUS
<1> USE DEF DataInv
<1>1. BookStep
  BY StepBook
<1>2. ASSUME UNCHANGED <<position, today>>, SellInFlight' => SellInFlight
      PROVE  StopInv'
  <2>1. StopKnown'
    BY <1>1, <1>2, StopKnownKept DEF StopInv
  <2>2. RecordedStopDeadBeforeSell'
    BY <1>1, <1>2, InFlightKept DEF RecordedStopDeadBeforeSell
  <2> QED BY <2>1, <2>2 DEF StopInv
<1>3. ASSUME position' = None, ~SellInFlight'
      PROVE  StopInv'
  BY <1>3 DEF StopInv, StopKnown, RecordedStopDeadBeforeSell
<1>4. ASSUME NEW entry \in Int, NEW qty \in Nat \ {0}, NEW m \in Markets,
             position' = NewPosition(entry, qty, m.atr), ~SellInFlight'
      PROVE  StopInv'
  BY <1>4, NewPositionType DEF StopInv, StopKnown, RecordedStopDeadBeforeSell
<1>5. ASSUME position # None, position' # None,
             position'.stop = position.stop,
             position'.placed_on = position.placed_on,
             SellInFlight' => SellInFlight /\ today' = today
      PROVE  StopInv'
  <2>1. StopKnown'
    BY <1>1, <1>5, StopKnownKept DEF StopInv
  <2>2. RecordedStopDeadBeforeSell'
    BY <1>1, <1>5, InFlightKept DEF RecordedStopDeadBeforeSell
  <2> QED BY <2>1, <2>2 DEF StopInv
<1>6. CASE SellCancelsStop
  <2>1. position # None /\ position \in Position /\ UNCHANGED <<position, today>>
    BY <1>6 DEF SellCancelsStop, At, ControlInv, HoldingLabels, DataOK, file
  <2>2. StopKnown'
    BY <1>1, <2>1, StopKnownKept DEF StopInv
  <2>3. ASSUME position.stop # 0, pc' = "place_sell"
        PROVE  ~Resting(position.stop)'
    <3>1. position.stop \in OrderIds /\ position.stop < next_id
          /\ orders[position.stop].day = position.placed_on
      BY <2>1, <2>3 DEF StopInv, StopKnown, Position
    <3>2. CASE StopIsStale
      <4>1. orders[position.stop].day # today
        BY <2>1, <3>1, <3>2 DEF StopIsStale, DataOK, Position
      <4> QED BY <1>1, <2>1, <3>1, <4>1 DEF BookStep, Resting, OrderStatus
    <3>3. CASE ~StopIsStale
      <4>1. Cancel(position.stop, TRUE)
        BY <1>6, <2>3, <3>3 DEF SellCancelsStop, Goto
      <4>2. orders'[position.stop].status = "CANCELLED"
        BY <3>1, <4>1, CancelBook
      <4> QED BY <2>1, <4>2 DEF Resting, OrderStatus
    <3> QED BY <3>2, <3>3
  <2>4. RecordedStopDeadBeforeSell'
    <3>1. pc' \in {"place_sell", "sell_query"}
      BY <1>6 DEF SellCancelsStop, Goto
    <3> QED BY <2>1, <2>3, <3>1 DEF RecordedStopDeadBeforeSell, SellInFlight, At
  <2> QED BY <2>2, <2>4 DEF StopInv
<1>7. CASE SellQueriesStop
  <2>1. position # None /\ position \in Position /\ position.stop # 0
        /\ UNCHANGED <<today, orders>>
    BY <1>7 DEF SellQueriesStop, At, ControlInv, HoldingLabels, StopLabels,
         DataOK, book
  <2>2. CASE BookStopFill /\ Return
    BY <1>3, <2>2 DEF BookStopFill, RecordExit, ClearPosition, Return,
         SellInFlight, At
  <2>3. CASE Return /\ UNCHANGED position
    BY <1>2, <2>1, <2>3 DEF Return, SellInFlight, At
  <2>4. CASE Goto("place_sell") /\ UNCHANGED position
    <3>1. ~Resting(position.stop)
      <4>1. PICK s \in Status \cup {"UNKNOWN"} :
              /\ Query(position.stop, s)
              /\ s \in {"CANCELLED", "REJECTED"}
        BY <1>7, <2>4 DEF SellQueriesStop, Goto, Return
      <4> QED BY <4>1 DEF Query, Resting
    <3>2. RecordedStopDeadBeforeSell'
      BY <2>1, <2>4, <3>1 DEF RecordedStopDeadBeforeSell, Resting, OrderStatus
    <3>3. StopKnown'
      BY <1>1, <2>4, StopKnownKept DEF StopInv
    <3> QED BY <3>2, <3>3 DEF StopInv
  <2> QED BY <1>7, <2>2, <2>3, <2>4 DEF SellQueriesStop
<1>8. CASE PlaceInitialStop \/ EnsurePlacesStop
  <2>1. /\ position # None /\ position \in Position
        /\ position.sl \in Int /\ StopLevels \subseteq Int
    BY <1>8, StopLevelsType DEF PlaceInitialStop, EnsurePlacesStop, At,
         ControlInv, HoldingLabels, DataOK, Position
  <2>2. ~SellInFlight' /\ UNCHANGED today
    BY <1>8 DEF PlaceInitialStop, EnsurePlacesStop, Return, StopEnsured,
         SellInFlight, At, DataOK
  <2>3. PICK id \in OrderIds \cup {0}, d \in StopLevels \cup {position.sl} :
          \/ PlaceStopLoss(position.qty, d, id) /\ RecordStop(id, d)
          \/ UNCHANGED position
    BY <1>8 DEF PlaceInitialStop, EnsurePlacesStop
  <2>4. CASE PlaceStopLoss(position.qty, d, id) /\ RecordStop(id, d)
    <3>1. StopKnown'
      BY <2>1, <2>4, StopKnownRecorded
    <3> QED BY <2>2, <3>1 DEF StopInv, RecordedStopDeadBeforeSell
  <2>5. CASE UNCHANGED position
    BY <1>2, <2>2, <2>5
  <2> QED BY <2>3, <2>4, <2>5
<1>9. CASE FoundClosed \/ SettleClosedPosition
  <2>1. ~SellInFlight' /\ UNCHANGED today
    BY <1>9 DEF FoundClosed, SettleClosedPosition, Goto, Return, SellInFlight, At
  <2>2. position' \in {position, None}
    BY <1>9 DEF FoundClosed, SettleClosedPosition, BookStopFill, RecordExit,
         ClearPosition
  <2> QED BY <1>2, <1>3, <2>1, <2>2
<1>10. CASE Adopt
  <2>1. ~SellInFlight' /\ cost \in Int /\ shares \in Nat \ {0}
    BY <1>10 DEF Adopt, Goto, EnsureStopThen, SellInFlight, At, DataOK
  <2> QED BY <1>4, <1>10, <2>1 DEF Adopt
<1>11. CASE FillConfirmed
  <2>1. CASE orders[order].side = "SELL"
    BY <1>3, <1>11, <2>1 DEF FillConfirmed, RecordExit, ClearPosition, Return,
         SellInFlight, At
  <2>2. CASE orders[order].side # "SELL"
    <3>1. orders[order].px \in Int /\ orders[order].qty \in Nat \ {0}
      <4>1. order \in OrderIds /\ orders[order].qty > 0
        BY <1>11, <2>2 DEF FillConfirmed, At, ControlInv, AwaitLabels
      <4> QED BY <4>1 DEF DataOK, Order
    <3>2. ~SellInFlight'
      BY <1>11, <2>2 DEF FillConfirmed, Goto, SellInFlight, At
    <3> QED BY <1>4, <1>11, <2>2, <3>1, <3>2 DEF FillConfirmed
  <2> QED BY <2>1, <2>2
<1>12. CASE DecideStep
  <2>1. ~SellInFlight' /\ UNCHANGED today
    BY <1>12 DEF DecideStep, Dispatch, EnsureStopThen, Return, SellInFlight, At
  <2>2. CASE position = None
    <3>1. UNCHANGED position
      BY <1>12, <2>2 DEF DecideStep
    <3> QED BY <1>2, <2>1, <3>1
  <2>3. CASE position # None
    BY <1>5, <1>12, <2>1, <2>3, DecideStores
  <2> QED BY <2>2, <2>3
<1>13. CASE DataOnlyStep
  <2>1. SellInFlight' => SellInFlight /\ UNCHANGED today
    BY <1>13 DEF DataOnlyStep, local, SellInFlight, At
  <2>2. CASE position = None
    <3>1. position' = None /\ ~SellInFlight
      BY <1>13, <2>2 DEF DataOnlyStep, StopInv, RecordedStopDeadBeforeSell
    <3> QED BY <1>3, <2>1, <3>1
  <2>3. CASE position # None
    <3>1. position \in Position /\ \E q \in Int : position' = Observe(position, q)
      BY <1>13, <2>3, CycleAssumption DEF DataOnlyStep, DataOK, Quotes
    <3> QED BY <1>5, <2>1, <2>3, <3>1, ObserveType
  <2> QED BY <2>2, <2>3
<1>14. CASE NextDay
  <2>1. UNCHANGED position /\ ~SellInFlight'
    BY <1>14 DEF NextDay, local, SellInFlight, At
  <2>2. StopKnown'
    BY <1>1, <2>1, StopKnownKept DEF StopInv
  <2> QED BY <2>1, <2>2 DEF StopInv, RecordedStopDeadBeforeSell
<1>15. CASE \/ StepBegin \/ HeldUnremarkable \/ BuyChecks \/ EnsureStop
             \/ EnsureQueriesStop \/ EnsureCancelsStop \/ Crash
             \/ OrderFailed \/ CancelUnfilled
  <2>1. ~SellInFlight' /\ UNCHANGED <<position, today>>
    BY <1>15 DEF StepBegin, HeldUnremarkable, BuyChecks, EnsureStop,
         EnsureQueriesStop, EnsureCancelsStop, Crash, OrderFailed,
         CancelUnfilled, NotFilled, StopEnsured, EnsureStopThen, Goto, Return,
         SellInFlight, At, file, DataOK
  <2> QED BY <1>2, <2>1
<1>16. CASE PlaceSell \/ PlaceBuy \/ WindowEnds
  <2>1. UNCHANGED <<position, today>>
    BY <1>16 DEF PlaceSell, PlaceBuy, PlaceOrder, WindowEnds, file
  <2>2. SellInFlight' => SellInFlight
    BY <1>16 DEF PlaceSell, PlaceBuy, PlaceOrder, WindowEnds, EnsureStopThen,
         Goto, Return, SellInFlight, At, ControlInv
  <2> QED BY <1>2, <2>1, <2>2
<1>17. CASE \/ RequestExit \/ SetHalted(TRUE) \/ SetHalted(FALSE) \/ MovePrice
             \/ (\E i \in OrderIds : StopFills(i) \/ LimitFills(i) \/ Rejects(i))
             \/ ManualBuy \/ ManualSell \/ CooldownElapses \/ UNCHANGED vars
  <2>1. UNCHANGED <<position, today, pc, action>>
    BY <1>17 DEF RequestExit, SetHalted, MovePrice, StopFills, LimitFills,
         Rejects, ManualBuy, ManualSell, CooldownElapses, vars, file, local
  <2> QED BY <1>2, <2>1 DEF SellInFlight, At
<1> QED BY <1>6, <1>7, <1>8, <1>9, <1>10, <1>11, <1>12, <1>13, <1>14, <1>15,
           <1>16, <1>17 DEF Next, Step, Environment

\* No double sale: whenever the cycle may place its own sale, and until that
\* sale is settled, the stop it recorded cannot execute any more - for any
\* fault of the broker's calls, any race and any number of days.
THEOREM StopDeadBeforeSell == Spec => []RecordedStopDeadBeforeSell
<1>1. Init => StopInv
  BY DEF Init, StopInv, StopKnown, RecordedStopDeadBeforeSell, SellInFlight, At
<1>2. StopInv => RecordedStopDeadBeforeSell
  BY DEF StopInv
<1> QED BY <1>1, <1>2, InitType, DataStep, SeenStep, StopStep, PTL DEF Spec

-----------------------------------------------------------------------------
(* The ratchet.                                                             *)

\* Between the read and the write of the extremes.
Knowing == \/ pc \in {"held", "quote"}
           \/ /\ pc \in {"ensure", "ensure_state", "ensure_cancel", "ensure_place"}
              /\ after = "quote"

\* The trigger is always one of the levels the position has earned; a fresh
\* buy's first stop replaces nothing; and what a step knows of the extremes is
\* still what the file says when it writes them.
RatchetInv ==
    /\ TriggerIsEarned
    /\ At("buy_stop") => position.trigger = position.sl
    /\ Knowing /\ position # None =>
          seen = [high |-> position.high, low |-> position.low]

RatchetAct ==
    position # None /\ position' # None =>
        /\ position'.trigger >= position.trigger
        /\ position'.high >= position.high /\ position'.low <= position.low

\* One process at a time runs step().
NoDashboard == "dashboard" \notin Faults

\* Printing a higher price only adds levels.
LEMMA LevelsGrow ==
    ASSUME NEW entry \in Int, NEW high \in Int, NEW h \in Int, h >= high
    PROVE  TouchedRungs(entry, high) \subseteq TouchedRungs(entry, h)
BY ConfigAssumption DEF TouchedRungs, Ladder

\* The ratchet: every step keeps the trigger earned, and none lowers it or
\* forgets an extreme.
LEMMA RatchetStep ==
    NoDashboard /\ DataInv /\ SeenOK /\ RatchetInv /\ [Next]_vars
        => RatchetInv' /\ RatchetAct
<1> SUFFICES ASSUME NoDashboard, DataInv, SeenOK, RatchetInv, [Next]_vars
             PROVE  RatchetInv' /\ RatchetAct
  OBVIOUS
<1> USE DEF DataInv
<1>1. position # None =>
        /\ position \in Position /\ position.trigger \in Int
        /\ position.high \in Int /\ position.low \in Int /\ position.sl \in Int
        /\ position.trigger \in StopLevels /\ StopLevels \subseteq Int
  BY StopLevelsType DEF DataOK, Position, RatchetInv, TriggerIsEarned
<1>2. ASSUME UNCHANGED position, pc' = "buy_stop" => pc = "buy_stop",
             Knowing' => Knowing /\ seen' = seen
      PROVE  RatchetInv' /\ RatchetAct
  BY <1>1, <1>2 DEF RatchetInv, TriggerIsEarned, StopLevels, RatchetAct, At
<1>3. ASSUME position' = None, pc' # "buy_stop"
      PROVE  RatchetInv' /\ RatchetAct
  BY <1>3 DEF RatchetInv, TriggerIsEarned, RatchetAct, At
<1>4. ASSUME position = None, NEW entry \in Int, NEW qty \in Nat \ {0},
             NEW m \in Markets, position' = NewPosition(entry, qty, m.atr),
             Knowing' => Sees(position')
      PROVE  RatchetInv' /\ RatchetAct
  <2>1. position'.trigger = position'.sl /\ position' # None
    BY <1>4, NewPositionType
  <2> QED BY <1>4, <2>1
          DEF RatchetInv, TriggerIsEarned, StopLevels, RatchetAct, Sees
<1>5. ASSUME position # None, position' \in Position, position' # None,
             position'.high >= position.high, position'.low <= position.low,
             position'.trigger = position.trigger, position'.sl = position.sl,
             position'.entry = position.entry,
             pc' = "buy_stop" => pc = "buy_stop", ~Knowing'
      PROVE  RatchetInv' /\ RatchetAct
  <2>1. position'.high \in Int /\ position.entry \in Int
    BY <1>1, <1>5 DEF Position
  <2>2. TouchedRungs(position.entry, position.high)
          \subseteq TouchedRungs(position.entry, position'.high)
    BY <1>1, <1>5, <2>1, LevelsGrow
  <2>3. position'.trigger \in StopLevels'
    BY <1>1, <1>5, <2>2 DEF StopLevels
  <2> QED BY <1>1, <1>5, <2>3 DEF RatchetInv, TriggerIsEarned, RatchetAct, At
<1>6. ASSUME position # None, NEW id \in OrderIds \cup {0}, NEW d \in StopLevels,
             RecordStop(id, d), d >= position.trigger, pc' # "buy_stop",
             Knowing' => Knowing /\ seen' = seen
      PROVE  RatchetInv' /\ RatchetAct
  <2>1. /\ position'.trigger = d /\ position'.sl = position.sl
        /\ position'.entry = position.entry /\ position'.high = position.high
        /\ position'.low = position.low
    BY <1>1, <1>6, RecordStopType DEF DataOK
  <2>2. position'.trigger \in StopLevels'
    BY <1>6, <2>1 DEF StopLevels
  <2> QED BY <1>1, <1>6, <2>1, <2>2 DEF RatchetInv, TriggerIsEarned, RatchetAct, At
<1>7. CASE PlaceInitialStop
  <2>1. /\ position # None /\ position.trigger = position.sl
        /\ pc' # "buy_stop" /\ ~Knowing'
    BY <1>7 DEF PlaceInitialStop, At, ControlInv, HoldingLabels, RatchetInv,
         Return, Knowing
  <2>2. position.sl \in StopLevels /\ position.sl >= position.trigger
    BY <1>1, <2>1 DEF StopLevels
  <2>3. CASE \E id \in OrderIds \cup {0} : RecordStop(id, position.sl)
    BY <1>6, <2>1, <2>2, <2>3
  <2>4. CASE UNCHANGED position
    BY <1>2, <2>1, <2>4
  <2> QED BY <1>7, <2>3, <2>4 DEF PlaceInitialStop
<1>8. CASE EnsurePlacesStop
  <2>1. /\ position # None /\ pc' # "buy_stop"
        /\ Knowing' => Knowing /\ seen' = seen
    BY <1>8 DEF EnsurePlacesStop, At, ControlInv, HoldingLabels, StopEnsured,
         Return, DataOK, Knowing
  <2>2. CASE \E id \in OrderIds \cup {0}, d \in StopLevels :
               Desired(d) /\ RecordStop(id, d)
    BY <1>1, <1>6, <2>1, <2>2 DEF Desired
  <2>3. CASE UNCHANGED position
    BY <1>2, <2>1, <2>3
  <2> QED BY <1>8, <2>2, <2>3 DEF EnsurePlacesStop
<1>9. CASE FoundClosed \/ SettleClosedPosition \/ SellQueriesStop
  <2>1. pc' # "buy_stop" /\ ~Knowing'
    BY <1>9 DEF FoundClosed, SettleClosedPosition, SellQueriesStop, Goto, Return,
         Knowing
  <2>2. position' \in {position, None}
    BY <1>9 DEF FoundClosed, SettleClosedPosition, SellQueriesStop, BookStopFill,
         RecordExit, ClearPosition
  <2> QED BY <1>2, <1>3, <2>1, <2>2
<1>10. CASE Adopt
  <2>1. cost \in Int /\ shares \in Nat \ {0} /\ position = None
    BY <1>10 DEF Adopt, DataOK
  <2> QED BY <1>4, <1>10, <2>1 DEF Adopt
<1>11. CASE FillConfirmed
  <2>1. order \in OrderIds
    BY <1>11 DEF FillConfirmed, At, ControlInv, AwaitLabels
  <2>2. CASE orders[order].side = "SELL"
    BY <1>3, <1>11, <2>2 DEF FillConfirmed, RecordExit, ClearPosition, Return
  <2>3. CASE orders[order].side # "SELL"
    <3>1. position = None /\ orders[order].qty > 0
      BY <1>11, <2>3 DEF FillConfirmed, At, ControlInv, AwaitLabels
    <3>2. orders[order].px \in Int /\ orders[order].qty \in Nat \ {0}
      BY <2>1, <3>1 DEF DataOK, Order
    <3>3. ~Knowing'
      BY <1>11, <2>3 DEF FillConfirmed, Goto, Knowing
    <3> QED BY <1>4, <1>11, <2>3, <3>1, <3>2, <3>3 DEF FillConfirmed
  <2> QED BY <2>2, <2>3
<1>12. CASE DecideStep
  <2>1. pc' # "buy_stop" /\ ~Knowing'
    BY <1>12 DEF DecideStep, Dispatch, EnsureStopThen, Return, Knowing
  <2>2. CASE position = None
    <3>1. UNCHANGED position
      BY <1>12, <2>2 DEF DecideStep
    <3> QED BY <1>2, <2>1, <3>1
  <2>3. CASE position # None
    <3>1. seen = [high |-> position.high, low |-> position.low]
      BY <1>12, <2>3 DEF DecideStep, At, RatchetInv, Knowing
    <3> QED BY <1>5, <1>12, <2>1, <2>3, <3>1, DecideStores
  <2> QED BY <2>2, <2>3
<1>13. CASE DataOnlyStep
  <2>1. pc = "idle" /\ pc' = "idle"
    BY <1>13 DEF DataOnlyStep, Glitch, NoDashboard, local, At
  <2>2. pc' # "buy_stop" /\ ~Knowing'
    BY <2>1 DEF Knowing
  <2>3. CASE position = None
    <3>1. position' = None
      BY <1>13, <2>3 DEF DataOnlyStep
    <3> QED BY <1>3, <2>2, <3>1
  <2>4. CASE position # None
    <3>1. PICK q \in Int : position' = Observe(position, q)
      BY <1>13, <2>4, CycleAssumption DEF DataOnlyStep, DataOK, Quotes
    <3>2. position'.low <= position.low
      BY <1>1, <2>4, <3>1 DEF Observe, Position
    <3> QED BY <1>1, <1>5, <2>2, <2>4, <3>1, <3>2, ObserveType
  <2> QED BY <2>3, <2>4
<1>14. CASE StepBegin
  <2>1. UNCHANGED position /\ pc' # "buy_stop" /\ Sees(position)
    BY <1>14 DEF StepBegin
  <2> QED BY <1>1, <2>1 DEF RatchetInv, TriggerIsEarned, StopLevels, RatchetAct,
          Sees, At
<1>15. CASE \/ HeldUnremarkable \/ SellCancelsStop \/ PlaceSell
             \/ BuyChecks \/ PlaceBuy \/ OrderFailed \/ WindowEnds
             \/ CancelUnfilled \/ EnsureStop \/ EnsureQueriesStop
             \/ EnsureCancelsStop \/ Crash
  <2>1. UNCHANGED position /\ pc' # "buy_stop"
    BY <1>15 DEF HeldUnremarkable, SellCancelsStop, PlaceSell,
         BuyChecks, PlaceBuy, PlaceOrder, OrderFailed, WindowEnds,
         CancelUnfilled, EnsureStop, EnsureQueriesStop, EnsureCancelsStop, Crash,
         NotFilled, StopEnsured, EnsureStopThen, Goto, Return, file, DataOK
  <2>2. Knowing' => Knowing /\ seen' = seen
    BY <1>15 DEF HeldUnremarkable, SellCancelsStop, PlaceSell,
         BuyChecks, PlaceBuy, PlaceOrder, OrderFailed, WindowEnds,
         CancelUnfilled, EnsureStop, EnsureQueriesStop, EnsureCancelsStop, Crash,
         NotFilled, StopEnsured, EnsureStopThen, Goto, Return, At, Knowing, DataOK
  <2> QED BY <1>2, <2>1, <2>2
<1>16. CASE \/ RequestExit \/ SetHalted(TRUE) \/ SetHalted(FALSE) \/ MovePrice
             \/ (\E i \in OrderIds : StopFills(i) \/ LimitFills(i) \/ Rejects(i))
             \/ ManualBuy \/ ManualSell \/ CooldownElapses \/ NextDay
             \/ UNCHANGED vars
  <2>1. UNCHANGED <<position, pc, after, seen>>
    BY <1>16 DEF RequestExit, SetHalted, MovePrice, StopFills, LimitFills,
         Rejects, ManualBuy, ManualSell, CooldownElapses, NextDay, vars, file,
         local
  <2> QED BY <1>2, <2>1 DEF Knowing
<1> QED BY <1>7, <1>8, <1>9, <1>10, <1>11, <1>12, <1>13, <1>14, <1>15, <1>16
        DEF Next, Step, Environment

\* Nothing is known of a position that is not there.
LEMMA RatchetInit == Init => RatchetInv
BY DEF Init, RatchetInv, TriggerIsEarned, At

\* The trigger of the resting stop is never above what the price has printed:
\* it is the entry's own stop or a rung that was touched.
THEOREM TriggerEarned == ASSUME NoDashboard PROVE Spec => []TriggerIsEarned
<1>1. DataInv /\ SeenOK /\ RatchetInv /\ [Next]_vars => RatchetInv'
  BY NoDashboard, RatchetStep
<1>2. RatchetInv => TriggerIsEarned
  BY DEF RatchetInv
<1> QED BY <1>1, <1>2, RatchetInit, InitType, DataStep, SeenStep, PTL DEF Spec

\* "The trigger only ever moves UP", for every ladder, price path and fault,
\* as long as one process at a time runs step().
THEOREM RatchetOnlyRises == ASSUME NoDashboard PROVE Spec => TriggerOnlyRises
<1>1. DataInv /\ SeenOK /\ RatchetInv /\ [Next]_vars => RatchetInv'
  BY NoDashboard, RatchetStep
<1>2. DataInv /\ SeenOK /\ RatchetInv /\ [Next]_vars =>
        (position # None /\ position' # None
           => position'.trigger >= position.trigger)
  BY NoDashboard, RatchetStep DEF RatchetAct
<1> QED BY <1>1, <1>2, RatchetInit, InitType, DataStep, SeenStep, PTL
        DEF Spec, TriggerOnlyRises

\* Under the same condition no printed rung and no breached stop is forgotten.
THEOREM NothingForgotten == ASSUME NoDashboard PROVE Spec => ExtremesOnlyWiden
<1>1. DataInv /\ SeenOK /\ RatchetInv /\ [Next]_vars => RatchetInv'
  BY NoDashboard, RatchetStep
<1>2. DataInv /\ SeenOK /\ RatchetInv /\ [Next]_vars =>
        (position # None /\ position' # None
           => position'.high >= position.high /\ position'.low <= position.low)
  BY NoDashboard, RatchetStep DEF RatchetAct
<1> QED BY <1>1, <1>2, RatchetInit, InitType, DataStep, SeenStep, PTL
        DEF Spec, ExtremesOnlyWiden

-----------------------------------------------------------------------------
(* The dry-run phase.                                                       *)

DryRunInv == ~Live => pc \in {"idle", "held", "quote"} /\ next_id = 1

\* A dry run never leaves the labels that only read and decide.
LEMMA DryRunStep == DryRunInv /\ [Next]_vars => DryRunInv'
<1> SUFFICES ASSUME ~Live, pc \in {"idle", "held", "quote"}, next_id = 1,
                    [Next]_vars
             PROVE  pc' \in {"idle", "held", "quote"} /\ next_id' = 1
  BY DEF DryRunInv
<1>1. CASE StepBegin \/ FoundClosed \/ Adopt \/ HeldUnremarkable
  BY <1>1 DEF StepBegin, FoundClosed, Adopt, HeldUnremarkable, Goto, Return, book
<1>2. CASE DecideStep
  BY <1>2 DEF DecideStep, Dispatch, Return, book
<1>3. CASE \/ SettleClosedPosition \/ SellCancelsStop \/ SellQueriesStop
            \/ PlaceSell \/ BuyChecks \/ PlaceBuy \/ PlaceInitialStop
            \/ FillConfirmed \/ OrderFailed \/ WindowEnds \/ CancelUnfilled
            \/ EnsureStop \/ EnsureQueriesStop \/ EnsureCancelsStop
            \/ EnsurePlacesStop
  BY <1>3 DEF SettleClosedPosition, SellCancelsStop, SellQueriesStop, PlaceSell,
       BuyChecks, PlaceBuy, PlaceOrder, PlaceInitialStop, FillConfirmed,
       OrderFailed, WindowEnds, CancelUnfilled, EnsureStop, EnsureQueriesStop,
       EnsureCancelsStop, EnsurePlacesStop, At
<1>4. CASE Crash \/ Environment \/ UNCHANGED vars
  BY <1>4 DEF Crash, Environment, DataOnlyStep, RequestExit, SetHalted, MovePrice,
       StopFills, LimitFills, Rejects, ManualBuy, ManualSell, CooldownElapses,
       NextDay, Return, vars, local, book
<1> QED BY <1>1, <1>2, <1>3, <1>4 DEF Next, Step

\* The dry-run phase sends nothing to the exchange, whatever the prices, the
\* commands and the trades made by hand.
THEOREM DryRunIsSilent == Spec => []DryRunSendsNothing
<1>1. Init => DryRunInv
  BY DEF Init, DryRunInv
<1>2. DryRunInv => DryRunSendsNothing
  BY DEF DryRunInv, DryRunSendsNothing
<1> QED BY <1>1, <1>2, DryRunStep, PTL DEF Spec

\* The labels that only read and decide.
QuietLabels == {"idle", "held", "quote"}

DryPhaseInv == scenario = "dry" => pc \in QuietLabels /\ next_id = 1

\* The dry scenario is the module with Live turned off and faults of its own:
\* an instance, so its actions are proved about again.
LEMMA DryPhaseStep ==
  ASSUME pc \in QuietLabels, next_id = 1, Dry!Next
  PROVE  pc' \in QuietLabels /\ next_id' = 1
<1>1. CASE Dry!StepBegin \/ Dry!FoundClosed \/ Dry!Adopt \/ Dry!HeldUnremarkable
  BY <1>1 DEF Dry!StepBegin, Dry!FoundClosed, Dry!Adopt, Dry!HeldUnremarkable, Dry!Goto,
              Dry!Return, Dry!book, QuietLabels
<1>2. CASE Dry!DecideStep
  BY <1>2 DEF Dry!DecideStep, Dry!Dispatch, Dry!Return, Dry!book, QuietLabels
<1>3. CASE \/ Dry!SettleClosedPosition \/ Dry!SellCancelsStop \/ Dry!SellQueriesStop
           \/ Dry!PlaceSell \/ Dry!BuyChecks \/ Dry!PlaceBuy \/ Dry!PlaceInitialStop
           \/ Dry!FillConfirmed \/ Dry!OrderFailed \/ Dry!WindowEnds \/ Dry!CancelUnfilled
           \/ Dry!EnsureStop \/ Dry!EnsureQueriesStop \/ Dry!EnsureCancelsStop
           \/ Dry!EnsurePlacesStop
  BY <1>3 DEF Dry!SettleClosedPosition, Dry!SellCancelsStop, Dry!SellQueriesStop,
       Dry!PlaceSell, Dry!BuyChecks, Dry!PlaceBuy, Dry!PlaceOrder, Dry!PlaceInitialStop,
       Dry!FillConfirmed, Dry!OrderFailed, Dry!WindowEnds, Dry!CancelUnfilled,
       Dry!EnsureStop, Dry!EnsureQueriesStop, Dry!EnsureCancelsStop,
       Dry!EnsurePlacesStop, Dry!At, QuietLabels
<1>4. CASE Dry!Crash \/ Dry!Environment
  BY <1>4 DEF Dry!Crash, Dry!Environment, Dry!DataOnlyStep, Dry!RequestExit, Dry!SetHalted,
       Dry!MovePrice, Dry!StopFills, Dry!LimitFills, Dry!Rejects, Dry!ManualBuy,
       Dry!ManualSell, Dry!CooldownElapses, Dry!NextDay, Dry!Return, Dry!vars, Dry!local,
       Dry!book, QuietLabels
<1> QED  BY <1>1, <1>2, <1>3, <1>4 DEF Dry!Next, Dry!Step

\* Nor does the dry scenario, whatever else the run sets side by side with it.
THEOREM DryPhaseIsSilent == ScenarioSpec => []DryPhaseSendsNothing
<1>1. ScenarioInit => DryPhaseInv
  BY DEF ScenarioInit, Init, DryPhaseInv, QuietLabels
<1>2. DryPhaseInv /\ [ScenarioNext]_<<vars, scenario>> => DryPhaseInv'
  <2> SUFFICES ASSUME DryPhaseInv, [ScenarioNext]_<<vars, scenario>>, scenario' = "dry"
               PROVE  pc' \in QuietLabels /\ next_id' = 1
    BY DEF DryPhaseInv
  <2>1. CASE ScenarioNext
    <3>1. scenario = "dry" /\ Dry!Next
      BY <2>1 DEF ScenarioNext
    <3> QED  BY <3>1, DryPhaseStep DEF DryPhaseInv
  <2>2. CASE UNCHANGED <<vars, scenario>>
    BY <2>2 DEF DryPhaseInv, vars, local, book
  <2> QED  BY <2>1, <2>2
<1>3. DryPhaseInv => DryPhaseSendsNothing
  BY DEF DryPhaseInv, DryPhaseSendsNothing, Dry!DryRunSendsNothing
<1> QED  BY <1>1, <1>2, <1>3, PTL DEF ScenarioSpec

-----------------------------------------------------------------------------
(* What decide() promises of a position it holds on to.                     *)

\* Holding is safe: the price is above the stop and above every rung the
\* position ever printed, and the top of the ladder has not been reached.
\* This is the "never give a touched rung back" floor of the ladder.
THEOREM HoldKeepsTheFloor ==
    ASSUME NEW pos \in Position, NEW p \in Int,
           DecideHeld(pos, p, pos.high, pos.low) = "hold"
    PROVE  /\ p > pos.sl /\ pos.low > pos.sl
           /\ \A t \in TouchedRungs(pos.entry, pos.high) : p > t
           /\ \A t \in Ladder(pos.entry) :
                 (\A u \in Ladder(pos.entry) : u <= t) => p < t /\ pos.high < t
<1>1. /\ pos.sl \in Int /\ pos.low \in Int /\ pos.high \in Int
      /\ pos.entry \in Int
  BY DEF Position
<1>2. Ladder(pos.entry) \subseteq Int
  <2>1. \A d \in Targets : pos.entry + d \in Int
    BY <1>1, ConfigAssumption
  <2>2. QED
    BY <2>1 DEF Ladder
<1>3. /\ ~StopHit(pos, p, pos.low) /\ ~TopTouched(pos, p, pos.high)
      /\ ~GivesBackRung(pos, p, pos.high)
  BY DEF DecideHeld
<1>4. p > pos.sl /\ pos.low > pos.sl
  BY <1>1, <1>3 DEF StopHit
<1>5. \A t \in TouchedRungs(pos.entry, pos.high) : p > t
  BY <1>2, <1>3 DEF GivesBackRung, Touched, TouchedRungs
<1>6. ASSUME NEW t \in Ladder(pos.entry), \A u \in Ladder(pos.entry) : u <= t
      PROVE  p < t /\ pos.high < t
  BY <1>1, <1>2, <1>3, <1>6 DEF TopTouched, Touched, TouchedRungs
<1> QED BY <1>4, <1>5, <1>6

=============================================================================
