-------------------------- MODULE ManagedBooksProofs --------------------------
(***************************************************************************)
(* The account and managed_state.json agree as long as nothing disturbs    *)
(* them, for any ladder, market, price path and number of orders and days. *)
(* The argument: outside a confirmation the account holds the recorded     *)
(* position, or nothing once the recorded stop has filled; a step finds    *)
(* that fill before it does anything else; and the tally of the day is     *)
(* short of the account's by exactly the fill that is not in the file yet. *)
(***************************************************************************)
EXTENDS ManagedCycleProofs

-----------------------------------------------------------------------------
(* The books: what the position and the orders it names record, whatever    *)
(* the environment does.                                                    *)

\* The step works on the current day, which no order is younger than.
ClockInv ==
    /\ day <= today /\ (~At("idle") => day = today)
    /\ \A i \in OrderIds : orders[i].day <= today

\* The recorded stop is a sell stop for the whole position at its trigger, and
\* a fresh position has none.
StopRecord ==
    /\ position # None /\ position.stop # 0 =>
          /\ orders[position.stop].side = "SL"
          /\ orders[position.stop].px = position.trigger
          /\ orders[position.stop].qty = position.qty
    /\ At("buy_stop") => position.stop = 0

\* The order awaited is of today, and a sale is for the whole position.
AwaitRecord ==
    pc \in AwaitLabels =>
        /\ orders[order].day = today
        /\ action # "reenter" => orders[order].qty = position.qty

RecordsInv == ClockInv /\ StopRecord /\ AwaitRecord

\* Everything of a position but the extremes.
PositionKept ==
    /\ position # None /\ position' # None
    /\ position'.entry = position.entry /\ position'.qty = position.qty
    /\ position'.sl = position.sl /\ position'.stop = position.stop
    /\ position'.trigger = position.trigger
    /\ position'.placed_on = position.placed_on

\* The other writers of the file, the exchange, the owner and the clock
\* change nothing of a position but its extremes.
LEMMA OthersKeepPosition ==
    ASSUME DataOK, Environment \/ UNCHANGED vars
    PROVE  position' = position \/ PositionKept
<1>1. CASE DataOnlyStep
  <2>1. PICK q \in Quotes :
          position' = IF position = None THEN None ELSE Observe(position, q)
    BY <1>1 DEF DataOnlyStep
  <2>2. q \in Int
    BY CycleAssumption DEF DataOK, Quotes
  <2>3. CASE position = None
    BY <2>1, <2>3
  <2>4. CASE position # None
    <3>1. position \in Position /\ position' = Observe(position, q)
      BY <2>1, <2>4 DEF DataOK
    <3>2. position'.qty = position.qty
      BY <3>1 DEF Observe, Position
    <3> QED BY <2>2, <2>4, <3>1, <3>2, ObserveType DEF PositionKept
  <2> QED BY <2>3, <2>4
<1>2. CASE \/ RequestExit \/ SetHalted(TRUE) \/ SetHalted(FALSE) \/ MovePrice
           \/ (\E i \in OrderIds : StopFills(i) \/ LimitFills(i) \/ Rejects(i))
           \/ ManualBuy \/ ManualSell \/ CooldownElapses \/ NextDay
           \/ UNCHANGED vars
  BY <1>2 DEF RequestExit, SetHalted, MovePrice, StopFills, LimitFills,
       Rejects, ManualBuy, ManualSell, CooldownElapses, NextDay, vars, file
<1> QED BY <1>1, <1>2 DEF Environment

\* How a step can change the position: it is cleared, kept but for the
\* extremes, taken up afresh, or given a stop.
LEMMA PositionMoves ==
    ASSUME DataInv, SeenOK, [Next]_vars
    PROVE  \/ position' = None
           \/ PositionKept
           \/ /\ Adopt \/ FillConfirmed
              /\ position = None /\ position' # None /\ position'.stop = 0
           \/ /\ PlaceInitialStop \/ EnsurePlacesStop
              /\ \E id \in OrderIds \cup {0}, d \in Int :
                    PlaceStopLoss(position.qty, d, id) /\ RecordStop(id, d)
<1> USE DEF DataInv
<1>1. ASSUME UNCHANGED position
      PROVE  position' = None \/ PositionKept
  BY <1>1 DEF PositionKept
<1>2. CASE FoundClosed \/ SettleClosedPosition \/ SellQueriesStop
  BY <1>1, <1>2 DEF FoundClosed, SettleClosedPosition, SellQueriesStop,
       BookStopFill, RecordExit, ClearPosition
<1>3. CASE Adopt
  <2>1. position = None /\ cost \in Int /\ shares \in Nat \ {0}
    BY <1>3 DEF Adopt, DataOK
  <2>2. position' # None /\ position'.stop = 0
    BY <1>3, <2>1, NewPositionType DEF Adopt
  <2> QED BY <1>3, <2>1, <2>2
<1>4. CASE FillConfirmed
  <2>1. CASE orders[order].side = "SELL"
    BY <1>4, <2>1 DEF FillConfirmed, RecordExit, ClearPosition
  <2>2. CASE orders[order].side # "SELL"
    <3>1. At("await") /\ order \in OrderIds /\ action = "reenter"
      BY <1>4, <2>2 DEF FillConfirmed, At, ControlInv, AwaitLabels
    <3>2. position = None /\ orders[order].qty > 0 /\ orders[order] \in Order
      BY <3>1 DEF ControlInv, AwaitLabels, At, DataOK
    <3>3. orders[order].px \in Int /\ orders[order].qty \in Nat \ {0}
      BY <3>2 DEF Order
    <3>4. position' # None /\ position'.stop = 0
      BY <1>4, <2>2, <3>3, NewPositionType DEF FillConfirmed
    <3> QED BY <1>4, <3>2, <3>4
  <2> QED BY <2>1, <2>2
<1>5. CASE DecideStep
  <2>1. CASE position = None
    BY <1>1, <1>5, <2>1 DEF DecideStep
  <2>2. CASE position # None
    <3>1. position'.qty = position.qty
      <4>1. position \in Position
        BY <2>2 DEF DataOK
      <4>2. PICK pos : position' = Stored(pos)
        BY <1>5, <2>2 DEF DecideStep
      <4> QED BY <4>1, <4>2 DEF Stored, Position
    <3> QED BY <1>5, <2>2, <3>1, DecideStores DEF PositionKept
  <2> QED BY <2>1, <2>2
<1>6. CASE Environment \/ UNCHANGED vars
  BY <1>1, <1>6, OthersKeepPosition
<1>7. CASE PlaceInitialStop \/ EnsurePlacesStop
  <2>1. position # None /\ position \in Position
    BY <1>7 DEF PlaceInitialStop, EnsurePlacesStop, At, ControlInv,
         HoldingLabels, DataOK
  <2>2. position.sl \in Int /\ StopLevels \subseteq Int
    BY <2>1, StopLevelsType DEF Position
  <2> QED BY <1>1, <1>7, <2>2 DEF PlaceInitialStop, EnsurePlacesStop
<1>8. CASE \/ StepBegin \/ HeldUnremarkable \/ SellCancelsStop \/ PlaceSell
           \/ BuyChecks \/ PlaceBuy \/ OrderFailed \/ WindowEnds
           \/ CancelUnfilled \/ EnsureStop \/ EnsureQueriesStop
           \/ EnsureCancelsStop \/ Crash
  BY <1>1, <1>8 DEF StepBegin, HeldUnremarkable, SellCancelsStop, PlaceSell,
       PlaceOrder, BuyChecks, PlaceBuy, OrderFailed, WindowEnds,
       CancelUnfilled, EnsureStop, EnsureQueriesStop, EnsureCancelsStop, Crash,
       file
<1> QED BY <1>2, <1>3, <1>4, <1>5, <1>6, <1>7, <1>8 DEF Next, Step

\* The clock: a step begins by rolling the day, and only an idle tracker sees
\* the next one.
LEMMA ClockStep ==
    ASSUME DataInv, ClockInv, [Next]_vars
    PROVE  ClockInv' /\ (today' # today => NextDay)
<1>1. BookStep
  BY StepBook
<1>2. ASSUME today' = today, day' \in {day, today},
             At("idle") => pc' = "idle" \/ day' = today
      PROVE  ClockInv'
  BY <1>1, <1>2 DEF ClockInv, BookStep, DataInv, DataOK, Order, At
<1>3. CASE NextDay
  BY <1>3 DEF NextDay, ClockInv, local, book, At, DataInv, DataOK, Order
<1>4. CASE StepBegin
  BY <1>2, <1>4 DEF StepBegin, MaybeRollDay, tally
<1>5. CASE \/ FoundClosed \/ Adopt \/ HeldUnremarkable \/ DecideStep
           \/ SellCancelsStop \/ PlaceSell \/ BuyChecks \/ PlaceBuy
           \/ PlaceInitialStop \/ OrderFailed \/ WindowEnds \/ CancelUnfilled
           \/ EnsureStop \/ EnsureQueriesStop \/ EnsureCancelsStop
           \/ EnsurePlacesStop \/ Crash
  <2>1. today' = today /\ day' = day /\ ~At("idle")
    BY <1>5 DEF FoundClosed, Adopt, HeldUnremarkable, DecideStep,
         SellCancelsStop, PlaceSell, PlaceOrder, BuyChecks, PlaceBuy,
         PlaceInitialStop, OrderFailed, WindowEnds, CancelUnfilled, EnsureStop,
         EnsureQueriesStop, EnsureCancelsStop, EnsurePlacesStop, Crash, At,
         file, tally
  <2> QED BY <1>2, <2>1
<1>6. CASE SettleClosedPosition \/ SellQueriesStop \/ FillConfirmed
  <2>1. today' = today /\ day' \in {day, today} /\ ~At("idle")
    BY <1>6 DEF SettleClosedPosition, SellQueriesStop, FillConfirmed, At,
         BookStopFill, RecordExit, tally
  <2> QED BY <1>2, <2>1
<1>7. CASE DataOnlyStep
  BY <1>2, <1>7 DEF DataOnlyStep, MaybeRollDay, tally, local, At
<1>8. CASE \/ RequestExit \/ SetHalted(TRUE) \/ SetHalted(FALSE) \/ MovePrice
           \/ (\E i \in OrderIds : StopFills(i) \/ LimitFills(i) \/ Rejects(i))
           \/ ManualBuy \/ ManualSell \/ CooldownElapses \/ UNCHANGED vars
  <2>1. today' = today /\ day' = day /\ pc' = pc
    BY <1>8 DEF RequestExit, SetHalted, MovePrice, StopFills, LimitFills,
         Rejects, ManualBuy, ManualSell, CooldownElapses, vars, file, tally, local
  <2> QED BY <1>2, <2>1 DEF At
<1>9. today' # today => NextDay
  BY DEF Next, Step, Environment, StepBegin, FoundClosed, Adopt,
     HeldUnremarkable, SettleClosedPosition, DecideStep, SellCancelsStop,
     SellQueriesStop, PlaceSell, PlaceOrder, BuyChecks, PlaceBuy,
     PlaceInitialStop, FillConfirmed, OrderFailed, WindowEnds, CancelUnfilled,
     EnsureStop, EnsureQueriesStop, EnsureCancelsStop, EnsurePlacesStop, Crash,
     DataOnlyStep, RequestExit, SetHalted, MovePrice, StopFills, LimitFills,
     Rejects, ManualBuy, ManualSell, CooldownElapses, vars
<1> QED BY <1>3, <1>4, <1>5, <1>6, <1>7, <1>8, <1>9 DEF Next, Step, Environment

\* Only placing an order starts to await one, and the sale it may be is for
\* the whole position.
LEMMA AwaitStep ==
    ASSUME DataInv, SeenOK, ClockInv, AwaitRecord, [Next]_vars
    PROVE  AwaitRecord'
<1> USE DEF DataInv
<1>1. BookStep
  BY StepBook
<1>2. ASSUME pc' \notin AwaitLabels
      PROVE  AwaitRecord'
  BY <1>2 DEF AwaitRecord
<1>3. ASSUME pc \in AwaitLabels, pc' \in AwaitLabels, today' = today,
             UNCHANGED <<order, action>>, position' = position \/ PositionKept
      PROVE  AwaitRecord'
  <2>1. order \in OrderIds /\ order < next_id
    BY <1>3 DEF ControlInv
  <2>2. orders'[order].day = orders[order].day /\ orders'[order].qty = orders[order].qty
    BY <1>1, <2>1 DEF BookStep
  <2> QED BY <1>3, <2>2 DEF AwaitRecord, PositionKept
<1>4. CASE PlaceSell
  <2>1. position \in Position /\ action # "reenter" /\ UNCHANGED <<position, today>>
    BY <1>4 DEF PlaceSell, PlaceOrder, At, ControlInv, HoldingLabels, DataOK, file
  <2>2. PICK id \in OrderIds \cup {0} :
          /\ Place("SELL", position.qty, 0, id)
          /\ IF id = 0 THEN EnsureStopThen("idle")
             ELSE pc' = "await" /\ order' = id /\ UNCHANGED <<action, after>>
    BY <1>4 DEF PlaceSell, PlaceOrder
  <2>3. id # 0 => orders'[id].day = today /\ orders'[id].qty = position.qty
    BY <2>1, <2>2, PlaceBook DEF Position
  <2> QED BY <2>1, <2>2, <2>3 DEF AwaitRecord, EnsureStopThen, AwaitLabels
<1>5. CASE PlaceBuy
  <2>1. action = "reenter" /\ today' = today
    BY <1>5 DEF PlaceBuy, PlaceOrder, At, ControlInv
  <2>2. PICK id \in OrderIds \cup {0} :
          /\ Place("BUY", Qty, 0, id)
          /\ IF id = 0 THEN Return
             ELSE pc' = "await" /\ order' = id /\ UNCHANGED <<action, after>>
    BY <1>5 DEF PlaceBuy, PlaceOrder
  <2>3. id # 0 => orders'[id].day = today
    BY <2>2, PlaceBook, CycleAssumption
  <2> QED BY <2>1, <2>2, <2>3 DEF AwaitRecord, Return, AwaitLabels
<1>6. CASE WindowEnds
  BY <1>3, <1>6 DEF WindowEnds, At, Goto, AwaitLabels, file
<1>7. CASE (Environment /\ ~NextDay) \/ UNCHANGED vars
  <2>1. UNCHANGED <<pc, order, action, today>>
    BY <1>7 DEF Environment, DataOnlyStep, RequestExit, SetHalted, MovePrice,
         StopFills, LimitFills, Rejects, ManualBuy, ManualSell,
         CooldownElapses, vars, local
  <2>2. position' = position \/ PositionKept
    BY <1>7, OthersKeepPosition
  <2> QED BY <1>2, <1>3, <2>1, <2>2
<1>8. CASE NextDay
  BY <1>2, <1>8 DEF NextDay, At, AwaitLabels, local
<1>9. CASE \/ StepBegin \/ FoundClosed \/ Adopt \/ HeldUnremarkable
           \/ SettleClosedPosition \/ DecideStep \/ SellCancelsStop
           \/ SellQueriesStop \/ BuyChecks \/ PlaceInitialStop \/ FillConfirmed
           \/ Crash
  <2>1. pc' \notin AwaitLabels
    BY <1>9 DEF StepBegin, FoundClosed, Adopt, HeldUnremarkable,
         SettleClosedPosition, DecideStep, Dispatch, EnsureStopThen,
         SellCancelsStop, SellQueriesStop, BuyChecks, PlaceInitialStop,
         FillConfirmed, Crash, Goto, Return, At, AwaitLabels
  <2> QED BY <1>2, <2>1
<1>10. CASE \/ OrderFailed \/ CancelUnfilled
            \/ EnsureStop \/ EnsureQueriesStop \/ EnsureCancelsStop
            \/ EnsurePlacesStop
  <2>1. pc' \notin AwaitLabels
    BY <1>10 DEF OrderFailed, CancelUnfilled, NotFilled, EnsureStop,
         EnsureQueriesStop, EnsureCancelsStop, EnsurePlacesStop, StopEnsured,
         EnsureStopThen, Goto, Return, At, AwaitLabels, DataOK
  <2> QED BY <1>2, <2>1
<1> QED BY <1>4, <1>5, <1>6, <1>7, <1>8, <1>9, <1>10 DEF Next, Step

\* A recorded stop keeps its terms, and a new one is recorded with them.
LEMMA StopRecordStep ==
    ASSUME DataInv, SeenOK, StopInv, StopRecord, [Next]_vars
    PROVE  StopRecord'
<1> USE DEF DataInv
<1>1. BookStep
  BY StepBook
<1>2. ASSUME pc' = "buy_stop"
      PROVE  (position' # None /\ position'.stop = 0) \/ position' = None
  <2>1. CASE FillConfirmed
    <3>1. ~PlaceInitialStop /\ ~EnsurePlacesStop
      BY <2>1 DEF FillConfirmed, PlaceInitialStop, EnsurePlacesStop, At
    <3>2. position = None \/ position' = None
      <4>1. (At("await") /\ action = "reenter") \/ orders[order].side = "SELL"
        BY <2>1 DEF FillConfirmed, At, ControlInv, AwaitLabels
      <4> QED BY <2>1, <4>1 DEF FillConfirmed, ControlInv, AwaitLabels, At,
                RecordExit, ClearPosition
    <3> QED BY <3>1, <3>2, PositionMoves DEF PositionKept
  <2>2. CASE Environment \/ UNCHANGED vars
    <3>1. pc = "buy_stop"
      BY <1>2, <2>2 DEF Environment, DataOnlyStep, RequestExit, SetHalted,
           MovePrice, StopFills, LimitFills, Rejects, ManualBuy, ManualSell,
           CooldownElapses, NextDay, vars, local
    <3> QED BY <2>2, <3>1, OthersKeepPosition DEF StopRecord, PositionKept, At
  <2>3. CASE (Step /\ ~FillConfirmed) \/ Crash
    BY <1>2, <2>3 DEF Step, Crash, StepBegin, FoundClosed, Adopt,
       HeldUnremarkable, SettleClosedPosition, DecideStep, Dispatch,
       EnsureStopThen, SellCancelsStop, SellQueriesStop, PlaceSell, PlaceOrder,
       BuyChecks, PlaceBuy, PlaceInitialStop, OrderFailed, WindowEnds,
       CancelUnfilled, NotFilled, EnsureStop, EnsureQueriesStop,
       EnsureCancelsStop, EnsurePlacesStop, StopEnsured, Goto, Return, DataOK
  <2> QED BY <2>1, <2>2, <2>3 DEF Next
<1>3. ASSUME position' # None, position'.stop # 0
      PROVE  /\ orders'[position'.stop].side = "SL"
             /\ orders'[position'.stop].px = position'.trigger
             /\ orders'[position'.stop].qty = position'.qty
  <2>1. CASE PositionKept
    <3>1. position \in Position /\ position.stop \in OrderIds /\ position.stop < next_id
      BY <1>3, <2>1 DEF PositionKept, DataOK, Position, StopInv, StopKnown
    <3> QED BY <1>1, <1>3, <2>1, <3>1 DEF PositionKept, StopRecord, BookStep
  <2>2. ASSUME NEW id \in OrderIds \cup {0}, NEW d \in Int,
               PlaceStopLoss(position.qty, d, id), RecordStop(id, d),
               PlaceInitialStop \/ EnsurePlacesStop
        PROVE  /\ orders'[position'.stop].side = "SL"
               /\ orders'[position'.stop].px = position'.trigger
               /\ orders'[position'.stop].qty = position'.qty
    <3>1. position \in Position
      BY <2>2 DEF PlaceInitialStop, EnsurePlacesStop, At, ControlInv,
           HoldingLabels, DataOK
    <3>2. position'.stop = id /\ position'.trigger = d /\ position'.qty = position.qty
      BY <2>2, <3>1 DEF RecordStop, Position
    <3>3. id # 0 /\ position.qty \in Nat
      BY <1>3, <3>1, <3>2 DEF Position
    <3>4. Send("SL", position.qty, d) /\ id = next_id
      BY <2>2, <3>3 DEF PlaceStopLoss, Place
    <3>5. glitches' \in GlitchRecord
      BY StepGlitches
    <3> QED BY <2>2, <3>2, <3>3, <3>4, <3>5, SendBook
  <2> QED BY <1>3, <2>1, <2>2, PositionMoves
<1>4. pc' = "buy_stop" => position' # None
  BY DataStep DEF ControlInv, HoldingLabels
<1> QED BY <1>2, <1>3, <1>4 DEF StopRecord, At

LEMMA RecordsStep ==
    DataInv /\ SeenOK /\ StopInv /\ RecordsInv /\ [Next]_vars => RecordsInv'
BY ClockStep, StopRecordStep, AwaitStep DEF RecordsInv

LEMMA RecordsInit == Init => RecordsInv
<1> SUFFICES ASSUME Init PROVE RecordsInv
  OBVIOUS
<1>1. \A i \in OrderIds : orders[i].day = 0
  BY DEF Init, NoOrder
<1> QED BY <1>1 DEF Init, RecordsInv, ClockInv, StopRecord, AwaitRecord, At,
           AwaitLabels

-----------------------------------------------------------------------------
(* The books: what the account and the file say of each other as long as    *)
(* nothing disturbs them.                                                    *)

\* What a sale of qty at px makes of the purchase behind it.
Gain(px, qty) == (px - cost) * qty - Charges

Filled(i) == orders[i].status = "COMPLETE"

\* Executed at the exchange, not yet in the file: the stop, the sale awaited
\* and the purchase awaited.
StopFilled == position # None /\ position.stop # 0 /\ Filled(position.stop)

SaleFilled == At("await") /\ action # "reenter" /\ Filled(order)

BuyFilled  == At("await") /\ action = "reenter" /\ Filled(order)

\* On the way to a purchase.
BuyPath == pc \in {"buy_check", "place_buy"} \/ BuyInFlight

\* What rests is the recorded stop or the order awaited, and no stop rests
\* while its successor is placed.
RestPart ==
    /\ \A i \in OrderIds : Resting(i) =>
          \/ orders[i].side = "SL" /\ position # None /\ position.stop = i
          \/ orders[i].side # "SL" /\ pc \in AwaitLabels /\ order = i
    /\ At("ensure_place") /\ position.stop # 0 => ~Resting(position.stop)

\* A filled stop is found before the step does anything else.
FillPart ==
    /\ StopFilled => pc \in {"idle", "held", "settle"}
    /\ At("settle") => StopFilled
    /\ At("await_cancel") => ~Filled(order)

\* The account holds the recorded position, or what a fill has made of it.
HoldPart ==
    /\ position = None => shares = IF BuyFilled THEN orders[order].qty ELSE 0
    /\ BuyFilled => cost = orders[order].px
    /\ position # None =>
          /\ Live /\ position.entry = cost
          /\ shares = IF StopFilled \/ SaleFilled THEN 0 ELSE position.qty

\* The day's tally, and what has been made since it was written.
DayTally == IF day = today THEN pnl_today ELSE 0

Unbooked ==
    IF StopFilled /\ orders[position.stop].day = today
    THEN Gain(orders[position.stop].px, orders[position.stop].qty)
    ELSE IF SaleFilled THEN Gain(orders[order].px, orders[order].qty) ELSE 0

BalancePart == account_pnl = DayTally + Unbooked

\* A stop-out is in the file, or about to be.
StoppedOutToday == day = today /\ stopped_out

StopHitPart ==
    /\ stop_hit =>
          \/ StoppedOutToday
          \/ /\ StopFilled /\ orders[position.stop].day = today
             /\ orders[position.stop].px <= position.sl
          \/ SaleFilled /\ action = "exit_sl"
    /\ BlockReentryAfterStop /\ BuyPath => ~stop_hit

Books == RestPart /\ FillPart /\ HoldPart /\ BalancePart /\ StopHitPart

BooksInv == glitches.calm => Books

\* The state before a step that keeps the record of disturbances clear.
Context ==
    /\ DataInv /\ FlagsOK /\ SeenOK /\ StopInv /\ DryRunInv /\ RecordsInv
    /\ glitches.calm /\ Books

\* Steps that trade nothing and book nothing.
LEMMA NothingTraded ==
    ASSUME Context, UNCHANGED <<today, shares, cost, account_pnl, stop_hit>>,
           position = None <=> position' = None,
           position # None => /\ position'.entry = position.entry
                              /\ position'.qty = position.qty
                              /\ position'.sl = position.sl,
           DayTally' = DayTally, StoppedOutToday' <=> StoppedOutToday,
           StopFilled' <=> StopFilled, SaleFilled' <=> SaleFilled,
           BuyFilled' <=> BuyFilled,
           StopFilled => /\ position'.stop = position.stop
                         /\ orders'[position.stop] = orders[position.stop],
           SaleFilled \/ BuyFilled => /\ UNCHANGED <<order, action>>
                                      /\ orders'[order] = orders[order],
           RestPart', FillPart',
           BlockReentryAfterStop /\ BuyPath' => ~stop_hit
    PROVE  Books'
<1>1. HoldPart'
  <2>1. HoldPart
    BY DEF Context, Books
  <2> HIDE DEF StopFilled, SaleFilled, BuyFilled
  <2> QED BY <2>1 DEF HoldPart
<1>2. BalancePart'
  <2>1. BalancePart
    BY DEF Context, Books
  <2>2. Unbooked' = Unbooked
    <3>1. position = None => ~StopFilled
      BY DEF StopFilled
    <3>2. CASE StopFilled
      BY <3>1, <3>2 DEF Unbooked, Gain
    <3>3. CASE ~StopFilled
      BY <3>3 DEF Unbooked, Gain
    <3> QED BY <3>2, <3>3
  <2> QED BY <2>1, <2>2 DEF BalancePart
<1>3. StopHitPart'
  <2>1. StopHitPart
    BY DEF Context, Books
  <2>2. StopFilled => position # None
    BY DEF StopFilled
  <2> QED BY <2>1, <2>2 DEF StopHitPart
<1> QED BY <1>1, <1>2, <1>3 DEF Books

\* Of these, the ones that also leave the order book alone and await nothing.
LEMMA NothingAwaited ==
    ASSUME Context, UNCHANGED <<today, shares, cost, account_pnl, stop_hit, orders>>,
           PositionKept \/ (position = None /\ position' = None),
           DayTally' = DayTally, StoppedOutToday' <=> StoppedOutToday,
           pc \notin AwaitLabels, pc' \notin AwaitLabels,
           StopFilled => pc' \in {"idle", "held", "settle"},
           pc' = "settle" => StopFilled,
           pc' = "ensure_place" /\ position.stop # 0 => ~Resting(position.stop),
           BlockReentryAfterStop /\ pc' \in {"buy_check", "place_buy"} => ~stop_hit
    PROVE  Books'
<1>1. /\ ~SaleFilled /\ ~BuyFilled /\ ~SaleFilled' /\ ~BuyFilled'
      /\ BuyPath' => pc' \in {"buy_check", "place_buy"}
  BY DEF SaleFilled, BuyFilled, BuyPath, BuyInFlight, At, AwaitLabels
<1>2. StopFilled' <=> StopFilled
  BY DEF StopFilled, Filled, PositionKept
<1>3. \A i \in OrderIds : Resting(i)' <=> Resting(i)
  BY DEF Resting, OrderStatus
<1>4. RestPart'
  <2>1. RestPart
    BY DEF Context, Books
  <2> QED BY <1>3, <2>1 DEF RestPart, PositionKept, At, Resting, OrderStatus
<1>5. FillPart'
  BY <1>2 DEF FillPart, At, AwaitLabels
<1>6. StopFilled => position'.stop = position.stop
  BY DEF StopFilled, PositionKept
<1> QED BY <1>1, <1>2, <1>4, <1>5, <1>6, NothingTraded DEF PositionKept

\* A step that keeps the record clear met no fault but a harmless one.
LEMMA CalmGlitch ==
    ASSUME NEW f, Glitch(f), glitches'.calm
    PROVE  f \in Harmless
BY DEF Glitch

\* The position of a calm state, and what the account holds of it when it
\* holds nothing.
LEMMA HeldOrSold ==
    ASSUME Context
    PROVE  /\ position \in Position \cup {None}
           /\ position # None =>
                 /\ position.qty \in Nat \ {0}
                 /\ position.stop # 0 => /\ position.stop \in OrderIds
                                         /\ position.stop < next_id
                                         /\ orders[position.stop].day = position.placed_on
                 /\ pc \notin AwaitLabels =>
                       (shares = 0 <=> StopFilled) /\ shares >= 0
           /\ position = None /\ pc \notin AwaitLabels => shares = 0 /\ ~StopFilled
           /\ pc \notin {"idle", "held", "settle"} => ~StopFilled
           /\ pc \notin AwaitLabels => ~SaleFilled /\ ~BuyFilled
           /\ ~At("idle") => day = today
<1>1. HoldPart /\ FillPart /\ StopKnown /\ ClockInv
  BY DEF Context, Books, StopInv, RecordsInv
<1>2. position \in Position \cup {None}
  BY DEF Context, DataInv, DataOK
<1>3. pc \notin AwaitLabels => ~SaleFilled /\ ~BuyFilled
  BY DEF SaleFilled, BuyFilled, At, AwaitLabels
<1>4. position # None => /\ position.qty \in Nat \ {0}
                         /\ position.stop # 0 => position.stop \in OrderIds
  BY <1>2 DEF Position
<1>5. position = None => ~StopFilled
  BY DEF StopFilled
<1>6. position # None /\ pc \notin AwaitLabels =>
        (shares = 0 <=> StopFilled) /\ shares >= 0
  BY <1>1, <1>3, <1>4 DEF HoldPart
<1>7. position = None /\ pc \notin AwaitLabels => shares = 0
  BY <1>1, <1>3 DEF HoldPart
<1>8. position # None /\ position.stop # 0 =>
        position.stop < next_id /\ orders[position.stop].day = position.placed_on
  BY <1>1 DEF StopKnown
<1>9. pc \notin {"idle", "held", "settle"} => ~StopFilled
  BY <1>1 DEF FillPart
<1>10. ~At("idle") => day = today
  BY <1>1 DEF ClockInv
<1> QED BY <1>2, <1>3, <1>4, <1>5, <1>6, <1>7, <1>8, <1>9, <1>10

\* The steps that look at the day, the holding and the price.
LEMMA CalmDecides ==
    ASSUME Context, glitches'.calm,
           StepBegin \/ FoundClosed \/ Adopt \/ HeldUnremarkable \/ DecideStep
    PROVE  Books'
<1>1. CASE StepBegin
  <2>1. /\ At("idle") /\ pc' = "held"
        /\ UNCHANGED <<position, today, shares, cost, account_pnl, stop_hit, orders>>
    BY <1>1 DEF StepBegin, account, book
  <2>2. DayTally' = DayTally /\ (StoppedOutToday' <=> StoppedOutToday)
    BY <1>1 DEF StepBegin, MaybeRollDay, tally, DayTally, StoppedOutToday
  <2> QED BY <2>1, <2>2, NothingAwaited DEF PositionKept, At, AwaitLabels
<1>2. CASE FoundClosed
  <2>1. position # None /\ StopFilled /\ At("held")
    BY <1>2, HeldOrSold DEF FoundClosed, At, AwaitLabels
  <2>2. Live /\ position.stop # 0
    BY <2>1 DEF StopFilled, Context, Books, HoldPart
  <2>3. /\ pc' = "settle"
        /\ UNCHANGED <<position, tally, today, shares, cost, account_pnl, stop_hit, orders>>
    BY <1>2, <2>2 DEF FoundClosed, Goto, account, book
  <2>4. DayTally' = DayTally /\ (StoppedOutToday' <=> StoppedOutToday)
    BY <2>3 DEF tally, DayTally, StoppedOutToday
  <2> QED BY <2>1, <2>3, <2>4, NothingAwaited DEF PositionKept, At, AwaitLabels
<1>3. CASE Adopt
  BY <1>3, HeldOrSold DEF Adopt, At, AwaitLabels
<1>4. CASE HeldUnremarkable
  <2>1. "query" \notin Harmless
    BY DEF Harmless
  <2>2. At("held") /\ ~StopFilled
    BY <1>4, <2>1, CalmGlitch, HeldOrSold DEF HeldUnremarkable, At, AwaitLabels,
       Context, DataInv, DataOK
  <2>3. /\ pc' = "quote"
        /\ UNCHANGED <<position, tally, today, shares, cost, account_pnl, stop_hit, orders>>
    BY <1>4 DEF HeldUnremarkable, Goto, file, account, book
  <2>4. DayTally' = DayTally /\ (StoppedOutToday' <=> StoppedOutToday)
    BY <2>3 DEF tally, DayTally, StoppedOutToday
  <2> QED BY <2>2, <2>3, <2>4, NothingAwaited DEF PositionKept, At, AwaitLabels
<1>5. CASE DecideStep
  <2>1. At("quote") /\ ~StopFilled /\ ~SaleFilled /\ day = today
    BY <1>5, HeldOrSold DEF DecideStep, At, AwaitLabels
  <2>2. UNCHANGED <<tally, today, shares, cost, account_pnl, stop_hit, orders>>
    BY <1>5 DEF DecideStep, account, book
  <2>3. DayTally' = DayTally /\ (StoppedOutToday' <=> StoppedOutToday)
    BY <2>2 DEF tally, DayTally, StoppedOutToday
  <2>4. PICK d \in {"wait", "reenter", "hold", "sell", "exit_sl"} : Dispatch(d)
    BY <1>5 DEF DecideStep, DecideFlat, DecideHeld
  <2>5. /\ pc' \in {"idle", "ensure", "sell", "buy_check"}
        /\ pc' = "buy_check" => ~ReentryBlocked
    BY <2>4 DEF Dispatch, EnsureStopThen, Return
  <2>6. BlockReentryAfterStop /\ ~ReentryBlocked => ~StoppedOutToday
    BY DEF ReentryBlocked, StoppedOutToday
  <2>7. StopHitPart
    BY DEF Context, Books
  <2>8. BlockReentryAfterStop /\ pc' = "buy_check" => ~stop_hit
    BY <2>1, <2>5, <2>6, <2>7 DEF StopHitPart
  <2>9. PositionKept \/ (position = None /\ position' = None)
    <3>1. CASE position = None
      BY <1>5, <3>1 DEF DecideStep
    <3>2. CASE position # None
      <4>1. position' # None
        BY <1>5, <3>2, DecideStores DEF Context, DataInv
      <4>2. ~Adopt /\ ~FillConfirmed /\ ~PlaceInitialStop /\ ~EnsurePlacesStop
        BY <2>1 DEF Adopt, FillConfirmed, PlaceInitialStop, EnsurePlacesStop, At
      <4> QED BY <1>5, <4>1, <4>2, PositionMoves DEF Next, Step, Context
    <3> QED BY <3>1, <3>2
  <2> QED BY <2>1, <2>2, <2>3, <2>5, <2>8, <2>9, NothingAwaited DEF At, AwaitLabels
<1> QED BY <1>1, <1>2, <1>3, <1>4, <1>5

\* The steps of _execute_sell and _execute_buy that only ask.
LEMMA CalmAsks ==
    ASSUME Context, glitches'.calm, SellQueriesStop \/ BuyChecks
    PROVE  Books'
<1>1. CASE SellQueriesStop
  <2>1. At("sell_query") /\ position # None /\ position.stop # 0 /\ ~StopFilled
    BY <1>1, HeldOrSold DEF SellQueriesStop, At, Context, DataInv, ControlInv,
       HoldingLabels, StopLabels, AwaitLabels
  <2>2. "query" \notin Harmless
    BY DEF Harmless
  <2>3. ~(OrderStatus(position.stop) = "COMPLETE")
    BY <2>1 DEF OrderStatus, StopFilled, Filled
  <2>4. PICK s \in Status \cup {"UNKNOWN"} :
          /\ s # "COMPLETE"
          /\ \/ Goto("place_sell") /\ UNCHANGED <<position, tally, exit_stale>>
             \/ Return /\ UNCHANGED <<position, tally, exit_stale>>
    BY <1>1, <2>2, <2>3, CalmGlitch DEF SellQueriesStop, Query
  <2>5. /\ pc' \in {"place_sell", "idle"}
        /\ UNCHANGED <<position, tally, today, shares, cost, account_pnl, stop_hit, orders>>
    BY <1>1, <2>4 DEF SellQueriesStop, Goto, Return, account, book
  <2>6. DayTally' = DayTally /\ (StoppedOutToday' <=> StoppedOutToday)
    BY <2>5 DEF tally, DayTally, StoppedOutToday
  <2> QED BY <2>1, <2>5, <2>6, NothingAwaited DEF PositionKept, At, AwaitLabels
<1>2. CASE BuyChecks
  <2>1. At("buy_check") /\ ~StopFilled
    BY <1>2, HeldOrSold DEF BuyChecks, At
  <2>2. /\ pc' \in {"place_buy", "idle"}
        /\ UNCHANGED <<position, tally, today, shares, cost, account_pnl, stop_hit, orders>>
    BY <1>2 DEF BuyChecks, Goto, Return, file, account, book
  <2>3. DayTally' = DayTally /\ (StoppedOutToday' <=> StoppedOutToday)
    BY <2>2 DEF tally, DayTally, StoppedOutToday
  <2>4. BlockReentryAfterStop => ~stop_hit
    BY <2>1 DEF Context, Books, StopHitPart, BuyPath, At
  <2> QED BY <2>1, <2>2, <2>3, <2>4, NothingAwaited DEF PositionKept, At, AwaitLabels
<1> QED BY <1>1, <1>2

\* A cancel in a calm state: the order no longer rests, and nothing else
\* changes.
LEMMA CalmCancel ==
    ASSUME DataOK, glitches'.calm, NEW i \in OrderIds, i < next_id,
           NEW ok \in BOOLEAN, Cancel(i, ok), today' = today
    PROVE  /\ \A j \in OrderIds :
                 /\ orders'[j].side = orders[j].side
                 /\ Filled(j)' <=> Filled(j)
                 /\ Resting(j)' => Resting(j)
                 /\ ~Resting(j) => orders'[j] = orders[j]
           /\ ~Resting(i)'
           /\ UNCHANGED next_id
<1>1. "cancel" \notin Harmless
  BY DEF Harmless
<1>2. CASE Resting(i)
  <2>1. SetStatus(i, "CANCELLED") /\ UNCHANGED next_id
    BY <1>1, <1>2, CalmGlitch DEF Cancel
  <2>2. \A j \in OrderIds :
           orders'[j] = IF j = i THEN [orders[i] EXCEPT !.status = "CANCELLED"]
                        ELSE orders[j]
    BY <2>1 DEF SetStatus, DataOK
  <2>3. orders[i] \in Order /\ orders[i].status = "OPEN"
    BY <1>2 DEF DataOK, Resting, OrderStatus
  <2>4. orders'[i].status = "CANCELLED" /\ orders'[i].side = orders[i].side
    BY <2>2, <2>3 DEF Order
  <2> QED BY <1>2, <2>1, <2>2, <2>3, <2>4 DEF Filled, Resting, OrderStatus
<1>3. CASE ~Resting(i)
  BY <1>3 DEF Cancel, Filled, Resting, OrderStatus
<1> QED BY <1>2, <1>3

\* _execute_sell and the ratchet take the resting stop away.
LEMMA CalmCancelsStop ==
    ASSUME Context, glitches'.calm, SellCancelsStop \/ EnsureCancelsStop
    PROVE  Books'
<1>1. position # None /\ ~StopFilled /\ pc \in {"sell", "ensure_cancel"}
  BY HeldOrSold DEF SellCancelsStop, EnsureCancelsStop, At, Context, DataInv,
     ControlInv, HoldingLabels, AwaitLabels
<1>2. /\ UNCHANGED <<position, tally, today, shares, cost, account_pnl, stop_hit>>
      /\ pc' \in {"place_sell", "sell_query", "ensure_place"}
  BY DEF SellCancelsStop, EnsureCancelsStop, Goto, file, account
<1>3. DayTally' = DayTally /\ (StoppedOutToday' <=> StoppedOutToday)
  BY <1>2 DEF tally, DayTally, StoppedOutToday
<1>4. CASE UNCHANGED orders /\ SellCancelsStop
  <2>1. pc' # "ensure_place"
    BY <1>4 DEF SellCancelsStop, Goto
  <2> QED BY <1>1, <1>2, <1>3, <1>4, <2>1, NothingAwaited DEF PositionKept, AwaitLabels
<1>5. ASSUME NEW ok \in BOOLEAN, Cancel(position.stop, ok), position.stop # 0
      PROVE  Books'
  <2>1. position.stop \in OrderIds /\ position.stop < next_id
    BY <1>1, <1>5, HeldOrSold
  <2>2. /\ \A j \in OrderIds :
                 /\ orders'[j].side = orders[j].side
                 /\ Filled(j)' <=> Filled(j)
                 /\ Resting(j)' => Resting(j)
        /\ \A j \in OrderIds : j = position.stop => ~Resting(j)'
    BY <1>2, <1>5, <2>1, CalmCancel DEF Context, DataInv
  <2>3. ~StopFilled' /\ ~SaleFilled /\ ~BuyFilled /\ ~SaleFilled' /\ ~BuyFilled' /\ ~BuyPath'
    BY <1>1, <1>2, <2>1, <2>2 DEF StopFilled, Filled, SaleFilled, BuyFilled,
       BuyPath, BuyInFlight, At, AwaitLabels
  <2>4. RestPart'
    <3>1. RestPart
      BY DEF Context, Books
    <3>2. position' = position /\ position # None
      BY <1>1, <1>2
    <3>3. pc \notin AwaitLabels
      BY <1>1 DEF AwaitLabels
    <3>4. Resting(position.stop)' => FALSE
      BY <2>1, <2>2, <3>2 DEF Resting, OrderStatus
    <3> QED BY <2>1, <2>2, <3>1, <3>2, <3>3, <3>4 DEF RestPart
  <2>5. FillPart'
    BY <1>2, <2>3 DEF FillPart, At
  <2> QED BY <1>1, <1>2, <1>3, <2>3, <2>4, <2>5, NothingTraded
<1>6. EnsureCancelsStop => position.stop # 0
  BY DEF EnsureCancelsStop, At, Context, DataInv, ControlInv, StopLabels
<1> QED BY <1>4, <1>5, <1>6 DEF SellCancelsStop, EnsureCancelsStop, book

\* The unfilled order is taken away, and the step goes on without it.
LEMMA CalmGivesUp ==
    ASSUME Context, glitches'.calm, OrderFailed \/ WindowEnds \/ CancelUnfilled
    PROVE  Books'
<1>1. /\ pc \in AwaitLabels /\ order \in OrderIds /\ order < next_id
      /\ orders[order].day = today /\ ~StopFilled
      /\ action = "reenter" => position = None
  BY HeldOrSold DEF OrderFailed, WindowEnds, CancelUnfilled, At, AwaitLabels,
     Context, DataInv, ControlInv, RecordsInv, AwaitRecord
<1>2. UNCHANGED <<position, tally, today, shares, cost, account_pnl, stop_hit>>
  BY DEF OrderFailed, WindowEnds, CancelUnfilled, file, account
<1>3. DayTally' = DayTally /\ (StoppedOutToday' <=> StoppedOutToday)
  BY <1>2 DEF tally, DayTally, StoppedOutToday
<1>4. FillPart /\ RestPart /\ StopHitPart
  BY DEF Context, Books
<1>5. "query" \notin Harmless
  BY DEF Harmless
<1>6. ~Filled(order)
  <2>1. CASE OrderFailed \/ WindowEnds
    BY <1>1, <1>5, <2>1, CalmGlitch DEF OrderFailed, WindowEnds, OrderStatus, Filled
  <2>2. CASE CancelUnfilled
    BY <1>4, <2>2 DEF CancelUnfilled, FillPart, At
  <2> QED BY <2>1, <2>2
<1>7. /\ \A j \in OrderIds : /\ orders'[j].side = orders[j].side
                             /\ Filled(j)' <=> Filled(j)
                             /\ Resting(j)' => Resting(j)
      /\ pc' \in AwaitLabels => WindowEnds /\ UNCHANGED orders
      /\ pc' \notin AwaitLabels => \A j \in OrderIds : j = order => ~Resting(j)'
  <2>1. CASE OrderFailed
    BY <1>1, <2>1 DEF OrderFailed, NotFilled, Return, EnsureStopThen, book,
       Filled, Resting, OrderStatus, AwaitLabels
  <2>2. CASE WindowEnds
    BY <2>2 DEF WindowEnds, Goto, book, Filled, Resting, OrderStatus, AwaitLabels
  <2>3. CASE CancelUnfilled
    <3>1. PICK ok \in BOOLEAN : Cancel(order, ok)
      BY <2>3 DEF CancelUnfilled
    <3>2. pc' \notin AwaitLabels
      BY <2>3 DEF CancelUnfilled, NotFilled, Return, EnsureStopThen, AwaitLabels
    <3>3. /\ \A j \in OrderIds : /\ orders'[j].side = orders[j].side
                                 /\ Filled(j)' <=> Filled(j)
                                 /\ Resting(j)' => Resting(j)
          /\ \A j \in OrderIds : j = order => ~Resting(j)'
      BY <1>1, <1>2, <3>1, CalmCancel DEF Context, DataInv
    <3> QED BY <1>1, <3>2, <3>3
  <2> QED BY <2>1, <2>2, <2>3
<1>8. pc' \in AwaitLabels => pc' = "await_cancel" /\ UNCHANGED <<order, action>>
  BY <1>7 DEF WindowEnds, Goto, AwaitLabels
<1>9. RestPart'
  <2>1. pc' # "ensure_place"
    BY DEF OrderFailed, WindowEnds, CancelUnfilled, NotFilled, Return,
       EnsureStopThen, Goto
  <2> QED BY <1>2, <1>4, <1>7, <1>8, <2>1 DEF RestPart, At
<1>10. ~StopFilled' /\ ~SaleFilled /\ ~BuyFilled /\ ~SaleFilled' /\ ~BuyFilled'
  <2>1. ~StopFilled'
    BY <1>1, <1>2, <1>7, HeldOrSold DEF StopFilled, Filled
  <2> QED BY <1>6, <1>8, <2>1 DEF SaleFilled, BuyFilled, At, AwaitLabels
<1>11. FillPart'
  <2>1. pc' # "settle"
    BY DEF OrderFailed, WindowEnds, CancelUnfilled, NotFilled, Return,
       EnsureStopThen, Goto
  <2>2. pc' = "await_cancel" => ~Filled(order)'
    BY <1>1, <1>6, <1>7, <1>8 DEF Filled, AwaitLabels
  <2> QED BY <1>10, <2>1, <2>2 DEF FillPart, At
<1>12. BlockReentryAfterStop /\ BuyPath' => ~stop_hit
  <2>1. pc' \notin {"buy_check", "place_buy"}
    BY DEF OrderFailed, WindowEnds, CancelUnfilled, NotFilled, Return,
       EnsureStopThen, Goto
  <2>2. BuyPath' => BuyPath
    BY <1>1, <1>8, <2>1 DEF BuyPath, BuyInFlight, AwaitLabels
  <2> QED BY <1>4, <2>2 DEF StopHitPart
<1> QED BY <1>1, <1>2, <1>3, <1>9, <1>10, <1>11, <1>12, NothingTraded

\* The steps of _ensure_protective_stop that send nothing.
LEMMA CalmEnsures ==
    ASSUME Context, glitches'.calm, EnsureStop \/ EnsureQueriesStop
    PROVE  Books'
<1>1. /\ pc \in {"ensure", "ensure_state"} /\ position # None /\ ~StopFilled
      /\ after \in {"idle", "quote"}
  BY HeldOrSold DEF EnsureStop, EnsureQueriesStop, At, Context, DataInv,
     DataOK, ControlInv, HoldingLabels, AwaitLabels
<1>2. UNCHANGED <<position, tally, today, shares, cost, account_pnl, stop_hit, orders>>
  BY DEF EnsureStop, EnsureQueriesStop, file, account, book
<1>3. DayTally' = DayTally /\ (StoppedOutToday' <=> StoppedOutToday)
  BY <1>2 DEF tally, DayTally, StoppedOutToday
<1>4. pc' \in {"ensure_place", "ensure_state", "ensure_cancel", "idle", "quote"}
  BY <1>1 DEF EnsureStop, EnsureQueriesStop, Goto, StopEnsured, Return
<1>5. pc' = "ensure_place" /\ position.stop # 0 => ~Resting(position.stop)
  <2>1. CASE EnsureStop
    <3>1. pc' = "ensure_place" /\ position.stop # 0 => position.placed_on < today
      BY <2>1 DEF EnsureStop, Goto, StopIsStale
    <3>2. today \in Int
      BY DEF Context, DataInv, DataOK
    <3> QED BY <1>1, <3>1, <3>2, HeldOrSold DEF Resting, OrderStatus
  <2>2. CASE EnsureQueriesStop
    <3>1. "query" \notin Harmless
      BY DEF Harmless
    <3>2. PICK s \in Status \cup {"UNKNOWN"} :
            /\ s = OrderStatus(position.stop)
            /\ pc' = "ensure_place" => s \in {"CANCELLED", "REJECTED"}
      BY <1>1, <2>2, <3>1, CalmGlitch DEF EnsureQueriesStop, Query, Goto,
         StopEnsured, Return
    <3> QED BY <3>2 DEF Resting
  <2> QED BY <2>1, <2>2
<1> QED BY <1>1, <1>2, <1>3, <1>4, <1>5, NothingAwaited DEF PositionKept, AwaitLabels

\* A placement in a calm state sends the order, or nothing.
LEMMA CalmPlace ==
    ASSUME DataOK, glitches'.calm, NEW side \in {"BUY", "SELL", "SL"}, NEW qty \in Nat,
           NEW px \in Int, NEW id \in OrderIds \cup {0}, Place(side, qty, px, id)
    PROVE  \/ id = 0 /\ UNCHANGED orders
           \/ /\ id = next_id /\ id \in OrderIds
              /\ orders'[id].side = side /\ orders'[id].status = "OPEN"
              /\ \A i \in OrderIds : i # next_id => orders'[i] = orders[i]
<1>1. "ack" \notin Harmless
  BY DEF Harmless
<1>2. glitches' \in GlitchRecord
  BY GlitchType DEF Place
<1>3. CASE id = 0 /\ UNCHANGED book
  BY <1>3 DEF book
<1>4. CASE id = next_id /\ Send(side, qty, px)
  BY <1>2, <1>4, SendBook
<1> QED BY <1>1, <1>3, <1>4, CalmGlitch DEF Place

\* A limit order goes out, or fails to.
LEMMA CalmPlacesOrder ==
    ASSUME Context, glitches'.calm, PlaceSell \/ PlaceBuy
    PROVE  Books'
<1>1. /\ pc \in {"place_sell", "place_buy"} /\ ~StopFilled /\ ~SaleFilled /\ ~BuyFilled
      /\ pc = "place_sell" => position # None /\ action # "reenter"
      /\ pc = "place_buy" => position = None /\ action = "reenter"
  BY HeldOrSold DEF PlaceSell, PlaceBuy, PlaceOrder, At, Context, DataInv,
     ControlInv, HoldingLabels, AwaitLabels
<1>2. UNCHANGED <<position, tally, today, shares, cost, account_pnl, stop_hit>>
  BY DEF PlaceSell, PlaceBuy, PlaceOrder, file, account
<1>3. DayTally' = DayTally /\ (StoppedOutToday' <=> StoppedOutToday)
  BY <1>2 DEF tally, DayTally, StoppedOutToday
<1>4. PICK id \in OrderIds \cup {0}, side \in {"BUY", "SELL"}, qty \in Nat :
        /\ Place(side, qty, 0, id)
        /\ id = 0 => pc' \in {"ensure", "idle"}
        /\ id # 0 => pc' = "await" /\ order' = id /\ action' = action
  <2>1. PlaceSell => position.qty \in Nat
    BY <1>1, HeldOrSold DEF PlaceSell, PlaceOrder, At
  <2>2. Qty \in Nat
    BY CycleAssumption
  <2> QED BY <2>1, <2>2 DEF PlaceSell, PlaceBuy, PlaceOrder, EnsureStopThen, Return
<1>5. FillPart /\ RestPart /\ StopHitPart
  BY DEF Context, Books
<1>6. pc \notin AwaitLabels
  BY <1>1 DEF AwaitLabels
<1>7. CASE id = 0 /\ UNCHANGED orders
  <2> QED BY <1>1, <1>2, <1>3, <1>4, <1>6, <1>7, NothingAwaited
          DEF PositionKept, AwaitLabels
<1>8. CASE /\ id = next_id /\ id \in OrderIds
           /\ orders'[id].side = side /\ orders'[id].status = "OPEN"
           /\ \A i \in OrderIds : i # next_id => orders'[i] = orders[i]
  <2>1. pc' = "await" /\ order' = id /\ action' = action
    BY <1>4, <1>8 DEF OrderIds
  <2>2. position # None /\ position.stop # 0 =>
          orders'[position.stop] = orders[position.stop]
    <3>1. position # None /\ position.stop # 0 =>
            position.stop \in OrderIds /\ position.stop < next_id
      BY HeldOrSold
    <3>2. next_id \in Int /\ OrderIds \subseteq Int
      BY DEF Context, DataInv, DataOK, OrderIds
    <3> QED BY <1>8, <3>1, <3>2
  <2>3. ~StopFilled' /\ ~SaleFilled' /\ ~BuyFilled'
    BY <1>1, <1>2, <1>8, <2>1, <2>2 DEF StopFilled, SaleFilled, BuyFilled, Filled
  <2>4. RestPart'
    <3>1. \A i \in OrderIds : i # id /\ Resting(i)' =>
            orders'[i] = orders[i] /\ Resting(i)
      BY <1>2, <1>8 DEF Resting, OrderStatus
    <3>2. \A i \in OrderIds : i # id /\ Resting(i)' =>
            orders'[i].side = "SL" /\ position # None /\ position.stop = i
      BY <1>5, <1>6, <3>1 DEF RestPart
    <3>3. orders'[id].side # "SL"
      BY <1>8
    <3> QED BY <1>2, <2>1, <3>2, <3>3 DEF RestPart, At, AwaitLabels
  <2>5. FillPart'
    BY <2>1, <2>3 DEF FillPart, At
  <2>6. BlockReentryAfterStop /\ BuyPath' => ~stop_hit
    BY <1>1, <1>5, <2>1 DEF StopHitPart, BuyPath, BuyInFlight
  <2> QED BY <1>1, <1>2, <1>3, <2>3, <2>4, <2>5, <2>6, NothingTraded
<1> QED BY <1>4, <1>7, <1>8, CalmPlace DEF Context, DataInv

\* A stop goes out and is recorded, or fails to.
LEMMA CalmPlacesStop ==
    ASSUME Context, glitches'.calm, PlaceInitialStop \/ EnsurePlacesStop
    PROVE  Books'
<1>1. /\ pc \in {"buy_stop", "ensure_place"} /\ position # None /\ position \in Position
      /\ ~StopFilled /\ ~SaleFilled /\ ~BuyFilled
      /\ pc = "buy_stop" => position.stop = 0
      /\ pc = "ensure_place" /\ position.stop # 0 => ~Resting(position.stop)
      /\ after \in {"idle", "quote"}
  <2>1. pc \in {"buy_stop", "ensure_place"} /\ position # None
    BY DEF PlaceInitialStop, EnsurePlacesStop, At, Context, DataInv, ControlInv,
       HoldingLabels
  <2>2. position \in Position /\ after \in {"idle", "quote"}
    BY <2>1 DEF Context, DataInv, DataOK
  <2>3. RestPart /\ StopRecord
    BY DEF Context, Books, RecordsInv
  <2> QED BY <2>1, <2>2, <2>3, HeldOrSold DEF RestPart, StopRecord, At, AwaitLabels
<1>2. UNCHANGED <<tally, today, shares, cost, account_pnl, stop_hit>>
  BY DEF PlaceInitialStop, EnsurePlacesStop, account
<1>3. DayTally' = DayTally /\ (StoppedOutToday' <=> StoppedOutToday)
  BY <1>2 DEF tally, DayTally, StoppedOutToday
<1>4. "crash" \notin Harmless
  BY DEF Harmless
<1>5. PICK id \in OrderIds \cup {0}, d \in Int :
        /\ PlaceStopLoss(position.qty, d, id) /\ RecordStop(id, d)
        /\ pc' \in {"idle", "quote"}
  <2>1. position.sl \in Int /\ StopLevels \subseteq Int
    BY <1>1, StopLevelsType DEF Position
  <2> QED BY <1>1, <1>4, <2>1, CalmGlitch DEF PlaceInitialStop, EnsurePlacesStop,
             StopEnsured, Return
<1>6. /\ position' # None /\ position'.stop = id /\ position'.entry = position.entry
      /\ position'.qty = position.qty /\ position'.sl = position.sl
  <2>1. today \in Int
    BY DEF Context, DataInv, DataOK
  <2> QED BY <1>1, <1>5, <2>1, RecordStopType DEF RecordStop, Position
<1>7. \/ id = 0 /\ UNCHANGED orders
      \/ /\ id = next_id /\ id \in OrderIds
         /\ orders'[id].side = "SL" /\ orders'[id].status = "OPEN"
         /\ \A i \in OrderIds : i # next_id => orders'[i] = orders[i]
  <2>1. position.qty \in Nat
    BY <1>1 DEF Position
  <2>2. DataOK
    BY DEF Context, DataInv
  <2>3. CASE d < price
    BY <1>5, <2>1, <2>2, <2>3, CalmPlace DEF PlaceStopLoss
  <2>4. CASE ~(d < price)
    BY <1>5, <2>4 DEF PlaceStopLoss, book
  <2> QED BY <2>3, <2>4
<1>8. ~StopFilled' /\ ~SaleFilled' /\ ~BuyFilled' /\ ~BuyPath'
  BY <1>5, <1>6, <1>7 DEF StopFilled, SaleFilled, BuyFilled, Filled, BuyPath,
     BuyInFlight, At
<1>9. RestPart'
  <2>1. RestPart /\ pc \notin AwaitLabels
    BY <1>1 DEF Context, Books, AwaitLabels
  <2>2. \A i \in OrderIds : Resting(i)' /\ i # id =>
          /\ orders'[i] = orders[i] /\ Resting(i)
    BY <1>2, <1>7 DEF Resting, OrderStatus
  <2>3. \A i \in OrderIds : ~Resting(i)
    <3>1. 0 \notin OrderIds
      BY DEF OrderIds
    <3> QED BY <1>1, <2>1, <3>1 DEF RestPart
  <2>4. \A i \in OrderIds : Resting(i)' => i = id /\ id # 0
    BY <2>2, <2>3 DEF OrderIds
  <2> QED BY <1>5, <1>6, <1>7, <2>4 DEF RestPart, At
<1>10. FillPart'
  BY <1>5, <1>8 DEF FillPart, At
<1> QED BY <1>1, <1>2, <1>3, <1>6, <1>8, <1>9, <1>10, NothingTraded

\* Booking an exit: what the account has made is in the file.
LEMMA CalmBooks ==
    ASSUME Context, position' = None, pc' = "idle", day' = today,
           UNCHANGED <<today, shares, cost, account_pnl, stop_hit, orders>>,
           StopFilled \/ SaleFilled,
           pnl_today' = DayTally + Unbooked,
           stop_hit => stopped_out'
    PROVE  Books'
<1>1. /\ ~StopFilled' /\ ~SaleFilled' /\ ~BuyFilled' /\ ~BuyPath'
  BY DEF StopFilled, SaleFilled, BuyFilled, BuyPath, BuyInFlight, At
<1>2. position # None /\ ~BuyFilled
  BY DEF StopFilled, SaleFilled, BuyFilled, At, Context, DataInv, ControlInv,
     AwaitLabels
<1>3. HoldPart'
  <2>1. shares = 0
    BY <1>2 DEF Context, Books, HoldPart
  <2> QED BY <1>1, <2>1 DEF HoldPart
<1>4. BalancePart'
  BY <1>1 DEF Context, Books, BalancePart, DayTally, Unbooked
<1>5. StopHitPart'
  BY <1>1 DEF StopHitPart, StoppedOutToday
<1>6. RestPart'
  <2>1. RestPart
    BY DEF Context, Books
  <2>2. \A i \in OrderIds : ~Resting(i)
    <3>1. CASE StopFilled
      <4>1. pc \notin AwaitLabels /\ ~Resting(position.stop)
        BY <3>1, HeldOrSold DEF AwaitLabels, StopFilled, Filled, Resting, OrderStatus
      <4> QED BY <2>1, <4>1 DEF RestPart
    <3>2. CASE SaleFilled
      <4>1. ~Resting(order)
        BY <3>2 DEF SaleFilled, Filled, Resting, OrderStatus
      <4>2. position.stop # 0 => ~Resting(position.stop)
        BY <3>2 DEF Context, StopInv, RecordedStopDeadBeforeSell, SaleFilled,
           SellInFlight, At
      <4>3. 0 \notin OrderIds
        BY DEF OrderIds
      <4> QED BY <2>1, <4>1, <4>2, <4>3 DEF RestPart
    <3> QED BY <3>1, <3>2
  <2>3. \A i \in OrderIds : ~Resting(i)'
    BY <2>2 DEF Resting, OrderStatus
  <2> QED BY <2>3 DEF RestPart, At
<1>7. FillPart'
  BY <1>1 DEF FillPart, At
<1> QED BY <1>3, <1>4, <1>5, <1>6, <1>7 DEF Books

\* _settle_closed_position: a stop that filled today is booked; one that filled
\* on an earlier day is not, and the new day's account knows nothing of it.
LEMMA CalmSettles ==
    ASSUME Context, glitches'.calm, SettleClosedPosition
    PROVE  Books'
<1>1. /\ At("settle") /\ StopFilled /\ position # None /\ position.stop # 0
      /\ ~SaleFilled /\ ~BuyFilled /\ day = today
  <2>1. At("settle")
    BY DEF SettleClosedPosition
  <2>2. StopFilled
    BY <2>1 DEF Context, Books, FillPart
  <2> QED BY <2>1, <2>2, HeldOrSold DEF StopFilled, At, AwaitLabels
<1>2. /\ position' = None /\ pc' = "idle"
      /\ UNCHANGED <<today, shares, cost, account_pnl, stop_hit, orders>>
  BY DEF SettleClosedPosition, BookStopFill, RecordExit, ClearPosition, Return,
     account, book
<1>3. "query" \notin Harmless
  BY DEF Harmless
<1>4. PICK s \in Status \cup {"UNKNOWN"} :
        /\ s = OrderStatus(position.stop)
        /\ IF s = "COMPLETE" THEN BookStopFill ELSE ClearPosition /\ UNCHANGED tally
  BY <1>3, CalmGlitch DEF SettleClosedPosition, Query
<1>5. CASE orders[position.stop].day = today
  <2>1. s = "COMPLETE"
    BY <1>1, <1>4, <1>5 DEF OrderStatus, StopFilled, Filled
  <2>2. /\ day' = today
        /\ pnl_today' = DayTally + (orders[position.stop].px - position.entry)
                                     * orders[position.stop].qty - Charges
        /\ stopped_out' = (StoppedOutToday \/ StopWasProtective)
    BY <1>4, <2>1 DEF BookStopFill, RecordExit, DayTally, StoppedOutToday
  <2>3. position.entry = cost
    BY <1>1 DEF Context, Books, HoldPart
  <2>4. pnl_today' = DayTally + Unbooked
    <3>1. Unbooked = (orders[position.stop].px - cost) * orders[position.stop].qty - Charges
      BY <1>1, <1>5 DEF Unbooked, Gain
    <3>2. /\ DayTally \in Int /\ Charges \in Int /\ cost \in Int
          /\ orders[position.stop].px \in Int /\ orders[position.stop].qty \in Int
      BY <1>1, HeldOrSold, CycleAssumption
         DEF Context, DataInv, DataOK, DayTally, Order
    <3>3. (orders[position.stop].px - cost) * orders[position.stop].qty \in Int
      BY <3>2
    <3> QED BY <2>2, <2>3, <3>1, <3>2, <3>3
  <2>5. stop_hit => stopped_out'
    <3>1. stop_hit => StoppedOutToday \/ orders[position.stop].px <= position.sl
      BY <1>1 DEF Context, Books, StopHitPart
    <3>2. orders[position.stop].px = position.trigger
      BY <1>1 DEF Context, RecordsInv, StopRecord
    <3> QED BY <2>2, <3>1, <3>2 DEF StopWasProtective
  <2> QED BY <1>1, <1>2, <2>2, <2>4, <2>5, CalmBooks
<1>6. CASE orders[position.stop].day # today
  <2>1. UNCHANGED tally
    BY <1>4, <1>6 DEF OrderStatus
  <2>2. /\ ~StopFilled' /\ ~SaleFilled' /\ ~BuyFilled' /\ ~BuyPath'
    BY <1>2 DEF StopFilled, SaleFilled, BuyFilled, BuyPath, BuyInFlight, At
  <2>3. HoldPart'
    <3>1. shares = 0
      BY <1>1 DEF Context, Books, HoldPart
    <3> QED BY <1>2, <2>2, <3>1 DEF HoldPart
  <2>4. BalancePart'
    <3>1. Unbooked = 0
      BY <1>1, <1>6 DEF Unbooked
    <3>2. Unbooked' = 0
      BY <2>2 DEF Unbooked
    <3>3. DayTally' = DayTally
      BY <1>2, <2>1 DEF DayTally, tally
    <3>4. account_pnl = DayTally + Unbooked /\ account_pnl' = account_pnl
      BY <1>2 DEF Context, Books, BalancePart
    <3> QED BY <3>1, <3>2, <3>3, <3>4 DEF BalancePart
  <2>5. StopHitPart'
    <3>1. stop_hit => StoppedOutToday
      BY <1>1, <1>6 DEF Context, Books, StopHitPart
    <3>2. StoppedOutToday' <=> StoppedOutToday
      BY <1>2, <2>1 DEF StoppedOutToday, tally
    <3> QED BY <1>2, <2>2, <3>1, <3>2 DEF StopHitPart
  <2>6. RestPart'
    <3>1. RestPart /\ pc \notin AwaitLabels
      BY <1>1 DEF Context, Books, At, AwaitLabels
    <3>2. ~Resting(position.stop)
      BY <1>6 DEF Resting, OrderStatus
    <3>3. \A i \in OrderIds : ~Resting(i)
      BY <3>1, <3>2 DEF RestPart
    <3>4. \A i \in OrderIds : ~Resting(i)'
      BY <1>2, <3>3 DEF Resting, OrderStatus
    <3> QED BY <1>2, <3>4 DEF RestPart, At
  <2>7. FillPart'
    BY <1>2, <2>2 DEF FillPart, At
  <2> QED BY <2>3, <2>4, <2>5, <2>6, <2>7 DEF Books
<1> QED BY <1>5, <1>6

\* A confirmed sale is booked at its price; a confirmed purchase becomes the
\* position.
LEMMA CalmConfirms ==
    ASSUME Context, glitches'.calm, FillConfirmed
    PROVE  Books'
<1>1. /\ At("await") /\ Filled(order) /\ order \in OrderIds /\ order < next_id
      /\ ~StopFilled /\ day = today /\ orders[order].day = today
      /\ orders[order] \in Order
      /\ action = "reenter" => /\ position = None /\ orders[order].side = "BUY"
                               /\ orders[order].qty > 0
      /\ action # "reenter" => /\ position # None /\ orders[order].side = "SELL"
                               /\ orders[order].qty = position.qty
  <2>1. At("await") /\ OrderStatus(order) = "COMPLETE"
    BY DEF FillConfirmed
  <2>2. /\ order \in OrderIds /\ order < next_id /\ orders[order] \in Order
        /\ action = "reenter" => /\ position = None /\ orders[order].side = "BUY"
                                 /\ orders[order].qty > 0
        /\ action # "reenter" => position # None /\ orders[order].side = "SELL"
    BY <2>1 DEF Context, DataInv, DataOK, ControlInv, At, AwaitLabels
  <2>3. /\ orders[order].day = today
        /\ action # "reenter" => orders[order].qty = position.qty
    BY <2>1 DEF Context, RecordsInv, AwaitRecord, At, AwaitLabels
  <2>4. ~StopFilled /\ day = today
    BY <2>1, HeldOrSold DEF At
  <2> QED BY <2>1, <2>2, <2>3, <2>4 DEF OrderStatus, Filled
<1>2. UNCHANGED <<today, shares, cost, account_pnl, stop_hit, orders>>
  BY DEF FillConfirmed, account, book
<1>3. CASE action # "reenter"
  <2>1. SaleFilled /\ ~BuyFilled
    BY <1>1, <1>3 DEF SaleFilled, BuyFilled
  <2>2. /\ pc' = "idle" /\ position' = None /\ day' = today
        /\ pnl_today' = DayTally + (orders[order].px - position.entry)
                                     * position.qty - Charges
        /\ stopped_out' = (StoppedOutToday \/ action = "exit_sl")
    BY <1>1, <1>3 DEF FillConfirmed, RecordExit, ClearPosition, Return, DayTally,
       StoppedOutToday
  <2>3. position.entry = cost
    BY <1>1, <1>3 DEF Context, Books, HoldPart
  <2>4. pnl_today' = DayTally + Unbooked
    <3>1. Unbooked = (orders[order].px - cost) * position.qty - Charges
      BY <1>1, <1>3, <2>1 DEF Unbooked, Gain
    <3>2. /\ DayTally \in Int /\ Charges \in Int /\ cost \in Int
          /\ orders[order].px \in Int /\ position.qty \in Int
      BY <1>1, <1>3, HeldOrSold, CycleAssumption
         DEF Context, DataInv, DataOK, DayTally, Order
    <3>3. (orders[order].px - cost) * position.qty \in Int
      BY <3>2
    <3> QED BY <2>2, <2>3, <3>1, <3>2, <3>3
  <2>5. stop_hit => stopped_out'
    <3>1. stop_hit => StoppedOutToday \/ action = "exit_sl"
      BY <1>1 DEF Context, Books, StopHitPart
    <3> QED BY <2>2, <3>1
  <2> QED BY <1>2, <2>1, <2>2, <2>4, <2>5, CalmBooks
<1>4. CASE action = "reenter"
  <2>1. BuyFilled /\ ~SaleFilled
    BY <1>1, <1>4 DEF SaleFilled, BuyFilled
  <2>2. /\ orders[order].px \in Int /\ orders[order].qty \in Nat \ {0}
        /\ orders[order].side # "SELL"
    BY <1>1, <1>4 DEF Order
  <2>3. PICK m \in Markets :
          position' = NewPosition(orders[order].px, orders[order].qty, m.atr)
    BY <2>2 DEF FillConfirmed
  <2>4. /\ position' # None /\ position'.stop = 0
        /\ position'.entry = orders[order].px /\ position'.qty = orders[order].qty
    BY <2>2, <2>3, NewPositionType DEF NewPosition
  <2>5. pc' = "buy_stop" /\ UNCHANGED <<action, order, tally>>
    BY <2>2 DEF FillConfirmed, Goto
  <2>6. /\ ~StopFilled' /\ ~SaleFilled' /\ ~BuyFilled' /\ ~BuyPath'
    BY <2>4, <2>5 DEF StopFilled, SaleFilled, BuyFilled, BuyPath, BuyInFlight, At
  <2>7. HoldPart'
    <3>1. shares = orders[order].qty /\ cost = orders[order].px
      BY <1>1, <1>4, <2>1 DEF Context, Books, HoldPart
    <3>2. Live
      BY <1>1 DEF Context, DryRunInv, At
    <3> QED BY <1>2, <2>4, <2>6, <3>1, <3>2 DEF HoldPart
  <2>8. BalancePart'
    <3>1. Unbooked = 0 /\ Unbooked' = 0
      BY <1>1, <2>1, <2>6 DEF Unbooked
    <3>2. DayTally' = DayTally
      BY <1>2, <2>5 DEF DayTally, tally
    <3>3. account_pnl = DayTally + Unbooked /\ account_pnl' = account_pnl
      BY <1>2 DEF Context, Books, BalancePart
    <3> QED BY <3>1, <3>2, <3>3 DEF BalancePart
  <2>9. StopHitPart'
    <3>1. stop_hit => StoppedOutToday
      BY <1>1, <2>1 DEF Context, Books, StopHitPart
    <3>2. StoppedOutToday' <=> StoppedOutToday
      BY <1>2, <2>5 DEF StoppedOutToday, tally
    <3> QED BY <1>2, <2>6, <3>1, <3>2 DEF StopHitPart
  <2>10. RestPart'
    <3>1. RestPart
      BY DEF Context, Books
    <3>2. ~Resting(order)
      BY <1>1 DEF Resting, OrderStatus, Filled
    <3>3. \A i \in OrderIds : ~Resting(i)
      BY <1>1, <1>4, <3>1, <3>2 DEF RestPart
    <3>4. \A i \in OrderIds : ~Resting(i)'
      BY <1>2, <3>3 DEF Resting, OrderStatus
    <3> QED BY <2>5, <3>4 DEF RestPart, At
  <2>11. FillPart'
    BY <2>5, <2>6 DEF FillPart, At
  <2> QED BY <2>7, <2>8, <2>9, <2>10, <2>11 DEF Books
<1> QED BY <1>3, <1>4

\* The market trades the recorded stop, before the step has looked.
LEMMA CalmStopFills ==
    ASSUME Context, glitches'.calm, NEW i \in OrderIds, StopFills(i)
    PROVE  Books'
<1>1. orders[i].day = today /\ orders[i].status = "OPEN" /\ orders[i].side = "SL"
  BY DEF StopFills, Resting, OrderStatus
<1>2. position # None /\ position.stop = i /\ i # 0
  BY DEF Context, Books, RestPart, StopFills, OrderIds
<1>3. pc \in {"idle", "held"}
  <2>1. FillIsSeen(i)
    BY DEF StopFills, NoteFill, Context, DataInv, DataOK, GlitchRecord
  <2>2. At("await") => orders[order].side # "SL"
    BY DEF Context, DataInv, ControlInv, At, AwaitLabels
  <2> QED BY <1>1, <2>1, <2>2 DEF FillIsSeen, At
<1>4. ~StopFilled /\ ~SaleFilled /\ ~BuyFilled
  BY <1>1, <1>2, <1>3 DEF StopFilled, SaleFilled, BuyFilled, Filled, At
<1>5. /\ UNCHANGED <<position, tally, today, cost, pc>>
      /\ shares' = shares - orders[i].qty
      /\ account_pnl' = account_pnl + (orders[i].px - cost) * orders[i].qty - Charges
      /\ stop_hit' = (stop_hit \/ orders[i].px <= position.sl)
  BY <1>2 DEF StopFills, Sold, file, local
<1>6. /\ orders'[i].status = "COMPLETE" /\ orders'[i].day = today
      /\ orders'[i].px = orders[i].px /\ orders'[i].qty = orders[i].qty
      /\ orders'[i].side = "SL"
      /\ \A j \in OrderIds : j # i => orders'[j] = orders[j]
  BY <1>1 DEF StopFills, SetStatus, Context, DataInv, DataOK, Order
<1>7. StopFilled' /\ ~SaleFilled' /\ ~BuyFilled' /\ ~BuyPath'
  BY <1>2, <1>3, <1>5, <1>6 DEF StopFilled, SaleFilled, BuyFilled, Filled,
     BuyPath, BuyInFlight, At
<1>8. HoldPart'
  <2>1. shares = position.qty /\ position.entry = cost /\ Live
    BY <1>2, <1>4 DEF Context, Books, HoldPart
  <2>2. orders[i].qty = position.qty /\ position.qty \in Nat
    BY <1>2, HeldOrSold DEF Context, RecordsInv, StopRecord
  <2>3. shares' = 0
    BY <1>5, <2>1, <2>2
  <2> QED BY <1>2, <1>5, <1>7, <2>1, <2>3 DEF HoldPart
<1>9. BalancePart'
  <2>1. Unbooked = 0
    BY <1>4 DEF Unbooked
  <2>2. Unbooked' = (orders[i].px - cost) * orders[i].qty - Charges
    BY <1>2, <1>5, <1>6, <1>7 DEF Unbooked, Gain
  <2>3. DayTally' = DayTally
    BY <1>5 DEF DayTally, tally
  <2>4. account_pnl = DayTally + Unbooked
    BY DEF Context, Books, BalancePart
  <2>5. /\ DayTally \in Int /\ Charges \in Int /\ cost \in Int
        /\ orders[i].px \in Int /\ orders[i].qty \in Int
    BY CycleAssumption DEF Context, DataInv, DataOK, DayTally, Order
  <2>6. (orders[i].px - cost) * orders[i].qty \in Int
    BY <2>5
  <2>7. account_pnl' = DayTally' + Unbooked'
    BY <1>5, <2>1, <2>2, <2>3, <2>4, <2>5, <2>6
  <2> QED BY <2>7 DEF BalancePart
<1>10. StopHitPart'
  <2>1. stop_hit => StoppedOutToday
    BY <1>4 DEF Context, Books, StopHitPart
  <2>2. StoppedOutToday' <=> StoppedOutToday
    BY <1>5 DEF StoppedOutToday, tally
  <2>3. stop_hit' => StoppedOutToday' \/ orders'[i].px <= position.sl
    BY <1>5, <1>6, <2>1, <2>2
  <2>4. position'.stop = i /\ position'.sl = position.sl /\ today' = today
    BY <1>2, <1>5
  <2> QED BY <1>6, <1>7, <2>3, <2>4 DEF StopHitPart
<1>11. RestPart'
  <2>1. \A j \in OrderIds : Resting(j)' => j # i /\ orders'[j] = orders[j] /\ Resting(j)
    BY <1>5, <1>6 DEF Resting, OrderStatus
  <2>2. \A j \in OrderIds : Resting(j) => position.stop = j
    BY <1>3 DEF Context, Books, RestPart, AwaitLabels
  <2>3. \A j \in OrderIds : ~Resting(j)'
    BY <1>2, <2>1, <2>2
  <2> QED BY <1>3, <1>5, <2>3 DEF RestPart, At
<1>12. FillPart'
  BY <1>3, <1>5, <1>7 DEF FillPart, At
<1> QED BY <1>8, <1>9, <1>10, <1>11, <1>12 DEF Books

\* The market trades the order the step waits for.
LEMMA CalmLimitFills ==
    ASSUME Context, glitches'.calm, NEW i \in OrderIds, LimitFills(i)
    PROVE  Books'
<1>1. orders[i].day = today /\ orders[i].status = "OPEN" /\ orders[i].side # "SL"
  BY DEF LimitFills, Resting, OrderStatus
<1>2. /\ pc = "await" /\ order = i
      /\ action = "reenter" => position = None /\ orders[i].side = "BUY"
      /\ action # "reenter" => /\ position # None /\ orders[i].side = "SELL"
                               /\ orders[i].qty = position.qty
  <2>1. pc \in AwaitLabels /\ order = i
    BY <1>1 DEF Context, Books, RestPart, LimitFills
  <2>2. FillIsSeen(i)
    BY DEF LimitFills, NoteFill, Context, DataInv, DataOK, GlitchRecord
  <2>3. pc = "await"
    BY <2>1, <2>2 DEF FillIsSeen, At, AwaitLabels
  <2> QED BY <2>1, <2>3 DEF Context, DataInv, ControlInv, RecordsInv, AwaitRecord
<1>3. ~StopFilled /\ ~SaleFilled /\ ~BuyFilled
  BY <1>1, <1>2, HeldOrSold DEF SaleFilled, BuyFilled, Filled
<1>4. UNCHANGED <<position, tally, today, pc, order, action>>
  BY DEF LimitFills, file, local
<1>5. /\ orders'[i].status = "COMPLETE" /\ orders'[i].day = today
      /\ orders'[i].px = price /\ orders'[i].qty = orders[i].qty
      /\ orders'[i].side = orders[i].side
      /\ \A j \in OrderIds : j # i => orders'[j] = orders[j]
  BY <1>1 DEF LimitFills, Context, DataInv, DataOK, Order
<1>6. ~StopFilled'
  <2>1. position # None /\ position.stop # 0 =>
          position.stop \in OrderIds /\ orders[position.stop].side = "SL"
    BY HeldOrSold DEF Context, RecordsInv, StopRecord
  <2> QED BY <1>1, <1>3, <1>4, <1>5, <2>1 DEF StopFilled, Filled
<1>7. RestPart'
  <2>1. \A j \in OrderIds : Resting(j)' => j # i /\ orders'[j] = orders[j] /\ Resting(j)
    BY <1>4, <1>5 DEF Resting, OrderStatus
  <2>2. RestPart
    BY DEF Context, Books
  <2> QED BY <1>2, <1>4, <2>1, <2>2 DEF RestPart, At
<1>8. FillPart'
  BY <1>2, <1>4, <1>6 DEF FillPart, At
<1>9. CASE action = "reenter"
  <2>1. BuyFilled' /\ ~SaleFilled' /\ (BuyPath' <=> BuyPath)
    BY <1>2, <1>4, <1>5, <1>9 DEF BuyFilled, SaleFilled, Filled, BuyPath,
       BuyInFlight, At
  <2>2. /\ shares' = shares + orders[i].qty /\ cost' = price
        /\ UNCHANGED <<account_pnl, stop_hit>>
    BY <1>2, <1>9 DEF LimitFills
  <2>3. HoldPart'
    <3>1. shares = 0
      BY <1>2, <1>3, <1>9 DEF Context, Books, HoldPart
    <3>2. orders[i].qty \in Nat
      BY DEF Context, DataInv, DataOK, Order
    <3>3. shares' = orders'[i].qty /\ cost' = orders'[i].px
      BY <1>5, <2>2, <3>1, <3>2
    <3> QED BY <1>2, <1>4, <1>9, <2>1, <3>3 DEF HoldPart
  <2>4. BalancePart'
    <3>1. Unbooked = 0 /\ Unbooked' = 0
      BY <1>3, <1>6, <2>1 DEF Unbooked
    <3>2. DayTally' = DayTally
      BY <1>4 DEF DayTally, tally
    <3>3. account_pnl = DayTally + Unbooked /\ account_pnl' = account_pnl
      BY <2>2 DEF Context, Books, BalancePart
    <3> QED BY <3>1, <3>2, <3>3 DEF BalancePart
  <2>5. StopHitPart'
    <3>1. StopHitPart
      BY DEF Context, Books
    <3>2. StoppedOutToday' <=> StoppedOutToday
      BY <1>4 DEF StoppedOutToday, tally
    <3> QED BY <1>3, <2>1, <2>2, <3>1, <3>2 DEF StopHitPart
  <2> QED BY <1>7, <1>8, <2>3, <2>4, <2>5 DEF Books
<1>10. CASE action # "reenter"
  <2>1. SaleFilled' /\ ~BuyFilled' /\ ~BuyPath'
    BY <1>2, <1>4, <1>5, <1>10 DEF BuyFilled, SaleFilled, Filled, BuyPath,
       BuyInFlight, At
  <2>2. /\ shares' = shares - orders[i].qty /\ cost' = cost
        /\ account_pnl' = account_pnl + (price - cost) * orders[i].qty - Charges
        /\ stop_hit' = (stop_hit \/ action = "exit_sl")
    BY <1>2, <1>10 DEF LimitFills, Sold
  <2>3. HoldPart'
    <3>1. shares = position.qty /\ position.entry = cost /\ Live
      BY <1>2, <1>3, <1>10 DEF Context, Books, HoldPart
    <3>2. position.qty \in Nat
      BY <1>2, <1>10, HeldOrSold
    <3>3. shares' = 0
      BY <1>2, <1>10, <2>2, <3>1, <3>2
    <3> QED BY <1>2, <1>4, <1>10, <2>1, <2>2, <3>1, <3>3 DEF HoldPart
  <2>4. BalancePart'
    <3>1. Unbooked = 0
      BY <1>3 DEF Unbooked
    <3>2. Unbooked' = (price - cost) * orders[i].qty - Charges
      BY <1>2, <1>4, <1>5, <1>6, <2>1, <2>2 DEF Unbooked, Gain
    <3>3. DayTally' = DayTally
      BY <1>4 DEF DayTally, tally
    <3>4. account_pnl = DayTally + Unbooked
      BY DEF Context, Books, BalancePart
    <3>5. /\ DayTally \in Int /\ Charges \in Int /\ cost \in Int
          /\ price \in Int /\ orders[i].qty \in Int
      BY CycleAssumption DEF Context, DataInv, DataOK, DayTally, Order
    <3>6. (price - cost) * orders[i].qty \in Int
      BY <3>5
    <3>7. account_pnl' = DayTally' + Unbooked'
      BY <2>2, <3>1, <3>2, <3>3, <3>4, <3>5, <3>6
    <3> QED BY <3>7 DEF BalancePart
  <2>5. StopHitPart'
    <3>1. stop_hit => StoppedOutToday
      BY <1>3 DEF Context, Books, StopHitPart
    <3>2. StoppedOutToday' <=> StoppedOutToday
      BY <1>4 DEF StoppedOutToday, tally
    <3> QED BY <1>4, <2>1, <2>2, <3>1, <3>2 DEF StopHitPart
  <2> QED BY <1>7, <1>8, <2>3, <2>4, <2>5 DEF Books
<1> QED BY <1>9, <1>10

\* The exchange takes an order away, the other writers write, the price moves
\* and the cooldown ends: nothing is traded and nothing is booked.
LEMMA CalmOthers ==
    ASSUME Context, glitches'.calm,
           \/ DataOnlyStep \/ RequestExit \/ SetHalted(TRUE) \/ SetHalted(FALSE)
           \/ MovePrice \/ (\E i \in OrderIds : Rejects(i)) \/ CooldownElapses
           \/ UNCHANGED vars
    PROVE  Books'
<1>1. UNCHANGED <<today, shares, cost, account_pnl, stop_hit, local>>
  BY DEF DataOnlyStep, RequestExit, SetHalted, MovePrice, Rejects,
     CooldownElapses, vars, account
<1>2. UNCHANGED <<pc, action, order>>
  BY <1>1 DEF local
<1>3. PositionKept \/ (position = None /\ position' = None)
  <2>1. position' = position \/ PositionKept
    BY OthersKeepPosition DEF Context, DataInv, Environment
  <2> QED BY <2>1 DEF PositionKept
<1>4. DayTally' = DayTally /\ (StoppedOutToday' <=> StoppedOutToday)
  <2>1. CASE DataOnlyStep
    BY <1>1, <2>1 DEF DataOnlyStep, MaybeRollDay, tally, DayTally, StoppedOutToday
  <2>2. CASE ~DataOnlyStep
    <3>1. UNCHANGED <<day, pnl_today, stopped_out>>
      BY <2>2 DEF RequestExit, SetHalted, MovePrice, Rejects, CooldownElapses,
         vars, file, tally
    <3> QED BY <1>1, <3>1 DEF DayTally, StoppedOutToday
  <2> QED BY <2>1, <2>2
<1>5. \A j \in OrderIds :
         /\ orders'[j].side = orders[j].side
         /\ Filled(j)' <=> Filled(j)
         /\ Resting(j)' => Resting(j)
         /\ Filled(j) => orders'[j] = orders[j]
  <2>1. ASSUME NEW i \in OrderIds, Rejects(i), NEW j \in OrderIds
        PROVE  /\ orders'[j].side = orders[j].side
               /\ Filled(j)' <=> Filled(j)
               /\ Resting(j)' => Resting(j)
               /\ Filled(j) => orders'[j] = orders[j]
    <3>1. orders[i] \in Order /\ orders[i].status = "OPEN"
      BY <2>1 DEF Rejects, Resting, OrderStatus, Context, DataInv, DataOK
    <3>2. orders'[j] = IF j = i THEN [orders[i] EXCEPT !.status = "REJECTED"]
                       ELSE orders[j]
      BY <2>1 DEF Rejects, SetStatus, Context, DataInv, DataOK
    <3> QED BY <1>1, <3>1, <3>2 DEF Order, Filled, Resting, OrderStatus
  <2>2. CASE UNCHANGED orders
    BY <1>1, <2>2 DEF Filled, Resting, OrderStatus
  <2> QED BY <2>1, <2>2 DEF DataOnlyStep, RequestExit, SetHalted, MovePrice,
             CooldownElapses, vars, book
<1>6. position # None /\ position.stop # 0 => position.stop \in OrderIds
  BY HeldOrSold
<1>7. pc \in AwaitLabels => order \in OrderIds
  BY DEF Context, DataInv, ControlInv
<1>8. /\ StopFilled' <=> StopFilled
      /\ StopFilled => /\ position'.stop = position.stop
                       /\ orders'[position.stop] = orders[position.stop]
  BY <1>3, <1>5, <1>6 DEF StopFilled, Filled, PositionKept
<1>9. /\ SaleFilled' <=> SaleFilled
      /\ BuyFilled' <=> BuyFilled
      /\ SaleFilled \/ BuyFilled => orders'[order] = orders[order]
  BY <1>2, <1>5, <1>7 DEF SaleFilled, BuyFilled, Filled, At, AwaitLabels
<1>10. FillPart'
  <2>1. At("await_cancel")' => ~Filled(order)'
    BY <1>2, <1>5, <1>7 DEF Context, Books, FillPart, At, AwaitLabels, Filled
  <2> QED BY <1>2, <1>8, <2>1 DEF Context, Books, FillPart, At
<1>11. RestPart'
  <2>1. RestPart
    BY DEF Context, Books
  <2>2. CASE position = None /\ position' = None
    <3>1. ~At("ensure_place")
      BY <2>2 DEF Context, DataInv, ControlInv, HoldingLabels, At
    <3> QED BY <1>2, <1>5, <2>1, <2>2, <3>1 DEF RestPart, At
  <2>3. CASE PositionKept
    <3>1. position' # None /\ position'.stop = position.stop /\ position # None
      BY <2>3 DEF PositionKept
    <3>2. \A j \in OrderIds :
            At("ensure_place") /\ position.stop = j => ~Resting(j)'
      BY <1>5, <2>1 DEF RestPart, OrderIds
    <3>3. \A j \in OrderIds :
            At("ensure_place") /\ position'.stop = j =>
              ~(orders'[j].day = today' /\ orders'[j].status = "OPEN")
      BY <3>1, <3>2 DEF Resting, OrderStatus
    <3>4. At("ensure_place")' /\ position'.stop # 0 => ~Resting(position.stop)'
      BY <1>2, <1>6, <3>1, <3>3 DEF At, Resting, OrderStatus
    <3>5. \A j \in OrderIds : Resting(j)' =>
              \/ orders'[j].side = "SL" /\ position' # None /\ position'.stop = j
              \/ orders'[j].side # "SL" /\ pc' \in AwaitLabels /\ order' = j
      BY <1>2, <1>5, <2>1, <3>1 DEF RestPart
    <3> QED BY <3>4, <3>5 DEF RestPart
  <2> QED BY <1>3, <2>2, <2>3
<1>12. BlockReentryAfterStop /\ BuyPath' => ~stop_hit
  BY <1>2 DEF Context, Books, StopHitPart, BuyPath, BuyInFlight
<1> QED BY <1>1, <1>2, <1>3, <1>4, <1>8, <1>9, <1>10, <1>11, <1>12,
           NothingTraded DEF PositionKept

\* The next session opens: no order of the old one rests, nothing of the new
\* day is booked and nothing has been made yet.
LEMMA CalmNextDay ==
    ASSUME Context, NextDay
    PROVE  Books'
<1>1. At("idle") /\ At("idle")' /\ ~SaleFilled' /\ ~BuyFilled'
  BY DEF NextDay, local, At, SaleFilled, BuyFilled
<1>2. /\ UNCHANGED <<position, day, pnl_today, shares, cost, orders>>
      /\ today' = today + 1 /\ account_pnl' = 0 /\ stop_hit' = FALSE
  BY DEF NextDay, book
<1>3. /\ day <= today /\ day \in Int /\ today \in Int
      /\ \A i \in OrderIds : orders[i].day <= today /\ orders[i].day \in Int
  BY DEF Context, RecordsInv, ClockInv, DataInv, DataOK, Order
<1>4. \A i \in OrderIds : ~Resting(i)' /\ orders'[i].day # today'
  BY <1>2, <1>3 DEF Resting, OrderStatus
<1>5. ~SaleFilled /\ ~BuyFilled /\ (StopFilled' <=> StopFilled)
  BY <1>1, <1>2 DEF At, SaleFilled, BuyFilled, StopFilled, Filled
<1>6. RestPart' /\ FillPart'
  BY <1>1, <1>4 DEF RestPart, FillPart, At
<1>7. HoldPart'
  BY <1>1, <1>2, <1>5 DEF Context, Books, HoldPart
<1>8. BalancePart'
  <2>1. DayTally' = 0
    BY <1>2, <1>3 DEF DayTally
  <2>2. position' # None /\ position'.stop # 0 => position'.stop \in OrderIds
    BY <1>2, HeldOrSold
  <2>3. Unbooked' = 0
    BY <1>1, <1>4, <2>2 DEF Unbooked, StopFilled
  <2> QED BY <1>2, <2>1, <2>3 DEF BalancePart
<1>9. StopHitPart'
  BY <1>1, <1>2 DEF StopHitPart, BuyPath, BuyInFlight, At
<1> QED BY <1>6, <1>7, <1>8, <1>9 DEF Books

-----------------------------------------------------------------------------
(* The theorems about the books.                                            *)

Sound == DataInv /\ FlagsOK /\ SeenOK /\ StopInv /\ DryRunInv /\ RecordsInv

\* Whatever step keeps the record of disturbances clear keeps the books.
LEMMA BooksStep == Sound /\ BooksInv /\ [Next]_vars => BooksInv'
<1> SUFFICES ASSUME Sound, BooksInv, [Next]_vars, glitches'.calm
             PROVE  Books'
  BY DEF BooksInv
<1>1. Context
  <2>1. glitches.calm
    BY StepGlitches DEF Sound, DataInv
  <2> QED BY <2>1 DEF Context, Sound, BooksInv
<1>2. ~Crash /\ ~ManualBuy /\ ~ManualSell
  <2>1. "crash" \notin Harmless /\ "manual" \notin Harmless
    BY DEF Harmless
  <2> QED BY <2>1, CalmGlitch DEF Crash, ManualBuy, ManualSell
<1>3. CASE StepBegin \/ FoundClosed \/ Adopt \/ HeldUnremarkable \/ DecideStep
  BY <1>1, <1>3, CalmDecides
<1>4. CASE SellCancelsStop \/ EnsureCancelsStop
  BY <1>1, <1>4, CalmCancelsStop
<1>5. CASE SellQueriesStop \/ BuyChecks
  BY <1>1, <1>5, CalmAsks
<1>6. CASE PlaceSell \/ PlaceBuy
  BY <1>1, <1>6, CalmPlacesOrder
<1>7. CASE PlaceInitialStop \/ EnsurePlacesStop
  BY <1>1, <1>7, CalmPlacesStop
<1>8. CASE OrderFailed \/ WindowEnds \/ CancelUnfilled
  BY <1>1, <1>8, CalmGivesUp
<1>9. CASE EnsureStop \/ EnsureQueriesStop
  BY <1>1, <1>9, CalmEnsures
<1>10. CASE SettleClosedPosition
  BY <1>1, <1>10, CalmSettles
<1>11. CASE FillConfirmed
  BY <1>1, <1>11, CalmConfirms
<1>12. CASE \E i \in OrderIds : StopFills(i) \/ LimitFills(i)
  BY <1>1, <1>12, CalmStopFills, CalmLimitFills
<1>13. CASE \/ DataOnlyStep \/ RequestExit \/ SetHalted(TRUE) \/ SetHalted(FALSE)
            \/ MovePrice \/ (\E i \in OrderIds : Rejects(i)) \/ CooldownElapses
            \/ UNCHANGED vars
  BY <1>1, <1>13, CalmOthers
<1>14. CASE NextDay
  BY <1>1, <1>14, CalmNextDay
<1> QED BY <1>2, <1>3, <1>4, <1>5, <1>6, <1>7, <1>8, <1>9, <1>10, <1>11,
           <1>12, <1>13, <1>14 DEF Next, Step, Environment

LEMMA BooksInit == Init => BooksInv
<1> SUFFICES ASSUME Init PROVE Books
  BY DEF BooksInv
<1>1. \A i \in OrderIds : ~Resting(i)
  BY DEF Init, NoOrder, Resting, OrderStatus
<1>2. ~StopFilled /\ ~SaleFilled /\ ~BuyFilled /\ ~BuyPath
  BY DEF Init, StopFilled, SaleFilled, BuyFilled, BuyPath, BuyInFlight, At
<1>3. RestPart /\ FillPart
  BY <1>1, <1>2 DEF Init, RestPart, FillPart, At
<1>4. HoldPart /\ BalancePart /\ StopHitPart
  BY <1>2 DEF Init, HoldPart, BalancePart, StopHitPart, DayTally, Unbooked
<1> QED BY <1>3, <1>4 DEF Books

LEMMA SoundInit == Init => Sound
<1>1. Init => StopInv /\ DryRunInv
  BY DEF Init, StopInv, StopKnown, RecordedStopDeadBeforeSell,
       DryRunInv, SellInFlight, At
<1> QED BY <1>1, InitType, RecordsInit DEF Sound

LEMMA SoundStep == Sound /\ [Next]_vars => Sound'
BY DataStep, FlagsStep, SeenStep, StopStep, DryRunStep, RecordsStep DEF Sound

\* What the books say of the account.
LEMMA BooksSuffice ==
    ASSUME Sound, BooksInv
    PROVE  BooksAgree /\ NoReentryWhileCalm
<1> SUFFICES ASSUME glitches.calm
             PROVE  /\ NoShort /\ OnlyRecordedStopRests /\ TallyMatchesAccount
                    /\ NoReentryAfterStop
  BY DEF BooksAgree, NoReentryWhileCalm
<1>1. Context /\ Books
  BY DEF Context, Sound, BooksInv
<1>2. DOMAIN orders = OrderIds
  BY DEF Sound, DataInv, DataOK
<1>3. NoShort
  <2>1. CASE position = None
    <3>1. BuyFilled => order \in OrderIds
      BY DEF BuyFilled, At, AwaitLabels, Sound, DataInv, ControlInv
    <3>2. BuyFilled => orders[order].qty \in Nat
      BY <3>1 DEF Sound, DataInv, DataOK, Order
    <3> QED BY <1>1, <2>1, <3>2 DEF Books, HoldPart, NoShort
  <2>2. CASE position # None
    BY <1>1, <2>2, HeldOrSold DEF Books, HoldPart, NoShort
  <2> QED BY <2>1, <2>2
<1>4. OnlyRecordedStopRests
  BY <1>1, <1>2 DEF Books, RestPart, OnlyRecordedStopRests
<1>5. TallyMatchesAccount
  <2> SUFFICES ASSUME At("idle"), position = None, day = today
               PROVE  pnl_today = account_pnl
    BY DEF TallyMatchesAccount
  <2>1. Unbooked = 0
    BY DEF Unbooked, StopFilled, SaleFilled, At
  <2> QED BY <1>1, <2>1 DEF Books, BalancePart, DayTally, Sound, DataInv, DataOK
<1>6. NoReentryAfterStop
  BY <1>1 DEF Books, StopHitPart, NoReentryAfterStop, BuyPath
<1> QED BY <1>3, <1>4, <1>5, <1>6

\* As long as nothing disturbs them, the account and the books agree: no short
\* sale, no stop at the exchange that the file does not know, and a day's tally
\* that is what the account made, for every ladder, market and price path.
THEOREM AccountMatchesBooks == Spec => []BooksAgree
BY SoundInit, SoundStep, BooksInit, BooksStep, BooksSuffice, PTL DEF Spec

\* Under the same condition no buy follows a stop-out on its day: the latch
\* cannot be outrun by the exchange.
THEOREM StoppedOutStaysOut == Spec => []NoReentryWhileCalm
BY SoundInit, SoundStep, BooksInit, BooksStep, BooksSuffice, PTL DEF Spec

=============================================================================
