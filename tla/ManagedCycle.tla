----------------------------- MODULE ManagedCycle -----------------------------
(***************************************************************************)
(* The managed delivery-position cycle of src/emcure/managed_cycle.py: the *)
(* tracker's step(), split at every call it makes to the broker, together  *)
(* with                                                                    *)
(*   - managed_state.json, which the tracker, the bot's EXIT / HALT /      *)
(*     RESUME handlers and data-only refreshes share,                      *)
(*   - the exchange: the price, the account's shares and its order book,   *)
(*   - the faults named in Faults, at most MaxGlitches of them.            *)
(* Each action is one locked file update or one broker call, with the      *)
(* file updates that follow it before the next broker call.                *)
(***************************************************************************)
EXTENDS ManagedDecide

CONSTANTS
    Live,                \* cfg.live: FALSE is the dry-run phase
    Qty,                 \* cfg.qty
    MaxDailyLoss,        \* cfg.max_daily_loss
    BlockReentryAfterStop, \* cfg.block_reentry_after_stop
    Charges,             \* round_trip_charges of one round trip
    Prices,              \* the prices the exchange can print
    Markets,             \* the market records a refresh can compute
    MaxOrders,           \* bound: orders sent to the exchange
    MaxDay,              \* bound: trading days
    Faults,              \* which faults and races the environment shows
    MaxGlitches,         \* bound: how many faults occur
    None                 \* position is None

\* The faults: an API call that fails before ("place", "cancel", "query") or
\* after ("ack") the exchange acted on it; an order still open when the
\* confirmation window ends ("nofill"); the tracker killed between two calls
\* ("crash"); trades made by hand in the broker's app ("manual"); a refresh
\* without a broker by the tracker itself ("nobroker") or, at any moment, by
\* another process ("dashboard").  The last two are not counted as glitches:
\* the market moving while a step runs ("race"), and a quote that lags the
\* exchange ("lag").
AllFaults == {"place", "cancel", "query", "ack", "nofill", "crash", "manual",
              "nobroker", "dashboard", "race", "lag"}

\* The faults the books survive: an order that fails and says so, and a
\* refresh that sends nothing.
Harmless == {"place", "nofill", "nobroker", "dashboard"}

OrderIds == 1..MaxOrders

ASSUME CycleAssumption ==
    /\ Live \in BOOLEAN
    /\ Qty \in Nat \ {0}
    /\ MaxDailyLoss \in Int
    /\ BlockReentryAfterStop \in BOOLEAN
    /\ Charges \in Int
    /\ Prices \subseteq Int
    /\ Markets \subseteq Market
    /\ MaxOrders \in Nat
    /\ MaxDay \in Nat
    /\ Faults \subseteq AllFaults
    /\ MaxGlitches \in Nat

VARIABLES
    \* managed_state.json
    position, exit_requested, halted, day, stopped_out, pnl_today, cooling,
    \* the exchange
    price, shares, cost, orders, next_id, today,
    \* the tracker's step() in progress
    pc, action, order, after, seen,
    \* the environment's faults: how many so far, and whether all were harmless
    \* and no order filled behind a running step's back
    glitches,
    \* history: what the account really did
    account_pnl, stop_hit, exit_stale

tally   == <<day, stopped_out, pnl_today, cooling>>
file    == <<position, exit_requested, halted, tally>>
account == <<shares, cost, account_pnl, stop_hit>>
book    == <<orders, next_id>>
local   == <<pc, action, order, after, seen>>
vars    == <<file, price, today, account, book, local, glitches, exit_stale>>

-----------------------------------------------------------------------------
Position == [entry: Int, qty: Nat \ {0}, sl: Int, high: Int, low: Int,
             stop: OrderIds \cup {0}, trigger: Int, placed_on: Int]

ASSUME NoneAssumption == None \notin Position

Status == {"OPEN", "COMPLETE", "CANCELLED", "REJECTED"}

Order == [side: {"BUY", "SELL", "SL"}, qty: Nat, px: Int, status: Status,
          day: Int]

NoOrder == [side |-> "SELL", qty |-> 0, px |-> 0, status |-> "REJECTED",
            day |-> 0]

Labels == {"idle", "held", "settle", "quote", "sell", "sell_query",
           "place_sell", "buy_check", "place_buy", "buy_stop", "await",
           "await_cancel", "ensure", "ensure_state", "ensure_cancel",
           "ensure_place"}

GlitchRecord == [count: Nat, calm: BOOLEAN]

FlagsOK ==
    /\ exit_requested \in BOOLEAN /\ halted \in BOOLEAN
    /\ stopped_out \in BOOLEAN /\ cooling \in BOOLEAN
    /\ stop_hit \in BOOLEAN /\ exit_stale \in BOOLEAN

DataOK ==
    /\ position \in Position \cup {None}
    /\ day \in Int /\ pnl_today \in Int
    /\ price \in Prices /\ shares \in Int /\ cost \in Int
    /\ orders \in [OrderIds -> Order]
    /\ next_id \in 1..(MaxOrders + 1) /\ today \in Int
    /\ pc \in Labels /\ action \in {"none", "sell", "exit_sl", "reenter"}
    /\ order \in OrderIds \cup {0} /\ after \in {"idle", "quote"}
    /\ glitches \in GlitchRecord /\ account_pnl \in Int

SeenOK == seen \in [high: Int, low: Int]

TypeOK == DataOK /\ FlagsOK /\ SeenOK

NothingSeen == [high |-> 0, low |-> 0]

Init ==
    /\ position = None /\ exit_requested = FALSE /\ halted = FALSE
    /\ day = 0 /\ stopped_out = FALSE /\ pnl_today = 0 /\ cooling = FALSE
    /\ price \in Prices /\ shares = 0 /\ cost = 0
    /\ orders = [i \in OrderIds |-> NoOrder] /\ next_id = 1 /\ today = 1
    /\ pc = "idle" /\ action = "none" /\ order = 0 /\ after = "idle"
    /\ seen = NothingSeen /\ glitches = [count |-> 0, calm |-> TRUE]
    /\ account_pnl = 0 /\ stop_hit = FALSE /\ exit_stale = FALSE

-----------------------------------------------------------------------------
(* Faults and the broker's answers.                                         *)

Glitch(f) ==
    /\ f \in Faults /\ glitches.count < MaxGlitches
    /\ glitches' = [count |-> glitches.count + 1,
                    calm  |-> glitches.calm /\ f \in Harmless]

NoGlitch == UNCHANGED glitches

\* order_history only knows the orders of the current session.
OrderStatus(i) == IF orders[i].day = today THEN orders[i].status ELSE "UNKNOWN"

Resting(i) == OrderStatus(i) = "OPEN"

\* Broker.order_state / order_result of order i answers s.
Query(i, s) ==
    \/ s = OrderStatus(i) /\ NoGlitch
    \/ s = "UNKNOWN" /\ Glitch("query")

SetStatus(i, s) == orders' = [orders EXCEPT ![i].status = s]

\* Broker.cancel of order i returns ok.
Cancel(i, ok) ==
    /\ \/ ok  /\ Resting(i)  /\ SetStatus(i, "CANCELLED") /\ NoGlitch
       \/ ~ok /\ ~Resting(i) /\ UNCHANGED orders /\ NoGlitch
       \/ /\ ~ok /\ Resting(i) /\ Glitch("cancel")
          /\ \/ SetStatus(i, "CANCELLED")
             \/ UNCHANGED orders
    /\ UNCHANGED next_id

Send(side, qty, px) ==
    /\ next_id <= MaxOrders
    /\ orders' = [orders EXCEPT ![next_id] =
                    [side |-> side, qty |-> qty, px |-> px,
                     status |-> "OPEN", day |-> today]]
    /\ next_id' = next_id + 1

\* kite.place_order returns an id, or fails (id 0) with or without effect.
Place(side, qty, px, id) ==
    \/ id = next_id /\ Send(side, qty, px) /\ NoGlitch
    \/ id = 0 /\ Glitch("place") /\ UNCHANGED book
    \/ id = 0 /\ Glitch("ack") /\ Send(side, qty, px)

\* Broker.place_stop_loss: the exchange refuses a sell trigger that is not
\* below the market.
PlaceStopLoss(qty, trigger, id) ==
    IF trigger < price
    THEN Place("SL", qty, trigger, id)
    ELSE id = 0 /\ NoGlitch /\ UNCHANGED book

-----------------------------------------------------------------------------
(* managed_state.json.                                                      *)

MaybeRollDay ==
    IF day # today
    THEN /\ day' = today /\ pnl_today' = 0 /\ stopped_out' = FALSE
         /\ UNCHANGED cooling
    ELSE UNCHANGED tally

ReentryBlocked ==
    \/ halted
    \/ /\ day = today
       /\ \/ BlockReentryAfterStop /\ stopped_out
          \/ pnl_today <= -MaxDailyLoss
          \/ cooling

NewPosition(entry, qty, atr) ==
    LET sl == entry - ResolveStop(atr)
    IN  [entry |-> entry, qty |-> qty, sl |-> sl, high |-> entry,
         low |-> entry, stop |-> 0, trigger |-> sl, placed_on |-> 0]

\* Mutants: an extreme that follows the price instead of keeping the most.
ObserveLastHigh(pos, p) ==
    [pos EXCEPT !.high = p, !.low = IF p < @ THEN p ELSE @]

ObserveLastLow(pos, p) ==
    [pos EXCEPT !.high = IF p > @ THEN p ELSE @, !.low = p]

\* high_since_entry / low_since_entry after observing a price.
Observe(pos, p) ==
    [pos EXCEPT !.high = IF p > @ THEN p ELSE @,
                !.low  = IF p < @ THEN p ELSE @]

RecordStop(id, trigger) ==
    position' = [position EXCEPT !.stop = id, !.trigger = trigger,
                                 !.placed_on = today]

\* Mutant: the record stays, with nothing in it.
ClearByZeroing ==
    position' = [position EXCEPT !.qty = 0] /\ exit_stale' = exit_requested

ClearPosition ==
    /\ position' = None
    /\ exit_stale' = exit_requested

\* Mutant: the day's tally is overwritten, not added to.
RecordLastExit(px, qty, is_stop) ==
    /\ day' = today
    /\ pnl_today' = (px - position.entry) * qty - Charges
    /\ stopped_out' = ((day = today /\ stopped_out) \/ is_stop)
    /\ cooling' = TRUE
    /\ ClearPosition

\* _record_exit: closes the position and books the round trip, in one locked
\* update.
RecordExit(px, qty, is_stop) ==
    /\ day' = today
    /\ pnl_today' = (IF day = today THEN pnl_today ELSE 0)
                    + (px - position.entry) * qty - Charges
    /\ stopped_out' = ((day = today /\ stopped_out) \/ is_stop)
    /\ cooling' = TRUE
    /\ ClearPosition

\* _stop_is_stale: placed on a previous day.
StopIsStale == position.stop # 0 /\ position.placed_on < today

\* Mutant: off by one rung, a stop at its original level counts as a floor.
StopWasBelow == position.trigger < position.sl

\* _stop_was_protective: not ratcheted above the original stop.
StopWasProtective == position.trigger <= position.sl

\* _book_stop_fill: a filled resting stop is the position's exit.
BookStopFill ==
    RecordExit(orders[position.stop].px, orders[position.stop].qty,
               StopWasProtective)

\* Mutant: the floor follows the current price.
StopLevelsNow == {position.sl} \cup TouchedRungs(position.entry, price)

\* The trigger _ensure_protective_stop wants: the stop, or the highest
\* touched rung above it.
StopLevels == {position.sl} \cup TouchedRungs(position.entry, position.high)

Desired(d) == d \in StopLevels /\ \A t \in StopLevels : t <= d

-----------------------------------------------------------------------------
(* Control of a step.                                                       *)

At(l) == pc = l

Goto(l) == pc' = l /\ UNCHANGED <<action, order, after, seen>>

Return == /\ pc' = "idle" /\ action' = "none" /\ order' = 0 /\ after' = "idle"
          /\ seen' = NothingSeen

EnsureStopThen(l) ==
    /\ pc' = "ensure" /\ after' = l /\ seen' = NothingSeen
    /\ UNCHANGED <<action, order>>

\* step() reads the position once; what it knows of its extremes is pos's.
Sees(pos) == seen' = IF pos = None THEN NothingSeen
                     ELSE [high |-> pos.high, low |-> pos.low]

\* StepBegin: the refresh calls step(); the bound keeps two orders in hand.
Exhausted == next_id + 1 > MaxOrders

StepBegin ==
    /\ At("idle") /\ ~Exhausted
    /\ MaybeRollDay
    /\ pc' = "held" /\ Sees(position) /\ UNCHANGED <<action, order, after>>
    /\ UNCHANGED <<position, exit_requested, halted, price, today, account,
                   book, glitches, exit_stale>>

\* held_qty says 0 while a position is recorded: settle the record.
FoundClosed ==
    /\ At("held") /\ position # None /\ shares = 0
    /\ IF Live /\ position.stop # 0
       THEN Goto("settle") /\ UNCHANGED <<position, exit_stale>>
       ELSE Return /\ ClearPosition
    /\ UNCHANGED <<exit_requested, halted, tally, price, today, account, book,
                   glitches>>

\* Mutant: the dry run protects what it adopts.
AdoptAndProtect ==
    /\ At("held") /\ position = None /\ shares > 0 /\ cost > 0
    /\ \E m \in Markets : position' = NewPosition(cost, shares, m.atr)
    /\ Sees(position')
    /\ pc' = "ensure" /\ after' = "quote" /\ UNCHANGED <<action, order>>
    /\ UNCHANGED <<exit_requested, halted, tally, price, today, account, book,
                   glitches, exit_stale>>

\* held_qty says the account holds shares the cycle does not track.
Adopt ==
    /\ At("held") /\ position = None /\ shares > 0 /\ cost > 0
    /\ \E m \in Markets : position' = NewPosition(cost, shares, m.atr)
    /\ Sees(position')
    /\ IF Live THEN pc' = "ensure" /\ after' = "quote"
       ELSE pc' = "quote" /\ UNCHANGED after
    /\ UNCHANGED <<action, order>>
    /\ UNCHANGED <<exit_requested, halted, tally, price, today, account, book,
                   glitches, exit_stale>>

\* held_qty agrees, or could not be queried (None), or the average price of
\* an untracked holding could not be read.
HeldUnremarkable ==
    /\ At("held")
    /\ \/ (position = None <=> shares <= 0) /\ NoGlitch
       \/ position # None /\ shares < 0 /\ NoGlitch
       \/ Glitch("query")
    /\ Goto("quote")
    /\ UNCHANGED <<file, price, today, account, book, exit_stale>>

\* _settle_closed_position, once order_result has answered.
SettleClosedPosition ==
    /\ At("settle")
    /\ \E s \in Status \cup {"UNKNOWN"} :
        /\ Query(position.stop, s)
        /\ IF s = "COMPLETE" THEN BookStopFill
           ELSE ClearPosition /\ UNCHANGED tally
    /\ Return
    /\ UNCHANGED <<exit_requested, halted, price, today, account, book>>

\* Mutant: HALT blocks the exits too.
DispatchUnlessHalted(decision) ==
    \/ Live /\ decision = "hold" /\ EnsureStopThen("idle")
    \/ /\ Live /\ decision \in {"sell", "exit_sl"} /\ ~halted
       /\ pc' = "sell" /\ action' = decision /\ seen' = NothingSeen
       /\ UNCHANGED <<order, after>>
    \/ /\ Live /\ decision = "reenter" /\ ~ReentryBlocked
       /\ pc' = "buy_check" /\ action' = decision /\ seen' = NothingSeen
       /\ UNCHANGED <<order, after>>
    \/ /\ \/ ~Live \/ decision = "wait" \/ halted
          \/ decision = "reenter" /\ ReentryBlocked
       /\ Return

\* What step() does next with a decision.
Dispatch(decision) ==
    \/ Live /\ decision = "hold" /\ EnsureStopThen("idle")
    \/ /\ Live /\ decision \in {"sell", "exit_sl"}
       /\ pc' = "sell" /\ action' = decision /\ seen' = NothingSeen
       /\ UNCHANGED <<order, after>>
    \/ /\ Live /\ decision = "reenter" /\ ~ReentryBlocked
       /\ pc' = "buy_check" /\ action' = decision /\ seen' = NothingSeen
       /\ UNCHANGED <<order, after>>
    \/ /\ ~Live \/ decision = "wait" \/ (decision = "reenter" /\ ReentryBlocked)
       /\ Return

Quotes == IF "lag" \in Faults THEN Prices ELSE {price}

\* The position as step() knows it, and what it stores of the extremes: one
\* that did not move is not written.
Known == [position EXCEPT !.high = seen.high, !.low = seen.low]

Stored(pos) ==
    [position EXCEPT !.high = IF pos.high = seen.high THEN @ ELSE pos.high,
                     !.low  = IF pos.low = seen.low THEN @ ELSE pos.low]

\* get_ltp answers, the extremes are stored, a pending EXIT is consumed and
\* decide() runs.  The SMA7 gap comes from the caller's quote q; the price
\* acted on is the exchange's, or q when get_ltp fails.
DecideStep ==
    /\ At("quote")
    /\ \E q \in Quotes, m \in Markets, ltp \in BOOLEAN :
        LET p   == IF ltp THEN price ELSE q
            pos == Observe(Known, p)
        IN  /\ IF ltp THEN NoGlitch ELSE Glitch("query")
            /\ IF position = None
               THEN /\ UNCHANGED position
                    /\ Dispatch(DecideFlat(q - m.sma7, m))
               ELSE /\ position' = Stored(pos)
                    /\ Dispatch(IF exit_requested THEN "sell"
                                ELSE DecideHeld(pos, p, pos.high, pos.low))
    /\ exit_requested' = FALSE /\ exit_stale' = FALSE
    /\ UNCHANGED <<halted, tally, price, today, account, book>>

-----------------------------------------------------------------------------
(* _execute_sell.                                                           *)

\* Mutant: the sale goes out whatever the cancel answered.
SellIgnoresCancel ==
    /\ At("sell") /\ Goto("place_sell")
    /\ IF position.stop = 0 \/ StopIsStale
       THEN NoGlitch /\ UNCHANGED book
       ELSE \E ok \in BOOLEAN : Cancel(position.stop, ok)
    /\ UNCHANGED <<file, price, today, account, exit_stale>>

\* Cancel the resting stop, unless there is none or it lapsed.
SellCancelsStop ==
    /\ At("sell")
    /\ IF position.stop = 0 \/ StopIsStale
       THEN Goto("place_sell") /\ NoGlitch /\ UNCHANGED book
       ELSE \E ok \in BOOLEAN :
            /\ Cancel(position.stop, ok)
            /\ Goto(IF ok THEN "place_sell" ELSE "sell_query")
    /\ UNCHANGED <<file, price, today, account, exit_stale>>

\* The cancel failed: book a filled stop, go on past a dead one, and defer
\* the sale when neither can be shown.
SellQueriesStop ==
    /\ At("sell_query")
    /\ \E s \in Status \cup {"UNKNOWN"} :
        /\ Query(position.stop, s)
        /\ \/ s = "COMPLETE" /\ BookStopFill /\ Return
           \/ /\ s \in {"CANCELLED", "REJECTED"} /\ Goto("place_sell")
              /\ UNCHANGED <<position, tally, exit_stale>>
           \/ /\ s \in {"OPEN", "UNKNOWN"} /\ Return
              /\ UNCHANGED <<position, tally, exit_stale>>
    /\ UNCHANGED <<exit_requested, halted, price, today, account, book>>

\* _place_limit_order for either side.  A failed sale re-arms the stop.
PlaceOrder(label, side, qty, failed) ==
    /\ At(label)
    /\ \E id \in OrderIds \cup {0} :
        /\ Place(side, qty, 0, id)
        /\ IF id = 0 THEN failed
           ELSE pc' = "await" /\ order' = id /\ UNCHANGED <<action, after, seen>>
    /\ UNCHANGED <<file, price, today, account, exit_stale>>

PlaceSell == PlaceOrder("place_sell", "SELL", position.qty,
                        EnsureStopThen("idle"))

-----------------------------------------------------------------------------
(* _execute_buy.                                                            *)

\* held_qty must read 0 or fail; the funds may not cover the order.
BuyChecks ==
    /\ At("buy_check")
    /\ \/ shares = 0 /\ NoGlitch /\ (Goto("place_buy") \/ Return)
       \/ shares # 0 /\ NoGlitch /\ Return
       \/ Glitch("query") /\ (Goto("place_buy") \/ Return)
    /\ UNCHANGED <<file, price, today, account, book, exit_stale>>

PlaceBuy == PlaceOrder("place_buy", "BUY", Qty, Return)

\* The protective stop of a fresh buy; a crash can fall between the order
\* and the record of it.
PlaceInitialStop ==
    /\ At("buy_stop")
    /\ \E id \in OrderIds \cup {0} :
        \/ /\ PlaceStopLoss(position.qty, position.sl, id)
           /\ RecordStop(id, position.sl)
        \/ /\ position.sl < price /\ Send("SL", position.qty, position.sl)
           /\ Glitch("crash") /\ UNCHANGED position
    /\ Return
    /\ UNCHANGED <<exit_requested, halted, tally, price, today, account,
                   exit_stale>>

-----------------------------------------------------------------------------
(* _await_fill: poll the order until it is done or the window ends.         *)

\* COMPLETE: a sale is booked, a purchase becomes the position.
FillConfirmed ==
    /\ At("await") /\ OrderStatus(order) = "COMPLETE"
    /\ IF orders[order].side = "SELL"
       THEN /\ RecordExit(orders[order].px, position.qty, action = "exit_sl")
            /\ Return
       ELSE /\ \E m \in Markets :
                position' = NewPosition(orders[order].px, orders[order].qty, m.atr)
            /\ Goto("buy_stop") /\ UNCHANGED <<tally, exit_stale>>
    /\ UNCHANGED <<exit_requested, halted, price, today, account, book, glitches>>

\* Not filled: a sale re-arms the stop, a purchase ends the step.
NotFilled == IF action = "reenter" THEN Return ELSE EnsureStopThen("idle")

OrderFailed ==
    /\ At("await") /\ OrderStatus(order) \in {"CANCELLED", "REJECTED"}
    /\ NotFilled
    /\ UNCHANGED <<file, price, today, account, book, glitches, exit_stale>>

\* The window ends with the order open, or with its history never readable.
WindowEnds ==
    /\ At("await")
    /\ IF OrderStatus(order) = "OPEN" THEN Glitch("nofill") ELSE Glitch("query")
    /\ Goto("await_cancel")
    /\ UNCHANGED <<file, price, today, account, book, exit_stale>>

\* The cancel that follows is best effort: its outcome is not looked at.
CancelUnfilled ==
    /\ At("await_cancel")
    /\ \E ok \in BOOLEAN : Cancel(order, ok)
    /\ NotFilled
    /\ UNCHANGED <<file, price, today, account, exit_stale>>

-----------------------------------------------------------------------------
(* _ensure_protective_stop; it ends by going on to "after".                 *)

StopEnsured == IF after = "idle" THEN Return
               ELSE pc' = after /\ after' = "idle" /\ UNCHANGED <<action, order, seen>>

EnsureStop ==
    /\ At("ensure")
    /\ Goto(IF position.stop = 0 \/ StopIsStale
            THEN "ensure_place" ELSE "ensure_state")
    /\ UNCHANGED <<file, price, today, account, book, glitches, exit_stale>>

\* Mutant: a rejected stop is not recognised as dead.
EnsureKeepsRejected ==
    /\ At("ensure_state")
    /\ \E s \in Status \cup {"UNKNOWN"}, d \in StopLevels :
        /\ Desired(d) /\ Query(position.stop, s)
        /\ IF s = "CANCELLED" THEN Goto("ensure_place")
           ELSE IF d > position.trigger THEN Goto("ensure_cancel")
           ELSE StopEnsured
    /\ UNCHANGED <<file, price, today, account, book, exit_stale>>

\* order_state: replace a dead stop, lift one below the wanted trigger, and
\* keep the others, whatever else their state says.
EnsureQueriesStop ==
    /\ At("ensure_state")
    /\ \E s \in Status \cup {"UNKNOWN"}, d \in StopLevels :
        /\ Desired(d) /\ Query(position.stop, s)
        /\ IF s \in {"CANCELLED", "REJECTED"} THEN Goto("ensure_place")
           ELSE IF d > position.trigger THEN Goto("ensure_cancel")
           ELSE StopEnsured
    /\ UNCHANGED <<file, price, today, account, book, exit_stale>>

\* The ratchet cancels the old stop without looking at the outcome.
EnsureCancelsStop ==
    /\ At("ensure_cancel")
    /\ \E ok \in BOOLEAN : Cancel(position.stop, ok)
    /\ Goto("ensure_place")
    /\ UNCHANGED <<file, price, today, account, exit_stale>>

\* Place the stop and record it; a crash can fall in between.
EnsurePlacesStop ==
    /\ At("ensure_place")
    /\ \E id \in OrderIds \cup {0}, d \in StopLevels :
        /\ Desired(d)
        /\ \/ /\ PlaceStopLoss(position.qty, d, id)
              /\ RecordStop(id, d) /\ StopEnsured
           \/ /\ d < price /\ Send("SL", position.qty, d)
              /\ Glitch("crash") /\ UNCHANGED position /\ Return
    /\ UNCHANGED <<exit_requested, halted, tally, price, today, account,
                   exit_stale>>

\* The tracker is killed; the file stays as it is and the loop restarts.
Crash ==
    /\ ~At("idle") /\ Glitch("crash") /\ Return
    /\ UNCHANGED <<file, price, today, account, book, exit_stale>>

Step ==
    \/ StepBegin \/ FoundClosed \/ Adopt \/ HeldUnremarkable
    \/ SettleClosedPosition \/ DecideStep
    \/ SellCancelsStop \/ SellQueriesStop \/ PlaceSell
    \/ BuyChecks \/ PlaceBuy \/ PlaceInitialStop
    \/ FillConfirmed \/ OrderFailed \/ WindowEnds \/ CancelUnfilled
    \/ EnsureStop \/ EnsureQueriesStop \/ EnsureCancelsStop
    \/ EnsurePlacesStop

-----------------------------------------------------------------------------
(* The other writers of managed_state.json.                                 *)

\* A refresh without a broker (a briefing, a tracker whose login failed, the
\* dashboard): it observes the quote, consumes a pending EXIT, and every live
\* decision is skipped.
DataOnlyStep ==
    /\ \/ At("idle") /\ Glitch("nobroker")
       \/ Glitch("dashboard")
    /\ MaybeRollDay
    /\ \E q \in Quotes :
        position' = IF position = None THEN None ELSE Observe(position, q)
    /\ exit_requested' = FALSE /\ exit_stale' = FALSE
    /\ UNCHANGED <<halted, price, today, account, book, local>>

\* The bot's EXIT: only while a position is recorded.
RequestExit ==
    /\ position # None
    /\ exit_requested' = TRUE /\ exit_stale' = FALSE
    /\ UNCHANGED <<position, halted, tally, price, today, account, book,
                   local, glitches>>

\* The bot's HALT and RESUME.
SetHalted(on) ==
    /\ halted' = on
    /\ UNCHANGED <<position, exit_requested, tally, price, today, account,
                   book, local, glitches, exit_stale>>

-----------------------------------------------------------------------------
(* The exchange and the clock.                                              *)

\* Whether the market may move now: between steps, or at any time.
MarketMoves == At("idle") \/ "race" \in Faults

\* A fill while the step is between its look at the holding and its last
\* broker call goes unseen, unless it is the order the step waits for.
FillIsSeen(i) == At("idle") \/ At("held") \/ (At("await") /\ order = i)

NoteFill(i) == glitches' = [glitches EXCEPT !.calm = @ /\ FillIsSeen(i)]

MovePrice ==
    /\ MarketMoves
    /\ price' \in Prices \ {price}
    /\ UNCHANGED <<file, today, account, book, local, glitches, exit_stale>>

\* A sale of qty at px: the account's own tally of the round trip.
Sold(qty, px, is_stop) ==
    /\ shares' = shares - qty
    /\ account_pnl' = account_pnl + (px - cost) * qty - Charges
    /\ stop_hit' = (stop_hit \/ is_stop)
    /\ UNCHANGED cost

\* The market trades at a resting stop's trigger.
StopFills(i) ==
    /\ MarketMoves
    /\ Resting(i) /\ orders[i].side = "SL" /\ price <= orders[i].px
    /\ SetStatus(i, "COMPLETE")
    /\ Sold(orders[i].qty, orders[i].px,
            position # None /\ position.stop = i /\ orders[i].px <= position.sl)
    /\ NoteFill(i)
    /\ UNCHANGED <<file, price, today, next_id, local, exit_stale>>

\* A limit order fills at the market price.
LimitFills(i) ==
    /\ MarketMoves \/ (At("await") /\ order = i)
    /\ Resting(i) /\ orders[i].side # "SL"
    /\ orders' = [orders EXCEPT ![i].status = "COMPLETE", ![i].px = price]
    /\ IF orders[i].side = "BUY"
       THEN /\ shares' = shares + orders[i].qty /\ cost' = price
            /\ UNCHANGED <<account_pnl, stop_hit>>
       ELSE Sold(orders[i].qty, price, order = i /\ action = "exit_sl")
    /\ NoteFill(i)
    /\ UNCHANGED <<file, price, today, next_id, local, exit_stale>>

\* The exchange rejects an order it had accepted.
Rejects(i) ==
    /\ MarketMoves \/ (At("await") /\ order = i)
    /\ Resting(i) /\ SetStatus(i, "REJECTED") /\ Glitch("place")
    /\ UNCHANGED <<file, price, today, account, next_id, local, exit_stale>>

\* The owner trades by hand in the broker's app.
ManualBuy ==
    /\ MarketMoves /\ shares = 0 /\ Glitch("manual")
    /\ shares' = Qty /\ cost' = price
    /\ UNCHANGED <<file, price, today, account_pnl, stop_hit, book, local,
                   exit_stale>>

ManualSell ==
    /\ MarketMoves /\ shares > 0 /\ Glitch("manual")
    /\ shares' = 0
    /\ UNCHANGED <<file, price, today, cost, account_pnl, stop_hit, book,
                   local, exit_stale>>

\* The cooldown's minutes pass.
CooldownElapses ==
    /\ cooling /\ cooling' = FALSE
    /\ UNCHANGED <<position, exit_requested, halted, day, stopped_out,
                   pnl_today, price, today, account, book, local, glitches,
                   exit_stale>>

\* The session closes and the next opens: day orders lapse, and the order
\* book of the old session can no longer be read.
NextDay ==
    /\ At("idle") /\ today < MaxDay
    /\ today' = today + 1 /\ cooling' = FALSE
    /\ account_pnl' = 0 /\ stop_hit' = FALSE
    /\ UNCHANGED <<position, exit_requested, halted, day, stopped_out,
                   pnl_today, price, shares, cost, book, local, glitches,
                   exit_stale>>

Environment ==
    \/ DataOnlyStep \/ RequestExit \/ SetHalted(TRUE) \/ SetHalted(FALSE)
    \/ MovePrice
    \/ \E i \in OrderIds : StopFills(i) \/ LimitFills(i) \/ Rejects(i)
    \/ ManualBuy \/ ManualSell \/ CooldownElapses \/ NextDay

Next == Step \/ Crash \/ Environment

Spec == Init /\ [][Next]_vars

\* The tracker loop never stops by itself, and the exchange fills the
\* confirmed order when it neither rejects it nor lets the window end.
Fairness ==
    /\ WF_vars(Step)
    /\ WF_vars(At("await") /\ \E i \in OrderIds : LimitFills(i))

FairSpec == Spec /\ Fairness

-----------------------------------------------------------------------------
(* Safety.                                                                  *)

SellInFlight == \/ At("place_sell")
                \/ pc \in {"await", "await_cancel"} /\ action # "reenter"

BuyInFlight  == pc \in {"await", "await_cancel"} /\ action = "reenter"

\* From the moment _execute_sell may place its market sale until the sale is
\* confirmed, the stop recorded in the position is dead at the exchange:
\* cancelled, rejected or lapsed, whatever the broker's calls did.
RecordedStopDeadBeforeSell ==
    SellInFlight => /\ position # None
                    /\ position.stop # 0 => ~Resting(position.stop)

\* The cycle never sells shares the account does not have.
NoShort == shares >= 0

\* The only stop resting at the exchange is the one the position records:
\* cancel/re-place, settling and selling leave no stop behind.
OnlyRecordedStopRests ==
    \A i \in DOMAIN orders :
        Resting(i) /\ orders[i].side = "SL"
            => position # None /\ position.stop = i

\* Once flat, the day's tally the kill-switch reads is what the account
\* really made today: every sale and stop fill is booked once, at its price.
TallyMatchesAccount ==
    At("idle") /\ position = None /\ day = today => pnl_today = account_pnl

\* After a protective stop or a stop-loss sale has executed at the exchange,
\* no buy goes out on the same day (block_reentry_after_stop).
NoReentryAfterStop ==
    BlockReentryAfterStop /\ BuyInFlight => ~stop_hit

\* As long as every query is answered, every cancel works, nobody trades by
\* hand, the tracker is not killed and no order fills behind a running step's
\* back, the account and the books agree.
BooksAgree == glitches.calm => /\ NoShort
                               /\ OnlyRecordedStopRests
                               /\ TallyMatchesAccount

\* Under the same conditions no buy follows a stop-out on its day.
NoReentryWhileCalm == glitches.calm => NoReentryAfterStop

\* The trigger of a position's stop only ever moves up.
TriggerOnlyRises ==
    [][position # None /\ position' # None
         => position'.trigger >= position.trigger]_vars

\* The extremes observed while holding only widen: a printed rung or a
\* breached stop is not forgotten (as long as one process at a time runs
\* step()).
ExtremesOnlyWiden ==
    [][position # None /\ position' # None
         => position'.high >= position.high /\ position'.low <= position.low]_vars

\* What the sale of a position needs of the step before it: the resting stop
\* is never above what the ladder has locked in.
TriggerIsEarned ==
    position # None => position.trigger \in StopLevels

\* In the dry-run phase nothing is ever sent to the exchange.
DryRunSendsNothing == ~Live => next_id = 1

-----------------------------------------------------------------------------
(* Liveness.                                                                *)

\* A position whose observed low is at or below its stop is closed:
\* _execute_sell defers or gives up, and a later step tries again, because
\* the observed low stays in the file.
StopOutCompletes ==
    (position # None /\ position.low <= position.sl)
        ~> (position = None \/ Exhausted)

\* A held position without a working stop, because placing it failed or it
\* was rejected, cancelled or lapsed, is protected again or closed: every
\* hold runs _ensure_protective_stop.
Naked == position # None /\ shares > 0
         /\ (position.stop = 0 \/ ~Resting(position.stop))

NakedIsTransient == Naked ~> (~Naked \/ Exhausted)

\* An EXIT command closes the position (handle_exit promises the sale; the
\* step consumes the flag in _consume_exit_request and then sells).
ExitCompletes == exit_requested ~> (position = None \/ Exhausted)

-----------------------------------------------------------------------------
(* What comments and messages of the code say, and the code does not do;    *)
(* see the findings.                                                        *)

\* _settle_closed_position: a filled resting stop is booked as the exit.
FilledStopIsBooked ==
    [][/\ position # None /\ position' = None
       /\ position.stop # 0 /\ orders[position.stop].status = "COMPLETE"
         => cooling']_vars

\* step(): when flat, a pending EXIT "simply expires"; it is never left over
\* for a later position.
ExitRequestIsCurrent == ~(exit_stale /\ position # None)

=============================================================================
