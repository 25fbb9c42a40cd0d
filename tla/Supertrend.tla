----------------------------- MODULE Supertrend -----------------------------
(***************************************************************************)
(* The Supertrend strategy of the tracker (src/apps/main.py _execute_      *)
(* strategy and the part of _refresh around it, src/src/emcure/state.py,   *)
(* strategy.py): one refresh loads the state, asks the broker, places and  *)
(* confirms at most one order, changes the state and saves it.  A refresh  *)
(* is split between the confirmed order and the save.                      *)
(***************************************************************************)
EXTENDS Integers

CONSTANTS
  StDays,            \* bound: days of the model
  StPrices,          \* prices a refresh may see
  StSignalPrices,    \* prices at which the buy gate may trigger
  StAtr,             \* the ATR; positive
  StCapital,
  StRisk,            \* rupees at risk: CAPITAL * RISK_PCT / 100
  StMaxLoss,         \* rupees: CAPITAL * MAX_DAILY_LOSS_PCT / 100
  StCharge,          \* charges of one leg (compute_charges)
  StSlip,            \* how far a fill may be from its signal
  MaxStBuys,         \* bound: buys in the model
  StFaults,          \* kinds of faults; "paper": a refresh without a broker
  MaxStFaults,
  NoStPosition

ASSUME StAssumption ==
  /\ {StDays, StAtr} \subseteq Nat \ {0}
  /\ {StCapital, StRisk, StMaxLoss, StCharge, MaxStBuys, MaxStFaults} \subseteq Nat
  /\ StSignalPrices \cup StPrices \subseteq Nat \ {0} /\ StSlip \subseteq Int
  /\ \A p \in StSignalPrices \cup StPrices, slip \in StSlip : p + slip \in Nat \ {0}

VARIABLES
  stday,
  stfile,      \* strategy_state.json: position and session
  stpc,        \* "idle", or "save" between an order and save_state
  stpending,   \* the state about to be saved
  stshares,    \* CNC shares at the broker
  stfaults,
  sthist       \* history, for the properties only

stVars == <<stday, stfile, stpc, stpending, stshares, stfaults, sthist>>

StLeast(a, b) == IF a <= b THEN a ELSE b
StMost(a, b) == IF a >= b THEN a ELSE b

-----------------------------------------------------------------------------
(* strategy.py *)
PositionSizeAt(entry) == StLeast(StRisk \div StAtr, StCapital \div entry)

Sizing(entry) == [entry |-> entry, sl |-> entry - StAtr, t1 |-> entry + StAtr,
                  t2 |-> entry + 2 * StAtr, t3 |-> entry + 3 * StAtr,
                  qty |-> PositionSizeAt(entry)]

(* _sizing_at_fill: levels off the fill, the filled quantity. *)
SizingAtFill(entry, fill, filled) ==
  LET base == IF PositionSizeAt(fill) > 0 THEN Sizing(fill) ELSE Sizing(entry)
  IN  [base EXCEPT !.entry = fill, !.qty = filled]

ManagePosition(pos, price, flip) ==
  CASE price <= pos.sl -> "stop_hit"
    [] price > pos.sl /\ flip -> "supertrend_exit"
    [] price > pos.sl /\ ~ flip /\ ~ pos.b3 /\ price >= pos.t3 -> "t3_hit"
    [] /\ price > pos.sl /\ ~ flip /\ (pos.b3 \/ price < pos.t3)
       /\ ~ pos.b2 /\ price >= pos.t2 -> "t2_hit"
    [] /\ price > pos.sl /\ ~ flip /\ (pos.b3 \/ price < pos.t3)
       /\ (pos.b2 \/ price < pos.t2) /\ ~ pos.b1 /\ price >= pos.t1 -> "t1_hit"
    [] OTHER -> "hold"

-----------------------------------------------------------------------------
(* state.py *)
FreshSession(d) == [date |-> d, losses |-> 0, pnl |-> 0]
DefaultState == [position |-> NoStPosition, session |-> FreshSession(0)]

ResetIfNewDay(s) == IF s.session.date = stday THEN s
                    ELSE [s EXCEPT !.session = FreshSession(stday)]

CircuitBreaker(session) == session.losses >= 2 \/ session.pnl <= -StMaxLoss

OpenPosition(s, z) ==
  [s EXCEPT !.position = [entry |-> z.entry, sl |-> z.sl, t1 |-> z.t1, t2 |-> z.t2,
                          t3 |-> z.t3, qty |-> z.qty, rem |-> z.qty,
                          b1 |-> FALSE, b2 |-> FALSE, b3 |-> FALSE,
                          partial |-> 0, charges |-> 0]]

Charges(qty) == IF qty <= 0 THEN 0 ELSE StCharge

Third(pos) == StMost(1, pos.rem \div 3)

BookPartial(s, exit, reason) ==
  LET pos == s.position
      pnl == (exit - pos.entry) * Third(pos)
  IN  [s EXCEPT !.position = [pos EXCEPT !.rem = @ - Third(pos),
                                         !.partial = @ + pnl,
                                         !.charges = @ + Charges(Third(pos)),
                                         !.b1 = @ \/ reason = "t1_hit",
                                         !.b2 = @ \/ reason = "t2_hit",
                                         !.b3 = @ \/ reason = "t3_hit",
                                         !.sl = IF reason = "t1_hit" THEN pos.entry ELSE @],
                !.session.pnl = @ + pnl]

NetPnl(pos, exit) == pos.partial + (exit - pos.entry) * pos.rem
                     - (pos.charges + Charges(pos.rem))

ClosePositionAt(s, exit) ==
  [s EXCEPT !.position = NoStPosition,
            !.session.pnl = @ + (exit - s.position.entry) * s.position.rem
                              - (s.position.charges + Charges(s.position.rem)),
            !.session.losses = IF NetPnl(s.position, exit) < 0 THEN @ + 1 ELSE 0]

-----------------------------------------------------------------------------
StInit == /\ stday = 1
          /\ stfile = DefaultState
          /\ stpc = "idle" /\ stpending = DefaultState
          /\ stshares = 0 /\ stfaults = 0
          /\ sthist = [unchecked |-> FALSE, drift |-> FALSE, unsaved |-> FALSE,
                       losses |-> 0, earned |-> 0, legs |-> 0, carried |-> FALSE,
                       buys |-> 0]

StFault(kind) == /\ kind \in StFaults /\ stfaults < MaxStFaults
                 /\ stfaults' = stfaults + 1

StLoaded == ResetIfNewDay(stfile)

(* The state a refresh that trades will save. *)
Pending(s) == stpc' = "save" /\ stpending' = s

(* A refresh that trades nothing saves what it loaded. *)
SavesLoaded == /\ stfile' = StLoaded
               /\ UNCHANGED <<stpc, stpending, stshares, sthist>>

LegSold(qty, exit) ==
  [sthist EXCEPT !.earned = @ + (exit - StLoaded.position.entry) * qty,
                 !.legs = IF qty > 0 THEN @ + 1 ELSE @]

StClosed(h, exit) ==
  [h EXCEPT !.losses = IF NetPnl(StLoaded.position, exit) < 0 THEN @ + 1 ELSE 0]

(* place_order_and_confirm for an exit: confirmed, not filled, or filled after
   its window. *)
SellUnfilled(qty) ==
  /\ stfile' = StLoaded
  /\ \/ StFault("nofill") /\ UNCHANGED <<stshares, sthist>>
     \/ /\ qty > 0 /\ StFault("late") /\ stshares' = stshares - qty
        /\ sthist' = [sthist EXCEPT !.drift = TRUE]
  /\ UNCHANGED <<stpc, stpending>>

(* Without a broker (a briefing's refresh, a failed login) the signal's price is
   the exit and nothing is sold. *)
Sells(broker, qty) ==
  /\ \/ broker /\ stshares' = stshares - qty /\ UNCHANGED stfaults
     \/ ~ broker /\ StFault("paper") /\ UNCHANGED stshares
  /\ UNCHANGED stfile

Drift(broker, h) == [h EXCEPT !.drift = @ \/ ~ broker]

StIdle == stpc = "idle" /\ UNCHANGED stday

HoldPosition ==
  /\ StIdle /\ StLoaded.position # NoStPosition
  /\ \E price \in StPrices, flip \in BOOLEAN :
        ManagePosition(StLoaded.position, price, flip) = "hold"
  /\ SavesLoaded /\ UNCHANGED stfaults

ExitPartial ==
  /\ StIdle /\ StLoaded.position # NoStPosition
  /\ \E price \in StPrices, flip \in BOOLEAN, broker \in BOOLEAN, slip \in StSlip :
       LET reason == ManagePosition(StLoaded.position, price, flip)
           qty == Third(StLoaded.position)
           exit == IF broker THEN price + slip ELSE price
       IN  /\ reason \in {"t1_hit", "t2_hit", "t3_hit"}
           /\ \/ /\ Sells(broker, qty)
                 /\ Pending(BookPartial(StLoaded, exit, reason))
                 /\ sthist' = Drift(broker, LegSold(qty, exit))
              \/ broker /\ SellUnfilled(qty)

ExitFull ==
  /\ StIdle /\ StLoaded.position # NoStPosition
  /\ \E price \in StPrices, flip \in BOOLEAN, broker \in BOOLEAN, slip \in StSlip :
       LET reason == ManagePosition(StLoaded.position, price, flip)
           qty == StLoaded.position.rem
           exit == IF broker THEN price + slip ELSE price
       IN  /\ reason \in {"stop_hit", "supertrend_exit"}
           /\ \/ /\ qty > 0 \/ ~ broker
                 /\ Sells(broker, qty)
                 /\ Pending(ClosePositionAt(StLoaded, exit))
                 /\ sthist' = Drift(broker, StClosed(LegSold(qty, exit), exit))
              \/ broker /\ SellUnfilled(qty)
              \/ /\ broker /\ qty <= 0  \* the venue refuses an order for nothing
                 /\ SavesLoaded /\ UNCHANGED stfaults

-----------------------------------------------------------------------------
(* A buy gate that has triggered, with a size, no halt and no event near: the
   answer of held_qty comes first.  None is not a number of shares. *)
\* Mutant: the broker is not asked what it holds.
BelievesFlat(answered, held) == TRUE

NothingHeld(answered, held) == ~ answered \/ held = 0

MayEnter == /\ StLoaded.position = NoStPosition
            /\ ~ CircuitBreaker(StLoaded.session)
            /\ sthist.buys < MaxStBuys

Buys(price, fill, qty) ==
  /\ stshares' = stshares + qty
  /\ Pending(OpenPosition(StLoaded, SizingAtFill(price, fill, qty)))
  /\ UNCHANGED stfile

(* No signal, no size, a halt, an event, untracked shares, too little cash. *)
StayFlat == /\ StIdle /\ StLoaded.position = NoStPosition
            /\ SavesLoaded /\ UNCHANGED stfaults

Enter ==
  /\ StIdle /\ MayEnter
  /\ \E price \in StSignalPrices, slip \in StSlip :
       LET qty == Sizing(price).qty
       IN  /\ qty > 0
           /\ \/ /\ NothingHeld(TRUE, stshares)
                 /\ UNCHANGED stfaults
                 /\ Buys(price, price + slip, qty)
                 /\ sthist' = [sthist EXCEPT !.buys = @ + 1]
              \/ /\ StFault("unknown") /\ NothingHeld(FALSE, stshares)
                 /\ Buys(price, price + slip, qty)
                 /\ sthist' = [sthist EXCEPT !.unchecked = TRUE, !.buys = @ + 1,
                                             !.drift = @ \/ stshares # 0]

EnterFails ==
  /\ StIdle /\ MayEnter /\ NothingHeld(TRUE, stshares)
  /\ \E price \in StSignalPrices :
       /\ Sizing(price).qty > 0
       /\ StFault("late")
       /\ stshares' = stshares + Sizing(price).qty
  /\ stfile' = StLoaded
  /\ sthist' = [sthist EXCEPT !.drift = TRUE, !.buys = @ + 1]
  /\ UNCHANGED <<stpc, stpending>>

EnterOnPaper ==
  /\ StIdle /\ MayEnter /\ StFault("paper")
  /\ \E price \in StSignalPrices :
       /\ Sizing(price).qty > 0
       /\ Pending(OpenPosition(StLoaded, Sizing(price)))
  /\ sthist' = [sthist EXCEPT !.drift = TRUE, !.buys = @ + 1]
  /\ UNCHANGED <<stfile, stshares>>

-----------------------------------------------------------------------------
(* save_state swallows its errors. *)
SaveState ==
  /\ stpc = "save"
  /\ \/ stfile' = stpending /\ UNCHANGED <<stfaults, sthist>>
     \/ /\ StFault("save") /\ UNCHANGED stfile
        /\ sthist' = [sthist EXCEPT !.drift = TRUE, !.unsaved = TRUE]
  /\ stpc' = "idle" /\ stpending' = DefaultState
  /\ UNCHANGED <<stday, stshares>>

(* The process dies between the confirmed order and the save. *)
StRestart ==
  /\ stpc = "save" /\ StFault("crash")
  /\ stpc' = "idle" /\ stpending' = DefaultState
  /\ sthist' = [sthist EXCEPT !.drift = TRUE, !.unsaved = TRUE]
  /\ UNCHANGED <<stday, stfile, stshares>>

StNextDay ==
  /\ stpc = "idle" /\ stday < StDays
  /\ stday' = stday + 1
  /\ sthist' = [sthist EXCEPT !.losses = 0, !.earned = 0, !.legs = 0,
                              !.carried = stfile.position # NoStPosition]
  /\ UNCHANGED <<stfile, stpc, stpending, stshares, stfaults>>

StNext == \/ HoldPosition \/ ExitPartial \/ ExitFull
          \/ StayFlat \/ Enter \/ EnterFails \/ EnterOnPaper
          \/ SaveState \/ StRestart \/ StNextDay

StSpec == StInit /\ [][StNext]_stVars
-----------------------------------------------------------------------------
StPositions == [entry : Nat, sl : Int, t1 : Nat, t2 : Nat, t3 : Nat, qty : Nat \ {0},
                rem : Int, b1 : BOOLEAN, b2 : BOOLEAN, b3 : BOOLEAN, partial : Int,
                charges : Nat]

ASSUME NoStPositionAssumption == NoStPosition \notin StPositions

StateOK(s) == /\ s.position \in {NoStPosition} \cup StPositions
              /\ s.position # NoStPosition => s.position.rem <= s.position.qty
              /\ s.session.date \in 0 .. StDays /\ s.session.losses \in Nat

StTypeOK == /\ stday \in 1 .. StDays
            /\ StateOK(stfile) /\ StateOK(stpending)
            /\ stpc \in {"idle", "save"}

(* Between refreshes the record holds the shares the broker holds: every order
   was confirmed before the state changed (_execute_strategy), unless an order
   filled unconfirmed, a save was lost, or a refresh had no broker. *)
VenueMatchesStrategy ==
  stpc = "idle" /\ ~ sthist.drift =>
    stshares = IF stfile.position = NoStPosition THEN 0 ELSE stfile.position.rem

(* One position's worth of shares at most, whatever filled late, was not saved
   or died before the save ("so a missed save / restart can't double a
   position"), as long as held_qty answers. *)
NoDoubledPosition ==
  ~ sthist.unchecked => stshares <= StRisk \div StAtr

(* After two losing trades in a row no order buys until the next day. *)
TwoLossesEndTheDay ==
  [][stshares' > stshares /\ ~ sthist.unsaved => sthist.losses < 2]_stVars

(* The session's result is what its trades earned after charges, once the
   position that earned it is closed (close_position: "so the running total and
   circuit breaker reflect net P&L"). *)
SessionPnlIsNet ==
  /\ stpc = "idle" /\ stfile.position = NoStPosition /\ stfile.session.date = stday
  /\ ~ sthist.unsaved /\ ~ sthist.carried
  => stfile.session.pnl = sthist.earned - StCharge * sthist.legs

(* "Orders are placed AND confirmed inside _refresh(), which also persists the
   resulting trade state" (main_headless.py:221): when no order, query or save
   fails, the record and the broker agree between refreshes. *)
OrdersBeforeRecords ==
  stpc = "idle" =>
    stshares = IF stfile.position = NoStPosition THEN 0 ELSE stfile.position.rem

(* "Book 1/3 of remaining position at each target" (state.py:93): without
   faults no order sells a share the position does not have. *)
NeverOversold == stfaults = 0 => stshares >= 0

(* The strategy's file follows its orders: one position's worth at the venue,
   net results in the session, and no third try after two losses. *)
SupertrendBooks ==
  /\ [](/\ StTypeOK
        /\ VenueMatchesStrategy
        /\ NoDoubledPosition
        /\ SessionPnlIsNet)
  /\ TwoLossesEndTheDay
=============================================================================
