------------------------------ MODULE KittyBot ------------------------------
(***************************************************************************)
(* KittyBot's trading days (src/src/kittybot/, src/apps/kittybot_headless  *)
(* .py): step() once per tick, the state file, the memory a restart loses, *)
(* and the venue.  step() is split where it has filled an order or closed  *)
(* a position and has not yet written what follows from that.              *)
(***************************************************************************)
EXTENDS Integers, FiniteSets, FiniteSetsExt

CONSTANTS
  FirstDay, LastDay,   \* days of the model; day 1 is a Monday
  KittyPrices,         \* prices a tick or a fill may have
  EntryPrice, TargetGap, StopGap, BreakevenGap,
  KittyQty,
  Capital,
  DailyLossLimit,      \* rupees: capital * daily_loss_limit_pct / 100
  DrawdownPct,
  KittyLive,           \* sends_real_orders
  StreakHalt, MaxLosingDays,
  KittyFaults,         \* kinds of faults a run allows
  MaxKittyFaults,      \* bound: how many of them
  NoPosition, NoTick

ASSUME KittyAssumption ==
  /\ FirstDay \in Nat \ {0} /\ LastDay \in Nat /\ FirstDay <= LastDay
  /\ {KittyQty, Capital} \subseteq Nat \ {0}
  /\ {EntryPrice, TargetGap, StopGap, BreakevenGap, DailyLossLimit, DrawdownPct,
      MaxLosingDays, MaxKittyFaults} \subseteq Int
  /\ KittyPrices \subseteq Int /\ NoTick \notin Int

VARIABLES
  kday, kclock,   \* the day, and the part of it
  kticked,        \* a tick has run in this part of the day
  picks,          \* daily_picks.json
  kfile,          \* kittybot_state.json
  kmem,           \* the engine's attributes
  kpc,            \* what step() has yet to write
  kplan,          \* the position about to be recorded, or the exit price
  kshares,        \* net shares at the venue
  kfaults,        \* faults so far
  khist           \* history, for the properties only

kittyVars == <<kday, kclock, kticked, picks, kfile, kmem, kpc, kplan, kshares,
               kfaults, khist>>

-----------------------------------------------------------------------------
(* The parts of a day, as step() and main() tell them apart. *)
PreOpen == 0        \* before 09:15
ObserveStart == 1   \* 09:15
SelectTime == 2     \* 09:30
NoTradeAfter == 3   \* 10:30
HardExit == 4       \* 15:10
MarketClose == 5    \* after 15:30

Weekday(d) == (d - 1) % 7
IsTradingDay(d) == Weekday(d) < 5
NextTradingDay(d) == CHOOSE n \in d + 1 .. d + 3 :
                        IsTradingDay(n) /\ \A m \in d + 1 .. n - 1 : ~ IsTradingDay(m)

InSession == IsTradingDay(kday) /\ kclock \in ObserveStart .. HardExit

(* safety.py *)
DailyLossLimitBreached(pnl) == pnl <= -DailyLossLimit

DrawdownBreaker(hwm, equity) ==
  hwm > 0 /\ (hwm - equity) * 100 >= DrawdownPct * hwm

LossStreakHalt(streak) == streak >= MaxLosingDays
ResumeDate(d) == d + 7 - Weekday(d)
HaltActive(until, d) == until # 0 /\ d < until

(* risk.py; a direction is 1 (LONG) or -1 (SHORT). *)
Directions == {1, -1}
Plan(dir, fill) == [dir |-> dir, entry |-> EntryPrice, fill |-> fill,
                    stop |-> EntryPrice - dir * StopGap,
                    target |-> EntryPrice + dir * TargetGap,
                    live_stop |-> EntryPrice - dir * StopGap,
                    session |-> kday, fails |-> 0, alerted |-> 0]

BreakevenStop(pos, price) ==
  IF pos.dir * (price - pos.entry) >= BreakevenGap
  THEN IF pos.dir * (pos.entry - pos.live_stop) > 0 THEN pos.entry ELSE pos.live_stop
  ELSE pos.live_stop

ExitReason(pos, price, stop) ==
  IF kclock >= HardExit THEN "TIME"
  ELSE IF pos.dir * (price - pos.target) >= 0 THEN "TARGET"
  ELSE IF pos.dir * (price - stop) <= 0 THEN "STOP"
  ELSE "hold"

RealizedPnl(pos, exit) == pos.dir * (exit - pos.entry) * KittyQty

-----------------------------------------------------------------------------
EmptyState == [position |-> NoPosition, streak |-> 0, last_result |-> 0,
               halt_until |-> 0, pnl_today |-> 0, pnl_day |-> 0,
               cumulative |-> 0, hwm |-> 0, drawdown_halted |-> FALSE]

Fresh(d) == [session |-> d, prepared |-> FALSE, skip |-> FALSE, entered |-> FALSE,
             vix |-> FALSE, survivors |-> FALSE]

KittyInit ==
  /\ kday = FirstDay /\ kclock = PreOpen /\ kticked = FALSE
  /\ picks = "missing"
  /\ kfile = EmptyState
  /\ kmem = Fresh(0)
  /\ kpc = "idle" /\ kplan = NoPosition
  /\ kshares = 0 /\ kfaults = 0
  /\ khist = [entries |-> 0, restarts |-> 0, earned |-> 0, earned_today |-> 0,
              stray |-> FALSE, lost |-> FALSE, exit_failed |-> FALSE,
              loss_days |-> {}, breached |-> 0]

KittyFault(kind) == /\ kind \in KittyFaults
                    /\ kfaults < MaxKittyFaults
                    /\ kfaults' = kfaults + 1

EnsureSession == IF kmem.session = kday THEN kmem ELSE Fresh(kday)

Position == kfile.position

(* A market order whose fill is confirmed, is not, or is not but happens
   anyway: an order that filled after its window, or in part. *)
Filled(shares) == /\ kshares' = kshares + shares
                  /\ UNCHANGED kfaults
Unfilled == KittyFault("nofill") /\ UNCHANGED kshares
FilledUnseen(shares) == KittyFault("late") /\ kshares' = kshares + shares

-----------------------------------------------------------------------------
(* _prepare: one attempt a day, even if it raises. *)
Blocked == \/ HaltActive(kfile.halt_until, kday)
           \/ kfile.drawdown_halted
           \/ picks = "stale"

Prepared(m, survivors) ==
  IF Blocked THEN [m EXCEPT !.prepared = TRUE, !.skip = TRUE]
  ELSE [m EXCEPT !.prepared = TRUE, !.survivors = survivors]

CommitEntry(m, filled) == [m EXCEPT !.entered = TRUE]

ReadyToEnter(m) == m.prepared /\ ~ m.skip /\ ~ m.entered /\ kclock >= SelectTime

(* _check_vix, once a day. *)
VixChecked(m, spike) == IF m.vix THEN m
                        ELSE [m EXCEPT !.vix = TRUE, !.skip = m.skip \/ spike]

(* A tick without an order: the day is skipped, it is too early, nothing has
   triggered, or the cutoff has passed. *)
StandDown(m) ==
  /\ kmem' = IF ~ m.skip /\ ReadyToEnter(m) /\ kclock >= NoTradeAfter
             THEN [m EXCEPT !.entered = TRUE] ELSE m
  /\ UNCHANGED <<kpc, kplan, kshares, kfaults, khist>>

(* _place_entry; plan_trade gives no plan when the size is 0. *)
PlaceEntry(m, dir) ==
  \/ /\ kmem' = CommitEntry(m, FALSE)
     /\ UNCHANGED <<kpc, kplan, kshares, kfaults, khist>>
  \/ /\ kmem' = CommitEntry(m, TRUE)
     /\ Filled(dir * KittyQty)
     /\ kpc' = "entry_filled"
     /\ \E p \in {EntryPrice, EntryPrice + dir} : kplan' = Plan(dir, p)
     /\ khist' = [khist EXCEPT !.entries = @ + 1]
  \/ /\ kmem' = CommitEntry(m, FALSE)
     /\ Unfilled
     /\ UNCHANGED <<kpc, kplan, khist>>
  \/ /\ kmem' = CommitEntry(m, FALSE)
     /\ FilledUnseen(dir * KittyQty)
     /\ khist' = [khist EXCEPT !.entries = @ + 1, !.stray = TRUE]
     /\ UNCHANGED <<kpc, kplan>>

Ticks == /\ kpc = "idle" /\ InSession
         /\ kticked' = TRUE
         /\ UNCHANGED <<kday, kclock, picks>>

(* step() without a position: prepare, then try to enter. *)
TickFlat ==
  /\ Position = NoPosition /\ Ticks
  /\ UNCHANGED kfile
  /\ \E survivors, spike \in BOOLEAN :
       LET m1 == EnsureSession
           m2 == IF m1.prepared THEN m1 ELSE Prepared(m1, survivors)
           m3 == IF ReadyToEnter(m2) THEN VixChecked(m2, spike) ELSE m2
       IN  \/ StandDown(m3)
           \/ /\ ReadyToEnter(m3) /\ m3.survivors /\ kclock < NoTradeAfter
              /\ \E dir \in Directions : PlaceEntry(m3, dir)

(* _prepare raises after it has marked the day as prepared. *)
PrepareRaises ==
  /\ Position = NoPosition /\ Ticks
  /\ ~ EnsureSession.prepared
  /\ KittyFault("raise")
  /\ kmem' = [EnsureSession EXCEPT !.prepared = TRUE]
  /\ UNCHANGED <<kfile, kpc, kplan, kshares, khist>>

RecordEntry ==
  /\ kpc = "entry_filled"
  /\ kfile' = [kfile EXCEPT !.position = kplan]
  /\ kpc' = "idle" /\ kplan' = NoPosition
  /\ UNCHANGED <<kday, kclock, kticked, picks, kmem, kshares, kfaults, khist>>

-----------------------------------------------------------------------------
(* _manage: what it stores before it may send an exit: the carry-over alert of
   the day and the ratcheted stop.  Without a tick the entry's fill stands in
   for the price. *)
TickPrice(tick) == IF tick = NoTick THEN Position.fill ELSE tick

Managed(tick) ==
  [Position EXCEPT !.live_stop = BreakevenStop(Position, TickPrice(tick)),
                   !.alerted = IF Position.session # kday THEN kday ELSE @]

Reason(tick) ==
  ExitReason(Position, TickPrice(tick), BreakevenStop(Position, TickPrice(tick)))

TickHold ==
  /\ Position # NoPosition /\ Ticks
  /\ \E tick \in KittyPrices \cup {NoTick} :
        /\ Reason(tick) = "hold"
        /\ kfile' = [kfile EXCEPT !.position = Managed(tick)]
  /\ kmem' = EnsureSession
  /\ UNCHANGED <<kpc, kplan, kshares, kfaults, khist>>

(* An exit order whose fill is confirmed at some price. *)
TickExits ==
  /\ Position # NoPosition /\ Ticks
  /\ \E tick \in KittyPrices \cup {NoTick}, exit \in KittyPrices :
        /\ Reason(tick) # "hold"
        /\ kfile' = [kfile EXCEPT !.position = Managed(tick)]
        /\ kplan' = [exit |-> exit, pos |-> Position]
        /\ khist' = [khist EXCEPT
             !.earned = @ + RealizedPnl(Position, exit),
             !.earned_today = @ + RealizedPnl(Position, exit),
             !.loss_days = IF RealizedPnl(Position, exit) < 0 THEN @ \cup {kday} ELSE @]
  /\ Filled(-Position.dir * KittyQty)
  /\ kpc' = "exit_filled"
  /\ kmem' = EnsureSession

RetriesNextTick(pos) == [pos EXCEPT !.fails = IF @ = 2 THEN 2 ELSE @ + 1]

(* An exit order that is not confirmed: the next tick tries again.  The count
   of attempts spaces the alerts; the model counts up to two. *)
TickExitFails ==
  /\ Position # NoPosition /\ Ticks
  /\ \E tick \in KittyPrices \cup {NoTick} :
        /\ Reason(tick) # "hold"
        /\ kfile' = [kfile EXCEPT !.position = RetriesNextTick(Managed(tick))]
  /\ \/ /\ Unfilled
        /\ khist' = [khist EXCEPT !.exit_failed = TRUE]
     \/ /\ FilledUnseen(-Position.dir * KittyQty)
        /\ khist' = [khist EXCEPT !.exit_failed = TRUE, !.stray = TRUE]
  /\ kmem' = EnsureSession
  /\ UNCHANGED <<kpc, kplan>>

Pnl == RealizedPnl(kplan.pos, kplan.exit)

(* close_position: one result a day moves the streak. *)
Closed(is_loss) ==
  [kfile EXCEPT !.position = NoPosition,
                !.streak = IF kfile.last_result = kday THEN @
                           ELSE IF is_loss THEN @ + 1 ELSE 0,
                !.last_result = kday]

ClosePosition ==
  /\ kpc = "exit_filled"
  /\ kfile' = Closed(Pnl < 0)
  /\ kpc' = "closed"
  /\ UNCHANGED <<kday, kclock, kticked, picks, kmem, kplan, kshares, kfaults, khist>>

(* record_realized_pnl *)
Tallied ==
  LET today == IF kfile.pnl_day = kday THEN kfile.pnl_today ELSE 0
      cum == kfile.cumulative + Pnl
  IN  [kfile EXCEPT !.pnl_today = today + Pnl, !.pnl_day = kday, !.cumulative = cum,
                    !.hwm = Max({kfile.hwm, Capital, Capital + cum})]

RecordRealizedPnl ==
  /\ kpc = "closed"
  /\ kfile' = Tallied
  /\ kpc' = "booked" /\ kplan' = NoPosition
  /\ khist' = [khist EXCEPT !.breached =
                 IF DailyLossLimitBreached(Tallied.pnl_today) THEN kday ELSE @]
  /\ UNCHANGED <<kday, kclock, kticked, picks, kmem, kshares, kfaults>>

Equity == Capital + kfile.cumulative

\* Mutant: the day's loss is looked at first.
SmallerRailFirst ==
  IF ~ KittyLive THEN kfile
  ELSE IF DailyLossLimitBreached(kfile.pnl_today) THEN [kfile EXCEPT !.halt_until = kday + 1]
  ELSE IF DrawdownBreaker(kfile.hwm, Equity) THEN [kfile EXCEPT !.drawdown_halted = TRUE]
  ELSE kfile

(* _maybe_halt: the bigger breaker first, and only one of them. *)
Halted ==
  CASE ~ KittyLive -> kfile
    [] DrawdownBreaker(kfile.hwm, Equity) -> [kfile EXCEPT !.drawdown_halted = TRUE]
    [] ~ DrawdownBreaker(kfile.hwm, Equity) /\ DailyLossLimitBreached(kfile.pnl_today) ->
         [kfile EXCEPT !.halt_until = kday + 1]
    [] ~ DrawdownBreaker(kfile.hwm, Equity) /\ ~ DailyLossLimitBreached(kfile.pnl_today)
       /\ StreakHalt /\ LossStreakHalt(kfile.streak) ->
         [kfile EXCEPT !.halt_until = ResumeDate(kday)]
    [] OTHER -> kfile

MaybeHalt ==
  /\ kpc = "booked"
  /\ kfile' = Halted
  /\ kpc' = "idle"
  /\ UNCHANGED <<kday, kclock, kticked, picks, kmem, kplan, kshares, kfaults, khist>>

-----------------------------------------------------------------------------
(* The screener writes the day's picks before the open. *)
Screen == /\ kclock = PreOpen /\ kpc = "idle"
          /\ picks' = "fresh"
          /\ UNCHANGED <<kday, kclock, kticked, kfile, kmem, kpc, kplan, kshares,
                         kfaults, khist>>

(* A tick runs every 30 seconds, so each part of a session sees one. *)
ClockMoves == /\ kpc = "idle" /\ kclock < MarketClose
              /\ InSession => kticked
              /\ kclock' = kclock + 1
              /\ kticked' = FALSE
              /\ UNCHANGED <<kday, picks, kfile, kmem, kpc, kplan, kshares, kfaults, khist>>

(* Picks of the last trading day are older than picks_max_age_hours. *)
NextKittySession == /\ kpc = "idle" /\ kclock = MarketClose /\ kday < LastDay
                    /\ kday' = NextTradingDay(kday)
                    /\ kclock' = PreOpen /\ kticked' = FALSE
                    /\ picks' = IF picks = "fresh" THEN "stale" ELSE picks
                    /\ khist' = [khist EXCEPT !.entries = 0, !.restarts = 0,
                                              !.earned_today = 0, !.exit_failed = FALSE]
                    /\ UNCHANGED <<kfile, kmem, kpc, kplan, kshares, kfaults>>

(* The service is killed and started again: its memory is gone.  What a fill
   or a closed position still had to write is lost. *)
KittyRestart ==
  /\ KittyFault("crash")
  /\ kmem' = Fresh(0) /\ kticked' = FALSE
  /\ kpc' = "idle" /\ kplan' = NoPosition
  /\ khist' = [khist EXCEPT
       !.restarts = @ + 1,
       !.stray = @ \/ kpc \in {"entry_filled", "exit_filled"},
       !.lost = @ \/ kpc \in {"exit_filled", "closed", "booked"}]
  /\ UNCHANGED <<kday, kclock, picks, kfile, kshares>>

KittyTick == \/ TickFlat \/ PrepareRaises \/ RecordEntry
             \/ TickHold \/ TickExits \/ TickExitFails
             \/ ClosePosition \/ RecordRealizedPnl \/ MaybeHalt

KittyNext == KittyTick \/ Screen \/ ClockMoves \/ NextKittySession \/ KittyRestart

KittySpec == KittyInit /\ [][KittyNext]_kittyVars

-----------------------------------------------------------------------------
Positions == [dir : Directions, entry : Int, fill : Int, stop : Int, target : Int,
              live_stop : Int, session : Nat, fails : 0 .. 2, alerted : Nat]
Exits == [exit : Int, pos : Positions]     \* what kplan holds of an exit

ASSUME NoPositionAssumption == NoPosition \notin Positions /\ NoPosition \notin Exits

KittyTypeOK ==
  /\ kday \in FirstDay .. LastDay + 2 /\ kclock \in PreOpen .. MarketClose
  /\ kticked \in BOOLEAN /\ picks \in {"missing", "fresh", "stale"}
  /\ Position \in {NoPosition} \cup Positions
  /\ kfile.streak \in Nat /\ kfile.halt_until \in Nat /\ kfile.hwm \in Nat
  /\ kpc \in {"idle", "entry_filled", "exit_filled", "closed", "booked"}
  /\ kpc \in {"entry_filled", "exit_filled", "closed"} <=> kplan # NoPosition
  /\ kpc \in {"closed", "booked"} => Position = NoPosition

(* What the file says of the position is what the venue holds, between any two
   ticks, unless an order filled that the broker client never confirmed or the
   process died between a fill and its record (_exit: "instead of the bot
   believing it's flat"). *)
VenueMatchesRecord ==
  ~ khist.stray =>
    kshares = CASE kpc = "entry_filled" -> kplan.dir * KittyQty
                [] kpc # "entry_filled" /\ kpc # "exit_filled" /\ Position # NoPosition
                     -> Position.dir * KittyQty
                [] OTHER -> 0

(* Every closed trade reaches the tallies the rails are computed from, on the
   right day (record_realized_pnl), unless the process died on the way. *)
TalliesAreComplete ==
  ~ khist.lost /\ kpc \in {"idle", "booked"} =>
    /\ kfile.cumulative = khist.earned
    /\ kfile.pnl_day = kday => kfile.pnl_today = khist.earned_today

(* No entry is sent while a halt stands, whatever was closed, restarted or
   raised earlier that day. *)
NoEntryWhileHalted ==
  [][kpc = "idle" /\ kpc' = "entry_filled" =>
       ~ HaltActive(kfile.halt_until, kday) /\ ~ kfile.drawdown_halted]_kittyVars

(* One entry a day for each life of the process ("one entry per day, win or
   lose"). *)
OneEntryPerLife == khist.entries <= 1 + khist.restarts

(* In live mode an equity that has fallen too far below its high stands halted,
   whichever of the smaller rails tripped with it. *)
DrawdownHalts ==
  kpc = "idle" /\ ~ khist.lost /\ KittyLive /\ DrawdownBreaker(kfile.hwm, Equity)
    => kfile.drawdown_halted

(* A day on which the broker confirmed every exit ends flat: "the hard
   time-exit must always run". *)
FlatAtClose ==
  kclock = MarketClose /\ ~ khist.exit_failed => Position = NoPosition

(* The loss streak never counts more days than there were with a loss. *)
StreakCountsDays == kfile.streak <= Cardinality(khist.loss_days)

(* "skips only the next trading day" (safety.py:9, config.py: "skip next day
   if today's loss hits this % of capital"). *)
BreachSkipsNextDay ==
  [][kpc = "idle" /\ kpc' = "entry_filled" /\ khist.breached # 0 =>
       kday # NextTradingDay(khist.breached)]_kittyVars

(* The engine keeps its rails over days, restarts and raised ticks: the record
   is what the venue holds, every result reaches the tallies, and no halt is
   traded through. *)
KittyKeepsItsRails ==
  /\ [](/\ KittyTypeOK
        /\ VenueMatchesRecord
        /\ TalliesAreComplete
        /\ OneEntryPerLife
        /\ DrawdownHalts
        /\ FlatAtClose
        /\ StreakCountsDays)
  /\ NoEntryWhileHalted
=============================================================================
