--------------------------- MODULE KittyBotProofs ---------------------------
(***************************************************************************)
(* KittyBot keeps its rails, for any days, prices, sizes, limits and faults.*)
(* KittyInv adds to each of them what the steps between a fill and its      *)
(* record, and the memory a restart loses, contribute to it.  And its picks *)
(* are prudent, from the screener's ranking to the size of the order.       *)
(***************************************************************************)
EXTENDS KittyBot, KittyPicks, FiniteSetTheorems, CountingTheorems, TLAPS

Files == [position : {NoPosition} \cup Positions, streak : Nat, last_result : Nat,
          halt_until : Nat, pnl_today : Int, pnl_day : Nat, cumulative : Int,
          hwm : Nat, drawdown_halted : BOOLEAN]
Memories == [session : Nat, prepared : BOOLEAN, skip : BOOLEAN, entered : BOOLEAN,
             vix : BOOLEAN, survivors : BOOLEAN]
Histories == [entries : Nat, restarts : Nat, earned : Int, earned_today : Int,
              stray : BOOLEAN, lost : BOOLEAN, exit_failed : BOOLEAN,
              loss_days : SUBSET Nat, breached : Nat]

(* Where step() has a plan in hand, and which. *)
PlanFits ==
  /\ kpc \in {"idle", "entry_filled", "exit_filled", "closed", "booked"}
  /\ kpc \in {"idle", "booked"} => kplan = NoPosition
  /\ kpc = "entry_filled" => kplan \in Positions /\ Position = NoPosition
  /\ kpc \in {"exit_filled", "closed"} => kplan \in Exits
  /\ kpc = "exit_filled" => Position # NoPosition
  /\ kpc \in {"closed", "booked"} => Position = NoPosition

KTypes ==
  /\ kday \in FirstDay .. LastDay + 2 /\ kclock \in PreOpen .. MarketClose
  /\ kticked \in BOOLEAN /\ picks \in {"missing", "fresh", "stale"}
  /\ kfile \in Files /\ kmem \in Memories /\ khist \in Histories
  /\ kshares \in Int /\ kfaults \in Int
  /\ PlanFits

-----------------------------------------------------------------------------
(* Facts about the calendar, a position and the high watermark. *)
LEMMA DayIsPositive == KTypes => kday \in Nat \ {0}
  BY KittyAssumption DEF KTypes

(* Of any three days in a row that follow a day, one is a weekday. *)
LEMMA NextDay ==
  ASSUME NEW d \in Nat \ {0}
  PROVE  NextTradingDay(d) \in d + 1 .. d + 3 /\ IsTradingDay(NextTradingDay(d))
  <1> DEFINE Free(n) == IsTradingDay(n) /\ \A m \in d + 1 .. n - 1 : ~ IsTradingDay(m)
  <1>1. CASE IsTradingDay(d + 1)
    <2>1. Free(d + 1) /\ d + 1 \in d + 1 .. d + 3
      BY <1>1
    <2> QED
      BY <2>1 DEF NextTradingDay
  <1>2. CASE ~ IsTradingDay(d + 1) /\ IsTradingDay(d + 2)
    <2>1. Free(d + 2) /\ d + 2 \in d + 1 .. d + 3
      BY <1>2
    <2> QED
      BY <2>1 DEF NextTradingDay
  <1>3. CASE ~ IsTradingDay(d + 1) /\ ~ IsTradingDay(d + 2)
    <2>1. IsTradingDay(d + 3)
      BY <1>3 DEF IsTradingDay, Weekday
    <2>2. Free(d + 3) /\ d + 3 \in d + 1 .. d + 3
      <3>1. ASSUME NEW m \in d + 1 .. d + 3 - 1 PROVE m = d + 1 \/ m = d + 2
        OBVIOUS
      <3> QED
        BY <1>3, <2>1, <3>1
    <2> QED
      BY <2>2 DEF NextTradingDay
  <1> QED
    BY <1>1, <1>2, <1>3

LEMMA PlanIsPosition ==
  ASSUME KTypes, NEW dir \in Directions, NEW fill \in Int
  PROVE  Plan(dir, fill) \in Positions
  BY KittyAssumption, DayIsPositive DEF Plan, Positions, Directions

LEMMA ManagedIsPosition ==
  ASSUME KTypes, Position # NoPosition, NEW tick \in KittyPrices \cup {NoTick}
  PROVE  /\ Position \in Positions
         /\ Managed(tick) \in Positions
         /\ RetriesNextTick(Managed(tick)) \in Positions
         /\ Managed(tick).dir = Position.dir
         /\ RetriesNextTick(Managed(tick)).dir = Position.dir
  <1>1. Position \in Positions
    BY DEF KTypes, Files, Position
  <1>2. TickPrice(tick) \in Int
    BY <1>1, KittyAssumption DEF TickPrice, Positions
  <1>3. BreakevenStop(Position, TickPrice(tick)) \in Int
    BY <1>1, <1>2 DEF BreakevenStop, Positions
  <1>4. Managed(tick) \in Positions /\ Managed(tick).dir = Position.dir
    BY <1>1, <1>3, DayIsPositive DEF Managed, Positions
  <1> QED
    BY <1>1, <1>4 DEF RetriesNextTick, Positions

LEMMA EarningsAreIntegers ==
  ASSUME NEW pos \in Positions, NEW exit \in Int
  PROVE  RealizedPnl(pos, exit) \in Int
  BY KittyAssumption DEF RealizedPnl, Positions, Directions

LEMMA PnlIsInteger ==
  ASSUME KTypes, kpc \in {"exit_filled", "closed"}
  PROVE  Pnl \in Int
  BY EarningsAreIntegers DEF Pnl, KTypes, PlanFits, Exits

(* The highest of three integers, one of which is natural. *)
LEMMA HighIsNatural ==
  ASSUME NEW a \in Nat, NEW b \in Int, NEW c \in Int
  PROVE  Max({a, b, c}) \in Nat
  <1> DEFINE Top(h) == h \in {a, b, c} /\ \A g \in {a, b, c} : h >= g
  <1>1. \E h : Top(h)
    <2>1. CASE a >= b /\ a >= c
      BY <2>1
    <2>2. CASE b >= a /\ b >= c
      BY <2>2
    <2>3. CASE c >= a /\ c >= b
      BY <2>3
    <2> QED
      BY <2>1, <2>2, <2>3
  <1>2. \A h : Top(h) => h \in Nat
    OBVIOUS
  <1> HIDE DEF Top
  <1>3. (CHOOSE h : Top(h)) \in Nat
    BY <1>1, <1>2
  <1> QED
    BY <1>3 DEF Top, Max

LEMMA TalliedIsFile ==
  ASSUME KTypes, kpc = "closed"
  PROVE  Tallied \in Files
  <1>1. Pnl \in Int
    BY PnlIsInteger
  <1>2. kfile.hwm \in Nat /\ Capital \in Int /\ Capital + (kfile.cumulative + Pnl) \in Int
    BY <1>1, KittyAssumption DEF KTypes, Files
  <1>3. Max({kfile.hwm, Capital, Capital + (kfile.cumulative + Pnl)}) \in Nat
    BY <1>2, HighIsNatural
  <1>4. \A t, c \in Int, h \in Nat :
          [kfile EXCEPT !.pnl_today = t, !.pnl_day = kday, !.cumulative = c, !.hwm = h] \in Files
    BY DayIsPositive DEF KTypes, Files
  <1>5. (IF kfile.pnl_day = kday THEN kfile.pnl_today ELSE 0) + Pnl \in Int
    BY <1>1 DEF KTypes, Files
  <1>6. kfile.cumulative + Pnl \in Int
    BY <1>1 DEF KTypes, Files
  <1> QED
    BY <1>3, <1>4, <1>5, <1>6, Zenon DEF Tallied

-----------------------------------------------------------------------------
(* Memories and histories under what the actions do to them. *)
LEMMA MemoryOfTheDay ==
  ASSUME KTypes
  PROVE  EnsureSession \in Memories /\ EnsureSession.session = kday
  BY DayIsPositive DEF EnsureSession, Fresh, KTypes, Memories

LEMMA PreparedIsMemory ==
  ASSUME NEW m \in Memories, NEW b \in BOOLEAN
  PROVE  /\ Prepared(m, b) \in Memories /\ VixChecked(m, b) \in Memories
         /\ CommitEntry(m, b) \in Memories
         /\ [m EXCEPT !.entered = TRUE] \in Memories
         /\ [m EXCEPT !.prepared = TRUE] \in Memories
  BY DEF Prepared, VixChecked, CommitEntry, Memories

(* The memory a tick without a position decides on. *)
TickMemory(stood, spike) ==
  LET m1 == EnsureSession
      m2 == IF m1.prepared THEN m1 ELSE Prepared(m1, stood)
  IN  IF ReadyToEnter(m2) THEN VixChecked(m2, spike) ELSE m2

LEMMA TickMemoryIsMemory ==
  ASSUME KTypes, NEW stood \in BOOLEAN, NEW spike \in BOOLEAN
  PROVE  TickMemory(stood, spike) \in Memories
  BY MemoryOfTheDay, PreparedIsMemory DEF TickMemory

(* What a tick without a position may do, for some memory. *)
LEMMA TickFlatCases ==
  ASSUME KTypes, TickFlat
  PROVE  /\ Position = NoPosition /\ Ticks /\ UNCHANGED kfile
         /\ \E stood, spike \in BOOLEAN :
              \/ StandDown(TickMemory(stood, spike))
              \/ /\ ReadyToEnter(TickMemory(stood, spike))
                 /\ TickMemory(stood, spike).survivors
                 /\ kclock < NoTradeAfter
                 /\ \E dir \in Directions : PlaceEntry(TickMemory(stood, spike), dir)
  BY DEF TickFlat, TickMemory

LEMMA TypesInitially == KittyInit => KTypes
  <1> SUFFICES ASSUME KittyInit PROVE KTypes
    OBVIOUS
  <1>1. kfile \in Files /\ Position = NoPosition
    BY DEF KittyInit, EmptyState, Files, Position
  <1>2. kmem \in Memories /\ khist \in Histories
    BY DEF KittyInit, Fresh, Memories, Histories
  <1>3. kday \in FirstDay .. LastDay + 2 /\ kclock \in PreOpen .. MarketClose
    BY KittyAssumption DEF KittyInit, PreOpen, MarketClose
  <1>4. PlanFits
    BY <1>1 DEF KittyInit, PlanFits
  <1> QED
    <2>1. kticked \in BOOLEAN /\ picks \in {"missing", "fresh", "stale"}
      BY DEF KittyInit
    <2>2. kshares \in Int /\ kfaults \in Int
      BY DEF KittyInit
    <2> QED
      BY <1>1, <1>2, <1>3, <1>4, <2>1, <2>2 DEF KTypes

LEMMA TypesInductive == KTypes /\ [KittyNext]_kittyVars => KTypes'
  <1> SUFFICES ASSUME KTypes, [KittyNext]_kittyVars PROVE KTypes'
    OBVIOUS
  <1> USE DayIsPositive
  <1>1. CASE TickFlat
    <2>1. PICK stood \in BOOLEAN, spike \in BOOLEAN :
            \/ StandDown(TickMemory(stood, spike))
            \/ \E dir \in Directions : PlaceEntry(TickMemory(stood, spike), dir)
      BY <1>1, TickFlatCases
    <2> DEFINE m == TickMemory(stood, spike)
    <2>2. m \in Memories
      BY TickMemoryIsMemory
    <2> HIDE DEF m
    <2>3. kpc = "idle" /\ kplan = NoPosition /\ Position = NoPosition /\ UNCHANGED kfile
          /\ UNCHANGED <<kday, kclock, picks>> /\ kticked' = TRUE
      BY <1>1, TickFlatCases DEF Ticks, KTypes, PlanFits
    <2>4. CASE StandDown(m)
      <3>1. kmem' \in Memories
        BY <2>2, <2>4, PreparedIsMemory DEF StandDown
      <3> QED
        BY <2>3, <2>4, <3>1 DEF StandDown, KTypes, PlanFits, Position
    <2>5. ASSUME NEW dir \in Directions, PlaceEntry(m, dir) PROVE KTypes'
      <3>1. kmem' \in Memories
        BY <2>2, <2>5, PreparedIsMemory DEF PlaceEntry
      <3>2. khist' \in Histories
        <4>1. khist \in Histories /\ khist.entries + 1 \in Nat
          BY DEF KTypes, Histories
        <4> QED
          BY <2>5, <4>1 DEF PlaceEntry, Histories
      <3>3. kshares' \in Int /\ kfaults' \in Int
        <4>1. kshares \in Int /\ kfaults \in Int /\ dir * KittyQty \in Int
          BY KittyAssumption DEF KTypes, Directions
        <4>2. kshares + dir * KittyQty \in Int /\ kfaults + 1 \in Int
          BY <4>1
        <4> QED
          BY <2>5, <4>1, <4>2
          DEF PlaceEntry, Filled, Unfilled, FilledUnseen, KittyFault
      <3>4. PlanFits'
        <4>1. CASE kpc' = "entry_filled"
          <5>1. EntryPrice \in Int /\ EntryPrice + dir \in Int
            BY KittyAssumption DEF Directions
          <5>2. kplan' \in Positions
            BY <2>3, <2>5, <4>1, <5>1, PlanIsPosition DEF PlaceEntry
          <5> QED
            BY <2>3, <4>1, <5>2 DEF PlanFits, Position
        <4>2. CASE kpc' # "entry_filled"
          <5>1. kpc' = "idle" /\ kplan' = NoPosition
            BY <2>3, <2>5, <4>2 DEF PlaceEntry
          <5> QED
            BY <2>3, <5>1 DEF PlanFits, Position
        <4> QED
          BY <4>1, <4>2
      <3> QED
        BY <2>3, <3>1, <3>2, <3>3, <3>4 DEF KTypes
    <2> QED
      BY <2>1, <2>4, <2>5 DEF m
  <1>2. CASE PrepareRaises
    <2>1. kmem' \in Memories
      BY <1>2, MemoryOfTheDay, PreparedIsMemory DEF PrepareRaises
    <2> QED
      BY <1>2, <2>1 DEF PrepareRaises, KittyFault, Ticks, KTypes, PlanFits, Position
  <1>3. CASE RecordEntry
    <2>1. kfile' \in Files /\ Position' = kplan /\ kplan # NoPosition
      BY <1>3, NoPositionAssumption DEF RecordEntry, KTypes, PlanFits, Files, Position
    <2> QED
      BY <1>3, <2>1 DEF RecordEntry, KTypes, PlanFits
  <1>4. CASE TickHold
    <2>1. PICK tick \in KittyPrices \cup {NoTick} :
            kfile' = [kfile EXCEPT !.position = Managed(tick)]
      BY <1>4 DEF TickHold
    <2>2. kfile' \in Files /\ Position' # NoPosition
      BY <1>4, <2>1, ManagedIsPosition, NoPositionAssumption
      DEF TickHold, KTypes, Files, Position
    <2>3. kmem' \in Memories
      BY <1>4, MemoryOfTheDay DEF TickHold
    <2> QED
      BY <1>4, <2>2, <2>3 DEF TickHold, Ticks, KTypes, PlanFits
  <1>5. CASE TickExits
    <2>1. PICK tick \in KittyPrices \cup {NoTick}, exit \in KittyPrices :
            /\ kfile' = [kfile EXCEPT !.position = Managed(tick)]
            /\ kplan' = [exit |-> exit, pos |-> Position]
            /\ khist' = [khist EXCEPT
                 !.earned = @ + RealizedPnl(Position, exit),
                 !.earned_today = @ + RealizedPnl(Position, exit),
                 !.loss_days = IF RealizedPnl(Position, exit) < 0 THEN @ \cup {kday} ELSE @]
      BY <1>5 DEF TickExits
    <2>2. kfile' \in Files /\ Position' # NoPosition /\ Position \in Positions
      BY <1>5, <2>1, ManagedIsPosition, NoPositionAssumption
      DEF TickExits, KTypes, Files, Position
    <2>3. kmem' \in Memories
      BY <1>5, MemoryOfTheDay DEF TickExits
    <2>4. kplan' \in Exits
      BY <2>1, <2>2, KittyAssumption DEF Exits
    <2>5. khist' \in Histories
      <3>1. RealizedPnl(Position, exit) \in Int
        BY <2>2, EarningsAreIntegers, KittyAssumption
      <3>2. khist \in Histories
        BY DEF KTypes
      <3>3. /\ khist.earned + RealizedPnl(Position, exit) \in Int
            /\ khist.earned_today + RealizedPnl(Position, exit) \in Int
            /\ khist.loss_days \in SUBSET Nat /\ khist.loss_days \cup {kday} \in SUBSET Nat
        BY <3>1, <3>2 DEF Histories
      <3>4. (IF RealizedPnl(Position, exit) < 0 THEN khist.loss_days \cup {kday}
             ELSE khist.loss_days) \in SUBSET Nat
        BY <3>3
      <3> QED
        BY <2>1, <3>2, <3>3, <3>4 DEF Histories
    <2>6. kshares' \in Int /\ kfaults' \in Int
      BY <1>5, <2>2, KittyAssumption DEF TickExits, Filled, KTypes, Positions, Directions
    <2> QED
      BY <1>5, <2>2, <2>3, <2>4, <2>5, <2>6 DEF TickExits, Ticks, KTypes, PlanFits
  <1>6. CASE TickExitFails
    <2>1. PICK tick \in KittyPrices \cup {NoTick} :
            kfile' = [kfile EXCEPT !.position = RetriesNextTick(Managed(tick))]
      BY <1>6 DEF TickExitFails
    <2>2. kfile' \in Files /\ Position' # NoPosition /\ Position \in Positions
      BY <1>6, <2>1, ManagedIsPosition, NoPositionAssumption
      DEF TickExitFails, KTypes, Files, Position
    <2>3. kmem' \in Memories
      BY <1>6, MemoryOfTheDay DEF TickExitFails
    <2>4. khist' \in Histories
      BY <1>6 DEF TickExitFails, KTypes, Histories
    <2>5. kshares' \in Int /\ kfaults' \in Int
      BY <1>6, <2>2, KittyAssumption
      DEF TickExitFails, Unfilled, FilledUnseen, KittyFault, KTypes, Positions, Directions
    <2> QED
      BY <1>6, <2>2, <2>3, <2>4, <2>5 DEF TickExitFails, Ticks, KTypes, PlanFits
  <1>7. CASE ClosePosition
    <2>1. kfile' \in Files /\ Position' = NoPosition
      <3>1. kfile \in Files /\ kfile.streak \in Nat /\ kfile.streak + 1 \in Nat
        BY DEF KTypes, Files
      <3>2. \A n \in Nat : LET f == [kfile EXCEPT !.position = NoPosition, !.streak = n,
                                                  !.last_result = kday]
                           IN  f \in Files /\ f.position = NoPosition
        BY <3>1 DEF Files
      <3>3. (IF kfile.last_result = kday THEN kfile.streak
             ELSE IF Pnl < 0 THEN kfile.streak + 1 ELSE 0) \in Nat
        BY <3>1
      <3> QED
        BY <1>7, <3>2, <3>3 DEF ClosePosition, Closed, Position
    <2> QED
      BY <1>7, <2>1 DEF ClosePosition, KTypes, PlanFits
  <1>8. CASE RecordRealizedPnl
    <2>1. kfile' \in Files /\ Position' = Position
      BY <1>8, TalliedIsFile DEF RecordRealizedPnl, Tallied, Position, KTypes, Files
    <2>2. khist' \in Histories
      <3>1. khist \in Histories /\ khist.breached \in Nat
        BY DEF KTypes, Histories
      <3> QED
        BY <1>8, <3>1, DayIsPositive DEF RecordRealizedPnl, Histories
    <2> QED
      BY <1>8, <2>1, <2>2 DEF RecordRealizedPnl, KTypes, PlanFits
  <1>9. CASE MaybeHalt
    <2>1. kday + 1 \in Nat /\ ResumeDate(kday) \in Nat
      BY DEF ResumeDate, Weekday
    <2>2. kfile' \in Files /\ Position' = Position
      BY <1>9, <2>1 DEF MaybeHalt, Halted, Position, KTypes, Files
    <2> QED
      BY <1>9, <2>2 DEF MaybeHalt, KTypes, PlanFits
  <1>10. CASE Screen
    BY <1>10 DEF Screen, KTypes, PlanFits, Position
  <1>11. CASE ClockMoves
    <2>1. kclock' \in PreOpen .. MarketClose
      BY <1>11 DEF ClockMoves, KTypes, PreOpen, MarketClose
    <2> QED
      BY <1>11, <2>1 DEF ClockMoves, KTypes, PlanFits, Position
  <1>12. CASE NextKittySession
    <2>1. kday' \in FirstDay .. LastDay + 2
      BY <1>12, NextDay, KittyAssumption DEF NextKittySession, KTypes
    <2>2. khist' \in Histories
      <3>1. khist \in Histories /\ 0 \in Nat /\ 0 \in Int
        BY DEF KTypes
      <3>2. \A n \in Nat, e \in Int :
              [khist EXCEPT !.entries = n, !.restarts = n, !.earned_today = e,
                            !.exit_failed = FALSE] \in Histories
        BY <3>1 DEF Histories
      <3> QED
        BY <1>12, <3>1, <3>2 DEF NextKittySession
    <2>3. kclock' \in PreOpen .. MarketClose
      BY <1>12 DEF NextKittySession, PreOpen, MarketClose
    <2>4. picks' \in {"missing", "fresh", "stale"}
      BY <1>12 DEF NextKittySession, KTypes
    <2> QED
      BY <1>12, <2>1, <2>2, <2>3, <2>4 DEF NextKittySession, KTypes, PlanFits, Position
  <1>13. CASE KittyRestart
    <2>1. kmem' \in Memories
      BY <1>13 DEF KittyRestart, Fresh, Memories
    <2>2. khist' \in Histories
      <3>1. khist \in Histories /\ khist.restarts + 1 \in Nat
        BY DEF KTypes, Histories
      <3>2. /\ (khist.stray \/ kpc \in {"entry_filled", "exit_filled"}) \in BOOLEAN
            /\ (khist.lost \/ kpc \in {"exit_filled", "closed", "booked"}) \in BOOLEAN
        OBVIOUS
      <3> QED
        BY <1>13, <3>1, <3>2 DEF KittyRestart, Histories
    <2>3. kfaults' \in Int
      BY <1>13 DEF KittyRestart, KittyFault, KTypes
    <2> QED
      BY <1>13, <2>1, <2>2, <2>3 DEF KittyRestart, KTypes, PlanFits, Position
  <1>14. CASE UNCHANGED kittyVars
    BY <1>14 DEF kittyVars, KTypes, PlanFits, Position
  <1> QED
    BY <1>1, <1>2, <1>3, <1>4, <1>5, <1>6, <1>7, <1>8, <1>9, <1>10, <1>11, <1>12, <1>13,
       <1>14
    DEF KittyNext, KittyTick

-----------------------------------------------------------------------------
(* The strengthenings, one for each property. *)

\* One entry for each life: while today's is not committed, it has not been sent.
LifePart ==
  /\ kmem.session <= kday
  /\ khist.entries <= 1 + khist.restarts
  /\ ~ (kmem.session = kday /\ kmem.entered) => khist.entries <= khist.restarts

\* A memory that may still enter today was prepared while no halt stood, and no
\* position was closed since.
HaltPart ==
  /\ ~ kmem.prepared => ~ kmem.survivors
  /\ kmem.session = kday /\ kmem.prepared /\ ~ kmem.entered =>
       /\ Position = NoPosition /\ kpc = "idle"
       /\ ~ kmem.skip /\ kmem.survivors =>
            ~ HaltActive(kfile.halt_until, kday) /\ ~ kfile.drawdown_halted

LEMMA TickMemoryFacts ==
  ASSUME KTypes, LifePart, HaltPart, NEW stood \in BOOLEAN, NEW spike \in BOOLEAN
  PROVE  LET m == TickMemory(stood, spike)
         IN  /\ m.session = kday /\ m.prepared
             /\ m.entered <=> kmem.session = kday /\ kmem.entered
             /\ ~ m.entered /\ ~ m.skip /\ m.survivors =>
                  ~ HaltActive(kfile.halt_until, kday) /\ ~ kfile.drawdown_halted
  <1> DEFINE m1 == EnsureSession
             m2 == IF m1.prepared THEN m1 ELSE Prepared(m1, stood)
             m3 == IF ReadyToEnter(m2) THEN VixChecked(m2, spike) ELSE m2
  <1>1. /\ m1 \in Memories /\ m1.session = kday
        /\ m1.entered <=> kmem.session = kday /\ kmem.entered
        /\ m1.prepared => m1 = kmem /\ kmem.session = kday
    BY MemoryOfTheDay DEF EnsureSession, Fresh
  <1> HIDE DEF m1
  <1>2. /\ m2 \in Memories /\ m2.session = kday /\ m2.prepared
        /\ m2.entered <=> m1.entered
        /\ ~ m2.entered /\ ~ m2.skip /\ m2.survivors =>
             ~ HaltActive(kfile.halt_until, kday) /\ ~ kfile.drawdown_halted
    <2>1. CASE m1.prepared
      BY <1>1, <2>1 DEF HaltPart
    <2>2. CASE ~ m1.prepared
      BY <1>1, <2>2, PreparedIsMemory DEF Prepared, Blocked, Memories
    <2> QED
      BY <2>1, <2>2
  <1> HIDE DEF m2
  <1>3. /\ m3.session = kday /\ m3.prepared
        /\ m3.entered <=> m2.entered
        /\ m3.survivors <=> m2.survivors
        /\ m2.skip => m3.skip
    BY <1>2 DEF VixChecked, Memories
  <1>4. m3 = TickMemory(stood, spike)
    BY DEF TickMemory, m1, m2
  <1> HIDE DEF m3
  <1> QED
    BY <1>1, <1>2, <1>3, <1>4

\* Every result reaches the tallies; Due is what is still on its way to them.
Due == IF kpc \in {"exit_filled", "closed"} THEN Pnl ELSE 0
Today == IF kfile.pnl_day = kday THEN kfile.pnl_today ELSE 0
TallyPart ==
  /\ kfile.pnl_day <= kday
  /\ ~ khist.lost => /\ khist.earned = kfile.cumulative + Due
                     /\ khist.earned_today = Today + Due

\* Whatever changed the equity, the breaker has looked at it, but for the step
\* between the tally and the look.
DrawPart ==
  kpc # "booked" /\ ~ khist.lost /\ KittyLive /\ DrawdownBreaker(kfile.hwm, Equity)
    => kfile.drawdown_halted

\* The last tick of a day leaves no position behind, and the clock waits for it.
FlatPart ==
  /\ FlatAtClose
  /\ kpc # "idle" => InSession
  /\ kpc = "entry_filled" => kclock < NoTradeAfter
  /\ kclock = HardExit /\ kticked /\ kpc = "idle" /\ ~ khist.exit_failed
       => Position = NoPosition
  /\ Position # NoPosition => IsTradingDay(kday)

\* While today has no result yet, the streak counts days before today.
StreakPart ==
  /\ IsFiniteSet(khist.loss_days) /\ khist.loss_days \subseteq 1 .. kday
  /\ kfile.last_result <= kday
  /\ StreakCountsDays
  /\ kfile.last_result # kday => kfile.streak <= Cardinality(khist.loss_days \ {kday})
  /\ kpc = "exit_filled" /\ Pnl < 0 => kday \in khist.loss_days

KittyInv == /\ KTypes
            /\ VenueMatchesRecord
            /\ LifePart
            /\ HaltPart
            /\ TallyPart
            /\ DrawPart
            /\ FlatPart
            /\ StreakPart

LEMMA InvInitially == KittyInit => KittyInv
  <1> SUFFICES ASSUME KittyInit PROVE KittyInv
    OBVIOUS
  <1> USE KittyAssumption
  <1>1. KTypes
    BY TypesInitially
  <1>2. VenueMatchesRecord
    BY DEF KittyInit, EmptyState, VenueMatchesRecord, Position
  <1>3. LifePart /\ HaltPart
    BY DEF KittyInit, Fresh, LifePart, HaltPart
  <1>4. TallyPart
    BY DEF KittyInit, EmptyState, TallyPart, Due, Today
  <1>5. DrawPart
    BY DEF KittyInit, EmptyState, DrawPart, DrawdownBreaker
  <1>6. FlatPart
    BY DEF KittyInit, EmptyState, FlatPart, FlatAtClose, Position, HardExit, MarketClose,
           PreOpen
  <1>7. StreakPart
    BY FS_EmptySet DEF KittyInit, EmptyState, StreakPart, StreakCountsDays
  <1> QED
    BY <1>1, <1>2, <1>3, <1>4, <1>5, <1>6, <1>7 DEF KittyInv

-----------------------------------------------------------------------------
(* Every share at the venue is in the record, or in the plan about to be. *)
LEMMA VenueStep ==
  ASSUME KTypes, KTypes', VenueMatchesRecord, [KittyNext]_kittyVars
  PROVE  VenueMatchesRecord'
  <1>1. CASE TickFlat
    <2>1. PICK stood \in BOOLEAN, spike \in BOOLEAN :
            \/ StandDown(TickMemory(stood, spike))
            \/ /\ ReadyToEnter(TickMemory(stood, spike))
               /\ TickMemory(stood, spike).survivors
               /\ kclock < NoTradeAfter
               /\ \E dir \in Directions : PlaceEntry(TickMemory(stood, spike), dir)
      BY <1>1, TickFlatCases
    <2> DEFINE m == TickMemory(stood, spike)
    <2> HIDE DEF m
    <2>2. /\ kpc = "idle" /\ kplan = NoPosition /\ Position = NoPosition /\ UNCHANGED kfile
          /\ InSession /\ UNCHANGED <<kday, kclock, picks>> /\ kticked' = TRUE
      BY <1>1, TickFlatCases DEF Ticks, KTypes, PlanFits
    <2>4. CASE StandDown(m)
      BY <2>2, <2>4 DEF StandDown, VenueMatchesRecord, Position
    <2>5. ASSUME NEW dir \in Directions, PlaceEntry(m, dir) PROVE VenueMatchesRecord'
      <3>1. \A fill \in Int : Plan(dir, fill).dir = dir
        BY DEF Plan
      <3>2. EntryPrice \in Int /\ EntryPrice + dir \in Int
        BY KittyAssumption DEF Directions
      <3>3. ~ khist.stray => kshares = 0
        BY <2>2 DEF VenueMatchesRecord
      <3>4. dir * KittyQty \in Int /\ khist \in Histories
        BY KittyAssumption DEF Directions, KTypes
      <3>5. CASE kpc' = "entry_filled"
        <4>1. kshares' = kshares + dir * KittyQty /\ kplan'.dir = dir /\ khist'.stray = khist.stray
          BY <2>2, <2>5, <3>1, <3>2, <3>4, <3>5 DEF PlaceEntry, Filled, Histories
        <4> QED
          BY <3>3, <3>4, <3>5, <4>1 DEF VenueMatchesRecord
      <3>6. CASE kpc' # "entry_filled"
        <4>1. kpc' = "idle" /\ Position' = NoPosition
          BY <2>2, <2>5, <3>6 DEF PlaceEntry, Position
        <4>2. khist'.stray \/ (khist'.stray = khist.stray /\ kshares' = kshares)
          BY <2>2, <2>5, <3>4, <3>6 DEF PlaceEntry, Unfilled, FilledUnseen, Histories
        <4> QED
          BY <3>3, <4>1, <4>2 DEF VenueMatchesRecord
      <3> QED
        BY <3>5, <3>6
    <2> QED
      BY <2>1, <2>4, <2>5 DEF m
  <1>2. CASE PrepareRaises
    BY <1>2 DEF PrepareRaises, Ticks, VenueMatchesRecord, Position
  <1>3. CASE RecordEntry
    <2>1. Position' = kplan /\ kplan # NoPosition /\ kpc' = "idle"
      BY <1>3, NoPositionAssumption DEF RecordEntry, Position, KTypes, Files, PlanFits
    <2> QED
      BY <1>3, <2>1 DEF RecordEntry, VenueMatchesRecord
  <1>4. CASE TickHold
    <2>1. Position # NoPosition /\ Position'.dir = Position.dir /\ Position' # NoPosition
      BY <1>4, ManagedIsPosition, NoPositionAssumption DEF TickHold, Position, KTypes, Files
    <2> QED
      BY <1>4, <2>1 DEF TickHold, Ticks, VenueMatchesRecord
  <1>5. CASE TickExits
    <2>1. Position # NoPosition /\ Position \in Positions /\ kpc = "idle"
          /\ kshares' = kshares + (-Position.dir * KittyQty) /\ kpc' = "exit_filled"
      BY <1>5 DEF TickExits, Ticks, Filled, Position, KTypes, Files
    <2>2. Position.dir * KittyQty \in Int
      BY <2>1, KittyAssumption DEF Positions, Directions
    <2>3. khist'.stray = khist.stray
      BY <1>5 DEF TickExits, KTypes, Histories
    <2>4. ~ khist.stray => kshares = Position.dir * KittyQty
      BY <2>1 DEF VenueMatchesRecord
    <2>5. -Position.dir * KittyQty = -(Position.dir * KittyQty)
      BY <2>1, KittyAssumption DEF Positions, Directions
    <2> QED
      BY <2>1, <2>2, <2>3, <2>4, <2>5 DEF VenueMatchesRecord
  <1>6. CASE TickExitFails
    <2>1. Position # NoPosition /\ Position'.dir = Position.dir /\ Position' # NoPosition
      BY <1>6, ManagedIsPosition, NoPositionAssumption
      DEF TickExitFails, Position, KTypes, Files
    <2>2. kpc = "idle" /\ kpc' = "idle" /\ khist \in Histories
      BY <1>6 DEF TickExitFails, Ticks, KTypes
    <2>3. khist'.stray \/ (khist'.stray = khist.stray /\ kshares' = kshares)
      BY <1>6, <2>2 DEF TickExitFails, Unfilled, FilledUnseen, Histories
    <2> QED
      BY <2>1, <2>2, <2>3 DEF VenueMatchesRecord
  <1>7. CASE ClosePosition
    <2>1. Position' = NoPosition
      BY <1>7 DEF ClosePosition, Closed, Position, KTypes, Files
    <2> QED
      BY <1>7, <2>1 DEF ClosePosition, VenueMatchesRecord
  <1>8. CASE RecordRealizedPnl
    <2>1. Position' = NoPosition /\ khist'.stray = khist.stray
      <3>1. Tallied.position = kfile.position
        BY DEF Tallied, KTypes, Files
      <3>2. khist'.stray = khist.stray
        BY <1>8 DEF RecordRealizedPnl, KTypes, Histories
      <3> QED
        BY <1>8, <3>1, <3>2 DEF RecordRealizedPnl, Position, KTypes, PlanFits
    <2> QED
      BY <1>8, <2>1 DEF RecordRealizedPnl, VenueMatchesRecord, KTypes, PlanFits
  <1>9. CASE MaybeHalt
    <2>1. Position' = NoPosition
      <3>1. Halted.position = kfile.position
        BY DEF Halted, KTypes, Files
      <3> QED
        BY <1>9, <3>1 DEF MaybeHalt, Position, KTypes, PlanFits
    <2> QED
      BY <1>9, <2>1 DEF MaybeHalt, VenueMatchesRecord, KTypes, PlanFits
  <1>10. CASE Screen
    BY <1>10 DEF Screen, VenueMatchesRecord, Position
  <1>11. CASE ClockMoves
    BY <1>11 DEF ClockMoves, VenueMatchesRecord, Position
  <1>12. CASE NextKittySession
    <2>1. khist'.stray = khist.stray
      BY <1>12 DEF NextKittySession, KTypes, Histories
    <2> QED
      BY <1>12, <2>1 DEF NextKittySession, VenueMatchesRecord, Position
  <1>13. CASE KittyRestart
    <2>1. khist'.stray = (khist.stray \/ kpc \in {"entry_filled", "exit_filled"})
      BY <1>13 DEF KittyRestart, KTypes, Histories
    <2> QED
      BY <1>13, <2>1 DEF KittyRestart, VenueMatchesRecord, Position, KTypes, PlanFits
  <1>14. CASE UNCHANGED kittyVars
    BY <1>14 DEF kittyVars, VenueMatchesRecord, Position
  <1> QED
    BY <1>1, <1>2, <1>3, <1>4, <1>5, <1>6, <1>7, <1>8, <1>9, <1>10, <1>11, <1>12, <1>13,
       <1>14
    DEF KittyNext, KittyTick

(* An entry is committed to memory before anything else may happen. *)
LEMMA LifeStep ==
  ASSUME KTypes, KTypes', LifePart, HaltPart, [KittyNext]_kittyVars
  PROVE  LifePart'
  <1>1. CASE TickFlat
    <2>1. PICK stood \in BOOLEAN, spike \in BOOLEAN :
            \/ StandDown(TickMemory(stood, spike))
            \/ /\ ReadyToEnter(TickMemory(stood, spike))
               /\ TickMemory(stood, spike).survivors
               /\ kclock < NoTradeAfter
               /\ \E dir \in Directions : PlaceEntry(TickMemory(stood, spike), dir)
      BY <1>1, TickFlatCases
    <2> DEFINE m == TickMemory(stood, spike)
    <2> HIDE DEF m
    <2>2. /\ kpc = "idle" /\ kplan = NoPosition /\ Position = NoPosition /\ UNCHANGED kfile
          /\ InSession /\ UNCHANGED <<kday, kclock, picks>> /\ kticked' = TRUE
      BY <1>1, TickFlatCases DEF Ticks, KTypes, PlanFits
    <2>3. /\ m \in Memories /\ m.session = kday /\ m.prepared
          /\ m.entered <=> kmem.session = kday /\ kmem.entered
          /\ ~ m.entered /\ ~ m.skip /\ m.survivors =>
               ~ HaltActive(kfile.halt_until, kday) /\ ~ kfile.drawdown_halted
      BY TickMemoryFacts, TickMemoryIsMemory DEF m
    <2>4. CASE StandDown(m)
      <3>1. kmem'.session = kday /\ (~ kmem'.entered => ~ m.entered)
        BY <2>3, <2>4 DEF StandDown, Memories
      <3>2. khist' = khist
        BY <2>4 DEF StandDown
      <3> QED
        BY <2>2, <2>3, <3>1, <3>2, DayIsPositive DEF LifePart
    <2>5. ASSUME NEW dir \in Directions, PlaceEntry(m, dir), ~ m.entered PROVE LifePart'
      <3>1. kmem'.session = kday /\ kmem'.entered
        BY <2>3, <2>5 DEF PlaceEntry, CommitEntry, Memories
      <3>2. khist \in Histories
        BY DEF KTypes
      <3>3. khist.entries <= khist.restarts
        BY <2>3, <2>5 DEF LifePart
      <3>4. khist'.restarts = khist.restarts /\ khist'.entries \in {khist.entries, khist.entries + 1}
        BY <2>5, <3>2 DEF PlaceEntry, Histories
      <3> QED
        BY <2>2, <3>1, <3>2, <3>3, <3>4, DayIsPositive DEF LifePart, Histories
    <2> QED
      BY <2>1, <2>4, <2>5 DEF m, ReadyToEnter
  <1>2. CASE PrepareRaises
    <2>1. kmem'.session = kday /\ kmem'.entered = EnsureSession.entered
      BY <1>2, MemoryOfTheDay DEF PrepareRaises, Memories
    <2> QED
      BY <1>2, <2>1, DayIsPositive DEF PrepareRaises, Ticks, LifePart, EnsureSession, Fresh
  <1>3. CASE RecordEntry
    BY <1>3 DEF RecordEntry, LifePart
  <1>4. CASE TickHold
    <2>1. kmem' = EnsureSession /\ kday' = kday /\ khist' = khist
      BY <1>4 DEF TickHold, Ticks
    <2> QED
      BY <2>1, MemoryOfTheDay, DayIsPositive DEF LifePart, EnsureSession, Fresh
  <1>5. CASE TickExits
    <2>1. kmem' = EnsureSession /\ kday' = kday
      BY <1>5 DEF TickExits, Ticks
    <2>2. khist'.entries = khist.entries /\ khist'.restarts = khist.restarts
      BY <1>5 DEF TickExits, KTypes, Histories
    <2> QED
      BY <2>1, <2>2, MemoryOfTheDay, DayIsPositive DEF LifePart, EnsureSession, Fresh
  <1>6. CASE TickExitFails
    <2>1. kmem' = EnsureSession /\ kday' = kday
      BY <1>6 DEF TickExitFails, Ticks
    <2>2. khist'.entries = khist.entries /\ khist'.restarts = khist.restarts
      BY <1>6 DEF TickExitFails, KTypes, Histories
    <2> QED
      BY <2>1, <2>2, MemoryOfTheDay, DayIsPositive DEF LifePart, EnsureSession, Fresh
  <1>7. CASE ClosePosition
    BY <1>7 DEF ClosePosition, LifePart
  <1>8. CASE RecordRealizedPnl
    <2>1. khist'.entries = khist.entries /\ khist'.restarts = khist.restarts
      BY <1>8 DEF RecordRealizedPnl, KTypes, Histories
    <2> QED
      BY <1>8, <2>1 DEF RecordRealizedPnl, LifePart
  <1>9. CASE MaybeHalt
    BY <1>9 DEF MaybeHalt, LifePart
  <1>10. CASE Screen
    BY <1>10 DEF Screen, LifePart
  <1>11. CASE ClockMoves
    BY <1>11 DEF ClockMoves, LifePart
  <1>12. CASE NextKittySession
    <2>1. khist'.entries = 0 /\ khist'.restarts = 0
      BY <1>12 DEF NextKittySession, KTypes, Histories
    <2>2. kday < kday' /\ kday \in Int /\ kday' \in Int /\ kmem.session \in Int
      BY <1>12, NextDay, DayIsPositive DEF NextKittySession, KTypes, Memories
    <2> QED
      BY <1>12, <2>1, <2>2 DEF NextKittySession, LifePart
  <1>13. CASE KittyRestart
    <2>1. khist.restarts \in Nat /\ khist.entries \in Nat
      BY DEF KTypes, Histories
    <2>2. khist'.entries = khist.entries /\ khist'.restarts = khist.restarts + 1
      BY <1>13, <2>1 DEF KittyRestart, KTypes, Histories
    <2>3. kmem'.session = 0 /\ kday' = kday
      BY <1>13 DEF KittyRestart, Fresh
    <2> QED
      BY <2>1, <2>2, <2>3, DayIsPositive DEF LifePart
  <1>14. CASE UNCHANGED kittyVars
    BY <1>14 DEF kittyVars, LifePart
  <1> QED
    BY <1>1, <1>2, <1>3, <1>4, <1>5, <1>6, <1>7, <1>8, <1>9, <1>10, <1>11, <1>12, <1>13,
       <1>14
    DEF KittyNext, KittyTick

(* A halt is set only after an exit, and the memory of that day has entered. *)
LEMMA HaltStep ==
  ASSUME KTypes, KTypes', LifePart, HaltPart, [KittyNext]_kittyVars
  PROVE  HaltPart'
  <1>1. CASE TickFlat
    <2>1. PICK stood \in BOOLEAN, spike \in BOOLEAN :
            \/ StandDown(TickMemory(stood, spike))
            \/ /\ ReadyToEnter(TickMemory(stood, spike))
               /\ TickMemory(stood, spike).survivors
               /\ kclock < NoTradeAfter
               /\ \E dir \in Directions : PlaceEntry(TickMemory(stood, spike), dir)
      BY <1>1, TickFlatCases
    <2> DEFINE m == TickMemory(stood, spike)
    <2> HIDE DEF m
    <2>2. /\ kpc = "idle" /\ kplan = NoPosition /\ Position = NoPosition /\ UNCHANGED kfile
          /\ InSession /\ UNCHANGED <<kday, kclock, picks>> /\ kticked' = TRUE
      BY <1>1, TickFlatCases DEF Ticks, KTypes, PlanFits
    <2>3. /\ m \in Memories /\ m.session = kday /\ m.prepared
          /\ m.entered <=> kmem.session = kday /\ kmem.entered
          /\ ~ m.entered /\ ~ m.skip /\ m.survivors =>
               ~ HaltActive(kfile.halt_until, kday) /\ ~ kfile.drawdown_halted
      BY TickMemoryFacts, TickMemoryIsMemory DEF m
    <2>4. CASE StandDown(m)
      <3>1. /\ kmem'.session = kday /\ kmem'.prepared
            /\ kmem'.entered \/ kmem' = m
        BY <2>3, <2>4 DEF StandDown, Memories
      <3> QED
        BY <2>2, <2>3, <2>4, <3>1 DEF StandDown, HaltPart, Position
    <2>5. ASSUME NEW dir \in Directions, PlaceEntry(m, dir) PROVE HaltPart'
      <3>1. kmem'.prepared /\ kmem'.entered
        BY <2>3, <2>5 DEF PlaceEntry, CommitEntry, Memories
      <3> QED
        BY <3>1 DEF HaltPart
    <2> QED
      BY <2>1, <2>4, <2>5 DEF m
  <1>2. CASE PrepareRaises
    <2>1. ~ EnsureSession.survivors
      BY <1>2 DEF PrepareRaises, HaltPart, EnsureSession, Fresh
    <2>2. kmem'.prepared /\ kmem'.survivors = EnsureSession.survivors
      BY <1>2, MemoryOfTheDay DEF PrepareRaises, Memories
    <2> QED
      BY <1>2, <2>1, <2>2 DEF PrepareRaises, Ticks, HaltPart, Position
  <1>3. CASE RecordEntry
    BY <1>3 DEF RecordEntry, HaltPart
  <1>4. CASE TickHold
    <2>1. kmem' = EnsureSession /\ kday' = kday /\ Position # NoPosition
      BY <1>4 DEF TickHold, Ticks
    <2> QED
      BY <2>1 DEF HaltPart, EnsureSession, Fresh
  <1>5. CASE TickExits
    <2>1. kmem' = EnsureSession /\ kday' = kday /\ Position # NoPosition
      BY <1>5 DEF TickExits, Ticks
    <2> QED
      BY <2>1 DEF HaltPart, EnsureSession, Fresh
  <1>6. CASE TickExitFails
    <2>1. kmem' = EnsureSession /\ kday' = kday /\ Position # NoPosition
      BY <1>6 DEF TickExitFails, Ticks
    <2> QED
      BY <2>1 DEF HaltPart, EnsureSession, Fresh
  <1>7. CASE ClosePosition
    BY <1>7 DEF ClosePosition, HaltPart
  <1>8. CASE RecordRealizedPnl
    BY <1>8 DEF RecordRealizedPnl, HaltPart
  <1>9. CASE MaybeHalt
    BY <1>9 DEF MaybeHalt, HaltPart
  <1>10. CASE Screen
    BY <1>10 DEF Screen, HaltPart, Position
  <1>11. CASE ClockMoves
    BY <1>11 DEF ClockMoves, HaltPart, Position
  <1>12. CASE NextKittySession
    <2>1. kday < kday' /\ kday \in Int /\ kday' \in Int /\ kmem.session \in Int
      BY <1>12, NextDay, DayIsPositive DEF NextKittySession, KTypes, Memories
    <2> QED
      BY <1>12, <2>1 DEF NextKittySession, HaltPart, LifePart
  <1>13. CASE KittyRestart
    BY <1>13, DayIsPositive DEF KittyRestart, Fresh, HaltPart
  <1>14. CASE UNCHANGED kittyVars
    BY <1>14 DEF kittyVars, HaltPart, Position
  <1> QED
    BY <1>1, <1>2, <1>3, <1>4, <1>5, <1>6, <1>7, <1>8, <1>9, <1>10, <1>11, <1>12, <1>13,
       <1>14
    DEF KittyNext, KittyTick

-----------------------------------------------------------------------------
(* What a tick without a position leaves alone. *)
LEMMA TickFlatFrame ==
  ASSUME KTypes, TickFlat
  PROVE  /\ kpc = "idle" /\ Position = NoPosition /\ InSession
         /\ UNCHANGED <<kday, kclock, kfile>> /\ kticked' = TRUE
         /\ kpc' \in {"idle", "entry_filled"}
         /\ kpc' = "entry_filled" => kclock < NoTradeAfter
         /\ khist'.earned = khist.earned /\ khist'.earned_today = khist.earned_today
         /\ khist'.lost = khist.lost /\ khist'.loss_days = khist.loss_days
         /\ khist'.exit_failed = khist.exit_failed
  <1>1. PICK stood \in BOOLEAN, spike \in BOOLEAN :
          \/ StandDown(TickMemory(stood, spike))
          \/ /\ kclock < NoTradeAfter
             /\ \E dir \in Directions : PlaceEntry(TickMemory(stood, spike), dir)
    BY TickFlatCases
  <1> DEFINE m == TickMemory(stood, spike)
  <1> HIDE DEF m
  <1>2. /\ kpc = "idle" /\ kplan = NoPosition /\ Position = NoPosition /\ UNCHANGED kfile
        /\ InSession /\ UNCHANGED <<kday, kclock, picks>> /\ kticked' = TRUE
    BY TickFlatCases DEF Ticks, KTypes, PlanFits
  <1>3. khist \in Histories
    BY DEF KTypes
  <1>4. /\ kpc' \in {"idle", "entry_filled"}
        /\ kpc' = "entry_filled" => kclock < NoTradeAfter
        /\ khist'.earned = khist.earned /\ khist'.earned_today = khist.earned_today
        /\ khist'.lost = khist.lost /\ khist'.loss_days = khist.loss_days
        /\ khist'.exit_failed = khist.exit_failed
    <2>1. CASE StandDown(m)
      BY <1>2, <2>1 DEF StandDown
    <2>2. ASSUME NEW dir \in Directions, PlaceEntry(m, dir), kclock < NoTradeAfter
          PROVE  /\ kpc' \in {"idle", "entry_filled"}
                 /\ kclock < NoTradeAfter
                 /\ khist'.earned = khist.earned
                 /\ khist'.earned_today = khist.earned_today
                 /\ khist'.lost = khist.lost /\ khist'.loss_days = khist.loss_days
                 /\ khist'.exit_failed = khist.exit_failed
      BY <1>2, <1>3, <2>2 DEF PlaceEntry, Histories
    <2> QED
      BY <1>1, <2>1, <2>2 DEF m
  <1> QED
    BY <1>2, <1>4

(* What an action leaves alone that writes no more of the file than the position. *)
LEMMA PositionFrame ==
  ASSUME KTypes, RecordEntry \/ TickHold \/ TickExits \/ TickExitFails
  PROVE  /\ UNCHANGED <<kday, kclock>>
         /\ kfile'.streak = kfile.streak /\ kfile'.last_result = kfile.last_result
         /\ kfile'.pnl_today = kfile.pnl_today /\ kfile'.pnl_day = kfile.pnl_day
         /\ kfile'.cumulative = kfile.cumulative /\ kfile'.hwm = kfile.hwm
         /\ kfile'.drawdown_halted = kfile.drawdown_halted
  <1>1. UNCHANGED <<kday, kclock>> /\ \E pos : kfile' = [kfile EXCEPT !.position = pos]
    BY DEF RecordEntry, TickHold, TickExits, TickExitFails, Ticks
  <1> QED
    BY <1>1 DEF KTypes, Files

(* What a tick with a position starts from. *)
LEMMA TickHeldFrame ==
  ASSUME KTypes, TickHold \/ TickExits \/ TickExitFails
  PROVE  /\ kpc = "idle" /\ Position # NoPosition /\ Position \in Positions
         /\ InSession /\ kticked' = TRUE
         /\ \E tick \in KittyPrices \cup {NoTick} : Reason(tick) # "hold" \/ TickHold
  BY DEF TickHold, TickExits, TickExitFails, Ticks, KTypes, Files, Position

(* What closing, tallying and halting leave alone. *)
LEMMA BookingFrame ==
  ASSUME KTypes, ClosePosition \/ RecordRealizedPnl \/ MaybeHalt
  PROVE  /\ UNCHANGED <<kday, kclock, kticked>> /\ Position' = NoPosition
         /\ khist'.earned = khist.earned /\ khist'.earned_today = khist.earned_today
         /\ khist'.lost = khist.lost /\ khist'.loss_days = khist.loss_days
         /\ khist'.exit_failed = khist.exit_failed
         /\ ~ ClosePosition => /\ kfile'.streak = kfile.streak
                               /\ kfile'.last_result = kfile.last_result
         /\ ~ RecordRealizedPnl => /\ kfile'.pnl_today = kfile.pnl_today
                                   /\ kfile'.pnl_day = kfile.pnl_day
                                   /\ kfile'.cumulative = kfile.cumulative
                                   /\ kfile'.hwm = kfile.hwm
  <1>1. UNCHANGED <<kday, kclock, kticked>>
    BY DEF ClosePosition, RecordRealizedPnl, MaybeHalt
  <1>2. /\ khist'.earned = khist.earned /\ khist'.earned_today = khist.earned_today
        /\ khist'.lost = khist.lost /\ khist'.loss_days = khist.loss_days
        /\ khist'.exit_failed = khist.exit_failed
    BY DEF ClosePosition, RecordRealizedPnl, MaybeHalt, KTypes, Histories
  <1>3. CASE ClosePosition
    <2>1. /\ Closed(Pnl < 0).position = NoPosition
          /\ Closed(Pnl < 0).pnl_today = kfile.pnl_today
          /\ Closed(Pnl < 0).pnl_day = kfile.pnl_day
          /\ Closed(Pnl < 0).cumulative = kfile.cumulative
          /\ Closed(Pnl < 0).hwm = kfile.hwm
      BY DEF Closed, KTypes, Files
    <2> QED
      BY <1>1, <1>2, <1>3, <2>1 DEF ClosePosition, RecordRealizedPnl, Position
  <1>4. CASE RecordRealizedPnl
    <2>1. /\ Tallied.position = kfile.position /\ Tallied.streak = kfile.streak
          /\ Tallied.last_result = kfile.last_result
      BY DEF Tallied, KTypes, Files
    <2> QED
      BY <1>1, <1>2, <1>4, <2>1 DEF RecordRealizedPnl, Position, KTypes, PlanFits
  <1>5. CASE MaybeHalt
    <2>1. /\ Halted.position = kfile.position /\ Halted.streak = kfile.streak
          /\ Halted.last_result = kfile.last_result
          /\ Halted.pnl_today = kfile.pnl_today /\ Halted.pnl_day = kfile.pnl_day
          /\ Halted.cumulative = kfile.cumulative /\ Halted.hwm = kfile.hwm
      BY DEF Halted, KTypes, Files
    <2> QED
      BY <1>1, <1>2, <1>5, <2>1 DEF MaybeHalt, Position, KTypes, PlanFits
  <1> QED
    BY <1>3, <1>4, <1>5

(* What a new day and a restart do to the history. *)
LEMMA HistoryFrame ==
  ASSUME KTypes
  PROVE  /\ NextKittySession =>
              /\ khist'.earned = khist.earned /\ khist'.earned_today = 0
              /\ khist'.lost = khist.lost /\ khist'.loss_days = khist.loss_days
              /\ khist'.exit_failed = FALSE
         /\ KittyRestart =>
              /\ khist'.earned = khist.earned /\ khist'.earned_today = khist.earned_today
              /\ khist'.lost = (khist.lost \/ kpc \in {"exit_filled", "closed", "booked"})
              /\ khist'.loss_days = khist.loss_days
              /\ khist'.exit_failed = khist.exit_failed
         /\ TickExitFails =>
              /\ khist'.earned = khist.earned /\ khist'.earned_today = khist.earned_today
              /\ khist'.lost = khist.lost /\ khist'.loss_days = khist.loss_days
              /\ khist'.exit_failed
         /\ TickExits => khist'.lost = khist.lost /\ khist'.exit_failed = khist.exit_failed
  <1>1. khist \in Histories
    BY DEF KTypes
  <1> QED
    BY <1>1 DEF NextKittySession, KittyRestart, TickExitFails, TickExits, Histories

LEMMA DaysAdvance ==
  ASSUME KTypes, NextKittySession
  PROVE  kday \in Int /\ kday' \in Int /\ kday < kday' /\ IsTradingDay(kday')
  BY NextDay, DayIsPositive DEF NextKittySession

(* What a confirmed exit earned is due until record_realized_pnl has stored it. *)
LEMMA TallyStep ==
  ASSUME KTypes, KTypes', TallyPart, [KittyNext]_kittyVars
  PROVE  TallyPart'
  <1>1. CASE TickFlat
    <2>1. Due = 0 /\ Due' = 0 /\ Today' = Today
      BY <1>1, TickFlatFrame DEF Due, Today
    <2> QED
      BY <1>1, <2>1, TickFlatFrame DEF TallyPart
  <1>2. CASE PrepareRaises
    BY <1>2 DEF PrepareRaises, Ticks, TallyPart, Due, Today
  <1>3. CASE RecordEntry
    <2>1. Due = 0 /\ Due' = 0 /\ Today' = Today /\ khist' = khist
      BY <1>3, PositionFrame DEF RecordEntry, Ticks, Due, Today
    <2> QED
      BY <1>3, <2>1, PositionFrame DEF TallyPart
  <1>4. CASE TickHold
    <2>1. Due = 0 /\ Due' = 0 /\ Today' = Today /\ khist' = khist
      BY <1>4, PositionFrame DEF TickHold, Ticks, Due, Today
    <2> QED
      BY <1>4, <2>1, PositionFrame DEF TallyPart
  <1>5. CASE TickExits
    <2>1. PICK exit \in KittyPrices :
            /\ kplan' = [exit |-> exit, pos |-> Position]
            /\ \E D : khist' = [khist EXCEPT !.earned = khist.earned + RealizedPnl(Position, exit),
                                              !.earned_today = khist.earned_today + RealizedPnl(Position, exit),
                                              !.loss_days = D]
      BY <1>5 DEF TickExits
    <2>2. RealizedPnl(Position, exit) \in Int /\ exit \in Int
      BY <1>5, TickHeldFrame, EarningsAreIntegers, KittyAssumption
    <2>3. /\ khist'.earned = khist.earned + RealizedPnl(Position, exit)
          /\ khist'.earned_today = khist.earned_today + RealizedPnl(Position, exit)
          /\ khist'.lost = khist.lost
      BY <2>1 DEF KTypes, Histories
    <2>4. Pnl' = RealizedPnl(Position, exit)
      BY <2>1 DEF Pnl, RealizedPnl
    <2>5. kpc = "idle" /\ kpc' = "exit_filled"
      BY <1>5 DEF TickExits, Ticks
    <2>6. Due = 0 /\ Due' = RealizedPnl(Position, exit) /\ Today' = Today
      BY <1>5, <2>4, <2>5, PositionFrame DEF Due, Today
    <2>7. /\ khist.earned \in Int /\ khist.earned_today \in Int
          /\ kfile.cumulative \in Int /\ Today \in Int
      BY DEF KTypes, Files, Histories, Today
    <2>8. /\ kfile'.pnl_day <= kday'
          /\ kfile'.cumulative = kfile.cumulative
      BY <1>5, PositionFrame DEF TallyPart
    <2>9. ~ khist.lost => khist.earned = kfile.cumulative /\ khist.earned_today = Today
      BY <2>6, <2>7 DEF TallyPart
    <2> QED
      BY <2>2, <2>3, <2>6, <2>7, <2>8, <2>9 DEF TallyPart
  <1>6. CASE TickExitFails
    <2>1. Due = 0 /\ Due' = 0 /\ Today' = Today
      BY <1>6, PositionFrame DEF TickExitFails, Ticks, Due, Today
    <2> QED
      BY <1>6, <2>1, PositionFrame, HistoryFrame DEF TallyPart
  <1>7. CASE ClosePosition
    <2>1. kpc = "exit_filled" /\ kpc' = "closed" /\ kplan' = kplan /\ ~ RecordRealizedPnl
      BY <1>7 DEF ClosePosition, RecordRealizedPnl
    <2>2. Pnl' = Pnl
      BY <2>1 DEF Pnl, RealizedPnl
    <2>3. Due' = Due /\ Today' = Today
      BY <1>7, <2>1, <2>2, BookingFrame DEF Due, Today
    <2> QED
      BY <1>7, <2>1, <2>3, BookingFrame DEF TallyPart
  <1>8. CASE RecordRealizedPnl
    <2>1. Pnl \in Int /\ kfile.cumulative \in Int /\ Today \in Int
      BY <1>8, PnlIsInteger DEF RecordRealizedPnl, KTypes, Files, Today
    <2>2. /\ Tallied.pnl_day = kday /\ Tallied.pnl_today = Today + Pnl
          /\ Tallied.cumulative = kfile.cumulative + Pnl
      BY DEF Tallied, Today, KTypes, Files
    <2>3. kfile' = Tallied /\ kday' = kday /\ kpc = "closed" /\ kpc' = "booked"
      BY <1>8 DEF RecordRealizedPnl
    <2>4. Due = Pnl /\ Due' = 0 /\ Today' = Today + Pnl
      BY <2>2, <2>3 DEF Due, Today
    <2>5. ~ khist.lost => /\ khist.earned = kfile.cumulative + Pnl
                          /\ khist.earned_today = Today + Pnl
      BY <2>4 DEF TallyPart
    <2> QED
      BY <1>8, <2>1, <2>2, <2>3, <2>4, <2>5, BookingFrame, DayIsPositive DEF TallyPart
  <1>9. CASE MaybeHalt
    <2>1. kpc = "booked" /\ kpc' = "idle" /\ ~ RecordRealizedPnl
      BY <1>9 DEF MaybeHalt, RecordRealizedPnl
    <2>2. Due = 0 /\ Due' = 0 /\ Today' = Today
      BY <1>9, <2>1, BookingFrame DEF Due, Today
    <2> QED
      BY <1>9, <2>1, <2>2, BookingFrame DEF TallyPart
  <1>10. CASE Screen
    BY <1>10 DEF Screen, TallyPart, Due, Today
  <1>11. CASE ClockMoves
    BY <1>11 DEF ClockMoves, TallyPart, Due, Today
  <1>12. CASE NextKittySession
    <2>1. kfile.pnl_day < kday' /\ kfile.pnl_day # kday' /\ UNCHANGED kfile
      <3>1. kfile.pnl_day \in Int /\ kfile.pnl_day <= kday
        BY DEF TallyPart, KTypes, Files
      <3>2. kday \in Int /\ kday' \in Int /\ kday < kday'
        BY <1>12, DaysAdvance
      <3> QED
        BY <1>12, <3>1, <3>2 DEF NextKittySession
    <2>2. Due = 0 /\ Due' = 0 /\ Today' = 0
      BY <1>12, <2>1 DEF NextKittySession, Due, Today
    <2>3. kfile.pnl_day <= kday' /\ kfile.cumulative \in Int
      BY <1>12, <2>1, DaysAdvance DEF KTypes, Files
    <2> QED
      BY <1>12, <2>1, <2>2, <2>3, HistoryFrame DEF TallyPart, NextKittySession
  <1>13. CASE KittyRestart
    <2>1. Due' = 0 /\ Today' = Today /\ UNCHANGED <<kfile, kday>>
      BY <1>13 DEF KittyRestart, Due, Today
    <2>2. ~ khist'.lost => Due = 0 /\ ~ khist.lost
      BY <1>13, HistoryFrame DEF Due
    <2> QED
      BY <1>13, <2>1, <2>2, HistoryFrame DEF TallyPart
  <1>14. CASE UNCHANGED kittyVars
    BY <1>14 DEF kittyVars, TallyPart, Due, Today, Pnl, RealizedPnl
  <1> QED
    BY <1>1, <1>2, <1>3, <1>4, <1>5, <1>6, <1>7, <1>8, <1>9, <1>10, <1>11, <1>12, <1>13,
       <1>14
    DEF KittyNext, KittyTick

(* The breaker is looked at after every change of the equity. *)
LEMMA DrawStep ==
  ASSUME KTypes, KTypes', DrawPart, [KittyNext]_kittyVars
  PROVE  DrawPart'
  <1>1. CASE TickFlat
    BY <1>1, TickFlatFrame DEF DrawPart, DrawdownBreaker, Equity
  <1>2. CASE PrepareRaises
    BY <1>2 DEF PrepareRaises, Ticks, DrawPart, DrawdownBreaker, Equity
  <1>3. CASE RecordEntry
    BY <1>3, PositionFrame DEF RecordEntry, Ticks, DrawPart, DrawdownBreaker, Equity
  <1>4. CASE TickHold
    BY <1>4, PositionFrame DEF TickHold, Ticks, DrawPart, DrawdownBreaker, Equity
  <1>5. CASE TickExits
    BY <1>5, PositionFrame, HistoryFrame DEF TickExits, Ticks, DrawPart, DrawdownBreaker, Equity
  <1>6. CASE TickExitFails
    BY <1>6, PositionFrame, HistoryFrame DEF TickExitFails, Ticks, DrawPart, DrawdownBreaker, Equity
  <1>7. CASE ClosePosition
    <2>1. kpc # "booked" /\ kfile'.drawdown_halted = kfile.drawdown_halted
          /\ ~ RecordRealizedPnl
      BY <1>7 DEF ClosePosition, RecordRealizedPnl, Closed, KTypes, Files
    <2> QED
      BY <1>7, <2>1, BookingFrame DEF DrawPart, DrawdownBreaker, Equity
  <1>8. CASE RecordRealizedPnl
    BY <1>8 DEF RecordRealizedPnl, DrawPart
  <1>9. CASE MaybeHalt
    <2>1. kfile' = Halted /\ ~ RecordRealizedPnl
      BY <1>9 DEF MaybeHalt, RecordRealizedPnl
    <2>2. KittyLive /\ DrawdownBreaker(kfile.hwm, Equity) => Halted.drawdown_halted
      BY DEF Halted, KTypes, Files
    <2>3. Equity' = Equity /\ kfile'.hwm = kfile.hwm
      BY <1>9, <2>1, BookingFrame DEF Equity
    <2> QED
      BY <2>1, <2>2, <2>3 DEF DrawPart, DrawdownBreaker
  <1>10. CASE Screen
    BY <1>10 DEF Screen, DrawPart, DrawdownBreaker, Equity
  <1>11. CASE ClockMoves
    BY <1>11 DEF ClockMoves, DrawPart, DrawdownBreaker, Equity
  <1>12. CASE NextKittySession
    BY <1>12, HistoryFrame DEF NextKittySession, DrawPart, DrawdownBreaker, Equity
  <1>13. CASE KittyRestart
    BY <1>13, HistoryFrame DEF KittyRestart, DrawPart, DrawdownBreaker, Equity
  <1>14. CASE UNCHANGED kittyVars
    BY <1>14 DEF kittyVars, DrawPart, DrawdownBreaker, Equity
  <1> QED
    BY <1>1, <1>2, <1>3, <1>4, <1>5, <1>6, <1>7, <1>8, <1>9, <1>10, <1>11, <1>12, <1>13,
       <1>14
    DEF KittyNext, KittyTick

(* The clock waits for the hard exit's tick, and that tick exits or fails. *)
LEMMA FlatStep ==
  ASSUME KTypes, KTypes', FlatPart, [KittyNext]_kittyVars
  PROVE  FlatPart'
  <1>1. CASE TickFlat
    <2>1. Position' = NoPosition /\ InSession'
      BY <1>1, TickFlatFrame DEF Position, InSession
    <2> QED
      BY <1>1, <2>1, TickFlatFrame DEF FlatPart, FlatAtClose
  <1>2. CASE PrepareRaises
    BY <1>2 DEF PrepareRaises, Ticks, FlatPart, FlatAtClose, Position
  <1>3. CASE RecordEntry
    <2>1. InSession /\ kclock < NoTradeAfter /\ kclock \in Int /\ UNCHANGED <<kday, kclock>>
      BY <1>3 DEF RecordEntry, FlatPart, KTypes, PreOpen, MarketClose
    <2>2. kpc' = "idle" /\ IsTradingDay(kday')
      BY <1>3, <2>1 DEF RecordEntry, InSession
    <2> QED
      BY <2>1, <2>2 DEF FlatPart, FlatAtClose, NoTradeAfter, HardExit, MarketClose
  <1>4. CASE TickHold
    <2>1. kclock # HardExit /\ kclock # MarketClose /\ kpc = "idle" /\ kpc' = "idle"
          /\ UNCHANGED <<kday, kclock>> /\ IsTradingDay(kday)
      BY <1>4 DEF TickHold, Ticks, Reason, ExitReason, InSession, HardExit, MarketClose,
               ObserveStart
    <2> QED
      BY <2>1 DEF FlatPart, FlatAtClose
  <1>5. CASE TickExits
    <2>1. kpc = "idle" /\ kpc' = "exit_filled" /\ UNCHANGED <<kday, kclock>> /\ InSession
      BY <1>5 DEF TickExits, Ticks
    <2>2. kclock # MarketClose /\ IsTradingDay(kday)
      BY <2>1 DEF InSession, HardExit, MarketClose, ObserveStart
    <2>3. InSession'
      BY <2>1 DEF InSession
    <2> QED
      BY <2>1, <2>2, <2>3 DEF FlatPart, FlatAtClose
  <1>6. CASE TickExitFails
    <2>1. kpc = "idle" /\ kpc' = "idle" /\ UNCHANGED <<kday, kclock>> /\ InSession
      BY <1>6 DEF TickExitFails, Ticks
    <2>2. IsTradingDay(kday)
      BY <2>1 DEF InSession
    <2> QED
      BY <1>6, <2>1, <2>2, HistoryFrame DEF FlatPart, FlatAtClose
  <1>7. CASE ClosePosition
    <2>1. Position' = NoPosition /\ InSession'
      BY <1>7, BookingFrame DEF ClosePosition, FlatPart, InSession
    <2> QED
      BY <1>7, <2>1 DEF ClosePosition, FlatPart, FlatAtClose
  <1>8. CASE RecordRealizedPnl
    <2>1. Position' = NoPosition /\ InSession'
      BY <1>8, BookingFrame DEF RecordRealizedPnl, FlatPart, InSession
    <2> QED
      BY <1>8, <2>1 DEF RecordRealizedPnl, FlatPart, FlatAtClose
  <1>9. CASE MaybeHalt
    <2>1. Position' = NoPosition /\ InSession'
      BY <1>9, BookingFrame DEF MaybeHalt, FlatPart, InSession
    <2> QED
      BY <1>9, <2>1 DEF MaybeHalt, FlatPart, FlatAtClose
  <1>10. CASE Screen
    BY <1>10 DEF Screen, FlatPart, FlatAtClose, Position
  <1>11. CASE ClockMoves
    <2>1. kpc = "idle" /\ kpc' = "idle" /\ kticked' = FALSE /\ Position' = Position
          /\ kclock' = kclock + 1 /\ kclock \in 0 .. 5 /\ UNCHANGED <<kday, khist>>
      BY <1>11 DEF ClockMoves, Position, KTypes, PreOpen, MarketClose
    <2>2. ASSUME kclock' = MarketClose, ~ khist'.exit_failed PROVE Position = NoPosition
      <3>1. kclock = HardExit
        BY <2>1, <2>2 DEF HardExit, MarketClose
      <3>2. InSession => kticked
        BY <1>11 DEF ClockMoves
      <3>3. CASE IsTradingDay(kday)
        BY <2>1, <2>2, <3>1, <3>2, <3>3 DEF FlatPart, InSession, ObserveStart, HardExit
      <3>4. CASE ~ IsTradingDay(kday)
        BY <3>4 DEF FlatPart
      <3> QED
        BY <3>3, <3>4
    <2> QED
      BY <2>1, <2>2 DEF FlatPart, FlatAtClose
  <1>12. CASE NextKittySession
    <2>1. kclock' = PreOpen /\ kpc' = "idle" /\ Position' = Position
      BY <1>12 DEF NextKittySession, Position
    <2> QED
      BY <1>12, <2>1, DaysAdvance DEF FlatPart, FlatAtClose, PreOpen, HardExit, MarketClose
  <1>13. CASE KittyRestart
    <2>1. kpc' = "idle" /\ kticked' = FALSE /\ Position' = Position /\ UNCHANGED <<kday, kclock>>
      BY <1>13 DEF KittyRestart, Position
    <2> QED
      BY <1>13, <2>1, HistoryFrame DEF FlatPart, FlatAtClose
  <1>14. CASE UNCHANGED kittyVars
    BY <1>14 DEF kittyVars, FlatPart, FlatAtClose, InSession, Position
  <1> QED
    BY <1>1, <1>2, <1>3, <1>4, <1>5, <1>6, <1>7, <1>8, <1>9, <1>10, <1>11, <1>12, <1>13,
       <1>14
    DEF KittyNext, KittyTick

(* A day's first result moves the streak once, and a loss has made it a loss day. *)
LEMMA StreakStep ==
  ASSUME KTypes, KTypes', StreakPart, [KittyNext]_kittyVars
  PROVE  StreakPart'
  <1>1. CASE TickFlat
    BY <1>1, TickFlatFrame DEF StreakPart, StreakCountsDays
  <1>2. CASE PrepareRaises
    BY <1>2 DEF PrepareRaises, Ticks, StreakPart, StreakCountsDays
  <1>3. CASE RecordEntry
    <2>1. khist' = khist /\ kpc' # "exit_filled"
      BY <1>3 DEF RecordEntry, Ticks
    <2> QED
      BY <1>3, <2>1, PositionFrame DEF StreakPart, StreakCountsDays
  <1>4. CASE TickHold
    <2>1. khist' = khist /\ kpc' # "exit_filled"
      BY <1>4 DEF TickHold, Ticks
    <2> QED
      BY <1>4, <2>1, PositionFrame DEF StreakPart, StreakCountsDays
  <1>5. CASE TickExits
    <2>1. PICK exit \in KittyPrices :
            /\ kplan' = [exit |-> exit, pos |-> Position]
            /\ khist'.loss_days = IF RealizedPnl(Position, exit) < 0
                                  THEN khist.loss_days \cup {kday} ELSE khist.loss_days
      BY <1>5 DEF TickExits, KTypes, Histories
    <2>2. Pnl' = RealizedPnl(Position, exit)
      BY <2>1 DEF Pnl, RealizedPnl
    <2> DEFINE L == khist.loss_days
               K == khist'.loss_days
    <2>3. IsFiniteSet(L) /\ L \subseteq 1 .. kday /\ kday \in 1 .. kday /\ kday' = kday
      BY <1>5, DayIsPositive, PositionFrame DEF StreakPart
    <2>4. IsFiniteSet(K) /\ K \subseteq 1 .. kday /\ K \ {kday} = L \ {kday} /\ L \subseteq K
      BY <2>1, <2>3, FS_AddElement
    <2>5. Cardinality(L) <= Cardinality(K)
      BY <2>4, FS_Subset
    <2>6. /\ Cardinality(L) \in Nat /\ Cardinality(K) \in Nat
          /\ kfile.streak \in Nat
      BY <2>3, <2>4, FS_CardinalityType DEF KTypes, Files
    <2>7. Pnl' < 0 => kday \in K
      BY <2>1, <2>2
    <2>8. kfile.streak <= Cardinality(K)
      BY <2>5, <2>6 DEF StreakPart, StreakCountsDays
    <2> HIDE DEF L
    <2>9. kfile.last_result # kday => kfile.streak <= Cardinality(K \ {kday})
      BY <2>4 DEF StreakPart, L
    <2> QED
      BY <1>5, <2>3, <2>4, <2>7, <2>8, <2>9, PositionFrame DEF StreakPart, StreakCountsDays
  <1>6. CASE TickExitFails
    <2>1. kpc' # "exit_filled"
      BY <1>6 DEF TickExitFails, Ticks
    <2> QED
      BY <1>6, <2>1, PositionFrame, HistoryFrame DEF StreakPart, StreakCountsDays
  <1>7. CASE ClosePosition
    <2> DEFINE L == khist.loss_days
    <2>1. /\ kpc = "exit_filled" /\ kpc' = "closed" /\ UNCHANGED <<kday, khist>>
          /\ kfile'.last_result = kday
          /\ kfile'.streak = IF kfile.last_result = kday THEN kfile.streak
                             ELSE IF Pnl < 0 THEN kfile.streak + 1 ELSE 0
      BY <1>7 DEF ClosePosition, Closed, KTypes, Files
    <2>2. IsFiniteSet(L) /\ L \subseteq 1 .. kday /\ Cardinality(L) \in Nat /\ kfile.streak \in Nat
      BY FS_CardinalityType DEF StreakPart, KTypes, Files
    <2>3. kfile'.streak <= Cardinality(L)
      <3>1. CASE kfile.last_result = kday
        BY <2>1, <3>1 DEF StreakPart, StreakCountsDays
      <3>2. CASE kfile.last_result # kday /\ Pnl < 0
        <4>1. kday \in L /\ kfile.streak <= Cardinality(L \ {kday})
          BY <2>1, <3>2 DEF StreakPart
        <4>2. Cardinality(L \ {kday}) = Cardinality(L) - 1
          BY <2>2, <4>1, FS_RemoveElement
        <4> QED
          BY <2>1, <2>2, <3>2, <4>1, <4>2
      <3>3. CASE kfile.last_result # kday /\ ~ (Pnl < 0)
        BY <2>1, <2>2, <3>3
      <3> QED
        BY <3>1, <3>2, <3>3
    <2> QED
      BY <2>1, <2>2, <2>3, DayIsPositive DEF StreakPart, StreakCountsDays
  <1>8. CASE RecordRealizedPnl
    <2>1. kpc' # "exit_filled" /\ ~ ClosePosition
      BY <1>8 DEF RecordRealizedPnl, ClosePosition
    <2> QED
      BY <1>8, <2>1, BookingFrame DEF StreakPart, StreakCountsDays
  <1>9. CASE MaybeHalt
    <2>1. kpc' # "exit_filled" /\ ~ ClosePosition
      BY <1>9 DEF MaybeHalt, ClosePosition
    <2> QED
      BY <1>9, <2>1, BookingFrame DEF StreakPart, StreakCountsDays
  <1>10. CASE Screen
    BY <1>10 DEF Screen, StreakPart, StreakCountsDays
  <1>11. CASE ClockMoves
    BY <1>11 DEF ClockMoves, StreakPart, StreakCountsDays
  <1>12. CASE NextKittySession
    <2> DEFINE L == khist.loss_days
    <2>1. /\ kday \in Int /\ kday' \in Int /\ kday < kday' /\ UNCHANGED kfile
          /\ khist'.loss_days = L /\ kpc' = "idle"
      BY <1>12, DaysAdvance, HistoryFrame DEF NextKittySession
    <2>2. L \subseteq 1 .. kday /\ IsFiniteSet(L) /\ kfile.last_result <= kday
          /\ kfile.streak <= Cardinality(L) /\ kfile.last_result \in Int
      BY DEF StreakPart, StreakCountsDays, KTypes, Files
    <2>3. L \subseteq 1 .. kday' /\ L \ {kday'} = L
      BY <2>1, <2>2
    <2>4. kfile.last_result <= kday'
      BY <2>1, <2>2
    <2> QED
      BY <2>1, <2>2, <2>3, <2>4 DEF StreakPart, StreakCountsDays
  <1>13. CASE KittyRestart
    <2>1. kpc' = "idle" /\ UNCHANGED <<kfile, kday>>
      BY <1>13 DEF KittyRestart
    <2> QED
      BY <1>13, <2>1, HistoryFrame DEF StreakPart, StreakCountsDays
  <1>14. CASE UNCHANGED kittyVars
    BY <1>14 DEF kittyVars, StreakPart, StreakCountsDays, Pnl, RealizedPnl
  <1> QED
    BY <1>1, <1>2, <1>3, <1>4, <1>5, <1>6, <1>7, <1>8, <1>9, <1>10, <1>11, <1>12, <1>13,
       <1>14
    DEF KittyNext, KittyTick

LEMMA InvInductive == KittyInv /\ [KittyNext]_kittyVars => KittyInv'
  <1> SUFFICES ASSUME KittyInv, [KittyNext]_kittyVars PROVE KittyInv'
    OBVIOUS
  <1>1. KTypes'
    BY TypesInductive DEF KittyInv
  <1> QED
    BY <1>1, VenueStep, LifeStep, HaltStep, TallyStep, DrawStep, FlatStep, StreakStep
    DEF KittyInv

(* An entry is only sent by a tick without a position, whose memory says that
   no halt stands. *)
LEMMA EntryStep ==
  ASSUME KittyInv, [KittyNext]_kittyVars, kpc = "idle", kpc' = "entry_filled"
  PROVE  ~ HaltActive(kfile.halt_until, kday) /\ ~ kfile.drawdown_halted
  <1>1. TickFlat
    BY DEF KittyNext, KittyTick, kittyVars, PrepareRaises, RecordEntry, TickHold, TickExits,
           TickExitFails, Ticks, ClosePosition, RecordRealizedPnl, MaybeHalt, Screen,
           ClockMoves, NextKittySession, KittyRestart
  <1>2. PICK stood \in BOOLEAN, spike \in BOOLEAN :
          \/ StandDown(TickMemory(stood, spike))
          \/ /\ ReadyToEnter(TickMemory(stood, spike))
             /\ TickMemory(stood, spike).survivors
    BY <1>1, TickFlatCases DEF KittyInv
  <1>3. ~ StandDown(TickMemory(stood, spike))
    BY DEF StandDown
  <1> QED
    BY <1>2, <1>3, TickMemoryFacts DEF ReadyToEnter, KittyInv

LEMMA InvMeansRails ==
  ASSUME KittyInv
  PROVE  /\ KittyTypeOK /\ VenueMatchesRecord /\ TalliesAreComplete /\ OneEntryPerLife
         /\ DrawdownHalts /\ FlatAtClose /\ StreakCountsDays
  <1>1. KittyTypeOK
    BY NoPositionAssumption DEF KittyInv, KTypes, PlanFits, KittyTypeOK, Files, Position
  <1>2. VenueMatchesRecord /\ OneEntryPerLife /\ FlatAtClose /\ StreakCountsDays
    BY DEF KittyInv, LifePart, OneEntryPerLife, FlatPart, StreakPart
  <1>3. TalliesAreComplete
    <2>1. kfile.cumulative \in Int /\ Today \in Int
      BY DEF KittyInv, KTypes, Files, Today
    <2>2. ~ khist.lost /\ kpc \in {"idle", "booked"} =>
            khist.earned = kfile.cumulative /\ khist.earned_today = Today
      BY <2>1 DEF KittyInv, TallyPart, Due
    <2> QED
      BY <2>2 DEF TalliesAreComplete, Today
  <1>4. DrawdownHalts
    BY DEF KittyInv, DrawPart, DrawdownHalts
  <1> QED
    BY <1>1, <1>2, <1>3, <1>4

(* KittyBot keeps its rails, over any days, restarts, raised ticks and late
   fills: its record is what the venue holds, every result reaches the tallies
   the breakers look at, each life of the process enters once a day, the hard
   exit leaves no position, and no entry is sent while a halt stands. *)
THEOREM RailsHold == KittySpec => KittyKeepsItsRails
  <1>1. KittySpec => []KittyInv
    BY InvInitially, InvInductive, PTL DEF KittySpec
  <1>2. KittyInv /\ [KittyNext]_kittyVars =>
          [kpc = "idle" /\ kpc' = "entry_filled" =>
             ~ HaltActive(kfile.halt_until, kday) /\ ~ kfile.drawdown_halted]_kittyVars
    BY EntryStep
  <1>3. KittyInv => /\ KittyTypeOK /\ VenueMatchesRecord /\ TalliesAreComplete
                    /\ OneEntryPerLife /\ DrawdownHalts /\ FlatAtClose /\ StreakCountsDays
    BY InvMeansRails
  <1> QED
    BY <1>1, <1>2, <1>3, PTL DEF KittySpec, KittyKeepsItsRails, NoEntryWhileHalted

-----------------------------------------------------------------------------
(* KittyPicks *)
Picks == [symbol : Nat, score : Int, atr : Int, long_room : Int, short_room : Int,
          target : MinTarget .. MaxTarget, stop : Nat \ {0}, earnings : BOOLEAN,
          prev_close : Closes]

(* Below a half the constants of the rules. *)
LEMMA PickConstants ==
  /\ MaxPicks \in Nat \ {0} /\ RewardRisk \in 1 .. 20 /\ MaxGap \in Nat
  /\ TradeCapital \in Nat /\ RiskPct \in Nat
BY PicksAssumption

LEMMA FramesTyped ==
  ASSUME NEW f \in Frames
  PROVE  /\ f.bars \in Seq(Moves) /\ Len(f.bars) \in 1 .. 100 /\ Len(f.bars) \in Nat \ {0}
         /\ DOMAIN f.bars = 1 .. Len(f.bars)
         /\ \A i \in 1 .. Len(f.bars) : f.bars[i].up \in Nat /\ f.bars[i].down \in Nat
<1>1. f.bars \in Seq(Moves) /\ Len(f.bars) \in 1 .. 100 /\ Len(f.bars) \in Nat \ {0}
  <2>1. f.bars \in Seq(Moves) /\ Len(f.bars) \in 1 .. 100
    BY PicksAssumption
  <2> DEFINE n == Len(f.bars)
  <2>2. ASSUME NEW k \in 1 .. 100 PROVE k \in Nat \ {0}
    OBVIOUS
  <2>3. n \in Nat \ {0}
    <3>1. n \in 1 .. 100
      BY <2>1
    <3> HIDE DEF n
    <3> QED  BY <2>2, <3>1
  <2> QED  BY <2>1, <2>3
<1>2. DOMAIN f.bars = 1 .. Len(f.bars)
  BY <1>1
<1>3. ASSUME NEW i \in 1 .. Len(f.bars)
      PROVE  f.bars[i].up \in Nat /\ f.bars[i].down \in Nat
  <2> DEFINE bars == f.bars
             bar == bars[i]
  <2>1. bars \in Seq(Moves) /\ i \in 1 .. Len(bars)
    BY <1>1
  <2> HIDE DEF bars
  <2>2. bar \in Moves
    BY <2>1
  <2> HIDE DEF bar
  <2>3. bar.up \in Nat /\ bar.down \in Nat
    BY <2>2 DEF Moves
  <2> QED  BY <2>3 DEF bar, bars
<1> QED  BY <1>1, <1>2, <1>3

LEMMA RangesAdd ==
  ASSUME NEW bars \in Seq(Moves),
         \A i \in 1 .. Len(bars) : bars[i].up \in Nat /\ bars[i].down \in Nat
  PROVE  RangeSum(bars) \in Nat
<1> DEFINE N == Len(bars)
           turn(f, i) == IF i = 0 THEN 0 ELSE f[i - 1] + bars[i].up + bars[i].down
           sum == CHOOSE f : f = [i \in 0 .. N |-> turn(f, i)]
           next == [i \in 1 .. N |-> [v \in Nat |-> v + bars[i].up + bars[i].down]]
<1>1. N \in Nat
  OBVIOUS
<1>2. RangeSum(bars) = sum[N]
  BY DEF RangeSum
<1>3. next \in [1 .. N -> [Nat -> Nat]]
  OBVIOUS
<1>4. \A i \in 1 .. N : \A v \in Nat : next[i][v] = v + bars[i].up + bars[i].down
  OBVIOUS
<1> HIDE DEF next, N
<1>5. PICK f \in [0 .. N -> Nat] : f[0] = 0 /\ \A i \in 1 .. N : f[i] = next[i][f[i - 1]]
  <2>1. HasRun(Nat, N, 0, next)
    BY <1>1, <1>3, LoopRuns
  <2> QED  BY <2>1 DEF HasRun
<1>6. ASSUME NEW i \in 0 .. N PROVE f[i] = turn(f, i)
  <2>1. CASE i = 0
    BY <1>5, <2>1
  <2>2. CASE i # 0
    <3>1. i \in 1 .. N /\ i - 1 \in 0 .. N
      BY <1>1, <2>2
    <3>2. f[i] = next[i][f[i - 1]] /\ f[i - 1] \in Nat
      BY <1>5, <3>1
    <3>3. f[i] = f[i - 1] + bars[i].up + bars[i].down
      BY <1>4, <3>1, <3>2
    <3> QED  BY <2>2, <3>3
  <2> QED  BY <2>1, <2>2
<1>7. f = [i \in 0 .. N |-> turn(f, i)]
  <2> HIDE DEF turn
  <2> QED  BY <1>5, <1>6
<1>8. sum = [i \in 0 .. N |-> turn(sum, i)]
  <2> HIDE DEF turn
  <2> QED  BY <1>7
<1> HIDE DEF sum
<1> DEFINE T == {i \in 0 .. N : sum[i] \in Nat}
<1>9. 0 \in T
  BY <1>1, <1>8
<1>10. ASSUME NEW i \in 1 .. N, i - 1 \in T PROVE i \in T
  <2>1. i \in 0 .. N /\ i # 0 /\ sum[i - 1] \in Nat
    BY <1>10, <1>1
  <2>2. sum[i] = sum[i - 1] + bars[i].up + bars[i].down
    BY <1>8, <2>1
  <2>3. bars[i].up \in Nat /\ bars[i].down \in Nat
    BY DEF N
  <2>4. sum[i] \in Nat
    <3> DEFINE up == bars[i].up
               down == bars[i].down
               before == sum[i - 1]
    <3>1. up \in Nat /\ down \in Nat /\ before \in Nat /\ sum[i] = before + up + down
      BY <2>1, <2>2, <2>3
    <3> HIDE DEF up, down, before
    <3> QED  BY <3>1
  <2> QED  BY <2>1, <2>4
<1>11. 0 .. N \subseteq T
  <2> HIDE DEF T
  <2> QED  BY <1>1, <1>9, <1>10, UpTo
<1> QED  BY <1>1, <1>2, <1>11

(* Of at most a hundred sessions a part is a whole number of per cent, and the
   larger part has no smaller share. *)
LEMMA StopIsThere ==
  ASSUME NEW t \in 20 .. 50, NEW d \in 1 .. 20
  PROVE  t \div d \in Nat \ {0}
<1>1. /\ t \div d \in Int /\ t % d \in Int /\ 0 <= t % d /\ t % d < d
      /\ t = d * (t \div d) + (t % d)
  BY Euclid
<1> DEFINE q == t \div d
           r == t % d
<1> HIDE DEF q, r
<1>2. CASE q <= 0
  <2>1. d * q <= 0
    BY <1>1, <1>2 DEF q
  <2> QED  BY <1>1, <2>1 DEF q, r
<1>3. CASE q > 0
  BY <1>1, <1>3 DEF q
<1> QED  BY <1>1, <1>2, <1>3 DEF q

LEMMA ShareTyped ==
  ASSUME NEW n \in Nat, NEW d \in Nat \ {0}
  PROVE  (n * 100) \div d \in Int
<1>1. n * 100 \in Nat
  OBVIOUS
<1> QED  BY <1>1, Euclid

Ups(bars) == {i \in DOMAIN bars : bars[i].up >= MinTarget}
Downs(bars) == {i \in DOMAIN bars : bars[i].down >= MinTarget}

LEMMA SharesTyped ==
  ASSUME NEW f \in Frames
  PROVE  /\ HitRate(f.bars) \in Int
         /\ LongRoom(f.bars) = (Cardinality(Ups(f.bars)) * 100) \div Len(f.bars)
         /\ ShortRoom(f.bars) = (Cardinality(Downs(f.bars)) * 100) \div Len(f.bars)
         /\ LongRoom(f.bars) \in Int /\ ShortRoom(f.bars) \in Int
         /\ Cardinality(Ups(f.bars)) \in Nat /\ Cardinality(Downs(f.bars)) \in Nat
<1> DEFINE bars == f.bars
           hits == {i \in DOMAIN bars : bars[i].up >= MinTarget \/ bars[i].down >= MinTarget}
<1>1. Len(bars) \in Nat \ {0} /\ DOMAIN bars = 1 .. Len(bars)
  BY FramesTyped
<1> HIDE DEF bars
<1>2. IsFiniteSet(DOMAIN bars)
  BY <1>1, FS_Interval
<1>3. IsFiniteSet(hits) /\ IsFiniteSet(Ups(bars)) /\ IsFiniteSet(Downs(bars))
  BY <1>2, FS_Subset DEF Ups, Downs
<1>4. Cardinality(hits) \in Nat /\ Cardinality(Ups(bars)) \in Nat /\ Cardinality(Downs(bars)) \in Nat
  BY <1>3, FS_CardinalityType
<1>5. /\ HitRate(bars) = (Cardinality(hits) * 100) \div Len(bars)
      /\ LongRoom(bars) = (Cardinality(Ups(bars)) * 100) \div Len(bars)
      /\ ShortRoom(bars) = (Cardinality(Downs(bars)) * 100) \div Len(bars)
  BY DEF HitRate, LongRoom, ShortRoom, Share, Ups, Downs
<1> HIDE DEF hits
<1>6. HitRate(bars) \in Int /\ LongRoom(bars) \in Int /\ ShortRoom(bars) \in Int
  BY <1>1, <1>4, <1>5, ShareTyped
<1> QED  BY <1>4, <1>5, <1>6 DEF bars

(* What the screener makes of a symbol's frame. *)
Screened(p) ==
  /\ p \in Picks
  /\ p.earnings = FALSE /\ p.prev_close = "price"
  /\ p.stop = p.target \div RewardRisk

LEMMA ScreenTyped ==
  ASSUME NEW s \in Nat, NEW f \in Frames
  PROVE  /\ Screened(ScreenSymbol(s, f))
         /\ ScreenSymbol(s, f).symbol = s
         /\ ScreenSymbol(s, f).long_room = LongRoom(f.bars)
         /\ ScreenSymbol(s, f).short_room = ShortRoom(f.bars)
<1> DEFINE range == AvgRange(f.bars)
           target == SuggestedTarget(range)
           stop == target \div RewardRisk
           score == Score(HitRate(f.bars), range)
           long == LongRoom(f.bars)
           short == ShortRoom(f.bars)
<1>1. range \in Int
  <2> DEFINE bars == f.bars
             n == Len(f.bars)
  <2>1. /\ bars \in Seq(Moves) /\ Len(bars) \in Nat \ {0}
        /\ \A i \in 1 .. Len(bars) : bars[i].up \in Nat /\ bars[i].down \in Nat
    BY FramesTyped
  <2> HIDE DEF bars
  <2>2. RangeSum(bars) \in Nat /\ Len(bars) \in Nat \ {0}
    BY <2>1, RangesAdd
  <2>3. RangeSum(bars) \div Len(bars) \in Int
    BY <2>2, Euclid
  <2> QED  BY <2>3 DEF AvgRange, bars
<1>2. HitRate(f.bars) \in Int /\ long \in Int /\ short \in Int
  BY SharesTyped
<1>3. target \in 20 .. 50
  <2> HIDE DEF range
  <2>1. (range * 6) \div 10 \in Int
    BY <1>1
  <2> QED  BY <2>1 DEF SuggestedTarget, Least, Most, MinTarget, MaxTarget
<1>4. score \in Int
  <2> HIDE DEF range
  <2> QED  BY <1>1, <1>2 DEF Score, Least
<1>5. ScreenSymbol(s, f) = [symbol |-> s, score |-> score, atr |-> range,
       long_room |-> long, short_room |-> short,
       target |-> target, stop |-> stop, earnings |-> FALSE, prev_close |-> "price"]
  BY DEF ScreenSymbol
<1> HIDE DEF range, target, score, long, short
<1>6. stop \in Nat \ {0}
  BY <1>3, PickConstants, StopIsThere
<1>7. target \in MinTarget .. MaxTarget
  BY <1>3 DEF MinTarget, MaxTarget
<1> DEFINE p == [symbol |-> s, score |-> score, atr |-> range,
       long_room |-> long, short_room |-> short,
       target |-> target, stop |-> stop, earnings |-> FALSE, prev_close |-> "price"]
<1>8. p.stop = p.target \div RewardRisk
  OBVIOUS
<1> HIDE DEF stop
<1>9. p \in Picks
  BY <1>1, <1>2, <1>4, <1>6, <1>7 DEF Picks, Closes
<1>10. p.earnings = FALSE /\ p.prev_close = "price" /\ p.symbol = s /\ p.long_room = long /\ p.short_room = short
  OBVIOUS
<1> HIDE DEF p
<1>11. ScreenSymbol(s, f) = p
  BY <1>5 DEF p
<1> QED  BY <1>8, <1>9, <1>10, <1>11 DEF Screened, long, short

-----------------------------------------------------------------------------
LEMMA UniverseTyped ==
  /\ FallbackUniverse \in Seq(Nat) /\ Len(FallbackUniverse) \in Nat \ {0}
  /\ DOMAIN FallbackUniverse = 1 .. Len(FallbackUniverse)
  /\ Universe \subseteq Nat /\ IsFiniteSet(Universe)
<1>1. /\ FallbackUniverse \in Seq(Nat) /\ Len(FallbackUniverse) \in Nat \ {0}
      /\ DOMAIN FallbackUniverse = 1 .. Len(FallbackUniverse)
      /\ FallbackUniverse \in [1 .. Len(FallbackUniverse) -> Nat]
  BY PicksAssumption
<1>2. Universe \subseteq Nat
  BY <1>1 DEF Universe
<1>3. FallbackUniverse \in Surjection(DOMAIN FallbackUniverse, Universe)
  BY <1>1 DEF Surjection, Universe
<1>4. IsFiniteSet(DOMAIN FallbackUniverse)
  BY <1>1, FS_Interval
<1> QED  BY <1>1, <1>2, <1>3, <1>4, FS_Surjection

LEMMA MetricsTyped ==
  ASSUME NEW fs \in [Universe -> Frames]
  PROVE  /\ IsFiniteSet(Metrics(fs))
         /\ \A m \in Metrics(fs) :
              /\ Screened(m) /\ m.symbol \in Universe
              /\ m.long_room = LongRoom(fs[m.symbol].bars)
              /\ m.short_room = ShortRoom(fs[m.symbol].bars)
         /\ \A m, n \in Metrics(fs) : m.symbol = n.symbol => m = n
<1> DEFINE good == {u \in Universe : Qualifies(fs[u])}
           of == [s \in good |-> ScreenSymbol(s, fs[s])]
<1>1. \A s \in Universe : s \in Nat /\ fs[s] \in Frames
  BY UniverseTyped
<1>2. IsFiniteSet(good)
  BY UniverseTyped, FS_Subset
<1>3. Metrics(fs) = {of[s] : s \in good}
  BY DEF Metrics
<1>4. IsFiniteSet({of[s] : s \in good})
  <2>1. DOMAIN of = good /\ of \in [good -> {of[s] : s \in good}]
    OBVIOUS
  <2> HIDE DEF of, good
  <2> QED  BY <1>2, <2>1, FinitelyManyValues
<1>5. ASSUME NEW m \in Metrics(fs)
      PROVE  /\ Screened(m) /\ m.symbol \in Universe /\ m = ScreenSymbol(m.symbol, fs[m.symbol])
             /\ m.long_room = LongRoom(fs[m.symbol].bars)
             /\ m.short_room = ShortRoom(fs[m.symbol].bars)
  <2>1. PICK s \in Universe : m = ScreenSymbol(s, fs[s])
    BY DEF Metrics
  <2>2. s \in Nat /\ fs[s] \in Frames
    BY <1>1
  <2>3. /\ Screened(m) /\ m.symbol = s
        /\ m.long_room = LongRoom(fs[s].bars) /\ m.short_room = ShortRoom(fs[s].bars)
    BY <2>1, <2>2, ScreenTyped
  <2> QED  BY <2>1, <2>3
<1>6. \A m, n \in Metrics(fs) : m.symbol = n.symbol => m = n
  BY <1>5
<1> QED  BY <1>3, <1>4, <1>5, <1>6

(* The ranking is a sequence of the best of them, each once. *)
LEMMA RankHolds ==
  ASSUME NEW ms, IsFiniteSet(ms), \A m \in ms : Screened(m),
         \A m, n \in ms : m.symbol = n.symbol => m = n
  PROVE  /\ Rank(ms) \in Seq(ms) /\ Len(Rank(ms)) <= MaxPicks
         /\ \A i, j \in 1 .. Len(Rank(ms)) : Rank(ms)[i].symbol = Rank(ms)[j].symbol => i = j
         /\ \A i \in 1 .. Len(Rank(ms)), m \in ms :
              (\A j \in 1 .. Len(Rank(ms)) : Rank(ms)[j] # m) => m.score <= Rank(ms)[i].score
<1> DEFINE beaten == [m \in ms |-> BetterOnes(ms, m)]
           N == Cardinality(ms)
           L == Least(MaxPicks, N)
           place(m) == Cardinality(BetterOnes(ms, m))
<1>1. \A m \in ms : m.score \in Int /\ m.symbol \in Nat
  BY Zenon DEF Screened, Picks
<1>2. \A m, o \in ms : o \in beaten[m] <=> Better(o, m)
  BY DEF BetterOnes
<1>3. beaten \in [ms -> SUBSET ms] /\ \A m \in ms : beaten[m] = BetterOnes(ms, m)
  BY DEF BetterOnes
<1> HIDE DEF beaten
<1>4. TotalOrder(ms, beaten)
  <2>1. \A m \in ms : m \notin beaten[m]
    BY <1>1, <1>2 DEF Better
  <2>2. \A m \in ms : \A o \in beaten[m] : beaten[o] \subseteq beaten[m]
    <3> SUFFICES ASSUME NEW m \in ms, NEW o \in beaten[m], NEW q \in beaten[o]
                 PROVE  q \in beaten[m]
      OBVIOUS
    <3>1. o \in ms /\ q \in ms
      BY <1>3
    <3>2. Better(o, m) /\ Better(q, o)
      BY <1>2, <3>1
    <3>3. Better(q, m)
      BY <1>1, <3>1, <3>2 DEF Better
    <3> QED  BY <1>2, <3>1, <3>3
  <2>3. \A m, n \in ms : m # n => m \in beaten[n] \/ n \in beaten[m]
    BY <1>1, <1>2 DEF Better
  <2> QED  BY <2>1, <2>2, <2>3 DEF TotalOrder, Order
<1>5. /\ N \in Nat
      /\ \A m \in ms : place(m) \in 0 .. N - 1
      /\ \A m, n \in ms : place(m) = place(n) => m = n
      /\ \A k \in 1 .. N : \E m \in ms : place(m) = k - 1
  <2>1. \A m \in ms : Cardinality(beaten[m]) = place(m)
    BY <1>3
  <2> HIDE DEF place
  <2> QED  BY <1>3, <1>4, <2>1, EachPlaceOnce
<1>6. L \in Nat /\ L <= N /\ L <= MaxPicks /\ (L < N => L = MaxPicks)
  BY <1>5, PickConstants DEF Least
<1>7. Rank(ms) = [k \in 1 .. L |-> CHOOSE m \in ms : place(m) = k - 1]
  BY DEF Rank
<1> HIDE DEF N, L, place
<1>8. ASSUME NEW k \in 1 .. L PROVE Rank(ms)[k] \in ms /\ place(Rank(ms)[k]) = k - 1
  <2>1. k \in 1 .. N
    BY <1>5, <1>6
  <2>2. \E m \in ms : place(m) = k - 1
    BY <1>5, <2>1
  <2>3. Rank(ms)[k] = CHOOSE m \in ms : place(m) = k - 1
    BY <1>7
  <2> QED  BY <2>2, <2>3
<1>9. Rank(ms) \in Seq(ms) /\ Len(Rank(ms)) = L
  <2>1. Rank(ms) \in [1 .. L -> ms]
    BY <1>7, <1>8
  <2> QED  BY <1>6, <2>1
<1>10. ASSUME NEW i \in 1 .. L, NEW j \in 1 .. L, Rank(ms)[i].symbol = Rank(ms)[j].symbol
       PROVE  i = j
  <2>1. Rank(ms)[i] = Rank(ms)[j]
    BY <1>8, <1>10
  <2> QED  BY <1>6, <1>8, <2>1
<1>11. ASSUME NEW i \in 1 .. L, NEW m \in ms, \A j \in 1 .. L : Rank(ms)[j] # m
       PROVE  m.score <= Rank(ms)[i].score
  <2>1. place(m) \in 0 .. N - 1 /\ Rank(ms)[i] \in ms /\ place(Rank(ms)[i]) = i - 1
    BY <1>5, <1>8
  <2>2. place(m) >= L
    <3>1. CASE place(m) < L
      <4>1. place(m) + 1 \in 1 .. L
        BY <1>5, <1>6, <2>1, <3>1
      <4>2. Rank(ms)[place(m) + 1] \in ms /\ place(Rank(ms)[place(m) + 1]) = place(m)
        BY <1>8, <2>1, <4>1
      <4>3. Rank(ms)[place(m) + 1] = m
        BY <1>5, <4>2
      <4> QED  BY <1>11, <4>1, <4>3
    <3> QED  BY <1>6, <2>1, <3>1
  <2> DEFINE r == Rank(ms)[i]
  <2>3. r \in ms /\ r # m /\ place(r) < place(m)
    BY <1>6, <1>11, <2>1, <2>2
  <2> HIDE DEF r
  <2>4. r \in beaten[m] \/ m \in beaten[r]
    BY <1>4, <2>3 DEF TotalOrder
  <2>5. CASE m \in beaten[r]
    <3>1. Cardinality(beaten[m]) < Cardinality(beaten[r])
      BY <1>3, <1>4, <2>3, <2>5, BeforeIsLess DEF TotalOrder
    <3>2. place(m) < place(r)
      BY <1>3, <2>3, <3>1 DEF place
    <3> QED  BY <1>5, <2>3, <3>2
  <2>6. CASE r \in beaten[m]
    BY <1>1, <1>2, <2>3, <2>6 DEF Better, r
  <2> QED  BY <2>4, <2>5, <2>6
<1> QED  BY <1>6, <1>9, <1>10, <1>11

-----------------------------------------------------------------------------
(* picks.py: what parsing and clamping make of a row. *)
LEMMA ParseTyped ==
  ASSUME NEW raw \in RawPicks
  PROVE  ParsePick(raw) \in Picks \cup {NoPick}
<1>1. CASE raw.symbol = NoPick
  BY <1>1 DEF ParsePick
<1>2. CASE raw.symbol # NoPick
  <2> DEFINE levels == ClampLevels(raw.target, raw.stop)
             t == Least(Most(raw.target, MinTarget), MaxTarget)
             s == IF raw.stop <= 0 THEN t \div RewardRisk ELSE raw.stop
  <2>1. raw.symbol \in Nat /\ raw.target \in Int /\ raw.stop \in Int
    BY <1>2 DEF RawPicks
  <2>2. levels = [target |-> t, stop |-> s]
    BY DEF ClampLevels
  <2>3. t \in 20 .. 50
    BY <2>1 DEF Least, Most, MinTarget, MaxTarget
  <2>4. t \div RewardRisk \in Nat \ {0}
    <3> HIDE DEF t
    <3> QED  BY <2>3, PickConstants, StopIsThere
  <2>5. s \in Nat \ {0}
    <3> HIDE DEF t
    <3> QED  BY <2>1, <2>4
  <2> HIDE DEF t, s
  <2>6. levels.target = t /\ levels.stop = s
    BY <2>2
  <2> HIDE DEF levels
  <2>7. ParsePick(raw) = [raw EXCEPT !.target = t, !.stop = s]
    BY <1>2, <2>6 DEF ParsePick, levels
  <2>8. t \in MinTarget .. MaxTarget
    BY <2>3 DEF MinTarget, MaxTarget
  <2>9. [raw EXCEPT !.target = t, !.stop = s] \in Picks
    BY <2>1, <2>5, <2>8 DEF RawPicks, Picks
  <2> QED  BY <2>7, <2>9
<1> QED  BY <1>1, <1>2

LEMMA PicksAreRaw == Picks \subseteq RawPicks /\ NoPick \notin Picks /\ NoPick \notin Nat
<1>1. ASSUME NEW p \in Picks PROVE p \in RawPicks
  BY DEF Picks, RawPicks, MinTarget, MaxTarget
<1> QED  BY <1>1, PicksAssumption

LEMMA ParseKeeps ==
  ASSUME NEW p, Screened(p)
  PROVE  ParsePick(p) = p
<1>1. /\ p \in Picks /\ p.symbol \in Nat /\ p.target \in MinTarget .. MaxTarget
      /\ p.stop \in Nat \ {0} /\ p.symbol # NoPick
  BY PicksAreRaw DEF Screened, Picks
<1> DEFINE levels == ClampLevels(p.target, p.stop)
<1>2. levels = [target |-> p.target, stop |-> p.stop]
  <2>1. Least(Most(p.target, MinTarget), MaxTarget) = p.target /\ ~ (p.stop <= 0)
    BY <1>1 DEF Least, Most, MinTarget, MaxTarget
  <2> QED  BY <2>1 DEF ClampLevels
<1>3. levels.target = p.target /\ levels.stop = p.stop
  BY <1>2
<1> HIDE DEF levels
<1>4. ParsePick(p) = [p EXCEPT !.target = p.target, !.stop = p.stop]
  BY <1>1, <1>3 DEF ParsePick, levels
<1>5. [p EXCEPT !.target = p.target, !.stop = p.stop] = p
  BY <1>1 DEF Picks
<1> QED  BY <1>4, <1>5

(* Picks, no symbol twice. *)
Distinct(k) == \A i, j \in 1 .. Len(k) : k[i].symbol = k[j].symbol => i = j
Kitties == {k \in Seq(Picks) : Distinct(k)}

LEMMA WithPickKeeps ==
  ASSUME NEW k \in Kitties, NEW p \in Picks \cup {NoPick}
  PROVE  WithPick(k, p) \in Kitties
<1>1. CASE p = NoPick \/ Named(k, p.symbol)
  BY <1>1 DEF WithPick
<1>2. CASE ~ (p = NoPick \/ Named(k, p.symbol))
  <2> DEFINE n == Append(k, p)
  <2>1. WithPick(k, p) = n
    BY <1>2 DEF WithPick
  <2>2. k \in Seq(Picks) /\ p \in Picks /\ Len(k) \in Nat /\ DOMAIN k = 1 .. Len(k)
    BY <1>2 DEF Kitties
  <2>3. /\ n \in Seq(Picks) /\ Len(n) = Len(k) + 1 /\ n[Len(k) + 1] = p
        /\ \A i \in 1 .. Len(k) : n[i] = k[i]
    BY <2>2
  <2>4. \A i \in 1 .. Len(k) : k[i].symbol # p.symbol
    BY <1>2, <2>2 DEF Named
  <2> HIDE DEF n
  <2>5. Distinct(n)
    <3> SUFFICES ASSUME NEW i \in 1 .. Len(n), NEW j \in 1 .. Len(n), n[i].symbol = n[j].symbol
                 PROVE  i = j
      BY DEF Distinct
    <3>1. i \in 1 .. Len(k) \/ i = Len(k) + 1
      BY <2>2, <2>3
    <3>2. j \in 1 .. Len(k) \/ j = Len(k) + 1
      BY <2>2, <2>3
    <3>3. Distinct(k)
      BY DEF Kitties
    <3>4. CASE i \in 1 .. Len(k) /\ j \in 1 .. Len(k)
      BY <2>3, <3>3, <3>4 DEF Distinct
    <3>5. CASE i \in 1 .. Len(k) /\ j = Len(k) + 1
      BY <2>3, <2>4, <3>5
    <3>6. CASE i = Len(k) + 1 /\ j \in 1 .. Len(k)
      BY <2>3, <2>4, <3>6
    <3> QED  BY <3>1, <3>2, <3>4, <3>5, <3>6
  <2> QED  BY <2>1, <2>3, <2>5 DEF Kitties
<1> QED  BY <1>1, <1>2

(* The run of the loop that keeps the first pick of each symbol. *)
Keeps(raw, f) ==
  /\ f \in [0 .. Len(raw) -> Kitties]
  /\ f[0] = <<>>
  /\ \A i \in 1 .. Len(raw) : f[i] = WithPick(f[i - 1], ParsePick(raw[i]))
  /\ PicksOf(raw) = f[Len(raw)]

LEMMA PicksRun ==
  ASSUME NEW raw \in Seq(RawPicks)
  PROVE  \E f : Keeps(raw, f)
<1> DEFINE N == Len(raw)
           turn(f, i) == IF i = 0 THEN <<>> ELSE WithPick(f[i - 1], ParsePick(raw[i]))
           kept == CHOOSE f : f = [i \in 0 .. N |-> turn(f, i)]
           next == [i \in 1 .. N |-> [k \in Kitties |-> WithPick(k, ParsePick(raw[i]))]]
<1>1. N \in Nat
  OBVIOUS
<1>2. PicksOf(raw) = kept[N]
  BY DEF PicksOf
<1>3. ASSUME NEW i \in 1 .. N, NEW k \in Kitties PROVE WithPick(k, ParsePick(raw[i])) \in Kitties
  <2>1. raw[i] \in RawPicks
    OBVIOUS
  <2> QED  BY <2>1, ParseTyped, WithPickKeeps
<1>4. next \in [1 .. N -> [Kitties -> Kitties]]
  BY <1>3
<1>5. \A i \in 1 .. N : \A k \in Kitties : next[i][k] = WithPick(k, ParsePick(raw[i]))
  OBVIOUS
<1>6. <<>> \in Kitties
  BY DEF Kitties, Distinct
<1> HIDE DEF next, N
<1>7. PICK f \in [0 .. N -> Kitties] : f[0] = <<>> /\ \A i \in 1 .. N : f[i] = next[i][f[i - 1]]
  <2>1. HasRun(Kitties, N, <<>>, next)
    BY <1>1, <1>4, <1>6, LoopRuns
  <2> QED  BY <2>1 DEF HasRun
<1>8. \A i \in 1 .. N : i - 1 \in 0 .. N /\ f[i] = WithPick(f[i - 1], ParsePick(raw[i]))
  BY <1>1, <1>5, <1>7
<1>9. ASSUME NEW i \in 0 .. N PROVE f[i] = turn(f, i)
  <2>1. CASE i = 0
    BY <1>7, <2>1
  <2>2. CASE i # 0
    <3>1. i \in 1 .. N
      BY <1>1, <2>2
    <3> QED  BY <1>8, <2>2, <3>1
  <2> QED  BY <2>1, <2>2
<1>10. f = [i \in 0 .. N |-> turn(f, i)]
  <2> HIDE DEF turn
  <2> QED  BY <1>7, <1>9
<1>11. kept = [i \in 0 .. N |-> turn(kept, i)]
  <2> HIDE DEF turn
  <2> QED  BY <1>10
<1> HIDE DEF kept
<1> DEFINE T == {i \in 0 .. N : kept[i] = f[i]}
<1>12. 0 \in T
  BY <1>1, <1>7, <1>11
<1>13. ASSUME NEW i \in 1 .. N, i - 1 \in T PROVE i \in T
  <2>1. i \in 0 .. N /\ i # 0 /\ kept[i - 1] = f[i - 1]
    BY <1>1, <1>13
  <2>2. kept[i] = WithPick(kept[i - 1], ParsePick(raw[i]))
    BY <1>11, <2>1
  <2> QED  BY <1>8, <2>1, <2>2
<1>14. 0 .. N \subseteq T
  <2> HIDE DEF T
  <2> QED  BY <1>1, <1>12, <1>13, UpTo
<1>15. PicksOf(raw) = f[N]
  BY <1>1, <1>2, <1>14
<1> QED  BY <1>7, <1>8, <1>15 DEF Keeps, N

LEMMA PicksOfTyped ==
  ASSUME NEW raw \in Seq(RawPicks)
  PROVE  PicksOf(raw) \in Kitties
<1>1. PICK f : Keeps(raw, f)
  BY PicksRun
<1>2. Len(raw) \in 0 .. Len(raw)
  OBVIOUS
<1> QED  BY <1>1, <1>2 DEF Keeps

(* Nothing is lost of what the screener wrote. *)
LEMMA PicksOfScreened ==
  ASSUME NEW raw \in Seq(Picks), Distinct(raw), \A i \in 1 .. Len(raw) : Screened(raw[i])
  PROVE  PicksOf(raw) = raw
<1>1. raw \in Seq(RawPicks)
  BY PicksAreRaw
<1>2. PICK f : Keeps(raw, f)
  BY <1>1, PicksRun
<1> DEFINE N == Len(raw)
           T == {i \in 0 .. N : Len(f[i]) = i /\ \A j \in 1 .. i : f[i][j] = raw[j]}
<1>3. N \in Nat
  OBVIOUS
<1>4. /\ f \in [0 .. N -> Kitties] /\ f[0] = <<>> /\ PicksOf(raw) = f[N]
      /\ \A i \in 1 .. N : f[i] = WithPick(f[i - 1], ParsePick(raw[i]))
  BY <1>2 DEF Keeps
<1>5. 0 \in T
  BY <1>3, <1>4
<1>6. ASSUME NEW i \in 1 .. N, i - 1 \in T PROVE i \in T
  <2> DEFINE k == f[i - 1]
             p == raw[i]
  <2>1. i - 1 \in 0 .. N /\ i \in 0 .. N /\ k \in Kitties /\ k \in Seq(Picks)
    BY <1>3, <1>4 DEF Kitties
  <2>2. Len(k) = i - 1 /\ \A j \in 1 .. i - 1 : k[j] = raw[j]
    BY <1>6
  <2>3. p \in Picks /\ p # NoPick /\ ParsePick(p) = p
    BY PicksAreRaw, ParseKeeps
  <2>4. ~ Named(k, p.symbol)
    <3> SUFFICES ASSUME NEW j \in DOMAIN k, k[j].symbol = p.symbol PROVE FALSE
      BY DEF Named
    <3>1. j \in 1 .. i - 1
      BY <2>1, <2>2
    <3>2. j \in 1 .. N /\ raw[j].symbol = raw[i].symbol /\ j # i
      BY <1>3, <2>2, <3>1
    <3> QED  BY <3>2 DEF Distinct
  <2>5. f[i] = Append(k, p)
    BY <1>4, <2>3, <2>4 DEF WithPick
  <2> HIDE DEF k, p
  <2>6. /\ Len(Append(k, p)) = Len(k) + 1 /\ Append(k, p)[Len(k) + 1] = p
        /\ \A j \in 1 .. Len(k) : Append(k, p)[j] = k[j]
    BY <2>1, <2>3
  <2>7. Len(f[i]) = i /\ f[i][i] = raw[i]
    BY <2>2, <2>5, <2>6 DEF p
  <2>8. \A j \in 1 .. i : f[i][j] = raw[j]
    <3> SUFFICES ASSUME NEW j \in 1 .. i PROVE f[i][j] = raw[j]
      OBVIOUS
    <3>1. j \in 1 .. i - 1 \/ j = i
      OBVIOUS
    <3> QED  BY <2>2, <2>5, <2>6, <2>7, <3>1
  <2> QED  BY <2>1, <2>7, <2>8
<1>7. N \in T
  <2>1. 0 .. N \subseteq T
    <3> HIDE DEF T
    <3> QED  BY <1>3, <1>5, <1>6, UpTo
  <2> QED  BY <1>3, <2>1
<1>8. f[N] \in Seq(Picks) /\ Len(f[N]) = Len(raw) /\ \A j \in 1 .. Len(raw) : f[N][j] = raw[j]
  BY <1>3, <1>4, <1>7 DEF Kitties
<1>9. f[N] = raw
  <2> DEFINE g == f[N]
  <2>1. g \in Seq(Picks) /\ Len(g) = Len(raw) /\ \A j \in 1 .. Len(raw) : g[j] = raw[j]
    BY <1>8
  <2> HIDE DEF g
  <2>2. g = raw
    BY <2>1
  <2> QED  BY <2>2 DEF g
<1> QED  BY <1>4, <1>9

LEMMA CutKeeps ==
  ASSUME NEW k \in Kitties
  PROVE  /\ Cut(k) \in Kitties /\ Len(Cut(k)) \in 0 .. MaxPicks
         /\ k # <<>> => Len(Cut(k)) >= 1
         /\ Len(k) <= MaxPicks => Cut(k) = k
<1> DEFINE n == Least(MaxPicks, Len(k))
<1>1. k \in Seq(Picks) /\ Len(k) \in Nat /\ Distinct(k)
  BY DEF Kitties
<1>2. n \in Nat /\ n <= Len(k) /\ n <= MaxPicks /\ (Len(k) <= MaxPicks => n = Len(k)) /\ (Len(k) >= 1 => n >= 1)
  BY <1>1, PickConstants DEF Least
<1>3. Cut(k) = SubSeq(k, 1, n)
  BY DEF Cut
<1> HIDE DEF n
<1>4. /\ Cut(k) \in Seq(Picks) /\ Len(Cut(k)) = n
      /\ \A i \in 1 .. n : Cut(k)[i] = k[i]
  BY <1>1, <1>2, <1>3
<1>5. Distinct(Cut(k))
  BY <1>1, <1>2, <1>4 DEF Distinct
<1>6. Len(k) <= MaxPicks => Cut(k) = k
  BY <1>1, <1>2, <1>4
<1> QED  BY <1>1, <1>2, <1>4, <1>5, <1>6 DEF Kitties

-----------------------------------------------------------------------------
LEMMA FallbackHolds == FallbackKitty \in Kitties /\ Len(FallbackKitty) \in 1 .. MaxPicks
<1> DEFINE u == FallbackUniverse
           N == Len(u)
           bare == [i \in 1 .. N |-> BarePick(u[i])]
           stop == 30 \div RewardRisk
<1>1. /\ u \in Seq(Nat) /\ N \in Nat \ {0} /\ DOMAIN u = 1 .. N
      /\ \A i, j \in 1 .. N : u[i] = u[j] => i = j
  BY UniverseTyped, PicksAssumption
<1>2. \A i \in 1 .. N : u[i] \in Nat
  BY <1>1
<1> HIDE DEF u, N
<1>3. stop \in Nat \ {0}
  BY PickConstants, StopIsThere
<1>4. ClampLevels(30, 0).target = 30 /\ ClampLevels(30, 0).stop = stop
  BY DEF ClampLevels, Least, Most, MinTarget, MaxTarget
<1> HIDE DEF stop
<1>5. ASSUME NEW s \in Nat PROVE BarePick(s) \in Picks /\ BarePick(s).symbol = s
  BY <1>3, <1>4 DEF BarePick, Picks, Closes, MinTarget, MaxTarget
<1>6. /\ bare \in Seq(Picks) /\ Len(bare) = N
      /\ \A i \in 1 .. N : bare[i].symbol = u[i]
  <2>1. bare \in [1 .. N -> Picks]
    BY <1>2, <1>5
  <2>2. \A i \in 1 .. N : bare[i].symbol = u[i]
    BY <1>2, <1>5
  <2> HIDE DEF bare
  <2> QED  BY <1>1, <2>1, <2>2
<1>7. FallbackKitty = Cut(bare)
  BY <1>1 DEF FallbackKitty, u
<1> HIDE DEF bare
<1>8. bare \in Kitties /\ bare # <<>>
  BY <1>1, <1>6 DEF Kitties, Distinct
<1>9. /\ Cut(bare) \in Kitties /\ Len(Cut(bare)) \in 0 .. MaxPicks /\ Len(Cut(bare)) >= 1
  BY <1>8, CutKeeps
<1> QED  BY <1>7, <1>9

(* A file the screener wrote: each pick is screened, none doubled, no more than
   the engine takes. *)
ScreenedFile(raw) ==
  /\ raw \in Seq(Picks) /\ Distinct(raw) /\ Len(raw) <= MaxPicks
  /\ \A i \in 1 .. Len(raw) : Screened(raw[i])

LEMMA KittyLoads ==
  ASSUME NEW file, file.picks \in Seq(RawPicks)
  PROVE  /\ Kitty(file).picks \in Kitties /\ Len(Kitty(file).picks) \in 1 .. MaxPicks
         /\ Kitty(file).source = "json" => file.ok
         /\ Kitty(file).source = "json" /\ ScreenedFile(file.picks) => Kitty(file).picks = file.picks
<1> DEFINE raw == file.picks
           parsed == ParseKitty(raw)
<1>1. PicksOf(raw) \in Kitties
  BY PicksOfTyped
<1>2. parsed \in Kitties /\ Len(parsed) \in 0 .. MaxPicks
  BY <1>1, CutKeeps DEF ParseKitty
<1>3. ScreenedFile(raw) => parsed = raw
  <2> SUFFICES ASSUME ScreenedFile(raw) PROVE parsed = raw
    OBVIOUS
  <2>1. raw \in Kitties /\ Len(raw) <= MaxPicks
    BY DEF ScreenedFile, Kitties
  <2>2. PicksOf(raw) = raw
    BY PicksOfScreened DEF ScreenedFile
  <2>3. Cut(raw) = raw
    BY <2>1, CutKeeps
  <2> QED  BY <2>2, <2>3 DEF ParseKitty
<1> HIDE DEF parsed
<1>4. CASE file.ok /\ parsed # <<>>
  <2>1. Kitty(file).picks = parsed /\ Kitty(file).source = "json"
    BY <1>4 DEF Kitty, parsed
  <2>2. Len(parsed) >= 1
    BY <1>2, <1>4 DEF Kitties
  <2> QED  BY <1>2, <1>3, <1>4, <2>1, <2>2, PickConstants
<1>5. CASE ~ (file.ok /\ parsed # <<>>)
  <2>1. Kitty(file).picks = FallbackKitty /\ Kitty(file).source # "json"
    BY <1>5 DEF Kitty, parsed
  <2> QED  BY <2>1, FallbackHolds
<1> QED  BY <1>4, <1>5

-----------------------------------------------------------------------------
(* filters.py: a survivor is a pick of the kitty with a quote that is no gap. *)
Stood(loaded) == [pick : {loaded[i] : i \in 1 .. Len(loaded)},
                 quote : {q \in OpenQuotes : ~ GapTooLarge(q)}]

Quoted(loaded) == [{loaded[i].symbol : i \in DOMAIN loaded} -> {NoQuote} \cup OpenQuotes]

LEMMA SurvivorsStood ==
  ASSUME NEW loaded \in Seq(Picks), NEW quotes \in Quoted(loaded)
  PROVE  Surviving(loaded, quotes) \in Seq(Stood(loaded))
<1> DEFINE N == Len(loaded)
           V == Seq(Stood(loaded))
           quote(i) == quotes[loaded[i].symbol]
           more(k, i) == IF Survives(loaded[i], quote(i))
                         THEN Append(k, [pick |-> loaded[i], quote |-> quote(i)]) ELSE k
           turn(f, i) == IF i = 0 THEN <<>> ELSE more(f[i - 1], i)
           kept == CHOOSE f : f = [i \in 0 .. N |-> turn(f, i)]
           next == [i \in 1 .. N |-> [k \in V |-> more(k, i)]]
<1>1. N \in Nat /\ DOMAIN loaded = 1 .. N
  OBVIOUS
<1>2. Surviving(loaded, quotes) = kept[N]
  BY DEF Surviving
<1>3. ASSUME NEW i \in 1 .. N, NEW k \in V PROVE more(k, i) \in V
  <2>1. CASE Survives(loaded[i], quote(i))
    <3>1. quote(i) \in {NoQuote} \cup OpenQuotes
      BY <1>1 DEF Quoted
    <3>2. quote(i) \in OpenQuotes /\ ~ GapTooLarge(quote(i))
      BY <2>1, <3>1 DEF Survives
    <3> DEFINE s == [pick |-> loaded[i], quote |-> quote(i)]
    <3>3. s \in Stood(loaded)
      BY <3>2 DEF Stood
    <3> HIDE DEF s
    <3>4. Append(k, s) \in V
      BY <3>3
    <3> QED  BY <2>1, <3>4 DEF s
  <2> QED  BY <2>1
<1>4. <<>> \in V
  OBVIOUS
<1> HIDE DEF more, V, N
<1>5. next \in [1 .. N -> [V -> V]]
  BY <1>3
<1>6. \A i \in 1 .. N : \A k \in V : next[i][k] = more(k, i)
  OBVIOUS
<1> HIDE DEF next
<1>7. PICK f \in [0 .. N -> V] : f[0] = <<>> /\ \A i \in 1 .. N : f[i] = next[i][f[i - 1]]
  <2>1. HasRun(V, N, <<>>, next)
    BY <1>1, <1>4, <1>5, LoopRuns
  <2> QED  BY <2>1 DEF HasRun
<1>8. \A i \in 1 .. N : i - 1 \in 0 .. N /\ f[i] = more(f[i - 1], i)
  BY <1>1, <1>6, <1>7
<1>9. ASSUME NEW i \in 0 .. N PROVE f[i] = turn(f, i)
  <2>1. CASE i = 0
    BY <1>7, <2>1
  <2>2. CASE i # 0
    <3>1. i \in 1 .. N
      BY <1>1, <2>2
    <3> QED  BY <1>8, <2>2, <3>1
  <2> QED  BY <2>1, <2>2
<1>10. f = [i \in 0 .. N |-> turn(f, i)]
  <2> HIDE DEF turn
  <2> QED  BY <1>7, <1>9
<1>11. kept = [i \in 0 .. N |-> turn(kept, i)]
  <2> HIDE DEF turn
  <2> QED  BY <1>10
<1> HIDE DEF kept
<1> DEFINE T == {i \in 0 .. N : kept[i] \in V}
<1>13. 0 \in T
  BY <1>1, <1>4, <1>11
<1>14. ASSUME NEW i \in 1 .. N, i - 1 \in T PROVE i \in T
  <2>1. i \in 0 .. N /\ i # 0 /\ kept[i - 1] \in V
    BY <1>1, <1>14
  <2>2. kept[i] = more(kept[i - 1], i)
    BY <1>11, <2>1
  <2> QED  BY <1>3, <2>1, <2>2
<1>15. 0 .. N \subseteq T
  <2> HIDE DEF T
  <2> QED  BY <1>1, <1>13, <1>14, UpTo
<1>16. kept[N] \in V
  BY <1>1, <1>15
<1> QED  BY <1>2, <1>16 DEF V

(* A gap of at most MaxGap tenths of a percent, either side. *)
LEMMA SmallGap ==
  ASSUME NEW q \in OpenQuotes, ~ GapTooLarge(q), q.prev_close > 0
  PROVE  Abs((q.open - q.prev_close) * 1000) <= MaxGap * q.prev_close + q.prev_close
<1> DEFINE d == q.prev_close
           x == (q.open - q.prev_close) * 1000
           g == x \div d
           r == x % d
           m == MaxGap * d
<1>1. q.open \in Nat /\ d \in Nat \ {0} /\ MaxGap \in Nat
  <2>1. q \in [open : Nat, prev_close : Nat]
    BY PicksAssumption
  <2> QED  BY <2>1, PickConstants
<1>2. x \in Int /\ m \in Int
  BY <1>1
<1>3. ~ (Abs(g) > MaxGap)
  <2>1. GapPct(q) = g
    BY <1>1 DEF GapPct
  <2> QED  BY <2>1 DEF GapTooLarge
<1> HIDE DEF x
<1>4. g \in Int /\ r \in Int /\ 0 <= r /\ r < d /\ x = d * g + r
  <2> HIDE DEF d
  <2> QED  BY <1>1, <1>2
<1> HIDE DEF g, r
<1>5. g <= MaxGap /\ -MaxGap <= g
  BY <1>1, <1>3, <1>4 DEF Abs
<1>6. d * g <= d * MaxGap /\ d * (-MaxGap) <= d * g /\ m = d * MaxGap /\ d * (-MaxGap) = -m
  <2>1. ASSUME NEW e \in Nat \ {0}, NEW a \in Int, NEW b \in Int, a <= b PROVE e * a <= e * b
    BY <2>1
  <2>2. ASSUME NEW e \in Nat \ {0}, NEW a \in Int PROVE e * (-a) = -(a * e) /\ e * a = a * e
    OBVIOUS
  <2>3. -MaxGap \in Int
    BY <1>1
  <2> HIDE DEF d
  <2>4. d * g <= d * MaxGap /\ d * (-MaxGap) <= d * g
    BY <1>1, <1>4, <1>5, <2>1, <2>3
  <2> QED  BY <1>1, <2>2, <2>4
<1> DEFINE dg == d * g
<1>7. dg \in Int /\ dg <= m /\ -m <= dg
  <2> HIDE DEF d, m
  <2>1. dg \in Int
    BY <1>1, <1>4
  <2> QED  BY <1>1, <1>2, <1>6, <2>1
<1>8. x = dg + r
  BY <1>4
<1>9. Abs(x) <= m + d
  <2> HIDE DEF dg, m, d
  <2> QED  BY <1>1, <1>2, <1>4, <1>7, <1>8 DEF Abs
<1> QED  BY <1>9 DEF x, d, m

-----------------------------------------------------------------------------
(* opening_range.py: a breakout is of a survivor, at a price of the tick. *)
Triggered(t, pick) ==
  /\ t.symbol = pick.symbol /\ t.pick = pick
  /\ t.dir \in {1, -1} /\ t.price \in TickPrices /\ t.strength \in Int
  /\ t.dir = -1 => pick.short_room >= pick.long_room

LEMMA StrengthTyped ==
  ASSUME NEW distance \in Int, NEW atr \in Int, NEW volume \in Nat, NEW baseline \in Nat
  PROVE  Strength(distance, atr, volume, baseline) \in Int
<1> DEFINE a == Most(atr, 1)
           more == (volume * 10) \div baseline
           surge == IF baseline > 0 THEN Most(more, 10) ELSE 10
           x == distance * 100 * surge
<1>1. a \in Nat \ {0}
  BY DEF Most
<1>2. surge \in Int
  <2>1. CASE baseline > 0
    <3>1. volume * 10 \in Nat /\ baseline \in Nat \ {0}
      BY <2>1
    <3>2. more \in Int
      BY <3>1, Euclid
    <3> HIDE DEF more
    <3> QED  BY <2>1, <3>2 DEF Most
  <2>2. CASE ~ (baseline > 0)
    BY <2>2
  <2> QED  BY <2>1, <2>2
<1>3. Strength(distance, atr, volume, baseline) = x \div a
  BY DEF Strength
<1> HIDE DEF a, surge
<1>4. x \in Int
  <2>1. distance * 100 \in Int
    OBVIOUS
  <2> QED  BY <1>2, <2>1
<1> HIDE DEF x
<1>5. x \div a \in Int
  BY <1>1, <1>4
<1> QED  BY <1>3, <1>5

LEMMA BreakoutsTyped ==
  ASSUME NEW pick \in Picks, NEW r \in Ranges, NEW price \in TickPrices, NEW volume \in TickVolumes,
         BreakoutTrigger(pick, r, price, volume) # NoTrade
  PROVE  Triggered(BreakoutTrigger(pick, r, price, volume), pick)
<1> DEFINE up == ((price - r.high) * 1000) \div r.high
           down == ((r.low - price) * 1000) \div r.low
           t == BreakoutTrigger(pick, r, price, volume)
<1>1. /\ price \in Nat /\ volume \in Nat
      /\ r.high \in Nat \ {0} /\ r.low \in Nat \ {0} /\ r.avg_volume \in Nat
  <2>1. r \in [high : Nat \ {0}, low : Nat \ {0}, avg_volume : Nat]
    BY PicksAssumption
  <2>2. price \in Nat /\ volume \in Nat
    BY PicksAssumption
  <2> QED  BY <2>1, <2>2
<1>2. pick.atr \in Int
  BY DEF Picks
<1>3. up \in Int /\ down \in Int
  <2>1. ASSUME NEW x \in Int, NEW d \in Nat \ {0} PROVE (x * 1000) \div d \in Int
    OBVIOUS
  <2>2. price - r.high \in Int /\ r.low - price \in Int
    BY <1>1
  <2> QED  BY <1>1, <2>1, <2>2
<1> HIDE DEF up, down
<1>4. /\ Strength(up, pick.atr, volume, r.avg_volume) \in Int
      /\ Strength(down, pick.atr, volume, r.avg_volume) \in Int
  BY <1>1, <1>2, <1>3, StrengthTyped
<1>5. \/ t = Fired(pick, 1, price, up, volume, r.avg_volume)
      \/ /\ t = Fired(pick, -1, price, down, volume, r.avg_volume)
         /\ pick.short_room >= pick.long_room
  BY DEF BreakoutTrigger, up, down
<1> HIDE DEF t
<1>6. CASE t = Fired(pick, 1, price, up, volume, r.avg_volume)
  <2>1. /\ t.symbol = pick.symbol /\ t.pick = pick /\ t.dir = 1 /\ t.price = price
        /\ t.strength = Strength(up, pick.atr, volume, r.avg_volume)
    BY <1>6 DEF Fired
  <2> QED  BY <1>4, <2>1 DEF Triggered, t
<1>7. CASE /\ t = Fired(pick, -1, price, down, volume, r.avg_volume)
           /\ pick.short_room >= pick.long_room
  <2>1. /\ t.symbol = pick.symbol /\ t.pick = pick /\ t.dir = -1 /\ t.price = price
        /\ t.strength = Strength(down, pick.atr, volume, r.avg_volume)
    BY <1>7 DEF Fired
  <2> QED  BY <1>4, <1>7, <2>1 DEF Triggered, t
<1> QED  BY <1>5, <1>6, <1>7

(* selection.py: of finitely many breakouts one is the strongest. *)
LEMMA StrongestIsChosen ==
  ASSUME NEW ts, IsFiniteSet(ts), ts # {}, \A t \in ts : t.strength \in Int /\ t.symbol \in Nat
  PROVE  /\ SelectTrigger(ts) \in ts
         /\ \A o \in ts : o.strength <= SelectTrigger(ts).strength
<1> DEFINE beaten == [t \in ts |-> {o \in ts : Stronger(o, t)}]
<1>1. beaten \in [ts -> SUBSET ts] /\ \A t, o \in ts : o \in beaten[t] <=> Stronger(o, t)
  OBVIOUS
<1> HIDE DEF beaten
<1>2. Order(ts, beaten)
  <2>1. \A m \in ts : m \notin beaten[m]
    BY <1>1 DEF Stronger
  <2>2. \A m \in ts : \A o \in beaten[m] : beaten[o] \subseteq beaten[m]
    <3> SUFFICES ASSUME NEW m \in ts, NEW o \in beaten[m], NEW q \in beaten[o]
                 PROVE  q \in beaten[m]
      OBVIOUS
    <3>1. o \in ts /\ q \in ts
      BY <1>1
    <3>2. Stronger(o, m) /\ Stronger(q, o)
      BY <1>1, <3>1
    <3>3. Stronger(q, m)
      BY <3>1, <3>2 DEF Stronger
    <3> QED  BY <1>1, <3>1, <3>3
  <2> QED  BY <2>1, <2>2 DEF Order
<1>3. PICK m \in ts : beaten[m] = {}
  BY <1>1, <1>2, FirstOne
<1>4. \A o \in ts : ~ Stronger(o, m)
  BY <1>1, <1>3
<1>5. SelectTrigger(ts) \in ts /\ \A o \in ts : ~ Stronger(o, SelectTrigger(ts))
  BY <1>4 DEF SelectTrigger
<1> DEFINE c == SelectTrigger(ts)
<1>6. c \in ts /\ \A o \in ts : ~ Stronger(o, c)
  BY <1>5
<1> HIDE DEF c
<1>7. \A o \in ts : o.strength <= c.strength
  BY <1>6 DEF Stronger
<1> QED  BY <1>6, <1>7 DEF c

-----------------------------------------------------------------------------
(* risk.py *)
(* What a plan's numbers are: the stop is as far on the losing side as the pick
   says, the target on the other, and the quantity fits the budget. *)
Bracketed(t, p) ==
  /\ p.symbol = t.symbol /\ p.dir = t.dir
  /\ p.dir * (p.entry - p.stop) = (t.price * t.pick.stop) \div 1000
  /\ p.dir * (p.target - p.entry) = (t.price * t.pick.target) \div 1000
  /\ Abs(p.entry - p.stop) = (t.price * t.pick.stop) \div 1000
  /\ Abs(p.target - p.entry) = (t.price * t.pick.target) \div 1000
  /\ (t.price * t.pick.stop) \div 1000 > 0
  /\ (t.price * t.pick.target) \div 1000 > 0
  /\ p.qty * Abs(p.entry - p.stop) * 1000 <= TradeCapital * RiskPct

LEMMA PlanHolds ==
  ASSUME NEW t, NEW pick \in Picks, Triggered(t, pick), PlanTrade(t) # NoTrade
  PROVE  Bracketed(t, PlanTrade(t))
<1> DEFINE price == t.price
           dir == t.dir
           ds == (price * pick.stop) \div 1000
           dt == (price * pick.target) \div 1000
           target == price + dir * dt
           stop == price - dir * ds
           qty == PositionSize(TradeCapital, price, stop, RiskPct)
           budget == TradeCapital * RiskPct
<1>1. /\ price \in Nat /\ price >= 50 /\ dir \in {1, -1} /\ t.pick = pick
      /\ pick.stop \in Nat \ {0} /\ pick.target \in 20 .. 50
  <2>1. price \in TickPrices /\ dir \in {1, -1} /\ t.pick = pick
    BY DEF Triggered
  <2>2. pick.stop \in Nat \ {0} /\ pick.target \in 20 .. 50
    BY DEF Picks, MinTarget, MaxTarget
  <2> QED  BY <2>1, <2>2, PicksAssumption
<1>2. ComputeLevels(price, dir, pick.target, pick.stop) = [target |-> target, stop |-> stop]
  BY DEF ComputeLevels
<1>3. PlanTrade(t) = IF qty <= 0 THEN NoTrade
                     ELSE [symbol |-> t.symbol, dir |-> dir, entry |-> price,
                           stop |-> stop, target |-> target, qty |-> qty]
  <2> DEFINE levels == ComputeLevels(price, dir, pick.target, pick.stop)
  <2>1. levels.target = target /\ levels.stop = stop
    BY <1>2
  <2> HIDE DEF target, stop
  <2> QED  BY <1>1, <2>1 DEF PlanTrade, levels
<1>4. ds \in Nat
  <2>1. price * pick.stop \in Nat
    BY <1>1
  <2> QED  BY <2>1, Euclid
<1>5. dt \in Nat /\ dt > 0
  <2> DEFINE g == pick.target
             x == price * g
  <2>1. g \in Nat /\ g >= 20
    BY <1>1
  <2> HIDE DEF g, price
  <2>2. x \in Nat /\ x >= 1000
    <3>1. x \in Nat
      BY <1>1, <2>1
    <3>2. price * g >= 50 * g
      BY <1>1, <2>1
    <3> QED  BY <2>1, <3>1, <3>2
  <2> HIDE DEF x
  <2>3. x \div 1000 \in Nat /\ x \div 1000 > 0
    BY <2>2
  <2> QED  BY <2>3 DEF x, g
<1> HIDE DEF ds, dt
<1>6. /\ dir * (price - stop) = ds /\ dir * (target - price) = dt
      /\ Abs(price - stop) = ds /\ Abs(target - price) = dt
  <2>1. CASE dir = 1
    BY <1>1, <1>4, <1>5, <2>1 DEF Abs
  <2>2. CASE dir = -1
    BY <1>1, <1>4, <1>5, <2>2 DEF Abs
  <2> QED  BY <1>1, <2>1, <2>2
<1>7. budget \in Nat
  BY PickConstants
<1>8. qty = IF ds <= 0 \/ TradeCapital <= 0 \/ RiskPct <= 0 THEN 0 ELSE (budget \div 1000) \div ds
  <2> HIDE DEF stop
  <2> QED  BY <1>6 DEF PositionSize
<1> DEFINE p == [symbol |-> t.symbol, dir |-> dir, entry |-> price,
                 stop |-> stop, target |-> target, qty |-> qty]
<1>9. ~ (qty <= 0) /\ PlanTrade(t) = p
  <2> HIDE DEF qty
  <2> QED  BY <1>3
<1>10. /\ p.symbol = t.symbol /\ p.dir = dir /\ p.entry = price /\ p.stop = stop
       /\ p.target = target /\ p.qty = qty
  <2> HIDE DEF qty, stop, target
  <2> QED  OBVIOUS
<1> HIDE DEF p, qty, stop, target
<1>11. ds > 0 /\ qty = (budget \div 1000) \div ds
  <2>1. ds <= 0 \/ TradeCapital <= 0 \/ RiskPct <= 0 => qty = 0
    BY <1>8
  <2>2. ~ (ds <= 0 \/ TradeCapital <= 0 \/ RiskPct <= 0)
    BY <1>9, <2>1
  <2>3. qty = (budget \div 1000) \div ds
    BY <1>8, <2>2
  <2> QED  BY <1>4, <2>2, <2>3
<1>12. qty * ds * 1000 <= budget
  <2> DEFINE b == budget \div 1000
  <2> HIDE DEF budget
  <2>1. b \in Nat /\ b * 1000 <= budget
    BY <1>7
  <2>2. qty = b \div ds
    BY <1>11
  <2> HIDE DEF b
  <2>3. qty \in Int /\ b % ds \in Int /\ 0 <= b % ds /\ b = ds * qty + (b % ds)
    <3>1. ds \in Nat \ {0}
      BY <1>4, <1>11
    <3> QED  BY <2>1, <2>2, <3>1, Euclid
  <2>4. qty * ds \in Int /\ qty * ds = ds * qty
    BY <1>4, <2>3
  <2> DEFINE x == qty * ds
             r == b % ds
  <2>5. x \in Int /\ r \in Int /\ 0 <= r /\ b = x + r
    BY <2>3, <2>4
  <2> HIDE DEF x, r
  <2>6. x * 1000 <= budget
    BY <1>7, <2>1, <2>5
  <2> QED  BY <2>6 DEF x
<1>13. p.qty * Abs(p.entry - p.stop) * 1000 <= TradeCapital * RiskPct
  BY <1>6, <1>10, <1>12
<1>14. /\ p.dir * (p.entry - p.stop) = ds /\ p.dir * (p.target - p.entry) = dt
       /\ Abs(p.entry - p.stop) = ds /\ Abs(p.target - p.entry) = dt
  BY <1>6, <1>10
<1>15. ds = (t.price * t.pick.stop) \div 1000 /\ dt = (t.price * t.pick.target) \div 1000
  BY <1>1 DEF ds, dt
<1>16. Bracketed(t, p)
  BY <1>5, <1>10, <1>11, <1>13, <1>14, <1>15 DEF Bracketed
<1> QED  BY <1>9, <1>16

(* The screener's stop is its target over the reward to risk. *)
LEMMA RewardCoversRisk ==
  ASSUME NEW pick, Screened(pick), NEW price \in Nat
  PROVE  (price * pick.target) \div 1000 + 1 >= RewardRisk * ((price * pick.stop) \div 1000)
<1> DEFINE g == pick.target
           s == pick.stop
           k == RewardRisk
           ds == (price * s) \div 1000
           dt == (price * g) \div 1000
<1>1. k \in Nat \ {0} /\ g \in Nat /\ s \in Nat /\ s = g \div k
  BY PickConstants DEF Screened, Picks, MinTarget, MaxTarget
<1> HIDE DEF g, s, k
<1>2. k * s <= g
  <2>1. g % k \in Int /\ 0 <= g % k /\ g = k * s + (g % k)
    BY <1>1, Euclid
  <2>2. k * s \in Int
    BY <1>1
  <2> QED  BY <1>1, <2>1, <2>2
<1> DEFINE ks == k * s
           ps == price * s
           pg == price * g
<1>3. ks \in Nat /\ ps \in Nat /\ pg \in Nat
  BY <1>1
<1>4. price * ks <= pg
  <2>1. ASSUME NEW p \in Nat, NEW a \in Nat, NEW b \in Nat, a <= b PROVE p * a <= p * b
    BY <2>1
  <2> HIDE DEF ks
  <2> QED  BY <1>1, <1>2, <1>3, <2>1 DEF ks
<1>5. price * ks = k * ps
  <2>1. ASSUME NEW p \in Nat, NEW a \in Nat, NEW b \in Nat PROVE p * (a * b) = a * (p * b)
    OBVIOUS
  <2> QED  BY <1>1, <2>1
<1>6. /\ ds \in Int /\ ps % 1000 \in Int /\ 0 <= ps % 1000 /\ ps = 1000 * ds + (ps % 1000)
      /\ dt \in Int /\ pg % 1000 \in Int /\ pg % 1000 < 1000 /\ pg = 1000 * dt + (pg % 1000)
  <2> HIDE DEF ps, pg
  <2>1. ASSUME NEW x \in Nat
        PROVE  /\ x \div 1000 \in Int /\ x % 1000 \in Int /\ 0 <= x % 1000 /\ x % 1000 < 1000
               /\ x = 1000 * (x \div 1000) + (x % 1000)
    OBVIOUS
  <2> QED  BY <1>3, <2>1 DEF ps, pg
<1> HIDE DEF ds, dt, ps, pg, ks
<1>7. 1000 * (k * ds) <= k * ps
  <2>1. ASSUME NEW a \in Nat, NEW d \in Int, NEW r \in Int, 0 <= r
        PROVE  1000 * (a * d) <= a * (1000 * d + r)
    <3>1. a * (1000 * d + r) = 1000 * (a * d) + a * r /\ a * r >= 0 /\ a * d \in Int /\ a * r \in Int
      BY <2>1
    <3> QED  BY <3>1
  <2> QED  BY <1>1, <1>6, <2>1
<1> DEFINE kd == k * ds
<1>8. kd \in Int /\ k * ps \in Int
  BY <1>1, <1>3, <1>6
<1>9. 1000 * kd <= 1000 * dt + (pg % 1000)
  BY <1>3, <1>4, <1>5, <1>6, <1>7, <1>8
<1> DEFINE r == pg % 1000
<1>10. r \in Int /\ r < 1000 /\ 1000 * kd <= 1000 * dt + r /\ dt \in Int
  BY <1>6, <1>9
<1> HIDE DEF r, kd
<1>11. dt + 1 >= kd
  BY <1>8, <1>10
<1> QED  BY <1>11 DEF ds, dt, kd, g, s, k

(* Of at most a hundred sessions the larger share is of more sessions. *)
LEMMA SharesTell ==
  ASSUME NEW n \in 1 .. 100, NEW a \in Nat, NEW b \in Nat,
         (a * 100) \div n >= (b * 100) \div n
  PROVE  a >= b
<1> DEFINE qa == (a * 100) \div n
           qb == (b * 100) \div n
           ra == (a * 100) % n
           rb == (b * 100) % n
<1>1. /\ qa \in Int /\ ra \in Int /\ 0 <= ra /\ ra < n /\ a * 100 = n * qa + ra
      /\ qb \in Int /\ rb \in Int /\ 0 <= rb /\ rb < n /\ b * 100 = n * qb + rb
  <2>1. a * 100 \in Nat /\ b * 100 \in Nat /\ n \in Nat \ {0}
    OBVIOUS
  <2> QED  BY <2>1, Euclid
<1>2. qa >= qb
  OBVIOUS
<1> HIDE DEF qa, qb, ra, rb
<1> SUFFICES ASSUME ~ (a >= b) PROVE FALSE
  OBVIOUS
<1>3. a * 100 + n <= b * 100
  OBVIOUS
<1>4. n * qb <= n * qa
  <2>1. ASSUME NEW m \in Nat, NEW x \in Int, NEW y \in Int, x <= y PROVE m * x <= m * y
    BY <2>1
  <2> QED  BY <1>1, <1>2, <2>1
<1> DEFINE x == n * qa
           y == n * qb
<1>5. x \in Int /\ y \in Int /\ y <= x /\ a * 100 = x + ra /\ b * 100 = y + rb
  BY <1>1, <1>4
<1> HIDE DEF x, y
<1> QED  BY <1>1, <1>3, <1>5

-----------------------------------------------------------------------------
(* The inductive invariant: what each phase hands to the next one. *)
ScreenedInv == frames \in [Universe -> Frames] /\ rawfile \in FilesOf(frames)
LoadedInv == IF Raises(rawfile) THEN kitty = Unloaded /\ survivors = <<>>
             ELSE kitty = Kitty(rawfile)
FilteredInv == survivors \in Seq(Stood(kitty.picks))
SeenInv ==
  /\ IsFiniteSet(triggers)
  /\ \A t \in triggers : \E i \in 1 .. Len(survivors) : Triggered(t, survivors[i].pick)
PlannedInv == trade = IF triggers = {} THEN NoTrade ELSE PlanTrade(SelectTrigger(triggers))

Phases == {"night", "screened", "loaded", "raised", "filtered", "seen", "planned"}

PickInv ==
  /\ phase \in Phases
  /\ phase # "night" => ScreenedInv
  /\ phase \in {"night", "screened"} => kitty = Unloaded /\ survivors = <<>>
  /\ phase \notin {"night", "screened"} => LoadedInv
  /\ phase = "raised" => Raises(rawfile)
  /\ phase \in {"loaded", "filtered"} => ~ Raises(rawfile)
  /\ phase \in {"filtered", "seen", "planned"} => FilteredInv
  /\ phase \in {"seen", "planned"} => SeenInv
  /\ phase = "planned" => PlannedInv
  /\ phase # "planned" => trade = NoTrade

(* What a file holds. *)
LEMMA FileTyped ==
  ASSUME NEW fs \in [Universe -> Frames], NEW file \in FilesOf(fs)
  PROVE  /\ file.picks \in Seq(RawPicks)
         /\ file.ok /\ file.list /\ file.picks \notin HandMade =>
              /\ file.picks = Rank(Metrics(fs)) /\ ScreenedFile(file.picks)
              /\ ~ Raises(file)
<1>1. /\ Rank(Metrics(fs)) \in Seq(Metrics(fs)) /\ Len(Rank(Metrics(fs))) <= MaxPicks
      /\ Distinct(Rank(Metrics(fs)))
  BY MetricsTyped, RankHolds DEF Distinct
<1> DEFINE best == Rank(Metrics(fs))
<1>2. /\ best \in Seq(Metrics(fs)) /\ Len(best) <= MaxPicks /\ Distinct(best)
  BY <1>1
<1>3. \A m \in Metrics(fs) : Screened(m) /\ m \in Picks
  BY MetricsTyped DEF Screened
<1> HIDE DEF best
<1>4. best \in Seq(Picks) /\ ScreenedFile(best)
  BY <1>2, <1>3 DEF ScreenedFile
<1>5. best \in Seq(RawPicks)
  BY <1>4, PicksAreRaw
<1>6. HandMade \subseteq Seq(RawPicks) /\ <<>> \in Seq(RawPicks)
  BY PicksAssumption
<1>7. \/ \E raw \in {best} \cup HandMade : file = [ok |-> TRUE, list |-> TRUE, picks |-> raw]
      \/ \E b \in BOOLEAN : file = [ok |-> b, list |-> FALSE, picks |-> <<>>]
  BY DEF FilesOf, best
<1>8. CASE \E b \in BOOLEAN : file = [ok |-> b, list |-> FALSE, picks |-> <<>>]
  <2>1. file.picks = <<>> /\ file.list = FALSE
    BY <1>8
  <2> QED  BY <1>6, <2>1
<1>9. CASE \E raw \in {best} \cup HandMade : file = [ok |-> TRUE, list |-> TRUE, picks |-> raw]
  <2>1. PICK raw \in {best} \cup HandMade : file = [ok |-> TRUE, list |-> TRUE, picks |-> raw]
    BY <1>9
  <2>2. file.picks = raw /\ file.list = TRUE
    BY <2>1
  <2>3. raw \in Seq(RawPicks)
    BY <1>5, <1>6
  <2>4. ASSUME raw = best PROVE ~ Raises(file)
    <3>1. \A i \in DOMAIN best : best[i].prev_close = "price"
      <4>1. DOMAIN best = 1 .. Len(best)
        BY <1>4
      <4> QED  BY <1>4, <4>1 DEF ScreenedFile, Screened
    <3>2. "price" # "text"
      OBVIOUS
    <3> QED  BY <2>2, <2>4, <3>1, <3>2 DEF Raises
  <2> QED  BY <1>4, <2>2, <2>3, <2>4 DEF best
<1> QED  BY <1>7, <1>8, <1>9

LEMMA PicksInitially == PickInit => PickInv
BY DEF PickInit, PickInv, Phases

LEMMA PicksKept == PickInv /\ [PickNext]_pickVars => PickInv'
<1> SUFFICES ASSUME PickInv, [PickNext]_pickVars PROVE PickInv'
  OBVIOUS
<1>1. CASE ScreenUniverse
  <2>1. /\ phase' = "screened" /\ trade' = NoTrade
        /\ frames' \in [Universe -> Frames] /\ rawfile' \in FilesOf(frames')
        /\ kitty' = Unloaded /\ survivors' = <<>>
    BY <1>1 DEF ScreenUniverse, PickInv
  <2>2. ScreenedInv'
    BY <2>1 DEF ScreenedInv
  <2> QED  BY <2>1, <2>2 DEF PickInv, Phases
<1>2. CASE LoadKitty
  <2>1. /\ phase = "screened" /\ trade' = NoTrade /\ kitty = Unloaded /\ survivors = <<>>
        /\ frames' = frames /\ rawfile' = rawfile /\ survivors' = survivors /\ ScreenedInv
    BY <1>2 DEF LoadKitty, PickInv
  <2>2. ScreenedInv'
    BY <2>1 DEF ScreenedInv
  <2>3. Raises(rawfile)' <=> Raises(rawfile)
    BY <2>1 DEF Raises
  <2>4. CASE Raises(rawfile)
    <3>1. phase' = "raised" /\ kitty' = kitty
      BY <1>2, <2>4 DEF LoadKitty
    <3>2. LoadedInv'
      BY <2>1, <2>3, <2>4, <3>1 DEF LoadedInv
    <3> QED  BY <2>1, <2>2, <2>3, <2>4, <3>1, <3>2 DEF PickInv, Phases
  <2>5. CASE ~ Raises(rawfile)
    <3>1. phase' = "loaded" /\ kitty' = Kitty(rawfile)
      BY <1>2, <2>5 DEF LoadKitty
    <3>2. LoadedInv'
      BY <2>1, <2>3, <2>5, <3>1 DEF LoadedInv
    <3> QED  BY <2>1, <2>2, <2>3, <2>5, <3>1, <3>2 DEF PickInv, Phases
  <2> QED  BY <2>4, <2>5
<1>3. CASE ApplyFilters
  <2>1. PICK quotes \in Quoted(kitty.picks) : survivors' = Surviving(kitty.picks, quotes)
    BY <1>3 DEF ApplyFilters, Quoted
  <2>2. /\ phase = "loaded" /\ phase' = "filtered" /\ trade' = NoTrade
        /\ kitty' = kitty /\ frames' = frames /\ rawfile' = rawfile
    BY <1>3 DEF ApplyFilters, PickInv
  <2>3. ScreenedInv /\ LoadedInv /\ ~ Raises(rawfile)
    BY <2>2 DEF PickInv
  <2>4. kitty.picks \in Seq(Picks)
    BY <2>3, FileTyped, KittyLoads DEF ScreenedInv, LoadedInv, Kitties
  <2>5. survivors' \in Seq(Stood(kitty.picks))
    BY <2>1, <2>4, SurvivorsStood
  <2>6. ~ Raises(rawfile)'
    BY <2>2, <2>3 DEF Raises
  <2>7. ScreenedInv' /\ LoadedInv' /\ FilteredInv'
    BY <2>2, <2>3, <2>5, <2>6 DEF ScreenedInv, LoadedInv, FilteredInv
  <2> QED  BY <2>2, <2>6, <2>7 DEF PickInv, Phases
<1>4. CASE SeeBreakouts
  <2> DEFINE inputs == [range : Ranges, price : TickPrices, volume : TickVolumes]
             N == Len(survivors)
  <2>1. PICK ticks \in TickInputs(Len(survivors)) :
          triggers' = {BreakoutTrigger(survivors[i].pick, ticks[i].range, ticks[i].price,
                                       ticks[i].volume)
                         : i \in {j \in DOMAIN survivors : ticks[j] # NoQuote}} \ {NoTrade}
    BY <1>4 DEF SeeBreakouts
  <2>2. /\ phase \in {"filtered", "raised"} /\ phase' = "seen" /\ trade' = NoTrade /\ survivors' = survivors
        /\ kitty' = kitty /\ frames' = frames /\ rawfile' = rawfile
    BY <1>4 DEF SeeBreakouts, PickInv
  <2>3. ScreenedInv /\ LoadedInv
    BY <2>2 DEF PickInv
  <2>4. kitty.picks \in Seq(Picks) /\ FilteredInv
    <3>1. CASE Raises(rawfile)
      <4>1. kitty.picks = <<>> /\ survivors = <<>>
        BY <2>3, <3>1 DEF LoadedInv, Unloaded
      <4> QED  BY <4>1 DEF FilteredInv
    <3>2. CASE ~ Raises(rawfile)
      <4>1. FilteredInv
        BY <2>2, <3>2 DEF PickInv
      <4> QED  BY <2>3, <3>2, <4>1, FileTyped, KittyLoads DEF ScreenedInv, LoadedInv, Kitties
    <3> QED  BY <3>1, <3>2
  <2>5. N \in Nat /\ DOMAIN survivors = 1 .. N
        /\ \A i \in 1 .. N : survivors[i] \in Stood(kitty.picks)
    BY <2>4 DEF FilteredInv
  <2>6. ASSUME NEW i \in 1 .. N PROVE survivors[i].pick \in Picks
    <3>1. survivors[i].pick \in {kitty.picks[j] : j \in 1 .. Len(kitty.picks)}
      BY <2>5 DEF Stood
    <3> QED  BY <2>4, <3>1
  <2>7. ASSUME NEW i \in 1 .. N, ticks[i] # NoQuote PROVE ticks[i] \in inputs
    <3>1. ticks[i] \in {NoQuote} \cup inputs
      BY DEF TickInputs
    <3> QED  BY <2>7, <3>1
  <2> DEFINE seen == {j \in 1 .. N : ticks[j] # NoQuote}
             f == [i \in seen |-> BreakoutTrigger(survivors[i].pick, ticks[i].range,
                                                  ticks[i].price, ticks[i].volume)]
  <2>8. triggers' = {f[i] : i \in seen} \ {NoTrade}
    BY <2>1, <2>5
  <2>9. IsFiniteSet(triggers')
    <3>1. IsFiniteSet(seen)
      <4>1. IsFiniteSet(1 .. N)
        BY <2>5, FS_Interval
      <4> QED  BY <4>1, FS_Subset
    <3>2. DOMAIN f = seen /\ f \in [seen -> {f[i] : i \in seen}]
      OBVIOUS
    <3>3. IsFiniteSet({f[i] : i \in seen})
      <4> HIDE DEF f, seen
      <4> QED  BY <3>1, <3>2, FinitelyManyValues
    <3> QED  BY <2>8, <3>3, FS_Subset
  <2>10. ASSUME NEW t \in triggers'
         PROVE  \E i \in 1 .. Len(survivors) : Triggered(t, survivors[i].pick)
    <3>1. PICK i \in seen : t = f[i] /\ t # NoTrade
      <4> HIDE DEF f, seen
      <4> QED  BY <2>8
    <3>2. i \in 1 .. N /\ ticks[i] # NoQuote
      OBVIOUS
    <3>3. ticks[i].range \in Ranges /\ ticks[i].price \in TickPrices /\ ticks[i].volume \in TickVolumes
      <4>1. ticks[i] \in inputs
        BY <2>7, <3>2
      <4> QED  BY <4>1
    <3>4. t = BreakoutTrigger(survivors[i].pick, ticks[i].range, ticks[i].price, ticks[i].volume)
      BY <3>1
    <3>5. Triggered(t, survivors[i].pick)
      BY <2>6, <3>1, <3>2, <3>3, <3>4, BreakoutsTyped
    <3> QED  BY <3>2, <3>5
  <2>11. SeenInv'
    BY <2>2, <2>9, <2>10 DEF SeenInv
  <2>12. ScreenedInv' /\ LoadedInv' /\ FilteredInv'
    BY <2>2, <2>3, <2>4 DEF ScreenedInv, LoadedInv, FilteredInv, Raises
  <2> QED  BY <2>2, <2>11, <2>12 DEF PickInv, Phases
<1>5. CASE TakeStrongest
  <2>1. /\ phase = "seen" /\ phase' = "planned" /\ survivors' = survivors /\ triggers' = triggers
        /\ kitty' = kitty /\ frames' = frames /\ rawfile' = rawfile
        /\ trade' = IF triggers = {} THEN NoTrade ELSE PlanTrade(SelectTrigger(triggers))
    BY <1>5 DEF TakeStrongest
  <2>2. ScreenedInv /\ LoadedInv /\ FilteredInv /\ SeenInv
    BY <2>1 DEF PickInv
  <2>3. ScreenedInv' /\ LoadedInv' /\ FilteredInv' /\ SeenInv'
    BY <2>1, <2>2 DEF ScreenedInv, LoadedInv, FilteredInv, SeenInv, Raises
  <2>4. PlannedInv'
    BY <2>1 DEF PlannedInv
  <2> QED  BY <2>1, <2>3, <2>4 DEF PickInv, Phases
<1>6. CASE UNCHANGED pickVars
  BY <1>6 DEF PickInv, pickVars, ScreenedInv, LoadedInv, FilteredInv, SeenInv, PlannedInv, Raises
<1> QED  BY <1>1, <1>2, <1>3, <1>4, <1>5, <1>6 DEF PickNext

-----------------------------------------------------------------------------
(* What the invariant means for the day. *)
LEMMA BestAreRanked == PickInv => RankedAreTheBest
<1> SUFFICES ASSUME PickInv, phase = "screened", Screeners
             PROVE  LET listed == {rawfile.picks[i] : i \in DOMAIN rawfile.picks}
                    IN  \A p \in listed, m \in Metrics(frames) \ listed : m.score <= p.score
  BY DEF RankedAreTheBest
<1> DEFINE raw == rawfile.picks
           listed == {raw[i] : i \in DOMAIN raw}
           ms == Metrics(frames)
<1>1. frames \in [Universe -> Frames] /\ rawfile \in FilesOf(frames)
  BY DEF PickInv, ScreenedInv
<1>2. raw = Rank(ms) /\ raw \in Seq(Picks)
  BY <1>1, FileTyped DEF ScreenedFile, Screeners
<1>3. \A i \in 1 .. Len(raw), m \in ms :
        (\A j \in 1 .. Len(raw) : raw[j] # m) => m.score <= raw[i].score
  BY <1>1, <1>2, MetricsTyped, RankHolds
<1>4. DOMAIN raw = 1 .. Len(raw)
  BY <1>2
<1> HIDE DEF raw, ms
<1> SUFFICES ASSUME NEW p \in listed, NEW m \in ms \ listed PROVE m.score <= p.score
  BY DEF raw, ms
<1>5. PICK i \in 1 .. Len(raw) : p = raw[i]
  BY <1>4
<1>6. \A j \in 1 .. Len(raw) : raw[j] # m
  BY <1>4
<1> QED  BY <1>3, <1>5, <1>6

(* The loaded kitty, in every phase after. *)
LEMMA LoadedKitty ==
  ASSUME PickInv, phase \notin {"night", "screened"}
  PROVE  /\ kitty.picks \in Seq(Picks)
         /\ frames \in [Universe -> Frames]
         /\ ~ Raises(rawfile) => kitty.picks \in Kitties /\ Len(kitty.picks) \in 1 .. MaxPicks
         /\ kitty = Unloaded => survivors = <<>>
         /\ kitty.source = "json" /\ Screeners =>
              /\ kitty.picks = rawfile.picks /\ kitty.picks = Rank(Metrics(frames))
              /\ \A i \in 1 .. Len(kitty.picks) : kitty.picks[i] \in Metrics(frames)
<1>1. frames \in [Universe -> Frames] /\ rawfile \in FilesOf(frames) /\ LoadedInv
  BY DEF PickInv, ScreenedInv
<1>2. rawfile.picks \in Seq(RawPicks)
  BY <1>1, FileTyped
<1>3. CASE Raises(rawfile)
  <2>1. kitty = Unloaded /\ survivors = <<>>
    BY <1>1, <1>3 DEF LoadedInv
  <2>2. kitty.picks = <<>> /\ kitty.source = "none"
    BY <2>1 DEF Unloaded
  <2>3. kitty.source # "json"
    BY <2>2
  <2>4. <<>> \in Seq(Picks)
    OBVIOUS
  <2> QED  BY <1>1, <1>3, <2>1, <2>2, <2>3, <2>4
<1>4. CASE ~ Raises(rawfile)
  <2>1. kitty = Kitty(rawfile)
    BY <1>1, <1>4 DEF LoadedInv
  <2>2. kitty.picks \in Kitties /\ Len(kitty.picks) \in 1 .. MaxPicks
    BY <1>2, <2>1, KittyLoads
  <2>3. kitty # Unloaded
    <3>1. kitty.source = "json" \/ kitty.source = "fallback"
      BY <2>1 DEF Kitty
    <3>2. Unloaded.source = "none"
      BY DEF Unloaded
    <3> QED  BY <3>1, <3>2
  <2>4. ASSUME kitty.source = "json", Screeners
        PROVE  /\ kitty.picks = rawfile.picks /\ kitty.picks = Rank(Metrics(frames))
               /\ \A i \in 1 .. Len(kitty.picks) : kitty.picks[i] \in Metrics(frames)
    <3>1. rawfile.picks = Rank(Metrics(frames)) /\ ScreenedFile(rawfile.picks)
      BY <1>1, <2>4, FileTyped DEF Screeners
    <3>2. kitty.picks = rawfile.picks
      BY <1>2, <2>1, <2>4, <3>1, KittyLoads
    <3>3. Rank(Metrics(frames)) \in Seq(Metrics(frames))
      BY <1>1, MetricsTyped, RankHolds
    <3> DEFINE best == Rank(Metrics(frames))
               ms == Metrics(frames)
    <3>4. best \in Seq(ms)
      BY <3>3
    <3> HIDE DEF best, ms
    <3>5. \A i \in 1 .. Len(best) : best[i] \in ms
      BY <3>4
    <3> QED  BY <3>1, <3>2, <3>5 DEF best, ms
  <2>5. kitty.picks \in Seq(Picks)
    BY <2>2 DEF Kitties
  <2> QED  BY <1>1, <2>2, <2>3, <2>4, <2>5
<1> QED  BY <1>3, <1>4

LEMMA KittyIsGood == PickInv /\ phase = "loaded" =>
  /\ Len(kitty.picks) \in 1 .. MaxPicks
  /\ \A i, j \in DOMAIN kitty.picks :
       kitty.picks[i].symbol = kitty.picks[j].symbol => i = j
  /\ \A i \in DOMAIN kitty.picks :
       kitty.picks[i].target \in MinTarget .. MaxTarget /\ kitty.picks[i].stop > 0
  /\ kitty.source = "json" /\ Screeners => kitty.picks = rawfile.picks
<1> SUFFICES ASSUME PickInv, phase = "loaded"
             PROVE  /\ Len(kitty.picks) \in 1 .. MaxPicks
                    /\ \A i, j \in DOMAIN kitty.picks :
                         kitty.picks[i].symbol = kitty.picks[j].symbol => i = j
                    /\ \A i \in DOMAIN kitty.picks :
                         kitty.picks[i].target \in MinTarget .. MaxTarget /\ kitty.picks[i].stop > 0
                    /\ kitty.source = "json" /\ Screeners => kitty.picks = rawfile.picks
  OBVIOUS
<1> DEFINE k == kitty.picks
<1>1. /\ k \in Kitties /\ Len(k) \in 1 .. MaxPicks
      /\ kitty.source = "json" /\ Screeners => kitty.picks = rawfile.picks
  <2>1. ~ Raises(rawfile) /\ phase \notin {"night", "screened"}
    BY DEF PickInv
  <2> QED  BY <2>1, LoadedKitty
<1> HIDE DEF k
<1>2. k \in Seq(Picks) /\ Distinct(k) /\ DOMAIN k = 1 .. Len(k)
  BY <1>1 DEF Kitties
<1>3. ASSUME NEW i \in 1 .. Len(k) PROVE k[i].target \in MinTarget .. MaxTarget /\ k[i].stop > 0
  <2> DEFINE p == k[i]
  <2>1. p \in Picks
    BY <1>2
  <2> HIDE DEF p
  <2>2. p.target \in MinTarget .. MaxTarget /\ p.stop > 0
    BY <2>1 DEF Picks
  <2> QED  BY <2>2 DEF p
<1> QED  BY <1>1, <1>2, <1>3 DEF k, Distinct

(* The plan is of the strongest breakout, of a pick that survived. *)
Chosen(t, i) ==
  /\ phase = "planned"
  /\ t \in triggers /\ \A o \in triggers : o.strength <= t.strength
  /\ i \in 1 .. Len(survivors) /\ Triggered(t, survivors[i].pick)
  /\ survivors[i].pick \in Picks
  /\ \E j \in 1 .. Len(kitty.picks) : survivors[i].pick = kitty.picks[j]
  /\ Bracketed(t, trade)

LEMMA TradeIsChosen ==
  ASSUME PickInv, trade # NoTrade
  PROVE  \E t, i : Chosen(t, i)
<1>1. phase = "planned" /\ FilteredInv /\ SeenInv /\ PlannedInv
  BY DEF PickInv
<1>2. triggers # {} /\ trade = PlanTrade(SelectTrigger(triggers))
  BY <1>1 DEF PlannedInv
<1>3. kitty.picks \in Seq(Picks)
  BY <1>1, LoadedKitty
<1>4. ASSUME NEW i \in 1 .. Len(survivors)
      PROVE  /\ survivors[i].pick \in Picks
             /\ \E j \in 1 .. Len(kitty.picks) : survivors[i].pick = kitty.picks[j]
  <2>1. survivors[i] \in Stood(kitty.picks)
    BY <1>1 DEF FilteredInv
  <2>2. survivors[i].pick \in {kitty.picks[j] : j \in 1 .. Len(kitty.picks)}
    BY <2>1 DEF Stood
  <2> QED  BY <1>3, <2>2
<1>5. \A t \in triggers : t.strength \in Int /\ t.symbol \in Nat
  <2> SUFFICES ASSUME NEW t \in triggers PROVE t.strength \in Int /\ t.symbol \in Nat
    OBVIOUS
  <2>1. PICK i \in 1 .. Len(survivors) : Triggered(t, survivors[i].pick)
    BY <1>1 DEF SeenInv
  <2>2. survivors[i].pick.symbol \in Nat
    BY <1>4 DEF Picks
  <2> QED  BY <2>1, <2>2 DEF Triggered
<1> DEFINE t == SelectTrigger(triggers)
<1>6. t \in triggers /\ \A o \in triggers : o.strength <= t.strength
  BY <1>1, <1>2, <1>5, StrongestIsChosen DEF SeenInv
<1>7. trade = PlanTrade(t)
  BY <1>2
<1> HIDE DEF t
<1>8. PICK i \in 1 .. Len(survivors) : Triggered(t, survivors[i].pick)
  BY <1>1, <1>6 DEF SeenInv
<1>9. Bracketed(t, trade)
  BY <1>4, <1>7, <1>8, PlanHolds
<1> QED  BY <1>1, <1>4, <1>6, <1>8, <1>9 DEF Chosen

LEMMA StrongestIsTraded == PickInv => TradeIsTheStrongest
<1> SUFFICES ASSUME PickInv, phase = "planned", trade # NoTrade
             PROVE  /\ \E t \in triggers : /\ t.symbol = trade.symbol /\ t.dir = trade.dir
                                           /\ \A o \in triggers : o.strength <= t.strength
                    /\ \A i \in DOMAIN survivors :
                         survivors[i].pick.symbol = trade.symbol /\ survivors[i].quote.prev_close > 0 =>
                           Abs((survivors[i].quote.open - survivors[i].quote.prev_close) * 1000)
                             <= MaxGap * survivors[i].quote.prev_close + survivors[i].quote.prev_close
  BY DEF TradeIsTheStrongest
<1>1. PICK t, i : Chosen(t, i)
  BY TradeIsChosen
<1>2. /\ t \in triggers /\ t.symbol = trade.symbol /\ t.dir = trade.dir
      /\ \A o \in triggers : o.strength <= t.strength
  BY <1>1 DEF Chosen, Bracketed
<1>3. survivors \in Seq(Stood(kitty.picks)) /\ DOMAIN survivors = 1 .. Len(survivors)
  BY DEF PickInv, FilteredInv
<1>4. ASSUME NEW j \in 1 .. Len(survivors), survivors[j].quote.prev_close > 0
      PROVE  Abs((survivors[j].quote.open - survivors[j].quote.prev_close) * 1000)
               <= MaxGap * survivors[j].quote.prev_close + survivors[j].quote.prev_close
  <2> DEFINE q == survivors[j].quote
  <2>1. survivors[j] \in Stood(kitty.picks)
    BY <1>3
  <2>2. q \in OpenQuotes /\ ~ GapTooLarge(q)
    BY <2>1 DEF Stood
  <2>3. q.prev_close > 0
    BY <1>4
  <2> HIDE DEF q
  <2>4. Abs((q.open - q.prev_close) * 1000) <= MaxGap * q.prev_close + q.prev_close
    BY <2>2, <2>3, SmallGap
  <2> QED  BY <2>4 DEF q
<1> QED  BY <1>2, <1>3, <1>4

LEMMA RiskAndLevelsHold == PickInv => RiskWithinBudget /\ LevelsBracketTheEntry
<1> SUFFICES ASSUME PickInv, trade # NoTrade
             PROVE  /\ trade.qty * Abs(trade.entry - trade.stop) * 1000 <= TradeCapital * RiskPct
                    /\ trade.dir * (trade.entry - trade.stop) > 0
                    /\ trade.dir * (trade.target - trade.entry) > 0
                    /\ kitty.source = "json" /\ Screeners =>
                         Abs(trade.target - trade.entry) + 1 >= RewardRisk * Abs(trade.entry - trade.stop)
  BY DEF RiskWithinBudget, LevelsBracketTheEntry
<1>1. PICK t, i : Chosen(t, i)
  BY TradeIsChosen
<1>2. Bracketed(t, trade) /\ phase = "planned"
  BY <1>1 DEF Chosen
<1>3. /\ trade.qty * Abs(trade.entry - trade.stop) * 1000 <= TradeCapital * RiskPct
      /\ trade.dir * (trade.entry - trade.stop) > 0
      /\ trade.dir * (trade.target - trade.entry) > 0
  BY <1>2 DEF Bracketed
<1>4. ASSUME kitty.source = "json", Screeners
      PROVE  Abs(trade.target - trade.entry) + 1 >= RewardRisk * Abs(trade.entry - trade.stop)
  <2> DEFINE pick == survivors[i].pick
  <2>1. PICK j \in 1 .. Len(kitty.picks) : pick = kitty.picks[j]
    BY <1>1 DEF Chosen
  <2>2. pick \in Metrics(frames) /\ frames \in [Universe -> Frames]
    BY <1>2, <1>4, <2>1, LoadedKitty
  <2>3. Screened(pick)
    BY <2>2, MetricsTyped
  <2>4. t.pick = pick /\ t.price \in TickPrices
    BY <1>1 DEF Chosen, Triggered
  <2>5. t.price \in Nat
    BY <2>4, PicksAssumption
  <2> HIDE DEF pick
  <2>6. (t.price * pick.target) \div 1000 + 1 >= RewardRisk * ((t.price * pick.stop) \div 1000)
    BY <2>3, <2>5, RewardCoversRisk
  <2>7. /\ Abs(trade.target - trade.entry) = (t.price * pick.target) \div 1000
        /\ Abs(trade.entry - trade.stop) = (t.price * pick.stop) \div 1000
    BY <1>2, <2>4 DEF Bracketed
  <2> QED  BY <2>6, <2>7
<1> QED  BY <1>3, <1>4

LEMMA ShortsHold == PickInv => ShortsHaveRoom
<1> DEFINE bars == frames[trade.symbol].bars
<1> SUFFICES ASSUME PickInv, trade # NoTrade, trade.dir = -1, kitty.source = "json", Screeners
             PROVE  Cardinality(Downs(bars)) >= Cardinality(Ups(bars))
  BY DEF ShortsHaveRoom, Downs, Ups
<1>1. PICK t, i : Chosen(t, i)
  BY TradeIsChosen
<1> DEFINE pick == survivors[i].pick
<1>2. PICK j \in 1 .. Len(kitty.picks) : pick = kitty.picks[j]
  BY <1>1 DEF Chosen
<1>3. phase = "planned"
  BY <1>1 DEF Chosen
<1>4. pick \in Metrics(frames) /\ frames \in [Universe -> Frames]
  BY <1>2, <1>3, LoadedKitty
<1>5. /\ trade.symbol = pick.symbol /\ pick.short_room >= pick.long_room
  BY <1>1 DEF Chosen, Triggered, Bracketed
<1> HIDE DEF pick
<1>6. /\ pick.symbol \in Universe
      /\ pick.long_room = LongRoom(frames[pick.symbol].bars)
      /\ pick.short_room = ShortRoom(frames[pick.symbol].bars)
  BY <1>4, MetricsTyped
<1>7. frames[pick.symbol] \in Frames /\ bars = frames[pick.symbol].bars
  BY <1>4, <1>5, <1>6
<1>8. /\ LongRoom(bars) = (Cardinality(Ups(bars)) * 100) \div Len(bars)
      /\ ShortRoom(bars) = (Cardinality(Downs(bars)) * 100) \div Len(bars)
      /\ Cardinality(Ups(bars)) \in Nat /\ Cardinality(Downs(bars)) \in Nat
      /\ Len(bars) \in 1 .. 100
  BY <1>7, SharesTyped, FramesTyped
<1> HIDE DEF bars
<1>9. (Cardinality(Downs(bars)) * 100) \div Len(bars) >= (Cardinality(Ups(bars)) * 100) \div Len(bars)
  BY <1>5, <1>6, <1>7, <1>8
<1> QED  BY <1>8, <1>9, SharesTell

(* A kitty that loads is usable; a file that raises was written by hand, and its
   day has no trade. *)
LEMMA LoadsOrIdles == PickInv => KittyIsUsable /\ LoadKeepsTheScreenersPicks
<1> SUFFICES ASSUME PickInv PROVE KittyIsUsable /\ LoadKeepsTheScreenersPicks
  OBVIOUS
<1>1. phase = "raised" => rawfile.ok /\ ~ Screeners
  <2> SUFFICES ASSUME phase = "raised" PROVE rawfile.ok /\ ~ Screeners
    OBVIOUS
  <2>1. /\ Raises(rawfile) /\ frames \in [Universe -> Frames] /\ rawfile \in FilesOf(frames)
    BY DEF PickInv, ScreenedInv
  <2>2. rawfile.ok
    BY <2>1 DEF Raises
  <2>3. ~ Screeners
    BY <2>1, FileTyped DEF Screeners
  <2> QED  BY <2>2, <2>3
<1>2. kitty = Unloaded => trade = NoTrade
  <2> SUFFICES ASSUME kitty = Unloaded, trade # NoTrade PROVE FALSE
    OBVIOUS
  <2>1. PICK t, i : Chosen(t, i)
    BY TradeIsChosen
  <2>2. phase = "planned" /\ i \in 1 .. Len(survivors)
    BY <2>1 DEF Chosen
  <2>3. survivors = <<>>
    BY <2>2, LoadedKitty
  <2>4. Len(<<>>) = 0 /\ 1 .. 0 = {}
    OBVIOUS
  <2> QED  BY <2>2, <2>3, <2>4
<1> QED  BY <1>1, <1>2, KittyIsGood DEF KittyIsUsable, LoadKeepsTheScreenersPicks

(* From the screener's file to the order's size, whatever the universe, the
   frames, the files and the market (PicksArePrudent). *)
THEOREM PicksHold == PickSpec => []PicksArePrudent
<1>1. PickInv => PicksArePrudent
  BY BestAreRanked, LoadsOrIdles, StrongestIsTraded, RiskAndLevelsHold, ShortsHold
     DEF PicksArePrudent
<1> QED  BY PicksInitially, PicksKept, <1>1, PTL DEF PickSpec
=============================================================================
