-------------------------- MODULE ComponentProofs --------------------------
(***************************************************************************)
(* Theorems about the components that share no variable with another, for  *)
(* every value of their constants.                                         *)
(*   TradeManager   TypeCorrect, AlertsOnce, ClosedForGood, MarksGrow       *)
(*   OrderConfirm   implements OrderOutcome for any number of calls, shares *)
(*                  and polls: UnfilledStaysDead, OrderKeepsPromise         *)
(*   JsonStore      implements AtomicStore for any writers, processes and   *)
(*                  readers: StoreTypeCorrect, StoreIsARegister             *)
(*   CommandBot     CommandsHold                                            *)
(*   Radar          RadarKeepsItsLimits                                     *)
(***************************************************************************)
EXTENDS TradeManager, OrderConfirm, JsonStore, CommandBot, Radar, CountingTheorems

-----------------------------------------------------------------------------
(* The manual trades: the inductive invariant.                                                 *)

\* A handler that is about to book has priced a trade.
PricedInLog == \A p \in Procs : pc[p] = "log" => priced[p] # 0

\* Mutual exclusion, and what the lock is for: what its holder loaded is
\* still what the file says.
LockedFile ==
    \A p \in Procs : /\ pc[p] \in Locked <=> lock = p
                     /\ pc[p] \in Locked => view[p] = file

\* The second half of a first check has not marked the stop yet.
FirstStopOpen ==
    \A p \in Procs : pc[p] = "calibrated" => "SL" \notin view[p].hit

\* What has been announced, or is about to be, is marked in the file, or
\* belongs to a trade that was overwritten.
Announced(a) == \/ a[1] < file.opened
                \/ a[1] = file.opened /\ a[2] \in file.hit

AnnouncedIsMarked ==
    /\ \A a \in alerted : Announced(a)
    /\ \A p \in Procs : \A a \in pending[p] : Announced(a)

TypeInv == TypeOK /\ PricedInLog

LockInv == LockedFile /\ FirstStopOpen

Inv == TypeInv /\ LockInv /\ AnnouncedIsMarked /\ EachLevelAlertsOnce

-----------------------------------------------------------------------------
(* Trades.                                                                  *)

LEMMA NoTradeTyped == NoTrade \in Trade /\ NoQuote \in Quote
BY TradeAssumption DEF NoTrade, Trade, Trades, NoQuote, Quote

\* What a check newly hits is a set of levels not marked before.
LEMMA NewlyHitIsNew ==
    ASSUME NEW t, NEW q
    PROVE  NewlyHit(t, q) \subseteq Levels \ t.hit
BY DEF NewlyHit, StopHit, Levels

\* A check keeps the trade, adds to its marks and never lowers its
\* watermark.
LEMMA MarkedKeeps ==
    ASSUME NEW t \in Trade, NEW q \in Quote, t.mark # Unset
    PROVE  /\ Marked(t, q) \in Trade
           /\ Marked(t, q).opened = t.opened /\ Marked(t, q).active = t.active
           /\ Marked(t, q).hit = t.hit \cup NewlyHit(t, q)
           /\ Marked(t, q).mark \in Int /\ Marked(t, q).mark >= t.mark
<1>1. t.mark \in Int /\ q.high \in Int /\ t.hit \subseteq Levels
  BY DEF Trade, Quote
<1>2. NewlyHit(t, q) \subseteq Levels
  BY NewlyHitIsNew
<1> DEFINE mark == IF q.high > t.mark THEN q.high ELSE t.mark
<1>3. Marked(t, q) = [t EXCEPT !.mark = mark, !.hit = t.hit \cup NewlyHit(t, q)]
  BY DEF Marked, Trade
<1>4. mark \in Int /\ mark >= t.mark
  BY <1>1
<1> HIDE DEF mark
<1>5. QED
  BY <1>1, <1>2, <1>3, <1>4 DEF Trade

-----------------------------------------------------------------------------
(* Types.                                                                   *)

LEMMA InitTyped == Init => TypeInv
<1> SUFFICES ASSUME Init PROVE TypeInv
  OBVIOUS
<1>1. file \in Trade /\ view \in [Procs -> Trade] /\ quote \in [Procs -> Quote]
  BY NoTradeTyped DEF Init
<1>2. QED
  BY <1>1, TradeAssumption DEF Init, TypeInv, TypeOK, PricedInLog, Labels, Alert, Trades

\* Every save, and every load, leaves well-typed data behind.
LEMMA SaveTyped ==
    ASSUME TypeOK, NEW p \in Procs, NEW t \in Trade, Save(p, t)
    PROVE  /\ file' \in Trade /\ lock' \in Procs \cup {Free}
           /\ view' \in [Procs -> Trade] /\ quote' \in [Procs -> Quote]
BY NoTradeTyped DEF TypeOK, Save, Forget

LEMMA LoadTyped ==
    ASSUME TypeOK, NEW p \in Procs, Load(p)
    PROVE  /\ file' \in Trade /\ lock' \in Procs \cup {Free}
           /\ view' \in [Procs -> Trade] /\ quote' \in [Procs -> Quote]
           /\ pending' = pending /\ priced' = priced
BY DEF TypeOK, Load

LEMMA AlertsTyped ==
    ASSUME NEW t \in Trade, NEW s \in SUBSET Levels
    PROVE  AlertsOf(t, s) \subseteq Alert
BY TradeAssumption DEF AlertsOf, Alert, Trade, Trades

\* Every step keeps the types, and prices what it goes on to book.
LEMMA TypeStep == TypeInv /\ [Next]_vars => TypeInv'
<1> SUFFICES ASSUME TypeInv, [Next]_vars PROVE TypeInv'
  OBVIOUS
<1> USE DEF TypeInv
<1>1. ASSUME NEW p \in Checkers, Refresh(p) PROVE TypeInv'
  BY <1>1 DEF Refresh, TypeOK, PricedInLog, Labels, Procs, shared, market, At,
     Goto, Quote, Alert, Trade
<1>2. ASSUME NEW p \in Procs, CheckLoads(p) PROVE TypeInv'
  BY <1>2, LoadTyped DEF CheckLoads, TypeOK, PricedInLog, Labels, Locked,
     market, At, Goto
<1>3. ASSUME NEW p \in Procs, CheckFindsNone(p) PROVE TypeInv'
  BY <1>3, SaveTyped DEF CheckFindsNone, TypeOK, PricedInLog, Labels,
     market, At, Goto
<1>4. ASSUME NEW p \in Procs, CheckCalibrates(p) PROVE TypeInv'
  <2> DEFINE t == [view[p] EXCEPT !.mark = quote[p].high]
  <2>1. t \in Trade
    BY DEF TypeOK, Trade, Quote
  <2>2. CASE StopHit(t, quote[p])
    <3>1. /\ file' = t /\ view' = [view EXCEPT ![p] = t]
          /\ Goto(p, "calibrated") /\ UNCHANGED <<lock, quote>>
          /\ UNCHANGED <<pending, priced, ledger, market, glitches, alerted>>
      BY <1>4, <2>2 DEF CheckCalibrates
    <3> HIDE DEF t
    <3>2. QED
      BY <2>1, <3>1 DEF TypeOK, PricedInLog, Labels, Locked, market, Goto
  <2>3. CASE ~StopHit(t, quote[p])
    <3>1. /\ Save(p, t) /\ Goto(p, "idle")
          /\ UNCHANGED <<pending, priced, ledger, market, glitches, alerted>>
      BY <1>4, <2>3 DEF CheckCalibrates
    <3> HIDE DEF t
    <3>2. QED
      BY <2>1, <3>1, SaveTyped DEF TypeOK, PricedInLog, Labels, market, Goto
  <2>4. QED
    BY <2>2, <2>3
<1>5. ASSUME NEW p \in Procs, CheckMarksFirstStop(p) PROVE TypeInv'
  <2> DEFINE t == [view[p] EXCEPT !.hit = @ \cup {"SL"}]
  <2>1. t \in Trade
    BY DEF TypeOK, Trade, Levels
  <2>2. AlertsOf(view[p], {"SL"}) \in SUBSET Alert
    BY AlertsTyped DEF TypeOK, Levels
  <2>3. Save(p, t)
    BY <1>5 DEF CheckMarksFirstStop
  <2> HIDE DEF t
  <2>4. QED
    BY <1>5, <2>1, <2>2, <2>3, SaveTyped DEF CheckMarksFirstStop, TypeOK,
       PricedInLog, Labels, market, Goto
<1>6. ASSUME NEW p \in Procs, CheckMarks(p) PROVE TypeInv'
  <2>1. Marked(view[p], quote[p]) \in Trade
    BY <1>6, MarkedKeeps DEF CheckMarks, TypeOK
  <2>2. AlertsOf(view[p], NewlyHit(view[p], quote[p])) \in SUBSET Alert
    BY AlertsTyped, NewlyHitIsNew DEF TypeOK
  <2>3. QED
    BY <1>6, <2>1, <2>2, SaveTyped DEF CheckMarks, TypeOK, PricedInLog,
       Labels, market, Goto
<1>7. ASSUME NEW p \in Procs, SendAlert(p) PROVE TypeInv'
  BY <1>7 DEF SendAlert, TypeOK, PricedInLog, Labels, market, shared, Goto,
     Glitch
<1>8. ASSUME NEW c \in Procs, Buy(c) PROVE TypeInv'
  <2>1. file' \in Trade
    BY <1>8, TradeAssumption DEF Buy, TypeOK, Trade, Trades
  <2>2. QED
    BY <1>8, <2>1 DEF Buy, TypeOK, PricedInLog, locals, market
<1>9. ASSUME NEW c \in Procs, SellGetsTrade(c) PROVE TypeInv'
  BY <1>9 DEF SellGetsTrade, TypeOK, PricedInLog, Labels, shared, locals,
     market, Goto
<1>10. ASSUME NEW c \in Procs, SellPrices(c) PROVE TypeInv'
  <2>1. file.opened \in Trades \cup {0}
    BY DEF TypeOK, Trade
  <2>2. QED
    BY <1>10, <2>1 DEF SellPrices, TypeOK, PricedInLog, Labels, shared,
       market, Goto
<1>11. ASSUME NEW c \in Procs, SellLoads(c) PROVE TypeInv'
  BY <1>11, LoadTyped DEF SellLoads, TypeOK, PricedInLog, Labels, Locked,
     market, At, Goto
<1>12. ASSUME NEW c \in Procs, SellClears(c) PROVE TypeInv'
  <2> DEFINE t == [view[c] EXCEPT !.active = FALSE]
  <2>1. t \in Trade
    BY DEF TypeOK, Trade
  <2>2. Save(c, t)
    BY <1>12 DEF SellClears
  <2> HIDE DEF t
  <2>3. QED
    BY <1>12, <2>1, <2>2, SaveTyped DEF SellClears, TypeOK, PricedInLog,
       Labels, market, Goto, Done
<1>13. ASSUME NEW c \in Procs, SellLogs(c) PROVE TypeInv'
  <2>1. priced[c] \in Trades
    BY <1>13 DEF SellLogs, At, PricedInLog, TypeOK
  <2>2. Append(ledger, priced[c]) \in Seq(Trades)
    BY <2>1 DEF TypeOK
  <2>3. ledger \in Seq(Trades) /\ glitches \in Nat
    BY DEF TypeOK
  <2>4. ledger' \in {ledger, Append(ledger, priced[c])}
        /\ glitches' \in {glitches, glitches + 1}
    BY <1>13 DEF SellLogs, Glitch
  <2>5. ledger' \in Seq(Trades) /\ glitches' \in Nat
    BY <2>2, <2>3, <2>4
  <2>6. pc' = [pc EXCEPT ![c] = "idle"] /\ priced' = [priced EXCEPT ![c] = 0]
    BY <1>13 DEF SellLogs, Done, Goto
  <2>7. UNCHANGED <<shared, view, quote, pending, market, alerted>>
    BY <1>13 DEF SellLogs
  <2>8. QED
    BY <2>5, <2>6, <2>7 DEF TypeOK, PricedInLog, Labels, shared, market
<1>14. ASSUME NEW p \in Procs, Crash(p) PROVE TypeInv'
  BY <1>14, NoTradeTyped DEF Crash, TypeOK, PricedInLog, Labels, market,
     Goto, Done, Forget, Glitch
<1>15. ASSUME PriceMoves \/ NextSession PROVE TypeInv'
  <2>1. high' \in Int /\ low' \in Int /\ session' \in Nat
    <3>1. high \in Int /\ low \in Int /\ session \in Nat /\ Prices \subseteq Int
      BY TradeAssumption DEF TypeOK
    <3>2. CASE PriceMoves
      BY <3>1, <3>2 DEF PriceMoves
    <3>3. CASE NextSession
      BY <3>1, <3>3 DEF NextSession
    <3>4. QED
      BY <1>15, <3>2, <3>3
  <2>2. UNCHANGED <<shared, pc, locals, ledger, glitches, alerted>>
    BY <1>15 DEF PriceMoves, NextSession
  <2>3. QED
    BY <2>1, <2>2 DEF TypeOK, PricedInLog, shared, locals
<1>16. ASSUME UNCHANGED vars PROVE TypeInv'
  BY <1>16 DEF vars, shared, locals, market, TypeOK, PricedInLog
<1>17. QED
  BY <1>1, <1>2, <1>3, <1>4, <1>5, <1>6, <1>7, <1>8, <1>9, <1>10, <1>11,
     <1>12, <1>13, <1>14, <1>15, <1>16 DEF Next, Check, Command, Procs

\* Every reachable state of the tracker is well typed, and only recorded
\* trades are booked.
THEOREM TypeCorrect == Spec => []TypeOK
<1>1. Init => TypeInv
  BY InitTyped
<1>2. TypeInv /\ [Next]_vars => TypeInv'
  BY TypeStep
<1>3. TypeInv => TypeOK
  BY DEF TypeInv
<1>4. QED
  BY <1>1, <1>2, <1>3, PTL DEF Spec

-----------------------------------------------------------------------------
(* The lock.                                                                *)

LEMMA InitLocked == Init => LockInv
BY TradeAssumption DEF Init, LockInv, LockedFile, FirstStopOpen, Locked

\* The step of a process that holds no lock, before and after it.
LEMMA Unlocked ==
    ASSUME TypeOK, LockInv, NEW p \in Procs, NEW l \in Labels \ Locked,
           pc[p] \notin Locked, pc' = [pc EXCEPT ![p] = l],
           lock' = lock, lock = Free \/ file' = file,
           \A q \in Procs \ {p} : view'[q] = view[q]
    PROVE  LockInv'
BY TradeAssumption DEF TypeOK, LockInv, LockedFile, FirstStopOpen, Locked

\* A locked section begins: it holds the lock and what the file says.
LEMMA LoadLocks ==
    ASSUME TypeOK, LockInv, NEW p \in Procs, NEW l \in {"checking", "clearing"},
           Load(p), Goto(p, l)
    PROVE  LockInv'
BY TradeAssumption DEF TypeOK, LockInv, LockedFile, FirstStopOpen, Locked, Load, Goto

\* A locked section ends: nobody else was in one.
LEMMA SaveUnlocks ==
    ASSUME TypeOK, LockInv, NEW p \in Procs, NEW l \in Labels \ Locked,
           pc[p] \in Locked, lock' = Free, pc' = [pc EXCEPT ![p] = l]
    PROVE  LockInv'
BY TradeAssumption DEF TypeOK, LockInv, LockedFile, FirstStopOpen, Locked

LEMMA LockStep == TypeInv /\ LockInv /\ [Next]_vars => LockInv'
<1> SUFFICES ASSUME TypeInv, LockInv, [Next]_vars PROVE LockInv'
  OBVIOUS
<1> USE DEF TypeInv
<1>1. ASSUME NEW p \in Procs, Refresh(p) PROVE LockInv'
  BY <1>1, Unlocked DEF Refresh, At, Goto, shared, Labels, Locked
<1>2. ASSUME NEW p \in Procs, CheckLoads(p) PROVE LockInv'
  BY <1>2, LoadLocks DEF CheckLoads
<1>3. ASSUME NEW p \in Procs, CheckFindsNone(p) PROVE LockInv'
  BY <1>3, SaveUnlocks DEF CheckFindsNone, At, Goto, Save, Labels, Locked
<1>4. ASSUME NEW p \in Procs, CheckCalibrates(p) PROVE LockInv'
  <2> DEFINE t == [view[p] EXCEPT !.mark = quote[p].high]
  <2>1. CASE StopHit(t, quote[p])
    <3>1. /\ file' = t /\ view' = [view EXCEPT ![p] = t] /\ lock' = lock
          /\ pc' = [pc EXCEPT ![p] = "calibrated"] /\ pc[p] = "checking"
      BY <1>4, <2>1 DEF CheckCalibrates, Goto, At
    <3>2. "SL" \notin t.hit
      BY <2>1 DEF StopHit
    <3> HIDE DEF t
    <3>3. \A q \in Procs : pc[q] \in Locked <=> lock = q
      BY DEF LockInv, LockedFile
    <3>4. \A q \in Procs : pc'[q] \in Locked <=> lock' = q
      BY <3>1, <3>3 DEF Locked, TypeOK
    <3>5. \A q \in Procs : pc'[q] \in Locked => q = p
      BY <3>1, <3>3, <3>4 DEF Locked
    <3>6. view'[p] = t
      BY <3>1 DEF TypeOK
    <3>7. QED
      BY <3>1, <3>2, <3>4, <3>5, <3>6 DEF LockInv, LockedFile, FirstStopOpen,
         Locked
  <2>2. CASE ~StopHit(t, quote[p])
    <3>1. Save(p, t) /\ Goto(p, "idle") /\ At(p, "checking")
      BY <1>4, <2>2 DEF CheckCalibrates
    <3>2. QED
      BY <3>1, SaveUnlocks DEF Save, Goto, At, Labels, Locked
  <2>3. QED
    BY <2>1, <2>2
<1>5. ASSUME NEW p \in Procs, CheckMarksFirstStop(p) PROVE LockInv'
  BY <1>5, SaveUnlocks DEF CheckMarksFirstStop, At, Goto, Save, Labels, Locked
<1>6. ASSUME NEW p \in Procs, CheckMarks(p) PROVE LockInv'
  BY <1>6, SaveUnlocks DEF CheckMarks, At, Goto, Save, Labels, Locked
<1>7. ASSUME NEW p \in Procs, SendAlert(p) PROVE LockInv'
  BY <1>7, Unlocked DEF SendAlert, At, Goto, shared, Labels, Locked
<1>8. ASSUME NEW p \in Procs, Buy(p) PROVE LockInv'
  BY <1>8, TradeAssumption DEF Buy, locals, LockInv, LockedFile, FirstStopOpen
<1>9. ASSUME NEW p \in Procs, SellGetsTrade(p) PROVE LockInv'
  BY <1>9, Unlocked DEF SellGetsTrade, At, Goto, shared, locals, Labels, Locked
<1>10. ASSUME NEW p \in Procs, SellPrices(p) PROVE LockInv'
  BY <1>10, Unlocked DEF SellPrices, At, Goto, shared, Labels, Locked
<1>11. ASSUME NEW p \in Procs, SellLoads(p) PROVE LockInv'
  BY <1>11, LoadLocks DEF SellLoads
<1>12. ASSUME NEW p \in Procs, SellClears(p) PROVE LockInv'
  <2>1. pc[p] \in Locked /\ lock' = Free
    BY <1>12 DEF SellClears, At, Save, Locked
  <2>2. \E l \in {"idle", "log"} : pc' = [pc EXCEPT ![p] = l]
    BY <1>12 DEF SellClears, Done, Goto
  <2>3. QED
    BY <2>1, <2>2, SaveUnlocks DEF Labels, Locked
<1>13. ASSUME NEW p \in Procs, SellLogs(p) PROVE LockInv'
  BY <1>13, Unlocked DEF SellLogs, Done, At, Goto, shared, Labels, Locked
<1>14. ASSUME NEW p \in Procs, Crash(p) PROVE LockInv'
  <2>1. /\ pc' = [pc EXCEPT ![p] = "idle"] /\ file' = file
        /\ view' = [view EXCEPT ![p] = NoTrade]
        /\ lock' = IF lock = p THEN Free ELSE lock
    BY <1>14 DEF Crash, Done, Goto, Forget
  <2>2. CASE lock = p
    BY <2>1, <2>2, SaveUnlocks DEF LockInv, LockedFile, Labels, Locked
  <2>3. CASE lock # p
    BY <2>1, <2>3, Unlocked DEF LockInv, LockedFile, Labels, Locked, TypeOK
  <2>4. QED
    BY <2>2, <2>3
<1>15. ASSUME PriceMoves \/ NextSession PROVE LockInv'
  BY <1>15 DEF PriceMoves, NextSession, shared, locals, LockInv, LockedFile,
     FirstStopOpen
<1>16. ASSUME UNCHANGED vars PROVE LockInv'
  BY <1>16 DEF vars, shared, locals, LockInv, LockedFile, FirstStopOpen
<1>17. QED
  BY <1>1, <1>2, <1>3, <1>4, <1>5, <1>6, <1>7, <1>8, <1>9, <1>10, <1>11,
     <1>12, <1>13, <1>14, <1>15, <1>16 DEF Next, Check, Command, Procs

-----------------------------------------------------------------------------
(* What a step does to the file.                                            *)

\* The trade in the file is the same, closed or not, with at least its marks.
KeepsTrade ==
    /\ file'.opened = file.opened /\ (file'.active => file.active)
    /\ file.hit \subseteq file'.hit
    /\ file.mark # Unset => file'.mark # Unset /\ file'.mark >= file.mark

FileStep == file'.opened = file.opened + 1 \/ KeepsTrade

\* A file that is not written keeps its trade.
LEMMA SameFile == ASSUME TypeOK, file' = file PROVE KeepsTrade
<1>1. file.mark # Unset => file.mark \in Int
  BY DEF TypeOK, Trade
<1>2. QED
  BY <1>1 DEF KeepsTrade

\* The lock holder saves what it loaded, changed: no other save is lost.
LEMMA FileSteps == TypeInv /\ LockInv /\ [Next]_vars => FileStep
<1> SUFFICES ASSUME TypeInv, LockInv, [Next]_vars PROVE FileStep
  OBVIOUS
<1> USE DEF TypeInv
<1>1. CASE file' = file
  BY <1>1, SameFile DEF FileStep
<1>2. ASSUME NEW p \in Procs, CheckCalibrates(p) PROVE FileStep
  <2>1. view[p] = file /\ view[p].mark = Unset
    BY <1>2 DEF CheckCalibrates, At, LockInv, LockedFile, Locked
  <2>2. file' = [file EXCEPT !.mark = quote[p].high]
    BY <1>2, <2>1 DEF CheckCalibrates, Save
  <2>3. QED
    BY <2>1, <2>2 DEF FileStep, KeepsTrade, TypeOK, Trade
<1>3. ASSUME NEW p \in Procs, CheckMarksFirstStop(p) PROVE FileStep
  <2>1. view[p] = file
    BY <1>3 DEF CheckMarksFirstStop, At, LockInv, LockedFile, Locked
  <2>2. file' = [file EXCEPT !.hit = @ \cup {"SL"}]
    BY <1>3, <2>1 DEF CheckMarksFirstStop, Save
  <2>3. /\ file'.opened = file.opened /\ file'.active = file.active
        /\ file'.mark = file.mark /\ file.hit \subseteq file'.hit
    BY <2>2 DEF TypeOK, Trade
  <2>4. file.mark # Unset => file.mark \in Int
    BY DEF TypeOK, Trade
  <2>5. QED
    BY <2>3, <2>4 DEF FileStep, KeepsTrade
<1>4. ASSUME NEW p \in Procs, CheckMarks(p) PROVE FileStep
  <2>1. view[p] = file /\ file.mark # Unset /\ file' = Marked(file, quote[p])
    BY <1>4 DEF CheckMarks, Save, At, LockInv, LockedFile, Locked
  <2>2. file \in Trade /\ quote[p] \in Quote
    BY DEF TypeOK
  <2>3. QED
    BY <2>1, <2>2, MarkedKeeps, TradeAssumption DEF FileStep, KeepsTrade
<1>5. ASSUME NEW p \in Procs, Buy(p) PROVE FileStep
  BY <1>5 DEF Buy, FileStep
<1>6. ASSUME NEW p \in Procs, SellClears(p) PROVE FileStep
  <2>1. view[p] = file
    BY <1>6 DEF SellClears, At, LockInv, LockedFile, Locked
  <2>2. file' = [file EXCEPT !.active = FALSE]
    BY <1>6, <2>1 DEF SellClears, Save
  <2>3. /\ file'.opened = file.opened /\ file'.active = FALSE
        /\ file'.mark = file.mark /\ file'.hit = file.hit
    BY <2>2 DEF TypeOK, Trade
  <2>4. file.mark # Unset => file.mark \in Int
    BY DEF TypeOK, Trade
  <2>5. QED
    BY <2>3, <2>4 DEF FileStep, KeepsTrade
<1>7. ASSUME NEW p \in Procs,
             \/ Refresh(p) \/ CheckLoads(p) \/ CheckFindsNone(p) \/ SendAlert(p)
             \/ SellGetsTrade(p) \/ SellPrices(p) \/ SellLoads(p)
             \/ SellLogs(p) \/ Crash(p)
      PROVE  file' = file
  BY <1>7 DEF Refresh, CheckLoads, Load, CheckFindsNone, Save, SendAlert,
     SellGetsTrade, SellPrices, SellLoads, SellLogs, Crash, shared
<1>8. ASSUME PriceMoves \/ NextSession \/ UNCHANGED vars PROVE file' = file
  BY <1>8 DEF PriceMoves, NextSession, vars, shared
<1>9. QED
  BY <1>1, <1>2, <1>3, <1>4, <1>5, <1>6, <1>7, <1>8 DEF Next, Check, Command,
     Procs

-----------------------------------------------------------------------------
(* Alerts.                                                                  *)

\* What was marked stays marked.
LEMMA StaysAnnounced ==
    ASSUME TypeOK, FileStep, NEW a \in Alert, Announced(a)
    PROVE  Announced(a)'
<1>1. a[1] \in Int /\ file.opened \in Int
  BY TradeAssumption DEF Alert, TypeOK, Trade, Trades
<1>2. CASE file'.opened = file.opened + 1
  BY <1>1, <1>2 DEF Announced
<1>3. CASE KeepsTrade
  BY <1>3 DEF Announced, KeepsTrade
<1>4. QED
  BY <1>2, <1>3 DEF FileStep

AlertInv == AnnouncedIsMarked /\ EachLevelAlertsOnce

\* A step that sends nothing and hits nothing.
LEMMA NoNewAlert ==
    ASSUME TypeOK, AlertInv, FileStep, alerted' = alerted,
           \A p \in Procs : pending'[p] \subseteq pending[p]
    PROVE  AlertInv'
<1>1. \A a \in alerted : Announced(a)'
  BY StaysAnnounced DEF AlertInv, AnnouncedIsMarked, TypeOK
<1>2. \A p \in Procs : \A a \in pending[p] : Announced(a)'
  BY StaysAnnounced DEF AlertInv, AnnouncedIsMarked, TypeOK
<1>3. AnnouncedIsMarked'
  BY <1>1, <1>2 DEF AnnouncedIsMarked
<1>4. EachLevelAlertsOnce'
  BY DEF AlertInv, EachLevelAlertsOnce
<1>5. QED
  BY <1>3, <1>4 DEF AlertInv

\* A check that hits levels the file had not marked, and marks them: nobody
\* else has announced them.
LEMMA NewAlerts ==
    ASSUME TypeOK, AlertInv, FileStep, NEW p \in Procs, NEW s \in SUBSET Levels,
           s \cap file.hit = {}, s \subseteq file'.hit, file'.opened = file.opened,
           pending' = [pending EXCEPT ![p] = AlertsOf(file, s)],
           alerted' = alerted
    PROVE  AlertInv'
<1> DEFINE new == AlertsOf(file, s)
<1>1. \A a \in new : ~Announced(a) /\ Announced(a)'
  <2>1. ASSUME NEW l \in s PROVE ~Announced(<<file.opened, l>>) /\ Announced(<<file.opened, l>>)'
    <3>1. ~(file.opened < file.opened)
      BY TradeAssumption DEF TypeOK, Trade, Trades
    <3>2. QED
      BY <3>1 DEF Announced
  <2>2. QED
    BY <2>1 DEF AlertsOf
<1>2. pending'[p] = new /\ \A q \in Procs \ {p} : pending'[q] = pending[q]
  BY DEF TypeOK
<1> HIDE DEF new
<1>3. \A a \in alerted : Announced(a) /\ Announced(a)'
  BY StaysAnnounced DEF AlertInv, AnnouncedIsMarked, TypeOK
<1>4. \A q \in Procs : \A a \in pending[q] : Announced(a) /\ Announced(a)'
  BY StaysAnnounced DEF AlertInv, AnnouncedIsMarked, TypeOK
<1>5. AnnouncedIsMarked'
  <2>1. ASSUME NEW q \in Procs, NEW a \in pending'[q] PROVE Announced(a)'
    BY <1>1, <1>2, <1>4, <2>1
  <2>2. QED
    BY <1>3, <2>1 DEF AnnouncedIsMarked
<1>6. EachLevelAlertsOnce'
  <2>1. new \cap alerted = {} /\ \A q \in Procs : new \cap pending[q] = {}
    BY <1>1, <1>3, <1>4
  <2>2. QED
    BY <1>2, <2>1 DEF AlertInv, EachLevelAlertsOnce
<1>7. QED
  BY <1>5, <1>6 DEF AlertInv

\* An alert that goes out, or is lost, is not pending any more.
LEMMA AlertGoesOut ==
    ASSUME TypeOK, AlertInv, FileStep, NEW p \in Procs, NEW a \in pending[p],
           pending' = [pending EXCEPT ![p] = @ \ {a}],
           alerted' \in {alerted, alerted \cup {a}}
    PROVE  AlertInv'
<1>1. /\ pending'[p] = pending[p] \ {a}
      /\ \A q \in Procs \ {p} : pending'[q] = pending[q]
  BY DEF TypeOK
<1>2. \A b \in alerted : Announced(b)'
  BY StaysAnnounced DEF AlertInv, AnnouncedIsMarked, TypeOK
<1>3. \A q \in Procs : \A b \in pending[q] : Announced(b)'
  BY StaysAnnounced DEF AlertInv, AnnouncedIsMarked, TypeOK
<1>4. AnnouncedIsMarked'
  BY <1>1, <1>2, <1>3 DEF AnnouncedIsMarked
<1>5. EachLevelAlertsOnce'
  BY <1>1 DEF AlertInv, EachLevelAlertsOnce
<1>6. QED
  BY <1>4, <1>5 DEF AlertInv

LEMMA AlertStep == TypeInv /\ LockInv /\ AlertInv /\ [Next]_vars => AlertInv'
<1> SUFFICES ASSUME TypeInv, LockInv, AlertInv, [Next]_vars PROVE AlertInv'
  OBVIOUS
<1> USE DEF TypeInv
<1>1. FileStep
  BY FileSteps
<1>2. ASSUME NEW p \in Procs, CheckMarksFirstStop(p) PROVE AlertInv'
  <2>1. view[p] = file /\ "SL" \notin file.hit
    BY <1>2 DEF CheckMarksFirstStop, At, LockInv, LockedFile, FirstStopOpen, Locked
  <2>2. /\ file' = [file EXCEPT !.hit = @ \cup {"SL"}] /\ alerted' = alerted
        /\ pending' = [pending EXCEPT ![p] = AlertsOf(file, {"SL"})]
    BY <1>2, <2>1 DEF CheckMarksFirstStop, Save
  <2>3. file'.opened = file.opened /\ {"SL"} \subseteq file'.hit
    BY <2>2 DEF TypeOK, Trade
  <2> DEFINE s == {"SL"}
  <2>4. s \in SUBSET Levels /\ s \cap file.hit = {} /\ s \subseteq file'.hit
    BY <2>1, <2>3 DEF Levels
  <2>5. pending' = [pending EXCEPT ![p] = AlertsOf(file, s)]
    BY <2>2
  <2> HIDE DEF s
  <2>6. QED
    BY <1>1, <2>2, <2>3, <2>4, <2>5, NewAlerts
<1>3. ASSUME NEW p \in Procs, CheckMarks(p) PROVE AlertInv'
  <2> DEFINE hits == NewlyHit(file, quote[p])
  <2>1. view[p] = file /\ file.mark # Unset
    BY <1>3 DEF CheckMarks, At, LockInv, LockedFile, Locked
  <2>2. /\ file' = Marked(file, quote[p]) /\ alerted' = alerted
        /\ pending' = [pending EXCEPT ![p] = AlertsOf(file, hits)]
    BY <1>3, <2>1 DEF CheckMarks, Save
  <2>3. file \in Trade /\ quote[p] \in Quote
    BY DEF TypeOK
  <2>4. file'.opened = file.opened /\ file'.hit = file.hit \cup hits
    BY <2>1, <2>2, <2>3, MarkedKeeps
  <2>5. hits \subseteq Levels \ file.hit
    BY NewlyHitIsNew
  <2> HIDE DEF hits
  <2>6. QED
    BY <1>1, <2>2, <2>4, <2>5, NewAlerts
<1>4. ASSUME NEW p \in Procs, SendAlert(p) PROVE AlertInv'
  <2>1. PICK a \in pending[p] :
            /\ pending' = [pending EXCEPT ![p] = @ \ {a}]
            /\ alerted' \in {alerted, alerted \cup {a}}
    BY <1>4 DEF SendAlert
  <2>2. QED
    BY <1>1, <2>1, AlertGoesOut
<1>5. ASSUME alerted' = alerted, \A p \in Procs : pending'[p] \subseteq pending[p]
      PROVE  AlertInv'
  BY <1>1, <1>5, NoNewAlert
<1>6. ASSUME NEW p \in Procs,
             \/ Refresh(p) \/ CheckLoads(p) \/ CheckFindsNone(p)
             \/ CheckCalibrates(p) \/ Buy(p) \/ SellGetsTrade(p)
             \/ SellPrices(p) \/ SellLoads(p) \/ SellClears(p) \/ SellLogs(p)
      PROVE  AlertInv'
  <2>1. alerted' = alerted /\ pending' = pending
    BY <1>6 DEF Refresh, CheckLoads, Load, CheckFindsNone, CheckCalibrates, Buy,
       locals, SellGetsTrade, SellPrices, SellLoads, SellClears, SellLogs
  <2>2. QED
    BY <1>5, <2>1
<1>7. ASSUME NEW p \in Procs, Crash(p) PROVE AlertInv'
  <2>1. alerted' = alerted /\ pending' = [pending EXCEPT ![p] = {}]
    BY <1>7 DEF Crash
  <2>2. QED
    BY <1>5, <2>1 DEF TypeOK
<1>8. ASSUME PriceMoves \/ NextSession \/ UNCHANGED vars PROVE AlertInv'
  <2>1. alerted' = alerted /\ pending' = pending
    BY <1>8 DEF PriceMoves, NextSession, vars, locals
  <2>2. QED
    BY <1>5, <2>1
<1>9. QED
  BY <1>2, <1>3, <1>4, <1>6, <1>7, <1>8 DEF Next, Check, Command, Procs

-----------------------------------------------------------------------------
(* The theorems.                                                            *)

LEMMA Invariance == Spec => []Inv
<1>1. Init => Inv
  <2>1. Init => AnnouncedIsMarked /\ EachLevelAlertsOnce
    BY DEF Init, AnnouncedIsMarked, EachLevelAlertsOnce
  <2>2. QED
    BY <2>1, InitTyped, InitLocked DEF Inv
<1>2. Inv /\ [Next]_vars => Inv'
  BY TypeStep, LockStep, AlertStep DEF Inv, AlertInv
<1>3. QED
  BY <1>1, <1>2, PTL DEF Spec

\* No level of a trade is announced twice, by one process or by two, and
\* whatever dies in between (check_and_mark under the file lock).
THEOREM AlertsOnce == Spec => []EachLevelAlertsOnce
<1>1. Inv => EachLevelAlertsOnce
  BY DEF Inv
<1>2. QED
  BY <1>1, Invariance, PTL

\* A closed trade is not resurrected by a check that loaded it while open.
THEOREM ClosedForGood == Spec => ClosedStaysClosed
<1>1. Inv /\ [Next]_vars => [SameTrade /\ ~file.active => ~file'.active]_vars
  <2> SUFFICES ASSUME Inv, [Next]_vars, SameTrade, ~file.active
               PROVE  ~file'.active
    OBVIOUS
  <2>1. file.opened \in Int
    BY TradeAssumption DEF Inv, TypeInv, TypeOK, Trade, Trades
  <2>2. QED
    BY <2>1, FileSteps DEF Inv, FileStep, KeepsTrade, SameTrade
<1>2. QED
  BY <1>1, Invariance, PTL DEF Spec, ClosedStaysClosed

\* Marks and watermark of a trade only grow.
THEOREM MarksGrow == Spec => MarksOnlyGrow
<1>1. Inv /\ [Next]_vars =>
        [SameTrade => /\ file.hit \subseteq file'.hit
                      /\ file.mark # Unset => file'.mark # Unset
                                              /\ file'.mark >= file.mark]_vars
  <2> SUFFICES ASSUME Inv, [Next]_vars, SameTrade
               PROVE  /\ file.hit \subseteq file'.hit
                      /\ file.mark # Unset => file'.mark # Unset
                                              /\ file'.mark >= file.mark
    OBVIOUS
  <2>1. file.opened \in Int
    BY TradeAssumption DEF Inv, TypeInv, TypeOK, Trade, Trades
  <2>2. QED
    BY <2>1, FileSteps DEF Inv, FileStep, KeepsTrade, SameTrade
<1>2. QED
  BY <1>1, Invariance, PTL DEF Spec, MarksOnlyGrow

-----------------------------------------------------------------------------
(* Confirming an order.                                                    *)

(* The one call that runs is the pending one. *)
OnePending == /\ \A n \in Calls : reply[n] = "pending" <=> n = current
              /\ current = 0 <=> stage = "idle"

(* The exchange's status and the filled shares of an order agree, and an
   order exists only from its placement on. *)
StatusFits ==
  \A n \in Calls : /\ status[n] = "COMPLETE" => filled[n] = OrderQty
                   /\ reply[n] = "unasked" => status[n] = "unplaced"
                   /\ reply[n] = "filled" => status[n] = "COMPLETE"

OrderInv == /\ OrderTypeOK
            /\ OnePending
            /\ StatusFits
            /\ UnfilledOrderIsDead

LEMMA CallsAreNotZero == 0 \notin Calls
  BY OrderAssumption DEF Calls

LEMMA OrderInitially == OrderInit => OrderInv
  BY OrderAssumption, CallsAreNotZero
  DEF OrderInit, OrderInv, OrderTypeOK, OnePending, StatusFits, UnfilledOrderIsDead,
      Replies, Statuses

(* filled_quantity of a complete order is qty, so is what stands in for it. *)
LEMMA CompleteIsFilled ==
  ASSUME OrderInv, PollSeesComplete
  PROVE  /\ current \in Calls
         /\ reply[current] = "pending"
         /\ filled[current] = OrderQty
         /\ Answer("filled")
         /\ UNCHANGED <<filled, status, glitched>>
  <1>1. current \in Calls /\ reply[current] = "pending"
    BY DEF PollSeesComplete, OrderInv, OrderTypeOK, OnePending
  <1>2. filled[current] = OrderQty
    BY <1>1 DEF PollSeesComplete, OrderInv, StatusFits
  <1> QED
    BY <1>1, <1>2, OrderAssumption DEF PollSeesComplete, ConfirmedQty

LEMMA OrderInductive == OrderInv /\ [OrderNext]_orderVars => OrderInv'
  <1> SUFFICES ASSUME OrderInv, [OrderNext]_orderVars PROVE OrderInv'
    OBVIOUS
  <1> USE OrderAssumption, CallsAreNotZero
      DEF OrderInv, OrderTypeOK, OnePending, StatusFits, UnfilledOrderIsDead, Replies,
          Statuses, Answer, Fails
  <1>1. CASE PriceOrder
    BY <1>1 DEF PriceOrder
  <1>2. CASE NoPrice
    BY <1>2 DEF NoPrice
  <1>3. CASE PlaceFails
    BY <1>3 DEF PlaceFails
  <1>4. CASE PlaceLimitOrder
    BY <1>4 DEF PlaceLimitOrder
  <1>5. CASE PollSeesNothing
    BY <1>5 DEF PollSeesNothing, PollAgain
  <1>6. CASE PollSeesOpen
    BY <1>6 DEF PollSeesOpen, PollAgain
  <1>7. CASE PollSeesComplete
    <2>1. Answer("filled") /\ UNCHANGED <<filled, status, glitched>>
      BY <1>7, CompleteIsFilled
    <2> QED
      BY <1>7, <2>1 DEF PollSeesComplete
  <1>8. CASE PollSeesDead
    BY <1>8 DEF PollSeesDead
  <1>9. CASE WindowCloses
    BY <1>9 DEF WindowCloses
  <1>10. CASE CancelStillOpen
    BY <1>10 DEF CancelStillOpen
  <1>11. CASE CancelFails
    BY <1>11 DEF CancelFails
  <1>12. ASSUME NEW n \in Calls, ExchangeFills(n) PROVE OrderInv'
    BY <1>12 DEF ExchangeFills
  <1>13. ASSUME NEW n \in Calls, ExchangeEnds(n) PROVE OrderInv'
    BY <1>13 DEF ExchangeEnds
  <1>14. CASE UNCHANGED orderVars
    BY <1>14 DEF orderVars
  <1> QED
    BY <1>1, <1>2, <1>3, <1>4, <1>5, <1>6, <1>7, <1>8, <1>9, <1>10, <1>11, <1>12,
       <1>13, <1>14
    DEF OrderNext, PlaceOrderAndConfirm, AwaitFill

(* After a call without a failure of the broker, an order answered as
   unfilled cannot fill any more (_await_fill). *)
THEOREM UnfilledStaysDead == OrderSpec => []UnfilledOrderIsDead
  <1>1. OrderInv => UnfilledOrderIsDead
    BY DEF OrderInv
  <1> QED
    BY <1>1, OrderInitially, OrderInductive, PTL DEF OrderSpec

(* A step of the call or of the exchange is a step of the promise. *)
LEMMA StepOfOutcome ==
  ASSUME OrderInv, [OrderNext]_orderVars
  PROVE  [Outcome!OutcomeNext]_(Outcome!outcomeVars)
  <1> USE DEF Outcome!outcomeVars, Outcome!Calls, Calls
  <1>0. OrderTypeOK /\ OnePending /\ StatusFits
    BY DEF OrderInv
  <1>1. CASE PriceOrder
    <2>1. PICK n \in Calls : /\ reply[n] = "unasked"
                             /\ \A m \in 1 .. n - 1 : reply[m] # "unasked"
                             /\ reply' = [reply EXCEPT ![n] = "pending"]
      BY <1>1 DEF PriceOrder
    <2>2. \A m \in 1 .. n - 1 : m \in Calls /\ reply[m] # "pending"
      BY <1>0, <1>1, OrderAssumption, CallsAreNotZero DEF PriceOrder, OnePending
    <2>3. Outcome!Ask(n)
      BY <1>0, <1>1, <2>1, <2>2 DEF PriceOrder, Outcome!Ask, OrderTypeOK, Replies
    <2> QED
      BY <2>3 DEF Outcome!OutcomeNext
  <1>2. ASSUME current \in Calls, reply[current] = "pending",
               Answer("unfilled"), UNCHANGED filled
        PROVE  Outcome!OutcomeNext
    <2>1. Outcome!AnswerUnfilled(current)
      BY <1>2 DEF Answer, Outcome!AnswerUnfilled
    <2> QED
      BY <1>2, <2>1 DEF Outcome!OutcomeNext
  <1>3. stage # "idle" => current \in Calls /\ reply[current] = "pending"
    BY <1>0 DEF OrderTypeOK, OnePending
  <1>4. CASE NoPrice \/ PlaceFails \/ PollSeesDead \/ CancelStillOpen \/ CancelFails
    BY <1>2, <1>3, <1>4 DEF NoPrice, PlaceFails, PollSeesDead, CancelStillOpen, CancelFails
  <1>5. CASE PollSeesComplete
    <2>1. Outcome!AnswerFilled(current)
      BY <1>5, CompleteIsFilled DEF Answer, Outcome!AnswerFilled
    <2> QED
      BY <1>5, <2>1, CompleteIsFilled DEF Outcome!OutcomeNext
  <1>6. ASSUME NEW n \in Calls, ExchangeFills(n)
        PROVE  Outcome!OutcomeNext
    <2>1. Outcome!FillMore(n)
      BY <1>0, <1>6 DEF ExchangeFills, Outcome!FillMore, StatusFits, OrderTypeOK, Replies
    <2> QED
      BY <2>1 DEF Outcome!OutcomeNext
  <1>7. ASSUME NEW n \in Calls, ExchangeEnds(n)
        PROVE  UNCHANGED <<reply, filled>>
    BY <1>7 DEF ExchangeEnds
  <1>8. CASE PlaceLimitOrder \/ PollSeesNothing \/ PollSeesOpen \/ WindowCloses
             \/ UNCHANGED orderVars
    BY <1>8 DEF PlaceLimitOrder, PollSeesNothing, PollSeesOpen, PollAgain, WindowCloses,
                orderVars
  <1> QED
    BY <1>1, <1>4, <1>5, <1>6, <1>7, <1>8
    DEF OrderNext, PlaceOrderAndConfirm, AwaitFill

(* A caller of place_order_and_confirm is told "filled" only for an order
   that is whole, once, after all its earlier calls have returned. *)
THEOREM OrderKeepsPromise == OrderSpec => OrderRefinesOutcome
  <1>1. OrderInit => Outcome!OutcomeInit
    BY DEF OrderInit, Outcome!OutcomeInit, Outcome!Calls, Calls
  <1>2. OrderInv /\ [OrderNext]_orderVars => [Outcome!OutcomeNext]_(Outcome!outcomeVars)
    BY StepOfOutcome
  <1> QED
    BY <1>1, <1>2, OrderInitially, OrderInductive, PTL
    DEF OrderSpec, OrderRefinesOutcome, Outcome!OutcomeSpec

-----------------------------------------------------------------------------
(* The store.  While the lock is held, what its holder read is what the    *)
(* file holds, or nothing if its read failed; the holder's handle is on a temporary file no one else has  *)
(* open, and that file is complete before it is renamed.                   *)

(* Only the lock holder is inside a locked block or has a handle open. *)
OnlyHolderWrites ==
  \A t \in Writers : /\ ~ StoreAt(t, "idle") => holder = t
                     /\ handle[t] # "none" => StoreAt(t, "opened")
                     /\ t \in misread => ~ StoreAt(t, "idle")

(* What the holder knows at each point of its update. *)
HolderKnows ==
  \A t \in Writers :
     /\ writing[t] \in {"loaded", "opened", "dumped"} =>
          loaded[t] = IF t \in misread THEN Default ELSE content
     /\ StoreAt(t, "opened") => handle[t] = "tmp"
     /\ StoreAt(t, "dumped") => tmpfile[ProcessOf[t]] = Updated(t)
     /\ StoreAt(t, "replaced") => t \in content

StoreInv == /\ StoreTypeOK
            /\ OnlyHolderWrites
            /\ HolderKnows
            /\ content # Torn

LEMMA StoreInitially == StoreInit => StoreInv
  BY StoreAssumption
  DEF StoreInit, StoreInv, StoreTypeOK, OnlyHolderWrites, HolderKnows, StoreAt, Contents,
      Default

(* One locked update, step by step. *)
LEMMA UpdateKeeps ==
  ASSUME StoreInv, NEW t \in Writers, LockedUpdate(t)
  PROVE  StoreInv'
  <1> USE StoreAssumption
      DEF StoreInv, StoreTypeOK, OnlyHolderWrites, HolderKnows, StoreAt, StoreGoto, Contents,
          Default, readFailures, ReadEnds
  <1>1. CASE EnterLocked(t)
    BY <1>1 DEF EnterLocked, Updated
  <1>2. CASE LoadJson(t)
    <2>1. /\ misread' \subseteq Writers /\ loaded' \in [Writers -> SUBSET Writers]
          /\ loaded'[t] = IF t \in misread' THEN {} ELSE content
          /\ \A u \in misread' : u = t \/ u \in misread
          /\ writing' = [writing EXCEPT ![t] = "loaded"]
      <3>1. content \in SUBSET Writers /\ {} \in SUBSET Writers
        OBVIOUS
      <3>2. CASE loaded' = [loaded EXCEPT ![t] = content] /\ misread' = misread \ {t}
        BY <3>1, <3>2, <1>2 DEF LoadJson
      <3>3. CASE loaded' = [loaded EXCEPT ![t] = {}] /\ misread' = misread \cup {t}
        BY <3>1, <3>3, <1>2 DEF LoadJson
      <3> QED
        BY <1>2, <3>2, <3>3 DEF LoadJson, ReadJson, Whole
    <2>2. \A u \in Writers : u # t => StoreAt(u, "idle")
      BY <1>2 DEF LoadJson
    <2>3. \A u \in Writers : u # t => writing'[u] = "idle"
      BY <2>1, <2>2
    <2>4. /\ UNCHANGED <<content, tmpfile, handle, holder, acked, seen, blind>>
          /\ StoreAt(t, "locked")
      BY <1>2 DEF LoadJson
    <2>5. StoreTypeOK'
      BY <2>1, <2>4
    <2>6. OnlyHolderWrites'
      BY <2>1, <2>3, <2>4
    <2>7. HolderKnows'
      BY <2>1, <2>3, <2>4
    <2> QED
      BY <2>4, <2>5, <2>6, <2>7
  <1>3. CASE OpenTmp(t)
    BY <1>3 DEF OpenTmp, Updated
  <1>4. CASE DumpJson(t)
    BY <1>4 DEF DumpJson, Updated
  <1>5. CASE ReplaceFile(t)
    <2>1. content' = loaded[t] \cup {t}
      BY <1>5 DEF ReplaceFile, Updated
    <2>2. \A u \in Writers : handle[u] = "none"
      BY <1>5 DEF ReplaceFile
    <2>3. handle' = handle
      BY <2>2, <1>5 DEF ReplaceFile, AfterRename
    <2> QED
      BY <1>5, <2>1, <2>2, <2>3 DEF ReplaceFile, Updated
  <1>6. CASE WriteFails(t)
    <2>1. \A u \in Writers : u # t => StoreAt(u, "idle")
      BY <1>6 DEF WriteFails
    <2>2. \A u \in Writers : u # t => handle[u] = "none"
      BY <2>1
    <2>3. handle' \in [Writers -> {"none"}]
      BY <1>6, <2>2 DEF WriteFails
    <2>4. \A u \in Writers : writing'[u] = "idle"
      BY <1>6, <2>1 DEF WriteFails
    <2>5. StoreTypeOK'
      BY <1>6, <2>3 DEF WriteFails
    <2> QED
      BY <1>6, <2>3, <2>4, <2>5 DEF WriteFails
  <1>7. CASE LeaveLocked(t)
    BY <1>7 DEF LeaveLocked, Updated
  <1> QED
    BY <1>1, <1>2, <1>3, <1>4, <1>5, <1>6, <1>7 DEF LockedUpdate, WriteJson

LEMMA CrashKeeps ==
  ASSUME StoreInv, NEW p \in Processes, StoreCrash(p)
  PROVE  StoreInv'
  BY StoreAssumption
  DEF StoreCrash, StoreInv, StoreTypeOK, OnlyHolderWrites, HolderKnows, StoreAt, Contents, Updated,
      ReadEnds

LEMMA ReadKeeps ==
  ASSUME StoreInv, NEW r \in StoreReaders, ReadUnlocked(r)
  PROVE  StoreInv'
  BY StoreAssumption
  DEF ReadUnlocked, ReadJson, Whole, Default, StoreInv, StoreTypeOK, OnlyHolderWrites,
      HolderKnows, StoreAt, Contents, Updated

LEMMA StoreInductive == StoreInv /\ [StoreNext]_storeVars => StoreInv'
  <1> SUFFICES ASSUME StoreInv, [StoreNext]_storeVars PROVE StoreInv'
    OBVIOUS
  <1>1. CASE UNCHANGED storeVars
    BY <1>1 DEF storeVars, readFailures, StoreInv, StoreTypeOK, OnlyHolderWrites, HolderKnows,
               StoreAt, Updated
  <1>2. CASE StoreNext
    BY <1>2, UpdateKeeps, CrashKeeps, ReadKeeps DEF StoreNext
  <1> QED
    BY <1>1, <1>2

(* The file, the lock and every writer's place have their types, through
   crashes and failing writes. *)
THEOREM StoreTypeCorrect == StoreSpec => []StoreTypeOK
  <1>1. StoreInv => StoreTypeOK
    BY DEF StoreInv
  <1> QED
    BY <1>1, StoreInitially, StoreInductive, PTL DEF StoreSpec

(* Each step of the store is a step of the register or leaves it alone. *)
LEMMA StepOfRegister ==
  ASSUME StoreInv, StoreInv', [StoreNext]_storeVars
  PROVE  [Register!RegisterNext]_(Register!registerVars)
  <1> USE DEF Register!registerVars, ReadJson, Whole, Default, readFailures
  <1>0. content # Torn /\ content' # Torn
    BY DEF StoreInv
  <1>1. CASE UNCHANGED storeVars
    BY <1>1 DEF storeVars
  <1>2. ASSUME NEW t \in Writers, LockedUpdate(t)
        PROVE  [Register!RegisterNext]_(Register!registerVars)
    <2>1. CASE ReplaceFile(t)
      <3>1. content' = (IF t \in misread THEN {} ELSE content) \cup {t}
        BY <2>1 DEF ReplaceFile, StoreInv, HolderKnows, StoreAt, Updated
      <3>2. Register!Apply(t) \/ Register!Replace(t)
        BY <1>0, <2>1, <3>1 DEF ReplaceFile, Register!Apply, Register!Replace
      <3> QED
        BY <3>2 DEF Register!RegisterNext
    <2>2. CASE LeaveLocked(t)
      <3>1. Register!Acknowledge(t)
        BY <1>0, <2>2 DEF LeaveLocked, ReadEnds, Register!Acknowledge, StoreInv, HolderKnows
      <3> QED
        BY <3>1 DEF Register!RegisterNext
    <2>3. CASE DumpJson(t)
      <3>1. handle[t] = "tmp"
        BY <2>3 DEF DumpJson, StoreInv, HolderKnows
      <3> QED
        BY <2>3, <3>1 DEF DumpJson
    <2>4. CASE EnterLocked(t) \/ OpenTmp(t)
      BY <2>4 DEF EnterLocked, OpenTmp
    <2>6. CASE WriteFails(t)
      <3>1. Register!Fetch(t)
        BY <2>6 DEF WriteFails, ReadEnds, Register!Fetch
      <3> QED
        BY <3>1 DEF Register!RegisterNext
    <2>5. CASE LoadJson(t)
      <3>1. Register!Fetch(t)
        BY <2>5 DEF LoadJson, Register!Fetch
      <3> QED
        BY <3>1 DEF Register!RegisterNext
    <2> QED
      BY <1>2, <2>1, <2>2, <2>3, <2>4, <2>5, <2>6 DEF LockedUpdate, WriteJson
  <1>3. ASSUME NEW p \in Processes, StoreCrash(p)
        PROVE  [Register!RegisterNext]_(Register!registerVars)
    <2>1. \A t \in misread : holder = t
      BY DEF StoreInv, StoreTypeOK, OnlyHolderWrites
    <2>2. misread' = {t \in misread : ProcessOf[t] # p} /\ misread \subseteq Writers
      BY <1>3 DEF StoreCrash, ReadEnds, StoreInv, StoreTypeOK
    <2>3. CASE misread' = misread
      BY <1>3, <2>3 DEF StoreCrash
    <2>4. CASE misread' # misread
      <3>1. PICK t \in Writers : misread' = misread \ {t}
        BY <2>1, <2>2, <2>4
      <3>2. Register!Fetch(t)
        BY <1>3, <3>1 DEF StoreCrash, Register!Fetch
      <3> QED
        BY <3>2 DEF Register!RegisterNext
    <2> QED
      BY <2>3, <2>4
  <1>4. ASSUME NEW r \in StoreReaders, ReadUnlocked(r)
        PROVE  [Register!RegisterNext]_(Register!registerVars)
    <2>1. Register!Look(r) \/ Register!LookFails(r)
      BY <1>4 DEF ReadUnlocked, Register!Look, Register!LookFails
    <2> QED
      BY <2>1 DEF Register!RegisterNext
  <1> QED
    BY <1>1, <1>2, <1>3, <1>4 DEF StoreNext

(* The state file behaves as a register that each locked update changes at once
   and whole: on top of what is there when its read was answered, in place of it
   when its read failed (atomic_json.py). *)
THEOREM StoreIsARegister == StoreSpec => StoreRefinesRegister
  <1>1. StoreInit => Register!RegisterInit
    BY StoreAssumption DEF StoreInit, Register!RegisterInit, ReadJson, Whole
  <1>2. StoreInv /\ StoreInv' /\ [StoreNext]_storeVars
          => [Register!RegisterNext]_(Register!registerVars)
    BY StepOfRegister
  <1> QED
    BY <1>1, <1>2, StoreInitially, StoreInductive, PTL
    DEF StoreSpec, StoreRefinesRegister, Register!RegisterSpec

-----------------------------------------------------------------------------
(* The commands of the user.                                               *)

Messages == [id : Updates, cmd : CommandSet]

(* Telegram numbers the updates, and keeps the last of them. *)
ServerPart ==
  /\ bserver \in Seq(Messages)
  /\ \A i \in DOMAIN bserver : bserver[i].id = bnext - 1 - Len(bserver) + i

(* The batch is what Telegram holds from the offset on, without what came since. *)
BatchFrom(m) ==
  /\ m + Len(bbatch) <= Len(bserver)
  /\ \A j \in 1 .. Len(bbatch) : bbatch[j] = bserver[m + j]
  /\ \A i \in DOMAIN bserver : bserver[i].id < boffset <=> i <= m

BatchPart == /\ bbatch \in Seq(Messages)
             /\ bbatch # <<>> => \E m \in Nat : BatchFrom(m)

(* Without a restart nothing from the offset on has run. *)
Histories == [runs : [Updates -> Nat], lost : SUBSET Updates, restarted : BOOLEAN,
              refused : BOOLEAN, delayed : BOOLEAN]

RunsPart == /\ bhist \in Histories
            /\ ~ bhist.restarted => \A u \in Updates : bhist.runs[u] <= 1
                                                      /\ (u >= boffset => bhist.runs[u] = 0)

BInv == BTypeOK /\ ServerPart /\ BatchPart /\ RunsPart /\ LastSwitchWins

LEMMA BInitially == BInit => BInv
<1> SUFFICES ASSUME BInit PROVE BInv
  OBVIOUS
<1>1. BTypeOK
  <2>1. BotDays \in Nat /\ BotDays >= 1 /\ MaxUpdates \in Nat /\ MaxBotFaults \in Nat
    BY BotAssumption
  <2>2. bday \in 1 .. BotDays /\ boffset \in 0 .. bnext /\ bnext \in 1 .. MaxUpdates + 1
        /\ bfaults \in 0 .. MaxBotFaults
    BY <2>1 DEF BInit
  <2>3. bfile \in -1 .. bday /\ bcache \in -1 .. bday /\ bengine \in -1 .. bday
    BY DEF BInit, NoSession, Unmade
  <2>4. bhalted \in BOOLEAN /\ bsaving = {} /\ bserver = <<>>
    BY DEF BInit
  <2> QED  BY <2>2, <2>3, <2>4 DEF BTypeOK
<1>2. ServerPart /\ BatchPart /\ LastSwitchWins
  BY DEF BInit, ServerPart, BatchPart, LastSwitchWins
<1>3. RunsPart
  <2>1. bhist \in Histories
    BY DEF BInit, Histories
  <2>2. \A u \in Updates : bhist.runs[u] = 0
    BY DEF BInit
  <2> QED  BY <2>1, <2>2 DEF RunsPart
<1> QED  BY <1>1, <1>2, <1>3 DEF BInv

(* The numbers of what Telegram holds are those up to the last one sent. *)
LEMMA Numbers ==
  ASSUME BTypeOK, ServerPart
  PROVE  /\ Len(bserver) \in Nat /\ DOMAIN bserver = 1 .. Len(bserver)
         /\ bnext \in Nat /\ boffset \in Nat /\ boffset <= bnext
         /\ \A i \in 1 .. Len(bserver) :
              /\ bserver[i] \in Messages /\ bserver[i].id \in Nat
              /\ bserver[i].id \in Updates /\ 1 <= bserver[i].id /\ bserver[i].id < bnext
              /\ bserver[i].id = bnext - 1 - Len(bserver) + i
<1>1. /\ MaxUpdates \in Nat /\ bnext \in Nat /\ boffset \in Nat /\ boffset <= bnext
      /\ Len(bserver) \in Nat /\ DOMAIN bserver = 1 .. Len(bserver)
  BY BotAssumption DEF BTypeOK, ServerPart
<1>2. ASSUME NEW i \in 1 .. Len(bserver)
      PROVE  /\ bserver[i] \in Messages /\ bserver[i].id \in Updates /\ bserver[i].id \in Nat
             /\ 1 <= bserver[i].id /\ bserver[i].id = bnext - 1 - Len(bserver) + i
  <2>1. bserver[i] \in Messages /\ bserver[i].id = bnext - 1 - Len(bserver) + i
    BY <1>1 DEF ServerPart
  <2>2. bserver[i].id \in Updates
    BY <2>1 DEF Messages
  <2> QED  BY <1>1, <2>1, <2>2 DEF Updates
<1>3. \A i \in 1 .. Len(bserver) : bserver[i].id < bnext
  BY <1>1, <1>2
<1> QED  BY <1>1, <1>2, <1>3

(* The command at the head of the batch is the first one at Telegram from the
   offset on; with it behind the offset the rest of the batch is in the same
   position. *)
LEMMA HeadIsNext ==
  ASSUME BTypeOK, ServerPart, BatchPart, bbatch # <<>>, boffset' = Head(bbatch).id + 1,
         bbatch' = Tail(bbatch) \/ bbatch' = <<>>, bserver' = bserver, bnext' = bnext
  PROVE  \E m \in 1 .. Len(bserver) :
           /\ Head(bbatch) = bserver[m] /\ boffset <= bserver[m].id
           /\ \A i \in 1 .. Len(bserver) : bserver[i].id < boffset' <=> i <= m
           /\ \A i \in 1 .. Len(bserver) : bserver[i].id < boffset <=> i < m
           /\ boffset' \in 1 .. bnext /\ BatchPart' /\ ServerPart'
<1>1. PICK n \in Nat : BatchFrom(n)
  BY DEF BatchPart
<1>2. /\ bbatch \in Seq(Messages) /\ Len(bbatch) \in Nat /\ Len(bbatch) >= 1
      /\ Head(bbatch) = bbatch[1]
  BY DEF BatchPart
<1> DEFINE m == n + 1
<1>3. m \in 1 .. Len(bserver) /\ Head(bbatch) = bserver[m]
  <2>1. n + Len(bbatch) <= Len(bserver) /\ 1 \in 1 .. Len(bbatch) /\ Len(bserver) \in Nat
    BY <1>1, <1>2, Numbers DEF BatchFrom
  <2>2. bbatch[1] = bserver[n + 1]
    BY <1>1, <2>1 DEF BatchFrom
  <2>3. m \in 1 .. Len(bserver)
    BY <1>2, <2>1
  <2> QED  BY Zenon, <1>2, <2>2, <2>3
<1>4. \A i \in 1 .. Len(bserver) : bserver[i].id < boffset <=> i < m
  <2>1. \A i \in 1 .. Len(bserver) : bserver[i].id < boffset <=> i <= n
    BY Zenon, <1>1, Numbers DEF BatchFrom
  <2>2. \A i \in 1 .. Len(bserver) : i <= n <=> i < m
    BY Numbers
  <2> QED  BY Zenon, <2>1, <2>2
<1>5. boffset' = bserver[m].id + 1
  BY <1>3
<1>6. \A i \in 1 .. Len(bserver) : bserver[i].id < boffset' <=> i <= m
  BY <1>3, <1>5, Numbers
<1>7. boffset <= bserver[m].id
  BY <1>3, <1>4, Numbers
<1>8. boffset' \in 1 .. bnext
  BY <1>3, <1>5, Numbers
<1>9. ServerPart'
  BY DEF ServerPart
<1>10. BatchPart'
  <2>1. CASE bbatch' = <<>>
    BY <2>1 DEF BatchPart
  <2>2. CASE bbatch' = Tail(bbatch)
    <3>1. /\ bbatch' \in Seq(Messages) /\ Len(bbatch') = Len(bbatch) - 1
          /\ \A j \in 1 .. Len(bbatch') : bbatch'[j] = bbatch[j + 1]
      BY <1>2, <2>2
    <3>2. \A j \in 1 .. Len(bbatch') : bbatch'[j] = bserver[m + j]
      <4> SUFFICES ASSUME NEW j \in 1 .. Len(bbatch') PROVE bbatch'[j] = bserver[m + j]
        OBVIOUS
      <4>1. j + 1 \in 1 .. Len(bbatch)
        BY <1>2, <3>1
      <4>2. bbatch[j + 1] = bserver[n + (j + 1)]
        BY <1>1, <4>1 DEF BatchFrom
      <4>3. n + (j + 1) = m + j
        OBVIOUS
      <4> QED  BY <3>1, <4>2, <4>3
    <3>3. m + Len(bbatch') <= Len(bserver)
      BY <1>1, <1>2, <3>1, Numbers DEF BatchFrom
    <3>4. BatchFrom(m)'
      BY <1>6, <3>2, <3>3, Numbers DEF BatchFrom
    <3> QED  BY <3>1, <3>4 DEF BatchPart
  <2> QED  BY <2>1, <2>2
<1> QED  BY <1>3, <1>4, <1>6, <1>7, <1>8, <1>9, <1>10

-----------------------------------------------------------------------------
(* A handled command has run, and the commands that were carried out are the same
   as before but for it. *)
LEMMA HandledRuns ==
  ASSUME BInv, bbatch # <<>>, boffset' = Head(bbatch).id + 1,
         bbatch' = Tail(bbatch), bserver' = bserver, bnext' = bnext,
         bhist'.runs = Counted.runs, bhist'.lost = Counted.lost,
         bhist' \in Histories, bhist'.restarted = Counted.restarted,
         \/ /\ Head(bbatch).cmd \in {"HALT", "RESUME"}
            /\ bhalted' = (Head(bbatch).cmd = "HALT")
         \/ Head(bbatch).cmd \notin {"HALT", "RESUME"} /\ bhalted' = bhalted
  PROVE  ServerPart' /\ BatchPart' /\ RunsPart' /\ LastSwitchWins' /\ boffset' \in 1 .. bnext
<1>1. PICK m \in 1 .. Len(bserver) :
        /\ Head(bbatch) = bserver[m] /\ boffset <= bserver[m].id
        /\ \A i \in 1 .. Len(bserver) : bserver[i].id < boffset' <=> i <= m
        /\ \A i \in 1 .. Len(bserver) : bserver[i].id < boffset <=> i < m
        /\ boffset' \in 1 .. bnext /\ BatchPart' /\ ServerPart'
  BY HeadIsNext DEF BInv
<1>2. /\ Len(bserver) \in Nat /\ DOMAIN bserver = 1 .. Len(bserver)
      /\ boffset \in Nat /\ bnext \in Nat
      /\ \A i \in 1 .. Len(bserver) : /\ bserver[i].id \in Updates /\ bserver[i].id \in Nat
                                      /\ bserver[i].id = bnext - 1 - Len(bserver) + i
  BY Numbers DEF BInv
<1> DEFINE h == bserver[m].id
<1>3. h \in Updates /\ h \in Nat /\ boffset' = h + 1 /\ boffset <= h
  BY <1>1, <1>2
<1>4. bhist'.runs = [bhist.runs EXCEPT ![h] = bhist.runs[h] + 1]
      /\ bhist'.lost = bhist.lost \ {h} /\ bhist'.restarted = bhist.restarted
  BY <1>1 DEF Counted
<1>5. RunsPart'
  <2>1. bhist.runs \in [Updates -> Nat]
    BY DEF BInv, RunsPart, Histories
  <2> HIDE DEF h
  <2>2. bhist'.runs \in [Updates -> Nat]
    BY <1>3, <1>4, <2>1
  <2>3. ASSUME ~ bhist'.restarted, NEW u \in Updates
        PROVE  bhist'.runs[u] <= 1 /\ (u >= boffset' => bhist'.runs[u] = 0)
    <3>1. /\ \A v \in Updates : bhist.runs[v] <= 1 /\ (v >= boffset => bhist.runs[v] = 0)
          /\ u \in Nat
      BY <1>4, <2>3 DEF BInv, RunsPart, Updates
    <3>2. CASE u = h
      BY <1>3, <1>4, <2>1, <3>1, <3>2
    <3>3. CASE u # h
      <4>1. bhist'.runs[u] = bhist.runs[u]
        BY <1>4, <2>1, <3>3
      <4> QED  BY <1>2, <1>3, <3>1, <4>1
    <3> QED  BY <3>2, <3>3
  <2> QED  BY <2>2, <2>3 DEF RunsPart
<1>6. \A i \in 1 .. Len(bserver) : i # m => bserver[i].id # h
  BY <1>2
<1>7. \A i \in 1 .. Len(bserver) :
        CarriedOut(i)' <=> \/ i < m /\ CarriedOut(i)
                           \/ i = m /\ bserver[m].cmd \in {"HALT", "RESUME"}
  <2> SUFFICES ASSUME NEW i \in 1 .. Len(bserver)
               PROVE  CarriedOut(i)' <=> \/ i < m /\ CarriedOut(i)
                                         \/ i = m /\ bserver[m].cmd \in {"HALT", "RESUME"}
    OBVIOUS
  <2>1. CarriedOut(i)' <=> /\ bserver[i].cmd \in {"HALT", "RESUME"} /\ i <= m
                           /\ bserver[i].id \notin bhist.lost \ {h}
    BY Zenon, <1>1, <1>4 DEF CarriedOut
  <2>2. CarriedOut(i) <=> /\ bserver[i].cmd \in {"HALT", "RESUME"} /\ i < m
                          /\ bserver[i].id \notin bhist.lost
    BY Zenon, <1>1 DEF CarriedOut
  <2>3. CASE i = m
    BY <1>2, <2>1, <2>3
  <2>4. CASE i # m
    <3>1. bserver[i].id # h
      BY <1>6, <2>4
    <3>2. bserver[i].id \notin bhist.lost \ {h} <=> bserver[i].id \notin bhist.lost
      BY Zenon, <3>1
    <3>3. i <= m <=> i < m
      BY <1>2, <2>4
    <3> HIDE DEF h
    <3> QED  BY Zenon, <2>1, <2>2, <2>4, <3>2, <3>3
  <2> QED  BY <2>3, <2>4
<1>8. LastSwitchWins'
  <2> SUFFICES ASSUME NEW i \in 1 .. Len(bserver), CarriedOut(i)',
                      \A j \in 1 .. Len(bserver) : CarriedOut(j)' => j <= i
               PROVE  bhalted' = (bserver[i].cmd = "HALT")
    BY Zenon, <1>2 DEF LastSwitchWins
  <2>1. CASE bserver[m].cmd \in {"HALT", "RESUME"}
    <3>1. i = m
      BY <1>2, <1>7, <2>1
    <3> QED  BY Zenon, <1>1, <2>1, <3>1
  <2>2. CASE bserver[m].cmd \notin {"HALT", "RESUME"}
    <3>1. i < m /\ CarriedOut(i)
      BY Zenon, <1>7, <2>2
    <3>2. \A j \in 1 .. Len(bserver) : CarriedOut(j) => j < m
      BY Zenon, <1>1 DEF CarriedOut
    <3>3. \A j \in 1 .. Len(bserver) : CarriedOut(j) => j <= i
      BY Zenon, <1>7, <3>2
    <3>4. bhalted' = bhalted
      BY Zenon, <1>1, <2>2
    <3>5. bhalted = (bserver[i].cmd = "HALT")
      BY Zenon, <1>2, <3>1, <3>3 DEF BInv, LastSwitchWins
    <3> QED  BY Zenon, <3>4, <3>5
  <2> QED  BY <2>1, <2>2
<1> QED  BY <1>1, <1>5, <1>8

(* A command whose handler raised is behind the offset and lost. *)
LEMMA RaisedIsLost ==
  ASSUME BInv, HandlerRaises
  PROVE  BInv'
<1>1. /\ bbatch # <<>> /\ boffset' = Head(bbatch).id + 1 /\ bbatch' = <<>>
      /\ bserver' = bserver /\ bnext' = bnext /\ bhalted' = bhalted
      /\ bday' = bday /\ bfile' = bfile /\ bsaving' = bsaving /\ bcache' = bcache /\ bengine' = bengine
      /\ bhist' = [bhist EXCEPT !.lost = @ \cup {Head(bbatch).id}]
      /\ bfaults < MaxBotFaults /\ bfaults' = bfaults + 1
  BY DEF HandlerRaises, Resumes, BFault
<1>2. PICK m \in 1 .. Len(bserver) :
        /\ Head(bbatch) = bserver[m] /\ boffset <= bserver[m].id
        /\ \A i \in 1 .. Len(bserver) : bserver[i].id < boffset' <=> i <= m
        /\ \A i \in 1 .. Len(bserver) : bserver[i].id < boffset <=> i < m
        /\ boffset' \in 1 .. bnext /\ BatchPart' /\ ServerPart'
  BY <1>1, HeadIsNext DEF BInv
<1>3. /\ Len(bserver) \in Nat /\ DOMAIN bserver = 1 .. Len(bserver)
      /\ boffset \in Nat /\ bnext \in Nat
      /\ \A i \in 1 .. Len(bserver) : /\ bserver[i].id \in Updates /\ bserver[i].id \in Nat
                                      /\ bserver[i].id = bnext - 1 - Len(bserver) + i
  BY Numbers DEF BInv
<1> DEFINE h == bserver[m].id
<1>4. h \in Updates /\ h \in Nat /\ boffset' = h + 1 /\ boffset <= h
  BY <1>1, <1>2, <1>3
<1>5. /\ bhist' \in Histories /\ bhist'.runs = bhist.runs /\ bhist'.lost = bhist.lost \cup {h}
      /\ bhist'.restarted = bhist.restarted
  <2>1. bhist \in Histories /\ bhist' = [bhist EXCEPT !.lost = @ \cup {h}]
    BY <1>1, <1>2 DEF BInv, RunsPart
  <2> HIDE DEF h
  <2> QED  BY <1>4, <2>1 DEF Histories
<1>6. RunsPart'
  <2>1. ASSUME ~ bhist'.restarted, NEW u \in Updates
        PROVE  bhist'.runs[u] <= 1 /\ (u >= boffset' => bhist'.runs[u] = 0)
    <3>1. /\ bhist.runs[u] <= 1 /\ (u >= boffset => bhist.runs[u] = 0) /\ u \in Nat
      BY <1>5, <2>1 DEF BInv, RunsPart, Updates
    <3> HIDE DEF h
    <3> QED  BY <1>3, <1>4, <1>5, <3>1
  <2> QED  BY <1>5, <2>1 DEF RunsPart
<1>7. \A i \in 1 .. Len(bserver) : CarriedOut(i)' <=> CarriedOut(i)
  <2> SUFFICES ASSUME NEW i \in 1 .. Len(bserver) PROVE CarriedOut(i)' <=> CarriedOut(i)
    OBVIOUS
  <2>1. CarriedOut(i)' <=> /\ bserver[i].cmd \in {"HALT", "RESUME"} /\ i <= m
                           /\ bserver[i].id \notin bhist.lost \cup {h}
    BY Zenon, <1>1, <1>2, <1>5 DEF CarriedOut
  <2>2. CarriedOut(i) <=> /\ bserver[i].cmd \in {"HALT", "RESUME"} /\ i < m
                          /\ bserver[i].id \notin bhist.lost
    BY Zenon, <1>2 DEF CarriedOut
  <2>3. CASE i = m
    BY <1>3, <2>1, <2>2, <2>3
  <2>4. CASE i # m
    <3>1. bserver[i].id # h
      BY <1>3, <2>4
    <3>2. bserver[i].id \notin bhist.lost \cup {h} <=> bserver[i].id \notin bhist.lost
      BY Zenon, <3>1
    <3>3. i <= m <=> i < m
      BY <1>3, <2>4
    <3> HIDE DEF h
    <3> QED  BY Zenon, <2>1, <2>2, <3>2, <3>3
  <2> QED  BY <2>3, <2>4
<1>8. LastSwitchWins'
  BY Zenon, <1>1, <1>3, <1>7 DEF BInv, LastSwitchWins
<1>9. BTypeOK'
  <2>1. \A i \in DOMAIN bserver' : bserver'[i].id \in 1 .. bnext' - 1
    BY Zenon, <1>1 DEF BInv, BTypeOK
  <2>2. boffset' \in 0 .. bnext'
    BY <1>1, <1>2, <1>3
  <2>3. bfaults' \in 0 .. MaxBotFaults
    BY <1>1, BotAssumption DEF BInv, BTypeOK
  <2> QED  BY <1>1, <2>1, <2>2, <2>3 DEF BInv, BTypeOK
<1> QED  BY <1>2, <1>6, <1>8, <1>9 DEF BInv

-----------------------------------------------------------------------------
(* What the other actions of the poller and the user do. *)
LEMMA SendKeeps ==
  ASSUME BInv, NEW cmd \in CommandSet, UserSends(cmd)
  PROVE  BInv'
<1> DEFINE new == [id |-> bnext, cmd |-> cmd]
<1>1. /\ bnext <= MaxUpdates /\ bserver' = Append(bserver, new) /\ bnext' = bnext + 1
      /\ boffset' = boffset /\ bbatch' = bbatch /\ bhist' = bhist /\ bhalted' = bhalted
      /\ bday' = bday /\ bfile' = bfile /\ bsaving' = bsaving /\ bcache' = bcache
      /\ bengine' = bengine /\ bfaults' = bfaults
  BY DEF UserSends
<1>2. /\ Len(bserver) \in Nat /\ DOMAIN bserver = 1 .. Len(bserver)
      /\ boffset \in Nat /\ bnext \in Nat /\ boffset <= bnext /\ MaxUpdates \in Nat
      /\ \A i \in 1 .. Len(bserver) : /\ bserver[i].id \in Updates /\ bserver[i].id \in Nat
                                      /\ bserver[i].id = bnext - 1 - Len(bserver) + i
                                      /\ 1 <= bserver[i].id /\ bserver[i].id < bnext
  BY Numbers, BotAssumption DEF BInv
<1>3. new \in Messages /\ new.id = bnext
  <2>1. bnext \in Updates
    BY <1>1, <1>2 DEF Updates, BInv, BTypeOK
  <2> QED  BY <2>1 DEF Messages
<1> HIDE DEF new
<1>4. /\ bserver' \in Seq(Messages) /\ Len(bserver') = Len(bserver) + 1
      /\ DOMAIN bserver' = 1 .. Len(bserver) + 1
      /\ \A i \in 1 .. Len(bserver) : bserver'[i] = bserver[i]
      /\ bserver'[Len(bserver) + 1] = new
  BY <1>1, <1>2, <1>3 DEF BInv, ServerPart
<1>5. ServerPart'
  <2>1. ASSUME NEW i \in 1 .. Len(bserver) + 1
        PROVE  bserver'[i].id = bnext' - 1 - Len(bserver') + i
    <3>1. CASE i = Len(bserver) + 1
      BY <1>1, <1>2, <1>3, <1>4, <3>1
    <3>2. CASE i # Len(bserver) + 1
      <4>1. i \in 1 .. Len(bserver)
        BY <1>2, <3>2
      <4> QED  BY <1>1, <1>2, <1>4, <4>1
    <3> QED  BY <3>1, <3>2
  <2> QED  BY <1>4, <2>1 DEF ServerPart
<1>6. BatchPart'
  <2>1. ASSUME NEW n \in Nat, BatchFrom(n), bbatch # <<>>
        PROVE  BatchFrom(n)'
    <3>1. Len(bbatch) \in Nat /\ Len(bbatch) >= 1
      BY <2>1 DEF BInv, BatchPart
    <3>2. n + Len(bbatch) <= Len(bserver') /\ n < Len(bserver) + 1
      BY <1>2, <1>4, <2>1, <3>1 DEF BatchFrom
    <3>3. \A j \in 1 .. Len(bbatch) : bbatch[j] = bserver'[n + j]
      <4> SUFFICES ASSUME NEW j \in 1 .. Len(bbatch) PROVE bbatch[j] = bserver'[n + j]
        OBVIOUS
      <4>1. n + j \in 1 .. Len(bserver) /\ bbatch[j] = bserver[n + j]
        BY <1>2, <2>1, <3>1 DEF BatchFrom
      <4> QED  BY <1>4, <4>1
    <3>4. \A i \in 1 .. Len(bserver) + 1 : bserver'[i].id < boffset <=> i <= n
      <4> SUFFICES ASSUME NEW i \in 1 .. Len(bserver) + 1
                   PROVE  bserver'[i].id < boffset <=> i <= n
        OBVIOUS
      <4>1. CASE i = Len(bserver) + 1
        BY <1>2, <1>3, <1>4, <3>2, <4>1
      <4>2. CASE i # Len(bserver) + 1
        <5>1. i \in 1 .. Len(bserver)
          BY <1>2, <4>2
        <5>2. bserver[i].id < boffset <=> i <= n
          BY <1>2, <2>1, <5>1 DEF BatchFrom
        <5> QED  BY <1>4, <5>1, <5>2
      <4> QED  BY <4>1, <4>2
    <3> QED  BY <1>1, <1>4, <3>2, <3>3, <3>4 DEF BatchFrom
  <2> QED  BY <1>1, <2>1 DEF BInv, BatchPart
<1>7. \A i \in 1 .. Len(bserver) + 1 : CarriedOut(i)' <=> i \in 1 .. Len(bserver) /\ CarriedOut(i)
  <2> SUFFICES ASSUME NEW i \in 1 .. Len(bserver) + 1
               PROVE  CarriedOut(i)' <=> i \in 1 .. Len(bserver) /\ CarriedOut(i)
    OBVIOUS
  <2>1. CASE i = Len(bserver) + 1
    <3>1. ~ (bserver'[i].id < boffset') /\ i \notin 1 .. Len(bserver)
      BY <1>1, <1>2, <1>3, <1>4, <2>1
    <3> QED  BY Zenon, <3>1 DEF CarriedOut
  <2>2. CASE i # Len(bserver) + 1
    <3>1. i \in 1 .. Len(bserver)
      BY <1>2, <2>2
    <3> QED  BY Zenon, <1>1, <1>4, <3>1 DEF CarriedOut
  <2> QED  BY <2>1, <2>2
<1>8. LastSwitchWins'
  <2>1. 1 .. Len(bserver) \subseteq 1 .. Len(bserver) + 1
    BY <1>2
  <2> SUFFICES ASSUME NEW i \in 1 .. Len(bserver) + 1, CarriedOut(i)',
                      \A j \in 1 .. Len(bserver) + 1 : CarriedOut(j)' => j <= i
               PROVE  bhalted' = (bserver'[i].cmd = "HALT")
    BY Zenon, <1>4 DEF LastSwitchWins
  <2>2. i \in 1 .. Len(bserver) /\ CarriedOut(i) /\ \A j \in 1 .. Len(bserver) : CarriedOut(j) => j <= i
    BY Zenon, <1>7, <2>1
  <2>3. bhalted = (bserver[i].cmd = "HALT")
    BY Zenon, <1>2, <2>2 DEF BInv, LastSwitchWins
  <2> QED  BY Zenon, <1>1, <1>4, <2>2, <2>3
<1>9. BTypeOK'
  <2>1. \A i \in DOMAIN bserver' : bserver'[i].id \in 1 .. bnext' - 1
    <3> SUFFICES ASSUME NEW i \in 1 .. Len(bserver) + 1 PROVE bserver'[i].id \in 1 .. bnext' - 1
      BY <1>4
    <3>1. CASE i = Len(bserver) + 1
      BY <1>1, <1>2, <1>3, <1>4, <3>1 DEF BInv, BTypeOK
    <3>2. CASE i # Len(bserver) + 1
      <4>1. i \in 1 .. Len(bserver)
        BY <1>2, <3>2
      <4> QED  BY <1>1, <1>2, <1>4, <4>1
    <3> QED  BY <3>1, <3>2
  <2>2. boffset' \in 0 .. bnext' /\ bnext' \in 1 .. MaxUpdates + 1
    BY <1>1, <1>2 DEF BInv, BTypeOK
  <2> QED  BY <1>1, <2>1, <2>2 DEF BInv, BTypeOK
<1>10. RunsPart'
  BY <1>1 DEF BInv, RunsPart
<1> QED  BY <1>5, <1>6, <1>8, <1>9, <1>10 DEF BInv

LEMMA CutFront ==
  ASSUME NEW S, NEW s \in Seq(S), NEW k \in 0 .. Len(s)
  PROVE  /\ SubSeq(s, k + 1, Len(s)) \in Seq(S)
         /\ Len(SubSeq(s, k + 1, Len(s))) = Len(s) - k
         /\ \A i \in 1 .. Len(s) - k : SubSeq(s, k + 1, Len(s))[i] = s[i + k]
<1>1. Len(s) \in Nat /\ k \in Nat /\ k <= Len(s)
  OBVIOUS
<1>2. \A i \in k + 1 .. Len(s) : s[i] \in S
  BY <1>1
<1>3. Len(SubSeq(s, k + 1, Len(s))) = Len(s) - k
  BY <1>1
<1>4. SubSeq(s, k + 1, Len(s)) \in Seq(S)
  BY <1>1, <1>2
<1>5. ASSUME NEW i \in 1 .. Len(s) - k
      PROVE  SubSeq(s, k + 1, Len(s))[i] = s[i + k]
  BY <1>1
<1> QED  BY <1>3, <1>4, <1>5

LEMMA PollKeeps ==
  ASSUME BInv, Poll
  PROVE  BInv'
<1>1. PICK k \in 0 .. Len(bserver) :
        /\ \A i \in DOMAIN bserver : bserver[i].id < boffset <=> i <= k
        /\ bserver' = SubSeq(bserver, k + 1, Len(bserver))
  BY DEF Poll
<1>2. /\ bbatch = <<>> /\ (bbatch' = bserver' \/ bbatch' = <<>>)
      /\ boffset' = boffset /\ bnext' = bnext /\ bhist' = bhist /\ bhalted' = bhalted
      /\ bday' = bday /\ bfile' = bfile /\ bsaving' = bsaving /\ bcache' = bcache
      /\ bengine' = bengine /\ bfaults' \in 0 .. MaxBotFaults
  <2>1. bfaults' \in 0 .. MaxBotFaults
    BY BotAssumption DEF Poll, BFault, BInv, BTypeOK
  <2> QED  BY <2>1 DEF Poll, BFault
<1>3. /\ Len(bserver) \in Nat /\ DOMAIN bserver = 1 .. Len(bserver)
      /\ boffset \in Nat /\ bnext \in Nat /\ boffset <= bnext
      /\ \A i \in 1 .. Len(bserver) : /\ bserver[i].id \in Nat
                                      /\ bserver[i].id = bnext - 1 - Len(bserver) + i
                                      /\ 1 <= bserver[i].id /\ bserver[i].id < bnext
  BY Numbers DEF BInv
<1>4. /\ bserver' \in Seq(Messages) /\ Len(bserver') = Len(bserver) - k
      /\ DOMAIN bserver' = 1 .. Len(bserver) - k
      /\ \A i \in 1 .. Len(bserver) - k : bserver'[i] = bserver[i + k]
  <2>1. bserver \in Seq(Messages)
    BY DEF BInv, ServerPart
  <2>2. /\ bserver' \in Seq(Messages) /\ Len(bserver') = Len(bserver) - k
        /\ \A i \in 1 .. Len(bserver) - k : bserver'[i] = bserver[i + k]
    BY <1>1, <2>1, CutFront
  <2> QED  BY <2>2
<1>5. ASSUME NEW i \in 1 .. Len(bserver) - k
      PROVE  /\ i + k \in 1 .. Len(bserver) /\ bserver'[i] = bserver[i + k]
             /\ bserver'[i].id = bnext - 1 - Len(bserver') + i
             /\ bserver'[i].id \in 1 .. bnext - 1 /\ ~ (bserver'[i].id < boffset)
  <2>1. i + k \in 1 .. Len(bserver) /\ ~ (i + k <= k) /\ bserver'[i] = bserver[i + k]
    <3>1. Len(bserver) \in Nat /\ k \in Nat /\ i \in Nat /\ 1 <= i /\ i <= Len(bserver) - k
      BY <1>3
    <3>2. i + k \in 1 .. Len(bserver) /\ ~ (i + k <= k)
      BY <3>1
    <3> QED  BY Zenon, <1>4, <3>2
  <2>2. ~ (bserver[i + k].id < boffset)
    BY <1>1, <1>3, <2>1
  <2> QED  BY <1>3, <1>4, <2>1, <2>2
<1>6. ServerPart'
  BY <1>2, <1>4, <1>5 DEF ServerPart
<1>7. BatchPart'
  <2>1. CASE bbatch' = <<>>
    BY <2>1 DEF BatchPart
  <2>2. CASE bbatch' = bserver'
    <3>1. Len(bbatch') = Len(bserver') /\ Len(bserver') \in Nat /\ DOMAIN bserver' = 1 .. Len(bserver')
      BY <1>4, <2>2
    <3>2. \A j \in 1 .. Len(bbatch') : 0 + j = j /\ bbatch'[j] = bserver'[j]
      BY <2>2
    <3>3. \A i \in 1 .. Len(bserver') : ~ (bserver'[i].id < boffset') /\ ~ (i <= 0)
      BY <1>2, <1>4, <1>5
    <3>4. BatchFrom(0)'
      BY <3>1, <3>2, <3>3 DEF BatchFrom
    <3> QED  BY <1>4, <2>2, <3>4 DEF BatchPart
  <2> QED  BY <1>2, <2>1, <2>2
<1>8. LastSwitchWins'
  <2>1. \A i \in DOMAIN bserver' : ~ CarriedOut(i)'
    BY Zenon, <1>2, <1>4, <1>5 DEF CarriedOut
  <2> QED  BY Zenon, <2>1 DEF LastSwitchWins
<1>9. BTypeOK'
  <2>1. \A i \in DOMAIN bserver' : bserver'[i].id \in 1 .. bnext' - 1
    BY <1>2, <1>4, <1>5
  <2> QED  BY <1>2, <2>1 DEF BInv, BTypeOK
<1>10. RunsPart'
  BY <1>2 DEF BInv, RunsPart
<1> QED  BY <1>6, <1>7, <1>8, <1>9, <1>10 DEF BInv

(* Everything else leaves the updates and what has run alone. *)
Sessions == /\ bday \in 1 .. BotDays /\ bhalted \in BOOLEAN /\ bfile \in -1 .. bday
            /\ bsaving \subseteq {"bot", "engine"} /\ bcache \in -1 .. bday
            /\ bengine \in -1 .. bday /\ bfaults \in 0 .. MaxBotFaults

LEMMA FrameKeeps ==
  ASSUME BInv, Sessions', UNCHANGED <<bserver, boffset, bbatch, bnext, bhalted, bhist>>
  PROVE  BInv'
<1>1. ServerPart' /\ BatchPart' /\ RunsPart'
  <2>1. bserver' = bserver /\ boffset' = boffset /\ bbatch' = bbatch /\ bnext' = bnext /\ bhist' = bhist
    OBVIOUS
  <2> QED  BY Zenon, <2>1 DEF BInv, ServerPart, BatchPart, BatchFrom, RunsPart
<1>2. LastSwitchWins'
  <2>1. bserver' = bserver /\ boffset' = boffset /\ bhalted' = bhalted /\ bhist' = bhist
    OBVIOUS
  <2>2. \A i : CarriedOut(i)' <=> CarriedOut(i)
    BY Zenon, <2>1 DEF CarriedOut
  <2> QED  BY Zenon, <2>1, <2>2 DEF BInv, LastSwitchWins
<1>3. BTypeOK'
  <2>1. bserver' = bserver /\ boffset' = boffset /\ bnext' = bnext
    OBVIOUS
  <2> QED  BY Zenon, <2>1 DEF BInv, BTypeOK, Sessions
<1> QED  BY <1>1, <1>2, <1>3 DEF BInv

LEMMA RestartKeeps ==
  ASSUME BInv, BotRestarts
  PROVE  BInv'
<1>1. /\ bbatch' = <<>> /\ boffset' = 0 /\ bcache' = Unmade /\ bsaving' = bsaving \ {"bot"}
      /\ bserver' = bserver /\ bnext' = bnext /\ bhalted' = bhalted
      /\ bday' = bday /\ bfile' = bfile /\ bengine' = bengine
      /\ bfaults' \in 0 .. MaxBotFaults
  BY BotAssumption DEF BotRestarts, BFault, BInv, BTypeOK
<1>2. bhist' \in Histories /\ bhist'.restarted
  <2> DEFINE yes == TRUE
  <2>1. bhist \in Histories /\ bhist' = [bhist EXCEPT !.restarted = yes] /\ yes \in BOOLEAN /\ yes
    BY DEF BotRestarts, BInv, RunsPart
  <2> HIDE DEF yes
  <2> QED  BY <2>1 DEF Histories
<1>3. RunsPart'
  BY <1>2 DEF RunsPart
<1>4. ServerPart' /\ BatchPart'
  BY <1>1 DEF BInv, ServerPart, BatchPart
<1>5. LastSwitchWins'
  <2>1. \A i \in DOMAIN bserver : ~ (bserver[i].id < 0)
    BY Numbers DEF BInv
  <2> QED  BY Zenon, <1>1, <2>1 DEF LastSwitchWins, CarriedOut
<1>6. BTypeOK'
  <2>1. bnext \in 1 .. MaxUpdates + 1 /\ 0 \in 0 .. bnext
    BY DEF BInv, BTypeOK
  <2>2. bcache' \in -1 .. bday'
    BY <1>1 DEF BInv, BTypeOK, Unmade
  <2>3. bsaving' \subseteq {"bot", "engine"}
    BY <1>1 DEF BInv, BTypeOK
  <2> QED  BY Zenon, <1>1, <2>1, <2>2, <2>3 DEF BInv, BTypeOK
<1> QED  BY <1>3, <1>4, <1>5, <1>6 DEF BInv

LEMMA CountedIsTyped ==
  ASSUME BInv, bbatch # <<>>
  PROVE  Counted \in Histories
<1>1. bhist \in Histories /\ Head(bbatch) \in Messages
  BY DEF BInv, RunsPart, BatchPart
<1>2. Head(bbatch).id \in Updates
  BY <1>1 DEF Messages
<1>3. Counted.runs \in [Updates -> Nat] /\ Counted.lost \subseteq Updates
  BY <1>1, <1>2 DEF Counted, Histories
<1> QED  BY Zenon, <1>1, <1>3 DEF Counted, Histories

LEMMA HandleKeeps ==
  ASSUME BInv, Handle
  PROVE  BInv'
<1>1. /\ bbatch # <<>> /\ boffset' = Head(bbatch).id + 1 /\ bbatch' = Tail(bbatch)
      /\ bserver' = bserver /\ bnext' = bnext /\ bday' = bday /\ bfaults' = bfaults
      /\ bengine' = bengine
  BY DEF Handle, HandleSwitch, HandleToken, HandlePrice, HandleOther, Taken
<1>2. Counted \in Histories
  BY <1>1, CountedIsTyped
<1>3. /\ bhist' \in Histories
      /\ bhist'.runs = Counted.runs /\ bhist'.lost = Counted.lost
      /\ bhist'.restarted = Counted.restarted
  <2>1. CASE bhist' = Counted
    BY <1>2, <2>1
  <2>2. CASE bhist' = [Counted EXCEPT !.refused = TRUE]
    <3> DEFINE yes == TRUE
    <3>1. bhist' = [Counted EXCEPT !.refused = yes] /\ yes \in BOOLEAN
      BY <2>2
    <3> HIDE DEF yes
    <3> QED  BY <1>2, <3>1 DEF Histories
  <2>3. CASE bhist' = [Counted EXCEPT !.delayed = @ \/ (bengine = bday /\ Cached # bday)]
    <3> DEFINE late == Counted.delayed \/ (bengine = bday /\ Cached # bday)
    <3>1. bhist' = [Counted EXCEPT !.delayed = late]
      BY <2>3
    <3>2. late \in BOOLEAN
      OBVIOUS
    <3> HIDE DEF late
    <3> QED  BY <1>2, <3>1, <3>2 DEF Histories
  <2> QED  BY Zenon, <2>1, <2>2, <2>3 DEF Handle, HandleSwitch, HandleToken, HandlePrice, HandleOther
<1>4. /\ bhalted' \in BOOLEAN
      /\ \/ /\ Head(bbatch).cmd \in {"HALT", "RESUME"}
            /\ bhalted' = (Head(bbatch).cmd = "HALT")
         \/ Head(bbatch).cmd \notin {"HALT", "RESUME"} /\ bhalted' = bhalted
  <2>1. bhalted \in BOOLEAN
    BY DEF BInv, BTypeOK
  <2> QED  BY <2>1 DEF Handle, HandleSwitch, HandleToken, HandlePrice, HandleOther
<1>5. ServerPart' /\ BatchPart' /\ RunsPart' /\ LastSwitchWins' /\ boffset' \in 1 .. bnext
  BY Zenon, <1>1, <1>3, <1>4, HandledRuns
<1>6. bday \in 1 .. BotDays /\ BotDays \in Nat
  BY BotAssumption DEF BInv, BTypeOK
<1>7. bfile' \in -1 .. bday /\ bcache' \in -1 .. bday
  <2>1. bfile \in -1 .. bday /\ bcache \in -1 .. bday
    BY DEF BInv, BTypeOK
  <2>2. -1 \in -1 .. bday /\ 0 \in -1 .. bday /\ bday \in -1 .. bday
    BY <1>6
  <2>3. Cached \in -1 .. bday
    BY <2>1, <2>2 DEF Cached, Loaded, NoSession
  <2>4. bfile' = bfile \/ bfile' = -1
    BY DEF Handle, HandleSwitch, HandleToken, HandlePrice, HandleOther, TornFile
  <2>5. bcache' = bcache \/ bcache' = Cached
    BY DEF Handle, HandleSwitch, HandleToken, HandlePrice, HandleOther
  <2> QED  BY <2>1, <2>2, <2>3, <2>4, <2>5
<1>8. bsaving' \subseteq {"bot", "engine"}
  BY DEF Handle, HandleSwitch, HandleToken, HandlePrice, HandleOther, BInv, BTypeOK
<1>9. BTypeOK'
  <2>1. \A i \in DOMAIN bserver' : bserver'[i].id \in 1 .. bnext' - 1
    BY Zenon, <1>1 DEF BInv, BTypeOK
  <2>2. boffset' \in 0 .. bnext'
    BY <1>1, <1>5
  <2> QED  BY Zenon, <1>1, <1>4, <1>7, <1>8, <2>1, <2>2 DEF BInv, BTypeOK
<1> QED  BY <1>5, <1>9 DEF BInv

LEMMA SessionsKeep ==
  ASSUME BInv, (\E who \in {"bot", "engine"} : FinishSave(who)) \/ MorningLogin \/ BNextDay
  PROVE  BInv'
<1>1. /\ bday \in Nat /\ 1 <= bday /\ bday <= BotDays /\ BotDays \in Nat
      /\ bfile \in -1 .. bday /\ bcache \in -1 .. bday /\ bengine \in -1 .. bday
      /\ bsaving \subseteq {"bot", "engine"} /\ bfaults \in 0 .. MaxBotFaults
      /\ MaxBotFaults \in Nat /\ bhalted \in BOOLEAN
  BY BotAssumption DEF BInv, BTypeOK
<1>2. ASSUME NEW who \in {"bot", "engine"}, FinishSave(who)
      PROVE  BInv'
  <2>1. bday' = bday /\ bcache' = bcache /\ bfaults' = bfaults /\ bhalted' = bhalted
        /\ bfile' = bday /\ (bengine' = bengine \/ bengine' = bday) /\ bsaving' = bsaving \ {who}
    BY <1>2 DEF FinishSave
  <2>2. Sessions'
    BY <1>1, <2>1 DEF Sessions
  <2> QED  BY <1>2, <2>2, FrameKeeps DEF FinishSave
<1>3. CASE MorningLogin
  <2>1. bday' = bday /\ bcache' = bcache /\ bhalted' = bhalted
        /\ (bfile' = bfile \/ bfile' = -1) /\ (bengine' = bengine \/ bengine' = -1)
        /\ (bsaving' = bsaving \/ bsaving' = bsaving \cup {"engine"})
        /\ bfaults' \in 0 .. MaxBotFaults
    BY <1>1, <1>3 DEF MorningLogin, BFault, TornFile, Unmade
  <2> DEFINE login == bengine'  kept == bfile'
  <2>2. login \in -1 .. bday /\ kept \in -1 .. bday
    BY <1>1, <2>1
  <2> HIDE DEF login, kept
  <2>3. bsaving' \subseteq {"bot", "engine"}
    BY <1>1, <2>1
  <2>4. Sessions'
    BY Zenon, <1>1, <2>1, <2>2, <2>3 DEF Sessions, login, kept, BInv, BTypeOK
  <2> QED  BY <1>3, <2>4, FrameKeeps DEF MorningLogin
<1>4. CASE BNextDay
  <2>1. bday' = bday + 1 /\ bday < BotDays /\ bcache' = bcache /\ bhalted' = bhalted /\ bfile' = bfile
        /\ bengine' = bengine /\ bsaving' = bsaving /\ bfaults' = bfaults
    BY <1>4 DEF BNextDay
  <2>2. Sessions'
    BY <1>1, <2>1 DEF Sessions
  <2> QED  BY <1>4, <2>2, FrameKeeps DEF BNextDay
<1> QED  BY <1>2, <1>3, <1>4

(* For any updates, days, commands, tokens and faults: a poller that is not
   restarted runs no command twice, although an answer may be lost and an update
   stays at Telegram until the call after it was handled; and the last HALT or
   RESUME carried out decides, restarts or not.
   (src/src/notify/telegram_bot.py:93-95.) *)
THEOREM CommandsHold == BSpec => [](BTypeOK /\ RunsOnce /\ LastSwitchWins)
<1>1. BInv /\ [BNext]_bVars => BInv'
  <2> SUFFICES ASSUME BInv, [BNext]_bVars PROVE BInv'
    OBVIOUS
  <2>1. ASSUME NEW cmd \in CommandSet, UserSends(cmd) PROVE BInv'
    BY <2>1, SendKeeps
  <2>2. CASE Poll
    BY <2>2, PollKeeps
  <2>3. CASE Handle
    BY <2>3, HandleKeeps
  <2>4. CASE HandlerRaises
    BY <2>4, RaisedIsLost
  <2>5. CASE BotRestarts
    BY <2>5, RestartKeeps
  <2>6. CASE (\E who \in {"bot", "engine"} : FinishSave(who)) \/ MorningLogin \/ BNextDay
    BY Zenon, <2>6, SessionsKeep
  <2>7. CASE UNCHANGED bVars
    <3>1. Sessions /\ UNCHANGED <<bday, bhalted, bfile, bsaving, bcache, bengine, bfaults>>
      BY Zenon, <2>7 DEF bVars, BInv, BTypeOK, Sessions
    <3>2. Sessions'
      BY Zenon, <3>1 DEF Sessions
    <3> QED  BY Zenon, <2>7, <3>2, FrameKeeps DEF bVars
  <2> QED  BY Zenon, <2>1, <2>2, <2>3, <2>4, <2>5, <2>6, <2>7 DEF BNext
<1>2. BInv => BTypeOK /\ RunsOnce /\ LastSwitchWins
  BY DEF BInv, RunsPart, RunsOnce
<1> QED  BY BInitially, <1>1, <1>2, PTL DEF BSpec

-----------------------------------------------------------------------------
(* The radar. *)

Gates == [day : Nat, sent : Nat, last : [Combos -> Nat]]
Walks == [gate : Gates, kept : Seq(Combos), over : BOOLEAN]
Verdicts == Outcomes \cup {"PENDING"}
Rows == [combo : Combos, at : Nat, outcome : Verdicts]
Works == [alerts : Seq(Combos), step : {1, 2}, shadow : Seq(Combos), digest : BOOLEAN]
Hists == [pinged : [Combos -> Nat], pings : Nat, eods : Nat, again : BOOLEAN]

(* The times a gate keeps are not in the future, and it keeps its budget. *)
GateIsSound(gate) == /\ gate \in Gates /\ gate.sent <= MaxPerDay
                     /\ \A c \in Combos : gate.last[c] <= rpass + 1

GatePart == /\ rpass \in Nat /\ rpass <= LastPass
            /\ rgate \in [{"alert", "mute"} -> Gates]
            /\ GateIsSound(rgate["alert"]) /\ GateIsSound(rgate["mute"])

ClockPart == /\ rphase \in {"wake", "work", "sweep", "sleep"}
             /\ rdigest \in Nat /\ rdigest <= rpass + 1
             /\ reod \in Nat /\ reod <= Today + 1
             /\ rfaults \in 0 .. MaxRadarFaults

WorkPart == /\ rwork \in Works
            /\ rphase # "work" => rwork.alerts = <<>>
            /\ rwork.step = 2 => rwork.alerts # <<>>

(* The cycle's rows fit. *)
RowPart == /\ rrows \in Seq(Rows)
           /\ Len(rrows) + Len(rwork.alerts) + Len(rwork.shadow) + 1 <= MaxRows + rwork.step

(* What was sent today and what is about to be is counted by the gate. *)
SentToday == IF rgate["alert"].day = Today THEN rgate["alert"].sent ELSE 0

PingPart == ~ rhist.again => rhist.pings + Len(rwork.alerts) <= SentToday

EodPart == ~ rhist.again => rhist.eods = 0 \/ (rhist.eods = 1 /\ reod = Today + 1)

(* What the user was told of has its row, and what he is about to be told. *)
RowOf(rows, c, t) == \E i \in DOMAIN rows : rows[i].combo = c /\ rows[i].at = t

RecordedPart ==
  /\ rwork.step = 2 => RowOf(rrows, Head(rwork.alerts), rpass)
  /\ \A c \in Combos : rhist.pinged[c] > 0 => RowOf(rrows, c, rhist.pinged[c] - 1)

(* The gate knows of every message, and those to come are of combos that have
   rested. *)
Rested(now, last, c) == last[c] > 0 => now + 1 - last[c] >= RadarCooldown

OnceEach(s) == \A i, j \in DOMAIN s : s[i] = s[j] => i = j

SpacePart ==
  /\ \A c \in Combos : rhist.pinged[c] <= rgate["alert"].last[c]
  /\ OnceEach(rwork.alerts)
  /\ \A i \in DOMAIN rwork.alerts :
       /\ rgate["alert"].last[rwork.alerts[i]] = rpass + 1
       /\ Rested(rpass, rhist.pinged, rwork.alerts[i])

RInv == /\ GatePart /\ ClockPart /\ WorkPart /\ RowPart /\ (rhist \in Hists)
        /\ PingPart /\ EodPart /\ RecordedPart /\ SpacePart

LEMMA RadarBounds ==
  /\ PassesPerDay \in Nat \ {0} /\ LastPass \in Nat /\ MaxPerDay \in Nat
  /\ RadarCooldown \in Nat /\ DigestGap \in Nat /\ MaxRows \in Nat /\ MaxRadarFaults \in Nat
BY RadarAssumption

(* The day changes after the close only. *)
LEMMA DaysGo ==
  ASSUME NEW n \in Nat
  PROVE  /\ n \div PassesPerDay \in Nat
         /\ n \div PassesPerDay <= (n + 1) \div PassesPerDay
         /\ n % PassesPerDay # PassesPerDay - 1
              => (n + 1) \div PassesPerDay = n \div PassesPerDay
<1> DEFINE d == PassesPerDay
           q == n \div d  r == n % d  t == (n + 1) \div d  s == (n + 1) % d
<1>1. /\ d \in Nat \ {0} /\ n + 1 \in Nat
      /\ q \in Int /\ r \in Int /\ 0 <= r /\ r < d /\ n = d * q + r
      /\ t \in Int /\ s \in Int /\ 0 <= s /\ s < d /\ n + 1 = d * t + s
  BY RadarBounds, Euclid
<1>2. q \in Nat
  BY RadarBounds
<1> HIDE DEF d, q, r, t, s
<1>3. q <= t
  <2>1. d * q + r <= d * t + s
    BY <1>1
  <2>2. q < t \/ (q = t /\ r <= s)
    BY <1>1, <2>1, QuotientsGrow
  <2> QED  BY <1>1, <2>2
<1>4. ASSUME r # d - 1 PROVE t = q
  <2>1. /\ r + 1 \in Int /\ 0 <= r + 1 /\ r + 1 < d
        /\ d * t + s <= d * q + (r + 1)
    BY <1>1, <1>4
  <2>2. t < q \/ (t = q /\ s <= r + 1)
    BY <1>1, <2>1, QuotientsGrow
  <2> QED  BY <1>1, <1>3, <2>2
<1> QED  BY <1>2, <1>3, <1>4 DEF d, q, r, t

LEMMA RInitially == RInit => RInv
<1> SUFFICES ASSUME RInit PROVE RInv
  OBVIOUS
<1> DEFINE none == [c \in Combos |-> 0]  yes == FALSE
<1>1. none \in [Combos -> Nat] /\ \A c \in Combos : none[c] = 0
  OBVIOUS
<1>2. rpass = 0 /\ rphase = "wake" /\ rwork = NoWork /\ rdigest = 0 /\ rrows = <<>>
      /\ reod = 0 /\ rfaults = 0
      /\ rgate = [g \in {"alert", "mute"} |-> [day |-> Today, sent |-> 0, last |-> none]]
      /\ rhist = [pinged |-> none, pings |-> 0, eods |-> 0, again |-> yes]
  BY DEF RInit, NewGate
<1> HIDE DEF none
<1>3. Today \in Nat
  BY <1>2, DaysGo DEF Today
<1>4. GatePart
  BY <1>1, <1>2, <1>3, RadarBounds DEF GatePart, GateIsSound, Gates
<1>5. ClockPart
  BY <1>2, <1>3, RadarBounds DEF ClockPart
<1>6. rwork \in Works /\ rwork.alerts = <<>> /\ rwork.step = 1 /\ rwork.shadow = <<>>
  BY <1>2 DEF Works, NoWork
<1>7. WorkPart
  BY <1>6 DEF WorkPart
<1>8. RowPart
  BY <1>2, <1>6, RadarBounds DEF RowPart
<1>9. rhist \in Hists /\ rhist.pinged = none /\ rhist.pings = 0 /\ rhist.eods = 0
  BY <1>1, <1>2 DEF Hists
<1>10. PingPart /\ EodPart
  <2>1. SentToday \in Nat
    BY <1>4 DEF GatePart, SentToday, Gates
  <2> QED  BY <1>6, <1>9, <2>1 DEF PingPart, EodPart
<1>11. RecordedPart
  BY <1>1, <1>6, <1>9 DEF RecordedPart
<1>12. SpacePart
  <2>1. rgate["alert"].last = none
    BY <1>2
  <2> QED  BY <1>1, <1>6, <1>9, <2>1 DEF SpacePart, OnceEach
<1> QED  BY <1>4, <1>5, <1>7, <1>8, <1>9, <1>10, <1>11, <1>12 DEF RInv

-----------------------------------------------------------------------------
(* What AlertGate.select comes to after i hits. *)
WalkHolds(gate, hits, i, w) ==
  /\ w \in Walks /\ w.gate.day = Today
  /\ w.gate.sent = Rolled(gate).sent + Len(w.kept) /\ w.gate.sent <= MaxPerDay
  /\ \A c \in Combos : gate.last[c] <= w.gate.last[c] /\ w.gate.last[c] <= rpass + 1
  /\ OnceEach(w.kept)
  /\ \A j \in DOMAIN w.kept : /\ \E m \in 1 .. i : w.kept[j] = hits[m]
                              /\ w.gate.last[w.kept[j]] = rpass + 1
                              /\ Rested(rpass, gate.last, w.kept[j])
  /\ \A c \in Combos : (\A m \in 1 .. i : hits[m] # c) => w.gate.last[c] = gate.last[c]

LEMMA ScanIsOnce ==
  ASSUME NEW hits \in Scans
  PROVE  hits \in Seq(Combos) /\ Len(hits) \in Nat /\ OnceEach(hits)
<1>1. PICK n \in 0 .. Cardinality(Combos) : hits \in [1 .. n -> Combos]
  BY DEF Scans
<1>2. IsFiniteSet(Combos)
  BY RadarAssumption
<1>3. n \in Nat
  BY <1>1
<1>4. hits \in Seq(Combos)
  BY <1>1, <1>3
<1> QED  BY <1>4 DEF Scans, OnceEach

LEMMA WalkBegins ==
  ASSUME NEW gate \in Gates, GateIsSound(gate), rpass \in Nat, NEW hits
  PROVE  WalkHolds(gate, hits, 0, [gate |-> Rolled(gate), kept |-> <<>>, over |-> FALSE])
<1> DEFINE r == Rolled(gate)  no == FALSE
           w == [gate |-> r, kept |-> <<>>, over |-> no]
<1>1. r \in Gates /\ r.day = Today /\ r.last = gate.last /\ r.sent <= MaxPerDay /\ r.sent \in Nat
  <2> DEFINE n == [day |-> Today, sent |-> 0, last |-> gate.last]
  <2>1. Today \in Nat /\ MaxPerDay \in Nat
    BY DaysGo, RadarBounds DEF Today
  <2>2. n \in Gates /\ n.day = Today /\ n.last = gate.last /\ n.sent = 0
    BY <2>1 DEF Gates
  <2>3. r = IF gate.day = Today THEN gate ELSE n
    BY Zenon DEF Rolled
  <2>4. gate.sent \in Nat /\ gate.sent <= MaxPerDay
    BY DEF Gates, GateIsSound
  <2> HIDE DEF n, r
  <2> QED  BY <2>1, <2>2, <2>3, <2>4
<1> HIDE DEF r
<1>2. w \in Walks /\ w.gate = r /\ w.kept = <<>>
  BY <1>1 DEF Walks
<1>3. \A c \in Combos : gate.last[c] \in Nat /\ gate.last[c] <= rpass + 1
  BY DEF Gates, GateIsSound
<1> HIDE DEF w, no
<1>4. /\ w.gate.day = Today /\ w.gate.sent = r.sent + Len(w.kept) /\ w.gate.sent <= MaxPerDay
      /\ \A c \in Combos : w.gate.last[c] = gate.last[c]
  BY <1>1, <1>2
<1>5. WalkHolds(gate, hits, 0, w)
  BY <1>2, <1>3, <1>4 DEF WalkHolds, OnceEach, r
<1> QED  BY <1>5 DEF w, r, no

LEMMA WalkGoes ==
  ASSUME NEW gate \in Gates, GateIsSound(gate), rpass \in Nat,
         NEW hits \in Scans, NEW i \in 1 .. Len(hits), NEW w, WalkHolds(gate, hits, i - 1, w)
  PROVE  WalkHolds(gate, hits, i, w) /\ WalkHolds(gate, hits, i, AfterHit(w, hits[i]))
<1> DEFINE c == hits[i]  base == Rolled(gate).sent
<1>1. /\ hits \in Seq(Combos) /\ Len(hits) \in Nat /\ OnceEach(hits)
      /\ i \in Nat /\ i - 1 \in Nat /\ i \in DOMAIN hits /\ c \in Combos
      /\ \A m \in 1 .. i - 1 : m \in DOMAIN hits /\ m # i /\ m \in 1 .. i
      /\ i \in 1 .. i /\ MaxPerDay \in Nat
  BY ScanIsOnce, RadarBounds
<1>2. \A m \in 1 .. i - 1 : hits[m] # c
  BY <1>1 DEF OnceEach
<1>3. /\ w \in Walks /\ w.gate.day = Today
      /\ w.gate.sent = base + Len(w.kept) /\ w.gate.sent <= MaxPerDay
      /\ \A d \in Combos : gate.last[d] <= w.gate.last[d] /\ w.gate.last[d] <= rpass + 1
      /\ OnceEach(w.kept)
      /\ \A j \in DOMAIN w.kept : /\ \E m \in 1 .. i - 1 : w.kept[j] = hits[m]
                                  /\ w.gate.last[w.kept[j]] = rpass + 1
                                  /\ Rested(rpass, gate.last, w.kept[j])
      /\ \A d \in Combos : (\A m \in 1 .. i - 1 : hits[m] # d) => w.gate.last[d] = gate.last[d]
  BY DEF WalkHolds
<1>4. /\ w.gate \in Gates /\ w.kept \in Seq(Combos) /\ w.gate.sent \in Nat
      /\ w.gate.last \in [Combos -> Nat] /\ Len(w.kept) \in Nat
  BY <1>3 DEF Walks, Gates
<1>5. w.over \in BOOLEAN
  BY Zenon, <1>3 DEF Walks
<1> HIDE DEF c, base
<1>6. WalkHolds(gate, hits, i, w)
  <2>1. \A j \in DOMAIN w.kept : \E m \in 1 .. i : w.kept[j] = hits[m]
    BY <1>1, <1>3
  <2>2. \A d \in Combos : (\A m \in 1 .. i : hits[m] # d) => w.gate.last[d] = gate.last[d]
    BY <1>1, <1>3
  <2> QED  BY Zenon, <1>3, <2>1, <2>2 DEF WalkHolds, base
<1>7. CASE Cooling(w.gate, c)
  <2>1. AfterHit(w, c) = w
    BY Zenon, <1>7 DEF AfterHit
  <2> QED  BY Zenon, <1>6, <2>1 DEF c
<1>8. CASE ~ Cooling(w.gate, c) /\ ~ (w.gate.sent < MaxPerDay)
  <2> DEFINE yes == TRUE  v == [gate |-> w.gate, kept |-> w.kept, over |-> yes]
  <2>1. AfterHit(w, c) = v
    BY Zenon, <1>8 DEF AfterHit
  <2>2. v \in Walks
    BY <1>4 DEF Walks
  <2>3. v.gate = w.gate /\ v.kept = w.kept
    OBVIOUS
  <2> HIDE DEF v
  <2>4. WalkHolds(gate, hits, i, v)
    BY Zenon, <1>6, <2>2, <2>3 DEF WalkHolds
  <2> QED  BY Zenon, <1>6, <2>1, <2>4 DEF c
<1>9. CASE ~ Cooling(w.gate, c) /\ w.gate.sent < MaxPerDay
  <2> DEFINE g == Spent(w.gate, c)  k == Append(w.kept, c)
             v == [gate |-> g, kept |-> k, over |-> w.over]
  <2>1. AfterHit(w, c) = v
    BY Zenon, <1>9 DEF AfterHit
  <2>2. /\ g \in Gates /\ g.day = w.gate.day /\ g.sent = w.gate.sent + 1
        /\ g.last = [w.gate.last EXCEPT ![c] = rpass + 1]
    <3>1. c \in Combos /\ rpass + 1 \in Nat
      BY <1>1 DEF c
    <3> HIDE DEF v, k
    <3>2. g.day = w.gate.day /\ g.sent = w.gate.sent + 1 /\ g.last = [w.gate.last EXCEPT ![c] = rpass + 1]
      BY Zenon DEF Spent
    <3>3. w.gate.day \in Nat /\ w.gate.sent + 1 \in Nat
      BY <1>4 DEF Gates
    <3>4. [w.gate.last EXCEPT ![c] = rpass + 1] \in [Combos -> Nat]
      BY <1>4, <3>1
    <3>5. g \in Gates
      BY Zenon, <3>3, <3>4 DEF Gates, Spent
    <3> QED  BY Zenon, <3>2, <3>5
  <2>3. /\ k \in Seq(Combos) /\ Len(k) = Len(w.kept) + 1 /\ k[Len(w.kept) + 1] = c
        /\ \A j \in 1 .. Len(w.kept) : k[j] = w.kept[j]
    BY <1>1, <1>4 DEF c
  <2>4. v \in Walks /\ v.gate = g /\ v.kept = k
    <3> HIDE DEF g, k
    <3> QED  BY Zenon, <1>5, <2>2, <2>3 DEF Walks
  <2>5. g.last[c] = rpass + 1 /\ \A d \in Combos : d # c => g.last[d] = w.gate.last[d]
    BY <1>1, <1>4, <2>2 DEF c
  <2>6. w.gate.last[c] = gate.last[c]
    BY <1>1, <1>2, <1>3 DEF c
  <2>7. gate.last[c] \in Nat /\ gate.last[c] <= rpass + 1 /\ c \in Combos
    BY <1>1 DEF Gates, GateIsSound, c
  <2>8. Rested(rpass, gate.last, c)
    BY <1>9, <2>6, <2>7, RadarBounds DEF Rested, Cooling
  <2> HIDE DEF g, k, v
  <2>9. \A j \in 1 .. Len(w.kept) : w.kept[j] # c /\ w.kept[j] \in Combos
    <3> SUFFICES ASSUME NEW j \in 1 .. Len(w.kept) PROVE w.kept[j] # c /\ w.kept[j] \in Combos
      OBVIOUS
    <3>1. j \in DOMAIN w.kept /\ w.kept[j] \in Combos
      BY <1>4
    <3>2. PICK m \in 1 .. i - 1 : w.kept[j] = hits[m]
      BY <1>3, <3>1
    <3> QED  BY <1>2, <3>1, <3>2
  <2>10. OnceEach(k)
    <3>0. DOMAIN k = 1 .. Len(k)
      BY <2>3
    <3> SUFFICES ASSUME NEW a \in 1 .. Len(k), NEW b \in 1 .. Len(k), k[a] = k[b]
                 PROVE  a = b
      BY Zenon, <3>0 DEF OnceEach
    <3>1. DOMAIN w.kept = 1 .. Len(w.kept)
      BY <1>4
    <3>2. CASE a \in 1 .. Len(w.kept) /\ b \in 1 .. Len(w.kept)
      BY <1>3, <2>3, <3>1, <3>2 DEF OnceEach
    <3>3. CASE a = Len(w.kept) + 1 /\ b \in 1 .. Len(w.kept)
      BY <2>3, <2>9, <3>3
    <3>4. CASE b = Len(w.kept) + 1 /\ a \in 1 .. Len(w.kept)
      BY <2>3, <2>9, <3>4
    <3>5. CASE a = Len(w.kept) + 1 /\ b = Len(w.kept) + 1
      BY <3>5
    <3>6. a \in 1 .. Len(w.kept) \/ a = Len(w.kept) + 1
      BY <1>4, <2>3
    <3>7. b \in 1 .. Len(w.kept) \/ b = Len(w.kept) + 1
      BY <1>4, <2>3
    <3> QED  BY <3>2, <3>3, <3>4, <3>5, <3>6, <3>7
  <2>11. \A j \in DOMAIN k : /\ \E m \in 1 .. i : k[j] = hits[m]
                             /\ g.last[k[j]] = rpass + 1 /\ Rested(rpass, gate.last, k[j])
    <3>0. DOMAIN k = 1 .. Len(k)
      BY <2>3
    <3> SUFFICES ASSUME NEW j \in 1 .. Len(k)
                 PROVE  /\ \E m \in 1 .. i : k[j] = hits[m]
                        /\ g.last[k[j]] = rpass + 1 /\ Rested(rpass, gate.last, k[j])
      BY Zenon, <3>0
    <3>1. CASE j = Len(w.kept) + 1
      BY <1>1, <2>3, <2>5, <2>8, <3>1 DEF c
    <3>2. CASE j \in 1 .. Len(w.kept)
      <4>1. k[j] = w.kept[j] /\ j \in DOMAIN w.kept /\ k[j] # c /\ k[j] \in Combos
        <5>1. DOMAIN w.kept = 1 .. Len(w.kept)
          BY <1>4
        <5> QED  BY Zenon, <2>3, <2>9, <3>2, <5>1
      <4>2. PICK m \in 1 .. i - 1 : w.kept[j] = hits[m]
        BY <1>3, <4>1
      <4>3. \E n \in 1 .. i : k[j] = hits[n]
        BY <1>1, <4>1, <4>2
      <4>4. g.last[k[j]] = w.gate.last[w.kept[j]]
        BY <2>5, <4>1
      <4> QED  BY Zenon, <1>3, <4>1, <4>3, <4>4
    <3> QED  BY <1>4, <2>3, <3>1, <3>2
  <2>12. \A d \in Combos : /\ gate.last[d] <= g.last[d] /\ g.last[d] <= rpass + 1
                           /\ (\A m \in 1 .. i : hits[m] # d) => g.last[d] = gate.last[d]
    <3> SUFFICES ASSUME NEW d \in Combos
                 PROVE  /\ gate.last[d] <= g.last[d] /\ g.last[d] <= rpass + 1
                        /\ (\A m \in 1 .. i : hits[m] # d) => g.last[d] = gate.last[d]
      OBVIOUS
    <3>1. CASE d = c
      <4>1. i \in 1 .. i /\ hits[i] = d
        BY <1>1, <3>1 DEF c
      <4> QED  BY <2>5, <2>7, <3>1, <4>1
    <3>2. CASE d # c
      <4>1. g.last[d] = w.gate.last[d]
        BY <2>5, <3>2
      <4> QED  BY <1>1, <1>3, <4>1
    <3> QED  BY <3>1, <3>2
  <2>13. g.day = Today /\ g.sent = base + Len(k) /\ g.sent <= MaxPerDay
    <3>1. base \in Nat
      BY DaysGo DEF base, Rolled, Gates, Today
    <3>2. w.gate.sent = base + Len(w.kept) /\ Len(k) = Len(w.kept) + 1 /\ g.sent = w.gate.sent + 1
      BY Zenon, <1>3, <2>2, <2>3
    <3>3. g.sent = base + Len(k) /\ g.sent <= MaxPerDay
      <4> DEFINE a == w.gate.sent  n == Len(w.kept)  most == MaxPerDay
      <4>1. a \in Nat /\ n \in Nat /\ a < most /\ most \in Nat /\ a = base + n
        BY Zenon, <1>1, <1>4, <1>9, <3>2
      <4> HIDE DEF a, n, most
      <4>2. a + 1 = base + (n + 1) /\ a + 1 <= most
        BY <3>1, <4>1
      <4> QED  BY Zenon, <3>2, <4>2 DEF a, n, most
    <3> QED  BY Zenon, <1>3, <2>2, <3>3
  <2>14. WalkHolds(gate, hits, i, v)
    BY Zenon, <2>4, <2>10, <2>11, <2>12, <2>13 DEF WalkHolds, base
  <2> QED  BY Zenon, <1>6, <2>1, <2>14 DEF c
<1> QED  BY Zenon, <1>6, <1>7, <1>8, <1>9 DEF c

LEMMA WalkStays ==
  ASSUME NEW w \in Walks, NEW c \in Combos, rpass \in Nat
  PROVE  AfterHit(w, c) \in Walks
<1>1. w.gate \in Gates /\ w.kept \in Seq(Combos)
  BY DEF Walks
<1>2. w.over \in BOOLEAN
  BY Zenon DEF Walks
<1> DEFINE yes == TRUE  g == Spent(w.gate, c)  k == Append(w.kept, c)
           u == [gate |-> w.gate, kept |-> w.kept, over |-> yes]
           v == [gate |-> g, kept |-> k, over |-> w.over]
<1>3. g \in Gates /\ k \in Seq(Combos)
  BY <1>1 DEF Gates, Spent
<1>4. u \in Walks
  BY Zenon, <1>1 DEF Walks
<1>5. v \in Walks
  <2> HIDE DEF g, k
  <2> QED  BY Zenon, <1>2, <1>3 DEF Walks
<1>6. AfterHit(w, c) = IF Cooling(w.gate, c) THEN w ELSE IF w.gate.sent < MaxPerDay THEN v ELSE u
  BY Zenon DEF AfterHit
<1> HIDE DEF u, v
<1> QED  BY Zenon, <1>4, <1>5, <1>6

LEMMA ChoiceHolds ==
  ASSUME NEW gate \in Gates, GateIsSound(gate), rpass \in Nat,
         NEW hits \in Scans, NEW wanted
  PROVE  WalkHolds(gate, hits, Len(hits), Choose(gate, hits, wanted))
<1> DEFINE N == Len(hits)  start == [gate |-> Rolled(gate), kept |-> <<>>, over |-> FALSE]
           step(i, w) == IF hits[i] \in wanted THEN AfterHit(w, hits[i]) ELSE w
           turn(f, i) == IF i = 0 THEN start ELSE step(i, f[i - 1])
           walk == CHOOSE f : f = [i \in 0 .. N |-> turn(f, i)]
<1>1. N \in Nat /\ hits \in Seq(Combos) /\ \A i \in 1 .. N : hits[i] \in Combos
  BY ScanIsOnce
<1>2. Choose(gate, hits, wanted) = walk[N]
  BY Zenon DEF Choose
<1>3. WalkHolds(gate, hits, 0, start) /\ start \in Walks
  <2>1. WalkHolds(gate, hits, 0, start)
    BY Zenon, WalkBegins
  <2> HIDE DEF start
  <2> QED  BY Zenon, <2>1 DEF WalkHolds
<1> HIDE DEF N, start
<1>4. \E f : f = [i \in 0 .. N |-> turn(f, i)]
  <2> DEFINE next == [i \in 1 .. N |-> [w \in Walks |-> step(i, w)]]
  <2>1. ASSUME NEW i \in 1 .. N, NEW w \in Walks PROVE step(i, w) \in Walks
    <3>1. AfterHit(w, hits[i]) \in Walks
      BY <1>1, WalkStays
    <3> QED  BY Zenon, <3>1
  <2> HIDE DEF step
  <2>2. next \in [1 .. N -> [Walks -> Walks]]
    BY <2>1
  <2>3. \A i \in 1 .. N : \A w \in Walks : next[i][w] = step(i, w)
    OBVIOUS
  <2> HIDE DEF next
  <2>4. PICK f \in [0 .. N -> Walks] : f[0] = start /\ \A i \in 1 .. N : f[i] = next[i][f[i - 1]]
    <3>1. HasRun(Walks, N, start, next)
      BY <1>1, <1>3, <2>2, LoopRuns
    <3> QED  BY Zenon, <3>1 DEF HasRun
  <2>5. ASSUME NEW i \in 0 .. N PROVE f[i] = turn(f, i)
    <3>1. CASE i = 0
      BY <2>4, <3>1
    <3>2. CASE i # 0
      <4>1. i \in 1 .. N /\ i - 1 \in 0 .. N
        BY <1>1, <3>2
      <4>2. f[i] = next[i][f[i - 1]] /\ f[i - 1] \in Walks
        BY <2>4, <4>1
      <4> QED  BY Zenon, <2>3, <3>2, <4>1, <4>2
    <3> QED  BY <3>1, <3>2
  <2>6. f = [i \in 0 .. N |-> turn(f, i)]
    <3> HIDE DEF turn
    <3> QED  BY <2>4, <2>5
  <2> QED  BY <2>6
<1>5. walk = [i \in 0 .. N |-> turn(walk, i)]
  <2> HIDE DEF turn
  <2> QED  BY Zenon, <1>4 DEF walk
<1> HIDE DEF walk
<1>6. \A i \in 0 .. N : walk[i] = turn(walk, i)
  <2> SUFFICES ASSUME NEW i \in 0 .. N PROVE walk[i] = turn(walk, i)
    OBVIOUS
  <2> HIDE DEF turn
  <2> QED  BY Zenon, <1>5
<1> DEFINE T == {i \in 0 .. N : WalkHolds(gate, hits, i, walk[i])}
<1>7. 0 \in T
  <2>1. 0 \in 0 .. N
    BY <1>1
  <2>2. walk[0] = start
    BY Zenon, <1>6, <2>1
  <2> QED  BY Zenon, <1>3, <2>1, <2>2
<1>8. ASSUME NEW i \in 1 .. N, i - 1 \in T PROVE i \in T
  <2>1. i \in 0 .. N /\ i # 0
    BY <1>1
  <2>2. walk[i] = step(i, walk[i - 1])
    BY Zenon, <1>6, <2>1
  <2>3. WalkHolds(gate, hits, i - 1, walk[i - 1])
    BY Zenon, <1>8
  <2>4. WalkHolds(gate, hits, i, walk[i - 1]) /\ WalkHolds(gate, hits, i, AfterHit(walk[i - 1], hits[i]))
    BY <2>3, WalkGoes DEF N
  <2>5. WalkHolds(gate, hits, i, walk[i])
    BY Zenon, <2>2, <2>4
  <2> QED  BY Zenon, <2>1, <2>5
<1>9. 0 .. N \subseteq T
  <2> HIDE DEF T
  <2> QED  BY <1>1, <1>7, <1>8, UpTo
<1>10. WalkHolds(gate, hits, N, walk[N])
  <2>1. N \in 0 .. N
    BY <1>1
  <2> QED  BY Zenon, <1>9, <2>1
<1> QED  BY Zenon, <1>2, <1>10 DEF N

-----------------------------------------------------------------------------
(* A step that leaves alone what a part is about keeps the part. *)
LEMMA StartKeeps ==
  ASSUME RInv, StartCycle
  PROVE  RInv'
<1>1. PICK hits \in Scans :
        LET muted == {c \in Combos : Muted(c)}
            chosen == Choose(rgate["alert"], hits, Combos \ muted)
            shadow == Choose(rgate["mute"], hits, muted)
        IN  /\ Len(rrows) + Len(chosen.kept) + Len(shadow.kept) <= MaxRows
            /\ rgate' = [g \in {"alert", "mute"} |->
                           IF g = "alert" THEN chosen.gate ELSE shadow.gate]
            /\ rwork' = [alerts |-> chosen.kept, step |-> 1, shadow |-> shadow.kept,
                         digest |-> chosen.over]
  BY Zenon DEF StartCycle
<1> DEFINE gate == rgate["alert"]  mute == rgate["mute"]
           muted == {c \in Combos : Muted(c)}
           chosen == Choose(gate, hits, Combos \ muted)
           shadow == Choose(mute, hits, muted)
           n == Len(hits)
<1>2. /\ Len(rrows) + Len(chosen.kept) + Len(shadow.kept) <= MaxRows
      /\ rgate' = [g \in {"alert", "mute"} |-> IF g = "alert" THEN chosen.gate ELSE shadow.gate]
      /\ rwork' = [alerts |-> chosen.kept, step |-> 1, shadow |-> shadow.kept,
                   digest |-> chosen.over]
  BY Zenon, <1>1
<1>3. rphase = "wake" /\ rphase' = "work"
      /\ UNCHANGED <<rpass, rdigest, rrows, reod, rfaults, rhist>>
  BY DEF StartCycle
<1>4. gate \in Gates /\ mute \in Gates /\ GateIsSound(gate) /\ GateIsSound(mute) /\ rpass \in Nat
  BY DEF RInv, GatePart
<1>5. WalkHolds(gate, hits, n, chosen) /\ WalkHolds(mute, hits, n, shadow)
  BY Zenon, <1>4, ChoiceHolds
<1> HIDE DEF muted, chosen, shadow, n
<1>6. /\ chosen \in Walks /\ chosen.gate.day = Today /\ chosen.gate.sent <= MaxPerDay
      /\ chosen.gate.sent = Rolled(gate).sent + Len(chosen.kept)
      /\ \A c \in Combos : gate.last[c] <= chosen.gate.last[c] /\ chosen.gate.last[c] <= rpass + 1
      /\ OnceEach(chosen.kept)
      /\ \A j \in DOMAIN chosen.kept : /\ chosen.gate.last[chosen.kept[j]] = rpass + 1
                                       /\ Rested(rpass, gate.last, chosen.kept[j])
  BY Zenon, <1>5 DEF WalkHolds
<1>7. /\ shadow \in Walks /\ shadow.gate.sent <= MaxPerDay
      /\ \A c \in Combos : shadow.gate.last[c] <= rpass + 1
  BY Zenon, <1>5 DEF WalkHolds
<1>8. /\ chosen.gate \in Gates /\ chosen.kept \in Seq(Combos)
      /\ shadow.gate \in Gates /\ shadow.kept \in Seq(Combos)
  BY <1>6, <1>7 DEF Walks
<1>9. chosen.over \in BOOLEAN
  BY Zenon, <1>6 DEF Walks
<1>10. rwork' \in Works
  BY Zenon, <1>2, <1>8, <1>9 DEF Works
<1>11. rwork'.alerts = chosen.kept /\ rwork'.step = 1 /\ rwork'.shadow = shadow.kept
  BY <1>2
<1>12. rgate'["alert"] = chosen.gate /\ rgate'["mute"] = shadow.gate
       /\ rgate' \in [{"alert", "mute"} -> Gates]
  BY <1>2, <1>8
<1>13. GatePart'
  BY <1>3, <1>6, <1>7, <1>8, <1>12 DEF RInv, GatePart, GateIsSound
<1>14. ClockPart' /\ (rhist \in Hists)' /\ EodPart'
  BY <1>3 DEF RInv, ClockPart, EodPart, Today
<1>15. WorkPart'
  BY <1>3, <1>10, <1>11 DEF WorkPart
<1>16. RowPart'
  <2>1. /\ rrows' = rrows /\ rrows \in Seq(Rows) /\ Len(rrows) \in Nat /\ MaxRows \in Nat
        /\ Len(chosen.kept) \in Nat /\ Len(shadow.kept) \in Nat
    BY <1>3, <1>8, RadarBounds DEF RInv, RowPart
  <2>2. Len(rrows) + Len(chosen.kept) + Len(shadow.kept) <= MaxRows
    BY Zenon, <1>2
  <2>3. /\ Len(rwork'.alerts) = Len(chosen.kept) /\ rwork'.step = 1
        /\ Len(rwork'.shadow) = Len(shadow.kept) /\ Len(rrows') = Len(rrows)
    BY Zenon, <1>11, <2>1
  <2>4. Len(rrows') + Len(rwork'.alerts) + Len(rwork'.shadow) + 1 <= MaxRows + rwork'.step
    <3>1. Len(rrows) + Len(chosen.kept) + Len(shadow.kept) + 1 <= MaxRows + 1
      <4> DEFINE r == Len(rrows)  a == Len(chosen.kept)  b == Len(shadow.kept)
      <4>1. r \in Nat /\ a \in Nat /\ b \in Nat /\ r + a + b <= MaxRows
        BY Zenon, <2>1, <2>2
      <4> HIDE DEF r, a, b
      <4>2. r + a + b + 1 <= MaxRows + 1
        BY <4>1, RadarBounds
      <4> QED  BY Zenon, <4>2 DEF r, a, b
    <3> QED  BY Zenon, <2>3, <3>1
  <2>5. rrows' \in Seq(Rows)
    BY <2>1
  <2> QED  BY Zenon, <2>4, <2>5 DEF RowPart
<1>17. PingPart'
  <2>1. Today' = Today /\ rhist' = rhist
    BY <1>3 DEF Today
  <2>2. SentToday' = chosen.gate.sent
    BY <1>6, <1>12, <2>1 DEF SentToday
  <2>3. Rolled(gate).sent = SentToday
    BY DEF Rolled, SentToday
  <2>4. rwork.alerts = <<>>
    BY <1>3 DEF RInv, WorkPart
  <2>5. SentToday \in Nat /\ rhist.pings \in Nat
    BY <1>4 DEF SentToday, Gates, RInv, Hists
  <2> QED  BY <1>6, <1>8, <1>11, <2>1, <2>2, <2>3, <2>4, <2>5 DEF RInv, PingPart
<1>18. RecordedPart'
  BY <1>3, <1>11 DEF RInv, RecordedPart, RowOf
<1>19. SpacePart'
  <2>1. /\ rhist' = rhist /\ rpass' = rpass /\ rhist.pinged \in [Combos -> Nat]
        /\ \A c \in Combos : rhist.pinged[c] <= gate.last[c]
    BY <1>3 DEF RInv, SpacePart, Hists
  <2>2. gate.last \in [Combos -> Nat] /\ chosen.gate.last \in [Combos -> Nat]
    BY <1>4, <1>8 DEF Gates
  <2>3. \A c \in Combos : rhist'.pinged[c] <= rgate'["alert"].last[c]
    BY <1>6, <1>12, <2>1, <2>2
  <2>4. ASSUME NEW i \in DOMAIN chosen.kept
        PROVE  Rested(rpass, rhist.pinged, chosen.kept[i])
    <3>1. chosen.kept[i] \in Combos /\ Rested(rpass, gate.last, chosen.kept[i])
      BY <1>6, <1>8
    <3>2. /\ rhist.pinged[chosen.kept[i]] \in Nat /\ gate.last[chosen.kept[i]] \in Nat
          /\ rhist.pinged[chosen.kept[i]] <= gate.last[chosen.kept[i]]
      BY <2>1, <2>2, <3>1
    <3> QED  BY <1>4, <3>1, <3>2, RadarBounds DEF Rested
  <2>5. OnceEach(rwork'.alerts)
    BY <1>6, <1>11
  <2> QED  BY <1>6, <1>11, <1>12, <2>1, <2>3, <2>4, <2>5 DEF SpacePart, OnceEach, Rested
<1> QED  BY <1>13, <1>14, <1>15, <1>16, <1>17, <1>18, <1>19 DEF RInv

(* The database only grows. *)
RowsKept == /\ rrows' \in Seq(Rows)
            /\ \A c \in Combos, t \in Nat : RowOf(rrows, c, t) => RowOf(rrows', c, t)

LEMMA RowAppended ==
  ASSUME RInv, NEW c \in Combos, InsertRow(c), rpass' = rpass
  PROVE  /\ RowsKept /\ Len(rrows') = Len(rrows) + 1 /\ RowOf(rrows', c, rpass)
         /\ \A i \in DOMAIN rrows : rrows'[i] = rrows[i]
<1> DEFINE row == [combo |-> c, at |-> rpass, outcome |-> "PENDING"]
<1>1. rrows' = Append(rrows, row)
  BY DEF InsertRow
<1>2. row \in Rows /\ row.combo = c /\ row.at = rpass
  BY DEF RInv, GatePart, Rows, Verdicts
<1> HIDE DEF row
<1>3. /\ rrows \in Seq(Rows) /\ rrows' \in Seq(Rows) /\ Len(rrows) \in Nat
      /\ Len(rrows') = Len(rrows) + 1 /\ rrows'[Len(rrows')] = row
      /\ DOMAIN rrows = 1 .. Len(rrows) /\ DOMAIN rrows' = 1 .. Len(rrows')
      /\ \A i \in 1 .. Len(rrows) : rrows'[i] = rrows[i] /\ i \in 1 .. Len(rrows')
  BY <1>1, <1>2 DEF RInv, RowPart
<1>4. RowOf(rrows', c, rpass)
  <2>1. Len(rrows') \in DOMAIN rrows'
    BY <1>3
  <2> QED  BY Zenon, <1>2, <1>3, <2>1 DEF RowOf
<1>5. \A d \in Combos, t \in Nat : RowOf(rrows, d, t) => RowOf(rrows', d, t)
  BY Zenon, <1>3 DEF RowOf
<1> QED  BY Zenon, <1>3, <1>4, <1>5 DEF RowsKept

(* What was sent stays recorded. *)
LEMMA SentStaysRecorded ==
  ASSUME RInv, RowsKept, rhist' = rhist
  PROVE  \A c \in Combos : rhist'.pinged[c] > 0 => RowOf(rrows', c, rhist'.pinged[c] - 1)
<1> SUFFICES ASSUME NEW c \in Combos, rhist.pinged[c] > 0
             PROVE  RowOf(rrows', c, rhist'.pinged[c] - 1)
  OBVIOUS
<1> DEFINE t == rhist.pinged[c] - 1
<1>1. t \in Nat
  BY DEF RInv, Hists
<1>2. RowOf(rrows, c, t)
  BY DEF RInv, RecordedPart
<1>3. rrows' \in Seq(Rows) /\ RowOf(rrows', c, t)
  BY <1>1, <1>2 DEF RowsKept, RowOf
<1> QED  BY <1>3 DEF RowOf

(* The parts that a step of the cycle leaves alone. *)
LEMMA CycleFrame ==
  ASSUME RInv, UNCHANGED <<rpass, rgate, rdigest, reod, rfaults, rhist>>,
         rphase' \in {"wake", "work", "sweep", "sleep"}
  PROVE  GatePart' /\ ClockPart' /\ EodPart' /\ (rhist \in Hists)' /\ Today' = Today
         /\ SentToday' = SentToday
BY DEF RInv, GatePart, GateIsSound, ClockPart, EodPart, Today, SentToday

LEMMA InsertKeeps ==
  ASSUME RInv, InsertSignal
  PROVE  RInv'
<1> DEFINE c == Head(rwork.alerts)
<1>1. /\ rphase = "work" /\ rphase' = rphase /\ rwork.alerts # <<>> /\ AlertSteps[rwork.step] = "insert"
      /\ InsertRow(c) /\ rwork' = AlertStepDone
      /\ UNCHANGED <<rpass, rgate, rdigest, reod, rfaults, rhist>>
  BY DEF InsertSignal, Alerting
<1>2. rwork \in Works /\ rwork.alerts \in Seq(Combos) /\ rwork.step \in {1, 2} /\ c \in Combos
  BY <1>1 DEF RInv, WorkPart, Works
<1>3. rwork.step = 1
  BY <1>1, <1>2 DEF AlertSteps
<1> DEFINE two == 2
<1>4. rwork' = [rwork EXCEPT !.step = two]
  BY Zenon, <1>1, <1>3 DEF AlertStepDone
<1>5. rwork' \in Works /\ rwork'.alerts = rwork.alerts /\ rwork'.step = 2
      /\ rwork'.shadow = rwork.shadow
  BY <1>2, <1>4 DEF Works
<1>6. RowsKept /\ Len(rrows') = Len(rrows) + 1 /\ RowOf(rrows', c, rpass)
  BY Zenon, <1>1, <1>2, RowAppended
<1> HIDE DEF c, two
<1>7. GatePart' /\ ClockPart' /\ EodPart' /\ (rhist \in Hists)' /\ Today' = Today /\ SentToday' = SentToday
  BY Zenon, <1>1, CycleFrame DEF RInv, ClockPart
<1>8. WorkPart'
  BY <1>1, <1>5 DEF WorkPart
<1>9. RowPart'
  <2>1. /\ Len(rrows) + Len(rwork.alerts) + Len(rwork.shadow) + 1 <= MaxRows + rwork.step
        /\ Len(rrows) \in Nat /\ Len(rwork.alerts) \in Nat /\ Len(rwork.shadow) \in Nat
        /\ MaxRows \in Nat
    BY <1>2, RadarBounds DEF RInv, RowPart, Works
  <2>2. /\ Len(rwork'.alerts) = Len(rwork.alerts) /\ rwork'.step = 2
        /\ Len(rwork'.shadow) = Len(rwork.shadow) /\ Len(rrows') = Len(rrows) + 1
    BY Zenon, <1>5, <1>6
  <2>3. Len(rrows') + Len(rwork'.alerts) + Len(rwork'.shadow) + 1 <= MaxRows + rwork'.step
    <3>1. (Len(rrows) + 1) + Len(rwork.alerts) + Len(rwork.shadow) + 1 <= MaxRows + 2
      <4> DEFINE r == Len(rrows)  a == Len(rwork.alerts)  b == Len(rwork.shadow)
      <4>1. r \in Nat /\ a \in Nat /\ b \in Nat /\ r + a + b + 1 <= MaxRows + 1
        BY Zenon, <1>3, <2>1
      <4> HIDE DEF r, a, b
      <4>2. (r + 1) + a + b + 1 <= MaxRows + 2
        BY <4>1, RadarBounds
      <4> QED  BY Zenon, <4>2 DEF r, a, b
    <3> QED  BY Zenon, <2>2, <3>1
  <2> QED  BY Zenon, <1>6, <2>3 DEF RowPart, RowsKept
<1>10. PingPart'
  BY Zenon, <1>1, <1>5, <1>7 DEF RInv, PingPart
<1>11. RecordedPart'
  <2>1. \A d \in Combos : rhist'.pinged[d] > 0 => RowOf(rrows', d, rhist'.pinged[d] - 1)
    BY Zenon, <1>1, <1>6, SentStaysRecorded
  <2>2. RowOf(rrows', Head(rwork.alerts), rpass)
    BY Zenon, <1>5, <1>6 DEF RowOf, c
  <2> QED  BY Zenon, <1>1, <1>5, <2>1, <2>2 DEF RecordedPart
<1>12. SpacePart'
  BY <1>1, <1>5 DEF RInv, SpacePart, Rested, OnceEach
<1> QED  BY <1>7, <1>8, <1>9, <1>10, <1>11, <1>12 DEF RInv

LEMMA SendKeepsRadar ==
  ASSUME RInv, SendOpportunity
  PROVE  RInv'
<1> DEFINE c == Head(rwork.alerts)  rest == Tail(rwork.alerts)
<1>1. /\ rphase = "work" /\ rphase' = rphase /\ rwork.alerts # <<>> /\ AlertSteps[rwork.step] = "send"
      /\ rwork' = AlertStepDone
      /\ UNCHANGED <<rpass, rgate, rdigest, rrows, reod>>
      /\ \/ rfaults' = rfaults /\ rhist' = Pinged(c)
         \/ RFault("drop") /\ rhist' = rhist
  BY DEF SendOpportunity, Alerting
<1>2. rwork \in Works /\ rwork.alerts \in Seq(Combos) /\ rwork.step \in {1, 2} /\ c \in Combos
      /\ rwork.shadow \in Seq(Combos) /\ Len(rwork.alerts) \in Nat /\ Len(rwork.shadow) \in Nat
      /\ rwork.alerts[1] = c
  BY <1>1 DEF RInv, WorkPart, Works
<1>3. rwork.digest \in BOOLEAN
  BY Zenon, <1>2 DEF Works
<1>4. rwork.step = 2
  BY <1>1, <1>2 DEF AlertSteps
<1>5. rwork' = [alerts |-> rest, step |-> 1, shadow |-> rwork.shadow, digest |-> rwork.digest]
  <2>1. rwork.step # 1
    BY <1>4
  <2> QED  BY Zenon, <1>1, <2>1 DEF AlertStepDone
<1>6. /\ rest \in Seq(Combos) /\ Len(rest) = Len(rwork.alerts) - 1
      /\ \A i \in 1 .. Len(rest) : rest[i] = rwork.alerts[i + 1] /\ i + 1 \in 1 .. Len(rwork.alerts)
      /\ DOMAIN rest = 1 .. Len(rest) /\ DOMAIN rwork.alerts = 1 .. Len(rwork.alerts)
      /\ 1 \in DOMAIN rwork.alerts
  BY <1>1, <1>2
<1> HIDE DEF c, rest
<1>7. rwork' \in Works
  BY Zenon, <1>2, <1>3, <1>5, <1>6 DEF Works
<1>8. rwork'.alerts = rest /\ rwork'.step = 1 /\ rwork'.shadow = rwork.shadow
  BY <1>5
<1>9. /\ rhist \in Hists /\ rhist.pinged \in [Combos -> Nat] /\ rhist.pings \in Nat
      /\ rpass \in Nat /\ rpass + 1 \in Nat
  BY DEF RInv, Hists, GatePart
<1>10. /\ rhist' \in Hists /\ rhist'.eods = rhist.eods /\ rhist'.again = rhist.again
       /\ \/ rhist'.pings = rhist.pings + 1 /\ rhist'.pinged = [rhist.pinged EXCEPT ![c] = rpass + 1]
          \/ rhist'.pings = rhist.pings /\ rhist'.pinged = rhist.pinged
  <2>1. CASE rhist' = rhist
    BY Zenon, <1>9, <2>1
  <2>2. CASE rhist' = Pinged(c)
    <3> DEFINE p == [rhist.pinged EXCEPT ![c] = rpass + 1]
    <3>1. rhist' = [pinged |-> p, pings |-> rhist.pings + 1, eods |-> rhist.eods, again |-> rhist.again]
      BY Zenon, <2>2 DEF Pinged
    <3>2. p \in [Combos -> Nat] /\ rhist.pings + 1 \in Nat /\ rhist.eods \in Nat
      BY <1>2, <1>9 DEF Hists
    <3>3. rhist.again \in BOOLEAN
      BY Zenon, <1>9 DEF Hists
    <3> HIDE DEF p
    <3>4. rhist' \in Hists
      BY Zenon, <3>1, <3>2, <3>3 DEF Hists
    <3>5. rhist'.eods = rhist.eods /\ rhist'.again = rhist.again /\ rhist'.pings = rhist.pings + 1
          /\ rhist'.pinged = p
      BY Zenon, <3>1
    <3> QED  BY Zenon, <3>4, <3>5 DEF p
  <2> QED  BY Zenon, <1>1, <2>1, <2>2
<1>11. rfaults' \in 0 .. MaxRadarFaults
  BY <1>1, RadarBounds DEF RInv, ClockPart, RFault
<1>12. GatePart' /\ ClockPart' /\ SentToday' = SentToday /\ Today' = Today
  BY <1>1, <1>11 DEF RInv, GatePart, GateIsSound, ClockPart, Today, SentToday
<1>13. WorkPart'
  BY <1>1, <1>7, <1>8 DEF WorkPart
<1>14. RowPart'
  <2> DEFINE r == Len(rrows)  a == Len(rwork.alerts)  b == Len(rwork.shadow)
  <2>1. r + a + b + 1 <= MaxRows + rwork.step /\ rrows \in Seq(Rows) /\ rrows' = rrows
    BY Zenon, <1>1 DEF RInv, RowPart
  <2>2. r \in Nat /\ a \in Nat /\ b \in Nat /\ a >= 1
    BY <1>2, <1>6, <2>1
  <2>3. Len(rrows') = r /\ Len(rwork'.alerts) = a - 1 /\ Len(rwork'.shadow) = b /\ rwork'.step = 1
    BY Zenon, <1>6, <1>8, <2>1
  <2> HIDE DEF r, a, b
  <2>4. r + (a - 1) + b + 1 <= MaxRows + 1
    BY <1>4, <2>1, <2>2, RadarBounds
  <2> QED  BY Zenon, <2>1, <2>3, <2>4 DEF RowPart
<1>15. EodPart'
  BY <1>1, <1>10, <1>12 DEF RInv, EodPart
<1>16. PingPart'
  <2> DEFINE a == Len(rwork.alerts)  n == SentToday
  <2>1. ~ rhist.again => rhist.pings + a <= n
    BY Zenon DEF RInv, PingPart
  <2>2. a \in Nat /\ Len(rwork'.alerts) = a - 1 /\ n \in Nat /\ n' = n
    BY <1>2, <1>6, <1>8, <1>12 DEF SentToday, RInv, GatePart, Gates
  <2> HIDE DEF a, n
  <2>3. ~ rhist'.again => rhist'.pings + (a - 1) <= n
    BY <1>9, <1>10, <2>1, <2>2
  <2> QED  BY Zenon, <2>2, <2>3, <1>12 DEF PingPart, n
<1>17. RecordedPart'
  <2>1. RowOf(rrows, c, rpass) /\ rrows' = rrows
    BY Zenon, <1>1, <1>4 DEF RInv, RecordedPart, c
  <2>2. ASSUME NEW d \in Combos, rhist'.pinged[d] > 0
        PROVE  RowOf(rrows', d, rhist'.pinged[d] - 1)
    <3>1. CASE rhist'.pinged[d] = rhist.pinged[d]
      BY Zenon, <2>1, <2>2, <3>1 DEF RInv, RecordedPart
    <3>2. CASE d = c /\ rhist'.pinged[d] = rpass + 1
      <4>1. rhist'.pinged[d] - 1 = rpass
        BY <1>9, <3>2
      <4> QED  BY Zenon, <2>1, <3>2, <4>1
    <3>3. rhist'.pinged[d] = rhist.pinged[d] \/ (d = c /\ rhist'.pinged[d] = rpass + 1)
      BY <1>9, <1>10
    <3> QED  BY <3>1, <3>2, <3>3
  <2> QED  BY <1>8, <2>2 DEF RecordedPart
<1>18. SpacePart'
  <2>1. /\ rgate' = rgate /\ rpass' = rpass
        /\ \A d \in Combos : rhist.pinged[d] <= rgate["alert"].last[d]
        /\ OnceEach(rwork.alerts)
        /\ \A i \in DOMAIN rwork.alerts :
             /\ rgate["alert"].last[rwork.alerts[i]] = rpass + 1
             /\ Rested(rpass, rhist.pinged, rwork.alerts[i])
    BY Zenon, <1>1 DEF RInv, SpacePart
  <2>2. rgate["alert"].last[c] = rpass + 1
    <3>1. 1 \in DOMAIN rwork.alerts /\ rwork.alerts[1] = c
      BY Zenon, <1>2, <1>6
    <3> QED  BY Zenon, <2>1, <3>1
  <2>3. ASSUME NEW d \in Combos PROVE rhist'.pinged[d] <= rgate'["alert"].last[d]
    <3>1. rhist'.pinged[d] = rhist.pinged[d] \/ (d = c /\ rhist'.pinged[d] = rpass + 1)
      BY <1>9, <1>10
    <3> QED  BY <1>9, <2>1, <2>2, <3>1
  <2>4. OnceEach(rest)
    <3> SUFFICES ASSUME NEW i \in 1 .. Len(rest), NEW j \in 1 .. Len(rest), rest[i] = rest[j]
                 PROVE  i = j
      BY Zenon, <1>6 DEF OnceEach
    <3>1. /\ rwork.alerts[i + 1] = rwork.alerts[j + 1]
          /\ i + 1 \in DOMAIN rwork.alerts /\ j + 1 \in DOMAIN rwork.alerts
      BY Zenon, <1>6
    <3>2. i + 1 = j + 1
      BY Zenon, <2>1, <3>1 DEF OnceEach
    <3>3. i \in Nat /\ j \in Nat
      BY <1>2, <1>6
    <3> QED  BY <3>2, <3>3
  <2>5. ASSUME NEW i \in DOMAIN rest
        PROVE  rgate'["alert"].last[rest[i]] = rpass' + 1 /\ Rested(rpass', rhist'.pinged, rest[i])
    <3> DEFINE d == rest[i]
    <3>1. d = rwork.alerts[i + 1] /\ i + 1 \in DOMAIN rwork.alerts /\ d \in Combos
          /\ i \in Nat /\ i >= 1
      BY <1>2, <1>6
    <3>2. d # c
      <4>1. i + 1 # 1 /\ 1 \in DOMAIN rwork.alerts
        BY <1>6, <3>1
      <4> QED  BY Zenon, <1>2, <2>1, <3>1, <4>1 DEF OnceEach
    <3>3. rgate["alert"].last[d] = rpass + 1 /\ Rested(rpass, rhist.pinged, d)
      BY Zenon, <2>1, <3>1
    <3> HIDE DEF d
    <3>4. rhist'.pinged[d] = rhist.pinged[d]
      BY <1>9, <1>10, <3>1, <3>2
    <3>5. Rested(rpass', rhist'.pinged, d)
      BY Zenon, <2>1, <3>3, <3>4 DEF Rested
    <3> QED  BY Zenon, <2>1, <3>3, <3>5 DEF d
  <2> QED  BY Zenon, <1>8, <2>3, <2>4, <2>5 DEF SpacePart
<1> QED  BY Zenon, <1>10, <1>12, <1>13, <1>14, <1>15, <1>16, <1>17, <1>18 DEF RInv

(* A cycle that is over, or raised, leaves nothing to do. *)
LEMMA NothingLeft ==
  ASSUME RInv, rwork' = NoWork, rrows' = rrows
  PROVE  /\ rwork' \in Works /\ rwork'.alerts = <<>> /\ rwork'.step = 1
         /\ WorkPart' /\ RowPart'
<1>1. rwork' \in Works /\ rwork'.alerts = <<>> /\ rwork'.step = 1 /\ rwork'.shadow = <<>>
  BY DEF NoWork, Works
<1>2. WorkPart'
  BY <1>1 DEF WorkPart
<1>3. rwork \in Works /\ rwork.step \in {1, 2}
      /\ rwork.alerts \in Seq(Combos) /\ rwork.shadow \in Seq(Combos)
  BY DEF RInv, WorkPart, Works
<1> DEFINE r == Len(rrows)  a == Len(rwork.alerts)  b == Len(rwork.shadow)
<1>4. r \in Nat /\ a \in Nat /\ b \in Nat
  BY <1>3 DEF RInv, RowPart
<1>5. rwork.step = 2 => a >= 1
  BY <1>3 DEF RInv, WorkPart
<1>6. r + a + b + 1 <= MaxRows + rwork.step /\ rrows' \in Seq(Rows)
  BY Zenon DEF RInv, RowPart
<1>7. Len(rrows') = r /\ Len(rwork'.alerts) = 0 /\ Len(rwork'.shadow) = 0
  BY <1>1
<1> HIDE DEF r, a, b
<1>8. r + 0 + 0 + 1 <= MaxRows + 1
  BY <1>3, <1>4, <1>5, <1>6, RadarBounds
<1>9. RowPart'
  BY Zenon, <1>1, <1>6, <1>7, <1>8 DEF RowPart
<1> QED  BY <1>1, <1>2, <1>9

(* With no alert to come, what is said of the alerts is only said of those sent. *)
LEMMA NoAlertsToCome ==
  ASSUME RInv, rwork'.alerts = <<>>, rwork'.step = 1, RowsKept, rhist' = rhist, rpass' = rpass,
         rgate' = rgate
  PROVE  PingPart' /\ RecordedPart' /\ SpacePart'
<1>1. Today' = Today /\ SentToday' = SentToday /\ SentToday \in Nat
  BY DEF Today, SentToday, RInv, GatePart, Gates
<1>2. PingPart'
  <2> DEFINE a == Len(rwork.alerts)  n == SentToday  p == rhist.pings
  <2>1. ~ rhist.again => p + a <= n
    BY Zenon DEF RInv, PingPart
  <2>2. a \in Nat /\ n \in Nat /\ p \in Nat /\ Len(rwork'.alerts) = 0
    BY <1>1 DEF RInv, WorkPart, Works, Hists
  <2>3. n' = n /\ p' = p
    BY <1>1
  <2> HIDE DEF a, n, p
  <2>4. ~ rhist.again => p + 0 <= n
    BY <2>1, <2>2
  <2> QED  BY Zenon, <2>2, <2>3, <2>4 DEF PingPart, n, p
<1>3. RecordedPart'
  <2>1. \A d \in Combos : rhist'.pinged[d] > 0 => RowOf(rrows', d, rhist'.pinged[d] - 1)
    BY Zenon, SentStaysRecorded
  <2>2. rwork'.step # 2
    OBVIOUS
  <2> QED  BY Zenon, <2>1, <2>2 DEF RecordedPart
<1>4. SpacePart'
  BY DEF RInv, SpacePart, OnceEach
<1> QED  BY <1>2, <1>3, <1>4

LEMMA MutedKeeps ==
  ASSUME RInv, InsertMuted
  PROVE  RInv'
<1> DEFINE c == Head(rwork.shadow)  rest == Tail(rwork.shadow)
<1>1. /\ rphase = "work" /\ rphase' = rphase /\ rwork.alerts = <<>> /\ rwork.shadow # <<>>
      /\ InsertRow(c) /\ rwork' = [rwork EXCEPT !.shadow = rest]
      /\ UNCHANGED <<rpass, rgate, rdigest, reod, rfaults, rhist>>
  BY DEF InsertMuted
<1>2. rwork \in Works /\ rwork.shadow \in Seq(Combos) /\ rwork.step = 1 /\ c \in Combos
      /\ rest \in Seq(Combos) /\ Len(rest) = Len(rwork.shadow) - 1 /\ Len(rwork.shadow) \in Nat
  BY <1>1 DEF RInv, WorkPart, Works
<1>3. rwork' \in Works /\ rwork'.alerts = <<>> /\ rwork'.step = 1 /\ rwork'.shadow = rest
  BY <1>1, <1>2 DEF Works
<1>4. RowsKept /\ Len(rrows') = Len(rrows) + 1
  BY Zenon, <1>1, <1>2, RowAppended
<1> HIDE DEF c, rest
<1>5. GatePart' /\ ClockPart' /\ EodPart' /\ (rhist \in Hists)' /\ Today' = Today /\ SentToday' = SentToday
  BY Zenon, <1>1, CycleFrame DEF RInv, ClockPart
<1>6. WorkPart'
  BY <1>1, <1>3 DEF WorkPart
<1>7. RowPart'
  <2> DEFINE r == Len(rrows)  b == Len(rwork.shadow)
  <2>1. Len(rwork.alerts) = 0 /\ r \in Nat /\ b \in Nat
    BY <1>1, <1>2 DEF RInv, RowPart
  <2>2. r + 0 + b + 1 <= MaxRows + 1
    BY Zenon, <1>2, <2>1 DEF RInv, RowPart
  <2>3. Len(rwork'.alerts) = 0 /\ Len(rwork'.shadow) = b - 1 /\ Len(rrows') = r + 1
    BY <1>2, <1>3, <1>4
  <2> HIDE DEF r, b
  <2>4. (r + 1) + 0 + (b - 1) + 1 <= MaxRows + 1
    BY <2>1, <2>2, RadarBounds
  <2> QED  BY Zenon, <1>3, <1>4, <2>3, <2>4 DEF RowPart, RowsKept
<1>8. PingPart' /\ RecordedPart' /\ SpacePart'
  BY Zenon, <1>1, <1>3, <1>4, NoAlertsToCome
<1> QED  BY Zenon, <1>5, <1>6, <1>7, <1>8 DEF RInv

LEMMA DigestKeeps ==
  ASSUME RInv, SendDigest \/ EndCycle \/ CycleRaises
  PROVE  RInv'
<1>1. /\ rphase = "work" /\ UNCHANGED <<rpass, rgate, rrows, reod, rhist>>
      /\ rphase' \in {"wake", "work", "sweep", "sleep"}
  BY DEF SendDigest, EndCycle, CycleRaises
<1>2. rrows \in Seq(Rows) /\ RowsKept
  BY <1>1 DEF RInv, RowPart, RowsKept
<1>3. rdigest' \in Nat /\ rdigest' <= rpass + 1 /\ rfaults' \in 0 .. MaxRadarFaults
  BY RadarBounds DEF RInv, GatePart, ClockPart, SendDigest, EndCycle, CycleRaises, RFault
<1>4. GatePart' /\ ClockPart' /\ EodPart' /\ (rhist \in Hists)'
  BY <1>1, <1>3 DEF RInv, GatePart, GateIsSound, ClockPart, EodPart, Today
<1>5. rwork'.alerts = <<>> /\ rwork'.step = 1 /\ WorkPart' /\ RowPart'
  <2>1. CASE rwork' = NoWork
    BY Zenon, <1>1, <2>1, NothingLeft
  <2>2. CASE EndCycle
    <3>1. rwork' = rwork /\ rwork.alerts = <<>> /\ rwork.step = 1 /\ rwork \in Works
      BY <2>2 DEF EndCycle, RInv, WorkPart, Works
    <3> QED  BY <1>1, <3>1 DEF WorkPart, RInv, RowPart
  <2> QED  BY <2>1, <2>2 DEF SendDigest, CycleRaises
<1>6. PingPart' /\ RecordedPart' /\ SpacePart'
  BY Zenon, <1>1, <1>2, <1>5, NoAlertsToCome
<1> QED  BY Zenon, <1>4, <1>5, <1>6 DEF RInv

LEMMA EodKeeps ==
  ASSUME RInv, EodSummaries
  PROVE  RInv'
<1>1. /\ rphase = "wake" /\ rphase' = "sweep" /\ reod' = Today + 1
      /\ rhist' = IF reod = Today + 1 THEN rhist ELSE [rhist EXCEPT !.eods = @ + 1]
      /\ UNCHANGED <<rpass, rgate, rwork, rdigest, rrows, rfaults>>
  BY DEF EodSummaries
<1>2. /\ rhist \in Hists /\ rhist.eods \in Nat /\ Today \in Nat
  BY DaysGo DEF RInv, Hists, GatePart, Today
<1>3. /\ rhist' \in Hists /\ rhist'.pinged = rhist.pinged /\ rhist'.pings = rhist.pings
      /\ rhist'.again = rhist.again
      /\ rhist'.eods = IF reod = Today + 1 THEN rhist.eods ELSE rhist.eods + 1
  BY <1>1, <1>2 DEF Hists
<1>4. Today' = Today /\ SentToday' = SentToday
  BY <1>1 DEF Today, SentToday
<1>5. GatePart' /\ ClockPart' /\ WorkPart' /\ RowPart'
  <2>1. GatePart' /\ RowPart'
    BY Zenon, <1>1 DEF RInv, GatePart, GateIsSound, RowPart
  <2>2. Today + 1 \in Nat /\ Today + 1 <= Today' + 1
    BY <1>2, <1>4
  <2>3. ClockPart'
    BY <1>1, <2>2 DEF RInv, ClockPart
  <2>4. WorkPart'
    BY <1>1 DEF RInv, WorkPart
  <2> QED  BY <2>1, <2>3, <2>4
<1>6. EodPart'
  BY <1>1, <1>2, <1>3, <1>4 DEF RInv, EodPart
<1>7. PingPart'
  BY <1>1, <1>3, <1>4 DEF RInv, PingPart
<1>8. RecordedPart'
  BY <1>1, <1>3 DEF RInv, RecordedPart, RowOf
<1>9. SpacePart'
  BY <1>1, <1>3 DEF RInv, SpacePart, Rested, OnceEach
<1> QED  BY Zenon, <1>3, <1>5, <1>6, <1>7, <1>8, <1>9 DEF RInv

(* The sweep records outcomes and leaves the rest of every row alone. *)
LEMMA SweepRows ==
  ASSUME RInv, EvaluateDue
  PROVE  /\ RowsKept /\ Len(rrows') = Len(rrows)
         /\ \A i \in DOMAIN rrows : rrows[i].outcome # "PENDING" => rrows'[i] = rrows[i]
<1>1. rrows \in Seq(Rows) /\ Len(rrows) \in Nat /\ DOMAIN rrows = 1 .. Len(rrows)
  BY DEF RInv, RowPart
<1>2. CASE rrows' = rrows
  BY <1>1, <1>2 DEF RowsKept
<1>3. CASE rrows' # rrows
  <2> DEFINE due == {i \in DOMAIN rrows : IsDue(rrows[i])}
  <2>1. PICK found \in [due -> Outcomes] :
          rrows' = [i \in DOMAIN rrows |->
                      IF i \in due THEN [rrows[i] EXCEPT !.outcome = found[i]] ELSE rrows[i]]
    BY Zenon, <1>3 DEF EvaluateDue
  <2>2. \A i \in due : IsDue(rrows[i])
    OBVIOUS
  <2> HIDE DEF due
  <2>3. ASSUME NEW i \in 1 .. Len(rrows)
        PROVE  /\ rrows'[i] \in Rows /\ rrows'[i].combo = rrows[i].combo /\ rrows'[i].at = rrows[i].at
               /\ rrows[i].outcome # "PENDING" => rrows'[i] = rrows[i]
    <3>1. rrows[i] \in Rows
      BY <1>1
    <3>2. CASE i \in due
      <4>1. rrows'[i] = [rrows[i] EXCEPT !.outcome = found[i]]
        BY <1>1, <2>1, <3>2
      <4>2. found[i] \in Verdicts /\ rrows[i].outcome = "PENDING"
        BY <2>1, <2>2, <3>2 DEF Verdicts, IsDue
      <4> HIDE DEF Verdicts
      <4> QED  BY <3>1, <4>1, <4>2 DEF Rows
    <3>3. CASE i \notin due
      <4>1. rrows'[i] = rrows[i]
        BY <1>1, <2>1, <3>3
      <4> QED  BY <3>1, <4>1
    <3> QED  BY <3>2, <3>3
  <2>4. /\ DOMAIN rrows' = 1 .. Len(rrows)
        /\ rrows' = [i \in 1 .. Len(rrows) |-> rrows'[i]]
    BY <1>1, <2>1
  <2>5. rrows' \in Seq(Rows) /\ Len(rrows') = Len(rrows)
    BY <1>1, <2>3, <2>4
  <2>6. \A c \in Combos, t \in Nat : RowOf(rrows, c, t) => RowOf(rrows', c, t)
    BY Zenon, <1>1, <2>3, <2>4 DEF RowOf
  <2> QED  BY Zenon, <1>1, <2>3, <2>5, <2>6 DEF RowsKept
<1> QED  BY <1>2, <1>3

LEMMA SweepKeeps ==
  ASSUME RInv, EvaluateDue
  PROVE  RInv'
<1>1. /\ rphase = "sweep" /\ rphase' = "sleep"
      /\ UNCHANGED <<rpass, rgate, rwork, rdigest, reod, rhist>>
      /\ rfaults' = rfaults \/ RFault("lag")
  BY DEF EvaluateDue
<1>2. rfaults' \in 0 .. MaxRadarFaults
  BY <1>1, RadarBounds DEF RInv, ClockPart, RFault
<1>3. RowsKept /\ Len(rrows') = Len(rrows)
  BY Zenon, SweepRows
<1>4. rwork'.alerts = <<>> /\ rwork'.step = 1 /\ rwork \in Works
  BY <1>1 DEF RInv, WorkPart, Works
<1>5. GatePart' /\ ClockPart' /\ WorkPart' /\ EodPart' /\ (rhist \in Hists)'
  BY <1>1, <1>2 DEF RInv, GatePart, GateIsSound, ClockPart, WorkPart, EodPart, Today
<1>6. RowPart'
  BY Zenon, <1>1, <1>3 DEF RInv, RowPart, RowsKept
<1>7. PingPart' /\ RecordedPart' /\ SpacePart'
  BY Zenon, <1>1, <1>3, <1>4, NoAlertsToCome
<1> QED  BY Zenon, <1>5, <1>6, <1>7 DEF RInv

LEMMA PassKeepsRadar ==
  ASSUME RInv, NextPass
  PROVE  RInv'
<1> DEFINE now == rpass'  no == FALSE
           over == [pinged |-> rhist.pinged, pings |-> 0, eods |-> 0, again |-> no]
<1>1. /\ rphase = "sleep" /\ rpass < LastPass /\ rpass' = rpass + 1 /\ rphase' = "wake"
      /\ rhist' = IF AfterClose THEN over ELSE rhist
      /\ UNCHANGED <<rgate, rwork, rdigest, rrows, reod, rfaults>>
  BY Zenon DEF NextPass
<1>2. /\ rpass \in Nat /\ rhist \in Hists /\ rhist.pinged \in [Combos -> Nat]
      /\ rhist.pings \in Nat /\ rwork.alerts = <<>> /\ rwork.step = 1
  BY <1>1 DEF RInv, GatePart, Hists, WorkPart, Works
<1>3. over \in Hists /\ over.pinged = rhist.pinged /\ over.pings = 0 /\ over.eods = 0
  BY <1>2 DEF Hists
<1> HIDE DEF over
<1>4. /\ rhist' \in Hists /\ rhist'.pinged = rhist.pinged
      /\ rhist' = rhist \/ (rhist'.pings = 0 /\ rhist'.eods = 0)
  BY Zenon, <1>1, <1>2, <1>3
<1>5. Today \in Nat /\ Today <= Today' /\ (~ AfterClose => Today' = Today)
  BY <1>1, <1>2, DaysGo DEF Today, AfterClose
<1>6. GatePart'
  <2>1. ASSUME NEW g \in {"alert", "mute"} PROVE GateIsSound(rgate[g])'
    <3>1. rgate[g] \in Gates /\ rgate[g].sent <= MaxPerDay /\ rgate' = rgate
          /\ \A c \in Combos : rgate[g].last[c] <= rpass + 1
      BY <1>1 DEF RInv, GatePart, GateIsSound
    <3>2. \A c \in Combos : rgate[g].last[c] \in Nat
      BY <3>1 DEF Gates
    <3>3. \A c \in Combos : rgate[g].last[c] <= now + 1
      BY <1>1, <1>2, <3>1, <3>2
    <3> QED  BY Zenon, <3>1, <3>3 DEF GateIsSound
  <2> QED  BY <1>1, <1>2, <2>1, RadarBounds DEF RInv, GatePart
<1>7. ClockPart'
  <2> DEFINE d == Today'
  <2>1. Today \in Int /\ d \in Int /\ Today <= d
    BY <1>1, <1>2, <1>5, DaysGo DEF Today
  <2>2. /\ rdigest \in Nat /\ rdigest <= rpass + 1 /\ reod \in Nat /\ reod <= Today + 1
        /\ rfaults \in 0 .. MaxRadarFaults
    BY DEF RInv, ClockPart
  <2> HIDE DEF d
  <2>3. reod <= d + 1 /\ rdigest <= (rpass + 1) + 1
    BY <1>2, <2>1, <2>2
  <2>4. rphase' \in {"wake", "work", "sweep", "sleep"}
    BY <1>1
  <2> QED  BY Zenon, <1>1, <2>2, <2>3, <2>4 DEF ClockPart, d
<1>8. WorkPart' /\ RowPart'
  BY Zenon, <1>1, <1>2 DEF RInv, WorkPart, RowPart
<1>9. EodPart'
  BY <1>1, <1>3, <1>4, <1>5 DEF RInv, EodPart
<1>10. PingPart'
  <2>1. rgate["alert"].sent \in Nat /\ rgate' = rgate /\ SentToday' \in Nat
    BY <1>1 DEF RInv, GatePart, Gates, SentToday
  <2>2. CASE AfterClose
    <3>1. rhist'.pings = 0 /\ Len(rwork'.alerts) = 0
      BY <1>1, <1>2, <1>3, <2>2
    <3>2. 0 + 0 <= SentToday'
      BY <2>1
    <3> QED  BY Zenon, <3>1, <3>2 DEF PingPart
  <2>3. CASE ~ AfterClose
    <3>1. rhist' = rhist /\ SentToday' = SentToday /\ rwork' = rwork
      BY <1>1, <1>5, <2>1, <2>3 DEF SentToday
    <3> QED  BY Zenon, <3>1 DEF RInv, PingPart
  <2> QED  BY <2>2, <2>3
<1>11. RecordedPart'
  <2>1. rwork' = rwork /\ rwork.step # 2
    BY <1>1, <1>2
  <2> QED  BY Zenon, <1>1, <1>4, <2>1 DEF RInv, RecordedPart
<1>12. SpacePart'
  BY <1>1, <1>2, <1>4 DEF RInv, SpacePart, OnceEach
<1> QED  BY Zenon, <1>4, <1>6, <1>7, <1>8, <1>9, <1>10, <1>11, <1>12 DEF RInv

LEMMA RadarRestartKeeps ==
  ASSUME RInv, RadarRestarts
  PROVE  RInv'
<1> DEFINE none == [c \in Combos |-> 0]  yes == TRUE  new == [day |-> Today, sent |-> 0, last |-> none]
<1>1. /\ rgate' = [g \in {"alert", "mute"} |-> new]
      /\ rphase' = "wake" /\ rwork' = NoWork /\ rdigest' = 0 /\ reod' = 0
      /\ rhist' = [pinged |-> none, pings |-> rhist.pings, eods |-> rhist.eods, again |-> yes]
      /\ UNCHANGED <<rpass, rrows>> /\ RFault("crash")
  BY Zenon DEF RadarRestarts, NewGate
<1>2. none \in [Combos -> Nat] /\ \A c \in Combos : none[c] = 0
  OBVIOUS
<1> HIDE DEF none
<1>3. rpass \in Nat /\ rpass <= LastPass /\ Today \in Nat
  BY DaysGo DEF RInv, GatePart, Today
<1>4. new \in Gates /\ new.sent = 0 /\ new.last = none /\ GateIsSound(new)
  <2>1. new \in Gates /\ new.sent = 0 /\ new.last = none
    BY <1>2, <1>3 DEF Gates
  <2> HIDE DEF new
  <2> QED  BY <1>2, <1>3, <2>1, RadarBounds DEF GateIsSound
<1> HIDE DEF new
<1>5. /\ rhist' \in Hists /\ rhist'.pinged = none
  BY <1>1, <1>2 DEF RInv, Hists
<1>6. rhist'.again
  BY Zenon, <1>1
<1>7. GatePart'
  BY <1>1, <1>3, <1>4 DEF GatePart, GateIsSound
<1>8. ClockPart'
  <2>1. Today' = Today /\ rfaults' \in 0 .. MaxRadarFaults
    BY <1>1, RadarBounds DEF Today, RFault, RInv, ClockPart
  <2> QED  BY <1>1, <1>3, <2>1 DEF ClockPart
<1>9. rwork'.alerts = <<>> /\ rwork'.step = 1 /\ WorkPart' /\ RowPart'
  BY Zenon, <1>1, NothingLeft
<1>10. EodPart' /\ PingPart'
  BY Zenon, <1>6 DEF EodPart, PingPart
<1>11. RecordedPart'
  BY <1>2, <1>5, <1>9 DEF RecordedPart
<1>12. SpacePart'
  <2>1. rgate'["alert"].last = none
    BY <1>1, <1>4
  <2> QED  BY <1>2, <1>5, <1>9, <2>1 DEF SpacePart, OnceEach
<1> QED  BY Zenon, <1>5, <1>7, <1>8, <1>9, <1>10, <1>11, <1>12 DEF RInv

LEMMA RInvKept == RInv /\ [RNext]_rVars => RInv'
<1> SUFFICES ASSUME RInv, [RNext]_rVars PROVE RInv'
  OBVIOUS
<1>1. CASE UNCHANGED rVars
  <2>1. /\ rpass' = rpass /\ rphase' = rphase /\ rgate' = rgate /\ rwork' = rwork
        /\ rdigest' = rdigest /\ rrows' = rrows /\ reod' = reod /\ rfaults' = rfaults
        /\ rhist' = rhist
    BY <1>1 DEF rVars
  <2> QED  BY Zenon, <2>1 DEF RInv, GatePart, GateIsSound, ClockPart, WorkPart, RowPart, PingPart,
                              EodPart, RecordedPart, SpacePart, Today, SentToday
<1> QED  BY Zenon, <1>1, StartKeeps, InsertKeeps, SendKeepsRadar, MutedKeeps, DigestKeeps,
            EodKeeps, SweepKeeps, PassKeepsRadar, RadarRestartKeeps DEF RNext

(* What a step may do to the messages, the rows and the digest. *)
SpacedPings == \A c \in Combos :
       /\ rhist'.pinged[c] # rhist.pinged[c] /\ rhist.pinged[c] > 0 /\ rhist'.pinged[c] > 0
       => rhist'.pinged[c] - rhist.pinged[c] >= RadarCooldown

FinalOutcomes == \A i \in DOMAIN rrows : rrows[i].outcome # "PENDING" => rrows'[i] = rrows[i]

ThrottledDigests == rdigest' > rdigest /\ rdigest > 0 => rdigest' - rdigest >= DigestGap

LEMMA PingIsSpaced ==
  ASSUME RInv, SendOpportunity
  PROVE  SpacedPings
<1> DEFINE c == Head(rwork.alerts)
<1>1. /\ rwork.alerts # <<>> /\ rwork.alerts \in Seq(Combos)
      /\ rhist' = Pinged(c) \/ rhist' = rhist
      /\ rhist.pinged \in [Combos -> Nat] /\ rpass \in Nat
  BY DEF SendOpportunity, Alerting, RInv, WorkPart, Works, Hists, GatePart
<1>2. 1 \in DOMAIN rwork.alerts /\ rwork.alerts[1] = c /\ c \in Combos
  BY <1>1
<1>3. Rested(rpass, rhist.pinged, c)
  BY Zenon, <1>2 DEF RInv, SpacePart
<1> HIDE DEF c
<1>4. \/ rhist'.pinged = rhist.pinged
      \/ rhist'.pinged = [rhist.pinged EXCEPT ![c] = rpass + 1]
  <2>1. Pinged(c).pinged = [rhist.pinged EXCEPT ![c] = rpass + 1]
    BY DEF Pinged
  <2> QED  BY Zenon, <1>1, <2>1
<1> SUFFICES ASSUME NEW d \in Combos, rhist'.pinged[d] # rhist.pinged[d], rhist.pinged[d] > 0
             PROVE  rhist'.pinged[d] - rhist.pinged[d] >= RadarCooldown
  BY DEF SpacedPings
<1>5. d = c /\ rhist'.pinged[d] = rpass + 1
  BY <1>1, <1>2, <1>4
<1> QED  BY <1>1, <1>3, <1>5, RadarBounds DEF Rested

LEMMA RStepIsSafe ==
  ASSUME RInv, [RNext]_rVars
  PROVE  SpacedPings /\ FinalOutcomes /\ ThrottledDigests
<1>1. SpacedPings
  <2>1. CASE SendOpportunity
    BY <2>1, PingIsSpaced
  <2>2. CASE RadarRestarts
    <3> DEFINE none == [c \in Combos |-> 0]
    <3>1. rhist'.pinged = none
      BY <2>2 DEF RadarRestarts
    <3>2. \A c \in Combos : rhist'.pinged[c] = 0
      BY <3>1
    <3> QED  BY <3>2 DEF SpacedPings
  <2>3. CASE ~ (SendOpportunity \/ RadarRestarts)
    <3>1. rhist'.pinged = rhist.pinged
      <4>1. CASE EodSummaries
        <5>1. rhist \in Hists /\ (rhist' = rhist \/ rhist' = [rhist EXCEPT !.eods = @ + 1])
          BY <4>1 DEF EodSummaries, RInv
        <5> QED  BY <5>1 DEF Hists
      <4>2. CASE NextPass
        <5> DEFINE over == [pinged |-> rhist.pinged, pings |-> 0, eods |-> 0, again |-> FALSE]
        <5>1. rhist' = rhist \/ rhist' = over
          BY Zenon, <4>2 DEF NextPass
        <5>2. over.pinged = rhist.pinged
          BY Zenon
        <5> QED  BY Zenon, <5>1, <5>2
      <4>3. CASE ~ (EodSummaries \/ NextPass)
        <5>1. rhist' = rhist
          BY <2>3, <4>3 DEF RNext, rVars, StartCycle, InsertSignal, InsertMuted, SendDigest,
                            EndCycle, CycleRaises, EvaluateDue
        <5> QED  BY Zenon, <5>1
      <4> QED  BY <4>1, <4>2, <4>3
    <3> QED  BY Zenon, <3>1 DEF SpacedPings
  <2> QED  BY <2>1, <2>2, <2>3
<1>2. FinalOutcomes
  <2>1. CASE EvaluateDue
    BY Zenon, <2>1, SweepRows DEF FinalOutcomes
  <2>2. CASE InsertSignal \/ InsertMuted
    <3>1. \E c \in Combos : InsertRow(c) /\ rpass' = rpass
      BY <2>2 DEF InsertSignal, InsertMuted, Alerting, RInv, WorkPart, Works
    <3> QED  BY Zenon, <3>1, RowAppended DEF FinalOutcomes
  <2>3. CASE ~ (EvaluateDue \/ InsertSignal \/ InsertMuted)
    <3>1. rrows' = rrows
      BY <2>3 DEF RNext, rVars, StartCycle, SendOpportunity, SendDigest, EndCycle, CycleRaises,
                  EodSummaries, NextPass, RadarRestarts
    <3> QED  BY Zenon, <3>1 DEF FinalOutcomes
  <2> QED  BY <2>1, <2>2, <2>3
<1>3. ThrottledDigests
  <2>1. rdigest \in Nat /\ rpass \in Nat
    BY DEF RInv, ClockPart, GatePart
  <2>2. rdigest' = rdigest \/ rdigest' = 0 \/ (DigestDue /\ rdigest' = rpass + 1)
    BY DEF RNext, rVars, StartCycle, InsertSignal, SendOpportunity, InsertMuted, SendDigest,
           EndCycle, CycleRaises, EodSummaries, EvaluateDue, NextPass, RadarRestarts
  <2> QED  BY <2>1, <2>2, RadarBounds DEF ThrottledDigests, DigestDue
<1> QED  BY <1>1, <1>2, <1>3

LEMMA RInvIsSafe == RInv => RTypeOK /\ ChannelIsNotFlooded /\ AlertsAreRecorded
<1> SUFFICES ASSUME RInv PROVE RTypeOK /\ ChannelIsNotFlooded /\ AlertsAreRecorded
  OBVIOUS
<1>1. ASSUME NEW g \in {"alert", "mute"}
      PROVE  rgate[g].sent \in 0 .. MaxPerDay /\ rgate[g].last \in [Combos -> 0 .. LastPass + 1]
  <2>1. rgate[g] \in Gates /\ GateIsSound(rgate[g]) /\ rpass \in Nat /\ rpass <= LastPass
    BY DEF RInv, GatePart
  <2>2. rgate[g].sent \in Nat /\ rgate[g].sent <= MaxPerDay /\ rgate[g].last \in [Combos -> Nat]
        /\ \A c \in Combos : rgate[g].last[c] \in 0 .. LastPass + 1
    BY <2>1, RadarBounds DEF Gates, GateIsSound
  <2> QED  BY <2>2, RadarBounds
<1>2. /\ rwork \in Works /\ rwork.step \in {1, 2}
      /\ rwork.alerts \in Seq(Combos) /\ rwork.shadow \in Seq(Combos)
  BY DEF RInv, WorkPart, Works
<1>3. rwork.digest \in BOOLEAN
  BY Zenon, <1>2 DEF Works
<1>4. /\ \A i \in DOMAIN rwork.alerts : rwork.alerts[i] \in Combos
      /\ \A i \in DOMAIN rwork.shadow : rwork.shadow[i] \in Combos
  BY <1>2
<1>5. rrows \in Seq(Rows) /\ Len(rrows) <= MaxRows
  <2> DEFINE r == Len(rrows)  a == Len(rwork.alerts)  b == Len(rwork.shadow)
  <2>1. /\ r \in Nat /\ a \in Nat /\ b \in Nat /\ (rwork.step = 2 => a >= 1)
    BY <1>2 DEF RInv, RowPart, WorkPart
  <2>2. r + a + b + 1 <= MaxRows + rwork.step /\ rrows \in Seq(Rows)
    BY Zenon DEF RInv, RowPart
  <2> HIDE DEF r, a, b
  <2>3. r <= MaxRows
    BY <1>2, <2>1, <2>2, RadarBounds
  <2> QED  BY Zenon, <2>2, <2>3 DEF r
<1>6. \A i \in DOMAIN rrows : rrows[i].outcome \in Outcomes \cup {"PENDING"}
  <2>1. \A i \in DOMAIN rrows : rrows[i] \in Rows
    BY <1>5
  <2> QED  BY Zenon, <2>1 DEF Rows, Verdicts
<1>7. /\ rpass \in 0 .. LastPass /\ rphase \in {"wake", "work", "sweep", "sleep"}
      /\ rdigest \in 0 .. LastPass + 1 /\ reod \in 0 .. Today + 1 /\ rfaults \in 0 .. MaxRadarFaults
  <2>1. Today \in Nat
    BY DaysGo DEF RInv, GatePart, Today
  <2> QED  BY <2>1, RadarBounds DEF RInv, GatePart, ClockPart
<1>8. RTypeOK
  BY Zenon, <1>1, <1>2, <1>3, <1>4, <1>5, <1>6, <1>7 DEF RTypeOK
<1>9. ChannelIsNotFlooded
  <2> DEFINE a == Len(rwork.alerts)
  <2>1. a \in Nat /\ rhist.pings \in Nat /\ rhist.eods \in Nat /\ SentToday \in Nat
        /\ SentToday <= MaxPerDay
    BY <1>2, RadarBounds DEF RInv, Hists, GatePart, GateIsSound, Gates, SentToday
  <2>2. ~ rhist.again => rhist.pings + a <= SentToday /\ (rhist.eods = 0 \/ rhist.eods = 1)
    BY Zenon DEF RInv, PingPart, EodPart
  <2> HIDE DEF a
  <2> QED  BY <2>1, <2>2, RadarBounds DEF ChannelIsNotFlooded
<1>10. AlertsAreRecorded
  BY Zenon DEF RInv, RecordedPart, RowOf, AlertsAreRecorded
<1> QED  BY <1>8, <1>9, <1>10

(* For any combos, budget, cooldown, day length and faults: one process of the
   radar sends no more than its budget of alerts a day and one round of summaries,
   leaves the cooldown between two alerts of a combo and the gap between two
   digests; whatever the user was told of has its row, even if the cycle raises or
   the process is restarted in between; and a recorded outcome stays.
   (dispatch.py AlertGate, radar_headless.py:154-176, store.py:86-113.) *)
THEOREM RadarKeepsItsLimits ==
  RSpec => /\ [](RTypeOK /\ ChannelIsNotFlooded /\ AlertsAreRecorded)
           /\ PingsAreSpaced
           /\ OutcomesAreFinal
           /\ DigestsAreThrottled
<1>1. RInv /\ [RNext]_rVars => [SpacedPings]_rVars /\ [FinalOutcomes]_rVars /\ [ThrottledDigests]_rVars
  BY Zenon, RStepIsSafe
<1>2. RSpec => [](RTypeOK /\ ChannelIsNotFlooded /\ AlertsAreRecorded)
  BY RInitially, RInvKept, RInvIsSafe, PTL DEF RSpec
<1>3. RSpec => [][SpacedPings]_rVars /\ [][FinalOutcomes]_rVars /\ [][ThrottledDigests]_rVars
  BY RInitially, RInvKept, <1>1, PTL DEF RSpec
<1> QED  BY <1>2, <1>3, PTL DEF PingsAreSpaced, OutcomesAreFinal, DigestsAreThrottled,
                                SpacedPings, FinalOutcomes, ThrottledDigests
=============================================================================
