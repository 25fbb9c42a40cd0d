----------------------------- MODULE TradeManager -----------------------------
(***************************************************************************)
(* The manual-trade tracker (src/emcure/trade_manager.py): the trade in    *)
(* trade_state.json, the processes that check its levels on every refresh  *)
(* and send the alerts (tracker, dashboard), and the command handlers that *)
(* record and close it (bot threads, the trade.py command line).  Every    *)
(* locked section is split at the file's lock; reads are lock-free, as in  *)
(* the code.  Quantities and rupee P&L are left out: a trade is known by   *)
(* its opened_at, here the number of the BUY that recorded it.             *)
(***************************************************************************)
EXTENDS Integers, Sequences

CONSTANTS
    Checkers,     \* processes that call check_and_mark
    Commands,     \* threads and processes that run the BUY / SELL handlers
    Plans,        \* the level sets a BUY can record
    Prices,       \* the prices the market can print
    MaxTrades,    \* bound: trades recorded
    MaxSession,   \* bound: trading sessions
    Faults,       \* subset of {"crash", "lost", "ledger"}
    MaxGlitches,  \* bound: how many faults occur
    Free,         \* the lock is not held
    Unset         \* the trade has no watermark yet

Targets == {"T1", "T2", "T3"}
Levels  == Targets \cup {"SL"}
Procs   == Checkers \cup Commands

\* trade.py refuses other explicit levels, and the default offsets obey it.
OrderedPlan(plan) ==
    plan["SL"] < plan["T1"] /\ plan["T1"] < plan["T2"] /\ plan["T2"] < plan["T3"]

ASSUME TradeAssumption ==
    /\ Checkers \cap Commands = {}
    /\ Prices \subseteq Int
    /\ Plans \subseteq [Levels -> Int] /\ \A plan \in Plans : OrderedPlan(plan)
    /\ MaxTrades \in Nat /\ MaxSession \in Nat /\ MaxGlitches \in Nat
    /\ Free \notin Procs /\ Unset \notin Int

VARIABLES
    file,      \* trade_state.json
    lock,      \* who holds trade_state.json.lock
    pc,        \* where each process is
    view,      \* what a locked section loaded
    quote,     \* the day's extremes a refresh fetched
    pending,   \* newly hit levels whose alerts are not sent yet
    priced,    \* current_pnl in the SELL handler, 0 = None
    ledger,    \* rows of the P&L ledger: the trades booked
    high, low, session,   \* the market: the extremes of the session
    glitches,
    alerted    \* history: alerts sent

market == <<high, low, session>>
shared == <<file, lock>>
locals == <<view, quote, pending, priced>>
vars == <<shared, pc, locals, ledger, market, glitches, alerted>>

Trades == 1..MaxTrades

Trade == [opened: Trades \cup {0}, active: BOOLEAN, level: [Levels -> Int],
          hit: SUBSET Levels, mark: Int \cup {Unset}]

\* The state file is missing: read_json answers {}.
NoTrade == [opened |-> 0, active |-> FALSE, level |-> [l \in Levels |-> 0],
            hit |-> {}, mark |-> Unset]

Alert == Nat \X Levels
Quote == [high: Int, low: Int]

NoQuote == [high |-> 0, low |-> 0]

Locked == {"checking", "calibrated", "clearing"}

Labels == Locked \cup {"idle", "refreshed", "alerting", "sell", "sold", "log"}

TypeOK ==
    /\ file \in Trade
    /\ lock \in Procs \cup {Free}
    /\ pc \in [Procs -> Labels]
    /\ view \in [Procs -> Trade]
    /\ quote \in [Procs -> Quote]
    /\ pending \in [Procs -> SUBSET Alert]
    /\ priced \in [Procs -> Trades \cup {0}]
    /\ ledger \in Seq(Trades)
    /\ high \in Int /\ low \in Int /\ session \in Nat
    /\ glitches \in Nat
    /\ alerted \subseteq Alert

Init ==
    /\ file = NoTrade /\ lock = Free
    /\ pc = [p \in Procs |-> "idle"]
    /\ view = [p \in Procs |-> NoTrade]
    /\ quote = [p \in Procs |-> NoQuote]
    /\ pending = [p \in Procs |-> {}]
    /\ priced = [p \in Procs |-> 0]
    /\ ledger = <<>>
    /\ high \in Prices /\ low = high /\ session = 1
    /\ glitches = 0 /\ alerted = {}

-----------------------------------------------------------------------------
Glitch(f) == f \in Faults /\ glitches < MaxGlitches /\ glitches' = glitches + 1

At(p, l) == pc[p] = l

Goto(p, l) == pc' = [pc EXCEPT ![p] = l]

\* locked() and _load(): take the lock, read the file.
Load(p) == /\ lock = Free /\ lock' = p
           /\ view' = [view EXCEPT ![p] = file]
           /\ UNCHANGED <<file, quote, pending, priced>>

\* _save() and the end of locked(); what a process read is forgotten.
Forget(p) == /\ view' = [view EXCEPT ![p] = NoTrade]
             /\ quote' = [quote EXCEPT ![p] = NoQuote]

Save(p, trade) == file' = trade /\ lock' = Free /\ Forget(p)

-----------------------------------------------------------------------------
(* check_and_mark in the tracker and in the dashboard.                      *)

\* The refresh fetches the quote; the check comes later in the same cycle.
Refresh(p) ==
    /\ At(p, "idle") /\ Goto(p, "refreshed")
    /\ quote' = [quote EXCEPT ![p] = [high |-> high, low |-> low]]
    /\ UNCHANGED <<shared, view, pending, priced, ledger, market,
                   glitches, alerted>>

\* Mutant: the check does not take the lock.
CheckLoadsUnlocked(p) ==
    /\ At(p, "refreshed") /\ Goto(p, "checking")
    /\ view' = [view EXCEPT ![p] = file]
    /\ UNCHANGED <<shared, quote, pending, priced>>
    /\ UNCHANGED <<ledger, market, glitches, alerted>>

CheckLoads(p) ==
    /\ At(p, "refreshed") /\ Load(p) /\ Goto(p, "checking")
    /\ UNCHANGED <<ledger, market, glitches, alerted>>

StopHit(t, q) == q.low <= t.level["SL"] /\ "SL" \notin t.hit

\* Without a new high the targets are compared with one rupee less than the
\* watermark.
EffectiveHigh(t, q) == IF q.high > t.mark THEN q.high ELSE t.mark - 1

\* Mutant: the stop too is only looked at on a new high.
NewlyHitOnHighs(t, q) ==
    IF q.high > t.mark
    THEN {l \in Targets \ t.hit : EffectiveHigh(t, q) >= t.level[l]}
         \cup (IF StopHit(t, q) THEN {"SL"} ELSE {})
    ELSE {}

NewlyHit(t, q) ==
    {l \in Targets \ t.hit : EffectiveHigh(t, q) >= t.level[l]}
    \cup (IF StopHit(t, q) THEN {"SL"} ELSE {})

AlertsOf(t, labels) == {<<t.opened, l>> : l \in labels}

\* No active trade: nothing is saved.
CheckFindsNone(p) ==
    /\ At(p, "checking") /\ ~view[p].active
    /\ Save(p, file) /\ Goto(p, "idle")
    /\ UNCHANGED <<pending, priced, ledger, market, glitches, alerted>>

\* The first check of a trade sets its watermark and saves; it looks at the
\* stop before it gives up the lock.
CheckCalibrates(p) ==
    /\ At(p, "checking") /\ view[p].active /\ view[p].mark = Unset
    /\ LET t == [view[p] EXCEPT !.mark = quote[p].high]
       IN  IF StopHit(t, quote[p])
           THEN /\ file' = t /\ view' = [view EXCEPT ![p] = t]
                /\ Goto(p, "calibrated") /\ UNCHANGED <<lock, quote>>
           ELSE Save(p, t) /\ Goto(p, "idle")
    /\ UNCHANGED <<pending, priced, ledger, market, glitches, alerted>>

CheckMarksFirstStop(p) ==
    /\ At(p, "calibrated")
    /\ Save(p, [view[p] EXCEPT !.hit = @ \cup {"SL"}])
    /\ pending' = [pending EXCEPT ![p] = AlertsOf(view[p], {"SL"})]
    /\ Goto(p, "alerting")
    /\ UNCHANGED <<priced, ledger, market, glitches, alerted>>

\* Mutant: the watermark follows the quote.
MarkedLast(t, q) == [t EXCEPT !.mark = q.high, !.hit = @ \cup NewlyHit(t, q)]

Marked(t, q) ==
    [t EXCEPT !.mark = IF q.high > @ THEN q.high ELSE @,
              !.hit = @ \cup NewlyHit(t, q)]

\* A later check: mark what is newly hit, save, and return the hits.
CheckMarks(p) ==
    /\ At(p, "checking") /\ view[p].active /\ view[p].mark # Unset
    /\ LET hits == NewlyHit(view[p], quote[p])
       IN  /\ Save(p, Marked(view[p], quote[p]))
           /\ pending' = [pending EXCEPT ![p] = AlertsOf(view[p], hits)]
           /\ Goto(p, IF hits = {} THEN "idle" ELSE "alerting")
    /\ UNCHANGED <<priced, ledger, market, glitches, alerted>>

\* One alert goes out, or is lost on the way (the sender swallows errors).
SendAlert(p) ==
    /\ At(p, "alerting")
    /\ \E a \in pending[p] :
        /\ pending' = [pending EXCEPT ![p] = @ \ {a}]
        /\ Goto(p, IF pending[p] = {a} THEN "idle" ELSE "alerting")
        /\ \/ alerted' = alerted \cup {a} /\ UNCHANGED glitches
           \/ UNCHANGED alerted /\ Glitch("lost")
    /\ UNCHANGED <<shared, view, quote, priced, ledger, market>>

Check(p) ==
    \/ Refresh(p) \/ CheckLoads(p)
    \/ CheckFindsNone(p) \/ CheckCalibrates(p) \/ CheckMarksFirstStop(p)
    \/ CheckMarks(p) \/ SendAlert(p)

-----------------------------------------------------------------------------
(* The BUY and SELL handlers.                                               *)

\* handle_buy: set_trade overwrites whatever is recorded.
Buy(c) ==
    /\ At(c, "idle") /\ lock = Free /\ file.opened < MaxTrades
    /\ \E plan \in Plans :
        file' = [opened |-> file.opened + 1, active |-> TRUE, level |-> plan,
                 hit |-> {}, mark |-> Unset]
    /\ UNCHANGED <<lock, pc, locals, ledger, market, glitches, alerted>>

\* handle_sell: get_trade, which ends the handler when there is none.
SellGetsTrade(c) ==
    /\ At(c, "idle") /\ file.active /\ Goto(c, "sell")
    /\ UNCHANGED <<shared, locals, ledger, market, glitches, alerted>>

\* The price is fetched, or the handler gives up and closes nothing; then
\* current_pnl reads the file again.
SellPrices(c) ==
    /\ At(c, "sell")
    /\ \/ /\ Goto(c, "sold")
          /\ priced' = [priced EXCEPT ![c] = IF file.active THEN file.opened ELSE 0]
       \/ Goto(c, "idle") /\ UNCHANGED priced
    /\ UNCHANGED <<shared, view, quote, pending, ledger, market, glitches,
                   alerted>>

\* clear_trade.
SellLoads(c) ==
    /\ At(c, "sold") /\ Load(c) /\ Goto(c, "clearing")
    /\ UNCHANGED <<ledger, market, glitches, alerted>>

Done(c) == Goto(c, "idle") /\ priced' = [priced EXCEPT ![c] = 0]

\* Mutant: the handler books what it did not price.
SellClearsAnyway(c) ==
    /\ At(c, "clearing")
    /\ Save(c, [view[c] EXCEPT !.active = FALSE])
    /\ Goto(c, "log") /\ UNCHANGED priced
    /\ UNCHANGED <<pending, ledger, market, glitches, alerted>>

\* Without a priced trade the handler fails after the clear.
SellClears(c) ==
    /\ At(c, "clearing")
    /\ Save(c, [view[c] EXCEPT !.active = FALSE])
    /\ IF priced[c] = 0 THEN Done(c) ELSE Goto(c, "log") /\ UNCHANGED priced
    /\ UNCHANGED <<pending, ledger, market, glitches, alerted>>

\* ledger.log_trade never raises: a row that cannot be written is dropped.
SellLogs(c) ==
    /\ At(c, "log") /\ Done(c)
    /\ \/ ledger' = Append(ledger, priced[c]) /\ UNCHANGED glitches
       \/ UNCHANGED ledger /\ Glitch("ledger")
    /\ UNCHANGED <<shared, view, quote, pending, market, alerted>>

Command(c) ==
    \/ Buy(c) \/ SellGetsTrade(c) \/ SellPrices(c) \/ SellLoads(c)
    \/ SellClears(c) \/ SellLogs(c)

-----------------------------------------------------------------------------
(* Crashes and the market.                                                  *)

\* A process dies and is started again; the system releases its lock.
Crash(p) ==
    /\ ~At(p, "idle") /\ Glitch("crash") /\ Done(p)
    /\ pending' = [pending EXCEPT ![p] = {}] /\ Forget(p)
    /\ lock' = IF lock = p THEN Free ELSE lock
    /\ UNCHANGED <<file, ledger, market, alerted>>

\* A price outside the session's range is printed.
PriceMoves ==
    /\ \E x \in Prices :
        \/ x > high /\ high' = x /\ UNCHANGED low
        \/ x < low  /\ low' = x  /\ UNCHANGED high
    /\ UNCHANGED <<shared, pc, locals, ledger, session, glitches, alerted>>

NextSession ==
    /\ session < MaxSession /\ session' = session + 1
    /\ high' \in Prices /\ low' = high'
    /\ UNCHANGED <<shared, pc, locals, ledger, glitches, alerted>>

Next ==
    \/ \E p \in Checkers : Check(p)
    \/ \E c \in Commands : Command(c)
    \/ \E p \in Procs : Crash(p)
    \/ PriceMoves \/ NextSession

Spec == Init /\ [][Next]_vars

\* Loops keep refreshing and a handler once started runs to its end.
Fairness ==
    /\ \A p \in Checkers : WF_vars(Check(p))
    /\ \A c \in Commands : WF_vars(~At(c, "idle") /\ Command(c))

FairSpec == Spec /\ Fairness

-----------------------------------------------------------------------------
\* Each level of a trade is alerted at most once, although several processes
\* check it: an alert waiting to be sent was neither sent nor is waiting
\* elsewhere (check_and_mark "marks each as hit so it only alerts once").
EachLevelAlertsOnce ==
    \A p \in Procs :
        /\ pending[p] \cap alerted = {}
        /\ \A q \in Procs \ {p} : pending[p] \cap pending[q] = {}

SameTrade == file'.opened = file.opened

\* A concurrent check cannot resurrect a trade that was just closed.
ClosedStaysClosed ==
    [][SameTrade /\ ~file.active => ~file'.active]_vars

\* What a trade has marked stays marked, and its watermark never falls, in
\* whatever order the processes' older and newer quotes arrive.
MarksOnlyGrow ==
    [][SameTrade => /\ file.hit \subseteq file'.hit
                    /\ file.mark # Unset => file'.mark # Unset
                                            /\ file'.mark >= file.mark]_vars

StopCrossed == file.active /\ low <= file.level["SL"]

\* A session low at or below the stop of the active trade is alerted,
\* whichever check of the trade sees it first, unless the trade is closed,
\* the session ends or a fault intervenes.
StopCrossedIsAlerted ==
    StopCrossed ~> (\/ <<file.opened, "SL">> \in alerted
                    \/ ~StopCrossed \/ glitches > 0)

-----------------------------------------------------------------------------
(* What the docs of the code say, and the code does not do.                 *)

\* check_and_mark: after the first call, targets "only fire when day_high
\* exceeds the watermark".
TargetsNeedANewHigh ==
    [][SameTrade /\ file.mark # Unset /\ file'.hit \ file.hit \notin {{}, {"SL"}}
         => file'.mark > file.mark]_vars

=============================================================================
