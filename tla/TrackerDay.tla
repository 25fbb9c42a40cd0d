----------------------------- MODULE TrackerDay -----------------------------
(***************************************************************************)
(* The tracker's days (src/apps/main_headless.py main and _dispatch_alerts, *)
(* src/src/emcure/schedule.py, src/src/shared/alert_log.py): when the loop *)
(* wakes and sleeps, the morning login, the scheduled alerts and the file  *)
(* of what was sent.  A message is sent in one step and marked as sent in  *)
(* the next; the process may die between them.                             *)
(***************************************************************************)
EXTENDS Integers

CONSTANTS
  TFirstDay, TLastDay,  \* days of the model; day 1 is a Monday
  Holidays,             \* exchange holidays
  Cooldown,             \* parts of a day between two signals
  MayLogIn,             \* credentials for auto_login are configured
  TFaults, MaxTFaults

ASSUME TrackerAssumption ==
  /\ TFirstDay \in Nat \ {0} /\ TLastDay \in Nat /\ TFirstDay <= TLastDay
  /\ Cooldown \in 1 .. 3        \* shorter than the night
  /\ MayLogIn \in BOOLEAN /\ MaxTFaults \in Nat

VARIABLES
  tday, ttick,   \* the day and the part of it
  tsleep,        \* the loop sleeps until then
  tran,          \* the loop has run, or failed, in this part of the day
  tbroker,       \* the loop has a broker
  tsession,      \* day of the broker's session
  ttoken,        \* day of the token file
  talerts,       \* alerts_sent.json: kind -> day of the last mark
  tsignal,       \* when the last signal was marked
  tpc,           \* 0, the stage about to send, or 10 + the stage sent
  tfaults,
  thist          \* history, for the properties only

tVars == <<tday, ttick, tsleep, tran, tbroker, tsession, ttoken, talerts, tsignal,
           tpc, tfaults, thist>>

-----------------------------------------------------------------------------
(* schedule.py: the parts of a day. *)
Night == 0          \* before 09:00
TPreOpen == 1       \* 09:00 to 09:14
Opening == 2        \* 09:15 to 09:19
PostOpen == 3       \* 09:20 to 09:59
Morning == 4
Afternoon == 5
Eod == 6            \* 15:30 to 15:59
Evening == 7

Now(d, tick) == d * 8 + tick
Time == Now(tday, ttick)

TWeekday(d) == (d - 1) % 7
Tradable(d) == TWeekday(d) < 5 /\ d \notin Holidays

(* Holidays never close a week and the day after it. *)
ASSUME WeekAssumption ==
  \A d \in TFirstDay .. TLastDay : \E n \in d + 1 .. d + 8 : Tradable(n)

MarketOpen == Tradable(tday) /\ ttick \in Opening .. Afternoon

(* _next_wake_target: ten minutes before the next open, or the open when that
   is less than ten minutes away. *)
NextWakeTarget(d, tick) ==
  IF Tradable(d) /\ tick < Opening
  THEN IF tick >= TPreOpen THEN Now(d, Opening) ELSE Now(d, TPreOpen)
  ELSE LET next == CHOOSE n \in d + 1 .. d + 8 :
                     Tradable(n) /\ \A m \in d + 1 .. n - 1 : ~ Tradable(m)
       IN  Now(next, TPreOpen)

(* The stages of _dispatch_alerts, in its order. *)
HolidayStage == 1
PreOpenStage == 2
PostOpenStage == 3
EodStage == 4
WeeklyStage == 5
SignalStage == 6
Stages == 1 .. 6
Kinds == Stages \cup {7}
Auth == 7

Sent(kind) == talerts[kind] = tday

(* Too soon when the last mark of the day is younger than the cooldown. *)
TooSoon == tsignal \div 8 = tday /\ Time - tsignal < Cooldown

Due(stage, signal) ==
  CASE stage = HolidayStage -> ttick = TPreOpen /\ ~ Sent(HolidayStage) /\ tday \in Holidays
    [] stage = PreOpenStage -> ttick = TPreOpen /\ ~ Sent(PreOpenStage)
    [] stage = PostOpenStage -> ttick = PostOpen /\ ~ Sent(PostOpenStage)
    [] stage = EodStage -> ttick = Eod /\ ~ Sent(EodStage)
    [] stage = WeeklyStage -> ttick = Eod /\ TWeekday(tday) = 4 /\ ~ Sent(WeeklyStage)
    [] stage = SignalStage -> signal /\ ~ TooSoon

(* The next stage that has something to send, 0 when there is none. *)
NextDue(stage, signal) ==
  LET due == {s \in Stages : s > stage /\ Due(s, signal)}
  IN  IF due = {} THEN 0 ELSE CHOOSE s \in due : \A r \in due : s <= r

TInit ==
  /\ tday = TFirstDay /\ ttick = Night
  /\ tsleep = NextWakeTarget(TFirstDay, Night) /\ tran = FALSE
  /\ tbroker = TRUE /\ tsession = 0 /\ ttoken = 0
  /\ talerts = [k \in Kinds |-> 0] /\ tsignal = 0
  /\ tpc = 0 /\ tfaults = 0
  /\ thist = [sent |-> [s \in Stages |-> 0], signal |-> 0, died |-> FALSE,
              faulty |-> FALSE, restarted |-> 0, stale |-> FALSE]

TFault(kind) == /\ kind \in TFaults /\ tfaults < MaxTFaults
                /\ tfaults' = tfaults + 1

Awake == tpc = 0 /\ Time >= tsleep

-----------------------------------------------------------------------------
(* The login at the start of a trading day. *)
AuthDue == /\ ttick = TPreOpen /\ tday \notin Holidays
           /\ tbroker /\ ~ Sent(Auth)

LogIn == /\ tbroker' = TRUE /\ tsession' = tday /\ ttoken' = tday
         /\ UNCHANGED <<tfaults, thist>>

LoginFails == /\ IF MayLogIn THEN TFault("login") ELSE UNCHANGED tfaults
              /\ tbroker' = FALSE
              /\ thist' = [thist EXCEPT !.faulty = TRUE]
              /\ UNCHANGED <<tsession, ttoken>>

\* Mutant: the session of an earlier day is taken for one.
AuthenticatedOnce == tsession # 0

Authenticated == tsession = tday

MorningAuth ==
  /\ Awake /\ AuthDue
  /\ \/ /\ Authenticated
        /\ UNCHANGED <<tbroker, tsession, ttoken, tfaults, thist>>
     \/ /\ ~ Authenticated /\ MayLogIn /\ LogIn
     \/ /\ ~ Authenticated /\ LoginFails
  /\ talerts' = [talerts EXCEPT ![Auth] = tday]
  /\ UNCHANGED <<tday, ttick, tsleep, tran, tsignal, tpc>>

(* The user answers a login alert through the bot: the token file is written. *)
TokenCommand ==
  /\ ttoken # tday /\ "login" \in TFaults
  /\ ttoken' = tday
  /\ UNCHANGED <<tday, ttick, tsleep, tran, tbroker, tsession, talerts, tsignal, tpc,
                 tfaults, thist>>

-----------------------------------------------------------------------------
(* A refresh that yields data goes on to the dispatch. *)
Dispatches == \E signal \in BOOLEAN : tpc' = NextDue(0, signal)

Unfed == /\ TFault("nodata") /\ UNCHANGED tpc
         /\ thist' = [thist EXCEPT !.faulty = TRUE]

PreOpenDue == ttick = TPreOpen /\ ~ Sent(PreOpenStage) /\ ~ Sent(HolidayStage)

PreOpenBriefing ==
  /\ Awake /\ ~ AuthDue /\ PreOpenDue
  /\ \/ Dispatches /\ UNCHANGED <<tfaults, thist>>
     \/ tday \notin Holidays /\ Unfed
  /\ tran' = TRUE
  /\ tsleep' = IF tday \in Holidays THEN NextWakeTarget(tday, ttick) ELSE tsleep
  /\ UNCHANGED <<tday, ttick, tbroker, tsession, ttoken, talerts, tsignal>>

EodDue == ttick = Eod /\ Tradable(tday) /\ ~ Sent(EodStage)

EodBriefing ==
  /\ Awake /\ EodDue
  /\ \/ Dispatches /\ UNCHANGED <<tfaults, thist>>
     \/ Unfed
  /\ tran' = TRUE
  /\ UNCHANGED <<tday, ttick, tsleep, tbroker, tsession, ttoken, talerts, tsignal>>

SleepUntilOpen ==
  /\ Awake /\ ~ AuthDue /\ ~ PreOpenDue /\ ~ EodDue /\ ~ MarketOpen
  /\ tsleep' = NextWakeTarget(tday, ttick)
  /\ UNCHANGED <<tday, ttick, tran, tbroker, tsession, ttoken, talerts, tsignal, tpc,
                 tfaults, thist>>

(* The session's refresh, with the broker if there is one. *)
SessionRefresh ==
  /\ Awake /\ MarketOpen
  /\ \/ /\ Dispatches /\ UNCHANGED tfaults
        /\ thist' = [thist EXCEPT !.stale = @ \/ (tbroker /\ tsession # tday)]
     \/ Unfed
  /\ tran' = TRUE
  /\ UNCHANGED <<tday, ttick, tsleep, tbroker, tsession, ttoken, talerts, tsignal>>

-----------------------------------------------------------------------------
(* One alert.  A week without trades has no digest, and is marked anyway.  A
   send that fails twice is logged and marked all the same. *)
SendCycleAlert ==
  /\ tpc \in Stages
  /\ \/ /\ thist' = [thist EXCEPT !.sent[tpc] = @ + 1,
                       !.signal = IF tpc = SignalStage THEN Time ELSE @]
        /\ UNCHANGED tfaults
     \/ tpc = WeeklyStage /\ UNCHANGED <<tfaults, thist>>
     \/ TFault("drop") /\ thist' = [thist EXCEPT !.faulty = TRUE]
  /\ tpc' = tpc + 10
  /\ UNCHANGED <<tday, ttick, tsleep, tran, tbroker, tsession, ttoken, talerts, tsignal>>

(* The holiday notice stands for every scheduled alert of the day. *)
Marks(stage) == IF stage = HolidayStage
                THEN {HolidayStage, PreOpenStage, PostOpenStage, EodStage} ELSE {stage}

MarkSent ==
  /\ tpc > 10
  /\ LET stage == tpc - 10
     IN  /\ talerts' = [k \in Kinds |-> IF k \in Marks(stage) THEN tday ELSE talerts[k]]
         /\ tsignal' = IF stage = SignalStage THEN Time ELSE tsignal
         /\ \E signal \in BOOLEAN :
               tpc' = IF stage = HolidayStage THEN 0 ELSE NextDue(stage, signal)
  /\ UNCHANGED <<tday, ttick, tsleep, tran, tbroker, tsession, ttoken, tfaults, thist>>

(* An exception while an alert is formatted ends the dispatch. *)
DispatchRaises ==
  /\ tpc \in Stages /\ TFault("raise")
  /\ tpc' = 0
  /\ thist' = [thist EXCEPT !.faulty = TRUE]
  /\ UNCHANGED <<tday, ttick, tsleep, tran, tbroker, tsession, ttoken, talerts, tsignal>>

-----------------------------------------------------------------------------
(* The service is killed and started again: AlertLog keeps the marks of today,
   the token file's session is loaded, and a login is tried. *)
TRestart ==
  /\ TFault("crash")
  /\ thist' = [thist EXCEPT !.died = @ \/ tpc > 10, !.faulty = TRUE, !.restarted = tday]
  /\ \/ /\ ttoken = tday
        /\ tbroker' = TRUE /\ tsession' = tday /\ UNCHANGED ttoken
     \/ /\ ttoken # tday /\ MayLogIn
        /\ tbroker' = TRUE /\ tsession' = tday /\ ttoken' = tday
     \/ /\ ttoken # tday
        /\ tbroker' = FALSE /\ tsession' = 0 /\ UNCHANGED ttoken
  /\ talerts' = [k \in Kinds |-> IF talerts[k] = tday THEN tday ELSE 0]
  /\ tsignal' = IF tsignal \div 8 = tday THEN tsignal ELSE 0
  /\ tsleep' = Time /\ tran' = FALSE /\ tpc' = 0
  /\ UNCHANGED <<tday, ttick>>

(* The loop runs every few minutes: a part of the day does not pass while it has
   something to do there, unless a fault kept it from doing it. *)
Idle == /\ tpc = 0
        /\ \/ Time < tsleep
           \/ /\ ~ AuthDue
              /\ tran /\ (thist.faulty \/ ~ (PreOpenDue \/ EodDue)) /\ MarketOpen
           \/ /\ ~ AuthDue /\ ~ MarketOpen /\ tran /\ thist.faulty

TickPasses ==
  /\ Idle
  /\ IF ttick < Evening
     THEN /\ ttick' = ttick + 1 /\ UNCHANGED <<tday, thist>>
     ELSE /\ tday < TLastDay
          /\ tday' = tday + 1 /\ ttick' = Night
          /\ thist' = [thist EXCEPT !.sent = [s \in Stages |-> 0], !.died = FALSE,
                                    !.faulty = FALSE]
  /\ tran' = FALSE
  /\ UNCHANGED <<tsleep, tbroker, tsession, ttoken, talerts, tsignal, tpc, tfaults>>

TNext == \/ MorningAuth \/ TokenCommand
         \/ PreOpenBriefing \/ EodBriefing \/ SleepUntilOpen \/ SessionRefresh
         \/ SendCycleAlert \/ MarkSent \/ DispatchRaises
         \/ TRestart \/ TickPasses

TSpec == TInit /\ [][TNext]_tVars

-----------------------------------------------------------------------------
TTypeOK ==
  /\ tday \in TFirstDay .. TLastDay /\ ttick \in Night .. Evening
  /\ tsleep \in Nat /\ tran \in BOOLEAN /\ tbroker \in BOOLEAN
  /\ tsession \in 0 .. tday /\ ttoken \in 0 .. tday
  /\ talerts \in [Kinds -> 0 .. tday] /\ tsignal \in 0 .. Time
  /\ tpc \in {0} \cup Stages \cup {10 + s : s \in Stages}
  /\ tfaults \in 0 .. MaxTFaults

(* No scheduled alert goes out twice on a day, whatever restarts or raises,
   unless the process died between sending and marking one ("a deploy at 09:10
   can't re-send the pre-open briefing"). *)
BriefedOnce ==
  ~ thist.died => \A s \in Stages \ {SignalStage} : thist.sent[s] <= 1

(* An exchange holiday brings its notice and nothing else ("no further alerts
   on holidays"). *)
HolidayIsQuiet ==
  tday \in Holidays =>
    \A s \in Stages \ {HolidayStage} : thist.sent[s] = 0

(* On a trading day without faults the three briefings have gone out by the
   evening, and on a Friday the week has been looked at. *)
TradingDayIsReported ==
  ttick = Evening /\ Tradable(tday) /\ ~ thist.faulty =>
    /\ \A s \in {PreOpenStage, PostOpenStage, EodStage} : thist.sent[s] = 1
    /\ TWeekday(tday) = 4 => Sent(WeeklyStage)

(* Two signals are a cooldown apart, across restarts too ("a mid-day service
   restart (crash/deploy) cannot re-fire the same alert"). *)
SignalsAreSpaced ==
  [][thist'.signal # thist.signal /\ ~ thist.died =>
       Time - thist.signal >= Cooldown]_tVars

(* No refresh hands the strategies a broker whose session is of an earlier
   day. *)
OrdersNeedTodaysLogin == ~ thist.stale

(* "Re-authenticate Kite at the start of each trading day"
   (main_headless.py:750). *)
EachTradingDayLogsIn ==
  Tradable(tday) /\ ttick >= Morning /\ thist.restarted # tday => Sent(Auth)

(* The tracker tells each day once and trades it on that day's login. *)
TrackerTellsTheDay ==
  /\ [](/\ TTypeOK
        /\ BriefedOnce
        /\ HolidayIsQuiet
        /\ TradingDayIsReported
        /\ OrdersNeedTodaysLogin)
  /\ SignalsAreSpaced
=============================================================================
