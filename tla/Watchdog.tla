------------------------------ MODULE Watchdog ------------------------------
(***************************************************************************)
(* The heartbeats of the tracker and of the command bot, and the watchdog   *)
(* that a timer runs beside them: one tick is the timer's five minutes.     *)
(* (src/apps/watchdog.py, src/src/shared/heartbeat.py and the loops that    *)
(* beat: src/apps/main_headless.py, src/src/notify/telegram_bot.py.)        *)
(***************************************************************************)
EXTENDS Integers, FiniteSets

CONSTANTS
  PreOpenTick, OpenTick, CloseTick,  \* 9:00, 9:15 and 15:30 of a trading day
  LastTick,                          \* a bound of the model
  StaleTicks,                        \* WATCHDOG_STALE_SECONDS
  MaxStalls                          \* faults, a bound of the model

ASSUME WatchdogAssumption ==
  /\ {PreOpenTick, OpenTick, CloseTick, LastTick, StaleTicks, MaxStalls} \subseteq Nat
  /\ PreOpenTick < OpenTick /\ OpenTick < CloseTick /\ CloseTick <= LastTick
  /\ StaleTicks > 0 /\ OpenTick - PreOpenTick <= StaleTicks

VARIABLES
  wTick,      \* ticks since midnight
  wLoop,      \* "works", "spins" (each pass raises), "wedged" or "absent"
  wBeat,      \* tick of the last heartbeat on file, or NoBeat
  wPassed,    \* the loops that had their turn in this tick
  wWatched,   \* the timer fired in this tick
  wAlarms,    \* the components alarmed in this tick
  wDown,      \* the tick a loop stopped working
  wStalls

wVars == <<wTick, wLoop, wBeat, wPassed, wWatched, wAlarms, wDown, wStalls>>

Components == {"tracker", "bot"}
Required == {"tracker"}
NoBeat == -1000
Yesterday == -100

WInit ==
  /\ wTick = 0 /\ wStalls = 0
  /\ wLoop = [c \in Components |-> "works"]
  /\ wBeat = [c \in Components |-> IF c = "tracker" THEN Yesterday ELSE NoBeat]
  /\ wDown = [c \in Components |-> 0]
  /\ wPassed = {} /\ wWatched = FALSE /\ wAlarms = {}

InHours(t) == OpenTick <= t /\ t <= CloseTick

\* Mutant: the tracker sleeps through the pre-open.
AwakeFromTheOpen(c, t) == c = "bot" \/ InHours(t)

(* The bot polls all the time.  The tracker wakes for the pre-open, then sleeps
   until the open, and sleeps again after the close. *)
AwakeAt(c, t) == c = "bot" \/ t = PreOpenTick \/ InHours(t)

(* One turn of a loop: it beats before it works, so a pass that raises has
   beaten as well. *)
LoopPass(c) ==
  /\ c \notin wPassed
  /\ wPassed' = wPassed \cup {c}
  /\ IF wLoop[c] \in {"works", "spins"} /\ AwakeAt(c, wTick)
     THEN wBeat' = [wBeat EXCEPT ![c] = wTick]
     ELSE UNCHANGED wBeat
  /\ UNCHANGED <<wTick, wLoop, wWatched, wAlarms, wDown, wStalls>>

(* watchdog.evaluate. *)
Alarmed(c) ==
  /\ InHours(wTick)
  /\ IF wBeat[c] = NoBeat THEN c \in Required ELSE wTick - wBeat[c] > StaleTicks

(* watchdog.main: both are judged, each alarm is sent on its own,
   and again at the next firing. *)
WatchdogRuns ==
  /\ ~ wWatched /\ wWatched' = TRUE
  /\ wAlarms' = {c \in Components : Alarmed(c)}
  /\ UNCHANGED <<wTick, wLoop, wBeat, wPassed, wDown, wStalls>>

WTickPasses ==
  /\ wWatched /\ wPassed = Components /\ wTick < LastTick
  /\ wTick' = wTick + 1 /\ wPassed' = {} /\ wWatched' = FALSE /\ wAlarms' = {}
  /\ UNCHANGED <<wLoop, wBeat, wDown, wStalls>>

(* A loop that hangs, that raises on each pass, or a service that is down;
   systemd or a hand sets it going again. *)
Stalls(c) ==
  /\ wStalls < MaxStalls /\ wStalls' = wStalls + 1
  /\ wLoop[c] = "works"
  /\ \E s \in {"spins", "wedged", "absent"} : wLoop' = [wLoop EXCEPT ![c] = s]
  /\ wDown' = [wDown EXCEPT ![c] = wTick]
  /\ UNCHANGED <<wTick, wBeat, wPassed, wWatched, wAlarms>>

Recovers(c) ==
  /\ wLoop[c] # "works" /\ wLoop' = [wLoop EXCEPT ![c] = "works"]
  /\ UNCHANGED <<wTick, wBeat, wPassed, wWatched, wAlarms, wDown, wStalls>>

WNext ==
  \/ \E c \in Components : LoopPass(c) \/ Stalls(c) \/ Recovers(c)
  \/ WatchdogRuns \/ WTickPasses

WSpec == WInit /\ [][WNext]_wVars

-----------------------------------------------------------------------------
StoppedTooLong(c) == InHours(wTick) /\ wDown[c] + StaleTicks < wTick

(* A loop that hangs or is down is alarmed: each firing of the timer in market
   hours more than the limit after a component stopped turning raises its
   alarm, the bot's as well, once it has ever run. *)
StallIsAlarmed ==
  \A c \in Components :
    wWatched /\ wLoop[c] \in {"wedged", "absent"} /\ StoppedTooLong(c) /\ wBeat[c] # NoBeat
      => c \in wAlarms

(* "Comfortably above the refresh so a single slow cycle never trips a false
   alarm": on a day without a stall nobody is alarmed, although the tracker
   sleeps all night and once more between the pre-open and the open. *)
NoFalseAlarm == wAlarms # {} => wStalls > 0

(* The heartbeat's promise: a tracker that does no work in market hours for
   longer than the limit is alarmed, "stuck on a network read, deadlocked, or
   spinning without doing work". *)
NoWorkIsAlarmed ==
  wWatched /\ wLoop["tracker"] # "works" /\ StoppedTooLong("tracker") => "tracker" \in wAlarms

(* The watchdog alarms every stall it can see, and nothing else. *)
WatchdogTellsTheTruth ==
  /\ StallIsAlarmed
  /\ NoFalseAlarm
=============================================================================
