------------------------------- MODULE Radar -------------------------------
(***************************************************************************)
(* The opportunity radar's loop (src/apps/radar_headless.py), its alert     *)
(* gates (src/src/radar/dispatch.py), the signals database                 *)
(* (src/src/radar/store.py), the outcome sweep (src/src/radar/tracker.py)   *)
(* and the muting of losing combinations (src/src/radar/analytics.py).      *)
(* Time is counted in loop passes; each day ends with one after the close.  *)
(* What a scan finds and what a window's prices say are inputs.             *)
(***************************************************************************)
EXTENDS Naturals, Sequences, FiniteSets

CONSTANTS
  Combos,          \* (stock, signal type) pairs
  PassesPerDay,    \* loop passes of a day, the last one after the close
  LastPass,        \* the model ends there
  MaxPerDay, RadarCooldown, DigestGap,
  Horizon,         \* passes until an outcome matures
  MinDecided,      \* decided outcomes a verdict needs
  MaxRows,         \* rows of the database, a bound of the model
  RadarFaults, MaxRadarFaults

ASSUME RadarAssumption ==
  /\ IsFiniteSet(Combos) /\ PassesPerDay \in Nat \ {0} /\ LastPass \in Nat
  /\ MaxPerDay \in Nat /\ RadarCooldown \in Nat /\ DigestGap \in Nat
  /\ Horizon \in Nat /\ MinDecided \in Nat \ {0} /\ MaxRows \in Nat
  /\ MaxRadarFaults \in Nat

VARIABLES
  rpass,     \* number of the loop pass
  rphase,    \* "wake", "work", "sweep", "sleep"
  rgate,     \* alert_gate and mute_gate: day, sent today, last alert per combo
  rwork,     \* what is left of the cycle: alerts (and the step of the first one),
             \* muted hits, the digest
  rdigest,   \* pass of the last digest + 1, 0 for none
  rrows,     \* table signals, with the outcome of its row in outcomes
  reod,      \* last_eod_date + 1, 0 for none
  rfaults,
  rhist      \* history, for the properties only

rVars == <<rpass, rphase, rgate, rwork, rdigest, rrows, reod, rfaults, rhist>>

Outcomes == {"GAIN", "DROP", "NEUTRAL"}
Today == rpass \div PassesPerDay
AfterClose == rpass % PassesPerDay = PassesPerDay - 1

NewGate == [day |-> Today, sent |-> 0, last |-> [c \in Combos |-> 0]]

NoWork == [alerts |-> <<>>, step |-> 1, shadow |-> <<>>, digest |-> FALSE]

RInit ==
  /\ rpass = 0 /\ rphase = "wake"
  /\ rgate = [g \in {"alert", "mute"} |-> NewGate]
  /\ rwork = NoWork /\ rdigest = 0 /\ rrows = <<>> /\ reod = 0
  /\ rfaults = 0
  /\ rhist = [pinged |-> [c \in Combos |-> 0], pings |-> 0, eods |-> 0,
              again |-> FALSE]

RFault(kind) == /\ kind \in RadarFaults /\ rfaults < MaxRadarFaults
                /\ rfaults' = rfaults + 1

-----------------------------------------------------------------------------
(* analytics.py: the rows of a combo whose 5-day outcome is a win or a loss,
   and the sign of their mean result. *)
Decided(c, outcome) == {i \in DOMAIN rrows : rrows[i].combo = c /\ rrows[i].outcome = outcome}

Judged(c) == Cardinality(Decided(c, "GAIN")) + Cardinality(Decided(c, "DROP"))

Muted(c) == /\ Judged(c) >= MinDecided
            /\ Cardinality(Decided(c, "DROP")) > Cardinality(Decided(c, "GAIN"))

(* AlertGate._roll_day. *)
Rolled(gate) == IF gate.day = Today THEN gate ELSE [day |-> Today, sent |-> 0, last |-> gate.last]

Cooling(gate, c) == gate.last[c] > 0 /\ rpass + 1 - gate.last[c] < RadarCooldown

Spent(gate, c) ==
  [day |-> gate.day, sent |-> gate.sent + 1, last |-> [gate.last EXCEPT ![c] = rpass + 1]]

(* One turn of AlertGate.select: a hit that cools down is dropped, one beyond the
   day's budget is for the digest. *)
AfterHit(w, c) ==
  IF Cooling(w.gate, c) THEN w
  ELSE IF w.gate.sent < MaxPerDay
       THEN [gate |-> Spent(w.gate, c), kept |-> Append(w.kept, c), over |-> w.over]
       ELSE [gate |-> w.gate, kept |-> w.kept, over |-> TRUE]

(* AlertGate.select, of those hits that are wanted, best first. *)
Choose(gate, hits, wanted) ==
  LET walk[i \in 0 .. Len(hits)] ==
        IF i = 0 THEN [gate |-> Rolled(gate), kept |-> <<>>, over |-> FALSE]
        ELSE IF hits[i] \in wanted THEN AfterHit(walk[i - 1], hits[i]) ELSE walk[i - 1]
  IN  walk[Len(hits)]

(* What a scan returns above the gate: some combos, in order of confidence. *)
Scans == {hits \in UNION {[1 .. n -> Combos] : n \in 0 .. Cardinality(Combos)} :
            \A i, j \in DOMAIN hits : hits[i] = hits[j] => i = j}

\* Mutant: the message first, then the record.
SendsFirst == <<"send", "insert">>

(* What is done for each alert, in this order. *)
AlertSteps == <<"insert", "send">>

(* run_cycle up to the database: the combos split by the verdicts so far, each
   part through its own gate. *)
StartCycle ==
  /\ rphase = "wake" /\ ~ AfterClose
  /\ \E hits \in Scans :
       LET muted == {c \in Combos : Muted(c)}
           chosen == Choose(rgate["alert"], hits, Combos \ muted)
           shadow == Choose(rgate["mute"], hits, muted)
       IN  /\ Len(rrows) + Len(chosen.kept) + Len(shadow.kept) <= MaxRows
           /\ rgate' = [g \in {"alert", "mute"} |->
                          IF g = "alert" THEN chosen.gate ELSE shadow.gate]
           /\ rwork' = [alerts |-> chosen.kept, step |-> 1, shadow |-> shadow.kept,
                        digest |-> chosen.over]
  /\ rphase' = "work"
  /\ UNCHANGED <<rpass, rdigest, rrows, reod, rfaults, rhist>>

(* The alerts come first, then the muted hits, then the digest. *)
Alerting(what) == rphase = "work" /\ rwork.alerts # <<>> /\ AlertSteps[rwork.step] = what

AlertStepDone ==
  IF rwork.step = 1 THEN [rwork EXCEPT !.step = 2]
  ELSE [alerts |-> Tail(rwork.alerts), step |-> 1, shadow |-> rwork.shadow, digest |-> rwork.digest]

(* store.insert_signal, committed by itself. *)
InsertRow(c) == rrows' = Append(rrows, [combo |-> c, at |-> rpass, outcome |-> "PENDING"])

InsertSignal ==
  /\ Alerting("insert")
  /\ InsertRow(Head(rwork.alerts)) /\ rwork' = AlertStepDone
  /\ UNCHANGED <<rpass, rphase, rgate, rdigest, reod, rfaults, rhist>>

(* The message about one setup.  A send that fails twice is not tried again. *)
Pinged(c) == [pinged |-> [rhist.pinged EXCEPT ![c] = rpass + 1], pings |-> rhist.pings + 1,
              eods |-> rhist.eods, again |-> rhist.again]

SendOpportunity ==
  /\ Alerting("send")
  /\ \/ UNCHANGED rfaults /\ rhist' = Pinged(Head(rwork.alerts))
     \/ RFault("drop") /\ UNCHANGED rhist
  /\ rwork' = AlertStepDone
  /\ UNCHANGED <<rpass, rphase, rgate, rdigest, rrows, reod>>

InsertMuted ==
  /\ rphase = "work" /\ rwork.alerts = <<>> /\ rwork.shadow # <<>>
  /\ InsertRow(Head(rwork.shadow)) /\ rwork' = [rwork EXCEPT !.shadow = Tail(@)]
  /\ UNCHANGED <<rpass, rphase, rgate, rdigest, reod, rfaults, rhist>>

DigestDue == rdigest = 0 \/ rpass + 1 - rdigest >= DigestGap

SendDigest ==
  /\ rphase = "work" /\ rwork.alerts = <<>> /\ rwork.shadow = <<>> /\ rwork.digest
  /\ rdigest' = IF DigestDue THEN rpass + 1 ELSE rdigest
  /\ rwork' = NoWork
  /\ UNCHANGED <<rpass, rphase, rgate, rrows, reod, rfaults, rhist>>

EndCycle ==
  /\ rphase = "work" /\ rwork.alerts = <<>> /\ rwork.shadow = <<>> /\ ~ rwork.digest
  /\ rphase' = "sweep"
  /\ UNCHANGED <<rpass, rgate, rwork, rdigest, rrows, reod, rfaults, rhist>>

(* An exception in a cycle: the loop backs off 30 s and runs another one. *)
CycleRaises ==
  /\ rphase = "work" /\ RFault("raise")
  /\ rphase' = "wake" /\ rwork' = NoWork
  /\ UNCHANGED <<rpass, rgate, rdigest, rrows, reod, rhist>>

(* After the close, on a trading day: one summary per stock, once. *)
EodSummaries ==
  /\ rphase = "wake" /\ AfterClose
  /\ reod' = Today + 1
  /\ rhist' = IF reod = Today + 1 THEN rhist ELSE [rhist EXCEPT !.eods = @ + 1]
  /\ rphase' = "sweep"
  /\ UNCHANGED <<rpass, rgate, rwork, rdigest, rrows, rfaults>>

-----------------------------------------------------------------------------
(* store.due_outcomes. *)
IsDue(row) == row.outcome = "PENDING" /\ rpass >= row.at + Horizon

(* tracker.evaluate_due: every matured row without an outcome gets one, except
   those whose prices are not there yet. *)
EvaluateDue ==
  /\ rphase = "sweep"
  /\ LET due == {i \in DOMAIN rrows : IsDue(rrows[i])}
     IN  \/ /\ \E found \in [due -> Outcomes] :
                 rrows' = [i \in DOMAIN rrows |->
                             IF i \in due THEN [rrows[i] EXCEPT !.outcome = found[i]]
                             ELSE rrows[i]]
            /\ UNCHANGED rfaults
         \/ /\ due # {} /\ rpass < LastPass /\ RFault("lag")
            /\ UNCHANGED rrows
  /\ rphase' = "sleep"
  /\ UNCHANGED <<rpass, rgate, rwork, rdigest, reod, rhist>>

(* The loop sleeps until its next pass; after the close, until the next open. *)
NextPass ==
  /\ rphase = "sleep" /\ rpass < LastPass
  /\ rpass' = rpass + 1 /\ rphase' = "wake"
  /\ rhist' = IF AfterClose
              THEN [pinged |-> rhist.pinged, pings |-> 0, eods |-> 0, again |-> FALSE]
              ELSE rhist
  /\ UNCHANGED <<rgate, rwork, rdigest, rrows, reod, rfaults>>

(* The process is killed and started again: the gates, the digest's time and
   last_eod_date were in memory. *)
RadarRestarts ==
  /\ RFault("crash")
  /\ rgate' = [g \in {"alert", "mute"} |-> NewGate]
  /\ rphase' = "wake" /\ rwork' = NoWork /\ rdigest' = 0 /\ reod' = 0
  /\ rhist' = [pinged |-> [c \in Combos |-> 0], pings |-> rhist.pings, eods |-> rhist.eods,
               again |-> TRUE]
  /\ UNCHANGED <<rpass, rrows>>

RNext == \/ StartCycle \/ InsertSignal \/ SendOpportunity \/ InsertMuted \/ SendDigest
         \/ EndCycle \/ CycleRaises \/ EodSummaries
         \/ EvaluateDue \/ NextPass \/ RadarRestarts

(* The loop keeps running: main catches what a pass raises. *)
RadarLoop == StartCycle \/ InsertSignal \/ SendOpportunity \/ InsertMuted \/ SendDigest
             \/ EndCycle \/ EodSummaries \/ EvaluateDue \/ NextPass

RadarFairness == WF_rVars(RadarLoop)

RSpec == RInit /\ [][RNext]_rVars /\ RadarFairness

-----------------------------------------------------------------------------
RTypeOK ==
  /\ rpass \in 0 .. LastPass /\ rphase \in {"wake", "work", "sweep", "sleep"}
  /\ \A g \in {"alert", "mute"} :
       /\ rgate[g].sent \in 0 .. MaxPerDay
       /\ rgate[g].last \in [Combos -> 0 .. LastPass + 1]
  /\ rwork.step \in {1, 2} /\ rwork.digest \in BOOLEAN
  /\ \A i \in DOMAIN rwork.alerts : rwork.alerts[i] \in Combos
  /\ \A i \in DOMAIN rwork.shadow : rwork.shadow[i] \in Combos
  /\ rdigest \in 0 .. LastPass + 1 /\ reod \in 0 .. Today + 1
  /\ Len(rrows) <= MaxRows
  /\ \A i \in DOMAIN rrows : rrows[i].outcome \in Outcomes \cup {"PENDING"}
  /\ rfaults \in 0 .. MaxRadarFaults

(* A scan "can never flood the channel": one process sends at most its budget
   of opportunities a day, and one round of summaries. *)
ChannelIsNotFlooded ==
  ~ rhist.again => rhist.pings <= MaxPerDay /\ rhist.eods <= 1

(* One process does not repeat a combo's alert within the cooldown, whatever
   is muted and unmuted in between. *)
PingsAreSpaced ==
  [][\A c \in Combos :
       /\ rhist'.pinged[c] # rhist.pinged[c] /\ rhist.pinged[c] > 0 /\ rhist'.pinged[c] > 0
       => rhist'.pinged[c] - rhist.pinged[c] >= RadarCooldown]_rVars

(* "Every fired signal" is persisted: what the user was told of has a row of
   that pass, even when the cycle dies half-way. *)
AlertsAreRecorded ==
  \A c \in Combos :
    rhist.pinged[c] > 0 =>
      \E i \in DOMAIN rrows : rrows[i].combo = c /\ rrows[i].at = rhist.pinged[c] - 1

(* An outcome, once recorded, is not changed by a later sweep. *)
OutcomesAreFinal ==
  [][\A i \in DOMAIN rrows :
       rrows[i].outcome # "PENDING" => rrows'[i] = rrows[i]]_rVars

(* Every row that has matured is judged in the end: raised cycles, prices that
   come late and restarts delay the sweep and do not lose it. *)
EveryRowIsJudged ==
  \A n \in 1 .. MaxRows :
    (Len(rrows) >= n /\ IsDue(rrows[n]))
      ~> (Len(rrows) >= n /\ rrows[n].outcome # "PENDING")

(* Digests of one process are DigestGap apart. *)
DigestsAreThrottled ==
  [][rdigest' > rdigest /\ rdigest > 0 => rdigest' - rdigest >= DigestGap]_rVars

(* "same cooldown, no Telegram ... without duplicate rows"
   (radar_headless.py:143): one process records a combo at most once in a
   cooldown. *)
NoDuplicateRows ==
  \A i, j \in DOMAIN rrows :
    /\ i < j /\ rrows[i].combo = rrows[j].combo
    => rrows[j].at - rrows[i].at >= RadarCooldown

(* The radar keeps what it alerts: every alert has a row, every row is judged
   once, and the channel is not flooded. *)
RadarAlertsAreKept ==
  /\ [](RTypeOK /\ ChannelIsNotFlooded /\ AlertsAreRecorded)
  /\ PingsAreSpaced
  /\ OutcomesAreFinal
  /\ DigestsAreThrottled
  /\ EveryRowIsJudged
=============================================================================
