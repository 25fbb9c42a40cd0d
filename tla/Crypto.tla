------------------------------- MODULE Crypto -------------------------------
(***************************************************************************)
(* The crypto tracker (src/apps/crypto_headless.py): briefings, signal and  *)
(* portfolio alerts deduplicated through a file, and the forward outcomes  *)
(* of the alerts (src/src/crypto/outcomes.py).  Time is counted in passes   *)
(* of the loop; what the market data says in a pass is an input.           *)
(***************************************************************************)
EXTENDS Integers, Sequences, FiniteSets

CONSTANTS
  Coins,
  CPassesPerDay, MorningPasses, EveningPasses,  \* passes inside the windows
  LastCPass,         \* the model ends there
  SignalCooldown,    \* passes
  MaxAge,            \* age in passes at which a restart drops a mark
  CPrices,           \* prices in USD
  Readings,          \* what signals and portfolio say of a coin
  CHorizons, Delta, Threshold,   \* maturity in passes, percent
  MaxCRows,          \* rows of crypto.db, a bound of the model
  CFaults, MaxCFaults

Signals == {"Strong Buy", "Buy", "Hold", "Sell", "Strong Sell"}

ASSUME CryptoAssumption ==
  /\ IsFiniteSet(Coins)
  /\ CPassesPerDay \in Nat \ {0} /\ LastCPass \in Nat
  /\ MorningPasses \cup EveningPasses \subseteq 0 .. CPassesPerDay - 1
  /\ MaxAge \in Nat /\ MaxAge >= CPassesPerDay
  /\ SignalCooldown \in Nat /\ MaxAge >= SignalCooldown
  /\ CPrices \subseteq Nat /\ CPrices # {}
  /\ Readings \subseteq [signal : Signals, rsi : Int, pnl : Int, gap : Int] /\ Readings # {}
  /\ \A h \in CHorizons : Delta[h] \in Nat \ {0} /\ Threshold[h] \in Nat
  /\ MaxCRows \in Nat /\ MaxCFaults \in Nat

VARIABLES
  cpass, cphase,   \* pass of the loop; "wake", "work" or "sleep"
  cprice,          \* this pass's quotes
  creading,        \* this pass's signals
  cwork,           \* the messages this pass has yet to send
  cdoing,          \* what is left to do for the one it sent last
  cmarks,          \* crypto_alerts_sent.json: key -> pass of the mark + 1
  crows,           \* crypto.db: signals with their outcomes
  cfaults,
  chist            \* history, for the properties only

cVars == <<cpass, cphase, cprice, creading, cwork, cdoing, cmarks, crows, cfaults, chist>>

AnyCoin == "any"
Key(kind, coin) == [kind |-> kind, coin |-> coin]
Keys == {Key(k, AnyCoin) : k \in {"morning", "evening"}}
          \cup {Key(k, c) : k \in {"signal", "book", "dip"}, c \in Coins}

CDay(p) == p \div CPassesPerDay
Part == cpass % CPassesPerDay
InWindow == Part \in MorningPasses \cup EveningPasses

\* What follows a message: a signal alert is recorded, then every one is marked.
Task(what, k) == [do |-> what, key |-> k]
NoTask == Task("nothing", Key("morning", AnyCoin))

NoOutcomes == [h \in CHorizons |-> "none"]

CInit ==
  /\ cpass = 0 /\ cphase = "wake" /\ cwork = {} /\ cdoing = NoTask
  /\ cprice = [c \in Coins |-> CHOOSE p \in CPrices : TRUE]
  /\ creading = [c \in Coins |-> CHOOSE r \in Readings : TRUE]
  /\ cmarks = [k \in Keys |-> 0] /\ crows = <<>> /\ cfaults = 0
  /\ chist = [sent |-> [k \in Keys |-> 0], alerts |-> [c \in Coins |-> 0], torn |-> FALSE]

CFault(kind) == /\ kind \in CFaults /\ cfaults < MaxCFaults
                /\ cfaults' = cfaults + 1

-----------------------------------------------------------------------------
(* signals.is_alert_worthy. *)
AlertWorthy(r) == r.rsi < 35 \/ r.rsi > 68 \/ r.signal \in {"Strong Buy", "Strong Sell"}

\* Mutant: the recorder's own oversold level.
DirectionAt30(r) ==
  IF r.signal = "Strong Buy" THEN 1 ELSE IF r.signal = "Strong Sell" THEN -1
  ELSE IF r.rsi < 30 THEN 1 ELSE IF r.rsi > 68 THEN -1 ELSE 0

(* outcomes.classify_alert: what the alert expects of the price, 0 when it is
   none to record. *)
Direction(r) ==
  IF r.signal = "Strong Buy" THEN 1 ELSE IF r.signal = "Strong Sell" THEN -1
  ELSE IF r.rsi < 35 THEN 1 ELSE IF r.rsi > 68 THEN -1 ELSE 0

(* portfolio.should_book_profit and dip_level. *)
BookProfit(r) == \/ r.pnl >= 30
                 \/ r.pnl >= 20 /\ (r.rsi >= 65 \/ r.signal \in {"Sell", "Strong Sell"})
Dip(r) == r.gap <= -5

MarkedToday(k) == cmarks[k] > 0 /\ CDay(cmarks[k] - 1) = CDay(cpass)

CooledDown(k) == cmarks[k] = 0 \/ cpass + 1 - cmarks[k] >= SignalCooldown

CDue(k, readings) ==
  \/ k.kind = "morning" /\ Part \in MorningPasses
  \/ k.kind = "evening" /\ Part \in EveningPasses
  \/ /\ ~ InWindow
     /\ \/ k.kind = "signal" /\ AlertWorthy(readings[k.coin])
        \/ k.kind = "book" /\ BookProfit(readings[k.coin])
        \/ k.kind = "dip" /\ Dip(readings[k.coin])

Wanted(readings) ==
  {k \in Keys : /\ CDue(k, readings)
                /\ IF k.kind = "signal" THEN CooledDown(k) ELSE ~ MarkedToday(k)}
SignalsOf(keys) == {k \in keys : k.kind = "signal"}

(* The order of the loop: the briefings, the signal alerts, the position's.  A
   mark only concerns its own key, so what is wanted can be told at the start. *)
Turn(k) == IF k.kind \in {"morning", "evening"} THEN 0 ELSE IF k.kind = "signal" THEN 1 ELSE 2
NextKey(keys) == CHOOSE k \in keys : \A l \in keys : Turn(k) <= Turn(l)

(* outcomes.evaluate_due, one row. *)
Verdict(row, h, price) ==
  LET signed == row.direction * (price - row.price) * 100
  IN  IF signed >= Threshold[h] * row.price THEN "WIN"
      ELSE IF signed <= -(Threshold[h] * row.price) THEN "LOSS" ELSE "NEUTRAL"

Booked(row, prices) ==
  [row EXCEPT !.outcome = [h \in CHorizons |->
     IF row.outcome[h] = "none" /\ cpass >= row.at + Delta[h]
     THEN Verdict(row, h, prices[row.coin])
     ELSE row.outcome[h]]]

(* The start of a pass: quotes and signals of every coin, the matured outcomes,
   then the messages.  Without the data of one coin the pass does nothing. *)
StartPass ==
  /\ cphase = "wake"
  /\ \/ \E prices \in [Coins -> CPrices], readings \in [Coins -> Readings] :
          /\ cprice' = prices /\ creading' = readings
          /\ crows' = [i \in DOMAIN crows |-> Booked(crows[i], prices)]
          /\ cwork' = Wanted(readings)
          /\ Len(crows) + Cardinality(SignalsOf(Wanted(readings))) <= MaxCRows
          /\ cphase' = "work"
          /\ UNCHANGED cfaults
     \/ /\ CFault("nodata") /\ cphase' = "sleep"
        /\ UNCHANGED <<cprice, creading, crows, cwork>>
  /\ UNCHANGED <<cpass, cdoing, cmarks, chist>>

Doing(what) == cphase = "work" /\ cdoing.do = what

AlertsTo(c, k) == IF k = Key("signal", c) THEN 1 ELSE 0

SendMessage ==
  /\ Doing("nothing") /\ cwork # {}
  /\ LET k == NextKey(cwork)
     IN  /\ \/ /\ UNCHANGED cfaults
               /\ chist' = [sent |-> [chist.sent EXCEPT ![k] = cpass + 1],
                            alerts |-> [c \in Coins |-> chist.alerts[c] + AlertsTo(c, k)],
                            torn |-> chist.torn]
            \/ CFault("drop") /\ UNCHANGED chist
         /\ cwork' = cwork \ {k}
         /\ cdoing' = Task(IF k.kind = "signal" THEN "record" ELSE "mark", k)
  /\ UNCHANGED <<cpass, cphase, cprice, creading, cmarks, crows>>

(* outcomes.record_alert: it logs and goes on when the database fails. *)
RecordAlert ==
  /\ Doing("record")
  /\ LET coin == cdoing.key.coin
     IN  \/ /\ UNCHANGED <<cfaults, chist>>
            /\ crows' = IF Direction(creading[coin]) = 0 THEN crows
                        ELSE Append(crows, [coin |-> coin, at |-> cpass,
                                            direction |-> Direction(creading[coin]),
                                            price |-> cprice[coin], outcome |-> NoOutcomes])
         \/ CFault("database") /\ UNCHANGED crows
            /\ chist' = [chist EXCEPT !.torn = TRUE]
  /\ cdoing' = Task("mark", cdoing.key)
  /\ UNCHANGED <<cpass, cphase, cprice, creading, cwork, cmarks>>

MarkMessage ==
  /\ Doing("mark")
  /\ cmarks' = [cmarks EXCEPT ![cdoing.key] = cpass + 1]
  /\ cdoing' = NoTask
  /\ UNCHANGED <<cpass, cphase, cprice, creading, cwork, crows, cfaults, chist>>

EndPass ==
  /\ Doing("nothing") /\ cwork = {}
  /\ cphase' = "sleep"
  /\ UNCHANGED <<cpass, cprice, creading, cwork, cdoing, cmarks, crows, cfaults, chist>>

NextCPass ==
  /\ cphase = "sleep" /\ cpass < LastCPass
  /\ cpass' = cpass + 1 /\ cphase' = "wake"
  /\ UNCHANGED <<cprice, creading, cwork, cdoing, cmarks, crows, cfaults, chist>>

(* AlertLog drops the marks older than a day when it loads the file. *)
Kept(m) == IF cpass + 1 - m < MaxAge THEN m ELSE 0

(* Nothing catches an exception in this loop: it ends the process as a kill
   does, and the service is started again. *)
CRestart ==
  /\ CFault("crash")
  /\ cphase' = "wake" /\ cwork' = {} /\ cdoing' = NoTask
  /\ cmarks' = [k \in Keys |-> Kept(cmarks[k])]
  /\ chist' = [chist EXCEPT !.torn = @ \/ Doing("record") \/ Doing("mark")]
  /\ UNCHANGED <<cpass, cprice, creading, crows>>

CNext == \/ StartPass \/ SendMessage \/ RecordAlert \/ MarkMessage \/ EndPass
         \/ NextCPass \/ CRestart

CSpec == CInit /\ [][CNext]_cVars

-----------------------------------------------------------------------------
CRows ==
  [coin : Coins, at : 0 .. cpass, direction : {-1, 1}, price : CPrices,
   outcome : [CHorizons -> {"none", "WIN", "LOSS", "NEUTRAL"}]]

CTypeOK ==
  /\ cpass \in 0 .. LastCPass /\ cphase \in {"wake", "work", "sleep"}
  /\ cprice \in [Coins -> CPrices] /\ creading \in [Coins -> Readings]
  /\ cwork \subseteq Keys /\ cdoing \in [do : {"nothing", "record", "mark"}, key : Keys]
  /\ cmarks \in [Keys -> 0 .. cpass + 1]
  /\ crows \in Seq(CRows) /\ Len(crows) <= MaxCRows /\ cfaults \in 0 .. MaxCFaults

(* The message of k goes out in this step. *)
GoesOut(k) == k \in cwork \ cwork' /\ cfaults' = cfaults

(* "A mid-day restart/deploy can no longer re-send briefings": a key of a day is
   sent once on that day, unless the process died between sending and marking. *)
SentOncePerDay ==
  [][\A k \in Keys :
       k.kind # "signal" /\ ~ chist.torn /\ GoesOut(k) /\ chist.sent[k] > 0
       => CDay(chist.sent[k] - 1) # CDay(cpass)]_cVars

(* ... nor "reset the 4h signal cooldown": two signal alerts of a coin are a
   cooldown apart, over midnight and over restarts. *)
CoinAlertsAreSpaced ==
  [][\A c \in Coins : LET k == Key("signal", c) IN
       ~ chist.torn /\ GoesOut(k) /\ chist.sent[k] > 0
       => cpass + 1 - chist.sent[k] >= SignalCooldown]_cVars

(* "Every fired alert is recorded and scored": after a pass each coin has a row
   for every alert that was sent; the recorder's triggers mirror the alert's. *)
EveryAlertHasItsRow ==
  cphase = "sleep" /\ ~ chist.torn =>
    \A c \in Coins :
      Cardinality({i \in DOMAIN crows : crows[i].coin = c}) >= chist.alerts[c]

(* An outcome is booked once per horizon and stays. *)
BookedOutcomesStay ==
  [][\A i \in DOMAIN crows, h \in CHorizons :
       crows[i].outcome[h] # "none" => crows'[i].outcome[h] = crows[i].outcome[h]]_cVars

(* "A positive number always means the alert was right": a price that only fell
   since a sell alert never counts against it, and the other way round. *)
VerdictsFollowTheAlert ==
  [][\A i \in DOMAIN crows, h \in CHorizons :
       /\ crows[i].outcome[h] = "none" /\ crows'[i].outcome[h] # "none"
       => LET moved == cprice'[crows[i].coin] - crows[i].price
          IN  /\ crows'[i].outcome[h] = "WIN" => crows[i].direction * moved >= 0
              /\ crows'[i].outcome[h] = "LOSS" => crows[i].direction * moved <= 0]_cVars

(* "Evaluation lands within minutes of maturity" (outcomes.py:113): the price
   booked for a horizon is that of the pass in which it matured. *)
BookedAtMaturity ==
  [][\A i \in DOMAIN crows, h \in CHorizons :
       crows[i].outcome[h] = "none" /\ crows'[i].outcome[h] # "none"
       => cpass = crows[i].at + Delta[h]]_cVars

(* The coin tracker sends each alert once in its time, records it, and judges
   it for good in its own direction. *)
CryptoAlertsAreKept ==
  /\ [](CTypeOK /\ EveryAlertHasItsRow)
  /\ SentOncePerDay
  /\ CoinAlertsAreSpaced
  /\ BookedOutcomesStay
  /\ VerdictsFollowTheAlert
=============================================================================
