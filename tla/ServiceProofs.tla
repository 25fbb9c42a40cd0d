---------------------------- MODULE ServiceProofs ----------------------------
(***************************************************************************)
(* The services beside the trade.  The tracker tells each day once and      *)
(* trades it on that day's login; its watchdog alarms every stall it can    *)
(* see and nothing else; the news window counts a headline with one fetch;  *)
(* the coin tracker sends each alert once in its time, records it and       *)
(* judges it in its own direction.  For any days, feeds, prices and faults. *)
(***************************************************************************)
EXTENDS TrackerDay, Watchdog, NewsMonitor, Crypto, HitRates,
        FiniteSetTheorems, CountingTheorems

THistories == [sent : [Stages -> Nat], signal : Nat, died : BOOLEAN, faulty : BOOLEAN,
               restarted : Nat, stale : BOOLEAN]

TypesPart == /\ TTypeOK /\ thist \in THistories /\ thist.signal <= Time
             /\ tpc # 0 => ttick \in TPreOpen .. Eod

(* A day on which nothing has failed so far. *)
Sound == Tradable(tday) /\ ~ thist.faulty

(* What was sent is marked, or is about to be. *)
BriefPart ==
  /\ thist.died => thist.faulty
  /\ \A s \in 1 .. 5 : tpc = s \/ tpc = 10 + s => ~ Sent(s)
  /\ ~ thist.died => \A s \in 1 .. 5 :
        /\ thist.sent[s] <= 1
        /\ thist.sent[s] # 0 => Sent(s) \/ tpc = 10 + s

(* The notice, and it alone, is for holidays. *)
QuietPart ==
  IF tday \in Holidays
  THEN tpc \in {0, 1, 11} /\ \A s \in 2 .. 6 : thist.sent[s] = 0
  ELSE tpc \notin {1, 11} /\ ~ Sent(HolidayStage)

(* The loop does not sleep over anything a trading day asks of it. *)
SleepPart ==
  /\ \A n \in Nat : n > tday /\ Tradable(n) => tsleep <= Now(n, TPreOpen)
  /\ Tradable(tday) /\ ttick = Night => tsleep <= Now(tday, TPreOpen)
  /\ Tradable(tday) /\ AuthDue => tsleep <= Time
  /\ Sound =>
       /\ ttick = TPreOpen /\ ~ Sent(PreOpenStage) => tsleep <= Time
       /\ ttick \in TPreOpen .. Afternoon => tsleep <= Now(tday, Opening)
       /\ ttick = Eod /\ ~ Sent(EodStage) => tsleep <= Time

(* A broker that passed the morning has the session of the day. *)
LoginPart ==
  /\ tbroker /\ (Sent(Auth) \/ (Tradable(tday) /\ ttick >= Opening)) => tsession = tday
  /\ ~ thist.stale

(* On such a day each window leaves its mark, and a mark stands for a message. *)
ReportPart ==
  Sound =>
    /\ \A s \in {2, 3, 4} : Sent(s) \/ tpc = 10 + s => thist.sent[s] # 0
    /\ ttick >= Opening => Sent(PreOpenStage)
    /\ ttick = PostOpen /\ tran /\ ~ Sent(PostOpenStage) => tpc \in {3, 13}
    /\ ttick >= Morning => Sent(PostOpenStage)
    /\ Sent(EodStage) \/ tpc \in {4, 14} => ttick >= Eod
    /\ ttick = Eod /\ TWeekday(tday) = 4 /\ Sent(EodStage) /\ ~ Sent(WeeklyStage)
         => tpc \in {5, 15}
    /\ ttick = Evening => Sent(EodStage) /\ (TWeekday(tday) = 4 => Sent(WeeklyStage))

(* The file knows the last signal of the day. *)
SignalPart ==
  /\ thist.signal <= Now(tday - 1, Eod) \/ Now(tday, Night) <= thist.signal
  /\ thist.signal <= Now(tday, Eod)
  /\ ~ thist.died /\ Now(tday, Night) <= thist.signal =>
       thist.signal <= tsignal \/ tpc = 16
  /\ tpc = SignalStage => ~ TooSoon

TInv == /\ TypesPart /\ BriefPart /\ QuietPart /\ SleepPart
        /\ LoginPart /\ ReportPart /\ SignalPart

-----------------------------------------------------------------------------
(* The operators of the model: what they return. *)

LEMMA Constants ==
  /\ TFirstDay \in Nat /\ 1 <= TFirstDay /\ TLastDay \in Nat
  /\ TFirstDay <= TLastDay /\ Cooldown \in Nat /\ 1 <= Cooldown /\ Cooldown <= 3
  /\ MaxTFaults \in Nat
  BY TrackerAssumption

LEMMA FirstOfEight ==
  ASSUME NEW P, NEW d \in Nat, \E n \in d + 1 .. d + 8 : n \in P
  PROVE  \E n \in d + 1 .. d + 8 : n \in P /\ \A m \in d + 1 .. n - 1 : m \notin P
<1> DEFINE First(n) == n \in P /\ \A m \in d + 1 .. n - 1 : m \notin P
           Goal == \E n \in d + 1 .. d + 8 : First(n)
           None(k) == \A m \in d + 1 .. d + k : m \notin P
<1>1. ASSUME NEW k \in 0 .. 7, None(k), d + k + 1 \in P
      PROVE  Goal
  <2>1. First(d + k + 1)
    BY <1>1
  <2>2. d + k + 1 \in d + 1 .. d + 8
    BY <1>1
  <2> HIDE DEF First
  <2> QED  BY <2>1, <2>2
<1>2. ASSUME NEW k \in 0 .. 7, None(k), d + k + 1 \notin P
      PROVE  None(k + 1)
  <2>1. SUFFICES ASSUME NEW m \in d + 1 .. d + (k + 1) PROVE m \notin P
    OBVIOUS
  <2>2. m \in d + 1 .. d + k \/ m = d + k + 1
    BY <2>1
  <2> QED  BY <1>2, <2>2
<1>3. None(0)
  OBVIOUS
<1>4. None(8) => FALSE
  OBVIOUS
<1> HIDE DEF Goal, None
<1>5. \A k \in 0 .. 7 : None(k) /\ ~ Goal => None(k + 1)
  BY <1>1, <1>2
<1>6. ~ Goal => None(1) /\ None(2) /\ None(3) /\ None(4)
  BY <1>3, <1>5
<1>7. ~ Goal => None(5) /\ None(6) /\ None(7) /\ None(8)
  BY <1>5, <1>6
<1> QED  BY <1>4, <1>7 DEF Goal

LEMMA WakesInTime ==
  ASSUME NEW d \in TFirstDay .. TLastDay, NEW tick \in Night .. Evening
  PROVE  LET w == NextWakeTarget(d, tick)
         IN  /\ w \in Nat
             /\ Tradable(d) /\ tick = Night => w = Now(d, TPreOpen)
             /\ Tradable(d) /\ tick = TPreOpen => w = Now(d, Opening)
             /\ \A n \in Nat : n > d /\ Tradable(n) => w <= Now(n, TPreOpen)
<1>1. d \in Nat
  BY Constants
<1> DEFINE P == {n \in d + 1 .. d + 8 : Tradable(n)}
           next == CHOOSE n \in d + 1 .. d + 8 :
                     Tradable(n) /\ \A m \in d + 1 .. n - 1 : ~ Tradable(m)
<1>2. \E n \in d + 1 .. d + 8 : Tradable(n) /\ \A m \in d + 1 .. n - 1 : ~ Tradable(m)
  <2>1. \E n \in d + 1 .. d + 8 : n \in P
    BY WeekAssumption
  <2>2. \E n \in d + 1 .. d + 8 : n \in P /\ \A m \in d + 1 .. n - 1 : m \notin P
    <3> HIDE DEF P
    <3> QED  BY <1>1, <2>1, FirstOfEight
  <2>3. PICK n \in d + 1 .. d + 8 : n \in P /\ \A m \in d + 1 .. n - 1 : m \notin P
    BY <2>2
  <2>4. \A m \in d + 1 .. n - 1 : m \in d + 1 .. d + 8
    BY <1>1, <2>3
  <2> QED  BY <2>3, <2>4
<1>3. /\ next \in d + 1 .. d + 8 /\ Tradable(next)
      /\ \A m \in d + 1 .. next - 1 : ~ Tradable(m)
  BY <1>2
<1>4. NextWakeTarget(d, tick) =
        IF Tradable(d) /\ tick < Opening
        THEN IF tick >= TPreOpen THEN Now(d, Opening) ELSE Now(d, TPreOpen)
        ELSE Now(next, TPreOpen)
  BY DEF NextWakeTarget
<1> HIDE DEF next
<1>5. \A n \in Nat : n > d /\ Tradable(n) => next <= n
  <2>1. SUFFICES ASSUME NEW n \in Nat, n > d, Tradable(n) PROVE next <= n
    OBVIOUS
  <2>2. n < next => n \in d + 1 .. next - 1
    BY <1>1, <1>3, <2>1
  <2> QED  BY <1>1, <1>3, <2>1, <2>2
<1>6. CASE Tradable(d) /\ tick < Opening
  BY <1>1, <1>4, <1>6 DEF Now, Night, TPreOpen, Opening, Evening
<1>7. CASE ~ (Tradable(d) /\ tick < Opening)
  <2>1. NextWakeTarget(d, tick) = Now(next, TPreOpen)
    BY <1>4, <1>7
  <2>2. next \in Nat
    BY <1>1, <1>3
  <2>3. ~ (Tradable(d) /\ (tick = Night \/ tick = TPreOpen))
    BY <1>7 DEF Night, TPreOpen, Opening
  <2>4. \A n \in Nat : n > d /\ Tradable(n) => Now(next, TPreOpen) <= Now(n, TPreOpen)
    BY <1>5, <2>2 DEF Now, TPreOpen
  <2> QED  BY <2>1, <2>2, <2>3, <2>4 DEF Now, TPreOpen
<1> QED  BY <1>6, <1>7

(* The next stage is the first that is due. *)
LEMMA NextDueIsFirst ==
  ASSUME NEW stage \in 0 .. 6, NEW signal
  PROVE  LET n == NextDue(stage, signal)
         IN  /\ n = 0 \/ (n \in Stages /\ n > stage /\ Due(n, signal))
             /\ \A s \in Stages : s > stage /\ Due(s, signal) => n # 0 /\ n <= s
<1> DEFINE due == {s \in Stages : s > stage /\ Due(s, signal)}
           least == CHOOSE s \in due : \A r \in due : s <= r
<1>1. due \subseteq Stages
  OBVIOUS
<1>2. ASSUME due # {}
      PROVE  \E s \in due : \A r \in due : s <= r
  <2> HIDE DEF due
  <2>1. \E n \in 0 + 1 .. 0 + 8 : n \in due
    <3>1. PICK s : s \in due
      BY <1>2
    <3>2. s \in 0 + 1 .. 0 + 8
      BY <1>1, <3>1 DEF Stages
    <3> QED  BY <3>1, <3>2
  <2>2. PICK n \in 0 + 1 .. 0 + 8 : n \in due /\ \A m \in 0 + 1 .. n - 1 : m \notin due
    BY <2>1, FirstOfEight
  <2>3. \A r \in due : r \in 1 .. 6 /\ (r < n => r \in 0 + 1 .. n - 1)
    BY <1>1, <2>2 DEF Stages
  <2> QED  BY <2>2, <2>3
<1>3. NextDue(stage, signal) = IF due = {} THEN 0 ELSE least
  BY DEF NextDue
<1>4. due # {} => least \in due /\ \A r \in due : least <= r
  <2> HIDE DEF due
  <2> QED  BY <1>2
<1> HIDE DEF least
<1> QED  BY <1>3, <1>4 DEF Stages

-----------------------------------------------------------------------------
(* The parts, step by step. *)

LEMMA Numbers ==
  ASSUME TypesPart
  PROVE  /\ tday \in Nat /\ 1 <= tday /\ tday \in TFirstDay .. TLastDay
         /\ ttick \in 0 .. 7 /\ tpc \in 0 .. 16
         /\ Time \in Nat /\ Time = 8 * tday + ttick
         /\ tsleep \in Nat /\ tsignal \in Nat /\ tsignal <= Time
         /\ thist.signal \in Nat /\ thist.signal <= Time
         /\ \A s \in 1 .. 6 : thist.sent[s] \in Nat
         /\ \A k \in 1 .. 7 : talerts[k] \in 0 .. tday
         /\ tfaults \in Nat
<1>1. tday \in TFirstDay .. TLastDay /\ tday \in Nat /\ 1 <= tday
  BY Constants DEF TypesPart, TTypeOK
<1>2. ttick \in 0 .. 7 /\ tpc \in 0 .. 16
  BY DEF TypesPart, TTypeOK, Night, Evening, Stages
<1>3. Time \in Nat /\ Time = 8 * tday + ttick
  BY <1>1, <1>2 DEF Time, Now
<1>4. tsleep \in Nat /\ tsignal \in Nat /\ tsignal <= Time /\ tfaults \in Nat
  BY <1>3, Constants DEF TypesPart, TTypeOK
<1>5. thist.signal \in Nat /\ thist.signal <= Time
      /\ \A s \in 1 .. 6 : thist.sent[s] \in Nat
  BY DEF TypesPart, THistories, Stages
<1>6. \A k \in 1 .. 7 : talerts[k] \in 0 .. tday
  BY DEF TypesPart, TTypeOK, Kinds, Stages
<1> QED  BY <1>1, <1>2, <1>3, <1>4, <1>5, <1>6

LEMMA FaultTyped ==
  ASSUME TypesPart, NEW k, TFault(k) \/ UNCHANGED tfaults
  PROVE  tfaults' \in 0 .. MaxTFaults
  BY Constants DEF TypesPart, TTypeOK, TFault

LEMMA SentLater ==
  ASSUME TypesPart, tday' = tday + 1, UNCHANGED talerts
  PROVE  \A k \in Kinds : ~ Sent(k)'
<1>1. \A k \in 1 .. 7 : talerts[k] \in 0 .. tday /\ tday \in Nat
  BY Numbers
<1> QED  BY <1>1 DEF Sent, Kinds, Stages

LEMMA Faulted ==
  ASSUME thist \in THistories, thist' = [thist EXCEPT !.faulty = TRUE]
  PROVE  /\ thist' \in THistories /\ thist'.faulty /\ thist'.sent = thist.sent
         /\ thist'.signal = thist.signal /\ thist'.died = thist.died
         /\ thist'.stale = thist.stale
  BY DEF THistories

(* A step that leaves the day, the marks, the messages and the stage alone. *)
LEMMA StageRests ==
  ASSUME TInv, UNCHANGED <<tday, ttick, tsignal, tpc, thist>>,
         \A k \in 1 .. 6 : Sent(k)' = Sent(k)
  PROVE  BriefPart' /\ QuietPart' /\ SignalPart'
<1>1. UNCHANGED Time
  BY DEF Time, Now
<1>2. UNCHANGED TooSoon
  BY <1>1 DEF TooSoon
<1>3. BriefPart'
  BY DEF TInv, BriefPart
<1>4. QuietPart'
  BY DEF TInv, QuietPart, HolidayStage
<1>5. SignalPart'
  BY <1>2 DEF TInv, SignalPart, Now
<1> QED  BY <1>3, <1>4, <1>5

LEMMA AuthKeeps ==
  ASSUME TInv, MorningAuth
  PROVE  TInv'
<1>1. /\ ttick = TPreOpen /\ tday \notin Holidays /\ tbroker /\ ~ Sent(Auth) /\ tpc = 0
      /\ talerts' = [talerts EXCEPT ![Auth] = tday]
      /\ UNCHANGED <<tday, ttick, tsleep, tran, tsignal, tpc, Time>>
  BY DEF MorningAuth, Awake, AuthDue, Time, Now
<1>2. /\ thist' \in THistories /\ thist'.sent = thist.sent
      /\ thist'.signal = thist.signal /\ thist'.died = thist.died
      /\ thist'.stale = thist.stale /\ (thist.faulty => thist'.faulty)
  BY Faulted DEF MorningAuth, LogIn, LoginFails, TInv, TypesPart
<1>3. tbroker' \in BOOLEAN /\ tsession' \in 0 .. tday /\ ttoken' \in 0 .. tday
      /\ (tbroker' => tsession' = tday)
  <2>1. /\ tday \in Nat /\ tsession \in 0 .. tday /\ ttoken \in 0 .. tday
        /\ tday \in 0 .. tday
    BY Numbers DEF TInv, TypesPart, TTypeOK
  <2>2. CASE Authenticated /\ UNCHANGED <<tbroker, tsession, ttoken>>
    BY <1>1, <2>1, <2>2 DEF Authenticated
  <2>3. CASE LogIn
    BY <2>1, <2>3 DEF LogIn
  <2>4. CASE LoginFails
    BY <2>1, <2>4 DEF LoginFails
  <2> QED  BY <2>2, <2>3, <2>4 DEF MorningAuth
<1>4. talerts \in [Kinds -> 0 .. tday] /\ talerts' \in [Kinds -> 0 .. tday]
  <2>1. talerts \in [Kinds -> 0 .. tday] /\ tday \in 0 .. tday
    BY Numbers DEF TInv, TypesPart, TTypeOK
  <2> QED  BY <1>1, <2>1
<1>5. /\ \A k \in 1 .. 6 : Sent(k)' = Sent(k)
      /\ Sent(Auth)'
  BY <1>1, <1>4 DEF Sent, Kinds, Stages, Auth
<1>6. tfaults' \in 0 .. MaxTFaults
  BY FaultTyped DEF MorningAuth, LogIn, LoginFails, TInv
<1>7. TypesPart'
  BY <1>1, <1>2, <1>3, <1>4, <1>6 DEF TInv, TypesPart, TTypeOK
<1>8. BriefPart'
  BY <1>1, <1>2, <1>5 DEF TInv, BriefPart
<1>9. QuietPart'
  BY <1>1, <1>2, <1>5 DEF TInv, QuietPart, HolidayStage
<1>10. SleepPart'
  BY <1>1, <1>2, <1>5 DEF TInv, SleepPart, Sound, AuthDue, PreOpenStage, EodStage, Now,
       Tradable, TPreOpen, Opening, Night, Eod, Afternoon
<1>11. LoginPart'
  BY <1>1, <1>2, <1>3 DEF TInv, LoginPart
<1>12. ReportPart'
  BY <1>1, <1>2, <1>5 DEF TInv, ReportPart, Sound, Tradable, PreOpenStage, PostOpenStage,
       EodStage, WeeklyStage
<1>13. SignalPart'
  BY <1>1, <1>2 DEF TInv, SignalPart, Now, TooSoon
<1> QED  BY <1>7, <1>8, <1>9, <1>10, <1>11, <1>12, <1>13 DEF TInv

LEMMA DueMeans ==
  ASSUME NEW s \in 1 .. 6, NEW signal, Due(s, signal)
  PROVE  /\ s <= 5 => ~ Sent(s)
         /\ s = 6 => ~ TooSoon
         /\ s = 1 => tday \in Holidays
         /\ s = 1 \/ s = 2 => ttick = TPreOpen
         /\ s = 3 => ttick = PostOpen
         /\ s = 4 \/ s = 5 => ttick = Eod
<1> USE DEF Due, HolidayStage, PreOpenStage, PostOpenStage, EodStage, WeeklyStage,
        SignalStage
<1>1. ASSUME s = 1 PROVE ~ Sent(1) /\ tday \in Holidays /\ ttick = TPreOpen
  BY <1>1
<1>2. ASSUME s = 2 PROVE ~ Sent(2) /\ ttick = TPreOpen
  BY <1>2
<1>3. ASSUME s = 3 PROVE ~ Sent(3) /\ ttick = PostOpen
  BY <1>3
<1>4. ASSUME s = 4 PROVE ~ Sent(4) /\ ttick = Eod
  BY <1>4
<1>5. ASSUME s = 5 PROVE ~ Sent(5) /\ ttick = Eod
  BY <1>5
<1>6. ASSUME s = 6 PROVE ~ TooSoon
  BY <1>6
<1> QED  BY <1>1, <1>2, <1>3, <1>4, <1>5, <1>6

(* A refresh goes to the first stage that is due, or stops. *)
LEMMA Dispatched ==
  ASSUME TInv, tpc = 0, UNCHANGED <<tday, ttick, talerts, tsignal>>,
         thist' \in THistories, thist'.sent = thist.sent, thist'.died = thist.died,
         thist'.signal = thist.signal, thist.faulty => thist'.faulty,
         ttick \in TPreOpen .. Eod, tran' = TRUE,
         tday \in Holidays => ttick = TPreOpen /\ ~ Sent(HolidayStage),
         \/ \E signal \in BOOLEAN : tpc' = NextDue(0, signal)
         \/ tpc' = 0 /\ thist'.faulty
  PROVE  /\ tpc' \in 0 .. 6
         /\ BriefPart' /\ QuietPart' /\ ReportPart' /\ SignalPart'
<1>1. UNCHANGED <<Time, TooSoon>> /\ \A k \in 1 .. 7 : Sent(k)' = Sent(k)
  BY DEF Time, Now, TooSoon, Sent
<1>2. PICK signal \in BOOLEAN : tpc' = NextDue(0, signal) \/ (tpc' = 0 /\ thist'.faulty)
  OBVIOUS
<1>3. tpc' = 0 \/ (tpc' \in 1 .. 6 /\ Due(tpc', signal))
  BY <1>2, NextDueIsFirst DEF Stages
<1>4. /\ tpc' \in 0 .. 6
      /\ tpc' \in 1 .. 5 => ~ Sent(tpc')
      /\ tpc' = 6 => ~ TooSoon
      /\ tpc' = 1 => tday \in Holidays
      /\ tpc' = 4 => ttick = Eod
  BY <1>3, DueMeans
<1>5. BriefPart'
  BY <1>1, <1>4 DEF TInv, BriefPart
<1>6. tday \in Holidays => tpc' = 1 \/ tpc' = 0
  <2>1. SUFFICES ASSUME tday \in Holidays, tpc' = NextDue(0, signal) PROVE tpc' = 1
    BY <1>2
  <2>2. Due(1, signal)
    BY <2>1 DEF Due, HolidayStage, PreOpenStage, PostOpenStage, EodStage, WeeklyStage,
         SignalStage
  <2>3. tpc' # 0 /\ tpc' <= 1
    BY <2>1, <2>2, NextDueIsFirst DEF Stages
  <2> QED  BY <1>4, <2>3
<1>7. QuietPart'
  BY <1>1, <1>4, <1>6 DEF TInv, QuietPart, HolidayStage
<1>8. ttick = PostOpen /\ ~ Sent(PostOpenStage) /\ tpc' = NextDue(0, signal) => tpc' = 3
  <2>1. SUFFICES ASSUME ttick = PostOpen, ~ Sent(PostOpenStage), tpc' = NextDue(0, signal)
                 PROVE  tpc' = 3
    OBVIOUS
  <2>2. Due(3, signal)
    BY <2>1 DEF Due, HolidayStage, PreOpenStage, PostOpenStage, EodStage, WeeklyStage,
         SignalStage
  <2>3. tpc' # 0 /\ tpc' <= 3
    BY <2>1, <2>2, NextDueIsFirst DEF Stages
  <2>4. ~ Due(1, signal) /\ ~ Due(2, signal)
    BY <2>1, DueMeans DEF PostOpen, TPreOpen
  <2> QED  BY <1>3, <2>3, <2>4
<1>9. ReportPart'
  BY <1>1, <1>2, <1>4, <1>8 DEF TInv, ReportPart, Sound, Tradable, PreOpenStage,
     PostOpenStage, EodStage, WeeklyStage, Eod
<1>10. SignalPart'
  BY <1>1, <1>4 DEF TInv, SignalPart, SignalStage, Now
<1> QED  BY <1>4, <1>5, <1>7, <1>9, <1>10

LEMMA PreOpenKeeps ==
  ASSUME TInv, PreOpenBriefing
  PROVE  TInv'
<1>1. /\ tpc = 0 /\ ttick = TPreOpen /\ ~ AuthDue
      /\ ~ Sent(PreOpenStage) /\ ~ Sent(HolidayStage) /\ tran' = TRUE
      /\ UNCHANGED <<tday, ttick, tbroker, tsession, ttoken, talerts, tsignal>>
      /\ Time >= tsleep
  BY DEF PreOpenBriefing, PreOpenDue, Awake
<1>2. UNCHANGED Time /\ \A k \in 1 .. 7 : Sent(k)' = Sent(k)
  BY <1>1 DEF Time, Now, Sent
<1>3. /\ thist' \in THistories /\ thist'.sent = thist.sent
      /\ thist'.signal = thist.signal /\ thist'.died = thist.died
      /\ thist'.stale = thist.stale /\ (thist.faulty => thist'.faulty)
  BY Faulted DEF PreOpenBriefing, Unfed, TInv, TypesPart
<1>4. tfaults' \in 0 .. MaxTFaults
  BY FaultTyped DEF PreOpenBriefing, Unfed, TInv
<1>5. /\ tday \in TFirstDay .. TLastDay /\ ttick \in Night .. Evening /\ ttick \in TPreOpen .. Eod
  BY <1>1, Numbers DEF TInv, Night, Evening, TPreOpen, Eod
<1>6. \/ \E signal \in BOOLEAN : tpc' = NextDue(0, signal)
      \/ tpc' = 0 /\ thist'.faulty
  <2>1. CASE Dispatches
    BY <2>1 DEF Dispatches
  <2>2. CASE Unfed
    BY <1>1, <2>2, Faulted DEF Unfed, TInv, TypesPart
  <2> QED  BY <2>1, <2>2 DEF PreOpenBriefing
<1>7. /\ tpc' \in 0 .. 6
      /\ BriefPart' /\ QuietPart' /\ ReportPart' /\ SignalPart'
  BY <1>1, <1>3, <1>5, <1>6, Dispatched
<1>8. tsleep' = IF tday \in Holidays THEN NextWakeTarget(tday, ttick) ELSE tsleep
  BY DEF PreOpenBriefing
<1>9. tsleep' \in Nat /\ \A n \in Nat : n > tday /\ Tradable(n) => tsleep' <= Now(n, TPreOpen)
  BY <1>5, <1>8, WakesInTime, Numbers DEF TInv, SleepPart
<1>10. TypesPart'
  BY <1>1, <1>2, <1>3, <1>4, <1>5, <1>7, <1>9 DEF TInv, TypesPart, TTypeOK, Stages
<1>11. Tradable(tday) => tsleep' = tsleep
  BY <1>8 DEF Tradable
<1>12. SleepPart'
  BY <1>1, <1>2, <1>3, <1>9, <1>11 DEF TInv, SleepPart, Sound, AuthDue, PreOpenStage,
     EodStage, Now, Tradable, TPreOpen, Opening, Night, Eod, Afternoon
<1>13. LoginPart'
  BY <1>1, <1>2, <1>3 DEF TInv, LoginPart, Tradable, Auth
<1> QED  BY <1>7, <1>10, <1>12, <1>13 DEF TInv

LEMMA EodKeeps ==
  ASSUME TInv, EodBriefing
  PROVE  TInv'
<1>1. /\ tpc = 0 /\ ttick = Eod /\ Tradable(tday) /\ ~ Sent(EodStage) /\ tran' = TRUE
      /\ UNCHANGED <<tday, ttick, tsleep, tbroker, tsession, ttoken, talerts, tsignal>>
  BY DEF EodBriefing, EodDue, Awake
<1>2. UNCHANGED Time /\ \A k \in 1 .. 7 : Sent(k)' = Sent(k)
  BY <1>1 DEF Time, Now, Sent
<1>3. /\ thist' \in THistories /\ thist'.sent = thist.sent
      /\ thist'.signal = thist.signal /\ thist'.died = thist.died
      /\ thist'.stale = thist.stale /\ (thist.faulty => thist'.faulty)
  BY Faulted DEF EodBriefing, Unfed, TInv, TypesPart
<1>4. tfaults' \in 0 .. MaxTFaults
  BY FaultTyped DEF EodBriefing, Unfed, TInv
<1>5. ttick \in TPreOpen .. Eod /\ tday \notin Holidays
  BY <1>1 DEF TPreOpen, Eod, Tradable
<1>6. \/ \E signal \in BOOLEAN : tpc' = NextDue(0, signal)
      \/ tpc' = 0 /\ thist'.faulty
  <2>1. CASE Dispatches
    BY <2>1 DEF Dispatches
  <2>2. CASE Unfed
    BY <1>1, <2>2, Faulted DEF Unfed, TInv, TypesPart
  <2> QED  BY <2>1, <2>2 DEF EodBriefing
<1>7. /\ tpc' \in 0 .. 6
      /\ BriefPart' /\ QuietPart' /\ ReportPart' /\ SignalPart'
  BY <1>1, <1>3, <1>5, <1>6, Dispatched
<1>8. TypesPart'
  BY <1>1, <1>2, <1>3, <1>4, <1>5, <1>7 DEF TInv, TypesPart, TTypeOK, Stages
<1>9. SleepPart'
  BY <1>1, <1>2, <1>3 DEF TInv, SleepPart, Sound, AuthDue, PreOpenStage,
     EodStage, Now, Tradable, TPreOpen, Opening, Night, Eod, Afternoon
<1>10. LoginPart'
  BY <1>1, <1>2, <1>3 DEF TInv, LoginPart, Tradable, Auth
<1> QED  BY <1>7, <1>8, <1>9, <1>10 DEF TInv

LEMMA SessionKeeps ==
  ASSUME TInv, SessionRefresh
  PROVE  TInv'
<1>1. /\ tpc = 0 /\ ttick \in Opening .. Afternoon /\ Tradable(tday) /\ tran' = TRUE
      /\ UNCHANGED <<tday, ttick, tsleep, tbroker, tsession, ttoken, talerts, tsignal>>
  BY DEF SessionRefresh, MarketOpen, Awake
<1>2. UNCHANGED Time /\ \A k \in 1 .. 7 : Sent(k)' = Sent(k)
  BY <1>1 DEF Time, Now, Sent
<1>3. ~ thist.stale /\ (tbroker => tsession = tday)
  BY <1>1, Numbers DEF TInv, LoginPart, Opening, Afternoon
<1>4. /\ thist' \in THistories /\ thist'.sent = thist.sent
      /\ thist'.signal = thist.signal /\ thist'.died = thist.died
      /\ thist'.stale = thist.stale /\ (thist.faulty => thist'.faulty)
  <2>1. CASE thist' = [thist EXCEPT !.stale = @ \/ (tbroker /\ tsession # tday)]
    <3>1. thist' = [thist EXCEPT !.stale = FALSE]
      BY <1>3, <2>1 DEF TInv, TypesPart, THistories
    <3> QED  BY <1>3, <3>1 DEF TInv, TypesPart, THistories
  <2>2. CASE Unfed
    BY <2>2, Faulted DEF Unfed, TInv, TypesPart
  <2> QED  BY <2>1, <2>2 DEF SessionRefresh
<1>5. tfaults' \in 0 .. MaxTFaults
  BY FaultTyped DEF SessionRefresh, Unfed, TInv
<1>6. ttick \in TPreOpen .. Eod /\ tday \notin Holidays /\ ttick # TPreOpen /\ ttick # Eod
  BY <1>1 DEF TPreOpen, Opening, Afternoon, Eod, Tradable
<1>7. \/ \E signal \in BOOLEAN : tpc' = NextDue(0, signal)
      \/ tpc' = 0 /\ thist'.faulty
  <2>1. CASE Dispatches
    BY <2>1 DEF Dispatches
  <2>2. CASE Unfed
    BY <1>1, <2>2, Faulted DEF Unfed, TInv, TypesPart
  <2> QED  BY <2>1, <2>2 DEF SessionRefresh
<1>8. /\ tpc' \in 0 .. 6
      /\ BriefPart' /\ QuietPart' /\ ReportPart' /\ SignalPart'
  BY <1>1, <1>4, <1>6, <1>7, Dispatched
<1>9. TypesPart'
  BY <1>1, <1>2, <1>4, <1>5, <1>6, <1>8 DEF TInv, TypesPart, TTypeOK, Stages
<1>10. SleepPart'
  BY <1>1, <1>2, <1>4, <1>6 DEF TInv, SleepPart, Sound, AuthDue, PreOpenStage,
     EodStage, Now, Tradable, Night
<1>11. LoginPart'
  BY <1>1, <1>2, <1>4 DEF TInv, LoginPart, Tradable, Auth
<1> QED  BY <1>8, <1>9, <1>10, <1>11 DEF TInv

LEMMA SleepKeeps ==
  ASSUME TInv, SleepUntilOpen
  PROVE  TInv'
<1>1. /\ tpc = 0 /\ ~ AuthDue /\ ~ PreOpenDue /\ ~ EodDue /\ ~ MarketOpen
      /\ tsleep' = NextWakeTarget(tday, ttick)
      /\ UNCHANGED <<tday, ttick, tran, tbroker, tsession, ttoken, talerts, tsignal, tpc,
                     tfaults, thist>>
  BY DEF SleepUntilOpen, Awake
<1>2. UNCHANGED Time /\ \A k \in 1 .. 7 : Sent(k)' = Sent(k)
  BY <1>1 DEF Time, Now, Sent
<1>3. /\ tday \in TFirstDay .. TLastDay /\ ttick \in Night .. Evening /\ ttick \in 0 .. 7
      /\ tday \in Nat
  BY Numbers DEF TInv, Night, Evening
<1>4. /\ tsleep' \in Nat
      /\ Tradable(tday) /\ ttick = Night => tsleep' = Now(tday, TPreOpen)
      /\ Tradable(tday) /\ ttick = TPreOpen => tsleep' = Now(tday, Opening)
      /\ \A n \in Nat : n > tday /\ Tradable(n) => tsleep' <= Now(n, TPreOpen)
  BY <1>1, <1>3, WakesInTime
<1>5. TypesPart'
  BY <1>1, <1>2, <1>4 DEF TInv, TypesPart, TTypeOK
<1>6. BriefPart' /\ QuietPart' /\ SignalPart'
  BY <1>1, <1>2, StageRests
<1>7. Tradable(tday) => ~ Sent(HolidayStage)
  BY DEF TInv, QuietPart, Tradable
<1>8. SleepPart'
  BY <1>1, <1>2, <1>3, <1>4, <1>7 DEF SleepPart, Sound, AuthDue, PreOpenDue, EodDue,
     MarketOpen, Tradable, Auth, PreOpenStage, EodStage, TPreOpen, Opening, Night, Eod, Afternoon
<1>9. LoginPart'
  BY <1>1, <1>2 DEF TInv, LoginPart, Tradable, Auth
<1>10. ReportPart'
  BY <1>1, <1>2 DEF TInv, ReportPart, Sound, Tradable, PreOpenStage, PostOpenStage,
     EodStage, WeeklyStage
<1> QED  BY <1>5, <1>6, <1>8, <1>9, <1>10 DEF TInv

LEMMA TokenKeeps ==
  ASSUME TInv, TokenCommand
  PROVE  TInv'
<1>1. /\ ttoken' = tday
      /\ UNCHANGED <<tday, ttick, tsleep, tran, tbroker, tsession, talerts, tsignal, tpc,
                     tfaults, thist>>
  BY DEF TokenCommand
<1>2. UNCHANGED <<Time, AuthDue>> /\ \A k \in 1 .. 7 : Sent(k)' = Sent(k)
  BY <1>1 DEF Time, Now, Sent, AuthDue, Auth
<1>3. TypesPart'
  BY <1>1, <1>2, Numbers DEF TInv, TypesPart, TTypeOK
<1>4. BriefPart' /\ QuietPart' /\ SignalPart'
  BY <1>1, <1>2, StageRests
<1>5. SleepPart' /\ LoginPart' /\ ReportPart'
  BY <1>1, <1>2 DEF TInv, SleepPart, LoginPart, ReportPart, Sound, Tradable, Auth,
     PreOpenStage, PostOpenStage, EodStage, WeeklyStage
<1> QED  BY <1>3, <1>4, <1>5 DEF TInv

LEMMA Delivered ==
  ASSUME TypesPart, tpc \in 1 .. 6,
         thist' = [thist EXCEPT !.sent[tpc] = @ + 1,
                     !.signal = IF tpc = SignalStage THEN Time ELSE @]
  PROVE  /\ thist' \in THistories /\ thist'.sent[tpc] = thist.sent[tpc] + 1
         /\ \A s \in 1 .. 6 : s # tpc => thist'.sent[s] = thist.sent[s]
         /\ thist'.signal = IF tpc = SignalStage THEN Time ELSE thist.signal
         /\ thist'.died = thist.died /\ thist'.faulty = thist.faulty
         /\ thist'.stale = thist.stale
<1> DEFINE s == [thist.sent EXCEPT ![tpc] = @ + 1]
           g == IF tpc = SignalStage THEN Time ELSE thist.signal
<1>1. thist \in THistories /\ g \in Nat
  BY Numbers DEF TypesPart
<1>2. thist.sent \in [1 .. 6 -> Nat]
  BY <1>1 DEF THistories, Stages
<1>3. /\ s \in [1 .. 6 -> Nat] /\ s[tpc] = thist.sent[tpc] + 1
      /\ \A r \in 1 .. 6 : r # tpc => s[r] = thist.sent[r]
  BY <1>2
<1>4. thist' = [thist EXCEPT !.sent = s, !.signal = g]
  BY <1>1 DEF THistories
<1> HIDE DEF s, g
<1>5. /\ thist' \in THistories /\ thist'.sent = s /\ thist'.signal = g
      /\ thist'.died = thist.died /\ thist'.faulty = thist.faulty
      /\ thist'.stale = thist.stale
  BY <1>1, <1>3, <1>4 DEF THistories, Stages
<1> QED  BY <1>3, <1>5 DEF g

LEMMA SendKeeps ==
  ASSUME TInv, SendCycleAlert
  PROVE  TInv'
<1>1. /\ tpc \in 1 .. 6 /\ tpc' = tpc + 10
      /\ UNCHANGED <<tday, ttick, tsleep, tran, tbroker, tsession, ttoken, talerts, tsignal>>
  BY DEF SendCycleAlert, Stages
<1>2. UNCHANGED Time /\ \A k \in 1 .. 7 : Sent(k)' = Sent(k)
  BY <1>1 DEF Time, Now, Sent
<1>3. /\ thist' \in THistories /\ thist'.died = thist.died
      /\ thist'.stale = thist.stale /\ (thist.faulty => thist'.faulty)
      /\ \A s \in 1 .. 6 : s # tpc => thist'.sent[s] = thist.sent[s]
      /\ thist'.sent[tpc] \in {thist.sent[tpc], thist.sent[tpc] + 1}
      /\ thist'.signal = thist.signal \/ (tpc = 6 /\ thist'.signal = Time)
      /\ thist'.faulty \/ tpc = 5 \/ thist'.sent[tpc] = thist.sent[tpc] + 1
  <2>1. CASE thist' = [thist EXCEPT !.sent[tpc] = @ + 1,
                         !.signal = IF tpc = SignalStage THEN Time ELSE @]
    BY <1>1, <2>1, Delivered DEF TInv, SignalStage
  <2>2. CASE tpc = WeeklyStage /\ UNCHANGED thist
    BY <2>2 DEF TInv, TypesPart, WeeklyStage
  <2>3. CASE thist' = [thist EXCEPT !.faulty = TRUE]
    BY <2>3, Faulted DEF TInv, TypesPart
  <2> QED  BY <2>1, <2>2, <2>3 DEF SendCycleAlert
<1>4. tfaults' \in 0 .. MaxTFaults
  BY FaultTyped DEF SendCycleAlert, TInv
<1>5. /\ thist.signal \in Nat /\ thist.signal <= Time /\ tday \in Nat /\ Time \in Nat
      /\ Time = 8 * tday + ttick /\ ttick \in 0 .. 7 /\ ttick \in TPreOpen .. Eod
      /\ \A s \in 1 .. 6 : thist.sent[s] \in Nat
  BY <1>1, Numbers DEF TInv, TypesPart
<1>6. TypesPart'
  BY <1>1, <1>2, <1>3, <1>4, <1>5 DEF TInv, TypesPart, TTypeOK, Stages
<1>7. BriefPart'
  BY <1>1, <1>2, <1>3, <1>5 DEF TInv, BriefPart
<1>8. QuietPart'
  BY <1>1, <1>2, <1>3 DEF TInv, QuietPart, HolidayStage
<1>9. SleepPart'
  BY <1>1, <1>2, <1>3 DEF TInv, SleepPart, Sound, AuthDue, PreOpenStage,
     EodStage, Now, Tradable, Auth, Night
<1>10. LoginPart'
  BY <1>1, <1>2, <1>3 DEF TInv, LoginPart, Tradable, Auth
<1>11. ReportPart'
  BY <1>1, <1>2, <1>3, <1>5 DEF TInv, ReportPart, Sound, Tradable, PreOpenStage,
     PostOpenStage, EodStage, WeeklyStage
<1>12. SignalPart'
  BY <1>1, <1>2, <1>3, <1>5 DEF TInv, SignalPart, SignalStage, Now, Night, Eod, TPreOpen
<1> QED  BY <1>6, <1>7, <1>8, <1>9, <1>10, <1>11, <1>12 DEF TInv

LEMMA RaiseKeeps ==
  ASSUME TInv, DispatchRaises
  PROVE  TInv'
<1>1. /\ tpc \in 1 .. 6 /\ tpc' = 0
      /\ UNCHANGED <<tday, ttick, tsleep, tran, tbroker, tsession, ttoken, talerts, tsignal>>
  BY DEF DispatchRaises, Stages
<1>2. UNCHANGED Time /\ \A k \in 1 .. 7 : Sent(k)' = Sent(k)
  BY <1>1 DEF Time, Now, Sent
<1>3. /\ thist' \in THistories /\ thist'.faulty /\ thist'.sent = thist.sent
      /\ thist'.signal = thist.signal /\ thist'.died = thist.died
      /\ thist'.stale = thist.stale
  BY Faulted DEF DispatchRaises, TInv, TypesPart
<1>4. tfaults' \in 0 .. MaxTFaults
  BY FaultTyped DEF DispatchRaises, TInv
<1>5. TypesPart'
  BY <1>1, <1>2, <1>3, <1>4 DEF TInv, TypesPart, TTypeOK
<1>6. BriefPart'
  BY <1>1, <1>2, <1>3 DEF TInv, BriefPart
<1>7. QuietPart'
  BY <1>1, <1>2, <1>3 DEF TInv, QuietPart, HolidayStage
<1>8. SleepPart' /\ LoginPart' /\ ReportPart'
  BY <1>1, <1>2, <1>3 DEF TInv, SleepPart, LoginPart, ReportPart, Sound, AuthDue, Now,
     Tradable, Auth, Night
<1>9. SignalPart'
  BY <1>1, <1>2, <1>3 DEF TInv, SignalPart, SignalStage, Now
<1> QED  BY <1>5, <1>6, <1>7, <1>8, <1>9 DEF TInv

LEMMA MarkKeeps ==
  ASSUME TInv, MarkSent
  PROVE  TInv'
<1> DEFINE stage == tpc - 10
<1>1. PICK signal \in BOOLEAN :
        tpc' = IF stage = HolidayStage THEN 0 ELSE NextDue(stage, signal)
  BY DEF MarkSent
<1>2. /\ stage \in 1 .. 6 /\ tpc = 10 + stage /\ tpc # 0
      /\ talerts' = [k \in Kinds |-> IF k \in Marks(stage) THEN tday ELSE talerts[k]]
      /\ tsignal' = IF stage = SignalStage THEN Time ELSE tsignal
      /\ UNCHANGED <<tday, ttick, tsleep, tran, tbroker, tsession, ttoken, tfaults, thist>>
  BY DEF MarkSent, TInv, TypesPart, TTypeOK, Stages
<1> HIDE DEF stage
<1>3. /\ UNCHANGED Time /\ Time \in Nat /\ Time = 8 * tday + ttick /\ tday \in Nat
      /\ ttick \in 0 .. 7 /\ ttick \in TPreOpen .. Eod
      /\ thist.signal \in Nat /\ thist.signal <= Time
      /\ tsignal \in Nat /\ tsignal <= Time
  BY <1>2, Numbers DEF TInv, TypesPart, Time, Now
<1>4. \A k \in 1 .. 7 : Sent(k)' <=> (k \in Marks(stage) \/ Sent(k))
  BY <1>2 DEF Sent, Kinds, Stages
<1>5. /\ stage = 1 => Marks(stage) = {1, 2, 3, 4}
      /\ stage # 1 => Marks(stage) = {stage}
  BY DEF Marks, HolidayStage, PreOpenStage, PostOpenStage, EodStage
<1>6. /\ tpc' \in 0 .. 6 /\ (tpc' # 0 => tpc' > stage /\ stage # 1)
      /\ tpc' \in 1 .. 5 => ~ Sent(tpc')
      /\ tpc' = 6 => ~ TooSoon
      /\ tpc' = 4 => ttick = Eod
  <2>1. tpc' = 0 \/ (tpc' \in 1 .. 6 /\ tpc' > stage /\ stage # 1 /\ Due(tpc', signal))
    BY <1>1, <1>2, NextDueIsFirst DEF Stages, HolidayStage
  <2> QED  BY <2>1, DueMeans
<1>7. TypesPart'
  <2>1. talerts' \in [Kinds -> 0 .. tday]
    <3>1. talerts \in [Kinds -> 0 .. tday] /\ tday \in 0 .. tday
      BY <1>3 DEF TInv, TypesPart, TTypeOK
    <3> QED  BY <1>2, <3>1
  <2>2. tsignal' \in 0 .. Time
    BY <1>2, <1>3
  <2> QED  BY <1>2, <1>3, <1>6, <2>1, <2>2 DEF TInv, TypesPart, TTypeOK, Stages
<1>8. tday \in Holidays <=> stage = 1
  BY <1>2 DEF TInv, QuietPart
<1>9. BriefPart'
  <2>1. \A s \in 1 .. 5 : tpc' = s \/ tpc' = 10 + s => ~ Sent(s)'
    BY <1>2, <1>4, <1>5, <1>6
  <2>2. ASSUME ~ thist.died, NEW s \in 1 .. 5
        PROVE  /\ thist.sent[s] <= 1
               /\ thist.sent[s] # 0 => Sent(s)'
    <3>1. /\ thist.sent[s] <= 1
          /\ thist.sent[s] # 0 => Sent(s) \/ stage = s
      BY <1>2, <2>2 DEF TInv, BriefPart
    <3>2. stage \in Marks(stage)
      BY <1>5
    <3> QED  BY <1>4, <3>1, <3>2
  <2> QED  BY <1>2, <2>1, <2>2 DEF TInv, BriefPart
<1>10. QuietPart'
  <2>1. CASE tday \in Holidays
    BY <1>2, <1>6, <1>8, <2>1 DEF TInv, QuietPart
  <2>2. CASE tday \notin Holidays
    <3>1. ~ Sent(HolidayStage) /\ stage # 1
      BY <1>8, <2>2 DEF TInv, QuietPart
    <3>2. ~ Sent(HolidayStage)'
      BY <1>4, <1>5, <3>1 DEF HolidayStage
    <3> QED  BY <1>2, <1>6, <2>2, <3>2 DEF QuietPart
  <2> QED  BY <2>1, <2>2
<1>11. Tradable(tday) => tday \notin Holidays
  BY DEF Tradable
<1>12. SleepPart'
  BY <1>2, <1>3, <1>4 DEF TInv, SleepPart, Sound, AuthDue, PreOpenStage,
     EodStage, Now, Tradable, Auth, Night
<1>13. LoginPart'
  BY <1>2, <1>4, <1>5 DEF TInv, LoginPart, Tradable, Auth
<1>14. ReportPart'
  <2>1. SUFFICES ASSUME Sound PROVE ReportPart'
    BY <1>2 DEF ReportPart, Sound, Tradable
  <2>2. stage # 1 /\ \A k \in 1 .. 7 : Sent(k)' <=> (k = stage \/ Sent(k))
    BY <1>4, <1>5, <1>8, <1>11, <2>1 DEF Sound
  <2>3. stage = 4 /\ ttick = Eod /\ TWeekday(tday) = 4 /\ ~ Sent(5) => tpc' = 5
    <3>1. SUFFICES ASSUME stage = 4, ttick = Eod, TWeekday(tday) = 4, ~ Sent(5)
                   PROVE  tpc' = 5
      OBVIOUS
    <3>2. Due(5, signal)
      BY <3>1 DEF Due, HolidayStage, PreOpenStage, PostOpenStage, EodStage, WeeklyStage,
           SignalStage
    <3>3. tpc' = NextDue(stage, signal)
      BY <1>1, <3>1 DEF HolidayStage
    <3>4. tpc' # 0 /\ tpc' <= 5
      BY <1>2, <3>1, <3>2, <3>3, NextDueIsFirst DEF Stages
    <3> QED  BY <1>6, <3>1, <3>4
  <2> QED  BY <1>2, <1>6, <2>1, <2>2, <2>3 DEF TInv, ReportPart, Sound, Tradable,
              PreOpenStage, PostOpenStage, EodStage, WeeklyStage, Eod
<1>15. SignalPart'
  BY <1>2, <1>3, <1>6 DEF TInv, SignalPart, SignalStage, TooSoon, Now, Night, Eod
<1> QED  BY <1>7, <1>9, <1>10, <1>12, <1>13, <1>14, <1>15 DEF TInv

LEMMA RestartKeeps ==
  ASSUME TInv, TRestart
  PROVE  TInv'
<1>1. /\ thist' = [thist EXCEPT !.died = @ \/ tpc > 10, !.faulty = TRUE, !.restarted = tday]
      /\ talerts' = [k \in Kinds |-> IF talerts[k] = tday THEN tday ELSE 0]
      /\ tsignal' = IF tsignal \div 8 = tday THEN tsignal ELSE 0
      /\ tsleep' = Time /\ tran' = FALSE /\ tpc' = 0
      /\ UNCHANGED <<tday, ttick>>
  BY DEF TRestart
<1>2. /\ tday \in Nat /\ 1 <= tday /\ ttick \in 0 .. 7 /\ UNCHANGED Time
      /\ Time \in Nat /\ Time = 8 * tday + ttick /\ tpc \in 0 .. 16
      /\ thist.signal \in Nat /\ thist.signal <= Time
      /\ tsignal \in Nat /\ tsignal <= Time
  BY <1>1, Numbers DEF TInv, Time, Now
<1>3. /\ thist' \in THistories /\ thist'.faulty /\ thist'.sent = thist.sent
      /\ thist'.signal = thist.signal /\ thist'.stale = thist.stale
      /\ ~ thist'.died => ~ thist.died /\ tpc \in 0 .. 6
  <2>1. PICK d \in BOOLEAN : d = (thist.died \/ tpc > 10)
    BY Zenon
  <2>2. thist' = [thist EXCEPT !.died = d, !.faulty = TRUE, !.restarted = tday]
    BY <1>1, <2>1 DEF TInv, TypesPart, THistories
  <2>3. /\ thist' \in THistories /\ thist'.faulty /\ thist'.sent = thist.sent
        /\ thist'.signal = thist.signal /\ thist'.stale = thist.stale
        /\ thist'.died = d
    BY <1>2, <2>2 DEF TInv, TypesPart, THistories
  <2>4. ~ d => ~ thist.died /\ ~ (tpc > 10)
    BY <2>1, Zenon
  <2>5. ~ (tpc > 10) => tpc \in 0 .. 6
    BY <1>2 DEF TInv, TypesPart, TTypeOK, Stages
  <2> QED  BY <2>3, <2>4, <2>5
<1>4. \A k \in 1 .. 7 : Sent(k)' = Sent(k)
  BY <1>1, <1>2 DEF Sent, Kinds, Stages
<1>5. talerts' \in [Kinds -> 0 .. tday] /\ tsignal' \in 0 .. Time
  BY <1>1, <1>2
<1>6. /\ tbroker' \in BOOLEAN /\ tsession' \in 0 .. tday /\ ttoken' \in 0 .. tday
      /\ tbroker' => tsession' = tday
  <2>1. tday \in 0 .. tday /\ 0 \in 0 .. tday /\ ttoken \in 0 .. tday
    BY <1>2 DEF TInv, TypesPart, TTypeOK
  <2>2. /\ tsession' = tday \/ tsession' = 0
        /\ ttoken' = tday \/ ttoken' = ttoken
        /\ (tbroker' = TRUE /\ tsession' = tday) \/ tbroker' = FALSE
    BY DEF TRestart
  <2> QED  BY <1>1, <2>1, <2>2
<1>7. tfaults' \in 0 .. MaxTFaults
  BY FaultTyped DEF TRestart, TInv
<1>8. TypesPart'
  BY <1>1, <1>2, <1>3, <1>5, <1>6, <1>7 DEF TInv, TypesPart, TTypeOK
<1>9. BriefPart'
  BY <1>1, <1>3, <1>4 DEF TInv, BriefPart
<1>10. QuietPart'
  BY <1>1, <1>3, <1>4 DEF TInv, QuietPart, HolidayStage
<1>11. SleepPart'
  BY <1>1, <1>2, <1>3 DEF SleepPart, Sound, Now, Night, TPreOpen
<1>12. LoginPart' /\ ReportPart'
  BY <1>1, <1>3, <1>6 DEF TInv, LoginPart, ReportPart, Sound
<1>13. SignalPart'
  <2>1. ~ thist.died /\ Now(tday, Night) <= thist.signal /\ tpc \in 0 .. 6
          => tsignal' = tsignal /\ thist.signal <= tsignal
    BY <1>1, <1>2 DEF TInv, SignalPart, Now, Night
  <2> QED  BY <1>1, <1>2, <1>3, <2>1 DEF TInv, SignalPart, SignalStage, Now
<1> QED  BY <1>8, <1>9, <1>10, <1>11, <1>12, <1>13 DEF TInv

(* What a part of the day that passes leaves behind. *)
LEMMA PassesWhenDone ==
  ASSUME TInv, Idle
  PROVE  /\ tpc = 0
         /\ Tradable(tday) => ~ AuthDue
         /\ Sound /\ ttick = TPreOpen => Sent(PreOpenStage)
         /\ Sound /\ ttick = PostOpen => Sent(PostOpenStage)
         /\ Sound /\ ttick = Eod =>
              Sent(EodStage) /\ (TWeekday(tday) = 4 => Sent(WeeklyStage))
<1>1. tpc = 0 /\ (Time < tsleep \/ ~ AuthDue)
  BY DEF Idle
<1>2. /\ tday \in Nat /\ ttick \in 0 .. 7 /\ Time \in Nat /\ tsleep \in Nat
      /\ Time = 8 * tday + ttick
  BY Numbers DEF TInv
<1>3. Tradable(tday) => ~ AuthDue
  BY <1>1, <1>2 DEF TInv, SleepPart
<1>4. ~ thist.faulty => Time < tsleep \/ (tran /\ MarketOpen)
  BY DEF Idle
<1>5. Sound /\ ttick = TPreOpen => Sent(PreOpenStage)
  <2>1. ttick = TPreOpen => ~ MarketOpen
    BY DEF MarketOpen, TPreOpen, Opening, Afternoon
  <2> QED  BY <1>2, <1>4, <2>1 DEF TInv, SleepPart, Sound
<1>6. Sound /\ ttick = PostOpen => Sent(PostOpenStage)
  <2>1. Sound /\ ttick = PostOpen => tsleep <= Time
    BY <1>2 DEF TInv, SleepPart, Now, PostOpen, TPreOpen, Afternoon, Opening
  <2>2. Sound /\ ttick = PostOpen => tran
    BY <1>2, <1>4, <2>1 DEF Sound
  <2> QED  BY <1>1, <2>2 DEF TInv, ReportPart
<1>7. Sound /\ ttick = Eod => Sent(EodStage) /\ (TWeekday(tday) = 4 => Sent(WeeklyStage))
  <2>1. ttick = Eod => ~ MarketOpen
    BY DEF MarketOpen, Eod, Opening, Afternoon
  <2>2. Sound /\ ttick = Eod => Sent(EodStage)
    BY <1>2, <1>4, <2>1 DEF TInv, SleepPart, Sound
  <2> QED  BY <1>1, <2>2 DEF TInv, ReportPart
<1> QED  BY <1>1, <1>3, <1>5, <1>6, <1>7

LEMMA TickKeeps ==
  ASSUME TInv, TickPasses, ttick < Evening
  PROVE  TInv'
<1>1. /\ Idle /\ ttick' = ttick + 1 /\ tran' = FALSE
      /\ UNCHANGED <<tday, thist, tsleep, tbroker, tsession, ttoken, talerts, tsignal,
                     tpc, tfaults>>
  BY DEF TickPasses
<1>2. /\ tday \in Nat /\ ttick \in 0 .. 6 /\ Time \in Nat /\ tsleep \in Nat
      /\ Time = 8 * tday + ttick /\ Time' = Time + 1 /\ ttick' \in 1 .. 7
      /\ thist.signal \in Nat /\ thist.signal <= Time
      /\ tsignal \in 0 .. Time /\ tsignal \in 0 .. Time'
  BY <1>1, Numbers DEF TInv, Evening, Time, Now
<1>3. \A k \in 1 .. 7 : Sent(k)' = Sent(k)
  BY <1>1 DEF Sent
<1>4. /\ tpc = 0
      /\ Tradable(tday) => ~ AuthDue /\ tday \notin Holidays
      /\ Sound /\ ttick = TPreOpen => Sent(PreOpenStage)
      /\ Sound /\ ttick = PostOpen => Sent(PostOpenStage)
      /\ Sound /\ ttick = Eod =>
           Sent(EodStage) /\ (TWeekday(tday) = 4 => Sent(WeeklyStage))
  BY <1>1, PassesWhenDone DEF Tradable
<1>5. TypesPart'
  <2>1. TTypeOK'
    <3>1. (tday \in TFirstDay .. TLastDay /\ ttick \in Night .. Evening)'
      BY <1>1, <1>2, Numbers DEF TInv, Night, Evening
    <3>2. /\ (tsleep \in Nat /\ tran \in BOOLEAN /\ tbroker \in BOOLEAN)'
          /\ (tsession \in 0 .. tday /\ ttoken \in 0 .. tday)'
          /\ (talerts \in [Kinds -> 0 .. tday] /\ tfaults \in 0 .. MaxTFaults)'
      BY <1>1 DEF TInv, TypesPart, TTypeOK
    <3> QED  BY <1>1, <1>2, <1>4, <3>1, <3>2 DEF TTypeOK
  <2>2. thist'.signal <= Time' /\ thist' \in THistories
    BY <1>1, <1>2 DEF TInv, TypesPart
  <2> QED  BY <1>1, <1>4, <2>1, <2>2 DEF TypesPart
<1>6. BriefPart' /\ QuietPart'
  BY <1>1, <1>3 DEF TInv, BriefPart, QuietPart, HolidayStage
<1>7. SleepPart'
  BY <1>1, <1>2, <1>3, <1>4 DEF TInv, SleepPart, Sound, AuthDue, PreOpenStage,
     EodStage, Now, Tradable, Auth, Night, TPreOpen, Opening, Afternoon, Eod, ReportPart
<1>8. LoginPart'
  BY <1>1, <1>2, <1>3, <1>4 DEF TInv, LoginPart, Tradable, AuthDue, Auth, Opening, TPreOpen
<1>9. ReportPart'
  <2>1. SUFFICES ASSUME Sound PROVE ReportPart'
    BY <1>1 DEF ReportPart, Sound, Tradable
  <2>2. /\ \A r \in {2, 3, 4} : Sent(r) \/ tpc = 10 + r => thist.sent[r] # 0
        /\ ttick >= Opening => Sent(2)
        /\ ttick >= Morning => Sent(3)
    BY <2>1 DEF TInv, ReportPart, PreOpenStage, PostOpenStage
  <2>3. ttick' >= Opening => Sent(2)
    BY <1>1, <1>2, <1>4, <2>1, <2>2 DEF TPreOpen, Opening, PreOpenStage
  <2>4. ttick' >= Morning => Sent(3)
    BY <1>1, <1>2, <1>4, <2>1, <2>2 DEF PostOpen, Morning, PostOpenStage
  <2>5. ttick' = Evening => Sent(4) /\ (TWeekday(tday) = 4 => Sent(5))
    BY <1>1, <1>2, <1>4, <2>1 DEF Eod, Evening, EodStage, WeeklyStage
  <2>6. /\ ttick' = Eod => ~ Sent(4)
        /\ Sent(4) => ttick' >= Eod
    BY <1>1, <1>2, <2>1 DEF TInv, ReportPart, EodStage, Eod
  <2> QED  BY <1>1, <1>3, <1>4, <2>2, <2>3, <2>4, <2>5, <2>6 DEF ReportPart,
              PreOpenStage, PostOpenStage, EodStage, WeeklyStage
<1>10. SignalPart'
  BY <1>1, <1>2, <1>4 DEF TInv, SignalPart, SignalStage, Now
<1> QED  BY <1>5, <1>6, <1>7, <1>8, <1>9, <1>10 DEF TInv

LEMMA DayKeeps ==
  ASSUME TInv, TickPasses, ~ (ttick < Evening)
  PROVE  TInv'
<1>1. /\ Idle /\ tday < TLastDay /\ tday' = tday + 1 /\ ttick' = Night /\ tran' = FALSE
      /\ thist' = [thist EXCEPT !.sent = [s \in Stages |-> 0], !.died = FALSE,
                                !.faulty = FALSE]
      /\ UNCHANGED <<tsleep, tbroker, tsession, ttoken, talerts, tsignal, tpc, tfaults>>
  BY DEF TickPasses
<1>2. /\ tday \in Nat /\ ttick = 7 /\ Time \in Nat /\ tsleep \in Nat
      /\ Time = 8 * tday + 7 /\ Time' = Time + 1
      /\ thist.signal \in Nat /\ thist.signal <= Time
      /\ tday' \in TFirstDay .. TLastDay /\ tday' \in Nat
      /\ tsignal \in 0 .. Time'
  BY <1>1, Numbers, Constants DEF TInv, Evening, Time, Now, Night
<1>3. tpc = 0 /\ \A k \in 1 .. 7 : ~ Sent(k)'
  BY <1>1, PassesWhenDone, SentLater DEF TInv, Kinds, Stages
<1>4. /\ thist' \in THistories /\ ~ thist'.died /\ ~ thist'.faulty
      /\ thist'.signal = thist.signal /\ thist'.stale = thist.stale
      /\ \A s \in 1 .. 6 : thist'.sent[s] = 0
  BY <1>1 DEF TInv, TypesPart, THistories, Stages
<1>5. TypesPart'
  <2>1. /\ talerts' \in [Kinds -> 0 .. tday'] /\ tsession' \in 0 .. tday'
        /\ ttoken' \in 0 .. tday'
    <3>1. \A x \in 0 .. tday : x \in 0 .. tday'
      BY <1>1, <1>2
    <3>2. /\ talerts \in [Kinds -> 0 .. tday] /\ tsession \in 0 .. tday
          /\ ttoken \in 0 .. tday
      BY DEF TInv, TypesPart, TTypeOK
    <3> QED  BY <1>1, <3>1, <3>2
  <2>2. TTypeOK'
    <3>1. (tday \in TFirstDay .. TLastDay /\ ttick \in Night .. Evening)'
      BY <1>1, <1>2 DEF Night, Evening
    <3>2. /\ (tsleep \in Nat /\ tran \in BOOLEAN /\ tbroker \in BOOLEAN)'
          /\ (tfaults \in 0 .. MaxTFaults)'
      BY <1>1 DEF TInv, TypesPart, TTypeOK
    <3> QED  BY <1>1, <1>2, <1>3, <2>1, <3>1, <3>2 DEF TTypeOK
  <2> QED  BY <1>1, <1>2, <1>3, <1>4, <2>2 DEF TypesPart
<1>6. BriefPart' /\ QuietPart'
  BY <1>1, <1>3, <1>4 DEF BriefPart, QuietPart, HolidayStage
<1>7. SleepPart'
  <2>1. \A n \in Nat : n > tday /\ Tradable(n) => tsleep <= Now(n, TPreOpen)
    BY DEF TInv, SleepPart
  <2>2. ~ AuthDue' /\ ttick' # TPreOpen /\ ttick' # Eod /\ ttick' \notin TPreOpen .. Afternoon
    BY <1>1 DEF AuthDue, Night, TPreOpen, Eod, Afternoon
  <2> QED  BY <1>1, <1>2, <2>1, <2>2 DEF SleepPart, Tradable
<1>8. LoginPart' /\ ReportPart'
  BY <1>1, <1>3, <1>4 DEF TInv, LoginPart, ReportPart, Auth, PreOpenStage, PostOpenStage,
     EodStage, WeeklyStage, Night, Opening, Morning, PostOpen, Eod, Evening
<1>9. SignalPart'
  <2>1. thist.signal <= Now(tday, Eod)
    BY DEF TInv, SignalPart
  <2> QED  BY <1>1, <1>2, <1>3, <1>4, <2>1 DEF SignalPart, SignalStage, Now, Night, Eod
<1> QED  BY <1>5, <1>6, <1>7, <1>8, <1>9 DEF TInv

-----------------------------------------------------------------------------
(* The invariant, and what follows from it. *)

LEMMA TInvInitially == TInit => TInv
<1> SUFFICES ASSUME TInit PROVE TInv
  OBVIOUS
<1>1. /\ tday \in Nat /\ 1 <= tday /\ tday \in TFirstDay .. TLastDay /\ ttick = 0
      /\ tpc = 0 /\ tsignal = 0 /\ tran = FALSE /\ tbroker = TRUE
      /\ tsession = 0 /\ ttoken = 0 /\ tfaults = 0
      /\ talerts = [k \in Kinds |-> 0] /\ tsleep = NextWakeTarget(tday, Night)
      /\ thist = [sent |-> [s \in Stages |-> 0], signal |-> 0, died |-> FALSE,
                  faulty |-> FALSE, restarted |-> 0, stale |-> FALSE]
  BY Constants DEF TInit, Night
<1>2. /\ thist \in THistories /\ thist.signal = 0 /\ ~ thist.died /\ ~ thist.stale
      /\ ~ thist.faulty /\ \A s \in 1 .. 6 : thist.sent[s] = 0
  BY <1>1 DEF THistories, Stages
<1>3. /\ tsleep \in Nat
      /\ Tradable(tday) => tsleep = Now(tday, TPreOpen)
      /\ \A n \in Nat : n > tday /\ Tradable(n) => tsleep <= Now(n, TPreOpen)
  BY <1>1, WakesInTime DEF Night, Evening
<1>4. \A k \in 1 .. 7 : ~ Sent(k)
  BY <1>1 DEF Sent, Kinds, Stages
<1>5. Time \in Nat /\ Time = 8 * tday
  BY <1>1 DEF Time, Now
<1>6. TypesPart
  <2>1. talerts \in [Kinds -> 0 .. tday]
    BY <1>1
  <2>2. TTypeOK
    <3>1. ttick \in Night .. Evening /\ tfaults \in 0 .. MaxTFaults /\ tsignal \in 0 .. Time
      BY <1>1, <1>5, Constants DEF Night, Evening
    <3>2. tran \in BOOLEAN /\ tbroker \in BOOLEAN
      BY <1>1, Zenon
    <3>3. tsession \in 0 .. tday /\ ttoken \in 0 .. tday
      <4>1. tday \in Nat /\ tsession = 0 /\ ttoken = 0
        BY <1>1
      <4> QED  BY <4>1
    <3> QED  BY <1>1, <1>3, <2>1, <3>1, <3>2, <3>3 DEF TTypeOK
  <2> QED  BY <1>1, <1>2, <1>5, <2>2 DEF TypesPart
<1>7. BriefPart /\ QuietPart
  BY <1>1, <1>2, <1>4 DEF BriefPart, QuietPart, HolidayStage
<1>8. SleepPart
  BY <1>1, <1>3 DEF SleepPart, AuthDue, Night, TPreOpen, Afternoon, Eod, Now
<1>9. LoginPart /\ ReportPart
  BY <1>1, <1>2, <1>4 DEF LoginPart, ReportPart, Auth, PreOpenStage, PostOpenStage,
     EodStage, Opening, Morning, PostOpen, Eod, Evening
<1>10. SignalPart
  BY <1>1, <1>2 DEF SignalPart, SignalStage, Now, Night, Eod
<1> QED  BY <1>6, <1>7, <1>8, <1>9, <1>10 DEF TInv

LEMMA TInvKept == TInv /\ [TNext]_tVars => TInv'
<1> SUFFICES ASSUME TInv, [TNext]_tVars PROVE TInv'
  OBVIOUS
<1>1. CASE TickPasses
  BY <1>1, TickKeeps, DayKeeps
<1>2. CASE UNCHANGED tVars
  <2>1. UNCHANGED <<tday, ttick, tsleep, tran, tbroker, tsession, ttoken, talerts, tsignal,
                    tpc, tfaults, thist, Time>> /\ \A k \in 1 .. 7 : Sent(k)' = Sent(k)
    BY <1>2 DEF tVars, Sent, Time, Now
  <2>2. BriefPart' /\ QuietPart' /\ SignalPart'
    BY <2>1, StageRests
  <2>3. TypesPart' /\ SleepPart' /\ LoginPart' /\ ReportPart'
    BY <2>1 DEF TInv, TypesPart, TTypeOK, SleepPart, LoginPart, ReportPart, Sound, AuthDue,
       Tradable, Auth, PreOpenStage, PostOpenStage, EodStage, WeeklyStage
  <2> QED  BY <2>2, <2>3 DEF TInv
<1> QED  BY <1>1, <1>2, AuthKeeps, TokenKeeps, PreOpenKeeps, EodKeeps, SleepKeeps,
            SessionKeeps, SendKeeps, MarkKeeps, RaiseKeeps, RestartKeeps DEF TNext

LEMMA TInvTells ==
  ASSUME TInv
  PROVE  TTypeOK /\ BriefedOnce /\ HolidayIsQuiet /\ TradingDayIsReported
         /\ OrdersNeedTodaysLogin
<1>1. BriefedOnce
  BY DEF TInv, BriefPart, BriefedOnce, Stages, SignalStage
<1>2. HolidayIsQuiet
  BY DEF TInv, QuietPart, HolidayIsQuiet, Stages, HolidayStage
<1>3. TradingDayIsReported
  <2>1. SUFFICES ASSUME ttick = Evening, Sound
                 PROVE  /\ \A s \in {2, 3, 4} : thist.sent[s] = 1
                        /\ TWeekday(tday) = 4 => Sent(WeeklyStage)
    BY DEF TradingDayIsReported, Sound, PreOpenStage, PostOpenStage, EodStage
  <2>2. /\ \A s \in {2, 3, 4} : Sent(s) => thist.sent[s] # 0
        /\ Sent(2) /\ Sent(3) /\ Sent(4)
        /\ TWeekday(tday) = 4 => Sent(WeeklyStage)
    BY <2>1 DEF TInv, ReportPart, PreOpenStage, PostOpenStage, EodStage, Evening, Opening,
       Morning
  <2>3. \A s \in {2, 3, 4} : thist.sent[s] <= 1 /\ thist.sent[s] \in Nat
    BY <2>1, Numbers DEF TInv, BriefPart, Sound
  <2> QED  BY <2>2, <2>3
<1> QED  BY <1>1, <1>2, <1>3 DEF TInv, TypesPart, LoginPart, OrdersNeedTodaysLogin

(* Only a send moves the time of the last signal. *)
LEMMA TInvSpaces ==
  ASSUME TInv, [TNext]_tVars, thist'.signal # thist.signal, ~ thist.died
  PROVE  Time - thist.signal >= Cooldown
<1>1. thist \in THistories
  BY DEF TInv, TypesPart
<1>2. CASE SendCycleAlert
  <2>1. tpc = 6
    BY <1>1, <1>2, Delivered, Faulted DEF SendCycleAlert, TInv, Stages, SignalStage
  <2>2. /\ Time \in Nat /\ Time = 8 * tday + ttick /\ tday \in Nat
        /\ thist.signal \in Nat /\ thist.signal <= Time
        /\ tsignal \in Nat /\ tsignal <= Time /\ ttick \in 1 .. 6
    BY <2>1, Numbers DEF TInv, TypesPart, TPreOpen, Eod
  <2>3. CASE thist.signal <= Now(tday - 1, Eod)
    BY <2>2, <2>3, Constants DEF Now, Eod
  <2>4. CASE Now(tday, Night) <= thist.signal
    <3>1. thist.signal <= tsignal
      BY <2>1, <2>4 DEF TInv, SignalPart
    <3>2. tsignal \div 8 = tday
      BY <2>2, <2>4, <3>1 DEF Now, Night
    <3>3. ~ (Time - tsignal < Cooldown)
      BY <2>1, <3>2 DEF TInv, SignalPart, SignalStage, TooSoon
    <3> QED  BY <2>2, <3>1, <3>3, Constants
  <2> QED  BY <2>3, <2>4 DEF TInv, SignalPart
<1>3. CASE ~ SendCycleAlert
  <2>1. thist' = thist \/ thist' = [thist EXCEPT !.faulty = TRUE]
          => thist'.signal = thist.signal
    BY <1>1, Faulted
  <2>2. CASE MorningAuth \/ TokenCommand \/ PreOpenBriefing \/ EodBriefing
             \/ SleepUntilOpen \/ MarkSent \/ DispatchRaises \/ UNCHANGED tVars
    BY <2>1, <2>2 DEF MorningAuth, LogIn, LoginFails, TokenCommand, PreOpenBriefing, Unfed,
       EodBriefing, SleepUntilOpen, MarkSent, DispatchRaises, tVars
  <2>3. CASE SessionRefresh \/ TRestart \/ TickPasses
    BY <1>1, <2>1, <2>3 DEF SessionRefresh, Unfed, TRestart, TickPasses, THistories
  <2> QED  BY <1>3, <2>2, <2>3 DEF TNext
<1> QED  BY <1>2, <1>3

(* THEOREM.  Whatever is late, dropped, raised or killed: no briefing goes out
   twice a day unless the process died with one unmarked, holidays bring their
   notice alone, a day without a fault is told in full, signals keep their
   distance, and no refresh trades on yesterday's login. *)
THEOREM DaysAreTold == TSpec => TrackerTellsTheDay
<1>1. TSpec => []TInv
  BY TInvInitially, TInvKept, PTL DEF TSpec
<1>2. TInv => TTypeOK /\ BriefedOnce /\ HolidayIsQuiet /\ TradingDayIsReported
              /\ OrdersNeedTodaysLogin
  BY TInvTells
<1>3. TInv /\ [TNext]_tVars =>
        [thist'.signal # thist.signal /\ ~ thist.died =>
           Time - thist.signal >= Cooldown]_tVars
  BY TInvSpaces
<1> QED  BY <1>1, <1>2, <1>3, PTL DEF TSpec, TrackerTellsTheDay, SignalsAreSpaced

-----------------------------------------------------------------------------
(* The watchdog. *)

LoopStates == {"works", "spins", "wedged", "absent"}

WTypesPart ==
  /\ wTick \in Nat /\ wStalls \in Nat /\ wWatched \in BOOLEAN
  /\ wLoop \in [Components -> LoopStates] /\ wBeat \in [Components -> Int]
  /\ wDown \in [Components -> Int]
  /\ wPassed \subseteq Components /\ wAlarms \subseteq Components

(* A loop that does not turn has not beaten since it stopped. *)
DownPart ==
  \A c \in Components :
    /\ wBeat[c] <= wTick
    /\ wLoop[c] \in {"wedged", "absent"} => wBeat[c] <= wDown[c]

(* Without a stall a loop that is awake beats in every tick. *)
BeatPart ==
  wStalls = 0 =>
    /\ \A c \in Components : wLoop[c] = "works"
    /\ \A c \in wPassed : AwakeAt(c, wTick) => wBeat[c] = wTick
    /\ wBeat["bot"] = NoBeat \/ wBeat["bot"] >= wTick - 1
    /\ wBeat["tracker"] # NoBeat
    /\ wTick > PreOpenTick => wBeat["tracker"] >= PreOpenTick
    /\ OpenTick < wTick /\ wTick <= CloseTick => wBeat["tracker"] >= wTick - 1

WInv == WTypesPart /\ DownPart /\ BeatPart /\ WatchdogTellsTheTruth

LEMMA Limits ==
  /\ PreOpenTick \in Nat /\ OpenTick \in Nat /\ CloseTick \in Nat
  /\ StaleTicks \in Nat /\ 1 <= StaleTicks /\ PreOpenTick < OpenTick
  /\ OpenTick - PreOpenTick <= StaleTicks
  BY WatchdogAssumption

LEMMA WInvInitially == WInit => WInv
<1> SUFFICES ASSUME WInit PROVE WInv
  OBVIOUS
<1>1. WTypesPart
  <2>1. wLoop \in [Components -> LoopStates]
    BY DEF WInit, LoopStates
  <2>2. wBeat \in [Components -> Int] /\ wDown \in [Components -> Int]
    BY DEF WInit, NoBeat, Yesterday
  <2> QED  BY <2>1, <2>2 DEF WInit, WTypesPart
<1>2. DownPart
  BY DEF WInit, DownPart, NoBeat, Yesterday
<1>3. BeatPart
  BY Limits DEF WInit, BeatPart, Components, NoBeat, Yesterday
<1>4. WatchdogTellsTheTruth
  BY DEF WInit, WatchdogTellsTheTruth, StallIsAlarmed, NoFalseAlarm
<1> QED  BY <1>1, <1>2, <1>3, <1>4 DEF WInv

LEMMA PassKeeps ==
  ASSUME WInv, NEW c \in Components, LoopPass(c)
  PROVE  WInv'
<1>1. /\ wPassed' = wPassed \cup {c}
      /\ UNCHANGED <<wTick, wLoop, wWatched, wAlarms, wDown, wStalls>>
  BY DEF LoopPass
<1>2. /\ wBeat' \in [Components -> Int]
      /\ \A d \in Components : d # c => wBeat'[d] = wBeat[d]
      /\ wBeat'[c] = IF wLoop[c] \in {"works", "spins"} /\ AwakeAt(c, wTick)
                     THEN wTick ELSE wBeat[c]
  BY DEF LoopPass, WInv, WTypesPart
<1>3. WTypesPart'
  BY <1>1, <1>2 DEF WInv, WTypesPart
<1>4. DownPart'
  BY <1>1, <1>2 DEF WInv, DownPart
<1>5. BeatPart'
  BY <1>1, <1>2, Limits DEF WInv, WTypesPart, BeatPart, Components, AwakeAt, InHours, NoBeat
<1>6. WatchdogTellsTheTruth'
  BY <1>1, <1>2 DEF WInv, WatchdogTellsTheTruth, StallIsAlarmed, NoFalseAlarm,
     StoppedTooLong
<1> QED  BY <1>3, <1>4, <1>5, <1>6 DEF WInv

LEMMA FiringKeeps ==
  ASSUME WInv, WatchdogRuns
  PROVE  WInv'
<1>1. /\ wWatched' = TRUE /\ wAlarms' = {c \in Components : Alarmed(c)}
      /\ UNCHANGED <<wTick, wLoop, wBeat, wPassed, wDown, wStalls>>
  BY DEF WatchdogRuns
<1>2. WTypesPart' /\ DownPart' /\ BeatPart'
  BY <1>1 DEF WInv, WTypesPart, DownPart, BeatPart, AwakeAt, InHours
<1>3. StallIsAlarmed'
  <2>1. SUFFICES ASSUME NEW c \in Components, wLoop[c] \in {"wedged", "absent"},
                        StoppedTooLong(c), wBeat[c] # NoBeat
                 PROVE  Alarmed(c)
    BY <1>1 DEF StallIsAlarmed, StoppedTooLong
  <2>2. wBeat[c] <= wDown[c] /\ wBeat[c] \in Int /\ wDown[c] \in Int /\ wTick \in Nat
    BY <2>1 DEF WInv, WTypesPart, DownPart
  <2> QED  BY <2>1, <2>2, Limits DEF StoppedTooLong, Alarmed
<1>4. NoFalseAlarm'
  <2>1. SUFFICES ASSUME wStalls = 0, NEW c \in Components, Alarmed(c)
                 PROVE  FALSE
    BY <1>1 DEF NoFalseAlarm, WInv, WTypesPart
  <2>2. wTick \in Nat /\ wBeat["bot"] \in Int /\ wBeat["tracker"] \in Int
    BY DEF WInv, WTypesPart, Components
  <2>3. CASE c = "bot"
    BY <2>1, <2>2, <2>3, Limits DEF WInv, BeatPart, Alarmed, Required
  <2>4. CASE c = "tracker"
    BY <2>1, <2>2, <2>4, Limits DEF WInv, BeatPart, Alarmed, Required, InHours
  <2> QED  BY <2>3, <2>4 DEF Components
<1> QED  BY <1>2, <1>3, <1>4 DEF WInv, WatchdogTellsTheTruth

LEMMA WTickKeeps ==
  ASSUME WInv, WTickPasses
  PROVE  WInv'
<1>1. /\ wPassed = Components /\ wTick' = wTick + 1 /\ wPassed' = {}
      /\ wWatched' = FALSE /\ wAlarms' = {}
      /\ UNCHANGED <<wLoop, wBeat, wDown, wStalls>>
  BY DEF WTickPasses
<1>2. WTypesPart' /\ DownPart'
  <2>1. wTick \in Nat /\ wTick' \in Nat /\ wBeat \in [Components -> Int]
    BY <1>1 DEF WInv, WTypesPart
  <2>2. WTypesPart'
    BY <1>1, <2>1 DEF WInv, WTypesPart
  <2>3. DownPart'
    BY <1>1, <2>1 DEF WInv, DownPart
  <2> QED  BY <2>2, <2>3
<1>3. BeatPart'
  <2>1. SUFFICES ASSUME wStalls = 0 PROVE BeatPart'
    BY <1>1 DEF BeatPart
  <2>2. /\ wTick \in Nat /\ wBeat["bot"] \in Int /\ wBeat["tracker"] \in Int
        /\ wBeat["bot"] = wTick
        /\ AwakeAt("tracker", wTick) => wBeat["tracker"] = wTick
    BY <1>1, <2>1 DEF WInv, WTypesPart, BeatPart, Components, AwakeAt
  <2> QED  BY <1>1, <2>1, <2>2, Limits DEF WInv, BeatPart, AwakeAt, InHours
<1>4. WatchdogTellsTheTruth'
  BY <1>1 DEF WatchdogTellsTheTruth, StallIsAlarmed, NoFalseAlarm
<1> QED  BY <1>2, <1>3, <1>4 DEF WInv

LEMMA StallKeeps ==
  ASSUME WInv, NEW c \in Components, Stalls(c)
  PROVE  WInv'
<1>1. PICK s \in {"spins", "wedged", "absent"} : wLoop' = [wLoop EXCEPT ![c] = s]
  BY DEF Stalls
<1>2. /\ wStalls' = wStalls + 1 /\ wDown' = [wDown EXCEPT ![c] = wTick]
      /\ wLoop[c] = "works"
      /\ UNCHANGED <<wTick, wBeat, wPassed, wWatched, wAlarms>>
  BY DEF Stalls
<1>3. WTypesPart'
  BY <1>1, <1>2 DEF WInv, WTypesPart, LoopStates
<1>4. wStalls' > 0 /\ wStalls' # 0
  BY <1>2 DEF WInv, WTypesPart
<1>5. DownPart'
  BY <1>1, <1>2 DEF WInv, WTypesPart, DownPart
<1>6. ~ StoppedTooLong(c)'
  BY <1>2, Limits DEF WInv, WTypesPart, StoppedTooLong
<1>7. StallIsAlarmed'
  BY <1>1, <1>2, <1>6 DEF WInv, WTypesPart, WatchdogTellsTheTruth, StallIsAlarmed,
     StoppedTooLong
<1> QED  BY <1>3, <1>4, <1>5, <1>7 DEF WInv, BeatPart, WatchdogTellsTheTruth, NoFalseAlarm

LEMMA RecoveryKeeps ==
  ASSUME WInv, NEW c \in Components, Recovers(c)
  PROVE  WInv'
<1>1. /\ wLoop[c] # "works" /\ wLoop' = [wLoop EXCEPT ![c] = "works"]
      /\ UNCHANGED <<wTick, wBeat, wPassed, wWatched, wAlarms, wDown, wStalls>>
  BY DEF Recovers
<1>2. WTypesPart' /\ DownPart'
  BY <1>1 DEF WInv, WTypesPart, LoopStates, DownPart
<1>3. BeatPart'
  BY <1>1 DEF WInv, BeatPart
<1>4. WatchdogTellsTheTruth'
  BY <1>1 DEF WInv, WTypesPart, WatchdogTellsTheTruth, StallIsAlarmed, NoFalseAlarm,
     StoppedTooLong
<1> QED  BY <1>2, <1>3, <1>4 DEF WInv

LEMMA WInvKept == WInv /\ [WNext]_wVars => WInv'
<1> SUFFICES ASSUME WInv, [WNext]_wVars PROVE WInv'
  OBVIOUS
<1>1. CASE UNCHANGED wVars
  BY <1>1 DEF wVars, WInv, WTypesPart, DownPart, BeatPart, AwakeAt, InHours,
     WatchdogTellsTheTruth, StallIsAlarmed, NoFalseAlarm, StoppedTooLong
<1> QED  BY <1>1, PassKeeps, FiringKeeps, WTickKeeps, StallKeeps, RecoveryKeeps DEF WNext

(* THEOREM.  Each firing of the timer in market hours alarms every component
   that stopped turning longer ago than the limit, and on a day without a stall
   no firing alarms anybody. *)
THEOREM AlarmsAreTrue == WSpec => []WatchdogTellsTheTruth
<1>1. WInv => WatchdogTellsTheTruth
  BY DEF WInv
<1> QED  BY <1>1, WInvInitially, WInvKept, PTL DEF WSpec

-----------------------------------------------------------------------------
(* What the loop over a feed comes to: the window as it was, then headlines of
   this tick that it did not hold. *)
Grown(arts, window) ==
  /\ window \in Seq(Articles) /\ Len(arts) <= Len(window)
  /\ \A i \in 1 .. Len(arts) : window[i] = arts[i]
  /\ \A i \in Len(arts) + 1 .. Len(window) :
       window[i].at = nTick /\ window[i].title \notin Known(arts)

LEMMA OneMore ==
  ASSUME NEW arts \in Seq(Articles), NEW window, Grown(arts, window),
         NEW t \in Titles, t \notin Known(arts), nTick \in Nat
  PROVE  Grown(arts, Append(window, Fetched(t)))
<1> DEFINE w == Append(window, Fetched(t))
<1>1. Fetched(t) \in Articles /\ Fetched(t).at = nTick /\ Fetched(t).title = t
  BY DEF Fetched, Articles
<1>2. window \in Seq(Articles) /\ Len(arts) \in Nat /\ Len(window) \in Nat
  BY DEF Grown
<1>3. w \in Seq(Articles) /\ Len(w) = Len(window) + 1
  BY <1>1, <1>2
<1>4. \A i \in 1 .. Len(window) : w[i] = window[i]
  BY <1>1, <1>2
<1>5. w[Len(window) + 1] = Fetched(t)
  BY <1>1, <1>2
<1> HIDE DEF w
<1>6. Len(arts) <= Len(w)
  BY <1>2, <1>3 DEF Grown
<1>7. \A i \in 1 .. Len(arts) : w[i] = arts[i]
  BY <1>2, <1>4 DEF Grown
<1>8. ASSUME NEW i \in Len(arts) + 1 .. Len(w)
      PROVE  w[i].at = nTick /\ w[i].title \notin Known(arts)
  <2>1. CASE i = Len(window) + 1
    BY <1>1, <1>5, <2>1
  <2>2. CASE i # Len(window) + 1
    <3>1. i \in Len(arts) + 1 .. Len(window) /\ i \in 1 .. Len(window)
      BY <1>2, <1>3, <2>2
    <3> QED  BY <1>4, <3>1 DEF Grown
  <2> QED  BY <2>1, <2>2
<1> QED  BY <1>3, <1>6, <1>7, <1>8 DEF Grown, w

LEMMA AddNewGrows ==
  ASSUME NEW arts \in Seq(Articles), NEW feed \in Seq(Titles), nTick \in Nat
  PROVE  Grown(arts, AddNew(arts, feed))
<1> DEFINE N == Len(feed)
           turn(f, i) == IF i = 0 THEN arts
                         ELSE IF feed[i] \in Known(arts) THEN f[i - 1]
                         ELSE Append(f[i - 1], Fetched(feed[i]))
           added == CHOOSE f : f = [i \in 0 .. N |-> turn(f, i)]
           next == [i \in 1 .. N |-> [v \in Seq(Articles) |->
                      IF feed[i] \in Known(arts) THEN v ELSE Append(v, Fetched(feed[i]))]]
<1>1. N \in Nat /\ \A i \in 1 .. N : feed[i] \in Titles /\ Fetched(feed[i]) \in Articles
  BY DEF Fetched, Articles
<1>2. \E f : f = [i \in 0 .. N |-> turn(f, i)]
  <2>1. next \in [1 .. N -> [Seq(Articles) -> Seq(Articles)]]
    BY <1>1
  <2> HIDE DEF next
  <2>2. PICK f \in [0 .. N -> Seq(Articles)] :
          f[0] = arts /\ \A i \in 1 .. N : f[i] = next[i][f[i - 1]]
    <3> DEFINE V == Seq(Articles)
    <3>1. N \in Nat /\ arts \in V /\ next \in [1 .. N -> [V -> V]]
      BY <1>1, <2>1
    <3> HIDE DEF N, V
    <3>2. HasRun(V, N, arts, next)
      BY <3>1, LoopRuns
    <3> QED  BY <3>2 DEF V, HasRun
  <2>3. ASSUME NEW i \in 0 .. N
        PROVE  f[i] = turn(f, i)
    <3>1. CASE i = 0
      BY <2>2, <3>1
    <3>2. CASE i # 0
      <4>1. i \in 1 .. N /\ i - 1 \in 0 .. N
        BY <1>1, <3>2
      <4>2. f[i] = next[i][f[i - 1]] /\ f[i - 1] \in Seq(Articles)
        BY <2>2, <4>1
      <4> QED  BY <3>2, <4>1, <4>2 DEF next
    <3> QED  BY <3>1, <3>2
  <2>4. f = [i \in 0 .. N |-> turn(f, i)]
    <3> HIDE DEF turn
    <3> QED  BY <2>2, <2>3
  <2> QED  BY <2>4
<1>3. added = [i \in 0 .. N |-> turn(added, i)]
  BY Zenon, <1>2
<1> HIDE DEF added, next
<1>4. added[0] = arts /\ \A i \in 1 .. N : added[i] = turn(added, i)
  <2>1. ASSUME NEW i \in 0 .. N PROVE added[i] = turn(added, i)
    <3> HIDE DEF turn
    <3> QED  BY Zenon, <1>3
  <2> QED  BY <1>1, <2>1
<1> DEFINE T == {i \in 0 .. N : Grown(arts, added[i])}
<1>5. 0 \in T
  BY <1>1, <1>4 DEF Grown
<1>6. ASSUME NEW n \in 1 .. N, n - 1 \in T
      PROVE  n \in T
  <2>1. Grown(arts, added[n - 1]) /\ n \in 0 .. N /\ n # 0
    BY <1>1, <1>6
  <2>2. added[n] = IF feed[n] \in Known(arts) THEN added[n - 1]
                   ELSE Append(added[n - 1], Fetched(feed[n]))
    BY <1>4, <2>1
  <2>3. Grown(arts, added[n])
    BY <1>1, <2>1, <2>2, OneMore
  <2> QED  BY <2>1, <2>3
<1>7. 0 .. N \subseteq T
  <2> HIDE DEF T, N
  <2> QED  BY <1>1, <1>5, <1>6, UpTo
<1>8. Grown(arts, added[N])
  BY <1>1, <1>7
<1>9. AddNew(arts, feed) = added[N]
  BY DEF AddNew, added
<1> QED  BY <1>8, <1>9

-----------------------------------------------------------------------------
(* The window after pruning is the end of the window before, when that one is
   in the order of arrival. *)
InOrder(arts) == \A i, j \in DOMAIN arts : i <= j => arts[i].at <= arts[j].at

LEMMA PruneCutsTheFront ==
  ASSUME NEW arts \in Seq(Articles), InOrder(arts), nTick \in Nat
  PROVE  \E k \in 0 .. Len(arts) :
           /\ Prune(arts) \in Seq(Articles) /\ Len(Prune(arts)) = Len(arts) - k
           /\ \A i \in 1 .. Len(arts) - k :
                Prune(arts)[i] = arts[i + k] /\ arts[i + k].at >= nTick - WindowTicks
<1> DEFINE young == {i \in DOMAIN arts : arts[i].at >= nTick - WindowTicks}
<1>1. WindowTicks \in Nat /\ Len(arts) \in Nat /\ DOMAIN arts = 1 .. Len(arts)
      /\ \A i \in DOMAIN arts : arts[i].at \in Nat
  <2>1. WindowTicks \in Nat
    BY NewsAssumption
  <2>2. \A i \in DOMAIN arts : arts[i] \in Articles
    OBVIOUS
  <2>3. \A a \in Articles : a.at \in Nat
    BY DEF Articles
  <2> QED  BY <2>1, <2>2, <2>3
<1>2. CASE young = {}
  <2>1. Prune(arts) = <<>>
    BY <1>2 DEF Prune
  <2>2. Prune(arts) \in Seq(Articles) /\ Len(Prune(arts)) = 0
    BY <2>1
  <2>3. Len(arts) \in 0 .. Len(arts) /\ Len(arts) - Len(arts) = 0 /\ 1 .. 0 = {}
    BY <1>1
  <2> QED  BY <2>2, <2>3
<1>3. CASE young # {}
  <2> DEFINE first == Min(young)
  <2>1. young \subseteq Nat
    BY <1>1
  <2>2. \E x \in young : \A y \in young : x <= y
    <3> HIDE DEF young
    <3> QED  BY <1>3, <2>1, LeastOne
  <2>3. first \in young
    BY <2>2 DEF Min
  <2>4. Prune(arts) = SubSeq(arts, first, Len(arts))
    BY <1>3 DEF Prune
  <2>5. first \in 1 .. Len(arts) /\ arts[first].at >= nTick - WindowTicks
    BY <1>1, <2>3
  <2> HIDE DEF first, young
  <2> DEFINE k == first - 1
  <2>6. k \in 0 .. Len(arts) /\ first = k + 1
    BY <1>1, <2>5
  <2>7. /\ Prune(arts) \in Seq(Articles) /\ Len(Prune(arts)) = Len(arts) - k
        /\ \A i \in 1 .. Len(arts) - k : Prune(arts)[i] = arts[i + k]
    BY <1>1, <2>4, <2>5, <2>6
  <2>8. ASSUME NEW i \in 1 .. Len(arts) - k
        PROVE  arts[i + k].at >= nTick - WindowTicks
    <3>1. i + k \in DOMAIN arts /\ first \in DOMAIN arts /\ first <= i + k
      BY <1>1, <2>5, <2>6
    <3>2. arts[first].at <= arts[i + k].at
      BY <3>1 DEF InOrder
    <3> QED  BY <1>1, <2>5, <3>1, <3>2
  <2> HIDE DEF k
  <2> QED  BY <2>6, <2>7, <2>8
<1> QED  BY <1>2, <1>3

(* Two of a set, and its greatest. *)
LEMMA TwoOf ==
  ASSUME NEW S, IsFiniteSet(S), ~ (Cardinality(S) < 2)
  PROVE  \E i, j \in S : i # j
<1>1. Cardinality(S) \in Nat
  BY FS_CardinalityType
<1>2. S # {}
  BY <1>1, FS_EmptySet
<1>3. PICK i \in S : TRUE
  BY <1>2
<1>4. S # {i}
  BY <1>1, FS_Singleton
<1> QED  BY <1>3, <1>4

LEMMA GreatestOf ==
  ASSUME NEW n \in Nat, NEW S, S \subseteq 1 .. n, S # {}
  PROVE  Max(S) \in S
<1> DEFINE T == {n - x : x \in S}
<1>1. T \subseteq Nat /\ T # {}
  <2>1. \A x \in S : n - x \in Nat
    OBVIOUS
  <2> QED  BY <2>1
<1>2. PICK t \in T : \A u \in T : t <= u
  <2> HIDE DEF T
  <2> QED  BY <1>1, LeastOne
<1>3. PICK x \in S : t = n - x
  BY <1>2
<1>4. \A y \in S : x >= y
  <2> SUFFICES ASSUME NEW y \in S PROVE x >= y
    OBVIOUS
  <2>1. n - y \in T
    OBVIOUS
  <2>2. t <= n - y
    BY <1>2, <2>1
  <2>3. x \in Int /\ y \in Int
    OBVIOUS
  <2> HIDE DEF T
  <2> QED  BY <1>3, <2>2, <2>3
<1> HIDE DEF T
<1> QED  BY <1>4 DEF Max

-----------------------------------------------------------------------------
NInv == NTypeOK /\ HeadlinesAreOfOneFetch /\ InOrder(nArticles)

(* What a fetch does to the window and to the mark. *)
LEMMA FetchKeeps ==
  ASSUME NInv, FetchAndUpdate
  PROVE  /\ NInv'
         /\ \A i \in DOMAIN nArticles' : nArticles'[i].at >= nTick - WindowTicks
         /\ nShift' \notin {NoneShift, nShift} =>
              \E i, j \in DOMAIN nArticles :
                i # j /\ \A k \in {i, j} : nArticles[k].at < nTick - RecentTicks
<1>1. PICK feed \in Feeds :
        /\ nArticles' = Prune(AddNew(nArticles, feed))
        /\ nShift' = IF /\ Len(AddNew(nArticles, feed)) > Len(nArticles)
                        /\ ShiftOf(Prune(AddNew(nArticles, feed))) # NoneShift
                     THEN ShiftOf(Prune(AddNew(nArticles, feed))) ELSE nShift
  BY DEF FetchAndUpdate
<1>2. nTick' = nTick /\ nFaults' = nFaults /\ nFetched' = TRUE
  BY DEF FetchAndUpdate
<1> DEFINE grown == AddNew(nArticles, feed)
<1>3. feed \in Seq(Titles)
  BY NewsAssumption DEF Feeds
<1>4. nArticles \in Seq(Articles) /\ nTick \in Nat /\ InOrder(nArticles)
  BY NewsAssumption DEF NInv, NTypeOK
<1>5. Grown(nArticles, grown)
  BY <1>3, <1>4, AddNewGrows
<1> HIDE DEF grown
<1>6. /\ grown \in Seq(Articles) /\ Len(grown) \in Nat /\ DOMAIN grown = 1 .. Len(grown)
      /\ Len(nArticles) \in Nat /\ DOMAIN nArticles = 1 .. Len(nArticles)
      /\ Len(nArticles) <= Len(grown)
      /\ \A i \in 1 .. Len(grown) : grown[i].at \in 0 .. nTick /\ grown[i].title \in Titles
  <2>1. grown \in Seq(Articles) /\ Len(nArticles) <= Len(grown)
    BY <1>5 DEF Grown
  <2>2. Len(grown) \in Nat /\ DOMAIN grown = 1 .. Len(grown)
        /\ \A i \in 1 .. Len(grown) : grown[i] \in Articles
    BY <2>1
  <2>3. Len(nArticles) \in Nat /\ DOMAIN nArticles = 1 .. Len(nArticles)
    BY <1>4
  <2>4. \A a \in Articles : a.at \in 0 .. nTick /\ a.title \in Titles
    BY DEF Articles
  <2> QED  BY <2>1, <2>2, <2>3, <2>4
<1>7. \A i \in 1 .. Len(nArticles) : grown[i] = nArticles[i]
  BY <1>5 DEF Grown
<1>8. \A i \in 1 .. Len(grown) : i \notin 1 .. Len(nArticles) =>
        grown[i].at = nTick /\ grown[i].title \notin Known(nArticles)
  BY <1>5, <1>6 DEF Grown
<1>9. InOrder(grown)
  <2> SUFFICES ASSUME NEW i \in 1 .. Len(grown), NEW j \in 1 .. Len(grown), i <= j
               PROVE  grown[i].at <= grown[j].at
    BY <1>6 DEF InOrder
  <2>1. CASE j \in 1 .. Len(nArticles)
    <3>1. i \in 1 .. Len(nArticles)
      BY <1>6, <2>1
    <3> QED  BY <1>4, <1>6, <1>7, <2>1, <3>1 DEF InOrder
  <2>2. CASE j \notin 1 .. Len(nArticles)
    BY <1>4, <1>6, <1>8, <2>2
  <2> QED  BY <2>1, <2>2
<1>10. \A i, j \in 1 .. Len(grown) : grown[i].title = grown[j].title => grown[i].at = grown[j].at
  <2>1. \A i \in 1 .. Len(nArticles) : grown[i].title \in Known(nArticles)
    BY <1>6, <1>7 DEF Known
  <2>2. \A i, j \in 1 .. Len(nArticles) :
          nArticles[i].title = nArticles[j].title => nArticles[i].at = nArticles[j].at
    BY <1>6 DEF NInv, HeadlinesAreOfOneFetch
  <2> QED  BY <1>7, <1>8, <2>1, <2>2
<1>11. PICK k \in 0 .. Len(grown) :
         /\ nArticles' \in Seq(Articles) /\ Len(nArticles') = Len(grown) - k
         /\ \A i \in 1 .. Len(grown) - k :
              nArticles'[i] = grown[i + k] /\ grown[i + k].at >= nTick - WindowTicks
  BY <1>1, <1>4, <1>6, <1>9, PruneCutsTheFront DEF grown
<1> DEFINE n == Len(grown) - k
<1>12. /\ n \in Nat /\ DOMAIN nArticles' = 1 .. n
       /\ \A i \in 1 .. n : i + k \in 1 .. Len(grown) /\ nArticles'[i] = grown[i + k]
  BY <1>6, <1>11
<1>13. \A i \in DOMAIN nArticles' : nArticles'[i].at >= nTick - WindowTicks
  BY <1>11, <1>12
<1> HIDE DEF n
<1>14. InOrder(nArticles')
  <2> SUFFICES ASSUME NEW i \in 1 .. n, NEW j \in 1 .. n, i <= j
               PROVE  nArticles'[i].at <= nArticles'[j].at
    BY <1>12 DEF InOrder
  <2>1. i + k <= j + k
    BY <1>12, <1>6
  <2>2. i + k \in 1 .. Len(grown) /\ j + k \in 1 .. Len(grown)
    BY <1>12
  <2>3. grown[i + k].at <= grown[j + k].at
    BY <1>6, <1>9, <2>1, <2>2 DEF InOrder
  <2> QED  BY <1>12, <2>3
<1>15. HeadlinesAreOfOneFetch'
  <2> SUFFICES ASSUME NEW i \in 1 .. n, NEW j \in 1 .. n,
                      nArticles'[i].title = nArticles'[j].title
               PROVE  nArticles'[i].at = nArticles'[j].at
    BY <1>12 DEF HeadlinesAreOfOneFetch
  <2>1. /\ i + k \in 1 .. Len(grown) /\ nArticles'[i] = grown[i + k]
        /\ j + k \in 1 .. Len(grown) /\ nArticles'[j] = grown[j + k]
    BY <1>12
  <2> QED  BY <1>10, <2>1
<1>16. Articles' = Articles
  BY <1>2 DEF Articles
<1>17. ASSUME nShift' # nShift, nShift' # NoneShift
       PROVE  /\ nShift' = ShiftOf(nArticles')
              /\ ~ (Cardinality(RecentArts(nArticles')) < 2)
              /\ ~ (Cardinality(PriorArts(nArticles')) < 2)
              /\ nShift'.headline = nArticles'[Max(RecentArts(nArticles'))].title
  <2>1. nShift' = ShiftOf(nArticles')
    BY <1>1, <1>17
  <2> DEFINE w == nArticles'
  <2>2. ShiftOf(w) # NoneShift
    BY <1>17, <2>1
  <2> HIDE DEF w
  <2>3. /\ ~ (Cardinality(RecentArts(w)) < 2) /\ ~ (Cardinality(PriorArts(w)) < 2)
        /\ ShiftOf(w).headline = w[Max(RecentArts(w))].title
    BY <2>2 DEF ShiftOf
  <2> QED  BY <2>1, <2>3 DEF w
<1>18. /\ RecentArts(nArticles') \subseteq 1 .. n /\ PriorArts(nArticles') \subseteq 1 .. n
       /\ IsFiniteSet(RecentArts(nArticles')) /\ IsFiniteSet(PriorArts(nArticles'))
  <2>1. RecentArts(nArticles') \subseteq 1 .. n /\ PriorArts(nArticles') \subseteq 1 .. n
    BY <1>12 DEF RecentArts, PriorArts
  <2>2. IsFiniteSet(1 .. n)
    BY <1>12, FS_Interval
  <2> QED  BY <2>1, <2>2, FS_Subset
<1>19. nShift' = NoneShift \/ nShift'.headline \in Titles
  <2>1. CASE nShift' = nShift \/ nShift' = NoneShift
    BY <2>1 DEF NInv, NTypeOK
  <2>2. CASE nShift' # nShift /\ nShift' # NoneShift
    <3>1. RecentArts(nArticles') # {}
      BY <1>17, <1>18, <2>2, TwoOf
    <3>2. Max(RecentArts(nArticles')) \in 1 .. n
      BY <1>12, <1>18, <3>1, GreatestOf
    <3> QED  BY <1>6, <1>12, <1>17, <2>2, <3>2
  <2> QED  BY <2>1, <2>2
<1>20. ASSUME nShift' # nShift, nShift' # NoneShift
       PROVE  \E i, j \in DOMAIN nArticles :
                i # j /\ \A m \in {i, j} : nArticles[m].at < nTick - RecentTicks
  <2>1. PICK i, j \in PriorArts(nArticles') : i # j
    BY <1>17, <1>18, <1>20, TwoOf
  <2>2. ASSUME NEW m \in {i, j}
        PROVE  /\ m \in Nat /\ m + k \in DOMAIN nArticles
               /\ nArticles[m + k].at < nTick - RecentTicks
    <3>1. m \in 1 .. n /\ nArticles'[m].at < nTick - RecentTicks
      BY <1>18, <2>1, <2>2 DEF PriorArts
    <3>2. m + k \in 1 .. Len(grown) /\ grown[m + k].at < nTick - RecentTicks
      BY <1>12, <3>1
    <3>3. RecentTicks \in Nat
      BY NewsAssumption
    <3>4. m + k \in 1 .. Len(nArticles)
      BY <1>4, <1>8, <3>2, <3>3
    <3> QED  BY <1>6, <1>7, <3>1, <3>2, <3>4
  <2>3. i + k # j + k
    BY <2>1, <2>2
  <2> QED  BY <2>2, <2>3
<1>21. NTypeOK'
  BY <1>2, <1>11, <1>16, <1>19 DEF NInv, NTypeOK
<1>22. NInv'
  BY <1>14, <1>15, <1>21 DEF NInv
<1> QED  BY <1>13, <1>20, <1>22

\* Every other step keeps the window, or drops it.
LEMMA WindowRests ==
  ASSUME NInv, nTick' \in nTick .. LastNewsTick, nFetched' \in BOOLEAN,
         nFaults' \in 0 .. MaxNewsFaults, nArticles' \in {nArticles, <<>>},
         nShift' \in {nShift, NoneShift}
  PROVE  NInv'
<1>1. nTick \in Nat /\ nTick' \in Nat /\ nTick <= nTick' /\ nTick' \in 0 .. LastNewsTick
  BY NewsAssumption DEF NInv, NTypeOK
<1>2. Articles \subseteq Articles'
  BY <1>1 DEF Articles
<1>3. nArticles' \in Seq(Articles')
  <2>1. CASE nArticles' = <<>>
    BY <2>1
  <2>2. CASE nArticles' = nArticles
    <3>1. \A i \in 1 .. Len(nArticles) : nArticles[i] \in Articles'
      BY <1>2 DEF NInv, NTypeOK
    <3>2. nArticles \in [1 .. Len(nArticles) -> Articles'] /\ Len(nArticles) \in Nat
      BY <3>1 DEF NInv, NTypeOK
    <3> QED  BY <2>2, <3>2
  <2> QED  BY <2>1, <2>2
<1>4. NTypeOK'
  <2>1. nShift' = NoneShift \/ nShift'.headline \in Titles
    BY DEF NInv, NTypeOK
  <2> QED  BY <1>1, <1>3, <2>1 DEF NTypeOK
<1>5. HeadlinesAreOfOneFetch' /\ InOrder(nArticles')
  BY DEF NInv, HeadlinesAreOfOneFetch, InOrder
<1> QED  BY <1>4, <1>5 DEF NInv

(* NewsCountsOnce (news_monitor.py): a headline that is still in the feed is not
   counted again, the window stays in order although only its front is pruned,
   and no shift is marked that two headlines of more than four hours ago do not
   stand behind, whatever the feeds, the window and the faults. *)
THEOREM NewsIsCounted == NSpec => NewsCountsOnce
<1>1. NInit => NInv
  <2> SUFFICES ASSUME NInit PROVE NInv
    OBVIOUS
  <2>1. LastNewsTick \in Nat /\ MaxNewsFaults \in Nat
    BY NewsAssumption
  <2>2. nArticles = <<>> /\ DOMAIN nArticles = {}
    BY DEF NInit
  <2>3. nArticles \in Seq(Articles)
    BY <2>2
  <2>4. nTick \in 0 .. LastNewsTick /\ nFaults \in 0 .. MaxNewsFaults
    BY <2>1 DEF NInit
  <2>5. nFetched \in BOOLEAN /\ (nShift = NoneShift \/ nShift.headline \in Titles)
    BY Zenon DEF NInit
  <2>6. HeadlinesAreOfOneFetch /\ InOrder(nArticles)
    BY <2>2 DEF HeadlinesAreOfOneFetch, InOrder
  <2> QED  BY <2>3, <2>4, <2>5, <2>6 DEF NInv, NTypeOK
<1> DEFINE Ordered ==
             nArticles' # nArticles =>
               \A i \in DOMAIN nArticles' :
                 /\ nArticles'[i].at >= nTick - WindowTicks
                 /\ \A j \in 1 .. i : nArticles'[j].at <= nArticles'[i].at
           Founded ==
             nShift' \notin {NoneShift, nShift} =>
               \E i, j \in DOMAIN nArticles :
                 i # j /\ \A k \in {i, j} : nArticles[k].at < nTick - RecentTicks
<1>2. ASSUME NInv, [NNext]_nVars
      PROVE  NInv' /\ Ordered /\ Founded
  <2>1. CASE FetchAndUpdate
    <3>1. NInv' /\ Founded /\ \A i \in DOMAIN nArticles' : nArticles'[i].at >= nTick - WindowTicks
      BY <1>2, <2>1, FetchKeeps
    <3>2. nArticles' \in Seq(Articles') /\ InOrder(nArticles')
      BY <3>1 DEF NInv, NTypeOK
    <3>3. \A i \in DOMAIN nArticles' : \A j \in 1 .. i : nArticles'[j].at <= nArticles'[i].at
      BY <3>2 DEF InOrder
    <3> QED  BY <3>1, <3>3
  <2>2. CASE FetchFails \/ SnapshotTaken \/ NTickPasses \/ ProcessRestarts \/ UNCHANGED nVars
    <3>1. /\ nTick \in 0 .. LastNewsTick /\ nFetched \in BOOLEAN /\ nFaults \in 0 .. MaxNewsFaults
          /\ LastNewsTick \in Nat /\ MaxNewsFaults \in Nat
      <4>1. LastNewsTick \in Nat /\ MaxNewsFaults \in Nat
        BY NewsAssumption
      <4> QED  BY <1>2, <4>1 DEF NInv, NTypeOK
    <3>2. /\ nTick' \in nTick .. LastNewsTick
          /\ nFaults' \in 0 .. MaxNewsFaults
          /\ nArticles' \in {nArticles, <<>>} /\ nShift' \in {nShift, NoneShift}
      <4>1. CASE FetchFails
        BY <3>1, <4>1 DEF FetchFails
      <4>2. CASE SnapshotTaken
        BY <3>1, <4>2 DEF SnapshotTaken, ShiftTaken
      <4>3. CASE NTickPasses
        BY <3>1, <4>3 DEF NTickPasses
      <4>4. CASE ProcessRestarts
        BY <3>1, <4>4 DEF ProcessRestarts
      <4>5. CASE UNCHANGED nVars
        BY <3>1, <4>5 DEF nVars
      <4> QED  BY <2>2, <4>1, <4>2, <4>3, <4>4, <4>5
    <3>3. nFetched' \in BOOLEAN
      BY Zenon, <2>2, <3>1 DEF FetchFails, SnapshotTaken, NTickPasses, ProcessRestarts, nVars
    <3>4. NInv'
      BY <1>2, <3>2, <3>3, WindowRests
    <3> QED  BY <3>2, <3>4
  <2> QED  BY <1>2, <2>1, <2>2 DEF NNext
<1>3. NInv => NTypeOK /\ HeadlinesAreOfOneFetch
  BY DEF NInv
<1>4. NInv /\ [NNext]_nVars => NInv' /\ [Ordered]_nVars /\ [Founded]_nVars
  BY <1>2
<1> QED
  BY <1>1, <1>3, <1>4, PTL DEF NSpec, NewsCountsOnce, WindowIsOrdered, ShiftNeedsAPast

-----------------------------------------------------------------------------
(* What an alert expects of the price is up or down, or the reading is none to
   alert. *)
LEMMA AlertsHaveADirection ==
  ASSUME NEW r
  PROVE  Direction(r) \in {-1, 0, 1} /\ (AlertWorthy(r) => Direction(r) # 0)
<1> DEFINE buy == r.signal = "Strong Buy"
           sell == r.signal = "Strong Sell"
           low == r.rsi < 35
           high == r.rsi > 68
<1>1. AlertWorthy(r) => low \/ high \/ buy \/ sell
  BY Zenon DEF AlertWorthy
<1>2. Direction(r) = IF buy THEN 1 ELSE IF sell THEN -1
                     ELSE IF low THEN 1 ELSE IF high THEN -1 ELSE 0
  BY Zenon DEF Direction
<1> HIDE DEF buy, sell, low, high
<1> QED  BY <1>1, <1>2

(* Quotients are in order. *)
LEMMA Quotients ==
  ASSUME NEW n \in Nat \ {0}, NEW a \in Int, NEW b \in Int, NEW p \in Nat, NEW q \in Nat,
         n * a <= p, p < n * a + n, n * b <= q, q < n * b + n, p <= q
  PROVE  a <= b
<1> SUFFICES ASSUME b + 1 <= a PROVE FALSE
  OBVIOUS
<1>1. a - (b + 1) \in Nat
  OBVIOUS
<1> DEFINE d == a - (b + 1)
<1>2. n * d \in Nat
  BY <1>1
<1>3. n * a = n * b + n + n * d
  OBVIOUS
<1> HIDE DEF d
<1> QED  BY <1>2, <1>3

(* The days of the loop are in order, and a day's worth of passes apart two
   passes are of two days. *)
LEMMA DaysAreInOrder ==
  ASSUME NEW p \in Nat, NEW q \in Nat, p <= q
  PROVE  /\ CDay(p) \in Int /\ CDay(p) <= CDay(q)
         /\ q - p >= CPassesPerDay => CDay(p) # CDay(q)
<1> DEFINE n == CPassesPerDay
           a == p \div n
           b == q \div n
<1>1. n \in Nat \ {0}
  BY CryptoAssumption
<1>2. /\ a \in Int /\ b \in Int
      /\ n * a <= p /\ p < n * a + n
      /\ n * b <= q /\ q < n * b + n
  BY <1>1
<1>3. CDay(p) = a /\ CDay(q) = b
  BY DEF CDay
<1> HIDE DEF n, a, b
<1>4. a <= b
  BY <1>1, <1>2, Quotients
<1>5. q - p >= n => a # b
  BY <1>1, <1>2
<1> QED  BY <1>2, <1>3, <1>4, <1>5 DEF n

LEMMA NextIsOneOfThem ==
  ASSUME NEW keys, keys # {}
  PROVE  NextKey(keys) \in keys
<1> DEFINE ranks == {Turn(k) : k \in keys}
<1>1. \A k : Turn(k) \in Nat
  BY DEF Turn
<1>2. ranks \subseteq Nat /\ ranks # {}
  BY <1>1
<1>3. PICK x \in ranks : \A y \in ranks : x <= y
  BY <1>2, LeastOne
<1>4. PICK k \in keys : Turn(k) = x
  BY <1>3
<1>5. \E j \in keys : \A l \in keys : Turn(j) <= Turn(l)
  BY <1>3, <1>4
<1> QED  BY Zenon, <1>5 DEF NextKey

LEMMA KeysAreFinite ==
  /\ IsFiniteSet(Keys)
  /\ \A k \in Keys : k.kind = "signal" => k.coin \in Coins /\ k = Key("signal", k.coin)
  /\ \A c \in Coins : Key("signal", c) \in Keys /\ Key("signal", c).coin = c
                      /\ Key("signal", c).kind = "signal"
<1>1. IsFiniteSet(Coins)
  BY CryptoAssumption
<1>2. ASSUME NEW k \in Keys, k.kind = "signal"
      PROVE  k.coin \in Coins /\ k = Key("signal", k.coin)
  <2>1. CASE k \in {Key(x, AnyCoin) : x \in {"morning", "evening"}}
    <3>1. k.kind \in {"morning", "evening"}
      BY <2>1 DEF Key
    <3> QED  BY <1>2, <3>1
  <2>2. CASE k \in {Key(x, c) : x \in {"signal", "book", "dip"}, c \in Coins}
    <3>1. PICK x \in {"signal", "book", "dip"}, c \in Coins : k = Key(x, c)
      BY <2>2
    <3> QED  BY <1>2, <3>1 DEF Key
  <2> QED  BY <2>1, <2>2 DEF Keys
<1>3. \A c \in Coins : Key("signal", c) \in Keys /\ Key("signal", c).coin = c
                      /\ Key("signal", c).kind = "signal"
  <2> SUFFICES ASSUME NEW c \in Coins
               PROVE  Key("signal", c) \in Keys /\ Key("signal", c).coin = c
                      /\ Key("signal", c).kind = "signal"
    OBVIOUS
  <2>1. Key("signal", c) \in {Key(x, d) : x \in {"signal", "book", "dip"}, d \in Coins}
    OBVIOUS
  <2>2. Key("signal", c).coin = c /\ Key("signal", c).kind = "signal"
    BY DEF Key
  <2> QED  BY <2>1, <2>2 DEF Keys
<1>4. IsFiniteSet(Keys)
  <2> DEFINE kinds == {"morning", "evening", "signal", "book", "dip"}
             pairs == kinds \X (Coins \cup {AnyCoin})
             image == {Key(x[1], x[2]) : x \in pairs}
             f == [x \in pairs |-> Key(x[1], x[2])]
  <2>1. IsFiniteSet(kinds)
    <3>1. IsFiniteSet({"morning"} \cup {"evening"}) /\ IsFiniteSet({"signal"} \cup {"book"})
      BY FS_Singleton, FS_Union
    <3>2. IsFiniteSet(({"morning"} \cup {"evening"}) \cup ({"signal"} \cup {"book"}))
      BY <3>1, FS_Union
    <3>3. IsFiniteSet((({"morning"} \cup {"evening"}) \cup ({"signal"} \cup {"book"})) \cup {"dip"})
      BY <3>2, FS_AddElement
    <3>4. kinds = (({"morning"} \cup {"evening"}) \cup ({"signal"} \cup {"book"})) \cup {"dip"}
      OBVIOUS
    <3> QED  BY <3>3, <3>4
  <2>2. IsFiniteSet(Coins \cup {AnyCoin})
    BY <1>1, FS_AddElement
  <2> HIDE DEF kinds
  <2>3. IsFiniteSet(pairs)
    BY <2>1, <2>2, FS_Product
  <2>4. f \in Surjection(pairs, image)
    BY DEF Surjection
  <2>5. IsFiniteSet(image)
    <3> HIDE DEF f, image, pairs
    <3> QED  BY <2>3, <2>4, FS_Surjection
  <2>6. Keys \subseteq image
    <3> SUFFICES ASSUME NEW k \in Keys PROVE k \in image
      OBVIOUS
    <3>1. PICK kind \in kinds, coin \in Coins \cup {AnyCoin} : k = Key(kind, coin)
      BY DEF Keys, kinds
    <3>2. <<kind, coin>> \in pairs /\ <<kind, coin>>[1] = kind /\ <<kind, coin>>[2] = coin
      OBVIOUS
    <3> QED  BY <3>1, <3>2
  <2> HIDE DEF image
  <2> QED  BY <2>5, <2>6, FS_Subset
<1> QED  BY <1>2, <1>3, <1>4

-----------------------------------------------------------------------------
(* The inductive invariant, in parts. *)
CHistories == [sent : [Keys -> Nat], alerts : [Coins -> Nat], torn : BOOLEAN]

CTypes == CTypeOK /\ chist \in CHistories

Pending == cdoing.do # "nothing"
Recording == cdoing.do = "record"

(* Outside its work a pass has nothing to send and nothing begun; what is begun
   is not to be sent again. *)
PhasePart ==
  /\ cphase # "work" => cwork = {} /\ ~ Pending
  /\ Pending => cdoing.key \notin cwork
  /\ Recording => cdoing.key.kind = "signal" /\ AlertWorthy(creading[cdoing.key.coin])

(* What the pass wanted when it started it still may send. *)
WantedPart ==
  \A k \in cwork :
    IF k.kind = "signal" THEN CooledDown(k) /\ AlertWorthy(creading[k.coin])
    ELSE ~ MarkedToday(k)

(* Every alert still to be recorded has its room (a bound of the model). *)
RoomPart ==
  Len(crows) + Cardinality(SignalsOf(cwork)) + (IF Recording THEN 1 ELSE 0) <= MaxCRows

(* What was sent is marked, or too old for its mark to matter, or about to be. *)
Remembered(k) ==
  \/ chist.sent[k] <= cmarks[k]
  \/ cpass + 1 - chist.sent[k] >= MaxAge
  \/ Pending /\ cdoing.key = k
MarkPart ==
  /\ \A k \in Keys : chist.sent[k] <= cpass + 1
  /\ ~ chist.torn => \A k \in Keys : Remembered(k)

(* What was sent as an alert has a row, or is about to. *)
RowsOf(c) == {i \in DOMAIN crows : crows[i].coin = c}
RowPart ==
  ~ chist.torn =>
    \A c \in Coins :
      chist.alerts[c] <= Cardinality(RowsOf(c))
        + (IF Recording /\ cdoing.key = Key("signal", c) THEN 1 ELSE 0)

CInv == CTypes /\ PhasePart /\ WantedPart /\ RoomPart /\ MarkPart /\ RowPart

(* The steps, as the properties judge them. *)
OnceStep ==
  \A k \in Keys :
    k.kind # "signal" /\ ~ chist.torn /\ GoesOut(k) /\ chist.sent[k] > 0
    => CDay(chist.sent[k] - 1) # CDay(cpass)
SpacedStep ==
  \A c \in Coins : LET k == Key("signal", c) IN
    ~ chist.torn /\ GoesOut(k) /\ chist.sent[k] > 0
    => cpass + 1 - chist.sent[k] >= SignalCooldown
BookedStep ==
  \A i \in DOMAIN crows, h \in CHorizons :
    crows[i].outcome[h] # "none" => crows'[i].outcome[h] = crows[i].outcome[h]
VerdictStep ==
  \A i \in DOMAIN crows, h \in CHorizons :
    /\ crows[i].outcome[h] = "none" /\ crows'[i].outcome[h] # "none"
    => LET moved == cprice'[crows[i].coin] - crows[i].price
       IN  /\ crows'[i].outcome[h] = "WIN" => crows[i].direction * moved >= 0
           /\ crows'[i].outcome[h] = "LOSS" => crows[i].direction * moved <= 0
GoodStep == CInv' /\ OnceStep /\ SpacedStep /\ BookedStep /\ VerdictStep

LEMMA CInitOK == CInit => CInv
<1> SUFFICES ASSUME CInit PROVE CInv
  OBVIOUS
<1>1. /\ cpass = 0 /\ cphase = "wake" /\ cwork = {} /\ cdoing = NoTask
      /\ cmarks = [k \in Keys |-> 0] /\ crows = <<>> /\ cfaults = 0
      /\ chist = [sent |-> [k \in Keys |-> 0], alerts |-> [c \in Coins |-> 0], torn |-> FALSE]
  BY DEF CInit
<1>2. cdoing.do = "nothing" /\ cdoing.key \in Keys
      /\ cdoing \in [do : {"nothing", "record", "mark"}, key : Keys]
  <2>1. Key("morning", AnyCoin) \in Keys
    BY DEF Keys
  <2> QED  BY <1>1, <2>1 DEF NoTask, Task
<1>3. /\ LastCPass \in Nat /\ MaxCFaults \in Nat /\ MaxCRows \in Nat
  BY CryptoAssumption
<1>4. cprice \in [Coins -> CPrices] /\ creading \in [Coins -> Readings]
  <2>1. CPrices # {} /\ Readings # {}
    BY CryptoAssumption
  <2>2. (CHOOSE p \in CPrices : TRUE) \in CPrices /\ (CHOOSE r \in Readings : TRUE) \in Readings
    BY <2>1
  <2> QED  BY <2>2 DEF CInit
<1>5. chist \in CHistories
  BY <1>1 DEF CHistories
<1>6. /\ cphase \in {"wake", "work", "sleep"} /\ cwork \subseteq Keys
      /\ cmarks \in [Keys -> 0 .. cpass + 1]
      /\ crows \in Seq(CRows) /\ Len(crows) = 0
  BY <1>1
<1>7. CTypes
  BY <1>1, <1>2, <1>3, <1>4, <1>5, <1>6 DEF CTypes, CTypeOK
<1>8. PhasePart /\ WantedPart /\ ~ Recording
  BY <1>1, <1>2 DEF PhasePart, WantedPart, Recording, Pending
<1>9. RoomPart
  <2>1. SignalsOf(cwork) = {}
    BY <1>1 DEF SignalsOf
  <2>2. Cardinality(SignalsOf(cwork)) = 0
    BY <2>1, FS_EmptySet
  <2> QED  BY <1>3, <1>6, <1>8, <2>2 DEF RoomPart
<1>10. MarkPart
  BY <1>1 DEF MarkPart, Remembered
<1>11. RowPart
  <2>1. \A c \in Coins : RowsOf(c) = {}
    BY <1>1 DEF RowsOf
  <2>2. \A c \in Coins : Cardinality(RowsOf(c)) = 0 /\ chist.alerts[c] = 0
    BY <1>1, <2>1, FS_EmptySet
  <2> QED  BY <1>8, <2>2 DEF RowPart
<1> QED  BY <1>7, <1>8, <1>9, <1>10, <1>11 DEF CInv

LEMMA NothingGoesOut ==
  ASSUME cwork' = cwork \/ cwork = {} \/ cfaults' # cfaults
  PROVE  OnceStep /\ SpacedStep
<1>1. \A k : ~ GoesOut(k)
  BY DEF GoesOut
<1> QED  BY <1>1 DEF OnceStep, SpacedStep

LEMMA OutcomesStay ==
  ASSUME \A i \in DOMAIN crows : crows'[i] = crows[i]
  PROVE  BookedStep /\ VerdictStep
BY DEF BookedStep, VerdictStep

LEMMA CryptoFacts ==
  ASSUME CTypes
  PROVE  /\ cpass \in Nat /\ cpass <= LastCPass /\ LastCPass \in Nat
         /\ MaxCRows \in Nat /\ MaxCFaults \in Nat /\ MaxAge \in Nat /\ MaxAge >= CPassesPerDay
         /\ CPassesPerDay \in Nat \ {0} /\ SignalCooldown \in Nat /\ MaxAge >= SignalCooldown
         /\ \A k \in Keys : cmarks[k] \in Nat /\ cmarks[k] <= cpass + 1 /\ chist.sent[k] \in Nat
         /\ \A c \in Coins : chist.alerts[c] \in Nat
         /\ Len(crows) \in Nat /\ DOMAIN crows = 1 .. Len(crows)
         /\ \A i \in DOMAIN crows : crows[i] \in CRows
         /\ cfaults \in Nat /\ cfaults <= MaxCFaults
<1>1. CTypeOK /\ chist \in CHistories
  BY DEF CTypes
<1>2. LastCPass \in Nat /\ MaxCRows \in Nat /\ MaxCFaults \in Nat
  BY CryptoAssumption
<1>3. /\ MaxAge \in Nat /\ MaxAge >= CPassesPerDay /\ CPassesPerDay \in Nat \ {0}
      /\ SignalCooldown \in Nat /\ MaxAge >= SignalCooldown
  BY CryptoAssumption
<1>4. cpass \in Nat /\ cpass <= LastCPass /\ cfaults \in Nat /\ cfaults <= MaxCFaults
  BY <1>1, <1>2 DEF CTypeOK
<1>5. \A k \in Keys : cmarks[k] \in Nat /\ cmarks[k] <= cpass + 1
  BY <1>1, <1>4 DEF CTypeOK
<1>6. \A k \in Keys : chist.sent[k] \in Nat
  BY <1>1 DEF CHistories
<1>7. \A c \in Coins : chist.alerts[c] \in Nat
  BY <1>1 DEF CHistories
<1>8. crows \in Seq(CRows)
  BY <1>1 DEF CTypeOK
<1> QED  BY <1>2, <1>3, <1>4, <1>5, <1>6, <1>7, <1>8

LEMMA SignalsAreFinite ==
  ASSUME NEW keys \in SUBSET Keys
  PROVE  IsFiniteSet(SignalsOf(keys)) /\ Cardinality(SignalsOf(keys)) \in Nat
<1>1. SignalsOf(keys) \subseteq Keys
  BY DEF SignalsOf
<1> QED  BY <1>1, KeysAreFinite, FS_Subset, FS_CardinalityType

LEMMA RowsAreCounted ==
  ASSUME CTypes, NEW c
  PROVE  IsFiniteSet(RowsOf(c)) /\ Cardinality(RowsOf(c)) \in Nat
<1>1. RowsOf(c) \subseteq 1 .. Len(crows) /\ Len(crows) \in Nat
  BY CryptoFacts DEF RowsOf
<1>2. IsFiniteSet(1 .. Len(crows))
  BY <1>1, FS_Interval
<1> QED  BY <1>1, <1>2, FS_Subset, FS_CardinalityType

(* The verdict on a row goes the alert's way when it says WIN. *)
LEMMA VerdictsAreSigned ==
  ASSUME NEW row \in CRows, NEW h \in CHorizons, NEW price \in Nat, cpass \in Nat
  PROVE  /\ Verdict(row, h, price) \in {"WIN", "LOSS", "NEUTRAL"}
         /\ Verdict(row, h, price) = "WIN" => row.direction * (price - row.price) >= 0
         /\ Verdict(row, h, price) = "LOSS" => row.direction * (price - row.price) <= 0
<1> DEFINE moved == row.direction * (price - row.price)
           least == Threshold[h] * row.price
<1>1. row.price \in Nat /\ row.direction \in {-1, 1}
  <2>1. CPrices \subseteq Nat
    BY CryptoAssumption
  <2> QED  BY <2>1 DEF CRows
<1>2. least \in Nat
  <2>1. Threshold[h] \in Nat
    BY CryptoAssumption
  <2> QED  BY <1>1, <2>1
<1>3. moved \in Int
  BY <1>1
<1>4. Verdict(row, h, price) = IF moved * 100 >= least THEN "WIN"
                               ELSE IF moved * 100 <= -least THEN "LOSS" ELSE "NEUTRAL"
  BY Zenon DEF Verdict
<1> HIDE DEF moved, least
<1>5. /\ Verdict(row, h, price) \in {"WIN", "LOSS", "NEUTRAL"}
      /\ Verdict(row, h, price) = "WIN" => moved >= 0
      /\ Verdict(row, h, price) = "LOSS" => moved <= 0
  BY <1>2, <1>3, <1>4
<1> QED  BY <1>5 DEF moved

LEMMA BookingKeepsTheRow ==
  ASSUME NEW row \in CRows, NEW prices \in [Coins -> CPrices], cpass \in Nat
  PROVE  /\ Booked(row, prices) \in CRows
         /\ Booked(row, prices).coin = row.coin
         /\ \A h \in CHorizons :
              LET next == Booked(row, prices).outcome[h]
                  moved == prices[row.coin] - row.price
              IN  /\ row.outcome[h] # "none" => next = row.outcome[h]
                  /\ row.outcome[h] = "none" =>
                       /\ next = "WIN" => row.direction * moved >= 0
                       /\ next = "LOSS" => row.direction * moved <= 0
<1> DEFINE out == [h \in CHorizons |->
                     IF row.outcome[h] = "none" /\ cpass >= row.at + Delta[h]
                     THEN Verdict(row, h, prices[row.coin]) ELSE row.outcome[h]]
<1>1. Booked(row, prices) = [row EXCEPT !.outcome = out]
  BY Zenon DEF Booked
<1>2. row.coin \in Coins /\ prices[row.coin] \in Nat
  <2>1. CPrices \subseteq Nat
    BY CryptoAssumption
  <2> QED  BY <2>1 DEF CRows
<1>3. row.outcome \in [CHorizons -> {"none", "WIN", "LOSS", "NEUTRAL"}]
  BY DEF CRows
<1>4. ASSUME NEW h \in CHorizons
      PROVE  /\ out[h] \in {"none", "WIN", "LOSS", "NEUTRAL"}
             /\ row.outcome[h] # "none" => out[h] = row.outcome[h]
             /\ row.outcome[h] = "none" =>
                  /\ out[h] = "WIN" => row.direction * (prices[row.coin] - row.price) >= 0
                  /\ out[h] = "LOSS" => row.direction * (prices[row.coin] - row.price) <= 0
  <2> DEFINE v == Verdict(row, h, prices[row.coin])
             m == row.direction * (prices[row.coin] - row.price)
  <2>1. /\ v \in {"WIN", "LOSS", "NEUTRAL"}
        /\ v = "WIN" => m >= 0
        /\ v = "LOSS" => m <= 0
    BY <1>2, VerdictsAreSigned
  <2>2. out[h] = v \/ out[h] = row.outcome[h]
    OBVIOUS
  <2>3. row.outcome[h] # "none" => out[h] = row.outcome[h]
    OBVIOUS
  <2>4. row.outcome[h] \in {"none", "WIN", "LOSS", "NEUTRAL"}
    BY <1>3
  <2> HIDE DEF v, m, out
  <2>5. /\ out[h] \in {"none", "WIN", "LOSS", "NEUTRAL"}
        /\ row.outcome[h] # "none" => out[h] = row.outcome[h]
        /\ row.outcome[h] = "none" =>
             (out[h] = "WIN" => m >= 0) /\ (out[h] = "LOSS" => m <= 0)
    BY <2>1, <2>2, <2>3, <2>4
  <2> QED  BY <2>5 DEF m
<1>5. out \in [CHorizons -> {"none", "WIN", "LOSS", "NEUTRAL"}]
  <2>1. \A h \in CHorizons : out[h] \in {"none", "WIN", "LOSS", "NEUTRAL"}
    BY <1>4
  <2> QED  BY <2>1
<1> HIDE DEF out
<1>6. Booked(row, prices).outcome = out /\ Booked(row, prices).coin = row.coin
      /\ Booked(row, prices) \in CRows
  BY <1>1, <1>5 DEF CRows
<1> QED  BY <1>4, <1>6

LEMMA CoinStartKeeps == CInv /\ StartPass => GoodStep
<1> SUFFICES ASSUME CInv, StartPass PROVE GoodStep
  OBVIOUS
<1>1. /\ cphase = "wake" /\ cwork = {} /\ ~ Pending /\ ~ Recording
      /\ UNCHANGED <<cpass, cdoing, cmarks, chist>>
  BY DEF CInv, PhasePart, StartPass, Pending, Recording
<1>2. CTypeOK /\ chist \in CHistories
  BY DEF CInv, CTypes
<1>3. OnceStep /\ SpacedStep
  BY <1>1, NothingGoesOut
<1>4. ~ Pending' /\ ~ Recording' /\ MarkPart'
  <2>1. ~ Pending' /\ ~ Recording'
    BY <1>1 DEF Pending, Recording
  <2>2. MarkPart
    BY DEF CInv
  <2> QED  BY <1>1, <2>1, <2>2 DEF MarkPart, Remembered, Pending
<1>5. CASE \E prices \in [Coins -> CPrices], readings \in [Coins -> Readings] :
          /\ cprice' = prices /\ creading' = readings
          /\ crows' = [i \in DOMAIN crows |-> Booked(crows[i], prices)]
          /\ cwork' = Wanted(readings)
          /\ Len(crows) + Cardinality(SignalsOf(Wanted(readings))) <= MaxCRows
          /\ cphase' = "work"
          /\ UNCHANGED cfaults
  <2>1. PICK prices \in [Coins -> CPrices], readings \in [Coins -> Readings] :
          /\ cprice' = prices /\ creading' = readings
          /\ crows' = [i \in DOMAIN crows |-> Booked(crows[i], prices)]
          /\ cwork' = Wanted(readings)
          /\ Len(crows) + Cardinality(SignalsOf(Wanted(readings))) <= MaxCRows
          /\ cphase' = "work"
          /\ UNCHANGED cfaults
    BY <1>5
  <2>2. Len(crows) \in Nat /\ DOMAIN crows = 1 .. Len(crows) /\ cpass \in Nat
        /\ \A i \in DOMAIN crows : crows[i] \in CRows
    BY CryptoFacts DEF CInv
  <2>3. \A i \in DOMAIN crows : Booked(crows[i], prices) \in CRows
                               /\ Booked(crows[i], prices).coin = crows[i].coin
    BY <2>2, BookingKeepsTheRow
  <2>4. crows' \in Seq(CRows) /\ Len(crows') = Len(crows) /\ DOMAIN crows' = DOMAIN crows
        /\ \A i \in DOMAIN crows : crows'[i] = Booked(crows[i], prices)
    BY <2>1, <2>2, <2>3
  <2>5. CRows' = CRows
    BY <1>1 DEF CRows
  <2>6. Wanted(readings) \subseteq Keys
    BY DEF Wanted
  <2>7. CTypes'
    <3>1. Len(crows) <= MaxCRows /\ cfaults \in 0 .. MaxCFaults
      BY <1>2 DEF CTypeOK
    <3> QED  BY <1>1, <1>2, <2>1, <2>4, <2>5, <2>6, <3>1 DEF CTypes, CTypeOK
  <2>8. PhasePart'
    BY <1>4, <2>1 DEF PhasePart
  <2>9. WantedPart'
    <3> SUFFICES ASSUME NEW k \in Wanted(readings)
                 PROVE  IF k.kind = "signal" THEN CooledDown(k)' /\ AlertWorthy(readings[k.coin])
                        ELSE ~ MarkedToday(k)'
      BY <2>1 DEF WantedPart
    <3>1. CDue(k, readings) /\ IF k.kind = "signal" THEN CooledDown(k) ELSE ~ MarkedToday(k)
      BY DEF Wanted
    <3>2. (CooledDown(k) <=> CooledDown(k)') /\ (MarkedToday(k) <=> MarkedToday(k)')
      BY <1>1 DEF CooledDown, MarkedToday
    <3>3. k.kind = "signal" => AlertWorthy(readings[k.coin])
      BY <3>1 DEF CDue
    <3> QED  BY <3>1, <3>2, <3>3
  <2>10. RoomPart'
    <3>1. Cardinality(SignalsOf(Wanted(readings))) \in Nat
      BY <2>6, SignalsAreFinite
    <3>2. SignalsOf(cwork)' = SignalsOf(Wanted(readings))
      BY <2>1 DEF SignalsOf
    <3> QED  BY <1>4, <2>1, <2>2, <2>4, <3>1, <3>2 DEF RoomPart
  <2>11. RowPart'
    <3>1. \A c : RowsOf(c)' = RowsOf(c)
      BY <2>3, <2>4 DEF RowsOf
    <3>2. RowPart
      BY DEF CInv
    <3>3. Recording' <=> Recording
      BY <1>1, <1>4
    <3> QED  BY <1>1, <1>4, <3>1, <3>2, <3>3 DEF RowPart
  <2>12. BookedStep /\ VerdictStep
    <3>1. ASSUME NEW i \in DOMAIN crows, NEW h \in CHorizons
          PROVE  LET next == crows'[i].outcome[h]
                     moved == prices[crows[i].coin] - crows[i].price
                 IN  /\ crows[i].outcome[h] # "none" => next = crows[i].outcome[h]
                     /\ crows[i].outcome[h] = "none" =>
                          /\ next = "WIN" => crows[i].direction * moved >= 0
                          /\ next = "LOSS" => crows[i].direction * moved <= 0
      <4>1. crows[i] \in CRows /\ crows'[i] = Booked(crows[i], prices)
        BY <2>2, <2>4
      <4> QED  BY <2>2, <4>1, BookingKeepsTheRow
    <3>2. BookedStep
      BY <3>1 DEF BookedStep
    <3>3. VerdictStep
      BY <2>1, <3>1 DEF VerdictStep
    <3> QED  BY <3>2, <3>3
  <2> QED  BY <1>3, <1>4, <2>7, <2>8, <2>9, <2>10, <2>11, <2>12 DEF GoodStep, CInv
<1>6. CASE /\ CFault("nodata") /\ cphase' = "sleep"
           /\ UNCHANGED <<cprice, creading, crows, cwork>>
  <2>1. cfaults' \in 0 .. MaxCFaults
    <3>1. cfaults \in Nat /\ MaxCFaults \in Nat
      BY CryptoFacts DEF CInv
    <3> QED  BY <1>6, <3>1 DEF CFault
  <2>2. CRows' = CRows
    BY <1>1 DEF CRows
  <2>3. CTypes'
    BY <1>1, <1>2, <1>6, <2>1, <2>2 DEF CTypes, CTypeOK
  <2>4. PhasePart' /\ WantedPart'
    BY <1>1, <1>4, <1>6 DEF PhasePart, WantedPart
  <2>5. RoomPart' /\ RowPart'
    <3>1. RoomPart /\ RowPart /\ (Recording' <=> Recording)
      BY <1>1, <1>4 DEF CInv
    <3>2. \A c : RowsOf(c)' = RowsOf(c)
      BY <1>6 DEF RowsOf
    <3>3. SignalsOf(cwork)' = SignalsOf(cwork)
      BY <1>6 DEF SignalsOf
    <3> QED  BY <1>1, <1>4, <1>6, <3>1, <3>2, <3>3 DEF RoomPart, RowPart
  <2>6. BookedStep /\ VerdictStep
    BY <1>6, OutcomesStay
  <2> QED  BY <1>3, <1>4, <2>3, <2>4, <2>5, <2>6 DEF GoodStep, CInv
<1> QED  BY <1>5, <1>6 DEF StartPass

LEMMA MessageKeeps == CInv /\ SendMessage => GoodStep
<1> SUFFICES ASSUME CInv, SendMessage PROVE GoodStep
  OBVIOUS
<1> DEFINE k == NextKey(cwork)
           s == chist.sent[k]
<1>1. /\ cphase = "work" /\ cdoing.do = "nothing" /\ cwork # {}
      /\ cwork' = cwork \ {k}
      /\ cdoing' = Task(IF k.kind = "signal" THEN "record" ELSE "mark", k)
      /\ UNCHANGED <<cpass, cphase, cprice, creading, cmarks, crows>>
  BY DEF SendMessage, Doing
<1>2. CTypeOK /\ chist \in CHistories /\ CTypes
  BY DEF CInv, CTypes
<1>3. k \in cwork /\ k \in Keys /\ cwork \subseteq Keys
  <2>1. k \in cwork
    BY <1>1, NextIsOneOfThem
  <2> QED  BY <1>2, <2>1 DEF CTypeOK
<1> HIDE DEF k
<1>4. /\ cdoing'.key = k /\ Pending' /\ ~ Pending /\ ~ Recording
      /\ Recording' <=> k.kind = "signal"
      /\ cdoing' \in [do : {"nothing", "record", "mark"}, key : Keys]
  <2>1. ~ Pending /\ ~ Recording
    BY <1>1 DEF Pending, Recording
  <2>2. CASE k.kind = "signal"
    <3>1. cdoing' = [do |-> "record", key |-> k]
      BY <1>1, <2>2 DEF Task
    <3> QED  BY <1>3, <2>1, <2>2, <3>1 DEF Pending, Recording
  <2>3. CASE k.kind # "signal"
    <3>1. cdoing' = [do |-> "mark", key |-> k]
      BY <1>1, <2>3 DEF Task
    <3> QED  BY <1>3, <2>1, <2>3, <3>1 DEF Pending, Recording
  <2> QED  BY <2>2, <2>3
<1>5. /\ cpass \in Nat /\ cfaults \in 0 .. MaxCFaults /\ MaxCFaults \in Nat
      /\ s \in Nat /\ cmarks[k] \in Nat /\ cmarks[k] <= cpass + 1
      /\ MaxAge \in Nat /\ MaxAge >= CPassesPerDay /\ CPassesPerDay \in Nat \ {0}
      /\ SignalCooldown \in Nat /\ MaxAge >= SignalCooldown
  BY <1>2, <1>3, CryptoFacts
<1>6. /\ chist' \in CHistories /\ chist'.torn = chist.torn
      /\ cfaults' \in 0 .. MaxCFaults
      /\ \A l \in Keys : l # k => chist'.sent[l] = chist.sent[l]
      /\ chist'.sent[k] = s \/ chist'.sent[k] = cpass + 1
      /\ \A c \in Coins : chist'.alerts[c] <= chist.alerts[c] + AlertsTo(c, k)
  <2>1. CASE CFault("drop") /\ UNCHANGED chist
    <3>1. cfaults' \in 0 .. MaxCFaults
      BY <1>5, <2>1 DEF CFault
    <3>2. chist' = chist
      BY <2>1
    <3>3. \A c \in Coins : chist.alerts[c] \in Nat /\ AlertsTo(c, k) \in {0, 1}
      BY <1>2, CryptoFacts DEF AlertsTo
    <3> QED  BY <1>2, <3>1, <3>2, <3>3
  <2>2. CASE /\ UNCHANGED cfaults
             /\ chist' = [sent |-> [chist.sent EXCEPT ![k] = cpass + 1],
                          alerts |-> [c \in Coins |-> chist.alerts[c] + AlertsTo(c, k)],
                          torn |-> chist.torn]
    <3> DEFINE sent == [chist.sent EXCEPT ![k] = cpass + 1]
               alerts == [c \in Coins |-> chist.alerts[c] + AlertsTo(c, k)]
    <3>1. chist' = [sent |-> sent, alerts |-> alerts, torn |-> chist.torn]
      BY <2>2
    <3>2. chist.sent \in [Keys -> Nat] /\ chist.alerts \in [Coins -> Nat]
      BY <1>2 DEF CHistories
    <3>3. sent \in [Keys -> Nat] /\ sent[k] = cpass + 1
          /\ \A l \in Keys : l # k => sent[l] = chist.sent[l]
      BY <1>3, <1>5, <3>2
    <3>4. ASSUME NEW c \in Coins
          PROVE  alerts[c] \in Nat /\ alerts[c] <= chist.alerts[c] + AlertsTo(c, k)
      <4>1. chist.alerts[c] \in Nat /\ alerts[c] = chist.alerts[c] + AlertsTo(c, k)
        BY <3>2
      <4>2. AlertsTo(c, k) \in {0, 1}
        BY DEF AlertsTo
      <4> HIDE DEF alerts
      <4> QED  BY <4>1, <4>2
    <3>5. alerts \in [Coins -> Nat]
      BY <3>4
    <3> HIDE DEF sent, alerts
    <3>6. chist' \in CHistories /\ chist'.sent = sent /\ chist'.alerts = alerts
          /\ chist'.torn = chist.torn
      <4>1. chist.torn \in BOOLEAN
        BY Zenon, <1>2 DEF CHistories
      <4> QED  BY <3>1, <3>3, <3>5, <4>1 DEF CHistories
    <3> QED  BY <1>5, <2>2, <3>3, <3>4, <3>6
  <2> QED  BY Zenon, <2>1, <2>2 DEF SendMessage, k
<1>7. CTypes'
  <2>1. CRows' = CRows
    BY <1>1 DEF CRows
  <2>2. cwork' \subseteq Keys
    BY <1>1, <1>3
  <2> QED  BY <1>1, <1>2, <1>4, <1>6, <2>1, <2>2 DEF CTypes, CTypeOK
<1>8. PhasePart'
  <2>1. k.kind = "signal" => AlertWorthy(creading[k.coin])
    BY <1>3 DEF CInv, WantedPart
  <2>2. k \notin cwork'
    BY <1>1
  <2> QED  BY <1>1, <1>4, <2>1, <2>2 DEF PhasePart
<1>9. WantedPart'
  <2>1. \A l : (CooledDown(l) <=> CooledDown(l)') /\ (MarkedToday(l) <=> MarkedToday(l)')
    BY <1>1 DEF CooledDown, MarkedToday
  <2>2. cwork' \subseteq cwork /\ creading' = creading
    BY <1>1
  <2>3. WantedPart
    BY DEF CInv
  <2> QED  BY <2>1, <2>2, <2>3 DEF WantedPart
<1>10. RoomPart'
  <2>1. IsFiniteSet(SignalsOf(cwork)) /\ Cardinality(SignalsOf(cwork)) \in Nat
    BY <1>3, SignalsAreFinite
  <2>2. /\ Len(crows) \in Nat /\ MaxCRows \in Nat
        /\ Len(crows) + Cardinality(SignalsOf(cwork)) <= MaxCRows
    BY <1>2, <1>4, <2>1, CryptoFacts DEF CInv, RoomPart
  <2>3. CASE k.kind = "signal"
    <3>1. SignalsOf(cwork)' = SignalsOf(cwork) \ {k}
      BY <1>1 DEF SignalsOf
    <3>2. k \in SignalsOf(cwork)
      BY <1>3, <2>3 DEF SignalsOf
    <3>3. Cardinality(SignalsOf(cwork) \ {k}) = Cardinality(SignalsOf(cwork)) - 1
      BY <2>1, <3>2, FS_RemoveElement
    <3>4. Cardinality(SignalsOf(cwork))' = Cardinality(SignalsOf(cwork)) - 1
      BY <3>1, <3>3
    <3> QED  BY <1>1, <1>4, <2>1, <2>2, <2>3, <3>4 DEF RoomPart
  <2>4. CASE k.kind # "signal"
    <3>1. SignalsOf(cwork)' = SignalsOf(cwork)
      BY <1>1, <2>4 DEF SignalsOf
    <3> QED  BY <1>1, <1>4, <2>1, <2>2, <2>4, <3>1 DEF RoomPart
  <2> QED  BY <2>3, <2>4
<1>11. MarkPart'
  <2>1. MarkPart /\ \A l \in Keys : chist.sent[l] \in Nat /\ cmarks[l] \in Nat
    BY <1>2, CryptoFacts DEF CInv
  <2>2. ASSUME NEW l \in Keys
        PROVE  chist'.sent[l] <= cpass' + 1
    BY <1>1, <1>5, <1>6, <2>1 DEF MarkPart
  <2>3. ASSUME ~ chist'.torn, NEW l \in Keys
        PROVE  Remembered(l)'
    <3>1. CASE l = k
      BY <1>4, <3>1 DEF Remembered
    <3>2. CASE l # k
      <4>1. Remembered(l)
        BY <1>6, <2>1, <2>3 DEF MarkPart
      <4> QED  BY <1>1, <1>4, <1>6, <3>2, <4>1 DEF Remembered
    <3> QED  BY <3>1, <3>2
  <2> QED  BY <2>2, <2>3 DEF MarkPart
<1>12. RowPart'
  <2> SUFFICES ASSUME ~ chist'.torn, NEW c \in Coins
               PROVE  chist'.alerts[c] <= Cardinality(RowsOf(c)')
                        + (IF Recording' /\ cdoing'.key = Key("signal", c) THEN 1 ELSE 0)
    BY DEF RowPart
  <2>1. RowsOf(c)' = RowsOf(c)
    BY <1>1 DEF RowsOf
  <2>2. Cardinality(RowsOf(c)) \in Nat /\ chist.alerts[c] \in Nat
    BY <1>2, CryptoFacts, RowsAreCounted
  <2>3. chist.alerts[c] <= Cardinality(RowsOf(c))
    BY <1>4, <1>6, <2>2 DEF CInv, RowPart
  <2>4. AlertsTo(c, k) <= IF Recording' /\ cdoing'.key = Key("signal", c) THEN 1 ELSE 0
    <3>1. CASE k = Key("signal", c)
      <4>1. Recording' /\ cdoing'.key = k
        BY <1>4, <3>1, KeysAreFinite
      <4> QED  BY <3>1, <4>1 DEF AlertsTo
    <3>2. CASE k # Key("signal", c)
      BY <3>2 DEF AlertsTo
    <3> QED  BY <3>1, <3>2
  <2>5. chist'.alerts[c] <= chist.alerts[c] + AlertsTo(c, k) /\ chist'.alerts[c] \in Nat
        /\ AlertsTo(c, k) \in {0, 1}
    BY <1>6 DEF CHistories, AlertsTo
  <2> QED  BY <2>1, <2>2, <2>3, <2>4, <2>5
<1>13. ASSUME NEW l \in Keys, GoesOut(l), ~ chist.torn, chist.sent[l] > 0
       PROVE  /\ l.kind # "signal" => CDay(chist.sent[l] - 1) # CDay(cpass)
              /\ l.kind = "signal" => cpass + 1 - chist.sent[l] >= SignalCooldown
  <2>1. l = k
    BY <1>1, <1>13 DEF GoesOut
  <2>2. s <= cpass + 1 /\ s > 0 /\ (s <= cmarks[k] \/ cpass + 1 - s >= MaxAge)
    BY <1>3, <1>4, <1>13, <2>1 DEF CInv, MarkPart, Remembered
  <2>3. IF k.kind = "signal" THEN CooledDown(k) ELSE ~ MarkedToday(k)
    BY <1>3 DEF CInv, WantedPart
  <2> HIDE DEF s
  <2>4. CASE k.kind = "signal"
    BY <1>5, <2>1, <2>2, <2>3, <2>4 DEF CooledDown, s
  <2>5. CASE k.kind # "signal"
    <3>1. CASE cpass + 1 - s >= MaxAge
      <4>1. s - 1 \in Nat /\ s - 1 <= cpass /\ cpass - (s - 1) >= CPassesPerDay
        BY <1>5, <2>2, <3>1
      <4>2. CDay(s - 1) # CDay(cpass)
        BY <1>5, <4>1, DaysAreInOrder
      <4> QED  BY <2>1, <2>5, <4>2 DEF s
    <3>2. CASE s <= cmarks[k]
      <4> DEFINE m == cmarks[k]
      <4>1. s - 1 \in Nat /\ m - 1 \in Nat /\ s - 1 <= m - 1 /\ m - 1 <= cpass /\ m > 0
        BY <1>5, <2>2, <3>2
      <4>2. CDay(m - 1) # CDay(cpass)
        BY <2>3, <2>5, <4>1 DEF MarkedToday
      <4>3. CDay(s - 1) <= CDay(m - 1) /\ CDay(m - 1) <= CDay(cpass)
            /\ CDay(s - 1) \in Int /\ CDay(m - 1) \in Int
        BY <1>5, <4>1, DaysAreInOrder
      <4>4. CDay(cpass) \in Int
        BY <1>5, DaysAreInOrder
      <4>5. CDay(s - 1) # CDay(cpass)
        BY <4>2, <4>3, <4>4
      <4> QED  BY <2>1, <2>5, <4>5 DEF s
    <3> QED  BY <2>2, <3>1, <3>2
  <2> QED  BY <2>1, <2>4, <2>5
<1>14. OnceStep /\ SpacedStep
  <2>1. OnceStep
    BY <1>13 DEF OnceStep
  <2>2. \A c \in Coins : Key("signal", c) \in Keys /\ Key("signal", c).kind = "signal"
    BY KeysAreFinite
  <2>3. SpacedStep
    BY <1>13, <2>2 DEF SpacedStep
  <2> QED  BY <2>1, <2>3
<1>15. BookedStep /\ VerdictStep
  BY <1>1, OutcomesStay
<1> QED  BY <1>7, <1>8, <1>9, <1>10, <1>11, <1>12, <1>14, <1>15 DEF GoodStep, CInv

LEMMA CoinRecordKeeps == CInv /\ RecordAlert => GoodStep
<1> SUFFICES ASSUME CInv, RecordAlert PROVE GoodStep
  OBVIOUS
<1> DEFINE k == cdoing.key
           coin == k.coin
           row == [coin |-> coin, at |-> cpass, direction |-> Direction(creading[coin]),
                   price |-> cprice[coin], outcome |-> NoOutcomes]
<1>1. /\ cphase = "work" /\ cdoing.do = "record"
      /\ cdoing' = Task("mark", k)
      /\ UNCHANGED <<cpass, cphase, cprice, creading, cwork, cmarks>>
  BY DEF RecordAlert, Doing
<1>2. CTypeOK /\ chist \in CHistories /\ CTypes
  BY DEF CInv, CTypes
<1>3. /\ Recording /\ Pending /\ ~ Recording' /\ Pending' /\ cdoing'.key = k
      /\ cdoing' \in [do : {"nothing", "record", "mark"}, key : Keys]
  <2>1. k \in Keys
    BY <1>2 DEF CTypeOK
  <2> HIDE DEF k
  <2> QED  BY <1>1, <2>1 DEF Recording, Pending, Task
<1>4. /\ k \in Keys /\ k.kind = "signal" /\ coin \in Coins /\ k = Key("signal", coin)
      /\ k \notin cwork /\ AlertWorthy(creading[coin])
  <2>1. k \in Keys
    BY <1>2 DEF CTypeOK
  <2>2. k.kind = "signal" /\ k \notin cwork /\ AlertWorthy(creading[coin])
    BY <1>3 DEF CInv, PhasePart
  <2> QED  BY <2>1, <2>2, KeysAreFinite
<1>5. Direction(creading[coin]) \in {-1, 1}
  BY <1>4, AlertsHaveADirection
<1>6. row \in CRows
  <2>1. cpass \in 0 .. cpass /\ cprice[coin] \in CPrices
    BY <1>2, <1>4, CryptoFacts DEF CTypeOK
  <2>2. NoOutcomes \in [CHorizons -> {"none", "WIN", "LOSS", "NEUTRAL"}]
    BY DEF NoOutcomes
  <2> HIDE DEF coin
  <2> QED  BY <1>4, <1>5, <2>1, <2>2 DEF CRows
<1>7. \/ UNCHANGED <<cfaults, chist>> /\ crows' = Append(crows, row)
      \/ CFault("database") /\ UNCHANGED crows /\ chist' = [chist EXCEPT !.torn = TRUE]
  BY <1>5 DEF RecordAlert
<1> HIDE DEF row, coin, k
<1>8. /\ Len(crows) \in Nat /\ crows \in Seq(CRows) /\ MaxCRows \in Nat
      /\ Cardinality(SignalsOf(cwork)) \in Nat
      /\ Len(crows) + Cardinality(SignalsOf(cwork)) + 1 <= MaxCRows
      /\ cfaults \in 0 .. MaxCFaults /\ MaxCFaults \in Nat /\ DOMAIN crows = 1 .. Len(crows)
  <2>1. Cardinality(SignalsOf(cwork)) \in Nat
    BY <1>2, SignalsAreFinite DEF CTypeOK
  <2>2. Len(crows) + Cardinality(SignalsOf(cwork)) + 1 <= MaxCRows
    BY <1>3 DEF CInv, RoomPart
  <2>3. crows \in Seq(CRows)
    BY <1>2 DEF CTypeOK
  <2> QED  BY <1>2, <2>1, <2>2, <2>3, CryptoFacts
<1>9. /\ crows' \in Seq(CRows) /\ Len(crows') \in Nat /\ Len(crows') <= Len(crows) + 1
      /\ \A i \in DOMAIN crows : crows'[i] = crows[i]
      /\ cfaults' \in 0 .. MaxCFaults
      /\ chist' \in CHistories /\ chist'.sent = chist.sent
      /\ chist'.torn \/ (chist' = chist /\ crows' = Append(crows, row))
  <2>1. CASE UNCHANGED <<cfaults, chist>> /\ crows' = Append(crows, row)
    BY <1>2, <1>6, <1>8, <2>1
  <2>2. CASE CFault("database") /\ UNCHANGED crows /\ chist' = [chist EXCEPT !.torn = TRUE]
    <3>1. cfaults' \in 0 .. MaxCFaults
      BY <1>8, <2>2 DEF CFault
    <3>2. chist' \in CHistories /\ chist'.sent = chist.sent /\ chist'.torn
      <4> DEFINE torn == TRUE
      <4>1. torn \in BOOLEAN /\ torn /\ chist' = [chist EXCEPT !.torn = torn]
        BY Zenon, <2>2
      <4> HIDE DEF torn
      <4> QED  BY <1>2, <4>1 DEF CHistories
    <3> QED  BY <1>8, <2>2, <3>1, <3>2
  <2> QED  BY <1>7, <2>1, <2>2
<1>10. CTypes'
  <2>1. CRows' = CRows
    BY <1>1 DEF CRows
  <2>2. Len(crows') <= MaxCRows
    BY <1>8, <1>9
  <2> QED  BY <1>1, <1>2, <1>3, <1>9, <2>1, <2>2 DEF CTypes, CTypeOK
<1>11. PhasePart'
  BY <1>1, <1>3, <1>4 DEF PhasePart
<1>12. WantedPart'
  <2>1. \A l : (CooledDown(l) <=> CooledDown(l)') /\ (MarkedToday(l) <=> MarkedToday(l)')
    BY <1>1 DEF CooledDown, MarkedToday
  <2>2. WantedPart
    BY DEF CInv
  <2> QED  BY <1>1, <2>1, <2>2 DEF WantedPart
<1>13. RoomPart'
  <2>1. Cardinality(SignalsOf(cwork))' = Cardinality(SignalsOf(cwork))
    BY <1>1
  <2> QED  BY <1>3, <1>8, <1>9, <2>1 DEF RoomPart
<1>14. MarkPart'
  <2>1. MarkPart
    BY DEF CInv
  <2>2. chist'.torn \/ chist'.torn = chist.torn
    BY <1>9
  <2>3. \A l : Remembered(l) => Remembered(l)'
    BY <1>1, <1>3, <1>9 DEF Remembered, k
  <2> QED  BY <1>1, <1>9, <2>1, <2>2, <2>3 DEF MarkPart
<1>15. RowPart'
  <2> SUFFICES ASSUME ~ chist'.torn, NEW c \in Coins
               PROVE  chist'.alerts[c] <= Cardinality(RowsOf(c)') + 0
    BY <1>3 DEF RowPart
  <2>1. chist' = chist /\ crows' = Append(crows, row)
    BY <1>9
  <2>2. /\ IsFiniteSet(RowsOf(c)) /\ Cardinality(RowsOf(c)) \in Nat /\ chist.alerts[c] \in Nat
    BY <1>2, CryptoFacts, RowsAreCounted
  <2>3. chist.alerts[c] <= Cardinality(RowsOf(c))
                           + (IF k = Key("signal", c) THEN 1 ELSE 0)
    BY <1>3, <2>1 DEF CInv, RowPart, k
  <2>4. /\ DOMAIN crows' = 1 .. Len(crows) + 1
        /\ \A i \in 1 .. Len(crows) : crows'[i] = crows[i]
        /\ crows'[Len(crows) + 1].coin = coin
    BY <1>6, <1>8, <2>1 DEF row
  <2>5. CASE c = coin
    <3>1. RowsOf(c)' = RowsOf(c) \cup {Len(crows) + 1}
      BY <1>8, <2>4, <2>5 DEF RowsOf
    <3>2. Len(crows) + 1 \notin RowsOf(c)
      BY <1>8 DEF RowsOf
    <3>3. Cardinality(RowsOf(c) \cup {Len(crows) + 1}) = Cardinality(RowsOf(c)) + 1
      BY <2>2, <3>2, FS_AddElement
    <3>4. Cardinality(RowsOf(c)') = Cardinality(RowsOf(c)) + 1
      BY <3>1, <3>3
    <3> QED  BY <2>1, <2>2, <2>3, <3>4
  <2>6. CASE c # coin
    <3>1. RowsOf(c)' = RowsOf(c)
      BY <1>8, <2>4, <2>6 DEF RowsOf
    <3>2. k # Key("signal", c)
      BY <1>4, <2>6, KeysAreFinite DEF coin
    <3> QED  BY <2>1, <2>2, <2>3, <3>1, <3>2
  <2> QED  BY <2>5, <2>6
<1>16. OnceStep /\ SpacedStep /\ BookedStep /\ VerdictStep
  BY <1>1, <1>9, NothingGoesOut, OutcomesStay
<1> QED  BY <1>10, <1>11, <1>12, <1>13, <1>14, <1>15, <1>16 DEF GoodStep, CInv

LEMMA CoinMarkKeeps == CInv /\ MarkMessage => GoodStep
<1> SUFFICES ASSUME CInv, MarkMessage PROVE GoodStep
  OBVIOUS
<1> DEFINE k == cdoing.key
<1>1. /\ cphase = "work" /\ cdoing.do = "mark"
      /\ cmarks' = [cmarks EXCEPT ![k] = cpass + 1] /\ cdoing' = NoTask
      /\ UNCHANGED <<cpass, cphase, cprice, creading, cwork, crows, cfaults, chist>>
  BY DEF MarkMessage, Doing
<1>2. CTypeOK /\ chist \in CHistories /\ CTypes
  BY DEF CInv, CTypes
<1>3. /\ k \in Keys /\ k \notin cwork /\ cpass \in Nat /\ cmarks \in [Keys -> 0 .. cpass + 1]
      /\ ~ Recording
  <2>1. k \in Keys /\ cmarks \in [Keys -> 0 .. cpass + 1]
    BY <1>2 DEF CTypeOK
  <2>2. Pending /\ ~ Recording
    BY <1>1 DEF Pending, Recording
  <2> QED  BY <1>2, <2>1, <2>2, CryptoFacts DEF CInv, PhasePart
<1>4. /\ ~ Pending' /\ ~ Recording'
      /\ cdoing' \in [do : {"nothing", "record", "mark"}, key : Keys]
  <2>1. Key("morning", AnyCoin) \in Keys
    BY DEF Keys
  <2> QED  BY <1>1, <2>1 DEF NoTask, Task, Pending, Recording
<1> HIDE DEF k
<1>5. /\ cmarks' \in [Keys -> 0 .. cpass + 1] /\ cmarks'[k] = cpass + 1
      /\ \A l \in Keys : l # k => cmarks'[l] = cmarks[l]
  BY <1>1, <1>3
<1>6. CTypes'
  <2>1. CRows' = CRows
    BY <1>1 DEF CRows
  <2> QED  BY <1>1, <1>2, <1>4, <1>5, <2>1 DEF CTypes, CTypeOK
<1>7. PhasePart'
  BY <1>1, <1>4 DEF PhasePart
<1>8. WantedPart'
  <2>1. WantedPart /\ cwork \subseteq Keys
    BY <1>2 DEF CInv, CTypeOK
  <2>2. ASSUME NEW l \in cwork
        PROVE  (CooledDown(l) <=> CooledDown(l)') /\ (MarkedToday(l) <=> MarkedToday(l)')
    <3>1. cmarks'[l] = cmarks[l] /\ cpass' = cpass
      BY <1>1, <1>3, <1>5, <2>1
    <3> QED  BY <3>1 DEF CooledDown, MarkedToday
  <2> QED  BY <1>1, <2>1, <2>2 DEF WantedPart
<1>9. RoomPart' /\ RowPart'
  <2>1. RoomPart /\ RowPart
    BY DEF CInv
  <2>2. (Recording <=> Recording') /\ \A c : RowsOf(c)' = RowsOf(c)
    BY <1>1, <1>3, <1>4 DEF RowsOf
  <2>3. SignalsOf(cwork)' = SignalsOf(cwork)
    BY <1>1 DEF SignalsOf
  <2> QED  BY <1>1, <1>3, <1>4, <2>1, <2>2, <2>3 DEF RoomPart, RowPart
<1>10. MarkPart'
  <2>1. MarkPart /\ \A l \in Keys : chist.sent[l] \in Nat /\ chist.sent[l] <= cpass + 1
    BY <1>2, CryptoFacts DEF CInv, MarkPart
  <2>2. ASSUME ~ chist.torn, NEW l \in Keys
        PROVE  Remembered(l)'
    <3>1. CASE l = k
      BY <1>1, <1>5, <2>1, <3>1 DEF Remembered
    <3>2. CASE l # k
      BY <1>1, <1>5, <2>1, <2>2, <3>2 DEF Remembered, MarkPart, k
    <3> QED  BY <3>1, <3>2
  <2> QED  BY <1>1, <2>1, <2>2 DEF MarkPart
<1>11. OnceStep /\ SpacedStep /\ BookedStep /\ VerdictStep
  BY <1>1, NothingGoesOut, OutcomesStay
<1> QED  BY <1>6, <1>7, <1>8, <1>9, <1>10, <1>11 DEF GoodStep, CInv

LEMMA CoinEndKeeps == CInv /\ (EndPass \/ NextCPass \/ UNCHANGED cVars) => GoodStep
<1> SUFFICES ASSUME CInv, EndPass \/ NextCPass \/ UNCHANGED cVars PROVE GoodStep
  OBVIOUS
<1>1. CTypeOK /\ chist \in CHistories /\ CTypes
  BY DEF CInv, CTypes
<1>2. /\ cpass \in Nat /\ LastCPass \in Nat /\ cpass <= LastCPass
      /\ crows \in Seq(CRows) /\ Len(crows) \in Nat /\ cmarks \in [Keys -> 0 .. cpass + 1]
  BY <1>1, CryptoFacts DEF CTypeOK
<1>3. /\ UNCHANGED <<cprice, creading, cwork, cdoing, cmarks, crows, cfaults, chist>>
      /\ \/ cpass' = cpass /\ cphase' = cphase
         \/ cpass' = cpass /\ cphase' = "sleep" /\ cwork = {} /\ ~ Pending
         \/ cpass' = cpass + 1 /\ cpass + 1 <= LastCPass /\ cphase' = "wake"
            /\ cwork = {} /\ ~ Pending
  <2>1. CASE EndPass
    BY <2>1 DEF EndPass, Doing, Pending
  <2>2. CASE NextCPass
    <3>1. cphase # "work"
      BY <2>2 DEF NextCPass
    <3>2. cwork = {} /\ ~ Pending
      BY <3>1 DEF CInv, PhasePart
    <3> QED  BY <1>2, <2>2, <3>2 DEF NextCPass
  <2>3. CASE UNCHANGED cVars
    BY <2>3 DEF cVars
  <2> QED  BY <2>1, <2>2, <2>3
<1>4. /\ cpass' \in 0 .. LastCPass /\ cpass' \in Nat /\ cpass <= cpass'
      /\ cphase' \in {"wake", "work", "sleep"}
      /\ (Pending <=> Pending') /\ (Recording <=> Recording')
  BY <1>1, <1>2, <1>3 DEF CTypeOK, Pending, Recording
<1>5. CTypes'
  <2>1. CRows \subseteq CRows'
    <3>1. 0 .. cpass \subseteq 0 .. cpass'
      BY <1>2, <1>4
    <3> QED  BY <3>1 DEF CRows
  <2>2. crows' \in Seq(CRows')
    <3>1. \A i \in 1 .. Len(crows) : crows[i] \in CRows'
      BY <1>2, <2>1
    <3> QED  BY <1>2, <1>3, <3>1
  <2>3. cmarks' \in [Keys -> 0 .. cpass' + 1]
    <3> DEFINE next == cpass'
    <3>1. cpass \in Nat /\ next \in Nat /\ cpass <= next
      BY <1>2, <1>4
    <3> HIDE DEF next
    <3>2. \A n \in 0 .. cpass + 1 : n \in 0 .. next + 1
      BY <3>1
    <3>3. \A k \in Keys : cmarks'[k] \in 0 .. next + 1
      BY <1>2, <1>3, <3>2
    <3>4. cmarks' \in [Keys -> 0 .. next + 1]
      BY <1>2, <1>3, <3>3
    <3> QED  BY <3>4 DEF next
  <2> QED  BY <1>1, <1>3, <1>4, <2>2, <2>3 DEF CTypes, CTypeOK
<1>6. PhasePart'
  BY <1>3, <1>4 DEF CInv, PhasePart
<1>7. WantedPart'
  <2>1. CASE cwork = {}
    BY <1>3, <2>1 DEF WantedPart
  <2>2. CASE cwork # {}
    <3>1. cpass' = cpass
      BY <1>3, <2>2
    <3>2. \A l : (CooledDown(l) <=> CooledDown(l)') /\ (MarkedToday(l) <=> MarkedToday(l)')
      BY <1>3, <3>1 DEF CooledDown, MarkedToday
    <3> QED  BY <1>3, <3>2 DEF CInv, WantedPart
  <2> QED  BY <2>1, <2>2
<1>8. RoomPart' /\ RowPart'
  <2>1. RoomPart /\ RowPart
    BY DEF CInv
  <2>2. \A c : RowsOf(c)' = RowsOf(c)
    BY <1>3 DEF RowsOf
  <2>3. SignalsOf(cwork)' = SignalsOf(cwork)
    BY <1>3 DEF SignalsOf
  <2> QED  BY <1>3, <1>4, <2>1, <2>2, <2>3 DEF RoomPart, RowPart
<1>9. MarkPart'
  <2>1. MarkPart /\ \A l \in Keys : chist.sent[l] \in Nat /\ chist.sent[l] <= cpass + 1
    BY <1>1, CryptoFacts DEF CInv, MarkPart
  <2>2. MaxAge \in Nat
    BY CryptoAssumption
  <2>3. ASSUME ~ chist.torn, NEW l \in Keys
        PROVE  Remembered(l)'
    <3>1. Remembered(l)
      BY <2>1, <2>3 DEF MarkPart
    <3> QED  BY <1>2, <1>3, <1>4, <2>1, <2>2, <3>1 DEF Remembered
  <2> QED  BY <1>2, <1>3, <1>4, <2>1, <2>3 DEF MarkPart
<1>10. OnceStep /\ SpacedStep /\ BookedStep /\ VerdictStep
  BY <1>3, NothingGoesOut, OutcomesStay
<1> QED  BY <1>5, <1>6, <1>7, <1>8, <1>9, <1>10 DEF GoodStep, CInv

LEMMA CoinRestartKeeps == CInv /\ CRestart => GoodStep
<1> SUFFICES ASSUME CInv, CRestart PROVE GoodStep
  OBVIOUS
<1>1. /\ CFault("crash") /\ cphase' = "wake" /\ cwork' = {} /\ cdoing' = NoTask
      /\ cmarks' = [k \in Keys |-> Kept(cmarks[k])]
      /\ UNCHANGED <<cpass, cprice, creading, crows>>
  BY DEF CRestart
<1>2. CTypeOK /\ chist \in CHistories /\ CTypes
  BY DEF CInv, CTypes
<1>3. /\ cpass \in Nat /\ cfaults \in Nat /\ MaxCFaults \in Nat /\ MaxAge \in Nat
      /\ \A k \in Keys : cmarks[k] \in Nat /\ cmarks[k] <= cpass + 1 /\ chist.sent[k] \in Nat
                          /\ chist.sent[k] <= cpass + 1
  BY <1>2, CryptoFacts DEF CInv, MarkPart
<1>4. /\ cfaults' \in 0 .. MaxCFaults /\ cfaults' # cfaults
  BY <1>1, <1>3 DEF CFault
<1>5. /\ ~ Pending' /\ ~ Recording'
      /\ cdoing' \in [do : {"nothing", "record", "mark"}, key : Keys]
  <2>1. Key("morning", AnyCoin) \in Keys
    BY DEF Keys
  <2> QED  BY <1>1, <2>1 DEF NoTask, Task, Pending, Recording
<1>6. /\ chist' \in CHistories /\ chist'.sent = chist.sent /\ chist'.alerts = chist.alerts
      /\ ~ chist'.torn => ~ chist.torn /\ ~ Pending
  <2> DEFINE torn == chist.torn \/ Doing("record") \/ Doing("mark")
  <2>1. torn \in BOOLEAN /\ chist' = [chist EXCEPT !.torn = torn]
    BY Zenon DEF CRestart
  <2>2. Pending => Doing("record") \/ Doing("mark")
    <3>1. cdoing.do \in {"nothing", "record", "mark"}
      BY <1>2 DEF CTypeOK
    <3>2. Pending => cphase = "work"
      BY <1>2 DEF CInv, PhasePart, CTypeOK
    <3> QED  BY <3>1, <3>2 DEF Pending, Doing
  <2>3. ~ torn => ~ chist.torn /\ ~ Pending
    BY <2>2
  <2> HIDE DEF torn
  <2>4. chist' \in CHistories /\ chist'.sent = chist.sent /\ chist'.alerts = chist.alerts
        /\ chist'.torn = torn
    BY <1>2, <2>1 DEF CHistories
  <2> QED  BY Zenon, <2>3, <2>4
<1>7. \A k \in Keys : /\ cmarks'[k] \in 0 .. cpass + 1
                     /\ (cmarks'[k] = cmarks[k] \/ cpass + 1 - cmarks[k] >= MaxAge)
  BY <1>1, <1>3 DEF Kept
<1>8. CTypes'
  <2>1. CRows' = CRows
    BY <1>1 DEF CRows
  <2>2. cmarks' \in [Keys -> 0 .. cpass' + 1]
    BY <1>1, <1>7
  <2> QED  BY <1>1, <1>2, <1>4, <1>5, <1>6, <2>1, <2>2 DEF CTypes, CTypeOK
<1>9. PhasePart' /\ WantedPart'
  BY <1>1, <1>5 DEF PhasePart, WantedPart
<1>10. RoomPart'
  <2>1. Cardinality(SignalsOf(cwork)) \in Nat /\ Len(crows) \in Nat /\ MaxCRows \in Nat
        /\ Len(crows) <= MaxCRows
    BY <1>2, CryptoFacts, SignalsAreFinite DEF CTypeOK
  <2>2. SignalsOf(cwork)' = {}
    BY <1>1 DEF SignalsOf
  <2>3. Cardinality(SignalsOf(cwork)') = 0
    BY <2>2, FS_EmptySet
  <2> QED  BY <1>1, <1>5, <2>1, <2>3 DEF RoomPart
<1>11. MarkPart'
  <2>1. ASSUME ~ chist'.torn, NEW k \in Keys
        PROVE  Remembered(k)'
    <3>1. Remembered(k) /\ ~ Pending
      BY <1>6, <2>1 DEF CInv, MarkPart
    <3>2. chist.sent[k] <= cmarks[k] \/ cpass + 1 - chist.sent[k] >= MaxAge
      BY <3>1 DEF Remembered
    <3>3. chist.sent[k] <= cmarks'[k] \/ cpass + 1 - chist.sent[k] >= MaxAge
      BY <1>3, <1>7, <3>2
    <3> QED  BY <1>1, <1>6, <3>3 DEF Remembered
  <2> QED  BY <1>1, <1>3, <1>6, <2>1 DEF MarkPart
<1>12. RowPart'
  <2> SUFFICES ASSUME ~ chist'.torn, NEW c \in Coins
               PROVE  chist'.alerts[c] <= Cardinality(RowsOf(c)') + 0
    BY <1>5 DEF RowPart
  <2>1. ~ chist.torn /\ ~ Recording
    BY <1>6 DEF Pending, Recording
  <2>2. chist.alerts[c] <= Cardinality(RowsOf(c)) + 0
    BY <2>1 DEF CInv, RowPart
  <2>3. RowsOf(c)' = RowsOf(c)
    BY <1>1 DEF RowsOf
  <2> QED  BY <1>6, <2>2, <2>3
<1>13. OnceStep /\ SpacedStep /\ BookedStep /\ VerdictStep
  BY <1>1, <1>4, NothingGoesOut, OutcomesStay
<1> QED  BY <1>8, <1>9, <1>10, <1>11, <1>12, <1>13 DEF GoodStep, CInv

(* For any coins, windows, cooldown, ages, prices, readings, horizons and
   faults: a briefing or a position's message goes out once a day, alerts of a
   coin are a cooldown apart, each has its row, and an outcome is booked once
   and in the alert's direction. *)
THEOREM CryptoIsKept == CSpec => CryptoAlertsAreKept
<1>1. CInit => CInv
  BY CInitOK
<1>2. CInv /\ [CNext]_cVars => GoodStep
  BY CoinStartKeeps, MessageKeeps, CoinRecordKeeps, CoinMarkKeeps, CoinEndKeeps, CoinRestartKeeps DEF CNext
<1>3. CInv => CTypeOK /\ EveryAlertHasItsRow
  <2> SUFFICES ASSUME CInv PROVE CTypeOK /\ EveryAlertHasItsRow
    OBVIOUS
  <2>1. CTypeOK /\ CTypes
    BY DEF CInv, CTypes
  <2>2. ASSUME cphase = "sleep", ~ chist.torn, NEW c \in Coins
        PROVE  Cardinality(RowsOf(c)) >= chist.alerts[c]
    <3>1. ~ Recording
      BY <2>2 DEF CInv, PhasePart, Pending, Recording
    <3>2. Cardinality(RowsOf(c)) \in Nat /\ chist.alerts[c] \in Nat
      BY <2>1, CryptoFacts, RowsAreCounted
    <3> QED  BY <2>2, <3>1, <3>2 DEF CInv, RowPart
  <2> QED  BY <2>1, <2>2 DEF EveryAlertHasItsRow, RowsOf
<1>4. CInv /\ [CNext]_cVars
      => CInv' /\ [OnceStep]_cVars /\ [SpacedStep]_cVars /\ [BookedStep]_cVars /\ [VerdictStep]_cVars
  BY <1>2 DEF GoodStep
<1> QED
  BY <1>1, <1>3, <1>4, PTL
  DEF CSpec, CryptoAlertsAreKept, SentOncePerDay, CoinAlertsAreSpaced, BookedOutcomesStay,
      VerdictsFollowTheAlert, OnceStep, SpacedStep, BookedStep, VerdictStep

-----------------------------------------------------------------------------
(* HitRates: the odds of a level.  The mean over the lookbacks is a fraction
   built turn by turn, so that two levels are compared turn by turn too.      *)

(* A larger part of the same whole is never fewer per cent. *)
LEMMA RatioGrows ==
  ASSUME NEW x \in Nat, NEW y \in Nat, NEW d \in Nat \ {0}, x <= y
  PROVE  /\ RoundedRatio(x, d) \in Int /\ RoundedRatio(y, d) \in Int
         /\ RoundedRatio(x, d) <= RoundedRatio(y, d)
<1> DEFINE q(z) == z \div d  r(z) == z % d
<1>1. /\ q(x) \in Int /\ r(x) \in Int /\ 0 <= r(x) /\ r(x) < d /\ x = d * q(x) + r(x)
      /\ q(y) \in Int /\ r(y) \in Int /\ 0 <= r(y) /\ r(y) < d /\ y = d * q(y) + r(y)
  BY Euclid
<1>2. /\ RoundedRatio(x, d) = IF 2 * r(x) > d \/ (2 * r(x) = d /\ q(x) % 2 = 1) THEN q(x) + 1 ELSE q(x)
      /\ RoundedRatio(y, d) = IF 2 * r(y) > d \/ (2 * r(y) = d /\ q(y) % 2 = 1) THEN q(y) + 1 ELSE q(y)
  BY Zenon DEF RoundedRatio
<1> HIDE DEF q, r
<1>3. q(x) < q(y) \/ (q(x) = q(y) /\ r(x) <= r(y))
  BY <1>1, QuotientsGrow
<1>4. /\ RoundedRatio(x, d) \in Int /\ RoundedRatio(x, d) <= q(x) + 1 /\ RoundedRatio(x, d) >= q(x)
      /\ RoundedRatio(y, d) \in Int /\ RoundedRatio(y, d) <= q(y) + 1 /\ RoundedRatio(y, d) >= q(y)
  BY <1>1, <1>2
<1>5. CASE q(x) < q(y)
  BY <1>1, <1>4, <1>5
<1>6. CASE q(x) = q(y) /\ r(x) <= r(y)
  BY <1>1, <1>2, <1>4, <1>6
<1> QED  BY <1>3, <1>4, <1>5, <1>6

LEMMA RatioOfMultiple ==
  ASSUME NEW k \in Nat, NEW d \in Nat \ {0}
  PROVE  RoundedRatio(k * d, d) = k
<1> DEFINE q == (k * d) \div d  r == (k * d) % d
<1>1. k * d \in Nat
  OBVIOUS
<1>2. q \in Int /\ r \in Int /\ 0 <= r /\ r < d /\ k * d = d * q + r
  BY <1>1, Euclid
<1>3. RoundedRatio(k * d, d) = IF 2 * r > d \/ (2 * r = d /\ q % 2 = 1) THEN q + 1 ELSE q
  BY Zenon DEF RoundedRatio
<1> HIDE DEF q, r
<1>4. d * k + 0 = d * q + r
  BY <1>2
<1>5. k < q \/ (k = q /\ 0 <= r)
  BY <1>2, <1>4, QuotientsGrow
<1>6. q < k \/ (q = k /\ r <= 0)
  BY <1>2, <1>4, QuotientsGrow
<1>7. q = k /\ r = 0
  BY <1>2, <1>5, <1>6
<1> QED  BY <1>3, <1>7

LEMMA PercentGrows ==
  ASSUME NEW x \in Nat, NEW y \in Nat, NEW n \in Nat, x <= y
  PROVE  Percent(x, n) \in Int /\ Percent(y, n) \in Int /\ Percent(x, n) <= Percent(y, n)
<1>1. 100 * x \in Nat /\ 100 * y \in Nat /\ 100 * x <= 100 * y
  BY SMT
<1>2. CASE n = 0
  BY <1>2 DEF Percent
<1>3. CASE n # 0
  <2>1. /\ RoundedRatio(100 * x, n) \in Int /\ RoundedRatio(100 * y, n) \in Int
        /\ RoundedRatio(100 * x, n) <= RoundedRatio(100 * y, n)
    BY <1>1, <1>3, RatioGrows
  <2> QED  BY <1>3, <2>1 DEF Percent
<1> QED  BY <1>2, <1>3

(* More of the same days is not fewer per cent of them. *)
LEMMA ShareGrows ==
  ASSUME NEW n \in Nat, NEW S \in SUBSET (1 .. n), NEW T \in SUBSET S, NEW m \in Nat
  PROVE  Percent(Cardinality(S), m) >= Percent(Cardinality(T), m)
<1>1. IsFiniteSet(1 .. n)
  BY FS_Interval
<1>2. IsFiniteSet(S)
  BY <1>1, FS_Subset
<1>3. IsFiniteSet(T) /\ Cardinality(T) <= Cardinality(S)
  BY <1>2, FS_Subset
<1>4. Cardinality(S) \in Nat /\ Cardinality(T) \in Nat
  BY <1>2, <1>3, FS_CardinalityType
<1>5. Percent(Cardinality(T), m) \in Int /\ Percent(Cardinality(S), m) \in Int
      /\ Percent(Cardinality(T), m) <= Percent(Cardinality(S), m)
  BY <1>3, <1>4, PercentGrows
<1> QED  BY <1>5

(* What the walks of the model go over. *)
LEMMA BarTypes ==
  ASSUME NEW b \in HitBars
  PROVE  /\ b.low \in Nat /\ b.close \in Nat /\ b.high \in Nat
         /\ 1 <= b.close /\ b.close <= b.high
<1>1. b \in [low : Nat \ {0}, high : Nat, close : Nat]
  BY HitRatesAssumption
<1>2. b.low <= b.close /\ b.close <= b.high
  BY HitRatesAssumption
<1>3. b.low \in Nat /\ b.low >= 1 /\ b.close \in Nat /\ b.high \in Nat
  BY <1>1
<1> QED  BY <1>2, <1>3

(* The higher of two products with the same factor. *)
LEMMA ProductGrows ==
  ASSUME NEW c \in Nat, NEW a \in Int, NEW b \in Int, a <= b
  PROVE  c * a <= c * b /\ c * a \in Int /\ c * b \in Int
<1> DEFINE e == b - a
<1>1. e \in Nat /\ b = a + e
  OBVIOUS
<1> HIDE DEF e
<1>2. c * b = c * a + c * e /\ c * e \in Nat
  BY <1>1
<1> QED  BY <1>2

(* A walk that reaches a target has reached every nearer one. *)
LEMMA WalkReachesNearer ==
  ASSUME NEW bars \in Seq(HitBars), NEW i \in 1 .. Len(bars), NEW last \in Int, last <= Len(bars),
         NEW s \in HitTargets, NEW t \in HitTargets, s < t, HitBeforeStop(bars, i, last, t)
  PROVE  HitBeforeStop(bars, i, last, s)
<1>1. PICK j \in i + 1 .. last :
        Reached(bars, i, j, t) /\ \A k \in i + 1 .. j : ~ Stopped(bars, i, k)
  BY DEF HitBeforeStop
<1>2. bars[i] \in HitBars /\ bars[j] \in HitBars
  OBVIOUS
<1>3. s \in Nat /\ t \in Nat
  BY HitRatesAssumption
<1>4. bars[i].close \in Nat /\ bars[j].high \in Nat
  BY <1>2, BarTypes
<1>5. 100 * bars[j].high >= bars[i].close * (100 + t)
  BY <1>1 DEF Reached
<1>6. bars[i].close * (100 + s) <= bars[i].close * (100 + t)
      /\ bars[i].close * (100 + s) \in Int /\ bars[i].close * (100 + t) \in Int
  BY <1>3, <1>4, ProductGrows
<1>7. Reached(bars, i, j, s)
  BY <1>4, <1>5, <1>6 DEF Reached
<1> QED  BY <1>1, <1>7 DEF HitBeforeStop

LEMMA EntriesOfSession ==
  ASSUME NEW n \in Nat \ {0}
  PROVE  Bigger(1, (n * EntryShare) \div 100) \in 1 .. n
<1> DEFINE x == n * EntryShare
<1>1. x \in Nat /\ x <= n * 100
  BY HitRatesAssumption, ProductGrows
<1> HIDE DEF x
<1> DEFINE q == x \div 100
<1>2. q \in Int /\ x % 100 \in Int /\ 0 <= x % 100 /\ x = 100 * q + (x % 100)
  BY <1>1, Euclid
<1> HIDE DEF q
<1>3. q <= n
  BY <1>1, <1>2
<1>4. Bigger(1, q) \in 1 .. n
  BY <1>2, <1>3 DEF Bigger
<1> QED  BY <1>4 DEF q, x

LEMMA SessionOddsFall ==
  ASSUME NEW bars \in Seq(HitBars), bars # <<>>,
         NEW s \in HitTargets, NEW t \in HitTargets, s < t
  PROVE  IntradayOdds(bars).hit[s] >= IntradayOdds(bars).hit[t]
<1> DEFINE n == Bigger(1, (Len(bars) * EntryShare) \div 100)
           hits(u) == {i \in 1 .. n : u \in EntryHits(bars, i)}
<1>1. Len(bars) \in Nat \ {0} /\ n \in 1 .. Len(bars)
  <2>1. Len(bars) \in Nat \ {0}
    OBVIOUS
  <2> QED  BY <2>1, EntriesOfSession
<1>2. IntradayOdds(bars).hit = [u \in HitTargets |-> Percent(Cardinality(hits(u)), Cardinality(1 .. n))]
  BY Zenon DEF IntradayOdds
<1> HIDE DEF n
<1>3. hits(s) \subseteq 1 .. n /\ hits(t) \subseteq hits(s)
  <2> SUFFICES ASSUME NEW i \in hits(t) PROVE i \in hits(s)
    OBVIOUS
  <2>1. i \in 1 .. Len(bars) /\ HitBeforeStop(bars, i, Len(bars), t)
    BY <1>1 DEF EntryHits
  <2>2. HitBeforeStop(bars, i, Len(bars), s)
    BY <1>1, <2>1, WalkReachesNearer
  <2> QED  BY <2>2 DEF EntryHits
<1>4. n \in Nat /\ Cardinality(1 .. n) \in Nat
  BY <1>1, FS_Interval, FS_CardinalityType
<1> HIDE DEF hits
<1>5. Percent(Cardinality(hits(s)), Cardinality(1 .. n)) >= Percent(Cardinality(hits(t)), Cardinality(1 .. n))
  BY <1>3, <1>4, ShareGrows
<1> QED  BY <1>2, <1>5

-----------------------------------------------------------------------------
(* The labels of a target part the days with a horizon behind them. *)
LEMMA LabelsPart ==
  ASSUME NEW bars \in Seq(HitBars), NEW t \in HitTargets
  PROVE  LET of(l) == Cardinality({i \in DOMAIN bars : Labels(bars, t)[i] = l})
         IN  TargetOdds(bars)[t] = Percent(of("win"), of("win") + of("loss"))
<1> DEFINE n == Len(bars)
           E == Entries(n, HorizonDays)
           won(i) == HitBeforeStop(bars, i, Smaller(i + HorizonDays, n), t)
           wins == {i \in E : won(i)}
           losses == {i \in E : ~ won(i)}
           of(l) == {i \in DOMAIN bars : Labels(bars, t)[i] = l}
<1>1. n \in Nat /\ DOMAIN bars = 1 .. n /\ HorizonDays \in Nat
  BY HitRatesAssumption
<1>2. \A i \in 1 .. n : Labels(bars, t)[i] = IF i > n - HorizonDays THEN "none"
                                             ELSE IF won(i) THEN "win" ELSE "loss"
  BY Zenon DEF Labels
<1>3. \A i : i \in E <=> i \in 1 .. n /\ ~ (i > n - HorizonDays)
  <2> HIDE DEF n
  <2> QED  BY <1>1 DEF Entries
<1>4. TargetOdds(bars)[t] = Percent(Cardinality(wins), Cardinality(E))
  BY Zenon DEF TargetOdds
<1> HIDE DEF won, E, n
<1>5. of("win") = wins /\ of("loss") = losses
  BY <1>1, <1>2, <1>3
<1>6. IsFiniteSet(1 .. n) /\ E \subseteq 1 .. n
  BY <1>1, <1>3, FS_Interval
<1>7. IsFiniteSet(E) /\ IsFiniteSet(wins) /\ IsFiniteSet(losses)
  <2>1. wins \subseteq E /\ losses \subseteq E
    OBVIOUS
  <2> QED  BY <1>6, <2>1, FS_Subset
<1>8. E = wins \cup losses /\ wins \cap losses = {}
  OBVIOUS
<1> HIDE DEF wins, losses
<1>9. Cardinality(E) = Cardinality(wins) + Cardinality(losses)
  <2>1. Cardinality(wins \cup losses)
          = Cardinality(wins) + Cardinality(losses) - Cardinality(wins \cap losses)
    BY <1>7, FS_Union
  <2>2. Cardinality(wins \cap losses) = 0
    BY <1>8, FS_EmptySet
  <2>3. Cardinality(wins) \in Nat /\ Cardinality(losses) \in Nat
    BY <1>7, FS_CardinalityType
  <2> QED  BY <1>8, <2>1, <2>2, <2>3
<1> HIDE DEF of
<1> QED  BY Zenon, <1>4, <1>5, <1>9 DEF of

-----------------------------------------------------------------------------
(* Of finitely many numbers one is the greatest. *)
LEMMA GreatestTurn ==
  ASSUME NEW N \in Nat, NEW F \in [1 .. N -> Nat]
  PROVE  \A n \in 0 .. N : n = 0 \/ \E m \in 1 .. n : \A j \in 1 .. n : F[m] >= F[j]
<1> DEFINE top(n) == \E m \in 1 .. n : \A j \in 1 .. n : F[m] >= F[j]
           T == {n \in 0 .. N : n = 0 \/ top(n)}
<1>1. 0 \in T
  OBVIOUS
<1>2. ASSUME NEW n \in 1 .. N, n - 1 \in T
      PROVE  n \in T
  <2>1. n \in 0 .. N /\ n \in 1 .. n /\ F[n] \in Nat /\ \A j \in 1 .. n : j = n \/ j \in 1 .. n - 1
    OBVIOUS
  <2>2. CASE n - 1 = 0
    <3>1. \A j \in 1 .. n : F[n] >= F[j]
      BY <2>1, <2>2
    <3> QED  BY <2>1, <3>1
  <2>3. CASE n - 1 # 0
    <3>1. PICK m \in 1 .. n - 1 : \A j \in 1 .. n - 1 : F[m] >= F[j]
      BY <1>2, <2>3
    <3>2. m \in 1 .. n /\ F[m] \in Nat
      OBVIOUS
    <3>3. CASE F[m] >= F[n]
      <4>1. \A j \in 1 .. n : F[m] >= F[j]
        BY <2>1, <3>1, <3>3
      <4> QED  BY <2>1, <3>2, <4>1
    <3>4. CASE ~ (F[m] >= F[n])
      <4>1. \A j \in 1 .. n : F[n] >= F[j]
        <5> SUFFICES ASSUME NEW j \in 1 .. n PROVE F[n] >= F[j]
          OBVIOUS
        <5>1. CASE j = n
          BY <2>1, <5>1
        <5>2. CASE j # n
          <6>1. F[j] \in Nat /\ F[m] >= F[j]
            BY <2>1, <3>1, <5>2
          <6> QED  BY <2>1, <3>2, <3>4, <6>1
        <5> QED  BY <5>1, <5>2
      <4> QED  BY <2>1, <4>1
    <3> QED  BY <3>3, <3>4
  <2> QED  BY <2>2, <2>3
<1>3. 0 .. N \subseteq T
  <2> HIDE DEF T
  <2> QED  BY <1>1, <1>2, UpTo
<1> QED  BY <1>3

LEMMA TopOfWindow ==
  ASSUME NEW bars \in Seq(HitBars), NEW i \in 1 .. Len(bars) - TouchDays
  PROVE  Max({bars[j].high : j \in i + 1 .. i + TouchDays}) \in Nat
<1> DEFINE F == [d \in 1 .. TouchDays |-> bars[i + d].high]
           S == {bars[j].high : j \in i + 1 .. i + TouchDays}
<1>1. TouchDays \in Nat /\ TouchDays >= 1
  BY HitRatesAssumption
<1>2. ASSUME NEW d \in 1 .. TouchDays PROVE bars[i + d].high \in Nat
  <2>1. i + d \in 1 .. Len(bars)
    BY <1>1
  <2>2. bars[i + d] \in HitBars
    BY <2>1
  <2> QED  BY <2>2, BarTypes
<1>3. F \in [1 .. TouchDays -> Nat] /\ \A d \in 1 .. TouchDays : F[d] = bars[i + d].high
  BY <1>2
<1>4. \A j \in i + 1 .. i + TouchDays : j - i \in 1 .. TouchDays /\ i + (j - i) = j
  BY <1>1
<1>5. \A d \in 1 .. TouchDays : i + d \in i + 1 .. i + TouchDays
  BY <1>1
<1> HIDE DEF F
<1>6. PICK m \in 1 .. TouchDays : \A d \in 1 .. TouchDays : F[m] >= F[d]
  <2>1. TouchDays \in 0 .. TouchDays /\ TouchDays # 0
    BY <1>1
  <2> QED  BY <1>1, <1>3, <2>1, GreatestTurn
<1>7. F[m] \in S /\ F[m] \in Nat
  BY <1>3, <1>5
<1>8. \A x \in S : F[m] >= x
  <2> SUFFICES ASSUME NEW j \in i + 1 .. i + TouchDays PROVE F[m] >= bars[j].high
    OBVIOUS
  <2>1. F[m] >= F[j - i] /\ F[j - i] = bars[i + (j - i)].high
    BY <1>3, <1>4, <1>6
  <2> QED  BY <1>4, <2>1
<1>9. S \subseteq Nat
  <2> SUFFICES ASSUME NEW j \in i + 1 .. i + TouchDays PROVE bars[j].high \in Nat
    OBVIOUS
  <2> QED  BY <1>2, <1>4
<1> HIDE DEF S
<1>10. \E x \in S : \A y \in S : x >= y
  BY <1>7, <1>8
<1>11. Max(S) \in S
  BY <1>10 DEF Max
<1> QED  BY <1>9, <1>11 DEF S

LEMMA TouchOddsFall ==
  ASSUME NEW bars \in Seq(HitBars), NEW price \in Nat, NEW k \in Levels, NEW l \in Levels,
         k < l, k > price
  PROVE  TouchOdds(bars, price, k) >= TouchOdds(bars, price, l)
<1> DEFINE n == Len(bars) - TouchDays
           top(i) == Max({bars[j].high : j \in i + 1 .. i + TouchDays})
           up(m) == {i \in 1 .. n : top(i) * price >= m * bars[i].close}
<1>1. k \in Nat /\ l \in Nat /\ n \in Int /\ TouchDays \in Nat
  BY HitRatesAssumption
<1>2. ~ (k <= price) /\ ~ (l <= price)
  BY <1>1
<1>3. /\ TouchOdds(bars, price, k) = Percent(Cardinality(up(k)), Cardinality(1 .. n))
      /\ TouchOdds(bars, price, l) = Percent(Cardinality(up(l)), Cardinality(1 .. n))
  <2> HIDE DEF n, top
  <2> QED  BY Zenon, <1>2 DEF TouchOdds, n, top
<1>4. up(l) \subseteq up(k)
  <2> SUFFICES ASSUME NEW i \in 1 .. n, top(i) * price >= l * bars[i].close
               PROVE  top(i) * price >= k * bars[i].close
    OBVIOUS
  <2>1. top(i) \in Nat
    BY TopOfWindow
  <2>2. i \in 1 .. Len(bars) /\ bars[i] \in HitBars
    BY <1>1
  <2>3. bars[i].close \in Nat
    BY <2>2, BarTypes
  <2> HIDE DEF top
  <2> DEFINE c == bars[i].close  x == top(i) * price
  <2>4. x \in Nat
    BY <2>1
  <2>5. c * k <= c * l /\ c * k \in Int /\ c * l \in Int /\ c * k = k * c /\ c * l = l * c
    BY <1>1, <2>3, ProductGrows
  <2>6. x >= l * c
    OBVIOUS
  <2> HIDE DEF x, c
  <2>7. x >= k * c
    BY <2>4, <2>5, <2>6
  <2> QED  BY <2>7 DEF x, c
<1>5. up(k) \subseteq 1 .. n
  OBVIOUS
<1> HIDE DEF up, top
<1>6. Cardinality(1 .. n) \in Nat
  <2> HIDE DEF n
  <2>1. IsFiniteSet(1 .. n)
    BY <1>1, FS_Interval
  <2> QED  BY <2>1, FS_CardinalityType
<1>7. \E m \in Nat : up(k) \subseteq 1 .. m
  <2>1. CASE n \in Nat
    BY <1>5, <2>1
  <2>2. CASE n \notin Nat
    <3>1. up(k) \subseteq 1 .. 0
      BY <1>1, <1>5, <2>2
    <3> QED  BY <3>1
  <2> QED  BY <2>1, <2>2
<1> HIDE DEF n
<1>8. Percent(Cardinality(up(k)), Cardinality(1 .. n)) >= Percent(Cardinality(up(l)), Cardinality(1 .. n))
  BY <1>4, <1>6, <1>7, ShareGrows
<1> QED  BY <1>3, <1>8

-----------------------------------------------------------------------------
(* The fraction that the mean over the lookbacks is, turn by turn. *)
Days(bars, b) == Cardinality(LatestDays(Len(bars), Lookbacks[b]))
DaysMade(bars, price, level, b) == Cardinality(Made(bars, Lookbacks[b], price, level))

FractionOf(bars, price, level, den, num) ==
  /\ den \in [0 .. Len(Lookbacks) -> Nat \ {0}] /\ num \in [0 .. Len(Lookbacks) -> Nat]
  /\ den[0] = 1 /\ num[0] = 0
  /\ \A b \in 1 .. Len(Lookbacks) :
       /\ den[b] = den[b - 1] * Days(bars, b)
       /\ num[b] = num[b - 1] * Days(bars, b) + 100 * DaysMade(bars, price, level, b) * den[b - 1]

HasFraction(bars, price, level) ==
  \E den, num : /\ FractionOf(bars, price, level, den, num)
                /\ ReachOdds(bars, price, level)
                     = IF level <= price THEN 99
                       ELSE RoundedRatio(num[Len(Lookbacks)], den[Len(Lookbacks)] * Len(Lookbacks))

LEMMA SampleOfDays ==
  ASSUME NEW bars \in Seq(HitBars), Len(bars) >= 2, NEW b \in 1 .. Len(Lookbacks), NEW price, NEW level
  PROVE  /\ LatestDays(Len(bars), Lookbacks[b]) \subseteq 2 .. Len(bars)
         /\ IsFiniteSet(LatestDays(Len(bars), Lookbacks[b]))
         /\ Made(bars, Lookbacks[b], price, level) \subseteq LatestDays(Len(bars), Lookbacks[b])
         /\ Days(bars, b) \in Nat \ {0} /\ DaysMade(bars, price, level, b) \in Nat
<1> DEFINE n == Len(bars)  back == Lookbacks[b]
<1>1. n \in Nat /\ n >= 2
  OBVIOUS
<1>2. back \in Nat /\ back >= 1
  BY HitRatesAssumption
<1> HIDE DEF n, back
<1>3. /\ LatestDays(n, back) \subseteq 2 .. n /\ n \in LatestDays(n, back)
      /\ \E m \in Int : LatestDays(n, back) = m .. n
  BY <1>1, <1>2 DEF LatestDays, Bigger
<1>4. IsFiniteSet(LatestDays(n, back))
  BY <1>1, <1>3, FS_Interval
<1>5. Made(bars, back, price, level) \subseteq LatestDays(n, back)
  BY Zenon DEF Made, n
<1>6. IsFiniteSet(Made(bars, back, price, level))
  BY <1>4, <1>5, FS_Subset
<1>7. Cardinality(LatestDays(n, back)) \in Nat /\ Cardinality(Made(bars, back, price, level)) \in Nat
  BY <1>4, <1>6, FS_CardinalityType
<1>8. Cardinality(LatestDays(n, back)) # 0
  BY <1>3, <1>4, FS_EmptySet
<1> QED  BY <1>3, <1>4, <1>5, <1>7, <1>8 DEF Days, DaysMade, n, back

LEMMA OddsAreAFraction ==
  ASSUME NEW bars \in Seq(HitBars), Len(bars) >= 2, NEW price \in Nat, NEW level \in Levels
  PROVE  HasFraction(bars, price, level)
<1> DEFINE N == Len(Lookbacks)
           days(b) == Days(bars, b)
           made(b) == DaysMade(bars, price, level, b)
           dturn(f, b) == IF b = 0 THEN 1 ELSE f[b - 1] * days(b)
           den == CHOOSE f : f = [b \in 0 .. N |-> dturn(f, b)]
           nturn(f, b) == IF b = 0 THEN 0 ELSE f[b - 1] * days(b) + 100 * made(b) * den[b - 1]
           num == CHOOSE f : f = [b \in 0 .. N |-> nturn(f, b)]
<1>1. N \in Nat
  BY HitRatesAssumption
<1>2. ASSUME NEW b \in 1 .. N PROVE days(b) \in Nat \ {0} /\ made(b) \in Nat
  BY SampleOfDays
<1>3. ReachOdds(bars, price, level)
        = IF level <= price THEN 99 ELSE RoundedRatio(num[N], den[N] * N)
  BY Zenon DEF ReachOdds, Days, DaysMade
<1> HIDE DEF N, days, made
<1>4. \E f : f = [b \in 0 .. N |-> dturn(f, b)]
  <2> DEFINE V == Nat \ {0}
             next == [b \in 1 .. N |-> [v \in V |-> v * days(b)]]
  <2>1. \A b \in 1 .. N : \A v \in V : v * days(b) \in V
    <3> SUFFICES ASSUME NEW b \in 1 .. N, NEW v \in V PROVE v * days(b) \in Nat /\ v * days(b) # 0
      OBVIOUS
    <3> DEFINE d == days(b)
    <3>1. d \in Nat /\ d # 0
      BY <1>2
    <3> HIDE DEF d
    <3>2. v * d \in Nat /\ v * d # 0
      BY <3>1
    <3> QED  BY <3>2 DEF d
  <2>2. next \in [1 .. N -> [V -> V]] /\ 1 \in V
    BY <2>1
  <2>3. \A b \in 1 .. N : \A v \in V : next[b][v] = v * days(b)
    OBVIOUS
  <2> HIDE DEF next, V
  <2>4. PICK f \in [0 .. N -> V] : f[0] = 1 /\ \A b \in 1 .. N : f[b] = next[b][f[b - 1]]
    <3>1. HasRun(V, N, 1, next)
      BY <1>1, <2>2, LoopRuns
    <3> QED  BY <3>1 DEF HasRun
  <2>5. ASSUME NEW b \in 0 .. N PROVE f[b] = dturn(f, b)
    <3>1. CASE b = 0
      BY <2>4, <3>1
    <3>2. CASE b # 0
      <4>1. b \in 1 .. N /\ b - 1 \in 0 .. N
        BY <1>1, <3>2
      <4>2. f[b] = next[b][f[b - 1]] /\ f[b - 1] \in V
        BY <2>4, <4>1
      <4>3. f[b] = f[b - 1] * days(b)
        BY <2>3, <4>1, <4>2
      <4> QED  BY <3>2, <4>3
    <3> QED  BY <3>1, <3>2
  <2>6. f = [b \in 0 .. N |-> dturn(f, b)]
    <3> HIDE DEF dturn
    <3> QED  BY <2>4, <2>5
  <2> QED  BY <2>6
<1>5. den = [b \in 0 .. N |-> dturn(den, b)]
  <2> HIDE DEF dturn
  <2> QED  BY Zenon, <1>4 DEF den
<1> HIDE DEF den
<1>6. den[0] = 1 /\ \A b \in 1 .. N : den[b] = den[b - 1] * days(b)
  <2>1. ASSUME NEW b \in 0 .. N PROVE den[b] = dturn(den, b)
    <3> HIDE DEF dturn
    <3> QED  BY Zenon, <1>5
  <2> QED  BY <1>1, <2>1
<1>7. \A b \in 0 .. N : den[b] \in Nat \ {0}
  <2> DEFINE T == {b \in 0 .. N : den[b] \in Nat \ {0}}
  <2>1. 0 \in T
    BY <1>1, <1>6
  <2>2. ASSUME NEW b \in 1 .. N, b - 1 \in T PROVE b \in T
    <3> DEFINE d == days(b)  e == den[b - 1]
    <3>1. b \in 0 .. N /\ den[b] = e * d /\ d \in Nat /\ d # 0 /\ e \in Nat /\ e # 0
      BY <1>2, <1>6, <2>2
    <3> HIDE DEF d, e
    <3>2. e * d \in Nat /\ e * d # 0
      BY <3>1
    <3> QED  BY <3>1, <3>2
  <2>3. 0 .. N \subseteq T
    <3> HIDE DEF T
    <3> QED  BY <1>1, <2>1, <2>2, UpTo
  <2> QED  BY <2>3
<1>8. \E f : f = [b \in 0 .. N |-> nturn(f, b)]
  <2> DEFINE V == Nat
             gain(b) == 100 * made(b) * den[b - 1]
             next == [b \in 1 .. N |-> [v \in V |-> v * days(b) + gain(b)]]
  <2>1. \A b \in 1 .. N : \A v \in V : v * days(b) + gain(b) \in V
    <3> SUFFICES ASSUME NEW b \in 1 .. N, NEW v \in V PROVE v * days(b) + gain(b) \in Nat
      OBVIOUS
    <3>1. b - 1 \in 0 .. N
      BY <1>1
    <3> DEFINE d == days(b)  m == made(b)  e == den[b - 1]
    <3>2. d \in Nat /\ m \in Nat /\ e \in Nat
      BY <1>2, <1>7, <3>1
    <3> HIDE DEF d, m, e
    <3>3. v * d + 100 * m * e \in Nat
      BY <3>2
    <3> QED  BY <3>3 DEF d, m, e
  <2>2. next \in [1 .. N -> [V -> V]] /\ 0 \in V
    <3> HIDE DEF gain
    <3> QED  BY <2>1
  <2>3. \A b \in 1 .. N : \A v \in V : next[b][v] = v * days(b) + gain(b)
    <3> HIDE DEF gain
    <3> QED  OBVIOUS
  <2> HIDE DEF next
  <2>4. PICK f \in [0 .. N -> V] : f[0] = 0 /\ \A b \in 1 .. N : f[b] = next[b][f[b - 1]]
    <3> HIDE DEF V
    <3>1. HasRun(V, N, 0, next)
      BY <1>1, <2>2, LoopRuns
    <3> QED  BY <3>1 DEF HasRun
  <2>5. ASSUME NEW b \in 0 .. N PROVE f[b] = nturn(f, b)
    <3>1. CASE b = 0
      BY <2>4, <3>1
    <3>2. CASE b # 0
      <4>1. b \in 1 .. N /\ b - 1 \in 0 .. N
        BY <1>1, <3>2
      <4>2. f[b] = next[b][f[b - 1]] /\ f[b - 1] \in V
        BY <2>4, <4>1
      <4>3. f[b] = f[b - 1] * days(b) + gain(b)
        <5> HIDE DEF gain
        <5> QED  BY <2>3, <4>1, <4>2
      <4> QED  BY <3>2, <4>3
    <3> QED  BY <3>1, <3>2
  <2>6. f = [b \in 0 .. N |-> nturn(f, b)]
    <3> HIDE DEF nturn
    <3> QED  BY <2>4, <2>5
  <2> QED  BY <2>6
<1>9. num = [b \in 0 .. N |-> nturn(num, b)]
  <2> HIDE DEF nturn
  <2> QED  BY Zenon, <1>8 DEF num
<1> HIDE DEF num
<1>10. num[0] = 0 /\ \A b \in 1 .. N : num[b] = num[b - 1] * days(b) + 100 * made(b) * den[b - 1]
  <2>1. ASSUME NEW b \in 0 .. N PROVE num[b] = nturn(num, b)
    <3> HIDE DEF nturn
    <3> QED  BY Zenon, <1>9
  <2> QED  BY <1>1, <2>1
<1>11. \A b \in 0 .. N : num[b] \in Nat
  <2> DEFINE T == {b \in 0 .. N : num[b] \in Nat}
  <2>1. 0 \in T
    BY <1>1, <1>10
  <2>2. ASSUME NEW b \in 1 .. N, b - 1 \in T PROVE b \in T
    <3> DEFINE d == days(b)  m == made(b)  e == den[b - 1]  v == num[b - 1]
    <3>1. b \in 0 .. N /\ b - 1 \in 0 .. N
      BY <1>1
    <3>2. num[b] = v * d + 100 * m * e /\ d \in Nat /\ m \in Nat /\ e \in Nat /\ v \in Nat
      BY <1>2, <1>7, <1>10, <2>2, <3>1
    <3> HIDE DEF d, m, e, v
    <3>3. v * d + 100 * m * e \in Nat
      BY <3>2
    <3> QED  BY <3>1, <3>2, <3>3
  <2>3. 0 .. N \subseteq T
    <3> HIDE DEF T
    <3> QED  BY <1>1, <2>1, <2>2, UpTo
  <2> QED  BY <2>3
<1>12. den \in [0 .. N -> Nat \ {0}] /\ num \in [0 .. N -> Nat]
  <2>1. den = [b \in 0 .. N |-> den[b]]
    <3> HIDE DEF dturn
    <3> QED  BY <1>5
  <2>2. num = [b \in 0 .. N |-> num[b]]
    <3> HIDE DEF nturn
    <3> QED  BY <1>9
  <2>3. den \in [0 .. N -> Nat \ {0}]
    BY <1>7, <2>1
  <2> QED  BY <1>11, <2>2, <2>3
<1>13. FractionOf(bars, price, level, den, num)
  BY <1>6, <1>10, <1>12 DEF FractionOf, N, days, made
<1> QED  BY <1>3, <1>13 DEF HasFraction, N

LEMMA FractionBeyond ==
  ASSUME NEW bars \in Seq(HitBars), Len(bars) >= 2, NEW price \in Nat, NEW level \in Levels,
         ~ (level <= price)
  PROVE  \E den, num :
           /\ FractionOf(bars, price, level, den, num)
           /\ ReachOdds(bars, price, level)
                = RoundedRatio(num[Len(Lookbacks)], den[Len(Lookbacks)] * Len(Lookbacks))
<1>1. HasFraction(bars, price, level)
  BY OddsAreAFraction
<1>2. PICK den, num :
        /\ FractionOf(bars, price, level, den, num)
        /\ ReachOdds(bars, price, level)
             = IF level <= price THEN 99
               ELSE RoundedRatio(num[Len(Lookbacks)], den[Len(Lookbacks)] * Len(Lookbacks))
  BY Zenon, <1>1 DEF HasFraction
<1>3. ReachOdds(bars, price, level)
        = RoundedRatio(num[Len(Lookbacks)], den[Len(Lookbacks)] * Len(Lookbacks))
  BY Zenon, <1>2
<1> QED  BY Zenon, <1>2, <1>3

LEMMA MadeFall ==
  ASSUME NEW bars \in Seq(HitBars), Len(bars) >= 2, NEW price \in Nat, NEW b \in 1 .. Len(Lookbacks),
         NEW k \in Levels, NEW l \in Levels, k < l
  PROVE  DaysMade(bars, price, l, b) <= DaysMade(bars, price, k, b)
<1> DEFINE back == Lookbacks[b]
           S == LatestDays(Len(bars), back)
           rise(i) == (bars[i].high - bars[i - 1].close) * price
           need(i, m) == (m - price) * bars[i - 1].close
           made(m) == {i \in S : rise(i) >= need(i, m)}
<1>1. k \in Nat /\ l \in Nat
  BY HitRatesAssumption
<1>2. S \subseteq 2 .. Len(bars) /\ IsFiniteSet(S)
  BY SampleOfDays
<1>3. ASSUME NEW i \in S PROVE rise(i) \in Int /\ need(i, k) \in Int /\ need(i, l) \in Int /\ need(i, k) <= need(i, l)
  <2>1. i \in 2 .. Len(bars)
    BY <1>2
  <2>2. i \in 1 .. Len(bars) /\ i - 1 \in 1 .. Len(bars)
    BY <2>1
  <2>3. bars[i] \in HitBars /\ bars[i - 1] \in HitBars
    BY <2>2
  <2> DEFINE h == bars[i].high  c == bars[i - 1].close
  <2>4. h \in Nat /\ c \in Nat
    BY <2>3, BarTypes
  <2> HIDE DEF h, c
  <2>5. (h - c) * price \in Int
    BY <2>4
  <2>6. c * (k - price) <= c * (l - price) /\ c * (k - price) \in Int /\ c * (l - price) \in Int
    <3> DEFINE x == k - price  y == l - price
    <3>1. x \in Int /\ y \in Int /\ x <= y
      BY <1>1
    <3> HIDE DEF x, y
    <3>2. c * x <= c * y /\ c * x \in Int /\ c * y \in Int
      BY <2>4, <3>1, ProductGrows
    <3> QED  BY <3>2 DEF x, y
  <2>7. c * (k - price) = (k - price) * c /\ c * (l - price) = (l - price) * c
    BY <1>1, <2>4
  <2> QED  BY <2>5, <2>6, <2>7 DEF h, c
<1>4. Made(bars, back, price, k) = made(k) /\ Made(bars, back, price, l) = made(l)
  BY Zenon DEF Made
<1> HIDE DEF rise, need
<1>5. made(l) \subseteq made(k) /\ made(k) \subseteq S
  <2> SUFFICES ASSUME NEW i \in S, rise(i) >= need(i, l) PROVE rise(i) >= need(i, k)
    OBVIOUS
  <2> DEFINE x == rise(i)  y == need(i, k)  z == need(i, l)
  <2>1. x \in Int /\ y \in Int /\ z \in Int /\ y <= z /\ x >= z
    BY <1>3
  <2> HIDE DEF x, y, z
  <2>2. x >= y
    BY <2>1
  <2> QED  BY <2>2 DEF x, y
<1> HIDE DEF made, S
<1>6. IsFiniteSet(made(k))
  BY <1>2, <1>5, FS_Subset
<1>7. Cardinality(made(l)) <= Cardinality(made(k))
  BY <1>5, <1>6, FS_Subset
<1> QED  BY <1>4, <1>7 DEF DaysMade

(* A further level is not likelier within a day. *)
LEMMA ReachOddsFall ==
  ASSUME NEW bars \in Seq(HitBars), Len(bars) >= 2, NEW price \in Nat,
         NEW k \in Levels, NEW l \in Levels, k < l, k > price
  PROVE  ReachOdds(bars, price, k) >= ReachOdds(bars, price, l)
<1> DEFINE N == Len(Lookbacks)
<1>1. k \in Nat /\ l \in Nat /\ N \in Nat /\ N # 0
  BY HitRatesAssumption
<1>2. ~ (k <= price) /\ ~ (l <= price)
  BY <1>1
<1>3. PICK dk, nk : FractionOf(bars, price, k, dk, nk)
                    /\ ReachOdds(bars, price, k) = RoundedRatio(nk[N], dk[N] * N)
  BY Zenon, <1>2, FractionBeyond
<1>4. PICK dl, nl : FractionOf(bars, price, l, dl, nl)
                    /\ ReachOdds(bars, price, l) = RoundedRatio(nl[N], dl[N] * N)
  BY Zenon, <1>2, FractionBeyond
<1> DEFINE T == {b \in 0 .. N : dk[b] = dl[b] /\ nl[b] <= nk[b]}
<1>5. 0 \in T
  BY <1>1, <1>3, <1>4 DEF FractionOf
<1>6. ASSUME NEW b \in 1 .. N, b - 1 \in T PROVE b \in T
  <2> DEFINE d == Days(bars, b)  mk == DaysMade(bars, price, k, b)  ml == DaysMade(bars, price, l, b)
             e == dk[b - 1]  u == nk[b - 1]  v == nl[b - 1]
  <2>1. b \in 0 .. N /\ b - 1 \in 0 .. N
    BY <1>1
  <2>2. e \in Nat /\ u \in Nat /\ v \in Nat /\ v <= u /\ dl[b - 1] = e
    BY <1>3, <1>4, <1>6, <2>1 DEF FractionOf
  <2>3. d \in Nat /\ mk \in Nat /\ ml \in Nat /\ ml <= mk
    BY SampleOfDays, MadeFall
  <2>4. /\ dk[b] = e * d /\ nk[b] = u * d + 100 * mk * e
        /\ dl[b] = e * d /\ nl[b] = v * d + 100 * ml * e
    BY <1>3, <1>4, <2>2 DEF FractionOf
  <2> HIDE DEF d, mk, ml, e, u, v
  <2>5. d * v <= d * u /\ e * ml <= e * mk /\ d * v \in Int /\ d * u \in Int /\ e * ml \in Int /\ e * mk \in Int
    BY <2>2, <2>3, ProductGrows
  <2>6. v * d = d * v /\ u * d = d * u /\ 100 * mk * e = 100 * (e * mk) /\ 100 * ml * e = 100 * (e * ml)
    BY <2>2, <2>3
  <2>7. nl[b] <= nk[b]
    BY <2>4, <2>5, <2>6
  <2> QED  BY <2>1, <2>4, <2>7
<1>7. 0 .. N \subseteq T
  <2> HIDE DEF T, N
  <2> QED  BY <1>1, <1>5, <1>6, UpTo
<1>8. N \in 0 .. N
  BY <1>1
<1>9. dk[N] = dl[N] /\ nl[N] <= nk[N] /\ nk[N] \in Nat /\ nl[N] \in Nat /\ dk[N] \in Nat /\ dk[N] # 0
  BY <1>3, <1>4, <1>7, <1>8 DEF FractionOf
<1> DEFINE D == dk[N] * N
<1>10. D \in Nat \ {0}
  <2> DEFINE e == dk[N]
  <2>1. e \in Nat /\ e # 0
    BY <1>9
  <2> HIDE DEF e, N
  <2>2. e * N \in Nat /\ e * N # 0
    BY <1>1, <2>1
  <2> QED  BY <2>2 DEF e
<1>11. ReachOdds(bars, price, k) = RoundedRatio(nk[N], D) /\ ReachOdds(bars, price, l) = RoundedRatio(nl[N], D)
  BY <1>3, <1>4, <1>9
<1> HIDE DEF D, N
<1>12. /\ RoundedRatio(nl[N], D) \in Int /\ RoundedRatio(nk[N], D) \in Int
       /\ RoundedRatio(nl[N], D) <= RoundedRatio(nk[N], D)
  BY <1>9, <1>10, RatioGrows
<1> QED  BY <1>11, <1>12

(* The days of the sample decide: all of them, or none. *)
LEMMA ReachFollowsDays ==
  ASSUME NEW bars \in Seq(HitBars), Len(bars) >= 2, NEW price \in Nat, NEW level \in Levels, level > price
  PROVE  LET S == Bigger(2, Len(bars) - Last(Lookbacks) + 1) .. Len(bars)
             made(i) == (bars[i].high - bars[i - 1].close) * price
                          >= (level - price) * bars[i - 1].close
         IN  /\ (\A i \in S : made(i)) => ReachOdds(bars, price, level) = 100
             /\ (\A i \in S : ~ made(i)) => ReachOdds(bars, price, level) = 0
<1> DEFINE N == Len(Lookbacks)
           S == Bigger(2, Len(bars) - Last(Lookbacks) + 1) .. Len(bars)
           made(i) == (bars[i].high - bars[i - 1].close) * price >= (level - price) * bars[i - 1].close
           latest(b) == LatestDays(Len(bars), Lookbacks[b])
<1>1. level \in Nat /\ N \in Nat /\ N # 0 /\ Len(bars) \in Nat
  BY HitRatesAssumption
<1>2. PICK den, num : /\ FractionOf(bars, price, level, den, num)
                      /\ ReachOdds(bars, price, level) = RoundedRatio(num[N], den[N] * N)
  <2>1. ~ (level <= price)
    BY <1>1
  <2> QED  BY Zenon, <2>1, FractionBeyond
<1>3. ASSUME NEW b \in 1 .. N
      PROVE  /\ latest(b) \subseteq S
             /\ Made(bars, Lookbacks[b], price, level) = {i \in latest(b) : made(i)}
             /\ IsFiniteSet(latest(b))
             /\ Days(bars, b) = Cardinality(latest(b)) /\ Days(bars, b) \in Nat /\ Days(bars, b) # 0
             /\ DaysMade(bars, price, level, b) = Cardinality({i \in latest(b) : made(i)})
  <2>1. Lookbacks[b] \in Nat /\ Last(Lookbacks) \in Nat /\ Lookbacks[b] <= Last(Lookbacks)
    BY HitRatesAssumption DEF Last
  <2>2. latest(b) \subseteq S
    BY <1>1, <2>1 DEF LatestDays, Bigger
  <2>3. Made(bars, Lookbacks[b], price, level) = {i \in latest(b) : made(i)}
    BY Zenon DEF Made
  <2>4. IsFiniteSet(latest(b)) /\ Days(bars, b) \in Nat /\ Days(bars, b) # 0
    BY SampleOfDays
  <2> HIDE DEF made, latest, S
  <2> QED  BY Zenon, <2>2, <2>3, <2>4 DEF Days, DaysMade, latest
<1> DEFINE D == den[N] * N
<1>4. N \in 0 .. N
  BY <1>1
<1>5. D \in Nat \ {0} /\ ReachOdds(bars, price, level) = RoundedRatio(num[N], D)
  <2> DEFINE e == den[N]
  <2>1. e \in Nat /\ e # 0
    BY <1>2, <1>4 DEF FractionOf
  <2> HIDE DEF e, N
  <2>2. e * N \in Nat /\ e * N # 0
    BY <1>1, <2>1
  <2> QED  BY <1>2, <2>2 DEF e
<1> HIDE DEF S, latest, made
<1>6. ASSUME \A i \in S : made(i) PROVE ReachOdds(bars, price, level) = 100
  <2> DEFINE T == {b \in 0 .. N : num[b] = 100 * b * den[b]}
  <2>1. 0 \in T
    BY <1>1, <1>2 DEF FractionOf
  <2>2. ASSUME NEW b \in 1 .. N, b - 1 \in T PROVE b \in T
    <3> DEFINE d == Days(bars, b)  e == den[b - 1]
    <3>1. {i \in latest(b) : made(i)} = latest(b)
      BY <1>3, <1>6
    <3>2. DaysMade(bars, price, level, b) = d /\ d \in Nat
      BY <1>3, <3>1
    <3>3. b \in 0 .. N /\ b - 1 \in 0 .. N /\ b \in Int
      BY <1>1
    <3>4. e \in Nat /\ num[b - 1] = 100 * (b - 1) * e
      BY <1>2, <2>2, <3>3 DEF FractionOf
    <3>5. den[b] = e * d /\ num[b] = (100 * (b - 1) * e) * d + 100 * d * e
      BY <1>2, <3>2, <3>4 DEF FractionOf
    <3> HIDE DEF d, e
    <3> DEFINE p == e * d
    <3>6. p \in Nat /\ num[b] = 100 * ((b - 1) * p) + 100 * p
      BY <3>2, <3>3, <3>4, <3>5
    <3>7. den[b] = p
      BY <3>5
    <3> HIDE DEF p
    <3>8. num[b] = 100 * b * p
      BY <3>3, <3>6
    <3> QED  BY <3>3, <3>7, <3>8
  <2>3. 0 .. N \subseteq T
    <3> HIDE DEF T, N
    <3> QED  BY <1>1, <2>1, <2>2, UpTo
  <2>4. num[N] = 100 * N * den[N] /\ den[N] \in Nat
    BY <1>2, <1>4, <2>3 DEF FractionOf
  <2>5. num[N] = 100 * D
    <3> DEFINE e == den[N]
    <3>1. e \in Nat /\ num[N] = 100 * N * e
      BY <2>4
    <3> HIDE DEF e, N
    <3>2. num[N] = 100 * (e * N)
      BY <1>1, <3>1
    <3> QED  BY <3>2 DEF e
  <2> HIDE DEF D
  <2> QED  BY <1>5, <2>5, RatioOfMultiple
<1>7. ASSUME \A i \in S : ~ made(i) PROVE ReachOdds(bars, price, level) = 0
  <2> DEFINE T == {b \in 0 .. N : num[b] = 0}
  <2>1. 0 \in T
    BY <1>1, <1>2 DEF FractionOf
  <2>2. ASSUME NEW b \in 1 .. N, b - 1 \in T PROVE b \in T
    <3> DEFINE d == Days(bars, b)  e == den[b - 1]
    <3>1. {i \in latest(b) : made(i)} = {}
      BY <1>3, <1>7
    <3>2. DaysMade(bars, price, level, b) = 0 /\ d \in Nat
      BY <1>3, <3>1, FS_EmptySet
    <3>3. b \in 0 .. N /\ b - 1 \in 0 .. N
      BY <1>1
    <3>4. e \in Nat /\ num[b - 1] = 0
      BY <1>2, <2>2, <3>3 DEF FractionOf
    <3>5. num[b] = 0 * d + 100 * 0 * e
      BY <1>2, <3>2, <3>4 DEF FractionOf
    <3> HIDE DEF d, e
    <3> QED  BY <3>2, <3>3, <3>4, <3>5
  <2>3. 0 .. N \subseteq T
    <3> HIDE DEF T, N
    <3> QED  BY <1>1, <2>1, <2>2, UpTo
  <2>4. num[N] = 0 * D
    BY <1>4, <1>5, <2>3
  <2> HIDE DEF D
  <2> QED  BY <1>5, <2>4, RatioOfMultiple
<1> QED  BY Zenon, <1>6, <1>7 DEF S, made

-----------------------------------------------------------------------------
(* The odds on display are those of the bars so far, or there are none yet. *)
HrInv ==
  /\ hrBars \in Seq(HitBars)
  /\ hrBars # <<>> => /\ hrTarget = TargetOdds(hrBars)
                      /\ hrLabels = [t \in HitTargets |-> Labels(hrBars, t)]
                      /\ hrIntraday = IntradayOdds(hrBars)
  /\ \/ hrTouch = NoOdds
     \/ /\ hrBars # <<>>
        /\ hrTouch = [l \in Levels |-> TouchOdds(hrBars, Last(hrBars).close, l)]
  /\ \/ hrReach = NoOdds
     \/ /\ Len(hrBars) >= 2
        /\ hrReach = [l \in Levels |-> ReachOdds(hrBars, Last(hrBars).close, l)]

LEMMA HrInitially == HrInit => HrInv
  BY DEF HrInit, HrInv

LEMMA BarKeepsOdds ==
  ASSUME HrInv, BarCompletes
  PROVE  HrInv'
<1> DEFINE touch(bars, b) == [l \in Levels |-> TouchOdds(bars, b.close, l)]
           reach(bars, b) == [l \in Levels |-> ReachOdds(bars, b.close, l)]
<1>1. PICK b \in HitBars :
        /\ hrBars' = Append(hrBars, b)
        /\ hrTarget' = TargetOdds(Append(hrBars, b))
        /\ hrLabels' = [t \in HitTargets |-> Labels(Append(hrBars, b), t)]
        /\ hrIntraday' = IntradayOdds(Append(hrBars, b))
        /\ hrTouch' = IF Len(Append(hrBars, b)) > TouchDays THEN touch(Append(hrBars, b), b) ELSE NoOdds
        /\ hrReach' = IF Len(Append(hrBars, b)) >= MinReachBars THEN reach(Append(hrBars, b), b) ELSE NoOdds
  BY Zenon DEF BarCompletes
<1> DEFINE bars == Append(hrBars, b)
<1>2. bars \in Seq(HitBars) /\ bars # <<>> /\ Len(bars) \in Nat /\ Last(bars) = b
  BY DEF HrInv, Last
<1> HIDE DEF bars, touch, reach
<1>3. hrBars' = bars
  BY <1>1 DEF bars
<1>4. hrTouch' \in {NoOdds, touch(bars, b)}
  BY Zenon, <1>1 DEF bars
<1>5. hrReach' = NoOdds \/ (Len(bars) >= 2 /\ hrReach' = reach(bars, b))
  <2>1. CASE Len(bars) >= MinReachBars
    <3>1. Len(bars) >= 2
      BY <1>2, <2>1, HitRatesAssumption
    <3>2. hrReach' = reach(bars, b)
      BY Zenon, <1>1, <2>1 DEF bars
    <3> QED  BY <3>1, <3>2
  <2>2. CASE ~ (Len(bars) >= MinReachBars)
    BY Zenon, <1>1, <2>2 DEF bars
  <2> QED  BY <2>1, <2>2
<1>6. NoOdds' = NoOdds
  BY DEF NoOdds
<1>7. /\ hrTarget' = TargetOdds(bars) /\ hrLabels' = [t \in HitTargets |-> Labels(bars, t)]
      /\ hrIntraday' = IntradayOdds(bars)
  BY <1>1 DEF bars
<1>8. hrBars' \in Seq(HitBars) /\ hrBars' # <<>>
  BY <1>2, <1>3
<1>9. /\ hrTarget' = TargetOdds(hrBars') /\ hrLabels' = [t \in HitTargets |-> Labels(hrBars', t)]
      /\ hrIntraday' = IntradayOdds(hrBars')
  BY Zenon, <1>3, <1>7
<1>10. hrTouch' = NoOdds \/ hrTouch' = [l \in Levels |-> TouchOdds(hrBars', Last(hrBars').close, l)]
  BY Zenon, <1>2, <1>3, <1>4 DEF touch
<1>11. \/ hrReach' = NoOdds
       \/ Len(hrBars') >= 2 /\ hrReach' = [l \in Levels |-> ReachOdds(hrBars', Last(hrBars').close, l)]
  BY Zenon, <1>2, <1>3, <1>5 DEF reach
<1> QED  BY Zenon, <1>6, <1>8, <1>9, <1>10, <1>11 DEF HrInv

LEMMA OddsOfTheBars ==
  ASSUME HrInv
  PROVE  OddsAreFair
<1>1. hrBars \in Seq(HitBars)
  BY DEF HrInv
<1>2. ASSUME hrBars # <<>>
      PROVE  Last(hrBars) \in HitBars /\ Last(hrBars).close \in Nat
  <2>1. Last(hrBars) \in HitBars
    BY <1>1, <1>2 DEF Last
  <2> QED  BY <2>1, BarTypes
<1>3. LabelsMatchTheRate
  <2> SUFFICES ASSUME hrBars # <<>>, NEW t \in HitTargets
               PROVE  LET of(l) == Cardinality({i \in DOMAIN hrBars : hrLabels[t][i] = l})
                      IN  hrTarget[t] = Percent(of("win"), of("win") + of("loss"))
    BY Zenon DEF LabelsMatchTheRate
  <2>1. hrLabels[t] = Labels(hrBars, t) /\ hrTarget = TargetOdds(hrBars)
    BY Zenon DEF HrInv
  <2>2. LET of(l) == Cardinality({i \in DOMAIN hrBars : Labels(hrBars, t)[i] = l})
        IN  TargetOdds(hrBars)[t] = Percent(of("win"), of("win") + of("loss"))
    BY <1>1, LabelsPart
  <2> QED  BY Zenon, <2>1, <2>2
<1>4. FurtherIsNotLikelier
  <2> SUFFICES ASSUME hrBars # <<>> PROVE FurtherIsNotLikelier
    BY Zenon DEF FurtherIsNotLikelier
  <2> DEFINE price == Last(hrBars).close
  <2>1. price \in Nat
    BY <1>2
  <2> HIDE DEF price
  <2>2. ASSUME NEW s \in HitTargets, NEW t \in HitTargets, s < t
        PROVE  hrIntraday.hit[s] >= hrIntraday.hit[t]
    <3>1. hrIntraday = IntradayOdds(hrBars)
      BY Zenon DEF HrInv
    <3>2. IntradayOdds(hrBars).hit[s] >= IntradayOdds(hrBars).hit[t]
      BY <1>1, <2>2, SessionOddsFall
    <3> QED  BY Zenon, <3>1, <3>2
  <2>3. ASSUME hrTouch # NoOdds, NEW k \in Levels, NEW l \in Levels, k < l, k > price
        PROVE  hrTouch[k] >= hrTouch[l]
    <3>1. hrTouch = [m \in Levels |-> TouchOdds(hrBars, price, m)]
      BY Zenon, <2>3 DEF HrInv, price
    <3>2. TouchOdds(hrBars, price, k) >= TouchOdds(hrBars, price, l)
      BY <1>1, <2>1, <2>3, TouchOddsFall
    <3> QED  BY Zenon, <3>1, <3>2
  <2>4. ASSUME hrReach # NoOdds, NEW k \in Levels, NEW l \in Levels, k < l, k > price
        PROVE  hrReach[k] >= hrReach[l]
    <3>1. hrReach = [m \in Levels |-> ReachOdds(hrBars, price, m)] /\ Len(hrBars) >= 2
      BY Zenon, <2>4 DEF HrInv, price
    <3>2. ReachOdds(hrBars, price, k) >= ReachOdds(hrBars, price, l)
      BY <1>1, <2>1, <2>4, <3>1, ReachOddsFall
    <3> QED  BY Zenon, <3>1, <3>2
  <2>5. ASSUME NEW odds \in {hrTouch, hrReach} \ {NoOdds},
               NEW k \in Levels, NEW l \in Levels, k < l, k > price
        PROVE  odds[k] >= odds[l]
    <3>1. (odds = hrTouch /\ hrTouch # NoOdds) \/ (odds = hrReach /\ hrReach # NoOdds)
      BY Zenon
    <3> QED  BY Zenon, <2>3, <2>4, <2>5, <3>1
  <2> QED  BY Zenon, <2>2, <2>5 DEF FurtherIsNotLikelier, price
<1>5. OddsFollowTheDays
  <2> SUFFICES ASSUME hrReach # NoOdds PROVE OddsFollowTheDays
    BY Zenon DEF OddsFollowTheDays
  <2> DEFINE price == Last(hrBars).close
             S == Bigger(2, Len(hrBars) - Last(Lookbacks) + 1) .. Len(hrBars)
             made(l, i) == (hrBars[i].high - hrBars[i - 1].close) * price
                             >= (l - price) * hrBars[i - 1].close
  <2>1. Len(hrBars) >= 2 /\ hrReach = [l \in Levels |-> ReachOdds(hrBars, price, l)]
    BY Zenon DEF HrInv
  <2>2. hrBars # <<>>
    BY <1>1, <2>1
  <2>3. price \in Nat
    BY <1>2, <2>2
  <2> HIDE DEF price
  <2>4. ASSUME NEW l \in Levels, l > price
        PROVE  /\ (\A i \in S : made(l, i)) => hrReach[l] = 100
               /\ (\A i \in S : ~ made(l, i)) => hrReach[l] = 0
    <3>1. hrReach[l] = ReachOdds(hrBars, price, l)
      BY Zenon, <2>1
    <3>2. /\ (\A i \in S : made(l, i)) => ReachOdds(hrBars, price, l) = 100
          /\ (\A i \in S : ~ made(l, i)) => ReachOdds(hrBars, price, l) = 0
      BY Zenon, <1>1, <2>1, <2>3, <2>4, ReachFollowsDays
    <3> QED  BY Zenon, <3>1, <3>2
  <2> QED  BY Zenon, <2>4 DEF OddsFollowTheDays, price
<1> QED  BY <1>3, <1>4, <1>5 DEF OddsAreFair

(* For any bars, targets, levels, horizons and lookbacks: the winning labels of
   the model are as many as the hit rate says, a further target or level is never
   likelier than a nearer one, and days that all made the move, or none of which
   did, decide the odds of a level.  (src/src/emcure/scoring.py,
   src/src/emcure/probability.py.) *)
THEOREM OddsHold == HrSpec => []OddsAreFair
<1>1. HrInv /\ [HrNext]_hrVars => HrInv'
  <2> SUFFICES ASSUME HrInv, [HrNext]_hrVars PROVE HrInv'
    OBVIOUS
  <2>1. CASE BarCompletes
    BY <2>1, BarKeepsOdds
  <2>2. CASE UNCHANGED hrVars
    <3>1. /\ hrBars' = hrBars /\ hrTarget' = hrTarget /\ hrLabels' = hrLabels
          /\ hrIntraday' = hrIntraday /\ hrTouch' = hrTouch /\ hrReach' = hrReach
      BY Zenon, <2>2 DEF hrVars
    <3>2. NoOdds' = NoOdds
      BY DEF NoOdds
    <3> QED  BY Zenon, <3>1, <3>2 DEF HrInv
  <2> QED  BY Zenon, <2>1, <2>2 DEF HrNext
<1>2. HrInv => OddsAreFair
  BY OddsOfTheBars
<1> QED  BY HrInitially, <1>1, <1>2, PTL DEF HrSpec
=============================================================================
