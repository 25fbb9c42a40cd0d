------------------------------- MODULE Ledger -------------------------------
(***************************************************************************)
(* The table of closed trades and the reports over it: the day's line, the  *)
(* Friday digest, the totals.  (src/src/emcure/ledger.py.)  A trade's row   *)
(* may predate the charges columns; opening the database migrates it.       *)
(* An insert that fails is dropped, a query that fails answers zeros, and    *)
(* the report that asked is marked as made all the same.                    *)
(***************************************************************************)
EXTENDS Integers, Sequences, FiniteSets

CONSTANTS
  LedgerStrategies,       \* the strategies' names, in the order of the report
  Grosses, ChargeSet,     \* what a trade may make and cost
  MaxLedgerRows, LastLedgerDay, WeekDays,     \* bounds of the model; days of a week
  MaxLedgerFaults,
  NoNet                   \* NULL

ASSUME LedgerAssumption ==
  /\ {MaxLedgerRows, MaxLedgerFaults} \subseteq Nat /\ {LastLedgerDay, WeekDays} \subseteq Nat \ {0}
  /\ Grosses \subseteq Int /\ ChargeSet \subseteq Nat /\ NoNet \notin Int
  /\ LedgerStrategies \in Seq({LedgerStrategies[i] : i \in DOMAIN LedgerStrategies})
  /\ \A i, j \in DOMAIN LedgerStrategies : LedgerStrategies[i] = LedgerStrategies[j] => i = j

VARIABLES
  ldDay,
  ldRows,        \* the table
  ldMigrated,    \* the charges columns exist
  ldSaid,        \* this day's evening line is marked as said
  ldSent,        \* this Friday's digest is marked as sent
  ldLines,       \* what was said of each day, and whether its query was answered
  ldDigests,     \* the digests: end day, query answered, sent, live rows told of, results
  ldFaults

ldVars == <<ldDay, ldRows, ldMigrated, ldSaid, ldSent, ldLines, ldDigests, ldFaults>>

LdInit ==
  /\ ldDay = 1 /\ ldRows = <<>> /\ ldMigrated = FALSE /\ ldSaid = FALSE /\ ldSent = FALSE
  /\ ldLines = [day \in 1 .. LastLedgerDay |-> [answered |-> FALSE, pnl |-> 0, trades |-> 0]]
  /\ ldDigests = <<>> /\ ldFaults = 0

-----------------------------------------------------------------------------
(* COALESCE(net_pnl, pnl). *)
NetOfRow(row) == IF row.net = NoNet THEN row.pnl ELSE row.net

Added(f) ==
  LET sum[i \in 0 .. Len(f)] == IF i = 0 THEN 0 ELSE sum[i - 1] + f[i] IN sum[Len(f)]

(* A query is the set of the ids it selects: none when it fails. *)
Selected(ids, answered) == IF answered THEN ids ELSE {}

NetTotal(rows, ids) ==
  Added([k \in 1 .. Len(rows) |-> IF k \in ids THEN NetOfRow(rows[k]) ELSE 0])

(* _stats. *)
Stats(rows, ids) ==
  LET won == {k \in ids : NetOfRow(rows[k]) > 0}  lost == {k \in ids : NetOfRow(rows[k]) < 0}
  IN  [trades |-> Cardinality(ids), total |-> NetTotal(rows, ids),
       wins |-> Cardinality(won), losses |-> Cardinality(lost),
       grossProfit |-> NetTotal(rows, won), grossLoss |-> -NetTotal(rows, lost)]

\* Mutant: the day a week starts with was the last of the week before.
InWeekTwice(day, end) == end - WeekDays <= day /\ day <= end

InWeek(day, end) == end - WeekDays < day /\ day <= end

LiveOfDay(rows, day) == {k \in DOMAIN rows : ~ rows[k].dry /\ rows[k].day = day}

DayStats(day, answered) ==
  LET ids == Selected(LiveOfDay(ldRows, day), answered)
  IN  [pnl |-> NetTotal(ldRows, ids), trades |-> Cardinality(ids)]

OfWeek(rows, end, dry) == {k \in DOMAIN rows : InWeek(rows[k].day, end) /\ rows[k].dry = dry}

WeekStats(end, answered) ==
  LET block(dry) == Stats(ldRows, Selected(OfWeek(ldRows, end, dry), answered))
  IN  [live |-> block(FALSE), dry |-> block(TRUE)]

LedgerSummary(withDry) == Stats(ldRows, {k \in DOMAIN ldRows : withDry \/ ~ ldRows[k].dry})

OfStrategy(rows, s) == {k \in DOMAIN rows : rows[k].strategy = s}

ByStrategy ==
  [s \in {ldRows[k].strategy : k \in DOMAIN ldRows} |-> Stats(ldRows, OfStrategy(ldRows, s))]

-----------------------------------------------------------------------------
ldTold == <<ldSaid, ldSent, ldLines, ldDigests>>

(* A trade recorded by the version before the charges. *)
OldRecord ==
  /\ ~ ldMigrated /\ Len(ldRows) < MaxLedgerRows
  /\ \E i \in DOMAIN LedgerStrategies, g \in Grosses, d \in BOOLEAN :
       ldRows' = Append(ldRows, [strategy |-> LedgerStrategies[i], pnl |-> g, net |-> NoNet,
                                 dry |-> d, day |-> ldDay, after |-> ldSaid,
                                 late |-> ldSent])
  /\ UNCHANGED <<ldDay, ldMigrated, ldFaults, ldTold>>

(* connect and _ensure_schema, for a report. *)
Connect ==
  /\ ~ ldMigrated /\ ldMigrated' = TRUE
  /\ UNCHANGED <<ldDay, ldRows, ldFaults, ldTold>>

(* log_trade: the row and its commit, or nothing. *)
LogTrade ==
  /\ Len(ldRows) < MaxLedgerRows
  /\ \/ /\ \E i \in DOMAIN LedgerStrategies, g \in Grosses, c \in ChargeSet, d \in BOOLEAN :
             ldRows' = Append(ldRows, [strategy |-> LedgerStrategies[i], pnl |-> g, net |-> g - c,
                                       dry |-> d, day |-> ldDay, after |-> ldSaid,
                                 late |-> ldSent])
        /\ ldMigrated' = TRUE /\ UNCHANGED ldFaults
     \/ /\ ldFaults < MaxLedgerFaults /\ ldFaults' = ldFaults + 1
        /\ ldMigrated' \in {ldMigrated, TRUE} /\ UNCHANGED ldRows
  /\ UNCHANGED <<ldDay, ldTold>>

(* connect and a query of a report: answered, or not. *)
Query(answered) ==
  \/ answered /\ ldMigrated' = TRUE /\ UNCHANGED ldFaults
  \/ /\ ~ answered /\ ldFaults < MaxLedgerFaults /\ ldFaults' = ldFaults + 1
     /\ ldMigrated' \in {ldMigrated, TRUE}

(* The end-of-day summary, once a day after the close. *)
EveningLine ==
  /\ ~ ldSaid /\ ldSaid' = TRUE
  /\ \E answered \in BOOLEAN :
       /\ Query(answered)
       /\ LET day == DayStats(ldDay, answered)
          IN  ldLines' = [ldLines EXCEPT ![ldDay] =
                            [answered |-> answered, pnl |-> day.pnl, trades |-> day.trades]]
  /\ UNCHANGED <<ldDay, ldRows, ldSent, ldDigests>>

(* format_weekly_digest and its mark, after the summary of a Friday; a trade may
   still be closed by hand that evening.  A Friday without a session has no
   digest.  After a failed query there is nothing to send. *)
Digest ==
  /\ ldDay % WeekDays = 0 /\ ldSaid /\ ~ ldSent
  /\ ldSent' = TRUE
  /\ \E answered \in BOOLEAN :
       /\ Query(answered)
       /\ LET week == WeekStats(ldDay, answered)
          IN  ldDigests' = Append(ldDigests,
                [end |-> ldDay, answered |-> answered,
                 sent |-> week.live.trades + week.dry.trades # 0,
                 told |-> Selected(OfWeek(ldRows, ldDay, FALSE), answered),
                 total |-> week.live.total, trades |-> week.live.trades])
  /\ UNCHANGED <<ldDay, ldRows, ldSaid, ldLines>>

LedgerDayEnds ==
  /\ ldDay < LastLedgerDay
  /\ ldDay' = ldDay + 1 /\ ldSaid' = FALSE /\ ldSent' = FALSE
  /\ UNCHANGED <<ldRows, ldMigrated, ldLines, ldDigests, ldFaults>>

LdNext == OldRecord \/ Connect \/ LogTrade \/ EveningLine \/ Digest \/ LedgerDayEnds
LdSpec == LdInit /\ [][LdNext]_ldVars

-----------------------------------------------------------------------------
(* The digests tile the weeks: a live trade is told in the digest of its own week
   and in no other; one that was closed by the time of that digest is told there,
   unless the query failed: then the week is marked, and told nowhere. *)
DigestsTile ==
  \A k \in DOMAIN ldRows :
    LET telling == {d \in DOMAIN ldDigests : ldDigests[d].sent /\ k \in ldDigests[d].told}
        own == {d \in DOMAIN ldDigests : InWeek(ldRows[k].day, ldDigests[d].end)}
    IN  /\ Cardinality(own) <= 1
        /\ telling = {d \in own : ldDigests[d].answered /\ ~ ldRows[k].dry /\ ~ ldRows[k].late}

(* The evening line of each trade's day was there to tell of it: its query was
   answered, and the trade closed by then. *)
Heard(ids) == \A k \in ids : ldLines[ldRows[k].day].answered /\ ~ ldRows[k].after

(* The days of a week add up to its live results: the lines of the evenings and
   the digest of the Friday agree, with paper trades in neither, unless a trade of
   the week was closed after its evening's line or the query of that line failed. *)
DaysMakeTheWeek ==
  \A n \in DOMAIN ldDigests :
    LET d == ldDigests[n]
        line(i) == ldLines[d.end - WeekDays + i]
    IN  d.answered /\ Heard(d.told) =>
          /\ Added([i \in 1 .. WeekDays |-> line(i).pnl]) = d.total
          /\ Added([i \in 1 .. WeekDays |-> line(i).trades]) = d.trades

(* The lines of the strategies, added up. *)
LinesTotal ==
  Added([i \in 1 .. Len(LedgerStrategies) |->
           IF LedgerStrategies[i] \in DOMAIN ByStrategy THEN ByStrategy[LedgerStrategies[i]].total
           ELSE 0])

(* A report never forgets a row: the migration of an old database changes no
   total, each total moves by exactly the rows that came, and the strategies'
   lines add up to it. *)
TotalsFollowTheRows ==
  [][/\ LedgerSummary(TRUE)'.total = LinesTotal'
     /\ ldRows' = ldRows => LedgerSummary(TRUE)' = LedgerSummary(TRUE)
     /\ ldRows' # ldRows =>
          LET row == ldRows'[Len(ldRows')]
          IN  LedgerSummary(TRUE)'.total - LedgerSummary(TRUE).total
                = IF row.net = NoNet THEN row.pnl ELSE row.net]_ldVars

(* The reports account for every trade of which they could ask: digests tile the
   weeks, days add up to weeks, and no total moves without its row. *)
LedgerTellsEveryTrade ==
  /\ [](DigestsTile /\ DaysMakeTheWeek)
  /\ TotalsFollowTheRows

(* False of the code: a marked week has told its trades ("Mark even when the week
   had no trades: nothing to retry for").  A failed query looks like no trades. *)
MarkedWeeksAreTold ==
  \A k \in DOMAIN ldRows, d \in DOMAIN ldDigests :
    InWeek(ldRows[k].day, ldDigests[d].end) /\ ~ ldRows[k].dry /\ ~ ldRows[k].late =>
      ldDigests[d].sent /\ k \in ldDigests[d].told
=============================================================================
