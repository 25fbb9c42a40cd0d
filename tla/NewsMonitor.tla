----------------------------- MODULE NewsMonitor -----------------------------
(***************************************************************************)
(* The background thread that keeps a rolling window of headlines and marks *)
(* a shift of sentiment for the loop that reads it.  One tick is half an    *)
(* hour, the thread's interval.  (src/src/market_intel/news_monitor.py.)    *)
(***************************************************************************)
EXTENDS Integers, Sequences, FiniteSets, FiniteSetsExt

CONSTANTS
  Titles,               \* the headlines, model values
  Positive,             \* those that score +1; the others score -1
  MaxFeed,              \* max_articles_per_fetch
  RecentTicks,          \* four hours
  WindowTicks,          \* WINDOW_HOURS
  NoneShift,
  LastNewsTick, MaxNewsFaults     \* bounds of the model

ASSUME NewsAssumption ==
  /\ {MaxFeed, RecentTicks, WindowTicks, LastNewsTick, MaxNewsFaults} \subseteq Nat
  /\ 2 * RecentTicks <= WindowTicks /\ Positive \subseteq Titles

VARIABLES
  nTick,
  nArticles,     \* oldest first: title and the tick it was fetched
  nShift,        \* the mark not yet taken: a shift, or NoneShift
  nFetched,      \* the thread had its turn in this tick
  nFaults

nVars == <<nTick, nArticles, nShift, nFetched, nFaults>>

NInit ==
  /\ nTick = 0 /\ nArticles = <<>> /\ nShift = NoneShift /\ nFetched = FALSE
  /\ nFaults = 0

(* What a fetch may bring: titles in the feed's order, some perhaps twice. *)
Feeds == UNION {[1 .. n -> Titles] : n \in 1 .. MaxFeed}

ScoreOf(art) == IF art.title \in Positive THEN 1 ELSE -1
Total(arts, some) == MapThenSumSet(LAMBDA i : ScoreOf(arts[i]), some)

Magnitude(x) == IF x < 0 THEN -x ELSE x

Known(arts) == {arts[i].title : i \in DOMAIN arts}
Fetched(title) == [title |-> title, at |-> nTick]

\* Mutant: a headline already kept is added again.
AddAll(arts, feed) == arts \o [i \in DOMAIN feed |-> Fetched(feed[i])]

(* Only headlines that were not in the window before this feed are added. *)
AddNew(arts, feed) ==
  LET added[i \in 0 .. Len(feed)] ==
        IF i = 0 THEN arts
        ELSE IF feed[i] \in Known(arts) THEN added[i - 1]
        ELSE Append(added[i - 1], Fetched(feed[i]))
  IN  added[Len(feed)]

(* The old ones leave from the front, up to the first that is not old. *)
Prune(arts) ==
  LET young == {i \in DOMAIN arts : arts[i].at >= nTick - WindowTicks}
  IN  IF young = {} THEN <<>> ELSE SubSeq(arts, Min(young), Len(arts))

RecentArts(arts) == {i \in DOMAIN arts : arts[i].at >= nTick - RecentTicks}
PriorArts(arts) ==
  {i \in DOMAIN arts : nTick - 2 * RecentTicks <= arts[i].at /\ arts[i].at < nTick - RecentTicks}

(* _maybe_set_shift_alert: the averages of the last four hours and of the four
   before, which must differ by SHIFT_THRESHOLD, a quarter. *)
ShiftOf(arts) ==
  LET r == RecentArts(arts)  p == PriorArts(arts)
      delta == Total(arts, r) * Cardinality(p) - Total(arts, p) * Cardinality(r)
  IN  IF \/ Cardinality(r) < 2 \/ Cardinality(p) < 2
         \/ 4 * Magnitude(delta) < Cardinality(r) * Cardinality(p)
      THEN NoneShift
      ELSE [up |-> delta > 0, headline |-> arts[Max(r)].title]

(* One turn of the thread.  A fetch that fails or brings nothing changes
   nothing, not even the window; a shift is judged only when something was
   added, and replaces a mark nobody has taken. *)
FetchAndUpdate ==
  /\ ~ nFetched /\ nFetched' = TRUE
  /\ \E feed \in Feeds :
       LET added == AddNew(nArticles, feed)
           shift == ShiftOf(Prune(added))
       IN  /\ nArticles' = Prune(added)
           /\ nShift' = IF Len(added) > Len(nArticles) /\ shift # NoneShift
                        THEN shift ELSE nShift
  /\ UNCHANGED <<nTick, nFaults>>

FetchFails ==
  /\ nFaults < MaxNewsFaults /\ nFaults' = nFaults + 1
  /\ ~ nFetched /\ nFetched' = TRUE
  /\ UNCHANGED <<nTick, nArticles, nShift>>

(* The mark is no longer kept once it was read. *)
ShiftTaken == NoneShift

(* A refresh reads the snapshot, which takes the mark; whether the message is
   then sent is the reader's affair (an hour's cooldown, a briefing that ends
   the dispatch), and a mark that is not sent is gone. *)
SnapshotTaken ==
  /\ nShift # NoneShift
  /\ nShift' = ShiftTaken
  /\ UNCHANGED <<nTick, nArticles, nFetched, nFaults>>

NTickPasses ==
  /\ nFetched /\ nTick < LastNewsTick
  /\ nTick' = nTick + 1 /\ nFetched' = FALSE
  /\ UNCHANGED <<nArticles, nShift, nFaults>>

(* The window lives in memory. *)
ProcessRestarts ==
  /\ nFaults < MaxNewsFaults /\ nFaults' = nFaults + 1
  /\ nArticles' = <<>> /\ nShift' = NoneShift /\ nFetched' = FALSE
  /\ UNCHANGED <<nTick>>

NNext == \/ FetchAndUpdate \/ FetchFails \/ SnapshotTaken
         \/ NTickPasses \/ ProcessRestarts

NSpec == NInit /\ [][NNext]_nVars

-----------------------------------------------------------------------------
Articles == [title : Titles, at : 0 .. nTick]

NTypeOK ==
  /\ nTick \in 0 .. LastNewsTick /\ nFetched \in BOOLEAN
  /\ nArticles \in Seq(Articles)
  /\ nShift = NoneShift \/ nShift.headline \in Titles
  /\ nFaults \in 0 .. MaxNewsFaults

(* A headline that is still in the feed is not new: it enters the averages of
   the window with one fetch and never again while it is kept. *)
HeadlinesAreOfOneFetch ==
  \A i, j \in DOMAIN nArticles :
    nArticles[i].title = nArticles[j].title => nArticles[i].at = nArticles[j].at

(* Not even twice in one fetch, as a list of new headlines would have it: the
   titles of a feed are compared with the window only, not with each other. *)
EachHeadlineCountsOnce ==
  \A i, j \in DOMAIN nArticles : nArticles[i].title = nArticles[j].title => i = j

(* The window stays in the order of arrival and, just after a fetch, holds
   nothing older than a day: pruning from the front is enough. *)
WindowIsOrdered ==
  [][nArticles' # nArticles =>
       \A i \in DOMAIN nArticles' :
         /\ nArticles'[i].at >= nTick - WindowTicks
         /\ \A j \in 1 .. i : nArticles'[j].at <= nArticles'[i].at]_nVars

(* No shift is told before the monitor has watched for four hours with two
   headlines on either side: a start, or a restart, is never itself news. *)
ShiftNeedsAPast ==
  [][nShift' \notin {NoneShift, nShift} =>
       \E i, j \in DOMAIN nArticles :
         i # j /\ \A k \in {i, j} : nArticles[k].at < nTick - RecentTicks]_nVars

(* A headline counts once, in a window in order, and a shift needs a past to
   have shifted from. *)
NewsCountsOnce ==
  /\ [](NTypeOK /\ HeadlinesAreOfOneFetch)
  /\ WindowIsOrdered
  /\ ShiftNeedsAPast
=============================================================================
