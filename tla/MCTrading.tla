------------------------------ MODULE MCTrading ------------------------------
(* One run of TLC for components that share no variable: `part' says which of
   them a behaviour is about; that one runs, the others stay where they begin.
   The states of the parts add up, they do not multiply.  This run: the files, the
   strategies and the rules they trade by. *)
EXTENDS JsonStore, Ledger, KittyBot, KittyPicks, Supertrend, SupertrendLine,
        Intraday, Predictor, ScoreRules

CONSTANTS w1, w2, w3, pa, pb       \* writers of one file and their processes

VARIABLE part

partVars == <<storeVars, ldVars, kittyVars, pickVars, stVars, slVars, idVars,
              pdVars, scVars>>

PartsInit ==
  /\ part \in {"store", "ledger", "kittybot", "picks", "supertrend", "line",
               "intraday", "predictor", "score"}
  /\ StoreInit /\ LdInit /\ KittyInit /\ PickInit /\ StInit /\ SlInit
  /\ IdInit /\ PdInit /\ ScInit

(* Part p runs: only its variables may change. *)
Running(p) ==
  /\ UNCHANGED part
  /\ p # "store" => UNCHANGED storeVars
  /\ p # "ledger" => UNCHANGED ldVars
  /\ p # "kittybot" => UNCHANGED kittyVars
  /\ p # "picks" => UNCHANGED pickVars
  /\ p # "supertrend" => UNCHANGED stVars
  /\ p # "line" => UNCHANGED slVars
  /\ p # "intraday" => UNCHANGED idVars
  /\ p # "predictor" => UNCHANGED pdVars
  /\ p # "score" => UNCHANGED scVars

PartsNext ==
  \/ part = "store" /\ StoreNext /\ Running("store")
  \/ part = "ledger" /\ LdNext /\ Running("ledger")
  \/ part = "kittybot" /\ KittyNext /\ Running("kittybot")
  \/ part = "picks" /\ PickNext /\ Running("picks")
  \/ part = "supertrend" /\ StNext /\ Running("supertrend")
  \/ part = "line" /\ SlNext /\ Running("line")
  \/ part = "intraday" /\ IdNext /\ Running("intraday")
  \/ part = "predictor" /\ PdNext /\ Running("predictor")
  \/ part = "score" /\ ScNext /\ Running("score")

PartsSpec == PartsInit /\ [][PartsNext]_<<partVars, part>>

-----------------------------------------------------------------------------
(* JsonStore: two writers in one process, a third in another. *)
MCProcessOf == [w \in Writers |-> IF w = w3 THEN pb ELSE pa]

(* Ledger *)
MCGrosses == {10}
MCLedgerStrategies == <<"managed", "manual">>

(* KittyPicks: symbols that break out on either side or are thinly traded; two
   kitties written by hand, one with a symbol missing and one that is doubled, one
   with a previous close that is no number; and one without even a list. *)
Room(up, down) == [up |-> up, down |-> down]
MCFrames == {[rows |-> 60, adtv |-> 90, bars |-> <<Room(30, 5), Room(10, 5)>>],
             [rows |-> 60, adtv |-> 90, bars |-> <<Room(5, 60), Room(25, 40)>>],
             [rows |-> 60, adtv |-> 10, bars |-> <<Room(30, 30), Room(30, 30)>>]}
HandPick(symbol, score, target, stop, earnings) ==
  [symbol |-> symbol, score |-> score, atr |-> 20, long_room |-> 0, short_room |-> 10,
   target |-> target, stop |-> stop, earnings |-> earnings, prev_close |-> "none"]
MCHand == {<<[HandPick(NoPick, 0, 30, 0, FALSE) EXCEPT !.prev_close = "text"],
             [HandPick(2, 900, 5, 0, FALSE) EXCEPT !.long_room = 50],
             HandPick(2, 10, 80, 20, FALSE), HandPick(1, 10, 80, 20, TRUE)>>,
           <<HandPick(2, 10, 80, 20, FALSE), [HandPick(1, 10, 80, 20, TRUE) EXCEPT !.prev_close = "text"]>>}
MCUniverse == <<2, 1, 3>>
MCOpen == {[open |-> 1000, prev_close |-> 1000], [open |-> 900, prev_close |-> 1000],
           [open |-> 1000, prev_close |-> 0]}
MCRanges == {[high |-> 1010, low |-> 990, avg_volume |-> 10]}

(* SupertrendLine: a narrow day, a rally, a fall, a flat one, and a day wider than
   its bands after flat ones. *)
StlBar(high, low, close) == [high |-> high, low |-> low, close |-> close]
MCStlBars == {StlBar(102, 99, 100), StlBar(108, 101, 107), StlBar(96, 90, 91),
              StlBar(110, 88, 109), StlBar(100, 100, 100)}

(* Intraday: every week of closes for the trend; one of them starts a session. *)
MCHistories == [1 .. 7 -> {1390, 1400, 1410}]
MCSessions == {<<1390, 1400, 1400, 1410, 1400, 1410, 1410>>}

(* ScoreRules *)
MCPivotBars == {StlBar(110, 95, 108), StlBar(102, 98, 98), StlBar(100, 100, 100)}
MCSentiments == {-100, 0, 100}
==============================================================================
