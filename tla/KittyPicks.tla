----------------------------- MODULE KittyPicks -----------------------------
(***************************************************************************)
(* How KittyBot comes to its one trade of a day: the screener ranks the    *)
(* universe into daily_picks.json, the engine loads it or falls back to    *)
(* the universe, discards picks at the open, waits for a breakout of the   *)
(* opening range, takes the strongest and sizes it.  One action per phase; *)
(* the market's data are the inputs of the actions.                        *)
(*                                                                         *)
(* Percentages are in tenths of a percent, prices in paise.  A symbol is a *)
(* number: the alphabetical order breaks ties.                             *)
(***************************************************************************)
EXTENDS Integers, Sequences, FiniteSets

CONSTANTS
  FallbackUniverse,   \* symbols in their order, cfg.fallback_universe
  Frames,             \* daily frames a symbol may have: [rows, adtv, bars]
  HandMade,           \* lists of raw picks the screener did not write
  MaxPicks, MinRows, MinAdtv,
  RewardRisk,         \* cfg.reward_risk_ratio
  MaxGap,             \* cfg.gap_max_pct
  OpenQuotes,         \* opening quotes: [open, prev_close]
  Ranges,             \* opening ranges: [high, low, avg_volume]
  TickPrices, TickVolumes,
  VolumeMultiple,     \* cfg.breakout_volume_multiple
  TradeCapital, RiskPct,
  NoPick, NoQuote, NoTrade

(* A previous close in a file: one float() reads, none, or one it refuses. *)
Closes == {"price", "none", "text"}

RawPicks == [symbol : Nat \cup {NoPick}, score : Int, atr : Int, long_room : Int,
             short_room : Int, target : Int, stop : Int, earnings : BOOLEAN,
             prev_close : Closes]

(* What a session moved from its open, up and down. *)
Moves == [up : Nat, down : Nat]

(* A listed symbol is listed once; the screened sessions are at most a hundred,
   so that their share in per cent tells two counts apart; below half a rupee
   two per cent are no paisa. *)
ASSUME PicksAssumption ==
  /\ FallbackUniverse \in Seq(Nat) /\ FallbackUniverse # <<>>
  /\ \A i, j \in DOMAIN FallbackUniverse : FallbackUniverse[i] = FallbackUniverse[j] => i = j
  /\ \A f \in Frames : f.bars \in Seq(Moves) /\ Len(f.bars) \in 1 .. 100
  /\ HandMade \subseteq Seq(RawPicks)
  /\ MaxPicks \in Nat \ {0} /\ RewardRisk \in 1 .. 20
  /\ {MaxGap, TradeCapital, RiskPct} \subseteq Nat
  /\ OpenQuotes \subseteq [open : Nat, prev_close : Nat]
  /\ Ranges \subseteq [high : Nat \ {0}, low : Nat \ {0}, avg_volume : Nat]
  /\ TickVolumes \subseteq Nat /\ TickPrices \subseteq Nat /\ \A p \in TickPrices : p >= 50
  /\ NoPick \notin Nat \cup RawPicks

VARIABLES
  phase,      \* what happened last
  frames,     \* symbol -> the frame the screener saw
  rawfile,    \* daily_picks.json: an object or not, its picks a list or not, the list
  kitty,      \* the loaded picks: [source, picks]
  survivors,  \* the picks the filters kept, with what they saw
  triggers,   \* the breakouts of this tick
  trade       \* the trade plan

pickVars == <<phase, frames, rawfile, kitty, survivors, triggers, trade>>

Least(a, b) == IF a <= b THEN a ELSE b
Most(a, b) == IF a >= b THEN a ELSE b
Abs(a) == IF a < 0 THEN -a ELSE a

-----------------------------------------------------------------------------
(* screener.py: a bar is [up, down], the moves from the open to the high and
   to the low. *)
MinTarget == 20
MaxTarget == 50

Share(bars, hit(_)) == (Cardinality({i \in DOMAIN bars : hit(bars[i])}) * 100) \div Len(bars)

HitRate(bars) == Share(bars, LAMBDA b : b.up >= MinTarget \/ b.down >= MinTarget)
LongRoom(bars) == Share(bars, LAMBDA b : b.up >= MinTarget)
ShortRoom(bars) == Share(bars, LAMBDA b : b.down >= MinTarget)

RangeSum(bars) ==
  LET sum[i \in 0 .. Len(bars)] ==
        IF i = 0 THEN 0 ELSE sum[i - 1] + bars[i].up + bars[i].down
  IN  sum[Len(bars)]

AvgRange(bars) == RangeSum(bars) \div Len(bars)

SuggestedTarget(range) == Least(Most((range * 6) \div 10, MinTarget), MaxTarget)

(* In tenths: 0.7 * hit rate + 0.3 * min(range * 20, 100). *)
Score(hit, range) == Least(7 * hit + 3 * Least(range * 2, 100), 1000)

Qualifies(f) == f.rows >= MinRows /\ f.adtv >= MinAdtv

ScreenSymbol(s, f) ==
  LET range == AvgRange(f.bars)
      target == SuggestedTarget(range)
  IN  [symbol |-> s, score |-> Score(HitRate(f.bars), range), atr |-> range,
       long_room |-> LongRoom(f.bars), short_room |-> ShortRoom(f.bars),
       target |-> target, stop |-> target \div RewardRisk, earnings |-> FALSE,
       prev_close |-> "price"]

Better(a, b) == a.score > b.score \/ (a.score = b.score /\ a.symbol < b.symbol)

(* The k-th has k - 1 better ones. *)
BetterOnes(ms, m) == {o \in ms : Better(o, m)}
Rank(ms) == [k \in 1 .. Least(MaxPicks, Cardinality(ms)) |->
               CHOOSE m \in ms : Cardinality(BetterOnes(ms, m)) = k - 1]

Universe == {FallbackUniverse[i] : i \in DOMAIN FallbackUniverse}

Metrics(fs) == {ScreenSymbol(s, fs[s]) : s \in {u \in Universe : Qualifies(fs[u])}}

(* The screener's file, one written by hand, or none that can be read. *)
FilesOf(fs) ==
  {[ok |-> TRUE, list |-> TRUE, picks |-> raw] : raw \in {Rank(Metrics(fs))} \cup HandMade}
    \cup {[ok |-> b, list |-> FALSE, picks |-> <<>>] : b \in BOOLEAN}

ScreenUniverse ==
  /\ phase = "night"
  /\ \E fs \in [Universe -> Frames] : frames' = fs /\ rawfile' \in FilesOf(fs)
  /\ phase' = "screened"
  /\ UNCHANGED <<kitty, survivors, triggers, trade>>

-----------------------------------------------------------------------------
(* picks.py *)
\* Mutant: the file's own levels are not read.
DefaultLevels(target, stop) == [target |-> 30, stop |-> 30 \div RewardRisk]

ClampLevels(target, stop) ==
  LET t == Least(Most(target, MinTarget), MaxTarget)
  IN  [target |-> t, stop |-> IF stop <= 0 THEN t \div RewardRisk ELSE stop]

ParsePick(raw) ==
  IF raw.symbol = NoPick THEN NoPick
  ELSE [raw EXCEPT !.target = ClampLevels(raw.target, raw.stop).target,
                   !.stop = ClampLevels(raw.target, raw.stop).stop]

Named(picks, symbol) == \E i \in DOMAIN picks : picks[i].symbol = symbol

(* The rows with a symbol, the first of each (parse_kitty, _dedupe). *)
WithPick(picks, p) ==
  IF p = NoPick \/ Named(picks, p.symbol) THEN picks ELSE Append(picks, p)

PicksOf(raw) ==
  LET kept[i \in 0 .. Len(raw)] ==
        IF i = 0 THEN <<>> ELSE WithPick(kept[i - 1], ParsePick(raw[i]))
  IN  kept[Len(raw)]

Cut(picks) == SubSeq(picks, 1, Least(MaxPicks, Len(picks)))

ParseKitty(raw) == Cut(PicksOf(raw))

BarePick(s) == [symbol |-> s, score |-> 0, atr |-> 0, long_room |-> 0, short_room |-> 0,
                target |-> ClampLevels(30, 0).target, stop |-> ClampLevels(30, 0).stop,
                earnings |-> FALSE, prev_close |-> "none"]

FallbackKitty == Cut([i \in DOMAIN FallbackUniverse |-> BarePick(FallbackUniverse[i])])

Kitty(file) ==
  IF file.ok /\ ParseKitty(file.picks) # <<>>
  THEN [source |-> "json", picks |-> ParseKitty(file.picks)]
  ELSE [source |-> "fallback", picks |-> FallbackKitty]

(* float() of a previous close, or the loop over the picks, raises. *)
Raises(file) ==
  file.ok /\ (file.list => \E i \in DOMAIN file.picks :
                            file.picks[i].symbol # NoPick /\ file.picks[i].prev_close = "text")

(* _prepare: it counts as done before the file is read, so a load that raises is
   not tried again that day and leaves no pick. *)
LoadKitty ==
  /\ phase = "screened"
  /\ IF Raises(rawfile) THEN phase' = "raised" /\ UNCHANGED kitty
     ELSE phase' = "loaded" /\ kitty' = Kitty(rawfile)
  /\ UNCHANGED <<frames, rawfile, survivors, triggers, trade>>

-----------------------------------------------------------------------------
(* filters.py *)
GapPct(q) == IF q.prev_close <= 0 THEN 0
             ELSE ((q.open - q.prev_close) * 1000) \div q.prev_close

GapTooLarge(q) == Abs(GapPct(q)) > MaxGap

Survives(pick, quote) ==
  /\ ~ pick.earnings
  /\ quote # NoQuote
  /\ ~ GapTooLarge(quote)

(* quotes: what each symbol opened at. *)
Surviving(picks, quotes) ==
  LET kept[i \in 0 .. Len(picks)] ==
        IF i = 0 THEN <<>>
        ELSE LET p == picks[i]  q == quotes[picks[i].symbol]
             IN  IF Survives(p, q) THEN Append(kept[i - 1], [pick |-> p, quote |-> q])
                 ELSE kept[i - 1]
  IN  kept[Len(picks)]

ApplyFilters ==
  /\ phase = "loaded"
  /\ \E quotes \in [{kitty.picks[i].symbol : i \in DOMAIN kitty.picks}
                    -> {NoQuote} \cup OpenQuotes] :
        survivors' = Surviving(kitty.picks, quotes)
  /\ phase' = "filtered"
  /\ UNCHANGED <<frames, rawfile, kitty, triggers, trade>>

-----------------------------------------------------------------------------
(* opening_range.py *)
VolumeOk(r, volume) == r.avg_volume <= 0 \/ volume >= VolumeMultiple * r.avg_volume

(* The distance beyond the range in the stock's own ATR, times the volume's
   surge, in thousandths.  distance is in tenths of a percent. *)
Strength(distance, atr, volume, baseline) ==
  LET a == Most(atr, 1)
      surge == IF baseline > 0 THEN Most((volume * 10) \div baseline, 10) ELSE 10
  IN  (distance * 100 * surge) \div a

Fired(pick, dir, price, distance, volume, baseline) ==
  [symbol |-> pick.symbol, dir |-> dir, price |-> price, pick |-> pick,
   strength |-> Strength(distance, pick.atr, volume, baseline)]

BreakoutTrigger(pick, r, price, volume) ==
  IF ~ VolumeOk(r, volume) THEN NoTrade
  ELSE IF price > r.high
       THEN Fired(pick, 1, price, ((price - r.high) * 1000) \div r.high, volume, r.avg_volume)
  ELSE IF price < r.low /\ pick.short_room >= pick.long_room
       THEN Fired(pick, -1, price, ((r.low - price) * 1000) \div r.low, volume, r.avg_volume)
  ELSE NoTrade

(* One tick of _try_enter: a pick without a range or a price is passed over. *)
TickInputs(n) == [1 .. n -> {NoQuote} \cup
             [range : Ranges, price : TickPrices, volume : TickVolumes]]

SeeBreakouts ==
  /\ phase \in {"filtered", "raised"}
  /\ \E ticks \in TickInputs(Len(survivors)) :
        triggers' = {BreakoutTrigger(survivors[i].pick, ticks[i].range, ticks[i].price,
                                     ticks[i].volume)
                       : i \in {j \in DOMAIN survivors : ticks[j] # NoQuote}} \ {NoTrade}
  /\ phase' = "seen"
  /\ UNCHANGED <<frames, rawfile, kitty, survivors, trade>>

-----------------------------------------------------------------------------
(* selection.py *)
Stronger(a, b) == a.strength > b.strength \/ (a.strength = b.strength /\ a.symbol < b.symbol)

SelectTrigger(ts) == CHOOSE t \in ts : \A o \in ts : ~ Stronger(o, t)

(* risk.py *)
ComputeLevels(entry, dir, target, stop) ==
  [target |-> entry + dir * ((entry * target) \div 1000),
   stop |-> entry - dir * ((entry * stop) \div 1000)]

PositionSize(capital, entry, stop, risk_pct) ==
  LET risk == Abs(entry - stop)
  IN  IF risk <= 0 \/ capital <= 0 \/ risk_pct <= 0 THEN 0
      ELSE ((capital * risk_pct) \div 1000) \div risk

PlanTrade(t) ==
  LET levels == ComputeLevels(t.price, t.dir, t.pick.target, t.pick.stop)
      qty == PositionSize(TradeCapital, t.price, levels.stop, RiskPct)
  IN  IF qty <= 0 THEN NoTrade
      ELSE [symbol |-> t.symbol, dir |-> t.dir, entry |-> t.price,
            stop |-> levels.stop, target |-> levels.target, qty |-> qty]

TakeStrongest ==
  /\ phase = "seen"
  /\ trade' = IF triggers = {} THEN NoTrade ELSE PlanTrade(SelectTrigger(triggers))
  /\ phase' = "planned"
  /\ UNCHANGED <<frames, rawfile, kitty, survivors, triggers>>

-----------------------------------------------------------------------------
Unloaded == [source |-> "none", picks |-> <<>>]

PickInit == /\ phase = "night"
            /\ frames = [s \in Universe |-> NoPick]
            /\ rawfile = [ok |-> FALSE, list |-> FALSE, picks |-> <<>>]
            /\ kitty = Unloaded
            /\ survivors = <<>> /\ triggers = {} /\ trade = NoTrade

PickNext == ScreenUniverse \/ LoadKitty \/ ApplyFilters \/ SeeBreakouts \/ TakeStrongest

PickSpec == PickInit /\ [][PickNext]_pickVars

-----------------------------------------------------------------------------
(* The file is the one the screener wrote. *)
Screeners == rawfile.ok /\ rawfile.list /\ rawfile.picks \notin HandMade

(* The screener's file holds the best of the symbols that qualify: none that
   was left out has a higher score (rank). *)
RankedAreTheBest ==
  phase = "screened" /\ Screeners =>
    LET listed == {rawfile.picks[i] : i \in DOMAIN rawfile.picks}
    IN  \A p \in listed, m \in Metrics(frames) \ listed : m.score <= p.score

(* A kitty that loads names no symbol twice and has a target of 2 to 5 percent
   and a stop for each; the screener's file and a missing one always load, and
   the day of a file that does not load has no trade (load_kitty, _prepare). *)
KittyIsUsable ==
  /\ phase = "loaded" =>
       /\ Len(kitty.picks) \in 1 .. MaxPicks
       /\ \A i, j \in DOMAIN kitty.picks :
            kitty.picks[i].symbol = kitty.picks[j].symbol => i = j
       /\ \A i \in DOMAIN kitty.picks :
            kitty.picks[i].target \in MinTarget .. MaxTarget /\ kitty.picks[i].stop > 0
  /\ phase = "raised" => rawfile.ok /\ ~ Screeners
  /\ kitty = Unloaded => trade = NoTrade

(* False of the code: "parsing here never raises, so a bad file degrades to the
   fallback rather than crashing the engine" (picks.py:16). *)
LoadNeverRaises == phase # "raised"

(* What the screener wrote is what the engine trades with: parsing, clamping
   and cutting change none of the screener's own picks. *)
LoadKeepsTheScreenersPicks ==
  phase = "loaded" /\ kitty.source = "json" /\ Screeners =>
    kitty.picks = rawfile.picks

(* The trade is the breakout of a pick that survived, none stronger among the
   others, and not of one that opened too far away either side, as far as its
   previous close is known (gap_pct: none is no gap). *)
TradeIsTheStrongest ==
  phase = "planned" /\ trade # NoTrade =>
    /\ \E t \in triggers : /\ t.symbol = trade.symbol /\ t.dir = trade.dir
                           /\ \A o \in triggers : o.strength <= t.strength
    /\ \A i \in DOMAIN survivors :
         survivors[i].pick.symbol = trade.symbol /\ survivors[i].quote.prev_close > 0 =>
           Abs((survivors[i].quote.open - survivors[i].quote.prev_close) * 1000)
             <= MaxGap * survivors[i].quote.prev_close + survivors[i].quote.prev_close

(* The rupees at risk never exceed the risk per trade (position_size: "keeping
   rupees-at-risk <= risk_pct % of capital"). *)
RiskWithinBudget ==
  trade # NoTrade =>
    trade.qty * Abs(trade.entry - trade.stop) * 1000 <= TradeCapital * RiskPct

(* The stop is on the losing side of the entry and the target on the other,
   the target at least as many times as far as reward to risk asks for when the
   screener set them. *)
LevelsBracketTheEntry ==
  trade # NoTrade =>
    /\ trade.dir * (trade.entry - trade.stop) > 0
    /\ trade.dir * (trade.target - trade.entry) > 0
    /\ kitty.source = "json" /\ Screeners =>
         Abs(trade.target - trade.entry) + 1 >= RewardRisk * Abs(trade.entry - trade.stop)

(* A short is only taken in a stock that reached 2% below its open at least as
   often as 2% above it in the screened sessions (breakout_trigger). *)
ShortsHaveRoom ==
  trade # NoTrade /\ trade.dir = -1 /\ kitty.source = "json" /\ Screeners =>
    LET bars == frames[trade.symbol].bars
    IN  Cardinality({i \in DOMAIN bars : bars[i].down >= MinTarget})
          >= Cardinality({i \in DOMAIN bars : bars[i].up >= MinTarget})

(* From the screener's file to the order's size: a usable kitty of the best
   symbols, the strongest breakout of those that survived, and no more at risk
   than the budget. *)
PicksArePrudent ==
  /\ RankedAreTheBest
  /\ KittyIsUsable
  /\ LoadKeepsTheScreenersPicks
  /\ TradeIsTheStrongest
  /\ RiskWithinBudget
  /\ ShortsHaveRoom
  /\ LevelsBracketTheEntry
=============================================================================
