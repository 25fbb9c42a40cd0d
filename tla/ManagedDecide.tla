---------------------------- MODULE ManagedDecide ----------------------------
(***************************************************************************)
(* The pure decision logic of the managed cycle (src/emcure/               *)
(* managed_cycle.py): the target ladder, the stop and entry-gap resolvers, *)
(* the regime gate and decide().  Prices are whole rupees; the float       *)
(* rounding of the code (two decimals) is the identity on them.            *)
(*                                                                         *)
(* decide() computes max(touched) and compares with it; here each such     *)
(* comparison is a quantifier over the touched rungs, which needs no       *)
(* maximum and is what the proofs reason about.                            *)
(***************************************************************************)
EXTENDS Integers

CONSTANTS
    Targets,       \* cfg.targets: rupee deltas from entry
    SlRupees,      \* cfg.sl_rupees: fixed stop distance
    SlAtr,         \* cfg.sl_atr: stop distance in ATRs, 0 = off
    ReentryGap,    \* cfg.reentry_gap: fixed dip depth
    ReentryGapPct, \* cfg.reentry_gap_pct: dip depth in % of SMA7, 0 = off
    ReentryGapAtr, \* cfg.reentry_gap_atr: dip depth in ATRs, 0 = off
    RegimeFilter   \* cfg.regime_filter

ASSUME ConfigAssumption ==
    /\ Targets \subseteq Int
    /\ Targets # {}
    /\ SlRupees \in Int
    /\ SlAtr \in Int
    /\ ReentryGap \in Int
    /\ ReentryGapPct \in Int
    /\ ReentryGapAtr \in Int
    /\ RegimeFilter \in {"trend", "off", "stabilization"}

\* What a cycle reads besides prices: the SMA7, the ATR (0 = missing), the
\* 7-day trend label and what the last two daily closes say ("few" = fewer
\* than two were supplied).
Market == [sma7: Int, atr: Int, trend: {"Upward", "Flat", "Downward"},
           closes: {"few", "rising", "falling"}]

ResolveStop(atr) ==
    IF SlAtr > 0 /\ atr > 0 THEN atr * SlAtr ELSE SlRupees

ResolveEntryGap(m) ==
    IF ReentryGapAtr > 0 /\ m.atr > 0 THEN m.atr * ReentryGapAtr
    ELSE IF ReentryGapPct > 0 /\ m.sma7 > 0
         THEN (m.sma7 * ReentryGapPct) \div 100 ELSE ReentryGap

EntrySignalFires(gap, threshold) == gap <= -threshold

RegimePermitsReversion(m) ==
    \/ RegimeFilter = "off"
    \/ RegimeFilter = "stabilization" /\ m.closes = "rising"
    \/ /\ RegimeFilter = "trend" \/ m.closes = "few"
       /\ m.trend # "Downward"

Ladder(entry) == {entry + d : d \in Targets}

\* The rungs a position has printed, judged by its highest observed price.
TouchedRungs(entry, high) == {t \in Ladder(entry) : high >= t}

\* decide() for an open position; high and low are the extremes seen while
\* holding, price the current quote.
StopHit(pos, price, low) == low <= pos.sl \/ price <= pos.sl

Touched(pos, price, high) ==
    TouchedRungs(pos.entry, high) \cup TouchedRungs(pos.entry, price)

TopTouched(pos, price, high) ==
    \E t \in Touched(pos, price, high) : \A u \in Ladder(pos.entry) : u <= t

GivesBackRung(pos, price, high) ==
    \E t \in Touched(pos, price, high) : price <= t

DecideHeld(pos, price, high, low) ==
    IF StopHit(pos, price, low) THEN "exit_sl"
    ELSE IF TopTouched(pos, price, high) \/ GivesBackRung(pos, price, high)
         THEN "sell" ELSE "hold"

\* decide() when flat; gap is price - SMA7 as the caller computed it.
DecideFlat(gap, m) ==
    IF EntrySignalFires(gap, ResolveEntryGap(m)) /\ RegimePermitsReversion(m)
    THEN "reenter" ELSE "wait"

=============================================================================
