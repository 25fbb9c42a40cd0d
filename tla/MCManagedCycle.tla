---------------------------- MODULE MCManagedCycle ----------------------------
(* Small instances of ManagedCycle for TLC.                                  *)
EXTENDS ManagedCycle

\* A dip is a price two rupees below the SMA7 of 5; the last record is a
\* downtrend in which no re-entry is allowed.
MCMarkets == {[sma7 |-> 5, atr |-> 0, trend |-> "Flat", closes |-> "few"],
              [sma7 |-> 5, atr |-> 0, trend |-> "Downward", closes |-> "few"]}

=============================================================================
