---------------------------- MODULE MCTradeManager ----------------------------
(* Small instances of TradeManager for TLC.                                  *)
EXTENDS TradeManager

\* Two sets of levels around an entry near 3, as trade.py accepts them.
MCPlans == {[l \in Levels |-> CASE l = "SL" -> 1 [] l = "T1" -> 4
                                [] l = "T2" -> 5 [] OTHER -> 6]}

=============================================================================
