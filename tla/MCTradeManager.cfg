SPECIFICATION Spec
CONSTANTS
    Checkers = {tracker, dashboard}
    Commands = {bot, poller}
    Plans <- MCPlans
    Prices = {1, 5}
    MaxTrades = 2
    MaxSession = 1
    Faults = {"crash", "lost", "ledger"}
    MaxGlitches = 1
    Free = Free
    Unset = Unset
INVARIANT TypeOK
INVARIANT EachLevelAlertsOnce
PROPERTY ClosedStaysClosed
PROPERTY MarksOnlyGrow
