SPECIFICATION FairSpec
CONSTANTS
    Checkers = {tracker, dashboard}
    Commands = {bot}
    Plans <- MCPlans
    Prices = {1, 5}
    MaxTrades = 2
    MaxSession = 2
    Faults = {"crash", "lost", "ledger"}
    MaxGlitches = 1
    Free = Free
    Unset = Unset
PROPERTY StopCrossedIsAlerted
