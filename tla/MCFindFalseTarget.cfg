SPECIFICATION Spec
CONSTANTS
    Checkers = {tracker}
    Commands = {bot}
    Plans <- MCPlans
    Prices = {1, 3, 4, 5}
    MaxTrades = 1
    MaxSession = 1
    Faults = {}
    MaxGlitches = 0
    Free = Free
    Unset = Unset
PROPERTY TargetsNeedANewHigh
