SPECIFICATION PartsSpec
CONSTANTS
    \* CommandBot
    BotDays = 2
    MaxUpdates = 3
    FreshTokens = {lo, up}
    LowerToken = lo
    UpperToken = up
    CommandSet = {"HALT", "RESUME", "TOKEN", "STATUS", "other"}
    BotFaults = {"noanswer", "raise", "crash", "login"}
    MaxBotFaults = 1
    \* Radar
    Combos = {c1, c2}
    PassesPerDay = 5
    LastPass = 5
    MaxPerDay = 2
    RadarCooldown = 2
    DigestGap = 2
    Horizon = 4
    MinDecided = 1
    MaxRows = 3
    RadarFaults = {"drop", "raise", "lag", "crash"}
    MaxRadarFaults = 1
    \* OrderConfirm
    OrderCalls = 2
    OrderQty = 2
    MaxPolls = 3
PROPERTY CommandsRunInOrder
PROPERTY RadarAlertsAreKept
INVARIANT UnfilledOrderIsDead
PROPERTY OrderRefinesOutcome
PROPERTY EveryCallReturns
CHECK_DEADLOCK FALSE
