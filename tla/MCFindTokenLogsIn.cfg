SPECIFICATION BSpec
CONSTANTS
    BotDays = 2
    MaxUpdates = 3
    FreshTokens = {lo, up}
    LowerToken = lo
    UpperToken = up
    CommandSet = {"HALT", "TOKEN", "other"}
    BotFaults = {}
    MaxBotFaults = 0
INVARIANT TokenLogsIn
CHECK_DEADLOCK FALSE
