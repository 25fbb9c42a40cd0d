SPECIFICATION TSpec
CONSTANTS
    TFirstDay = 4
    TLastDay = 8
    Holidays = {4}
    Cooldown = 2
    MayLogIn = TRUE
    TFaults = {"login"}
    MaxTFaults = 1
INVARIANT EachTradingDayLogsIn
CHECK_DEADLOCK FALSE
