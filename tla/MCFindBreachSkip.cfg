SPECIFICATION KittySpec
CONSTANTS
    FirstDay = 4
    LastDay = 8
    KittyPrices = {7, 11, 13}
    EntryPrice = 10
    TargetGap = 2
    StopGap = 1
    BreakevenGap = 1
    KittyQty = 1
    Capital = 20
    DailyLossLimit = 3
    DrawdownPct = 20
    KittyLive = TRUE
    StreakHalt = FALSE
    MaxLosingDays = 2
    KittyFaults = {}
    MaxKittyFaults = 0
    NoPosition = NoPosition
    NoTick = NoTick
PROPERTY BreachSkipsNextDay
CHECK_DEADLOCK FALSE
