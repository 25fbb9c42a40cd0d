SPECIFICATION Spec
CONSTANTS
    Targets = {1, 3}
    SlRupees = 1
    SlAtr = 0
    ReentryGap = 2
    ReentryGapPct = 0
    ReentryGapAtr = 0
    RegimeFilter = "trend"
    Live = TRUE
    Qty = 1
    MaxDailyLoss = 2
    BlockReentryAfterStop = TRUE
    Charges = 0
    Prices = {2, 3, 5, 6}
    Markets <- MCMarkets
    MaxOrders = 4
    MaxDay = 2
    Faults = {}
    MaxGlitches = 0
    None = None
PROPERTY FilledStopIsBooked
