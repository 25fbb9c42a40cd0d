SPECIFICATION PartsSpec
CONSTANTS
    \* JsonStore
    w1 = w1
    w2 = w2
    w3 = w3
    pa = pa
    pb = pb
    Writers = {w1, w2, w3}
    StoreReaders = {reader}
    Processes = {pa, pb}
    ProcessOf <- MCProcessOf
    Nobody = Nobody
    Torn = Torn
    NoFile = NoFile
    \* Ledger
    LedgerStrategies <- MCLedgerStrategies
    Grosses <- MCGrosses
    ChargeSet = {13}
    MaxLedgerRows = 2
    LastLedgerDay = 4
    WeekDays = 2
    MaxLedgerFaults = 1
    NoNet = NoNet
    \* KittyBot
    FirstDay = 5
    LastDay = 8
    KittyPrices = {7, 11, 13}
    EntryPrice = 10
    TargetGap = 2
    StopGap = 1
    BreakevenGap = 1
    KittyQty = 1
    Capital = 20
    DailyLossLimit = 3
    DrawdownPct = 20
    KittyLive = TRUE
    StreakHalt = TRUE
    MaxLosingDays = 2
    KittyFaults = {"crash", "nofill", "late", "raise"}
    MaxKittyFaults = 1
    NoPosition = NoPosition
    NoTick = NoTick
    \* KittyPicks
    FallbackUniverse <- MCUniverse
    Frames <- MCFrames
    HandMade <- MCHand
    MaxPicks = 2
    MinRows = 20
    MinAdtv = 50
    RewardRisk = 2
    MaxGap = 30
    OpenQuotes <- MCOpen
    Ranges <- MCRanges
    TickPrices = {970, 1000, 1015, 1030}
    TickVolumes = {10, 40}
    VolumeMultiple = 2
    TradeCapital = 100000
    RiskPct = 10
    NoPick = NoPick
    NoQuote = NoQuote
    NoTrade = NoTrade
    \* Supertrend
    StDays = 2
    StPrices = {8, 14}
    StSignalPrices = {10}
    StAtr = 2
    StCapital = 64
    StRisk = 8
    StMaxLoss = 12
    StCharge = 1
    StSlip = {0}
    MaxStBuys = 3
    StFaults = {"nofill", "late", "unknown", "save", "crash", "paper"}
    MaxStFaults = 1
    NoStPosition = NoStPosition
    \* SupertrendLine
    StlBars <- MCStlBars
    MaxStlBars = 6
    AtrPeriod = 3
    AtrTimes = 1
    \* Intraday
    IntradayPrices = {1375, 1382, 1400}
    Histories <- MCHistories
    SessionHistories <- MCSessions
    OrbEnd = 1
    OpenEntryUntil = 1
    TightenAt = 2
    NoEntryAt = 3
    SquareOffAt = 4
    CloseSlot = 5
    IdCapital = 10000
    RiskRupees = 250
    NoHolding = NoHolding
    \* Predictor
    PredictorPrices = {1340, 1378, 1425}
    Averages = {1390, 1400}
    Atrs = {20, 60}
    Months = {3, 7}
    PredictorCapital = 10000
    PredictorRisk = 250
    MaxBriefedDays = 2
    \* ScoreRules
    PivotBars <- MCPivotBars
    ScorePrices = {85, 96, 99, 101, 106, 112, 125}
    Rsis = {25, 40, 50, 60, 72}
    Vwaps = {0, 98}
    Sentiments <- MCSentiments
    VolumeRatios = {50, 100, 250}
    Regimes = {"Trending Up", "Trending Down", "Ranging", "Unknown"}
PROPERTY StoreRefinesRegister
PROPERTY LedgerTellsEveryTrade
PROPERTY KittyKeepsItsRails
INVARIANT PicksArePrudent
PROPERTY SupertrendBooks
PROPERTY LineIsATrailingStop
PROPERTY IntradayIsConsistent
INVARIANT PredictionsAgree
PROPERTY ScoresAreBalanced
CHECK_DEADLOCK FALSE
