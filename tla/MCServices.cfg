SPECIFICATION PartsSpec
CONSTANTS
    \* TrackerDay
    TFirstDay = 4
    TLastDay = 8
    Holidays = {4}
    Cooldown = 2
    MayLogIn = TRUE
    TFaults = {"login", "nodata", "drop", "raise", "crash"}
    MaxTFaults = 1
    \* Watchdog
    PreOpenTick = 1
    OpenTick = 4
    CloseTick = 8
    LastTick = 9
    StaleTicks = 3
    MaxStalls = 2
    \* NewsMonitor
    Titles = {t1, t2, t3, t4}
    Positive = {t1, t2}
    MaxFeed = 2
    RecentTicks = 1
    WindowTicks = 3
    LastNewsTick = 6
    MaxNewsFaults = 1
    NoneShift = NoneShift
    \* Crypto
    Coins = {"BTC"}
    CPassesPerDay = 5
    MorningPasses = {1, 2}
    EveningPasses = {3}
    LastCPass = 5
    SignalCooldown = 3
    MaxAge = 5
    CPrices = {97, 103}
    Readings <- MCReadings
    CHorizons = {"1d", "3d"}
    Delta <- MCDelta
    Threshold <- MCThreshold
    MaxCRows = 2
    CFaults = {"nodata", "drop", "database", "crash"}
    MaxCFaults = 1
    \* CryptoRules
    CoinPrices = {90, 101, 110}
    CoinEmas = {0, 97, 100, 103}
    CoinBands <- MCBands
    CoinRsis = {20, 50, 75}
    WeekChanges <- MCWeekChanges
    CoinVolumes = {50, 100, 250}
    Invested <- MCInvested
    Values = {0, 40, 60, 61, 100, 125}
    FeeRate = 40
    \* RadarRules
    RadarStocks <- RRStocks
    CoreStocks = {"EMCURE"}
    RadarMinAdtv = 100
    Snapshots <- RRSnaps
    MinRR = 1
    StopAtrTenths = 8
    ScoreGate = 75
    ReversionGate = 55
    RadarBars <- RRBars
    MaxRadarBars = 2
    \* HitRates
    HitBars <- MCHitBars
    MaxHitBars = 6
    HitTargets = {1, 2, 3}
    HitStop = 2
    HorizonDays = 2
    EntryShare = 70
    TouchDays = 2
    Lookbacks <- MCLookbacks
    MinReachBars = 3
    Levels = {99, 101, 103}
    \* DayBacktest
    BtSeeds <- MCSeeds
    BtBars <- MCBtBars
    MaxBtDays = 4
    BtCapital = 10000
    BtRisk = 140
    HoldDays = 2
    MonthDays = 2
    \* SwingLab
    SwingStocks <- MCStocks
    SwingDays <- MCSwingDays
    MaxSwingDays = 6
    SwingCapital = 1500000
    RiskCap = 30000
    SwingScoreGate = 80
    MaxHoldDays = 3
    MaExits = FALSE
    NoSwing = NoSwing
    \* CryptoLab
    ClSeeds <- MCClSeeds
    ClBars <- MCClBars
    MaxClDays = 5
    BelowSmaPct = 4
    TargetPct = 5
    SlPct = 8
    ClHoldDays = 2
PROPERTY TrackerTellsTheDay
INVARIANT WatchdogTellsTheTruth
PROPERTY NewsCountsOnce
PROPERTY CryptoAlertsAreKept
PROPERTY CoinRulesHold
INVARIANT RadarRulesHold
INVARIANT OddsAreFair
PROPERTY BacktestIsHonest
PROPERTY SwingLabIsHonest
PROPERTY LabTradesAreReal
CHECK_DEADLOCK FALSE
