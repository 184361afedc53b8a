CONSTANTS
    Symbol = {1, 2}
    MinQuoteVolume = 1
    MaxQuoteVolume = 2
    MaxUniverse = 2
    Btc = 1
    Permanent = {}
    Window = 1
    Tolerance = 0
    MaxAge = 1
    MinSpan = 3
    MinPoints = 3
    HistoryPoints = 5
    MinMove = 3
    MinRatio = 2
    Proximity = 50
    MaxDynamic = 1
    Score = {0, 1}
    BasePrice = 100
    Swings = {4}
    MaxSwings = 2
    Calm = 1
    Burst = 5
    Hour = 16
    Quiet = 1
    BusyAt = 5
    Busy = 8
    KlineDelay = 1
    MaxLost = 1
    KlineEvery = 5
    Horizon = 5
SPECIFICATION Spec
CHECK_DEADLOCK FALSE
INVARIANTS TypeOK MoveHappened
PROPERTIES VolumeWasTraded SurgeIsPublished
