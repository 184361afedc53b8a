CONSTANTS
    Symbol = {s1, s2}
    OnFutures = {s1}
    Marks = {{"stage1_market_anomaly"}, {"structure"}}
    MinGroups = 2
    TickerLimit = 0
    Cooldown = 1
    WebhookEnabled = TRUE
    MaxRetries = 1
    MaxAlerts = 2
    MaxListed = 2
SPECIFICATION Spec
INVARIANTS TypeOK AlertsAccounted DeliveryAccounted
PROPERTIES RoundsEnd FuturesNeverSilences
CHECK_DEADLOCK FALSE
