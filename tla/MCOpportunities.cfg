CONSTANTS
    Symbol = {1, 2}
    Score = {1}
    Watch = {2}
    Served = 2
    Limits = {1, 2}
    Floors = {0, 2}
    MaxAlerts = 3
SPECIFICATION Spec
INVARIANTS TypeOK NothingMissed NewestAlertShown
