CONSTANTS
    Runs = {r1, r2}
    ServeLimit = 2
    SeenLimit = 2
    NoticeInterval = 1
    MaxAlerts = 3
    MaxTime = 2
    MaxFaults = 1
SPECIFICATION Spec
INVARIANTS TypeOK ShownOnce RememberedIsAccounted
PROPERTIES ServedIsShown
