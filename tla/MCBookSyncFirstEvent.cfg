CONSTANTS
    Market = "usd_m_futures"
    Price = {1, 2}
    Qty = {0, 1}
    SnapshotLimit = 1
    MessageLimit = 4
    SnapshotLag = 0
    MaxUpdateId = 4
    MaxInbox = 2
    MaxFaults = 2
SPECIFICATION Spec
PROPERTY FirstEventBridges
CHECK_DEADLOCK FALSE
