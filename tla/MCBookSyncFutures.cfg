CONSTANTS
    Market = "usd_m_futures"
    Price = {1, 2}
    Qty = {0, 1}
    SnapshotLimit = 1
    MessageLimit = 2
    SnapshotLag = 1
    MaxUpdateId = 3
    MaxInbox = 2
    MaxFaults = 2
SPECIFICATION Spec
PROPERTIES Settles ImplementsView
CHECK_DEADLOCK FALSE
