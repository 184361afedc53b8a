CONSTANTS
    Market = "usd_m_futures"
    Price = {1, 2}
    Qty = {0, 1}
    SnapshotLimit = 1
    MaxUpdateId = 3
    MaxBuffer = 2
SPECIFICATION Spec
INVARIANTS TypeOK ValidMatchesExchange BufferInOrder
PROPERTIES SnapshotCatchesUp OnlySnapshotsRepair
