CONSTANTS
    Market = "spot"
    Price = {1, 2}
    Qty = {0, 1}
    SnapshotLimit = 1
    MessageLimit = 2
    SnapshotLag = 1
    MaxUpdateId = 4
    MaxInbox = 2
    MaxFaults = 2
SPECIFICATION Spec
INVARIANTS TypeOK PublishedBookIsTrue StampedIffUsable BufferHeldBySnapshots
PROPERTIES NeverRewinds NoSpuriousResync Settles
CHECK_DEADLOCK FALSE
