\* Rows are created while goods are received for the first time.
SPECIFICATION CatalogFairSpec
CONSTANTS
    east = east
    west = west
    pen = pen
    ann = ann
    NoWorker = NoWorker
    NoEntry = NoEntry
    Workers = {w1, w2, w3}
    Products = {pen}
    Warehouses = {east, west}
    Emails = {ann}
    Bins = {bin}
    Listed <- PenAndEast
    InitialStock <- NothingYet
    InitialUsed <- MCInitialUsed
    Capacity <- CapacityTwo
    ManualQuantities = {1}
    Deliveries = {1, 2}
    OverlappingReceipts = {east}
    MaxRequests = 4
CHECK_DEADLOCK FALSE
INVARIANTS
    CatalogTypeOK
    UniqueKeys
    FirstReceiptUnopposed
    UsedNeverOverstated
    UsedMatchesReceipts
    CapacityRespected
PROPERTIES
    CatalogRequestsEnd
