\* Requests about all orders overlap, with receipts and manual operations.
SPECIFICATION OMSFairSpec
CONSTANTS
    east = east
    west = west
    pen = pen
    ink = ink
    NoWorker = NoWorker
    NoKey = NoKey
    EmptyKey = EmptyKey
    Workers = {w1, w2}
    Products = {pen, ink}
    Warehouses = {east}
    InitialStock <- TwoEach
    InitialUsed <- MCInitialUsed
    InventoryId <- MCInventoryId
    Capacity <- Unlimited
    Carts <- CrossedCarts
    Keys = {NoKey}
    OverlappingCancels = TRUE
    ManualQuantities = {1}
    Deliveries = {1}
    OverlappingReceipts = {east}
    ReturnRequests <- CrossedReturns
    Delivered <- PenAndInk
    Overlapping = {1, 2, 3, 4}
    WorkOnCancelled = TRUE
    MaxRequests = 4
CHECK_DEADLOCK FALSE
INVARIANTS
    OMSTypeOK
    LedgerExplainsStock
    OnHandBounded
PROPERTIES
    OMSRequestsEnd
