\* Orders race receipts.
SPECIFICATION SalesSpec
CONSTANTS
    east = east
    west = west
    pen = pen
    ink = ink
    NoWorker = NoWorker
    NoKey = NoKey
    EmptyKey = EmptyKey
    Workers = {w1, w2, w3}
    Products = {pen}
    Warehouses = {east, west}
    InitialStock <- OneEach
    InitialUsed <- MCInitialUsed
    InventoryId <- MCInventoryId
    Capacity <- Unlimited
    Carts <- RepeatedCarts
    Keys = {NoKey}
    OverlappingCancels = TRUE
    ManualQuantities = {}
    Deliveries = {1}
    OverlappingReceipts = {east, west}
    MaxRequests = 5
SYMMETRY WorkerSymmetry
CHECK_DEADLOCK FALSE
INVARIANTS
    AvailableMatchesMovements
    ReceiptPassesChecks
