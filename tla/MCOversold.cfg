\* A cancelled order is shipped after its stock was released.
SPECIFICATION OMSSpec
CONSTANTS
    east = east
    west = west
    pen = pen
    ink = ink
    NoWorker = NoWorker
    NoKey = NoKey
    EmptyKey = EmptyKey
    Workers = {w1, w2}
    Products = {pen}
    Warehouses = {east}
    InitialStock <- OneEach
    InitialUsed <- MCInitialUsed
    InventoryId <- MCInventoryId
    Capacity <- Unlimited
    Carts <- OnePen
    Keys = {NoKey}
    OverlappingCancels = TRUE
    ManualQuantities = {}
    Deliveries = {}
    OverlappingReceipts = {east}
    ReturnRequests <- PenReturns
    Delivered <- NoOrders
    Overlapping = {}
    WorkOnCancelled = TRUE
    MaxRequests = 12
SYMMETRY WorkerSymmetry
CHECK_DEADLOCK FALSE
INVARIANTS
    NothingSoldTwice
