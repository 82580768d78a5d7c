\* Two returns of an item overlap.
SPECIFICATION OMSSpec
CONSTANTS
    east = east
    west = west
    pen = pen
    ink = ink
    NoWorker = NoWorker
    NoKey = NoKey
    EmptyKey = EmptyKey
    Workers = {w1, w2}
    Products = {pen}
    Warehouses = {east, west}
    InitialStock <- OneEach
    InitialUsed <- MCInitialUsed
    InventoryId <- MCInventoryId
    Capacity <- Unlimited
    Carts <- TwoPens
    Keys = {NoKey}
    OverlappingCancels = TRUE
    ManualQuantities = {}
    Deliveries = {}
    OverlappingReceipts = {east, west}
    ReturnRequests <- WholeReturns
    Delivered <- SplitPens
    Overlapping = {1}
    WorkOnCancelled = FALSE
    MaxRequests = 5
SYMMETRY WorkerSymmetry
CHECK_DEADLOCK FALSE
INVARIANTS
    ReturnsWithinOrder
