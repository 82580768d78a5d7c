\* The whole life of an order beside that of one that was delivered before.
SPECIFICATION OMSSpec
CONSTANTS
    east = east
    west = west
    pen = pen
    ink = ink
    NoWorker = NoWorker
    NoKey = NoKey
    EmptyKey = EmptyKey
    Workers = {w1, w2}
    Products = {pen}
    Warehouses = {east, west}
    InitialStock <- TwoEach
    InitialUsed <- MCInitialUsed
    InventoryId <- MCInventoryId
    Capacity <- Unlimited
    Carts <- TwoPens
    Keys = {NoKey}
    OverlappingCancels = TRUE
    ManualQuantities = {}
    Deliveries = {}
    OverlappingReceipts = {east, west}
    ReturnRequests <- PenReturns
    Delivered <- SplitPens
    Overlapping = {}
    WorkOnCancelled = FALSE
    MaxRequests = 10
SYMMETRY WorkerSymmetry
CHECK_DEADLOCK FALSE
INVARIANTS
    ReturnsWithinOrder
    RestockedOnce
    RestockComplete
    ReservedIsAllocated
    ReturnedWasDelivered
    NothingSoldTwice
PROPERTIES
    ReturnTransitions
