\* Orders with and without keys; no order is cancelled while it is being cancelled.
SPECIFICATION Spec
CONSTANTS
    east = east
    west = west
    pen = pen
    ink = ink
    NoWorker = NoWorker
    NoKey = NoKey
    EmptyKey = EmptyKey
    Workers = {w1, w2, w3}
    Products = {pen, ink}
    Warehouses = {east, west}
    InitialStock <- TwoInEast
    InitialUsed <- MCInitialUsed
    InventoryId <- MCInventoryId
    Capacity <- Unlimited
    Carts <- SplitThenInk
    Keys = {k, EmptyKey, NoKey}
    OverlappingCancels = FALSE
    ManualQuantities = {}
    Deliveries = {}
    OverlappingReceipts = {east, west}
    MaxRequests = 5
SYMMETRY WorkerSymmetry
CHECK_DEADLOCK FALSE
INVARIANTS
    StockConserved
    OrdersFullyAllocated
    AllocationsBacked
    KeyExclusive
    OneOrderPerKey
    KeyedAnswersRight
PROPERTIES
    PlacesOnce
