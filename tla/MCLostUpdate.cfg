\* A receipt overlaps a manual release.
SPECIFICATION Spec
CONSTANTS
    east = east
    west = west
    pen = pen
    ink = ink
    NoWorker = NoWorker
    NoKey = NoKey
    EmptyKey = EmptyKey
    Workers = {w1, w2, w3}
    Products = {pen}
    Warehouses = {east}
    InitialStock <- OneEach
    InitialUsed <- MCInitialUsed
    InventoryId <- MCInventoryId
    Capacity <- Unlimited
    Carts <- SingleCarts
    Keys = {NoKey}
    OverlappingCancels = TRUE
    ManualQuantities = {1}
    Deliveries = {1}
    OverlappingReceipts = {east}
    MaxRequests = 4
SYMMETRY WorkerSymmetry
CHECK_DEADLOCK FALSE
INVARIANTS
    AvailableMatchesMovements
