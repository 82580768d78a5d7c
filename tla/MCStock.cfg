\* All operations at once.
SPECIFICATION Spec
CONSTANTS
    east = east
    west = west
    pen = pen
    ink = ink
    NoWorker = NoWorker
    NoKey = NoKey
    EmptyKey = EmptyKey
    Workers = {w1, w2, w3}
    Products = {pen}
    Warehouses = {east, west}
    InitialStock <- TwoInEast
    InitialUsed <- MCInitialUsed
    InventoryId <- MCInventoryId
    Capacity <- Unlimited
    Carts <- SplitCarts
    Keys = {NoKey}
    OverlappingCancels = TRUE
    ManualQuantities = {1}
    Deliveries = {1, 2}
    OverlappingReceipts = {east, west}
    MaxRequests = 5
SYMMETRY WorkerSymmetry
CHECK_DEADLOCK FALSE
INVARIANTS
    TypeOK
    ReservedMatchesMovements
    OnHandMatchesReceipts
    NoOversell
    StockInv
    ValidatedBeforeChecks
PROPERTIES
    LockedRowsStable
    KeepsAccount
