\* Requests about order 1 come one at a time, those about order 2 overlap.
SPECIFICATION Spec
CONSTANTS
    Workers = {w1, w2}
    OrderIds = {1, 2}
    Overlapping = {2}
    MaxRequests = 11
SYMMETRY WorkerSymmetry
CHECK_DEADLOCK FALSE
INVARIANTS
    TypeOK
    ShippedWasPacked
    PackedAndShippedOnce
    StatusShowsStage
PROPERTIES
    FollowsJourney
