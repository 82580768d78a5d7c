\* A status is written that was read before another request changed it.
SPECIFICATION Spec
CONSTANTS
    Workers = {w1, w2}
    OrderIds = {1}
    Overlapping = {1}
    MaxRequests = 6
SYMMETRY WorkerSymmetry
CHECK_DEADLOCK FALSE
PROPERTIES
    TransitionsAllowed
