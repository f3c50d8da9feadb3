\* Five timers make a heap of three levels, with an inner position that has one child only.
SPECIFICATION Spec
CONSTANTS
    Keys = {k1, k2, k3, k4, k5}
    Lifetime = 1
    MaxNow = 2
INVARIANTS
    TypeOK
    HeapOrder
    IndexExact
PROPERTIES
    ImplementsTimers
    SiftEnds
