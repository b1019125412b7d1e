CONSTANTS
    Keys = {k1, k2, k3}
    k1 = k1
    k2 = k2
    k3 = k3
    Empty = Empty
    Vals = {v1, Empty}
    Setups <- AllSetups
SPECIFICATION Spec
INVARIANTS TableOK FileExact
PROPERTIES GrowsWhenFull ActsAsMap
CHECK_DEADLOCK FALSE
