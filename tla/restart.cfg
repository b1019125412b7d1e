CONSTANTS
    Keys = {k1, k2, k3}
    k1 = k1
    k2 = k2
    k3 = k3
    Empty = Empty
    Vals = {v1, Empty}
    Setups <- OneRestart
SPECIFICATION Spec
PROPERTIES RestartKeepsTable
CHECK_DEADLOCK FALSE
