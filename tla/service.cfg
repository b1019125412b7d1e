SPECIFICATION Spec
INVARIANTS CallsOK SuccessIsApplied CallbackUnlessRaced
PROPERTIES EveryCallReturns
CONSTANTS
    c1 = c1
    c2 = c2
    t1 = t1
    t2 = t2
    t3 = t3
    Clients = {c1, c2}
    Threads = {t1, t2, t3}
    ProcOf <- MCProcOf
    Keys = {"k"}
    Interval = 1
    Scenarios <- AllScenarios
    None = None
CHECK_DEADLOCK FALSE
