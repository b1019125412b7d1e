CONSTANTS
    Schedulers = {s1, s2}
    Cores = {c1}
    Tasks = {t1, t2, t3, t4}
    s1 = s1
    s2 = s2
    t1 = t1
    t2 = t2
    t3 = t3
    t4 = t4
    None = None
    Children <- CrossChildren
    OutputSize <- CrossOutput
    Submission <- BestCase
    DataSizeThreshold = 0
    WorkStealingOn = FALSE
    FLWS = FALSE
    NumNeigh = 1
    MaxTaskPerPkg = 1
    PollLimit = 1
SPECIFICATION Spec
INVARIANTS TypeOK OnePlace IndegreeExact DataInPlace OneConversation CounterExact
PROPERTIES ReadyIsFinal ExecutesTaskGraph
