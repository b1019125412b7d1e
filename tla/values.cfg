CONSTANTS
    a = a
    b = b
    Clients = {0, 1}
    DagTypes = {"BOT", "FanOut", "FanIn", "Pipeline"}
    MaxArg = 3
    MaxTask = 5
SPECIFICATION MCSpec
INVARIANTS EdgesForward EveryTaskHasMetadata FanInMirrorsFanOut IndegreeCountsParents WireFormat
PROPERTIES EveryTaskRuns WholeObject ReadsWhatItStored
SYMMETRY Symmetry
CHECK_DEADLOCK FALSE
