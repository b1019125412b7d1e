SPECIFICATION Spec
CONSTANTS
    NumScheduler = 3
    NumClient = 2
    NumTaskPerClient = 4
    SubmitModes = {"bestcase", "worstcase"}
CHECK_DEADLOCK FALSE
INVARIANT NobodyRefused
