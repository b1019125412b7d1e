SPECIFICATION Spec
INVARIANTS AllRegisteredFirst QueuesOK
PROPERTIES AllStart
CONSTANTS
    NumScheduler = 3
    NumClient = 2
    NumTaskPerClient = 4
    SubmitModes = {"bestcase", "worstcase"}
CHECK_DEADLOCK FALSE
