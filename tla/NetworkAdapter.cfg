SPECIFICATION MCSpec
CONSTANTS
    n1 = n1
    n2 = n2
    r1 = r1
    r2 = r2
    b1 = b1
    NetTasks <- MCNetTasks
    ResetTasks <- MCResetTasks
    BtTasks <- MCBtTasks
    TO_HOST_QUEUE_SIZE = 1
    MallocFails <- MCMallocFails
    MaxCalls = 1
    MaxProbes = 3
INVARIANTS
    TypeOK
    QueuesInStep
PROPERTIES
    ImplementsHostChannel
    SendersReturn
    LinkComesBack
CHECK_DEADLOCK FALSE
