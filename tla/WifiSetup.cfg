SPECIFICATION MCSpec
CONSTANTS
    a1 = a1
    a2 = a2
    NoAP = NoAP
    AP <- MCAP
    Match <- MCMatch
    Virtual <- MCVirtual
    WIFI_MAX_RECONNECT_TIMEOUT = 8
    WEB_RECONNECT_TIMEOUT = 4
    BROADCAST_TIME = 4
    TRY_CONNECT_TIMEOUT = 2
    LAST_SCAN_TIMEOUT = 3
    TIMER_POLLING_PERIOD = 2
    PROV_MGR_MAX_RETRY_CNT = 2
    MaxEvents = 1
    MaxPosts = 2
    MaxOtas = 2
    Forms <- MCForms
    MaxRestarts = 1
INVARIANTS TypeOK AttemptsTimed HeadExists OkNeedsGotIp RestartBoots OneDelete
PROPERTY SetupEnds
CHECK_DEADLOCK FALSE
