SPECIFICATION FairSpec
CONSTANTS
    NetDev <- MCNetDev
    TX_MAX_PENDING_COUNT = 3
    TX_RESUME_THRESHOLD = 3
    MaxNet = 4
    MaxEvents = 2
INVARIANTS TypeOK CountFollowsQueue WorkNoticed
PROPERTIES StoppedResumes
CHECK_DEADLOCK FALSE
