SPECIFICATION MCSpec
CONSTANTS
    Writer <- MCWriter
    ESP_TX_BUFFER_MAX = 3
    ESP_RX_BYTE_MAX = 3
    ESP_MAX_BUF_CNT = 2
    TX_MAX_PENDING_COUNT = 1
    TX_RESUME_THRESHOLD = 1
    Lengths <- MCLengths
    MaxPackets = 3
    MaxFaults = 1
    MaxRemoves = 1
INVARIANTS TypeOK CountersAgree PendingExact
PROPERTIES DropMeansFull OfferIsRead StoppedResumes
CHECK_DEADLOCK FALSE
