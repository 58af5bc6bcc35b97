SPECIFICATION StalledReader
CONSTANTS
    SPI_TX_QUEUE_SIZE = 10
    SPI_RX_QUEUE_SIZE = 10
    CONFIG_ESP_CACHE_MALLOC = TRUE
    HeapBlocks = 0
    TxClasses <- MCNetAndBt
    RxClasses <- MCNetAndBt
    MaxId = 1
INVARIANT NeverCrashes
CHECK_DEADLOCK FALSE
