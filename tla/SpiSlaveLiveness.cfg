SPECIFICATION FairSpec
CONSTANTS
    SPI_TX_QUEUE_SIZE = 1
    SPI_RX_QUEUE_SIZE = 1
    CONFIG_ESP_CACHE_MALLOC = FALSE
    HeapBlocks <- MCHeapShort
    TxClasses <- MCBt
    RxClasses <- MCOthers
    MaxId = 2
PROPERTIES
    ChainReturns
    HciLeaves
CHECK_DEADLOCK FALSE
