SPECIFICATION Spec
CONSTANTS
    SPI_TX_QUEUE_SIZE = 1
    SPI_RX_QUEUE_SIZE = 1
    CONFIG_ESP_CACHE_MALLOC = FALSE
    HeapBlocks <- MCHeapOne
    TxClasses <- MCNetAndBt
    RxClasses <- MCOthers
    MaxId = 3
INVARIANTS
    TypeOK
    PermitsMatchPackets
    BlocksConserved
    ChainSound
    InOrder

