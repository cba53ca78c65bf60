CONSTANTS
    Senders = {"a", "b"}
    Txs <- DeferredTxs
    Ask = 10
    GasLimit = 3
    MaxSync = 4
    MaxBlocks = 1
SPECIFICATION UntimedSpec
PROPERTY SyncTerminates
CHECK_DEADLOCK FALSE
